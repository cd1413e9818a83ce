----------------------------- MODULE EntityMerge -----------------------------
(***************************************************************************)
(* What becomes of the detections of one text: merge_entities of            *)
(* pii/entity.py, then apply_allow_list of pii/allow_list.py, as            *)
(* PIIEngine._detect_all_detailed calls them.                              *)
(*                                                                         *)
(* A detection covers the characters start, ..., end - 1.  The detections   *)
(* are a set: one reported twice is merged into itself.  The order of those *)
(* with the same span, which follows the detectors', is left open.  What an *)
(* entry of the allow list matches is given as the spans of its value.      *)
(***************************************************************************)
EXTENDS Integers, Sequences, FiniteSets

CONSTANTS
    TextEnd,      \* the end of the text
    Types,        \* entity types
    Blocked,      \* pii.block_entities
    Irreversible, \* types whose method is mask or redact
    SecretType,   \* the type every allow list entry must name to touch
    Sources,      \* detectors
    Presidio,     \* the one "presidio_priority" prefers
    Scores,
    Rules         \* entries of the allow list: the spans they match, and whether
                  \* and which entity types they name

Spans == {s \in (0..TextEnd) \X (0..TextEnd) : s[1] < s[2]}
Entity == {e \in [type : Types, start : 0..TextEnd, end : 0..TextEnd,
                  score : Scores, source : Sources] : e.start < e.end}

ASSUME MergeConstantsOK ==
    /\ TextEnd \in Nat
    /\ Blocked \subseteq Types /\ Irreversible \subseteq Types
    /\ SecretType \in Types
    /\ Scores \subseteq Nat
    /\ Rules \subseteq [spans : SUBSET Spans, named : BOOLEAN, types : SUBSET Types]

VARIABLES
    pc,           \* "detecting" | "merge" | "exempt" | "report" | "failed"
    strategy,     \* merge_strategy: "union" | "intersection"
    resolution,   \* overlap_resolution
    rules,        \* the allow list
    raw,          \* all_entities
    todo,         \* the detections still to be merged
    merged,       \* merged: entities in the order of the text
    weighed,      \* the detections the allow list has looked at
    verdict,      \* index of merged -> "none" | "allowed" | "refused"
    allowedUnder, \* indexes with an allowed detection under them
    refused,      \* the detections no entry allows
    report        \* [redacted, allowed, notAllowed]: sets of detections

configVars == <<strategy, resolution, rules>>
allowVars == <<weighed, verdict, allowedUnder, refused>>
mergeVars == <<pc, configVars, raw, todo, merged, allowVars, report>>

NoReport == [redacted |-> {}, allowed |-> {}, notAllowed |-> {}]

Elements(q) == {q[i] : i \in DOMAIN q}

MergeInit ==
    /\ pc = "detecting"
    /\ strategy \in {"union", "intersection"}
    /\ resolution \in {"highest_score", "longest_span", "presidio_priority"}
    /\ rules \in SUBSET Rules
    /\ raw = {} /\ todo = {} /\ merged = <<>>
    /\ weighed = {} /\ verdict = <<>> /\ allowedUnder = {} /\ refused = {}
    /\ report = NoReport

-----------------------------------------------------------------------------
(* merge_entities *)

Length(e) == e.end - e.start
Overlap(a, b) == a.start < b.end /\ b.start < a.end

\* The order of the sorted list: start ascending, length descending.
Before(a, b) == a.start < b.start \/ (a.start = b.start /\ Length(a) > Length(b))

\* The detections an intersection keeps: two different detectors agree on them.
Confirmed(R) == {e \in R : \E f \in R : f.source # e.source /\ Overlap(e, f)}
Kept == IF strategy = "intersection" THEN Confirmed(raw) ELSE raw

\* _type_priorities
Priority(t) == IF t \in Blocked THEN 2 ELSE IF t \in Irreversible THEN 1 ELSE 0

EffectiveResolution == IF strategy = "intersection" THEN "highest_score" ELSE resolution

\* Whether a, already merged, keeps its type against b; only a type of the same
\* policy is contested by the configured resolution.
ResolutionKeeps(a, b) ==
    IF EffectiveResolution = "longest_span" THEN Length(a) >= Length(b)
    ELSE IF EffectiveResolution = "presidio_priority"
            /\ (a.source = Presidio) # (b.source = Presidio)
    THEN a.source = Presidio
    ELSE a.score >= b.score

KeepsByResolution(a, b) ==
    IF a.type = b.type THEN a.score >= b.score ELSE ResolutionKeeps(a, b)

Keeps(a, b) ==
    IF a.type = b.type THEN a.score >= b.score
    ELSE IF Priority(a.type) # Priority(b.type) THEN Priority(a.type) > Priority(b.type)
    ELSE ResolutionKeeps(a, b)

Winner(a, b) == IF Keeps(a, b) THEN a ELSE b

WidenedNever(last, e) == Winner(last, e)

\* The union of the two spans, under the name of the winner.
Widened(last, e) ==
    [Winner(last, e) EXCEPT !.start = last.start,
                            !.end = IF last.end >= e.end THEN last.end ELSE e.end]

\* The detectors have answered: asyncio.gather returns.
Gather(R) ==
    /\ pc = "detecting"
    /\ pc' = "merge"
    /\ raw' = R
    /\ todo' = IF strategy = "intersection" THEN Confirmed(R) ELSE R
    /\ UNCHANGED <<configVars, merged, allowVars, report>>

\* One of them failed.
DetectorFails ==
    /\ pc = "detecting"
    /\ pc' = "failed"
    /\ UNCHANGED <<configVars, raw, todo, merged, allowVars, report>>

\* The loop of _merge_union.
MergeOne(e) ==
    LET n == Len(merged) IN
    /\ pc = "merge"
    /\ e \in todo /\ \A f \in todo : ~Before(f, e)
    /\ merged' = IF n > 0 /\ e.start < merged[n].end
                 THEN [merged EXCEPT ![n] = Widened(merged[n], e)]
                 ELSE Append(merged, e)
    /\ todo' = todo \ {e}
    /\ UNCHANGED <<pc, configVars, raw, allowVars, report>>

-----------------------------------------------------------------------------
(* apply_allow_list *)

\* AllowRule.allows, with the value of the detection by its span.
Allows(rule, e) ==
    /\ IF rule.named THEN e.type \in rule.types ELSE e.type \notin {SecretType} \cup Blocked
    /\ <<e.start, e.end>> \in rule.spans

Exempt(e) == \E rule \in rules : Allows(rule, e)

SortedAndDisjoint ==
    \A i \in 1..Len(merged) - 1 :
        merged[i].end <= merged[i + 1].start /\ merged[i].start <= merged[i + 1].start

TouchedAdjacent(e) ==
    IF SortedAndDisjoint
    THEN Cardinality({i \in 1..Len(merged) : merged[i].end < e.start}) + 1 ..
         Cardinality({i \in 1..Len(merged) : merged[i].start < e.end})
    ELSE {i \in 1..Len(merged) : Overlap(merged[i], e)}

\* The merged spans a detection overlaps: bisect_right over the ends and bisect_left
\* over the starts, or one comparison each when they are not in order.
Touched(e) ==
    IF SortedAndDisjoint
    THEN Cardinality({i \in 1..Len(merged) : merged[i].end <= e.start}) + 1 ..
         Cardinality({i \in 1..Len(merged) : merged[i].start < e.end})
    ELSE {i \in 1..Len(merged) : Overlap(merged[i], e)}

MergeEnds ==
    /\ pc = "merge" /\ todo = {}
    /\ IF rules = {} \/ merged = <<>>
       THEN /\ pc' = "report"
            /\ report' = [NoReport EXCEPT !.redacted = Elements(merged)]
            /\ UNCHANGED verdict
       ELSE /\ pc' = "exempt"
            /\ verdict' = [i \in 1..Len(merged) |-> "none"]
            /\ UNCHANGED report
    /\ UNCHANGED <<configVars, raw, todo, merged, weighed, allowedUnder, refused>>

Weigh(e) ==
    /\ pc = "exempt"
    /\ e \in raw \ weighed
    /\ weighed' = weighed \cup {e}
    /\ verdict' = [i \in DOMAIN verdict |->
                     IF i \notin Touched(e) THEN verdict[i]
                     ELSE IF Exempt(e) /\ verdict[i] # "refused" THEN "allowed" ELSE "refused"]
    /\ allowedUnder' = IF Exempt(e) THEN allowedUnder \cup Touched(e) ELSE allowedUnder
    /\ refused' = IF Exempt(e) \/ Touched(e) = {} THEN refused ELSE refused \cup {e}
    /\ UNCHANGED <<pc, configVars, raw, todo, merged, report>>

Report ==
    /\ pc = "exempt" /\ weighed = raw
    /\ pc' = "report"
    /\ report' = [redacted |-> {merged[i] : i \in {j \in 1..Len(merged) : verdict[j] # "allowed"}},
                  allowed |-> {merged[i] : i \in {j \in 1..Len(merged) : verdict[j] = "allowed"}},
                  notAllowed |-> {e \in refused : Touched(e) \cap allowedUnder # {}}]
    /\ UNCHANGED <<configVars, raw, todo, merged, allowVars>>

\* Both loops, once the detectors have answered.
Process ==
    \/ \E e \in todo : MergeOne(e)
    \/ MergeEnds
    \/ \E e \in raw : Weigh(e)
    \/ Report

MergeNext ==
    \/ \E R \in SUBSET Entity : Gather(R)
    \/ DetectorFails
    \/ Process

MergeSpec == MergeInit /\ [][MergeNext]_mergeVars

-----------------------------------------------------------------------------
(* What the merge and the allow list promise *)

Merged == pc \in {"exempt", "report"}

\* The merged spans are disjoint and in order, every detection that counts is covered
\* by one of them ("All detected characters remain" masked, docs/configuration.md), and
\* nothing is masked that no detection covers, however detections chain and nest.
MergeExact ==
    Merged =>
        /\ \A i, j \in 1..Len(merged) : i < j => merged[i].end <= merged[j].start
        /\ \A e \in Kept : \E i \in 1..Len(merged) :
              merged[i].start <= e.start /\ e.end <= merged[i].end
        /\ \A i \in 1..Len(merged) : \A p \in merged[i].start..merged[i].end - 1 :
              \E e \in Kept : e.start <= p /\ p < e.end

\* The type of a merged span is that of a detection under it, and none under it has a
\* stricter policy: neither a score nor the order of detections makes a redacted value
\* reversible, or hides a blocked type from the gate.
PolicyWins ==
    Merged =>
        \A i \in 1..Len(merged) :
            /\ \E e \in Kept : Overlap(e, merged[i]) /\ e.type = merged[i].type
            /\ \A e \in Kept :
                  Overlap(e, merged[i]) => Priority(e.type) <= Priority(merged[i].type)

\* A span is let through exactly when a detection overlaps it and every detection that
\* does is exempt on its own type and value; the detections reported as standing in the
\* way are the refused ones under a span where another one is exempt.
LetThroughExactly ==
    pc = "report" =>
        LET spans == Elements(merged)
            Under(m) == {e \in raw : Overlap(m, e)}
            through == {m \in spans : Under(m) # {} /\ \A e \in Under(m) : Exempt(e)}
        IN  /\ report.allowed = through
            /\ report.redacted = spans \ through
            /\ report.notAllowed =
                 {e \in raw : ~Exempt(e) /\ \E m \in spans :
                                 Overlap(m, e) /\ \E f \in Under(m) : Exempt(f)}

=============================================================================
