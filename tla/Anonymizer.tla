----------------------------- MODULE Anonymizer -----------------------------
(***************************************************************************)
(* One request going through the scrubbing core: PIIEngine._process_request *)
(* and _anonymize_text, Anonymizer.anonymize and the per-request PIIMapping *)
(* it fills, and the exact restore of the reply.                           *)
(*                                                                         *)
(* A text is a sequence of words.  A word is a client value or a literal   *)
(* that already has the shape of a placeholder, such as "<PERSON_1>".      *)
(* What the detectors report is an environment choice: each word carries   *)
(* at most one entity, which covers exactly that word.                     *)
(*                                                                         *)
(* The literals the request shows are reserved before the first text.  A   *)
(* text may still hold a literal nobody reserved: JSON-escaped tool-call   *)
(* arguments only reveal theirs when they are parsed.                      *)
(***************************************************************************)
EXTENDS Integers, Sequences, FiniteSets

CONSTANTS
    Values,        \* ordinary words of the client, and what Faker can produce
    Credentials,   \* the values a structured secret rule can match
    Types,         \* entity types
    SecretType,    \* the type of a structured secret rule ("SECRET")
    Irreversible,  \* types whose method is mask or redact
    FakeTypes,     \* types whose method is fake_replacement
    Blocked,       \* pii.block_entities
    FakeOf(_, _, _), \* FakeOf(t, w, k): the k-th candidate Faker gives for w
    MaxRetries,    \* retries after a colliding candidate (10 in the code)
    DetectableAs(_), \* the types some detector may report for a word
    Literals,      \* the placeholder-shaped words a client may send
    MaxTexts,      \* bound: texts in a request
    MaxWords,      \* bound: words in a text
    MaxIndex,      \* bound: placeholder numbers
    None           \* no entity

Placeholder(t, i) == [type |-> t, index |-> i]
Placeholders == {Placeholder(t, i) : t \in Types, i \in 1..MaxIndex}
Mask(t) == [mask |-> t]

ASSUME ConstantsOK ==
    /\ Credentials \subseteq Values
    /\ SecretType \in Types
    /\ Irreversible \subseteq Types
    /\ FakeTypes \subseteq Types \ Irreversible
    /\ Blocked \subseteq Types
    /\ Literals \subseteq Placeholders
    /\ MaxRetries \in Nat /\ MaxTexts \in Nat /\ MaxWords \in Nat /\ MaxIndex \in Nat
    /\ None \notin Types
    /\ Values \cap Placeholders = {}
    /\ \A t \in Types : Mask(t) \notin Values \cup Placeholders
    /\ \A t \in Types, w \in Values \cup Literals, k \in 0..MaxRetries :
          FakeOf(t, w, k) \in Values
    /\ \A w \in Values \cup Literals : DetectableAs(w) \subseteq Types

Words == Values \cup Literals
Fakes == Values \cup Placeholders
Wire  == Fakes \cup {Mask(t) : t \in Types}

VARIABLES
    phase,      \* "idle" | "shield" | "replace" | "forwarded" | "blocked" | "failed"
    text,       \* the text being anonymized
    ents,       \* its entities: position -> type or None
    out,        \* its outgoing form so far
    at,         \* the position the pass has reached
    sent,       \* the finished texts: <<[text, ents, out], ...>>
    fakeOf,     \* PIIMapping._original_to_fake
    originalOf, \* PIIMapping._fake_to_original
    entityType, \* PIIMapping._entity_types
    counters,   \* PIIMapping._type_counters
    reserved,   \* PIIMapping._reserved
    known       \* PIIMapping._known: the credentials to propagate, all SecretType

mapping == <<fakeOf, originalOf, entityType, counters>>
vars == <<phase, text, ents, out, at, sent, mapping, reserved, known>>

-----------------------------------------------------------------------------
(* PIIMapping *)

\* A dict after d[k] = v.
Put(d, k, v) == [x \in DOMAIN d \cup {k} |-> IF x = k THEN v ELSE d[x]]

\* is_taken: nothing may be issued twice, nor equal a string the client sent.
IsTakenIgnoringReserved(f) == f \in DOMAIN originalOf
IsTaken(f) == f \in reserved \/ f \in DOMAIN originalOf

\* _numbered_placeholder: the first free number from next_index on.
IsNextIndex(t, i) ==
    /\ i > counters[t]
    /\ ~IsTaken(Placeholder(t, i))
    /\ \A j \in 1..(i - 1) : j > counters[t] => IsTaken(Placeholder(t, j))

Add(w, f, t) ==
    /\ fakeOf' = Put(fakeOf, w, f)
    /\ originalOf' = Put(originalOf, f, w)
    /\ entityType' = Put(entityType, w, t)
    /\ counters' = [counters EXCEPT ![t] = @ + 1]

AddLiteral(w, f) ==
    /\ fakeOf' = Put(fakeOf, w, f)
    /\ originalOf' = Put(originalOf, f, w)
    /\ UNCHANGED <<entityType, counters>>

Note(w, t) ==
    /\ counters' = IF w \in DOMAIN entityType
                   THEN counters ELSE [counters EXCEPT ![t] = @ + 1]
    /\ entityType' = Put(entityType, w, t)
    /\ UNCHANGED <<fakeOf, originalOf>>

\* The exact restore: one pass, an issued fake becomes its original.
RestoreChained(w) ==
    IF w \notin DOMAIN originalOf THEN w
    ELSE IF originalOf[w] \in DOMAIN originalOf THEN originalOf[originalOf[w]]
    ELSE originalOf[w]
Restore(w) == IF w \in DOMAIN originalOf THEN originalOf[w] ELSE w

-----------------------------------------------------------------------------
(* PIIEngine._with_known_values *)

Priority(t) == IF t \in Blocked THEN 2 ELSE IF t \in Irreversible THEN 1 ELSE 0

\* The values a rule matches at the positions `shown` and some detection covers
\* are remembered for the rest of the request.
Remembered(t, e, shown) ==
    known \cup {t[p] : p \in {q \in shown : e[q] # None}}

\* _resolve_overlap on a detection of type t and the copy of a known credential
\* on the same span: the stronger policy wins; on a tie the scores and the
\* configured resolution decide, which is the parameter tie.
CopyWinsByScore(t, tie) == t = None \/ tie
CopyWins(t, tie) ==
    \/ t = None
    \/ Priority(SecretType) > Priority(t)
    \/ Priority(SecretType) = Priority(t) /\ tie

\* The entities once the copies of known credentials have joined them; ties is
\* the set of positions where a tie goes to the copy.
WithoutCopies(t, e, k, ties) == e
WithCopies(t, e, k, ties) ==
    [p \in DOMAIN t |-> IF t[p] \in k /\ CopyWins(e[p], p \in ties)
                        THEN SecretType ELSE e[p]]

-----------------------------------------------------------------------------
(* PIIEngine._anonymize_text and Anonymizer.anonymize *)

Init ==
    /\ phase = "idle"
    /\ text = <<>> /\ ents = <<>> /\ out = <<>> /\ at = 0
    /\ sent = <<>>
    /\ fakeOf = <<>> /\ originalOf = <<>> /\ entityType = <<>>
    /\ counters = [t \in Types |-> 0]
    /\ reserved \in SUBSET Literals
    /\ known = {}

LiteralsOf(t) == {t[p] : p \in {q \in DOMAIN t : t[q] \in Literals}}

\* The start of _shield_literals: a literal nothing has taken yet is reserved.
ReserveNothing(t) == UNCHANGED reserved
ReserveFreeLiterals(t) == reserved' = reserved \cup (LiteralsOf(t) \ DOMAIN originalOf)

\* Detection, propagation of known credentials and the block gate.  A blocked
\* type rejects the whole request before anything is anonymized.
StartText(t, e, shown, ties) ==
    LET k == Remembered(t, e, shown)
        merged == WithCopies(t, e, k, ties)
    IN
    /\ phase = "idle"
    /\ Len(sent) < MaxTexts
    /\ known' = k
    /\ IF \E p \in DOMAIN t : merged[p] \in Blocked
       THEN /\ phase' = "blocked"
            /\ UNCHANGED <<text, ents, out, at, reserved>>
       ELSE /\ phase' = "shield"
            /\ text' = t /\ ents' = merged /\ out' = t /\ at' = 1
            /\ ReserveFreeLiterals(t)
    /\ UNCHANGED <<sent, mapping>>

\* A detector raised, or returned something the merge cannot handle.
DetectionFails ==
    /\ phase = "idle"
    /\ Len(sent) < MaxTexts
    /\ phase' = "failed"
    /\ UNCHANGED <<text, ents, out, at, sent, mapping, reserved, known>>

\* A literal an earlier text already got as a placeholder, outside any entity.
MustSwap(p) == text[p] \in Literals /\ text[p] \in DOMAIN originalOf /\ ents[p] = None

Send(p, f) == out' = [out EXCEPT ![p] = f]

ShieldLiteral ==
    /\ phase = "shield" /\ at <= Len(text) /\ MustSwap(at)
    /\ \/ /\ text[at] \in DOMAIN fakeOf
          /\ Send(at, fakeOf[text[at]])
          /\ UNCHANGED mapping
       \/ /\ text[at] \notin DOMAIN fakeOf
          /\ \E i \in 1..MaxIndex :
               LET f == Placeholder(text[at].type, i) IN
               /\ IsNextIndex(text[at].type, i)
               /\ Send(at, f)
               /\ AddLiteral(text[at], f)
    /\ at' = at + 1
    /\ UNCHANGED <<phase, text, ents, sent, reserved, known>>

NothingToShield ==
    /\ phase = "shield" /\ at <= Len(text) /\ ~MustSwap(at)
    /\ at' = at + 1
    /\ UNCHANGED <<phase, text, ents, out, sent, mapping, reserved, known>>

ShieldDone ==
    /\ phase = "shield" /\ at > Len(text)
    /\ phase' = "replace"
    /\ at' = Len(text)
    /\ UNCHANGED <<text, ents, out, sent, mapping, reserved, known>>

\* The right-to-left pass, one entity at a time.
AtEntity == phase = "replace" /\ at > 0 /\ ents[at] # None
Reversible == ents[at] \notin Irreversible
Next1 == at' = at - 1 /\ UNCHANGED <<phase, text, ents, sent, reserved, known>>

SkipWord ==
    /\ phase = "replace" /\ at > 0 /\ ents[at] = None
    /\ UNCHANGED <<out, mapping>>
    /\ Next1

MaskEntity ==
    /\ AtEntity /\ ~Reversible
    /\ Send(at, Mask(ents[at]))
    /\ Note(text[at], ents[at])
    /\ Next1

ReuseFake ==
    /\ AtEntity /\ Reversible /\ text[at] \in DOMAIN fakeOf
    /\ Send(at, fakeOf[text[at]])
    /\ UNCHANGED mapping
    /\ Next1

IssuePlaceholder ==
    /\ AtEntity /\ Reversible /\ text[at] \notin DOMAIN fakeOf
    /\ ents[at] \notin FakeTypes
    /\ \E i \in 1..MaxIndex :
         LET f == Placeholder(ents[at], i) IN
         /\ IsNextIndex(ents[at], i)
         /\ Send(at, f)
         /\ Add(text[at], f, ents[at])
    /\ Next1

\* A candidate that equals the original or another value's fake is retried.
Usable(f, w) == f # w /\ f \notin DOMAIN originalOf
Candidate(k) == FakeOf(ents[at], text[at], k)

IssueFake ==
    /\ AtEntity /\ Reversible /\ text[at] \notin DOMAIN fakeOf
    /\ ents[at] \in FakeTypes
    /\ \E k \in 0..MaxRetries :
         /\ Usable(Candidate(k), text[at])
         /\ \A j \in 0..(k - 1) : ~Usable(Candidate(j), text[at])
         /\ Send(at, Candidate(k))
         /\ Add(text[at], Candidate(k), ents[at])
    /\ Next1

\* FakeReplacementExhaustedError: the request is refused.
FakesExhausted ==
    /\ AtEntity /\ Reversible /\ text[at] \notin DOMAIN fakeOf
    /\ ents[at] \in FakeTypes
    /\ \A k \in 0..MaxRetries : ~Usable(Candidate(k), text[at])
    /\ phase' = "failed"
    /\ UNCHANGED <<text, ents, out, at, sent, mapping, reserved, known>>

EndText ==
    /\ phase = "replace" /\ at = 0
    /\ phase' = "idle"
    /\ sent' = Append(sent, [text |-> text, ents |-> ents, out |-> out])
    /\ text' = <<>> /\ ents' = <<>> /\ out' = <<>>
    /\ UNCHANGED <<at, mapping, reserved, known>>

Forward ==
    /\ phase = "idle" /\ sent # <<>>
    /\ phase' = "forwarded"
    /\ UNCHANGED <<text, ents, out, at, sent, mapping, reserved, known>>

\* A word together with what the detectors report for it.
Readings == UNION {{w} \X (DetectableAs(w) \cup {None}) : w \in Words}

\* The request is over: forwarded, or refused with nothing forwarded.
Over == phase \in {"forwarded", "blocked", "failed"} /\ UNCHANGED vars

WordsOf(r) == [p \in DOMAIN r |-> r[p][1]]
EntitiesOf(r) == [p \in DOMAIN r |-> r[p][2]]
CredentialsOf(t) == {p \in DOMAIN t : t[p] \in Credentials}

StartSomeText ==
    \E n \in 1..MaxWords :
      \E r \in [1..n -> Readings] :
        \E shown, ties \in SUBSET CredentialsOf(WordsOf(r)) :
          StartText(WordsOf(r), EntitiesOf(r), shown, ties)

Next ==
    \/ StartSomeText
    \/ DetectionFails
    \/ ShieldLiteral
    \/ NothingToShield
    \/ ShieldDone
    \/ SkipWord
    \/ MaskEntity
    \/ ReuseFake
    \/ IssuePlaceholder
    \/ IssueFake
    \/ FakesExhausted
    \/ EndText
    \/ Forward
    \/ Over

Spec == Init /\ [][Next]_vars

-----------------------------------------------------------------------------
(* Properties *)

TypeOK ==
    /\ phase \in {"idle", "shield", "replace", "forwarded", "blocked", "failed"}
    /\ text \in Seq(Words) /\ out \in Seq(Wire)
    /\ ents \in Seq(Types \cup {None})
    /\ Len(ents) = Len(text) /\ Len(out) = Len(text)
    /\ at \in Nat
    /\ phase \in {"shield", "replace"} => at <= Len(text) + 1
    /\ phase = "shield" => at >= 1
    /\ phase = "replace" => at <= Len(text)
    /\ sent \in Seq([text : Seq(Words), ents : Seq(Types \cup {None}), out : Seq(Wire)])
    /\ \A j \in DOMAIN sent : Len(sent[j].ents) = Len(sent[j].text)
                           /\ Len(sent[j].out) = Len(sent[j].text)
    /\ DOMAIN fakeOf \subseteq Words
    /\ \A w \in DOMAIN fakeOf : fakeOf[w] \in Fakes
    /\ DOMAIN originalOf \subseteq Fakes
    /\ \A f \in DOMAIN originalOf : originalOf[f] \in Words
    /\ DOMAIN entityType \subseteq Words
    /\ \A w \in DOMAIN entityType : entityType[w] \in Types
    /\ counters \in [Types -> Nat]
    /\ reserved \subseteq Literals
    /\ known \subseteq Credentials

-----------------------------------------------------------------------------
(* The inductive invariant of AnonymizerProofs *)

\* Word w with entity e has left, or will leave, as f for good: masked, behind
\* an issued fake of its own, or verbatim because nothing can ever be issued
\* with that string (fake_replacement aside, which only issues values).
Settled(w, e, f) ==
    \/ e \in Irreversible /\ f = Mask(e)
    \/ f \in DOMAIN originalOf /\ originalOf[f] = w
    \/ e = None /\ f = w /\ (w \in reserved \/ w \in Values)

\* Every literal of the current text is reserved or already issued.
LiteralsAccounted ==
    \A p \in DOMAIN text :
        text[p] \in Literals => text[p] \in reserved \cup DOMAIN originalOf

InProgress ==
    \A p \in DOMAIN text :
        /\ phase = "shield" =>
              IF p < at /\ ents[p] = None THEN Settled(text[p], ents[p], out[p])
              ELSE out[p] = text[p]
        /\ phase = "replace" /\ (p > at \/ ents[p] = None)
              => Settled(text[p], ents[p], out[p])

SentSettled ==
    \A j \in DOMAIN sent : \A p \in DOMAIN sent[j].text :
        Settled(sent[j].text[p], sent[j].ents[p], sent[j].out[p])

-----------------------------------------------------------------------------
(* Safety *)

\* The two maps of PIIMapping are inverse of each other, so no placeholder or
\* fake ever restores to another value's original (anonymizer.py:137, the reason
\* for FakeReplacementExhaustedError), and no value is its own fake.
MapsInverse ==
    /\ \A w \in DOMAIN fakeOf :
          /\ fakeOf[w] # w
          /\ fakeOf[w] \in DOMAIN originalOf
          /\ originalOf[fakeOf[w]] = w
    /\ \A f \in DOMAIN originalOf :
          originalOf[f] \in DOMAIN fakeOf /\ fakeOf[originalOf[f]] = f

\* A placeholder issued for this request never equals a placeholder-shaped
\* string the client sent and the provider sees verbatim (_shield_literals).
IssuedNotReserved == DOMAIN originalOf \cap reserved = {}

\* If the model echoes a text back, the client gets its own text: every word but
\* the masked ones is restored, and a literal the client wrote stays as it was.
\* The one exception is fake_replacement, which does not look at the request: a
\* word sent as it is may later be handed out as another value's fake.
RestoreExact ==
    \A j \in DOMAIN sent : \A p \in DOMAIN sent[j].text :
        LET w == sent[j].text[p]
            f == sent[j].out[p]
        IN  \/ sent[j].ents[p] \in Irreversible
            \/ f = w /\ w \in Values \cap DOMAIN originalOf
            \/ Restore(f) = w

\* A detected word never leaves in its own form, whatever its method, and also
\* when the word is itself shaped like a placeholder.
DetectedNeverSent ==
    \A j \in DOMAIN sent : \A p \in DOMAIN sent[j].text :
        sent[j].ents[p] # None => sent[j].out[p] # sent[j].text[p]

\* A credential recognised in one text of the request is covered in every later
\* text, detected there or not (_with_known_values).
KnownNeverVerbatim ==
    [][sent' # sent =>
         \A p \in DOMAIN text : text[p] \in known => out[p] # text[p]]_vars

\* When secrets are masked or redacted, a recognised credential never enters the
\* reversible map afterwards, whatever type a later text detects it as.
KnownNeverReversible ==
    [][\A v \in known :
          SecretType \in Irreversible /\ v \notin DOMAIN fakeOf
             => v \notin DOMAIN fakeOf']_vars
=============================================================================
