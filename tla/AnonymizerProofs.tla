-------------------------- MODULE AnonymizerProofs --------------------------
(***************************************************************************)
(* What Anonymizer promises for every request, every answer of the         *)
(* detectors and every Faker: the restore is exact, the map is one-to-one, *)
(* and a detected word never leaves in its own form.                       *)
(***************************************************************************)
EXTENDS Anonymizer, TLAPS

-----------------------------------------------------------------------------
(* Type correctness *)

\* An element of a sequence over S is in S.
LEMMA SeqElement ==
    ASSUME NEW S, NEW q \in Seq(S), NEW k \in DOMAIN q
    PROVE  q[k] \in S
OBVIOUS

LEMMA InitType == Init => TypeOK
BY ConstantsOK DEF Init, TypeOK, Words, Wire, Fakes

\* One more pair in the two maps keeps the types of PIIMapping.
LEMMA AddType ==
    ASSUME TypeOK,
           NEW w \in Words, NEW f \in Fakes,
           fakeOf' = Put(fakeOf, w, f),
           originalOf' = Put(originalOf, f, w)
    PROVE  /\ DOMAIN fakeOf' \subseteq Words
           /\ \A x \in DOMAIN fakeOf' : fakeOf'[x] \in Fakes
           /\ DOMAIN originalOf' \subseteq Fakes
           /\ \A x \in DOMAIN originalOf' : originalOf'[x] \in Words
BY DEF TypeOK, Put

LEMMA EntityTypeType ==
    ASSUME TypeOK, NEW w \in Words, NEW t \in Types,
           entityType' = Put(entityType, w, t)
    PROVE  /\ DOMAIN entityType' \subseteq Words
           /\ \A x \in DOMAIN entityType' : entityType'[x] \in Types
BY DEF TypeOK, Put

\* The readings StartSomeText picks give words and entities of the right type.
LEMMA ReadingsType ==
    ASSUME NEW n \in 1..MaxWords, NEW r \in [1..n -> Readings], NEW p \in 1..n
    PROVE  r[p][1] \in Words /\ r[p][2] \in Types \cup {None}
<1>1. r[p] \in Readings
  OBVIOUS
<1>2. PICK w \in Words : r[p] \in {w} \X (DetectableAs(w) \cup {None})
  BY <1>1 DEF Readings
<1>3. DetectableAs(w) \subseteq Types
  BY <1>2, ConstantsOK DEF Words
<1> QED
  BY <1>2, <1>3

LEMMA StartTextType ==
    ASSUME TypeOK, StartSomeText
    PROVE  TypeOK'
<1>1. PICK n \in 1..MaxWords :
        \E r \in [1..n -> Readings] :
          \E shown, ties \in SUBSET CredentialsOf(WordsOf(r)) :
            StartText(WordsOf(r), EntitiesOf(r), shown, ties)
  BY DEF StartSomeText
<1>2. PICK r \in [1..n -> Readings] :
        \E shown, ties \in SUBSET CredentialsOf(WordsOf(r)) :
          StartText(WordsOf(r), EntitiesOf(r), shown, ties)
  BY <1>1
<1> DEFINE t == WordsOf(r)
           e == EntitiesOf(r)
<1>a. PICK shown \in SUBSET CredentialsOf(t), ties \in SUBSET CredentialsOf(t) :
        StartText(t, e, shown, ties)
  BY <1>2
<1> DEFINE k == Remembered(t, e, shown)
           m == WithCopies(t, e, k, ties)
<1>3. n \in Nat /\ \A p \in 1..n : r[p][1] \in Words /\ r[p][2] \in Types \cup {None}
  BY ReadingsType, ConstantsOK
<1>4. t \in Seq(Words) /\ Len(t) = n /\ DOMAIN t = 1..n
  BY <1>3 DEF WordsOf
<1>5. m \in Seq(Types \cup {None}) /\ Len(m) = n
  <2>1. m = [p \in 1..n |-> IF t[p] \in k /\ CopyWins(e[p], p \in ties)
                           THEN SecretType ELSE e[p]]
    BY <1>4 DEF WithCopies
  <2>2. \A p \in 1..n : m[p] \in Types \cup {None}
    BY <1>3, <2>1, ConstantsOK DEF EntitiesOf
  <2> HIDE DEF t, e, k
  <2> QED
    BY <1>3, <2>1, <2>2
<1>6. k \subseteq Credentials
  <2>1. \A p \in shown : t[p] \in Credentials
    BY DEF CredentialsOf
  <2> QED
    BY <1>4, <2>1 DEF Remembered, TypeOK
<1>7. reserved \cup (LiteralsOf(t) \ DOMAIN originalOf) \subseteq Literals
  BY DEF LiteralsOf, TypeOK
<1>8. t \in Seq(Wire)
  BY <1>3, <1>4, ConstantsOK DEF Words, Wire, Fakes, WordsOf
<1>9. UNCHANGED <<sent, fakeOf, originalOf, entityType, counters>> /\ known' = k
  BY <1>a DEF StartText, mapping
<1> HIDE DEF t, e, k, m
<1>10. CASE \E p \in DOMAIN t : m[p] \in Blocked
  <2>1. phase' = "blocked" /\ UNCHANGED <<text, ents, out, at, reserved>>
    BY <1>a, <1>10 DEF StartText, k, m
  <2> QED
    BY <1>6, <1>9, <2>1 DEF TypeOK
<1>11. CASE ~ \E p \in DOMAIN t : m[p] \in Blocked
  <2>1. /\ phase' = "shield"
        /\ text' = t /\ ents' = m /\ out' = t /\ at' = 1
        /\ reserved' = reserved \cup (LiteralsOf(t) \ DOMAIN originalOf)
    BY <1>a, <1>11 DEF StartText, ReserveFreeLiterals, k, m
  <2> QED
    BY <1>3, <1>4, <1>5, <1>6, <1>7, <1>8, <1>9, <2>1 DEF TypeOK
<1> QED
  BY <1>10, <1>11

\* The type of the word the pass is at, and of what replaces it.
LEMMA SendType ==
    ASSUME TypeOK, at \in DOMAIN text, NEW f \in Wire, Send(at, f)
    PROVE  /\ text[at] \in Words /\ ents[at] \in Types \cup {None}
           /\ out' \in Seq(Wire) /\ Len(out') = Len(text)
BY DEF TypeOK, Send

LEMMA StepType == TypeOK /\ [Next]_vars => TypeOK'
<1> SUFFICES ASSUME TypeOK, [Next]_vars
             PROVE  TypeOK'
  OBVIOUS
<1>1. CASE StartSomeText
  BY <1>1, StartTextType
<1>2. CASE DetectionFails
  BY <1>2 DEF DetectionFails, TypeOK, mapping
<1>3. CASE ShieldLiteral
  <2>1. at \in DOMAIN text /\ text[at] \in Words
    BY <1>3 DEF ShieldLiteral, TypeOK
  <2>2. UNCHANGED <<phase, text, ents, sent, reserved, known>> /\ at' = at + 1
    BY <1>3 DEF ShieldLiteral
  <2>3. CASE text[at] \in DOMAIN fakeOf /\ Send(at, fakeOf[text[at]]) /\ UNCHANGED mapping
    <3>1. fakeOf[text[at]] \in Wire
      BY <2>3 DEF TypeOK, Wire
    <3>2. out' \in Seq(Wire) /\ Len(out') = Len(text)
      BY <2>1, <2>3, <3>1, SendType
    <3> QED
      BY <1>3, <2>1, <2>2, <2>3, <3>2 DEF TypeOK, mapping, ShieldLiteral
  <2>4. ASSUME NEW i \in 1..MaxIndex,
               Send(at, Placeholder(text[at].type, i)),
               AddLiteral(text[at], Placeholder(text[at].type, i))
        PROVE  TypeOK'
    <3> DEFINE f == Placeholder(text[at].type, i)
    <3>1. f \in Placeholders
      <4>1. text[at] \in Placeholders
        BY <1>3, ConstantsOK DEF ShieldLiteral, MustSwap
      <4>2. PICK t \in Types, j \in 1..MaxIndex : text[at] = Placeholder(t, j)
        BY <4>1 DEF Placeholders
      <4> QED
        BY <4>2 DEF Placeholder, Placeholders
    <3>2. f \in Fakes /\ f \in Wire
      BY <3>1 DEF Fakes, Wire
    <3> HIDE DEF f
    <3>3. Send(at, f) /\ AddLiteral(text[at], f)
      BY <2>4 DEF f
    <3>4. out' \in Seq(Wire) /\ Len(out') = Len(text)
      BY <2>1, <3>2, <3>3, SendType
    <3>5. /\ fakeOf' = Put(fakeOf, text[at], f)
          /\ originalOf' = Put(originalOf, f, text[at])
          /\ UNCHANGED <<entityType, counters>>
      BY <3>3 DEF AddLiteral
    <3>6. /\ DOMAIN fakeOf' \subseteq Words
          /\ \A x \in DOMAIN fakeOf' : fakeOf'[x] \in Fakes
          /\ DOMAIN originalOf' \subseteq Fakes
          /\ \A x \in DOMAIN originalOf' : originalOf'[x] \in Words
      BY <2>1, <3>2, <3>5, AddType
    <3> QED
      BY <1>3, <2>2, <3>4, <3>5, <3>6 DEF TypeOK, ShieldLiteral
  <2> QED
    BY <1>3, <2>3, <2>4 DEF ShieldLiteral
<1>4. CASE NothingToShield
  BY <1>4 DEF NothingToShield, TypeOK, mapping
<1>5. CASE ShieldDone
  BY <1>5 DEF ShieldDone, TypeOK, mapping
<1>6. CASE SkipWord
  BY <1>6 DEF SkipWord, Next1, TypeOK, mapping
<1>7. CASE AtEntity /\ Next1 /\ \E f \in Wire : Send(at, f) /\ UNCHANGED mapping
  <2>1. at \in DOMAIN text
    BY <1>7 DEF AtEntity, TypeOK
  <2>2. out' \in Seq(Wire) /\ Len(out') = Len(text)
    BY <1>7, <2>1, SendType
  <2> QED
    BY <1>7, <2>1, <2>2 DEF TypeOK, mapping, Next1, AtEntity
<1>8. CASE MaskEntity
  <2>1. at \in DOMAIN text /\ text[at] \in Words /\ ents[at] \in Types
    BY <1>8 DEF MaskEntity, AtEntity, TypeOK
  <2>2. Mask(ents[at]) \in Wire
    BY <2>1 DEF Wire
  <2>3. out' \in Seq(Wire) /\ Len(out') = Len(text)
    BY <1>8, <2>1, <2>2, SendType DEF MaskEntity
  <2>4. /\ entityType' = Put(entityType, text[at], ents[at])
        /\ counters' \in [Types -> Nat]
        /\ UNCHANGED <<fakeOf, originalOf>>
    BY <1>8, <2>1 DEF MaskEntity, Note, TypeOK
  <2>5. /\ DOMAIN entityType' \subseteq Words
        /\ \A x \in DOMAIN entityType' : entityType'[x] \in Types
    BY <2>1, <2>4, EntityTypeType
  <2> QED
    BY <1>8, <2>1, <2>3, <2>4, <2>5 DEF TypeOK, Next1, MaskEntity, AtEntity
<1>9. CASE AtEntity /\ Next1 /\ \E f \in Fakes : Send(at, f) /\ Add(text[at], f, ents[at])
  <2>1. at \in DOMAIN text /\ text[at] \in Words /\ ents[at] \in Types
    BY <1>9 DEF AtEntity, TypeOK
  <2>2. PICK f \in Fakes : Send(at, f) /\ Add(text[at], f, ents[at])
    BY <1>9
  <2>3. out' \in Seq(Wire) /\ Len(out') = Len(text)
    BY <2>1, <2>2, SendType DEF Wire
  <2>4. /\ fakeOf' = Put(fakeOf, text[at], f)
        /\ originalOf' = Put(originalOf, f, text[at])
        /\ entityType' = Put(entityType, text[at], ents[at])
        /\ counters' \in [Types -> Nat]
    BY <2>1, <2>2 DEF Add, TypeOK
  <2>5. /\ DOMAIN fakeOf' \subseteq Words
        /\ \A x \in DOMAIN fakeOf' : fakeOf'[x] \in Fakes
        /\ DOMAIN originalOf' \subseteq Fakes
        /\ \A x \in DOMAIN originalOf' : originalOf'[x] \in Words
    BY <2>1, <2>4, AddType
  <2>6. /\ DOMAIN entityType' \subseteq Words
        /\ \A x \in DOMAIN entityType' : entityType'[x] \in Types
    BY <2>1, <2>4, EntityTypeType
  <2> QED
    BY <1>9, <2>1, <2>3, <2>4, <2>5, <2>6 DEF TypeOK, Next1, AtEntity
<1>10. CASE ReuseFake
  <2>1. fakeOf[text[at]] \in Wire
    BY <1>10 DEF ReuseFake, TypeOK, Wire
  <2> QED
    BY <1>7, <1>10, <2>1 DEF ReuseFake
<1>11. CASE IssuePlaceholder
  <2>1. ents[at] \in Types
    BY <1>11 DEF IssuePlaceholder, AtEntity, TypeOK
  <2>2. PICK i \in 1..MaxIndex :
          LET f == Placeholder(ents[at], i) IN Send(at, f) /\ Add(text[at], f, ents[at])
    BY <1>11 DEF IssuePlaceholder
  <2>3. Placeholder(ents[at], i) \in Fakes
    BY <2>1 DEF Placeholders, Fakes
  <2> QED
    BY <1>9, <1>11, <2>2, <2>3 DEF IssuePlaceholder
<1>12. CASE IssueFake
  <2>1. ents[at] \in Types /\ text[at] \in Words
    BY <1>12 DEF IssueFake, AtEntity, TypeOK
  <2>2. PICK k \in 0..MaxRetries : Send(at, Candidate(k)) /\ Add(text[at], Candidate(k), ents[at])
    BY <1>12 DEF IssueFake
  <2>3. Candidate(k) \in Fakes
    BY <2>1, ConstantsOK DEF Candidate, Fakes, Words
  <2> QED
    BY <1>9, <1>12, <2>2, <2>3 DEF IssueFake
<1>13. CASE FakesExhausted
  BY <1>13 DEF FakesExhausted, TypeOK, mapping
<1>14. CASE EndText
  BY <1>14, SMTT(30) DEF EndText, TypeOK, mapping
<1>15. CASE Forward
  BY <1>15 DEF Forward, TypeOK, mapping
<1>16. CASE UNCHANGED vars
  BY <1>16 DEF vars, mapping, TypeOK
<1> QED
  BY <1>1, <1>2, <1>3, <1>4, <1>5, <1>6, <1>8, <1>10, <1>11, <1>12, <1>13,
     <1>14, <1>15, <1>16 DEF Next, Over

\* Every reachable state of the scrubbing core is well typed.
THEOREM TypeCorrect == Spec => []TypeOK
BY InitType, StepType, PTL DEF Spec

-----------------------------------------------------------------------------
(* The inductive invariant *)

Safe == MapsInverse /\ IssuedNotReserved
Settling == LiteralsAccounted /\ InProgress /\ SentSettled
IInv == TypeOK /\ Safe /\ Settling

\* What every step does to the request's memory: it only grows.
MemoryGrows ==
    /\ DOMAIN originalOf \subseteq DOMAIN originalOf'
    /\ \A f \in DOMAIN originalOf : originalOf'[f] = originalOf[f]
    /\ reserved \subseteq reserved'

\* A settled word stays settled: nothing issued later can change how it restores.
LEMMA SettledStable ==
    ASSUME MemoryGrows, NEW w, NEW e, NEW f, Settled(w, e, f)
    PROVE  Settled(w, e, f)'
BY DEF Settled, MemoryGrows

LEMMA SentStable ==
    ASSUME MemoryGrows, SentSettled, UNCHANGED sent
    PROVE  SentSettled'
<1> SUFFICES ASSUME NEW j \in DOMAIN sent, NEW p \in DOMAIN sent[j].text
             PROVE  Settled(sent[j].text[p], sent[j].ents[p], sent[j].out[p])'
  BY DEF SentSettled
<1>1. Settled(sent[j].text[p], sent[j].ents[p], sent[j].out[p])
  BY DEF SentSettled
<1> QED
  BY <1>1, SettledStable DEF Settled, MemoryGrows

\* Issuing a fresh fake for a value that has none keeps the maps inverse of
\* each other and away from what the client sent.
LEMMA IssueKeepsSafe ==
    ASSUME Safe, NEW w, NEW f,
           w \notin DOMAIN fakeOf, f \notin DOMAIN originalOf, f # w,
           f \notin reserved, UNCHANGED reserved,
           fakeOf' = Put(fakeOf, w, f),
           originalOf' = Put(originalOf, f, w)
    PROVE  Safe' /\ MemoryGrows /\ f \in DOMAIN originalOf' /\ originalOf'[f] = w
<1>1. /\ DOMAIN fakeOf' = DOMAIN fakeOf \cup {w}
      /\ fakeOf'[w] = f
      /\ \A x \in DOMAIN fakeOf : x # w => fakeOf'[x] = fakeOf[x]
  BY DEF Put
<1>2. /\ DOMAIN originalOf' = DOMAIN originalOf \cup {f}
      /\ originalOf'[f] = w
      /\ \A x \in DOMAIN originalOf : x # f => originalOf'[x] = originalOf[x]
  BY DEF Put
<1>3. MapsInverse'
  BY <1>1, <1>2 DEF Safe, MapsInverse
<1>4. IssuedNotReserved'
  BY <1>2 DEF Safe, IssuedNotReserved
<1>5. MemoryGrows
  BY <1>2 DEF MemoryGrows
<1> QED
  BY <1>2, <1>3, <1>4, <1>5 DEF Safe

LEMMA InitInv == Init => IInv
<1> SUFFICES ASSUME Init PROVE IInv
  OBVIOUS
<1>1. TypeOK
  BY InitType
<1>2. Safe
  BY DEF Init, Safe, MapsInverse, IssuedNotReserved
<1>3. Settling
  BY DEF Init, Settling, LiteralsAccounted, InProgress, SentSettled
<1> QED
  BY <1>1, <1>2, <1>3 DEF IInv

\* A step that leaves the maps, the reserved set and the finished texts alone.
LEMMA QuietStep ==
    ASSUME IInv, UNCHANGED <<mapping, reserved, sent>>
    PROVE  Safe' /\ SentSettled' /\ MemoryGrows
<1>1. MemoryGrows
  BY DEF MemoryGrows, mapping
<1>2. Safe'
  BY DEF IInv, Safe, MapsInverse, IssuedNotReserved, mapping
<1> QED
  BY <1>1, <1>2, SentStable DEF IInv, Settling

\* The pass settles the word it is at and moves on to the left.
LEMMA WordReplaced ==
    ASSUME IInv, AtEntity, Next1, NEW f, Send(at, f), MemoryGrows,
           NEW w, NEW e, w = text[at], e = ents[at],
           Settled(w, e, f)'
    PROVE  Settling'
<1>1. at \in DOMAIN text /\ DOMAIN out = DOMAIN text /\ out' = [out EXCEPT ![at] = f]
  BY DEF AtEntity, IInv, TypeOK, Send
<1>2. phase = "replace" /\ UNCHANGED <<phase, text, ents, sent, reserved>> /\ at' = at - 1
  BY DEF AtEntity, Next1
<1>3. SentSettled'
  BY <1>2, SentStable DEF IInv, Settling
<1>4. LiteralsAccounted'
  BY <1>2 DEF IInv, Settling, LiteralsAccounted, MemoryGrows
<1>5. InProgress'
  <2> SUFFICES ASSUME NEW p \in DOMAIN text, p > at' \/ ents[p] = None
               PROVE  Settled(text[p], ents[p], out[p])'
    BY <1>2 DEF InProgress, Settled
  <2>1. CASE p = at
    BY <1>1, <1>2, <2>1 DEF Settled
  <2>2. CASE p # at
    <3>1. p > at \/ ents[p] = None
      BY <1>1, <1>2, <2>2 DEF IInv, TypeOK
    <3>2. Settled(text[p], ents[p], out[p])
      BY <1>2, <3>1 DEF IInv, Settling, InProgress
    <3>3. out'[p] = out[p]
      BY <1>1, <2>2
    <3> QED
      BY <1>2, <3>2, <3>3, SettledStable DEF Settled, MemoryGrows
  <2> QED
    BY <2>1, <2>2
<1> QED
  BY <1>3, <1>4, <1>5 DEF Settling

\* The literal pass settles a word without an entity and moves on to the right.
LEMMA WordShielded ==
    ASSUME IInv, phase = "shield", at \in DOMAIN text, MemoryGrows,
           UNCHANGED <<phase, text, ents, sent, reserved>>, at' = at + 1,
           \A p \in DOMAIN text : p # at => out'[p] = out[p],
           NEW w, NEW e, w = text[at], e = ents[at],
           e # None => out'[at] = w,
           NEW f, f = out'[at],
           e = None => Settled(w, e, f)'
    PROVE  Settling'
<1>1. SentSettled'
  BY SentStable DEF IInv, Settling
<1>2. LiteralsAccounted'
  BY DEF IInv, Settling, LiteralsAccounted, MemoryGrows
<1>3. InProgress'
  <2> SUFFICES ASSUME NEW p \in DOMAIN text
               PROVE  IF p < at' /\ ents[p] = None THEN Settled(text[p], ents[p], out[p])'
                      ELSE out'[p] = text[p]
    BY DEF InProgress, Settled
  <2>1. CASE p = at
    BY <2>1 DEF Settled, IInv, TypeOK
  <2>2. CASE p # at
    <3>1. p < at' <=> p < at
      BY <2>2 DEF IInv, TypeOK
    <3>2. IF p < at /\ ents[p] = None THEN Settled(text[p], ents[p], out[p])
          ELSE out[p] = text[p]
      BY DEF IInv, Settling, InProgress
    <3> QED
      BY <2>2, <3>1, <3>2, SettledStable DEF Settled, MemoryGrows
  <2> QED
    BY <2>1, <2>2
<1> QED
  BY <1>1, <1>2, <1>3 DEF Settling

\* Anything that ends the request leaves nothing in progress.
LEMMA Stopped ==
    ASSUME IInv, UNCHANGED <<text, ents, out, sent, mapping, reserved>>,
           phase' \notin {"shield", "replace"}
    PROVE  Safe' /\ Settling'
<1>1. Safe' /\ SentSettled'
  BY QuietStep
<1>2. LiteralsAccounted'
  BY DEF IInv, Settling, LiteralsAccounted, mapping
<1>3. InProgress'
  BY DEF InProgress
<1> QED
  BY <1>1, <1>2, <1>3 DEF Settling

LEMMA StartTextInv ==
    ASSUME IInv, TypeOK', NEW t, NEW e, NEW shown, NEW ties, StartText(t, e, shown, ties)
    PROVE  Safe' /\ Settling'
<1> DEFINE merged == WithCopies(t, e, Remembered(t, e, shown), ties)
<1>1. CASE \E p \in DOMAIN t : merged[p] \in Blocked
  <2>1. phase' = "blocked" /\ UNCHANGED <<text, ents, out, sent, mapping, reserved>>
    BY <1>1 DEF StartText
  <2> QED
    BY <2>1, Stopped
<1>2. CASE ~ \E p \in DOMAIN t : merged[p] \in Blocked
  <2>1. /\ phase' = "shield" /\ text' = t /\ out' = t /\ at' = 1
        /\ reserved' = reserved \cup (LiteralsOf(t) \ DOMAIN originalOf)
        /\ UNCHANGED <<sent, mapping>>
    BY <1>2 DEF StartText, ReserveFreeLiterals
  <2>2. MemoryGrows
    BY <2>1 DEF MemoryGrows, mapping
  <2>3. Safe'
    BY <2>1 DEF IInv, Safe, MapsInverse, IssuedNotReserved, mapping
  <2>4. SentSettled'
    BY <2>1, <2>2, SentStable DEF IInv, Settling
  <2>5. LiteralsAccounted'
    BY <2>1 DEF LiteralsAccounted, LiteralsOf, mapping
  <2>6. InProgress'
    <3>1. \A p \in DOMAIN text' : out'[p] = text'[p]
      BY <2>1
    <3>2. \A p \in DOMAIN text' : ~(p < at' /\ ents'[p] = None)
      BY <2>1 DEF TypeOK
    <3> QED
      BY <2>1, <3>1, <3>2 DEF InProgress
  <2> QED
    BY <2>3, <2>4, <2>5, <2>6 DEF Settling
<1> QED
  BY <1>1, <1>2

LEMMA ShieldLiteralInv ==
    ASSUME IInv, ShieldLiteral
    PROVE  Safe' /\ Settling'
<1> DEFINE w == text[at]
<1>1. /\ phase = "shield" /\ at \in DOMAIN text /\ ents[at] = None
      /\ UNCHANGED <<phase, text, ents, sent, reserved>> /\ at' = at + 1
      /\ DOMAIN out = DOMAIN text
      /\ w \in DOMAIN originalOf
  BY DEF ShieldLiteral, MustSwap, IInv, TypeOK
<1>2. CASE w \in DOMAIN fakeOf /\ Send(at, fakeOf[w]) /\ UNCHANGED mapping
  <2>1. MemoryGrows /\ Safe'
    BY <1>1, <1>2, QuietStep
  <2>2. Settled(w, None, fakeOf[w])
    BY <1>2 DEF Settled, IInv, Safe, MapsInverse
  <2>3. PICK f : f = fakeOf[w]
    OBVIOUS
  <2>4. PICK v : v = w
    OBVIOUS
  <2>5. Settled(v, None, f)'
    BY <2>1, <2>2, <2>3, <2>4, SettledStable DEF Settled, MemoryGrows
  <2>6. out'[at] = f /\ \A p \in DOMAIN text : p # at => out'[p] = out[p]
    BY <1>1, <1>2, <2>3 DEF Send
  <2>7. Settling'
    BY <1>1, <2>1, <2>4, <2>5, <2>6, WordShielded
  <2> QED
    BY <2>1, <2>7
<1>3. ASSUME NEW i \in 1..MaxIndex,
             w \notin DOMAIN fakeOf,
             IsNextIndex(w.type, i),
             Send(at, Placeholder(w.type, i)),
             AddLiteral(w, Placeholder(w.type, i))
      PROVE  Safe' /\ Settling'
  <2>1. PICK f : f = Placeholder(w.type, i)
    OBVIOUS
  <2>2. PICK v : v = w
    OBVIOUS
  <2>3. f \notin DOMAIN originalOf /\ f \notin reserved
    BY <1>3, <2>1 DEF IsNextIndex, IsTaken
  <2>4. f # v
    BY <1>1, <2>2, <2>3
  <2>5. fakeOf' = Put(fakeOf, v, f) /\ originalOf' = Put(originalOf, f, v)
    BY <1>3, <2>1, <2>2 DEF AddLiteral
  <2>6. Safe' /\ MemoryGrows /\ f \in DOMAIN originalOf' /\ originalOf'[f] = v
    BY <1>1, <1>3, <2>2, <2>3, <2>4, <2>5, IssueKeepsSafe DEF IInv
  <2>7. Settled(v, None, f)'
    BY <2>6 DEF Settled
  <2>8. out'[at] = f /\ \A p \in DOMAIN text : p # at => out'[p] = out[p]
    BY <1>1, <1>3, <2>1 DEF Send
  <2>9. Settling'
    BY <1>1, <2>2, <2>6, <2>7, <2>8, WordShielded
  <2> QED
    BY <2>6, <2>9
<1> QED
  BY <1>2, <1>3 DEF ShieldLiteral

LEMMA NothingToShieldInv ==
    ASSUME IInv, NothingToShield
    PROVE  Safe' /\ Settling'
<1>1. /\ phase = "shield" /\ at \in DOMAIN text
      /\ UNCHANGED <<phase, text, ents, sent, reserved, mapping, out>> /\ at' = at + 1
  BY DEF NothingToShield, IInv, TypeOK
<1>2. Safe' /\ MemoryGrows
  BY <1>1, QuietStep
<1>3. PICK v : v = text[at]
  OBVIOUS
<1>4. out[at] = v
  <2>1. ~(at < at)
    BY DEF IInv, TypeOK
  <2> QED
    BY <1>1, <1>3, <2>1 DEF IInv, Settling, InProgress
<1>5. ents[at] = None => Settled(v, None, v)
  <2> SUFFICES ASSUME ents[at] = None PROVE v \in reserved \/ v \in Values
    BY DEF Settled
  <2>1. v \in Literals => v \in reserved
    BY <1>1, <1>3 DEF NothingToShield, MustSwap, IInv, Settling, LiteralsAccounted
  <2>2. v \in Values \cup Literals
    BY <1>1, <1>3 DEF IInv, TypeOK, Words
  <2> QED
    BY <2>1, <2>2
<1>6. ents[at] = None => Settled(v, None, v)'
  BY <1>2, <1>5, SettledStable
<1>7. Settling'
  BY <1>1, <1>2, <1>3, <1>4, <1>6, WordShielded
<1> QED
  BY <1>2, <1>7

\* Replacing the word at `at` by a fake freshly issued to it.
LEMMA IssueInv ==
    ASSUME IInv, AtEntity, Next1, NEW f, Send(at, f),
           NEW v, v = text[at], v \notin DOMAIN fakeOf,
           f \notin DOMAIN originalOf, f # v, f \notin reserved,
           Add(v, f, ents[at])
    PROVE  Safe' /\ Settling'
<1>1. UNCHANGED reserved /\ fakeOf' = Put(fakeOf, v, f) /\ originalOf' = Put(originalOf, f, v)
  BY DEF Next1, Add
<1>2. Safe' /\ MemoryGrows /\ f \in DOMAIN originalOf' /\ originalOf'[f] = v
  BY <1>1, IssueKeepsSafe DEF IInv
<1>3. PICK e : e = ents[at]
  OBVIOUS
<1>4. Settled(v, e, f)'
  BY <1>2 DEF Settled
<1> QED
  BY <1>2, <1>3, <1>4, WordReplaced

LEMMA StepInv == IInv /\ [Next]_vars => IInv'
<1> SUFFICES ASSUME IInv, [Next]_vars
             PROVE  IInv'
  OBVIOUS
<1>1. TypeOK /\ TypeOK'
  BY StepType DEF IInv
<1> SUFFICES Safe' /\ Settling'
  BY <1>1 DEF IInv
<1>2. CASE StartSomeText
  BY <1>1, <1>2, StartTextInv DEF StartSomeText
<1>3. CASE DetectionFails \/ FakesExhausted \/ Forward
  BY <1>3, Stopped DEF DetectionFails, FakesExhausted, Forward
<1>4. CASE ShieldLiteral
  BY <1>4, ShieldLiteralInv
<1>5. CASE NothingToShield
  BY <1>5, NothingToShieldInv
<1>6. CASE ShieldDone
  <2>1. UNCHANGED <<mapping, reserved, sent, text, ents, out>>
    BY <1>6 DEF ShieldDone
  <2>2. Safe' /\ SentSettled' /\ MemoryGrows
    BY <2>1, QuietStep
  <2>3. LiteralsAccounted'
    BY <2>1 DEF IInv, Settling, LiteralsAccounted, mapping
  <2>4. ASSUME NEW p \in DOMAIN text, p > at' \/ ents[p] = None
        PROVE  Settled(text[p], ents[p], out[p])'
    <3>1. p < at /\ p <= at'
      BY <1>1, <1>6 DEF ShieldDone, TypeOK
    <3>2. Settled(text[p], ents[p], out[p])
      BY <1>1, <1>6, <2>4, <3>1 DEF ShieldDone, IInv, Settling, InProgress, TypeOK
    <3> QED
      BY <2>1, <3>2 DEF Settled, mapping
  <2>5. InProgress'
    BY <1>6, <2>1, <2>4 DEF InProgress, ShieldDone
  <2> QED
    BY <2>2, <2>3, <2>5 DEF Settling
<1>7. CASE SkipWord
  <2>1. /\ UNCHANGED <<mapping, reserved, sent, text, ents, out, phase>>
        /\ phase = "replace" /\ at' = at - 1 /\ ents[at] = None
    BY <1>7 DEF SkipWord, Next1
  <2>2. Safe' /\ SentSettled' /\ MemoryGrows
    BY <2>1, QuietStep
  <2>3. LiteralsAccounted'
    BY <2>1 DEF IInv, Settling, LiteralsAccounted, mapping
  <2>4. ASSUME NEW p \in DOMAIN text, p > at' \/ ents[p] = None
        PROVE  Settled(text[p], ents[p], out[p])'
    <3>1. p > at \/ ents[p] = None
      BY <1>1, <2>1, <2>4 DEF TypeOK
    <3>2. Settled(text[p], ents[p], out[p])
      BY <2>1, <3>1 DEF IInv, Settling, InProgress
    <3> QED
      BY <2>1, <3>2 DEF Settled, mapping
  <2>5. InProgress'
    BY <2>1, <2>4 DEF InProgress
  <2> QED
    BY <2>2, <2>3, <2>5 DEF Settling
<1>8. CASE MaskEntity
  <2>1. PICK v : v = text[at]
    OBVIOUS
  <2>2. PICK e : e = ents[at]
    OBVIOUS
  <2>3. PICK f : f = Mask(e)
    OBVIOUS
  <2>4. AtEntity /\ Next1 /\ Send(at, f) /\ e \in Irreversible
        /\ UNCHANGED <<fakeOf, originalOf, reserved>>
    BY <1>8, <2>2, <2>3 DEF MaskEntity, Note, Reversible, Next1
  <2>5. Settled(v, e, f)'
    BY <2>3, <2>4 DEF Settled
  <2>6. MemoryGrows /\ Safe'
    BY <2>4 DEF MemoryGrows, IInv, Safe, MapsInverse, IssuedNotReserved
  <2> QED
    BY <2>1, <2>2, <2>4, <2>5, <2>6, WordReplaced
<1>9. CASE ReuseFake
  <2>1. PICK v : v = text[at]
    OBVIOUS
  <2>2. PICK e : e = ents[at]
    OBVIOUS
  <2>3. PICK f : f = fakeOf[v]
    OBVIOUS
  <2>4. AtEntity /\ Next1 /\ Send(at, f) /\ v \in DOMAIN fakeOf
        /\ UNCHANGED <<mapping, reserved, sent>>
    BY <1>9, <2>1, <2>3 DEF ReuseFake, Next1
  <2>5. Settled(v, e, f)
    BY <2>3, <2>4 DEF Settled, IInv, Safe, MapsInverse
  <2>6. MemoryGrows /\ Safe'
    BY <2>4, QuietStep
  <2>7. Settled(v, e, f)'
    BY <2>5, <2>6, SettledStable
  <2> QED
    BY <2>1, <2>2, <2>4, <2>6, <2>7, WordReplaced
<1>10. CASE IssuePlaceholder
  <2>1. PICK v : v = text[at]
    OBVIOUS
  <2>2. AtEntity /\ Next1 /\ v \notin DOMAIN fakeOf
    BY <1>10, <2>1 DEF IssuePlaceholder
  <2>3. PICK i \in 1..MaxIndex :
          LET f == Placeholder(ents[at], i)
          IN  IsNextIndex(ents[at], i) /\ Send(at, f) /\ Add(text[at], f, ents[at])
    BY <1>10 DEF IssuePlaceholder
  <2>4. PICK f : f = Placeholder(ents[at], i)
    OBVIOUS
  <2>5. Send(at, f) /\ Add(v, f, ents[at]) /\ f \notin DOMAIN originalOf /\ f \notin reserved
    BY <2>1, <2>3, <2>4 DEF IsNextIndex, IsTaken
  <2>6. f # v
    <3>0. at \in DOMAIN text /\ ents[at] \in Types
      BY <1>1, <2>2 DEF TypeOK, AtEntity
    <3>1. v \in Values \cup Literals /\ ents[at] \in Types /\ at \in DOMAIN text
      BY <1>1, <2>1, <3>0 DEF TypeOK, Words
    <3>2. v \in Literals => v \in reserved \cup DOMAIN originalOf
      BY <2>1, <3>1 DEF IInv, Settling, LiteralsAccounted
    <3>3. f \in Placeholders
      BY <2>4, <3>1 DEF Placeholders
    <3> QED
      BY <2>5, <3>1, <3>2, <3>3, ConstantsOK
  <2> QED
    BY <2>1, <2>2, <2>5, <2>6, IssueInv
<1>11. CASE IssueFake
  <2>1. PICK v : v = text[at]
    OBVIOUS
  <2>2. AtEntity /\ Next1 /\ v \notin DOMAIN fakeOf
    BY <1>11, <2>1 DEF IssueFake
  <2>3. PICK k \in 0..MaxRetries :
          /\ Usable(Candidate(k), text[at])
          /\ Send(at, Candidate(k))
          /\ Add(text[at], Candidate(k), ents[at])
    BY <1>11 DEF IssueFake
  <2>4. PICK f : f = Candidate(k)
    OBVIOUS
  <2>5. Send(at, f) /\ Add(v, f, ents[at]) /\ f \notin DOMAIN originalOf /\ f # v
    BY <2>1, <2>3, <2>4 DEF Usable
  <2>6. f \notin reserved
    <3>1. v \in Words /\ ents[at] \in Types
      BY <1>1, <2>1, <2>2 DEF TypeOK, AtEntity
    <3>2. f \in Values
      BY <2>1, <2>4, <3>1, ConstantsOK DEF Candidate, Words
    <3>3. reserved \subseteq Placeholders
      BY <1>1, ConstantsOK DEF TypeOK
    <3> QED
      BY <3>2, <3>3, ConstantsOK
  <2> QED
    BY <2>1, <2>2, <2>5, <2>6, IssueInv
<1>12. CASE EndText
  <2>1. /\ phase' = "idle" /\ text' = <<>>
        /\ sent' = Append(sent, [text |-> text, ents |-> ents, out |-> out])
        /\ UNCHANGED <<mapping, reserved>>
    BY <1>12 DEF EndText
  <2>2. MemoryGrows /\ Safe'
    BY <2>1 DEF MemoryGrows, mapping, IInv, Safe, MapsInverse, IssuedNotReserved
  <2>3. \A p \in DOMAIN text : Settled(text[p], ents[p], out[p])
    BY <1>1, <1>12 DEF EndText, IInv, Settling, InProgress, TypeOK
  <2>4. ASSUME NEW j \in DOMAIN sent', NEW p \in DOMAIN sent'[j].text
        PROVE  Settled(sent[j].text[p], sent[j].ents[p], sent[j].out[p])'
    <3>1. CASE j \in DOMAIN sent
      <4>1. sent'[j] = sent[j]
        BY <1>1, <2>1, <3>1 DEF TypeOK
      <4>2. Settled(sent[j].text[p], sent[j].ents[p], sent[j].out[p])
        BY <3>1, <2>4, <4>1 DEF IInv, Settling, SentSettled
      <4> QED
        BY <2>1, <4>1, <4>2 DEF Settled, mapping
    <3>2. CASE j = Len(sent) + 1
      <4>1. sent'[j] = [text |-> text, ents |-> ents, out |-> out]
        BY <1>1, <2>1, <3>2 DEF TypeOK
      <4>2. Settled(text[p], ents[p], out[p])
        BY <2>3, <2>4, <4>1
      <4> QED
        BY <2>1, <4>1, <4>2 DEF Settled, mapping
    <3> QED
      BY <1>1, <2>1, <3>1, <3>2 DEF TypeOK
  <2>5. SentSettled'
    BY <2>4 DEF SentSettled
  <2>6. LiteralsAccounted' /\ InProgress'
    BY <2>1 DEF LiteralsAccounted, InProgress
  <2> QED
    BY <2>2, <2>5, <2>6 DEF Settling
<1>13. CASE UNCHANGED vars
  <2>1. UNCHANGED <<mapping, reserved, sent>>
    BY <1>13 DEF vars
  <2> QED
    BY <1>13, <2>1, QuietStep
    DEF vars, mapping, IInv, Settling, LiteralsAccounted, InProgress, Settled
<1> QED
  BY <1>2, <1>3, <1>4, <1>5, <1>6, <1>7, <1>8, <1>9, <1>10, <1>11, <1>12, <1>13
  DEF Next, Over

LEMMA Inductive == Spec => []IInv
BY InitInv, StepInv, PTL DEF Spec

\* For every request, the two maps of PIIMapping stay inverse of each other: no
\* placeholder or fake ever restores to another value's original.
THEOREM MapsStayInverse == Spec => []MapsInverse
<1>1. IInv => MapsInverse
  BY DEF IInv, Safe
<1> QED
  BY <1>1, Inductive, PTL

\* For every request, no issued placeholder equals a placeholder-shaped string
\* that the client sent and that goes out verbatim.
THEOREM NeverIssuesReserved == Spec => []IssuedNotReserved
<1>1. IInv => IssuedNotReserved
  BY DEF IInv, Safe
<1> QED
  BY <1>1, Inductive, PTL

\* For every request, an echoed text is restored to exactly what the client
\* wrote, masked words and fake_replacement's unchecked fakes aside.
THEOREM RestoresExactly == Spec => []RestoreExact
<1>1. IInv => RestoreExact
  <2> SUFFICES ASSUME IInv, NEW j \in DOMAIN sent, NEW p \in DOMAIN sent[j].text
               PROVE  \/ sent[j].ents[p] \in Irreversible
                      \/ /\ sent[j].out[p] = sent[j].text[p]
                         /\ sent[j].text[p] \in Values \cap DOMAIN originalOf
                      \/ Restore(sent[j].out[p]) = sent[j].text[p]
    BY DEF RestoreExact
  <2> DEFINE w == sent[j].text[p]
             e == sent[j].ents[p]
             f == sent[j].out[p]
  <2>1. Settled(w, e, f)
    BY DEF IInv, Settling, SentSettled
  <2> HIDE DEF w, e, f
  <2>2. w \in reserved => w \notin DOMAIN originalOf
    BY DEF IInv, Safe, IssuedNotReserved
  <2>3. \/ e \in Irreversible
        \/ f = w /\ w \in Values \cap DOMAIN originalOf
        \/ Restore(f) = w
    BY <2>1, <2>2 DEF Settled, Restore
  <2> QED
    BY <2>3 DEF w, e, f
<1> QED
  BY <1>1, Inductive, PTL

\* A settled word that was detected does not have its own form.
LEMMA SettledIsHidden ==
    ASSUME IInv, NEW w \in Words, NEW e \in Types, NEW f, Settled(w, e, f)
    PROVE  f # w
<1>1. CASE e \in Irreversible /\ f = Mask(e)
  <2>1. w \in Values \cup Placeholders
    BY ConstantsOK DEF Words
  <2> QED
    BY <1>1, <2>1, ConstantsOK
<1>2. CASE f \in DOMAIN originalOf /\ originalOf[f] = w
  BY <1>2 DEF IInv, Safe, MapsInverse
<1> QED
  BY <1>1, <1>2, ConstantsOK DEF Settled

\* For every request, a detected word never leaves in its own form.
THEOREM DetectedNeverLeaves == Spec => []DetectedNeverSent
<1>1. IInv => DetectedNeverSent
  <2> SUFFICES ASSUME IInv, NEW j \in DOMAIN sent, NEW p \in DOMAIN sent[j].text,
                      sent[j].ents[p] # None
               PROVE  sent[j].out[p] # sent[j].text[p]
    BY DEF DetectedNeverSent
  <2> DEFINE w == sent[j].text[p]
             e == sent[j].ents[p]
             f == sent[j].out[p]
  <2>1. Settled(w, e, f)
    BY DEF IInv, Settling, SentSettled
  <2>2. w \in Words /\ e \in Types
    <3> DEFINE R == [text : Seq(Words), ents : Seq(Types \cup {None}), out : Seq(Wire)]
               q == sent[j].text
               r == sent[j].ents
    <3>1. sent \in Seq(R) /\ Len(r) = Len(q)
      BY DEF IInv, TypeOK
    <3>2. sent[j] \in R
      <4> HIDE DEF R
      <4> QED
        BY <3>1, SeqElement
    <3>3. q \in Seq(Words) /\ r \in Seq(Types \cup {None})
      BY <3>2
    <3> HIDE DEF q, r, R
    <3>4. \A k \in DOMAIN q : q[k] \in Words /\ r[k] \in Types \cup {None}
      BY <3>1, <3>3, SeqElement
    <3> QED
      BY <3>4 DEF q, r
  <2> HIDE DEF w, e, f
  <2>3. f # w
    BY <2>1, <2>2, SettledIsHidden
  <2> QED
    BY <2>3 DEF w, f
<1> QED
  BY <1>1, Inductive, PTL

-----------------------------------------------------------------------------
(* Known credentials *)

\* A known credential of the current text has an entity, and one as strong as the
\* credential's own; what is blocked never gets this far.
KnownCovered ==
    /\ phase = "idle" => text = <<>>
    /\ \A p \in DOMAIN text :
         /\ ents[p] \notin Blocked
         /\ text[p] \in known =>
              ents[p] # None /\ (SecretType \in Irreversible => ents[p] \in Irreversible)

LEMMA StartCovers ==
    ASSUME KnownCovered, NEW t, NEW e, NEW shown, NEW ties, StartText(t, e, shown, ties)
    PROVE  KnownCovered'
<1> DEFINE k == Remembered(t, e, shown)
           m == WithCopies(t, e, k, ties)
<1>1. CASE \E p \in DOMAIN t : m[p] \in Blocked
  <2>1. phase' = "blocked" /\ text' = text /\ text = <<>>
    BY <1>1 DEF StartText, KnownCovered
  <2> QED
    BY <2>1 DEF KnownCovered
<1>2. CASE ~ \E p \in DOMAIN t : m[p] \in Blocked
  <2>1. phase' = "shield" /\ text' = t /\ ents' = m /\ known' = k
    BY <1>2 DEF StartText
  <2>2. ASSUME NEW p \in DOMAIN t, t[p] \in k
        PROVE  m[p] # None /\ (SecretType \in Irreversible => m[p] \in Irreversible)
    <3>1. m[p] = IF CopyWins(e[p], p \in ties) THEN SecretType ELSE e[p]
      BY <2>2 DEF WithCopies
    <3>2. CASE CopyWins(e[p], p \in ties)
      BY <3>1, <3>2, ConstantsOK
    <3>3. CASE ~CopyWins(e[p], p \in ties)
      <4>1. m[p] = e[p] /\ e[p] # None /\ e[p] \notin Blocked
        BY <1>2, <3>1, <3>3 DEF CopyWins
      <4>2. ~(Priority(SecretType) > Priority(e[p]))
        BY <3>3 DEF CopyWins
      <4> QED
        BY <4>1, <4>2 DEF Priority
    <3> QED
      BY <3>2, <3>3
  <2> HIDE DEF k, m
  <2> QED
    BY <1>2, <2>1, <2>2 DEF KnownCovered
<1> QED
  BY <1>1, <1>2

LEMMA StepCovers == KnownCovered /\ [Next]_vars => KnownCovered'
<1> SUFFICES ASSUME KnownCovered, [Next]_vars
             PROVE  KnownCovered'
  OBVIOUS
<1>1. CASE StartSomeText
  BY <1>1, StartCovers DEF StartSomeText
<1>2. CASE EndText
  BY <1>2 DEF EndText, KnownCovered
<1>3. CASE UNCHANGED <<text, ents, known>> /\ (phase' = "idle" => phase = "idle")
  BY <1>3 DEF KnownCovered
<1> QED
  BY <1>1, <1>2, <1>3
  DEF Next, vars, Over, DetectionFails, ShieldLiteral, NothingToShield, ShieldDone, SkipWord,
      MaskEntity, ReuseFake, IssuePlaceholder, IssueFake, FakesExhausted, Forward, Next1,
      AtEntity

LEMMA Covered == Spec => []KnownCovered
<1>1. Init => KnownCovered
  BY DEF Init, KnownCovered
<1> QED
  BY <1>1, StepCovers, PTL DEF Spec

\* For every request, a credential recognised in one text never leaves verbatim in
\* that text or a later one, detected there or not (KnownNeverVerbatim).
THEOREM KnownNeverLeaves == Spec => KnownNeverVerbatim
<1>1. ASSUME IInv, KnownCovered, [Next]_vars, sent' # sent,
             NEW p \in DOMAIN text, text[p] \in known
      PROVE  out[p] # text[p]
  <2>1. phase = "replace" /\ at = 0
    BY <1>1
    DEF Next, vars, Over, StartSomeText, StartText, DetectionFails, ShieldLiteral,
        NothingToShield, ShieldDone, SkipWord, MaskEntity, ReuseFake, IssuePlaceholder,
        IssueFake, FakesExhausted, Forward, Next1, EndText
  <2>2. p > at
    BY <1>1, <2>1 DEF IInv, TypeOK
  <2>3. Settled(text[p], ents[p], out[p])
    BY <1>1, <2>1, <2>2 DEF IInv, Settling, InProgress
  <2>4. text[p] \in Words /\ ents[p] \in Types
    <3>1. /\ text \in Seq(Words) /\ ents \in Seq(Types \cup {None})
          /\ p \in DOMAIN ents /\ ents[p] # None
      BY <1>1 DEF IInv, TypeOK, KnownCovered
    <3> QED
      BY <1>1, <3>1, SeqElement
  <2> QED
    BY <1>1, <2>3, <2>4, SettledIsHidden
<1>2. IInv /\ KnownCovered /\ [Next]_vars =>
        [sent' # sent => \A p \in DOMAIN text : text[p] \in known => out[p] # text[p]]_vars
  BY <1>1
<1> QED
  BY <1>2, Inductive, Covered, PTL DEF Spec, KnownNeverVerbatim

\* For every request, a recognised credential whose type is irreversible is given no
\* fake afterwards, whatever type it is detected as later (KnownNeverReversible).
THEOREM KnownStaysIrreversible == Spec => KnownNeverReversible
<1>1. ASSUME TypeOK, KnownCovered, [Next]_vars, NEW v \in known,
             SecretType \in Irreversible, v \notin DOMAIN fakeOf
      PROVE  v \notin DOMAIN fakeOf'
  <2>1. CASE UNCHANGED fakeOf
    BY <1>1, <2>1
  <2>2. CASE ShieldLiteral
    <3>1. v \in Values /\ v \notin Literals
      BY <1>1, ConstantsOK DEF TypeOK
    <3>2. text[at] \in Literals
      BY <2>2 DEF ShieldLiteral, MustSwap
    <3>3. text[at] # v
      BY <3>1, <3>2
    <3>4. fakeOf' = fakeOf \/ \E f : fakeOf' = Put(fakeOf, text[at], f)
      BY <2>2 DEF ShieldLiteral, AddLiteral, mapping
    <3>5. v \notin DOMAIN fakeOf
      BY <1>1
    <3> QED
      BY <3>3, <3>4, <3>5 DEF Put
  <2>3. CASE IssuePlaceholder \/ IssueFake
    <3>1. at \in DOMAIN text /\ ents[at] \notin Irreversible
      BY <1>1, <2>3 DEF IssuePlaceholder, IssueFake, AtEntity, Reversible, TypeOK
    <3>2. text[at] # v
      BY <1>1, <3>1 DEF KnownCovered
    <3>3. DOMAIN fakeOf' = DOMAIN fakeOf \cup {text[at]}
      BY <2>3 DEF IssuePlaceholder, IssueFake, Add, Put
    <3> QED
      BY <1>1, <3>2, <3>3
  <2> QED
    BY <1>1, <2>1, <2>2, <2>3
    DEF Next, vars, mapping, Over, StartSomeText, StartText, DetectionFails, NothingToShield,
        ShieldDone, SkipWord, MaskEntity, Note, ReuseFake, FakesExhausted, Forward, EndText
<1>2. TypeOK /\ KnownCovered /\ [Next]_vars =>
        [\A v \in known :
           SecretType \in Irreversible /\ v \notin DOMAIN fakeOf => v \notin DOMAIN fakeOf']_vars
  BY <1>1
<1>3. Spec => []TypeOK
  BY TypeCorrect
<1> QED
  BY <1>2, <1>3, Covered, PTL DEF Spec, KnownNeverReversible
=============================================================================
