---------------------------- MODULE ExchangeProofs ----------------------------
(***************************************************************************)
(* Proofs about Exchange: what the provider is sent, what the client gets   *)
(* and what is counted, for requests of any number of parts.                *)
(***************************************************************************)
EXTENDS Exchange, SequenceTheorems, TLAPS

-----------------------------------------------------------------------------
(* The inductive invariant *)

Maskable == {"pii", "lossy"}
Safe == {"clean", "prompt"} \cup Maskable

\* The parts scanned so far need no rejection, and found are those to mask.
Scanned(n) ==
    \A i \in 1..n : ask.parts[i] \in Safe /\ (ask.parts[i] \in Maskable <=> i \in found)

\* What can be forwarded, and what was counted and found for it.
AllMasked ==
    /\ config.pii /\ caller.endpoint \notin {"inspect", "models"}
    /\ ask \in Asks(caller.endpoint)
    /\ Scanned(Len(ask.parts)) /\ payload = Masked(found)
    /\ counted = IF found = {} THEN 0 ELSE 1
AsItCame ==
    /\ ~config.pii \/ (config.allow /\ ask.sick # {})
    /\ ask \in Asks(caller.endpoint)
    /\ payload = ask.parts /\ found = {} /\ counted = 0
BodyLess == payload = <<>> /\ caller.endpoint = "models" /\ found = {} /\ counted = 0
Ready == AllMasked \/ AsItCame \/ BodyLess

Untouched ==
    /\ payload = None /\ sent = None /\ answer = NoAnswer
    /\ counted = 0 /\ reply = "none" /\ conn = "none"

Types ==
    /\ config \in Config
    /\ caller \in Callers
    /\ body \in Bodies /\ body.got <= body.length
    /\ ask \in Asks(caller.endpoint) \cup {NoAsk}
    /\ pc \in {"arriving", "receiving", "admitted", "scanning", "calling", "replying",
               "streaming", "read", "end"}
    /\ done \in 0..Len(ask.parts)
    /\ found \in SUBSET (1..done)
    /\ conn \in {"none", "open", "closed"}
    /\ reply \in {"none", "error", "bare error", "report", "list", "asIs", "restored", "cut"}
    /\ answer \in {NoAnswer} \cup Answers

Answering ==
    /\ Ready /\ sent = payload /\ reply = "none"
    /\ answer \in Answers /\ (Replies \/ answer.ok)

Phases ==
    /\ pc \in {"arriving", "receiving", "admitted"} =>
         Untouched /\ done = 0 /\ found = {} /\ ask = NoAsk
    /\ pc \in {"receiving", "admitted"} => Admitted
    /\ Scanning =>
         /\ Untouched /\ config.pii /\ caller.endpoint # "models"
         /\ ask \in Asks(caller.endpoint)
         /\ done < Len(ask.parts) /\ Scanned(done)
    /\ pc = "calling" => Ready /\ sent = None /\ answer = NoAnswer /\ reply = "none" /\ conn = "none"
    /\ Replying => Answering
    /\ pc = "streaming" => Answering /\ Streams
    /\ pc = "read" => Answering /\ ~Streams /\ conn # "open"

\* Where a request can end.
Ended ==
    pc = "end" =>
        \/ /\ payload = None /\ sent = None /\ answer = NoAnswer /\ counted = 0
           /\ reply \in {"none", "error", "report", "list"} /\ conn = "none"
        \/ /\ Ready /\ sent = payload
           /\ conn = "open" => reply = "none" /\ Streams
           /\ \/ reply \in {"none", "error", "bare error", "restored", "cut"}
              \/ reply = "asIs" /\ (~DoRestore \/ answer.body = "opaque")

Inv == Types /\ Phases /\ Ended

-----------------------------------------------------------------------------
(* Sequences *)

\* The parts of a request are a sequence of kinds within the bound.
LEMMA PartsAreSeq ==
    ASSUME NEW e, NEW a \in Asks(e)
    PROVE  /\ Len(a.parts) \in 1..MaxParts
           /\ a.parts \in [1..Len(a.parts) -> Kinds]
<1>1. PICK n \in 1..MaxParts : a.parts \in [1..n -> Kinds]
  BY DEF Asks
<1>2. n \in Nat
  BY BoundsOK
<1>3. a.parts \in Seq(Kinds)
  BY <1>1, <1>2, SeqDef
<1>4. Len(a.parts) = n
  BY <1>1, <1>2, <1>3, LenProperties
<1> QED BY <1>1, <1>4

-----------------------------------------------------------------------------
(* Bodies *)

LEMMA NoBodyIsBody == NoBody \in Bodies /\ NoBody.got <= NoBody.length
<1>1. 0 \in 0..MaxLength
  BY BoundsOK
<1> QED BY <1>1 DEF NoBody, Bodies

\* A frame that is still to come fits.
LEMMA FrameFits ==
    ASSUME body \in Bodies, body.got <= body.length, NEW n \in Frames
    PROVE  LET b == [body EXCEPT !.got = @ + n]
           IN  b \in Bodies /\ b.got <= b.length
<1>1. body.length \in 0..MaxLength /\ body.got \in 0..MaxLength
  BY DEF Bodies
<1>2. body.got + n \in 0..MaxLength /\ body.got + n <= body.length
  BY <1>1, BoundsOK DEF Frames
<1> QED BY <1>1, <1>2 DEF Bodies

-----------------------------------------------------------------------------

\* Nothing is sent back, and nothing was scanned, before the body is read.
LEMMA InitInv == Init => Inv
<1> SUFFICES ASSUME Init PROVE Inv
  OBVIOUS
<1>1. Len(ask.parts) = 0
  BY DEF Init, NoAsk
<1>2. body \in Bodies /\ body.got <= body.length
  BY BoundsOK DEF Init, Bodies
<1> QED
  BY <1>1, <1>2 DEF Init, Inv, Types, Phases, Ended, Untouched, Scanning, Replying

\* Scanning a part that is let through.
LEMMA ScanPartInv == Inv /\ ScanPart => Inv'
<1> SUFFICES ASSUME Inv, ScanPart PROVE Inv'
  OBVIOUS
<1> USE DEF Part, Kind
<1>1. /\ Untouched /\ config.pii /\ caller.endpoint # "models"
      /\ ask \in Asks(caller.endpoint)
      /\ done < Len(ask.parts) /\ Scanned(done)
  BY DEF Inv, Phases, ScanPart, Scanning
<1>2. Len(ask.parts) \in Nat /\ ask.parts \in [1..Len(ask.parts) -> Kinds]
  BY <1>1, PartsAreSeq, BoundsOK
<1>3. done \in Nat /\ found \in SUBSET (1..done)
  <2>1. done \in 0..Len(ask.parts) /\ found \in SUBSET (1..done)
    BY DEF Inv, Types
  <2> QED BY <1>2, <2>1
<1>4. UNCHANGED <<config, caller, body, ask, sent, answer, conn>> /\ done' = done + 1
  BY DEF ScanPart, arrival
<1>p. PICK p \in 1..Len(ask.parts) : p = done + 1
  BY <1>1, <1>2, <1>3
<1>5. ask.parts[p] \in Safe
  <2>1. ask.parts[p] \in Kinds
    BY <1>2
  <2> QED BY <1>p, <2>1 DEF ScanPart, Gate, Kinds, Safe, Maskable
<1>6. found' = IF ask.parts[p] \in Maskable THEN found \cup {p} ELSE found
  BY <1>p DEF ScanPart, MaskedKind, Maskable
<1>7. found' \in SUBSET (1..p)
  BY <1>p, <1>3, <1>6, <1>2
<1>8. \A i \in 1..p : ask.parts[i] \in Safe /\ (ask.parts[i] \in Maskable <=> i \in found')
  <2> SUFFICES ASSUME NEW i \in 1..p
               PROVE  ask.parts[i] \in Safe /\ (ask.parts[i] \in Maskable <=> i \in found')
    OBVIOUS
  <2>1. CASE i = p
    BY <1>3, <1>5, <1>6, <1>p, <2>1
  <2>2. CASE i # p
    <3>1. i \in 1..done
      BY <1>3, <1>p, <2>2
    <3> QED BY <1>1, <1>6, <2>2, <3>1 DEF Scanned
  <2> QED BY <2>1, <2>2
<1>9. Types' <=> /\ pc' \in {"scanning", "calling", "end"} /\ conn \in {"none", "open", "closed"}
                 /\ reply' \in {"none", "error", "bare error", "report", "list", "asIs",
                               "restored", "cut"}
  <2>1. pc' \in {"scanning", "calling", "end"}
    BY DEF ScanPart, Scanning
  <2>2. p \in 0..Len(ask.parts)
    BY <1>2
  <2>3. Answers' = Answers
    BY <1>4 DEF Answers
  <2> QED BY <1>4, <1>7, <1>p, <2>1, <2>2, <2>3 DEF Inv, Types
<1>10. CASE p < Len(ask.parts)
  <2>1. pc' = pc /\ UNCHANGED <<payload, reply, counted>>
    <3>1. pc' = pc /\ UNCHANGED <<payload, reply>>
      BY <1>10, <1>p DEF ScanPart
    <3>2. Record(found') = counted
      BY <1>1, <1>10, <1>p DEF Record, Untouched
    <3> QED BY <3>1, <3>2 DEF ScanPart
  <2>2. Scanned(done)'
    BY <1>4, <1>8, <1>p DEF Scanned
  <2>3. pc = "scanning" /\ Untouched'
    BY <1>1, <1>4, <2>1 DEF ScanPart, Scanning, Untouched
  <2>4. Types'
    BY <1>1, <1>9, <2>1, <2>3 DEF Untouched
  <2> QED BY <1>1, <1>4, <1>10, <1>p, <2>1, <2>2, <2>3, <2>4
          DEF Inv, Phases, Ended, Scanning, Replying
<1>11. CASE p = Len(ask.parts) /\ DryRun
  <2>1. pc' = "end" /\ reply' = "report" /\ UNCHANGED <<payload, counted>>
    BY <1>11, <1>p DEF ScanPart
  <2>2. Types'
    BY <1>1, <1>9, <2>1 DEF Untouched
  <2> QED BY <1>1, <1>4, <2>1, <2>2
          DEF Inv, Phases, Ended, Scanning, Replying, Untouched
<1>12. CASE p = Len(ask.parts) /\ ~DryRun
  <2>1. pc' = "calling" /\ payload' = Masked(found') /\ counted' = Record(found') /\ reply' = reply
    BY <1>12, <1>p DEF ScanPart
  <2>2. counted' = IF found' = {} THEN 0 ELSE 1
    <3>1. counted = 0
      BY <1>1 DEF Untouched
    <3>2. Record(found') = IF found' # {} THEN 1 ELSE 0
      BY <1>12, <1>p, <3>1 DEF Record
    <3> QED BY <2>1, <3>2
  <2>3. payload' = Masked(found)'
    BY <1>4, <2>1 DEF Masked, Mask
  <2>4. Scanned(Len(ask.parts))'
    BY <1>4, <1>8, <1>12 DEF Scanned
  <2>5. AllMasked'
    BY <1>1, <1>4, <1>12, <2>2, <2>3, <2>4 DEF AllMasked, DryRun
  <2>6. Types'
    BY <1>1, <1>9, <2>1 DEF Untouched
  <2> QED BY <1>1, <1>4, <2>1, <2>5, <2>6
          DEF Inv, Phases, Ended, Scanning, Replying, Untouched, Ready
<1> QED BY <1>10, <1>11, <1>12, <1>2

LEMMA NextInv == Inv /\ [Next]_vars => Inv'
<1> SUFFICES ASSUME Inv, [Next]_vars PROVE Inv'
  OBVIOUS
<1> USE DEF Inv, Types, Phases, Ended, Answering, Untouched, Scanning, Replying, Answering
<1>a. ASSUME NEW e, NEW a \in Asks(e)
      PROVE  Len(a.parts) \in 1..MaxParts /\ a.parts \in [1..Len(a.parts) -> Kinds]
  BY PartsAreSeq
<1>s. ASSUME UNCHANGED <<config, caller, ask, payload, answer, found, counted>>
      PROVE  /\ Ready' <=> Ready
             /\ Answers' = Answers /\ (Replies' <=> Replies)
             /\ DoRestore' <=> DoRestore
             /\ Streams' <=> Streams
  <2>1. Ready' <=> Ready
    BY <1>s DEF Ready, AllMasked, AsItCame, BodyLess, Scanned, Masked, Mask
  <2>2. Answers' = Answers /\ (Replies' <=> Replies) /\ (DoRestore' <=> DoRestore)
    BY <1>s DEF Answers, Replies, DoRestore, IsEmpty
  <2>3. Streams' <=> Streams
    BY <1>s DEF Streams, IsStream, Replies, DoRestore, IsEmpty
  <2> QED BY <2>1, <2>2, <2>3
<1>b. NoBody \in Bodies /\ NoBody.got <= NoBody.length
  BY NoBodyIsBody
<1>e. ASSUME Untouched, NEW r \in {"none", "error", "report", "list"}, EndEarly(r)
      PROVE  Inv'
  BY <1>e, <1>b DEF EndEarly, End, NoScan
<1>1. CASE Unauthorised
  BY <1>1, <1>e DEF Unauthorised
<1>2. CASE Admit
  BY <1>2 DEF Admit, Going, NoScan, Admitted
<1>3. CASE \E n \in Frames : Receive(n)
  <2> PICK n \in Frames : Receive(n)
    BY <1>3
  <2>1. body' \in Bodies /\ body'.got <= body'.length
    BY FrameFits DEF Receive
  <2> QED BY <2>1 DEF Receive, Receiving, Going, NoScan, Admitted
<1>4. CASE \E n \in Frames : TooLarge(n)
  BY <1>4, <1>e DEF TooLarge, Receiving
<1>5. CASE HandOver
  BY <1>5, <1>b DEF HandOver, Receiving, Going, NoScan, Admitted
<1>6. CASE Disconnect
  <2>1. CASE caller.endpoint = "models"
    BY <1>6, <1>b, <2>1 DEF Disconnect, Receiving, Going, NoScan, Admitted
  <2>2. CASE caller.endpoint # "models"
    BY <1>6, <1>e, <2>2 DEF Disconnect, Receiving
  <2> QED BY <2>1, <2>2
<1>20. CASE Invalid
  BY <1>20, <1>e DEF Invalid
<1>21. CASE OwnList
  BY <1>21, <1>e DEF OwnList
<1>22. CASE RelayModels
  <2>1. BodyLess'
    BY <1>22 DEF RelayModels, NoScan, BodyLess, arrival
  <2> QED BY <1>22, <2>1 DEF RelayModels, NoScan, arrival, Ready
<1>23. CASE Begin
  <2>a. ask' \in Asks(caller.endpoint) /\ caller' = caller /\ Len(ask'.parts) \in 1..MaxParts
    BY <1>23, <1>a DEF Begin, arrival
  <2>1. CASE config.pii
    BY <1>23, <2>a, <2>1, BoundsOK DEF Begin, NoScan, Scanned, arrival
  <2>2. CASE ~config.pii
    <3>1. AsItCame'
      BY <1>23, <2>a, <2>2 DEF Begin, NoScan, AsItCame, arrival
    <3> QED BY <1>23, <2>a, <2>2, <3>1, BoundsOK DEF Begin, NoScan, Ready, arrival
  <2> QED BY <2>1, <2>2
<1>7. CASE Block
  BY <1>7, <1>e DEF Block
<1>8. CASE Refuse
  BY <1>8, <1>e DEF Refuse
<1>9. CASE ScanPart
  BY <1>9, ScanPartInv
<1>10. CASE ScanFails
  <2>1. CASE config.allow /\ ~DryRun
    <3>1. AsItCame'
      BY <1>10, <2>1 DEF ScanFails, Fine, Original, AsItCame, arrival
    <3> QED BY <1>10, <2>1, <3>1 DEF ScanFails, Ready, arrival
  <2>2. CASE ~(config.allow /\ ~DryRun)
    BY <1>10, <1>e, <2>2 DEF ScanFails
  <2> QED BY <2>1, <2>2
<1>11. CASE Call
  <2>1. Ready'
    BY <1>11 DEF Call, NoScan, Ready, AllMasked, AsItCame, BodyLess, Scanned, Masked, Mask, arrival
  <2>2. answer' \in Answers' /\ (Replies' \/ answer'.ok)
    BY <1>11 DEF Call, Answers, Replies, arrival
  <2> QED BY <1>11, <2>1, <2>2 DEF Call, NoScan, arrival
<1>12. CASE CallFails
  <2>1. Ready'
    BY <1>12, <1>s DEF CallFails, NoScan, arrival
  <2> QED BY <1>12, <2>1 DEF CallFails, NoScan, arrival
<1>13. CASE StartStream
  BY <1>13, <1>s DEF StartStream, NoScan, arrival
<1>14. CASE ReadWhole
  BY <1>14, <1>s DEF ReadWhole, NoScan, Close, arrival
<1>f. ASSUME Answering, NEW r \in {"none", "error", "bare error", "restored", "cut", "asIs"},
             EndReply(r), r = "asIs" => ~DoRestore \/ answer.body = "opaque"
      PROVE  Inv'
  <2>1. UNCHANGED <<config, caller, ask, payload, sent, answer, done, found, counted, body>>
    BY <1>f DEF EndReply, End, NoScan
  <2>2. pc' = "end" /\ reply' = r
    BY <1>f DEF EndReply, End
  <2>3. conn' \in {"none", "closed"}
    BY <1>f DEF EndReply, Close
  <2> QED BY <1>f, <1>s, <2>1, <2>2, <2>3
<1>15. CASE ReadFails
  BY <1>15, <1>f DEF ReadFails
<1>16. CASE RelayReply
  BY <1>16, <1>f DEF RelayReply, AtHand
<1>17. CASE RestoreStream
  <2>1. answer.body # "sse" => answer.body \in {"json", "opaque"} /\ IsStream
    BY <1>17 DEF RestoreStream, Streams, Answers
  <2>2. answer.body = "sse"
    BY <1>17, <2>1 DEF RestoreStream, IsStream, Answers
  <2> QED BY <1>17, <1>f, <2>2 DEF RestoreStream
<1>18. CASE RestoreBody
  <2>1. answer.body # "json" => answer.body = "opaque"
    BY <1>18 DEF RestoreBody, Streams, IsStream, Answers
  <2> QED BY <1>18, <1>f, <2>1 DEF RestoreBody
<1>19. CASE ReplyFails
  BY <1>19, <1>f DEF ReplyFails, AtHand
<1>24. CASE ClientGone
  <2>1. CASE Replying /\ Streams /\ End("none") /\ NoScan /\ UNCHANGED <<body, conn>>
    BY <1>s, <2>1 DEF End, NoScan
  <2>2. CASE pc = "read" /\ EndReply("none")
    BY <1>f, <2>2
  <2> QED BY <1>24, <2>1, <2>2 DEF ClientGone
<1>25. CASE UNCHANGED vars
  <2>1. /\ UNCHANGED <<config, caller, body, ask, pc, done, found, payload>>
        /\ UNCHANGED <<sent, answer, conn, reply, counted>>
    BY <1>25 DEF vars, arrival
  <2>2. Scanned(done)' <=> Scanned(done)
    BY <2>1 DEF Scanned
  <2>3. Admitted' <=> Admitted
    BY <2>1 DEF Admitted
  <2>4. /\ Ready' <=> Ready
        /\ Answers' = Answers /\ (Replies' <=> Replies)
        /\ DoRestore' <=> DoRestore
        /\ Streams' <=> Streams
    BY <1>s, <2>1
  <2>5. Types'
    BY <2>1, <2>4
  <2>6. Phases'
    BY <2>1, <2>2, <2>3, <2>4
  <2>7. Ended'
    BY <2>1, <2>4
  <2> QED BY <2>5, <2>6, <2>7
<1> QED
  BY <1>1, <1>2, <1>3, <1>4, <1>5, <1>6, <1>7, <1>8, <1>9, <1>10, <1>11, <1>12, <1>13,
     <1>14, <1>15, <1>16, <1>17, <1>18, <1>19, <1>20, <1>21, <1>22, <1>23, <1>24, <1>25
  DEF Next, Over

-----------------------------------------------------------------------------

\* Something of a request was masked.
Marked(s) == Holds(s, "masked") \/ Holds(s, "struck")

\* No part of a request is masked before it is scrubbed, and a request is no None.
LEMMA PartsAreRaw ==
    ASSUME NEW e, NEW a \in Asks(e) \cup {NoAsk}
    PROVE  /\ ~Marked(a.parts) /\ ~Marked(<<>>) /\ ~Marked(None)
           /\ a.parts # None
<1>1. ~Marked(<<>>)
  BY DEF Marked, Holds
<1>2. ~Marked(None)
  BY DEF Marked, Holds, None
<1>3. CASE a = NoAsk
  <2>1. a.parts = <<>> /\ None # <<>>
    BY <1>3 DEF NoAsk, None
  <2> QED BY <1>1, <1>2, <2>1
<1>4. CASE a \in Asks(e)
  <2>1. a.parts \in [1..Len(a.parts) -> Kinds] /\ Len(a.parts) \in 1..MaxParts
    BY <1>4, PartsAreSeq
  <2>2. ~Marked(a.parts)
    BY <2>1 DEF Marked, Holds, Kinds
  <2>3. a.parts[1] \in Kinds
    BY <2>1, BoundsOK
  <2>4. None[1] = "none"
    BY DEF None
  <2> QED BY <1>1, <1>2, <2>2, <2>3, <2>4 DEF Kinds
<1> QED BY <1>3, <1>4

LEMMA Invariant == Spec => []Inv
  BY InitInv, NextInv, PTL DEF Spec

\* Every state of a request is well typed, whatever its number of parts (TypeOK).
THEOREM TypeCorrect == Spec => []TypeOK
<1>1. Inv => TypeOK
  <2> SUFFICES ASSUME Inv PROVE TypeOK
    OBVIOUS
  <2>1. Len(ask.parts) \in 0..MaxParts
    <3>1. CASE ask = NoAsk
      BY <3>1, BoundsOK DEF NoAsk
    <3>2. CASE ask \in Asks(caller.endpoint)
      BY <3>2, PartsAreSeq, BoundsOK
    <3> QED BY <3>1, <3>2 DEF Inv, Types
  <2>2. answer \in [ok : BOOLEAN, body : {"none", "sse", "json", "opaque"}, typed : BOOLEAN]
    <3>1. answer = NoAnswer \/ answer \in Answers
      BY DEF Inv, Types
    <3>2. CASE answer = NoAnswer
      BY <3>2 DEF NoAnswer
    <3>3. CASE answer \in Answers
      BY <3>3 DEF Answers
    <3> QED BY <3>1, <3>2, <3>3
  <2>3. done \in 0..MaxParts
    <3>1. done \in 0..Len(ask.parts)
      BY DEF Inv, Types
    <3> QED BY <2>1, <3>1, BoundsOK
  <2>4. Replying => answer.body # "none"
    BY DEF Inv, Phases, Answering, Answers
  <2>5. Ready => payload = <<>> \/ payload = Masked(found)
    BY PartsAreSeq DEF Ready, AllMasked, AsItCame, BodyLess, Masked, Inv, Types
  <2>6. Ready => counted \in 0..1
    BY DEF Ready, AllMasked, AsItCame, BodyLess
  <2>7. /\ payload = None \/ payload = <<>> \/ payload = Masked(found)
        /\ sent = None \/ sent = payload
        /\ counted \in 0..1
    <3>1. \/ payload = None /\ sent = None /\ counted = 0
          \/ Ready /\ (sent = None \/ sent = payload)
      BY DEF Inv, Types, Phases, Ended, Answering, Untouched, Scanning, Replying
    <3> QED BY <2>5, <2>6, <3>1
  <2> QED BY <2>2, <2>3, <2>4, <2>7 DEF TypeOK, Inv, Types, Phases
<1> QED BY <1>1, Invariant, PTL

\* Nothing leaves half masked: what the provider is sent is free of what must not
\* leave, or it is the request as it came under the on_error opt-out (FailClosed).
THEOREM NeverHalfMasked == Spec => []FailClosed
<1>1. Inv => FailClosed
  <2> SUFFICES ASSUME Inv, config.pii, Forwarded
               PROVE  \/ \A k \in {"pii", "lossy", "blocked", "blocked prompt", "unsupported"} :
                            ~Holds(sent, k)
                      \/ config.allow /\ ask.sick # {} /\ sent = ask.parts
    BY DEF FailClosed
  <2>1. Ready /\ sent = payload
    BY DEF Inv, Types, Phases, Ended, Answering, Untouched, Forwarded, Scanning, Replying
  <2>2. CASE AllMasked
    BY <2>1, <2>2, PartsAreSeq
    DEF AllMasked, Masked, Mask, Scanned, Safe, Maskable, Holds, Inv, Types
  <2> QED BY <2>1, <2>2 DEF Ready, AsItCame, BodyLess, Forwarded
<1> QED BY <1>1, Invariant, PTL

\* A reply is relayed as it is only when nothing was masked for it or it repeats
\* nothing of the request (RestoredOrWithheld).
THEOREM NoPlaceholderLeft == Spec => []RestoredOrWithheld
<1>1. Inv => RestoredOrWithheld
  <2> SUFFICES ASSUME Inv, config.restore, Holds(sent, "masked"), reply = "asIs",
                      caller.endpoint # "embeddings"
               PROVE  answer.body = "opaque"
    BY DEF RestoredOrWithheld
  <2>1. Ready /\ sent = payload /\ (~DoRestore \/ answer.body = "opaque")
    BY DEF Inv, Types, Phases, Ended, Answering, Untouched, Scanning, Replying
  <2>2. ~Holds(ask.parts, "masked") /\ ~Holds(<<>>, "masked")
    BY PartsAreRaw DEF Inv, Types, Marked
  <2>3. AllMasked
    BY <2>1, <2>2 DEF Ready, AsItCame, BodyLess
  <2>4. ~IsEmpty
    <3>1. PICK i \in DOMAIN ask.parts : payload[i] = "masked"
      BY <2>1, <2>3 DEF AllMasked, Masked, Holds
    <3>2. i \in found /\ Mask(ask.parts[i]) = "masked"
      BY <2>2, <2>3, <3>1 DEF AllMasked, Masked, Holds
    <3> QED BY <3>2 DEF Mask, IsEmpty
  <2>5. caller.endpoint \in {"chat", "gateway"}
    BY <2>3 DEF AllMasked, Inv, Types, Callers, Endpoints
  <2> QED BY <2>1, <2>4, <2>5 DEF DoRestore
<1> QED BY <1>1, Invariant, PTL

\* A request is counted once when something of it was masked and it was sent, and in no
\* other case, one rejected after some of its parts were masked included (CountedOnce).
THEOREM CountsRequestsOnce == Spec => []CountedOnce
<1>1. Inv => CountedOnce
  <2> SUFFICES ASSUME Inv, sent # None \/ pc = "end"
               PROVE  counted = IF Marked(sent) THEN 1 ELSE 0
    BY DEF CountedOnce, Marked
  <2>1. ~Marked(ask.parts) /\ ~Marked(<<>>) /\ ~Marked(None)
    BY PartsAreRaw DEF Inv, Types
  <2>2. \/ sent = None /\ counted = 0
        \/ Ready /\ sent = payload
    BY DEF Inv, Types, Phases, Ended, Answering, Untouched, Scanning, Replying
  <2>3. CASE sent = None /\ counted = 0
    BY <2>1, <2>3
  <2>4. CASE sent = payload /\ (AsItCame \/ BodyLess)
    BY <2>1, <2>4 DEF AsItCame, BodyLess
  <2>5. CASE sent = payload /\ AllMasked
    <3>1. found \subseteq DOMAIN ask.parts
      <4>1. ask.parts \in [1..Len(ask.parts) -> Kinds] /\ Len(ask.parts) \in Nat
        BY <2>5, PartsAreSeq, BoundsOK DEF AllMasked
      <4>2. done \in 0..Len(ask.parts) /\ found \in SUBSET (1..done)
        BY DEF Inv, Types
      <4> QED BY <4>1, <4>2
    <3>2. CASE found = {}
      <4>1. \A i \in DOMAIN sent : i \in DOMAIN ask.parts /\ sent[i] = ask.parts[i]
        BY <2>5, <3>2 DEF AllMasked, Masked
      <4>2. ~Marked(sent)
        BY <2>1, <4>1 DEF Marked, Holds
      <4> QED BY <2>5, <3>2, <4>2 DEF AllMasked
    <3>3. ASSUME NEW i \in found PROVE counted = IF Marked(sent) THEN 1 ELSE 0
      <4>1. i \in DOMAIN sent /\ sent[i] = Mask(ask.parts[i])
        BY <2>5, <3>1, <3>3 DEF AllMasked, Masked
      <4>2. sent[i] \in {"masked", "struck"}
        BY <4>1 DEF Mask
      <4>3. Marked(sent)
        BY <4>1, <4>2 DEF Marked, Holds
      <4> QED BY <2>5, <3>3, <4>3 DEF AllMasked
    <3> QED BY <3>2, <3>3
  <2> QED BY <2>2, <2>3, <2>4, <2>5 DEF Ready
<1> QED BY <1>1, Invariant, PTL

\* The connection to the provider is given back at every end but one (Released).
THEOREM ConnectionReleased == Spec => []Released
<1>1. Inv => Released
  BY DEF Inv, Ended, Released
<1> QED BY <1>1, Invariant, PTL

-----------------------------------------------------------------------------
(* The limit *)

\* What has come of a body is within the limit, and its sender was let in.
Bounded == body \in Bodies /\ (body.got > 0 => Admitted /\ ~Beyond(body.got))

LEMMA EmptyIsBounded == ~(NoBody.got > 0)
  BY DEF NoBody

\* Only Receive holds more of the body than before; every other step keeps what is
\* held, or drops it.
LEMMA StepBounded == Inv /\ Bounded /\ [Next]_vars => Bounded' /\ (Admitted' <=> Admitted)
<1> SUFFICES ASSUME Inv, Bounded, [Next]_vars PROVE Bounded' /\ (Admitted' <=> Admitted)
  OBVIOUS
<1>1. UNCHANGED <<config, caller>>
  BY DEF Next, vars, arrival, Over, End, EndEarly, EndReply, Going, Unauthorised, Admit, Receive,
         TooLarge, HandOver, Disconnect, Invalid, OwnList, RelayModels, Begin, Block, Refuse,
         ScanPart, ScanFails, Call, CallFails, StartStream, ReadWhole, ReadFails, RelayReply,
         RestoreStream, RestoreBody, ReplyFails, ClientGone
<1>2. Admitted' <=> Admitted
  BY <1>1 DEF Admitted
<1>3. body' = body \/ body' = NoBody \/ \E n \in Frames : Receive(n)
  BY DEF Next, vars, arrival, Over, EndEarly, EndReply, Unauthorised, Admit,
         TooLarge, HandOver, Disconnect, Invalid, OwnList, RelayModels, Begin, Block, Refuse,
         ScanPart, ScanFails, Call, CallFails, StartStream, ReadWhole, ReadFails, RelayReply,
         RestoreStream, RestoreBody, ReplyFails, ClientGone
<1>4. CASE body' = body
  BY <1>2, <1>4 DEF Bounded, Beyond
<1>5. CASE body' = NoBody
  BY <1>2, <1>5, EmptyIsBounded, NoBodyIsBody DEF Bounded
<1>6. CASE \E n \in Frames : Receive(n)
  <2> PICK n \in Frames : Receive(n)
    BY <1>6
  <2>1. body' = [body EXCEPT !.got = @ + n] /\ Receiving /\ ~Exceeds(n)
    BY DEF Receive
  <2>2. body.got <= body.length
    BY DEF Inv, Types
  <2>3. body' \in Bodies
    BY <2>1, <2>2, FrameFits DEF Bounded
  <2>4. body'.got = body.got + n
    BY <2>1 DEF Bounded, Bodies
  <2>5. Admitted /\ ~Beyond(body.got + n)
    BY <2>1 DEF Inv, Phases, Receiving, Exceeds
  <2> QED BY <1>2, <2>3, <2>4, <2>5 DEF Bounded, Beyond
<1> QED BY <1>2, <1>3, <1>4, <1>5, <1>6

\* The body held is within the limit, whatever its frames and whatever length it
\* declares (BodyWithinLimit).
THEOREM LimitHolds == Spec => BodyWithinLimit
<1>1. Init => Bounded
  BY BoundsOK DEF Init, Bounded, Bodies
<1>2. Spec => []Bounded
  BY <1>1, Invariant, StepBounded, PTL DEF Spec
<1>3. Inv /\ Bounded /\ [Next]_vars =>
        [/\ body'.got > 0 => Admitted /\ ~Beyond(body'.got)
         /\ Receiving /\ pc' = "admitted" /\ caller.endpoint # "models" => ~Beyond(body.length)]_vars
  <2> SUFFICES ASSUME Inv, Bounded, [Next]_vars
               PROVE  /\ body'.got > 0 => Admitted /\ ~Beyond(body'.got)
                      /\ Receiving /\ pc' = "admitted" /\ caller.endpoint # "models"
                           => ~Beyond(body.length)
    OBVIOUS
  <2>1. body'.got > 0 => Admitted /\ ~Beyond(body'.got)
    BY StepBounded DEF Bounded, Beyond
  <2>2. ASSUME Receiving, pc' = "admitted", caller.endpoint # "models"
        PROVE  ~Beyond(body.length)
    <3>1. HandOver
      BY <2>2 DEF Receiving, Next, vars, Over, End, EndEarly, EndReply, Going, Unauthorised, Admit,
             Receive, TooLarge, Disconnect, Invalid, OwnList, RelayModels, Begin, Block, Refuse,
             ScanPart, ScanFails, Scanning, Call, CallFails, StartStream, ReadWhole, ReadFails,
             Replying, AtHand, RelayReply, RestoreStream, RestoreBody, ReplyFails, ClientGone
    <3>2. ~Beyond(body.got + 0) /\ body.got = body.length /\ body.got \in Nat
      BY <3>1, BoundsOK DEF HandOver, Exceeds, Bounded, Bodies
    <3> QED BY <3>2
  <2> QED BY <2>1, <2>2
<1> QED BY <1>2, <1>3, Invariant, PTL DEF Spec, BodyWithinLimit
=============================================================================
