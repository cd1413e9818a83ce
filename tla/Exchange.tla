------------------------------- MODULE Exchange -------------------------------
(***************************************************************************)
(* One request through the proxy: authentication, the frames of its body    *)
(* under the size limit, validation, the scrub of its parts under the       *)
(* on_error policy, the call of the provider, and the reply with the        *)
(* connection it comes over.  Chat and completions, embeddings, the two     *)
(* gateway protocols, the dry run and the model list go through the same    *)
(* steps with their own variations.                                         *)
(*                                                                         *)
(* Requests share nothing here but the engine, whose caches have modules of *)
(* their own, so one request is enough.  A part is a text of its body (a    *)
(* message, a tool argument, a suffix, an item of a batch), scanned one     *)
(* after the other; every scan is an await.  What a body says is chosen     *)
(* when it is read; its size is its own matter.                             *)
(***************************************************************************)
EXTENDS Naturals, Sequences, FiniteSets

CONSTANTS
    MaxParts,  \* bound: parts of a request
    Limit,     \* server.max_request_bytes; 0 is none
    MaxLength  \* bound: length of a body

ASSUME BoundsOK == MaxParts \in Nat \ {0} /\ Limit \in Nat /\ MaxLength \in Nat

\* What a part holds: nothing, values to mask by placeholders or (lossy) for good, a
\* type of block_entities, or content strict mode refuses.  The prompt of an agent is
\* relayed as it came, and checked for blocked types only.
Kinds == {"clean", "pii", "lossy", "blocked", "unsupported", "prompt", "blocked prompt"}
Endpoints == {"chat", "embeddings", "gateway", "inspect", "models"}

Config == [pii : BOOLEAN, allow : BOOLEAN, restore : BOOLEAN, auth : BOOLEAN, gateway : BOOLEAN]
Callers == [endpoint : Endpoints, key : BOOLEAN]

\* A body comes in frames, its length declared or not; got of it has come.
Bodies == [length : 0..MaxLength, declared : BOOLEAN, got : 0..MaxLength]
NoBody == [length |-> 0, declared |-> FALSE, got |-> 0]

\* sick: the parts on which a detector or the anonymizer fails.  A dry run has one
\* text; only the gateway tells prompts apart.
Asks(endpoint) ==
    LET Ask == [stream : BOOLEAN, parts : UNION {[1..n -> Kinds] : n \in 1..MaxParts},
                sick : SUBSET (1..MaxParts)]
        PartsOK(a) ==
            \A i \in DOMAIN a.parts :
                /\ a.parts[i] \in {"prompt", "blocked prompt"} => endpoint = "gateway"
                /\ endpoint = "inspect" => i = 1 /\ a.parts[i] # "unsupported"
    IN  {a \in Ask : PartsOK(a) /\ a.sick \subseteq DOMAIN a.parts
                     /\ (a.stream => endpoint \in {"chat", "gateway"})}
NoAsk == [stream |-> FALSE, parts |-> <<>>, sick |-> {}]

VARIABLES
    config,   \* the configuration, fixed at start-up
    caller,   \* who asks, and where
    body,     \* the body while it arrives
    ask,      \* what it says, once it is read
    pc,       \* "arriving" | "receiving" | "admitted" | "scanning" | "calling" |
              \* "replying" | "streaming" | "read" | "end"
    done,     \* parts scanned
    found,    \* the parts whose values were masked
    payload,  \* what would be forwarded, part by part; None before it is known
    sent,     \* what the provider was sent, or None
    answer,   \* what it answered, or NoAnswer
    conn,     \* the connection its answer comes over: "none" | "open" | "closed"
    reply,    \* what the client got
    counted   \* how often the request was counted in /stats

arrival == <<caller, body>>
vars == <<config, arrival, ask, pc, done, found, payload, sent, answer, conn, reply, counted>>

None == <<"none">>
NoAnswer == [ok |-> FALSE, body |-> "none", typed |-> FALSE]

Init ==
    /\ config \in Config
    /\ caller \in Callers
    /\ body \in {b \in Bodies : b.got = 0}
    /\ ask = NoAsk
    /\ pc = "arriving"
    /\ done = 0 /\ found = {}
    /\ payload = None /\ sent = None /\ answer = NoAnswer
    /\ conn = "none" /\ reply = "none"
    /\ counted = 0

End(r) ==
    /\ pc' = "end" /\ reply' = r
    /\ UNCHANGED <<config, caller, ask, payload, sent, answer>>
NoScan == UNCHANGED <<done, found, counted>>
EndEarly(r) == End(r) /\ NoScan /\ body' = NoBody /\ UNCHANGED conn

-----------------------------------------------------------------------------
(* Before anything is scanned *)

\* The gateway routes relay the credentials of the client instead.
Admitted ==
    \/ ~config.auth
    \/ caller.key
    \/ config.gateway /\ caller.endpoint \in {"gateway", "models"}

Unauthorised == pc = "arriving" /\ ~Admitted /\ EndEarly("error")

Going(to) ==
    /\ pc' = to
    /\ UNCHANGED <<config, caller, ask, payload, sent, answer, conn, reply>> /\ NoScan

\* Authentication is outermost: it comes before any of the body is buffered.
Admit == pc = "arriving" /\ Admitted /\ Going("receiving") /\ UNCHANGED body

\* The declared length is looked at first, then the bytes are counted as they come.
Receiving == pc = "receiving"
Beyond(n) == Limit # 0 /\ n > Limit
BeyondDeclared(n) == body.declared /\ Beyond(body.length)
Exceeds(n) == (body.declared /\ Beyond(body.length)) \/ Beyond(body.got + n)

Frames == 0..(body.length - body.got)

Receive(n) ==
    /\ Receiving /\ n \in Frames /\ ~Exceeds(n)
    /\ body' = [body EXCEPT !.got = @ + n]
    /\ Going("receiving")

TooLarge(n) == Receiving /\ n \in Frames /\ Exceeds(n) /\ EndEarly("error")

\* The whole body is replayed to the application.
HandOver ==
    /\ Receiving /\ ~Exceeds(0) /\ body.got = body.length
    /\ body' = NoBody
    /\ Going("admitted")

\* The client goes away in the middle of it, which is replayed too: an application
\* that reads the body fails, the relay of the model list does not read it.
Disconnect ==
    /\ Receiving /\ ~Exceeds(0)
    /\ IF caller.endpoint = "models" THEN Going("admitted") /\ body' = NoBody
       ELSE EndEarly("none")

\* The body is no JSON object, the model or a parameter is unknown, the dry run is
\* off, or there is no such route.
Invalid == pc = "admitted" /\ EndEarly("error")

\* A caller known to hold a PrivAiTe key gets the list of this proxy, and its key
\* is not sent upstream.
OwnList ==
    /\ pc = "admitted" /\ caller.endpoint = "models"
    /\ ~config.gateway \/ (config.auth /\ caller.key)
    /\ EndEarly("list")

RelayModels ==
    /\ pc = "admitted" /\ caller.endpoint = "models"
    /\ config.gateway /\ ~(config.auth /\ caller.key)
    /\ pc' = "calling" /\ payload' = <<>>
    /\ UNCHANGED <<config, arrival, ask, sent, answer, conn, reply>> /\ NoScan

Begin ==
    /\ pc = "admitted" /\ caller.endpoint # "models"
    /\ caller.endpoint = "gateway" => config.gateway
    /\ caller.endpoint = "inspect" => config.pii
    /\ ask' \in Asks(caller.endpoint)
    /\ IF config.pii
       THEN pc' = "scanning" /\ UNCHANGED payload
       ELSE pc' = "calling" /\ payload' = ask'.parts
    /\ UNCHANGED <<config, arrival, sent, answer, conn, reply>> /\ NoScan

-----------------------------------------------------------------------------
(* anonymize_or_error *)

Part == done + 1
Kind == ask.parts[Part]
Scanning == pc = "scanning"
DryRun == caller.endpoint = "inspect"
Fine == Part \notin ask.sick

\* The parts as they are forwarded: those of F masked.  The body of the request is
\* never changed itself, so that on_error can still forward it as it came.
Mask(kind) == IF kind = "lossy" THEN "struck" ELSE "masked"
Masked(F) == [i \in DOMAIN ask.parts |-> IF i \in F THEN Mask(ask.parts[i]) ELSE ask.parts[i]]
Original == ask.parts

\* record_pii_stats: once for the request, when all of it was scrubbed, though nothing
\* was masked reversibly (has_detections).
MaskedKind == Kind \in {"pii", "lossy"}
RecordEveryPart(F) == counted + (IF MaskedKind THEN 1 ELSE 0)
Record(F) == counted + (IF Part = Len(ask.parts) /\ F # {} THEN 1 ELSE 0)

\* The gate comes before the masking of the same text, and before that of later
\* ones: whatever was masked is not sent.
GateTextsOnly == Kind = "blocked"
Gate == Kind \in {"blocked", "blocked prompt"}

Block ==
    /\ Scanning /\ Fine /\ Gate
    /\ EndEarly(IF DryRun THEN "report" ELSE "error")

Refuse ==
    /\ Scanning /\ Fine /\ Kind = "unsupported"
    /\ EndEarly("error")

ScanPart ==
    /\ Scanning /\ Fine /\ ~Gate /\ Kind # "unsupported"
    /\ done' = Part
    /\ found' = IF MaskedKind THEN found \cup {Part} ELSE found
    /\ counted' = IF DryRun THEN counted ELSE Record(found')
    /\ UNCHANGED <<config, arrival, ask, sent, answer, conn>>
    /\ \/ Part < Len(ask.parts) /\ UNCHANGED <<pc, payload, reply>>
       \/ Part = Len(ask.parts) /\ DryRun
            /\ pc' = "end" /\ reply' = "report" /\ UNCHANGED payload
       \/ Part = Len(ask.parts) /\ ~DryRun
            /\ pc' = "calling" /\ payload' = Masked(found') /\ UNCHANGED reply

\* A failure blocks the request, unless on_error is "allow": then the request as
\* it came goes on, without a mapping.
ScanFails ==
    /\ Scanning /\ ~Fine
    /\ IF config.allow /\ ~DryRun
       THEN /\ pc' = "calling" /\ payload' = Original /\ found' = {}
            /\ UNCHANGED <<config, arrival, ask, done, sent, answer, conn, reply, counted>>
       ELSE EndEarly("error")

-----------------------------------------------------------------------------
(* The provider: outside of the proxy *)

\* It answers a stream request with an SSE body, which may lack its content type,
\* and an error with JSON or with a body that repeats nothing of the request.
Answers ==
    IF ask.stream
    THEN [ok : {TRUE}, body : {"sse"}, typed : BOOLEAN]
           \cup [ok : {FALSE}, body : {"json", "opaque"}, typed : {FALSE}]
    ELSE [ok : BOOLEAN, body : {"json"}, typed : {FALSE}]
           \cup [ok : {FALSE}, body : {"opaque"}, typed : {FALSE}]

\* The gateway reads the answer itself, over a connection of its own pool.  LiteLLM
\* keeps its connections, and raises when the provider answers with an error.
Replies == caller.endpoint \in {"gateway", "models"}

Call ==
    /\ pc = "calling"
    /\ sent' = payload
    /\ \E a \in Answers : (Replies \/ a.ok) /\ answer' = a
    /\ conn' = IF Replies THEN "open" ELSE "none"
    /\ pc' = "replying"
    /\ UNCHANGED <<config, arrival, ask, payload, reply>> /\ NoScan

CallFails ==
    /\ pc = "calling"
    /\ sent' = payload
    /\ pc' = "end" /\ reply' = "error"
    /\ UNCHANGED <<config, arrival, ask, payload, answer, conn>> /\ NoScan

-----------------------------------------------------------------------------
(* The reply *)

Replying == pc = "replying"
\* is_empty: what was masked for good is not in the mapping.
IsEmpty == \A i \in found : ask.parts[i] = "lossy"
DoRestore == caller.endpoint \in {"chat", "gateway"} /\ ~IsEmpty /\ config.restore

\* For the gateway the stream flag of the client counts as much as the content
\* type; the answers of LiteLLM are objects of the kind that was asked for.
IsStreamByType == IF Replies THEN answer.typed ELSE ask.stream
IsStream == IF Replies THEN answer.typed \/ (ask.stream /\ answer.ok) ELSE ask.stream

\* What the gateway does not restore it passes through chunk by chunk, whatever it is.
Streams == IsStream \/ (Replies /\ ~DoRestore)

\* The finally of both generators, and what httpx does when reading fails.
CloseIfWhole(r) == conn' = IF conn = "open" /\ r # "cut" THEN "closed" ELSE conn
Close(r) == conn' = IF conn = "open" THEN "closed" ELSE conn

EndReply(r) == End(r) /\ NoScan /\ Close(r) /\ UNCHANGED body

\* The status and the headers are sent, and the generator of the body begins.
StartStream ==
    /\ Replying /\ Streams
    /\ pc' = "streaming"
    /\ UNCHANGED <<config, arrival, ask, payload, sent, answer, conn, reply>> /\ NoScan

ReadWhole ==
    /\ Replying /\ ~Streams
    /\ pc' = "read" /\ Close("whole")
    /\ UNCHANGED <<config, arrival, ask, payload, sent, answer, reply>> /\ NoScan

\* It breaks off: the exception leaves the handler, for an error without a body.
ReadFails == Replying /\ ~Streams /\ Replies /\ EndReply("bare error")

AtHand == pc \in {"streaming", "read"}

RelayReply == AtHand /\ ~DoRestore /\ EndReply("asIs")

\* The restorers read SSE lines, and leave others as they are.
RestoreStream ==
    /\ pc = "streaming" /\ DoRestore
    /\ EndReply(IF answer.body = "sse" THEN "restored" ELSE "asIs")

\* A body that is no JSON is relayed unchanged.
RestoreBody ==
    /\ pc = "read" /\ DoRestore
    /\ EndReply(IF answer.body = "json" THEN "restored" ELSE "asIs")

\* A stream breaks off when reading or restoring it fails, or the client goes away;
\* of a whole body nothing is sent when its restore fails.
ReplyFails == AtHand /\ EndReply(IF pc = "streaming" THEN "cut" ELSE "error")

\* The client went away before anything was sent.  A generator that was never begun
\* never comes to its finally.
ClientGone ==
    \/ Replying /\ Streams /\ End("none") /\ NoScan /\ UNCHANGED <<body, conn>>
    \/ pc = "read" /\ EndReply("none")

Over == pc = "end" /\ UNCHANGED vars

Next ==
    \/ Unauthorised \/ Admit
    \/ \E n \in Frames : Receive(n) \/ TooLarge(n)
    \/ HandOver \/ Disconnect
    \/ Invalid \/ OwnList \/ RelayModels \/ Begin
    \/ Block \/ Refuse \/ ScanPart \/ ScanFails
    \/ Call \/ CallFails
    \/ StartStream \/ ReadWhole \/ ReadFails
    \/ RelayReply \/ RestoreStream \/ RestoreBody \/ ReplyFails
    \/ ClientGone \/ Over

Spec == Init /\ [][Next]_vars

-----------------------------------------------------------------------------
(* Properties *)

TypeOK ==
    /\ config \in Config
    /\ caller \in Callers
    /\ body \in Bodies /\ body.got <= body.length
    /\ ask \in Asks(caller.endpoint) \cup {NoAsk}
    /\ pc \in {"arriving", "receiving", "admitted", "scanning", "calling", "replying",
               "streaming", "read", "end"}
    /\ done \in 0..MaxParts
    /\ Scanning => done < Len(ask.parts)
    /\ found \in SUBSET (1..done)
    /\ payload = None \/ payload = <<>> \/ payload = Masked(found)
    /\ sent = None \/ sent = payload
    /\ answer \in [ok : BOOLEAN, body : {"none", "sse", "json", "opaque"}, typed : BOOLEAN]
    /\ Replying => answer.body # "none"
    /\ conn \in {"none", "open", "closed"}
    /\ reply \in {"none", "error", "bare error", "report", "list", "asIs", "restored", "cut"}
    /\ counted \in 0..1

Forwarded == sent \notin {None, <<>>}
Holds(s, k) == \E i \in DOMAIN s : s[i] = k

\* With PII processing on, the provider is sent a request in which every value to
\* mask is masked, no blocked type and nothing strict mode refuses; or, when the
\* operator chose on_error "allow" and a scan failed, the whole request just as it
\* came, never half of it masked.
FailClosed ==
    config.pii /\ Forwarded =>
        \/ \A k \in {"pii", "lossy", "blocked", "blocked prompt", "unsupported"} : ~Holds(sent, k)
        \/ config.allow /\ ask.sick # {} /\ sent = ask.parts

\* A client never gets a reply with placeholders in it while the restore is on:
\* it is restored, cut short or withheld, whether the provider streams, sends no
\* content type, or answers with an error.
RestoredOrWithheld ==
    config.restore /\ Holds(sent, "masked") /\ caller.endpoint # "embeddings" /\ reply = "asIs"
        => answer.body = "opaque"

\* /stats counts a request once if something of it was masked, reversibly or not, and it
\* was sent, a batch of several items too; it never counts one that is rejected, after
\* some of its parts were masked or before, one sent as it came, or a dry run.
CountedOnce ==
    sent # None \/ pc = "end" =>
        counted = IF Holds(sent, "masked") \/ Holds(sent, "struck") THEN 1 ELSE 0

\* The proxy holds no more of a body than the limit allows, and nothing of one whose
\* sender it has not admitted; what it reads is never longer than the limit.
BodyWithinLimit ==
    [][/\ body'.got > 0 => Admitted /\ ~Beyond(body'.got)
       /\ Receiving /\ pc' = "admitted" /\ caller.endpoint # "models" => ~Beyond(body.length)]_vars

\* However a request ends, the connection to the provider is given back: the stream
\* breaks off, reading or restoring fails, or the client goes away.  But for a client
\* gone before the first byte of a stream.
Released == pc = "end" /\ conn = "open" => reply = "none" /\ Streams
=============================================================================
