---------------------------- MODULE Conversation ----------------------------
(***************************************************************************)
(* A conversation of several requests through the proxy.  The client keeps  *)
(* the history and sends all of it each time; the proxy keeps nothing: it   *)
(* scrubs every request with a new PIIMapping, and restores the reply from  *)
(* it.  So what the gateway restored in one reply comes back to it in the   *)
(* next request, next to what it never touches.                             *)
(*                                                                         *)
(* An entry of the history is one leaf of the body and holds one text: a    *)
(* value that the detectors find, or a string shaped like a placeholder.    *)
(* Values are of one type and masked by numbered placeholders; clean text   *)
(* is left out.  A failing scan is a matter of Exchange.  A streamed reply  *)
(* of a gateway protocol goes through SSERestorer character by character;   *)
(* it ends the conversation here.                                           *)
(***************************************************************************)
EXTENDS SSERestorer, ScrubScope, FiniteSets

CONSTANTS
    Values,        \* what detectors find
    Settings,      \* [proto, opt, block, restore, stream, ask, say]
    MaxEntries,    \* bound: entries of a history
    MaxRequests,   \* bound: requests of a conversation
    MaxNumber,     \* bound: numbers of placeholders
    MaxLiteral     \* bound: numbers of those the client writes

Placeholder(n) == <<"placeholder", n>>
Placeholders == {Placeholder(n) : n \in 1..MaxNumber}

\* What a conversation goes by: the protocol, the passthrough options, the values whose
\* type block_entities has, whether replies are restored, whether they are streamed,
\* where the client writes (ask) and where the model does (say).
ASSUME SettingsOK ==
    /\ \A s \in Settings :
          /\ s.proto \in Protocols
          /\ s.opt \subseteq Passthroughs /\ s.block \subseteq Values
          /\ s.restore \in BOOLEAN /\ s.stream \in BOOLEAN
          /\ s.stream => s.proto \in Gateways
          /\ s.ask \subseteq AllPlaces /\ s.say \in AllPlaces
    /\ Values \cap Placeholders = {}
    /\ {MaxEntries, MaxRequests, MaxNumber, MaxLiteral} \subseteq Nat
    /\ MaxLiteral <= MaxNumber

VARIABLES
    set,      \* the settings of this conversation
    pc,       \* "writing" | "scrubbing" | "sent" | "streaming" | "over"
    requests, \* sent so far
    history,  \* the client's: [at, text, made], made being what the model wrote there
    reserved, \* mapping: _reserved
    original, \* mapping: _fake_to_original, of the placeholders by their number
    sent      \* the texts of the request as the provider gets them, so far

talkVars == <<set, pc, requests, history, reserved, original, sent>>
vars == <<talkVars, streamVars>>

Client == <<"client">>

Init ==
    /\ StreamInit
    /\ set \in Settings
    /\ pc = "writing"
    /\ requests = 0
    /\ history = <<>>
    /\ reserved = {} /\ original = <<>> /\ sent = <<>>

-----------------------------------------------------------------------------
(* The client: outside of the proxy *)

Write(at, text) ==
    /\ pc = "writing" /\ requests < MaxRequests
    /\ Len(history) < (IF set.stream THEN 1 ELSE MaxEntries)
    /\ history' = Append(history, [at |-> at, text |-> text, made |-> Client])
    /\ UNCHANGED <<set, pc, requests, reserved, original, sent>>

\* It drops the oldest of it, as clients do when a conversation gets too long.
Forget ==
    /\ pc = "writing" /\ requests \in 1..MaxRequests - 1
    /\ history # <<>>
    /\ history' = Tail(history)
    /\ UNCHANGED <<set, pc, requests, reserved, original, sent>>

-----------------------------------------------------------------------------
(* The request *)

Entry == history[Len(sent) + 1]
Scrubs(e) == Scrubbed(set.proto, set.opt, e.at)

\* Every placeholder the body holds, in what is relayed too, and in keys.
ReservedScrubbed == {t \in Placeholders : \E i \in DOMAIN history :
                        history[i].text = t /\ Scrubs(history[i])}
Reserved == {t \in Placeholders : \E i \in DOMAIN history : history[i].text = t}

Send ==
    /\ pc = "writing" /\ requests < MaxRequests /\ history # <<>>
    /\ pc' = "scrubbing"
    /\ requests' = requests + 1
    /\ reserved' = Reserved /\ original' = <<>> /\ sent' = <<>>
    /\ UNCHANGED <<set, history>>

\* A request's mapping ends with it.
MappingDropped == reserved' = {} /\ original' = <<>> /\ sent' = <<>>

Scrubbing == pc = "scrubbing" /\ Len(sent) < Len(history)

\* Strings shaped like a placeholder are reserved, so they need no shield.
Relay ==
    /\ Scrubbing
    /\ Scrubs(Entry) => Entry.text \notin Values
    /\ sent' = Append(sent, Entry.text)
    /\ UNCHANGED <<set, pc, requests, history, reserved, original>>

Masks == Scrubbing /\ Scrubs(Entry) /\ Entry.text \in Values \ set.block

Reuse(n) ==
    /\ Masks /\ n \in DOMAIN original /\ original[n] = Entry.text
    /\ sent' = Append(sent, Placeholder(n))
    /\ UNCHANGED <<set, pc, requests, history, reserved, original>>

IsTaken(n) == n \in DOMAIN original \/ Placeholder(n) \in reserved
\* The first number above the count of the type that is not taken.
IsNextIndex(n) ==
    LET first == Cardinality(DOMAIN original) + 1
    IN  n >= first /\ ~IsTaken(n) /\ \A m \in first..n - 1 : IsTaken(m)

Issue(n) ==
    /\ Masks /\ \A m \in DOMAIN original : original[m] # Entry.text
    /\ IsNextIndex(n)
    /\ original' = [m \in DOMAIN original \cup {n} |->
                      IF m = n THEN Entry.text ELSE original[m]]
    /\ sent' = Append(sent, Placeholder(n))
    /\ UNCHANGED <<set, pc, requests, history, reserved>>

\* block_entities rejects the request.
Reject ==
    /\ Scrubbing /\ Scrubs(Entry) /\ Entry.text \in set.block
    /\ pc' = "writing" /\ MappingDropped
    /\ UNCHANGED <<set, requests, history>>

\* After all that is scrubbed the prompt is gated.
GateRejects == \E i \in DOMAIN history :
    Gated(set.proto, history[i].at) /\ history[i].text \in set.block

Forward ==
    /\ pc = "scrubbing" /\ Len(sent) = Len(history)
    /\ IF GateRejects THEN pc' = "writing" /\ MappingDropped
       ELSE pc' = "sent" /\ UNCHANGED <<reserved, original, sent>>
    /\ UNCHANGED <<set, requests, history>>

-----------------------------------------------------------------------------
(* The reply *)

Plain(text) ==
    IF \E n \in DOMAIN original : text = Placeholder(n)
    THEN original[CHOOSE n \in DOMAIN original : text = Placeholder(n)]
    ELSE text

RestoredText(at, text) ==
    IF set.restore /\ Restored(set.proto, at) THEN Plain(text) ELSE text

\* do_restore: the mapping is not empty.
Streamed == set.stream /\ set.restore /\ original # <<>>

\* The model repeats a text it has read, which the client adds to the history.
Reply(i) ==
    /\ pc = "sent" /\ ~Streamed
    /\ i \in DOMAIN sent
    /\ history' = Append(history, [at |-> set.say, text |-> RestoredText(set.say, sent[i]),
                                   made |-> sent[i]])
    /\ pc' = "writing" /\ MappingDropped
    /\ UNCHANGED <<set, requests>>

Stream ==
    /\ pc = "sent" /\ Streamed
    /\ pc' = "streaming"
    /\ UNCHANGED <<set, requests, history, reserved, original, sent>>

StreamOver ==
    /\ pc = "streaming" /\ phase \in {"done", "failed"}
    /\ pc' = "over"
    /\ UNCHANGED <<set, requests, history, reserved, original, sent>>

Over ==
    /\ pc = "over" \/ (pc = "writing" /\ requests = MaxRequests)
    /\ UNCHANGED talkVars

Talk ==
    \/ \E at \in set.ask : \E t \in Values \cup {Placeholder(n) : n \in 1..MaxLiteral} : Write(at, t)
    \/ Forget
    \/ Send \/ Relay \/ Reject \/ Forward
    \/ \E n \in DOMAIN original : Reuse(n)
    \/ \E n \in 1..MaxNumber : Issue(n)
    \/ \E i \in DOMAIN sent : Reply(i)
    \/ Stream \/ StreamOver
    \/ Over

StreamStep ==
    pc = "streaming" /\ Streaming /\ UNCHANGED talkVars

Next ==
    \/ Talk /\ UNCHANGED streamVars
    \/ StreamStep

Spec == Init /\ [][Next]_vars
-----------------------------------------------------------------------------
(* Properties *)

\* A placeholder has one meaning in a request: restoring what the provider reads at a
\* place, were it to repeat it, gives what the client has there.  Placeholders of
\* earlier requests, which come back in blocks that are never restored, and strings
\* of the client's own that look like one are never taken for those of this request.
MeaningKept ==
    pc = "sent" => \A i \in DOMAIN sent : Plain(sent[i]) = history[i].text

\* What a provider signed or encrypted, thinking, reasoning and compaction, comes back
\* to it as it wrote it, though the client has been through a restored reply since.
Signed(proto, at) ==
    /\ proto \in Gateways
    /\ \E i \in DOMAIN at.path :
          /\ Type(at.path[i]) \in SkipTypes(proto)
          /\ \A j \in 1..i - 1 : at.path[j] \in Contents(proto, {})

SignedUntouched ==
    pc = "sent" => \A i \in DOMAIN sent :
        history[i].made # Client /\ Signed(set.proto, history[i].at)
            => sent[i] = history[i].made

\* What was restored for the client: it got a value where the model wrote a placeholder.
WasRestored(e) == e.made # Client /\ e.text # e.made

\* Scrub coverage must match restore coverage.
ScrubMatchesRestore ==
    pc = "sent" => \A i \in DOMAIN sent : WasRestored(history[i]) => sent[i] \notin Values

\* It does where a reply speaks: the texts of its messages and of the blocks in them, the
\* input of its calls at any depth, what the tools of the provider returned, and of a
\* block of another type the fields that hold text or data by their names.  It does not
\* everywhere else: the restore takes every string of a reply, the scrub what it knows.
\* Citations are restored and relayed when they come back, and so are the lines and the
\* error_message of a tool result, the pending_safety_checks of a computer call.
SpeaksIn(proto) ==
    IF proto = "anthropic"
    THEN {<<"message", "content">>, <<"document", "source">>}
           \cup ({"mcp_tool_result", "search_result", "other"} \X {"content"})
    ELSE {<<"body", "input">>, <<"message", "content">>, <<"other", "content">>}

SpokenTexts(proto) ==
    IF proto = "anthropic"
    THEN {<<"text", "text">>, <<"text_source", "data">>}
           \cup ({"document"} \X {"title", "context"})
           \cup ({"search_result"} \X {"title", "source"})
           \cup ({"mcp_tool_result", "search_result"} \X {"content"})
           \cup ({"other"} \X {"text", "title", "context", "source", "url", "reason",
                               "stdout", "stderr", "content"})
    ELSE {<<"custom_tool_call", "input">>, <<"message", "content">>}
           \cup ({"part"} \X {"text", "refusal"})
           \cup ({"other"} \X {"output", "input", "text", "reason", "content"})

SpokenData(proto) ==
    IF proto = "anthropic"
    THEN ({"tool_use", "server_tool_use", "mcp_tool_use"} \X {"input"})
           \cup ({"other"} \X {"input", "output"})
    ELSE ({"function_call", "other"} \X {"arguments"})
           \cup ({"computer_call", "local_shell_call", "shell_call", "web_search_call"}
                   \X {"action"})
           \cup {<<"computer_call", "actions">>, <<"apply_patch_call", "operation">>,
                 <<"shell_call_output", "output">>, <<"program", "code">>,
                 <<"program_output", "result">>}
           \cup ({"file_search_call"} \X {"queries", "results"})
           \cup ({"code_interpreter_call"} \X {"code", "outputs"})

\* In a chat everything that is restored, but the calls when the configuration says so.
Speaks(proto, opt, path) ==
    IF proto = "chat"
    THEN "tool_calls" \in opt => path[1] \notin {"message"} \X {"tool_calls", "function_call"}
    ELSE \E n \in DOMAIN path :
            /\ \A i \in 1..n - 1 : path[i] \in SpeaksIn(proto)
            /\ \/ n = Len(path) /\ path[n] \in SpokenTexts(proto)
               \/ path[n] \in SpokenData(proto) /\ ~HoldsBinaryPart(proto, path, n)

\* A value the proxy wrote into a reply where it speaks is masked again when the client
\* sends the reply back.
EchoMasked ==
    pc = "sent" => \A i \in DOMAIN sent :
        WasRestored(history[i]) /\ Speaks(set.proto, set.opt, history[i].at.path)
            => sent[i] \notin Values
=============================================================================
