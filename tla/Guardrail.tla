------------------------------ MODULE Guardrail ------------------------------
(***************************************************************************)
(* One call through the hooks of the LiteLLM guardrail,                     *)
(* privaite_guardrail.py: the pre-call hook scrubs the request in place and *)
(* leaves the map in its metadata; the post-call, streaming or failure hook *)
(* takes it from there.  The proxy made a shallow copy of the request       *)
(* before, for its logs.                                                    *)
(*                                                                         *)
(* The text of a field is what the detectors find in it.  Any scan may      *)
(* fail.  The hooks share an engine behind a lock, as in OpenWebUIFilter,   *)
(* with settings that never change: here it is there or cannot be built.    *)
(***************************************************************************)
EXTENDS GuardrailStream

CONSTANT MaxFields \* bound: fields of a request

ASSUME MaxFieldsOK == MaxFields \in Nat

VARIABLES
    pc,       \* "arrived" | "engine" | "gate" | "scan" | "stash" | "sent" | "restoring"
              \* | "streaming" | "error" | "done" | "failed" | "gone"
    ask,      \* the call: [holds, strings, stream]
    deanonymize, block, \* whether replies are restored; whether block_entities is set
    data,     \* field -> its content now
    snapshot, \* proxy_server_request.body: the same, as the proxy logs it
    todo,     \* the fields still to be scanned
    issued,   \* the mapping is not empty
    map,      \* metadata["privaite_map"]: "none" | "own" | "foreign"
    used      \* the map the reply is restored from

callVars == <<pc, ask, deanonymize, block, data, snapshot, todo, issued, map, used>>
vars == <<callVars, streamVars>>

\* The fields _anonymize_request scans, in its order, and the one the gate only reads.
Scanned == <<"messages", "input", "variables", "prediction", "user_location",
             "extra_body", "suffix", "prompt">>
ScannedFields == {Scanned[i] : i \in DOMAIN Scanned}
Prompt == "system"
Fields == ScannedFields \cup {Prompt}

\* A request with few fields: "variables" is the template shape of a prompt, and only
\* an input or a prompt may be token IDs or, like a suffix, a bare string.  The streams
\* restored are those of chats; they know the request by its map only, so it is simple.
Asks ==
    {a \in [holds : UNION {[F -> {"clean", "pii", "blocked", "tokens"}] :
                             F \in {G \in SUBSET Fields : Cardinality(G) <= MaxFields}},
            strings : SUBSET {"input", "prompt", "suffix"}, stream : BOOLEAN] :
        /\ ~({"variables", "prompt"} \subseteq DOMAIN a.holds)
        /\ a.strings \subseteq DOMAIN a.holds
        /\ "suffix" \in DOMAIN a.holds => "suffix" \in a.strings
        /\ \A f \in DOMAIN a.holds :
              a.holds[f] = "tokens" => f \in {"input", "prompt"} \ a.strings
        /\ a.stream => DOMAIN a.holds = {"messages"} /\ a.holds["messages"] \in {"clean", "pii"}}

Init ==
    /\ StreamInit
    /\ pc = "arrived"
    /\ ask \in Asks
    /\ deanonymize \in BOOLEAN /\ block \in (IF ask.stream THEN {FALSE} ELSE BOOLEAN)
    /\ data = ask.holds /\ snapshot = ask.holds
    /\ todo = {} /\ issued = FALSE
    /\ map \in {"none", "foreign"} /\ used = "none"

-----------------------------------------------------------------------------
(* The pre-call hook *)

NothingToRead == DOMAIN data \subseteq (IF block THEN {} ELSE {Prompt})
Tokenized == \E f \in DOMAIN data : data[f] = "tokens"

ArriveKeepingMap ==
    /\ pc = "arrived"
    /\ pc' = IF NothingToRead THEN "sent" ELSE IF block /\ Tokenized THEN "error" ELSE "engine"
    /\ map' = IF NothingToRead THEN map ELSE "none"
    /\ UNCHANGED <<ask, deanonymize, block, data, snapshot, todo, issued, used>>

\* A map in the caller's metadata is dropped before anything else.
Arrive ==
    /\ pc = "arrived"
    /\ pc' = IF NothingToRead THEN "sent" ELSE IF block /\ Tokenized THEN "error" ELSE "engine"
    /\ map' = "none"
    /\ UNCHANGED <<ask, deanonymize, block, data, snapshot, todo, issued, used>>

EngineReady ==
    /\ pc = "engine"
    /\ pc' = "gate"
    /\ UNCHANGED <<ask, deanonymize, block, data, snapshot, todo, issued, map, used>>

\* _gate_verbatim_fields: a blocked type in the agent's own prompt stops the request.
Gate ==
    /\ pc = "gate"
    /\ IF block /\ Prompt \in DOMAIN data /\ data[Prompt] = "blocked"
       THEN pc' = "error" /\ UNCHANGED todo
       ELSE pc' = "scan" /\ todo' = DOMAIN data \ {Prompt}
    /\ UNCHANGED <<ask, deanonymize, block, data, snapshot, issued, map, used>>

IsNext(f) ==
    \E i \in DOMAIN Scanned :
        f = Scanned[i] /\ f \in todo /\ \A j \in 1..i - 1 : Scanned[j] \notin todo

SnapshotIfAliased(f, new) == IF f \in ask.strings THEN snapshot[f] ELSE new
\* A list or a dict is rewritten in place, so the copy shares it; a string is bound
\* anew, so the copy of the field is overwritten (_overwrite_snapshot_field).
Snapshot(f, new) == new

ScanField(f) ==
    /\ pc = "scan" /\ IsNext(f)
    /\ IF block /\ data[f] = "blocked"
       THEN pc' = "error" /\ UNCHANGED <<data, snapshot, todo, issued>>
       ELSE LET new == IF data[f] \in {"pii", "blocked"} THEN "masked" ELSE data[f]
            IN  /\ data' = [data EXCEPT ![f] = new]
                /\ snapshot' = [snapshot EXCEPT ![f] = Snapshot(f, new)]
                /\ issued' = (issued \/ data[f] # new)
                /\ todo' = todo \ {f}
                /\ UNCHANGED pc
    /\ UNCHANGED <<ask, deanonymize, block, map, used>>

Stash ==
    /\ pc = "scan" /\ todo = {}
    /\ pc' = "sent"
    /\ map' = IF deanonymize /\ issued THEN "own" ELSE map
    /\ UNCHANGED <<ask, deanonymize, block, data, snapshot, todo, issued, used>>

\* A model cannot be loaded, a scan fails.
PreCallFails ==
    /\ pc \in {"engine", "gate", "scan"}
    /\ pc = "gate" => block /\ Prompt \in DOMAIN data
    /\ pc = "scan" => todo # {}
    /\ pc' = "error"
    /\ UNCHANGED <<ask, deanonymize, block, data, snapshot, todo, issued, map, used>>

-----------------------------------------------------------------------------
(* The hooks after the call *)

\* async_post_call_success_hook: the map is taken out before anything can fail.
PostCall ==
    /\ pc = "sent" /\ ~ask.stream
    /\ IF deanonymize
       THEN /\ map' = "none"
            /\ used' = map
            /\ pc' = IF map = "none" THEN "done" ELSE "restoring"
       ELSE pc' = "done" /\ UNCHANGED <<map, used>>
    /\ UNCHANGED <<ask, deanonymize, block, data, snapshot, todo, issued>>

RestoreReply ==
    /\ pc = "restoring"
    /\ pc' = "done"
    /\ UNCHANGED <<ask, deanonymize, block, data, snapshot, todo, issued, map, used>>

ReplyFails ==
    /\ pc \in {"sent", "restoring"}
    /\ pc' = "error"
    /\ UNCHANGED <<ask, deanonymize, block, data, snapshot, todo, issued, map, used>>

\* The first turn of the streaming hook.
StreamHook ==
    /\ pc = "sent" /\ ask.stream
    /\ pc' = "streaming"
    /\ map' = "none"
    /\ used' = IF deanonymize THEN map ELSE "none"
    /\ StreamStarts(deanonymize /\ map # "none")
    /\ UNCHANGED <<ask, deanonymize, block, data, snapshot, todo, issued>>

\* The client is gone before that: the hook is never entered.
ClientGone ==
    /\ pc = "sent" /\ ask.stream
    /\ pc' = "gone"
    /\ UNCHANGED <<ask, deanonymize, block, data, snapshot, todo, issued, map, used>>

StreamFails ==
    /\ pc = "streaming"
    /\ pc' = "error"
    /\ Cut
    /\ UNCHANGED <<ask, deanonymize, block, data, snapshot, todo, issued, map, used>>

StreamDone ==
    /\ pc = "streaming"
    /\ pc' = "done"
    /\ StreamEnds
    /\ UNCHANGED <<ask, deanonymize, block, data, snapshot, todo, issued, map, used>>

FailureHook ==
    /\ pc = "error"
    /\ pc' = "failed"
    /\ map' = "none"
    /\ UNCHANGED <<ask, deanonymize, block, data, snapshot, todo, issued, used>>

Over == pc \in {"done", "failed", "gone"} /\ UNCHANGED vars

PreCall ==
    \/ Arrive
    \/ EngineReady
    \/ Gate
    \/ \E f \in Fields : ScanField(f)
    \/ Stash
    \/ PreCallFails

Next ==
    \/ (PreCall \/ PostCall \/ RestoreReply \/ ReplyFails \/ ClientGone \/ FailureHook)
          /\ UNCHANGED streamVars
    \/ StreamHook
    \/ pc = "streaming" /\ Streaming /\ UNCHANGED callVars
    \/ StreamDone
    \/ StreamFails
    \/ Over

Spec == Init /\ [][Next]_vars

-----------------------------------------------------------------------------
(* Properties *)

Accepted == pc \in {"sent", "restoring", "streaming", "done", "gone"}

\* What goes to the model shows nothing a detector found in a scanned field, and what
\* the proxy may log is the same; a request with a blocked type anywhere, the prompt
\* of the agent included, or with token IDs nobody can check for one, is not sent.
ForwardedMasked ==
    Accepted =>
        /\ \A f \in DOMAIN data \ {Prompt} :
              data[f] \notin {"pii", "blocked"} /\ snapshot[f] = data[f]
        /\ block => \A f \in DOMAIN ask.holds : ask.holds[f] \notin {"blocked", "tokens"}

\* Only the map of its own pre-call hook restores a reply, it restores every reply to a
\* masked request, and no hook leaves it behind for the logs.
OwnMapConsumed ==
    /\ used # "foreign"
    /\ map = "own" => pc \in {"sent", "gone", "error"}
    /\ map = "foreign" => pc = "arrived"
    /\ pc = "done" => (used = "own" <=> deanonymize /\ issued)

=============================================================================
