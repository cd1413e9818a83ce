----------------------------- MODULE ScrubScope -----------------------------
(***************************************************************************)
(* Which texts of a request body are scrubbed and which of a reply are      *)
(* restored: the walkers of gateway/scrub.py and gateway/restore.py for the *)
(* two gateway protocols, of pii/engine.py and api/chat.py for the chat     *)
(* API.                                                                     *)
(*                                                                         *)
(* A place is a leaf of a body: [path, sort].  Its path is the sequence of  *)
(* steps <<type of the object, field>> that leads to it, lists left out,    *)
(* its sort "string", "number" (of seven digits or more) or "key" of an     *)
(* object.  A block or an item of a type the walkers have no rule for is    *)
(* "other"; a part of a list of contents with plain text is "part".         *)
(***************************************************************************)
EXTENDS Naturals, Sequences

Gateways == {"anthropic", "responses"}
Protocols == Gateways \cup {"chat"}

\* The passthrough options of the configuration; they are for chats.
Passthroughs == {"system_messages", "tool_calls"}

Steps == STRING \X STRING
AllPlaces == [path : Seq(Steps), sort : {"string", "number", "key"}]

Type(step) == step[1]
Field(step) == step[2]

-----------------------------------------------------------------------------
(* The Anthropic Messages protocol *)

ThinkingTypes == {"thinking", "redacted_thinking"}

ClientToolUseTypes == {"tool_use"}
ToolUseTypes == {"tool_use", "server_tool_use", "mcp_tool_use"}
ToolResultTypes == {"tool_result", "mcp_tool_result"}

\* A content: a text, or a list of texts and blocks (of a message, of blocks only: a
\* text in its list, which the protocol does not have, is relayed).
AnthropicContents ==
    {<<"message", "content">>, <<"content_source", "content">>}
        \cup ((ToolResultTypes \cup {"search_result", "other"}) \X {"content"})

\* A source has rules of its own by its type.
AnthropicObjects == {"document", "other"} \X {"source"}

AnthropicTexts ==
    {<<"text", "text">>, <<"text_source", "data">>}
        \cup ({"document"} \X {"title", "context"})
        \cup ({"search_result"} \X {"title", "source"})
        \cup ({"other"} \X {"text", "title", "context", "source", "url", "reason",
                            "stdout", "stderr"})

\* Any JSON, scrubbed leaf by leaf.
AnthropicData == (ToolUseTypes \X {"input"}) \cup ({"other"} \X {"input", "output"})

-----------------------------------------------------------------------------
(* The OpenAI Responses protocol *)

DataFields ==
    {<<"computer_call", "action">>, <<"computer_call", "actions">>,
     <<"local_shell_call", "action">>, <<"shell_call", "action">>,
     <<"web_search_call", "action">>, <<"apply_patch_call", "operation">>,
     <<"file_search_call", "queries">>, <<"file_search_call", "results">>,
     <<"code_interpreter_call", "code">>, <<"code_interpreter_call", "outputs">>,
     <<"program", "code">>, <<"program_output", "result">>}

OutputTypes ==
    {"function_call_output", "custom_tool_call_output", "local_shell_call_output",
     "shell_call_output", "apply_patch_call_output"}

\* A part of these types directly in a list of data is relayed.
BinaryPartTypes ==
    {"input_image", "input_file", "input_audio", "image", "output_image",
     "computer_screenshot"}

ResponsesContents ==
    {<<"body", "input">>, <<"message", "content">>, <<"other", "content">>}

ResponsesTexts ==
    {<<"custom_tool_call", "input">>}
        \cup ({"part"} \X {"text", "refusal"})
        \cup ({"other"} \X {"output", "input", "text", "reason"})

\* JSON in a string is scrubbed leaf by leaf.
ResponsesData ==
    {<<"function_call", "arguments">>, <<"other", "arguments">>, <<"prompt", "variables">>}
        \cup DataFields \cup (OutputTypes \X {"output"})

-----------------------------------------------------------------------------
(* The chat API *)

ChatTools(opt) ==
    IF "tool_calls" \in opt THEN {}
    ELSE {<<"message", "tool_calls">>, <<"message", "function_call">>}

ChatContents(opt) ==
    {<<"message", "content">>}
        \cup (IF "system_messages" \in opt THEN {} ELSE {<<"system_message", "content">>})

ChatObjects(opt) == {<<"message", "audio">>} \cup ChatTools(opt)

ChatTexts ==
    {<<"part", "text">>, <<"audio", "transcript">>}
        \cup ({"message"} \X {"reasoning_content", "reasoning", "refusal"})

ChatData == {<<"function", "arguments">>, <<"prediction", "content">>,
             <<"web_search_options", "user_location">>}

-----------------------------------------------------------------------------
(* What is scrubbed *)

Contents(proto, opt) ==
    IF proto = "anthropic" THEN AnthropicContents
    ELSE IF proto = "responses" THEN ResponsesContents ELSE ChatContents(opt)

Objects(proto, opt) ==
    IF proto = "anthropic" THEN AnthropicObjects
    ELSE IF proto = "responses" THEN {} ELSE ChatObjects(opt)

Texts(proto) ==
    IF proto = "anthropic" THEN AnthropicTexts
    ELSE IF proto = "responses" THEN ResponsesTexts ELSE ChatTexts

Data(proto) ==
    IF proto = "anthropic" THEN AnthropicData
    ELSE IF proto = "responses" THEN ResponsesData ELSE ChatData

HoldsBinaryPart(proto, path, n) ==
    /\ proto = "responses" /\ Field(path[n]) # "arguments"
    /\ n + 1 \in DOMAIN path /\ Type(path[n + 1]) \in BinaryPartTypes

\* The walk goes down through contents and objects to a text, or to data that is
\* scrubbed as a whole but for its keys.
Scrubbed(proto, opt, place) ==
    \E n \in DOMAIN place.path :
        /\ \A i \in 1..n - 1 : place.path[i] \in Contents(proto, opt) \cup Objects(proto, opt)
        /\ \/ /\ n = Len(place.path) /\ place.sort = "string"
              /\ place.path[n] \in Contents(proto, opt) \cup Texts(proto)
           \/ /\ place.path[n] \in Data(proto) /\ place.sort # "key"
              /\ ~HoldsBinaryPart(proto, place.path, n)

\* The prompt of the agent is only checked for blocked types (gate_document).
Gated(proto, place) ==
    /\ proto \in Gateways /\ place.sort # "key"
    /\ place.path[1] \in {<<"body", "system">>, <<"body", "instructions">>}

-----------------------------------------------------------------------------
(* What is restored *)

\* skip_restore_types: what the provider signed or encrypted.
SkipTypes(proto) ==
    IF proto = "anthropic" THEN ThinkingTypes ELSE {"reasoning", "compaction"}

\* restore_tree stops at these types, though not in the arguments of a call.
SkipsNothing(proto, path) == FALSE
Skips(proto, path) ==
    \E i \in DOMAIN path :
        /\ Type(path[i]) \in SkipTypes(proto)
        /\ \A j \in 1..i - 1 : Field(path[j]) # "arguments"

\* _restore_message
ChatRestored ==
    {<<<<"message", f>>>> : f \in {"content", "reasoning_content", "reasoning", "refusal"}}
        \cup {<<<<"message", "audio">>, <<"audio", "transcript">>>>}

IsChatCall(path) ==
    /\ Len(path) >= 2
    /\ path[1] \in {<<"message", "tool_calls">>, <<"message", "function_call">>}
    /\ path[2] = <<"function", "arguments">>

Restored(proto, place) ==
    /\ place.sort = "string"
    /\ IF proto = "chat" THEN place.path \in ChatRestored \/ IsChatCall(place.path)
       ELSE ~Skips(proto, place.path)
=============================================================================
