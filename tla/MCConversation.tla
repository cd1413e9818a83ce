--------------------------- MODULE MCConversation ---------------------------
(* Conversations of the three protocols, each with a place for the client's *)
(* texts, the prompt of the agent next to it, and a place for the model's.  *)
EXTENDS Conversation

CONSTANTS l, d, r, plain, quoted, v, w

SSEFakes == {<<l, r>>, <<l, d, r>>}

\* The hypothesis of the theorems about streamed text.
ASSUME SSEFakesApart == Apart

\* The original of the shorter one has a character JSON escapes.
MCOriginalOf(f) == IF f = <<l, r>> THEN quoted ELSE plain

MCChannels == {<<"text", 0>>, <<"json", 0>>, <<"text", 1>>}
MCChannelsOf(b) == {ch \in MCChannels : ch[2] = b}

Text(path) == [path |-> path, sort |-> "string"]

M == <<"message", "content">>
Call(field) == <<<<"message", field>>, <<"function", "arguments">>>>

Prompts == [anthropic |-> {Text(<<<<"body", "system">>>>)},
            responses |-> {Text(<<<<"body", "instructions">>>>)},
            chat |-> {Text(<<<<"system_message", "content">>>>), Text(<<<<"body", "tools">>>>)}]

\* Where the client writes.
Asks == [
    anthropic |-> {Text(<<M>>), Text(<<M, <<"text", "text">>>>),
        Text(<<M, <<"tool_result", "content">>, <<"text", "text">>>>),
        Text(<<M, <<"document", "source">>, <<"text_source", "data">>>>),
        Text(<<M, <<"document", "source">>, <<"content_source", "content">>>>),
        Text(<<M, <<"document", "source">>, <<"base64_source", "data">>>>),
        Text(<<M, <<"image", "source">>, <<"base64_source", "data">>>>),
        [path |-> <<M, <<"tool_use", "input">>>>, sort |-> "number"],
        [path |-> <<M, <<"tool_use", "input">>>>, sort |-> "key"]},
    responses |-> {Text(<<<<"body", "input">>>>), Text(<<<<"body", "input">>, M, <<"part", "text">>>>),
        Text(<<<<"body", "input">>, <<"custom_tool_call_output", "output">>>>),
        Text(<<<<"body", "input">>, <<"shell_call_output", "output">>, <<"input_image", "image_url">>>>),
        Text(<<<<"prompt", "variables">>>>),
        [path |-> <<<<"body", "input">>, <<"function_call", "arguments">>>>, sort |-> "number"]},
    chat |-> {Text(<<M>>), Text(<<M, <<"part", "text">>>>), Text(<<M, <<"image_url", "image_url">>>>),
        Text(<<<<"prediction", "content">>>>), Text(<<<<"web_search_options", "user_location">>>>),
        [path |-> Call("tool_calls"), sort |-> "number"]}]

\* Where the model writes.
Says == [
    anthropic |-> {Text(<<M>> \o p) : p \in {
        <<<<"text", "text">>>>, <<<<"text", "citations">>>>,
        <<<<"thinking", "thinking">>>>, <<<<"redacted_thinking", "data">>>>,
        <<<<"tool_use", "input">>>>, <<<<"server_tool_use", "input">>>>,
        <<<<"mcp_tool_use", "input">>>>, <<<<"tool_use", "input">>, <<"thinking", "text">>>>,
        <<<<"mcp_tool_result", "content">>, <<"text", "text">>>>,
        <<<<"other", "content">>, <<"other", "title">>>>,
        <<<<"other", "content">>, <<"other", "stdout">>>>,
        <<<<"other", "content">>, <<"other", "lines">>>>,
        <<<<"other", "content">>, <<"other", "error_message">>>>,
        <<<<"other", "output">>>>, <<<<"mcp_tool_result", "content">>>>,
        <<<<"other", "content">>, <<"document", "source">>, <<"text_source", "data">>>>,
        <<<<"search_result", "source">>>>}},
    responses |-> {Text(<<<<"body", "input">>>> \o p) : p \in {
        <<M, <<"part", "text">>>>, <<M, <<"part", "refusal">>>>, <<M, <<"part", "annotations">>>>,
        <<<<"reasoning", "summary">>>>, <<<<"compaction", "encrypted_content">>>>,
        <<<<"function_call", "arguments">>>>,
        <<<<"function_call", "arguments">>, <<"reasoning", "text">>>>,
        <<<<"custom_tool_call", "input">>>>, <<<<"shell_call", "action">>>>,
        <<<<"computer_call", "action">>>>, <<<<"computer_call", "pending_safety_checks">>>>,
        <<<<"apply_patch_call", "operation">>>>,
        <<<<"web_search_call", "action">>>>, <<<<"file_search_call", "results">>>>,
        <<<<"code_interpreter_call", "outputs">>>>, <<<<"other", "arguments">>>>,
        <<<<"other", "output">>>>, <<<<"other", "error">>>>,
        <<<<"image_generation_call", "revised_prompt">>>>, <<<<"mcp_list_tools", "error">>>>,
        <<<<"tool_search_call", "arguments">>>>, <<<<"tool_search_output", "tools">>>>}},
    chat |-> {Text(p) : p \in {
        <<M>>, <<<<"message", "reasoning_content">>>>, <<<<"message", "reasoning">>>>,
        <<<<"message", "refusal">>>>, <<<<"message", "audio">>, <<"audio", "transcript">>>>,
        Call("tool_calls"), Call("function_call"), <<<<"message", "annotations">>>>}}]

Of(p, opt, block, restore, stream, asks, says) ==
    {[proto |-> p, opt |-> opt, block |-> block, restore |-> restore, stream |-> stream,
      ask |-> a, say |-> s] : a \in asks, s \in says}

\* A place of each side that every protocol has, and a call.
Ask(p) == IF p = "responses" THEN Text(<<<<"body", "input">>>>) ELSE Text(<<M>>)
Say(p) == CASE p = "anthropic" -> Text(<<M, <<"text", "text">>>>)
            [] p = "responses" -> Text(<<<<"body", "input">>, M, <<"part", "text">>>>)
            [] p = "chat" -> Text(<<M>>)

Each(S) == {{x} : x \in S}

\* Every place of the client and every place of the model, each with one of the other
\* side; the prompts, options and settings with those alone; and a streamed reply.
MCSettings ==
    UNION {LET Both == {{Ask(p)} \cup Prompts[p]}
           IN    Of(p, {}, {}, TRUE, FALSE, Each(Asks[p]), {Say(p)})
           \cup Of(p, {}, {}, TRUE, FALSE, {{Ask(p)}}, Says[p])
           \cup Of(p, {}, {w}, TRUE, FALSE, Both, {Say(p)})
           \cup Of(p, {}, {}, FALSE, FALSE, Both, {Say(p)}) : p \in Protocols}
    \cup UNION {Of("chat", o, {}, TRUE, FALSE, {{Ask("chat")} \cup Prompts["chat"]},
                   {Say("chat"), Text(Call("tool_calls"))}) : o \in SUBSET Passthroughs}
    \cup Of("anthropic", {}, {}, TRUE, TRUE, {{Ask("anthropic")}}, {Say("anthropic")})
=============================================================================
