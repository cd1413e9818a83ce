--------------------------- MODULE GuardrailStream ---------------------------
(***************************************************************************)
(* Restoring a streamed chat reply in the LiteLLM guardrail:                *)
(* _StreamRestorer and the streaming hook of privaite_guardrail.py, over    *)
(* the hold-back buffers of streaming/buffer.py.                            *)
(*                                                                         *)
(* A channel is one streamed text of one choice.  restore_chunk awaits      *)
(* nothing, so a chunk is restored and yielded in one step.  Unlike the     *)
(* handler of the chat API, which remembers the choices that finished, this *)
(* one drops the buffers of a choice at its finish: text that comes later   *)
(* begins a new segment, restored by itself.                                *)
(***************************************************************************)
EXTENDS HoldbackBuffer, FiniteSets
LOCAL INSTANCE Functions

CONSTANTS
    Channels,     \* <<choice, field>>
    JsonFields,   \* the fields that carry JSON source text
    MaxChars,     \* bound: characters of the whole stream
    MaxToken      \* bound: characters of one token

ASSUME StreamConstantsOK == MaxChars \in Nat /\ MaxToken \in Nat

VARIABLES
    stage,    \* "off" | "open" | "drain" | "ended" | "cut"
    relaying, \* there is no map: chunks go through as they are
    held,     \* channel -> its buffer in _buffers, empty when there is none
    last,     \* _last_chunk: choice -> the chunk it was in last, as restored
    shown,    \* channel -> what the client has been sent
    segment,  \* history: channel -> what the provider sent since its last close
    closed,   \* history: channel -> the restore of its closed segments
    length    \* history: characters the provider sent

streamVars == <<stage, relaying, held, last, shown, segment, closed, length>>

\* The choices, each by its index.
Indices == {ch[1] : ch \in Channels}
IsJson(ch) == ch[2] \in JsonFields
Empty == [ch \in Channels |-> <<>>]
TextIn(chunk, ch) == IF ch \in DOMAIN chunk THEN chunk[ch] ELSE <<>>
Followed(g, chunk) == [ch \in Channels |-> g[ch] \o TextIn(chunk, ch)]

StreamInit ==
    /\ stage = "off" /\ relaying = FALSE
    /\ held = Empty /\ last = <<>> /\ shown = Empty
    /\ segment = Empty /\ closed = Empty /\ length = 0

StreamStarts(withMap) ==
    /\ stage = "off"
    /\ stage' = "open"
    /\ relaying' = ~withMap
    /\ UNCHANGED <<held, last, shown, segment, closed, length>>

-----------------------------------------------------------------------------
(* Chunks *)

\* What the client should read of a segment.
Restored(s) == IF relaying THEN s ELSE Exact[s]

\* The channels a finish chunk closes: those its delta carries by their own restore,
\* the others of the choice by the sweep of close_open.
Closes(t, fin) == {ch \in Channels : ch[1] \in fin}

\* A chunk with the tokens t and a finish_reason for the choices fin.
RestoreChunk(t, fin) ==
    LET fed == [ch \in Channels |-> IF ch \in DOMAIN t THEN Feed(held[ch] \o t[ch], IsJson(ch))
                                    ELSE [out |-> <<>>, held |-> held[ch]]]
        In == {ch \in Channels : ch[1] \in fin \/ ch \in DOMAIN t}
        chunk == [ch \in In |-> fed[ch].out \o (IF ch \in Closes(t, fin) THEN fed[ch].held
                                                ELSE <<>>)]
    IN  /\ held' = [ch \in Channels |-> IF ch \in Closes(t, fin) THEN <<>> ELSE fed[ch].held]
        /\ last' = [c \in DOMAIN last \cup {ch[1] : ch \in In} |->
                      IF c \in {ch[1] : ch \in In} THEN chunk ELSE last[c]]
        /\ shown' = Followed(shown, chunk)

\* No map was stashed: the chunk as it came.
Relay(t) == shown' = Followed(shown, t) /\ UNCHANGED <<held, last>>

ChunkArrives(t, fin) ==
    LET whole == [ch \in Channels |-> segment[ch] \o TextIn(t, ch)]
        Ends(ch) == ch[1] \in fin
    IN  /\ stage = "open"
        /\ DOMAIN t # {} \/ fin # {}
        /\ IF relaying THEN Relay(t) ELSE RestoreChunk(t, fin)
        /\ length' = length + FoldFunction(LAMBDA q, n : Len(q) + n, 0, t)
        /\ closed' = [ch \in Channels |-> IF Ends(ch) THEN closed[ch] \o Restored(whole[ch])
                                          ELSE closed[ch]]
        /\ segment' = [ch \in Channels |-> IF Ends(ch) THEN <<>> ELSE whole[ch]]
        /\ UNCHANGED <<stage, relaying>>

-----------------------------------------------------------------------------
(* The end of the stream *)

SourceEnds ==
    /\ stage = "open"
    /\ stage' = "drain"
    /\ UNCHANGED <<relaying, held, last, shown, segment, closed, length>>

\* _drain_chunk: the last chunk of the choice, reduced to the choice and its texts
\* cleared, then the tail under its channel.
CloneUncleared(ch) == [x \in DOMAIN last[ch[1]] \cup {ch} |->
                         TextIn(last[ch[1]], x) \o (IF x = ch THEN held[ch] ELSE <<>>)]
Clone(ch) == [x \in {y \in DOMAIN last[ch[1]] : y[1] = ch[1]} \cup {ch} |->
                IF x = ch THEN held[ch] ELSE <<>>]

\* drain skips a choice that was in no chunk.
DrainOne(ch) ==
    /\ stage = "drain" /\ held[ch] # <<>>
    /\ shown' = IF ch[1] \in DOMAIN last THEN Followed(shown, Clone(ch)) ELSE shown
    /\ held' = [held EXCEPT ![ch] = <<>>]
    /\ UNCHANGED <<stage, relaying, last, segment, closed, length>>

StreamEnds ==
    /\ stage = "drain" /\ held = Empty
    /\ stage' = "ended"
    /\ UNCHANGED <<relaying, held, last, shown, segment, closed, length>>

\* The provider's stream raises, or the client leaves: nothing more is sent.
Cut ==
    /\ stage \in {"open", "drain"}
    /\ stage' = "cut"
    /\ UNCHANGED <<relaying, held, last, shown, segment, closed, length>>

Tokens(m) == UNION {[1..n -> Chars] : n \in 1..(IF m < MaxToken THEN m ELSE MaxToken)}

SomeChunk ==
    LET left == MaxChars - length IN
    \E C \in SUBSET Channels, fin \in SUBSET Indices :
      /\ Cardinality(C) <= left
      /\ \E t \in [C -> Tokens(left + 1 - Cardinality(C))] :
           /\ FoldFunction(LAMBDA q, n : Len(q) + n, 0, t) <= left
           /\ ChunkArrives(t, fin)

Streaming ==
    \/ SomeChunk
    \/ SourceEnds
    \/ \E ch \in Channels : DrainOne(ch)

-----------------------------------------------------------------------------

\* The client reads a prefix of the restore of every segment of a channel, which only
\* grows, and when the stream has ended all of it, text behind a finish_reason included
\* ("A held tail is never dropped"): whatever the chunks, and however they mix choices.
Promise == INSTANCE RestorePromise
             WITH exact <- [ch \in Channels |-> closed[ch] \o Restored(segment[ch])],
                  read <- [ch \in Channels |-> AsRead(shown[ch], IsJson(ch))],
                  ended <- stage = "ended",
                  exempt <- {}
PromiseKept == Promise!Spec

=============================================================================
