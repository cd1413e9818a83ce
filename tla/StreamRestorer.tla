--------------------------- MODULE StreamRestorer ---------------------------
(***************************************************************************)
(* Restoring a streamed reply: StreamingHandler.stream_response (and        *)
(* stream_text_response, the case of one field) over the hold-back buffers  *)
(* of streaming/buffer.py.                                                  *)
(*                                                                         *)
(* A channel is one streamed text of one choice: its content, a reasoning   *)
(* field, the arguments of a tool call.  Each has a buffer of its own.  A   *)
(* chunk carries a token for some channels and a finish_reason for some     *)
(* choices, and is one client-visible event at most.  A channel's buffer    *)
(* grows by its token before its loop runs, and no other channel looks at   *)
(* it, so all tokens of a chunk are appended when the chunk arrives.        *)
(***************************************************************************)
EXTENDS HoldbackBuffer, FiniteSets
LOCAL INSTANCE Functions

CONSTANTS
    ChannelSeq,   \* the channels <<choice, field>> in the order the handler visits
    Structured,   \* the fields whose presence alone makes a chunk visible
    JsonFields,   \* the fields that carry JSON source text
    MaxChars,     \* bound: characters of the whole stream
    MaxToken      \* bound: characters of one token

Channels == {ChannelSeq[i] : i \in DOMAIN ChannelSeq}
Choices == {ch[1] : ch \in Channels}
IsJson(ch) == ch[2] \in JsonFields

ASSUME ConstantsOK ==
    /\ ChannelSeq \in Seq(Channels)
    /\ \A i, j \in DOMAIN ChannelSeq : ChannelSeq[i] = ChannelSeq[j] => i = j
    /\ MaxChars \in Nat /\ MaxToken \in Nat

VARIABLES
    phase,     \* "open" | "chunk" | "drain" | "done" | "error"
    buf,       \* channel -> StreamingDeAnonymizer.buffer
    pending,   \* channel -> its text in the chunk being rewritten
    shown,     \* channel -> what the client has been sent
    todo,      \* channels whose feed loop, or drain, is still to run
    carried,   \* the channels the current chunk has a token for
    finishing, \* the choices the current chunk has a finish_reason for
    finished,  \* choices whose finish chunk came
    told,      \* choices whose finish chunk was sent on
    received,  \* history: channel -> what the provider sent
    consumed,  \* history: channel -> the part of it that left the buffer
    late       \* history: the channels that got text after their finish chunk

vars == <<phase, buf, pending, shown, todo, carried, finishing, finished, told,
          received, consumed, late>>

-----------------------------------------------------------------------------
(* The chunk loop *)

Empty == [ch \in Channels |-> <<>>]

Init ==
    /\ phase = "open"
    /\ buf = Empty /\ pending = Empty /\ shown = Empty
    /\ todo = {} /\ carried = {} /\ finishing = {} /\ finished = {} /\ told = {}
    /\ received = Empty /\ consumed = Empty /\ late = {}

Extended(g, t) == [ch \in Channels |-> g[ch] \o (IF ch \in DOMAIN t THEN t[ch] ELSE <<>>)]

\* A chunk with the tokens t for some channels and a finish_reason for fin.
ChunkArrives(t, fin) ==
    /\ phase = "open"
    /\ DOMAIN t # {} \/ fin # {}
    /\ phase' = "chunk"
    /\ buf' = Extended(buf, t)
    /\ received' = Extended(received, t)
    /\ todo' = DOMAIN t
    /\ carried' = DOMAIN t
    /\ finishing' = fin
    /\ late' = late \cup {ch \in DOMAIN t : ch[1] \in finished}
    /\ pending' = Empty
    /\ UNCHANGED <<shown, finished, told, consumed>>

\* One turn of feed()'s loop takes n characters off the buffer and emits s.
Take(ch, n, s) ==
    /\ pending' = [pending EXCEPT ![ch] = @ \o s]
    /\ consumed' = [consumed EXCEPT ![ch] = @ \o Head_(buf[ch], n)]
    /\ buf' = [buf EXCEPT ![ch] = Rest(@, n)]
    /\ UNCHANGED <<phase, shown, todo, carried, finishing, finished, told, received, late>>

\* The handler visits the channels of a chunk, and the buffers it drains, in order.
IsNext(ch) ==
    \E i \in DOMAIN ChannelSeq :
        /\ ch = ChannelSeq[i] /\ ch \in todo
        /\ \A j \in 1..(i - 1) : ChannelSeq[j] \notin todo
Feeds(ch) == phase = "chunk" /\ IsNext(ch)

MatchFake(ch) ==
    /\ Feeds(ch)
    /\ \E n \in 1..Len(buf[ch]) :
         /\ LongestMatch(buf[ch], n)
         /\ Take(ch, n, <<Spliced(Head_(buf[ch], n), IsJson(ch))>>)

EmitChar(ch) ==
    /\ Feeds(ch)
    /\ buf[ch] # <<>>
    /\ ~HasMatch(buf[ch])
    /\ ~HasPrefix(buf[ch])
    /\ Take(ch, 1, Head_(buf[ch], 1))

\* The loop ends: nothing left, or what is left may become a fake.
HoldBack(ch) ==
    /\ Feeds(ch)
    /\ \/ buf[ch] = <<>>
       \/ ~HasMatch(buf[ch]) /\ HasPrefix(buf[ch])
    /\ todo' = todo \ {ch}
    /\ UNCHANGED <<phase, buf, pending, shown, carried, finishing, finished, told,
                   received, consumed, late>>

\* A chunk is withheld only when all it carries is content that is held back.
HeldBack(c, p) ==
    /\ <<c, "content">> \in carried
    /\ c \notin finishing
    /\ \A ch \in Channels : ch[1] = c => p[ch] = <<>>
    /\ \A ch \in carried : ch[1] = c => ch[2] \notin Structured

InChunk == finishing \cup {ch[1] : ch \in carried}

\* The finish chunk takes along what its choice still holds (_flush_into_delta).
FlushNone == {}
Flushing == {ch \in Channels : ch[1] \in finishing}

SendChunk ==
    /\ phase = "chunk" /\ todo = {}
    /\ LET p == [ch \in Channels |-> IF ch \in Flushing THEN pending[ch] \o buf[ch]
                                     ELSE pending[ch]]
       IN IF \E c \in InChunk : ~HeldBack(c, p)
          THEN /\ shown' = [ch \in Channels |-> shown[ch] \o p[ch]]
               /\ told' = told \cup finishing
          ELSE UNCHANGED <<shown, told>>
    /\ consumed' = [ch \in Channels |-> IF ch \in Flushing THEN consumed[ch] \o buf[ch]
                                        ELSE consumed[ch]]
    /\ buf' = [ch \in Channels |-> IF ch \in Flushing THEN <<>> ELSE buf[ch]]
    /\ finished' = finished \cup finishing
    /\ phase' = "open"
    /\ carried' = {} /\ finishing' = {} /\ pending' = Empty
    /\ UNCHANGED <<todo, received, late>>

-----------------------------------------------------------------------------
(* The end of the stream *)

SourceEnds ==
    /\ phase = "open"
    /\ phase' = "drain"
    /\ todo' = Channels
    /\ UNCHANGED <<buf, pending, shown, carried, finishing, finished, told,
                   received, consumed, late>>

\* _drain skips a choice that already got its finish chunk.
DrainsNothing(ch) == FALSE
Drains(ch) == ch[1] \notin finished

DrainChannel(ch) ==
    /\ phase = "drain" /\ IsNext(ch)
    /\ IF Drains(ch)
       THEN /\ shown' = [shown EXCEPT ![ch] = @ \o buf[ch]]
            /\ consumed' = [consumed EXCEPT ![ch] = @ \o buf[ch]]
            /\ buf' = [buf EXCEPT ![ch] = <<>>]
       ELSE UNCHANGED <<shown, consumed, buf>>
    /\ todo' = todo \ {ch}
    /\ UNCHANGED <<phase, pending, carried, finishing, finished, told, received, late>>

SendDoneWhenEmpty ==
    /\ phase = "drain" /\ todo = {}
    /\ \A ch \in Channels : buf[ch] = <<>>
    /\ phase' = "done"
    /\ UNCHANGED <<buf, pending, shown, todo, carried, finishing, finished, told,
                   received, consumed, late>>
SendDone ==
    /\ phase = "drain" /\ todo = {}
    /\ phase' = "done"
    /\ UNCHANGED <<buf, pending, shown, todo, carried, finishing, finished, told,
                   received, consumed, late>>

\* The provider's stream raised, or the client went away: nothing more is sent.
Abort ==
    /\ phase \in {"open", "chunk", "drain"}
    /\ phase' = "error"
    /\ UNCHANGED <<buf, pending, shown, todo, carried, finishing, finished, told,
                   received, consumed, late>>

Over == phase \in {"done", "error"} /\ UNCHANGED vars

-----------------------------------------------------------------------------

Tokens(m) == UNION {[1..n -> Chars] : n \in 1..(IF m < MaxToken THEN m ELSE MaxToken)}
Size(g) == FoldFunction(LAMBDA q, n : Len(q) + n, 0, g)

SomeChunk ==
    LET left == MaxChars - Size(received) IN
    \E C \in SUBSET Channels, fin \in SUBSET (Choices \ finished) :
      /\ Cardinality(C) <= left
      /\ \E t \in [C -> Tokens(left + 1 - Cardinality(C))] :
           Size(t) <= left /\ ChunkArrives(t, fin)

Handler ==
    \/ \E ch \in Channels :
          \/ MatchFake(ch)
          \/ EmitChar(ch)
          \/ HoldBack(ch)
          \/ DrainChannel(ch)
    \/ SendChunk
    \/ SendDone

Next ==
    \/ SomeChunk
    \/ SourceEnds
    \/ Handler
    \/ Abort
    \/ Over

Spec == Init /\ [][Next]_vars

\* The generator is driven by one task: a step of the handler that is possible
\* is taken.  Nothing is assumed of the provider.
FairSpec == Spec /\ WF_vars(Handler)

-----------------------------------------------------------------------------
(* Properties *)

TypeOK ==
    /\ phase \in {"open", "chunk", "drain", "done", "error"}
    /\ buf \in [Channels -> Seq(Chars)]
    /\ pending \in [Channels -> Seq(Shown)]
    /\ shown \in [Channels -> Seq(Shown)]
    /\ todo \subseteq Channels
    /\ carried \subseteq Channels
    /\ finishing \subseteq Choices /\ finished \subseteq Choices /\ told \subseteq Choices
    /\ received \in [Channels -> Seq(Chars)]
    /\ consumed \in [Channels -> Seq(Chars)]
    /\ late \subseteq Channels

\* No character of the provider is dropped or repeated: what left the buffer and
\* what it still holds are the channel's text.
NothingLost == \A ch \in Channels : received[ch] = consumed[ch] \o buf[ch]

\* Between chunks a channel holds back only what may still become a fake, hence
\* less than the longest fake: streaming is never delayed further.
HeldMayBecomeFake ==
    \A ch \in Channels :
        \/ phase = "chunk" /\ ch \in todo
        \/ phase = "error"
        \/ buf[ch] = <<>>
        \/ MayBecomeFake(buf[ch])

\* A choice that finished holds nothing back, and neither does any channel of a
\* stream that ended well: what was held back is never silently dropped.  Text a
\* provider sends after the finish chunk is outside the promise.  And the client was
\* told of every finish, also when all the text of its chunk was held back.
FlushedWhenFinished ==
    /\ told = finished
    /\ \A ch \in Channels \ late :
          \/ ch[1] \notin finished /\ phase # "done"
          \/ buf[ch] = <<>>

\* The feed loop ends for every chunk and the drain for every stream.
HandlerEnds == phase \in {"chunk", "drain"} ~> phase \in {"open", "done", "error"}

Read(ch) == AsRead(shown[ch], IsJson(ch))

\* A stream that ended well shows every channel exactly what restoring its whole
\* text would, however the provider cut it into chunks and mixed the channels.
SameAsWhole ==
    phase = "done" => \A ch \in Channels \ late : Read(ch) = Exact[received[ch]]

\* Until then the client has a prefix of it, which only grows.
Promise == INSTANCE RestorePromise
             WITH exact <- [ch \in Channels |-> Exact[received[ch]]],
                  read <- [ch \in Channels |-> Read(ch)],
                  ended <- phase = "done",
                  exempt <- late
PromiseKept == Promise!Spec
=============================================================================
