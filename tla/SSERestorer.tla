----------------------------- MODULE SSERestorer -----------------------------
(***************************************************************************)
(* Restoring a relayed SSE stream of the gateway: restore_sse_stream and    *)
(* _SSERestorer, with the event plans of the two protocols.                 *)
(*                                                                         *)
(* A channel <<kind, id>> is one incremental text of a reply.  An event is  *)
(* a delta of one channel, a stop of one block (content_block_stop, a       *)
(* .done event), the completion of the reply (message_stop,                 *)
(* response.completed, [DONE]) or any other event.  Restoring an event is   *)
(* one step; the SSE blocks it gives are yielded one by one, and at each    *)
(* the client may be gone.                                                  *)
(***************************************************************************)
EXTENDS HoldbackBuffer
LOCAL INSTANCE Functions

CONSTANTS
    Channels,        \* <<kind, id>>
    JsonKinds,       \* the kinds whose fragments are JSON source text
    Blocks,          \* what a stop event can name
    ChannelsOf(_),   \* the channels a stop flushes
    MaxChars,        \* bound: characters of the stream, a restored fake as one
    MaxToken         \* bound: characters of one delta

IsJson(ch) == ch[1] \in JsonKinds

ASSUME ConstantsOK ==
    /\ \A b \in Blocks : ChannelsOf(b) \subseteq Channels
    /\ MaxChars \in Nat /\ MaxToken \in Nat

VARIABLES
    phase,    \* "open" | "drain" | "done" | "failed"
    buf,      \* channel -> its StreamingDeAnonymizer.buffer
    flushed,  \* channel -> the text of a synthetic delta that is still to be yielded
    event,    \* the event that is still to be yielded, after those
    shown,    \* channel -> what the client has been sent
    stopped,  \* channels whose stop was yielded, until the provider goes on
    received, \* history: channel -> what the provider sent since its last stop
    before    \* history: channel -> the restore of what it sent until then

streamVars == <<phase, buf, flushed, event, shown, stopped, received, before>>

NoEvent == <<"none">>
Delta(ch, text) == <<"delta", ch, text>>
Stop(b) == <<"stop", b>>
Completed == <<"completed">>
Other == <<"other">>

Empty == [ch \in Channels |-> <<>>]

StreamInit ==
    /\ phase = "open"
    /\ buf = Empty /\ flushed = Empty /\ event = NoEvent
    /\ shown = Empty
    /\ stopped = {}
    /\ received = Empty /\ before = Empty

-----------------------------------------------------------------------------
(* One event *)

\* The next event is read once the blocks of the last one were taken.
Taken == flushed = Empty /\ event = NoEvent
Reads == phase = "open" /\ Taken

\* A delta is sent on even when all its text is held back.
DeltaEvent(ch, t) ==
    /\ Reads
    /\ LET fed == Feed(buf[ch] \o t, IsJson(ch))
       IN /\ event' = Delta(ch, fed.out)
          /\ buf' = [buf EXCEPT ![ch] = fed.held]
    /\ received' = [received EXCEPT ![ch] = @ \o t]
    /\ stopped' = stopped \ {ch}
    /\ UNCHANGED <<phase, flushed, shown, before>>

\* flush: a synthetic delta for each of the channels C that holds something back.
\* For the history a new text begins in each.
EmptiedNot(C) == buf
Emptied(C) == [ch \in Channels |-> IF ch \in C THEN <<>> ELSE buf[ch]]
Flush(C) ==
    /\ flushed' = [ch \in Channels |-> IF ch \in C THEN buf[ch] ELSE <<>>]
    /\ buf' = Emptied(C)
    /\ before' = [ch \in Channels |->
                    before[ch] \o (IF ch \in C THEN Exact[received[ch]] ELSE <<>>)]
    /\ received' = [ch \in Channels |-> IF ch \in C THEN <<>> ELSE received[ch]]

StopEvent(b) ==
    /\ Reads
    /\ event' = Stop(b)
    /\ Flush(ChannelsOf(b))
    /\ UNCHANGED <<phase, shown, stopped>>

CompletedEvent ==
    /\ Reads
    /\ event' = Completed
    /\ Flush(Channels)
    /\ UNCHANGED <<phase, shown, stopped>>

\* Keepalives, reasoning, error and response.incomplete events, events whose
\* payload is no JSON object or whose delta is no text: nothing is flushed.
OtherEvent ==
    /\ Reads
    /\ event' = Other
    /\ UNCHANGED <<phase, buf, flushed, shown, stopped, received, before>>

-----------------------------------------------------------------------------
(* The end of the stream, and the client *)

\* flush(flush_all=True) after the last line.
FlushAtEndNothing == {}
FlushAtEnd == Channels

SourceEnds ==
    /\ Reads
    /\ phase' = "drain"
    /\ Flush(FlushAtEnd)
    /\ UNCHANGED <<event, shown, stopped>>

\* The code yields the synthetic deltas in the order the buffers were made in;
\* here in any order, as each is of another channel.
YieldFlushed(ch) ==
    /\ phase \in {"open", "drain"}
    /\ flushed[ch] # <<>>
    /\ shown' = [shown EXCEPT ![ch] = @ \o flushed[ch]]
    /\ flushed' = [flushed EXCEPT ![ch] = <<>>]
    /\ UNCHANGED <<phase, buf, event, stopped, received, before>>

\* The channels an event that reaches the client brings to their stop.
Ends(e) ==
    IF e[1] = "stop" THEN ChannelsOf(e[2])
    ELSE IF e = Completed THEN Channels ELSE {}

\* The held text of a block goes out before the event that stops it.
ComesAnyTime == TRUE
ComesNext == flushed = Empty

YieldEvent ==
    /\ phase = "open"
    /\ event # NoEvent /\ ComesNext
    /\ shown' = IF event[1] = "delta"
                THEN [shown EXCEPT ![event[2]] = @ \o event[3]] ELSE shown
    /\ stopped' = stopped \cup Ends(event)
    /\ event' = NoEvent
    /\ UNCHANGED <<phase, buf, flushed, received, before>>

Done ==
    /\ phase = "drain" /\ Taken
    /\ phase' = "done"
    /\ UNCHANGED <<buf, flushed, event, shown, stopped, received, before>>

\* The provider's stream raised, a restore raised, or the client went away.
Fail ==
    /\ phase \in {"open", "drain"}
    /\ phase' = "failed"
    /\ flushed' = Empty /\ event' = NoEvent
    /\ UNCHANGED <<buf, shown, stopped, received, before>>

-----------------------------------------------------------------------------

Size(g) == FoldFunction(LAMBDA q, n : Len(q) + n, 0, g)
Sent == Size(received) + Size(before)
Tokens(m) == UNION {[1..n -> Chars] : n \in 1..(IF m < MaxToken THEN m ELSE MaxToken)}

SomeDelta == \E ch \in Channels : \E t \in Tokens(MaxChars - Sent) : DeltaEvent(ch, t)

Streaming ==
    \/ SomeDelta
    \/ \E b \in Blocks : StopEvent(b)
    \/ CompletedEvent
    \/ OtherEvent
    \/ SourceEnds
    \/ \E ch \in Channels : YieldFlushed(ch)
    \/ YieldEvent
    \/ Done
    \/ Fail

StreamSpec == StreamInit /\ [][Streaming]_streamVars

-----------------------------------------------------------------------------
(* Properties *)

StreamTypeOK ==
    /\ phase \in {"open", "drain", "done", "failed"}
    /\ buf \in [Channels -> Seq(Chars)]
    /\ flushed \in [Channels -> Seq(Chars)]
    /\ event \in {NoEvent, Completed, Other} \cup {Stop(b) : b \in Blocks}
                \cup ({"delta"} \X Channels \X Seq(Shown))
    /\ shown \in [Channels -> Seq(Shown)]
    /\ stopped \subseteq Channels
    /\ received \in [Channels -> Seq(Chars)]
    /\ before \in [Channels -> Seq(Shown)]

Read(ch) == AsRead(shown[ch], IsJson(ch))
Whole(ch) == before[ch] \o Exact[received[ch]]

\* A client that is told a block has stopped, or the reply is complete, has read
\* the whole restored text: what it assembles at that point (the arguments of a
\* tool call it is about to run) is final.
StopSeesWhole ==
    [][\A ch \in (stopped' \ stopped) : Read(ch) = Whole(ch)]_streamVars

\* After the stop of a block the gateway sends no text for it, unless the provider
\* does: text that was held back never trails behind the event that closes it.
NothingAfterStop ==
    [][\A ch \in stopped : shown'[ch] = shown[ch]]_streamVars

\* At any time the client has a prefix of the restored text of every channel, and
\* at the end of the stream all of it, however the provider cut and mixed it.
Promise == INSTANCE RestorePromise
             WITH exact <- [ch \in Channels |-> Whole(ch)],
                  read <- [ch \in Channels |-> Read(ch)],
                  ended <- phase = "done",
                  exempt <- {}
PromiseKept == Promise!Spec
=============================================================================
