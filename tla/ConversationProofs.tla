-------------------------- MODULE ConversationProofs --------------------------
(***************************************************************************)
(* What the proxy promises over a conversation, for any settings, places,   *)
(* values and lengths: a placeholder has one meaning, what the provider     *)
(* signed comes back to it as it was, and what was restored in a reply is   *)
(* scrubbed when it comes back.  And what the SSE restorer sends in it, and *)
(* in which order, for any channels, blocks, fakes and stream of events.    *)
(***************************************************************************)
EXTENDS Conversation, RestoreProofs

-----------------------------------------------------------------------------
(* The SSE restorer *)

Shape ==
    /\ DOMAIN buf = Channels /\ DOMAIN flushed = Channels /\ DOMAIN shown = Channels
    /\ stopped \subseteq Channels /\ Ends(event) \subseteq Channels

\* The channel of a delta that is still to be yielded.
Carries(e) == IF e[1] = "delta" THEN {e[2]} ELSE {}

\* Nothing is on its way in a channel that stopped, nor held back in it.
StoppedIsEmpty ==
    \A ch \in stopped : buf[ch] = <<>> /\ flushed[ch] = <<>> /\ ch \notin Carries(event)

\* What an event on its way is about to stop holds nothing back.
StoppingIsFlushed == \A ch \in Ends(event) : buf[ch] = <<>>

StreamInv == Shape /\ StoppedIsEmpty /\ StoppingIsFlushed

LEMMA StreamInitInv == StreamInit => StreamInv
BY DEF StreamInit, StreamInv, Shape, StoppedIsEmpty, StoppingIsFlushed, Empty, NoEvent, Ends, Completed

\* The flush of C, before the event e that is to follow it.
LEMMA FlushInv ==
    ASSUME StreamInv, Taken, NEW C \in SUBSET Channels, Flush(C), shown' = shown, stopped' = stopped,
           Carries(event') = {}, Ends(event') \subseteq C
    PROVE  StreamInv'
<1>1. /\ DOMAIN buf' = Channels /\ DOMAIN flushed' = Channels
      /\ \A ch \in Channels : ch \in C => buf'[ch] = <<>>
      /\ \A ch \in Channels : ch \notin C => buf'[ch] = buf[ch]
      /\ \A ch \in Channels : buf[ch] = <<>> => flushed'[ch] = <<>>
  BY DEF Flush, Emptied
<1>2. Shape'
  BY <1>1 DEF StreamInv, Shape
<1>3. StoppedIsEmpty'
  BY <1>1 DEF StreamInv, Shape, StoppedIsEmpty
<1>4. StoppingIsFlushed'
  BY <1>1 DEF StoppingIsFlushed
<1> QED
  BY <1>2, <1>3, <1>4 DEF StreamInv

LEMMA StreamStepInv == StreamInv /\ [Streaming]_streamVars => StreamInv'
<1> SUFFICES ASSUME StreamInv, [Streaming]_streamVars PROVE StreamInv'
  OBVIOUS
<1> USE DEF Ends, Carries, Completed, Other, NoEvent
<1>1. ASSUME NEW ch \in Channels, NEW t, DeltaEvent(ch, t)
      PROVE  StreamInv'
  <2>1. PICK out, held :
          /\ event' = <<"delta", ch, out>> /\ buf' = [buf EXCEPT ![ch] = held]
          /\ stopped' = stopped \ {ch} /\ flushed' = flushed /\ shown' = shown
    BY <1>1 DEF DeltaEvent, Delta
  <2> QED
    BY <2>1 DEF StreamInv, Shape, StoppedIsEmpty, StoppingIsFlushed
<1>2. ASSUME NEW b \in Blocks, StopEvent(b)
      PROVE  StreamInv'
  BY <1>2, ConstantsOK, FlushInv DEF StopEvent, Reads, Stop
<1>3. CASE CompletedEvent
  BY <1>3, FlushInv DEF CompletedEvent, Reads
<1>4. CASE OtherEvent
  BY <1>4 DEF OtherEvent, StreamInv, Shape, StoppedIsEmpty, StoppingIsFlushed
<1>5. CASE SourceEnds
  BY <1>5, FlushInv DEF SourceEnds, Reads, Taken, FlushAtEnd
<1>6. ASSUME NEW ch \in Channels, YieldFlushed(ch)
      PROVE  StreamInv'
  BY <1>6 DEF YieldFlushed, StreamInv, Shape, StoppedIsEmpty, StoppingIsFlushed
<1>7. CASE YieldEvent
  <2>1. DOMAIN shown' = Channels /\ stopped' \subseteq Channels
    BY <1>7 DEF YieldEvent, StreamInv, Shape
  <2>2. \A ch \in Channels : flushed[ch] = <<>>
    BY <1>7 DEF YieldEvent, ComesNext, Empty
  <2> QED
    BY <1>7, <2>1, <2>2 DEF YieldEvent, StreamInv, Shape, StoppedIsEmpty, StoppingIsFlushed
<1>8. CASE Done
  BY <1>8 DEF Done, StreamInv, Shape, StoppedIsEmpty, StoppingIsFlushed
<1>9. CASE Fail
  BY <1>9 DEF Fail, Empty, StreamInv, Shape, StoppedIsEmpty, StoppingIsFlushed
<1>10. CASE UNCHANGED streamVars
  BY <1>10 DEF streamVars, StreamInv, Shape, StoppedIsEmpty, StoppingIsFlushed
<1> QED
  BY <1>1, <1>2, <1>3, <1>4, <1>5, <1>6, <1>7, <1>8, <1>9, <1>10 DEF Streaming, SomeDelta

LEMMA StreamInductive == StreamSpec => []StreamInv
BY StreamInitInv, StreamStepInv, PTL DEF StreamSpec

\* After the stop of a block, or the completion of the reply, no text of it is sent
\* until the provider itself goes on with it.
THEOREM SilentAfterStop == StreamSpec => NothingAfterStop
<1>1. StreamInv /\ [Streaming]_streamVars => [\A ch \in stopped : shown'[ch] = shown[ch]]_streamVars
  <2> SUFFICES ASSUME StreamInv, Streaming, NEW ch \in stopped PROVE shown'[ch] = shown[ch]
    OBVIOUS
  <2>1. /\ ch \in Channels /\ flushed[ch] = <<>> /\ ch \notin Carries(event)
        /\ DOMAIN shown = Channels
    BY DEF StreamInv, Shape, StoppedIsEmpty
  <2>2. CASE YieldEvent
    BY <2>1, <2>2 DEF YieldEvent, Carries
  <2>3. CASE \E o \in Channels : YieldFlushed(o)
    BY <2>1, <2>3 DEF YieldFlushed
  <2> QED
    BY <2>2, <2>3 DEF Streaming, SomeDelta, DeltaEvent, StopEvent, CompletedEvent, OtherEvent,
         SourceEnds, Done, Fail, streamVars
<1> QED
  BY <1>1, StreamInductive, PTL DEF StreamSpec, NothingAfterStop
-----------------------------------------------------------------------------
(* The promise of the SSE restorer *)

\* The text of an event that is still to be yielded, and all of a channel that the
\* client has read or is about to.
TextOf(e, ch) == IF e[1] = "delta" /\ e[2] = ch THEN e[3] ELSE <<>>
Underway(ch) == flushed[ch] \o TextOf(event, ch)
Seen(ch) == AsRead(shown[ch] \o Underway(ch), IsJson(ch))

\* It is the restore of the texts that were stopped, and of the one that goes on what
\* is not held back, whatever comes.
Follows ==
    phase # "failed" =>
        \A ch \in Channels :
            \E p \in Seq(Readable) :
                Seen(ch) = before[ch] \o p /\ Tracks(received[ch], p, buf[ch])

\* The loops of all buffers have ended, and the end of the stream left none behind.
AllWait == \A ch \in Channels : Waits(buf[ch])
Drained ==
    /\ phase \in {"drain", "done"} => buf = Empty /\ event = NoEvent
    /\ phase = "done" => flushed = Empty

FInv == StreamTypeOK /\ Follows /\ AllWait /\ Drained

LEMMA TokenType ==
    ASSUME NEW m, NEW q \in Tokens(m)
    PROVE  q \in Seq(Chars)
<1>1. PICK n \in Int : q \in [1..n -> Chars] /\ n >= 1
  BY DEF Tokens
<1> QED
  BY <1>1

LEMMA EventTexts ==
    ASSUME NEW ch
    PROVE  /\ TextOf(NoEvent, ch) = <<>> /\ TextOf(Completed, ch) = <<>>
           /\ TextOf(Other, ch) = <<>> /\ \A b : TextOf(Stop(b), ch) = <<>>
           /\ \A o, x : TextOf(Delta(o, x), ch) = IF o = ch THEN x ELSE <<>>
BY DEF TextOf, NoEvent, Completed, Other, Stop, Delta

LEMMA ChannelTexts ==
    ASSUME StreamTypeOK, NEW ch \in Channels
    PROVE  /\ buf[ch] \in Seq(Chars) /\ received[ch] \in Seq(Chars) /\ buf[ch] \in Seq(Shown)
           /\ flushed[ch] \in Seq(Shown) /\ shown[ch] \in Seq(Shown)
           /\ TextOf(event, ch) \in Seq(Shown) /\ Underway(ch) \in Seq(Shown)
           /\ shown[ch] \o Underway(ch) \in Seq(Shown)
           /\ IsJson(ch) \in BOOLEAN /\ Seen(ch) \in Seq(Readable)
           /\ before[ch] \in Seq(Readable) /\ before[ch] \in Seq(Shown)
<1>1. /\ buf[ch] \in Seq(Chars) /\ received[ch] \in Seq(Chars) /\ flushed[ch] \in Seq(Chars)
      /\ shown[ch] \in Seq(Shown) /\ before[ch] \in Seq(Shown) /\ IsJson(ch) \in BOOLEAN
  BY DEF StreamTypeOK, IsJson
<1>2. buf[ch] \in Seq(Shown) /\ flushed[ch] \in Seq(Shown)
  BY <1>1, SeqMonotonic DEF Shown
<1>3. before[ch] \in Seq(Readable)
  BY <1>1, SeqMonotonic DEF Readable
<1>4. TextOf(event, ch) \in Seq(Shown)
  <2>1. CASE event \in {NoEvent, Completed, Other} \cup {Stop(b) : b \in Blocks}
    <3>1. TextOf(event, ch) = <<>>
      BY <2>1, EventTexts
    <3> QED
      BY <3>1, EmptySeq
  <2>2. CASE event \in {"delta"} \X Channels \X Seq(Shown)
    BY <2>2, EmptySeq DEF TextOf
  <2> QED
    BY <2>1, <2>2 DEF StreamTypeOK
<1>5. Underway(ch) \in Seq(Shown)
  BY <1>2, <1>4, ConcatProperties DEF Underway
<1>6. shown[ch] \o Underway(ch) \in Seq(Shown)
  BY <1>1, <1>5, ConcatProperties
<1>7. Seen(ch) \in Seq(Readable)
  BY <1>1, <1>6, ReadType DEF Seen
<1> QED
  BY <1>1, <1>2, <1>3, <1>4, <1>5, <1>6, <1>7

LEMMA InitFollows == StreamInit => FInv
<1> SUFFICES ASSUME StreamInit PROVE FInv
  OBVIOUS
<1>1. StreamTypeOK
  BY EmptySeq DEF StreamInit, StreamTypeOK, Empty
<1>2. ASSUME NEW ch \in Channels
      PROVE  /\ Seen(ch) = before[ch] \o <<>>
             /\ received[ch] = <<>> /\ buf[ch] = <<>>
  <2>1. /\ shown[ch] = <<>> /\ flushed[ch] = <<>> /\ before[ch] = <<>>
        /\ received[ch] = <<>> /\ buf[ch] = <<>> /\ TextOf(event, ch) = <<>>
    BY EventTexts DEF StreamInit, Empty
  <2>2. \A s \in {<<>>} : s \o <<>> = <<>>
    BY EmptySeq, ConcatEmptySeq
  <2>3. shown[ch] \o Underway(ch) = <<>>
    BY <2>1, <2>2 DEF Underway
  <2>4. AsRead(<<>>, IsJson(ch)) = <<>>
    <3>1. <<>> \in Seq(Chars) /\ IsJson(ch) \in BOOLEAN
      BY EmptySeq DEF IsJson
    <3> QED
      BY <3>1, ReadChars
  <2> QED
    BY <2>1, <2>2, <2>3, <2>4 DEF Seen
<1>3. Follows
  BY <1>2, TracksNothing, EmptySeq DEF Follows
<1>4. AllWait /\ Drained
  BY <1>2 DEF AllWait, Waits, Drained, StreamInit
<1> QED
  BY <1>1, <1>3, <1>4 DEF FInv

LEMMA DeltaFollows ==
    ASSUME Apart, FInv, NEW ch \in Channels, NEW t \in Seq(Chars), DeltaEvent(ch, t)
    PROVE  FInv'
<1> DEFINE b == buf[ch] \o t
           x == Out(IsJson(ch))[b]
<1>0. StreamTypeOK /\ phase = "open" /\ phase' = phase /\ flushed = Empty /\ event = NoEvent
  BY DEF FInv, DeltaEvent, Reads, Taken
<1>1. b \in Seq(Chars)
  BY <1>0, ChannelTexts, ConcatProperties
<1>2. x \in Seq(Shown) /\ Held[b] \in Seq(Chars) /\ Waits(Held[b])
  BY <1>1, FeedType
<1>3. /\ event' = Delta(ch, x) /\ buf' = [buf EXCEPT ![ch] = Held[b]]
      /\ received' = [received EXCEPT ![ch] = @ \o t]
      /\ stopped' = stopped \ {ch}
      /\ UNCHANGED <<flushed, shown, before>>
  BY DEF DeltaEvent, Feed
<1> HIDE DEF x
<1>4. received[ch] \o t \in Seq(Chars)
  BY <1>0, ChannelTexts, ConcatProperties
<1>5. StreamTypeOK'
  BY <1>0, <1>2, <1>3, <1>4 DEF StreamTypeOK, Delta
<1>6. AllWait'
  BY <1>0, <1>2, <1>3 DEF FInv, AllWait, StreamTypeOK
<1>7. Drained'
  BY <1>0 DEF Drained
<1>8. ASSUME NEW o \in Channels
      PROVE  \E p \in Seq(Readable) :
                Seen(o)' = before'[o] \o p /\ Tracks(received'[o], p, buf'[o])
  <2>1. PICK p \in Seq(Readable) : Seen(o) = before[o] \o p /\ Tracks(received[o], p, buf[o])
    BY <1>0 DEF FInv, Follows
  <2>2. /\ shown[o] \in Seq(Shown) /\ flushed[o] = <<>> /\ TextOf(event, o) = <<>>
        /\ before[o] \in Seq(Readable) /\ IsJson(o) \in BOOLEAN
    BY <1>0, ChannelTexts, EventTexts DEF Empty
  <2>3. Seen(o) = AsRead(shown[o], IsJson(o))
    <3>1. <<>> \o <<>> = <<>> /\ shown[o] \o <<>> = shown[o]
      BY <2>2, EmptySeq, ConcatEmptySeq
    <3> QED
      BY <2>2, <3>1 DEF Seen, Underway
  <2>4. CASE o # ch
    <3>1. /\ TextOf(event', o) = <<>> /\ flushed'[o] = <<>> /\ shown'[o] = shown[o]
          /\ received'[o] = received[o] /\ buf'[o] = buf[o] /\ before'[o] = before[o]
      BY <1>0, <1>3, <2>2, <2>4, EventTexts DEF StreamTypeOK
    <3>2. Seen(o)' = Seen(o)
      BY <2>2, <3>1 DEF Seen, Underway
    <3> QED
      BY <2>1, <3>1, <3>2
  <2>5. CASE o = ch
    <3> DEFINE r == AsRead(x, IsJson(ch))
    <3>1. Seen(ch)' = AsRead(shown[ch] \o x, IsJson(ch))
      <4>1. TextOf(event', ch) = x /\ flushed'[ch] = <<>> /\ shown'[ch] = shown[ch]
        BY <1>3, <2>2, <2>5, EventTexts
      <4>2. <<>> \o x = x
        BY <1>2, ConcatEmptySeq
      <4> QED
        BY <4>1, <4>2 DEF Seen, Underway
    <3>2. Seen(ch)' = Seen(ch) \o r
      <4>1. AsRead(shown[ch] \o x, IsJson(ch)) = AsRead(shown[ch], IsJson(ch)) \o r
        BY <1>2, <2>2, <2>5, ReadConcat
      <4> QED
        BY <2>3, <2>5, <3>1, <4>1
    <3>3. r \in Seq(Readable)
      BY <1>2, <2>2, <2>5, ReadType
    <3>4. Tracks(received[ch] \o t, p, b)
      BY <1>0, <2>1, <2>5, ChannelTexts, TracksMore
    <3>5. Tracks(received[ch] \o t, p \o r, Held[b])
      BY <1>1, <1>4, <2>2, <2>5, <3>4, TracksFeed DEF x
    <3> HIDE DEF r
    <3>6. (before[ch] \o p) \o r = before[ch] \o (p \o r) /\ p \o r \in Seq(Readable)
      BY <2>2, <2>5, <3>3, ReadableRegroup, ConcatProperties, ZenonT(40)
    <3>7. /\ received'[ch] = received[ch] \o t /\ buf'[ch] = Held[b] /\ before'[ch] = before[ch]
      BY <1>0, <1>3 DEF StreamTypeOK
    <3> QED
      BY <2>1, <2>5, <3>2, <3>5, <3>6, <3>7
  <2> QED
    BY <2>4, <2>5
<1> QED
  BY <1>5, <1>6, <1>7, <1>8 DEF FInv, Follows

\* A flush: what was held back of the channels C is on its way, and they begin anew.
LEMMA FlushFollows ==
    ASSUME Apart, FInv, Reads, NEW C \in SUBSET Channels, Flush(C),
           phase' \in {"open", "drain"},
           event' \in {NoEvent, Completed} \cup {Stop(b) : b \in Blocks},
           phase' = "drain" => C = Channels /\ event' = NoEvent,
           UNCHANGED <<shown, stopped>>
    PROVE  FInv'
<1>0. StreamTypeOK /\ phase = "open" /\ flushed = Empty /\ event = NoEvent
  BY DEF FInv, Reads, Taken
<1>1. ASSUME NEW ch \in Channels
      PROVE  /\ flushed'[ch] = IF ch \in C THEN buf[ch] ELSE <<>>
             /\ buf'[ch] = IF ch \in C THEN <<>> ELSE buf[ch]
             /\ before'[ch] = before[ch] \o (IF ch \in C THEN Exact[received[ch]] ELSE <<>>)
             /\ received'[ch] = IF ch \in C THEN <<>> ELSE received[ch]
             /\ TextOf(event', ch) = <<>>
  <2>1. TextOf(event', ch) = <<>>
    BY EventTexts
  <2> QED
    BY <2>1 DEF Flush, Emptied
<1>2. StreamTypeOK'
  <2>1. \A ch \in Channels : Exact[received[ch]] \in Seq(Shown) /\ <<>> \in Seq(Shown)
    BY <1>0, ExactType, EmptySeq DEF StreamTypeOK
  <2>2. \A ch \in Channels :
           before[ch] \o (IF ch \in C THEN Exact[received[ch]] ELSE <<>>) \in Seq(Shown)
    BY <1>0, <2>1, ConcatProperties DEF StreamTypeOK
  <2>3. before' \in [Channels -> Seq(Shown)]
    BY <2>2 DEF Flush
  <2>4. /\ flushed' \in [Channels -> Seq(Chars)] /\ buf' \in [Channels -> Seq(Chars)]
        /\ received' \in [Channels -> Seq(Chars)]
    BY <1>0, EmptySeq DEF Flush, Emptied, StreamTypeOK
  <2> QED
    BY <1>0, <2>3, <2>4 DEF StreamTypeOK
<1>3. AllWait'
  BY <1>0, <1>1 DEF FInv, AllWait, Waits
<1>4. Drained'
  BY DEF Drained, Flush, Emptied, Empty
<1>5. ASSUME NEW ch \in Channels
      PROVE  \E p \in Seq(Readable) :
                Seen(ch)' = before'[ch] \o p /\ Tracks(received'[ch], p, buf'[ch])
  <2>1. PICK p \in Seq(Readable) :
          Seen(ch) = before[ch] \o p /\ Tracks(received[ch], p, buf[ch])
    BY <1>0 DEF FInv, Follows
  <2>2. /\ shown[ch] \in Seq(Shown) /\ buf[ch] \in Seq(Shown) /\ buf[ch] \in Seq(Chars)
        /\ received[ch] \in Seq(Chars)
        /\ before[ch] \in Seq(Readable) /\ IsJson(ch) \in BOOLEAN
    BY <1>0, ChannelTexts
  <2>3. \A q \in Seq(Shown) : q \o <<>> = q
    BY ConcatEmptySeq
  <2>4. <<>> \in Seq(Shown)
    BY EmptySeq
  <2>5. Seen(ch) = AsRead(shown[ch], IsJson(ch))
    <3>1. flushed[ch] = <<>> /\ TextOf(event, ch) = <<>>
      BY <1>0, EventTexts DEF Empty
    <3>2. shown[ch] \o (<<>> \o <<>>) = shown[ch]
      BY <2>2, <2>3, <2>4
    <3> QED
      BY <3>1, <3>2 DEF Seen, Underway
  <2>6. CASE ch \in C
    <3>1. Seen(ch)' = AsRead(shown[ch] \o buf[ch], IsJson(ch))
      BY <1>1, <2>2, <2>3, <2>6 DEF Seen, Underway
    <3>2. AsRead(shown[ch] \o buf[ch], IsJson(ch)) = Seen(ch) \o buf[ch]
      <4>1. AsRead(buf[ch], IsJson(ch)) = buf[ch]
        BY <2>2, ReadChars
      <4>2. AsRead(shown[ch] \o buf[ch], IsJson(ch))
              = AsRead(shown[ch], IsJson(ch)) \o AsRead(buf[ch], IsJson(ch))
        BY <2>2, ReadConcat
      <4> QED
        BY <2>5, <4>1, <4>2
    <3>3. Exact[buf[ch]] = buf[ch]
      BY <2>2, WaitingIsExact DEF FInv, AllWait
    <3>4. Exact[received[ch]] = p \o buf[ch]
      BY <2>1, <2>2, <3>3, TracksNow, ZenonT(40)
    <3>5. buf[ch] \in Seq(Readable)
      BY <2>2, SeqMonotonic DEF Readable
    <3>6. (before[ch] \o p) \o buf[ch] = before[ch] \o (p \o buf[ch])
      BY <2>2, <3>5, ReadableRegroup
    <3>7. before'[ch] = before[ch] \o (p \o buf[ch])
      BY <1>1, <2>6, <3>4
    <3>8. before[ch] \o (p \o buf[ch]) \in Seq(Readable)
      BY <2>2, <3>5, ConcatProperties
    <3>9. before'[ch] \o <<>> = before'[ch]
      BY <3>7, <3>8, ConcatEmptySeq
    <3>10. Seen(ch)' = before'[ch] \o <<>>
      BY <2>1, <3>1, <3>2, <3>6, <3>7, <3>9
    <3>11. received'[ch] = <<>> /\ buf'[ch] = <<>> /\ <<>> \in Seq(Readable)
      BY <1>1, <2>6, EmptySeq
    <3> QED
      BY <3>10, <3>11, TracksNothing
  <2>7. CASE ch \notin C
    <3>1. Seen(ch)' = Seen(ch)
      <4>1. flushed'[ch] = <<>> /\ TextOf(event', ch) = <<>> /\ shown'[ch] = shown[ch]
        BY <1>1, <2>7
      <4>2. shown[ch] \o (<<>> \o <<>>) = shown[ch]
        BY <2>2, <2>3, <2>4
      <4> QED
        BY <2>5, <4>1, <4>2 DEF Seen, Underway
    <3>2. before'[ch] = before[ch]
      BY <1>1, <2>2, <2>7, ConcatEmptySeq
    <3> QED
      BY <1>1, <2>1, <2>7, <3>1, <3>2
  <2> QED
    BY <2>6, <2>7
<1> QED
  BY <1>2, <1>3, <1>4, <1>5 DEF FInv, Follows

\* A step that takes what is underway of a channel to the client changes nothing.
LEMMA YieldFollows ==
    ASSUME FInv, StreamTypeOK', phase \in {"open", "drain"}, phase' = phase,
           UNCHANGED <<buf, received, before>>,
           phase = "drain" => event' = event,
           \A ch \in Channels : shown'[ch] \o Underway(ch)' = shown[ch] \o Underway(ch)
    PROVE  FInv'
<1>1. Follows'
  BY DEF FInv, Follows, Seen
<1>2. AllWait' /\ Drained'
  BY DEF FInv, AllWait, Drained
<1> QED
  BY <1>1, <1>2 DEF FInv

LEMMA StepFollows ==
    ASSUME Apart
    PROVE  FInv /\ [Streaming]_streamVars => FInv'
<1> SUFFICES ASSUME FInv, [Streaming]_streamVars PROVE FInv'
  OBVIOUS
<1>0. StreamTypeOK
  BY DEF FInv
<1>1. CASE SomeDelta
  <2>1. PICK ch \in Channels : \E t \in Tokens(MaxChars - Sent) : DeltaEvent(ch, t)
    BY <1>1 DEF SomeDelta
  <2>2. PICK t \in Tokens(MaxChars - Sent) : DeltaEvent(ch, t)
    BY <2>1
  <2>3. t \in Seq(Chars)
    BY TokenType
  <2> QED
    BY <2>2, <2>3, DeltaFollows
<1>2. ASSUME NEW b \in Blocks, StopEvent(b)
      PROVE  FInv'
  BY <1>2, ConstantsOK, FlushFollows DEF StopEvent, Reads
<1>3. CASE CompletedEvent
  BY <1>3, FlushFollows DEF CompletedEvent, Reads
<1>4. CASE OtherEvent
  <2>1. /\ event = NoEvent /\ event' = Other /\ UNCHANGED <<phase, flushed, shown, stopped>>
        /\ UNCHANGED <<buf, received, before>> /\ phase = "open"
    BY <1>4 DEF OtherEvent, Reads, Taken
  <2>2. StreamTypeOK'
    BY <1>0, <2>1 DEF StreamTypeOK
  <2>3. \A ch \in Channels : shown'[ch] \o Underway(ch)' = shown[ch] \o Underway(ch)
    BY <2>1, EventTexts DEF Underway
  <2> QED
    BY <2>1, <2>2, <2>3, YieldFollows
<1>5. CASE SourceEnds
  BY <1>5, <1>0, FlushFollows DEF SourceEnds, Reads, Taken, FlushAtEnd
<1>6. ASSUME NEW ch \in Channels, YieldFlushed(ch)
      PROVE  FInv'
  <2>1. /\ phase \in {"open", "drain"} /\ UNCHANGED <<phase, buf, event, stopped, received, before>>
        /\ shown' = [shown EXCEPT ![ch] = @ \o flushed[ch]]
        /\ flushed' = [flushed EXCEPT ![ch] = <<>>]
    BY <1>6 DEF YieldFlushed
  <2>2. shown[ch] \o flushed[ch] \in Seq(Shown)
    BY <1>0, ChannelTexts, ConcatProperties
  <2>3. StreamTypeOK'
    BY <1>0, <2>1, <2>2, EmptySeq DEF StreamTypeOK
  <2>4. ASSUME NEW o \in Channels
        PROVE  shown'[o] \o Underway(o)' = shown[o] \o Underway(o)
    <3> DEFINE x == TextOf(event, o)
    <3>1. x \in Seq(Shown) /\ flushed[o] \in Seq(Shown) /\ shown[o] \in Seq(Shown)
      BY <1>0, ChannelTexts
    <3>2. CASE o = ch
      <4>1. shown'[o] = shown[o] \o flushed[o] /\ Underway(o)' = <<>> \o x
        BY <1>0, <2>1, <3>2 DEF StreamTypeOK, Underway
      <4> HIDE DEF x
      <4>2. <<>> \o x = x
        BY <3>1, ConcatEmptySeq
      <4>3. shown[o] \o (flushed[o] \o x) = (shown[o] \o flushed[o]) \o x
        BY <3>1, ShownRegroup
      <4> QED
        BY <4>1, <4>2, <4>3 DEF Underway, x
    <3>3. CASE o # ch
      BY <1>0, <2>1, <3>3 DEF StreamTypeOK, Underway
    <3> QED
      BY <3>2, <3>3
  <2> QED
    BY <2>1, <2>3, <2>4, YieldFollows
<1>7. CASE YieldEvent
  <2>1. /\ phase = "open" /\ phase' = phase /\ UNCHANGED <<buf, flushed, received, before>>
        /\ flushed = Empty /\ event' = NoEvent /\ stopped' = stopped \cup Ends(event)
        /\ shown' = IF event[1] = "delta"
                    THEN [shown EXCEPT ![event[2]] = @ \o event[3]] ELSE shown
    BY <1>7 DEF YieldEvent, ComesNext
  <2>2. ASSUME NEW o \in Channels
        PROVE  shown'[o] = shown[o] \o TextOf(event, o)
    <3>1. shown[o] \o <<>> = shown[o]
      BY <1>0, ChannelTexts, ConcatEmptySeq
    <3> QED
      BY <1>0, <2>1, <3>1 DEF TextOf, StreamTypeOK
  <2>3. ASSUME NEW o \in Channels
        PROVE  /\ shown'[o] \in Seq(Shown)
               /\ shown'[o] \o Underway(o)' = shown[o] \o Underway(o)
    <3>1. /\ TextOf(event, o) \in Seq(Shown) /\ shown[o] \in Seq(Shown)
      BY <1>0, ChannelTexts
    <3>2. shown'[o] \in Seq(Shown)
      BY <2>2, <3>1, ConcatProperties
    <3>3. Underway(o) = <<>> \o TextOf(event, o) /\ Underway(o)' = <<>> \o <<>>
      BY <2>1, EventTexts DEF Underway, Empty
    <3>4. Underway(o) = TextOf(event, o)
      BY <3>1, <3>3, ConcatEmptySeq
    <3>5. Underway(o)' = <<>>
      <4>1. <<>> \in Seq(Shown)
        BY EmptySeq
      <4> QED
        BY <3>3, <4>1, ConcatEmptySeq
    <3>6. shown'[o] \o <<>> = shown'[o]
      BY <3>2, ConcatEmptySeq
    <3> QED
      BY <2>2, <3>2, <3>4, <3>5, <3>6
  <2>4. StreamTypeOK'
    <3>1. DOMAIN shown' = Channels
      BY <1>0, <2>1 DEF StreamTypeOK
    <3>2. shown' = [o \in Channels |-> shown'[o]]
      BY <1>0, <2>1, <3>1 DEF StreamTypeOK
    <3>3. shown' \in [Channels -> Seq(Shown)]
      BY <2>3, <3>2
    <3>4. Ends(event) \subseteq Channels
      BY <1>0, ConstantsOK DEF StreamTypeOK, Ends, Stop, NoEvent, Completed, Other
    <3> QED
      BY <1>0, <2>1, <3>3, <3>4 DEF StreamTypeOK
  <2> QED
    BY <2>1, <2>3, <2>4, YieldFollows
<1>8. CASE Done
  BY <1>8 DEF Done, Taken, FInv, StreamTypeOK, Follows, Seen, Underway, AllWait, Drained
<1>9. CASE Fail
  BY <1>9, EmptySeq DEF Fail, Empty, FInv, StreamTypeOK, Follows, AllWait, Drained
<1>10. CASE UNCHANGED streamVars
  BY <1>10 DEF streamVars, FInv, StreamTypeOK, Follows, Seen, Underway, AllWait, Drained
<1> QED
  BY <1>1, <1>2, <1>3, <1>4, <1>5, <1>6, <1>7, <1>8, <1>9, <1>10 DEF Streaming

LEMMA InductiveFollows ==
    ASSUME Apart
    PROVE  StreamSpec => []FInv
BY InitFollows, StepFollows, PTL DEF StreamSpec

\* What was seen and what is held back are the whole text.
LEMMA SeenAndHeld ==
    ASSUME FInv, phase # "failed", NEW ch \in Channels
    PROVE  /\ Whole(ch) = Seen(ch) \o Exact[buf[ch]]
           /\ Seen(ch) = Read(ch) \o AsRead(Underway(ch), IsJson(ch))
<1>0. StreamTypeOK
  BY DEF FInv
<1>1. PICK p \in Seq(Readable) : Seen(ch) = before[ch] \o p /\ Tracks(received[ch], p, buf[ch])
  BY DEF FInv, Follows
<1>2. /\ before[ch] \in Seq(Readable) /\ Exact[buf[ch]] \in Seq(Readable)
      /\ buf[ch] \in Seq(Chars) /\ received[ch] \in Seq(Chars)
  BY <1>0, ChannelTexts, ExactReadable
<1>3. Exact[received[ch]] = p \o Exact[buf[ch]]
  BY <1>1, <1>2, TracksNow
<1>4. (before[ch] \o p) \o Exact[buf[ch]] = before[ch] \o (p \o Exact[buf[ch]])
  BY <1>2, ReadableRegroup
<1>5. Seen(ch) = Read(ch) \o AsRead(Underway(ch), IsJson(ch))
  BY <1>0, ChannelTexts, ReadConcat DEF Seen, Read
<1> QED
  BY <1>1, <1>3, <1>4, <1>5 DEF Whole

\* A channel with nothing on its way or held back was read as a whole.
LEMMA NothingMissing ==
    ASSUME FInv, phase # "failed", NEW ch \in Channels, buf[ch] = <<>>,
           flushed[ch] = <<>>, TextOf(event, ch) = <<>>
    PROVE  Read(ch) = Whole(ch)
<1>1. <<>> \o <<>> = <<>> /\ shown[ch] \o <<>> = shown[ch] /\ Seen(ch) \o <<>> = Seen(ch)
  <2>1. <<>> \in Seq(Readable)
    BY EmptySeq
  <2> QED
    BY <2>1, ChannelTexts, ConcatEmptySeq DEF FInv
<1>2. Seen(ch) = Read(ch)
  BY <1>1 DEF Seen, Underway, Read
<1>3. Exact[buf[ch]] = <<>>
  BY ExactDef
<1> QED
  BY <1>1, <1>2, <1>3, SeenAndHeld

\* What a client has read when it is told that a block has stopped is all of its text.
THEOREM StopsWithTheWhole ==
    ASSUME Apart
    PROVE  StreamSpec => StopSeesWhole
<1>1. StreamInv /\ FInv /\ [Streaming]_streamVars
        => [\A ch \in (stopped' \ stopped) : Read(ch) = Whole(ch)]_streamVars
  <2> SUFFICES ASSUME StreamInv, FInv, Streaming, NEW ch \in (stopped' \ stopped)
               PROVE  Read(ch) = Whole(ch)
    OBVIOUS
  <2>1. YieldEvent
    BY DEF Streaming, SomeDelta, DeltaEvent, StopEvent, CompletedEvent, OtherEvent, SourceEnds,
           YieldFlushed, Done, Fail
  <2>2. phase = "open" /\ flushed = Empty /\ ch \in Ends(event)
    BY <2>1 DEF YieldEvent, ComesNext
  <2>3. ch \in Channels /\ buf[ch] = <<>> /\ flushed[ch] = <<>>
    BY <2>2 DEF StreamInv, Shape, StoppingIsFlushed, Empty
  <2>4. event[1] # "delta"
    BY <2>2 DEF Ends, Completed
  <2>5. TextOf(event, ch) = <<>>
    BY <2>4 DEF TextOf
  <2> QED
    BY <2>2, <2>3, <2>5, NothingMissing
<1> QED
  BY <1>1, StreamInductive, InductiveFollows, PTL DEF StreamSpec, StopSeesWhole

\* What the client has read, until the stream fails.
ReadsOK ==
    phase # "failed" =>
        \A ch \in Channels :
            /\ Promise!Begins(Read(ch), Whole(ch))
            /\ phase = "done" => Read(ch) = Whole(ch)

LEMMA ReadsTheBeginning == FInv => ReadsOK
<1> SUFFICES ASSUME FInv, phase # "failed", NEW ch \in Channels
             PROVE  /\ Promise!Begins(Read(ch), Whole(ch))
                    /\ phase = "done" => Read(ch) = Whole(ch)
  BY DEF ReadsOK
<1> DEFINE x == Read(ch)
           y == AsRead(Underway(ch), IsJson(ch))
           z == Exact[buf[ch]]
<1>1. x \in Seq(Readable) /\ y \in Seq(Readable) /\ z \in Seq(Readable)
  BY ChannelTexts, ReadType, ExactReadable DEF FInv, Read
<1>2. Whole(ch) = (x \o y) \o z
  BY SeenAndHeld
<1>3. phase = "done" => x = Whole(ch)
  <2> SUFFICES ASSUME phase = "done" PROVE Read(ch) = Whole(ch)
    OBVIOUS
  <2>1. buf[ch] = <<>> /\ flushed[ch] = <<>> /\ TextOf(event, ch) = <<>>
    BY EventTexts DEF FInv, Drained, Empty
  <2> QED
    BY <2>1, NothingMissing
<1>4. Promise!Begins(x, Whole(ch))
  <2> HIDE DEF x, y, z
  <2>1. (x \o y) \o z = x \o (y \o z) /\ y \o z \in Seq(Readable)
    BY <1>1, ReadableRegroup, ConcatProperties
  <2> QED
    BY <1>1, <1>2, <2>1, BeginsLonger DEF Promise!Begins
<1> QED
  BY <1>3, <1>4

\* What is shown stays, and what comes is added behind it.
LEMMA StepShows ==
    ASSUME FInv, Streaming
    PROVE  \/ UNCHANGED <<shown, received, before>> /\ (phase' = "done" <=> phase = "done")
           \/ /\ phase \notin {"done", "failed"} /\ phase' # "failed"
              /\ \A ch \in Channels : \E x \in Seq(Shown) : shown'[ch] = shown[ch] \o x
<1> DEFINE Grows == \A ch \in Channels : \E x \in Seq(Shown) : shown'[ch] = shown[ch] \o x
<1>0. StreamTypeOK
  BY DEF FInv
<1>1. ASSUME UNCHANGED shown PROVE Grows
  <2> SUFFICES ASSUME NEW ch \in Channels
               PROVE  <<>> \in Seq(Shown) /\ shown'[ch] = shown[ch] \o <<>>
    OBVIOUS
  <2> QED
    BY <1>0, <1>1, ChannelTexts, EmptySeq, ConcatEmptySeq
<1>2. CASE SomeDelta \/ (\E b \in Blocks : StopEvent(b)) \/ CompletedEvent \/ OtherEvent
           \/ SourceEnds \/ Done
  <2>1. phase \in {"open", "drain"} /\ phase' \in {"open", "drain", "done"} /\ shown' = shown
    BY <1>2 DEF SomeDelta, DeltaEvent, StopEvent, CompletedEvent, OtherEvent, SourceEnds, Done,
                Reads
  <2> QED
    BY <1>1, <2>1
<1>3. ASSUME NEW ch \in Channels, YieldFlushed(ch)
      PROVE  phase \in {"open", "drain"} /\ phase' = phase /\ Grows
  <2>1. /\ phase \in {"open", "drain"} /\ phase' = phase
        /\ shown' = [shown EXCEPT ![ch] = @ \o flushed[ch]]
    BY <1>3 DEF YieldFlushed
  <2>2. ASSUME NEW o \in Channels
        PROVE  \E x \in Seq(Shown) : shown'[o] = shown[o] \o x
    <3>1. CASE o = ch
      <4>1. shown'[o] = shown[o] \o flushed[o] /\ flushed[o] \in Seq(Shown)
        BY <1>0, <2>1, <3>1, ChannelTexts DEF StreamTypeOK
      <4> QED
        BY <4>1
    <3>2. CASE o # ch
      <4>1. shown'[o] = shown[o] \o <<>> /\ <<>> \in Seq(Shown)
        BY <1>0, <2>1, <3>2, ChannelTexts, EmptySeq, ConcatEmptySeq DEF StreamTypeOK
      <4> QED
        BY <4>1
    <3> QED
      BY <3>1, <3>2
  <2> QED
    BY <2>1, <2>2
<1>4. CASE YieldEvent
  <2>1. phase = "open" /\ phase' = phase
    BY <1>4 DEF YieldEvent
  <2>2. ASSUME NEW o \in Channels
        PROVE  \E x \in Seq(Shown) : shown'[o] = shown[o] \o x
    <3>1. shown[o] \o <<>> = shown[o] /\ TextOf(event, o) \in Seq(Shown)
      BY <1>0, ChannelTexts, ConcatEmptySeq
    <3>2. shown'[o] = shown[o] \o TextOf(event, o)
      BY <1>0, <1>4, <3>1 DEF YieldEvent, TextOf, StreamTypeOK
    <3> QED
      BY <3>1, <3>2
  <2> QED
    BY <2>1, <2>2
<1>5. CASE Fail
  BY <1>5 DEF Fail
<1> QED
  BY <1>2, <1>3, <1>4, <1>5 DEF Streaming

LEMMA ShownGrows ==
    ASSUME StreamTypeOK, NEW ch \in Channels, NEW x \in Seq(Shown),
           shown'[ch] = shown[ch] \o x
    PROVE  Promise!Begins(Read(ch), Read(ch)')
<1>1. shown[ch] \in Seq(Shown) /\ IsJson(ch) \in BOOLEAN
  BY ChannelTexts
<1>2. Read(ch)' = AsRead(shown[ch], IsJson(ch)) \o AsRead(x, IsJson(ch))
  BY <1>1, ReadConcat DEF Read
<1>3. AsRead(shown[ch], IsJson(ch)) \in Seq(Readable) /\ AsRead(x, IsJson(ch)) \in Seq(Readable)
  BY <1>1, ReadType
<1> QED
  BY <1>2, <1>3, BeginsLonger DEF Promise!Begins, Read

LEMMA StepPromise ==
    ASSUME FInv, ReadsOK', [Streaming]_streamVars
    PROVE  \/ Promise!Next
           \/ UNCHANGED <<[ch \in Channels |-> Whole(ch)],
                          [ch \in Channels |-> Read(ch)], phase = "done", {}>>
<1>0. StreamTypeOK
  BY DEF FInv
<1>1. CASE UNCHANGED <<shown, received, before>> /\ (phase' = "done" <=> phase = "done")
  BY <1>1 DEF Read, Whole
<1>2. CASE /\ phase \notin {"done", "failed"} /\ phase' # "failed"
           /\ \A ch \in Channels : \E x \in Seq(Shown) : shown'[ch] = shown[ch] \o x
  <2>1. ASSUME NEW ch \in Channels
        PROVE  /\ Promise!Begins(Read(ch), Read(ch)')
               /\ Promise!Begins(Read(ch)', Whole(ch)')
               /\ phase' = "done" => Read(ch)' = Whole(ch)'
    <3>1. Promise!Begins(Read(ch), Read(ch)')
      BY <1>0, <1>2, ShownGrows
    <3>2. /\ Promise!Begins(Read(ch), Whole(ch))'
          /\ phase' = "done" => Read(ch)' = Whole(ch)'
      BY <1>2 DEF ReadsOK
    <3> QED
      BY <3>1, <3>2 DEF Promise!Begins
  <2> QED
    BY <1>2, <2>1 DEF Promise!Next, Promise!Advances
<1>3. CASE UNCHANGED streamVars
  BY <1>3, <1>1 DEF streamVars
<1> QED
  BY <1>1, <1>2, <1>3, StepShows

LEMMA InitPromise == StreamInit => Promise!Init
<1> SUFFICES ASSUME StreamInit PROVE Promise!Init
  OBVIOUS
<1>1. <<>> \in Seq(Chars) /\ <<>> \in Seq(Readable)
  BY EmptySeq
<1>2. ASSUME NEW ch \in Channels PROVE Read(ch) = <<>> /\ Whole(ch) = <<>>
  <2>1. shown[ch] = <<>> /\ received[ch] = <<>> /\ before[ch] = <<>>
    BY DEF StreamInit, Empty
  <2>2. IsJson(ch) \in BOOLEAN
    BY DEF IsJson
  <2>3. Read(ch) = <<>>
    BY <1>1, <2>1, <2>2, ReadChars DEF Read
  <2>4. <<>> \o <<>> = <<>>
    BY <1>1, ConcatEmptySeq
  <2> QED
    BY <2>1, <2>3, <2>4, ExactDef DEF Whole
<1> QED
  BY <1>2 DEF StreamInit, Promise!Init

\* The SSE restorer implements the promise of a restored stream.
THEOREM KeepsThePromise ==
    ASSUME Apart
    PROVE  StreamSpec => PromiseKept
<1>1. FInv /\ ReadsOK' /\ [Streaming]_streamVars
        => [Promise!Next]_<<[ch \in Channels |-> Whole(ch)],
                            [ch \in Channels |-> Read(ch)], phase = "done", {}>>
  BY StepPromise
<1> QED
  BY <1>1, InitPromise, ReadsTheBeginning, InductiveFollows, PTL
     DEF StreamSpec, PromiseKept, Promise!Spec

-----------------------------------------------------------------------------
(* The restorer in a conversation *)

LEMMA RunsRestorer == Spec => StreamSpec
<1>1. Init => StreamInit
  BY DEF Init
<1>2. [Next]_vars => [Streaming]_streamVars
  BY DEF Next, StreamStep, vars
<1> QED
  BY <1>1, <1>2, PTL DEF Spec, StreamSpec

\* The same holds of the streamed reply of a conversation.
THEOREM SilentInConversation == Spec => NothingAfterStop
BY RunsRestorer, SilentAfterStop

\* And it keeps the promise of a restored stream, up to each stop of a block.
THEOREM StopsWithTheWholeInConversation ==
    ASSUME Apart
    PROVE  Spec => StopSeesWhole
BY RunsRestorer, StopsWithTheWhole

\* A conversation's stream implements the promise of the restorers (PromiseKept).
THEOREM KeepsThePromiseInConversation ==
    ASSUME Apart
    PROVE  Spec => PromiseKept
BY RunsRestorer, KeepsThePromise

-----------------------------------------------------------------------------
(* The inductive invariant of the conversation *)

Tokens_ == Values \cup Placeholders
Entries == [at : AllPlaces, text : Tokens_, made : Tokens_ \cup {Client}]

Types ==
    /\ set \in Settings
    /\ pc \in {"writing", "scrubbing", "sent", "streaming", "over"}
    /\ history \in Seq(Entries)
    /\ sent \in Seq(Tokens_)
    /\ DOMAIN original \subseteq 1..MaxNumber
    /\ \A n \in DOMAIN original : original[n] \in Values

\* Of each leaf that was handled: relayed as it is, or masked by one of the mapping.
Handled(i) ==
    \/ sent[i] = history[i].text /\ (Scrubs(history[i]) => history[i].text \notin Values)
    \/ /\ Scrubs(history[i])
       /\ \E n \in DOMAIN original : sent[i] = Placeholder(n) /\ original[n] = history[i].text

\* No placeholder of the mapping is in the body.
NotInBody == \A n \in DOMAIN original : \A i \in DOMAIN history : history[i].text # Placeholder(n)

InRequest ==
    /\ Len(sent) <= Len(history)
    /\ pc = "sent" => Len(sent) = Len(history)
    /\ pc \in {"scrubbing", "sent"} => reserved = Reserved /\ NotInBody
    /\ \A i \in DOMAIN sent : Handled(i)
    /\ pc = "writing" => sent = <<>> /\ original = <<>> /\ reserved = {}

\* The client has what the model wrote where nothing is restored.
KeptOr(e) ==
    e.made = Client \/ e.text = e.made \/ (e.at = set.say /\ Restored(set.proto, e.at))
RestoredOnly == \A i \in DOMAIN history : KeptOr(history[i])

Inv == Types /\ InRequest /\ RestoredOnly

-----------------------------------------------------------------------------
(* Tables and maps *)

LEMMA PlainOfIssued ==
    ASSUME NEW n \in DOMAIN original
    PROVE  Plain(Placeholder(n)) = original[n]
BY DEF Plain, Placeholder

LEMMA PlainOfOther ==
    ASSUME NEW t, \A n \in DOMAIN original : t # Placeholder(n)
    PROVE  Plain(t) = t
BY DEF Plain

\* The rules of the gateways, by protocol.
LEMMA AnthropicRules ==
    /\ \A step \in AnthropicContents \cup AnthropicObjects \cup AnthropicTexts \cup AnthropicData :
          Type(step) \notin ThinkingTypes
    /\ \A step \in AnthropicContents : Field(step) = "content" /\ step \notin AnthropicData
<1> USE DEF Type, Field, ThinkingTypes
<1>1. \A step \in AnthropicContents : Type(step) \notin ThinkingTypes /\ Field(step) = "content"
  <2>1. ASSUME NEW step \in (ToolResultTypes \cup {"search_result", "other"}) \X {"content"}
        PROVE  Type(step) \notin ThinkingTypes /\ Field(step) = "content"
    BY DEF ToolResultTypes
  <2> QED
    BY <2>1 DEF AnthropicContents
<1>2. \A step \in AnthropicObjects : Type(step) \notin ThinkingTypes
  BY DEF AnthropicObjects
<1>3. \A step \in AnthropicTexts : Type(step) \notin ThinkingTypes
  <2>1. ASSUME NEW step, NEW t \in {"document", "search_result", "other"}, NEW F,
               step \in {t} \X F
        PROVE  Type(step) \notin ThinkingTypes
    BY <2>1
  <2> QED
    BY <2>1 DEF AnthropicTexts
<1>4. \A step \in AnthropicData : Type(step) \notin ThinkingTypes /\ Field(step) # "content"
  BY DEF AnthropicData, ToolUseTypes
<1> QED
  BY <1>1, <1>2, <1>3, <1>4

LEMMA ResponsesRules ==
    /\ \A step \in ResponsesContents \cup ResponsesTexts \cup ResponsesData :
          Type(step) \notin {"reasoning", "compaction"}
    /\ \A step \in ResponsesContents : Field(step) # "arguments" /\ step \notin ResponsesData
<1> USE DEF Type, Field
<1>1. \A step \in ResponsesContents :
         /\ Type(step) \notin {"reasoning", "compaction"} /\ Field(step) # "arguments"
         /\ step = <<"body", "input">> \/ Field(step) = "content"
  BY DEF ResponsesContents
<1>2. \A step \in ResponsesTexts : Type(step) \notin {"reasoning", "compaction"}
  BY DEF ResponsesTexts
<1>3. \A step \in ResponsesData :
         /\ Type(step) \notin {"reasoning", "compaction"}
         /\ step # <<"body", "input">> /\ Field(step) # "content"
  BY DEF ResponsesData, DataFields, OutputTypes
<1> QED
  BY <1>1, <1>2, <1>3

\* What is signed is neither scrubbed nor restored.
LEMMA SignedOutOfReach ==
    ASSUME NEW proto, NEW opt, NEW at \in AllPlaces, Signed(proto, at)
    PROVE  ~Restored(proto, at) /\ ~Scrubbed(proto, opt, at)
<1>1. PICK i \in DOMAIN at.path :
         /\ Type(at.path[i]) \in SkipTypes(proto)
         /\ \A j \in 1..i - 1 : at.path[j] \in Contents(proto, opt)
  BY DEF Signed, Contents, Gateways
<1>2. /\ at.path \in Seq(Steps) /\ DOMAIN at.path = 1..Len(at.path) /\ Len(at.path) \in Nat
      /\ proto \in Gateways
  BY DEF AllPlaces, Signed
<1>3. /\ \A step \in Contents(proto, opt) :
            Field(step) # "arguments" /\ step \notin Data(proto)
      /\ \A step \in Contents(proto, opt) \cup Objects(proto, opt)
                        \cup Texts(proto) \cup Data(proto) :
            Type(step) \notin SkipTypes(proto)
  <2>1. CASE proto = "anthropic"
    BY <2>1, AnthropicRules DEF Contents, Objects, Texts, Data, SkipTypes
  <2>2. CASE proto = "responses"
    BY <2>2, ResponsesRules DEF Contents, Objects, Texts, Data, SkipTypes
  <2> QED
    BY <2>1, <2>2, <1>2 DEF Gateways
<1>4. ~Restored(proto, at)
  BY <1>1, <1>2, <1>3 DEF Restored, Skips, Gateways
<1>5. /\ at.path[i] \notin Contents(proto, opt) \cup Objects(proto, opt)
      /\ at.path[i] \notin Texts(proto) \cup Data(proto)
  BY <1>1, <1>3
<1>6. ASSUME Scrubbed(proto, opt, at) PROVE FALSE
  <2>1. PICK n \in DOMAIN at.path :
           /\ \A j \in 1..n - 1 :
                 at.path[j] \in Contents(proto, opt) \cup Objects(proto, opt)
           /\ \/ /\ n = Len(at.path)
                 /\ at.path[n] \in Contents(proto, opt) \cup Texts(proto)
              \/ at.path[n] \in Data(proto)
    BY <1>6 DEF Scrubbed
  <2>2. CASE n < i
    <3>1. n # Len(at.path) /\ at.path[n] \in Contents(proto, opt)
      BY <2>2, <1>1, <1>2
    <3> QED
      BY <3>1, <2>1, <1>3
  <2>3. CASE n = i
    BY <2>1, <2>3, <1>5
  <2>4. CASE n > i
    <3>1. i \in 1..n - 1
      BY <2>4, <1>2
    <3> QED
      BY <3>1, <2>1, <1>5
  <2> QED
    BY <2>2, <2>3, <2>4, <1>2
<1> QED
  BY <1>4, <1>6

-----------------------------------------------------------------------------
(* The invariant holds *)

LEMMA InitInv == Init => Inv
BY DEF Init, Inv, Types, InRequest, RestoredOnly, Handled, NotInBody

\* While the request stays as it is, so does all that is known of it.
LEMMA SameRequest ==
    ASSUME Inv, UNCHANGED <<set, history, original, reserved, sent>>, pc # "writing",
           pc' \in {"sent", "streaming", "over"}, pc' = "sent" => Len(sent) = Len(history),
           pc' = "sent" => pc = "scrubbing"
    PROVE  Inv'
BY DEF Inv, Types, InRequest, RestoredOnly, Handled, NotInBody, Reserved, Scrubs, KeptOr

\* The history grows by an entry between two requests.
LEMMA Grows ==
    ASSUME Inv, UNCHANGED set, pc' = "writing", MappingDropped,
           NEW e \in Entries, history' = Append(history, e),
           KeptOr(e)
    PROVE  Inv'
<1>1. /\ history' \in Seq(Entries) /\ Len(history') = Len(history) + 1
      /\ history'[Len(history) + 1] = e
      /\ \A i \in 1..Len(history) : history'[i] = history[i]
  BY DEF Inv, Types
<1>2. RestoredOnly'
  <2>1. \A i \in DOMAIN history' : i \in 1..Len(history) \/ i = Len(history) + 1
    BY <1>1
  <2>2. \A i \in 1..Len(history) : history'[i] = history[i] /\ i \in DOMAIN history
    BY <1>1 DEF Inv, Types
  <2> QED
    BY <1>1, <2>1, <2>2 DEF Inv, RestoredOnly, KeptOr
<1> QED
  BY <1>1, <1>2 DEF Inv, Types, InRequest, MappingDropped, Handled, NotInBody

\* The next leaf is handled.
LEMMA Handles ==
    ASSUME Inv, Scrubbing, UNCHANGED <<set, pc, history, reserved>>,
           NEW t \in Tokens_, sent' = Append(sent, t),
           DOMAIN original \subseteq DOMAIN original',
           \A n \in DOMAIN original : original'[n] = original[n],
           DOMAIN original' \subseteq 1..MaxNumber,
           \A n \in DOMAIN original' : original'[n] \in Values /\ Placeholder(n) \notin reserved,
           \/ t = Entry.text /\ (Scrubs(Entry) => Entry.text \notin Values)
           \/ Scrubs(Entry) /\ \E n \in DOMAIN original' : t = Placeholder(n)
                                                        /\ original'[n] = Entry.text
    PROVE  Inv'
<1> DEFINE k == Len(sent) + 1
<1>1. /\ sent' \in Seq(Tokens_) /\ Len(sent') = k /\ sent'[k] = t
      /\ \A i \in 1..Len(sent) : sent'[i] = sent[i]
      /\ k <= Len(history) /\ Len(sent) \in Nat /\ Len(history) \in Nat
  BY DEF Inv, Types, Scrubbing
<1>2. Types' /\ RestoredOnly'
  BY <1>1 DEF Inv, Types, RestoredOnly, KeptOr
<1>3. NotInBody'
  <2> SUFFICES ASSUME NEW n \in DOMAIN original', NEW i \in DOMAIN history,
                      history[i].text = Placeholder(n)
               PROVE  FALSE
    BY DEF NotInBody
  <2>1. n \in 1..MaxNumber /\ Placeholder(n) \in Placeholders
    BY DEF Placeholders
  <2>2. Placeholder(n) \in Reserved
    BY <2>1 DEF Reserved
  <2> QED
    BY <2>2 DEF Inv, InRequest, Scrubbing
<1>4. reserved' = Reserved'
  BY DEF Inv, InRequest, Reserved, Scrubbing
<1>5. ASSUME NEW i \in DOMAIN sent' PROVE Handled(i)'
  <2>1. i \in 1..Len(sent) \/ i = k
    BY <1>1
  <2>2. CASE i \in 1..Len(sent)
    <3>1. Handled(i) /\ sent'[i] = sent[i]
      BY <2>2, <1>1 DEF Inv, InRequest, Types
    <3> QED
      BY <3>1 DEF Handled, Scrubs
  <2>3. CASE i = k
    BY <2>3, <1>1 DEF Handled, Scrubs, Entry
  <2> QED
    BY <2>1, <2>2, <2>3
<1> QED
  BY <1>1, <1>2, <1>3, <1>4, <1>5 DEF Inv, InRequest, Scrubbing

LEMMA EntryType == ASSUME Inv, Scrubbing PROVE Entry.text \in Tokens_
<1>1. Len(sent) + 1 \in DOMAIN history
  BY DEF Inv, Types, Scrubbing
<1>2. Entry \in Entries
  BY <1>1 DEF Inv, Types, Entry
<1> QED
  BY <1>2 DEF Entries

LEMMA StepInv == Inv /\ [Next]_vars => Inv'
<1> SUFFICES ASSUME Inv, [Next]_vars PROVE Inv'
  OBVIOUS
<1> USE SettingsOK
<1>1. ASSUME NEW at, NEW t \in Values \cup {Placeholder(n) : n \in 1..MaxLiteral},
             at \in set.ask, Write(at, t)
      PROVE  Inv'
  <2>1. t \in Tokens_
    BY DEF Tokens_, Placeholders
  <2> DEFINE e == [at |-> at, text |-> t, made |-> Client]
  <2>2. e \in Entries /\ KeptOr(e)
    BY <1>1, <2>1 DEF Entries, KeptOr, Inv, Types
  <2>3. pc' = "writing" /\ set' = set /\ MappingDropped
    BY <1>1 DEF Write, MappingDropped, Inv, InRequest
  <2> QED
    BY <1>1, <2>2, <2>3, Grows DEF Write
<1>2. CASE Forget
  <2>1. /\ history' \in Seq(Entries) /\ Len(history') = Len(history) - 1
        /\ \A i \in 1..Len(history') : history'[i] = history[i + 1]
        /\ history \in Seq(Entries) /\ Len(history) \in Nat
    BY <1>2 DEF Forget, Inv, Types
  <2>2. \A i \in DOMAIN history' : i + 1 \in DOMAIN history /\ history'[i] = history[i + 1]
    BY <2>1
  <2>3. RestoredOnly'
    BY <1>2, <2>2 DEF Forget, Inv, RestoredOnly, KeptOr
  <2>4. /\ sent' = <<>> /\ original' = <<>> /\ pc' = "writing"
        /\ set' = set /\ reserved' = {}
    BY <1>2 DEF Forget, Inv, InRequest
  <2> QED
    BY <2>1, <2>3, <2>4 DEF Inv, Types, InRequest, Handled, NotInBody
<1>3. CASE Send
  <2>1. Types' /\ RestoredOnly'
    BY <1>3 DEF Send, Inv, Types, RestoredOnly, KeptOr
  <2>2. /\ pc' = "scrubbing" /\ sent' = <<>> /\ original' = <<>> /\ reserved' = Reserved'
    BY <1>3 DEF Send, Reserved
  <2>3. Len(sent') <= Len(history')
    BY <2>1, <2>2 DEF Types
  <2> QED
    BY <2>1, <2>2, <2>3 DEF Inv, InRequest, Handled, NotInBody
<1>4. CASE Relay
  <2>1. \A n \in DOMAIN original : Placeholder(n) \notin reserved
    BY <1>4 DEF Relay, Scrubbing, Inv, InRequest, NotInBody, Reserved
  <2> QED
    BY <1>4, <2>1, Handles, EntryType DEF Relay, Inv, Types
<1>5. ASSUME NEW n \in DOMAIN original, Reuse(n) PROVE Inv'
  <2>1. \A m \in DOMAIN original : Placeholder(m) \notin reserved
    BY <1>5 DEF Reuse, Masks, Scrubbing, Inv, InRequest, NotInBody, Reserved
  <2>2. Placeholder(n) \in Tokens_
    BY DEF Inv, Types, Tokens_, Placeholders
  <2> QED
    BY <1>5, <2>1, <2>2, Handles DEF Reuse, Masks, Inv, Types
<1>6. ASSUME NEW n \in 1..MaxNumber, Issue(n) PROVE Inv'
  <2>1. \A m \in DOMAIN original : Placeholder(m) \notin reserved
    BY <1>6 DEF Issue, Masks, Scrubbing, Inv, InRequest, NotInBody, Reserved
  <2>2. Placeholder(n) \in Tokens_ /\ Placeholder(n) \notin reserved /\ n \notin DOMAIN original
    BY <1>6 DEF Tokens_, Placeholders, Issue, IsNextIndex, IsTaken
  <2>3. /\ DOMAIN original' = DOMAIN original \cup {n} /\ original'[n] = Entry.text
        /\ \A m \in DOMAIN original : original'[m] = original[m]
    BY <1>6, <2>2 DEF Issue
  <2>4. \A m \in DOMAIN original' : original'[m] \in Values /\ Placeholder(m) \notin reserved
    BY <1>6, <2>1, <2>2, <2>3 DEF Issue, Masks, Inv, Types
  <2>5. DOMAIN original' \subseteq 1..MaxNumber
    BY <2>3 DEF Inv, Types
  <2> QED
    BY <1>6, <2>2, <2>3, <2>4, <2>5, Handles DEF Issue, Masks
<1>7. CASE Reject \/ (Forward /\ GateRejects)
  <2>1. pc' = "writing" /\ MappingDropped /\ UNCHANGED <<set, history>>
    BY <1>7 DEF Reject, Forward
  <2>2. history \in Seq(Entries) /\ RestoredOnly'
    BY <2>1 DEF Inv, Types, RestoredOnly, KeptOr
  <2> QED
    BY <2>1, <2>2 DEF MappingDropped, Inv, Types, InRequest, Handled, NotInBody
<1>8. CASE Forward /\ ~GateRejects
  BY <1>8, SameRequest DEF Forward
<1>9. ASSUME NEW i \in DOMAIN sent, Reply(i) PROVE Inv'
  <2> DEFINE e == [at |-> set.say, text |-> RestoredText(set.say, sent[i]), made |-> sent[i]]
  <2>1. set.say \in AllPlaces /\ sent[i] \in Tokens_
    BY DEF Inv, Types
  <2>2. Plain(sent[i]) \in Tokens_
    <3>1. CASE \E n \in DOMAIN original : sent[i] = Placeholder(n)
      BY <3>1, PlainOfIssued DEF Inv, Types, Tokens_
    <3>2. CASE ~ \E n \in DOMAIN original : sent[i] = Placeholder(n)
      BY <3>2, <2>1, PlainOfOther
    <3> QED
      BY <3>1, <3>2
  <2>3. e \in Entries
    BY <2>1, <2>2 DEF Entries, RestoredText
  <2>4. KeptOr(e)
    BY DEF RestoredText, KeptOr
  <2> QED
    BY <1>9, <2>3, <2>4, Grows DEF Reply
<1>10. CASE Stream \/ StreamOver
  BY <1>10, SameRequest DEF Stream, StreamOver
<1>11. CASE UNCHANGED talkVars
  BY <1>11 DEF talkVars, Inv, Types, InRequest, RestoredOnly, Handled, NotInBody, Reserved, Scrubs, KeptOr
<1> QED
  BY <1>1, <1>2, <1>3, <1>4, <1>5, <1>6, <1>7, <1>8, <1>9, <1>10, <1>11
     DEF Next, Talk, StreamStep, Over, vars

LEMMA Inductive == Spec => []Inv
BY InitInv, StepInv, PTL DEF Spec

-----------------------------------------------------------------------------
(* The theorems *)

\* Whatever the provider reads in a request means, once restored, what the client has
\* at that place: values, the client's own placeholders and those of earlier requests.
THEOREM OneMeaning == Spec => []MeaningKept
<1>1. Inv => MeaningKept
  <2> SUFFICES ASSUME Inv, pc = "sent", NEW i \in DOMAIN sent
               PROVE  Plain(sent[i]) = history[i].text
    BY DEF MeaningKept
  <2>1. Handled(i) /\ NotInBody /\ i \in DOMAIN history
    BY DEF Inv, Types, InRequest
  <2> QED
    BY <2>1, PlainOfIssued, PlainOfOther DEF Handled, NotInBody
<1> QED
  BY <1>1, Inductive, PTL

\* Thinking, reasoning and compaction come back to the provider as it wrote them.
THEOREM SignedIsUntouched == Spec => []SignedUntouched
<1>1. Inv => SignedUntouched
  <2> SUFFICES ASSUME Inv, pc = "sent", NEW i \in DOMAIN sent,
                      history[i].made # Client, Signed(set.proto, history[i].at)
               PROVE  sent[i] = history[i].made
    BY DEF SignedUntouched
  <2>1. Handled(i) /\ i \in DOMAIN history
    BY DEF Inv, Types, InRequest
  <2>2. history[i] \in Entries
    BY <2>1 DEF Inv, Types
  <2>3. ~Scrubs(history[i]) /\ ~Restored(set.proto, history[i].at)
    BY <2>2, SignedOutOfReach DEF Scrubs, Entries
  <2> QED
    BY <2>1, <2>3 DEF Handled, Inv, RestoredOnly, KeptOr
<1> QED
  BY <1>1, Inductive, PTL

\* Whatever is restored in the messages of a chat is scrubbed when it comes back, but
\* the calls when they pass through.
LEMMA ChatCover ==
    ASSUME NEW opt, NEW at \in AllPlaces, Restored("chat", at), Speaks("chat", opt, at.path)
    PROVE  Scrubbed("chat", opt, at)
<1> DEFINE p == at.path
<1> USE DEF Restored, Scrubbed, Contents, Objects, Texts, Data, HoldsBinaryPart, ChatContents,
        ChatObjects, ChatTools, ChatTexts, ChatData
<1>1. p \in Seq(Steps) /\ at.sort = "string"
  BY DEF AllPlaces
<1>2. CASE \E f \in {"content", "reasoning_content", "reasoning", "refusal"} :
             p = <<<<"message", f>>>>
  BY <1>1, <1>2
<1>3. CASE p = <<<<"message", "audio">>, <<"audio", "transcript">>>>
  BY <1>1, <1>3
<1>4. CASE IsChatCall(p)
  <2>1. "tool_calls" \notin opt
    BY <1>4 DEF IsChatCall, Speaks
  <2> QED
    BY <1>1, <1>4, <2>1 DEF IsChatCall
<1> QED
  BY <1>1, <1>2, <1>3, <1>4 DEF ChatRestored

\* Where a reply speaks the scrub goes down to, and reads what it finds.
LEMMA SpeaksWithin ==
    ASSUME NEW proto \in Gateways, NEW opt
    PROVE  /\ SpeaksIn(proto) \subseteq Contents(proto, opt) \cup Objects(proto, opt)
           /\ SpokenTexts(proto) \subseteq Contents(proto, opt) \cup Texts(proto)
           /\ SpokenData(proto) \subseteq Data(proto)
<1>1. CASE proto = "anthropic"
  <2> USE <1>1 DEF AnthropicContents, AnthropicObjects, ToolResultTypes, ToolUseTypes
  <2>1. SpeaksIn(proto) \subseteq Contents(proto, opt) \cup Objects(proto, opt)
    BY DEF SpeaksIn, Contents, Objects
  <2>2. SpokenTexts(proto) \subseteq Contents(proto, opt) \cup Texts(proto)
    BY DEF SpokenTexts, Contents, Texts, AnthropicTexts
  <2>3. SpokenData(proto) \subseteq Data(proto)
    BY DEF SpokenData, Data, AnthropicData
  <2> QED
    BY <2>1, <2>2, <2>3
<1>2. CASE proto = "responses"
  <2> USE <1>2 DEF ResponsesContents
  <2>1. SpeaksIn(proto) \subseteq Contents(proto, opt) \cup Objects(proto, opt)
    BY DEF SpeaksIn, Contents, Objects
  <2>2. SpokenTexts(proto) \subseteq Contents(proto, opt) \cup Texts(proto)
    BY DEF SpokenTexts, Contents, Texts, ResponsesTexts
  <2>3. SpokenData(proto) \subseteq Data(proto)
    BY DEF SpokenData, Data, ResponsesData, DataFields, OutputTypes
  <2> QED
    BY <2>1, <2>2, <2>3
<1> QED
  BY <1>1, <1>2 DEF Gateways

\* What is restored where a reply speaks is scrubbed when it comes back.
LEMMA ReplyCover ==
    ASSUME NEW proto \in Protocols, NEW opt, NEW at \in AllPlaces,
           Restored(proto, at), Speaks(proto, opt, at.path)
    PROVE  Scrubbed(proto, opt, at)
<1>1. CASE proto = "chat"
  BY <1>1, ChatCover
<1>2. CASE proto \in Gateways
  <2>1. at.sort = "string" /\ proto # "chat"
    BY <1>2 DEF Restored, Gateways
  <2>2. PICK n \in DOMAIN at.path :
            /\ \A i \in 1..n - 1 : at.path[i] \in SpeaksIn(proto)
            /\ \/ n = Len(at.path) /\ at.path[n] \in SpokenTexts(proto)
               \/ at.path[n] \in SpokenData(proto) /\ ~HoldsBinaryPart(proto, at.path, n)
    BY <2>1 DEF Speaks
  <2>3. \A i \in 1..n - 1 : at.path[i] \in Contents(proto, opt) \cup Objects(proto, opt)
    BY <1>2, <2>2, SpeaksWithin
  <2>4. \/ n = Len(at.path) /\ at.path[n] \in Contents(proto, opt) \cup Texts(proto)
        \/ at.path[n] \in Data(proto) /\ ~HoldsBinaryPart(proto, at.path, n)
    BY <1>2, <2>2, SpeaksWithin
  <2> QED
    BY <2>1, <2>3, <2>4 DEF Scrubbed
<1> QED
  BY <1>1, <1>2 DEF Protocols

\* A value the proxy wrote into a reply, wherever the reply speaks, never reaches the
\* provider when it comes back, in any conversation (EchoMasked).
THEOREM EchoIsMasked == Spec => []EchoMasked
<1>1. Inv => EchoMasked
  <2> SUFFICES ASSUME Inv, pc = "sent", NEW i \in DOMAIN sent,
                      WasRestored(history[i]),
                      Speaks(set.proto, set.opt, history[i].at.path)
               PROVE  sent[i] \notin Values
    BY DEF EchoMasked
  <2>1. Handled(i) /\ i \in DOMAIN history /\ set \in Settings
    BY DEF Inv, Types, InRequest
  <2>2. history[i].at = set.say /\ Restored(set.proto, set.say)
    BY <2>1 DEF Inv, RestoredOnly, KeptOr, WasRestored
  <2>3. set.say \in AllPlaces /\ set.proto \in Protocols
    BY <2>1, SettingsOK
  <2>4. Scrubbed(set.proto, set.opt, set.say)
    BY <2>2, <2>3, ReplyCover
  <2>5. Scrubs(history[i])
    BY <2>2, <2>4 DEF Scrubs
  <2>6. \A n \in DOMAIN original : Placeholder(n) \notin Values
    BY SettingsOK DEF Inv, Types, Placeholders
  <2> QED
    BY <2>1, <2>5, <2>6 DEF Handled
<1> QED
  BY <1>1, Inductive, PTL
=============================================================================
