------------------------ MODULE StreamRestorerProofs ------------------------
(***************************************************************************)
(* What the stream restorer keeps for every set of fakes, every channel     *)
(* layout and every way a provider cuts its text into chunks: no character  *)
(* is lost, what is held back may still become a fake, nothing is left      *)
(* behind, and what is read is the restore of the whole text.               *)
(***************************************************************************)
EXTENDS StreamRestorer, RestoreProofs

-----------------------------------------------------------------------------
(* Type correctness *)

LEMMA InitType == Init => TypeOK
BY EmptySeq DEF Init, TypeOK, Empty

LEMMA TokenType ==
    ASSUME NEW m, NEW q \in Tokens(m)
    PROVE  q \in Seq(Chars)
<1>1. PICK n \in Int : q \in [1..n -> Chars] /\ n >= 1
  BY DEF Tokens
<1> QED
  BY <1>1

\* What SomeChunk hands to ChunkArrives is a token for some of the channels.
LEMMA ChunkTokens ==
    ASSUME SomeChunk
    PROVE  \E C \in SUBSET Channels, fin \in SUBSET Choices :
             \E t \in [C -> Seq(Chars)] : ChunkArrives(t, fin)
<1> DEFINE left == MaxChars - Size(received)
           M(C) == left + 1 - Cardinality(C)
<1>1. PICK C \in SUBSET Channels, fin \in SUBSET (Choices \ finished) :
         \E t \in [C -> Tokens(M(C))] : ChunkArrives(t, fin)
  BY DEF SomeChunk
<1> HIDE DEF M
<1>2. PICK t \in [C -> Tokens(M(C))] : ChunkArrives(t, fin)
  BY <1>1
<1>3. t \in [C -> Seq(Chars)]
  BY <1>2, TokenType
<1> QED
  BY <1>2, <1>3

LEMMA ExtendedType ==
    ASSUME NEW g \in [Channels -> Seq(Chars)],
           NEW C \in SUBSET Channels, NEW t \in [C -> Seq(Chars)]
    PROVE  Extended(g, t) \in [Channels -> Seq(Chars)]
<1> SUFFICES ASSUME NEW ch \in Channels
             PROVE  g[ch] \o (IF ch \in DOMAIN t THEN t[ch] ELSE <<>>) \in Seq(Chars)
  BY DEF Extended
<1>1. (IF ch \in DOMAIN t THEN t[ch] ELSE <<>>) \in Seq(Chars)
  OBVIOUS
<1> QED
  BY <1>1, ConcatProperties

LEMMA SplicedType ==
    ASSUME NEW f \in Fakes, NEW isJson
    PROVE  <<Spliced(f, isJson)>> \in Seq(Shown)
<1>1. Spliced(f, isJson) \in Shown
  BY FakesOK DEF Spliced, Shown, JsonForm
<1> QED
  BY <1>1

LEMMA ChannelTypes ==
    ASSUME TypeOK, NEW ch \in Channels
    PROVE  /\ buf[ch] \in Seq(Chars) /\ buf[ch] \in Seq(Shown)
           /\ pending[ch] \in Seq(Shown) /\ shown[ch] \in Seq(Shown)
           /\ consumed[ch] \in Seq(Chars) /\ received[ch] \in Seq(Chars)
<1>1. /\ buf[ch] \in Seq(Chars)
      /\ pending[ch] \in Seq(Shown) /\ shown[ch] \in Seq(Shown)
      /\ consumed[ch] \in Seq(Chars) /\ received[ch] \in Seq(Chars)
  BY DEF TypeOK
<1>2. Chars \subseteq Shown
  BY DEF Shown
<1>3. buf[ch] \in Seq(Shown)
  BY <1>1, <1>2, SeqMonotonic
<1> QED
  BY <1>1, <1>3

\* One turn of the feed loop keeps the types.
LEMMA TakeType ==
    ASSUME TypeOK, NEW ch \in Channels, NEW n \in 0..Len(buf[ch]),
           NEW s \in Seq(Shown), Take(ch, n, s)
    PROVE  TypeOK'
<1>1. /\ Head_(buf[ch], n) \in Seq(Chars)
      /\ Rest(buf[ch], n) \in Seq(Chars)
  BY SplitBuffer DEF TypeOK
<1>2. pending[ch] \o s \in Seq(Shown)
  BY ConcatProperties DEF TypeOK
<1>3. consumed[ch] \o Head_(buf[ch], n) \in Seq(Chars)
  BY <1>1, ConcatProperties DEF TypeOK
<1> QED
  BY <1>1, <1>2, <1>3 DEF TypeOK, Take

LEMMA EmitType ==
    ASSUME TypeOK, NEW ch \in Channels, buf[ch] # <<>>
    PROVE  1 \in 0..Len(buf[ch]) /\ Head_(buf[ch], 1) \in Seq(Shown)
<1>1. buf[ch] \in Seq(Chars) /\ Len(buf[ch]) \in Nat \ {0}
  BY EmptySeq DEF TypeOK
<1>2. Head_(buf[ch], 1) \in Seq(Chars)
  BY <1>1, SplitBuffer
<1> QED
  BY <1>1, <1>2, SeqMonotonic DEF Shown

LEMMA StepType == TypeOK /\ [Next]_vars => TypeOK'
<1> SUFFICES ASSUME TypeOK, [Next]_vars PROVE TypeOK'
  OBVIOUS
<1>1. CASE SomeChunk
  <2>1. PICK C \in SUBSET Channels, fin \in SUBSET Choices :
          \E t \in [C -> Seq(Chars)] : ChunkArrives(t, fin)
    BY <1>1, ChunkTokens
  <2>2. PICK t \in [C -> Seq(Chars)] : ChunkArrives(t, fin)
    BY <2>1
  <2>3. Extended(buf, t) \in [Channels -> Seq(Chars)]
        /\ Extended(received, t) \in [Channels -> Seq(Chars)]
    BY ExtendedType DEF TypeOK
  <2> QED
    BY <2>2, <2>3 DEF TypeOK, ChunkArrives, Empty
<1>2. CASE SourceEnds
  BY <1>2 DEF TypeOK, SourceEnds
<1>3. ASSUME NEW ch \in Channels, MatchFake(ch)
      PROVE  TypeOK'
  <2>1. PICK n \in 1..Len(buf[ch]) :
          /\ Head_(buf[ch], n) \in Fakes
          /\ Take(ch, n, <<Spliced(Head_(buf[ch], n), IsJson(ch))>>)
    BY <1>3 DEF MatchFake, LongestMatch
  <2>2. <<Spliced(Head_(buf[ch], n), IsJson(ch))>> \in Seq(Shown)
    BY <2>1, SplicedType
  <2>3. n \in 0..Len(buf[ch])
    BY <2>1
  <2> QED
    BY <2>1, <2>2, <2>3, TakeType
<1>4. ASSUME NEW ch \in Channels, EmitChar(ch)
      PROVE  TypeOK'
  <2>1. Take(ch, 1, Head_(buf[ch], 1)) /\ buf[ch] # <<>>
    BY <1>4 DEF EmitChar
  <2>2. 1 \in 0..Len(buf[ch]) /\ Head_(buf[ch], 1) \in Seq(Shown)
    BY <2>1, EmitType
  <2> QED
    BY <2>1, <2>2, TakeType
<1>5. ASSUME NEW ch \in Channels, HoldBack(ch)
      PROVE  TypeOK'
  BY <1>5 DEF TypeOK, HoldBack
<1>6. ASSUME NEW ch \in Channels, DrainChannel(ch)
      PROVE  TypeOK'
  <2>2. /\ shown[ch] \o buf[ch] \in Seq(Shown)
        /\ consumed[ch] \o buf[ch] \in Seq(Chars)
    BY ChannelTypes, ConcatProperties
  <2>3. \/ /\ shown' = [shown EXCEPT ![ch] = @ \o buf[ch]]
           /\ consumed' = [consumed EXCEPT ![ch] = @ \o buf[ch]]
           /\ buf' = [buf EXCEPT ![ch] = <<>>]
        \/ UNCHANGED <<shown, consumed, buf>>
    BY <1>6 DEF DrainChannel
  <2>4. /\ shown' \in [Channels -> Seq(Shown)]
        /\ consumed' \in [Channels -> Seq(Chars)]
        /\ buf' \in [Channels -> Seq(Chars)]
    <3> DEFINE x == shown[ch] \o buf[ch]
               y == consumed[ch] \o buf[ch]
    <3>1. x \in Seq(Shown) /\ y \in Seq(Chars) /\ <<>> \in Seq(Chars)
      BY <2>2, EmptySeq
    <3>2. \/ /\ shown' = [shown EXCEPT ![ch] = x]
             /\ consumed' = [consumed EXCEPT ![ch] = y]
             /\ buf' = [buf EXCEPT ![ch] = <<>>]
          \/ UNCHANGED <<shown, consumed, buf>>
      BY <2>3
    <3> HIDE DEF x, y
    <3> QED
      BY <3>1, <3>2, ZenonT(40) DEF TypeOK
  <2> QED
    BY <1>6, <2>4 DEF TypeOK, DrainChannel
<1>7. CASE SendChunk
  <2> DEFINE p == [ch \in Channels |-> IF ch \in Flushing THEN pending[ch] \o buf[ch]
                                       ELSE pending[ch]]
             s == [ch \in Channels |-> shown[ch] \o p[ch]]
             c == [ch \in Channels |-> IF ch \in Flushing THEN consumed[ch] \o buf[ch]
                                       ELSE consumed[ch]]
             b == [ch \in Channels |-> IF ch \in Flushing THEN <<>> ELSE buf[ch]]
  <2>1. ASSUME NEW ch \in Channels
        PROVE  /\ pending[ch] \o buf[ch] \in Seq(Shown)
               /\ consumed[ch] \o buf[ch] \in Seq(Chars)
    BY ChannelTypes, ConcatProperties
  <2>2. p \in [Channels -> Seq(Shown)]
    BY <2>1 DEF TypeOK
  <2>3. s \in [Channels -> Seq(Shown)]
    <3> HIDE DEF p
    <3>1. ASSUME NEW ch \in Channels PROVE shown[ch] \o p[ch] \in Seq(Shown)
      BY <2>2, ConcatProperties DEF TypeOK
    <3> QED
      BY <3>1
  <2>4. c \in [Channels -> Seq(Chars)] /\ b \in [Channels -> Seq(Chars)]
    BY <2>1 DEF TypeOK
  <2>5. /\ shown' = s \/ shown' = shown
        /\ told' = told \cup finishing \/ told' = told
        /\ consumed' = c /\ buf' = b
    BY <1>7 DEF SendChunk
  <2>6. /\ phase' = "open" /\ todo' = todo
        /\ carried' = {} /\ finishing' = {} /\ pending' = Empty
        /\ finished' = finished \cup finishing
        /\ received' = received /\ late' = late
    BY <1>7 DEF SendChunk
  <2>7. Empty \in [Channels -> Seq(Shown)]
    BY EmptySeq DEF Empty
  <2> HIDE DEF p, s, c, b
  <2> QED
    BY <2>3, <2>4, <2>5, <2>6, <2>7 DEF TypeOK
<1>8. CASE SendDone
  BY <1>8 DEF TypeOK, SendDone
<1>9. CASE Abort
  BY <1>9 DEF TypeOK, Abort
<1>10. CASE UNCHANGED vars
  BY <1>10 DEF TypeOK, vars
<1> QED
  BY <1>1, <1>2, <1>3, <1>4, <1>5, <1>6, <1>7, <1>8, <1>9, <1>10 DEF Next, Handler, Over

\* Buffers, channels and history keep their types in every stream.
THEOREM TypeCorrect == Spec => []TypeOK
<1> QED
  BY InitType, StepType, PTL DEF Spec

-----------------------------------------------------------------------------
(* Nothing is lost, held back for good, or held back without reason *)

\* While the drain runs, a channel it has visited holds nothing, unless its
\* choice had finished.
DrainedSoFar ==
    phase = "drain" =>
        \A ch \in Channels \ todo : ch[1] \in finished \/ buf[ch] = <<>>

IInv ==
    /\ TypeOK
    /\ NothingLost
    /\ HeldMayBecomeFake
    /\ FlushedWhenFinished
    /\ DrainedSoFar

LEMMA InitInv == Init => IInv
<1>1. \A s \in {<<>>} : s \o <<>> = <<>>
  BY EmptySeq, ConcatEmptySeq
<1> QED
  BY <1>1, InitType DEF Init, Empty, IInv, NothingLost, HeldMayBecomeFake,
       FlushedWhenFinished, DrainedSoFar

\* Moving the front n characters of a buffer to consumed loses nothing.
LEMMA TakeLosesNothing ==
    ASSUME TypeOK, NothingLost, NEW ch \in Channels, NEW n \in 0..Len(buf[ch]),
           NEW s, Take(ch, n, s)
    PROVE  NothingLost'
<1>1. /\ buf[ch] \in Seq(Chars) /\ consumed[ch] \in Seq(Chars)
  BY ChannelTypes
<1> DEFINE h == Head_(buf[ch], n)
           q == Rest(buf[ch], n)
<1>2. h \in Seq(Chars) /\ q \in Seq(Chars) /\ h \o q = buf[ch]
  BY <1>1, SplitBuffer
<1>3. (consumed[ch] \o h) \o q = consumed[ch] \o buf[ch]
  <2> HIDE DEF h, q
  <2>1. (consumed[ch] \o h) \o q = consumed[ch] \o (h \o q)
    BY <1>1, <1>2, Regroup
  <2> QED
    BY <1>2, <2>1
<1>4. /\ consumed' = [consumed EXCEPT ![ch] = consumed[ch] \o h]
      /\ buf' = [buf EXCEPT ![ch] = q]
      /\ received' = received
  BY DEF Take
<1> HIDE DEF h, q
<1> QED
  BY <1>3, <1>4 DEF NothingLost, TypeOK

\* A turn of the loop of a channel that is still looping keeps the invariant.
LEMMA TakeInv ==
    ASSUME IInv, NEW ch \in Channels, Feeds(ch), buf[ch] # <<>>,
           NEW n \in 0..Len(buf[ch]), NEW s \in Seq(Shown), Take(ch, n, s)
    PROVE  IInv'
<1>1. TypeOK'
  BY TakeType DEF IInv
<1>2. NothingLost'
  BY TakeLosesNothing DEF IInv
<1>3. ch \in todo /\ phase = "chunk"
  BY DEF Feeds, IsNext
<1>4. /\ phase' = phase /\ todo' = todo /\ finished' = finished /\ late' = late
      /\ told' = told
      /\ \A o \in Channels : o # ch => buf'[o] = buf[o]
  BY DEF Take, IInv, TypeOK
<1>5. HeldMayBecomeFake'
  BY <1>3, <1>4 DEF IInv, HeldMayBecomeFake, MayBecomeFake, HasMatch
<1>6. FlushedWhenFinished'
  BY <1>3, <1>4 DEF IInv, FlushedWhenFinished
<1>7. DrainedSoFar'
  BY <1>3, <1>4 DEF DrainedSoFar
<1> QED
  BY <1>1, <1>2, <1>5, <1>6, <1>7 DEF IInv

LEMMA ChunkInv ==
    ASSUME IInv, NEW C \in SUBSET Channels, NEW fin, NEW t \in [C -> Seq(Chars)],
           ChunkArrives(t, fin), TypeOK'
    PROVE  IInv'
<1>1. NothingLost'
  <2> SUFFICES ASSUME NEW ch \in Channels
               PROVE  received'[ch] = consumed'[ch] \o buf'[ch]
    BY DEF NothingLost
  <2> DEFINE x == IF ch \in DOMAIN t THEN t[ch] ELSE <<>>
  <2>1. x \in Seq(Chars)
    OBVIOUS
  <2>2. /\ received'[ch] = received[ch] \o x /\ buf'[ch] = buf[ch] \o x
        /\ consumed'[ch] = consumed[ch]
    BY DEF ChunkArrives, Extended
  <2> HIDE DEF x
  <2>3. received[ch] = consumed[ch] \o buf[ch]
    BY DEF IInv, NothingLost
  <2>4. (consumed[ch] \o buf[ch]) \o x = consumed[ch] \o (buf[ch] \o x)
    BY <2>1, ChannelTypes, Regroup DEF IInv
  <2> QED
    BY <2>2, <2>3, <2>4
<1>2. ASSUME NEW ch \in Channels, ch \notin C
      PROVE  buf'[ch] = buf[ch]
  <2>1. buf'[ch] = buf[ch] \o <<>>
    BY <1>2 DEF ChunkArrives, Extended
  <2> QED
    BY <2>1, ChannelTypes, ConcatEmptySeq DEF IInv
<1>3. /\ phase = "open" /\ phase' = "chunk" /\ todo' = C
      /\ finished' = finished /\ late' = late \cup {ch \in C : ch[1] \in finished}
      /\ told' = told
  BY DEF ChunkArrives
<1>4. HeldMayBecomeFake'
  BY <1>2, <1>3 DEF IInv, HeldMayBecomeFake, MayBecomeFake, HasMatch
<1>5. FlushedWhenFinished'
  BY <1>2, <1>3 DEF IInv, FlushedWhenFinished
<1>6. DrainedSoFar'
  BY <1>3 DEF DrainedSoFar
<1> QED
  BY <1>1, <1>4, <1>5, <1>6 DEF IInv

\* What stops the loop of a channel may still become a fake.
LEMMA HoldBackHolds ==
    ASSUME TypeOK, NEW ch \in Channels, ~HasMatch(buf[ch]), HasPrefix(buf[ch]),
           buf[ch] # <<>>
    PROVE  MayBecomeFake(buf[ch])
<1> DEFINE b == buf[ch]
<1>1. b \in Seq(Chars) /\ Len(b) \in Nat \ {0}
  BY EmptySeq DEF TypeOK
<1>2. PICK f \in Fakes : Len(b) <= Len(f) /\ Head_(f, Len(b)) = b
  BY DEF HasPrefix
<1>3. f \in Seq(Chars)
  BY FakesOK
<1>4. Len(b) # Len(f)
  <2> SUFFICES ASSUME Len(b) = Len(f) PROVE FALSE
    OBVIOUS
  <2>1. b = f
    BY <1>2, <1>3, SubSeqFull DEF Head_
  <2>2. Head_(b, Len(b)) \in Fakes
    BY <2>1, <1>1, SubSeqFull DEF Head_
  <2> QED
    BY <2>2, <1>1 DEF HasMatch
<1>5. Len(b) < Len(f)
  BY <1>1, <1>2, <1>3, <1>4, LenProperties
<1> QED
  BY <1>2, <1>5 DEF MayBecomeFake

LEMMA SendInv ==
    ASSUME IInv, SendChunk, TypeOK'
    PROVE  IInv'
<1>1. /\ phase = "chunk" /\ phase' = "open" /\ todo = {} /\ todo' = {}
      /\ finished' = finished \cup finishing
      /\ late' = late /\ received' = received
  BY DEF SendChunk
<1>2. ASSUME NEW ch \in Channels
      PROVE  \/ /\ ch[1] \in finishing /\ buf'[ch] = <<>>
                /\ consumed'[ch] = consumed[ch] \o buf[ch]
             \/ /\ ch[1] \notin finishing /\ buf'[ch] = buf[ch]
                /\ consumed'[ch] = consumed[ch]
  BY DEF SendChunk, Flushing
<1>3. NothingLost'
  <2> SUFFICES ASSUME NEW ch \in Channels
               PROVE  received'[ch] = consumed'[ch] \o buf'[ch]
    BY DEF NothingLost
  <2>1. received[ch] = consumed[ch] \o buf[ch]
    BY DEF IInv, NothingLost
  <2>2. (consumed[ch] \o buf[ch]) \o <<>> = consumed[ch] \o buf[ch]
    BY ChannelTypes, ConcatProperties, ConcatEmptySeq DEF IInv
  <2> QED
    BY <1>1, <1>2, <2>1, <2>2
<1>4. HeldMayBecomeFake'
  BY <1>1, <1>2 DEF IInv, HeldMayBecomeFake, MayBecomeFake, HasMatch
<1>5. FlushedWhenFinished'
  <2>1. told' = told \cup finishing
    <3>1. CASE finishing = {}
      BY <3>1 DEF SendChunk
    <3>2. CASE finishing # {}
      <4>1. PICK c : c \in finishing /\ c \in InChunk
        BY <3>2 DEF InChunk
      <4>2. \A p : ~HeldBack(c, p)
        BY <4>1 DEF HeldBack
      <4> QED
        BY <4>1, <4>2 DEF SendChunk
    <3> QED
      BY <3>1, <3>2
  <2> QED
    BY <1>1, <1>2, <2>1 DEF IInv, FlushedWhenFinished
<1>6. DrainedSoFar'
  BY <1>1 DEF DrainedSoFar
<1> QED
  BY <1>3, <1>4, <1>5, <1>6 DEF IInv

LEMMA DrainInv ==
    ASSUME IInv, NEW ch \in Channels, DrainChannel(ch), TypeOK'
    PROVE  IInv'
<1>1. /\ phase = "drain" /\ phase' = "drain" /\ todo' = todo \ {ch}
      /\ finished' = finished /\ late' = late /\ received' = received
      /\ told' = told
  BY DEF DrainChannel
<1>2. /\ \/ /\ ch[1] \notin finished /\ buf'[ch] = <<>>
            /\ consumed'[ch] = consumed[ch] \o buf[ch]
         \/ /\ ch[1] \in finished /\ buf'[ch] = buf[ch]
            /\ consumed'[ch] = consumed[ch]
      /\ \A o \in Channels : o # ch => buf'[o] = buf[o] /\ consumed'[o] = consumed[o]
  BY DEF DrainChannel, Drains, IInv, TypeOK
<1>3. NothingLost'
  <2>1. received[ch] = consumed[ch] \o buf[ch]
    BY DEF IInv, NothingLost
  <2>2. (consumed[ch] \o buf[ch]) \o <<>> = consumed[ch] \o buf[ch]
    BY ChannelTypes, ConcatProperties, ConcatEmptySeq DEF IInv
  <2> QED
    BY <1>1, <1>2, <2>1, <2>2 DEF IInv, NothingLost
<1>4. HeldMayBecomeFake'
  BY <1>1, <1>2 DEF IInv, HeldMayBecomeFake, MayBecomeFake, HasMatch
<1>5. FlushedWhenFinished'
  BY <1>1, <1>2 DEF IInv, FlushedWhenFinished
<1>6. DrainedSoFar'
  BY <1>1, <1>2 DEF IInv, DrainedSoFar
<1> QED
  BY <1>3, <1>4, <1>5, <1>6 DEF IInv

LEMMA StepInv == IInv /\ [Next]_vars => IInv'
<1> SUFFICES ASSUME IInv, [Next]_vars PROVE IInv'
  OBVIOUS
<1> USE DEF IInv
<1>0. TypeOK'
  BY StepType
<1>1. CASE SomeChunk
  <2>1. PICK C \in SUBSET Channels, fin \in SUBSET Choices :
          \E t \in [C -> Seq(Chars)] : ChunkArrives(t, fin)
    BY <1>1, ChunkTokens
  <2>2. PICK t \in [C -> Seq(Chars)] : ChunkArrives(t, fin)
    BY <2>1
  <2> QED
    BY <1>0, <2>2, ChunkInv
<1>2. CASE SourceEnds
  BY <1>0, <1>2 DEF SourceEnds, NothingLost, HeldMayBecomeFake, MayBecomeFake, HasMatch,
       FlushedWhenFinished, DrainedSoFar
<1>3. ASSUME NEW ch \in Channels, MatchFake(ch)
      PROVE  IInv'
  <2>1. PICK n \in 1..Len(buf[ch]) :
          /\ Head_(buf[ch], n) \in Fakes
          /\ Take(ch, n, <<Spliced(Head_(buf[ch], n), IsJson(ch))>>)
    BY <1>3 DEF MatchFake, LongestMatch
  <2>2. <<Spliced(Head_(buf[ch], n), IsJson(ch))>> \in Seq(Shown)
    BY <2>1, SplicedType
  <2>3. n \in 0..Len(buf[ch]) /\ buf[ch] # <<>>
    BY <2>1, ChannelTypes, EmptySeq
  <2>4. Feeds(ch)
    BY <1>3 DEF MatchFake
  <2> QED
    BY <2>1, <2>2, <2>3, <2>4, TakeInv
<1>4. ASSUME NEW ch \in Channels, EmitChar(ch)
      PROVE  IInv'
  <2>1. Take(ch, 1, Head_(buf[ch], 1)) /\ buf[ch] # <<>> /\ Feeds(ch)
    BY <1>4 DEF EmitChar
  <2>2. 1 \in 0..Len(buf[ch]) /\ Head_(buf[ch], 1) \in Seq(Shown)
    BY <2>1, EmitType
  <2> QED
    BY <2>1, <2>2, TakeInv
<1>5. ASSUME NEW ch \in Channels, HoldBack(ch)
      PROVE  IInv'
  <2>1. buf[ch] = <<>> \/ MayBecomeFake(buf[ch])
    BY <1>5, HoldBackHolds DEF HoldBack
  <2>2. /\ phase = "chunk" /\ todo' = todo \ {ch}
        /\ UNCHANGED <<phase, buf, finished, told, late, received, consumed>>
    BY <1>5 DEF HoldBack, Feeds
  <2>3. HeldMayBecomeFake'
    BY <2>1, <2>2 DEF HeldMayBecomeFake, MayBecomeFake, HasMatch
  <2> QED
    BY <1>0, <2>2, <2>3 DEF NothingLost, FlushedWhenFinished, DrainedSoFar
<1>6. ASSUME NEW ch \in Channels, DrainChannel(ch)
      PROVE  IInv'
  BY <1>0, <1>6, DrainInv
<1>7. CASE SendChunk
  BY <1>0, <1>7, SendInv
<1>8. CASE SendDone
  BY <1>0, <1>8 DEF SendDone, NothingLost, HeldMayBecomeFake, MayBecomeFake, HasMatch,
       FlushedWhenFinished, DrainedSoFar
<1>9. CASE Abort
  BY <1>0, <1>9 DEF Abort, NothingLost, HeldMayBecomeFake,
       FlushedWhenFinished, DrainedSoFar
<1>10. CASE UNCHANGED vars
  BY <1>0, <1>10 DEF vars, NothingLost, HeldMayBecomeFake, MayBecomeFake, HasMatch,
       FlushedWhenFinished, DrainedSoFar
<1> QED
  BY <1>1, <1>2, <1>3, <1>4, <1>5, <1>6, <1>7, <1>8, <1>9, <1>10 DEF Next, Handler, Over

LEMMA Inductive == Spec => []IInv
BY InitInv, StepInv, PTL DEF Spec

\* Every character of the provider was shown or restored, or is still held.
THEOREM LosesNothing == Spec => []NothingLost
BY Inductive, PTL DEF IInv

\* Between chunks no channel holds back a complete fake, nor anything that
\* cannot become one.
THEOREM HoldsOnlyPrefixes == Spec => []HeldMayBecomeFake
BY Inductive, PTL DEF IInv

\* A finish chunk and the end of the stream leave nothing in the buffers, and the
\* client is told of each finish.
THEOREM FlushesEverything == Spec => []FlushedWhenFinished
BY Inductive, PTL DEF IInv

-----------------------------------------------------------------------------
(* The promise *)

\* What the client has read of a channel, with what the chunk in hand adds to it.
Seen(ch) == AsRead(shown[ch] \o pending[ch], IsJson(ch))

\* Text waits to be sent only in a chunk, and only of channels it has tokens for.
InHand ==
    /\ phase \notin {"chunk", "error"} => pending = Empty
    /\ phase = "chunk" =>
         /\ todo \subseteq carried
         /\ \A ch \in Channels : pending[ch] # <<>> => ch \in carried

\* What was read and what is held back stand for the restored text: of a channel
\* that may go on, whatever comes; of one that has finished, as it is.
Settled(ch) == Exact[received[ch]] = Seen(ch) \o Exact[buf[ch]]
GoesOn(ch) == phase \in {"open", "chunk"} /\ ch[1] \notin finished
Follows ==
    phase # "error" =>
        \A ch \in Channels \ late :
            IF GoesOn(ch) THEN Tracks(received[ch], Seen(ch), buf[ch]) ELSE Settled(ch)

RInv == IInv /\ InHand /\ Follows

LEMMA SeenTypes ==
    ASSUME TypeOK, NEW ch \in Channels
    PROVE  /\ buf[ch] \in Seq(Chars) /\ received[ch] \in Seq(Chars)
           /\ shown[ch] \o pending[ch] \in Seq(Shown) /\ IsJson(ch) \in BOOLEAN
           /\ Seen(ch) \in Seq(Readable)
<1>1. shown[ch] \o pending[ch] \in Seq(Shown) /\ IsJson(ch) \in BOOLEAN
  BY ChannelTypes, ConcatProperties DEF IsJson
<1> QED
  BY <1>1, ChannelTypes, ReadType DEF Seen

LEMMA SettledNow ==
    ASSUME RInv, phase # "error", NEW ch \in Channels \ late
    PROVE  Settled(ch)
<1>1. received[ch] \in Seq(Chars) /\ buf[ch] \in Seq(Chars)
  BY SeenTypes DEF RInv, IInv
<1> QED
  BY <1>1, TracksNow, SMTT(30) DEF RInv, Follows, Settled

\* What is held back when no loop runs would be restored as it is.
LEMMA HeldIsExact ==
    ASSUME Apart, IInv, phase # "error", NEW ch \in Channels,
           ~ (phase = "chunk" /\ ch \in todo)
    PROVE  Exact[buf[ch]] = buf[ch]
<1>1. buf[ch] = <<>> \/ MayBecomeFake(buf[ch])
  BY DEF IInv, HeldMayBecomeFake
<1>2. Waits(buf[ch])
  BY <1>1 DEF Waits, MayBecomeFake, HasPrefix
<1>3. buf[ch] \in Seq(Chars)
  BY SeenTypes DEF IInv
<1> QED
  BY <1>2, <1>3, WaitingIsExact

\* Either kind of step takes the turn of the buffer's loop.
LEMMA TakesTurn ==
    ASSUME TypeOK, NEW ch \in Channels, MatchFake(ch) \/ EmitChar(ch)
    PROVE  /\ Feeds(ch) /\ ~ Waits(buf[ch])
           /\ Take(ch, Turn(buf[ch]), Piece(buf[ch], IsJson(ch)))
<1>0. buf[ch] \in Seq(Chars)
  BY SeenTypes
<1>1. CASE MatchFake(ch)
  <2>1. PICK n \in 1..Len(buf[ch]) :
          /\ LongestMatch(buf[ch], n)
          /\ Take(ch, n, <<Spliced(Head_(buf[ch], n), IsJson(ch))>>)
    BY <1>1 DEF MatchFake
  <2>2. HasMatch(buf[ch]) /\ Turn(buf[ch]) = n /\ buf[ch] # <<>>
    BY <1>0, <2>1, LongestIsTurn, EmptySeq
  <2> QED
    BY <1>1, <2>1, <2>2 DEF MatchFake, Piece, Waits
<1>2. CASE EmitChar(ch)
  BY <1>2 DEF EmitChar, Piece, Turn, Waits
<1> QED
  BY <1>1, <1>2

LEMMA TurnFollows ==
    ASSUME Apart, RInv, NEW ch \in Channels, MatchFake(ch) \/ EmitChar(ch)
    PROVE  Follows' /\ InHand'
<1> DEFINE b == buf[ch]
           x == Piece(b, IsJson(ch))
<1>0. TypeOK
  BY DEF RInv, IInv
<1>1. Feeds(ch) /\ ~ Waits(b) /\ Take(ch, Turn(b), x)
  BY <1>0, TakesTurn
<1>2. phase = "chunk" /\ ch \in carried
  BY <1>1 DEF Feeds, IsNext, RInv, InHand
<1>3. /\ pending' = [pending EXCEPT ![ch] = @ \o x] /\ buf' = [buf EXCEPT ![ch] = Rest(b, Turn(b))]
      /\ UNCHANGED <<phase, shown, todo, carried, finished, received, late>>
  BY <1>1 DEF Take
<1>4. InHand'
  BY <1>0, <1>2, <1>3 DEF RInv, InHand, TypeOK
<1>5. ASSUME NEW o \in Channels \ late, o # ch
      PROVE  Seen(o)' = Seen(o) /\ buf'[o] = buf[o]
  BY <1>0, <1>3, <1>5 DEF Seen, TypeOK
<1>6. b \in Seq(Chars) /\ b # <<>> /\ x \in Seq(Shown)
  BY <1>0, <1>1, SeenTypes, PieceType DEF Waits
<1>7. Seen(ch)' = Seen(ch) \o RestoredPiece(b)
  <2>1. Seen(ch)' = AsRead(shown[ch] \o (pending[ch] \o x), IsJson(ch))
    BY <1>0, <1>3 DEF Seen, TypeOK
  <2>2. shown[ch] \in Seq(Shown) /\ pending[ch] \in Seq(Shown)
    BY <1>0, ChannelTypes
  <2> HIDE DEF x
  <2>3. shown[ch] \o (pending[ch] \o x) = (shown[ch] \o pending[ch]) \o x
    BY <1>6, <2>2, ShownRegroup
  <2>4. AsRead((shown[ch] \o pending[ch]) \o x, IsJson(ch)) = Seen(ch) \o AsRead(x, IsJson(ch))
    BY <1>0, <1>6, SeenTypes, ReadConcat DEF Seen
  <2>5. AsRead(x, IsJson(ch)) = RestoredPiece(b)
    BY <1>0, <1>6, SeenTypes, ReadPiece DEF x
  <2> QED
    BY <2>1, <2>3, <2>4, <2>5
<1>8. buf'[ch] = Rest(b, Turn(b))
  BY <1>0, <1>3 DEF TypeOK
<1>9. Follows'
  <2> SUFFICES ASSUME NEW o \in Channels \ late
               PROVE  IF GoesOn(o) THEN Tracks(received[o], Seen(o)', buf'[o])
                      ELSE Exact[received[o]] = Seen(o)' \o Exact[buf'[o]]
    BY <1>3 DEF Follows, Settled, GoesOn
  <2>1. IF GoesOn(o) THEN Tracks(received[o], Seen(o), buf[o]) ELSE Settled(o)
    BY <1>2 DEF RInv, Follows
  <2>2. CASE o # ch
    BY <1>5, <2>1, <2>2 DEF Settled
  <2>3. CASE o = ch /\ GoesOn(ch)
    BY <1>0, <1>1, <1>7, <1>8, <2>1, <2>3, SeenTypes, TracksTurn
  <2>4. CASE o = ch /\ ~ GoesOn(ch)
    <3>1. ch[1] \in finished
      BY <1>2, <2>4 DEF GoesOn
    <3>2. buf[ch] = <<>>
      BY <2>4, <3>1 DEF RInv, IInv, FlushedWhenFinished
    <3> QED
      BY <1>6, <3>2
  <2> QED
    BY <2>2, <2>3, <2>4
<1> QED
  BY <1>4, <1>9

LEMMA ChunkFollows ==
    ASSUME RInv, NEW C \in SUBSET Channels, NEW fin, NEW t \in [C -> Seq(Chars)],
           ChunkArrives(t, fin)
    PROVE  Follows' /\ InHand'
<1>0. TypeOK
  BY DEF RInv, IInv
<1>1. /\ phase = "open" /\ phase' = "chunk" /\ todo' = C /\ carried' = C
      /\ late' = late \cup {ch \in C : ch[1] \in finished}
      /\ pending = Empty /\ pending' = Empty
      /\ shown' = shown /\ finished' = finished
  BY DEF ChunkArrives, RInv, InHand
<1>2. InHand'
  BY <1>1 DEF InHand, Empty
<1>3. ASSUME NEW ch \in Channels \ late'
      PROVE  IF GoesOn(ch)' THEN Tracks(received'[ch], Seen(ch)', buf'[ch])
             ELSE Exact[received'[ch]] = Seen(ch)' \o Exact[buf'[ch]]
  <2> DEFINE x == IF ch \in DOMAIN t THEN t[ch] ELSE <<>>
  <2>1. x \in Seq(Chars) /\ ch \notin late
    BY <1>1
  <2>2. received'[ch] = received[ch] \o x /\ buf'[ch] = buf[ch] \o x
    BY DEF ChunkArrives, Extended
  <2>3. Seen(ch)' = Seen(ch) /\ (GoesOn(ch)' <=> GoesOn(ch))
    BY <1>1 DEF Seen, GoesOn
  <2>4. IF GoesOn(ch) THEN Tracks(received[ch], Seen(ch), buf[ch]) ELSE Settled(ch)
    BY <1>1, <2>1 DEF RInv, Follows
  <2>5. CASE GoesOn(ch)
    <3> HIDE DEF x
    <3>1. Tracks(received[ch] \o x, Seen(ch), buf[ch] \o x)
      BY <1>0, <2>1, <2>4, <2>5, SeenTypes, TracksMore
    <3> QED
      BY <2>2, <2>3, <2>5, <3>1
  <2>6. CASE ~ GoesOn(ch)
    <3>1. ch[1] \in finished
      BY <1>1, <2>6 DEF GoesOn
    <3>2. x = <<>>
      BY <1>1, <3>1
    <3>3. received'[ch] = received[ch] /\ buf'[ch] = buf[ch]
      <4>1. received[ch] \o <<>> = received[ch] /\ buf[ch] \o <<>> = buf[ch]
        BY <1>0, SeenTypes, ConcatEmptySeq
      <4> HIDE DEF x
      <4> QED
        BY <2>2, <3>2, <4>1
    <3> QED
      BY <2>3, <2>4, <2>6, <3>3 DEF Settled
  <2> QED
    BY <2>5, <2>6
<1> QED
  BY <1>2, <1>3 DEF Follows, Settled

\* The finish chunk shows what its choices still hold, and a chunk that is withheld
\* had nothing to show.
LEMMA SendShows ==
    ASSUME RInv, SendChunk, NEW ch \in Channels
    PROVE  /\ shown'[ch] = shown[ch] \o (IF ch[1] \in finishing THEN pending[ch] \o buf[ch]
                                         ELSE pending[ch])
           /\ buf'[ch] = IF ch[1] \in finishing THEN <<>> ELSE buf[ch]
<1> DEFINE p == [c \in Channels |-> IF c \in Flushing THEN pending[c] \o buf[c] ELSE pending[c]]
<1>0. TypeOK
  BY DEF RInv, IInv
<1>1. p[ch] = IF ch[1] \in finishing THEN pending[ch] \o buf[ch] ELSE pending[ch]
  BY DEF Flushing
<1>2. buf'[ch] = IF ch[1] \in finishing THEN <<>> ELSE buf[ch]
  BY DEF SendChunk, Flushing
<1>3. \/ shown' = [c \in Channels |-> shown[c] \o p[c]]
      \/ shown' = shown /\ \A c \in InChunk : HeldBack(c, p)
  BY DEF SendChunk
<1>4. CASE shown' = [c \in Channels |-> shown[c] \o p[c]]
  <2>1. shown'[ch] = shown[ch] \o p[ch]
    BY <1>4
  <2> HIDE DEF p
  <2> QED
    BY <1>1, <1>2, <2>1
<1>5. CASE shown' = shown /\ \A c \in InChunk : HeldBack(c, p)
  <2>1. ch[1] \notin finishing
    BY <1>5 DEF InChunk, HeldBack
  <2>2. pending[ch] = <<>>
    <3> SUFFICES ASSUME pending[ch] # <<>> PROVE FALSE
      OBVIOUS
    <3>1. ch \in carried
      BY DEF SendChunk, RInv, InHand
    <3>2. HeldBack(ch[1], p)
      BY <1>5, <3>1 DEF InChunk
    <3>3. p[ch] = <<>>
      <4> HIDE DEF p
      <4> QED
        BY <3>2 DEF HeldBack
    <3> QED
      BY <1>1, <2>1, <3>3
  <2>3. shown'[ch] = shown[ch] \o <<>>
    BY <1>0, <1>5, ChannelTypes, ConcatEmptySeq
  <2> QED
    BY <1>2, <2>1, <2>2, <2>3
<1> QED
  BY <1>3, <1>4, <1>5

\* Showing what is held back, after what was seen, settles a channel.
LEMMA FlushSettles ==
    ASSUME Apart, RInv, phase # "error", NEW ch \in Channels \ late,
           ~ (phase = "chunk" /\ ch \in todo)
    PROVE  /\ Exact[received[ch]] =
                AsRead((shown[ch] \o pending[ch]) \o buf[ch], IsJson(ch)) \o Exact[<<>>]
           /\ Exact[received[ch]] = AsRead((shown[ch] \o pending[ch]) \o buf[ch], IsJson(ch))
<1> DEFINE x == shown[ch] \o pending[ch]
           b == buf[ch]
<1>0. /\ TypeOK /\ IInv /\ x \in Seq(Shown) /\ b \in Seq(Chars) /\ b \in Seq(Shown)
      /\ IsJson(ch) \in BOOLEAN
  BY SeenTypes, ChannelTypes DEF RInv, IInv
<1>1. Exact[received[ch]] = AsRead(x, IsJson(ch)) \o Exact[b]
  BY SettledNow DEF Settled, Seen
<1>2. Exact[b] = b
  BY <1>0, HeldIsExact
<1> HIDE DEF x, b
<1>3. AsRead(x \o b, IsJson(ch)) = AsRead(x, IsJson(ch)) \o b
  BY <1>0, ReadConcat, ReadChars
<1>4. AsRead(x \o b, IsJson(ch)) \in Seq(Readable)
  BY <1>0, ConcatProperties, ReadType
<1>5. AsRead(x \o b, IsJson(ch)) \o Exact[<<>>] = AsRead(x \o b, IsJson(ch))
  BY <1>4, ExactDef, ConcatEmptySeq
<1> QED
  BY <1>1, <1>2, <1>3, <1>5 DEF x, b

LEMMA SendFollows ==
    ASSUME Apart, RInv, SendChunk
    PROVE  Follows' /\ InHand'
<1>0. TypeOK
  BY DEF RInv, IInv
<1>1. /\ phase = "chunk" /\ phase' = "open" /\ todo = {} /\ pending' = Empty
      /\ finished' = finished \cup finishing
      /\ received' = received /\ late' = late
  BY DEF SendChunk
<1>2. InHand'
  BY <1>1 DEF InHand
<1>3. ASSUME NEW ch \in Channels \ late
      PROVE  IF GoesOn(ch)' THEN Tracks(received[ch], Seen(ch)', buf'[ch])
             ELSE Exact[received[ch]] = Seen(ch)' \o Exact[buf'[ch]]
  <2>0. /\ shown[ch] \in Seq(Shown) /\ pending[ch] \in Seq(Shown) /\ buf[ch] \in Seq(Shown)
    BY <1>0, ChannelTypes
  <2>1. CASE ch[1] \in finishing
    <3>1. shown'[ch] = shown[ch] \o (pending[ch] \o buf[ch]) /\ buf'[ch] = <<>>
      BY <2>1, SendShows
    <3>2. shown'[ch] \in Seq(Shown) /\ shown'[ch] = (shown[ch] \o pending[ch]) \o buf[ch]
      <4>1. pending[ch] \o buf[ch] \in Seq(Shown)
        BY <2>0, ConcatProperties
      <4>2. shown[ch] \o (pending[ch] \o buf[ch]) \in Seq(Shown)
        BY <2>0, <4>1, ConcatProperties
      <4>3. shown[ch] \o (pending[ch] \o buf[ch]) = (shown[ch] \o pending[ch]) \o buf[ch]
        BY <2>0, ShownRegroup
      <4> QED
        BY <3>1, <4>2, <4>3
    <3>3. Seen(ch)' = AsRead(shown'[ch], IsJson(ch))
      <4>1. shown'[ch] \o pending'[ch] = shown'[ch]
        BY <1>1, <3>2, ConcatEmptySeq DEF Empty
      <4> QED
        BY <4>1 DEF Seen
    <3>4. ~ GoesOn(ch)'
      BY <1>1, <2>1 DEF GoesOn
    <3> QED
      BY <1>1, <3>1, <3>2, <3>3, <3>4, FlushSettles
  <2>2. CASE ch[1] \notin finishing
    <3>1. shown'[ch] = shown[ch] \o pending[ch] /\ buf'[ch] = buf[ch]
      BY <2>2, SendShows
    <3>2. Seen(ch)' = Seen(ch)
      <4>1. shown'[ch] \o pending'[ch] = shown[ch] \o pending[ch]
        BY <1>0, <1>1, <3>1, SeenTypes, ConcatEmptySeq DEF Empty
      <4> QED
        BY <4>1 DEF Seen
    <3>3. GoesOn(ch)' <=> GoesOn(ch)
      BY <1>1, <2>2 DEF GoesOn
    <3> QED
      BY <1>1, <3>1, <3>2, <3>3 DEF RInv, Follows, Settled
  <2> QED
    BY <2>1, <2>2
<1> QED
  BY <1>1, <1>2, <1>3 DEF Follows, Settled

LEMMA DrainFollows ==
    ASSUME Apart, RInv, NEW ch \in Channels, DrainChannel(ch)
    PROVE  Follows' /\ InHand'
<1>0. TypeOK
  BY DEF RInv, IInv
<1>1. /\ phase = "drain" /\ phase' = "drain"
      /\ UNCHANGED <<pending, finished, late, received>>
  BY DEF DrainChannel
<1>2. InHand'
  BY <1>1 DEF RInv, InHand, Empty
<1>3. \/ /\ shown' = [shown EXCEPT ![ch] = @ \o buf[ch]]
         /\ buf' = [buf EXCEPT ![ch] = <<>>]
      \/ UNCHANGED <<shown, buf>>
  BY DEF DrainChannel
<1>4. ASSUME NEW o \in Channels \ late
      PROVE  Exact[received[o]] = Seen(o)' \o Exact[buf'[o]]
  <2>1. Settled(o)
    BY <1>1, SettledNow
  <2>2. CASE o # ch \/ UNCHANGED <<shown, buf>>
    <3>1. shown'[o] = shown[o] /\ buf'[o] = buf[o] /\ pending'[o] = pending[o]
      BY <1>0, <1>1, <1>3, <2>2 DEF TypeOK
    <3> QED
      BY <2>1, <3>1 DEF Settled, Seen
  <2>3. CASE o = ch /\ shown' = [shown EXCEPT ![ch] = @ \o buf[ch]]
                    /\ buf' = [buf EXCEPT ![ch] = <<>>]
    <3>1. shown'[o] = shown[o] \o buf[o] /\ buf'[o] = <<>> /\ pending[o] = <<>>
          /\ pending'[o] = <<>>
      BY <1>0, <1>1, <2>3 DEF TypeOK, RInv, InHand, Empty
    <3>2. shown[o] \in Seq(Shown) /\ buf[o] \in Seq(Shown) /\ shown[o] \o buf[o] \in Seq(Shown)
      BY <1>0, ChannelTypes, ConcatProperties
    <3>3. Seen(o)' = AsRead((shown[o] \o pending[o]) \o buf[o], IsJson(o))
      BY <3>1, <3>2, ConcatEmptySeq DEF Seen
    <3> QED
      BY <1>1, <3>1, <3>3, FlushSettles
  <2> QED
    BY <1>3, <2>2, <2>3
<1> QED
  BY <1>1, <1>2, <1>4 DEF Follows, Settled, GoesOn

LEMMA InitFollows == Init => RInv
<1> SUFFICES ASSUME Init PROVE RInv
  OBVIOUS
<1>1. \A isJson \in BOOLEAN : AsRead(<<>>, isJson) = <<>>
  <2>1. <<>> \in Seq(Chars)
    BY EmptySeq
  <2> QED
    BY <2>1, ReadChars
<1>2. ASSUME NEW ch \in Channels
      PROVE  Seen(ch) = <<>> /\ received[ch] = <<>> /\ buf[ch] = <<>>
  <2>1. shown[ch] = <<>> /\ pending[ch] = <<>> /\ received[ch] = <<>> /\ buf[ch] = <<>>
    BY DEF Init, Empty
  <2>2. \A s \in {<<>>} : s \o <<>> = <<>>
    BY EmptySeq, ConcatEmptySeq
  <2>3. shown[ch] \o pending[ch] = <<>>
    BY <2>1, <2>2
  <2>4. IsJson(ch) \in BOOLEAN
    BY DEF IsJson
  <2> QED
    BY <1>1, <2>1, <2>3, <2>4 DEF Seen
<1>3. Follows
  BY <1>2, TracksNothing DEF Init, Follows, GoesOn
<1> QED
  BY <1>3, InitInv DEF RInv, InHand, Init

LEMMA StepFollows ==
    ASSUME Apart
    PROVE  RInv /\ [Next]_vars => RInv'
<1> SUFFICES ASSUME RInv, [Next]_vars PROVE RInv'
  OBVIOUS
<1>0. IInv'
  BY StepInv DEF RInv
<1> SUFFICES Follows' /\ InHand'
  BY <1>0 DEF RInv
<1>1. CASE SomeChunk
  <2>1. PICK C \in SUBSET Channels, fin \in SUBSET Choices :
          \E t \in [C -> Seq(Chars)] : ChunkArrives(t, fin)
    BY <1>1, ChunkTokens
  <2> QED
    BY <2>1, ChunkFollows
<1>2. CASE SourceEnds
  <2>1. \A ch \in Channels \ late : Settled(ch)
    BY <1>2, SettledNow DEF SourceEnds
  <2> QED
    BY <1>2, <2>1 DEF SourceEnds, RInv, InHand, Empty, Follows, GoesOn, Settled, Seen
<1>3. ASSUME NEW ch \in Channels, MatchFake(ch) \/ EmitChar(ch)
      PROVE  Follows' /\ InHand'
  BY <1>3, TurnFollows
<1>4. ASSUME NEW ch \in Channels, HoldBack(ch)
      PROVE  Follows' /\ InHand'
  BY <1>4 DEF HoldBack, Feeds, RInv, InHand, Follows, GoesOn, Settled, Seen
<1>5. ASSUME NEW ch \in Channels, DrainChannel(ch)
      PROVE  Follows' /\ InHand'
  BY <1>5, DrainFollows
<1>6. CASE SendChunk
  BY <1>6, SendFollows
<1>7. CASE SendDone
  BY <1>7 DEF SendDone, RInv, InHand, Empty, Follows, GoesOn, Settled, Seen
<1>8. CASE Abort
  BY <1>8 DEF Abort, InHand, Follows
<1>9. CASE UNCHANGED vars
  BY <1>9 DEF vars, RInv, InHand, Empty, Follows, GoesOn, Settled, Seen
<1> QED
  BY <1>1, <1>2, <1>3, <1>4, <1>5, <1>6, <1>7, <1>8, <1>9 DEF Next, Handler, Over

LEMMA InductiveFollows ==
    ASSUME Apart
    PROVE  Spec => []RInv
BY InitFollows, StepFollows, PTL DEF Spec

\* The stream that ended well has shown all there is.
LEMMA WholeAtEnd ==
    ASSUME RInv, phase = "done", NEW ch \in Channels \ late
    PROVE  Read(ch) = Exact[received[ch]]
<1>1. Settled(ch) /\ buf[ch] = <<>> /\ pending[ch] = <<>>
  BY SettledNow DEF RInv, IInv, FlushedWhenFinished, InHand, Empty
<1>2. shown[ch] \o pending[ch] = shown[ch] /\ Seen(ch) \o <<>> = Seen(ch)
  BY <1>1, SeenTypes, ChannelTypes, ConcatEmptySeq DEF RInv, IInv
<1> QED
  BY <1>1, <1>2, ExactDef DEF Settled, Seen, Read

\* A stream that ended well showed every channel what restoring its whole text at
\* once would have, however the provider cut and mixed it.
THEOREM ShowsTheWhole ==
    ASSUME Apart
    PROVE  Spec => []SameAsWhole
<1>1. RInv => SameAsWhole
  BY WholeAtEnd DEF SameAsWhole
<1> QED
  BY <1>1, InductiveFollows, PTL

LEMMA ReadsTheBeginning ==
    ASSUME RInv, phase # "error", NEW ch \in Channels \ late
    PROVE  Promise!Begins(Read(ch), Exact[received[ch]])
<1> DEFINE x == Read(ch)
           y == AsRead(pending[ch], IsJson(ch))
           z == Exact[buf[ch]]
<1>1. x \in Seq(Readable) /\ y \in Seq(Readable) /\ z \in Seq(Readable)
  BY SeenTypes, ChannelTypes, ReadType, ExactReadable DEF RInv, IInv, Read
<1>2. Exact[received[ch]] = (x \o y) \o z
  BY SettledNow, SeenTypes, ChannelTypes, ReadConcat, ZenonT(40) DEF RInv, IInv, Settled, Seen, Read
<1> HIDE DEF x, y, z
<1>3. (x \o y) \o z = x \o (y \o z) /\ y \o z \in Seq(Readable)
  BY <1>1, ReadableRegroup, ConcatProperties
<1> QED
  BY <1>1, <1>2, <1>3, BeginsLonger DEF Promise!Begins, x

LEMMA ShownGrows ==
    ASSUME TypeOK, TypeOK', NEW ch \in Channels, NEW x \in Seq(Shown),
           shown'[ch] = shown[ch] \o x
    PROVE  Promise!Begins(Read(ch), Read(ch)')
<1>1. shown[ch] \in Seq(Shown) /\ IsJson(ch) \in BOOLEAN
  BY SeenTypes, ChannelTypes
<1>2. Read(ch)' = AsRead(shown[ch], IsJson(ch)) \o AsRead(x, IsJson(ch))
  BY <1>1, ReadConcat DEF Read
<1>3. AsRead(shown[ch], IsJson(ch)) \in Seq(Readable) /\ AsRead(x, IsJson(ch)) \in Seq(Readable)
  BY <1>1, ReadType
<1> QED
  BY <1>2, <1>3, BeginsLonger DEF Promise!Begins, Read

\* What a client has read, in every state but those the stream was cut in.
ReadsOK ==
    phase # "error" =>
        \A ch \in Channels \ late :
            /\ Promise!Begins(Read(ch), Exact[received[ch]])
            /\ phase = "done" => Read(ch) = Exact[received[ch]]

\* What is shown stays, and what comes is added behind it.
LEMMA StepShows ==
    ASSUME RInv, Next
    PROVE  \/ UNCHANGED <<shown, received, late>> /\ (phase' = "done" <=> phase = "done")
           \/ /\ phase \notin {"done", "error"} /\ phase' # "error"
              /\ late \subseteq late'
              /\ \A ch \in Channels : \E x \in Seq(Shown) : shown'[ch] = shown[ch] \o x
<1> DEFINE Grows == \A ch \in Channels : \E x \in Seq(Shown) : shown'[ch] = shown[ch] \o x
<1>0. TypeOK
  BY DEF RInv, IInv
<1>1. ASSUME UNCHANGED shown PROVE Grows
  <2> SUFFICES ASSUME NEW ch \in Channels
               PROVE  <<>> \in Seq(Shown) /\ shown'[ch] = shown[ch] \o <<>>
    OBVIOUS
  <2> QED
    BY <1>0, <1>1, ChannelTypes, EmptySeq, ConcatEmptySeq
<1>2. CASE SomeChunk
  <2>1. /\ phase = "open" /\ phase' = "chunk" /\ shown' = shown /\ late \subseteq late'
    BY <1>2 DEF SomeChunk, ChunkArrives
  <2> QED
    BY <1>1, <2>1
<1>3. CASE SendChunk
  <2>1. phase = "chunk" /\ phase' = "open" /\ late' = late
    BY <1>3 DEF SendChunk
  <2>2. ASSUME NEW ch \in Channels
        PROVE  \E x \in Seq(Shown) : shown'[ch] = shown[ch] \o x
    <3> DEFINE x == IF ch[1] \in finishing THEN pending[ch] \o buf[ch] ELSE pending[ch]
    <3>1. x \in Seq(Shown)
      BY <1>0, ChannelTypes, ConcatProperties
    <3>2. shown'[ch] = shown[ch] \o x
      BY <1>3, SendShows
    <3> HIDE DEF x
    <3> QED
      BY <3>1, <3>2
  <2> QED
    BY <2>1, <2>2
<1>4. ASSUME NEW ch \in Channels, DrainChannel(ch)
      PROVE  phase = "drain" /\ phase' = "drain" /\ late' = late /\ Grows
  <2>1. phase = "drain" /\ phase' = "drain" /\ late' = late
    BY <1>4 DEF DrainChannel
  <2>2. shown' = [shown EXCEPT ![ch] = @ \o buf[ch]] \/ shown' = shown
    BY <1>4 DEF DrainChannel
  <2>3. CASE shown' = [shown EXCEPT ![ch] = @ \o buf[ch]]
    <3>1. ASSUME NEW o \in Channels
          PROVE  \E x \in Seq(Shown) : shown'[o] = shown[o] \o x
      <4>1. CASE o = ch
        <5>1. shown'[o] = shown[o] \o buf[o] /\ buf[o] \in Seq(Shown)
          BY <1>0, <2>3, <4>1, ChannelTypes DEF TypeOK
        <5> QED
          BY <5>1
      <4>2. CASE o # ch
        <5>1. shown'[o] = shown[o] \o <<>> /\ <<>> \in Seq(Shown)
          BY <1>0, <2>3, <4>2, ChannelTypes, EmptySeq, ConcatEmptySeq DEF TypeOK
        <5> QED
          BY <5>1
      <4> QED
        BY <4>1, <4>2
    <3> QED
      BY <2>1, <3>1
  <2> QED
    BY <1>1, <2>1, <2>2, <2>3
<1>5. ASSUME NEW ch \in Channels, MatchFake(ch) \/ EmitChar(ch) \/ HoldBack(ch)
      PROVE  UNCHANGED <<phase, shown, received, late>>
  BY <1>5 DEF MatchFake, EmitChar, HoldBack, Take
<1>6. CASE SendDone
  <2>1. phase = "drain" /\ phase' = "done" /\ shown' = shown /\ late' = late
    BY <1>6 DEF SendDone
  <2> QED
    BY <1>1, <2>1
<1>7. CASE SourceEnds \/ Abort \/ Over
  BY <1>7 DEF SourceEnds, Abort, Over, vars
<1> QED
  BY <1>2, <1>3, <1>4, <1>5, <1>6, <1>7 DEF Next, Handler

LEMMA StepPromise ==
    ASSUME RInv, TypeOK', ReadsOK', [Next]_vars
    PROVE  \/ Promise!Next
           \/ UNCHANGED <<[ch \in Channels |-> Exact[received[ch]]],
                          [ch \in Channels |-> Read(ch)], phase = "done", late>>
<1>0. TypeOK
  BY DEF RInv, IInv
<1>1. CASE UNCHANGED <<shown, received, late>> /\ (phase' = "done" <=> phase = "done")
  BY <1>1 DEF Read
<1>2. CASE /\ phase \notin {"done", "error"} /\ phase' # "error"
           /\ late \subseteq late'
           /\ \A ch \in Channels : \E x \in Seq(Shown) : shown'[ch] = shown[ch] \o x
  <2>1. ASSUME NEW ch \in Channels \ late'
        PROVE  /\ Promise!Begins(Read(ch), Read(ch)')
               /\ Promise!Begins(Read(ch)', Exact[received'[ch]])
               /\ phase' = "done" => Read(ch)' = Exact[received'[ch]]
    <3>1. Promise!Begins(Read(ch), Read(ch)')
      BY <1>0, <1>2, ShownGrows
    <3>2. /\ Promise!Begins(Read(ch), Exact[received[ch]])'
          /\ phase' = "done" => Read(ch)' = Exact[received'[ch]]
      BY <1>2, <2>1 DEF ReadsOK
    <3> QED
      BY <3>1, <3>2 DEF Promise!Begins
  <2> QED
    BY <1>2, <2>1 DEF Promise!Next, Promise!Advances
<1>3. CASE UNCHANGED vars
  BY <1>3, <1>1 DEF vars
<1> QED
  BY <1>1, <1>2, <1>3, StepShows

\* The handler implements the promise of a restored stream: what the client has read
\* only grows, is always the beginning of the restored text, and in the end all of it.
THEOREM KeepsThePromise ==
    ASSUME Apart
    PROVE  Spec => PromiseKept
<1>1. ASSUME Init PROVE Promise!Init
  <2>1. <<>> \in Seq(Chars)
    BY EmptySeq
  <2>2. ASSUME NEW ch \in Channels PROVE Read(ch) = <<>> /\ Exact[received[ch]] = <<>>
    <3>1. shown[ch] = <<>> /\ received[ch] = <<>>
      BY <1>1 DEF Init, Empty
    <3>2. IsJson(ch) \in BOOLEAN
      BY DEF IsJson
    <3>3. Read(ch) = <<>>
      BY <2>1, <3>1, <3>2, ReadChars DEF Read
    <3> QED
      BY <3>1, <3>3, ExactDef
  <2> QED
    BY <1>1, <2>2 DEF Init, Promise!Init
<1>2. RInv => TypeOK /\ ReadsOK
  BY ReadsTheBeginning, WholeAtEnd DEF RInv, IInv, ReadsOK
<1>3. RInv /\ TypeOK' /\ ReadsOK' /\ [Next]_vars
        => [Promise!Next]_<<[ch \in Channels |-> Exact[received[ch]]],
                            [ch \in Channels |-> Read(ch)], phase = "done", late>>
  BY StepPromise
<1> QED
  BY <1>1, <1>2, <1>3, InductiveFollows, PTL DEF Spec, PromiseKept, Promise!Spec
=============================================================================
