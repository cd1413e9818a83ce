--------------------------- MODULE HoldbackBuffer ---------------------------
(***************************************************************************)
(* The hold-back buffer of streaming/buffer.py as operators: what a buffer  *)
(* that starts with, or may still grow into, a fake does, and the restore   *)
(* of a whole text it is measured against.                                  *)
(*                                                                         *)
(* Text is a sequence of characters; an original is one symbol.  In JSON    *)
(* source text an original is spliced in as its JSON form, which differs    *)
(* when it needs escaping.                                                  *)
(***************************************************************************)
EXTENDS Integers, Sequences

CONSTANTS
    Chars,      \* the characters of the stream
    Fakes,      \* the issued fakes, sequences of characters
    Originals,  \* what they stand for
    OriginalOf(_),
    JsonUnsafe  \* the originals JSON must escape

JsonForm(v) == [json |-> v]
Shown == Chars \cup Originals \cup {JsonForm(v) : v \in Originals}

ASSUME FakesOK ==
    /\ Fakes \subseteq Seq(Chars) \ {<<>>}
    /\ \A f \in Fakes : OriginalOf(f) \in Originals
    /\ JsonUnsafe \subseteq Originals

\* No symbol stands for two things.
ASSUME SymbolsOK ==
    /\ Chars \cap JsonUnsafe = {}
    /\ \A v \in JsonUnsafe : JsonForm(v) \notin Chars \cup Originals

Head_(b, n) == SubSeq(b, 1, n)
Rest(b, n) == SubSeq(b, n + 1, Len(b))

\* _trie_lookup: the longest fake the buffer starts with.
LongestMatch(b, n) ==
    Head_(b, n) \in Fakes /\ \A m \in (n + 1)..Len(b) : Head_(b, m) \notin Fakes
HasMatch(b) == \E n \in 1..Len(b) : Head_(b, n) \in Fakes

\* _has_prefix: the buffer may still grow into a fake.
HasPrefix(b) == \E f \in Fakes : Len(b) <= Len(f) /\ Head_(f, Len(b)) = b

\* json_escape, and which mapping a buffer was built from.
SplicedUnescaped(f, isJson) == OriginalOf(f)
Spliced(f, isJson) ==
    IF isJson /\ OriginalOf(f) \in JsonUnsafe THEN JsonForm(OriginalOf(f)) ELSE OriginalOf(f)

\* What one turn of feed's loop takes off the buffer: the longest fake it starts
\* with, or a character.
Turn(b) == IF HasMatch(b) THEN CHOOSE n \in 1..Len(b) : LongestMatch(b, n) ELSE 1
Piece(b, isJson) ==
    IF HasMatch(b) THEN <<Spliced(Head_(b, Turn(b)), isJson)>> ELSE Head_(b, 1)

\* The loop ends when nothing is left, or what is left may become a fake.
Waits(b) == b = <<>> \/ (~HasMatch(b) /\ HasPrefix(b))

\* feed: what is let out of a buffer, and what it goes on holding.
Out(isJson) ==
    LET out[b \in Seq(Chars)] ==
          IF Waits(b) THEN <<>> ELSE Piece(b, isJson) \o out[Rest(b, Turn(b))]
    IN  out
Held[b \in Seq(Chars)] == IF Waits(b) THEN b ELSE Held[Rest(b, Turn(b))]
Feed(b, isJson) == [out |-> Out(isJson)[b], held |-> Held[b]]

\* A proper prefix of a fake that is not, and does not start with, a fake.
MayBecomeFake(b) ==
    /\ ~HasMatch(b)
    /\ \E f \in Fakes : Len(b) < Len(f) /\ Head_(f, Len(b)) = b

\* No fake is found inside another one.  Numbered placeholders are apart, each
\* being bracketed; the names of fake_replacement need not be.
Apart ==
    \A f, g \in Fakes : \A i, j \in 1..Len(g) : SubSeq(g, i, j) = f => f = g

-----------------------------------------------------------------------------
(* The restore of a whole text at once, the reference of what is shown *)

\* deanonymize: at each position the longest fake, else the character.
RestoredPiece(b) == IF HasMatch(b) THEN <<OriginalOf(Head_(b, Turn(b)))>> ELSE Head_(b, 1)
Exact[b \in Seq(Chars)] ==
    IF b = <<>> THEN <<>> ELSE RestoredPiece(b) \o Exact[Rest(b, Turn(b))]

\* What a client reads of a text: JSON source is decoded, and an original that
\* JSON must escape breaks the text when it is there as it is.
Broken == [json |-> "broken"]
Decoded(x) ==
    IF \E v \in JsonUnsafe : x = JsonForm(v) THEN x.json
    ELSE IF x \in JsonUnsafe THEN Broken ELSE x
AsRead(s, isJson) == IF isJson THEN [i \in DOMAIN s |-> Decoded(s[i])] ELSE s
=============================================================================
