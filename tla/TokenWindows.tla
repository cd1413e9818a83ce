---------------------------- MODULE TokenWindows ----------------------------
(***************************************************************************)
(* The windowed detectors, OnnxPrivacyFilterDetector and MiniLMDetector,    *)
(* from the tokens of a text to spans: the ranges of the windows, the two   *)
(* coverage checks, the stitching of the windows' answers and the decoding  *)
(* of BIOES labels.                                                        *)
(*                                                                         *)
(* A text is a sequence of character classes, a token a pair of offsets.    *)
(* The model's label of a token is chosen when the decoder reads it: a      *)
(* stitched token is read once, so this is a choice per window and token.   *)
(* Scores are left out; WindowCache models the reuse of a window's answer.  *)
(***************************************************************************)
EXTENDS Integers, SequencesExt

CONSTANTS
    Texts,            \* texts, as sequences of "word" | "space" | "sep"
    MaxTokens,        \* bound: tokens of a text
    MaxLength,        \* bound: characters of a token
    Geometries,       \* <<window, overlap>>, in tokens: _window_geometry and the
                      \* constants of MiniLM give an overlap of at least one
    Labels,           \* the model's labels but O: <<prefix, type>>
    SeparatorBearing, \* the label types whose value may begin with a separator
    NoRun             \* no entity is being collected

ASSUME WindowConstantsOK ==
    /\ Texts \subseteq Seq({"word", "space", "sep"})
    /\ \A g \in Geometries : g[1] \in Nat /\ g[2] \in 1..g[1] - 1
    /\ MaxTokens \in Nat
    /\ NoRun \notin [type : {label[2] : label \in Labels}, first : Nat, last : Nat]

VARIABLES
    stage,    \* "encoded" | "decode" | "spans" | "error"
    wholeWords, \* MiniLM: spans are widened to whole words
    text,     \* the text
    offsets,  \* offset_mapping: the characters of each token
    geometry, \* window and overlap
    stitched, \* _stitch_windows: the window and the token each answer comes from
    at,       \* tokens decoded
    collecting,  \* current_type and current_tokens: [type, first, last], or NoRun
    spans,    \* the spans decoded: [type, start, end]
    tagged    \* history: the stitched tokens with a label but O

windowVars == <<stage, wholeWords, text, offsets, geometry, stitched, at, collecting, spans, tagged>>

\* What a tokenizer may report, in order or not: but an empty token lies between the
\* tokens before and after it.
Offsets == {o \in (0..Len(text)) \X (0..Len(text)) : o[1] <= o[2] /\ o[2] - o[1] <= MaxLength}
EmptyBetween(q) ==
    \A i, j \in DOMAIN q :
        (q[i][1] = q[i][2] /\ i # j) => IF j < i THEN q[j][2] <= q[i][1] ELSE q[i][2] <= q[j][1]

WindowInit ==
    /\ stage = "encoded"
    /\ wholeWords \in BOOLEAN
    /\ text \in Texts
    /\ offsets \in UNION {{q \in [1..n -> Offsets] : EmptyBetween(q)} : n \in 0..MaxTokens}
    /\ geometry \in Geometries
    /\ stitched = <<>> /\ at = 0 /\ collecting = NoRun /\ spans = {} /\ tagged = {}

Char(p) == text[p + 1]
Chars(o) == {p \in o[1]..o[2] - 1 : p >= 0 /\ p < Len(text)}
NonEmpty(i) == offsets[i][1] # offsets[i][2]

-----------------------------------------------------------------------------
(* Windows *)

\* _window_ranges: window k takes the tokens FirstOf(k)..LastOf(k).  The first one to reach
\* the last token ends the loop.
FirstOf(k) == (k - 1) * (geometry[1] - geometry[2]) + 1
LastOf(k) == Min({FirstOf(k) + geometry[1] - 1, Len(offsets)})
WindowCount ==
    Cardinality({k \in 1..Len(offsets) : \A j \in 1..k - 1 : LastOf(j) < Len(offsets)})

\* _check_window_coverage
TokensCovered ==
    LET Covered(k) == Max({0} \cup {LastOf(j) : j \in 1..k - 1})
    IN  /\ \A k \in 1..WindowCount : FirstOf(k) <= Covered(k) + 1 /\ FirstOf(k) <= LastOf(k)
        /\ Covered(WindowCount + 1) = Len(offsets)

\* _check_text_coverage: the tokens advance, and what they skip is white space.
TextCovered ==
    LET tokens == {i \in DOMAIN offsets : NonEmpty(i)}
    IN  /\ \A i, j \in tokens :
              i < j => offsets[i][1] <= offsets[j][1] /\ offsets[i][2] <= offsets[j][2]
        /\ \A p \in 0..Len(text) - 1 :
              (\A i \in tokens : p \notin Chars(offsets[i])) => Char(p) = "space"

\* _run_window: the answers of window k, without those of empty tokens.
Row(k) ==
    [i \in 1..Cardinality({t \in FirstOf(k)..LastOf(k) : NonEmpty(t)}) |->
        <<k, CHOOSE t \in FirstOf(k)..LastOf(k) :
               NonEmpty(t) /\ Cardinality({u \in FirstOf(k)..t : NonEmpty(u)}) = i>>]

OffsetsOf(row) == [i \in DOMAIN row |-> offsets[row[i][2]]]

\* _shared_run_length: the stride when it fits, else the longest run that does.
Shared(k) ==
    LET previous == OffsetsOf(Row(k))
        next == OffsetsOf(Row(k + 1))
        limit == Min({Len(previous), Len(next)})
        expected == Min({geometry[2], limit})
        Fits(run) == \A i \in 1..run : previous[Len(previous) - run + i] = next[i]
    IN  IF Fits(expected) /\ expected > 0 THEN expected
        ELSE Max({run \in 0..limit : Fits(run)})

\* _stitch_windows: of what two windows share, the first half from the earlier one.
FrontCut(k) == IF k = 1 THEN 0 ELSE Shared(k - 1) \div 2
BackCutHalf(k) == IF k = WindowCount THEN 0 ELSE Shared(k) \div 2
BackCut(k) == IF k = WindowCount THEN 0 ELSE Shared(k) - Shared(k) \div 2
Part(k) == SubSeq(Row(k), FrontCut(k) + 1, Len(Row(k)) - BackCut(k))
Stitched == FlattenSeq([k \in 1..WindowCount |-> Part(k)])

Infer ==
    /\ stage = "encoded"
    /\ IF TokensCovered /\ TextCovered
       THEN stage' = "decode" /\ stitched' = Stitched
       ELSE stage' = "error" /\ UNCHANGED stitched
    /\ UNCHANGED <<wholeWords, text, offsets, geometry, at, collecting, spans, tagged>>

-----------------------------------------------------------------------------
(* decode_bioes_spans *)

\* _append_span: white space off both ends, a separator off the front of what cannot
\* begin with one; after a separator the span goes to the end of its word.
Snapped(type, s, e) ==
    LET filled == {p \in s..e - 1 : Char(p) # "space"}
        last == Max(filled) + 1
        value == {p \in Min(filled)..last - 1 : Char(p) # "sep"}
        start == IF type \in SeparatorBearing \/ value = {} THEN Min(filled) ELSE Min(value)
        cut == type \notin SeparatorBearing /\ start > 0 /\ Char(start - 1) = "sep"
        reach == {q \in last..Len(text) : cut /\ \A p \in last - 1..q - 1 : Char(p) = "word"}
    IN  IF filled = {} THEN {}
        ELSE {[type |-> type, start |-> start, end |-> Max(reach \cup {last})]}

\* Flushing the run r adds its span.
SpanOf(r) ==
    IF r = NoRun THEN {}
    ELSE Snapped(r.type, offsets[stitched[r.first][2]][1], offsets[stitched[r.last][2]][2])

Run(type, i) == [type |-> type, first |-> i, last |-> i]

DecodeOutside ==
    /\ stage = "decode" /\ at < Len(stitched)
    /\ at' = at + 1
    /\ spans' = spans \cup SpanOf(collecting)
    /\ collecting' = NoRun
    /\ UNCHANGED <<stage, wholeWords, text, offsets, geometry, stitched, tagged>>

\* S is a span of its own, B begins one, I and E go on with one of their type or begin
\* one, and E ends the one it goes on with.
DecodeLabel(prefix, type) ==
    LET i == at + 1
        goesOn == prefix \in {"I", "E"} /\ collecting # NoRun /\ collecting.type = type
        run == IF goesOn THEN [collecting EXCEPT !.last = i] ELSE Run(type, i)
    IN  /\ stage = "decode" /\ at < Len(stitched)
        /\ at' = i
        /\ tagged' = tagged \cup {i}
        /\ LET ends == prefix = "S" \/ (prefix = "E" /\ goesOn) IN
           /\ collecting' = IF ends THEN NoRun ELSE run
           /\ spans' = spans \cup (IF goesOn THEN {} ELSE SpanOf(collecting))
                             \cup (IF ends THEN SpanOf(run) ELSE {})
        /\ UNCHANGED <<stage, wholeWords, text, offsets, geometry, stitched>>

\* _to_whole_words: a span that cuts a word takes all of it.
ToWholeWords(sp) ==
    LET Word(p, q) == \A r \in p..q : Char(r) = "word"
        start == {p \in 0..sp.start : Word(p, sp.start)}
        end == {q \in sp.end..Len(text) : Word(sp.end - 1, q - 1)}
    IN  [sp EXCEPT !.start = Min(start \cup {sp.start}), !.end = Max(end \cup {sp.end})]

DecodeEndsUnflushed ==
    /\ stage = "decode" /\ at = Len(stitched)
    /\ stage' = "spans"
    /\ collecting' = NoRun
    /\ spans' = IF wholeWords THEN {ToWholeWords(sp) : sp \in spans} ELSE spans
    /\ UNCHANGED <<wholeWords, text, offsets, geometry, stitched, at, tagged>>

DecodeEnds ==
    /\ stage = "decode" /\ at = Len(stitched)
    /\ stage' = "spans"
    /\ collecting' = NoRun
    /\ spans' = LET all == spans \cup SpanOf(collecting)
                IN  IF wholeWords THEN {ToWholeWords(sp) : sp \in all} ELSE all
    /\ UNCHANGED <<wholeWords, text, offsets, geometry, stitched, at, tagged>>

WindowNext ==
    \/ Infer
    \/ DecodeOutside
    \/ \E label \in Labels : DecodeLabel(label[1], label[2])
    \/ DecodeEnds

-----------------------------------------------------------------------------
(* What a windowed detector promises *)

Inferred == stage \in {"decode", "spans"}

\* Every token that shows text is decoded once and in order, whichever windows saw it,
\* and with at least half an overlap of context in its window on either side unless the
\* text ends there: no token is lost, doubled or judged at a window's edge.
StitchExact ==
    Inferred =>
        LET tokens == {t \in 1..Len(offsets) : NonEmpty(t)}
            half == geometry[2] \div 2
        IN  /\ Len(stitched) = Cardinality(tokens)
            /\ {stitched[i][2] : i \in 1..Len(stitched)} = tokens
            /\ \A i \in 1..Len(stitched) - 1 : stitched[i][2] < stitched[i + 1][2]
            /\ tokens = 1..Len(offsets) =>
                 \A i \in 1..Len(stitched) :
                    LET k == stitched[i][1]
                        t == stitched[i][2]
                    IN  /\ t - FirstOf(k) >= half \/ FirstOf(k) = 1
                        /\ LastOf(k) - t >= half \/ LastOf(k) = Len(offsets)

\* Every character of a word the model labelled is in a span, whatever labels stand
\* beside it and wherever windows and spans end; and every word of a text that was
\* accepted was looked at.
LabelledCovered ==
    /\ Inferred =>
         \A p \in 0..Len(text) - 1 :
            Char(p) = "word" => \E i \in 1..Len(stitched) : p \in Chars(offsets[stitched[i][2]])
    /\ stage = "spans" =>
         \A i \in tagged : \A p \in Chars(offsets[stitched[i][2]]) :
            Char(p) = "word" => \E sp \in spans : sp.start <= p /\ p < sp.end

=============================================================================
