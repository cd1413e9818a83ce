-------------------------- MODULE MCStreamRestorer --------------------------
(* Streams over three characters.  MCStreamRestorer.cfg has two numbered    *)
(* placeholders, of which none is part of another; MCStreamOverlap.cfg two  *)
(* fakes of fake_replacement, one the beginning of the other.               *)
EXTENDS StreamRestorer

CONSTANTS l, d, r, plain, quoted

Placeholders == {<<l, r>>, <<l, d, r>>}
Names == {<<l>>, <<l, d>>}

\* The hypothesis of the theorems about restored text: placeholders meet it, names do not.
ASSUME WhichAreApart == Apart <=> Fakes = Placeholders

\* The original of the shorter one has a character JSON escapes.
MCOriginalOf(f) == IF f = <<l, r>> THEN quoted ELSE plain

TwoChoices == << <<0, "content">>, <<0, "arguments">>, <<1, "content">> >>
OneChannel == << <<0, "content">> >>
=============================================================================
