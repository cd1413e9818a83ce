----------------------------- MODULE MCGuardrail -----------------------------
(* Calls of up to two fields; streams over three characters with two        *)
(* numbered placeholders, the original of the shorter one unsafe in JSON.   *)
EXTENDS Guardrail

CONSTANTS l, d, r, plain, quoted

Placeholders == {<<l, r>>, <<l, d, r>>}

\* The hypothesis of the theorem about streamed text.
ASSUME PlaceholdersApart == Apart
MCOriginalOf(f) == IF f = <<l, r>> THEN quoted ELSE plain
MCChannels == {<<0, "content">>, <<0, "tool">>, <<1, "content">>}
=============================================================================
