----------------------------- MODULE MCDetection -----------------------------
(* Constants for checking Detection: texts of three or four characters, a   *)
(* reversible type of each detector, an irreversible and a blocked one.     *)
EXTENDS Detection

MCTexts == {<<"word", "space", "word">>, <<"space", "sep", "word", "word">>}
MCGeometries == {<<2, 1>>, <<3, 2>>}
MCLabels == {<<"B", "name">>, <<"I", "name">>, <<"E", "name">>, <<"S", "url">>, <<"I", "url">>}
MCLabelMapping == [name |-> "NAME", url |-> "MAIL"]

Reported(type, score, source) ==
    {e \in Entity : e.type = type /\ e.score = score /\ e.source = source /\ e.end <= 3}
Pool == Reported("NAME", 1, "onnx") \cup Reported("MAIL", 2, "presidio")
        \cup Reported("SECRET", 1, "onnx") \cup Reported("CARD", 1, "presidio")
MCReports == {{}} \cup {{a, b, c} : a, b, c \in Pool}

MCRules == {[spans |-> {<<0, 2>>, <<1, 2>>}, named |-> FALSE, types |-> {}],
            [spans |-> {<<0, 3>>, <<1, 2>>}, named |-> TRUE, types |-> {"SECRET", "MAIL"}]}

=============================================================================
