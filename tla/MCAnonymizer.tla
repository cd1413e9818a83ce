---------------------------- MODULE MCAnonymizer ----------------------------
(* Anonymizer on a small request: see MCAnonymizer.cfg.                    *)
EXTENDS Anonymizer

CONSTANTS jean, key, fake
MCValues == {jean, key, fake}

\* Two values that collide: the fake of jean is fake, the fakes of key are
\* fake and then jean, and fake keeps being given itself.
MCFakeOf(t, w, k) ==
    IF w = jean THEN fake
    ELSE IF w = key THEN IF k = 0 THEN fake ELSE jean
    ELSE fake

MCDetectableAs(w) ==
    IF w = jean THEN {"PERSON", "CITY"}
    ELSE IF w = key THEN {"SECRET", "PERSON", "CITY"}
    ELSE IF w = fake THEN {"CITY", "CARD"}
    ELSE {"PERSON"}

MCLiterals == {Placeholder("PERSON", 1), Placeholder("PERSON", 2)}
=============================================================================
