--------------------------- MODULE RestorePromise ---------------------------
(***************************************************************************)
(* What the client of a restored stream is promised, whatever buffers and   *)
(* chunks the restorer uses: at any time it has read a prefix of the        *)
(* restored text, what it has read never changes, and at the end it has     *)
(* read all of it.  A channel the provider misuses is exempt.               *)
(***************************************************************************)
EXTENDS Sequences, Integers

CONSTANT Channels

VARIABLES
    exact,    \* channel -> the restore of all the provider sent so far
    read,     \* channel -> what the client has read
    ended,    \* the stream ended well
    exempt    \* the channels that got text after their finish

Begins(s, t) == Len(s) <= Len(t) /\ SubSeq(t, 1, Len(s)) = s

Init ==
    /\ exact = [ch \in Channels |-> <<>>]
    /\ read = [ch \in Channels |-> <<>>]
    /\ ended = FALSE
    /\ exempt = {}

\* The restored text need not grow: the end of a fake replaces its beginning.
Advances(ch) ==
    /\ Begins(read[ch], read'[ch])
    /\ Begins(read'[ch], exact'[ch])
    /\ ended' => read'[ch] = exact'[ch]

Next ==
    /\ ~ended
    /\ exempt \subseteq exempt'
    /\ \A ch \in Channels \ exempt' : Advances(ch)

Spec == Init /\ [][Next]_<<exact, read, ended, exempt>>
=============================================================================
