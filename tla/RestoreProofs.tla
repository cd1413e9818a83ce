---------------------------- MODULE RestoreProofs ----------------------------
(***************************************************************************)
(* What the hold-back buffer does to a text, for every text and every set   *)
(* of fakes: the lemmas the proofs about the three streams rest on.         *)
(*                                                                         *)
(* The functions of HoldbackBuffer recurse on what a turn leaves of a text. *)
(* That they are defined at all, and what is proved of them for every text, *)
(* goes by a smallest counterexample.                                       *)
(***************************************************************************)
EXTENDS HoldbackBuffer, SequenceTheorems, WellFoundedInduction, TLAPS

-----------------------------------------------------------------------------
(* Induction and recursion *)

\* A nonempty set of naturals has a least element.
LEMMA Smallest ==
    ASSUME NEW S \in SUBSET Nat, S # {}
    PROVE  \E n \in S : \A m \in S : n <= m
<1> DEFINE R == OpToRel(<, Nat)
<1>1. IsWellFoundedOn(R, Nat)
  BY NatLessThanWellFounded
<1>2. PICK n \in S : \A m \in S : ~ (<<m, n>> \in R)
  <2> HIDE DEF R
  <2> QED
    BY <1>1, WFMin
<1>3. ASSUME NEW m \in S PROVE n <= m
  <2>1. ~ (<<m, n>> \in R)
    BY <1>2
  <2> QED
    BY <2>1 DEF OpToRel
<1> QED
  BY <1>3

\* Some function takes base where the recursion stops, and elsewhere joins what
\* stands there with its own value further on.
Solvable(D, V, Stop, base, next, join) ==
    \E f \in [D -> V] :
      \A b \in D : f[b] = IF b \in Stop THEN base[b] ELSE join[<<b, f[next[b]]>>]

\* A function may be defined by recursion on what is smaller.
LEMMA Recursion ==
    ASSUME NEW D, NEW V, NEW size \in [D -> Nat], NEW Stop \in SUBSET D,
           NEW base \in [Stop -> V], NEW next \in [D \ Stop -> D],
           NEW join \in [D \X V -> V],
           \A b \in D \ Stop : size[next[b]] < size[b]
    PROVE  Solvable(D, V, Stop, base, next, join)
<1> DEFINE A(n) == {b \in D : size[b] < n}
           Step(g, b) == IF b \in Stop THEN base[b] ELSE join[<<b, g[next[b]]>>]
           Solves(g, n) == \A b \in A(n) : g[b] = Step(g, b)
<1>0. ASSUME NEW n \in Nat, NEW b \in A(n), b \notin Stop
      PROVE  next[b] \in A(n) /\ \A m \in Nat : n = m + 1 => next[b] \in A(m)
  BY <1>0
<1>1. ASSUME NEW m \in Nat, NEW n \in Nat, NEW g, NEW h, Solves(g, m), Solves(h, n), m <= n
      PROVE  \A b \in A(m) : g[b] = h[b]
  <2> DEFINE S == {size[b] : b \in {x \in A(m) : g[x] # h[x]}}
  <2> SUFFICES ASSUME S # {} PROVE FALSE
    OBVIOUS
  <2>1. S \in SUBSET Nat
    OBVIOUS
  <2>2. PICK k \in S : \A j \in S : k <= j
    <3> HIDE DEF S
    <3> QED
      BY <2>1, Smallest
  <2>3. PICK b \in A(m) : g[b] # h[b] /\ size[b] = k
    BY <2>2
  <2>4. b \in A(n) /\ g[b] = Step(g, b) /\ h[b] = Step(h, b)
    BY <1>1, <2>3
  <2>5. b \notin Stop /\ g[next[b]] # h[next[b]]
    BY <2>3, <2>4
  <2>6. next[b] \in A(m) /\ size[next[b]] < k
    BY <2>3, <2>5, <1>0
  <2>7. size[next[b]] \in S
    BY <2>5, <2>6
  <2> HIDE DEF S
  <2> QED
    BY <2>1, <2>2, <2>6, <2>7
<1>2. ASSUME NEW n \in Nat
      PROVE  \E g \in [A(n) -> V] : Solves(g, n)
  <2> DEFINE S == {m \in Nat : ~ \E g \in [A(m) -> V] : Solves(g, m)}
  <2> SUFFICES ASSUME S # {} PROVE FALSE
    OBVIOUS
  <2>1. PICK m \in S : \A j \in S : m <= j
    <3>1. S \in SUBSET Nat
      OBVIOUS
    <3> HIDE DEF S
    <3> QED
      BY <3>1, Smallest
  <2>2. m # 0
    <3> SUFFICES ASSUME m = 0 PROVE FALSE
      OBVIOUS
    <3>1. A(0) = {}
      OBVIOUS
    <3>2. [b \in A(0) |-> base[b]] \in [A(0) -> V] /\ Solves([b \in A(0) |-> base[b]], 0)
      BY <3>1
    <3> QED
      BY <3>2
  <2>3. m - 1 \in Nat /\ m - 1 \notin S
    <3>1. m \in Nat
      OBVIOUS
    <3> HIDE DEF S
    <3> QED
      BY <3>1, <2>1, <2>2
  <2>4. PICK h \in [A(m - 1) -> V] : Solves(h, m - 1)
    BY <2>3
  <2> DEFINE g == [b \in A(m) |-> Step(h, b)]
  <2>5. ASSUME NEW b \in A(m), b \notin Stop
        PROVE  next[b] \in A(m - 1) /\ next[b] \in A(m) /\ h[next[b]] \in V
    BY <2>3, <2>4, <2>5
  <2>6. g \in [A(m) -> V]
    <3> SUFFICES ASSUME NEW b \in A(m) PROVE Step(h, b) \in V
      OBVIOUS
    <3>1. CASE b \in Stop
      BY <3>1
    <3>2. CASE b \notin Stop
      BY <3>2, <2>5
    <3> QED
      BY <3>1, <3>2
  <2>7. \A b \in A(m - 1) : b \in A(m) /\ g[b] = h[b]
    BY <2>3, <2>4
  <2>8. Solves(g, m)
    <3> SUFFICES ASSUME NEW b \in A(m) PROVE g[b] = Step(g, b)
      OBVIOUS
    <3>1. CASE b \in Stop
      BY <3>1
    <3>2. CASE b \notin Stop
      <4>1. next[b] \in A(m - 1) /\ g[next[b]] = h[next[b]]
        BY <3>2, <2>5, <2>7
      <4> HIDE DEF A
      <4> QED
        BY <3>2, <4>1
    <3> QED
      BY <3>1, <3>2
  <2> QED
    BY <2>1, <2>6, <2>8
<1> DEFINE G(n) == CHOOSE g \in [A(n) -> V] : Solves(g, n)
           f == [b \in D |-> G(size[b] + 1)[b]]
<1>3. ASSUME NEW n \in Nat
      PROVE  G(n) \in [A(n) -> V] /\ Solves(G(n), n)
  <2> HIDE DEF A, Solves
  <2> QED
    BY <1>2
<1>4. ASSUME NEW b \in D
      PROVE  size[b] + 1 \in Nat /\ b \in A(size[b] + 1)
  OBVIOUS
<1>5. f \in [D -> V]
  <2> HIDE DEF A, G, Solves
  <2> QED
    BY <1>3, <1>4
<1>6. ASSUME NEW b \in D
      PROVE  f[b] = IF b \in Stop THEN base[b] ELSE join[<<b, f[next[b]]>>]
  <2> DEFINE n == size[b] + 1
  <2>1. f[b] = Step(G(n), b)
    <3> HIDE DEF A, G, Step
    <3> QED
      BY <1>3, <1>4
  <2>2. CASE b \in Stop
    BY <2>1, <2>2
  <2>3. CASE b \notin Stop
    <3> DEFINE m == size[next[b]] + 1
    <3>1. next[b] \in D /\ m \in Nat /\ n \in Nat /\ m <= n /\ next[b] \in A(m)
      BY <2>3
    <3>2. f[next[b]] = G(m)[next[b]]
      BY <3>1
    <3>3. G(m)[next[b]] = G(n)[next[b]]
      <4> HIDE DEF A, G, Solves, m, n
      <4> QED
        BY <1>1, <1>3, <3>1
    <3> HIDE DEF f, G, A, m
    <3> QED
      BY <2>1, <2>3, <3>2, <3>3
  <2> QED
    BY <2>2, <2>3
<1> HIDE DEF f
<1> QED
  BY <1>5, <1>6 DEF Solvable

\* What holds of a text when it holds of all shorter ones holds of every text.
LEMMA ByLength ==
    ASSUME NEW P,
           \A b \in Seq(Chars) :
             (\A c \in Seq(Chars) : Len(c) < Len(b) => c \in P) => b \in P
    PROVE  Seq(Chars) \subseteq P
<1> DEFINE S == {Len(b) : b \in Seq(Chars) \ P}
<1> SUFFICES ASSUME S # {} PROVE FALSE
  <2>1. ASSUME NEW b \in Seq(Chars), b \notin P
        PROVE  Len(b) \in S
    BY <2>1
  <2> QED
    BY <2>1
<1>1. S \in SUBSET Nat
  BY LenProperties
<1>2. PICK n \in S : \A m \in S : n <= m
  <2> HIDE DEF S
  <2> QED
    BY <1>1, Smallest
<1>3. PICK b \in Seq(Chars) : b \notin P /\ Len(b) = n
  BY <1>2
<1>4. ASSUME NEW c \in Seq(Chars), Len(c) < Len(b), c \notin P
      PROVE  FALSE
  <2>1. Len(c) \in S
    BY <1>4
  <2> HIDE DEF S
  <2> QED
    BY <1>1, <1>2, <1>3, <1>4, <2>1
<1> QED
  BY <1>3, <1>4

-----------------------------------------------------------------------------
(* A turn of the loop *)

LEMMA SplitBuffer ==
    ASSUME NEW S, NEW b \in Seq(S), NEW n \in 0..Len(b)
    PROVE  /\ Head_(b, n) \in Seq(S) /\ Rest(b, n) \in Seq(S)
           /\ Len(Head_(b, n)) = n /\ Len(Rest(b, n)) = Len(b) - n
           /\ Head_(b, n) \o Rest(b, n) = b
<1>1. /\ Len(b) \in Nat /\ n \in Nat
      /\ 1 \in 1..Len(b) + 1
      /\ n \in 1 - 1..Len(b)
      /\ Len(b) \in n..Len(b)
  BY LenProperties
<1>2. SubSeq(b, 1, n) \o SubSeq(b, n + 1, Len(b)) = SubSeq(b, 1, Len(b))
  BY <1>1, ConcatAdjacentSubSeq
<1>3. SubSeq(b, 1, Len(b)) = b
  BY SubSeqFull
<1>4. SubSeq(b, 1, n) \in Seq(S) /\ Len(SubSeq(b, 1, n)) = n
  <2>1. \A i \in 1..n : b[i] \in S
    BY <1>1, ElementOfSeq
  <2> QED
    BY <1>1, <2>1, SubSeqProperties
<1>5. SubSeq(b, n + 1, Len(b)) \in Seq(S) /\ Len(SubSeq(b, n + 1, Len(b))) = Len(b) - n
  <2>1. \A i \in (n + 1)..Len(b) : b[i] \in S
    BY <1>1, ElementOfSeq
  <2> QED
    BY <1>1, <2>1, SubSeqProperties
<1> QED
  BY <1>2, <1>3, <1>4, <1>5 DEF Head_, Rest

\* There is a longest fake where there is one.
LEMMA TurnOfMatch ==
    ASSUME NEW b \in Seq(Chars), HasMatch(b)
    PROVE  Turn(b) \in 1..Len(b) /\ LongestMatch(b, Turn(b))
<1> DEFINE S == {Len(b) - n : n \in {m \in 1..Len(b) : Head_(b, m) \in Fakes}}
<1>0. Len(b) \in Nat
  BY LenProperties
<1>1. S \in SUBSET Nat /\ S # {}
  BY <1>0 DEF HasMatch
<1>2. PICK k \in S : \A j \in S : k <= j
  <2> HIDE DEF S
  <2> QED
    BY <1>1, Smallest
<1>3. PICK n \in 1..Len(b) : Head_(b, n) \in Fakes /\ k = Len(b) - n
  BY <1>2
<1>4. ASSUME NEW m \in (n + 1)..Len(b), Head_(b, m) \in Fakes
      PROVE  FALSE
  <2>1. m \in 1..Len(b) /\ Len(b) - m \in S
    BY <1>0, <1>4
  <2>2. k <= Len(b) - m
    BY <1>2, <2>1
  <2> QED
    BY <1>0, <1>3, <2>1, <2>2
<1>5. LongestMatch(b, n)
  BY <1>3, <1>4 DEF LongestMatch
<1>6. Turn(b) = CHOOSE x \in 1..Len(b) : LongestMatch(b, x)
  BY DEF Turn
<1> QED
  BY <1>5, <1>6

LEMMA LongestIsTurn ==
    ASSUME NEW b \in Seq(Chars), NEW n \in 1..Len(b), LongestMatch(b, n)
    PROVE  HasMatch(b) /\ Turn(b) = n
<1>1. HasMatch(b) /\ Len(b) \in Nat
  BY LenProperties DEF HasMatch, LongestMatch
<1>2. Turn(b) \in 1..Len(b) /\ LongestMatch(b, Turn(b))
  BY <1>1, TurnOfMatch
<1> QED
  BY <1>1, <1>2 DEF LongestMatch

LEMMA TurnShrinks ==
    ASSUME NEW b \in Seq(Chars), b # <<>>
    PROVE  /\ Turn(b) \in 1..Len(b)
           /\ Head_(b, Turn(b)) \in Seq(Chars) /\ Rest(b, Turn(b)) \in Seq(Chars)
           /\ Len(Rest(b, Turn(b))) < Len(b)
           /\ Head_(b, Turn(b)) \o Rest(b, Turn(b)) = b
<1>1. Len(b) \in Nat /\ Len(b) > 0
  BY EmptySeq, LenProperties
<1>2. Turn(b) \in 1..Len(b)
  BY <1>1, TurnOfMatch DEF Turn
<1> DEFINE n == Turn(b)
<1>3. n \in 1..Len(b) /\ n \in 0..Len(b)
  BY <1>2
<1> HIDE DEF n
<1>4. /\ Head_(b, n) \in Seq(Chars) /\ Rest(b, n) \in Seq(Chars)
      /\ Len(Rest(b, n)) = Len(b) - n /\ Head_(b, n) \o Rest(b, n) = b
  BY <1>3, SplitBuffer
<1>5. Len(Rest(b, n)) < Len(b)
  BY <1>1, <1>3, <1>4
<1> QED
  BY <1>3, <1>4, <1>5 DEF n

\* What a turn shows is text a client may be shown.
LEMMA PieceType ==
    ASSUME NEW b \in Seq(Chars), b # <<>>, NEW isJson
    PROVE  RestoredPiece(b) \in Seq(Shown) /\ Piece(b, isJson) \in Seq(Shown)
<1>1. CASE HasMatch(b)
  <2>1. Head_(b, Turn(b)) \in Fakes
    BY <1>1, TurnOfMatch DEF LongestMatch
  <2>2. OriginalOf(Head_(b, Turn(b))) \in Shown /\ Spliced(Head_(b, Turn(b)), isJson) \in Shown
    BY <2>1, FakesOK DEF Spliced, Shown, JsonForm
  <2> QED
    BY <1>1, <2>2 DEF RestoredPiece, Piece
<1>2. CASE ~HasMatch(b)
  <2>1. Turn(b) = 1 /\ Head_(b, 1) \in Seq(Chars)
    BY <1>2, TurnShrinks DEF Turn
  <2>2. Head_(b, 1) \in Seq(Shown)
    BY <2>1, SeqMonotonic DEF Shown
  <2> QED
    BY <1>2, <2>2 DEF RestoredPiece, Piece
<1> QED
  BY <1>1, <1>2

-----------------------------------------------------------------------------
(* The functions are what their definitions say *)

LEMMA TurnOnward ==
    /\ [b \in Seq(Chars) |-> Len(b)] \in [Seq(Chars) -> Nat]
    /\ \A b \in Seq(Chars) \ {<<>>} :
         Rest(b, Turn(b)) \in Seq(Chars) /\ Len(Rest(b, Turn(b))) < Len(b)
BY TurnShrinks, LenProperties

LEMMA ExactDef ==
    /\ Exact[<<>>] = <<>>
    /\ \A b \in Seq(Chars) \ {<<>>} : Exact[b] = RestoredPiece(b) \o Exact[Rest(b, Turn(b))]
<1> DEFINE D == Seq(Chars)
           V == Seq(Shown)
           Stop == {<<>>}
           next == [b \in D \ Stop |-> Rest(b, Turn(b))]
           size == [b \in D |-> Len(b)]
           base == [b \in Stop |-> <<>>]
           join == [x \in D \X V |-> IF x[1] = <<>> THEN <<>> ELSE RestoredPiece(x[1]) \o x[2]]
           F(g) == [b \in D |-> IF b = <<>> THEN <<>> ELSE RestoredPiece(b) \o g[Rest(b, Turn(b))]]
<1>1. /\ size \in [D -> Nat] /\ next \in [D \ Stop -> D]
      /\ \A b \in D \ Stop : size[next[b]] < size[b]
  BY TurnOnward
<1>2. Stop \in SUBSET D /\ base \in [Stop -> V]
  BY EmptySeq
<1>3. join \in [D \X V -> V]
  <2> SUFFICES ASSUME NEW b \in D, NEW v \in V, b # <<>>
               PROVE  RestoredPiece(b) \o v \in V
    BY EmptySeq
  <2> QED
    BY PieceType, ConcatProperties
<1> HIDE DEF D, V, Stop, next, size, base, join
<1>3a. Solvable(D, V, Stop, base, next, join)
  BY <1>1, <1>2, <1>3, Recursion
<1>4. PICK f \in [D -> V] :
         \A b \in D : f[b] = IF b \in Stop THEN base[b] ELSE join[<<b, f[next[b]]>>]
  BY <1>3a DEF Solvable
<1>5. ASSUME NEW b \in D
      PROVE  f[b] = IF b = <<>> THEN <<>> ELSE RestoredPiece(b) \o f[Rest(b, Turn(b))]
  <2>1. CASE b = <<>>
    BY <1>4, <2>1 DEF base, Stop
  <2>2. CASE b # <<>>
    <3>1. f[b] = join[<<b, f[next[b]]>>] /\ next[b] \in D /\ next[b] = Rest(b, Turn(b))
      BY <1>1, <1>4, <2>2 DEF next, Stop
    <3>2. f[next[b]] \in V
      BY <3>1
    <3> QED
      BY <2>2, <3>1, <3>2 DEF join
  <2> QED
    BY <2>1, <2>2
<1>6. f = [b \in D |-> f[b]]
  OBVIOUS
<1>7. f = F(f)
  BY <1>5, <1>6
<1>8. Exact = CHOOSE g : g = F(g)
  BY Zenon DEF Exact, D
<1> HIDE DEF F
<1>9. Exact = F(Exact)
  BY <1>7, <1>8, Zenon
<1> QED
  BY <1>9, EmptySeq DEF F, D

LEMMA OutDef ==
    ASSUME NEW isJson
    PROVE  \A b \in Seq(Chars) :
             Out(isJson)[b] = IF Waits(b) THEN <<>>
                              ELSE Piece(b, isJson) \o Out(isJson)[Rest(b, Turn(b))]
<1> DEFINE D == Seq(Chars)
           V == Seq(Shown)
           Stop == {b \in D : Waits(b)}
           next == [b \in D \ Stop |-> Rest(b, Turn(b))]
           size == [b \in D |-> Len(b)]
           base == [b \in Stop |-> <<>>]
           join == [x \in D \X V |-> IF Waits(x[1]) THEN <<>> ELSE Piece(x[1], isJson) \o x[2]]
           F(g) == [b \in D |-> IF Waits(b) THEN <<>> ELSE Piece(b, isJson) \o g[Rest(b, Turn(b))]]
<1>0. \A b \in D \ Stop : b # <<>>
  BY DEF Waits
<1>1. /\ size \in [D -> Nat] /\ next \in [D \ Stop -> D]
      /\ \A b \in D \ Stop : size[next[b]] < size[b]
  BY TurnOnward, <1>0
<1>2. Stop \in SUBSET D /\ base \in [Stop -> V]
  BY EmptySeq
<1>3. join \in [D \X V -> V]
  <2> SUFFICES ASSUME NEW b \in D, NEW v \in V, ~ Waits(b)
               PROVE  Piece(b, isJson) \o v \in V
    BY EmptySeq
  <2> QED
    BY PieceType, ConcatProperties DEF Waits
<1> HIDE DEF D, V, Stop, next, size, base, join
<1>3a. Solvable(D, V, Stop, base, next, join)
  BY <1>1, <1>2, <1>3, Recursion
<1>4. PICK f \in [D -> V] :
         \A b \in D : f[b] = IF b \in Stop THEN base[b] ELSE join[<<b, f[next[b]]>>]
  BY <1>3a DEF Solvable
<1>5. ASSUME NEW b \in D
      PROVE  f[b] = IF Waits(b) THEN <<>> ELSE Piece(b, isJson) \o f[Rest(b, Turn(b))]
  <2>1. CASE Waits(b)
    BY <1>4, <2>1 DEF base, Stop
  <2>2. CASE ~ Waits(b)
    <3>1. f[b] = join[<<b, f[next[b]]>>] /\ next[b] \in D /\ next[b] = Rest(b, Turn(b))
      BY <1>1, <1>4, <2>2 DEF next, Stop
    <3>2. f[next[b]] \in V
      BY <3>1
    <3> QED
      BY <2>2, <3>1, <3>2 DEF join
  <2> QED
    BY <2>1, <2>2
<1>6. f = [b \in D |-> f[b]]
  OBVIOUS
<1>7. f = F(f)
  BY <1>5, <1>6
<1>8. Out(isJson) = CHOOSE g : g = F(g)
  BY Zenon DEF Out, D
<1> HIDE DEF F
<1>9. Out(isJson) = F(Out(isJson))
  BY <1>7, <1>8, Zenon
<1> QED
  BY <1>9 DEF F, D

LEMMA HeldDef ==
    \A b \in Seq(Chars) : Held[b] = IF Waits(b) THEN b ELSE Held[Rest(b, Turn(b))]
<1> DEFINE D == Seq(Chars)
           Stop == {b \in D : Waits(b)}
           next == [b \in D \ Stop |-> Rest(b, Turn(b))]
           size == [b \in D |-> Len(b)]
           base == [b \in Stop |-> b]
           join == [x \in D \X D |-> x[2]]
           F(g) == [b \in D |-> IF Waits(b) THEN b ELSE g[Rest(b, Turn(b))]]
<1>0. \A b \in D \ Stop : b # <<>>
  BY DEF Waits
<1>1. /\ size \in [D -> Nat] /\ next \in [D \ Stop -> D]
      /\ \A b \in D \ Stop : size[next[b]] < size[b]
  BY TurnOnward, <1>0
<1>2. Stop \in SUBSET D /\ base \in [Stop -> D]
  OBVIOUS
<1>3. join \in [D \X D -> D]
  OBVIOUS
<1> HIDE DEF D, Stop, next, size, base, join
<1>3a. Solvable(D, D, Stop, base, next, join)
  BY <1>1, <1>2, <1>3, Recursion
<1>4. PICK f \in [D -> D] :
         \A b \in D : f[b] = IF b \in Stop THEN base[b] ELSE join[<<b, f[next[b]]>>]
  BY <1>3a DEF Solvable
<1>5. ASSUME NEW b \in D
      PROVE  f[b] = IF Waits(b) THEN b ELSE f[Rest(b, Turn(b))]
  <2>1. CASE Waits(b)
    BY <1>4, <2>1 DEF base, Stop
  <2>2. CASE ~ Waits(b)
    <3>1. f[b] = join[<<b, f[next[b]]>>] /\ next[b] \in D /\ next[b] = Rest(b, Turn(b))
      BY <1>1, <1>4, <2>2 DEF next, Stop
    <3>2. f[next[b]] \in D
      BY <3>1
    <3> QED
      BY <2>2, <3>1, <3>2 DEF join
  <2> QED
    BY <2>1, <2>2
<1>6. f = [b \in D |-> f[b]]
  OBVIOUS
<1>7. f = F(f)
  BY <1>5, <1>6
<1>8. Held = CHOOSE g : g = F(g)
  BY Zenon DEF Held, D
<1> HIDE DEF F
<1>9. Held = F(Held)
  BY <1>7, <1>8, Zenon
<1> QED
  BY <1>9 DEF F, D

LEMMA ExactType ==
    \A b \in Seq(Chars) : Exact[b] \in Seq(Shown)
<1> DEFINE P == {b \in Seq(Chars) : Exact[b] \in Seq(Shown)}
<1>1. ASSUME NEW b \in Seq(Chars), \A c \in Seq(Chars) : Len(c) < Len(b) => c \in P
      PROVE  b \in P
  <2>1. CASE b = <<>>
    BY <2>1, ExactDef, EmptySeq
  <2>2. CASE b # <<>>
    <3> DEFINE r == Rest(b, Turn(b))
    <3>1. r \in P
      BY <1>1, <2>2, TurnOnward
    <3>2. Exact[b] = RestoredPiece(b) \o Exact[r] /\ RestoredPiece(b) \in Seq(Shown)
      BY <2>2, ExactDef, PieceType
    <3> HIDE DEF r
    <3> QED
      BY <3>1, <3>2, ConcatProperties
  <2> QED
    BY <2>1, <2>2
<1> HIDE DEF P
<1>2. Seq(Chars) \subseteq P
  BY <1>1, ByLength
<1> QED
  BY <1>2 DEF P

\* What is let out is text, and what a feed leaves waits.
LEMMA FeedType ==
    ASSUME NEW isJson
    PROVE  \A b \in Seq(Chars) :
             /\ Out(isJson)[b] \in Seq(Shown)
             /\ Held[b] \in Seq(Chars) /\ Waits(Held[b])
<1> DEFINE P == {b \in Seq(Chars) : /\ Out(isJson)[b] \in Seq(Shown)
                                    /\ Held[b] \in Seq(Chars) /\ Waits(Held[b])}
<1>1. ASSUME NEW b \in Seq(Chars), \A c \in Seq(Chars) : Len(c) < Len(b) => c \in P
      PROVE  b \in P
  <2>1. CASE Waits(b)
    <3>1. Out(isJson)[b] = <<>> /\ Held[b] = b
      BY <2>1, OutDef, HeldDef
    <3> QED
      BY <2>1, <3>1, EmptySeq
  <2>2. CASE ~ Waits(b)
    <3>1. b # <<>>
      BY <2>2 DEF Waits
    <3> DEFINE r == Rest(b, Turn(b))
    <3>2. r \in P
      BY <1>1, <3>1, TurnOnward
    <3>3. Out(isJson)[b] = Piece(b, isJson) \o Out(isJson)[r] /\ Held[b] = Held[r]
      BY <2>2, OutDef, HeldDef
    <3>4. Out(isJson)[r] \in Seq(Shown) /\ Piece(b, isJson) \in Seq(Shown)
      BY <3>1, <3>2, PieceType
    <3> HIDE DEF r
    <3> QED
      BY <3>2, <3>3, <3>4, ConcatProperties
  <2> QED
    BY <2>1, <2>2
<1> HIDE DEF P
<1>2. Seq(Chars) \subseteq P
  BY <1>1, ByLength
<1> QED
  BY <1>2 DEF P

-----------------------------------------------------------------------------
(* Text that comes later does not change what a turn does *)

LEMMA Regroup ==
    \A s, t, u \in Seq(Chars) : (s \o t) \o u = s \o (t \o u)
BY ConcatAssociative

LEMMA SplitConcat ==
    ASSUME NEW b \in Seq(Chars), NEW s \in Seq(Chars), NEW n \in 1..Len(b)
    PROVE  /\ Head_(b \o s, n) = Head_(b, n)
           /\ Rest(b \o s, n) = Rest(b, n) \o s
<1> DEFINE h == Head_(b, n)
           r == Rest(b, n)
<1>0. Len(b) \in Nat /\ Len(s) \in Nat /\ b \o s \in Seq(Chars) /\ Len(b \o s) = Len(b) + Len(s)
  BY LenProperties, ConcatProperties
<1>1. n \in 0..Len(b) /\ n \in 0..Len(b \o s)
  BY <1>0
<1>2. Head_(b \o s, n) = h
  <2>1. 1 \in 1..Len(b)
    BY <1>0
  <2> QED
    BY <2>1, SubSeqOfConcat1 DEF Head_
<1>3. h \in Seq(Chars) /\ r \in Seq(Chars) /\ h \o r = b
  BY <1>1, SplitBuffer
<1>4. Rest(b \o s, n) \in Seq(Chars) /\ h \o Rest(b \o s, n) = b \o s
  BY <1>0, <1>1, <1>2, SplitBuffer
<1> HIDE DEF h, r
<1>5. h \o (r \o s) = b \o s /\ r \o s \in Seq(Chars)
  <2>1. (h \o r) \o s = h \o (r \o s)
    BY <1>3, Regroup, ZenonT(40)
  <2> QED
    BY <1>3, <2>1, ConcatProperties
<1>6. Rest(b \o s, n) = r \o s
  <2> DEFINE q == Rest(b \o s, n)
             t == r \o s
  <2>1. q \in Seq(Chars) /\ t \in Seq(Chars) /\ h \o q = h \o t
    BY <1>4, <1>5
  <2> HIDE DEF q, t
  <2>2. q = t
    BY <1>3, <2>1, ConcatSimplifications
  <2> QED
    BY <2>2 DEF q, t
<1> QED
  BY <1>2, <1>6 DEF h, r

LEMMA PrefixOfPrefix ==
    ASSUME NEW b \in Seq(Chars), NEW m \in 1..Len(b), NEW n \in 1..m
    PROVE  Head_(Head_(b, m), n) = Head_(b, n)
<1>1. Len(b) \in Nat
  BY LenProperties
<1>2. 1 \in 1..Len(b) /\ 1 \in 1..m - 1 + 1 /\ n \in 1..m - 1 + 1
  BY <1>1
<1>3. SubSeq(SubSeq(b, 1, m), 1, n) = SubSeq(b, 1 + 1 - 1, 1 + n - 1)
  BY <1>2, SubSeqOfSubSeq
<1> QED
  BY <1>3 DEF Head_

LEMMA SameTurn ==
    ASSUME Apart, NEW b \in Seq(Chars), NEW s \in Seq(Chars), ~ Waits(b)
    PROVE  /\ b # <<>>
           /\ HasMatch(b \o s) <=> HasMatch(b)
           /\ Turn(b \o s) = Turn(b)
<1> DEFINE t == b \o s
<1>0. /\ b # <<>> /\ Len(b) \in Nat /\ Len(b) > 0 /\ Len(s) \in Nat
      /\ t \in Seq(Chars) /\ Len(t) = Len(b) + Len(s)
  BY LenProperties, EmptySeq, ConcatProperties DEF Waits
<1>1. \A m \in 1..Len(b) : Head_(t, m) = Head_(b, m)
  BY SplitConcat
<1> HIDE DEF t
<1>2. CASE HasMatch(b)
  <2> DEFINE n == Turn(b)
  <2>1. n \in 1..Len(b) /\ Head_(b, n) \in Fakes /\ Head_(t, n) = Head_(b, n)
    BY <1>1, <1>2, TurnOfMatch DEF LongestMatch
  <2>2. n \in 1..Len(t)
    BY <1>0, <2>1
  <2> HIDE DEF n
  <2>3. ASSUME NEW m \in (n + 1)..Len(t), Head_(t, m) \in Fakes
        PROVE  FALSE
    <3>1. m \in 1..Len(t) /\ m \in 0..Len(t) /\ n \in 1..m /\ 1 \in 1..m /\ m \in Nat
      BY <1>0, <2>1, <2>3
    <3>2. Len(Head_(t, m)) = m
      BY <1>0, <3>1, SplitBuffer
    <3>3. SubSeq(Head_(t, m), 1, n) = Head_(b, n)
      BY <1>0, <2>1, <3>1, PrefixOfPrefix DEF Head_
    <3>4. Head_(b, n) = Head_(t, m)
      BY <2>1, <2>3, <3>1, <3>2, <3>3 DEF Apart
    <3>5. Len(Head_(b, n)) = n
      <4>1. n \in 0..Len(b)
        BY <2>1
      <4> QED
        BY <4>1, SplitBuffer
    <3> QED
      BY <2>1, <2>3, <3>2, <3>4, <3>5
  <2>4. LongestMatch(t, n)
    BY <2>1, <2>3 DEF LongestMatch
  <2>5. HasMatch(t) /\ Turn(t) = n
    BY <1>0, <2>2, <2>4, LongestIsTurn
  <2> QED
    BY <1>0, <1>2, <2>5 DEF n, t
<1>3. CASE ~ HasMatch(b)
  <2>1. ~ HasPrefix(b)
    BY <1>3 DEF Waits
  <2>2. ASSUME NEW m \in 1..Len(t), Head_(t, m) \in Fakes
        PROVE  FALSE
    <3>1. CASE m <= Len(b)
      BY <1>0, <1>1, <1>3, <2>2, <3>1 DEF HasMatch
    <3>2. CASE m > Len(b)
      <4>1. Len(b) \in 1..m /\ m \in 0..Len(t)
        BY <1>0, <3>2
      <4>2. Head_(Head_(t, m), Len(b)) = Head_(t, Len(b))
        BY <1>0, <4>1, PrefixOfPrefix
      <4>3. Head_(t, Len(b)) = b
        <5>1. Len(b) \in 1..Len(b)
          BY <1>0
        <5>2. Head_(t, Len(b)) = Head_(b, Len(b))
          BY <1>1, <5>1
        <5> QED
          BY <5>2, SubSeqFull DEF Head_
      <4>4. Len(Head_(t, m)) = m
        BY <1>0, <4>1, SplitBuffer
      <4> QED
        BY <2>1, <2>2, <3>2, <4>2, <4>3, <4>4 DEF HasPrefix
    <3> QED
      BY <1>0, <3>1, <3>2
  <2>3. ~ HasMatch(t)
    BY <2>2 DEF HasMatch
  <2> QED
    BY <1>0, <1>3, <2>3 DEF t, Turn
<1> QED
  BY <1>2, <1>3

\* A turn takes off the front of the restored text what it shows, whatever comes.
LEMMA OneTurn ==
    ASSUME Apart, NEW b \in Seq(Chars), NEW s \in Seq(Chars), ~ Waits(b)
    PROVE  Exact[b \o s] = RestoredPiece(b) \o Exact[Rest(b, Turn(b)) \o s]
<1> DEFINE t == b \o s
           n == Turn(b)
<1>1. b # <<>> /\ (HasMatch(t) <=> HasMatch(b)) /\ Turn(t) = n
  BY SameTurn
<1>2. t \in Seq(Chars) /\ t # <<>>
  BY <1>1, ConcatProperties, ConcatEqualIffEmpty
<1>3. n \in 1..Len(b)
  BY <1>1, TurnShrinks
<1>4. Head_(t, n) = Head_(b, n) /\ Rest(t, n) = Rest(b, n) \o s
  <2> HIDE DEF n
  <2> QED
    BY <1>3, SplitConcat
<1>5. RestoredPiece(t) = RestoredPiece(b)
  <2>1. CASE HasMatch(b)
    BY <1>1, <1>4, <2>1 DEF RestoredPiece
  <2>2. CASE ~ HasMatch(b)
    BY <1>1, <1>4, <2>2 DEF RestoredPiece, Turn
  <2> QED
    BY <2>1, <2>2
<1> HIDE DEF t
<1>6. Exact[t] = RestoredPiece(t) \o Exact[Rest(t, n)]
  BY <1>1, <1>2, ExactDef
<1> QED
  BY <1>4, <1>5, <1>6 DEF t

-----------------------------------------------------------------------------
(* What a client reads *)

Readable == Shown \cup {Broken}

LEMMA DecodedIs ==
    /\ \A x \in Shown : Decoded(x) \in Readable
    /\ \A x \in Chars : Decoded(x) = x
    /\ \A v \in Originals :
         Decoded(IF v \in JsonUnsafe THEN JsonForm(v) ELSE v) = v
<1>1. \A v : JsonForm(v).json = v
  BY DEF JsonForm
<1>2. ASSUME NEW x \in Shown PROVE Decoded(x) \in Readable
  BY <1>1, <1>2, FakesOK DEF Decoded, Readable, Shown
<1>3. ASSUME NEW x \in Chars PROVE Decoded(x) = x
  BY <1>3, SymbolsOK DEF Decoded
<1>4. ASSUME NEW v \in Originals
      PROVE  Decoded(IF v \in JsonUnsafe THEN JsonForm(v) ELSE v) = v
  <2>1. CASE v \in JsonUnsafe
    BY <1>1, <2>1 DEF Decoded
  <2>2. CASE v \notin JsonUnsafe
    BY <2>2, <1>4, SymbolsOK DEF Decoded
  <2> QED
    BY <2>1, <2>2
<1> QED
  BY <1>2, <1>3, <1>4

LEMMA ReadType ==
    ASSUME NEW s \in Seq(Shown), NEW isJson \in BOOLEAN
    PROVE  /\ AsRead(s, isJson) \in Seq(Readable)
           /\ Len(AsRead(s, isJson)) = Len(s)
<1>1. s \in Seq(Readable) /\ Len(s) \in Nat
  BY SeqMonotonic, LenProperties DEF Readable
<1>2. CASE isJson
  <2> DEFINE r == [i \in DOMAIN s |-> Decoded(s[i])]
  <2>1. DOMAIN s = 1..Len(s) /\ \A i \in 1..Len(s) : s[i] \in Shown
    BY LenProperties, ElementOfSeq
  <2>2. r \in [1..Len(s) -> Readable]
    BY <2>1, DecodedIs
  <2> HIDE DEF r
  <2>3. r \in Seq(Readable) /\ Len(r) = Len(s)
    BY <1>1, <2>2
  <2> QED
    BY <1>2, <2>3 DEF AsRead, r
<1>3. CASE ~ isJson
  BY <1>1, <1>3 DEF AsRead
<1> QED
  BY <1>2, <1>3

LEMMA ReadConcat ==
    ASSUME NEW s \in Seq(Shown), NEW t \in Seq(Shown), NEW isJson \in BOOLEAN
    PROVE  AsRead(s \o t, isJson) = AsRead(s, isJson) \o AsRead(t, isJson)
<1> DEFINE l == AsRead(s \o t, isJson)
           r == AsRead(s, isJson) \o AsRead(t, isJson)
<1>0. /\ s \o t \in Seq(Shown) /\ Len(s) \in Nat /\ Len(t) \in Nat
      /\ Len(s \o t) = Len(s) + Len(t)
  BY ConcatProperties, LenProperties
<1>1. l \in Seq(Readable) /\ Len(l) = Len(s) + Len(t)
  BY <1>0, ReadType
<1>2. r \in Seq(Readable) /\ Len(r) = Len(s) + Len(t)
  <2> DEFINE x == AsRead(s, isJson)
             y == AsRead(t, isJson)
  <2>1. x \in Seq(Readable) /\ y \in Seq(Readable) /\ Len(x) = Len(s) /\ Len(y) = Len(t)
    BY ReadType
  <2> HIDE DEF x, y
  <2>2. x \o y \in Seq(Readable) /\ Len(x \o y) = Len(x) + Len(y)
    BY <2>1, ConcatProperties
  <2> QED
    BY <2>1, <2>2 DEF x, y
<1>3. CASE isJson
  <2>1. ASSUME NEW i \in 1..Len(l)
        PROVE  l[i] = r[i]
    <3>1. i \in 1..Len(s) + Len(t)
      BY <1>1
    <3>2. l[i] = Decoded((s \o t)[i])
      <4>1. i \in DOMAIN (s \o t)
        BY <1>0, <3>1, LenProperties
      <4> QED
        BY <1>3, <4>1 DEF AsRead
    <3>3. CASE i <= Len(s)
      <4>1. i \in 1..Len(s) /\ i \in DOMAIN s
        BY <3>1, <3>3, <1>0, LenProperties
      <4>2. r[i] = AsRead(s, isJson)[i]
        BY <3>1, <3>3, ReadType, ConcatProperties
      <4>3. (s \o t)[i] = s[i]
        BY <3>1, <3>3, ConcatProperties
      <4> QED
        BY <1>3, <3>2, <4>1, <4>2, <4>3 DEF AsRead
    <3>4. CASE i > Len(s)
      <4> DEFINE j == i - Len(s)
      <4>1. j \in 1..Len(t) /\ j \in DOMAIN t /\ ~ (i <= Len(s))
        BY <3>1, <3>4, <1>0, LenProperties
      <4>2. r[i] = AsRead(t, isJson)[j]
        BY <3>1, <4>1, ReadType, ConcatProperties
      <4>3. (s \o t)[i] = t[j]
        BY <3>1, <4>1, ConcatProperties
      <4> HIDE DEF j
      <4> QED
        BY <1>3, <3>2, <4>1, <4>2, <4>3 DEF AsRead
    <3>5. i <= Len(s) \/ i > Len(s)
      BY <1>0, <3>1
    <3> QED
      BY <3>3, <3>4, <3>5
  <2> HIDE DEF l, r
  <2>2. l = r
    BY <1>1, <1>2, <2>1, SeqEqual
  <2> QED
    BY <2>2 DEF l, r
<1>4. CASE ~ isJson
  BY <1>4 DEF AsRead
<1> QED
  BY <1>3, <1>4

\* Characters are read as they are.
LEMMA ReadChars ==
    ASSUME NEW s \in Seq(Chars), NEW isJson \in BOOLEAN
    PROVE  AsRead(s, isJson) = s
<1>1. CASE isJson
  <2>1. s \in Seq(Shown)
    BY SeqMonotonic DEF Shown
  <2>2. s \in Seq(Readable) /\ AsRead(s, isJson) \in Seq(Readable)
        /\ Len(AsRead(s, isJson)) = Len(s)
    BY <2>1, ReadType, SeqMonotonic DEF Readable
  <2>3. ASSUME NEW i \in 1..Len(s)
        PROVE  AsRead(s, isJson)[i] = s[i]
    <3>1. i \in DOMAIN s /\ s[i] \in Chars
      BY LenProperties, ElementOfSeq
    <3> QED
      BY <1>1, <3>1, DecodedIs DEF AsRead
  <2> DEFINE r == AsRead(s, isJson)
  <2>4. r \in Seq(Readable) /\ Len(r) = Len(s) /\ \A i \in 1..Len(s) : r[i] = s[i]
    BY <2>2, <2>3
  <2> HIDE DEF r
  <2>5. r = s
    BY <2>2, <2>4, SeqEqual
  <2> QED
    BY <2>5 DEF r
<1>2. CASE ~ isJson
  BY <1>2 DEF AsRead
<1> QED
  BY <1>1, <1>2

\* What a turn lets out is read as what the restore of the text has in its place.
LEMMA ReadPiece ==
    ASSUME NEW b \in Seq(Chars), b # <<>>, NEW isJson \in BOOLEAN
    PROVE  AsRead(Piece(b, isJson), isJson) = RestoredPiece(b)
<1>1. CASE HasMatch(b)
  <2> DEFINE f == Head_(b, Turn(b))
             x == Spliced(f, isJson)
  <2>1. f \in Fakes /\ OriginalOf(f) \in Originals
    BY <1>1, TurnOfMatch, FakesOK DEF LongestMatch
  <2>2. Piece(b, isJson) = <<x>> /\ RestoredPiece(b) = <<OriginalOf(f)>>
    BY <1>1 DEF Piece, RestoredPiece
  <2> HIDE DEF f
  <2>3. CASE isJson
    <3>1. Decoded(x) = OriginalOf(f)
      BY <2>1, <2>3, DecodedIs DEF Spliced
    <3> HIDE DEF x
    <3>2. [i \in DOMAIN <<x>> |-> Decoded(<<x>>[i])] = <<Decoded(x)>>
      OBVIOUS
    <3> QED
      BY <2>2, <2>3, <3>1, <3>2 DEF AsRead
  <2>4. CASE ~ isJson
    BY <2>2, <2>4 DEF AsRead, Spliced
  <2> QED
    BY <2>3, <2>4
<1>2. CASE ~ HasMatch(b)
  <2>1. Head_(b, 1) \in Seq(Chars)
    BY <1>2, TurnShrinks DEF Turn
  <2> QED
    BY <1>2, <2>1, ReadChars DEF Piece, RestoredPiece
<1> QED
  BY <1>1, <1>2

-----------------------------------------------------------------------------
(* A whole feed, and the text that is held back *)

LEMMA ReadableRegroup ==
    \A s, t, u \in Seq(Readable) : (s \o t) \o u = s \o (t \o u)
BY ConcatAssociative

LEMMA ShownRegroup ==
    \A s, t, u \in Seq(Shown) : s \o (t \o u) = (s \o t) \o u
BY ConcatAssociative

LEMMA ExactReadable ==
    \A b \in Seq(Chars) : Exact[b] \in Seq(Readable)
BY ExactType, SeqMonotonic DEF Readable

\* What feed lets out is the front of the restored text, whatever comes later; the
\* rest is the restore of what it goes on holding and what comes.
LEMMA FeedRestores ==
    ASSUME Apart, NEW isJson \in BOOLEAN, NEW s \in Seq(Chars)
    PROVE  \A b \in Seq(Chars) :
             Exact[b \o s] = AsRead(Out(isJson)[b], isJson) \o Exact[Held[b] \o s]
<1> DEFINE Holds(b) ==
             Exact[b \o s] = AsRead(Out(isJson)[b], isJson) \o Exact[Held[b] \o s]
           P == {b \in Seq(Chars) : Holds(b)}
<1>1. ASSUME NEW b \in Seq(Chars), \A c \in Seq(Chars) : Len(c) < Len(b) => c \in P
      PROVE  Holds(b)
  <2>1. CASE Waits(b)
    <3>1. Out(isJson)[b] = <<>> /\ Held[b] = b
      BY <2>1, OutDef, HeldDef
    <3>2. AsRead(<<>>, isJson) = <<>>
      BY ReadChars, EmptySeq
    <3>3. Exact[b \o s] \in Seq(Readable)
      BY ConcatProperties, ExactReadable
    <3> QED
      BY <3>1, <3>2, <3>3, ConcatEmptySeq
  <2>2. CASE ~ Waits(b)
    <3> DEFINE r == Rest(b, Turn(b))
               x == Piece(b, isJson)
               y == Out(isJson)[r]
    <3>1. b # <<>>
      BY <2>2 DEF Waits
    <3>2. r \in P /\ r \in Seq(Chars)
      BY <1>1, <3>1, TurnOnward
    <3>3. Out(isJson)[b] = x \o y /\ Held[b] = Held[r]
      BY <2>2, OutDef, HeldDef
    <3>4. x \in Seq(Shown) /\ y \in Seq(Shown) /\ Held[r] \in Seq(Chars)
      BY <3>1, <3>2, PieceType, FeedType
    <3>5. AsRead(x, isJson) = RestoredPiece(b)
      BY <3>1, ReadPiece
    <3>6. Exact[b \o s] = AsRead(x, isJson) \o Exact[r \o s]
      BY <2>2, <3>5, OneTurn
    <3>7. Exact[r \o s] = AsRead(y, isJson) \o Exact[Held[r] \o s]
      BY <3>2
    <3> HIDE DEF r, x, y
    <3>8. AsRead(x \o y, isJson) = AsRead(x, isJson) \o AsRead(y, isJson)
      BY <3>4, ReadConcat
    <3>9. /\ AsRead(x, isJson) \in Seq(Readable) /\ AsRead(y, isJson) \in Seq(Readable)
          /\ Exact[Held[r] \o s] \in Seq(Readable)
      BY <3>4, ReadType, ConcatProperties, ExactReadable
    <3>10. (AsRead(x, isJson) \o AsRead(y, isJson)) \o Exact[Held[r] \o s]
             = AsRead(x, isJson) \o (AsRead(y, isJson) \o Exact[Held[r] \o s])
      BY <3>9, ReadableRegroup
    <3> QED
      BY <3>3, <3>6, <3>7, <3>8, <3>10
  <2> QED
    BY <2>1, <2>2
<1> HIDE DEF Holds
<1>2. Seq(Chars) \subseteq P
  <2>1. ASSUME NEW b \in Seq(Chars), \A c \in Seq(Chars) : Len(c) < Len(b) => c \in P
        PROVE  b \in P
    BY <1>1, <2>1
  <2> HIDE DEF P
  <2> QED
    BY <2>1, ByLength
<1> QED
  BY <1>2 DEF Holds

\* Text without a fake is restored as it is.
LEMMA BareIsExact ==
    \A b \in Seq(Chars) :
       (\A i, j \in 1..Len(b) : SubSeq(b, i, j) \notin Fakes) => Exact[b] = b
<1> DEFINE Bare(b) == \A i, j \in 1..Len(b) : SubSeq(b, i, j) \notin Fakes
           P == {b \in Seq(Chars) : Bare(b) => Exact[b] = b}
<1>1. ASSUME NEW b \in Seq(Chars), \A c \in Seq(Chars) : Len(c) < Len(b) => c \in P, Bare(b),
             b # <<>>
      PROVE  Exact[b] = b
  <2> DEFINE r == Rest(b, 1)
  <2>1. Len(b) \in Nat \ {0}
    BY <1>1, EmptySeq
  <2>2. ~ HasMatch(b)
    <3> SUFFICES ASSUME NEW n \in 1..Len(b), Head_(b, n) \in Fakes PROVE FALSE
      BY DEF HasMatch
    <3>1. 1 \in 1..Len(b)
      BY <2>1
    <3> QED
      BY <1>1, <3>1 DEF Head_
  <2>3. Turn(b) = 1 /\ RestoredPiece(b) = Head_(b, 1)
    BY <2>2 DEF Turn, RestoredPiece
  <2>4. 1 \in 0..Len(b)
    BY <2>1
  <2>5. r \in Seq(Chars) /\ Len(r) = Len(b) - 1 /\ Head_(b, 1) \o r = b
    BY <2>4, SplitBuffer
  <2>6. Bare(r)
    <3> SUFFICES ASSUME NEW i \in 1..Len(r), NEW j \in 1..Len(r)
                 PROVE  SubSeq(r, i, j) \notin Fakes
      OBVIOUS
    <3> DEFINE n == Len(b)
    <3>1. n \in Nat /\ i \in 1..n - 1 /\ j \in 1..n - 1
      BY <2>1, <2>5
    <3>2. 2 \in 1..n /\ n \in 1..n /\ i \in 1..n - 2 + 1 /\ j \in 1..n - 2 + 1
      BY <3>1
    <3>3. SubSeq(SubSeq(b, 2, n), i, j) = SubSeq(b, 2 + i - 1, 2 + j - 1)
      BY <3>2, SubSeqOfSubSeq
    <3>4. 2 + i - 1 \in 1..n /\ 2 + j - 1 \in 1..n /\ 1 + 1 = 2
      BY <3>1
    <3> QED
      BY <1>1, <3>3, <3>4 DEF Rest
  <2>7. r \in P
    BY <1>1, <2>1, <2>5
  <2>8. Exact[r] = r
    BY <2>6, <2>7
  <2>9. Exact[b] = Head_(b, 1) \o Exact[r]
    BY <1>1, <2>3, ExactDef
  <2> QED
    BY <2>5, <2>8, <2>9
<1> HIDE DEF Bare
<1>2. ASSUME NEW b \in Seq(Chars), \A c \in Seq(Chars) : Len(c) < Len(b) => c \in P
      PROVE  b \in P
  BY <1>1, <1>2, ExactDef
<1>3. Seq(Chars) \subseteq P
  <2> HIDE DEF P
  <2> QED
    BY <1>2, ByLength
<1> QED
  BY <1>3 DEF Bare

\* Of text that is held back nothing would be restored: it may be shown as it is.
LEMMA WaitingIsExact ==
    ASSUME Apart, NEW b \in Seq(Chars), Waits(b)
    PROVE  Exact[b] = b
<1>1. CASE b = <<>>
  BY <1>1, ExactDef
<1>2. CASE b # <<>>
  <2>1. Len(b) \in Nat \ {0} /\ ~ HasMatch(b)
    BY <1>2, EmptySeq DEF Waits
  <2>2. PICK f \in Fakes : Len(b) <= Len(f) /\ Head_(f, Len(b)) = b
    BY <1>2 DEF Waits, HasPrefix
  <2>3. f \in Seq(Chars) /\ Len(f) \in Nat
    BY FakesOK, LenProperties
  <2>4. ASSUME NEW i \in 1..Len(b), NEW j \in 1..Len(b), SubSeq(b, i, j) \in Fakes
        PROVE  FALSE
    <3>1. /\ 1 \in 1..Len(f) /\ Len(b) \in 1..Len(f)
          /\ i \in 1..Len(b) - 1 + 1 /\ j \in 1..Len(b) - 1 + 1
          /\ i \in 1..Len(f) /\ j \in 1..Len(f)
          /\ 1 + i - 1 = i /\ 1 + j - 1 = j
      BY <2>1, <2>2, <2>3
    <3>2. SubSeq(SubSeq(f, 1, Len(b)), i, j) = SubSeq(f, i, j)
      BY <2>3, <3>1, SubSeqOfSubSeq
    <3>3. SubSeq(b, i, j) = SubSeq(f, i, j)
      BY <2>2, <3>2 DEF Head_
    <3>4. SubSeq(b, i, j) = f
      BY <2>4, <3>1, <3>3 DEF Apart
    <3>5. Len(SubSeq(b, i, j)) = IF i <= j THEN j - i + 1 ELSE 0
      <4>1. \A k \in i..j : b[k] \in Chars
        BY <2>1, ElementOfSeq
      <4>2. i \in Int /\ j \in Int
        OBVIOUS
      <4> QED
        BY <4>1, <4>2, SubSeqProperties
    <3>6. Len(f) = Len(b)
      BY <2>1, <2>2, <2>3, <3>4, <3>5
    <3>7. b = f
      BY <2>2, <2>3, <3>6, SubSeqFull DEF Head_
    <3>8. Head_(b, Len(b)) \in Fakes /\ Len(b) \in 1..Len(b)
      BY <2>1, <2>2, <3>7
    <3> QED
      BY <2>1, <3>8 DEF HasMatch
  <2> QED
    BY <2>4, BareIsExact
<1> QED
  BY <1>1, <1>2

-----------------------------------------------------------------------------
(* What the streams keep of each channel *)

\* Of the text w, which was sent, a client reads p and b is held back; and it stays
\* so whatever comes: the restore of all is p, then the restore of b and the rest.
Tracks(w, p, b) ==
    \A s \in Seq(Chars) : Exact[w \o s] = p \o Exact[b \o s]

LEMMA TracksNothing == Tracks(<<>>, <<>>, <<>>)
BY ExactReadable, ConcatEmptySeq DEF Tracks

LEMMA TracksNow ==
    ASSUME NEW w \in Seq(Chars), NEW b \in Seq(Chars), NEW p, Tracks(w, p, b)
    PROVE  Exact[w] = p \o Exact[b]
<1>1. Exact[w \o <<>>] = p \o Exact[b \o <<>>]
  BY EmptySeq DEF Tracks
<1> QED
  BY <1>1, ConcatEmptySeq

\* The provider sends more.
LEMMA TracksMore ==
    ASSUME NEW w \in Seq(Chars), NEW b \in Seq(Chars), NEW p, Tracks(w, p, b),
           NEW t \in Seq(Chars)
    PROVE  Tracks(w \o t, p, b \o t)
<1> SUFFICES ASSUME NEW s \in Seq(Chars)
             PROVE  Exact[(w \o t) \o s] = p \o Exact[(b \o t) \o s]
  BY DEF Tracks
<1>1. t \o s \in Seq(Chars)
  BY ConcatProperties
<1>2. Exact[w \o (t \o s)] = p \o Exact[b \o (t \o s)]
  BY <1>1 DEF Tracks
<1>3. (w \o t) \o s = w \o (t \o s) /\ (b \o t) \o s = b \o (t \o s)
  BY Regroup, SMTT(30)
<1> QED
  BY <1>2, <1>3

LEMMA TracksShown ==
    ASSUME NEW w, NEW p \in Seq(Readable), NEW b \in Seq(Chars), Tracks(w, p, b),
           NEW q \in Seq(Readable), NEW c \in Seq(Chars),
           \A s \in Seq(Chars) : Exact[b \o s] = q \o Exact[c \o s]
    PROVE  Tracks(w, p \o q, c)
<1> SUFFICES ASSUME NEW s \in Seq(Chars)
             PROVE  Exact[w \o s] = (p \o q) \o Exact[c \o s]
  BY DEF Tracks
<1>1. Exact[w \o s] = p \o (q \o Exact[c \o s])
  BY DEF Tracks
<1> DEFINE e == Exact[c \o s]
<1>2. e \in Seq(Readable)
  BY ConcatProperties, ExactReadable
<1> HIDE DEF e
<1>3. (p \o q) \o e = p \o (q \o e)
  BY <1>2, ReadableRegroup
<1> QED
  BY <1>1, <1>3 DEF e

\* A turn of the loop, and a whole feed.
LEMMA TracksTurn ==
    ASSUME Apart, NEW w \in Seq(Chars), NEW p \in Seq(Readable), NEW b \in Seq(Chars),
           Tracks(w, p, b), ~ Waits(b)
    PROVE  Tracks(w, p \o RestoredPiece(b), Rest(b, Turn(b)))
<1>1. b # <<>>
  BY DEF Waits
<1>2. RestoredPiece(b) \in Seq(Readable) /\ Rest(b, Turn(b)) \in Seq(Chars)
  BY <1>1, PieceType, TurnOnward, SeqMonotonic DEF Readable
<1>3. \A s \in Seq(Chars) : Exact[b \o s] = RestoredPiece(b) \o Exact[Rest(b, Turn(b)) \o s]
  BY OneTurn
<1> QED
  BY <1>2, <1>3, TracksShown

LEMMA TracksFeed ==
    ASSUME Apart, NEW w \in Seq(Chars), NEW p \in Seq(Readable), NEW b \in Seq(Chars),
           Tracks(w, p, b), NEW isJson \in BOOLEAN
    PROVE  Tracks(w, p \o AsRead(Out(isJson)[b], isJson), Held[b])
<1>1. AsRead(Out(isJson)[b], isJson) \in Seq(Readable) /\ Held[b] \in Seq(Chars)
  BY FeedType, ReadType
<1>2. \A s \in Seq(Chars) :
         Exact[b \o s] = AsRead(Out(isJson)[b], isJson) \o Exact[Held[b] \o s]
  BY FeedRestores, ZenonT(40)
<1> QED
  BY <1>1, <1>2, TracksShown

\* A text is the beginning of itself and more.
LEMMA BeginsLonger ==
    ASSUME NEW x \in Seq(Readable), NEW y \in Seq(Readable)
    PROVE  Len(x) <= Len(x \o y) /\ SubSeq(x \o y, 1, Len(x)) = x
<1>1. Len(x) \in Nat /\ Len(y) \in Nat /\ Len(x \o y) = Len(x) + Len(y)
  BY ConcatProperties, LenProperties
<1>2. SubSeq(x \o y, 1, Len(x)) = x
  <2>1. CASE x = <<>>
    BY <2>1, SubSeqEmpty, EmptySeq
  <2>2. CASE x # <<>>
    <3>1. 1 \in 1..Len(x) /\ Len(x) \in 1..Len(x)
      BY <1>1, <2>2, EmptySeq
    <3>2. SubSeq(x \o y, 1, Len(x)) = SubSeq(x, 1, Len(x))
      BY <3>1, SubSeqOfConcat1
    <3> QED
      BY <3>2, SubSeqFull
  <2> QED
    BY <2>1, <2>2
<1> QED
  BY <1>1, <1>2
=============================================================================
