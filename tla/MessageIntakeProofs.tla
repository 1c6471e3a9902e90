------------------------- MODULE MessageIntakeProofs -------------------------
(***************************************************************************)
(* What JsonRpcCodec and MessageIntake promise, proved for any messages,   *)
(* any number of lines and any chunks.                                     *)
(***************************************************************************)
EXTENDS MessageIntake, SequenceTheorems, FiniteSetTheorems, WellFoundedInduction, TLAPS

-----------------------------------------------------------------------------
(* The first element that a sequence has of a kind. *)

LEMMA MinOfNat ==
  ASSUME NEW S, S \subseteq Nat, S # {}
  PROVE  Min(S) \in S /\ \A y \in S : Min(S) <= y
  <1> DEFINE R == OpToRel(<, Nat)
  <1>1. PICK x \in S : \A y \in S : ~(<<y, x>> \in R)
    BY NatLessThanWellFounded, WFMin
  <1>2. ASSUME NEW y \in S, y < x
        PROVE  <<y, x>> \in R
    <2>1. <<y, x>> \in Nat \X Nat
      OBVIOUS
    <2>2. <<y, x>>[1] < <<y, x>>[2]
      BY <1>2
    <2> QED
      BY Zenon, <2>1, <2>2 DEF OpToRel
  <1> HIDE DEF R
  <1>3. \A y \in S : ~(y < x)
    BY <1>1, <1>2
  <1>4. \A y \in S : x <= y
    BY <1>3
  <1> QED
    BY <1>4 DEF Min

-----------------------------------------------------------------------------
(* The symbols of lines, and where the first line in the buffer ends. *)

LEMMA LineSymbols ==
  ASSUME NEW line \in Lines
  PROVE  /\ line \in Seq(Symbols) /\ DOMAIN line = 1..Len(line)
         /\ line = <<Newline>> => Len(line) = 1 /\ line[1] = Newline
         /\ line # <<Newline>> =>
                /\ Len(line) = 2 /\ line[1] \in Bodies /\ line[1] # Newline /\ line[2] = Newline
  <1>1. CASE line = <<Newline>>
    BY <1>1 DEF Symbols
  <1>2. CASE line # <<Newline>>
    <2>1. PICK b \in Bodies : line = <<b, Newline>>
      BY <1>2 DEF Lines
    <2>2. b # Newline
      BY CodecAssumption DEF Bodies
    <2> QED
      BY <1>2, <2>1, <2>2 DEF Symbols
  <1> QED
    BY <1>1, <1>2

LEMMA LineEndFirst ==
  ASSUME buffer \in Seq(Symbols)
  PROVE  /\ LineEnd \in 0..Len(buffer)
         /\ LineEnd = 0 => \A i \in 1..Len(buffer) : buffer[i] # Newline
         /\ LineEnd # 0 => /\ buffer[LineEnd] = Newline
                           /\ \A i \in 1..(LineEnd - 1) : buffer[i] # Newline
  <1> DEFINE I == {i \in 1..Len(buffer) : buffer[i] = Newline}
  <1>1. LineEnd = IF I # {} THEN Min(I) ELSE 0
    BY DEF LineEnd, SelectInSeq
  <1>2. I # {} => Min(I) \in I /\ \A i \in I : Min(I) <= i
    <2>1. I \subseteq Nat
      OBVIOUS
    <2> HIDE DEF I
    <2> QED
      BY <2>1, MinOfNat
  <1>3. \A i \in 1..Len(buffer) : buffer[i] = Newline => i \in I
    OBVIOUS
  <1>4. \A i \in I : i \in 1..Len(buffer) /\ buffer[i] = Newline
    OBVIOUS
  <1> HIDE DEF I
  <1>5. Len(buffer) \in Nat
    OBVIOUS
  <1> QED
    BY <1>1, <1>2, <1>3, <1>4, <1>5

-----------------------------------------------------------------------------
(* How many symbols lines have. *)

Empties(n, k) == {j \in (n + 1)..k : Empty(j)}

LEMMA EmptiesFinite ==
  ASSUME NEW n \in Nat, NEW k \in Nat, n <= k
  PROVE  IsFiniteSet(Empties(n, k)) /\ Cardinality(Empties(n, k)) \in 0..(k - n)
  <1>1. IsFiniteSet((n + 1)..k) /\ Cardinality((n + 1)..k) = k - n
    <2> DEFINE a == n + 1
    <2>1. a \in Int /\ k \in Int
      OBVIOUS
    <2> HIDE DEF a
    <2>2. /\ IsFiniteSet(a..k)
          /\ Cardinality(a..k) = IF a > k THEN 0 ELSE k - a + 1
      BY <2>1, FS_Interval
    <2> QED
      BY <2>2 DEF a
  <1>2. Empties(n, k) \in SUBSET ((n + 1)..k)
    BY DEF Empties
  <1>3. IsFiniteSet(Empties(n, k)) /\ Cardinality(Empties(n, k)) <= k - n
    BY <1>1, <1>2, FS_Subset
  <1>4. Cardinality(Empties(n, k)) \in Nat
    BY <1>3, FS_CardinalityType
  <1> QED
    BY <1>3, <1>4

\* One more line at the end, one less at the beginning, and none.
LEMMA WidthLast ==
  ASSUME NEW n \in Nat, NEW k \in Nat, n <= k
  PROVE  /\ Width(n, k) \in Nat /\ k - n <= Width(n, k)
         /\ Width(n, k + 1) = Width(n, k) + IF Empty(k + 1) THEN 1 ELSE 2
  <1>1. Width(n, k) = 2 * (k - n) - Cardinality(Empties(n, k))
    BY DEF Width, Empties
  <1>2. Width(n, k + 1) = 2 * (k + 1 - n) - Cardinality(Empties(n, k + 1))
    BY DEF Width, Empties
  <1>3. Empties(n, k + 1) = Empties(n, k) \union IF Empty(k + 1) THEN {k + 1} ELSE {}
    BY DEF Empties
  <1>4. k + 1 \notin Empties(n, k)
    BY DEF Empties
  <1>5. IsFiniteSet(Empties(n, k)) /\ Cardinality(Empties(n, k)) \in 0..(k - n)
    BY EmptiesFinite
  <1>6. Cardinality(Empties(n, k + 1)) = Cardinality(Empties(n, k)) + IF Empty(k + 1) THEN 1 ELSE 0
    <2>1. CASE Empty(k + 1)
      BY <1>3, <1>4, <1>5, <2>1, FS_AddElement
    <2>2. CASE ~Empty(k + 1)
      BY <1>3, <1>5, <2>2
    <2> QED
      BY <2>1, <2>2
  <1> QED
    BY <1>1, <1>2, <1>5, <1>6

LEMMA WidthFirst ==
  ASSUME NEW n \in Nat, NEW k \in Nat, n < k
  PROVE  Width(n, k) = Width(n + 1, k) + IF Empty(n + 1) THEN 1 ELSE 2
  <1>1. Width(n, k) = 2 * (k - n) - Cardinality(Empties(n, k))
    BY DEF Width, Empties
  <1>2. Width(n + 1, k) = 2 * (k - (n + 1)) - Cardinality(Empties(n + 1, k))
    BY DEF Width, Empties
  <1>3. Empties(n, k) = Empties(n + 1, k) \union IF Empty(n + 1) THEN {n + 1} ELSE {}
    BY DEF Empties
  <1>4. n + 1 \notin Empties(n + 1, k)
    BY DEF Empties
  <1>5. IsFiniteSet(Empties(n + 1, k)) /\ Cardinality(Empties(n + 1, k)) \in Nat
    BY EmptiesFinite
  <1>6. Cardinality(Empties(n, k)) = Cardinality(Empties(n + 1, k)) + IF Empty(n + 1) THEN 1 ELSE 0
    <2>1. CASE Empty(n + 1)
      BY <1>3, <1>4, <1>5, <2>1, FS_AddElement
    <2>2. CASE ~Empty(n + 1)
      BY <1>3, <1>5, <2>2
    <2> QED
      BY <2>1, <2>2
  <1> QED
    BY <1>1, <1>2, <1>5, <1>6

LEMMA WidthNone ==
  ASSUME NEW n \in Nat
  PROVE  Width(n, n) = 0
  <1>1. {j \in (n + 1)..n : Empty(j)} = {}
    OBVIOUS
  <1> QED
    BY <1>1, FS_EmptySet DEF Width

LEMMA WidthSame ==
  ASSUME NEW n \in Nat, NEW k \in Nat, \A j \in (n + 1)..k : written'[j] = written[j]
  PROVE  Width(n, k)' = Width(n, k)
  <1>1. {j \in (n + 1)..k : Empty(j)'} = {j \in (n + 1)..k : Empty(j)}
    BY DEF Empty
  <1> QED
    BY <1>1 DEF Width

-----------------------------------------------------------------------------
(* How many messages are due. *)

LEMMA DueFinite ==
  ASSUME written \in Seq(Lines)
  PROVE  /\ Len(written) \in Nat /\ Due \subseteq 1..Len(written) /\ Due \subseteq Nat
         /\ IsFiniteSet(Due) /\ Cardinality(Due) \in Nat
  <1>1. Len(written) \in Nat /\ DOMAIN written = 1..Len(written)
    OBVIOUS
  <1>2. Due \subseteq 1..Len(written) /\ Due \subseteq Nat
    BY <1>1 DEF Due
  <1>3. IsFiniteSet(1..Len(written))
    BY <1>1, FS_Interval
  <1>4. IsFiniteSet(Due)
    BY <1>2, <1>3, FS_Subset
  <1> QED
    BY <1>1, <1>2, <1>4, FS_CardinalityType

LEMMA RankFinite ==
  ASSUME written \in Seq(Lines), NEW k \in Nat
  PROVE  /\ IsFiniteSet({j \in Due : j <= k}) /\ Rank(k) \in Nat
         /\ Rank(k) <= Cardinality(Due)
  <1>1. {j \in Due : j <= k} \in SUBSET Due
    OBVIOUS
  <1>2. IsFiniteSet({j \in Due : j <= k}) /\ Rank(k) <= Cardinality(Due)
    BY <1>1, DueFinite, FS_Subset DEF Rank
  <1>3. Rank(k) \in Nat
    BY <1>2, FS_CardinalityType DEF Rank
  <1> QED
    BY <1>2, <1>3

LEMMA RankNext ==
  ASSUME written \in Seq(Lines), NEW k \in Nat
  PROVE  Rank(k + 1) = Rank(k) + IF k + 1 \in Due THEN 1 ELSE 0
  <1> DEFINE Before == {j \in Due : j <= k}
  <1>1. IsFiniteSet(Before) /\ Cardinality(Before) \in Nat /\ Rank(k) = Cardinality(Before)
    BY RankFinite DEF Rank
  <1>2. {j \in Due : j <= k + 1} = Before \union IF k + 1 \in Due THEN {k + 1} ELSE {}
    BY DueFinite
  <1>3. k + 1 \notin Before
    OBVIOUS
  <1> HIDE DEF Before
  <1>4. CASE k + 1 \in Due
    <2>1. Cardinality(Before \union {k + 1}) = Cardinality(Before) + 1
      BY <1>1, <1>3, FS_AddElement
    <2> QED
      BY <1>1, <1>2, <1>4, <2>1 DEF Rank
  <1>5. CASE k + 1 \notin Due
    <2>1. {j \in Due : j <= k + 1} = Before
      BY <1>2, <1>5
    <2>2. Rank(k + 1) = Cardinality(Before)
      BY <2>1 DEF Rank
    <2> QED
      BY <1>1, <1>5, <2>2
  <1> QED
    BY <1>4, <1>5

LEMMA RankZero ==
  ASSUME written \in Seq(Lines)
  PROVE  Rank(0) = 0
  <1>1. {j \in Due : j <= 0} = {}
    BY DueFinite
  <1> QED
    BY <1>1, FS_EmptySet DEF Rank

LEMMA RankLast ==
  ASSUME written \in Seq(Lines)
  PROVE  Rank(Len(written)) = Cardinality(Due)
  <1>1. {j \in Due : j <= Len(written)} = Due
    <2>1. Len(written) \in Nat
      OBVIOUS
    <2> QED
      BY <2>1, DueFinite
  <1> QED
    BY <1>1 DEF Rank

LEMMA RankMonotone ==
  ASSUME written \in Seq(Lines), NEW k \in Nat, NEW l \in Nat, k <= l
  PROVE  Rank(k) <= Rank(l)
  <1>1. {j \in Due : j <= k} \in SUBSET {j \in Due : j <= l}
    BY DueFinite
  <1>2. IsFiniteSet({j \in Due : j <= l})
    BY RankFinite
  <1> QED
    BY <1>1, <1>2, FS_Subset DEF Rank

\* A later message has a higher rank.
LEMMA RankStrict ==
  ASSUME written \in Seq(Lines), NEW k \in Nat, NEW l \in Due, k < l
  PROVE  Rank(k) < Rank(l)
  <1>1. l \in Nat /\ l - 1 \in Nat /\ k <= l - 1 /\ (l - 1) + 1 = l
    BY DueFinite
  <1>2. Rank(l) = Rank(l - 1) + 1
    BY <1>1, RankNext
  <1>3. Rank(k) <= Rank(l - 1) /\ Rank(k) \in Nat /\ Rank(l - 1) \in Nat
    BY <1>1, RankMonotone, RankFinite
  <1> QED
    BY <1>2, <1>3

\* A line that is added changes no rank before it.
LEMMA RankSame ==
  ASSUME written \in Seq(Lines), NEW line \in Lines, written' = Append(written, line),
         NEW k \in 0..Len(written)
  PROVE  /\ Rank(k)' = Rank(k)
         /\ \A j \in 1..Len(written) : j \in Due' <=> j \in Due
  <1>1. /\ Len(written) \in Nat /\ DOMAIN written = 1..Len(written)
        /\ DOMAIN written' = 1..(Len(written) + 1)
        /\ \A j \in 1..Len(written) : written'[j] = written[j]
    OBVIOUS
  <1>2. \A j \in 1..Len(written) : j \in Due' <=> j \in Due
    BY <1>1 DEF Due, Empty
  <1>3. {j \in Due : j <= k}' = {j \in Due : j <= k}
    <2>1. Due \subseteq 1..Len(written) /\ Due' \subseteq 1..(Len(written) + 1)
      BY <1>1 DEF Due
    <2>2. \A j \in 1..(Len(written) + 1) : j <= k => j \in 1..Len(written)
      BY <1>1
    <2>3. \A j : j \in Due' /\ j <= k <=> j \in Due /\ j <= k
      BY <1>1, <1>2, <2>1, <2>2
    <2> QED
      BY <2>3
  <1> QED
    BY <1>2, <1>3 DEF Rank

-----------------------------------------------------------------------------
(* The frames are exact in every state of the inductive invariant. *)

LEMMA FramesOfInvariant ==
  ASSUME CodecInv
  PROVE  FramesExact
  <1>1. written \in Seq(Lines) /\ Len(written) \in Nat /\ out \in Seq(Messages)
    BY DEF CodecInv, TypeOK
  <1>2. PICK n \in 0..Len(written) : StillThere(n) /\ HandedOver(n)
    BY DEF CodecInv
  <1>3. n \in Nat /\ Len(out) = Rank(n) /\ DOMAIN out = 1..Len(out)
    BY <1>1, <1>2 DEF HandedOver
  <1>4. ASSUME NEW k \in Due, Rank(k) \in DOMAIN out
        PROVE  out[Rank(k)] = written[k][1]
    <2>1. k \in Nat /\ Rank(k) \in Nat /\ Rank(n) \in Nat
      BY <1>1, <1>3, DueFinite, RankFinite
    <2>2. ~(n < k)
      BY <1>1, <1>3, <1>4, <2>1, RankStrict
    <2> QED
      BY <1>2, <1>3, <2>1, <2>2 DEF HandedOver
  <1>5. Len(out) <= Cardinality(Due)
    BY <1>1, <1>3, RankFinite
  <1>6. ASSUME end = "clean"
        PROVE  Len(out) = Cardinality(Due)
    <2>1. Len(Stream) = 0
      BY <1>6 DEF CodecInv
    <2>2. Width(n, Len(written)) \in Nat /\ Len(written) - n <= Width(n, Len(written))
      BY <1>1, <1>2, <1>3, WidthLast
    <2>3. Width(n, Len(written)) = 0
      BY <1>2, <2>1, <2>2 DEF StillThere
    <2>4. n = Len(written)
      BY <1>1, <1>2, <2>2, <2>3
    <2> QED
      BY <1>1, <1>3, <2>4, RankLast
  <1> QED
    BY <1>4, <1>5, <1>6 DEF FramesExact

-----------------------------------------------------------------------------
(* The stream: what the buffer and the pipe hold, one after the other. *)

LEMMA StreamAt ==
  ASSUME TypeOK
  PROVE  /\ Stream \in Seq(Symbols) /\ Len(Stream) = Len(buffer) + Len(pipe)
         /\ Len(buffer) \in Nat /\ Len(pipe) \in Nat /\ DOMAIN Stream = 1..Len(Stream)
         /\ \A i \in 1..Len(buffer) : Stream[i] = buffer[i]
         /\ \A i \in 1..Len(pipe) : Stream[Len(buffer) + i] = pipe[i]
  <1>1. buffer \in Seq(Symbols) /\ pipe \in Seq(Symbols)
    BY DEF TypeOK
  <1>2. Len(buffer) \in Nat /\ Len(pipe) \in Nat
    BY <1>1
  <1>3. /\ buffer \o pipe \in Seq(Symbols) /\ Len(buffer \o pipe) = Len(buffer) + Len(pipe)
        /\ \A i \in 1..(Len(buffer) + Len(pipe)) :
            (buffer \o pipe)[i] = IF i <= Len(buffer) THEN buffer[i] ELSE pipe[i - Len(buffer)]
    BY <1>1, ConcatProperties
  <1>4. DOMAIN Stream = 1..Len(Stream)
    BY <1>3 DEF Stream
  <1> QED
    BY <1>2, <1>3, <1>4 DEF Stream

LEMMA SymbolsAssociate ==
  ASSUME NEW s \in Seq(Symbols), NEW t \in Seq(Symbols), NEW u \in Seq(Symbols)
  PROVE  (s \o t) \o u = s \o (t \o u)
  BY ConcatAssociative, SMTT(60)

\* The first d symbols leave the stream.
Dropped(d) ==
    /\ Len(Stream') = Len(Stream) - d /\ DOMAIN Stream' = 1..Len(Stream')
    /\ \A i \in 1..Len(Stream') : Stream'[i] = Stream[i + d]

\* The decoder takes the symbols up to the end of the line from the buffer.
LEMMA RestOfStream ==
  ASSUME TypeOK, buffer' = Rest, pipe' = pipe
  PROVE  /\ buffer' \in Seq(Symbols) /\ Stream' \in Seq(Symbols)
         /\ LineEnd \in 0..Len(Stream) /\ Dropped(LineEnd)
  <1>1. buffer \in Seq(Symbols) /\ pipe \in Seq(Symbols)
    BY DEF TypeOK
  <1>2. LineEnd \in 0..Len(buffer) /\ Len(buffer) \in Nat
    BY <1>1, LineEndFirst
  <1> DEFINE e == LineEnd
  <1>3. buffer' = SubSeq(buffer, e + 1, Len(buffer))
    BY DEF Rest
  <1> HIDE DEF e
  <1>4. e \in 0..Len(buffer)
    BY <1>2 DEF e
  <1>5. /\ buffer' \in Seq(Symbols) /\ Len(buffer') = Len(buffer) - e
        /\ \A i \in 1..Len(buffer') : buffer'[i] = buffer[e + i]
    <2>1. \A i \in (e + 1)..Len(buffer) : buffer[i] \in Symbols
      BY <1>1, <1>4
    <2>2. e + 1 \in Int /\ Len(buffer) \in Int
      BY <1>2, <1>4
    <2>3. /\ SubSeq(buffer, e + 1, Len(buffer)) \in Seq(Symbols)
          /\ Len(SubSeq(buffer, e + 1, Len(buffer)))
                = IF e + 1 <= Len(buffer) THEN Len(buffer) - (e + 1) + 1 ELSE 0
          /\ \A i \in 1..(Len(buffer) - (e + 1) + 1) :
                SubSeq(buffer, e + 1, Len(buffer))[i] = buffer[e + 1 + i - 1]
      BY <2>1, <2>2, SubSeqProperties
    <2> QED
      BY <1>2, <1>3, <1>4, <2>3
  <1>6. /\ buffer' \o pipe \in Seq(Symbols) /\ Len(buffer' \o pipe) = Len(buffer') + Len(pipe)
        /\ \A i \in 1..(Len(buffer') + Len(pipe)) :
            (buffer' \o pipe)[i] = IF i <= Len(buffer') THEN buffer'[i] ELSE pipe[i - Len(buffer')]
    BY <1>1, <1>5, ConcatProperties, ZenonT(40)
  <1>7. Stream' = buffer' \o pipe
    BY DEF Stream
  <1>8. /\ Len(Stream) = Len(buffer) + Len(pipe) /\ Len(pipe) \in Nat
        /\ \A i \in 1..Len(buffer) : Stream[i] = buffer[i]
        /\ \A i \in 1..Len(pipe) : Stream[Len(buffer) + i] = pipe[i]
    BY StreamAt
  <1>9. Len(Stream') = Len(Stream) - e
    BY <1>2, <1>4, <1>5, <1>6, <1>7, <1>8
  <1>10. ASSUME NEW i \in 1..Len(Stream')
         PROVE  Stream'[i] = Stream[i + e]
    <2>1. CASE i <= Len(buffer')
      BY <1>2, <1>4, <1>5, <1>6, <1>7, <1>8, <2>1
    <2>2. CASE ~(i <= Len(buffer'))
      <3>1. /\ i - Len(buffer') \in 1..Len(pipe)
            /\ i + e = Len(buffer) + (i - Len(buffer'))
        BY <1>2, <1>4, <1>5, <1>6, <1>7, <1>8, <2>2
      <3>2. Stream'[i] = pipe[i - Len(buffer')]
        BY <1>6, <1>7, <2>2
      <3> QED
        BY <1>8, <3>1, <3>2
    <2> QED
      BY <2>1, <2>2
  <1>11. Stream' \in Seq(Symbols) /\ DOMAIN Stream' = 1..Len(Stream')
    BY <1>6, <1>7
  <1> QED
    BY <1>2, <1>4, <1>5, <1>8, <1>9, <1>10, <1>11 DEF e, Dropped

\* Bytes go from the pipe to the buffer.
LEMMA StreamRead ==
  ASSUME TypeOK, NEW k \in 1..Len(pipe), buffer' = buffer \o SubSeq(pipe, 1, k),
         pipe' = SubSeq(pipe, k + 1, Len(pipe))
  PROVE  Stream' = Stream /\ buffer' \in Seq(Symbols) /\ pipe' \in Seq(Symbols)
  <1> DEFINE x == SubSeq(pipe, 1, k)
             y == SubSeq(pipe, k + 1, Len(pipe))
  <1>1. buffer \in Seq(Symbols) /\ pipe \in Seq(Symbols)
    BY DEF TypeOK
  <1>2. k \in Nat /\ Len(pipe) \in Nat /\ \A i \in 1..Len(pipe) : pipe[i] \in Symbols
    BY <1>1
  <1>3. x \in Seq(Symbols) /\ y \in Seq(Symbols)
    <2>1. x \in Seq(Symbols)
      <3>1. \A i \in 1..k : pipe[i] \in Symbols
        BY <1>2
      <3> QED
        BY <1>2, <3>1, SubSeqProperties
    <2>2. y \in Seq(Symbols)
      <3>1. \A i \in (k + 1)..Len(pipe) : pipe[i] \in Symbols
        BY <1>2
      <3>2. k + 1 \in Int /\ Len(pipe) \in Int
        BY <1>2
      <3> QED
        BY <3>1, <3>2, SubSeqProperties
    <2> QED
      BY <2>1, <2>2
  <1>4. x \o y = pipe
    <2>1. 1 \in 1..(Len(pipe) + 1) /\ k \in (1 - 1)..Len(pipe) /\ Len(pipe) \in k..Len(pipe)
      BY <1>2
    <2>2. x \o y = SubSeq(pipe, 1, Len(pipe))
      BY <1>1, <2>1, ConcatAdjacentSubSeq
    <2> QED
      BY <1>1, <2>2, SubSeqFull
  <1>5. buffer' = buffer \o x /\ pipe' = y
    OBVIOUS
  <1> HIDE DEF x, y
  <1>6. (buffer \o x) \o y = buffer \o (x \o y)
    BY <1>1, <1>3, SymbolsAssociate, Zenon
  <1>7. buffer \o x \in Seq(Symbols)
    BY <1>1, <1>3, ConcatProperties
  <1> QED
    BY <1>3, <1>4, <1>5, <1>6, <1>7 DEF Stream

-----------------------------------------------------------------------------
(* The inductive invariant. *)

\* What depends on the lines alone.
LEMMA SameLines ==
  ASSUME written' = written
  PROVE  /\ Due' = Due /\ \A k : Empty(k)' = Empty(k)
         /\ \A n, k : Width(n, k)' = Width(n, k)
         /\ \A k : Rank(k)' = Rank(k)
  BY DEF Due, Empty, Width, Rank

\* A step that leaves the lines, the stream and what has been handed over.
LEMMA StreamStays ==
  ASSUME NEW n \in 0..Len(written), StillThere(n), HandedOver(n),
         written' = written, Stream' = Stream, out' = out, closed' = closed,
         end' = "no" => end = "no"
  PROVE  StillThere(n)' /\ HandedOver(n)'
  <1>1. StillThere(n)'
    BY SameLines DEF StillThere
  <1>2. HandedOver(n)'
    BY SameLines DEF HandedOver
  <1> QED
    BY <1>1, <1>2

\* Width(n, k - 1) and i make a place among the symbols of the lines after n.
LEMMA PlaceOf ==
  ASSUME written \in Seq(Lines), NEW n \in 0..Len(written), NEW k \in (n + 1)..Len(written),
         NEW i \in DOMAIN written[k]
  PROVE  /\ n \in Nat /\ k - 1 \in Nat /\ n <= k - 1 /\ i \in Nat /\ i >= 1
         /\ Width(n, k - 1) \in Nat
  <1>1. Len(written) \in Nat /\ n \in Nat /\ k - 1 \in Nat /\ n <= k - 1 /\ k \in 1..Len(written)
    OBVIOUS
  <1>2. written[k] \in Lines
    BY <1>1
  <1>3. DOMAIN written[k] = 1..Len(written[k]) /\ Len(written[k]) \in Nat
    BY <1>2, LineSymbols
  <1>4. Width(n, k - 1) \in Nat
    BY <1>1, WidthLast
  <1> QED
    BY <1>1, <1>3, <1>4

LEMMA Shifted ==
  ASSUME NEW w \in Nat, NEW d \in Nat, NEW i \in Nat, i >= 1, NEW l \in Nat, (w + d) + i \in 1..l
  PROVE  w + i \in 1..(l - d)
  OBVIOUS

\* The next line leaves the stream.
LEMMA LineTaken ==
  ASSUME TypeOK, NEW n \in 0..Len(written), n < Len(written), StillThere(n),
         written' = written, closed' = closed,
         NEW d, d = Len(written[n + 1]), Dropped(d)
  PROVE  StillThere(n + 1)'
  <1>1. /\ written \in Seq(Lines) /\ Len(written) \in Nat /\ n \in Nat /\ n + 1 \in 1..Len(written)
        /\ Len(Stream) \in Nat /\ DOMAIN Stream = 1..Len(Stream)
    BY StreamAt DEF TypeOK
  <1>2. d = (IF Empty(n + 1) THEN 1 ELSE 2) /\ d \in Nat
    <2>1. written[n + 1] \in Lines
      BY <1>1
    <2>2. Len(written[n + 1]) = IF written[n + 1] = <<Newline>> THEN 1 ELSE 2
      BY <2>1, LineSymbols
    <2> QED
      BY ONLY d = Len(written[n + 1]), <2>2 DEF Empty
  <1>3. \A k \in (n + 1)..Len(written) : Width(n, k) = Width(n + 1, k) + d
    BY <1>1, <1>2, WidthFirst
  <1>4. ASSUME NEW k \in (n + 2)..Len(written), NEW i \in DOMAIN written[k]
        PROVE  Width(n + 1, k - 1) + i \in DOMAIN Stream'
               /\ Stream'[Width(n + 1, k - 1) + i] = written[k][i]
    <2>1. /\ k \in (n + 1)..Len(written) /\ k - 1 \in (n + 1)..Len(written)
          /\ n + 1 \in 0..Len(written) /\ k \in ((n + 1) + 1)..Len(written)
      BY <1>1
    <2>2. i \in Nat /\ i >= 1 /\ Width(n + 1, k - 1) \in Nat
      BY <1>1, <2>1, PlaceOf
    <2>3. Width(n, k - 1) = Width(n + 1, k - 1) + d
      BY <1>3, <2>1
    <2>4. Width(n, k - 1) + i \in DOMAIN Stream /\ Stream[Width(n, k - 1) + i] = written[k][i]
      BY <2>1 DEF StillThere
    <2>5. Width(n + 1, k - 1) + i \in 1..Len(Stream')
      <3>1. Len(Stream') = Len(Stream) - d
        BY Zenon DEF Dropped
      <3>2. (Width(n + 1, k - 1) + d) + i \in 1..Len(Stream)
        BY <1>1, <2>3, <2>4, Zenon
      <3>3. Width(n + 1, k - 1) + i \in 1..(Len(Stream) - d)
        BY <1>1, <1>2, <2>2, <3>2, Shifted
      <3> QED
        BY <3>1, <3>3, Zenon
    <2>6. (Width(n + 1, k - 1) + i) + d = Width(n, k - 1) + i
      BY <1>2, <2>2, <2>3
    <2> QED
      BY <2>4, <2>5, <2>6 DEF Dropped
  <1>5. Width(n, Len(written)) = Width(n + 1, Len(written)) + d /\ Width(n + 1, Len(written)) \in Nat
    <2>1. n + 1 \in Nat /\ n + 1 <= Len(written) /\ Len(written) \in (n + 1)..Len(written)
      BY ONLY <1>1
    <2> QED
      BY <1>1, <1>3, <2>1, WidthLast
  <1>6. \/ Len(Stream') = Width(n + 1, Len(written))
        \/ /\ closed /\ Len(Stream') = Width(n + 1, Len(written)) + 1
           /\ Stream'[Len(Stream')] \in Garbage
    <2>1. CASE Len(Stream) = Width(n, Len(written))
      BY <1>2, <1>5, <2>1 DEF Dropped
    <2>2. CASE closed /\ Len(Stream) = Width(n, Len(written)) + 1 /\ Stream[Len(Stream)] \in Garbage
      <3>1. Len(Stream') = Width(n + 1, Len(written)) + 1
        BY <1>2, <1>5, <2>2 DEF Dropped
      <3>2. Len(Stream') \in 1..Len(Stream') /\ Len(Stream') + d = Len(Stream)
        <4>1. Len(Stream') = Len(Stream) - d
          BY DEF Dropped
        <4>2. Len(Stream) \in Nat /\ d \in Nat /\ Width(n + 1, Len(written)) \in Nat
          BY <1>1, <1>2, <1>5
        <4> QED
          BY ONLY <3>1, <4>1, <4>2
      <3> QED
        BY <2>2, <3>1, <3>2 DEF Dropped
    <2> QED
      BY <2>1, <2>2 DEF StillThere
  <1>7. (n + 1) + 1 = n + 2
    BY <1>1
  <1> QED
    BY <1>4, <1>6, <1>7, SameLines DEF StillThere

\* If there is a line in the buffer, it is the next one written.
LEMMA NextLine ==
  ASSUME TypeOK, NEW n \in 0..Len(written), StillThere(n), LineEnd # 0
  PROVE  /\ n < Len(written) /\ LineEnd = Len(written[n + 1]) /\ written[n + 1] \in Lines
         /\ LineEnd > 1 <=> ~Empty(n + 1)
         /\ buffer[1] = written[n + 1][1]
  <1>1. /\ written \in Seq(Lines) /\ Len(written) \in Nat /\ n \in Nat /\ n + 1 \in Nat
        /\ Len(buffer) \in Nat /\ Len(pipe) \in Nat /\ Len(Stream) = Len(buffer) + Len(pipe)
        /\ \A i \in 1..Len(buffer) : Stream[i] = buffer[i]
    BY StreamAt DEF TypeOK
  <1>2. /\ LineEnd \in 1..Len(buffer) /\ buffer[LineEnd] = Newline
        /\ \A i \in 1..(LineEnd - 1) : buffer[i] # Newline
    <2>1. buffer \in Seq(Symbols)
      BY DEF TypeOK
    <2> QED
      BY <2>1, LineEndFirst
  <1>3. Width(n, n) = 0
    BY <1>1, WidthNone
  <1>4. n < Len(written)
    <2> SUFFICES ASSUME n = Len(written)
                 PROVE  FALSE
      BY <1>1
    <2>1. Len(Stream) = 1 /\ Stream[1] \in Garbage
      BY <1>1, <1>2, <1>3 DEF StillThere
    <2>2. LineEnd = 1 /\ 1 \in 1..Len(buffer)
      <3>1. Len(buffer) \in Nat /\ Len(pipe) \in Nat /\ Len(buffer) + Len(pipe) = 1
        BY <1>1, <2>1
      <3>2. LineEnd \in 1..Len(buffer)
        BY <1>2
      <3> QED
        BY ONLY <3>1, <3>2
    <2>3. Stream[1] = Newline
      BY <1>1, <1>2, <2>2
    <2> QED
      BY <2>1, <2>3, CodecAssumption
  <1>5. written[n + 1] \in Lines
    BY <1>1, <1>4
  <1>6. \A i \in DOMAIN written[n + 1] : Stream[i] = written[n + 1][i]
    <2>1. n + 1 \in (n + 1)..Len(written) /\ (n + 1) - 1 = n
      BY <1>1, <1>4
    <2>2. \A i \in DOMAIN written[n + 1] : Stream[Width(n, n) + i] = written[n + 1][i]
      BY <2>1 DEF StillThere
    <2>3. \A i \in DOMAIN written[n + 1] : Width(n, n) + i = i
      BY <1>3, <1>5, LineSymbols
    <2> QED
      BY <2>2, <2>3
  <1>7. buffer[1] = Stream[1] /\ 1 \in 1..Len(buffer)
    BY <1>1, <1>2
  <1>8. CASE Empty(n + 1)
    <2>1. DOMAIN written[n + 1] = 1..1 /\ Len(written[n + 1]) = 1 /\ written[n + 1][1] = Newline
      BY <1>5, <1>8, LineSymbols DEF Empty
    <2>2. buffer[1] = Newline /\ buffer[1] = written[n + 1][1]
      BY <1>6, <1>7, <2>1
    <2>3. LineEnd = 1
      BY <1>2, <2>2
    <2> QED
      BY <1>4, <1>5, <1>8, <2>1, <2>2, <2>3
  <1>9. CASE ~Empty(n + 1)
    <2>1. /\ DOMAIN written[n + 1] = 1..2 /\ Len(written[n + 1]) = 2
          /\ written[n + 1][1] # Newline /\ written[n + 1][2] = Newline
      BY <1>5, <1>9, LineSymbols DEF Empty
    <2>2. buffer[1] = written[n + 1][1] /\ buffer[1] # Newline
      BY <1>6, <1>7, <2>1
    <2>3. LineEnd >= 2 /\ 2 \in 1..Len(buffer)
      BY <1>2, <2>2
    <2>4. buffer[2] = Newline
      BY <1>1, <1>6, <2>1, <2>3
    <2>5. LineEnd = 2
      BY <1>2, <2>3, <2>4
    <2> QED
      BY <1>4, <1>5, <1>9, <2>1, <2>2, <2>5
  <1> QED
    BY <1>8, <1>9

\* A line that is decoded: it is skipped, or refused, or its message handed over.
LEMMA LineHanded ==
  ASSUME written \in Seq(Lines), NEW n \in 0..Len(written), n < Len(written), HandedOver(n),
         written' = written, out \in Seq(Messages), end = "no",
         \/ Empty(n + 1) /\ out' = out
         \/ /\ ~Empty(n + 1) /\ written[n + 1][1] \in Garbage
            /\ out' = out /\ end' = "error"
         \/ /\ ~Empty(n + 1) /\ written[n + 1][1] \in Messages
            /\ out' = Append(out, written[n + 1][1])
  PROVE  HandedOver(n + 1)'
  <1>1. /\ Len(written) \in Nat /\ n \in Nat /\ n + 1 \in 1..Len(written)
        /\ DOMAIN written = 1..Len(written) /\ written[n + 1] \in Lines
    OBVIOUS
  <1>2. /\ Len(out) = Rank(n) /\ Rank(n) \in Nat
        /\ \A j \in 1..n : written[j][1] \notin Garbage
    BY <1>1, RankFinite DEF HandedOver
  <1>3. n + 1 \in Due <=> ~Empty(n + 1) /\ written[n + 1][1] \notin Garbage
    <2>1. \A j \in 1..(n + 1) : j = n + 1 \/ j \in 1..n
      BY <1>1
    <2>2. n + 1 \in 1..(n + 1)
      BY <1>1
    <2> QED
      BY <1>1, <1>2, <2>1, <2>2 DEF Due
  <1>4. Rank(n + 1) = Rank(n) + IF n + 1 \in Due THEN 1 ELSE 0
    BY <1>1, RankNext
  <1>5. \A k \in Due : k <= n + 1 => k <= n \/ k = n + 1
    BY <1>1, DueFinite
  <1>6. CASE n + 1 \notin Due
    <2>1. out' = out
      BY <1>3, <1>6, CodecAssumption
    <2>2. Rank(n + 1) = Rank(n)
      BY <1>2, <1>4, <1>6
    <2>3. \A k \in Due : k <= n + 1 => out'[Rank(k)] = written[k][1]
      BY <1>5, <1>6, <2>1 DEF HandedOver
    <2>4. end' = "no" => \A j \in 1..(n + 1) : written[j][1] \notin Garbage
      <3>1. Empty(n + 1) => written[n + 1][1] = Newline
        BY <1>1, LineSymbols DEF Empty
      <3>2. end' = "no" => written[n + 1][1] \notin Garbage
        BY <3>1, <1>3, <1>6, CodecAssumption
      <3>3. \A j \in 1..(n + 1) : j = n + 1 \/ j \in 1..n
        BY <1>1
      <3> QED
        BY <1>2, <3>2, <3>3
    <2> QED
      BY <1>2, <2>1, <2>2, <2>3, <2>4, SameLines DEF HandedOver
  <1>7. CASE n + 1 \in Due
    <2>1. out' = Append(out, written[n + 1][1]) /\ written[n + 1][1] \in Messages
      BY <1>3, <1>7, CodecAssumption
    <2>2. /\ Rank(n + 1) = Rank(n) + 1 /\ Len(out') = Len(out) + 1
          /\ out'[Len(out) + 1] = written[n + 1][1]
          /\ \A i \in 1..Len(out) : out'[i] = out[i]
      BY <1>2, <1>4, <1>7, <2>1, AppendProperties
    <2>3. ASSUME NEW k \in Due, k <= n
          PROVE  out'[Rank(k)] = written[k][1]
      <3>1. k \in Nat /\ k >= 1 /\ k - 1 \in Nat /\ k - 1 < k
        BY DueFinite
      <3>2. Rank(k) <= Rank(n) /\ Rank(k) \in Nat /\ Rank(k - 1) < Rank(k) /\ Rank(k - 1) \in Nat
        BY <1>1, <2>3, <3>1, RankMonotone, RankFinite, RankStrict
      <3>3. Rank(k) \in 1..Len(out)
        BY <1>2, <3>2
      <3> QED
        BY <2>2, <2>3, <3>3 DEF HandedOver
    <2>4. \A k \in Due : k <= n + 1 => out'[Rank(k)] = written[k][1]
      BY <1>2, <1>5, <2>2, <2>3
    <2>5. \A j \in 1..(n + 1) : written[j][1] \notin Garbage
      BY <1>7 DEF Due
    <2> QED
      BY <1>2, <2>2, <2>4, <2>5, SameLines DEF HandedOver
  <1> QED
    BY <1>6, <1>7

\* decode, whatever it finds: a frame, an error, an empty line, or no line yet.
LEMMA DecodeEffect ==
  ASSUME DecodeLine \/ DecodeNone \/ DecodeEof
  PROVE  /\ end = "no" /\ buffer' = Rest
         /\ written' = written /\ pipe' = pipe /\ closed' = closed /\ eof' = eof
         /\ Decoded = "none" => out' = out
         /\ Decoded = "error" => out' = out /\ end' = "error"
         /\ Decoded = "frame" => out' = Append(out, buffer[1]) /\ end' = end
         /\ end' = "clean" => eof /\ Decoded = "none" /\ Rest = <<>>
         /\ Decoded = "none" => readable' = FALSE
         /\ Decoded # "none" => readable' = readable
         /\ end' \in {"no", "clean", "error"}
  <1>1. CASE DecodeLine
    BY <1>1 DEF DecodeLine, Decoded
  <1>2. CASE DecodeNone
    BY <1>2 DEF DecodeNone, Decoded
  <1>3. CASE DecodeEof
    BY <1>3 DEF DecodeEof, Decoded
  <1> QED
    BY <1>1, <1>2, <1>3

LEMMA DecodeFinds ==
  ASSUME TypeOK
  PROVE  /\ Decoded = "none" <=> LineEnd <= 1
         /\ Decoded = "error" <=> LineEnd > 1 /\ buffer[1] \in Garbage
         /\ Decoded = "frame" <=> LineEnd > 1 /\ buffer[1] \in Messages
  <1>1. buffer \in Seq(Symbols)
    BY DEF TypeOK
  <1>2. LineEnd > 1 => buffer[1] \in Bodies
    BY <1>1, LineEndFirst DEF Symbols
  <1>3. LineEnd > 1 => (buffer[1] \in Messages <=> buffer[1] \notin Garbage)
    BY <1>2, CodecAssumption DEF Bodies
  <1>4. LineEnd \in Nat
    BY <1>1, LineEndFirst
  <1> QED
    BY <1>3, <1>4 DEF Decoded

LEMMA DecodeKeepsType ==
  ASSUME TypeOK, DecodeLine \/ DecodeNone \/ DecodeEof
  PROVE  TypeOK'
  <1>1. buffer' \in Seq(Symbols)
    BY DecodeEffect, RestOfStream
  <1>2. out' \in Seq(Messages)
    <2>1. CASE Decoded = "frame"
      <3>1. out' = Append(out, buffer[1])
        BY <2>1, DecodeEffect
      <3>2. buffer[1] \in Messages /\ out \in Seq(Messages)
        BY <2>1, DecodeFinds DEF TypeOK
      <3> QED
        BY <3>1, <3>2
    <2>2. CASE Decoded # "frame"
      <3>1. Decoded = "none" \/ Decoded = "error"
        BY <2>2 DEF Decoded
      <3> QED
        BY <3>1, DecodeEffect DEF TypeOK
    <2> QED
      BY <2>1, <2>2
  <1>3. readable' \in BOOLEAN
    BY DecodeEffect DEF TypeOK
  <1> QED
    BY <1>1, <1>2, <1>3, DecodeEffect DEF TypeOK

LEMMA DecodeKeeps ==
  ASSUME CodecInv, DecodeLine \/ DecodeNone \/ DecodeEof
  PROVE  CodecInv'
  <1>1. TypeOK /\ written \in Seq(Lines) /\ Len(written) \in Nat /\ out \in Seq(Messages)
    BY DEF CodecInv, TypeOK
  <1>2. TypeOK'
    BY <1>1, DecodeKeepsType
  <1>3. PICK n \in 0..Len(written) : StillThere(n) /\ HandedOver(n)
    BY DEF CodecInv
  <1>4. /\ end = "no" /\ buffer' = Rest /\ written' = written /\ pipe' = pipe
        /\ closed' = closed /\ eof' = eof
    BY DecodeEffect
  <1>5. LineEnd \in 0..Len(Stream) /\ Dropped(LineEnd) /\ Stream' \in Seq(Symbols)
    BY <1>1, <1>4, RestOfStream
  <1>6. (eof => closed /\ pipe = <<>>)'
    BY <1>4 DEF CodecInv
  <1>7. (end = "clean" => eof /\ Stream = <<>>)'
    <2>1. end' = "clean" => eof' /\ buffer' = <<>> /\ pipe' = <<>>
      BY <1>4, <1>6, DecodeEffect
    <2> QED
      BY <2>1 DEF Stream
  <1>8. \E m \in 0..Len(written) : StillThere(m)' /\ HandedOver(m)'
    <2>1. CASE LineEnd = 0
      <3>1. Decoded = "none"
        BY <1>1, <2>1, DecodeFinds
      <3>2. out' = out
        BY <3>1, DecodeEffect
      <3>3. Stream' = Stream
        <4>1. Stream \in Seq(Symbols) /\ Len(Stream) \in Nat
          BY <1>1, StreamAt
        <4>2. Len(Stream') = Len(Stream) /\ \A i \in 1..Len(Stream') : Stream'[i] = Stream[i]
          <5>1. Dropped(0)
            BY <1>5, <2>1
          <5>2. Len(Stream') = Len(Stream)
            BY <4>1, <5>1 DEF Dropped
          <5>3. \A i \in 1..Len(Stream') : i + 0 = i
            BY <4>1, <5>2
          <5> QED
            BY <5>1, <5>2, <5>3 DEF Dropped
        <4> QED
          BY <1>5, <4>1, <4>2, SeqEqual
      <3>4. StillThere(n)' /\ HandedOver(n)'
        BY <1>3, <1>4, <3>2, <3>3, StreamStays
      <3> QED
        BY <3>4
    <2>2. CASE LineEnd # 0
      <3>1. /\ n < Len(written) /\ LineEnd = Len(written[n + 1]) /\ buffer[1] = written[n + 1][1]
            /\ LineEnd > 1 <=> ~Empty(n + 1)
        BY <1>1, <1>3, <2>2, NextLine
      <3>2. StillThere(n + 1)'
        BY <1>1, <1>3, <1>4, <1>5, <3>1, LineTaken
      <3>3. \/ Empty(n + 1) /\ out' = out
            \/ /\ ~Empty(n + 1) /\ written[n + 1][1] \in Garbage
               /\ out' = out /\ end' = "error"
            \/ /\ ~Empty(n + 1) /\ written[n + 1][1] \in Messages
               /\ out' = Append(out, written[n + 1][1])
        <4>1. Decoded = "none" \/ Decoded = "error" \/ Decoded = "frame"
          BY DEF Decoded
        <4>2. Decoded = "none" => LineEnd <= 1
          BY <1>1, DecodeFinds
        <4>3. LineEnd \in Nat
          BY <1>5
        <4>4. Decoded = "none" => Empty(n + 1) /\ out' = out
          <5>1. Decoded = "none" => ~(LineEnd > 1)
            BY <4>2, <4>3
          <5>2. Decoded = "none" => out' = out
            BY DecodeEffect
          <5> QED
            BY <3>1, <5>1, <5>2
        <4>5. Decoded = "error" => ~Empty(n + 1) /\ written[n + 1][1] \in Garbage /\ out' = out /\ end' = "error"
          BY <1>1, <3>1, DecodeFinds, DecodeEffect
        <4>6. Decoded = "frame" => ~Empty(n + 1) /\ written[n + 1][1] \in Messages
                                   /\ out' = Append(out, written[n + 1][1])
          BY <1>1, <3>1, DecodeFinds, DecodeEffect
        <4> QED
          BY <4>1, <4>4, <4>5, <4>6
      <3>4. HandedOver(n + 1)'
        BY <1>1, <1>3, <1>4, <3>1, <3>3, LineHanded
      <3>5. n + 1 \in 0..Len(written)
        BY <1>1, <3>1
      <3> QED
        BY <3>2, <3>4, <3>5
    <2> QED
      BY <2>1, <2>2
  <1> QED
    BY <1>2, <1>4, <1>6, <1>7, <1>8 DEF CodecInv

LEMMA ReadKeeps ==
  ASSUME CodecInv, ReadBytes \/ ReadNothing
  PROVE  CodecInv'
  <1>1. TypeOK /\ Len(written) \in Nat
    BY DEF CodecInv, TypeOK
  <1>2. PICK n \in 0..Len(written) : StillThere(n) /\ HandedOver(n)
    BY DEF CodecInv
  <1>3. /\ written' = written /\ closed' = closed /\ end' = end /\ end = "no" /\ out' = out
        /\ readable' = TRUE
    BY DEF ReadBytes, ReadNothing
  <1>4. Stream' = Stream /\ buffer' \in Seq(Symbols) /\ pipe' \in Seq(Symbols)
    <2>1. CASE ReadBytes
      <3>1. PICK k \in 1..Len(pipe) : /\ buffer' = buffer \o SubSeq(pipe, 1, k)
                                      /\ pipe' = SubSeq(pipe, k + 1, Len(pipe))
        BY <2>1 DEF ReadBytes
      <3> QED
        BY <1>1, <3>1, StreamRead
    <2>2. CASE ReadNothing
      BY <1>1, <2>2 DEF ReadNothing, TypeOK, Stream
    <2> QED
      BY <2>1, <2>2
  <1>5. eof' \in BOOLEAN /\ (eof' => closed' /\ pipe' = <<>>)
    <2>1. CASE ReadBytes
      <3>1. eof' = eof /\ pipe # <<>>
        BY <2>1 DEF ReadBytes
      <3>2. ~eof
        BY <3>1 DEF CodecInv
      <3> QED
        BY <1>1, <3>1, <3>2 DEF TypeOK
    <2>2. CASE ReadNothing
      BY <2>2 DEF ReadNothing
    <2> QED
      BY <2>1, <2>2
  <1>6. TypeOK'
    BY <1>1, <1>3, <1>4, <1>5 DEF TypeOK
  <1>7. StillThere(n)' /\ HandedOver(n)'
    BY <1>2, <1>3, <1>4, StreamStays
  <1> QED
    BY <1>2, <1>3, <1>5, <1>6, <1>7 DEF CodecInv

\* WidthLast of the lines as a step leaves them.
LEMMA WidthLastAlways ==
  \A n, k \in Nat : n <= k => Width(n, k + 1) = Width(n, k) + IF Empty(k + 1) THEN 1 ELSE 2
  BY WidthLast

LEMMA WidthLastNext ==
  (\A n, k \in Nat : n <= k => Width(n, k + 1) = Width(n, k) + IF Empty(k + 1) THEN 1 ELSE 2)'
  BY WidthLastAlways, PTL

LEMMA EncodeKeeps ==
  ASSUME CodecInv, NEW line \in Lines, Encode(line)
  PROVE  CodecInv'
  <1>1. TypeOK /\ written \in Seq(Lines) /\ Len(written) \in Nat
    BY DEF CodecInv, TypeOK
  <1>2. PICK n \in 0..Len(written) : StillThere(n) /\ HandedOver(n)
    BY DEF CodecInv
  <1>3. /\ ~closed /\ Len(written) < MaxLines
        /\ written' = Append(written, line) /\ pipe' = pipe \o line
        /\ closed' = closed /\ buffer' = buffer /\ readable' = readable /\ eof' = eof
        /\ end' = end /\ out' = out
    BY DEF Encode
  <1>4. /\ written' \in Seq(Lines) /\ Len(written') = Len(written) + 1
        /\ written'[Len(written) + 1] = line
        /\ \A j \in 1..Len(written) : written'[j] = written[j]
    BY <1>1, <1>3, AppendProperties
  <1> PICK l \in Nat : l = Len(written)
    BY <1>1
  <1>5. line \in Seq(Symbols) /\ DOMAIN line = 1..Len(line) /\ Len(line) \in Nat
    BY LineSymbols
  <1>6. /\ Stream \in Seq(Symbols) /\ Len(Stream) \in Nat /\ DOMAIN Stream = 1..Len(Stream)
        /\ buffer \in Seq(Symbols) /\ pipe \in Seq(Symbols)
    BY <1>1, StreamAt DEF TypeOK
  <1>7. Stream' = Stream \o line
    <2>1. (buffer \o pipe) \o line = buffer \o (pipe \o line)
      BY <1>5, <1>6, SymbolsAssociate, Zenon
    <2> QED
      BY <1>3, <2>1, Zenon DEF Stream
  <1>8. /\ Len(Stream') = Len(Stream) + Len(line) /\ DOMAIN Stream' = 1..Len(Stream')
        /\ \A i \in 1..Len(Stream) : Stream'[i] = Stream[i]
        /\ \A i \in 1..Len(line) : Stream'[Len(Stream) + i] = line[i]
    <2>1. /\ Stream \o line \in Seq(Symbols) /\ Len(Stream \o line) = Len(Stream) + Len(line)
          /\ \A i \in 1..(Len(Stream) + Len(line)) :
                (Stream \o line)[i] = IF i <= Len(Stream) THEN Stream[i] ELSE line[i - Len(Stream)]
      BY <1>5, <1>6, ConcatProperties
    <2>2. DOMAIN (Stream \o line) = 1..Len(Stream \o line)
      BY <2>1
    <2>3. \A i \in 1..Len(line) : /\ Len(Stream) + i \in 1..(Len(Stream) + Len(line))
                                  /\ ~(Len(Stream) + i <= Len(Stream))
                                  /\ (Len(Stream) + i) - Len(Stream) = i
      BY <1>5, <1>6
    <2> QED
      BY <1>5, <1>6, <1>7, <2>1, <2>2, <2>3
  <1>9. Len(Stream) = Width(n, l)
    BY <1>2, <1>3 DEF StillThere
  <1>10. \A k \in n..Len(written) : Width(n, k)' = Width(n, k)
    <2>1. TAKE k \in n..Len(written)
    <2>2. n \in Nat /\ k \in Nat /\ \A j \in (n + 1)..k : j \in 1..Len(written)
      BY <1>1
    <2>3. \A j \in (n + 1)..k : written'[j] = written[j]
      BY <1>4, <2>2
    <2> QED
      BY <2>2, <2>3, WidthSame
  <1>11. ASSUME NEW k \in (n + 1)..Len(written'), NEW i \in DOMAIN written'[k]
         PROVE  /\ Width(n, k - 1)' + i \in DOMAIN Stream'
                /\ Stream'[Width(n, k - 1)' + i] = written'[k][i]
    <2>1. CASE k \in (n + 1)..Len(written)
      <3>1. k \in 1..Len(written) /\ k - 1 \in n..Len(written)
        BY <1>1, <2>1
      <3>2. Width(n, k - 1)' = Width(n, k - 1) /\ written'[k] = written[k]
        BY <1>4, <1>10, <3>1
      <3>3. Width(n, k - 1) + i \in DOMAIN Stream /\ Stream[Width(n, k - 1) + i] = written[k][i]
        BY <1>2, <2>1, <3>2 DEF StillThere
      <3>4. Width(n, k - 1) + i \in DOMAIN Stream'
        BY <1>5, <1>6, <1>8, <3>3
      <3> QED
        BY <1>6, <1>8, <3>2, <3>3, <3>4
    <2>2. CASE k = Len(written) + 1
      <3>1. k - 1 = Len(written) /\ Len(written) \in n..Len(written)
        BY <1>1, <2>2
      <3>2. Width(n, k - 1)' = Len(Stream) /\ written'[k] = line
        BY <1>4, <1>9, <1>10, <2>2, <3>1
      <3>3. i \in 1..Len(line)
        BY <1>5, <3>2
      <3>4. Len(Stream) + i \in DOMAIN Stream'
        BY <1>5, <1>6, <1>8, <3>3
      <3> QED
        BY <1>8, <3>2, <3>3, <3>4
    <2>3. k \in (n + 1)..Len(written) \/ k = Len(written) + 1
      BY <1>1, <1>4
    <2> QED
      BY <2>1, <2>2, <2>3
  <1>12. Len(Stream') = Width(n, l + 1)'
    <2>1. Empty(l + 1)' <=> line = <<Newline>>
      BY <1>4 DEF Empty
    <2>2. Len(line) = IF line = <<Newline>> THEN 1 ELSE 2
      BY LineSymbols
    <2>3. Width(n, l + 1)' = Width(n, l)' + IF Empty(l + 1)' THEN 1 ELSE 2
      <3>1. n \in Nat /\ n <= l
        BY <1>1
      <3> QED
        BY <3>1, WidthLastNext
    <2>4. Width(n, l)' = Len(Stream)
      <3>1. l \in n..Len(written)
        BY <1>1
      <3> QED
        BY <1>9, <1>10, <3>1
    <2> QED
      BY <1>6, <1>8, <2>1, <2>2, <2>3, <2>4
  <1>13. StillThere(n)'
    <2>1. Len(written') = l + 1
      BY <1>4
    <2> QED
      BY <1>11, <1>12, <2>1 DEF StillThere
  <1>14. HandedOver(n)'
    <2>1. \A k \in 0..Len(written) : Rank(k)' = Rank(k)
      BY <1>1, <1>3, RankSame
    <2>2. \A j \in 1..Len(written) : j \in Due' <=> j \in Due
      <3>1. 0 \in 0..Len(written)
        BY <1>1
      <3> QED
        BY <1>1, <1>3, <3>1, RankSame
    <2>3. Due' \subseteq 1..Len(written')
      BY <1>4 DEF Due
    <2>4. ASSUME NEW k \in Due', k <= n
          PROVE  k \in Due /\ Rank(k)' = Rank(k) /\ written'[k] = written[k]
      <3>1. k \in 1..Len(written)
        BY <1>1, <1>4, <2>3, <2>4
      <3> QED
        BY <1>4, <2>1, <2>2, <3>1
    <2>5. \A j \in 1..n : written'[j] = written[j]
      BY <1>1, <1>4
    <2>6. Rank(n)' = Rank(n)
      BY <2>1
    <2>7. \A k \in Due' : k <= n => out'[Rank(k)'] = written'[k][1]
      BY <1>2, <1>3, <2>4 DEF HandedOver
    <2> QED
      BY <1>2, <1>3, <2>5, <2>6, <2>7 DEF HandedOver
  <1>15. TypeOK'
    <2>1. pipe' \in Seq(Symbols)
      BY <1>3, <1>5, <1>6, ConcatProperties
    <2>2. Len(written') <= MaxLines
      BY <1>1, <1>3, <1>4, CodecAssumption
    <2> QED
      BY <1>1, <1>3, <1>4, <2>1, <2>2 DEF TypeOK
  <1>16. ((eof => closed /\ pipe = <<>>) /\ (end = "clean" => eof /\ Stream = <<>>))'
    BY <1>3 DEF CodecInv
  <1>17. n \in 0..Len(written')
    BY <1>1, <1>4
  <1> QED
    BY <1>13, <1>14, <1>15, <1>16, <1>17 DEF CodecInv

LEMMA CloseKeeps ==
  ASSUME CodecInv, Close
  PROVE  CodecInv'
  <1>1. TypeOK /\ written \in Seq(Lines) /\ Len(written) \in Nat
    BY DEF CodecInv, TypeOK
  <1>2. PICK n \in 0..Len(written) : StillThere(n) /\ HandedOver(n)
    BY DEF CodecInv
  <1>3. /\ ~closed /\ closed' = TRUE /\ written' = written /\ buffer' = buffer
        /\ readable' = readable /\ eof' = eof /\ end' = end /\ out' = out
    BY DEF Close
  <1>4. ~eof /\ end # "clean"
    BY <1>3 DEF CodecInv
  <1>5. HandedOver(n)'
    BY <1>2, <1>3, SameLines DEF HandedOver
  <1>6. Len(Stream) = Width(n, Len(written))
    BY <1>2, <1>3 DEF StillThere
  <1>7. CASE pipe' = pipe
    <2>1. TypeOK'
      BY <1>1, <1>3, <1>7 DEF TypeOK
    <2>2. StillThere(n)'
      <3>1. Stream' = Stream
        BY <1>3, <1>7 DEF Stream
      <3> QED
        BY <1>2, <1>3, <1>6, <3>1, SameLines DEF StillThere
    <2> QED
      BY <1>2, <1>3, <1>4, <1>5, <2>1, <2>2 DEF CodecInv
  <1>8. ASSUME NEW b \in Garbage, pipe' = Append(pipe, b)
        PROVE  CodecInv'
    <2>1. /\ Stream \in Seq(Symbols) /\ Len(Stream) \in Nat /\ DOMAIN Stream = 1..Len(Stream)
          /\ buffer \in Seq(Symbols) /\ pipe \in Seq(Symbols) /\ b \in Symbols
      BY <1>1, StreamAt DEF TypeOK, Symbols, Bodies
    <2>2. pipe' \in Seq(Symbols)
      BY <1>8, <2>1
    <2>3. Stream' = Append(Stream, b)
      BY <1>3, <1>8, <2>1 DEF Stream
    <2>4. /\ Len(Stream') = Len(Stream) + 1 /\ Stream'[Len(Stream) + 1] = b
          /\ DOMAIN Stream' = 1..(Len(Stream) + 1)
          /\ \A i \in 1..Len(Stream) : Stream'[i] = Stream[i]
      BY <2>1, <2>3, AppendProperties
    <2>5. ASSUME NEW k \in (n + 1)..Len(written), NEW i \in DOMAIN written[k]
          PROVE  /\ Width(n, k - 1) + i \in DOMAIN Stream'
                 /\ Stream'[Width(n, k - 1) + i] = written[k][i]
      <3>1. Width(n, k - 1) + i \in DOMAIN Stream /\ Stream[Width(n, k - 1) + i] = written[k][i]
        BY <1>2 DEF StillThere
      <3> HIDE DEF Width
      <3> QED
        BY <2>1, <2>4, <3>1
    <2>6. StillThere(n)'
      BY <1>3, <1>6, <2>4, <2>5, SameLines DEF StillThere
    <2>7. TypeOK'
      BY <1>1, <1>3, <2>2 DEF TypeOK
    <2> QED
      BY <1>2, <1>3, <1>4, <1>5, <2>6, <2>7 DEF CodecInv
  <1>9. pipe' = pipe \/ \E b \in Garbage : pipe' = Append(pipe, b)
    BY DEF Close
  <1> QED
    BY <1>7, <1>8, <1>9

LEMMA CodecStarts ==
  ASSUME Init
  PROVE  CodecInv
  <1>1. TypeOK
    <2>1. /\ written = <<>> /\ pipe = <<>> /\ buffer = <<>> /\ out = <<>>
          /\ closed = FALSE /\ readable = FALSE /\ eof = FALSE /\ end = "no"
      BY DEF Init
    <2>2. 0 <= MaxLines
      BY CodecAssumption
    <2>3. \A S : <<>> \in Seq(S)
      OBVIOUS
    <2>4. Len(written) = 0
      BY <2>1
    <2>5. written \in Seq(Lines) /\ pipe \in Seq(Symbols) /\ buffer \in Seq(Symbols) /\ out \in Seq(Messages)
      BY <2>1, <2>3
    <2>6. closed \in BOOLEAN /\ readable \in BOOLEAN /\ eof \in BOOLEAN /\ end \in {"no", "clean", "error"}
      BY <2>1
    <2> QED
      BY <2>2, <2>4, <2>5, <2>6 DEF TypeOK
  <1>2. written = <<>> /\ Len(written) = 0 /\ Stream = <<>> /\ Len(Stream) = 0
    BY DEF Init, Stream
  <1>3. StillThere(0)
    BY <1>2, WidthNone DEF StillThere
  <1>4. HandedOver(0)
    <2>1. Rank(0) = 0
      BY <1>1, RankZero DEF TypeOK
    <2>2. Due = {}
      BY <1>2 DEF Due
    <2> QED
      BY <2>1, <2>2 DEF Init, HandedOver
  <1>5. 0 \in 0..Len(written)
    BY <1>2
  <1> QED
    BY <1>1, <1>2, <1>3, <1>4, <1>5 DEF Init, CodecInv

LEMMA CodecStutters ==
  ASSUME CodecInv, UNCHANGED vars
  PROVE  CodecInv'
  <1>1. /\ written' = written /\ closed' = closed /\ end' = end /\ out' = out /\ Stream' = Stream
        /\ eof' = eof
    BY DEF vars, Stream
  <1>2. PICK n \in 0..Len(written) : StillThere(n) /\ HandedOver(n)
    BY DEF CodecInv
  <1>3. StillThere(n)' /\ HandedOver(n)'
    BY <1>1, <1>2, StreamStays
  <1>4. TypeOK'
    BY DEF vars, CodecInv, TypeOK
  <1>5. (eof => closed /\ pipe = <<>>)'
    BY DEF vars, CodecInv
  <1> QED
    BY <1>1, <1>2, <1>3, <1>4, <1>5 DEF CodecInv

\* The codec loses, repeats and reorders nothing: after any number of lines
\* decoded from any chunks (codec.rs:21), the others are still in the buffer and
\* the pipe, whole and in order.
THEOREM CodecInvariance == IntakeSpec => []CodecInv
  <1>1. IntakeInit => CodecInv
    BY CodecStarts DEF IntakeInit
  <1>2. CodecInv /\ [IntakeNext]_intakeVars => CodecInv'
    <2> SUFFICES ASSUME CodecInv, [IntakeNext]_intakeVars
                 PROVE  CodecInv'
      OBVIOUS
    <2>1. CASE TakeFrame
      BY <2>1, DecodeKeeps DEF TakeFrame
    <2>2. CASE ReadOn
      BY <2>2, DecodeKeeps, ReadKeeps DEF ReadOn
    <2>3. CASE PeerStep
      BY <2>3, CloseKeeps, EncodeKeeps DEF PeerStep
    <2>4. CASE UNCHANGED intakeVars
      BY <2>4, CodecStutters DEF intakeVars
    <2> QED
      BY <2>1, <2>2, <2>3, <2>4 DEF IntakeNext
  <1> QED
    BY <1>1, <1>2, PTL DEF IntakeSpec

\* However the bytes are cut into chunks, what is handed over are the first of the
\* messages written, in order, once each and whole (codec.rs:21).
THEOREM FramesAreExact == IntakeSpec => []FramesExact
  <1>1. CodecInv => FramesExact
    BY FramesOfInvariant
  <1> QED
    BY <1>1, CodecInvariance, PTL

-----------------------------------------------------------------------------
(* What a message is read as, and what it leads to. *)

\* The first of the variants whose fields are all there.
LEMMA VariantIs ==
  ASSUME NEW m
  PROVE  \E k \in 0..6 :
            /\ Variant(m) = IF k = 0 THEN "none" ELSE Variants[k]
            /\ k = 0 => \A i \in 1..6 : ~Matches(m, Variants[i])
            /\ k # 0 => Matches(m, Variants[k]) /\ \A i \in 1..(k - 1) : ~Matches(m, Variants[i])
  <1> DEFINE I == {i \in 1..6 : Matches(m, Variants[i])}
             k == IF I # {} THEN Min(I) ELSE 0
  <1>1. Len(Variants) = 6
    BY DEF Variants
  <1>2. SelectInSeq(Variants, LAMBDA variant : Matches(m, variant)) = k
    BY <1>1 DEF SelectInSeq
  <1>3. I # {} => Min(I) \in I /\ \A i \in I : Min(I) <= i
    <2>1. I \subseteq Nat
      OBVIOUS
    <2> HIDE DEF I
    <2> QED
      BY <2>1, MinOfNat
  <1>4. \A i \in 1..6 : i \in I <=> Matches(m, Variants[i])
    OBVIOUS
  <1>5. I \subseteq 1..6
    OBVIOUS
  <1>6. Variant(m) = IF k = 0 THEN "none" ELSE Variants[k]
    BY <1>2 DEF Variant
  <1> HIDE DEF I
  <1>7. CASE I = {}
    <2>1. k = 0
      BY <1>7
    <2> HIDE DEF k
    <2> QED
      BY <1>4, <1>6, <1>7, <2>1
  <1>8. CASE I # {}
    <2>1. k \in I /\ \A i \in I : k <= i
      BY <1>3, <1>8
    <2> HIDE DEF k
    <2>2. k \in 1..6
      BY <1>5, <2>1
    <2>3. \A i \in 1..(k - 1) : i \in 1..6 /\ ~(k <= i)
      BY <2>2
    <2> QED
      BY <1>4, <1>6, <2>1, <2>2, <2>3
  <1> QED
    BY <1>7, <1>8

LEMMA VariantOf ==
  ASSUME NEW m
  PROVE  /\ Variant(m) = "Request" <=> Matches(m, "Request")
         /\ Variant(m) = "Notification" <=> Matches(m, "Notification") /\ ~Matches(m, "Request")
         /\ Variant(m) = "Response" => Matches(m, "Response") /\ ~Matches(m, "Notification")
         /\ Variant(m) = "Error" => /\ Matches(m, "Error") /\ ~Matches(m, "Notification")
                                    /\ ~Matches(m, "Response")
         /\ Variant(m) \in {"BatchRequest", "BatchResponse"} => m.form # "object"
         /\ Variant(m) \in {"Request", "Notification", "BatchRequest", "Response", "Error",
                           "BatchResponse", "none"}
         /\ Variant(m) # "none" => \E i \in 1..6 : Matches(m, Variants[i])
  <1>1. PICK k \in 0..6 :
            /\ Variant(m) = IF k = 0 THEN "none" ELSE Variants[k]
            /\ k = 0 => \A i \in 1..6 : ~Matches(m, Variants[i])
            /\ k # 0 => Matches(m, Variants[k]) /\ \A i \in 1..(k - 1) : ~Matches(m, Variants[i])
    BY VariantIs
  <1>2. /\ Variants[1] = "Request" /\ Variants[2] = "Notification" /\ Variants[3] = "BatchRequest"
        /\ Variants[4] = "Response" /\ Variants[5] = "Error" /\ Variants[6] = "BatchResponse"
    BY DEF Variants
  <1>3. k = 0 \/ k = 1 \/ k = 2 \/ k = 3 \/ k = 4 \/ k = 5 \/ k = 6
    OBVIOUS
  <1>4. Matches(m, "BatchRequest") \/ Matches(m, "BatchResponse") => m.form # "object"
    BY DEF Matches
  <1>5. CASE k = 0
    BY <1>1, <1>2, <1>5
  <1>6. CASE k = 1
    BY <1>1, <1>2, <1>6
  <1>7. CASE k = 2
    BY <1>1, <1>2, <1>7
  <1>8. CASE k = 3
    <2>1. Variant(m) = "BatchRequest" /\ ~Matches(m, Variants[1]) /\ ~Matches(m, Variants[2])
          /\ Matches(m, "BatchRequest")
      BY <1>1, <1>2, <1>8
    <2> QED
      BY <1>2, <1>4, <2>1
  <1>9. CASE k = 4
    <2>1. Variant(m) = "Response" /\ ~Matches(m, Variants[1]) /\ ~Matches(m, Variants[2])
          /\ Matches(m, "Response")
      BY <1>1, <1>2, <1>9
    <2> QED
      BY <1>2, <2>1
  <1>10. CASE k = 5
    <2>1. Variant(m) = "Error" /\ ~Matches(m, Variants[1]) /\ ~Matches(m, Variants[2])
          /\ Matches(m, "Error") /\ ~Matches(m, Variants[4])
      BY <1>1, <1>2, <1>10
    <2> QED
      BY <1>2, <2>1
  <1>11. CASE k = 6
    <2>1. Variant(m) = "BatchResponse" /\ ~Matches(m, Variants[1]) /\ ~Matches(m, Variants[2])
          /\ Matches(m, "BatchResponse")
      BY <1>1, <1>2, <1>11
    <2> QED
      BY <1>2, <1>4, <2>1
  <1> QED
    BY <1>3, <1>5, <1>6, <1>7, <1>8, <1>9, <1>10, <1>11

LEMMA MessageFacts ==
  ASSUME NEW m \in Messages
  PROVE  /\ m.form \in {"object", "requests", "responses"} /\ m.id \in {"none", "valid", "odd"}
         /\ m.method \in Methods \union {"none", "unheard"}
         /\ m.params \in {"none", "fit", "missing", "variant", "method", "meta", "list"}
         /\ m.result \in {"none", "object", "other"} /\ m.error \in BOOLEAN
         /\ m.method # "none" => m.result = "none" /\ m.error = FALSE
         /\ Variant(m) # "none"
  <1>1. m \in WireMessages /\ Variant(m) # "none"
        /\ (m.method = "none" \/ (m.result = "none" /\ ~m.error))
    BY IntakeAssumption
  <1>2. m.error \in BOOLEAN
    BY <1>1 DEF WireMessages
  <1> QED
    BY <1>1, <1>2 DEF WireMessages

\* A message is read as a request if and only if it is one.
LEMMA RequestIsRead ==
  ASSUME NEW m \in Messages
  PROVE  Variant(m) = "Request" <=> Asks(m) /\ ~Misread(m)
  <1>1. Matches(m, "Request") <=> /\ m.form = "object" /\ m.id = "valid" /\ m.method # "none"
                                  /\ m.params # "meta" /\ m.params # "list"
    BY DEF Matches
  <1>2. ASSUME Asks(m), ~Misread(m), m.params = "list"
        PROVE  FALSE
    <2>1. m.form = "object" /\ m.result = "none" /\ m.error = FALSE
      BY <1>2, MessageFacts DEF Asks
    <2>2. \A i \in 1..6 : ~Matches(m, Variants[i])
      BY <1>2, <2>1 DEF Matches, Variants
    <2> QED
      BY <2>2, VariantOf, MessageFacts
  <1> QED
    BY <1>1, <1>2, VariantOf, MessageFacts DEF Asks, Misread

\* A message that is no request goes where it should.
LEMMA OthersAreRead ==
  ASSUME NEW m \in Messages
  PROVE  /\ Variant(m) = "Notification" /\ Reaches(m, reader) => Hears(m) = "callback"
         /\ Variant(m) = "Notification" /\ ~Reaches(m, reader) =>
                Hears(m) = "nobody" \/ m.params = "method"
         /\ Variant(m) = "Response" => Hears(m) = "response"
         /\ Variant(m) = "Error" => Hears(m) = "error"
         /\ Variant(m) \in {"BatchRequest", "BatchResponse"} => Hears(m) = "nobody"
  <1>1. "none" \notin Notifications(reader) /\ "ping" \notin Notifications(reader)
    BY DEF Notifications
  <1>2. CASE Variant(m) = "Notification"
    <2>1. m.form = "object" /\ m.method # "none" /\ m.result = "none" /\ m.error = FALSE
      BY <1>2, VariantOf, MessageFacts DEF Matches
    <2>2. Hears(m) = IF m.method \in Notifications(reader) /\ Fits(m) THEN "callback" ELSE "nobody"
      BY <2>1 DEF Hears
    <2>3. Reaches(m, reader) => m.params # "method"
      BY <1>1 DEF Reaches, ReadError, MethodCalled
    <2>4. m.params # "method" =>
            (Reaches(m, reader) <=> m.method \in Notifications(reader) /\ Fits(m))
      BY DEF Reaches, ReadError, MethodCalled, Fits
    <2> QED
      BY <1>2, <2>2, <2>3, <2>4
  <1>3. CASE Variant(m) = "Response"
    <2>1. m.form = "object" /\ m.result = "object" /\ m.method = "none"
      BY <1>3, VariantOf, MessageFacts DEF Matches
    <2> QED
      BY <1>1, <1>3, <2>1 DEF Hears
  <1>4. CASE Variant(m) = "Error"
    <2>1. m.form = "object" /\ m.error /\ m.result # "object" /\ m.method = "none"
      BY <1>4, VariantOf, MessageFacts DEF Matches
    <2> QED
      BY <1>1, <1>4, <2>1 DEF Hears
  <1>5. CASE Variant(m) \in {"BatchRequest", "BatchResponse"}
    <2>1. m.form # "object"
      BY <1>5, VariantOf
    <2> QED
      BY <1>5, <2>1 DEF Hears
  <1> QED
    BY <1>2, <1>3, <1>4, <1>5

-----------------------------------------------------------------------------
(* What is replied to a request. *)

\* The names of the tools: those of the functions that are marked.
LEMMA ToolNames ==
  /\ {f.name : f \in Tools} = Marked
  /\ \A name : (\A f \in Tools : f.name # name) <=> name \notin Marked
  <1>1. Range(Block) = {Block[k] : k \in DOMAIN Block}
    BY DEF Range
  <1>2. \A f : f \in Tools <=> \E k \in DOMAIN Block : Block[k].tool /\ f = Block[k]
    BY <1>1 DEF Tools
  <1>3. \A name : name \in Marked <=> \E k \in DOMAIN Block : Block[k].tool /\ name = Block[k].name
    BY DEF Marked
  <1>4. \A name : name \in {f.name : f \in Tools} <=> name \in Marked
    BY <1>2, <1>3
  <1>5. {f.name : f \in Tools} = Marked
    BY ONLY <1>4
  <1>6. \A name : (\A f \in Tools : f.name # name) <=> name \notin Marked
    BY ONLY <1>4
  <1> QED
    BY <1>5, <1>6

\* Whether a request can be read.
LEMMA RequestCanBeRead ==
  ASSUME NEW m \in Messages, Asks(m), ~Misread(m)
  PROVE  LET error == ReadError(m, Requests(reader)) IN
         /\ error \in {"none", "unknown variant", "missing field"}
         /\ ~Misjudged(m) =>
                /\ MethodCalled(m) = m.method
                /\ error = "unknown variant" <=> m.method \notin Requests(reader)
                /\ error = "missing field" <=> m.method \in Requests(reader) /\ ~Fits(m)
  <1>1. ~Misjudged(m) => m.params # "variant" /\ m.params # "method"
    BY DEF Misjudged
  <1>2. ~Misjudged(m) => MethodCalled(m) = m.method
    BY <1>1 DEF MethodCalled
  <1> HIDE DEF Misjudged
  <1> QED
    BY <1>1, <1>2 DEF ReadError, Fits

\* What a function of the block or of the client does.
LEMMA FunctionRuns ==
  ASSUME NEW name, NEW outcome \in Ran(name)
  PROVE  ReplyTo(outcome).code \in OfFunction /\ ReplyTo(outcome).result = {name}
  <1>1. PICK error \in HandlerErrors \cup {"none"} : outcome = Outcome(error, {name})
    BY DEF Ran
  <1>2. outcome.error = error /\ outcome.result = {name}
    BY <1>1 DEF Outcome
  <1>3. ReplyTo(outcome).code = IF error = "none" THEN "ok" ELSE Code(error)
    BY <1>2 DEF ReplyTo
  <1>4. ReplyTo(outcome).result = {name}
    BY <1>2 DEF ReplyTo
  <1> QED
    BY <1>1, <1>3, <1>4 DEF OfFunction

LEMMA OutcomeTo ==
  ASSUME NEW error, NEW result
  PROVE  ReplyTo(Outcome(error, result))
            = [code |-> IF error = "none" THEN "ok" ELSE Code(error), result |-> result]
  BY DEF ReplyTo, Outcome

LEMMA CodeOf ==
  /\ Code("MethodNotFound") = MethodNotFound /\ Code("InvalidParams") = InvalidParams
  /\ Code("InvalidRequest") = InvalidRequest
  /\ Code("ResourceNotFound") = InternalError /\ Code("HandlerError") = InternalError
  /\ \A error : Code(error) \in Codes
  /\ OfFunction \subseteq Codes
  <1>1. \A error : Code(error) \in Codes
    BY DEF Code, Codes
  <1>2. OfFunction \subseteq Codes
    BY <1>1 DEF OfFunction, Codes
  <1> QED
    BY <1>1, <1>2 DEF Code

\* A reply that has one of these codes and this result.
LEMMA InReply ==
  ASSUME NEW outcome, NEW codes, NEW result,
         ReplyTo(outcome).code \in codes, ReplyTo(outcome).result = result
  PROVE  [code |-> ReplyTo(outcome).code, result |-> ReplyTo(outcome).result] \in Reply(codes, result)
  BY DEF Reply

LEMMA ToolReplies ==
  ASSUME NEW m \in Messages, m.method = "tools/call", ~Misjudged(m),
         NEW outcome \in CallTool(m.tool, m.arguments)
  PROVE  [code |-> ReplyTo(outcome).code, result |-> ReplyTo(outcome).result] \in ToolDeserved(m)
  <1>1. CASE m.tool \notin Marked
    <2>1. outcome = Outcome("MethodNotFound", {})
      BY <1>1, ToolNames DEF CallTool
    <2>2. ReplyTo(outcome).code \in {MethodNotFound} /\ ReplyTo(outcome).result = {}
      BY <2>1, OutcomeTo, CodeOf
    <2> QED
      BY <1>1, <2>2, InReply DEF ToolDeserved
  <1>2. CASE m.tool \in Marked /\ m.arguments = "fit"
    <2>1. outcome \in Ran(m.tool)
      BY <1>2, ToolNames DEF CallTool
    <2>2. ReplyTo(outcome).code \in OfFunction /\ ReplyTo(outcome).result = {m.tool}
      BY <2>1, FunctionRuns
    <2> QED
      BY <1>2, <2>2, InReply DEF ToolDeserved
  <1>3. CASE m.tool \in Marked /\ m.arguments # "fit"
    <2>1. outcome = Outcome("InvalidParams", {})
      BY <1>3, ToolNames DEF CallTool
    <2>2. ReplyTo(outcome).code \in {InvalidParams} /\ ReplyTo(outcome).result = {}
      BY <2>1, OutcomeTo, CodeOf
    <2>3. ~(m.arguments = "none" /\ m.tool \notin Requiring)
      BY <1>3 DEF Misjudged
    <2> QED
      BY <1>3, <2>2, <2>3, InReply DEF ToolDeserved
  <1> QED
    BY <1>1, <1>2, <1>3

LEMMA ServerReplies ==
  ASSUME NEW m \in Messages, ~Misjudged(m), MethodCalled(m) = m.method, NEW outcome \in Outcomes(m)
  PROVE  [code |-> ReplyTo(outcome).code, result |-> ReplyTo(outcome).result] \in ServerDeserved(m)
  <1>1. CASE m.method = "tools/call"
    <2>1. outcome \in CallTool(m.tool, m.arguments)
      BY <1>1 DEF Outcomes
    <2> QED
      BY <1>1, <2>1, ToolReplies DEF ServerDeserved
  <1>2. CASE m.method = "tools/list"
    <2>1. outcome = Outcome("none", Marked)
      BY <1>2, ToolNames DEF Outcomes, ListTools
    <2>2. ReplyTo(outcome).code \in {"ok"} /\ ReplyTo(outcome).result = Marked
      BY <2>1, OutcomeTo
    <2> QED
      BY <1>2, <2>2, InReply DEF ServerDeserved
  <1>3. CASE m.method = "initialize" /\ Attribute = <<>>
    <2>1. outcome = Outcome("none", {"default"})
      BY <1>3 DEF Outcomes, Initialize, InitializeFn
    <2>2. ReplyTo(outcome).code \in {"ok"} /\ ReplyTo(outcome).result = {"default"}
      BY <2>1, OutcomeTo
    <2>3. [code |-> ReplyTo(outcome).code, result |-> ReplyTo(outcome).result] \in Reply({"ok"}, {"default"})
      BY <2>2, InReply
    <2> QED
      BY <1>3, <2>3 DEF ServerDeserved
  <1>4. CASE m.method = "initialize" /\ Attribute # <<>>
    <2>1. Known
      BY <1>4 DEF Misjudged, Known
    <2>2. InitializeFn = {Attribute[Len(Attribute)][2]}
      BY <1>4, <2>1 DEF InitializeFn
    <2>3. outcome \in Ran(Attribute[Len(Attribute)][2])
      BY <1>4, <2>2 DEF Outcomes, Initialize
    <2>4. /\ ReplyTo(outcome).code \in OfFunction
          /\ ReplyTo(outcome).result = {Attribute[Len(Attribute)][2]}
      BY <2>3, FunctionRuns
    <2> QED
      BY <1>4, <2>4, InReply DEF ServerDeserved
  <1>5. CASE m.method \in {"resources/read", "prompts/get"}
    <2>1. outcome = Outcome("ResourceNotFound", {}) \/ outcome = Outcome("HandlerError", {})
      BY <1>5 DEF Outcomes
    <2>2. ReplyTo(outcome).code \in {InternalError} /\ ReplyTo(outcome).result = {}
      BY <2>1, OutcomeTo, CodeOf
    <2>3. [code |-> ReplyTo(outcome).code, result |-> ReplyTo(outcome).result] \in Reply({InternalError}, {})
      BY <2>2, InReply
    <2> QED
      BY <1>5, <2>3 DEF ServerDeserved
  <1>6. CASE m.method \notin {"tools/call", "tools/list", "initialize", "resources/read", "prompts/get"}
    <2>1. outcome = Outcome("none", {})
      BY <1>6 DEF Outcomes
    <2>2. ReplyTo(outcome).code \in {"ok"} /\ ReplyTo(outcome).result = {}
      BY <2>1, OutcomeTo
    <2>3. [code |-> ReplyTo(outcome).code, result |-> ReplyTo(outcome).result] \in Reply({"ok"}, {})
      BY <2>2, InReply
    <2> QED
      BY <1>6, <2>3 DEF ServerDeserved
  <1> QED
    BY <1>1, <1>2, <1>3, <1>4, <1>5, <1>6

LEMMA ClientReplies ==
  ASSUME NEW m \in Messages, MethodCalled(m) = m.method, NEW outcome \in ClientOutcomes(m)
  PROVE  [code |-> ReplyTo(outcome).code, result |-> ReplyTo(outcome).result] \in ClientDeserved(m)
  <1>1. CASE m.method \in Overridden
    <2>1. outcome \in Ran(m.method)
      BY <1>1 DEF ClientOutcomes
    <2>2. ReplyTo(outcome).code \in OfFunction /\ ReplyTo(outcome).result = {m.method}
      BY <2>1, FunctionRuns
    <2> QED
      BY <1>1, <2>2, InReply DEF ClientDeserved
  <1>2. CASE m.method \notin Overridden /\ m.method = "ping"
    <2>1. outcome = Outcome("none", {})
      BY <1>2 DEF ClientOutcomes
    <2>2. ReplyTo(outcome).code \in {"ok"} /\ ReplyTo(outcome).result = {}
      BY <2>1, OutcomeTo
    <2> QED
      BY <1>2, <2>2, InReply DEF ClientDeserved
  <1>3. CASE m.method \notin Overridden /\ m.method # "ping"
    <2>1. outcome = Outcome("InvalidRequest", {})
      BY <1>3 DEF ClientOutcomes
    <2>2. ReplyTo(outcome).code \in {InvalidRequest} /\ ReplyTo(outcome).result = {}
      BY <2>1, OutcomeTo, CodeOf
    <2> QED
      BY <1>3, <2>2, InReply DEF ClientDeserved
  <1> QED
    BY <1>1, <1>2, <1>3

\* The reply to a request is one it deserves.
LEMMA RepliesAreDeserved ==
  ASSUME NEW m \in Messages, Asks(m), ~Misread(m), ~Misjudged(m),
         NEW reply \in HandleRequest(m, reader, Served(m))
  PROVE  [code |-> reply.code, result |-> reply.result] \in Deserved(m)
  <1> DEFINE error == ReadError(m, Requests(reader))
  <1>1. /\ error \in {"none", "unknown variant", "missing field"} /\ MethodCalled(m) = m.method
        /\ error = "unknown variant" <=> m.method \notin Requests(reader)
        /\ error = "missing field" <=> m.method \in Requests(reader) /\ ~Fits(m)
    BY RequestCanBeRead
  <1>2. /\ error = "unknown variant" => reply = ReplyTo(Outcome("MethodNotFound", {}))
        /\ error = "missing field" => reply = ReplyTo(Outcome("InvalidParams", {}))
        /\ error = "none" => \E o \in Served(m) : reply = ReplyTo(o)
    BY DEF HandleRequest, Outcome
  <1> HIDE DEF error
  <1>3. CASE error = "unknown variant"
    <2> DEFINE o == Outcome("MethodNotFound", {})
    <2>1. ReplyTo(o).code \in {MethodNotFound} /\ ReplyTo(o).result = {}
      BY OutcomeTo, CodeOf
    <2>2. reply = ReplyTo(o)
      BY <1>2, <1>3
    <2> HIDE DEF o
    <2>3. [code |-> reply.code, result |-> reply.result] \in Reply({MethodNotFound}, {})
      BY <2>1, <2>2, InReply
    <2> QED
      BY <1>1, <1>3, <2>3 DEF Deserved
  <1>4. CASE error = "missing field"
    <2> DEFINE o == Outcome("InvalidParams", {})
    <2>1. ReplyTo(o).code \in {InvalidParams} /\ ReplyTo(o).result = {}
      BY OutcomeTo, CodeOf
    <2>2. reply = ReplyTo(o)
      BY <1>2, <1>4
    <2> HIDE DEF o
    <2>3. [code |-> reply.code, result |-> reply.result] \in Reply({InvalidParams}, {})
      BY <2>1, <2>2, InReply
    <2> QED
      BY <1>1, <1>4, <2>3 DEF Deserved
  <1>5. CASE error = "none"
    <2>1. PICK o \in Served(m) : reply = ReplyTo(o)
      BY <1>2, <1>5
    <2>2. CASE reader = "server"
      BY <1>1, <1>5, <2>1, <2>2, ServerReplies DEF Deserved, Served
    <2>3. CASE reader # "server"
      BY <1>1, <1>5, <2>1, <2>3, ClientReplies DEF Deserved, Served
    <2> QED
      BY <2>2, <2>3
  <1> QED
    BY <1>1, <1>3, <1>4, <1>5

LEMMA RanNames ==
  ASSUME NEW name \in Names, NEW outcome \in Ran(name)
  PROVE  outcome.result \subseteq Names
  BY DEF Ran, Outcome

LEMMA OutcomesAreNames ==
  ASSUME NEW m \in Messages, NEW outcome \in Served(m)
  PROVE  outcome.result \subseteq Names
  <1>1. \A error, result : Outcome(error, result).result = result
    BY DEF Outcome
  <1>2. \A error, result : outcome = Outcome(error, result) /\ result \subseteq Names
                           => outcome.result \subseteq Names
    BY <1>1
  <1>3. {} \subseteq Names /\ {"default"} \subseteq Names /\ Marked \subseteq Names
    BY ToolNames DEF Names
  <1>4. CASE outcome \in ClientOutcomes(m)
    <2>1. CASE MethodCalled(m) \in Overridden
      <3>1. MethodCalled(m) \in Names
        BY <2>1 DEF Names
      <3>2. outcome \in Ran(MethodCalled(m))
        BY <1>4, <2>1 DEF ClientOutcomes
      <3> QED
        BY <3>1, <3>2, RanNames
    <2>2. CASE MethodCalled(m) \notin Overridden
      <3>1. outcome = Outcome("none", {}) \/ outcome = Outcome("InvalidRequest", {})
        BY <1>4, <2>2 DEF ClientOutcomes
      <3> QED
        BY <1>2, <1>3, <3>1
    <2> QED
      BY <2>1, <2>2
  <1>5. CASE outcome \in Outcomes(m)
    <2>1. CASE outcome \in Initialize
      <3>1. outcome = Outcome("none", {"default"}) \/ \E name \in InitializeFn : outcome \in Ran(name)
        BY <2>1 DEF Initialize
      <3>2. InitializeFn \subseteq Names
        BY DEF Names
      <3> QED
        BY <1>2, <1>3, <3>1, <3>2, RanNames
    <2>2. CASE outcome \in ListTools
      <3>1. outcome = Outcome("none", Marked)
        BY <2>2, ToolNames DEF ListTools
      <3> QED
        BY <1>2, <1>3, <3>1
    <2>3. CASE outcome \in CallTool(m.tool, m.arguments)
      <3>1. \/ outcome = Outcome("MethodNotFound", {}) \/ outcome = Outcome("InvalidParams", {})
            \/ m.tool \in Marked /\ outcome \in Ran(m.tool)
        BY <2>3, ToolNames DEF CallTool
      <3> QED
        BY <1>2, <1>3, <3>1, RanNames
    <2>4. \/ outcome \in Initialize \/ outcome \in ListTools \/ outcome \in CallTool(m.tool, m.arguments)
          \/ outcome = Outcome("ResourceNotFound", {}) \/ outcome = Outcome("HandlerError", {})
          \/ outcome = Outcome("none", {})
      BY <1>5 DEF Outcomes
    <2> QED
      BY <1>2, <1>3, <2>1, <2>2, <2>3, <2>4
  <1> QED
    BY <1>4, <1>5 DEF Served

LEMMA RepliesAreTyped ==
  ASSUME NEW m \in Messages, NEW reply \in HandleRequest(m, reader, Served(m))
  PROVE  reply.code \in Codes /\ reply.result \in SUBSET Names
  <1>1. \/ reply = ReplyTo([error |-> "MethodNotFound", result |-> {}])
        \/ reply = ReplyTo([error |-> "InvalidParams", result |-> {}])
        \/ \E o \in Served(m) : reply = ReplyTo(o)
    BY DEF HandleRequest
  <1>2. \A o : ReplyTo(o).code \in Codes /\ ReplyTo(o).result = o.result
    <2>1. \A o : ReplyTo(o).code = (IF o.error = "none" THEN "ok" ELSE Code(o.error))
                 /\ ReplyTo(o).result = o.result
      BY DEF ReplyTo
    <2>2. "ok" \in Codes
      BY DEF Codes
    <2> QED
      BY <2>1, <2>2, CodeOf
  <1>3. \A o \in Served(m) : o.result \in SUBSET Names
    BY OutcomesAreNames
  <1> QED
    BY <1>1, <1>2, <1>3

-----------------------------------------------------------------------------
(* A message that is read. *)

LEMMA MessageHandled ==
  ASSUME NEW m \in Messages, NEW n, HandleMessage(m, n)
  PROVE  \/ /\ Asks(m) /\ ~Misread(m) /\ handed' = handed
            /\ \E code \in Codes, result \in SUBSET Names :
                /\ replies' = Append(replies, [to |-> n, code |-> code, result |-> result])
                /\ Misjudged(m) \/ [code |-> code, result |-> result] \in Deserved(m)
         \/ /\ ~(Asks(m) /\ ~Misread(m)) /\ replies' = replies
            /\ \/ handed' = handed /\ (Hears(m) = "nobody" \/ m.params = "method")
               \/ /\ Hears(m) \in {"callback", "response", "error"}
                  /\ handed' = Append(handed, [to |-> Hears(m), message |-> n])
  <1>1. CASE Variant(m) = "Request"
    <2>1. Asks(m) /\ ~Misread(m)
      BY <1>1, RequestIsRead
    <2>2. PICK reply \in HandleRequest(m, reader, Served(m)) :
            replies' = Append(replies, [to |-> n, code |-> reply.code, result |-> reply.result])
      BY <1>1 DEF HandleMessage
    <2>3. handed' = handed
      BY <1>1 DEF HandleMessage
    <2>4. reply.code \in Codes /\ reply.result \in SUBSET Names
      BY RepliesAreTyped
    <2>5. Misjudged(m) \/ [code |-> reply.code, result |-> reply.result] \in Deserved(m)
      BY <2>1, RepliesAreDeserved
    <2> QED
      BY <2>1, <2>2, <2>3, <2>4, <2>5
  <1>2. CASE Variant(m) = "Notification" /\ Reaches(m, reader)
    <2>1. replies' = replies /\ handed' = Append(handed, [to |-> "callback", message |-> n])
      BY <1>2 DEF HandleMessage
    <2> QED
      BY <1>2, <2>1, RequestIsRead, OthersAreRead
  <1>3. CASE Variant(m) = "Notification" /\ ~Reaches(m, reader)
    <2>1. replies' = replies /\ handed' = handed
      BY <1>3 DEF HandleMessage
    <2> QED
      BY <1>3, <2>1, RequestIsRead, OthersAreRead
  <1>4. CASE Variant(m) = "Response"
    <2>1. replies' = replies /\ handed' = Append(handed, [to |-> "response", message |-> n])
      BY <1>4 DEF HandleMessage
    <2> QED
      BY <1>4, <2>1, RequestIsRead, OthersAreRead
  <1>5. CASE Variant(m) = "Error"
    <2>1. replies' = replies /\ handed' = Append(handed, [to |-> "error", message |-> n])
      BY <1>5 DEF HandleMessage
    <2> QED
      BY <1>5, <2>1, RequestIsRead, OthersAreRead
  <1>6. CASE Variant(m) \in {"BatchRequest", "BatchResponse"}
    <2>1. replies' = replies /\ handed' = handed
      BY <1>6 DEF HandleMessage
    <2> QED
      BY <1>6, <2>1, RequestIsRead, OthersAreRead
  <1>7. Variant(m) \in {"Request", "Notification", "BatchRequest", "Response", "Error", "BatchResponse"}
    BY VariantOf, MessageFacts
  <1> QED
    BY <1>1, <1>2, <1>3, <1>4, <1>5, <1>6, <1>7

-----------------------------------------------------------------------------
(* Every message that is read is answered, or handed on, or neither, as it *)
(* deserves.                                                               *)

LEMMA FrameTaken ==
  ASSUME TypeOK, TakeFrame
  PROVE  /\ reader' = reader
         /\ \/ out' = out /\ replies' = replies /\ handed' = handed
            \/ \E m \in Messages : out' = Append(out, m) /\ HandleMessage(m, Len(out) + 1)
  <1>1. DecodeLine /\ reader' = reader
    BY DEF TakeFrame
  <1>2. out' = out \/ (Decoded = "frame" /\ out' = Append(out, buffer[1]))
    BY <1>1, DecodeEffect DEF Decoded
  <1>3. CASE out' = out
    BY <1>1, <1>3 DEF TakeFrame
  <1>4. CASE out' # out
    <2>1. buffer[1] \in Messages /\ out' = Append(out, buffer[1])
      BY <1>2, <1>4, DecodeFinds
    <2>2. Last(out') = buffer[1] /\ Len(out') = Len(out) + 1
      BY <2>1 DEF TypeOK, Last
    <2>3. HandleMessage(buffer[1], Len(out) + 1)
      <3>1. HandleMessage(Last(out'), Len(out'))
        BY <1>4 DEF TakeFrame
      <3> QED
        BY <2>2, <3>1
    <2> QED
      BY <1>1, <2>1, <2>3
  <1> QED
    BY <1>3, <1>4

\* What a message deserves depends on the reader alone.
LEMMA ReaderStays ==
  ASSUME reader' = reader
  PROVE  \A m : Deserved(m)' = Deserved(m) /\ Hears(m)' = Hears(m)
  BY DEF Deserved, ServerDeserved, ClientDeserved, Hears

\* No more is read than was written.
LEMMA OutIsBounded ==
  ASSUME CodecInv
  PROVE  Len(out) \in 0..MaxLines
  <1>1. written \in Seq(Lines) /\ Len(written) <= MaxLines /\ out \in Seq(Messages)
    BY DEF CodecInv, TypeOK
  <1>2. Len(out) <= Cardinality(Due)
    BY FramesOfInvariant DEF FramesExact
  <1>3. Cardinality(Due) \in Nat /\ Cardinality(Due) <= Len(written) /\ Len(written) \in Nat
    <2>1. Rank(Len(written)) = Cardinality(Due)
      BY <1>1, RankLast
    <2>2. Len(written) \in Nat /\ Due \subseteq 1..Len(written) /\ Cardinality(Due) \in Nat
      BY <1>1, DueFinite
    <2>3. /\ IsFiniteSet(1..Len(written)) /\ Cardinality(1..Len(written)) = Len(written)
      <3>1. 1 \in Int /\ Len(written) \in Int
        BY <2>2
      <3>2. /\ IsFiniteSet(1..Len(written))
            /\ Cardinality(1..Len(written)) = IF 1 > Len(written) THEN 0 ELSE Len(written) - 1 + 1
        BY <3>1, FS_Interval
      <3> QED
        BY <2>2, <3>2
    <2>4. Due \in SUBSET (1..Len(written))
      BY <2>2
    <2>5. Cardinality(Due) <= Cardinality(1..Len(written))
      BY <2>3, <2>4, FS_Subset
    <2> QED
      BY <2>2, <2>3, <2>5
  <1>4. Len(out) \in Nat
    BY <1>1
  <1> QED
    BY <1>1, <1>2, <1>3, <1>4, CodecAssumption

\* One more of either list, for the message just read.
LEMMA ReplyAppended ==
  ASSUME IntakeInv, NEW r, r.to = Len(out) + 1, replies' = Append(replies, r)
  PROVE  /\ DOMAIN replies' = 1..(Len(replies) + 1) /\ DOMAIN replies = 1..Len(replies)
         /\ Len(replies) \in Nat
         /\ replies'[Len(replies) + 1] = r
         /\ \A k \in DOMAIN replies : replies'[k] = replies[k]
         /\ \A n \in 1..Len(out) :
                {k \in DOMAIN replies' : replies'[k].to = n} = {k \in DOMAIN replies : replies[k].to = n}
         /\ {k \in DOMAIN replies' : replies'[k].to = Len(out) + 1} = {Len(replies) + 1}
  <1>1. /\ DOMAIN replies = 1..Len(replies) /\ Len(replies) \in Nat
        /\ Len(out) \in Nat /\ DOMAIN out = 1..Len(out)
    BY DEF IntakeInv, IntakeTypeOK, TypeOK
  <1>2. /\ DOMAIN replies' = 1..(Len(replies) + 1) /\ replies'[Len(replies) + 1] = r
        /\ \A k \in DOMAIN replies : replies'[k] = replies[k]
    BY <1>1, AppendProperties DEF IntakeInv, IntakeTypeOK
  <1>3. \A k \in DOMAIN replies : replies[k].to \in 1..Len(out)
    BY <1>1 DEF IntakeInv
  <1>4. \A k \in DOMAIN replies' : k \in DOMAIN replies \/ k = Len(replies) + 1
    BY <1>1, <1>2
  <1>5. \A k \in DOMAIN replies : k \in DOMAIN replies' /\ replies'[k].to # Len(out) + 1
    BY <1>1, <1>2, <1>3
  <1>6. ASSUME NEW n \in 1..Len(out)
        PROVE  {k \in DOMAIN replies' : replies'[k].to = n} = {k \in DOMAIN replies : replies[k].to = n}
    <2>1. n # Len(out) + 1
      BY <1>1
    <2> QED
      BY <1>2, <1>4, <1>5, <2>1
  <1>7. {k \in DOMAIN replies' : replies'[k].to = Len(out) + 1} = {Len(replies) + 1}
    <2>1. Len(replies) + 1 \in DOMAIN replies'
      BY <1>1, <1>2
    <2> QED
      BY <1>2, <1>4, <1>5, <2>1
  <1> QED
    BY <1>1, <1>2, <1>6, <1>7

LEMMA HandedAppended ==
  ASSUME IntakeInv, NEW h, h.message = Len(out) + 1, handed' = Append(handed, h)
  PROVE  /\ DOMAIN handed' = 1..(Len(handed) + 1) /\ DOMAIN handed = 1..Len(handed)
         /\ Len(handed) \in Nat
         /\ handed'[Len(handed) + 1] = h
         /\ \A k \in DOMAIN handed : handed'[k] = handed[k]
         /\ \A n \in 1..Len(out) :
                {k \in DOMAIN handed' : handed'[k].message = n} = {k \in DOMAIN handed : handed[k].message = n}
         /\ {k \in DOMAIN handed' : handed'[k].message = Len(out) + 1} = {Len(handed) + 1}
  <1>1. /\ DOMAIN handed = 1..Len(handed) /\ Len(handed) \in Nat
        /\ Len(out) \in Nat /\ DOMAIN out = 1..Len(out)
    BY DEF IntakeInv, IntakeTypeOK, TypeOK
  <1>2. /\ DOMAIN handed' = 1..(Len(handed) + 1) /\ handed'[Len(handed) + 1] = h
        /\ \A k \in DOMAIN handed : handed'[k] = handed[k]
    BY <1>1, AppendProperties DEF IntakeInv, IntakeTypeOK
  <1>3. \A k \in DOMAIN handed : handed[k].message \in 1..Len(out)
    BY <1>1 DEF IntakeInv
  <1>4. \A k \in DOMAIN handed' : k \in DOMAIN handed \/ k = Len(handed) + 1
    BY <1>1, <1>2
  <1>5. \A k \in DOMAIN handed : k \in DOMAIN handed' /\ handed'[k].message # Len(out) + 1
    BY <1>1, <1>2, <1>3
  <1>6. ASSUME NEW n \in 1..Len(out)
        PROVE  {k \in DOMAIN handed' : handed'[k].message = n} = {k \in DOMAIN handed : handed[k].message = n}
    <2>1. n # Len(out) + 1
      BY <1>1
    <2> QED
      BY <1>2, <1>4, <1>5, <2>1
  <1>7. {k \in DOMAIN handed' : handed'[k].message = Len(out) + 1} = {Len(handed) + 1}
    <2>1. Len(handed) + 1 \in DOMAIN handed'
      BY <1>1, <1>2
    <2> QED
      BY <1>2, <1>4, <1>5, <2>1
  <1> QED
    BY <1>1, <1>2, <1>6, <1>7

LEMMA OutBoundedNext ==
  CodecInv' => (Len(out) \in 0..MaxLines)'
  <1>1. CodecInv => Len(out) \in 0..MaxLines
    BY OutIsBounded
  <1> QED
    BY <1>1, PTL

\* The replies to the message at i, and where it has been handed on.
To(i) == {k \in DOMAIN replies : replies[k].to = i}
By(i) == {k \in DOMAIN handed : handed[k].message = i}

\* What has been answered stays answered, and what was handed on stays so.
LEMMA AnsweredStays ==
  ASSUME reader' = reader,
         \A k \in DOMAIN replies : k \in DOMAIN replies' /\ replies'[k] = replies[k],
         NEW m, NEW to, AnsweredAs(m, to)
  PROVE  AnsweredAs(m, to)'
  <1>1. Deserved(m)' = Deserved(m)
    BY ReaderStays
  <1>2. CASE Asks(m) /\ ~Misread(m)
    <2>1. PICK k \in DOMAIN replies :
            /\ to = {k}
            /\ Misjudged(m) \/ [code |-> replies[k].code, result |-> replies[k].result] \in Deserved(m)
      BY <1>2 DEF AnsweredAs
    <2>2. k \in DOMAIN replies' /\ replies'[k] = replies[k]
      OBVIOUS
    <2> QED
      BY <1>1, <1>2, <2>1, <2>2 DEF AnsweredAs
  <1>3. CASE ~(Asks(m) /\ ~Misread(m))
    BY <1>3 DEF AnsweredAs
  <1> QED
    BY <1>2, <1>3

LEMMA HeardStays ==
  ASSUME reader' = reader,
         \A k \in DOMAIN handed : k \in DOMAIN handed' /\ handed'[k] = handed[k],
         NEW m, NEW by, HeardAs(m, by)
  PROVE  HeardAs(m, by)'
  <1>1. Hears(m)' = Hears(m)
    BY ReaderStays
  <1>2. CASE (Asks(m) /\ ~Misread(m)) \/ Hears(m) = "nobody"
    BY <1>1, <1>2 DEF HeardAs
  <1>3. CASE ~((Asks(m) /\ ~Misread(m)) \/ Hears(m) = "nobody")
    <2>1. \/ m.params = "method" /\ by = {}
          \/ \E k \in DOMAIN handed : by = {k} /\ handed[k].to = Hears(m)
      BY <1>3 DEF HeardAs
    <2>2. \/ m.params = "method" /\ by = {}
          \/ \E k \in DOMAIN handed' : by = {k} /\ handed'[k].to = Hears(m)
      BY <2>1
    <2> QED
      BY <1>1, <1>3, <2>2 DEF HeardAs
  <1> QED
    BY <1>2, <1>3

\* The place of the message just read.
LEMMA PlaceRead ==
  ASSUME IntakeInv, CodecInv', NEW m, out' = Append(out, m)
  PROVE  /\ Len(out) + 1 \in 1..MaxLines /\ Len(out) \in Nat
         /\ DOMAIN out = 1..Len(out) /\ DOMAIN out' = 1..(Len(out) + 1)
         /\ out'[Len(out) + 1] = m /\ \A i \in 1..Len(out) : out'[i] = out[i]
  <1>1. out \in Seq(Messages) /\ out' \in Seq(Messages)
    BY DEF IntakeInv, CodecInv, TypeOK
  <1>2. /\ Len(out) \in Nat /\ DOMAIN out = 1..Len(out) /\ DOMAIN out' = 1..(Len(out) + 1)
        /\ Len(out') = Len(out) + 1
        /\ out'[Len(out) + 1] = m /\ \A i \in 1..Len(out) : out'[i] = out[i]
    BY <1>1, AppendProperties
  <1>3. Len(out') \in 0..MaxLines
    BY OutBoundedNext
  <1>4. MaxLines \in Nat
    BY CodecAssumption
  <1> QED
    BY <1>2, <1>3, <1>4


Answered(i) == AnsweredAs(out[i], To(i))
HandedOn(i) == HeardAs(out[i], By(i))

\* To speak of a message and of what was done about it in both states of a step.
LEMMA AnsweredNext ==
  ASSUME NEW i, NEW m, NEW to, m = out'[i], to = To(i)', AnsweredAs(m, to)'
  PROVE  Answered(i)'
  BY DEF Answered, AnsweredAs

LEMMA HeardNext ==
  ASSUME NEW i, NEW m, NEW by, m = out'[i], by = By(i)', HeardAs(m, by)'
  PROVE  HandedOn(i)'
  BY DEF HandedOn, HeardAs

\* When message n is read, the replies to the others stay, and it has the one that
\* it deserves or none.
LEMMA RepliesRead ==
  ASSUME IntakeInv, RequestsAnswered, CodecInv', NEW m \in Messages, reader' = reader,
         NEW n, n = Len(out) + 1, out' = Append(out, m), HandleMessage(m, n)
  PROVE  /\ replies' \in Seq([to : 1..MaxLines, code : Codes, result : SUBSET Names])
         /\ \A k \in DOMAIN replies' : replies'[k].to \in 1..n
         /\ \A i \in 1..n : Answered(i)'
  <1>1. /\ n \in 1..MaxLines /\ Len(out) \in Nat /\ DOMAIN out = 1..Len(out)
        /\ out'[n] = m /\ \A i \in 1..Len(out) : out'[i] = out[i]
    BY PlaceRead
  <1>2. /\ replies \in Seq([to : 1..MaxLines, code : Codes, result : SUBSET Names])
        /\ \A k \in DOMAIN replies : replies[k].to \in 1..Len(out)
        /\ DOMAIN replies = 1..Len(replies) /\ Len(replies) \in Nat
    BY <1>1 DEF IntakeInv, IntakeTypeOK
  <1>3. \A i \in 1..Len(out) : Answered(i)
    BY <1>1 DEF RequestsAnswered, Answered, To
  <1>4. \A i \in 1..n : i \in 1..Len(out) \/ i = n
    BY <1>1
  <1>5. ASSUME \A k \in DOMAIN replies : k \in DOMAIN replies' /\ replies'[k] = replies[k],
               NEW i \in 1..Len(out), To(i)' = To(i)
        PROVE  Answered(i)'
    <2>1. PICK x, to : x = out[i] /\ to = To(i)
      OBVIOUS
    <2>2. AnsweredAs(x, to)
      BY <1>3, <2>1 DEF Answered
    <2>3. AnsweredAs(x, to)'
      BY <1>5, <2>2, AnsweredStays
    <2>4. x = out'[i] /\ to = To(i)'
      BY <1>1, <1>5, <2>1
    <2> QED
      BY <2>3, <2>4, AnsweredNext
  <1>6. CASE Asks(m) /\ ~Misread(m)
    <2>1. PICK code \in Codes, result \in SUBSET Names :
            /\ replies' = Append(replies, [to |-> n, code |-> code, result |-> result])
            /\ Misjudged(m) \/ [code |-> code, result |-> result] \in Deserved(m)
      BY <1>6, MessageHandled
    <2> DEFINE r == [to |-> n, code |-> code, result |-> result]
    <2>2. /\ r \in [to : 1..MaxLines, code : Codes, result : SUBSET Names] /\ r.to = n
          /\ r.code = code /\ r.result = result
      BY <1>1
    <2>3. replies' = Append(replies, r)
      BY <2>1
    <2> HIDE DEF r
    <2>4. /\ DOMAIN replies' = 1..(Len(replies) + 1) /\ replies'[Len(replies) + 1] = r
          /\ \A k \in DOMAIN replies : replies'[k] = replies[k]
          /\ \A i \in 1..Len(out) : To(i)' = To(i)
          /\ To(n)' = {Len(replies) + 1}
      BY <2>2, <2>3, ReplyAppended DEF To
    <2>5. replies' \in Seq([to : 1..MaxLines, code : Codes, result : SUBSET Names])
      BY <1>2, <2>2, <2>3
    <2>6. \A k \in DOMAIN replies : k \in DOMAIN replies' /\ replies'[k] = replies[k]
      BY <1>2, <2>4
    <2>7. \A k \in DOMAIN replies' : replies'[k].to \in 1..n
      <3>1. \A k \in DOMAIN replies' : k \in DOMAIN replies \/ k = Len(replies) + 1
        BY <1>2, <2>4
      <3>2. \A k \in DOMAIN replies : replies[k].to \in 1..n
        BY <1>1, <1>2
      <3>3. n \in 1..n
        BY <1>1
      <3> QED
        BY <2>2, <2>4, <3>1, <3>2, <3>3
    <2>8. Answered(n)'
      <3>1. Deserved(m)' = Deserved(m)
        BY ReaderStays
      <3>2. PICK to : to = {Len(replies) + 1}
        OBVIOUS
      <3>3. \E k \in DOMAIN replies' :
                /\ to = {k}
                /\ Misjudged(m) \/ [code |-> replies'[k].code, result |-> replies'[k].result] \in Deserved(m)
        <4>1. Len(replies) + 1 \in DOMAIN replies'
          BY <1>2, <2>4
        <4>2. Misjudged(m) \/ [code |-> r.code, result |-> r.result] \in Deserved(m)
          BY <2>1, <2>2
        <4> QED
          BY <2>4, <3>2, <4>1, <4>2
      <3>4. AnsweredAs(m, to)'
        BY <1>6, <3>1, <3>3 DEF AnsweredAs
      <3>5. m = out'[n] /\ to = To(n)'
        BY <1>1, <2>4, <3>2
      <3> QED
        BY <3>4, <3>5, AnsweredNext
    <2>9. \A i \in 1..Len(out) : Answered(i)'
      BY <1>5, <2>4, <2>6
    <2> QED
      BY <1>4, <2>5, <2>7, <2>8, <2>9
  <1>7. CASE ~(Asks(m) /\ ~Misread(m))
    <2>1. replies' = replies
      BY <1>7, MessageHandled
    <2>2. \A i : To(i)' = To(i)
      BY <2>1 DEF To
    <2>3. To(n)' = {}
      <3>1. \A k \in DOMAIN replies : replies[k].to # n
        BY <1>1, <1>2
      <3> QED
        BY <2>1, <3>1 DEF To
    <2>4. Answered(n)'
      <3>1. PICK to : to = {}
        OBVIOUS
      <3>2. AnsweredAs(m, to)'
        BY <1>7, <3>1 DEF AnsweredAs
      <3>3. m = out'[n] /\ to = To(n)'
        BY <1>1, <2>3, <3>1
      <3> QED
        BY <3>2, <3>3, AnsweredNext
    <2>5. \A i \in 1..Len(out) : Answered(i)'
      BY <1>5, <2>1, <2>2
    <2>6. \A k \in DOMAIN replies' : replies'[k].to \in 1..n
      BY <1>1, <1>2, <2>1
    <2> QED
      BY <1>2, <1>4, <2>1, <2>4, <2>5, <2>6
  <1> QED
    BY <1>6, <1>7

\* And so with what has been handed on.
LEMMA HandedRead ==
  ASSUME IntakeInv, RequestsAnswered, CodecInv', NEW m \in Messages, reader' = reader,
         NEW n, n = Len(out) + 1, out' = Append(out, m), HandleMessage(m, n)
  PROVE  /\ handed' \in Seq([to : {"callback", "response", "error"}, message : 1..MaxLines])
         /\ \A k \in DOMAIN handed' : handed'[k].message \in 1..n
         /\ \A i \in 1..n : HandedOn(i)'
  <1>1. /\ n \in 1..MaxLines /\ Len(out) \in Nat /\ DOMAIN out = 1..Len(out)
        /\ out'[n] = m /\ \A i \in 1..Len(out) : out'[i] = out[i]
    BY PlaceRead
  <1>2. /\ handed \in Seq([to : {"callback", "response", "error"}, message : 1..MaxLines])
        /\ \A k \in DOMAIN handed : handed[k].message \in 1..Len(out)
        /\ DOMAIN handed = 1..Len(handed) /\ Len(handed) \in Nat
    BY <1>1 DEF IntakeInv, IntakeTypeOK
  <1>3. \A i \in 1..Len(out) : HandedOn(i)
    BY <1>1 DEF RequestsAnswered, HandedOn, By
  <1>4. \A i \in 1..n : i \in 1..Len(out) \/ i = n
    BY <1>1
  <1>5. ASSUME \A k \in DOMAIN handed : k \in DOMAIN handed' /\ handed'[k] = handed[k],
               NEW i \in 1..Len(out), By(i)' = By(i)
        PROVE  HandedOn(i)'
    <2>1. PICK x, by : x = out[i] /\ by = By(i)
      OBVIOUS
    <2>2. HeardAs(x, by)
      BY <1>3, <2>1 DEF HandedOn
    <2>3. HeardAs(x, by)'
      BY <1>5, <2>2, HeardStays
    <2>4. x = out'[i] /\ by = By(i)'
      BY <1>1, <1>5, <2>1
    <2> QED
      BY <2>3, <2>4, HeardNext
  <1>6. Hears(m)' = Hears(m)
    BY ReaderStays
  <1>7. CASE handed' = handed
    <2>1. (Asks(m) /\ ~Misread(m)) \/ Hears(m) = "nobody" \/ m.params = "method"
      <3> DEFINE H == [to : {"callback", "response", "error"}, message : 1..MaxLines]
                 h == [to |-> Hears(m), message |-> n]
      <3>1. Hears(m) \in {"callback", "response", "error"} => h \in H
        BY <1>1
      <3>2. handed \in Seq(H)
        BY <1>2
      <3>3. \/ (Asks(m) /\ ~Misread(m)) \/ Hears(m) = "nobody" \/ m.params = "method"
            \/ Hears(m) \in {"callback", "response", "error"} /\ handed' = Append(handed, h)
        BY MessageHandled
      <3> HIDE DEF H, h
      <3>4. h \in H => Len(Append(handed, h)) = Len(handed) + 1
        BY <3>2, AppendProperties
      <3>5. h \in H => Append(handed, h) # handed
        <4>1. \A k \in Nat : k + 1 # k
          OBVIOUS
        <4>2. Len(handed) + 1 # Len(handed)
          BY <1>2, <4>1, Zenon
        <4> QED
          BY <3>4, <4>2, Zenon
      <3> QED
        BY <1>7, <3>1, <3>3, <3>5
    <2>2. By(n)' = {} /\ \A i : By(i)' = By(i)
      <3>1. \A k \in DOMAIN handed : handed[k].message # n
        BY <1>1, <1>2
      <3> QED
        BY <1>7, <3>1 DEF By
    <2>3. HandedOn(n)'
      <3>1. PICK by : by = {}
        OBVIOUS
      <3>2. HeardAs(m, by)'
        BY <1>6, <2>1, <3>1 DEF HeardAs
      <3>3. m = out'[n] /\ by = By(n)'
        BY <1>1, <2>2, <3>1
      <3> QED
        BY <3>2, <3>3, HeardNext
    <2>4. \A i \in 1..Len(out) : HandedOn(i)'
      BY <1>5, <1>7, <2>2
    <2>5. \A k \in DOMAIN handed' : handed'[k].message \in 1..n
      BY <1>1, <1>2, <1>7
    <2> QED
      BY <1>2, <1>4, <1>7, <2>3, <2>4, <2>5
  <1>8. CASE handed' # handed
    <2> DEFINE h == [to |-> Hears(m), message |-> n]
    <2>1. /\ ~(Asks(m) /\ ~Misread(m)) /\ Hears(m) \in {"callback", "response", "error"}
          /\ handed' = Append(handed, h)
      BY <1>8, MessageHandled
    <2>2. /\ h \in [to : {"callback", "response", "error"}, message : 1..MaxLines]
          /\ h.message = n /\ h.to = Hears(m)
      BY <1>1, <2>1
    <2> HIDE DEF h
    <2>3. /\ DOMAIN handed' = 1..(Len(handed) + 1) /\ handed'[Len(handed) + 1] = h
          /\ \A k \in DOMAIN handed : handed'[k] = handed[k]
          /\ \A i \in 1..Len(out) : By(i)' = By(i)
          /\ By(n)' = {Len(handed) + 1}
      BY <2>1, <2>2, HandedAppended DEF By
    <2>4. handed' \in Seq([to : {"callback", "response", "error"}, message : 1..MaxLines])
      BY <1>2, <2>1, <2>2
    <2>5. \A k \in DOMAIN handed : k \in DOMAIN handed' /\ handed'[k] = handed[k]
      BY <1>2, <2>3
    <2>6. \A k \in DOMAIN handed' : handed'[k].message \in 1..n
      <3>1. \A k \in DOMAIN handed' : k \in DOMAIN handed \/ k = Len(handed) + 1
        BY <1>2, <2>3
      <3>2. \A k \in DOMAIN handed : handed[k].message \in 1..n
        BY <1>1, <1>2
      <3>3. n \in 1..n
        BY <1>1
      <3> QED
        BY <2>2, <2>3, <3>1, <3>2, <3>3
    <2>7. HandedOn(n)'
      <3>1. PICK by : by = {Len(handed) + 1}
        OBVIOUS
      <3>2. \E k \in DOMAIN handed' : by = {k} /\ handed'[k].to = Hears(m)
        <4>1. Len(handed) + 1 \in DOMAIN handed'
          BY <1>2, <2>3
        <4> QED
          BY <2>2, <2>3, <3>1, <4>1
      <3>3. HeardAs(m, by)'
        BY <1>6, <2>1, <3>2 DEF HeardAs
      <3>4. m = out'[n] /\ by = By(n)'
        BY <1>1, <2>3, <3>1
      <3> QED
        BY <3>3, <3>4, HeardNext
    <2>8. \A i \in 1..Len(out) : HandedOn(i)'
      BY <1>5, <2>3, <2>5
    <2> QED
      BY <1>4, <2>4, <2>6, <2>7, <2>8
  <1> QED
    BY <1>7, <1>8

LEMMA MessageRead ==
  ASSUME IntakeInv, RequestsAnswered, CodecInv', NEW m \in Messages, reader' = reader,
         NEW n, n = Len(out) + 1, out' = Append(out, m), HandleMessage(m, n)
  PROVE  IntakeInv' /\ RequestsAnswered'
  <1>1. DOMAIN out' = 1..n
    BY PlaceRead
  <1>2. /\ replies' \in Seq([to : 1..MaxLines, code : Codes, result : SUBSET Names])
        /\ \A k \in DOMAIN replies' : replies'[k].to \in 1..n
        /\ \A i \in 1..n : Answered(i)'
    BY RepliesRead
  <1>3. /\ handed' \in Seq([to : {"callback", "response", "error"}, message : 1..MaxLines])
        /\ \A k \in DOMAIN handed' : handed'[k].message \in 1..n
        /\ \A i \in 1..n : HandedOn(i)'
    BY HandedRead
  <1>4. IntakeInv'
    <2>1. TypeOK' /\ reader' \in {"server", "client"}
      BY DEF CodecInv, IntakeInv, IntakeTypeOK
    <2> QED
      BY <1>1, <1>2, <1>3, <2>1 DEF IntakeInv, IntakeTypeOK
  <1>5. RequestsAnswered'
    BY <1>1, <1>2, <1>3 DEF RequestsAnswered, Answered, HandedOn, To, By
  <1> QED
    BY <1>4, <1>5

\* Nothing is read.
LEMMA NothingRead ==
  ASSUME IntakeInv, RequestsAnswered, CodecInv', reader' = reader,
         out' = out, replies' = replies, handed' = handed
  PROVE  IntakeInv' /\ RequestsAnswered'
  <1>1. TypeOK' /\ IntakeInv'
    BY DEF CodecInv, IntakeInv, IntakeTypeOK
  <1>2. ASSUME NEW i \in DOMAIN out'
        PROVE  Answered(i)' /\ HandedOn(i)'
    <2>1. PICK m, to, by : m = out[i] /\ to = To(i) /\ by = By(i)
      OBVIOUS
    <2>2. AnsweredAs(m, to) /\ HeardAs(m, by)
      BY <2>1 DEF RequestsAnswered, To, By
    <2>3. AnsweredAs(m, to)'
      BY <2>2, AnsweredStays
    <2>4. HeardAs(m, by)'
      BY <2>2, HeardStays
    <2>5. m = out'[i] /\ to = To(i)' /\ by = By(i)'
      BY <2>1 DEF To, By
    <2> QED
      BY <2>3, <2>4, <2>5, AnsweredNext, HeardNext
  <1> QED
    BY <1>1, <1>2 DEF RequestsAnswered, Answered, HandedOn, To, By

\* Either part of the invariant needs the other.
LEMMA IntakeInductive == IntakeSpec => [](IntakeInv /\ RequestsAnswered)
  <1>1. IntakeInit => IntakeInv /\ RequestsAnswered
    <2> SUFFICES ASSUME IntakeInit
                 PROVE  IntakeInv /\ RequestsAnswered
      OBVIOUS
    <2>1. CodecInv /\ out = <<>> /\ replies = <<>> /\ handed = <<>> /\ reader \in {"server", "client"}
      BY CodecStarts DEF IntakeInit, Init
    <2>2. TypeOK
      BY <2>1 DEF CodecInv
    <2>3. \A S : <<>> \in Seq(S)
      OBVIOUS
    <2>4. IntakeTypeOK
      BY <2>1, <2>2, <2>3 DEF IntakeTypeOK
    <2>5. DOMAIN out = {} /\ DOMAIN replies = {} /\ DOMAIN handed = {}
      BY <2>1
    <2> QED
      BY <2>1, <2>4, <2>5 DEF IntakeInv, RequestsAnswered
  <1>2. IntakeInv /\ RequestsAnswered /\ CodecInv' /\ [IntakeNext]_intakeVars
            => (IntakeInv /\ RequestsAnswered)'
    <2> SUFFICES ASSUME IntakeInv, RequestsAnswered, CodecInv', [IntakeNext]_intakeVars
                 PROVE  (IntakeInv /\ RequestsAnswered)'
      OBVIOUS
    <2>1. CASE TakeFrame
      <3>1. TypeOK
        BY DEF IntakeInv, IntakeTypeOK
      <3>2. PICK n : n = Len(out) + 1
        OBVIOUS
      <3>3. /\ reader' = reader
            /\ \/ out' = out /\ replies' = replies /\ handed' = handed
               \/ \E m \in Messages : out' = Append(out, m) /\ HandleMessage(m, n)
        BY <2>1, <3>1, <3>2, FrameTaken
      <3> QED
        BY <3>2, <3>3, MessageRead, NothingRead
    <2>2. ASSUME ReadOn \/ PeerStep \/ UNCHANGED intakeVars
          PROVE  out' = out /\ reader' = reader /\ replies' = replies /\ handed' = handed
      <3>1. ReadOn => out' = out
        BY DEF ReadOn, DecodeNone, DecodeEof, ReadBytes, ReadNothing
      <3>2. PeerStep => out' = out
        BY DEF PeerStep, Close, Encode
      <3>3. UNCHANGED intakeVars => out' = out
        BY DEF intakeVars, vars
      <3> QED
        BY <2>2, <3>1, <3>2, <3>3 DEF ReadOn, PeerStep, intakeVars
    <2> QED
      BY <2>1, <2>2, NothingRead DEF IntakeNext
  <1> QED
    BY <1>1, <1>2, CodecInvariance, PTL DEF IntakeSpec

\* Types, and that every reply and every message handed on is to a message that
\* has been read (server.rs:407, client.rs:278).
THEOREM IntakeInvariance == IntakeSpec => []IntakeInv
  BY IntakeInductive, PTL

\* At a server and at a client, each message that is read gets what it deserves:
\* one reply, one hearing, or neither (server.rs:454, client.rs:503, lib.rs:274).
THEOREM MessagesAreAnswered == IntakeSpec => []RequestsAnswered
  BY IntakeInductive, PTL

=============================================================================
