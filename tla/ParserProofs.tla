---------------------------- MODULE ParserProofs ----------------------------
(***************************************************************************)
(* Proofs about the parser, for every text, every limit and every pattern  *)
(* of failing allocations: it never reads past the text's final NUL, never *)
(* writes a string past the memory that was measured for it, its recursion *)
(* stays under the nesting limit, no block is freed twice and none is left *)
(* that the tree it returns does not have.                                 *)
(***************************************************************************)
EXTENDS JsonParser, FiniteSetTheorems, SequenceTheorems,
        WellFoundedInduction, TLAPS

-----------------------------------------------------------------------------
(* Helpers: the least element of a set, a byte, and a counted set.         *)

LEMMA HasMin == ASSUME NEW T \in SUBSET Nat, T # {}
                PROVE Min(T) \in T /\ \A y \in T : Min(T) <= y
  <1> DEFINE Less == {ss \in Nat \X Nat : ss[1] < ss[2]}
  <1>0. IsWellFoundedOn(Less, Nat)
    <2>1. IsWellFoundedOn(OpToRel(<, Nat), Nat)
      BY NatLessThanWellFounded
    <2> QED BY <2>1 DEF OpToRel
  <1>1. \A x, y \in Nat : <<y, x>> \in Less <=> y < x
    OBVIOUS
  <1> HIDE DEF Less
  <1>2. PICK x \in T : \A y \in T : ~ (<<y, x>> \in Less)
    BY <1>0, WFMin
  <1>3. \A y \in T : x <= y
    <2> SUFFICES ASSUME NEW y \in T PROVE x <= y
      OBVIOUS
    <2>1. x \in Nat /\ y \in Nat
      OBVIOUS
    <2>2. ~ (y < x)
      BY <1>1, <1>2, <2>1
    <2> QED BY <2>1, <2>2
  <1> QED BY <1>2, <1>3 DEF Min

\* A text ends with its NUL.
TextOK == text \in Seq(Nat) /\ text # <<>> /\ text[Length] = 0

LEMMA Bytes == ASSUME TextOK PROVE
               /\ Length \in Nat \ {0}
               /\ \A i \in Nat : Byte(i) \in Nat
               /\ \A i \in Nat : Byte(i) # 0 => i + 1 < Length
  BY DEF TextOK, Length, Byte

\* Where a white-space skip ends.
LEMMA SkipEnds == ASSUME TextOK, NEW o \in 0 .. Length PROVE
                  /\ SkipWhitespace(o) \in 0 .. Length - 1
                  /\ o < Length => SkipWhitespace(o) >= o
  <1> DEFINE T == {j \in o .. Length : j = Length \/ Byte(j) > 32}
  <1>1. Length \in Nat \ {0}
    BY Bytes
  <1>2. Length \in T /\ T \in SUBSET Nat
    BY <1>1
  <1> HIDE DEF T
  <1>3. Min(T) \in T
    BY <1>2, HasMin
  <1>4. FirstBlack(o) \in o .. Length
    BY <1>3 DEF FirstBlack, T
  <1> QED BY <1>1, <1>4 DEF SkipWhitespace

\* A run of bytes of S ends before a byte that is not in S.
LEMMA RunEnds == ASSUME TextOK, NEW o \in Nat, NEW S, NEW most \in Nat PROVE
                 /\ Run(o, S, most) \in 0 .. most
                 /\ \A i \in 0 .. Run(o, S, most) - 1 : o + i < Length /\ Byte(o + i) \in S
  <1> DEFINE T == {n \in 0 .. most : n = most \/ o + n >= Length \/ Byte(o + n) \notin S}
  <1>1. most \in T /\ T \in SUBSET Nat
    OBVIOUS
  <1>2. T = {n \in 0 .. most : n = most \/ o + n >= Length \/ Byte(o + n) \notin S}
    OBVIOUS
  <1> HIDE DEF T
  <1>3. Min(T) \in T /\ \A y \in T : Min(T) <= y
    BY <1>1, HasMin
  <1>4. Run(o, S, most) = Min(T)
    BY <1>2 DEF Run
  <1>5. Min(T) \in 0 .. most
    BY <1>2, <1>3
  <1>6. ASSUME NEW i \in 0 .. Min(T) - 1 PROVE o + i < Length /\ Byte(o + i) \in S
    <2>1. i \in 0 .. most /\ i # most /\ i \notin T
      BY <1>3, <1>5
    <2>2. Length \in Nat
      BY Bytes
    <2> QED BY <2>1, <2>2, <1>2
  <1> QED BY <1>4, <1>5, <1>6

-----------------------------------------------------------------------------
(* The room for a string.  Every byte that was skipped stands before one   *)
(* that was not, so of any two bytes one is paid for.                      *)

Rest(k) == {p \in skips : p >= k}
Spread == \A p \in skips : Byte(p) = Backslash /\ p + 1 < inEnd /\ p + 1 \notin skips

LEMMA RestMembers == ASSUME StringTypeOK PROVE
                     /\ \A p \in skips : p \in Nat
                     /\ \A k : \A p : p \in Rest(k) <=> p \in skips /\ p >= k
  BY DEF StringTypeOK, Rest

LEMMA RestCounts == ASSUME StringTypeOK, NEW k \in Nat PROVE
                    /\ IsFiniteSet(Rest(k))
                    /\ Cardinality(Rest(k)) \in Nat
                    /\ Cardinality(Rest(k)) <= Cardinality(skips)
  BY FS_Subset, FS_CardinalityType DEF StringTypeOK, Rest

\* Of two bytes at most one was skipped.
LEMMA OnePerPair == ASSUME StringTypeOK, Spread, NEW k \in Nat PROVE
                    Cardinality(Rest(k)) <= Cardinality(Rest(k + 2)) + 1
  <1> DEFINE R == Rest(k + 2)
  <1>1. IsFiniteSet(R) /\ Cardinality(R) \in Nat
    BY RestCounts
  <1>2. PICK x : Rest(k) \subseteq R \cup {x}
    <2>1. CASE k \in skips
      <3>1. k + 1 \notin skips
        BY <2>1 DEF Spread
      <3>2. ASSUME NEW p \in Rest(k) PROVE p = k \/ p \in Rest(k + 2)
        <4>1. p \in Nat /\ p \in skips /\ p >= k /\ p # k + 1
          BY <3>1, RestMembers
        <4> QED BY <4>1, RestMembers
      <3> QED BY <3>2
    <2>2. CASE k \notin skips
      <3>1. ASSUME NEW p \in Rest(k) PROVE p = k + 1 \/ p \in Rest(k + 2)
        <4>1. p \in Nat /\ p \in skips /\ p >= k /\ p # k
          BY <2>2, RestMembers
        <4> QED BY <4>1, RestMembers
      <3> QED BY <3>1
    <2> QED BY <2>1, <2>2
  <1> HIDE DEF R
  <1>3. IsFiniteSet(R \cup {x}) /\ Cardinality(R \cup {x}) <= Cardinality(R) + 1
    BY <1>1, FS_AddElement
  <1>4. Cardinality(Rest(k)) <= Cardinality(R \cup {x})
    BY <1>2, <1>3, FS_Subset
  <1>5. Cardinality(Rest(k)) \in Nat /\ Cardinality(R \cup {x}) \in Nat
    BY <1>3, RestCounts, FS_CardinalityType
  <1>6. Cardinality(Rest(k)) <= Cardinality(R) + 1
    BY <1>1, <1>3, <1>4, <1>5
  <1> QED BY <1>6 DEF R

LEMMA ThreePerSix == ASSUME StringTypeOK, Spread, NEW k \in Nat PROVE
                     Cardinality(Rest(k)) <= Cardinality(Rest(k + 6)) + 3
  <1>1. /\ Cardinality(Rest(k)) <= Cardinality(Rest(k + 2)) + 1
        /\ Cardinality(Rest(k + 2)) <= Cardinality(Rest(k + 4)) + 1
        /\ Cardinality(Rest(k + 4)) <= Cardinality(Rest(k + 6)) + 1
    <2>1. (k + 2) + 2 = k + 4 /\ (k + 4) + 2 = k + 6 /\ k + 2 \in Nat /\ k + 4 \in Nat
      OBVIOUS
    <2>2. Cardinality(Rest(k)) <= Cardinality(Rest(k + 2)) + 1
      BY OnePerPair
    <2>3. Cardinality(Rest(k + 2)) <= Cardinality(Rest((k + 2) + 2)) + 1
      BY <2>1, OnePerPair
    <2>4. Cardinality(Rest(k + 4)) <= Cardinality(Rest((k + 4) + 2)) + 1
      BY <2>1, OnePerPair
    <2> QED BY <2>1, <2>2, <2>3, <2>4
  <1>2. /\ Cardinality(Rest(k)) \in Nat /\ Cardinality(Rest(k + 2)) \in Nat
        /\ Cardinality(Rest(k + 4)) \in Nat /\ Cardinality(Rest(k + 6)) \in Nat
    BY RestCounts
  <1> QED BY <1>1, <1>2

\* What was skipped from k on lies between k and the closing quote.
LEMMA RestBound == ASSUME StringTypeOK, Spread, NEW k \in 0 .. inEnd PROVE
                   Cardinality(Rest(k)) <= inEnd - k
  <1>1. inEnd \in Nat
    BY DEF StringTypeOK
  <1>2. ASSUME NEW p \in Rest(k) PROVE p \in k .. inEnd - 1
    <2>1. p \in Nat /\ p \in skips /\ p >= k
      BY RestMembers
    <2>2. p + 1 < inEnd
      BY <2>1 DEF Spread
    <2> QED BY <1>1, <2>1, <2>2
  <1>3. IsFiniteSet(k .. inEnd - 1) /\ Cardinality(k .. inEnd - 1) = inEnd - k
    <2>1. k \in Int /\ inEnd - 1 \in Int
      BY <1>1
    <2>2. /\ IsFiniteSet(k .. inEnd - 1)
          /\ Cardinality(k .. inEnd - 1) = IF k > inEnd - 1 THEN 0 ELSE (inEnd - 1) - k + 1
      BY <2>1, FS_Interval
    <2> QED BY <1>1, <2>2
  <1>4. Cardinality(Rest(k)) <= Cardinality(k .. inEnd - 1)
    BY <1>2, <1>3, FS_Subset
  <1> QED BY <1>3, <1>4

\* What is left to copy has room, and one byte more for the NUL.
Room == /\ Len(output) <= alloc - 2
        /\ inPtr <= inEnd =>
              Len(output) + (inEnd - inPtr) - Cardinality(Rest(inPtr)) <= alloc - 2

StringInv ==
    /\ spc \in {"idle", "measure", "allocate", "failed"} => alloc = 0
    /\ spc \in {"measure", "allocate", "copy"} =>
          /\ offset < inEnd /\ inEnd <= Length
          /\ skips \subseteq offset + 1 .. inEnd /\ Spread
    /\ spc \in {"measure", "allocate"} => inPtr = offset + 1 /\ output = <<>>
    /\ spc \in {"allocate", "copy"} => inEnd < Length /\ Byte(inEnd) = Quote
    /\ spc = "copy" => Room
    /\ spc = "ok" => offset < Length /\ Len(output) <= alloc

LEMMA ReadStep == ASSUME StringTypeOK, NEW i \in Nat, Reads(i), i < Length, reach < Length
                  PROVE  reach' \in Nat /\ reach' < Length
  BY DEF Reads, StringTypeOK

\* A step of the copying loop that writes no more than what it consumes, less
\* what of that was skipped.
LEMMA WriteKeeps ==
    ASSUME StringTypeOK, TextOK, StringInv, Copying,
           NEW bytes \in Seq(Nat), NEW n \in Nat, n > 0, Write(bytes, n), reach' \in Nat,
           Len(bytes) + Cardinality(Rest(inPtr)) <= n + Cardinality(Rest(inPtr + n)),
           inPtr + n > inEnd => Len(bytes) = 1
    PROVE  StringTypeOK' /\ StringInv'
  <1> USE DEF Write, Copying
  <1>1. inPtr \in Nat /\ inEnd \in Nat /\ alloc \in Nat /\ output \in Seq(Nat)
    BY DEF StringTypeOK
  <1>2. spc = "copy" /\ Spread /\ Room /\ inPtr < inEnd
    BY DEF StringInv
  <1>3. output' \in Seq(Nat) /\ Len(output') = Len(output) + Len(bytes) /\ inPtr' = inPtr + n
    BY <1>1
  <1>4. StringTypeOK'
    BY <1>1, <1>3 DEF StringTypeOK
  <1>5. Rest(inPtr)' = Rest(inPtr + n)
    BY DEF Rest
  <1>6. /\ Cardinality(Rest(inPtr)) \in Nat /\ Cardinality(Rest(inPtr + n)) \in Nat
        /\ Len(output) \in Nat /\ Len(bytes) \in Nat
    <2>1. inPtr + n \in Nat
      BY <1>1
    <2>2. Cardinality(Rest(inPtr + n)) \in Nat
      BY <2>1, RestCounts
    <2>3. Cardinality(Rest(inPtr)) \in Nat
      BY <1>1, RestCounts
    <2> QED BY <2>2, <2>3, <1>1
  <1>7. Len(output) + (inEnd - inPtr) - Cardinality(Rest(inPtr)) <= alloc - 2
    BY <1>1, <1>2 DEF Room
  <1>8. Room'
    <2>1. CASE inPtr + n <= inEnd
      <3>1. Cardinality(Rest(inPtr + n)) <= inEnd - (inPtr + n)
        BY <2>1, <1>1, <1>2, RestBound
      <3>2. Len(output') + (inEnd - (inPtr + n)) - Cardinality(Rest(inPtr + n)) <= alloc - 2
        BY <1>1, <1>3, <1>6, <1>7, SMTT(60)
      <3>3. Len(output') <= alloc - 2
        BY <3>1, <3>2, <1>1, <1>3, <1>6
      <3> QED BY <3>2, <3>3, <1>3, <1>5 DEF Room
    <2>2. CASE inPtr + n > inEnd
      <3>1. Cardinality(Rest(inPtr)) <= inEnd - inPtr
        BY <1>1, <1>2, RestBound
      <3>2. inEnd - inPtr - Cardinality(Rest(inPtr)) >= 1
        <4>1. Cardinality(Rest(inPtr + 1)) <= inEnd - (inPtr + 1)
          BY <1>1, <1>2, RestBound
        <4>2. Cardinality(Rest(inPtr)) <= Cardinality(Rest(inPtr + 2)) + 1
          BY <1>1, <1>2, OnePerPair
        <4>3. CASE inPtr \in skips
          <5>1. inPtr + 1 < inEnd /\ inPtr + 1 \notin skips
            BY <4>3, <1>2 DEF Spread
          <5>2. Cardinality(Rest(inPtr + 2)) <= inEnd - (inPtr + 2)
            BY <5>1, <1>1, <1>2, RestBound
          <5>3. Cardinality(Rest(inPtr + 2)) \in Nat
            <6>1. inPtr + 2 \in Nat
              BY <1>1
            <6> QED BY <6>1, RestCounts
          <5> QED BY <5>2, <5>3, <4>2, <1>1, <1>6
        <4>4. CASE inPtr \notin skips
          <5>1. Rest(inPtr) = Rest(inPtr + 1)
            <6>1. ASSUME NEW p \in skips PROVE p >= inPtr <=> p >= inPtr + 1
              BY <4>4, <1>1, RestMembers
            <6> QED BY <6>1 DEF Rest
          <5> QED BY <5>1, <4>1, <1>1, <1>6
        <4> QED BY <4>3, <4>4
      <3>3. Len(output') <= alloc - 2
        <4>1. Len(output') = Len(output) + 1
          BY <2>2, <1>3
        <4> QED BY <4>1, <3>2, <1>1, <1>6, <1>7, SMTT(60)
      <3> QED BY <2>2, <3>3, <1>1, <1>3 DEF Room
    <2> QED BY <2>1, <2>2, <1>1
  <1>9. StringInv'
    <2>1. Spread'
      BY <1>2 DEF Spread, Byte, Length
    <2> QED BY <2>1, <1>2, <1>8 DEF StringInv, Byte, Length
  <1> QED BY <1>4, <1>9

\* What the bytes of the copying loop amount to.
LEMMA Utf8Sizes == ASSUME NEW c \in Nat PROVE
                   /\ Utf8(c) \in Seq(Nat) /\ Len(Utf8(c)) \in Nat /\ Len(Utf8(c)) <= 4
                   /\ c <= 65535 => Len(Utf8(c)) <= 3
  <1>1. Utf8Size(c) \in 1 .. 4 /\ (c <= 65535 => Utf8Size(c) <= 3)
    BY SMT DEF Utf8Size
  <1>2. \A n \in 1 .. 4 : Mark[n] \in Nat /\ Shift[n] \in Nat \ {0}
    BY SMT DEF Mark, Shift
  <1>3. \A d \in Nat \ {0} : c \div d \in Nat /\ (c \div d) % 64 \in Nat
    <2>1. ASSUME NEW d \in Nat \ {0} PROVE c \div d \in Nat
      BY SMT
    <2>2. \A m \in Nat : m % 64 \in Nat
      BY SMT
    <2> QED BY <2>1, <2>2
  <1> DEFINE n == Utf8Size(c)
             byte(j) == IF j = 1 THEN Mark[n] + c \div Shift[n]
                        ELSE 128 + ((c \div Shift[n - j + 1]) % 64)
  <1>4. ASSUME NEW j \in 1 .. n PROVE byte(j) \in Nat
    <2>1. n - j + 1 \in 1 .. 4 /\ n \in 1 .. 4
      BY <1>1
    <2> HIDE DEF n
    <2> QED BY <2>1, <1>2, <1>3
  <1>5. Utf8(c) = [j \in 1 .. n |-> byte(j)]
    BY DEF Utf8
  <1> HIDE DEF n, byte
  <1>6. n \in Nat
    BY <1>1 DEF n
  <1>7. Utf8(c) \in Seq(Nat) /\ Len(Utf8(c)) = n
    BY <1>4, <1>5, <1>6
  <1> QED BY <1>1, <1>7 DEF n

LEMMA HexCodes == ASSUME TextOK, NEW i \in Nat PROVE
                  parse_hex4(i) \in Nat /\ parse_hex4(i) <= 65535
  <1>1. \A c \in Nat : HexDigit(c) \in 0 .. 15 \/ HexDigit(c) = -1
    BY DEF HexDigit
  <1>2. CASE \E k \in 0..3 : HexDigit(Byte(i + k)) = -1
    <2>1. parse_hex4(i) = 0
      BY <1>2 DEF parse_hex4
    <2> QED BY <2>1, SMT
  <1>3. CASE ~ \E k \in 0..3 : HexDigit(Byte(i + k)) = -1
    <2>1. \A k \in 0..3 : HexDigit(Byte(i + k)) # -1 /\ Byte(i + k) \in Nat
      BY <1>3, Bytes
    <2>2. i + 0 = i
      OBVIOUS
    <2>3. /\ HexDigit(Byte(i)) \in 0 .. 15 /\ HexDigit(Byte(i + 1)) \in 0 .. 15
          /\ HexDigit(Byte(i + 2)) \in 0 .. 15 /\ HexDigit(Byte(i + 3)) \in 0 .. 15
      BY <1>1, <2>1, <2>2
    <2>4. parse_hex4(i) = 4096 * HexDigit(Byte(i)) + 256 * HexDigit(Byte(i + 1))
                            + 16 * HexDigit(Byte(i + 2)) + HexDigit(Byte(i + 3))
      BY <1>3, SMT DEF parse_hex4
    <2>5. PICK h \in Nat : /\ h = 4096 * HexDigit(Byte(i)) + 256 * HexDigit(Byte(i + 1))
                                   + 16 * HexDigit(Byte(i + 2)) + HexDigit(Byte(i + 3))
                           /\ h <= 65535
      <3>1. PICK a \in 0 .. 15, b \in 0 .. 15, c \in 0 .. 15, d \in 0 .. 15 :
               /\ a = HexDigit(Byte(i)) /\ b = HexDigit(Byte(i + 1))
               /\ c = HexDigit(Byte(i + 2)) /\ d = HexDigit(Byte(i + 3))
        BY <2>3
      <3>2. 4096 * a + 256 * b + 16 * c + d \in Nat /\ 4096 * a + 256 * b + 16 * c + d <= 65535
        BY SMT
      <3> QED BY <3>1, <3>2, SMT
    <2>6. parse_hex4(i) = h
      BY <2>4, <2>5
    <2> QED BY <2>5, <2>6, SMT
  <1> QED BY <1>2, <1>3, SMT

-----------------------------------------------------------------------------
(* parse_string.                                                           *)

StringOK == StringTypeOK /\ StringInv /\ reach < Length

\* parse_string begins at a byte of the text.
LEMMA StringBegins == ASSUME TextOK, StringOK, offset < Length, parse_string, UNCHANGED text
                      PROVE  StringOK'
  <1> USE DEF StringOK, parse_string
  <1>1. Length \in Nat \ {0} /\ Length' = Length /\ offset \in Nat
    BY Bytes DEF Length, StringTypeOK
  <1>2. reach' \in Nat /\ reach' < Length
    BY <1>1, ReadStep
  <1>3. StringTypeOK'
    BY <1>1, <1>2, FS_EmptySet DEF StringTypeOK
  <1>4. Byte(offset) = Quote => offset + 1 < Length
    BY <1>1, Bytes DEF Quote
  <1>5. StringInv'
    BY <1>1, <1>4 DEF StringInv, Spread
  <1> QED BY <1>1, <1>2, <1>3, <1>5

\* A failure frees the output and keeps nothing but its place.
LEMMA FailKeeps == ASSUME TextOK, StringOK, Fails, UNCHANGED <<text, inEnd, inPtr, skips>>,
                          reach' \in Nat, reach' < Length
                   PROVE  StringOK'
  BY DEF StringOK, Fails, StringTypeOK, StringInv, Length

LEMMA MeasureKeeps == ASSUME TextOK, StringOK, Measure PROVE StringOK'
  <1> USE DEF Measure, MeasureByte
  <1>1. Length \in Nat \ {0} /\ Length' = Length
    BY Bytes DEF Length
  <1>2. inEnd \in Nat /\ inPtr \in Nat /\ offset \in Nat /\ skips \subseteq Nat /\ IsFiniteSet(skips)
    BY DEF StringOK, StringTypeOK
  <1>3. reach' \in Nat /\ reach' < Length
    BY <1>1, <1>2, ReadStep DEF StringOK
  <1>4. CASE Byte(inEnd) # Backslash
    <2>0. inEnd' = inEnd + 1 /\ inEnd < Length /\ spc = "measure" /\ spc' = "measure"
          /\ UNCHANGED <<text, offset, skips, inPtr, alloc, output>>
      BY <1>4
    <2>1. StringTypeOK'
      BY <1>2, <1>3, <2>0 DEF StringOK, StringTypeOK
    <2>2. Spread'
      <3>1. ASSUME NEW p \in skips
            PROVE  Byte(p) = Backslash /\ p + 1 < inEnd + 1 /\ p + 1 \notin skips
        BY <1>2, <2>0 DEF StringOK, StringInv, Spread
      <3> QED BY <2>0, <3>1 DEF Spread, Byte, Length
    <2>3. skips' \subseteq offset' + 1 .. inEnd' /\ offset' < inEnd' /\ inEnd' <= Length'
      BY <1>1, <1>2, <2>0 DEF StringOK, StringInv
    <2>4. StringInv'
      BY <1>1, <1>2, <2>0, <2>2, <2>3 DEF StringOK, StringInv
    <2> QED BY <1>1, <1>3, <2>1, <2>4 DEF StringOK
  <1>5. CASE Byte(inEnd) = Backslash /\ inEnd + 1 >= Length
    BY <1>3, <1>5, FailKeeps
  <1>6. CASE Byte(inEnd) = Backslash /\ ~ inEnd + 1 >= Length
    <2>0. inEnd' = inEnd + 2 /\ skips' = skips \cup {inEnd} /\ spc = "measure" /\ spc' = "measure"
          /\ UNCHANGED <<text, offset, inPtr, alloc, output>>
      BY <1>6
    <2>1. IsFiniteSet(skips') /\ skips' \in SUBSET Nat
      BY <1>2, <2>0, FS_AddElement
    <2>2. StringTypeOK'
      BY <1>2, <1>3, <2>0, <2>1 DEF StringOK, StringTypeOK
    <2>3. Spread /\ inEnd + 1 < Length /\ offset < inEnd /\ skips \subseteq offset + 1 .. inEnd
      BY <1>1, <1>2, <1>6 DEF StringOK, StringInv
    <2>4. Spread'
      <3>1. \A p \in skips : p \in Nat /\ p + 1 < inEnd
        BY <1>2, <2>3 DEF Spread
      <3>2. ASSUME NEW p \in skips' PROVE Byte(p) = Backslash /\ p + 1 < inEnd + 2 /\ p + 1 \notin skips'
        <4>1. CASE p \in skips
          BY <1>2, <2>0, <2>3, <3>1, <4>1 DEF Spread
        <4>2. CASE p = inEnd
          BY <1>2, <1>6, <2>0, <3>1, <4>2
        <4> QED BY <4>1, <4>2, <2>0
      <3> QED BY <2>0, <3>2 DEF Spread, Byte, Length
    <2>5. StringInv'
      BY <1>1, <1>2, <2>0, <2>3, <2>4 DEF StringOK, StringInv
    <2> QED BY <1>1, <1>3, <2>2, <2>5 DEF StringOK
  <1> QED BY <1>4, <1>5, <1>6

\* The allocation is exactly what the copying loop needs at most.
LEMMA AllocateKeeps == ASSUME TextOK, StringOK, Allocate PROVE StringOK'
  <1> USE DEF Allocate
  <1>1. Length \in Nat \ {0} /\ Length' = Length
    BY Bytes DEF Length
  <1>2. inEnd \in Nat /\ offset \in Nat /\ StringTypeOK
    BY DEF StringOK, StringTypeOK
  <1>3. /\ offset < inEnd /\ inPtr = offset + 1 /\ output = <<>> /\ Spread
        /\ skips \subseteq offset + 1 .. inEnd /\ inEnd < Length /\ Byte(inEnd) = Quote
    BY DEF StringOK, StringInv
  <1>4. Rest(offset + 1) = skips
    <2>1. \A p \in skips : p >= offset + 1
      BY <1>2, <1>3
    <2> QED BY <2>1 DEF Rest
  <1>5. Cardinality(skips) \in Nat /\ Cardinality(skips) <= inEnd - (offset + 1)
    <2>1. offset + 1 \in 0 .. inEnd
      BY <1>2, <1>3
    <2>2. Cardinality(Rest(offset + 1)) <= inEnd - (offset + 1)
      BY <1>2, <1>3, <2>1, RestBound
    <2>3. Cardinality(Rest(offset + 1)) \in Nat
      BY <1>2, <2>1, RestCounts
    <2> QED BY <1>4, <2>2, <2>3
  <1>6. alloc' = inEnd - offset - Cardinality(skips) + 1 /\ alloc' >= 2
    BY <1>2, <1>5
  <1>7. StringTypeOK'
    BY <1>2, <1>5, <1>6 DEF StringTypeOK
  <1>8. Room'
    <2>1. Rest(inPtr)' = skips
      BY <1>3, <1>4 DEF Rest
    <2>2. Len(output') = 0
      BY <1>3
    <2> QED BY <1>2, <1>3, <1>5, <1>6, <2>1, <2>2 DEF Room
  <1>9. Spread'
    BY <1>3 DEF Spread, Byte, Length
  <1>10. spc' = "copy" /\ UNCHANGED <<text, offset, inEnd, skips>> /\ Byte(inEnd)' = Quote
    BY <1>3 DEF Byte, Length
  <1>11. StringInv'
    <2>1. offset' < inEnd' /\ inEnd' <= Length' /\ skips' \subseteq offset' + 1 .. inEnd' /\ Spread'
      BY <1>1, <1>2, <1>3, <1>9, <1>10
    <2>2. inEnd' < Length' /\ Byte(inEnd)' = Quote
      BY <1>1, <1>3, <1>10
    <2> QED BY <2>1, <2>2, <1>8, <1>10 DEF StringInv
  <1> QED BY <1>1, <1>7, <1>11 DEF StringOK

LEMMA MeasuredKeeps == ASSUME TextOK, StringOK, Measured PROVE StringOK'
  <1> USE DEF Measured
  <1>1. Length \in Nat \ {0} /\ Length' = Length
    BY Bytes DEF Length
  <1>2. inEnd \in Nat /\ StringTypeOK /\ reach < Length /\ reach \in Nat
    BY DEF StringOK, StringTypeOK
  <1>3. CASE inEnd < Length
    <2>0. /\ spc = "measure" /\ Byte(inEnd) = Quote /\ spc' = "allocate" /\ Reads(inEnd)
          /\ UNCHANGED <<text, offset, inEnd, inPtr, skips, alloc, output>>
      BY <1>3
    <2>1. reach' \in Nat /\ reach' < Length
      BY <1>2, <1>3, <2>0, ReadStep
    <2>2. StringTypeOK'
      BY <1>2, <2>0, <2>1 DEF StringTypeOK
    <2>3. /\ alloc = 0 /\ offset < inEnd /\ inEnd <= Length /\ Spread
          /\ skips \subseteq offset + 1 .. inEnd /\ inPtr = offset + 1 /\ output = <<>>
      BY <2>0 DEF StringOK, StringInv
    <2>4. Spread' /\ Byte(inEnd)' = Byte(inEnd)
      BY <2>0, <2>3 DEF Spread, Byte, Length
    <2>5. StringInv'
      BY <1>1, <1>3, <2>0, <2>3, <2>4 DEF StringInv
    <2> QED BY <1>1, <2>1, <2>2, <2>5 DEF StringOK
  <1>4. CASE ~ inEnd < Length
    <2>1. Fails /\ UNCHANGED <<text, inEnd, inPtr, skips, reach>>
      BY <1>4
    <2> QED BY <1>2, <2>1, FailKeeps
  <1> QED BY <1>3, <1>4

\* What the copying loop may rely on.
LEMMA CopyFacts == ASSUME TextOK, StringOK, Copying
                   PROVE  /\ StringTypeOK /\ StringInv /\ Spread /\ reach < Length
                          /\ inPtr \in Nat /\ inEnd \in Nat /\ Length \in Nat \ {0}
                          /\ inPtr < inEnd /\ inEnd < Length
                          /\ Length \in Nat
                          /\ \A n \in Nat : /\ Cardinality(Rest(inPtr + n)) \in Nat
  <1>1. StringTypeOK /\ StringInv /\ reach < Length
    BY DEF StringOK
  <1>2. inPtr \in Nat /\ inEnd \in Nat /\ Length \in Nat \ {0}
    BY <1>1, Bytes DEF StringTypeOK
  <1>3. spc = "copy" /\ inPtr < inEnd /\ Spread /\ inEnd < Length
    BY <1>1 DEF Copying, StringInv
  <1>4. ASSUME NEW n \in Nat PROVE Cardinality(Rest(inPtr + n)) \in Nat
    <2>1. inPtr + n \in Nat
      BY <1>2
    <2> QED BY <1>1, <2>1, RestCounts
  <1> QED BY <1>1, <1>2, <1>3, <1>4

LEMMA CopyReads == ASSUME TextOK, StringOK, Copying, NEW i \in Nat, i < Length, Reads(i), UNCHANGED text
                   PROVE  reach' \in Nat /\ reach' < Length /\ reach' < Length'
  BY ReadStep DEF StringOK, Length

LEMMA CopyPlainKeeps == ASSUME TextOK, StringOK, CopyPlain PROVE StringOK'
  <1>1. Copying /\ Byte(inPtr) # Backslash /\ Write(<<Byte(inPtr)>>, 1) /\ Reads(inPtr)
    BY DEF CopyPlain
  <1>2. /\ StringTypeOK /\ StringInv /\ Spread /\ inPtr \in Nat /\ inEnd \in Nat
        /\ Length \in Nat /\ inPtr < inEnd /\ inEnd < Length
    BY <1>1, CopyFacts
  <1>3. inPtr < Length
    BY <1>2
  <1>4. UNCHANGED text
    BY <1>1 DEF Write
  <1>5. reach' \in Nat /\ reach' < Length'
    BY <1>1, <1>2, <1>3, <1>4, CopyReads
  <1>6. inPtr \notin skips
    BY <1>1, <1>2 DEF Spread
  <1>7. Rest(inPtr) = Rest(inPtr + 1)
    <2>1. ASSUME NEW p \in skips PROVE p >= inPtr <=> p >= inPtr + 1
      BY <1>2, <1>6, RestMembers
    <2> QED BY <2>1 DEF Rest
  <1>8. <<Byte(inPtr)>> \in Seq(Nat) /\ Len(<<Byte(inPtr)>>) = 1
    BY <1>2, Bytes
  <1>9. Cardinality(Rest(inPtr + 1)) \in Nat
    BY <1>1, CopyFacts
  <1>10. Len(<<Byte(inPtr)>>) + Cardinality(Rest(inPtr)) <= 1 + Cardinality(Rest(inPtr + 1))
    BY <1>7, <1>8, <1>9
  <1>11. 1 \in Nat /\ 1 > 0 /\ reach' \in Nat
         /\ (inPtr + 1 > inEnd => Len(<<Byte(inPtr)>>) = 1)
    BY <1>2, <1>5, <1>8
  <1>12. StringTypeOK' /\ StringInv'
    BY <1>1, <1>2, <1>8, <1>10, <1>11, WriteKeeps, Zenon
  <1> QED BY <1>5, <1>12 DEF StringOK

LEMMA EscapeBytes == \A c \in DOMAIN Escapes : Escapes[c] \in Nat
  BY DEF Escapes, Quote, Backslash

LEMMA CopyEscapeKeeps == ASSUME TextOK, StringOK, CopyEscape PROVE StringOK'
  <1> DEFINE bytes == <<Escapes[Byte(inPtr + 1)]>>
  <1>1. Copying /\ Write(bytes, 2) /\ Reads(inPtr + 1)
    BY DEF CopyEscape
  <1>2. /\ StringTypeOK /\ StringInv /\ Spread /\ inPtr \in Nat /\ inEnd \in Nat
        /\ Length \in Nat /\ inPtr < inEnd /\ inEnd < Length
    BY <1>1, CopyFacts
  <1>3. inPtr + 1 \in Nat /\ inPtr + 1 < Length
    BY <1>2
  <1>4. UNCHANGED text
    BY <1>1 DEF Write
  <1>5. reach' \in Nat /\ reach' < Length'
    BY <1>1, <1>3, <1>4, CopyReads
  <1>6. bytes \in Seq(Nat) /\ Len(bytes) = 1
    BY EscapeBytes DEF CopyEscape
  <1> HIDE DEF bytes
  <1>7. Cardinality(Rest(inPtr)) <= Cardinality(Rest(inPtr + 2)) + 1
    BY <1>2, OnePerPair
  <1>8. Cardinality(Rest(inPtr)) \in Nat /\ Cardinality(Rest(inPtr + 2)) \in Nat
    <2>1. Cardinality(Rest(inPtr)) \in Nat
      BY <1>2, RestCounts
    <2>2. Cardinality(Rest(inPtr + 2)) \in Nat
      BY <1>1, CopyFacts
    <2> QED BY <2>1, <2>2
  <1>9. Len(bytes) + Cardinality(Rest(inPtr)) <= 2 + Cardinality(Rest(inPtr + 2))
    BY <1>6, <1>7, <1>8
  <1>10. 2 \in Nat /\ 2 > 0 /\ reach' \in Nat /\ (inPtr + 2 > inEnd => Len(bytes) = 1)
    BY <1>2, <1>5, <1>6
  <1>11. StringTypeOK' /\ StringInv'
    BY <1>1, <1>2, <1>6, <1>9, <1>10, WriteKeeps, Zenon
  <1> QED BY <1>5, <1>11 DEF StringOK

LEMMA CopyLiteralKeeps == ASSUME TextOK, StringOK, CopyLiteral PROVE StringOK'
  <1> DEFINE bytes == Utf8(first_code)
  <1>1. Copying /\ inEnd - inPtr >= 6 /\ Write(bytes, 6) /\ Reads(inPtr + 5)
    BY DEF CopyLiteral, IsLiteral
  <1>2. /\ StringTypeOK /\ StringInv /\ Spread /\ inPtr \in Nat /\ inEnd \in Nat
        /\ Length \in Nat /\ inPtr < inEnd /\ inEnd < Length
    BY <1>1, CopyFacts
  <1>3. inPtr + 5 \in Nat /\ inPtr + 5 < Length /\ inPtr + 2 \in Nat
    BY <1>1, <1>2
  <1>4. UNCHANGED text
    BY <1>1 DEF Write
  <1>5. reach' \in Nat /\ reach' < Length'
    BY <1>1, <1>3, <1>4, CopyReads
  <1>6. bytes \in Seq(Nat) /\ Len(bytes) \in Nat /\ Len(bytes) <= 3
    <2>1. first_code \in Nat /\ first_code <= 65535
      BY <1>3, HexCodes DEF first_code
    <2> HIDE DEF first_code
    <2> QED BY <2>1, Utf8Sizes
  <1> HIDE DEF bytes
  <1>7. Cardinality(Rest(inPtr)) <= Cardinality(Rest(inPtr + 6)) + 3
    BY <1>2, ThreePerSix
  <1>8. Cardinality(Rest(inPtr)) \in Nat /\ Cardinality(Rest(inPtr + 6)) \in Nat
    <2>1. Cardinality(Rest(inPtr)) \in Nat
      BY <1>2, RestCounts
    <2>2. Cardinality(Rest(inPtr + 6)) \in Nat
      BY <1>1, CopyFacts
    <2> QED BY <2>1, <2>2
  <1>9. Len(bytes) + Cardinality(Rest(inPtr)) <= 6 + Cardinality(Rest(inPtr + 6))
    BY <1>6, <1>7, <1>8
  <1>10. 6 \in Nat /\ 6 > 0 /\ reach' \in Nat /\ (inPtr + 6 > inEnd => Len(bytes) = 1)
    BY <1>1, <1>2, <1>5
  <1>11. StringTypeOK' /\ StringInv'
    BY <1>1, <1>2, <1>6, <1>9, <1>10, WriteKeeps, Zenon
  <1> QED BY <1>5, <1>11 DEF StringOK

LEMMA CopyPairKeeps == ASSUME TextOK, StringOK, CopyPair PROVE StringOK'
  <1> DEFINE bytes == Utf8(65536 + 1024 * (first_code - 55296) + (second_code - 56320))
  <1>1. Copying /\ inEnd - inPtr >= 12 /\ Write(bytes, 12) /\ Reads(inPtr + 11)
    BY DEF CopyPair, IsLiteral, HasSecond
  <1>2. /\ StringTypeOK /\ StringInv /\ Spread /\ inPtr \in Nat /\ inEnd \in Nat
        /\ Length \in Nat /\ inPtr < inEnd /\ inEnd < Length
    BY <1>1, CopyFacts
  <1>3. inPtr + 11 \in Nat /\ inPtr + 11 < Length /\ inPtr + 2 \in Nat /\ inPtr + 8 \in Nat
    BY <1>1, <1>2
  <1>4. UNCHANGED text
    BY <1>1 DEF Write
  <1>5. reach' \in Nat /\ reach' < Length'
    BY <1>1, <1>3, <1>4, CopyReads
  <1>6. bytes \in Seq(Nat) /\ Len(bytes) \in Nat /\ Len(bytes) <= 4
    <2>1. first_code \in High /\ second_code \in Low
      BY DEF CopyPair, HasSecond
    <2> HIDE DEF first_code, second_code
    <2>2. 65536 + 1024 * (first_code - 55296) + (second_code - 56320) \in Nat
      BY <2>1, SMT DEF High, Low
    <2> QED BY <2>2, Utf8Sizes, SMTT(60)
  <1> HIDE DEF bytes
  <1>7. Cardinality(Rest(inPtr)) <= Cardinality(Rest(inPtr + 12)) + 6
    <2>1. Cardinality(Rest(inPtr)) <= Cardinality(Rest(inPtr + 6)) + 3
      BY <1>2, ThreePerSix
    <2>2. Cardinality(Rest(inPtr + 6)) <= Cardinality(Rest((inPtr + 6) + 6)) + 3
      BY <1>2, ThreePerSix
    <2>3. (inPtr + 6) + 6 = inPtr + 12
      BY <1>2
    <2>4. /\ Cardinality(Rest(inPtr)) \in Nat /\ Cardinality(Rest(inPtr + 6)) \in Nat
          /\ Cardinality(Rest(inPtr + 12)) \in Nat
      <3>1. Cardinality(Rest(inPtr)) \in Nat
        BY <1>2, RestCounts
      <3>2. Cardinality(Rest(inPtr + 6)) \in Nat
        BY <1>1, CopyFacts
      <3>3. Cardinality(Rest(inPtr + 12)) \in Nat
        BY <1>1, CopyFacts
      <3> QED BY <3>1, <3>2, <3>3
    <2> QED BY <2>1, <2>2, <2>3, <2>4
  <1>8. Cardinality(Rest(inPtr)) \in Nat /\ Cardinality(Rest(inPtr + 12)) \in Nat
    <2>1. Cardinality(Rest(inPtr)) \in Nat
      BY <1>2, RestCounts
    <2>2. Cardinality(Rest(inPtr + 12)) \in Nat
      BY <1>1, CopyFacts
    <2> QED BY <2>1, <2>2
  <1>9. Len(bytes) + Cardinality(Rest(inPtr)) <= 12 + Cardinality(Rest(inPtr + 12))
    BY <1>6, <1>7, <1>8
  <1>10. 12 \in Nat /\ 12 > 0 /\ reach' \in Nat /\ (inPtr + 12 > inEnd => Len(bytes) = 1)
    BY <1>1, <1>2, <1>5
  <1>11. StringTypeOK' /\ StringInv'
    BY <1>1, <1>2, <1>6, <1>9, <1>10, WriteKeeps, Zenon
  <1> QED BY <1>5, <1>11 DEF StringOK

LEMMA CopyFailsKeeps == ASSUME TextOK, StringOK, CopyFails PROVE StringOK'
  <1>1. Copying /\ Fails /\ UNCHANGED <<text, inEnd, inPtr, skips>>
    BY DEF CopyFails
  <1>2. inPtr \in Nat /\ inEnd \in Nat /\ Length \in Nat /\ inPtr < inEnd /\ inEnd < Length
    BY <1>1, CopyFacts
  <1>3. \E i \in Nat : i < Length /\ Reads(i)
    <2>1. inPtr + 1 \in Nat /\ inPtr + 1 < Length
      BY <1>2
    <2>2. CASE Reads(inPtr + 1)
      BY <2>1, <2>2
    <2>3. CASE IsLiteral /\ inEnd - inPtr >= 6
               /\ (Reads(inPtr + 5) \/ (inEnd - inPtr >= 12 /\ Reads(inPtr + 11)))
      <3>1. inPtr + 5 \in Nat /\ inPtr + 5 < Length
        BY <1>2, <2>3
      <3>2. inEnd - inPtr >= 12 => inPtr + 11 \in Nat /\ inPtr + 11 < Length
        BY <1>2
      <3> QED BY <2>3, <3>1, <3>2
    <2>4. CASE inEnd - inPtr < 6
      BY <1>2, <2>2, <2>4 DEF CopyFails
    <2>5. CASE ~ inEnd - inPtr < 6 /\ first_code \in High /\ inEnd - inPtr >= 12
      BY <1>2, <2>2, <2>3, <2>5 DEF CopyFails
    <2>6. CASE ~ inEnd - inPtr < 6 /\ ~ (first_code \in High /\ inEnd - inPtr >= 12)
      BY <1>2, <2>2, <2>3, <2>6 DEF CopyFails
    <2> QED BY <2>4, <2>5, <2>6
  <1>4. PICK i \in Nat : i < Length /\ Reads(i)
    BY <1>3
  <1>5. reach' \in Nat /\ reach' < Length
    BY <1>1, <1>4, CopyReads
  <1> QED BY <1>1, <1>5, FailKeeps

LEMMA CopiedKeeps == ASSUME TextOK, StringOK, Copied PROVE StringOK'
  <1> USE DEF Copied
  <1>1. Length \in Nat \ {0} /\ Length' = Length
    BY Bytes DEF Length
  <1>2. /\ inEnd \in Nat /\ alloc \in Nat /\ output \in Seq(Nat) /\ StringTypeOK
        /\ reach < Length
    BY DEF StringOK, StringTypeOK
  <1>3. inEnd < Length /\ Byte(inEnd) = Quote /\ Len(output) <= alloc - 2
    BY DEF StringOK, StringInv, Room
  <1>4. inEnd + 1 < Length
    BY <1>2, <1>3, Bytes DEF Quote
  <1>5. output' \in Seq(Nat) /\ Len(output') = Len(output) + 1
    BY <1>2
  <1>6. StringTypeOK'
    BY <1>2, <1>5 DEF StringTypeOK
  <1>7. offset' < Length' /\ Len(output') <= alloc'
    BY <1>1, <1>2, <1>3, <1>4, <1>5
  <1>8. StringInv'
    BY <1>7 DEF StringInv
  <1> QED BY <1>1, <1>2, <1>6, <1>8 DEF StringOK

LEMMA AllocateFailsKeeps == ASSUME TextOK, StringOK, AllocateFails PROVE StringOK'
  BY FailKeeps DEF AllocateFails, StringOK, StringTypeOK

LEMMA StringStepKeeps == ASSUME TextOK, StringOK, StringStep PROVE StringOK'
  BY MeasureKeeps, MeasuredKeeps, AllocateKeeps, AllocateFailsKeeps, CopyPlainKeeps,
     CopyEscapeKeeps, CopyLiteralKeeps, CopyPairKeeps, CopyFailsKeeps, CopiedKeeps
     DEF StringStep

-----------------------------------------------------------------------------
(* The parser: where the offset is at each step, and the two lists that    *)
(* the nesting is counted by.                                              *)

Kinds == {"Array", "Object"}
IsStack == \E L : stack \in Seq([kind : Kinds, list : L])
Place == /\ pc \in Labels
         /\ pc \notin {"name", "string"} => spc = "idle"
         /\ pc = "value" => offset < Length
         /\ pc = "item" => offset + 1 < Length
         /\ pc = "name" /\ spc = "idle" => offset < Length
         /\ pc = "after" => offset <= Length
Nested == /\ IsStack /\ depth \in Nat
          /\ Len(stack) <= NestingLimit
          /\ pc \notin {"fail", "failed"} => depth = Len(stack)
          /\ pc \in {"item", "name"} => Len(stack) > 0
Heap == heap \in SUBSET Nat /\ fresh \in Nat /\ fate \in {"ok", "double free"}
ParserInv == TextOK /\ StringOK /\ Place /\ Nested /\ Heap

LEMMA ParserFacts == ASSUME ParserInv PROVE
                     /\ TextOK /\ StringOK /\ Length \in Nat \ {0}
                     /\ offset \in Nat /\ reach \in Nat /\ reach < Length
  BY Bytes DEF ParserInv, StringOK, StringTypeOK

LEMMA TextStays == ASSUME TextOK, UNCHANGED text
                   PROVE TextOK' /\ Length' = Length /\ \A i : Byte(i)' = Byte(i)
  BY DEF TextOK, Length, Byte

\* A step outside parse_string.
LEMMA IdleKeeps == ASSUME TextOK, StringOK, spc = "idle", UNCHANGED <<text, str>>,
                          offset' \in Nat, reach' \in Nat, reach' < Length
                   PROVE  StringOK' /\ spc' = "idle"
  BY TextStays DEF StringOK, StringTypeOK, StringInv, str

LEMMA OverKeeps == ASSUME TextOK, StringOK, StringOver, UNCHANGED text,
                          offset' \in Nat, reach' \in Nat, reach' < Length
                   PROVE  StringOK' /\ spc' = "idle"
  BY TextStays, FS_EmptySet DEF StringOK, StringTypeOK, StringInv, StringOver

LEMMA SeqElements == ASSUME NEW S, NEW s \in Seq(S) PROVE
                     /\ Len(s) \in Nat /\ DOMAIN s = 1 .. Len(s)
                     /\ \A i \in 1 .. Len(s) : s[i] \in S
  OBVIOUS

LEMMA SeqOver == ASSUME NEW S, NEW s \in Seq(S), NEW T, \A i \in 1 .. Len(s) : s[i] \in T
                 PROVE  s \in Seq(T)
  OBVIOUS

LEMMA SeqButLast == ASSUME NEW S, NEW s \in Seq(S), s # <<>> PROVE
                    /\ SubSeq(s, 1, Len(s) - 1) \in Seq(S)
                    /\ Len(SubSeq(s, 1, Len(s) - 1)) = Len(s) - 1 /\ Len(s) >= 1
  <1>1. Len(s) \in Nat \ {0} /\ \A i \in 1 .. Len(s) - 1 : s[i] \in S
    OBVIOUS
  <1>2. /\ SubSeq(s, 1, Len(s) - 1) \in Seq(S)
        /\ Len(SubSeq(s, 1, Len(s) - 1)) = IF 1 <= Len(s) - 1 THEN (Len(s) - 1) - 1 + 1 ELSE 0
    <2>1. 1 \in Int /\ Len(s) - 1 \in Int
      BY <1>1
    <2> QED BY <1>1, <2>1, SubSeqProperties
  <1> DEFINE n == Len(s)
             l == Len(SubSeq(s, 1, n - 1))
  <1>3. n \in Nat \ {0} /\ l = IF 1 <= n - 1 THEN (n - 1) - 1 + 1 ELSE 0
    BY <1>1, <1>2
  <1>4. l = n - 1
    <2> HIDE DEF n, l
    <2> QED BY <1>3
  <1> QED BY <1>1, <1>2, <1>4

LEMMA RecordSets == ASSUME NEW A, NEW B, NEW C, B \subseteq C, NEW l \in C,
                           NEW r \in [kind : A, list : B]
                    PROVE  r \in [kind : A, list : C] /\ [r EXCEPT !.list = l] \in [kind : A, list : C]
  <1>1. r = [kind |-> r.kind, list |-> r.list] /\ r.kind \in A /\ r.list \in B
    OBVIOUS
  <1>2. [r EXCEPT !.list = l] = [kind |-> r.kind, list |-> l]
    BY <1>1
  <1> QED BY <1>1, <1>2

\* Filling a list changes neither how many there are nor their kinds.
LEMMA ListSet == ASSUME NEW L, stack \in Seq([kind : Kinds, list : L]), NEW n \in 1 .. Len(stack),
                        NEW l, stack' = [stack EXCEPT ![n].list = l]
                 PROVE  IsStack' /\ Len(stack') = Len(stack)
  <1>0. L \subseteq L \cup {l} /\ l \in L \cup {l}
    OBVIOUS
  <1>1. stack \in Seq([kind : Kinds, list : L \cup {l}])
    <2>1. ASSUME NEW i \in 1 .. Len(stack) PROVE stack[i] \in [kind : Kinds, list : L \cup {l}]
      <3>1. stack[i] \in [kind : Kinds, list : L]
        BY SeqElements
      <3> QED BY <1>0, <3>1, RecordSets
    <2> QED BY <2>1, SeqOver
  <1>2. [stack[n] EXCEPT !.list = l] \in [kind : Kinds, list : L \cup {l}]
    <2>1. stack[n] \in [kind : Kinds, list : L]
      BY SeqElements
    <2> QED BY <1>0, <2>1, RecordSets
  <1>3. stack' = [stack EXCEPT ![n] = [stack[n] EXCEPT !.list = l]]
    OBVIOUS
  <1>4. stack' \in Seq([kind : Kinds, list : L \cup {l}]) /\ Len(stack') = Len(stack)
    BY <1>1, <1>2, <1>3
  <1> QED BY <1>4 DEF IsStack

LEMMA FillKeeps == ASSUME IsStack, NEW item, Fill(item)
                   PROVE  IsStack' /\ Len(stack') = Len(stack)
  <1>1. PICK L : stack \in Seq([kind : Kinds, list : L])
    BY DEF IsStack
  <1>2. CASE stack = <<>>
    BY <1>2 DEF Fill, IsStack
  <1>3. CASE stack # <<>>
    <2>1. stack' = [stack EXCEPT ![Len(stack)].list = SetLast(stack[Len(stack)].list, item)]
      BY <1>3 DEF Fill
    <2>2. Len(stack) \in 1 .. Len(stack)
      BY <1>1, <1>3
    <2> QED BY <1>1, <2>1, <2>2, ListSet
  <1> QED BY <1>2, <1>3

LEMMA Popped == ASSUME NEW L, stack \in Seq([kind : Kinds, list : L]), stack # <<>>
                PROVE  /\ Outer \in Seq([kind : Kinds, list : L])
                       /\ Len(Outer) = Len(stack) - 1 /\ Len(stack) >= 1
  BY SeqButLast DEF Outer

LEMMA InitParser == Init => ParserInv
  <1> SUFFICES ASSUME Init PROVE ParserInv
    OBVIOUS
  <1> USE DEF Init, StringInit
  <1>1. TextOK
    BY ParserAssumption DEF TextOK, Length
  <1>2. Length \in Nat \ {0}
    BY <1>1, Bytes
  <1>3. StringOK
    BY <1>2, FS_EmptySet DEF StringOK, StringTypeOK, StringInv
  <1>4. IsStack
    BY DEF IsStack
  <1>5. Nested
    BY <1>4, ParserAssumption DEF Nested
  <1>6. Place /\ Heap
    BY DEF Place, Labels, Heap
  <1> QED BY <1>1, <1>3, <1>5, <1>6 DEF ParserInv

-----------------------------------------------------------------------------
(* Every action of the parser.                                             *)

LEMMA ReadsHere == ASSUME ParserInv, NEW i \in Nat, i < Length, Reads(i)
                   PROVE  reach' \in Nat /\ reach' < Length
  BY ReadStep DEF ParserInv, StringOK

LEMMA SkipHere == ASSUME ParserInv, NEW o \in 0 .. Length, Skip(o)
                  PROVE  /\ offset' \in Nat /\ offset' < Length
                         /\ reach' \in Nat /\ reach' < Length
  <1>1. SkipWhitespace(o) \in 0 .. Length - 1 /\ Length \in Nat \ {0}
    BY SkipEnds, ParserFacts
  <1>2. SkipWhitespace(o) \in Nat /\ SkipWhitespace(o) < Length
    BY <1>1
  <1> QED BY <1>2, ReadsHere DEF Skip

LEMMA HeapGrows == ASSUME Heap, Malloc, UNCHANGED fate PROVE Heap'
  <1>1. heap' \in SUBSET Nat
    BY DEF Heap, Malloc
  <1>2. fresh' \in Nat
    <2>1. fresh \in Nat
      BY DEF Heap
    <2>2. fresh' = fresh + 1
      BY DEF Malloc
    <2> QED BY <2>1, <2>2
  <1> QED BY <1>1, <1>2 DEF Heap

LEMMA HeapStays == ASSUME Heap, UNCHANGED <<heap, fresh, fate>> PROVE Heap'
  BY DEF Heap

\* A step that keeps the lists and returns to parse_value's caller.
LEMMA ReturnKeeps == ASSUME ParserInv, At("value"), NEW item, NEW n \in Nat, offset + n <= Length,
                            Return(item, n), reach' \in Nat, reach' < Length
                     PROVE  ParserInv'
  <1> USE DEF Return, At, Goto
  <1>1. TextOK /\ StringOK /\ spc = "idle" /\ offset \in Nat /\ Length \in Nat
    BY ParserFacts DEF ParserInv, Place
  <1>2. TextOK' /\ Length' = Length
    BY <1>1, TextStays
  <1>3. offset' \in Nat /\ offset' <= Length'
    BY <1>1, <1>2
  <1>4. StringOK' /\ spc' = "idle"
    BY <1>1, <1>3, IdleKeeps
  <1>5. IsStack' /\ Len(stack') = Len(stack)
    BY FillKeeps DEF ParserInv, Nested
  <1>6. Nested'
    BY <1>5 DEF ParserInv, Nested
  <1>7. Place'
    BY <1>3, <1>4 DEF Place, Labels
  <1> QED BY <1>2, <1>4, <1>6, <1>7, HeapStays DEF ParserInv

LEMMA StartKeeps == ASSUME ParserInv, cJSON_Parse PROVE ParserInv'
  <1> USE DEF cJSON_Parse, At, Goto
  <1>1. TextOK /\ StringOK /\ spc = "idle" /\ Length \in Nat \ {0}
    BY ParserFacts DEF ParserInv, Place
  <1>2. TextOK' /\ Length' = Length
    BY <1>1, TextStays
  <1>3. AfterBom \in 0 .. Length
    BY <1>1 DEF AfterBom
  <1>4. offset' \in Nat /\ offset' < Length /\ reach' \in Nat /\ reach' < Length
    BY <1>3, SkipHere
  <1>5. StringOK' /\ spc' = "idle"
    BY <1>1, <1>4, IdleKeeps
  <1>6. Nested'
    BY DEF ParserInv, Nested, IsStack
  <1>7. Place'
    BY <1>2, <1>4, <1>5 DEF Place, Labels
  <1>8. Heap'
    BY HeapGrows DEF ParserInv
  <1> QED BY <1>2, <1>5, <1>6, <1>7, <1>8 DEF ParserInv

LEMMA LiteralKeeps == ASSUME ParserInv, ParseLiteral PROVE ParserInv'
  <1>1. PICK l \in DOMAIN Literals :
           /\ IsAt(Literals[l]) /\ Reads(offset + Len(Literals[l]) - 1)
           /\ Return([Current EXCEPT !.type = l], Len(Literals[l]))
    BY DEF ParseLiteral
  <1>2. Len(Literals[l]) \in {4, 5}
    BY DEF Literals
  <1> DEFINE n == Len(Literals[l])
  <1> HIDE DEF n
  <1>3. n \in {4, 5} /\ offset + n <= Length /\ Reads(offset + n - 1)
        /\ Return([Current EXCEPT !.type = l], n)
    BY <1>1, <1>2 DEF n, IsAt
  <1>4. offset \in Nat /\ Length \in Nat
    BY ParserFacts
  <1>5. offset + n - 1 \in Nat /\ offset + n - 1 < Length /\ n \in Nat
    BY <1>3, <1>4
  <1>6. reach' \in Nat /\ reach' < Length
    BY <1>3, <1>5, ReadsHere
  <1>7. At("value")
    BY DEF ParseLiteral
  <1> QED BY <1>3, <1>5, <1>6, <1>7, ReturnKeeps

LEMMA NumberKeeps == ASSUME ParserInv, parse_number PROVE ParserInv'
  <1>1. PICK item : Return(item, Sign + Digits)
    BY DEF parse_number
  <1>2. At("value") /\ Digits > 0
    BY DEF parse_number
  <1>3. /\ TextOK /\ offset \in Nat /\ Length \in Nat \ {0} /\ Sign \in {0, 1}
        /\ NumberSize \in Nat
    BY ParserFacts, ParserAssumption DEF Sign
  <1>4. Copied63 \in 0 .. NumberSize
        /\ \A i \in 0 .. Copied63 - 1 : offset + i < Length /\ Byte(offset + i) \in NumberBytes
    BY <1>3, RunEnds DEF Copied63
  <1>5. Copied63 > Sign /\ Digits \in 0 .. Copied63 - Sign
    <2>1. ~ (Copied63 <= Sign)
      BY <1>2, <1>3, <1>4 DEF Digits
    <2>2. Digits = Run(offset + Sign, 48..57, Copied63 - Sign)
      BY <2>1 DEF Digits
    <2>3. Copied63 - Sign \in Nat /\ offset + Sign \in Nat
      BY <1>3, <1>4, <2>1
    <2>4. Digits \in 0 .. Copied63 - Sign
      BY <1>3, <2>2, <2>3, RunEnds
    <2> QED BY <1>3, <1>4, <2>1, <2>4
  <1>6. offset + Copied63 < Length
    <2>1. Copied63 - 1 \in 0 .. Copied63 - 1
      BY <1>3, <1>4, <1>5
    <2>2. Byte(offset + (Copied63 - 1)) \in NumberBytes
      BY <1>4, <2>1
    <2>3. Byte(offset + (Copied63 - 1)) # 0 /\ offset + (Copied63 - 1) \in Nat
      BY <1>3, <1>4, <1>5, <2>2 DEF NumberBytes
    <2>4. (offset + (Copied63 - 1)) + 1 < Length
      BY <1>3, <2>3, Bytes
    <2> QED BY <1>3, <1>4, <2>4
  <1>7. Sign + Digits \in Nat /\ offset + (Sign + Digits) <= Length
    BY <1>3, <1>4, <1>5, <1>6
  <1>8. reach' \in Nat /\ reach' < Length
    <2>1. offset + Copied63 \in Nat /\ offset + Copied63 - 1 \in Nat /\ offset + Copied63 - 1 < Length
      BY <1>3, <1>4, <1>5, <1>6
    <2>2. Reads(offset + Copied63) \/ Reads(offset + Copied63 - 1)
      BY DEF parse_number
    <2> QED BY <1>6, <2>1, <2>2, ReadsHere
  <1> QED BY <1>1, <1>2, <1>7, <1>8, ReturnKeeps

LEMMA BeginStringKeeps == ASSUME ParserInv, BeginString PROVE ParserInv'
  <1> USE DEF BeginString, At, Goto
  <1>1. TextOK /\ StringOK /\ offset < Length
    BY ParserFacts DEF ParserInv, Place
  <1>2. TextOK' /\ Length' = Length /\ StringOK'
    BY <1>1, TextStays, StringBegins
  <1>3. Place'
    BY DEF Place, Labels
  <1>4. Nested'
    BY DEF ParserInv, Nested, IsStack
  <1> QED BY <1>2, <1>3, <1>4, HeapStays DEF ParserInv

LEMMA ValueFailsKeeps == ASSUME ParserInv, ValueFails PROVE ParserInv'
  <1> USE DEF ValueFails, At, Goto
  <1>1. /\ TextOK /\ StringOK /\ spc = "idle" /\ offset < Length /\ offset \in Nat
        /\ Length \in Nat \ {0}
    BY ParserFacts DEF ParserInv, Place
  <1>2. TextOK' /\ Length' = Length
    BY <1>1, TextStays
  <1>3. reach' \in Nat /\ reach' < Length
    BY <1>1, ReadsHere
  <1>4. StringOK' /\ spc' = "idle"
    BY <1>1, <1>3, IdleKeeps
  <1>5. Place'
    BY <1>4 DEF Place, Labels
  <1>6. Nested'
    BY DEF ParserInv, Nested, IsStack
  <1> QED BY <1>2, <1>4, <1>5, <1>6, HeapStays DEF ParserInv

\* The byte that opens a list is not the last one of the text.
LEMMA Opened == ASSUME ParserInv, At("value"), NEW k \in Kinds, Byte(offset) = Open[k]
                PROVE  /\ offset + 1 < Length
                       /\ SkipWhitespace(offset + 1) \in 1 .. Length - 1
  <1>1. TextOK /\ offset \in Nat /\ Length \in Nat \ {0}
    BY ParserFacts
  <1>2. Byte(offset) # 0
    BY DEF Open, Kinds
  <1>3. offset + 1 < Length
    BY <1>1, <1>2, Bytes
  <1>4. offset + 1 \in 0 .. Length
    BY <1>1, <1>3
  <1>5. SkipWhitespace(offset + 1) \in 0 .. Length - 1 /\ SkipWhitespace(offset + 1) >= offset + 1
    BY <1>1, <1>3, <1>4, SkipEnds
  <1> QED BY <1>1, <1>3, <1>5

LEMMA ListKeeps == ASSUME ParserInv, NEW k \in Kinds, ParseList(k) PROVE ParserInv'
  <1> USE DEF ParseList, BeginList, At, Goto
  <1> DEFINE o == SkipWhitespace(offset + 1)
  <1>1. /\ TextOK /\ StringOK /\ spc = "idle" /\ offset \in Nat /\ Length \in Nat \ {0}
        /\ depth \in Nat /\ depth = Len(stack) /\ depth < NestingLimit /\ NestingLimit \in Nat
    BY ParserFacts, ParserAssumption DEF ParserInv, Place, Nested
  <1>2. TextOK' /\ Length' = Length
    BY <1>1, TextStays
  <1>3. o \in 1 .. Length - 1 /\ offset' = o - 1 /\ Reads(o)
    BY Opened
  <1> HIDE DEF o
  <1>4. o \in Nat /\ o < Length /\ offset' \in Nat /\ offset' + 1 < Length
    BY <1>1, <1>3
  <1>5. reach' \in Nat /\ reach' < Length
    BY <1>3, <1>4, ReadsHere
  <1>6. StringOK' /\ spc' = "idle"
    BY <1>1, <1>4, <1>5, IdleKeeps
  <1>7. IsStack' /\ Len(stack') = Len(stack) + 1
    <2>1. PICK L : stack \in Seq([kind : Kinds, list : L])
      BY DEF ParserInv, Nested, IsStack
    <2>2. [kind |-> k, list |-> <<>>] \in [kind : Kinds, list : L \cup {<<>>}]
      OBVIOUS
    <2>3. stack \in Seq([kind : Kinds, list : L \cup {<<>>}])
      <3>1. ASSUME NEW i \in 1 .. Len(stack) PROVE stack[i] \in [kind : Kinds, list : L \cup {<<>>}]
        <4>1. stack[i] \in [kind : Kinds, list : L]
          BY <2>1, SeqElements
        <4>2. L \subseteq L \cup {<<>>} /\ <<>> \in L \cup {<<>>}
          OBVIOUS
        <4> QED BY <4>1, <4>2, RecordSets
      <3> QED BY <2>1, <3>1, SeqOver
    <2>4. stack' \in Seq([kind : Kinds, list : L \cup {<<>>}]) /\ Len(stack') = Len(stack) + 1
      BY <2>2, <2>3
    <2> QED BY <2>4 DEF IsStack
  <1>8. Nested'
    BY <1>1, <1>7 DEF Nested
  <1>9. Place'
    BY <1>2, <1>4, <1>6 DEF Place, Labels
  <1> QED BY <1>2, <1>6, <1>8, <1>9, HeapStays DEF ParserInv

LEMMA EmptyKeeps == ASSUME ParserInv, NEW k \in Kinds, ParseEmpty(k) PROVE ParserInv'
  <1> USE DEF ParseEmpty, At, Goto
  <1> DEFINE o == SkipWhitespace(offset + 1)
  <1>1. TextOK /\ StringOK /\ spc = "idle" /\ offset \in Nat /\ Length \in Nat \ {0}
    BY ParserFacts DEF ParserInv, Place
  <1>2. TextOK' /\ Length' = Length
    BY <1>1, TextStays
  <1>3. o \in 1 .. Length - 1 /\ offset' = o + 1 /\ Reads(o)
    BY Opened
  <1>4. PICK item : Fill(item)
    OBVIOUS
  <1> HIDE DEF o
  <1>5. o \in Nat /\ o < Length /\ offset' \in Nat /\ offset' <= Length
    BY <1>1, <1>3
  <1>6. reach' \in Nat /\ reach' < Length
    BY <1>3, <1>5, ReadsHere
  <1>7. StringOK' /\ spc' = "idle"
    BY <1>1, <1>5, <1>6, IdleKeeps
  <1>8. IsStack' /\ Len(stack') = Len(stack)
    BY <1>4, FillKeeps DEF ParserInv, Nested
  <1>9. Nested'
    BY <1>8 DEF ParserInv, Nested
  <1>10. Place'
    BY <1>2, <1>5, <1>7 DEF Place, Labels
  <1> QED BY <1>2, <1>7, <1>9, <1>10, HeapStays DEF ParserInv

LEMMA NextItemKeeps == ASSUME ParserInv, NextItem PROVE ParserInv'
  <1> USE DEF NextItem, At, Goto
  <1>1. /\ TextOK /\ StringOK /\ spc = "idle" /\ offset \in Nat /\ Length \in Nat \ {0}
        /\ offset + 1 < Length
    BY ParserFacts DEF ParserInv, Place
  <1>2. TextOK' /\ Length' = Length
    BY <1>1, TextStays
  <1>3. offset + 1 \in 0 .. Length
    BY <1>1
  <1>4. offset' \in Nat /\ offset' < Length /\ reach' \in Nat /\ reach' < Length
    BY <1>3, SkipHere
  <1>5. StringOK' /\ spc' = "idle"
    BY <1>1, <1>4, IdleKeeps
  <1>6. IsStack' /\ Len(stack') = Len(stack)
    <2>1. PICK L : stack \in Seq([kind : Kinds, list : L])
      BY DEF ParserInv, Nested, IsStack
    <2>2. Len(stack) \in 1 .. Len(stack)
      <3>1. Len(stack) \in Nat /\ Len(stack) > 0
        BY <2>1, SeqElements DEF ParserInv, Nested
      <3> QED BY <3>1
    <2>3. PICK l : stack' = [stack EXCEPT ![Len(stack)].list = l]
      OBVIOUS
    <2> QED BY <2>1, <2>2, <2>3, ListSet
  <1>7. Nested'
    BY <1>6 DEF ParserInv, Nested
  <1>8. Place'
    BY <1>2, <1>4, <1>5 DEF Place, Labels
  <1>9. Heap'
    BY HeapGrows DEF ParserInv
  <1> QED BY <1>2, <1>5, <1>7, <1>8, <1>9 DEF ParserInv

LEMMA ItemFailsKeeps == ASSUME ParserInv, ItemFails PROVE ParserInv'
  <1> USE DEF ItemFails, At, Goto
  <1>1. TextOK /\ StringOK /\ spc = "idle" /\ offset \in Nat /\ reach \in Nat /\ reach < Length
    BY ParserFacts DEF ParserInv, Place
  <1>2. TextOK' /\ Length' = Length
    BY <1>1, TextStays
  <1>3. StringOK' /\ spc' = "idle"
    BY <1>1, IdleKeeps
  <1>4. Nested'
    BY DEF ParserInv, Nested, IsStack
  <1>5. Place'
    BY <1>3 DEF Place, Labels
  <1> QED BY <1>2, <1>3, <1>4, <1>5, HeapStays DEF ParserInv

LEMMA ParseNameKeeps == ASSUME ParserInv, ParseName PROVE ParserInv'
  <1> USE DEF ParseName, At
  <1>1. TextOK /\ StringOK /\ offset < Length
    BY ParserFacts DEF ParserInv, Place
  <1>2. TextOK' /\ Length' = Length /\ StringOK'
    BY <1>1, TextStays, StringBegins
  <1>3. spc' # "idle"
    BY DEF parse_string
  <1>4. Place'
    BY <1>3 DEF ParserInv, Place, Labels
  <1>5. Nested'
    BY DEF ParserInv, Nested, IsStack
  <1> QED BY <1>2, <1>4, <1>5, HeapStays DEF ParserInv

\* No loop of parse_string starts it again.
LEMMA StillParsing == ASSUME StringStep PROVE spc' # "idle" /\ UNCHANGED text
  BY DEF StringStep, Measure, MeasureByte, Measured, Allocate, AllocateFails, CopyPlain,
         CopyEscape, CopyLiteral, CopyPair, CopyFails, Copied, Fails, Write, Copying, IsLiteral

LEMMA StringLoopsKeeps == ASSUME ParserInv, StringLoops PROVE ParserInv'
  <1> USE DEF StringLoops, At
  <1>1. TextOK /\ StringOK
    BY ParserFacts
  <1>2. StringOK'
    BY <1>1, StringStepKeeps
  <1>3. spc' # "idle" /\ UNCHANGED text
    BY StillParsing
  <1>4. TextOK'
    BY <1>1, <1>3, TextStays
  <1>5. Place'
    BY <1>3 DEF ParserInv, Place, Labels
  <1>6. Nested'
    BY DEF ParserInv, Nested, IsStack
  <1> QED BY <1>2, <1>4, <1>5, <1>6, HeapStays DEF ParserInv

LEMMA StringParsedKeeps == ASSUME ParserInv, StringParsed PROVE ParserInv'
  <1> USE DEF StringParsed, At, Goto
  <1>1. /\ TextOK /\ StringOK /\ offset \in Nat /\ Length \in Nat \ {0}
        /\ reach \in Nat /\ reach < Length
    BY ParserFacts
  <1>2. TextOK' /\ Length' = Length
    BY <1>1, TextStays
  <1>3. offset' = offset /\ offset < Length /\ UNCHANGED reach
    BY <1>1 DEF StringOK, StringInv
  <1>4. StringOK' /\ spc' = "idle"
    BY <1>1, <1>3, OverKeeps
  <1>5. PICK item : Fill(item)
    OBVIOUS
  <1>6. IsStack' /\ Len(stack') = Len(stack)
    BY <1>5, FillKeeps DEF ParserInv, Nested
  <1>7. Nested'
    BY <1>6 DEF ParserInv, Nested
  <1>8. Place'
    BY <1>1, <1>2, <1>3, <1>4 DEF Place, Labels
  <1>9. Heap'
    BY HeapGrows DEF ParserInv
  <1> QED BY <1>2, <1>4, <1>7, <1>8, <1>9 DEF ParserInv

LEMMA NameParsedKeeps == ASSUME ParserInv, NameParsed PROVE ParserInv'
  <1> USE DEF NameParsed, SwapName, At, Goto
  <1> DEFINE o == SkipWhitespace(offset)
  <1>1. /\ TextOK /\ StringOK /\ offset \in Nat /\ Length \in Nat \ {0}
        /\ reach \in Nat /\ reach < Length
    BY ParserFacts
  <1>2. TextOK' /\ Length' = Length
    BY <1>1, TextStays
  <1>3. offset \in 0 .. Length
    BY <1>1 DEF StringOK, StringInv
  <1>4. o \in 0 .. Length - 1
    BY <1>1, <1>3, SkipEnds
  <1>5. \/ Byte(o) = Colon /\ Skip(o + 1) /\ pc' = "value"
        \/ offset' = o /\ Reads(o) /\ pc' = "fail"
    OBVIOUS
  <1>6. /\ offset' \in Nat /\ offset' < Length /\ reach' \in Nat /\ reach' < Length
        /\ pc' \in {"value", "fail"}
    <2> HIDE DEF o
    <2>1. CASE Skip(o + 1) /\ pc' = "value"
      <3>1. o + 1 \in 0 .. Length
        BY <1>1, <1>4
      <3> QED BY <2>1, <3>1, SkipHere
    <2>2. CASE offset' = o /\ Reads(o) /\ pc' = "fail"
      <3>1. o \in Nat /\ o < Length
        BY <1>1, <1>4
      <3> QED BY <2>2, <3>1, ReadsHere
    <2> QED BY <1>5, <2>1, <2>2
  <1>7. StringOK' /\ spc' = "idle"
    BY <1>1, <1>6, OverKeeps
  <1>8. PICK item : Fill(item)
    OBVIOUS
  <1>9. IsStack' /\ Len(stack') = Len(stack)
    BY <1>8, FillKeeps DEF ParserInv, Nested
  <1>10. Nested'
    BY <1>9 DEF ParserInv, Nested
  <1>11. Place'
    BY <1>2, <1>6, <1>7 DEF Place, Labels
  <1>12. Heap'
    BY HeapGrows DEF ParserInv
  <1> QED BY <1>2, <1>7, <1>10, <1>11, <1>12 DEF ParserInv

LEMMA StringFailsKeeps == ASSUME ParserInv, StringFails PROVE ParserInv'
  <1> USE DEF StringFails, At, Goto
  <1>1. TextOK /\ StringOK /\ offset \in Nat /\ reach \in Nat /\ reach < Length
    BY ParserFacts
  <1>2. TextOK' /\ Length' = Length
    BY <1>1, TextStays
  <1>3. StringOK' /\ spc' = "idle"
    BY <1>1, OverKeeps
  <1>4. Place'
    BY <1>3 DEF Place, Labels
  <1>5. Nested'
    BY DEF ParserInv, Nested, IsStack
  <1> QED BY <1>2, <1>3, <1>4, <1>5, HeapStays DEF ParserInv

\* Where the value of a list's last item ends.
LEMMA AfterValue == ASSUME ParserInv, At("after") PROVE
                    /\ TextOK /\ StringOK /\ spc = "idle" /\ offset \in 0 .. Length
                    /\ Length \in Nat \ {0} /\ SkipWhitespace(offset) \in 0 .. Length - 1
  <1>1. /\ TextOK /\ StringOK /\ spc = "idle" /\ offset \in Nat /\ Length \in Nat \ {0}
        /\ offset <= Length
    BY ParserFacts DEF ParserInv, Place, At
  <1>2. offset \in 0 .. Length
    BY <1>1
  <1> QED BY <1>1, <1>2, SkipEnds

LEMMA NextElementKeeps == ASSUME ParserInv, NextElement PROVE ParserInv'
  <1> USE DEF NextElement, Goto
  <1> DEFINE o == SkipWhitespace(offset)
  <1>1. /\ TextOK /\ StringOK /\ spc = "idle" /\ offset \in 0 .. Length
        /\ Length \in Nat \ {0} /\ o \in 0 .. Length - 1
    BY AfterValue
  <1>2. TextOK' /\ Length' = Length
    BY <1>1, TextStays
  <1>3. offset' \in Nat /\ reach' \in Nat /\ reach' < Length
    BY <1>1, SkipHere
  <1>4. offset' + 1 < Length
    <2>1. Byte(o) # 0
      BY DEF Comma
    <2>2. offset' = o
      BY DEF Skip
    <2> HIDE DEF o
    <2> QED BY <1>1, <2>1, <2>2, Bytes
  <1>5. StringOK' /\ spc' = "idle"
    BY <1>1, <1>3, IdleKeeps
  <1>6. Nested'
    <2>1. PICK L : stack \in Seq([kind : Kinds, list : L])
      BY DEF ParserInv, Nested, IsStack
    <2>2. Len(stack) > 0
      BY <2>1
    <2> QED BY <2>2 DEF ParserInv, Nested, IsStack, At
  <1>7. Place'
    BY <1>2, <1>4, <1>5 DEF Place, Labels
  <1> QED BY <1>2, <1>5, <1>6, <1>7, HeapStays DEF ParserInv

LEMMA EndOfListKeeps == ASSUME ParserInv, EndOfList PROVE ParserInv'
  <1> USE DEF EndOfList, CloseList
  <1> DEFINE o == SkipWhitespace(offset)
  <1>1. /\ TextOK /\ StringOK /\ spc = "idle" /\ offset \in 0 .. Length
        /\ Length \in Nat \ {0} /\ o \in 0 .. Length - 1
    BY AfterValue
  <1>2. TextOK' /\ Length' = Length
    BY <1>1, TextStays
  <1>3. offset' = o + 1 /\ Reads(o) /\ pc = "after" /\ pc' = "after"
    BY DEF At
  <1>4. IsStack' /\ Len(stack') = Len(stack) - 1 /\ Len(stack) >= 1 /\ Len(stack) \in Nat
    <2>1. PICK L : stack \in Seq([kind : Kinds, list : L])
      BY DEF ParserInv, Nested, IsStack
    <2>2. /\ Outer \in Seq([kind : Kinds, list : L])
          /\ Len(Outer) = Len(stack) - 1 /\ Len(stack) >= 1 /\ Len(stack) \in Nat
      BY <2>1, Popped, SeqElements
    <2>3. CASE Len(stack) = 1
      <3>1. stack' = <<>>
        BY <2>3
      <3> QED BY <2>3, <3>1 DEF IsStack
    <2>4. CASE Len(stack) # 1
      <3>1. PICK l : stack' = [Outer EXCEPT ![Len(Outer)].list = l]
        BY <2>4
      <3>2. Len(Outer) \in 1 .. Len(Outer)
        BY <2>2, <2>4
      <3>3. Outer[Len(Outer)] \in [kind : Kinds, list : L]
        BY <2>2, <3>2, SeqElements
      <3>4. [Outer[Len(Outer)] EXCEPT !.list = l] \in [kind : Kinds, list : L \cup {l}]
        <4>1. L \subseteq L \cup {l} /\ l \in L \cup {l}
          OBVIOUS
        <4> QED BY <3>3, <4>1, RecordSets
      <3>5. Outer \in Seq([kind : Kinds, list : L \cup {l}])
        <4>1. ASSUME NEW i \in 1 .. Len(Outer) PROVE Outer[i] \in [kind : Kinds, list : L \cup {l}]
          <5>1. Outer[i] \in [kind : Kinds, list : L]
            BY <2>2, SeqElements
          <5>2. L \subseteq L \cup {l} /\ l \in L \cup {l}
            OBVIOUS
          <5> QED BY <5>1, <5>2, RecordSets
        <4> QED BY <2>2, <4>1, SeqOver
      <3>6. stack' = [Outer EXCEPT ![Len(Outer)] = [Outer[Len(Outer)] EXCEPT !.list = l]]
        BY <3>1
      <3> HIDE DEF Outer
      <3>7. stack' \in Seq([kind : Kinds, list : L \cup {l}]) /\ Len(stack') = Len(Outer)
        BY <3>2, <3>4, <3>5, <3>6
      <3> QED BY <2>2, <3>7 DEF IsStack
    <2> QED BY <2>2, <2>3, <2>4
  <1>5. depth' = depth - 1 /\ depth = Len(stack) /\ Len(stack) <= NestingLimit /\ NestingLimit \in Nat
    BY <1>3, ParserAssumption DEF ParserInv, Nested
  <1>6. UNCHANGED <<text, str, heap, fresh, fate>>
    OBVIOUS
  <1> HIDE DEF o, EndOfList, CloseList
  <1>7. o \in Nat /\ o < Length /\ offset' \in Nat /\ offset' <= Length
    BY <1>1, <1>3
  <1>8. reach' \in Nat /\ reach' < Length
    BY <1>3, <1>7, ReadsHere
  <1>9. StringOK' /\ spc' = "idle"
    BY <1>1, <1>6, <1>7, <1>8, IdleKeeps
  <1>10. Nested'
    BY <1>3, <1>4, <1>5 DEF Nested
  <1>11. Place'
    BY <1>2, <1>3, <1>7, <1>9 DEF Place, Labels
  <1> QED BY <1>2, <1>6, <1>9, <1>10, <1>11, HeapStays DEF ParserInv

LEMMA ListFailsKeeps == ASSUME ParserInv, ListFails PROVE ParserInv'
  <1> USE DEF ListFails, Goto
  <1>1. TextOK /\ StringOK /\ spc = "idle" /\ offset \in 0 .. Length
    BY AfterValue
  <1>2. TextOK' /\ Length' = Length
    BY <1>1, TextStays
  <1>3. offset' \in Nat /\ reach' \in Nat /\ reach' < Length
    BY <1>1, SkipHere
  <1>4. StringOK' /\ spc' = "idle"
    BY <1>1, <1>3, IdleKeeps
  <1>5. Nested'
    BY DEF ParserInv, Nested, IsStack
  <1>6. Place'
    BY <1>4 DEF Place, Labels
  <1> QED BY <1>2, <1>4, <1>5, <1>6, HeapStays DEF ParserInv

LEMMA SucceedKeeps == ASSUME ParserInv, Succeed PROVE ParserInv'
  <1> USE DEF Succeed, Goto
  <1>1. TextOK /\ StringOK /\ spc = "idle" /\ offset \in Nat /\ reach \in Nat /\ reach < Length
    BY AfterValue, ParserFacts
  <1>2. TextOK' /\ Length' = Length
    BY <1>1, TextStays
  <1>3. StringOK' /\ spc' = "idle"
    BY <1>1, IdleKeeps
  <1>4. Nested'
    BY DEF ParserInv, Nested, IsStack, At
  <1>5. Place'
    BY <1>3 DEF Place, Labels
  <1> QED BY <1>2, <1>3, <1>4, <1>5, HeapStays DEF ParserInv

LEMMA FailKeepsParser == ASSUME ParserInv, Fail PROVE ParserInv'
  <1> USE DEF Fail, Goto, At
  <1>1. TextOK /\ StringOK /\ spc = "idle" /\ offset \in Nat /\ reach \in Nat /\ reach < Length
    BY ParserFacts DEF ParserInv, Place
  <1>2. TextOK' /\ Length' = Length
    BY <1>1, TextStays
  <1>3. StringOK' /\ spc' = "idle"
    BY <1>1, IdleKeeps
  <1>4. pc' \in {"fail", "failed"}
    OBVIOUS
  <1>5. IsStack' /\ Len(stack') <= NestingLimit
    <2>1. PICK L : stack \in Seq([kind : Kinds, list : L])
      BY DEF ParserInv, Nested, IsStack
    <2>2. CASE stack = <<>>
      BY <2>2 DEF ParserInv, Nested, IsStack
    <2>3. CASE stack # <<>>
      <3>1. /\ Outer \in Seq([kind : Kinds, list : L])
            /\ Len(Outer) = Len(stack) - 1 /\ Len(stack) >= 1
        BY <2>1, <2>3, Popped
      <3>2. stack' = Outer
        BY <2>3
      <3>3. Len(stack) \in Nat /\ Len(stack) <= NestingLimit /\ NestingLimit \in Nat
        BY <2>1, SeqElements, ParserAssumption DEF ParserInv, Nested
      <3>4. IsStack'
        BY <3>1, <3>2 DEF IsStack
      <3>5. Len(stack') <= NestingLimit
        <4>1. Len(stack') = Len(stack) - 1
          BY <3>1, <3>2
        <4> QED BY <4>1, <3>3
      <3> QED BY <3>4, <3>5
    <2> QED BY <2>2, <2>3
  <1>6. Nested'
    BY <1>4, <1>5 DEF ParserInv, Nested
  <1>7. Place'
    BY <1>3, <1>4 DEF Place, Labels
  <1> QED BY <1>2, <1>3, <1>6, <1>7, HeapStays DEF ParserInv

\* What stutters, and cJSON_Delete, which only touches the heap.
LEMMA SameKeeps == ASSUME ParserInv, UNCHANGED <<text, offset, str, reach, pc, depth, stack>>, Heap'
                   PROVE  ParserInv'
  <1>1. TextOK' /\ Length' = Length
    BY TextStays, ParserFacts
  <1>2. StringOK'
    BY ParserFacts, TextStays DEF StringOK, StringTypeOK, StringInv, Spread, Room, Rest, str
  <1>3. Place' /\ Nested'
    BY <1>1 DEF ParserInv, Place, Nested, IsStack, str
  <1> QED BY <1>1, <1>2, <1>3 DEF ParserInv

LEMMA DeleteKeeps == ASSUME ParserInv, Delete PROVE ParserInv'
  <1>1. heap' \in SUBSET Nat /\ fate' \in {"ok", "double free"} /\ UNCHANGED fresh
    BY DEF Delete, ParserInv, Heap
  <1> QED BY <1>1, SameKeeps DEF Delete, ParserInv, Heap

LEMMA ParserStep == ParserInv /\ [Next]_vars => ParserInv'
  <1> SUFFICES ASSUME ParserInv, [Next]_vars PROVE ParserInv'
    OBVIOUS
  <1>1. CASE UNCHANGED vars
    BY <1>1, SameKeeps DEF vars, ParserInv, Heap
  <1>2. CASE \E k \in {"Array", "Object"} : ParseList(k) \/ ParseEmpty(k)
    BY <1>2, ListKeeps, EmptyKeeps DEF Kinds
  <1> QED BY <1>1, <1>2, StartKeeps, LiteralKeeps, NumberKeeps, BeginStringKeeps, ValueFailsKeeps,
             NextItemKeeps, ItemFailsKeeps, ParseNameKeeps, StringLoopsKeeps, StringParsedKeeps,
             NameParsedKeeps, StringFailsKeeps, NextElementKeeps, EndOfListKeeps, ListFailsKeeps,
             SucceedKeeps, FailKeepsParser, DeleteKeeps DEF Next

LEMMA ParserInvariance == Spec => []ParserInv
  BY InitParser, ParserStep, PTL DEF Spec

-----------------------------------------------------------------------------
(* The items in memory, as a forest.  Lists of items are held at places: L *)
(* maps 0 to the root, the numbers above to the lists that parse_array and *)
(* parse_object have at head, and -1 to what cJSON_Delete has yet to free. *)
(* T is the set of all items that can be reached from there, H the blocks  *)
(* that are allocated, and k the level of each item.                       *)

ItemsOver(T, D) == [block : Nat \ {0}, type : D, name : [block : Nat, bytes : D],
                    value : [block : Nat, bytes : D], number : D, child : Seq(T)]
Shaped(T, D, L) == T \subseteq ItemsOver(T, D) /\ L \in [Int -> Seq(T)]
\* Every block in H belongs to one item,
Once(T, H) ==
    /\ \A x \in T : Blocks(x) \subseteq H /\ Single(x)
    /\ \A x, y \in T : x # y => Blocks(x) \cap Blocks(y) = {}
    /\ \A b \in H : \E x \in T : b \in Blocks(x)
\* every item is in one place,
OnePlace(T, L) ==
    /\ \A x, y \in T : \A i \in 1 .. Len(x.child), j \in 1 .. Len(y.child) :
          x.child[i] = y.child[j] => x = y /\ i = j
    /\ \A l, m \in Int : \A i \in 1 .. Len(L[l]), j \in 1 .. Len(L[m]) :
          L[l][i] = L[m][j] => l = m /\ i = j
    /\ \A x \in T : \A l \in Int : \A i \in 1 .. Len(x.child), j \in 1 .. Len(L[l]) :
          x.child[i] # L[l][j]
\* and no item is in T that is in none.
Closed(T, L, C) == /\ \A l \in Int : \A i \in 1 .. Len(L[l]) : L[l][i] \in C
                   /\ \A x \in T : x \in C => \A i \in 1 .. Len(x.child) : x.child[i] \in C
Reached(T, L) == \A C : Closed(T, L, C) => T \subseteq C
Ranked(T, L, k) ==
    /\ k \in [T -> 0 .. NestingLimit]
    /\ \A x \in T : \A i \in 1 .. Len(x.child) : k[x.child[i]] = k[x] + 1
    /\ \A l \in Nat : \A i \in 1 .. Len(L[l]) : k[L[l][i]] = l
Forest(T, D, k, L, H) ==
    Shaped(T, D, L) /\ Once(T, H) /\ OnePlace(T, L) /\ Reached(T, L) /\ Ranked(T, L, k)

LEMMA MoreItems ==
    ASSUME NEW T, NEW D, NEW U, NEW E, T \subseteq U, D \subseteq E
    PROVE  ItemsOver(T, D) \subseteq ItemsOver(U, E)
<1>1. Seq(T) \subseteq Seq(U) OBVIOUS
<1> QED BY <1>1 DEF ItemsOver

\* OnePlace for two places that are known.
LEMMA OneHolder ==
    ASSUME NEW T, NEW L, OnePlace(T, L), NEW l \in Int, NEW m \in Int, NEW i \in 1 .. Len(L[l]),
           NEW j \in 1 .. Len(L[m]), L[l][i] = L[m][j]
    PROVE  l = m /\ i = j
  BY DEF OnePlace

LEMMA OneParent ==
    ASSUME NEW T, NEW L, OnePlace(T, L), NEW x \in T, NEW y \in T, NEW i \in 1 .. Len(x.child),
           NEW j \in 1 .. Len(y.child), x.child[i] = y.child[j]
    PROVE  x = y /\ i = j
  BY DEF OnePlace

LEMMA NotBoth ==
    ASSUME NEW T, NEW L, OnePlace(T, L), NEW x \in T, NEW l \in Int, NEW i \in 1 .. Len(x.child),
           NEW j \in 1 .. Len(L[l]), x.child[i] = L[l][j]
    PROVE  FALSE
  BY DEF OnePlace

\* An item that is new is put at the end of a list.
LEMMA Planted ==
    ASSUME NEW T, NEW D, NEW k, NEW L, NEW H, Forest(T, D, k, L, H), NEW l \in 0 .. NestingLimit,
           NEW new, NEW E, D \subseteq E, new \in ItemsOver({}, E), new.child = <<>>, Single(new),
           Blocks(new) \cap H = {}, NEW M, M = [L EXCEPT ![l] = Append(@, new)]
    PROVE  \E U, m : Forest(U, E, m, M, H \cup Blocks(new))
<1> DEFINE U == T \cup {new}
           m == [x \in U |-> IF x = new THEN l ELSE k[x]]
<1>0. Shaped(T, D, L) /\ Once(T, H) /\ OnePlace(T, L) /\ Reached(T, L) /\ Ranked(T, L, k)
  BY DEF Forest
<1>1. new.block \in Blocks(new) BY DEF Blocks, ItemsOver
<1>2. new \notin T BY <1>0, <1>1 DEF Once
<1>3. l \in Int BY ParserAssumption
<1>4. /\ \A p \in Int : L[p] \in Seq(T)
      /\ \A x \in T : x \in ItemsOver(T, D) /\ x.child \in Seq(T)
  BY <1>0 DEF Shaped, ItemsOver
<1>5. /\ M[l] = Append(L[l], new) /\ \A p \in Int : p # l => M[p] = L[p]
      /\ M \in [Int -> Seq(U)]
  <2>1. Append(L[l], new) \in Seq(U) BY <1>3, <1>4
  <2>2. \A p \in Int : L[p] \in Seq(U) BY <1>4
  <2> QED BY <1>0, <1>3, <2>1, <2>2 DEF Shaped
<1>6. \A p \in Int : \A i \in 1 .. Len(M[p]) :
        \/ p = l /\ i = Len(L[l]) + 1 /\ M[p][i] = new
        \/ i \in 1 .. Len(L[p]) /\ M[p][i] = L[p][i] /\ M[p][i] \in T
  <2> SUFFICES ASSUME NEW p \in Int, NEW i \in 1 .. Len(M[p])
               PROVE  \/ p = l /\ i = Len(L[l]) + 1 /\ M[p][i] = new
                      \/ i \in 1 .. Len(L[p]) /\ M[p][i] = L[p][i] /\ M[p][i] \in T
    OBVIOUS
  <2>1. CASE p = l BY <1>4, <1>5, <2>1, SMTT(60)
  <2>2. CASE p # l BY <1>4, <1>5, <2>2
  <2> QED BY <2>1, <2>2
<1>7. \A p \in Int : \A i \in 1 .. Len(L[p]) : i \in 1 .. Len(M[p]) /\ M[p][i] = L[p][i]
  <2> SUFFICES ASSUME NEW p \in Int, NEW i \in 1 .. Len(L[p])
               PROVE  i \in 1 .. Len(M[p]) /\ M[p][i] = L[p][i]
    OBVIOUS
  <2>1. CASE p = l BY <1>4, <1>5, <2>1
  <2>2. CASE p # l BY <1>4, <1>5, <2>2
  <2> QED BY <2>1, <2>2
<1>8. Len(L[l]) + 1 \in 1 .. Len(M[l]) /\ M[l][Len(L[l]) + 1] = new BY <1>3, <1>4, <1>5
<1> HIDE DEF U
<1>9. \A x \in U : x = new \/ x \in T BY DEF U
<1>10. \A i \in 1 .. Len(new.child) : FALSE
  <2>1. Len(new.child) = 0 OBVIOUS
  <2> QED BY <2>1
<1>11. Shaped(U, E, M)
  <2>1. ItemsOver(T, D) \subseteq ItemsOver(U, E) /\ ItemsOver({}, E) \subseteq ItemsOver(U, E)
    BY MoreItems DEF U
  <2> QED BY <1>4, <1>5, <1>9, <2>1 DEF Shaped
<1>12. Once(U, H \cup Blocks(new))
  BY <1>0, <1>9 DEF Once, U
<1>13. OnePlace(U, M)
  <2>1. \A x, y \in U : \A i \in 1 .. Len(x.child), j \in 1 .. Len(y.child) :
          x.child[i] = y.child[j] => x = y /\ i = j
    BY <1>0, <1>9, <1>10 DEF OnePlace
  <2>2. \A p, q \in Int : \A i \in 1 .. Len(M[p]), j \in 1 .. Len(M[q]) :
          M[p][i] = M[q][j] => p = q /\ i = j
    <3> SUFFICES ASSUME NEW p \in Int, NEW q \in Int, NEW i \in 1 .. Len(M[p]),
                        NEW j \in 1 .. Len(M[q]),
                        M[p][i] = M[q][j]
                 PROVE  p = q /\ i = j
      OBVIOUS
    <3>1. CASE p = l /\ i = Len(L[l]) + 1 /\ M[p][i] = new
      <4>1. M[q][j] \notin T BY <1>2, <3>1
      <4>2. q = l /\ j = Len(L[l]) + 1 BY <1>6, <4>1
      <4> QED BY <3>1, <4>2
    <3>2. CASE i \in 1 .. Len(L[p]) /\ M[p][i] = L[p][i] /\ M[p][i] \in T
      <4>1. j \in 1 .. Len(L[q]) /\ M[q][j] = L[q][j] BY <1>2, <1>6, <3>2
      <4>2. L[p][i] = L[q][j] /\ i \in 1 .. Len(L[p]) BY <3>2, <4>1
      <4> QED BY ONLY <1>0, <4>1, <4>2, p \in Int, q \in Int, ZenonT(60) DEF OnePlace
    <3> QED BY <1>6, <3>1, <3>2
  <2>3. \A x \in U : \A p \in Int : \A i \in 1 .. Len(x.child), j \in 1 .. Len(M[p]) :
          x.child[i] # M[p][j]
    <3> SUFFICES ASSUME NEW x \in U, NEW p \in Int, NEW i \in 1 .. Len(x.child),
                        NEW j \in 1 .. Len(M[p])
                 PROVE  x.child[i] # M[p][j]
      OBVIOUS
    <3>1. x \in T /\ x.child[i] \in T BY <1>4, <1>9, <1>10
    <3>2. CASE M[p][j] = new BY <1>2, <3>1, <3>2
    <3>3. CASE j \in 1 .. Len(L[p]) /\ M[p][j] = L[p][j] BY <1>0, <3>1, <3>3 DEF OnePlace
    <3> QED BY <1>6, <3>2, <3>3
  <2> QED BY <2>1, <2>2, <2>3 DEF OnePlace
<1>14. Reached(U, M)
  <2> SUFFICES ASSUME NEW C, Closed(U, M, C) PROVE U \subseteq C BY DEF Reached
  <2>1. Closed(T, L, C) BY <1>4, <1>7 DEF Closed, U
  <2>2. new \in C BY <1>3, <1>8 DEF Closed
  <2> QED BY <1>0, <2>1, <2>2 DEF Reached, U
<1>15. Ranked(U, M, m)
  <2>1. m \in [U -> 0 .. NestingLimit] /\ m[new] = l /\ \A x \in T : m[x] = k[x]
    BY <1>0, <1>2, <1>9 DEF Ranked, U
  <2> HIDE DEF m
  <2>2. \A x \in U : \A i \in 1 .. Len(x.child) : m[x.child[i]] = m[x] + 1
    BY <1>0, <1>4, <1>9, <1>10, <2>1 DEF Ranked
  <2>3. \A p \in Nat : \A i \in 1 .. Len(M[p]) : m[M[p][i]] = p
    BY <1>0, <1>6, <2>1 DEF Ranked
  <2> QED BY <2>1, <2>2, <2>3 DEF Ranked
<1> QED BY <1>11, <1>12, <1>13, <1>14, <1>15 DEF Forest

LEMMA Retyped ==
    ASSUME NEW T, NEW D, NEW U, NEW E, D \subseteq E, NEW x \in ItemsOver(T, D),
           \A i \in 1 .. Len(x.child) : x.child[i] \in U
    PROVE  x \in ItemsOver(U, E)
<1>1. x.child \in Seq(T) BY DEF ItemsOver
<1>2. x.child \in Seq(U) BY <1>1, SeqOver
<1> QED BY <1>2 DEF ItemsOver

\* The last item of a list gets a value: a string, or what was the list at t.
LEMMA Grown ==
    ASSUME NEW T, NEW D, NEW k, NEW L, NEW H, Forest(T, D, k, L, H),
           NEW l \in 0 .. NestingLimit, L[l] # <<>>, NEW t \in Int, t # l, t = l + 1 \/ L[t] = <<>>,
           NEW old, old = L[l][Len(L[l])], old.child = <<>>,
           NEW A, A \cap H = {}, NEW E, D \subseteq E, NEW new \in ItemsOver(T, E),
           new.block = old.block, new.child = L[t], Blocks(new) = Blocks(old) \cup A, Single(new),
           NEW M, M = [L EXCEPT ![t] = <<>>, ![l] = [@ EXCEPT ![Len(@)] = new]]
    PROVE  \E U, m : Forest(U, E, m, M, H \cup A)
<1> DEFINE T1 == T \ {old}
           U == T1 \cup {new}
           m == [x \in U |-> IF x = new THEN l ELSE k[x]]
           n == Len(L[l])
<1>0. Shaped(T, D, L) /\ Once(T, H) /\ OnePlace(T, L) /\ Reached(T, L) /\ Ranked(T, L, k)
  BY DEF Forest
<1>1. /\ \A p \in Int : L[p] \in Seq(T)
      /\ \A x \in T : x \in ItemsOver(T, D) /\ x.child \in Seq(T)
  BY <1>0 DEF Shaped, ItemsOver
<1>2. l \in Int BY ParserAssumption
<1>3. /\ n \in Nat \ {0} /\ n \in 1 .. n /\ old \in T
  BY <1>1, <1>2
<1>4. new.block \in Blocks(new) /\ new.block \in Blocks(old) BY <1>1, <1>3 DEF Blocks, ItemsOver
<1>5. new \notin T1 BY <1>0, <1>3, <1>4 DEF Once
<1>6. /\ M \in [Int -> Seq(T \cup {new})]
      /\ M[t] = <<>> /\ M[l] = [L[l] EXCEPT ![n] = new] /\ Len(M[l]) = n /\ M[l][n] = new
      /\ \A i \in 1 .. n : i # n => M[l][i] = L[l][i]
      /\ \A p \in Int : p # l /\ p # t => M[p] = L[p]
  <2>1. M = [p \in Int |-> IF p = l THEN [L[l] EXCEPT ![n] = new] ELSE IF p = t THEN <<>> ELSE L[p]]
    BY <1>0, <1>2 DEF Shaped
  <2>2. [L[l] EXCEPT ![n] = new] \in Seq(T \cup {new}) BY <1>1, <1>2, <1>3
  <2>3. \A p \in Int : L[p] \in Seq(T \cup {new}) BY <1>1
  <2>4. <<>> \in Seq(T \cup {new}) OBVIOUS
  <2>5. M \in [Int -> Seq(T \cup {new})] BY <2>1, <2>2, <2>3, <2>4
  <2>6. /\ Len([L[l] EXCEPT ![n] = new]) = n /\ [L[l] EXCEPT ![n] = new][n] = new
        /\ \A i \in 1 .. n : i # n => [L[l] EXCEPT ![n] = new][i] = L[l][i]
    BY <1>1, <1>2, <1>3
  <2> HIDE DEF n
  <2> QED BY <1>2, <2>1, <2>5, <2>6
<1>7. \A i \in 1 .. Len(old.child) : FALSE
  <2>1. Len(old.child) = 0 OBVIOUS
  <2> QED BY <2>1
<1>8. \A x \in T : \A i \in 1 .. Len(x.child) : x.child[i] \in T1
  <2> SUFFICES ASSUME NEW x \in T, NEW i \in 1 .. Len(x.child)
               PROVE  x.child[i] \in T /\ x.child[i] # old
    OBVIOUS
  <2>1. x.child[i] \in T BY <1>1
  <2>2. Len(L[l]) \in 1 .. Len(L[l]) BY <1>3
  <2> QED BY <1>0, <1>2, <2>1, <2>2 DEF OnePlace
<1>9. \A p \in Int : \A i \in 1 .. Len(L[p]) : (p = l /\ i = n) \/ L[p][i] \in T1
  <2> SUFFICES ASSUME NEW p \in Int, NEW i \in 1 .. Len(L[p]), L[p][i] = old PROVE p = l /\ i = n
    BY <1>1
  <2> QED BY <1>0, <1>2, <1>3, SMTT(60) DEF OnePlace
<1>10. \A i \in 1 .. Len(L[t]) : L[t][i] \in T1 BY <1>9
<1> HIDE DEF T1, U, n
<1>11. \A p \in Int : \A i \in 1 .. Len(M[p]) :
         \/ p = l /\ i = n /\ M[p][i] = new
         \/ p # t /\ i \in 1 .. Len(L[p]) /\ M[p][i] = L[p][i] /\ M[p][i] \in T1
  <2> SUFFICES ASSUME NEW p \in Int, NEW i \in 1 .. Len(M[p])
               PROVE  \/ p = l /\ i = n /\ M[p][i] = new
                      \/ p # t /\ i \in 1 .. Len(L[p]) /\ M[p][i] = L[p][i] /\ M[p][i] \in T1
    OBVIOUS
  <2>1. CASE p = l BY <1>6, <1>9, <2>1 DEF n
  <2>2. CASE p = t
    <3>1. Len(M[p]) = 0 BY <1>6, <2>2
    <3> QED BY <3>1
  <2>3. CASE p # l /\ p # t BY <1>6, <1>9, <2>3
  <2> QED BY <2>1, <2>2, <2>3
<1>12. \A p \in Int : \A i \in 1 .. Len(L[p]) :
         p # t /\ ~(p = l /\ i = n) => i \in 1 .. Len(M[p]) /\ M[p][i] = L[p][i]
  <2> SUFFICES ASSUME NEW p \in Int, NEW i \in 1 .. Len(L[p]), p # t, ~(p = l /\ i = n)
               PROVE  i \in 1 .. Len(M[p]) /\ M[p][i] = L[p][i]
    OBVIOUS
  <2>1. CASE p = l BY <1>6, <2>1 DEF n
  <2>2. CASE p # l BY <1>6, <2>2
  <2> QED BY <2>1, <2>2
<1>13. \A x \in U : x = new \/ (x \in T1 /\ x \in T /\ x # new) BY <1>5 DEF U, T1
<1>14. T1 \subseteq T /\ T1 \subseteq U /\ new \in U /\ T \subseteq T1 \cup {old} BY DEF U, T1
<1>15. Shaped(U, E, M)
  <2>1. U \subseteq ItemsOver(U, E)
    <3>1. new \in ItemsOver(U, E) BY <1>10, <1>14, Retyped
    <3>2. \A x \in T1 : x \in ItemsOver(U, E) BY <1>1, <1>8, <1>14, Retyped, SMTT(60)
    <3> QED BY <1>13, <3>1, <3>2
  <2>2. M \in [Int -> Seq(U)]
    <3>1. \A p \in Int : M[p] \in Seq(U)
      <4> SUFFICES ASSUME NEW p \in Int PROVE M[p] \in Seq(U) OBVIOUS
      <4>1. M[p] \in Seq(T \cup {new}) BY <1>6
      <4>2. \A i \in 1 .. Len(M[p]) : M[p][i] \in U BY <1>11, <1>14
      <4> QED BY <4>1, <4>2, SeqOver
    <3> QED BY <1>6, <3>1
  <2> QED BY <2>1, <2>2 DEF Shaped
<1>16. Once(U, H \cup A)
  <2>1. \A x \in U : Blocks(x) \subseteq H \cup A /\ Single(x) BY <1>0, <1>3, <1>13 DEF Once
  <2>2. \A x \in T1 : Blocks(x) \cap Blocks(new) = {}
    <3> SUFFICES ASSUME NEW x \in T1 PROVE Blocks(x) \cap Blocks(new) = {} OBVIOUS
    <3>1. x \in T /\ x # old BY DEF T1
    <3>2. Blocks(x) \subseteq H /\ Blocks(x) \cap Blocks(old) = {} BY <1>0, <1>3, <3>1 DEF Once
    <3> QED BY <3>2
  <2>3. \A x, y \in U : x # y => Blocks(x) \cap Blocks(y) = {} BY <1>0, <1>13, <2>2 DEF Once
  <2>4. ASSUME NEW b \in H \cup A PROVE \E x \in U : b \in Blocks(x)
    <3>1. CASE b \in A \cup Blocks(old) BY <1>14, <3>1
    <3>2. CASE b \in H /\ b \notin Blocks(old) BY <1>0, <1>14, <3>2 DEF Once
    <3> QED BY <3>1, <3>2
  <2> QED BY <2>1, <2>3, <2>4 DEF Once
<1>17. OnePlace(U, M)
  <2>1. \A x, y \in U : \A i \in 1 .. Len(x.child), j \in 1 .. Len(y.child) :
          x.child[i] = y.child[j] => x = y /\ i = j
    <3> SUFFICES ASSUME NEW x \in U, NEW y \in U, NEW i \in 1 .. Len(x.child),
                        NEW j \in 1 .. Len(y.child), x.child[i] = y.child[j]
                 PROVE  x = y /\ i = j
      OBVIOUS
    <3>1. CASE x = new /\ y = new BY <1>0, <3>1 DEF OnePlace
    <3>2. CASE x = new /\ y \in T BY <1>0, <3>2 DEF OnePlace
    <3>3. CASE x \in T /\ y = new BY <1>0, <3>3 DEF OnePlace
    <3>4. CASE x \in T /\ y \in T BY <1>0, <3>4 DEF OnePlace
    <3> QED BY <1>13, <3>1, <3>2, <3>3, <3>4
  <2>2. \A p, q \in Int : \A i \in 1 .. Len(M[p]), j \in 1 .. Len(M[q]) :
          M[p][i] = M[q][j] => p = q /\ i = j
    <3> SUFFICES ASSUME NEW p \in Int, NEW q \in Int, NEW i \in 1 .. Len(M[p]),
                        NEW j \in 1 .. Len(M[q]),
                        M[p][i] = M[q][j]
                 PROVE  p = q /\ i = j
      OBVIOUS
    <3>1. CASE p = l /\ i = n /\ M[p][i] = new
      <4>1. M[q][j] \notin T1 BY <1>5, <3>1
      <4>2. q = l /\ j = n BY <1>11, <4>1
      <4> QED BY <3>1, <4>2
    <3>2. CASE i \in 1 .. Len(L[p]) /\ M[p][i] = L[p][i] /\ M[p][i] \in T1
      <4>1. j \in 1 .. Len(L[q]) /\ M[q][j] = L[q][j] BY <1>5, <1>11, <3>2
      <4> QED BY <1>0, <3>2, <4>1, SMTT(60) DEF OnePlace
    <3> QED BY <1>11, <3>1, <3>2
  <2>3. \A x \in U : \A p \in Int : \A i \in 1 .. Len(x.child), j \in 1 .. Len(M[p]) :
          x.child[i] # M[p][j]
    <3> SUFFICES ASSUME NEW x \in U, NEW p \in Int, NEW i \in 1 .. Len(x.child),
                        NEW j \in 1 .. Len(M[p])
                 PROVE  x.child[i] # M[p][j]
      OBVIOUS
    <3>1. x.child[i] \in T1 BY <1>8, <1>10, <1>13
    <3>2. CASE M[p][j] = new BY <1>5, <3>1, <3>2
    <3>3. CASE p # t /\ j \in 1 .. Len(L[p]) /\ M[p][j] = L[p][j]
      <4>1. CASE x = new BY <1>0, <3>3, <4>1 DEF OnePlace
      <4>2. CASE x \in T BY <1>0, <3>3, <4>2 DEF OnePlace
      <4> QED BY <1>13, <4>1, <4>2
    <3> QED BY <1>11, <3>2, <3>3
  <2> QED BY <2>1, <2>2, <2>3 DEF OnePlace
<1>18. Reached(U, M)
  <2> SUFFICES ASSUME NEW C, Closed(U, M, C) PROVE U \subseteq C BY DEF Reached
  <2>1. new \in C BY <1>2, <1>3, <1>6 DEF Closed
  <2>2. \A i \in 1 .. Len(L[t]) : L[t][i] \in C BY <1>14, <2>1 DEF Closed
  <2>3. \A p \in Int : \A i \in 1 .. Len(L[p]) : L[p][i] \in C \cup {old}
    BY <1>12, <2>2, ZenonT(60) DEF Closed, n
  <2>4. \A x \in T : x \in C \cup {old} => \A i \in 1 .. Len(x.child) : x.child[i] \in C \cup {old}
    BY <1>7, <1>14 DEF Closed
  <2>5. T \subseteq C \cup {old} BY <1>0, <2>3, <2>4 DEF Closed, Reached
  <2> QED BY <2>1, <2>5 DEF U, T1
<1>19. Ranked(U, M, m)
  <2>1. m \in [U -> 0 .. NestingLimit] /\ m[new] = l /\ \A x \in T1 : m[x] = k[x]
    BY <1>0, <1>5, <1>13, <1>14 DEF Ranked
  <2> HIDE DEF m
  <2>2. \A x \in U : \A i \in 1 .. Len(x.child) : m[x.child[i]] = m[x] + 1
    <3> SUFFICES ASSUME NEW x \in U, NEW i \in 1 .. Len(x.child) PROVE m[x.child[i]] = m[x] + 1
      OBVIOUS
    <3>1. CASE x = new
      <4>1. L[t] # <<>> BY <1>1, <3>1
      <4>2. t = l + 1 /\ t \in Nat BY <1>2, <4>1
      <4> QED BY <1>0, <1>10, <2>1, <3>1, <4>2 DEF Ranked
    <3>2. CASE x \in T1 /\ x \in T BY <1>0, <1>8, <2>1, <3>2 DEF Ranked
    <3> QED BY <1>13, <3>1, <3>2
  <2>3. \A p \in Nat : \A i \in 1 .. Len(M[p]) : m[M[p][i]] = p
    <3> SUFFICES ASSUME NEW p \in Nat, NEW i \in 1 .. Len(M[p]) PROVE m[M[p][i]] = p OBVIOUS
    <3>1. p \in Int OBVIOUS
    <3>2. CASE p = l /\ M[p][i] = new BY <2>1, <3>2
    <3>3. CASE i \in 1 .. Len(L[p]) /\ M[p][i] = L[p][i] /\ M[p][i] \in T1
      BY <1>0, <2>1, <3>3 DEF Ranked
    <3> QED BY <1>11, <3>1, <3>2, <3>3
  <2> QED BY <2>1, <2>2, <2>3 DEF Ranked
<1> QED BY <1>15, <1>16, <1>17, <1>18, <1>19 DEF Forest

\* A first item that makes way for its children.
LEMMA Joined ==
    ASSUME NEW S, NEW a \in Seq(S), NEW b \in Seq(S), b # <<>>, NEW m, m = a \o Tail(b)
    PROVE  /\ m \in Seq(S) /\ Len(m) = Len(a) + Len(b) - 1
           /\ \A i \in 1 .. Len(a) : i \in 1 .. Len(m) /\ m[i] = a[i]
           /\ \A i \in 2 .. Len(b) : Len(a) + i - 1 \in 1 .. Len(m) /\ m[Len(a) + i - 1] = b[i]
           /\ \A i \in 1 .. Len(m) : i \notin 1 .. Len(a) =>
                i - Len(a) + 1 \in 2 .. Len(b) /\ m[i] = b[i - Len(a) + 1]
<1> DEFINE r == Tail(b)
<1>1. /\ r \in Seq(S) /\ Len(r) = Len(b) - 1 /\ Len(b) \in Nat \ {0} /\ Len(a) \in Nat
      /\ \A i \in 1 .. Len(b) - 1 : r[i] = b[i + 1]
  OBVIOUS
<1>2. m = a \o r OBVIOUS
<1> HIDE DEF r
<1>3. /\ m \in Seq(S) /\ Len(m) = Len(a) + Len(r)
      /\ \A i \in 1 .. Len(a) : m[i] = a[i]
      /\ \A i \in 1 .. Len(m) : i \notin 1 .. Len(a) => m[i] = r[i - Len(a)]
  BY <1>1, <1>2, SMTT(60)
<1>4. Len(m) = Len(a) + Len(b) - 1 BY <1>1, <1>3
<1>5. \A i \in 1 .. Len(a) : i \in 1 .. Len(m) /\ m[i] = a[i] BY <1>1, <1>3, <1>4
<1>6. ASSUME NEW i \in 1 .. Len(m), i \notin 1 .. Len(a)
      PROVE  i - Len(a) + 1 \in 2 .. Len(b) /\ m[i] = b[i - Len(a) + 1]
  <2>1. i - Len(a) \in 1 .. Len(b) - 1 BY <1>1, <1>4, <1>6
  <2>2. r[i - Len(a)] = b[i - Len(a) + 1] BY <1>1, <2>1
  <2> QED BY <1>1, <1>3, <1>6, <2>1, <2>2
<1>7. ASSUME NEW i \in 2 .. Len(b)
      PROVE  Len(a) + i - 1 \in 1 .. Len(m) /\ m[Len(a) + i - 1] = b[i]
  <2>1. /\ Len(a) + i - 1 \in 1 .. Len(m) /\ Len(a) + i - 1 \notin 1 .. Len(a)
        /\ (Len(a) + i - 1) - Len(a) + 1 = i
    BY <1>1, <1>4
  <2> QED BY <1>6, <2>1
<1> QED BY <1>3, <1>4, <1>5, <1>6, <1>7

\* A list is handed to cJSON_Delete.
LEMMA Moved ==
    ASSUME NEW T, NEW D, NEW k, NEW L, NEW H, Forest(T, D, k, L, H),
           NEW z \in Int \ Nat, L[z] = <<>>,
           NEW l \in Int, l # z, NEW M, M = [L EXCEPT ![z] = L[l], ![l] = <<>>]
    PROVE  Forest(T, D, k, M, H)
<1> DEFINE From(p) == IF p = z THEN l ELSE p
           To(p) == IF p = l THEN z ELSE p
<1>0. Shaped(T, D, L) /\ Once(T, H) /\ OnePlace(T, L) /\ Reached(T, L) /\ Ranked(T, L, k)
  BY DEF Forest
<1>1. \A p \in Int : L[p] \in Seq(T) BY <1>0 DEF Shaped
<1>2. M = [p \in Int |-> IF p = l THEN <<>> ELSE L[From(p)]] BY <1>0 DEF Shaped
<1>3. Len(<<>>) = 0 /\ 1 .. 0 = {} OBVIOUS
<1>4. \A p \in Int : \A i \in 1 .. Len(M[p]) :
        p # l /\ From(p) \in Int /\ i \in 1 .. Len(L[From(p)]) /\ M[p][i] = L[From(p)][i]
  BY <1>2, <1>3
<1>5. \A p \in Int : \A i \in 1 .. Len(L[p]) :
        To(p) \in Int /\ i \in 1 .. Len(M[To(p)]) /\ M[To(p)][i] = L[p][i]
  BY <1>2, <1>3
<1>6. \A p, q \in Int : p # l /\ q # l /\ From(p) = From(q) => p = q OBVIOUS
<1>7. \A p \in Nat : p # l => From(p) = p OBVIOUS
<1> HIDE DEF From, To
<1>8. Shaped(T, D, M)
  <2>1. \A p \in Int : M[p] \in Seq(T)
    <3> SUFFICES ASSUME NEW p \in Int PROVE M[p] \in Seq(T) OBVIOUS
    <3>1. From(p) \in Int BY DEF From
    <3>2. L[From(p)] \in Seq(T) BY <1>1, <3>1
    <3>3. <<>> \in Seq(T) OBVIOUS
    <3> QED BY <1>2, <3>2, <3>3
  <2> QED BY <1>0, <1>2, <2>1 DEF Shaped
<1>9. OnePlace(T, M)
  <2>1. \A p, q \in Int : \A i \in 1 .. Len(M[p]), j \in 1 .. Len(M[q]) :
          M[p][i] = M[q][j] => p = q /\ i = j
    <3> SUFFICES ASSUME NEW p \in Int, NEW q \in Int, NEW i \in 1 .. Len(M[p]),
                        NEW j \in 1 .. Len(M[q]),
                        M[p][i] = M[q][j]
                 PROVE  p = q /\ i = j
      OBVIOUS
    <3>1. /\ From(p) \in Int /\ From(q) \in Int /\ p # l /\ q # l
          /\ i \in 1 .. Len(L[From(p)]) /\ j \in 1 .. Len(L[From(q)])
          /\ L[From(p)][i] = L[From(q)][j]
      BY <1>4
    <3>2. From(p) = From(q) /\ i = j BY <1>0, <3>1, OneHolder, SMTT(60)
    <3> QED BY <1>6, <3>1, <3>2
  <2>2. \A x \in T : \A p \in Int : \A i \in 1 .. Len(x.child), j \in 1 .. Len(M[p]) :
          x.child[i] # M[p][j]
    <3> SUFFICES ASSUME NEW x \in T, NEW p \in Int, NEW i \in 1 .. Len(x.child),
                        NEW j \in 1 .. Len(M[p]), x.child[i] = M[p][j]
                 PROVE  FALSE
      OBVIOUS
    <3>1. From(p) \in Int /\ j \in 1 .. Len(L[From(p)]) /\ x.child[i] = L[From(p)][j] BY <1>4
    <3> QED BY <1>0, <3>1, NotBoth
  <2> QED BY <1>0, <2>1, <2>2 DEF OnePlace
<1>10. Reached(T, M)
  <2> SUFFICES ASSUME NEW C, Closed(T, M, C) PROVE T \subseteq C BY DEF Reached
  <2>1. Closed(T, L, C) BY <1>5 DEF Closed
  <2> QED BY <1>0, <2>1 DEF Reached
<1>11. Ranked(T, M, k)
  <2>1. \A p \in Nat : \A i \in 1 .. Len(M[p]) : k[M[p][i]] = p
    <3> SUFFICES ASSUME NEW p \in Nat, NEW i \in 1 .. Len(M[p]) PROVE k[M[p][i]] = p OBVIOUS
    <3>0. p \in Int OBVIOUS
    <3>1. p # l BY <1>4, <3>0
    <3>2. From(p) = p BY <1>7, <3>1
    <3>3. i \in 1 .. Len(L[p]) /\ M[p][i] = L[p][i] BY <1>4, <3>0, <3>2
    <3> QED BY <1>0, <3>3 DEF Ranked
  <2> QED BY <1>0, <2>1 DEF Ranked
<1> QED BY <1>0, <1>8, <1>9, <1>10, <1>11 DEF Forest

\* cJSON_Delete frees the first item, and its children are next.
Below(h, list) == h.child \o Tail(list)

LEMMA Felled ==
    ASSUME NEW T, NEW D, NEW k, NEW L, NEW H, Forest(T, D, k, L, H),
           NEW z \in Int \ Nat, L[z] # <<>>,
           NEW h, h = L[z][1], NEW M, M = [L EXCEPT ![z] = Below(h, @)]
    PROVE  \E U, m : Forest(U, D, m, M, H \ Blocks(h))
<1> DEFINE U == T \ {h}
           m == [x \in U |-> k[x]]
           c == Len(h.child)
           n == Len(L[z])
<1>0. Shaped(T, D, L) /\ Once(T, H) /\ OnePlace(T, L) /\ Reached(T, L) /\ Ranked(T, L, k)
  BY DEF Forest
<1>1. /\ \A p \in Int : L[p] \in Seq(T)
      /\ \A x \in T : x \in ItemsOver(T, D) /\ x.child \in Seq(T)
  BY <1>0 DEF Shaped, ItemsOver
<1>2. L[z] \in Seq(T) /\ n \in Nat \ {0} /\ h = L[z][1] /\ h \in T /\ 1 \in 1 .. n BY <1>1
<1>3. h.child \in Seq(T) /\ c \in Nat BY <1>1, <1>2
<1> DEFINE new == h.child \o Tail(L[z])
<1>4. M \in [Int -> Seq(T) \cup {new}] /\ M[z] = new /\ \A p \in Int : p # z => M[p] = L[p]
  <2>1. M = [L EXCEPT ![z] = new] BY DEF Below
  <2> HIDE DEF new
  <2> QED BY <1>0, <2>1 DEF Shaped
<1> HIDE DEF c, n
<1>5. /\ M[z] \in Seq(T) /\ Len(M[z]) = c + n - 1
      /\ \A i \in 1 .. c : i \in 1 .. Len(M[z]) /\ M[z][i] = h.child[i]
      /\ \A i \in 2 .. n : c + i - 1 \in 1 .. Len(M[z]) /\ M[z][c + i - 1] = L[z][i]
      /\ \A i \in 1 .. Len(M[z]) : i \notin 1 .. c =>
            i - c + 1 \in 2 .. n /\ M[z][i] = L[z][i - c + 1]
  <2>1. L[z] # <<>> /\ M[z] = h.child \o Tail(L[z]) BY <1>4
  <2> HIDE DEF new
  <2> DEFINE a == h.child
             b == L[z]
             d == M[z]
  <2>2. a \in Seq(T) /\ b \in Seq(T) /\ b # <<>> /\ d = a \o Tail(b) BY <1>2, <1>3, <2>1
  <2> HIDE DEF a, b, d
  <2>3. /\ d \in Seq(T) /\ Len(d) = Len(a) + Len(b) - 1
        /\ \A i \in 1 .. Len(a) : i \in 1 .. Len(d) /\ d[i] = a[i]
        /\ \A i \in 2 .. Len(b) : Len(a) + i - 1 \in 1 .. Len(d) /\ d[Len(a) + i - 1] = b[i]
        /\ \A i \in 1 .. Len(d) : i \notin 1 .. Len(a) =>
              i - Len(a) + 1 \in 2 .. Len(b) /\ d[i] = b[i - Len(a) + 1]
    BY <2>2, Joined
  <2> QED BY <2>3 DEF a, b, c, d, n
<1>6. Blocks(h) \subseteq H /\ Single(h) BY <1>0, <1>2 DEF Once
<1>7. \A x \in T : \A i \in 1 .. Len(x.child) : x.child[i] \in U
  <2> SUFFICES ASSUME NEW x \in T, NEW i \in 1 .. Len(x.child)
               PROVE  x.child[i] \in T /\ x.child[i] # h
    OBVIOUS
  <2>1. x.child[i] \in T BY <1>1
  <2>2. 1 \in 1 .. Len(L[z]) BY <1>2 DEF n
  <2>3. ASSUME x.child[i] = L[z][1] PROVE FALSE BY <1>0, <2>2, <2>3, NotBoth
  <2> QED BY <1>2, <2>1, <2>3
<1>8. \A p \in Int : \A i \in 1 .. Len(L[p]) : (p = z /\ i = 1) \/ L[p][i] \in U
  <2> SUFFICES ASSUME NEW p \in Int, NEW i \in 1 .. Len(L[p]), L[p][i] = h PROVE p = z /\ i = 1
    BY <1>1
  <2>1. 1 \in 1 .. Len(L[z]) /\ L[z][1] = L[p][i] BY <1>2 DEF n
  <2> QED BY <1>0, <2>1 DEF OnePlace
<1> DEFINE Child(p, i) == p = z /\ i \in 1 .. Len(h.child) /\ M[p][i] = h.child[i]
           At1(i) == i - c + 1
<1>9. \A p \in Int : \A i \in 1 .. Len(M[p]) :
        /\ M[p][i] \in U
        /\ \/ Child(p, i)
           \/ \E j \in 1 .. Len(L[p]) : /\ ~(p = z /\ j = 1) /\ M[p][i] = L[p][j]
                                        /\ j = IF p = z THEN At1(i) ELSE i
  <2> SUFFICES ASSUME NEW p \in Int, NEW i \in 1 .. Len(M[p])
               PROVE  /\ M[p][i] \in U
                      /\ \/ Child(p, i)
                         \/ \E j \in 1 .. Len(L[p]) : /\ ~(p = z /\ j = 1) /\ M[p][i] = L[p][j]
                                                      /\ j = IF p = z THEN At1(i) ELSE i
    OBVIOUS
  <2>1. CASE p # z BY <1>4, <1>8, <2>1
  <2>2. CASE p = z /\ i \in 1 .. c BY <1>2, <1>5, <1>7, <2>2 DEF c
  <2>3. CASE p = z /\ i \notin 1 .. c
    <3>1. At1(i) \in 2 .. n /\ M[p][i] = L[z][At1(i)] BY <1>5, <2>3
    <3>2. At1(i) \in 1 .. Len(L[z]) /\ At1(i) # 1 BY <1>2, <3>1 DEF n
    <3> HIDE DEF At1
    <3> QED BY <1>8, <2>3, <3>1, <3>2
  <2> QED BY <2>1, <2>2, <2>3
<1>10. \A i, j \in Int : At1(i) = At1(j) => i = j BY <1>3
<1> HIDE DEF U, Child, At1
<1>11. U \subseteq T /\ h \notin U /\ T \subseteq U \cup {h} BY DEF U
<1>12. Shaped(U, D, M)
  <2>1. \A x \in U : x \in ItemsOver(U, D) BY <1>1, <1>7, <1>11, Retyped
  <2>2. \A p \in Int : M[p] \in Seq(U)
    <3> SUFFICES ASSUME NEW p \in Int PROVE M[p] \in Seq(U) OBVIOUS
    <3>1. M[p] \in Seq(T) BY <1>1, <1>4, <1>5
    <3>2. \A i \in 1 .. Len(M[p]) : M[p][i] \in U BY <1>9
    <3> QED BY <3>1, <3>2, SeqOver
  <2> QED BY <1>4, <2>1, <2>2 DEF Shaped
<1>13. Once(U, H \ Blocks(h)) BY <1>0, <1>2, <1>11 DEF Once
<1>14. OnePlace(U, M)
  <2>1. \A x \in U : \A p \in Int : \A i \in 1 .. Len(x.child), j \in 1 .. Len(M[p]) :
          x.child[i] # M[p][j]
    <3> SUFFICES ASSUME NEW x \in U, NEW p \in Int, NEW i \in 1 .. Len(x.child),
                        NEW j \in 1 .. Len(M[p]), x.child[i] = M[p][j]
                 PROVE  FALSE
      OBVIOUS
    <3>1. x \in T /\ x # h BY <1>11
    <3>2. CASE Child(p, j)
      <4>1. j \in 1 .. Len(h.child) /\ x.child[i] = h.child[j] BY <3>2 DEF Child
      <4> QED BY <1>0, <1>2, <3>1, <4>1, OneParent
    <3>3. CASE \E r \in 1 .. Len(L[p]) : M[p][j] = L[p][r]
      <4>1. PICK r \in 1 .. Len(L[p]) : x.child[i] = L[p][r] BY <3>3
      <4> QED BY <1>0, <3>1, <4>1, NotBoth
    <3> QED BY <1>9, <3>2, <3>3
  <2>2. \A p, q \in Int : \A i \in 1 .. Len(M[p]), j \in 1 .. Len(M[q]) :
          M[p][i] = M[q][j] => p = q /\ i = j
    <3> SUFFICES ASSUME NEW p \in Int, NEW q \in Int, NEW i \in 1 .. Len(M[p]),
                        NEW j \in 1 .. Len(M[q]),
                        M[p][i] = M[q][j]
                 PROVE  p = q /\ i = j
      OBVIOUS
    <3> DEFINE Listed(o, a) == \E r \in 1 .. Len(L[o]) : /\ M[o][a] = L[o][r]
                                                        /\ r = IF o = z THEN At1(a) ELSE a
    <3>1. CASE Child(p, i) /\ Child(q, j)
      <4>1. /\ i \in 1 .. Len(h.child) /\ j \in 1 .. Len(h.child) /\ h.child[i] = h.child[j]
            /\ p = z /\ q = z
        BY <3>1 DEF Child
      <4> QED BY <1>0, <1>2, <4>1, OneParent
    <3>2. CASE Child(p, i) /\ Listed(q, j)
      <4>1. i \in 1 .. Len(h.child) /\ h.child[i] = M[q][j] BY <3>2 DEF Child
      <4>2. PICK s \in 1 .. Len(L[q]) : h.child[i] = L[q][s] BY <3>2, <4>1
      <4>3. OnePlace(T, L) /\ h \in T BY <1>0, <1>2
      <4> HIDE DEF Listed
      <4>4. FALSE BY ONLY <4>1, <4>2, <4>3, p \in Int, q \in Int, NotBoth
      <4> QED BY <4>4
    <3>3. CASE Listed(p, i) /\ Child(q, j)
      <4>1. j \in 1 .. Len(h.child) /\ h.child[j] = M[p][i] BY <3>3 DEF Child
      <4>2. PICK r \in 1 .. Len(L[p]) : h.child[j] = L[p][r] BY <3>3, <4>1
      <4>3. OnePlace(T, L) /\ h \in T BY <1>0, <1>2
      <4> HIDE DEF Listed
      <4>4. FALSE BY ONLY <4>1, <4>2, <4>3, p \in Int, q \in Int, NotBoth
      <4> QED BY <4>4
    <3>4. CASE Listed(p, i) /\ Listed(q, j)
      <4>1. PICK r \in 1 .. Len(L[p]) : M[p][i] = L[p][r] /\ r = IF p = z THEN At1(i) ELSE i BY <3>4
      <4>2. PICK s \in 1 .. Len(L[q]) : M[q][j] = L[q][s] /\ s = IF q = z THEN At1(j) ELSE j BY <3>4
      <4>3. L[p][r] = L[q][s] BY <4>1, <4>2
      <4>4. p = q /\ r = s BY ONLY <1>0, <4>3, p \in Int, q \in Int, r \in 1 .. Len(L[p]),
                                       s \in 1 .. Len(L[q])
            DEF OnePlace
      <4>5. i \in Int /\ j \in Int OBVIOUS
      <4> QED BY <1>10, <4>1, <4>2, <4>4, <4>5
    <3>5. (Child(p, i) \/ Listed(p, i)) /\ (Child(q, j) \/ Listed(q, j)) BY <1>9
    <3> HIDE DEF Listed
    <3> QED BY <3>1, <3>2, <3>3, <3>4, <3>5
  <2> QED BY <1>0, <1>11, <2>1, <2>2, ZenonT(60) DEF OnePlace
<1>15. Reached(U, M)
  <2> SUFFICES ASSUME NEW C, Closed(U, M, C) PROVE U \subseteq C BY DEF Reached
  <2>1. \A p \in Int : \A i \in 1 .. Len(L[p]) : L[p][i] \in C \cup {h}
    <3> SUFFICES ASSUME NEW p \in Int, NEW i \in 1 .. Len(L[p]) PROVE L[p][i] \in C \cup {h} OBVIOUS
    <3>1. CASE p # z BY <1>4, <3>1 DEF Closed
    <3>2. CASE p = z /\ i = 1 BY <1>2, <3>2
    <3>3. CASE p = z /\ i # 1
      <4>1. i \in 2 .. n BY <1>2, <3>3 DEF n
      <4>2. c + i - 1 \in 1 .. Len(M[z]) /\ M[z][c + i - 1] = L[z][i] BY <1>5, <4>1
      <4> QED BY <3>3, <4>2 DEF Closed
    <3> QED BY <3>1, <3>2, <3>3
  <2>2. \A i \in 1 .. Len(h.child) : h.child[i] \in C BY <1>5 DEF Closed, c
  <2>3. \A x \in T : x \in C \cup {h} => \A i \in 1 .. Len(x.child) : x.child[i] \in C \cup {h}
    BY <1>11, <2>2 DEF Closed
  <2>4. T \subseteq C \cup {h} BY <1>0, <2>1, <2>3 DEF Closed, Reached
  <2> QED BY <1>11, <2>4
<1>16. Ranked(U, M, m)
  <2>1. m \in [U -> 0 .. NestingLimit] /\ \A x \in U : m[x] = k[x] BY <1>0, <1>11 DEF Ranked
  <2> HIDE DEF m
  <2>2. \A x \in U : \A i \in 1 .. Len(x.child) : m[x.child[i]] = m[x] + 1
    BY <1>0, <1>7, <1>11, <2>1 DEF Ranked
  <2>3. \A p \in Nat : \A i \in 1 .. Len(M[p]) : m[M[p][i]] = p
    <3> SUFFICES ASSUME NEW p \in Nat, NEW i \in 1 .. Len(M[p]) PROVE m[M[p][i]] = p OBVIOUS
    <3>1. p \in Int /\ p # z OBVIOUS
    <3>2. M[p] = L[p] /\ M[p][i] \in U BY <1>4, <1>9, <3>1
    <3> QED BY <1>0, <2>1, <3>2 DEF Ranked
  <2> QED BY <2>1, <2>2, <2>3 DEF Ranked
<1> QED BY <1>12, <1>13, <1>14, <1>15, <1>16 DEF Forest

-----------------------------------------------------------------------------
(* The parser's items as such a forest.                                    *)

Rooted == pc \notin {"start", "failed"}
Held == [l \in Int |-> IF l = -1 THEN doomed
                       ELSE IF l = 0 THEN (IF Rooted THEN <<root>> ELSE <<>>)
                       ELSE IF l \in 1 .. Len(stack) THEN stack[l].list ELSE <<>>]
Memory == \E T, D, k : Forest(T, D, k, Held, heap)
\* malloc returns what is not allocated.
Fresh == fate = "ok" /\ fresh \in Nat \ {0} /\ \A b \in heap : b < fresh
\* The items that wait for the list above to become their child.
Chain == \A l \in 0 .. Len(stack) - 1 : Held[l] # <<>> /\ Held[l][Len(Held[l])].child = <<>>
\* What a step of the parser relies on.
Waiting ==
    /\ pc \notin {"fail", "failed"} => doomed = <<>>
    /\ pc \in {"start", "done", "failed"} => stack = <<>>
    /\ pc \in {"value", "item", "name", "string", "after"} => Chain
    /\ pc \in {"value", "name", "string", "after"} => Held[Len(stack)] # <<>>
    /\ pc \in {"value", "name", "string"} => Current.child = <<>> /\ Current.value = NoString
    /\ pc = "name" => Current.name = NoString
Memorised == Memory /\ Fresh /\ Waiting
MemInv == ParserInv /\ Memorised

LEMMA HeldFacts ==
    ASSUME ParserInv
    PROVE  /\ Len(stack) \in 0 .. NestingLimit /\ Len(stack) \in Nat
           /\ stack = <<>> <=> Len(stack) = 0
           /\ DOMAIN Held = Int /\ Held[-1] = doomed /\ Held[-2] = <<>>
           /\ \A l \in 1 .. Len(stack) : Held[l] = stack[l].list
           /\ Rooted => Held[0] = <<root>>
           /\ ~Rooted => Held[0] = <<>>
           /\ \A l \in Nat : l > Len(stack) => Held[l] = <<>>
<1>1. PICK L : stack \in Seq([kind : Kinds, list : L]) BY DEF ParserInv, Nested, IsStack
<1>2. Len(stack) \in Nat /\ (stack = <<>> <=> Len(stack) = 0) BY <1>1
<1>3. Len(stack) <= NestingLimit /\ NestingLimit \in Nat BY ParserAssumption DEF ParserInv, Nested
<1> QED BY <1>2, <1>3 DEF Held

LEMMA CurrentIs ==
    ASSUME ParserInv, Rooted
    PROVE  Current = Held[Len(stack)][Len(Held[Len(stack)])]
<1>1. CASE stack = <<>>
  <2>1. Len(stack) = 0 /\ Held[0] = <<root>> BY <1>1, HeldFacts
  <2> QED BY <1>1, <2>1 DEF Current
<1>2. CASE stack # <<>>
  <2>1. Len(stack) \in 1 .. Len(stack) BY <1>2, HeldFacts
  <2>2. Held[Len(stack)] = Top.list BY <2>1, HeldFacts DEF Top
  <2> QED BY <1>2, <2>2 DEF Current
<1> QED BY <1>1, <1>2

\* parse_value fills the last item of the innermost list.
LEMMA FillHeld ==
    ASSUME ParserInv, Rooted, Rooted', NEW item, Fill(item), UNCHANGED doomed
    PROVE  /\ Held' = [Held EXCEPT ![-2] = <<>>, ![Len(stack)] = [@ EXCEPT ![Len(@)] = item]]
           /\ Len(stack') = Len(stack)
<1> DEFINE n == Len(stack)
           new == [Held[n] EXCEPT ![Len(Held[n])] = item]
<1>0. n \in Nat /\ Held[-2] = <<>> /\ n \in Int BY HeldFacts
<1>1. Held' = [l \in Int |-> IF l = n THEN new ELSE Held[l]] /\ Len(stack') = n
  <2>1. CASE stack = <<>>
    <3>1. n = 0 /\ stack' = <<>> /\ root' = item /\ Held[0] = <<root>> BY <2>1, HeldFacts DEF Fill
    <3>2. new = <<item>> BY <3>1
    <3> HIDE DEF n, new
    <3> QED BY <3>1, <3>2, <2>1 DEF Held
  <2>2. CASE stack # <<>>
    <3>1. n \in 1 .. n /\ n # 0 /\ n # -1 BY <2>2, HeldFacts
    <3>2. Held[n] = stack[n].list BY <3>1, HeldFacts
    <3>3. stack' = [stack EXCEPT ![n].list = new] /\ root' = root BY <2>2, <3>2 DEF Fill, SetLast
    <3> HIDE DEF new
    <3>4. PICK L : stack \in Seq([kind : Kinds, list : L]) BY DEF ParserInv, Nested, IsStack
    <3>5. stack[n] \in [kind : Kinds, list : L] BY <3>1, <3>4, SeqElements
    <3>6. /\ Len(stack') = n /\ stack'[n].list = new
          /\ \A i \in 1 .. n : i # n => stack'[i] = stack[i]
      BY <3>1, <3>3, <3>4, <3>5
    <3>7. ASSUME NEW l \in Int PROVE Held'[l] = IF l = n THEN new ELSE Held[l]
      <4>1. CASE l = n BY <3>1, <3>6, <4>1 DEF Held
      <4>2. CASE l \in 1 .. n /\ l # n
        <5>1. stack'[l] = stack[l] BY <3>6, <4>2
        <5> QED BY <3>6, <4>2, <5>1 DEF Held
      <4>3. CASE l \notin 1 .. n BY <3>1, <3>3, <3>6, <4>3 DEF Held
      <4> QED BY <4>1, <4>2, <4>3
    <3>8. Held' = [l \in Int |-> Held'[l]] BY DEF Held
    <3> QED BY <3>6, <3>7, <3>8
  <2> QED BY <2>1, <2>2
<1>2. Held = [l \in Int |-> Held[l]] BY DEF Held
<1> HIDE DEF new
<1>3. [Held EXCEPT ![-2] = <<>>, ![n] = new] = [l \in Int |-> IF l = n THEN new ELSE Held[l]]
  <2> DEFINE one == [Held EXCEPT ![-2] = <<>>]
  <2>1. one = Held BY <1>0, <1>2
  <2> QED BY <1>0, <1>2, <2>1
<1> QED BY <1>1, <1>3, <1>0 DEF new

\* A step that neither moves an item nor allocates.
LEMMA HeldStays ==
    ASSUME Memory, UNCHANGED <<root, stack, doomed, heap>>, Rooted' = Rooted
    PROVE  Held' = Held /\ Memory'
<1>1. Held' = Held BY DEF Held
<1>2. PICK T, D, k : Forest(T, D, k, Held, heap) BY DEF Memory
<1>3. Forest(T, D, k, Held', heap') BY <1>1, <1>2
<1> QED BY <1>1, <1>3 DEF Memory

LEMMA InitMemory == Init => Memorised
<1> SUFFICES ASSUME Init PROVE Memorised OBVIOUS
<1> USE DEF Init
<1>1. \A l \in Int : Held[l] = <<>> BY DEF Held, Rooted
<1>2. Held \in [Int -> Seq({})] BY <1>1 DEF Held
<1>3. \A l \in Int : \A i \in 1 .. Len(Held[l]) : FALSE BY <1>1
<1>4. Forest({}, {}, [x \in {} |-> 0], Held, heap)
  BY <1>2, <1>3 DEF Forest, Shaped, Once, OnePlace, Reached, Ranked
<1>5. Memory BY <1>4 DEF Memory
<1> QED BY <1>5 DEF Memorised, Fresh, Waiting

\* The item that is being parsed.
LEMMA CurrentItem ==
    ASSUME MemInv, pc \in {"value", "name", "string", "after"}, NEW T, NEW D, NEW k,
           Forest(T, D, k, Held, heap)
    PROVE  /\ Current \in T /\ Current \in ItemsOver(T, D)
           /\ Blocks(Current) \subseteq heap /\ Single(Current)
<1>1. Current = Held[Len(stack)][Len(Held[Len(stack)])] /\ Held[Len(stack)] # <<>>
  BY CurrentIs DEF MemInv, Memorised, Waiting, Rooted
<1>2. Len(stack) \in Int BY HeldFacts DEF MemInv
<1>3. Held[Len(stack)] \in Seq(T) BY <1>2 DEF Forest, Shaped
<1>4. Current \in T BY <1>1, <1>3
<1> QED BY <1>4 DEF Forest, Shaped, Once

LEMMA CurrentFields ==
    ASSUME MemInv, pc \in {"value", "name", "string", "after"}
    PROVE  /\ Current = [block |-> Current.block, type |-> Current.type,
                         name |-> [block |-> Current.name.block, bytes |-> Current.name.bytes],
                         value |-> [block |-> Current.value.block, bytes |-> Current.value.bytes],
                         number |-> Current.number, child |-> Current.child]
           /\ Current.block \in Nat \ {0}
           /\ Current.name.block \in Nat /\ Current.value.block \in Nat
           /\ Blocks(Current) \subseteq heap /\ Single(Current)
<1>1. PICK T, D, k : Forest(T, D, k, Held, heap) BY DEF MemInv, Memorised, Memory
<1>2. Current \in ItemsOver(T, D) /\ Blocks(Current) \subseteq heap /\ Single(Current)
  BY <1>1, CurrentItem
<1>3. /\ Current.name = [block |-> Current.name.block, bytes |-> Current.name.bytes]
      /\ Current.value = [block |-> Current.value.block, bytes |-> Current.value.bytes]
      /\ Current.block \in Nat \ {0} /\ Current.name.block \in Nat /\ Current.value.block \in Nat
  BY <1>2 DEF ItemsOver
<1>4. Current = [block |-> Current.block, type |-> Current.type, name |-> Current.name,
                 value |-> Current.value, number |-> Current.number, child |-> Current.child]
  BY <1>2 DEF ItemsOver
<1> QED BY <1>2, <1>3, <1>4

\* Current is filled, with A as the blocks that it gets.
LEMMA Fills ==
    ASSUME MemInv, pc \in {"value", "name", "string"}, Rooted', UNCHANGED doomed,
           NEW item, Fill(item), NEW ty, NEW nu, NEW nb \in Nat, NEW ns, NEW vb \in Nat, NEW vs,
           item = [block |-> Current.block, type |-> ty, name |-> [block |-> nb, bytes |-> ns],
                   value |-> [block |-> vb, bytes |-> vs], number |-> nu, child |-> <<>>],
           NEW A, A \cap heap = {}, heap' = heap \cup A, Blocks(item) = Blocks(Current) \cup A,
           Single(item)
    PROVE  /\ Memory' /\ Chain' /\ Held'[Len(stack')] # <<>>
           /\ Held'[Len(stack')][Len(Held'[Len(stack')])] = item
<1> DEFINE n == Len(stack)
           c == Current
<1>0. ParserInv /\ Rooted BY DEF MemInv, Rooted
<1>1. n \in 0 .. NestingLimit /\ n \in Int /\ n \in Nat /\ Held[-2] = <<>> /\ DOMAIN Held = Int
  BY <1>0, HeldFacts
<1>2. /\ Held' = [Held EXCEPT ![-2] = <<>>, ![n] = [@ EXCEPT ![Len(@)] = item]]
      /\ Len(stack') = n
  BY <1>0, FillHeld
<1>3. Held[n] # <<>> /\ c = Held[n][Len(Held[n])] /\ c.child = <<>>
  BY <1>0, CurrentIs DEF MemInv, Memorised, Waiting
<1>4. PICK T, D, k : Forest(T, D, k, Held, heap) BY DEF MemInv, Memorised, Memory
<1>5. c \in ItemsOver(T, D) BY <1>4, CurrentItem
<1> DEFINE E == D \cup {ty, nu, ns, vs}
<1>6. D \subseteq E /\ ty \in E /\ nu \in E /\ ns \in E /\ vs \in E OBVIOUS
<1> HIDE DEF E, n, c
<1>7. item \in ItemsOver(T, E) /\ item.block = c.block /\ item.child = Held[-2]
  <2>1. c.block \in Nat \ {0} BY <1>5 DEF ItemsOver
  <2>2. <<>> \in Seq(T) OBVIOUS
  <2>3. item.block = c.block /\ item.child = <<>> BY DEF c
  <2> QED BY <1>1, <1>6, <2>1, <2>2, <2>3 DEF ItemsOver, c
<1>8. Blocks(item) = Blocks(c) \cup A BY DEF c
<1>9. \E U, m : Forest(U, E, m, Held', heap \cup A)
  <2> DEFINE t == -2
  <2>1. t \in Int /\ t # n /\ Held[t] = <<>> /\ item.child = Held[t] BY <1>1, <1>7
  <2>2. Held' = [Held EXCEPT ![t] = <<>>, ![n] = [@ EXCEPT ![Len(@)] = item]] BY <1>2
  <2> HIDE DEF t
  <2> QED BY <1>1, <1>3, <1>4, <1>6, <1>7, <1>8, <2>1, <2>2, Grown, ZenonT(60)
<1>10. Memory' BY <1>9 DEF Memory
<1>11. Held[n] \in Seq(T) BY <1>1, <1>4 DEF Forest, Shaped
<1>12. /\ Held'[n] = [Held[n] EXCEPT ![Len(Held[n])] = item]
       /\ \A l \in Int : l # n => Held'[l] = Held[l]
  <2> DEFINE new == [Held[n] EXCEPT ![Len(Held[n])] = item]
  <2>1. Held' = [Held EXCEPT ![-2] = <<>>, ![n] = new] BY <1>2
  <2> HIDE DEF new
  <2>2. Held'[n] = new /\ \A l \in Int : l # n => Held'[l] = Held[l] BY <1>1, <2>1
  <2> QED BY <2>2 DEF new
<1>13. Held'[n] # <<>> /\ Held'[n][Len(Held'[n])] = item
  <2>1. Len(Held[n]) \in 1 .. Len(Held[n]) BY <1>3, <1>11
  <2>2. Len(Held'[n]) = Len(Held[n]) /\ Held'[n][Len(Held[n])] = item BY <1>11, <1>12, <2>1
  <2> QED BY <2>1, <2>2
<1>14. Chain'
  <2>1. \A l \in 0 .. n - 1 : l \in Int /\ l # n BY <1>1
  <2>2. Chain BY DEF MemInv, Memorised, Waiting
  <2> QED BY <1>2, <1>12, <2>1, <2>2 DEF Chain, n
<1> QED BY <1>2, <1>10, <1>13, <1>14 DEF n

\* It ends at "after", at the value of a name, or where the colon is missing.
LEMMA FillsOn ==
    ASSUME MemInv, ParserInv', Memory', Fresh', Chain', Held'[Len(stack')] # <<>>, doomed' = <<>>,
           pc' \in {"after", "value", "fail"},
           pc' = "value" => LET i == Held'[Len(stack')][Len(Held'[Len(stack')])]
                            IN i.child = <<>> /\ i.value = NoString
    PROVE  Memorised'
<1>1. (ParserInv /\ Rooted => Current = Held[Len(stack)][Len(Held[Len(stack)])])'
      BY CurrentIs, PTL
<1>2. Rooted' BY DEF Rooted
<1>3. Current' = Held'[Len(stack')][Len(Held'[Len(stack')])] BY <1>1, <1>2
<1> QED BY <1>3 DEF Memorised, Waiting

\* malloc, and cJSON_New_Item.
LEMMA FreshGrows == ASSUME Fresh, Heap, Malloc, UNCHANGED fate PROVE Fresh'
<1>1. fresh' \in Nat \ {0} /\ fresh < fresh' BY DEF Fresh, Malloc
<1>2. ASSUME NEW b \in heap' PROVE b < fresh'
  <2>1. CASE b = fresh BY <2>1, <1>1
  <2>2. CASE b \in heap
    <3>1. b < fresh BY <2>2 DEF Fresh
    <3>2. fresh' = fresh + 1 /\ fresh \in Nat BY DEF Fresh, Malloc
    <3>3. b \in Nat BY <2>2 DEF Heap
    <3> QED BY <3>1, <3>2, <3>3
  <2> QED BY <2>1, <2>2 DEF Malloc
<1> QED BY <1>1, <1>2 DEF Fresh

LEMMA NewItems ==
    ASSUME Fresh, NEW D, NEW E, E = D \cup {"Invalid", <<>>, 0}, NEW new, new = NewItem(fresh)
    PROVE  /\ new \in ItemsOver({}, E) /\ new.child = <<>> /\ new.value = NoString
           /\ new.name = NoString /\ Single(new)
           /\ Blocks(new) = {fresh} /\ Blocks(new) \cap heap = {}
<1>1. fresh \in Nat \ {0} /\ fresh \notin heap BY DEF Fresh
<1>2. /\ new.block = fresh /\ new.child = <<>> /\ new.name = NoString /\ new.value = NoString
      /\ NoString.block = 0
  BY DEF NewItem, NoString
<1>3. <<>> \in Seq({}) /\ "Invalid" \in E /\ <<>> \in E /\ 0 \in E OBVIOUS
<1>4. new \in ItemsOver({}, E) BY <1>1, <1>3 DEF NewItem, NoString, ItemsOver
<1>5. Blocks(new) = {fresh} BY <1>1, <1>2 DEF Blocks
<1> QED BY <1>1, <1>2, <1>4, <1>5 DEF Single

LEMMA StartRemembers == ASSUME MemInv, ParserInv', cJSON_Parse PROVE Memorised'
<1> DEFINE new == NewItem(fresh)
<1>1. /\ pc = "start" /\ doomed = <<>> /\ doomed' = <<>> /\ stack = <<>> /\ stack' = <<>>
      /\ root' = new /\ heap' = heap \cup {fresh} /\ pc' = "value"
  BY DEF cJSON_Parse, At, Goto, Malloc, MemInv, Memorised, Waiting
<1>2. PICK T, D, k : Forest(T, D, k, Held, heap) BY DEF MemInv, Memorised, Memory
<1> DEFINE E == D \cup {"Invalid", <<>>, 0}
<1>3. /\ new \in ItemsOver({}, E) /\ new.child = <<>> /\ new.value = NoString
      /\ new.name = NoString /\ Single(new)
      /\ Blocks(new) = {fresh} /\ Blocks(new) \cap heap = {}
  BY NewItems DEF MemInv, Memorised
<1>4. D \subseteq E OBVIOUS
<1> HIDE DEF new, E
<1>5. ParserInv /\ ~Rooted /\ Rooted' BY <1>1 DEF MemInv, Rooted
<1>6. Held[0] = <<>> BY <1>5, HeldFacts
<1>7. Held' = [Held EXCEPT ![0] = Append(@, new)]
  <2>1. Append(Held[0], new) = <<new>> BY <1>6
  <2>2. Held' = [l \in Int |-> IF l = 0 THEN <<new>> ELSE Held[l]]
    BY <1>1, <1>5 DEF Held
  <2>3. Held = [l \in Int |-> Held[l]] BY DEF Held
  <2> QED BY <2>1, <2>2, <2>3
<1>8. 0 \in 0 .. NestingLimit BY ParserAssumption
<1>9. \E U, m : Forest(U, E, m, Held', heap \cup Blocks(new))
  BY <1>2, <1>3, <1>4, <1>7, <1>8, Planted
<1>10. Memory' BY <1>1, <1>3, <1>9 DEF Memory
<1>11. Fresh' BY FreshGrows DEF cJSON_Parse, MemInv, Memorised, ParserInv
<1>12. Held'[0] # <<>> /\ Len(stack') = 0 /\ Chain' /\ Current' = new
  <2>1. Held'[0] = <<new>> BY <1>1, <1>5 DEF Held
  <2>2. Len(stack') = 0 BY <1>1
  <2> QED BY <1>1, <2>1, <2>2 DEF Chain, Current
<1> QED BY <1>1, <1>3, <1>10, <1>11, <1>12 DEF Memorised, Waiting

\* A value without memory of its own.
LEMMA PlainRemembers ==
    ASSUME MemInv, ParserInv', pc = "value", doomed = <<>>, pc' = "after",
           NEW ty, NEW nu, NEW item, Fill(item),
           item = [Current EXCEPT !.type = ty, !.number = nu],
           UNCHANGED <<heap, fresh, doomed, fate>>
    PROVE  Memorised'
<1> DEFINE c == Current
<1>1. /\ c = [block |-> c.block, type |-> c.type,
              name |-> [block |-> c.name.block, bytes |-> c.name.bytes],
              value |-> [block |-> c.value.block, bytes |-> c.value.bytes],
              number |-> c.number, child |-> c.child]
      /\ c.name.block \in Nat /\ c.value.block \in Nat /\ Single(c)
  BY CurrentFields
<1>2. c.child = <<>> BY DEF MemInv, Memorised, Waiting
<1>3. item = [c EXCEPT !.type = ty, !.number = nu] OBVIOUS
<1> HIDE DEF c
<1> DEFINE nb == c.name.block
           ns == c.name.bytes
           vb == c.value.block
           vs == c.value.bytes
<1>4. /\ item = [block |-> c.block, type |-> ty, name |-> [block |-> nb, bytes |-> ns],
                 value |-> [block |-> vb, bytes |-> vs], number |-> nu, child |-> <<>>]
      /\ nb \in Nat /\ vb \in Nat
  <2>1. PICK b, t, n1, n2, v1, v2, w, x : c = [block |-> b, type |-> t,
           name |-> [block |-> n1, bytes |-> n2], value |-> [block |-> v1, bytes |-> v2],
           number |-> w, child |-> x]
    BY <1>1
  <2> QED BY <1>1, <1>2, <1>3, <2>1
<1>5. Blocks(item) = Blocks(c) \cup {} /\ Single(item)
  <2>1. item.block = c.block /\ item.name = c.name /\ item.value = c.value BY <1>1, <1>3
  <2> HIDE DEF c
  <2> QED BY <1>1, <2>1 DEF Blocks, Single
<1> HIDE DEF nb, ns, vb, vs
<1>6. Rooted' /\ {} \cap heap = {} /\ heap' = heap \cup {} BY DEF Rooted
<1>7. /\ item = [block |-> Current.block, type |-> ty, name |-> [block |-> nb, bytes |-> ns],
                 value |-> [block |-> vb, bytes |-> vs], number |-> nu, child |-> <<>>]
      /\ Blocks(item) = Blocks(Current) \cup {}
  BY <1>4, <1>5 DEF c
<1>8. Memory' /\ Chain' /\ Held'[Len(stack')] # <<>>
  BY <1>4, <1>5, <1>6, <1>7, Fills
<1>9. Fresh' BY DEF Fresh, MemInv, Memorised
<1> QED BY <1>8, <1>9, FillsOn

LEMMA LiteralRemembers == ASSUME MemInv, ParserInv', ParseLiteral PROVE Memorised'
<1>1. PICK l : Fill([Current EXCEPT !.type = l]) /\ UNCHANGED <<heap, fresh, doomed, fate>>
               /\ pc = "value" /\ doomed = <<>> /\ pc' = "after"
  BY DEF ParseLiteral, Return, At, Goto
<1>2. [Current EXCEPT !.type = l] = [Current EXCEPT !.type = l, !.number = Current.number]
  BY <1>1, CurrentFields
<1> QED BY <1>1, <1>2, PlainRemembers

LEMMA NumberRemembers == ASSUME MemInv, ParserInv', parse_number PROVE Memorised'
<1>1. PICK v : /\ Fill([Current EXCEPT !.type = "Number", !.number = v])
               /\ UNCHANGED <<heap, fresh, doomed, fate>>
               /\ pc = "value" /\ doomed = <<>> /\ pc' = "after"
  BY DEF parse_number, Return, At, Goto
<1> QED BY <1>1, PlainRemembers

LEMMA EmptyRemembers ==
    ASSUME MemInv, ParserInv', NEW k \in Kinds, ParseEmpty(k) PROVE Memorised'
<1>1. Fill([Current EXCEPT !.type = k]) /\ UNCHANGED <<heap, fresh, doomed, fate>>
      /\ pc = "value" /\ doomed = <<>> /\ pc' = "after"
  BY DEF ParseEmpty, At, Goto
<1>2. [Current EXCEPT !.type = k] = [Current EXCEPT !.type = k, !.number = Current.number]
  BY <1>1, CurrentFields
<1> QED BY <1>1, <1>2, PlainRemembers

\* A string takes the block that parse_string has allocated.
LEMMA StringRemembers == ASSUME MemInv, ParserInv', StringParsed PROVE Memorised'
<1> DEFINE c == Current
           vs == Parsed.bytes
           item == [c EXCEPT !.type = "String", !.value = Parsed]
<1>1. /\ Fill(item) /\ pc = "string" /\ doomed = <<>> /\ doomed' = <<>> /\ pc' = "after"
      /\ heap' = heap \cup {fresh} /\ Parsed = [block |-> fresh, bytes |-> vs]
  BY DEF StringParsed, At, Goto, Malloc, Parsed
<1>2. fresh \in Nat \ {0} /\ fresh \notin heap BY DEF MemInv, Memorised, Fresh
<1>3. /\ c = [block |-> c.block, type |-> c.type,
              name |-> [block |-> c.name.block, bytes |-> c.name.bytes],
              value |-> [block |-> c.value.block, bytes |-> c.value.bytes],
              number |-> c.number, child |-> c.child]
      /\ c.name.block \in Nat /\ c.block \in Nat \ {0} /\ Single(c) /\ Blocks(c) \subseteq heap
  BY <1>1, CurrentFields
<1>4. c.child = <<>> /\ c.value.block = 0
  BY <1>1 DEF MemInv, Memorised, Waiting, NoString
<1>5. item = [c EXCEPT !.type = "String", !.value = Parsed] OBVIOUS
<1> HIDE DEF c, item, vs
<1>6. item = [block |-> c.block, type |-> "String",
              name |-> [block |-> c.name.block, bytes |-> c.name.bytes],
              value |-> [block |-> fresh, bytes |-> vs], number |-> c.number, child |-> <<>>]
  <2>1. PICK b, t, n1, n2, v1, v2, w, x : c = [block |-> b, type |-> t,
           name |-> [block |-> n1, bytes |-> n2], value |-> [block |-> v1, bytes |-> v2],
           number |-> w, child |-> x]
    BY <1>3
  <2> QED BY <1>1, <1>4, <1>5, <2>1
<1>7. /\ item.block = c.block /\ item.name = c.name /\ item.value.block = fresh BY <1>3, <1>6
<1>8. Blocks(item) = Blocks(c) \cup {fresh} /\ Single(item)
  <2>1. c.block # fresh /\ (c.name.block # 0 => c.name.block # fresh)
    BY <1>2, <1>3 DEF Blocks
  <2> QED BY <1>2, <1>3, <1>4, <1>7, <2>1 DEF Blocks, Single
<1> DEFINE nb == c.name.block
           ns == c.name.bytes
           nu == c.number
<1>9. /\ item = [block |-> Current.block, type |-> "String", name |-> [block |-> nb, bytes |-> ns],
                 value |-> [block |-> fresh, bytes |-> vs], number |-> nu, child |-> <<>>]
      /\ nb \in Nat /\ Blocks(item) = Blocks(Current) \cup {fresh}
  BY <1>3, <1>6, <1>8 DEF c
<1> HIDE DEF nb, ns, nu
<1>10. Rooted' /\ {fresh} \cap heap = {} /\ fresh \in Nat BY <1>1, <1>2 DEF Rooted
<1>11. Memory' /\ Chain' /\ Held'[Len(stack')] # <<>>
  BY <1>1, <1>8, <1>9, <1>10, Fills
<1>12. Fresh' BY FreshGrows DEF StringParsed, MemInv, Memorised, ParserInv
<1> QED BY <1>1, <1>11, <1>12, FillsOn

LEMMA NameRemembers == ASSUME MemInv, ParserInv', NameParsed PROVE Memorised'
<1> DEFINE c == Current
           ns == Parsed.bytes
           item == [c EXCEPT !.type = "String", !.name = Parsed, !.value = NoString]
<1>1. /\ Fill(item) /\ pc = "name" /\ doomed = <<>> /\ doomed' = <<>> /\ pc' \in {"value", "fail"}
      /\ heap' = heap \cup {fresh} /\ Parsed = [block |-> fresh, bytes |-> ns]
  BY DEF NameParsed, SwapName, At, Goto, Malloc, Parsed
<1>2. fresh \in Nat \ {0} /\ fresh \notin heap BY DEF MemInv, Memorised, Fresh
<1>3. /\ c = [block |-> c.block, type |-> c.type,
              name |-> [block |-> c.name.block, bytes |-> c.name.bytes],
              value |-> [block |-> c.value.block, bytes |-> c.value.bytes],
              number |-> c.number, child |-> c.child]
      /\ c.block \in Nat \ {0} /\ Single(c) /\ Blocks(c) \subseteq heap
  BY <1>1, CurrentFields
<1>4. c.child = <<>> /\ c.value.block = 0 /\ c.name.block = 0
  BY <1>1 DEF MemInv, Memorised, Waiting, NoString
<1>5. item = [c EXCEPT !.type = "String", !.name = Parsed, !.value = NoString] OBVIOUS
<1> HIDE DEF c, item, ns
<1>6. item = [block |-> c.block, type |-> "String", name |-> [block |-> fresh, bytes |-> ns],
              value |-> [block |-> 0, bytes |-> <<>>], number |-> c.number, child |-> <<>>]
  <2>1. PICK b, t, n1, n2, v1, v2, w, x : c = [block |-> b, type |-> t,
           name |-> [block |-> n1, bytes |-> n2], value |-> [block |-> v1, bytes |-> v2],
           number |-> w, child |-> x]
    BY <1>3
  <2> QED BY <1>1, <1>4, <1>5, <2>1 DEF NoString
<1>7. item.block = c.block /\ item.name.block = fresh /\ item.value.block = 0 BY <1>6
<1>8. Blocks(item) = Blocks(c) \cup {fresh} /\ Single(item)
  <2>1. c.block # fresh BY <1>2, <1>3 DEF Blocks
  <2> QED BY <1>2, <1>3, <1>4, <1>7, <2>1 DEF Blocks, Single
<1> DEFINE nu == c.number
           vs == <<>>
<1>9. /\ item = [block |-> Current.block, type |-> "String",
                 name |-> [block |-> fresh, bytes |-> ns],
                 value |-> [block |-> 0, bytes |-> vs], number |-> nu, child |-> <<>>]
      /\ Blocks(item) = Blocks(Current) \cup {fresh}
  BY <1>6, <1>8 DEF c
<1> HIDE DEF nu, vs
<1>10. Rooted' /\ {fresh} \cap heap = {} /\ fresh \in Nat /\ 0 \in Nat BY <1>1, <1>2 DEF Rooted
<1>11. /\ Memory' /\ Chain' /\ Held'[Len(stack')] # <<>>
       /\ Held'[Len(stack')][Len(Held'[Len(stack')])] = item
  BY <1>1, <1>8, <1>9, <1>10, Fills
<1>12. Fresh' BY FreshGrows DEF NameParsed, SwapName, MemInv, Memorised, ParserInv
<1>13. item.child = <<>> /\ item.value = NoString BY <1>6 DEF NoString
<1> QED BY <1>1, <1>11, <1>12, <1>13, FillsOn

\* parse_array and parse_object begin with an empty list.
LEMMA ListRemembers ==
    ASSUME MemInv, ParserInv', NEW k \in Kinds, ParseList(k) PROVE Memorised'
<1> DEFINE n == Len(stack)
           e == [kind |-> k, list |-> <<>>]
<1>1. /\ pc = "value" /\ doomed = <<>> /\ pc' = "item" /\ stack' = Append(stack, e)
      /\ UNCHANGED <<root, heap, fresh, doomed, fate>>
  BY DEF ParseList, BeginList, At, Goto
<1>2. PICK S : stack \in Seq([kind : Kinds, list : S]) BY DEF MemInv, ParserInv, Nested, IsStack
<1>3. e.list = <<>> OBVIOUS
<1> HIDE DEF e
<1>4. /\ n \in Nat /\ Len(stack') = n + 1 /\ stack'[n + 1] = e
      /\ \A i \in 1 .. n : stack'[i] = stack[i]
  BY <1>1, <1>2
<1>5. ParserInv /\ Rooted /\ Rooted' BY <1>1 DEF MemInv, Rooted
<1>6. Held' = Held
  <2>1. ASSUME NEW l \in Int PROVE Held'[l] = Held[l]
    <3>1. CASE l = n + 1
      <4>1. Held[l] = <<>> BY <1>4, <1>5, <3>1, HeldFacts
      <4>2. l \in 1 .. Len(stack') /\ l # 0 /\ l # -1 BY <1>4, <3>1
      <4>3. Held'[l] = stack'[l].list BY <4>2 DEF Held
      <4> QED BY <1>3, <1>4, <3>1, <4>1, <4>3
    <3>2. CASE l # n + 1
      <4>1. l \in 1 .. n <=> l \in 1 .. Len(stack') BY <1>4, <3>2
      <4> QED BY <1>1, <1>4, <1>5, <4>1 DEF Held
    <3> QED BY <3>1, <3>2
  <2>2. Held' = [l \in Int |-> Held'[l]] /\ Held = [l \in Int |-> Held[l]] BY DEF Held
  <2> QED BY <2>1, <2>2
<1>7. Memory' BY <1>1, <1>6 DEF MemInv, Memorised, Memory
<1>8. Fresh' BY <1>1 DEF MemInv, Memorised, Fresh
<1>9. Chain'
  <2>1. Held[n] # <<>> /\ Held[n][Len(Held[n])].child = <<>>
    BY <1>1, <1>5, CurrentIs DEF MemInv, Memorised, Waiting
  <2>2. \A l \in 0 .. Len(stack') - 1 : l = n \/ l \in 0 .. n - 1 BY <1>4
  <2>3. Chain BY <1>1 DEF MemInv, Memorised, Waiting
  <2> QED BY <1>6, <2>1, <2>2, <2>3 DEF Chain
<1> QED BY <1>1, <1>7, <1>8, <1>9 DEF Memorised, Waiting

\* The next item of the innermost list.
LEMMA NextItemRemembers == ASSUME MemInv, ParserInv', NextItem PROVE Memorised'
<1> DEFINE n == Len(stack)
           new == NewItem(fresh)
           m == Append(stack[n].list, new)
<1>1. /\ pc = "item" /\ doomed = <<>> /\ pc' \in {"value", "name"}
      /\ stack' = [stack EXCEPT ![n].list = m]
      /\ heap' = heap \cup {fresh} /\ UNCHANGED <<root, doomed, fate>>
  BY DEF NextItem, At, Goto, Malloc
<1>2. ParserInv /\ Rooted /\ Rooted' BY <1>1 DEF MemInv, Rooted
<1>3. n \in 1 .. n /\ n \in Nat /\ n \in 0 .. NestingLimit
  BY <1>1, <1>2, HeldFacts DEF ParserInv, Nested
<1>4. Held[n] = stack[n].list BY <1>2, <1>3, HeldFacts
<1>5. PICK T, D, k : Forest(T, D, k, Held, heap) BY DEF MemInv, Memorised, Memory
<1> DEFINE E == D \cup {"Invalid", <<>>, 0}
<1>6. /\ new \in ItemsOver({}, E) /\ new.child = <<>> /\ new.value = NoString
      /\ new.name = NoString /\ Single(new)
      /\ Blocks(new) = {fresh} /\ Blocks(new) \cap heap = {}
  BY NewItems DEF MemInv, Memorised
<1>7. D \subseteq E OBVIOUS
<1> HIDE DEF new, E, m
<1>8. PICK S : stack \in Seq([kind : Kinds, list : S]) BY <1>2 DEF ParserInv, Nested, IsStack
<1>9. /\ Len(stack') = n /\ stack'[n].list = m
      /\ \A i \in 1 .. n : i # n => stack'[i] = stack[i]
  <2>1. stack[n] \in [kind : Kinds, list : S] BY <1>3, <1>8, SeqElements
  <2> QED BY <1>1, <1>3, <1>8, <2>1
<1>10. Held' = [Held EXCEPT ![n] = m]
  <2>1. ASSUME NEW l \in Int PROVE Held'[l] = IF l = n THEN m ELSE Held[l]
    <3>1. CASE l = n BY <1>3, <1>9, <3>1 DEF Held
    <3>2. CASE l \in 1 .. n /\ l # n
      <4>1. stack'[l] = stack[l] BY <1>9, <3>2
      <4> QED BY <1>9, <3>2, <4>1 DEF Held
    <3>3. CASE l \notin 1 .. n BY <1>1, <1>2, <1>3, <1>9, <3>3 DEF Held
    <3> QED BY <3>1, <3>2, <3>3
  <2>2. Held' = [l \in Int |-> Held'[l]] /\ Held = [l \in Int |-> Held[l]] BY DEF Held
  <2>3. [Held EXCEPT ![n] = m] = [l \in Int |-> IF l = n THEN m ELSE Held[l]] BY <2>2
  <2> QED BY <2>1, <2>2, <2>3
<1>11. m = Append(Held[n], new) BY <1>4 DEF m
<1>12. Held' = [Held EXCEPT ![n] = Append(@, new)] BY <1>10, <1>11
<1>13. \E U, o : Forest(U, E, o, Held', heap \cup Blocks(new))
  BY <1>3, <1>5, <1>6, <1>7, <1>12, Planted
<1>14. Memory' BY <1>1, <1>6, <1>13 DEF Memory
<1>15. Fresh' BY FreshGrows DEF NextItem, MemInv, Memorised, ParserInv
<1>16. Held'[n] = m /\ \A l \in Int : l # n => Held'[l] = Held[l]
  <2>1. n \in Int /\ DOMAIN Held = Int BY <1>2, <1>3, HeldFacts
  <2> QED BY <1>10, <2>1
<1>17. m # <<>> /\ m[Len(m)] = new
  <2>1. Held[n] \in Seq(T) BY <1>3, <1>5 DEF Forest, Shaped
  <2>2. Held[n] \in Seq(T \cup {new}) /\ new \in T \cup {new}
    BY <2>1, SeqElements, SeqOver
  <2>3. m \in Seq(T \cup {new}) /\ Len(m) = Len(Held[n]) + 1 /\ m[Len(Held[n]) + 1] = new
    BY <1>11, <2>2
  <2> QED BY <2>2, <2>3
<1>18. Chain'
  <2>1. \A l \in 0 .. n - 1 : l \in Int /\ l # n BY <1>3
  <2>2. Chain BY <1>1 DEF MemInv, Memorised, Waiting
  <2> QED BY <1>9, <1>16, <2>1, <2>2 DEF Chain
<1>19. Current' = new
  <2>1. (ParserInv /\ Rooted => Current = Held[Len(stack)][Len(Held[Len(stack)])])'
      BY CurrentIs, PTL
  <2> QED BY <1>2, <1>9, <1>16, <1>17, <2>1
<1> QED BY <1>1, <1>6, <1>9, <1>14, <1>15, <1>16, <1>17, <1>18, <1>19 DEF Memorised, Waiting

\* The innermost list becomes the child of the item that waits for it.
LEMMA ListCloses ==
    ASSUME MemInv, EndOfList, NEW n, n = Len(stack), NEW old, old = Held[n - 1][Len(Held[n - 1])],
           NEW new, new = [old EXCEPT !.type = Top.kind, !.child = Held[n]]
    PROVE  /\ n \in 1 .. NestingLimit /\ n \in Nat /\ Len(stack') = n - 1 /\ Rooted'
           /\ Held' = [Held EXCEPT ![n] = <<>>, ![n - 1] = [@ EXCEPT ![Len(@)] = new]]
<1>1. pc = "after" /\ doomed' = doomed /\ stack # <<>> /\ pc' = "after"
  BY DEF EndOfList, CloseList, At
<1>2. ParserInv /\ Rooted /\ Rooted' BY <1>1 DEF MemInv, Rooted
<1>3. n \in 1 .. n /\ n \in Nat /\ n \in 1 .. NestingLimit BY <1>1, <1>2, HeldFacts
<1>4. Held[n] = stack[n].list /\ Top = stack[n] BY <1>2, <1>3, HeldFacts DEF Top
<1>5. PICK S : stack \in Seq([kind : Kinds, list : S]) BY <1>2 DEF ParserInv, Nested, IsStack
<1> DEFINE full(item) == [item EXCEPT !.type = Top.kind, !.child = Top.list]
           last == [Held[n - 1] EXCEPT ![Len(Held[n - 1])] = new]
<1>6. new = full(old) BY <1>4
<1>7. IF n = 1 THEN stack' = <<>> /\ root' = full(root)
      ELSE /\ stack' = [Outer EXCEPT ![Len(Outer)].list = SetLast(@, full(@[Len(@)]))]
           /\ UNCHANGED root
  BY DEF EndOfList, CloseList
<1>8. Len(stack') = n - 1 /\ Held' = [l \in Int |-> IF l = n - 1 THEN last
                                                   ELSE IF l = n THEN <<>> ELSE Held[l]]
  <2>1. CASE n = 1
    <3>1. stack' = <<>> /\ root' = full(root) /\ n - 1 = 0 BY <1>7, <2>1
    <3>2. Held[0] = <<root>> /\ Held[n - 1] = <<root>> BY <1>2, <2>1, <3>1, HeldFacts
    <3>3. old = root /\ last = <<new>> BY <3>2
    <3>4. root' = new BY <1>6, <3>1, <3>3
    <3> HIDE DEF last, full
    <3>5. ASSUME NEW l \in Int
          PROVE  Held'[l] = IF l = 0 THEN last ELSE IF l = 1 THEN <<>> ELSE Held[l]
      <4>1. l \notin 1 .. Len(stack') BY <3>1
      <4>2. l \in 1 .. Len(stack) => l = 1 BY <2>1
      <4>3. CASE l = 0 BY <1>2, <3>3, <3>4, <4>3 DEF Held
      <4>4. CASE l = 1 BY <4>1, <4>4 DEF Held
      <4>5. CASE l # 0 /\ l # 1 BY <1>1, <4>1, <4>2, <4>5 DEF Held
      <4> QED BY <4>3, <4>4, <4>5
    <3>6. Held' = [l \in Int |-> Held'[l]] BY DEF Held
    <3>7. Len(stack') = n - 1 BY <2>1, <3>1
    <3> QED BY <2>1, <3>1, <3>5, <3>6, <3>7
  <2>2. CASE n # 1
    <3>1. n - 1 \in 1 .. n /\ n - 1 \in 1 .. n - 1 /\ n - 1 \in Nat /\ n - 1 # n BY <1>3, <2>2
    <3>2. Held[n - 1] = stack[n - 1].list BY <1>2, <3>1, HeldFacts
    <3>3. /\ Outer \in Seq([kind : Kinds, list : S]) /\ Len(Outer) = n - 1
          /\ \A i \in 1 .. n - 1 : Outer[i] = stack[i]
      <4> DEFINE R == [kind : Kinds, list : S]
      <4>1. Outer \in Seq(R) /\ Len(Outer) = n - 1 BY <1>1, <1>5, Popped
      <4>2. stack \in Seq(R) BY <1>5
      <4> HIDE DEF R
      <4>3. ASSUME NEW i \in 1 .. n - 1 PROVE SubSeq(stack, 1, n - 1)[i] = stack[i]
        BY <1>3, <4>2
      <4> QED BY <4>1, <4>3 DEF Outer, R
    <3>4. stack' = [Outer EXCEPT ![n - 1].list = last]
      <4>1. Outer[n - 1].list = Held[n - 1] BY <3>1, <3>2, <3>3
      <4>2. SetLast(Held[n - 1], full(Held[n - 1][Len(Held[n - 1])])) = last BY <1>6 DEF SetLast
      <4>3. stack' = [Outer EXCEPT ![n - 1].list = SetLast(@, full(@[Len(@)]))] BY <1>7, <2>2, <3>3
      <4> HIDE DEF full, last
      <4> QED BY <4>1, <4>2, <4>3
    <3> HIDE DEF last, full
    <3>5. Outer[n - 1] \in [kind : Kinds, list : S] BY <3>1, <3>3, SeqElements
    <3>6. /\ Len(stack') = n - 1 /\ stack'[n - 1].list = last
          /\ \A i \in 1 .. n - 1 : i # n - 1 => stack'[i] = stack[i]
      BY <3>1, <3>3, <3>4, <3>5
    <3>7. root' = root BY <1>7, <2>2
    <3>8. ASSUME NEW l \in Int
          PROVE  Held'[l] = IF l = n - 1 THEN last ELSE IF l = n THEN <<>> ELSE Held[l]
      <4>1. CASE l = n - 1
        <5>1. l \in 1 .. Len(stack') /\ l # 0 /\ l # -1 BY <3>1, <3>6, <4>1
        <5> QED BY <3>6, <4>1, <5>1 DEF Held
      <4>2. CASE l = n
        <5>1. l \notin 1 .. Len(stack') /\ l # 0 /\ l # -1 BY <1>3, <3>6, <4>2
        <5> QED BY <3>1, <4>2, <5>1 DEF Held
      <4>3. CASE l \in 1 .. n - 1 /\ l # n - 1
        <5>1. stack'[l] = stack[l] /\ l \in 1 .. n /\ l # n BY <1>3, <3>6, <4>3
        <5> QED BY <3>6, <4>3, <5>1 DEF Held
      <4>4. CASE l \notin 1 .. n
        <5>1. l \notin 1 .. Len(stack') /\ l # n /\ l # n - 1 BY <1>3, <3>1, <3>6, <4>4
        <5> QED BY <1>1, <1>2, <3>7, <4>4, <5>1 DEF Held
      <4> QED BY <1>3, <4>1, <4>2, <4>3, <4>4
    <3>9. Held' = [l \in Int |-> Held'[l]] BY DEF Held
    <3> QED BY <3>6, <3>8, <3>9
  <2> QED BY <2>1, <2>2
<1> HIDE DEF last
<1>9. [Held EXCEPT ![n] = <<>>, ![n - 1] = last]
        = [l \in Int |-> IF l = n - 1 THEN last ELSE IF l = n THEN <<>> ELSE Held[l]]
  <2>1. Held = [l \in Int |-> Held[l]] BY DEF Held
  <2> QED BY <1>3, <2>1
<1>10. [Held EXCEPT ![n] = <<>>, ![n - 1] = [@ EXCEPT ![Len(@)] = new]]
         = [Held EXCEPT ![n] = <<>>, ![n - 1] = last]
  <2>1. DOMAIN Held = Int /\ n \in Int /\ n - 1 \in Int /\ n # n - 1 BY <1>2, <1>3, HeldFacts
  <2> QED BY <2>1 DEF last
<1> QED BY <1>2, <1>3, <1>8, <1>9, <1>10

LEMMA EndRemembers == ASSUME MemInv, ParserInv', EndOfList PROVE Memorised'
<1> DEFINE n == Len(stack)
           l == n - 1
           old == Held[l][Len(Held[l])]
           kind == Top.kind
           new == [old EXCEPT !.type = kind, !.child = Held[n]]
<1>1. /\ n \in 1 .. NestingLimit /\ n \in Nat /\ Len(stack') = l /\ Rooted'
      /\ Held' = [Held EXCEPT ![n] = <<>>, ![l] = [@ EXCEPT ![Len(@)] = new]]
  BY ListCloses
<1>2. /\ pc = "after" /\ doomed = <<>> /\ pc' = "after" /\ UNCHANGED <<heap, fresh, doomed, fate>>
  BY DEF EndOfList, CloseList, At
<1>3. PICK T, D, k : Forest(T, D, k, Held, heap) BY DEF MemInv, Memorised, Memory
<1>4. ParserInv /\ Chain BY <1>2 DEF MemInv, Memorised, Waiting
<1> HIDE DEF n
<1>5. /\ l \in 0 .. NestingLimit /\ l \in Int /\ n \in Int /\ n # l /\ n = l + 1
      /\ DOMAIN Held = Int
  BY <1>1, <1>4, HeldFacts, ParserAssumption
<1>6. Held[l] # <<>> /\ old.child = <<>>
  BY <1>1, <1>4 DEF Chain, n
<1> HIDE DEF l
<1>7. Held[l] \in Seq(T) /\ Held[n] \in Seq(T) BY <1>3, <1>5 DEF Forest, Shaped
<1>8. old \in T BY <1>6, <1>7
<1>9. old \in ItemsOver(T, D) /\ Single(old) BY <1>3, <1>8 DEF Forest, Shaped, Once
<1> DEFINE E == D \cup {kind}
<1>10. D \subseteq E /\ kind \in E OBVIOUS
<1>11. new = [old EXCEPT !.type = kind, !.child = Held[n]] OBVIOUS
<1> HIDE DEF old, kind, new, E
<1>12. /\ new \in ItemsOver(T, E) /\ new.block = old.block /\ new.name = old.name
       /\ new.value = old.value /\ new.child = Held[n]
  <2>1. old \in ItemsOver(T, E) BY <1>9, <1>10, MoreItems
  <2> QED BY <1>7, <1>10, <1>11, <2>1 DEF ItemsOver
<1> DEFINE A == {}
<1>13. Blocks(new) = Blocks(old) \cup A /\ Single(new) /\ A \cap heap = {} /\ heap' = heap \cup A
  BY <1>2, <1>9, <1>12 DEF Blocks, Single
<1> HIDE DEF A
<1>14. old = Held[l][Len(Held[l])] BY DEF old
<1>15. \E U, m : Forest(U, E, m, Held', heap \cup A)
  <2> DEFINE L == Held
             M == Held'
             H == heap
  <2>1. Forest(T, D, k, L, H) /\ l \in 0 .. NestingLimit /\ L[l] # <<>> /\ old = L[l][Len(L[l])]
    BY <1>3, <1>5, <1>6, <1>14
  <2>2. n \in Int /\ n # l /\ (n = l + 1 \/ L[n] = <<>>) /\ old.child = <<>> /\ A \cap H = {}
    BY <1>5, <1>6, <1>13
  <2>3. /\ D \subseteq E /\ new \in ItemsOver(T, E) /\ new.block = old.block /\ new.child = L[n]
        /\ Blocks(new) = Blocks(old) \cup A /\ Single(new)
        /\ M = [L EXCEPT ![n] = <<>>, ![l] = [@ EXCEPT ![Len(@)] = new]]
    BY <1>1, <1>10, <1>12, <1>13
  <2> HIDE DEF L, M, H
  <2>4. \E U, m : Forest(U, E, m, M, H \cup A)
    BY <2>1, <2>2, <2>3, Grown
  <2> QED BY <2>4 DEF M, H
<1>17. Memory' BY <1>13, <1>15 DEF Memory
<1>18. Fresh' BY <1>2 DEF MemInv, Memorised, Fresh
<1>19. Held'[l] # <<>> /\ \A i \in Int : i # l /\ i # n => Held'[i] = Held[i]
  <2> DEFINE last == [Held[l] EXCEPT ![Len(Held[l])] = new]
  <2>1. Held' = [Held EXCEPT ![n] = <<>>, ![l] = last] BY <1>1, <1>5
  <2>2. last # <<>>
    <3>1. Len(Held[l]) \in Nat \ {0} /\ DOMAIN Held[l] = 1 .. Len(Held[l]) BY <1>6, <1>7
    <3>2. DOMAIN last = 1 .. Len(Held[l]) BY <3>1
    <3>3. SUFFICES ASSUME last = <<>> PROVE FALSE OBVIOUS
    <3>4. DOMAIN last = {} BY <3>3
    <3> QED BY <3>1, <3>2, <3>4
  <2> HIDE DEF last
  <2> QED BY <1>5, <2>1, <2>2
<1>20. Chain'
  <2>1. \A i \in 0 .. l - 1 : i \in Int /\ i # l /\ i # n /\ i \in 0 .. n - 1 BY <1>5
  <2> QED BY <1>1, <1>4, <1>19, <2>1 DEF Chain, n
<1> QED BY <1>1, <1>2, <1>17, <1>18, <1>19, <1>20 DEF Memorised, Waiting

\* A list is deleted where its loop fails, the root where there is no other.
LEMMA FailRemembers == ASSUME MemInv, ParserInv', Fail PROVE Memorised'
<1> DEFINE n == Len(stack)
           M == [Held EXCEPT ![-1] = Held[n], ![n] = <<>>]
<1>1. /\ pc = "fail" /\ doomed = <<>> /\ pc' \in {"fail", "failed"}
      /\ (pc' = "failed" => stack' = <<>>)
      /\ UNCHANGED <<root, heap, fresh, fate>>
  BY DEF Fail, At, Goto
<1>2. ParserInv /\ Rooted BY <1>1 DEF MemInv, Rooted
<1>3. n \in Nat /\ n \in Int /\ n # -1 /\ DOMAIN Held = Int /\ Held[-1] = <<>>
  BY <1>1, <1>2, HeldFacts
<1>4. Held = [l \in Int |-> Held[l]] BY DEF Held
<1>5. M = [l \in Int |-> IF l = n THEN <<>> ELSE IF l = -1 THEN Held[n] ELSE Held[l]]
  BY <1>3, <1>4
<1>6. Held' = [l \in Int |-> Held'[l]] BY DEF Held
<1>7. Held' = M
  <2>1. CASE stack = <<>>
    <3>1. n = 0 /\ Held[0] = <<root>> /\ doomed' = <<root>> /\ stack' = <<>> /\ ~Rooted'
      BY <1>2, <2>1, HeldFacts DEF Fail, Goto, Rooted
    <3>2. ASSUME NEW l \in Int
          PROVE  Held'[l] = IF l = 0 THEN <<>> ELSE IF l = -1 THEN <<root>> ELSE Held[l]
      BY <2>1, <3>1 DEF Held
    <3> HIDE DEF n, M
    <3> QED BY <1>5, <1>6, <3>1, <3>2
  <2>2. CASE stack # <<>>
    <3>1. n \in 1 .. n /\ doomed' = Top.list /\ stack' = Outer /\ pc' = "fail"
      BY <1>1, <1>2, <2>2, HeldFacts DEF Fail
    <3>2. Rooted' BY <3>1 DEF Rooted
    <3>3. Held[n] = Top.list BY <1>2, <3>1, HeldFacts DEF Top
    <3>4. PICK S : stack \in Seq([kind : Kinds, list : S]) BY <1>2 DEF ParserInv, Nested, IsStack
    <3>5. Len(Outer) = n - 1 /\ \A i \in 1 .. n - 1 : Outer[i] = stack[i]
      <4> DEFINE R == [kind : Kinds, list : S]
      <4>1. Len(Outer) = n - 1 BY <2>2, <3>4, Popped
      <4>2. stack \in Seq(R) BY <3>4
      <4> HIDE DEF R
      <4>3. ASSUME NEW i \in 1 .. n - 1 PROVE SubSeq(stack, 1, n - 1)[i] = stack[i]
        BY <3>1, <4>2
      <4> QED BY <4>1, <4>3 DEF Outer
    <3>6. ASSUME NEW l \in Int
          PROVE  Held'[l] = IF l = n THEN <<>> ELSE IF l = -1 THEN Held[n] ELSE Held[l]
      <4>1. CASE l = n
        <5>1. l \notin 1 .. Len(stack') /\ l # 0 /\ l # -1 BY <3>1, <3>5, <4>1
        <5> QED BY <4>1, <5>1 DEF Held
      <4>2. CASE l = -1 BY <1>3, <3>1, <3>3, <4>2 DEF Held
      <4>3. CASE l \in 1 .. n - 1
        <5>1. stack'[l] = stack[l] /\ l \in 1 .. n /\ l # n /\ l \in 1 .. Len(stack') /\ l # -1
          BY <1>3, <3>1, <3>5, <4>3
        <5> QED BY <5>1 DEF Held
      <4>4. CASE l \notin 1 .. n /\ l # -1
        <5>1. l \notin 1 .. Len(stack') /\ l # n BY <1>3, <3>1, <3>5, <4>4
        <5> QED BY <1>1, <1>2, <3>2, <4>4, <5>1 DEF Held
      <4> QED BY <1>3, <4>1, <4>2, <4>3, <4>4
    <3> HIDE DEF n, M
    <3> QED BY <1>5, <1>6, <3>6
  <2> QED BY <2>1, <2>2
<1>8. PICK T, D, k : Forest(T, D, k, Held, heap) BY DEF MemInv, Memorised, Memory
<1> DEFINE z == -1
<1>9. /\ z \in Int \ Nat /\ Held[z] = <<>> /\ n # z
      /\ Held' = [Held EXCEPT ![z] = Held[n], ![n] = <<>>]
  BY <1>3, <1>7
<1> HIDE DEF z, n
<1>10. Forest(T, D, k, Held', heap) BY <1>3, <1>8, <1>9, Moved
<1>11. Memory' BY <1>1, <1>10 DEF Memory
<1>12. Fresh' BY <1>1 DEF MemInv, Memorised, Fresh
<1> QED BY <1>1, <1>11, <1>12 DEF Memorised, Waiting

\* cJSON_Delete finds every block of an item allocated, and no block twice in it.
LEMMA DeleteRemembers == ASSUME MemInv, ParserInv', Delete PROVE Memorised'
<1> DEFINE z == -1
           h == Head(doomed)
<1>1. /\ doomed # <<>> /\ heap' = heap \ Blocks(h) /\ doomed' = h.child \o Tail(doomed)
      /\ UNCHANGED <<pc, stack, root, fresh>>
  BY DEF Delete
<1>2. Held[z] = doomed /\ z \in Int \ Nat /\ DOMAIN Held = Int /\ ParserInv BY HeldFacts DEF MemInv
<1>3. PICK T, D, k : Forest(T, D, k, Held, heap) BY DEF MemInv, Memorised, Memory
<1>4. Held' = [Held EXCEPT ![z] = Below(h, @)]
  <2>1. ASSUME NEW l \in Int PROVE Held'[l] = IF l = z THEN h.child \o Tail(doomed) ELSE Held[l]
    <3>1. CASE l = z BY <1>1, <3>1 DEF Held
    <3>2. CASE l # z BY <1>1, <3>2 DEF Held, Rooted
    <3> QED BY <3>1, <3>2
  <2>2. Held' = [l \in Int |-> Held'[l]] /\ Held = [l \in Int |-> Held[l]] BY DEF Held
  <2>3. Below(h, Held[z]) = h.child \o Tail(doomed) BY <1>2 DEF Below
  <2> HIDE DEF z, h
  <2> QED BY <1>2, <2>1, <2>2, <2>3
<1> HIDE DEF z
<1>5. h = Held[z][1] /\ Held[z] # <<>> /\ h \in T
  <2>1. Held[z] \in Seq(T) BY <1>2, <1>3 DEF Forest, Shaped
  <2>2. doomed \in Seq(T) BY <1>2, <2>1
  <2> QED BY <1>1, <1>2, <2>2
<1> HIDE DEF h
<1>6. Blocks(h) \subseteq heap /\ Single(h) BY <1>3, <1>5 DEF Forest, Once
<1>7. \E U, m : Forest(U, D, m, Held', heap \ Blocks(h))
  <2> DEFINE L == Held
             M == Held'
             H == heap
  <2>1. /\ Forest(T, D, k, L, H) /\ z \in Int \ Nat /\ L[z] # <<>> /\ h = L[z][1]
        /\ M = [L EXCEPT ![z] = Below(h, @)]
    BY <1>2, <1>3, <1>4, <1>5
  <2> HIDE DEF L, M, H
  <2>2. \E U, m : Forest(U, D, m, M, H \ Blocks(h)) BY <2>1, Felled
  <2> QED BY <2>2 DEF M, H
<1>8. Memory' BY <1>1, <1>7 DEF Memory
<1>9. fate' = fate BY <1>6 DEF Delete, h, Single
<1>10. Fresh' BY <1>1, <1>9 DEF MemInv, Memorised, Fresh
<1>11. pc \in {"fail", "failed"} BY <1>1 DEF MemInv, Memorised, Waiting
<1> QED BY <1>1, <1>8, <1>10, <1>11 DEF MemInv, Memorised, Waiting

\* The steps that leave all items as they are.
LEMMA OthersRemember ==
    ASSUME MemInv, ParserInv',
           \/ BeginString \/ ValueFails \/ ItemFails \/ ParseName \/ StringLoops \/ StringFails
           \/ NextElement \/ ListFails \/ Succeed \/ UNCHANGED vars
    PROVE  Memorised'
<1>1. UNCHANGED <<root, stack, doomed, heap, fresh, fate>>
  BY DEF BeginString, ValueFails, ItemFails, ParseName, StringLoops, StringFails, NextElement,
         ListFails, Succeed, vars
<1>2. \/ pc' = pc
      \/ pc = "value" /\ pc' = "string"
      \/ pc \in {"value", "item", "name", "string", "after"} /\ pc' = "fail"
      \/ pc = "start" /\ pc' = "failed"
      \/ pc = "after" /\ pc' = "item"
      \/ pc = "after" /\ pc' = "done" /\ stack = <<>>
  BY DEF BeginString, ValueFails, ItemFails, ParseName, StringLoops, StringFails, NextElement,
         ListFails, Succeed, vars, At, Goto
<1>3. Rooted' = Rooted BY <1>2 DEF Rooted
<1>4. Held' = Held /\ Memory' BY <1>1, <1>3, HeldStays DEF MemInv, Memorised
<1>5. Fresh' BY <1>1 DEF MemInv, Memorised, Fresh
<1>6. Chain => Chain' BY <1>1, <1>4 DEF Chain
<1>7. Current' = Current BY <1>1 DEF Current, Top
<1> QED BY <1>1, <1>2, <1>4, <1>5, <1>6, <1>7 DEF MemInv, Memorised, Waiting

LEMMA MemStep == MemInv /\ [Next]_vars => MemInv'
<1> SUFFICES ASSUME MemInv, [Next]_vars PROVE MemInv' OBVIOUS
<1>1. ParserInv' BY ParserStep DEF MemInv
<1>2. CASE UNCHANGED vars BY <1>1, <1>2, OthersRemember DEF MemInv
<1>3. CASE \E k \in {"Array", "Object"} : ParseList(k) \/ ParseEmpty(k)
  BY <1>1, <1>3, ListRemembers, EmptyRemembers DEF MemInv, Kinds
<1>4. CASE BeginString \/ ValueFails \/ ItemFails \/ ParseName \/ StringLoops \/ StringFails
           \/ NextElement \/ ListFails \/ Succeed
  BY <1>1, <1>4, OthersRemember DEF MemInv
<1>5. CASE cJSON_Parse \/ ParseLiteral \/ parse_number \/ NextItem \/ StringParsed \/ NameParsed
           \/ EndOfList \/ Fail \/ Delete
  BY <1>1, <1>5, StartRemembers, LiteralRemembers, NumberRemembers, NextItemRemembers,
     StringRemembers, NameRemembers, EndRemembers, FailRemembers, DeleteRemembers DEF MemInv
<1> QED BY <1>2, <1>3, <1>4, <1>5 DEF Next

LEMMA MemInvariance == Spec => []MemInv
<1>1. Init => MemInv BY InitParser, InitMemory DEF MemInv
<1> QED BY <1>1, MemStep, PTL DEF Spec

-----------------------------------------------------------------------------
(* The levels of the tree.                                                 *)

LEMMA NatInd == ASSUME NEW S, 0 \in S, \A n \in Nat : n \in S => n + 1 \in S PROVE Nat \subseteq S
<1>1. SUFFICES ASSUME Nat \ S # {} PROVE FALSE OBVIOUS
<1>2. PICK n \in Nat \ S : \A m \in Nat \ S : n <= m BY HasMin, <1>1
<1>3. n # 0 /\ n - 1 \in Nat BY <1>2
<1>4. n - 1 \in S BY <1>2, <1>3
<1> QED BY <1>2, <1>3, <1>4

Children(S) == UNION {Range(x.child) : x \in S}
Level1(f, n) == IF n = 0 THEN {root} ELSE Children(f[n - 1])
Levels(f, n) == f = [i \in 0 .. n |-> Level1(f, i)]

LEMMA LevelAt == ASSUME NEW n, NEW f, Levels(f, n) PROVE \A i \in 0 .. n : f[i] = Level1(f, i)
  BY DEF Levels

LEMMA LevelsExist == \A n \in Nat : \E f : Levels(f, n)
<1> DEFINE S == {n \in Nat : \E f : Levels(f, n)}
<1>1. 0 \in S
  <2> DEFINE e == [i \in 0 .. 0 |-> {root}]
  <2>1. \A i \in 0 .. 0 : Level1(e, i) = {root} BY DEF Level1
  <2>2. Levels(e, 0) BY <2>1 DEF Levels
  <2> QED BY <2>2
<1>2. \A n \in Nat : n \in S => n + 1 \in S
  <2> SUFFICES ASSUME NEW n \in Nat, n \in S PROVE \E f : Levels(f, n + 1) OBVIOUS
  <2>1. PICK f : Levels(f, n) OBVIOUS
  <2> DEFINE last == Level1(f, n + 1)
             g == [i \in 0 .. n + 1 |-> IF i = n + 1 THEN last ELSE f[i]]
  <2>2. g[n + 1] = last /\ \A i \in 0 .. n : g[i] = f[i] OBVIOUS
  <2>3. g = [i \in 0 .. n + 1 |-> g[i]] OBVIOUS
  <2> HIDE DEF g
  <2>4. \A i \in 0 .. n + 1 : g[i] = Level1(g, i)
    <3> SUFFICES ASSUME NEW i \in 0 .. n + 1 PROVE g[i] = Level1(g, i) OBVIOUS
    <3>1. i # 0 => i - 1 \in 0 .. n OBVIOUS
    <3>2. Level1(g, i) = Level1(f, i) BY <3>1, <2>2 DEF Level1
    <3>3. i # n + 1 => i \in 0 .. n OBVIOUS
    <3> QED BY <2>1, <2>2, <3>2, <3>3, LevelAt
  <2>5. Levels(g, n + 1) BY <2>3, <2>4 DEF Levels
  <2> QED BY <2>5
<1> HIDE DEF S
<1>3. Nat \subseteq S BY <1>1, <1>2, NatInd
<1> QED BY <1>3 DEF S

LEMMA LevelsAgree ==
    ASSUME NEW m \in Nat, NEW n \in Nat, NEW f, NEW g, Levels(f, m), Levels(g, n)
    PROVE  \A i \in Nat : i <= m /\ i <= n => f[i] = g[i]
<1> DEFINE S == {i \in Nat : i <= m /\ i <= n => f[i] = g[i]}
<1>1. 0 \in S
  <2>1. 0 \in 0 .. m /\ 0 \in 0 .. n OBVIOUS
  <2> QED BY <2>1, LevelAt DEF Level1
<1>2. \A i \in Nat : i \in S => i + 1 \in S
  <2> SUFFICES ASSUME NEW i \in Nat, i \in S, i + 1 <= m, i + 1 <= n PROVE f[i + 1] = g[i + 1]
    OBVIOUS
  <2>1. i + 1 \in 0 .. m /\ i + 1 \in 0 .. n /\ (i + 1) - 1 = i /\ i + 1 # 0 OBVIOUS
  <2>2. f[i + 1] = Level1(f, i + 1) /\ g[i + 1] = Level1(g, i + 1) BY <2>1, LevelAt
  <2>3. f[i] = g[i] OBVIOUS
  <2> QED BY <2>1, <2>2, <2>3 DEF Level1
<1> HIDE DEF S
<1>3. Nat \subseteq S BY <1>1, <1>2, NatInd
<1> QED BY <1>3 DEF S

LEMMA LevelIs == Level[0] = {root} /\ \A n \in Nat : Level[n + 1] = Children(Level[n])
<1> DEFINE App(n) == CHOOSE f : Levels(f, n)
           all == [n \in Nat |-> App(n)[n]]
<1>1. \A n \in Nat : Levels(App(n), n) BY LevelsExist
<1> HIDE DEF App
<1>2. ASSUME NEW n \in Nat PROVE all[n] = Level1(all, n)
  <2>1. all[n] = Level1(App(n), n) BY <1>1, LevelAt
  <2>2. ASSUME n # 0 PROVE all[n - 1] = App(n)[n - 1]
    <3>1. n - 1 \in Nat /\ n - 1 <= n BY <2>2
    <3> QED BY <3>1, <1>1, LevelsAgree
  <2> QED BY <2>1, <2>2 DEF Level1
<1>3. all = [n \in Nat |-> Level1(all, n)] BY <1>2
<1> HIDE DEF all
<1>4. Level = [n \in Nat |-> Level1(Level, n)] BY <1>3 DEF Level, Level1, Children
<1>5. \A n \in Nat : Level[n] = Level1(Level, n) BY <1>4
<1>6. \A n \in Nat : n + 1 \in Nat /\ n + 1 # 0 /\ (n + 1) - 1 = n OBVIOUS
<1> QED BY <1>5, <1>6 DEF Level1

\* An item's level is its rank.
LEMMA LevelRanks ==
    ASSUME MemInv, Rooted, NEW T, NEW D, NEW k, Forest(T, D, k, Held, heap), NEW n \in Nat
    PROVE  Level[n] \subseteq {x \in T : k[x] = n}
<1> DEFINE S == {i \in Nat : Level[i] \subseteq {x \in T : k[x] = i}}
<1>1. 0 \in S
  <2>1. Held[0] = <<root>> BY HeldFacts DEF MemInv
  <2>2. Held[0] \in Seq(T) /\ Len(Held[0]) = 1 /\ Held[0][1] = root BY <2>1 DEF Forest, Shaped
  <2>3. root \in T BY <2>2
  <2>4. k[root] = 0
    <3>1. 1 \in 1 .. Len(Held[0]) BY <2>2
    <3> QED BY <2>2, <3>1 DEF Forest, Ranked
  <2> QED BY <2>3, <2>4, LevelIs
<1>2. \A i \in Nat : i \in S => i + 1 \in S
  <2> SUFFICES ASSUME NEW i \in Nat, i \in S, NEW y \in Level[i + 1] PROVE y \in T /\ k[y] = i + 1
    OBVIOUS
  <2>1. PICK x \in Level[i] : y \in Range(x.child) BY LevelIs DEF Children
  <2>2. x \in T /\ k[x] = i BY <2>1
  <2>3. x.child \in Seq(T) BY <2>2 DEF Forest, Shaped, ItemsOver
  <2>4. PICK j \in 1 .. Len(x.child) : y = x.child[j] BY <2>1, <2>3 DEF Range
  <2> QED BY <2>2, <2>3, <2>4 DEF Forest, Ranked
<1> HIDE DEF S
<1>3. Nat \subseteq S BY <1>1, <1>2, NatInd
<1> QED BY <1>3 DEF S

\* The tree has all items, once no list but the root is held.
LEMMA TreeHasAll ==
    ASSUME MemInv, pc = "done", doomed = <<>>, NEW T, NEW D, NEW k, Forest(T, D, k, Held, heap)
    PROVE  TreeItems = T
<1>1. ParserInv /\ Rooted /\ stack = <<>> BY DEF MemInv, Memorised, Waiting, Rooted
<1>2. TreeItems \subseteq T BY <1>1, LevelRanks DEF TreeItems
<1>3. Held[0] = <<root>> /\ \A l \in Int : l # 0 => Held[l] = <<>>
  <2>1. \A l \in 1 .. Len(stack) : FALSE BY <1>1
  <2> QED BY <1>1, <2>1, HeldFacts DEF Held
<1>4. NestingLimit \in Nat BY ParserAssumption
<1>5. ASSUME NEW l \in Int, NEW i \in 1 .. Len(Held[l]) PROVE Held[l][i] \in TreeItems
  <2>1. l = 0 /\ Held[l] = <<root>> BY <1>3
  <2>2. Held[l][i] = root BY <2>1
  <2>3. 0 \in 0 .. NestingLimit /\ root \in Level[0] BY <1>4, LevelIs
  <2> QED BY <2>2, <2>3 DEF TreeItems
<1>6. ASSUME NEW x \in T, x \in TreeItems, NEW i \in 1 .. Len(x.child)
      PROVE  x.child[i] \in TreeItems
  <2>1. PICK n \in 0 .. NestingLimit : x \in Level[n] BY <1>6 DEF TreeItems
  <2>2. n \in Nat /\ k[x] = n BY <1>1, <1>4, <2>1, LevelRanks
  <2>3. x.child \in Seq(T) BY DEF Forest, Shaped, ItemsOver
  <2>4. x.child[i] \in T BY <2>3
  <2>5. k[x.child[i]] = n + 1 /\ k[x.child[i]] \in 0 .. NestingLimit
    BY <2>2, <2>4 DEF Forest, Ranked
  <2>6. x.child[i] \in Level[n + 1]
    <3>1. x.child[i] \in Range(x.child) BY <2>3 DEF Range
    <3> QED BY <2>1, <2>2, <3>1, LevelIs DEF Children
  <2>7. n + 1 \in 0 .. NestingLimit BY <2>5
  <2> QED BY <2>6, <2>7 DEF TreeItems
<1> HIDE DEF TreeItems
<1>7. Closed(T, Held, TreeItems) BY <1>5, <1>6 DEF Closed
<1>8. T \subseteq TreeItems BY <1>7 DEF Forest, Reached
<1> QED BY <1>2, <1>8

-----------------------------------------------------------------------------
(* The theorems.                                                           *)

\* ParserTypeOK holds in every state (the parse buffer, the lists, the heap).
THEOREM ParserTypes == Spec => []ParserTypeOK
  <1>1. ParserInv => ParserTypeOK
    <2> SUFFICES ASSUME ParserInv PROVE ParserTypeOK
      OBVIOUS
    <2>1. PICK L : stack \in Seq([kind : Kinds, list : L])
      BY DEF ParserInv, Nested, IsStack
    <2>2. ASSUME NEW i \in DOMAIN stack PROVE stack[i].kind \in {"Array", "Object"}
      <3>1. stack[i] \in [kind : Kinds, list : L]
        BY <2>1, SeqElements
      <3> QED BY <3>1 DEF Kinds
    <2> QED BY <2>2 DEF ParserInv, ParserTypeOK, StringOK, TextOK, Place, Nested, Heap
  <1> QED BY <1>1, ParserInvariance, PTL

\* Nothing is read past the NUL that ends a text, whatever the text
\* (can_access_at_index, the guards of parse_string and of utf16_literal_to_utf8).
THEOREM ReadsStayInside == Spec => []ReadsFit
  <1>1. ParserInv => ReadsFit
    BY DEF ParserInv, StringOK, ReadsFit
  <1> QED BY <1>1, ParserInvariance, PTL

\* No string is copied past the memory that the measuring loop has asked for,
\* whatever its escapes (allocation_length of parse_string).
THEOREM WritesStayInside == Spec => []WritesFit
  <1>1. ParserInv => WritesFit
    <2> SUFFICES ASSUME ParserInv, alloc > 0 PROVE Len(output) <= alloc
      BY DEF WritesFit
    <2>1. StringInv /\ alloc \in Nat /\ output \in Seq(Nat) /\ spc \in {"copy", "ok"}
      BY DEF ParserInv, StringOK, StringTypeOK, StringInv
    <2>2. CASE spc = "copy"
      <3>1. Len(output) <= alloc - 2 /\ Len(output) \in Nat
        BY <2>1, <2>2 DEF StringInv, Room
      <3> QED BY <2>1, <3>1
    <2>3. CASE spc = "ok"
      BY <2>1, <2>3 DEF StringInv
    <2> QED BY <2>1, <2>2, <2>3
  <1> QED BY <1>1, ParserInvariance, PTL

\* The recursion of parse_array and parse_object is as deep as buffer.depth says,
\* and no deeper than CJSON_NESTING_LIMIT.
THEOREM RecursionIsBounded == Spec => []NestingBounded
  <1>1. ParserInv => NestingBounded
    BY DEF ParserInv, Nested, NestingBounded
  <1> QED BY <1>1, ParserInvariance, PTL

\* No block is freed twice, whatever malloc fails and wherever the text breaks
\* off (the lists of parse_array and parse_object, the swapped name pointers).
THEOREM NeverFreedTwice == Spec => []NoDoubleFree
<1>1. MemInv => NoDoubleFree BY DEF MemInv, Memorised, Fresh, NoDoubleFree
<1> QED BY <1>1, MemInvariance, PTL

\* Nothing is left of a text that is not accepted, and of one that is accepted
\* the tree alone, every block of it with one item (cJSON_Delete, the fail labels
\* of parse_array, parse_object and cJSON_ParseWithOpts).
THEOREM NothingIsLost == Spec => []NothingLeaks
<1>1. MemInv => NothingLeaks
  <2> SUFFICES ASSUME MemInv, Ended
               PROVE  /\ alloc = 0
                      /\ pc = "failed" => heap = {}
                      /\ pc = "done" => heap = UNION {Blocks(x) : x \in TreeItems} /\ OwnedOnce
    BY DEF NothingLeaks
  <2>1. pc \in {"done", "failed"} /\ doomed = <<>> BY DEF Ended
  <2>2. alloc = 0 BY <2>1 DEF MemInv, ParserInv, Place, StringOK, StringInv
  <2>3. PICK T, D, k : Forest(T, D, k, Held, heap) BY DEF MemInv, Memorised, Memory
  <2>4. stack = <<>> /\ Len(stack) = 0 /\ ParserInv BY <2>1 DEF MemInv, Memorised, Waiting
  <2>5. ASSUME pc = "failed" PROVE heap = {}
    <3>1. \A l \in Int : Held[l] = <<>> BY <2>1, <2>4, <2>5 DEF Held, Rooted
    <3>2. Closed(T, Held, {}) BY <3>1 DEF Closed
    <3>3. T = {} BY <2>3, <3>2 DEF Forest, Reached
    <3> QED BY <2>3, <3>3 DEF Forest, Once
  <2>6. ASSUME pc = "done" PROVE heap = UNION {Blocks(x) : x \in TreeItems} /\ OwnedOnce
    <3>1. TreeItems = T BY <2>1, <2>3, <2>6, TreeHasAll
    <3>2. Once(T, heap) /\ OnePlace(T, Held) BY <2>3 DEF Forest
    <3>3. \A x \in T : x.child \in Seq(T) /\ DOMAIN x.child = 1 .. Len(x.child)
      <4>1. ASSUME NEW x \in T PROVE x.child \in Seq(T) BY <2>3 DEF Forest, Shaped, ItemsOver
      <4>2. ASSUME NEW x \in T PROVE DOMAIN x.child = 1 .. Len(x.child) BY <4>1
      <4> QED BY <4>1, <4>2
    <3>4. Held[0] = <<root>> BY <2>4, <2>6, HeldFacts DEF Rooted
    <3>5. ASSUME NEW x \in T PROVE root \notin Range(x.child)
      <4> SUFFICES ASSUME root \in Range(x.child) PROVE FALSE OBVIOUS
      <4>1. PICK i \in 1 .. Len(x.child) : x.child[i] = root BY <3>3 DEF Range
      <4>2. 1 \in 1 .. Len(Held[0]) /\ Held[0][1] = root /\ 0 \in Int BY <3>4
      <4>3. x.child[i] = Held[0][1] BY <4>1, <4>2
      <4> HIDE DEF Held
      <4> QED BY <3>2, <4>2, <4>3, NotBoth
    <3>6. heap = UNION {Blocks(x) : x \in T} BY <3>2 DEF Once
    <3>7. \A x \in T : Single(x) BY <3>2 DEF Once
    <3>8. \A x, y \in T : x # y => Blocks(x) \cap Blocks(y) = {} BY <3>2 DEF Once
    <3>9. \A x, y \in T : \A i \in DOMAIN x.child, j \in DOMAIN y.child :
             x.child[i] = y.child[j] => x = y /\ i = j
      <4> SUFFICES ASSUME NEW x \in T, NEW y \in T, NEW i \in DOMAIN x.child,
                          NEW j \in DOMAIN y.child, x.child[i] = y.child[j]
                   PROVE  x = y /\ i = j
        OBVIOUS
      <4>1. i \in 1 .. Len(x.child) /\ j \in 1 .. Len(y.child) BY <3>3
      <4> QED BY <3>2, <4>1, OneParent
    <3> QED BY <3>1, <3>5, <3>6, <3>7, <3>8, <3>9 DEF OwnedOnce
  <2> QED BY <2>1, <2>2, <2>5, <2>6
<1> QED BY <1>1, MemInvariance, PTL
=============================================================================
