----------------------------- MODULE EncoderProofs ----------------------------
(***************************************************************************)
(* Proofs about encode_message and the printer, for all messages and every *)
(* pattern of failing allocations: what is printed fits into the buffer,   *)
(* and a message that is given up leaves nothing allocated.                *)
(***************************************************************************)
EXTENDS Link, SequenceTheorems, WellFoundedInduction, TLAPS

-----------------------------------------------------------------------------
(* Induction over the naturals, with a set for the predicate.              *)

LEMMA NatMin == \A T \in SUBSET Nat : T # {} => \E n \in T : \A m \in T : n <= m
<1> SUFFICES ASSUME NEW T \in SUBSET Nat, T # {} PROVE \E n \in T : \A m \in T : n <= m OBVIOUS
<1>1. PICK x \in T : \A y \in T : ~ (<<y, x>> \in OpToRel(<, Nat))
  BY NatLessThanWellFounded, WFMin
<1>2. \A y \in T : <<y, x>> \in OpToRel(<, Nat) <=> y < x
  BY DEF OpToRel
<1>3. \A y \in T : ~ (y < x) BY <1>1, <1>2, Zenon
<1>4. \A y \in T : x <= y BY <1>3
<1> QED BY <1>4
LEMMA NatInd == ASSUME NEW S, 0 \in S, \A n \in Nat : n \in S => n + 1 \in S PROVE Nat \subseteq S
<1>1. SUFFICES ASSUME Nat \ S # {} PROVE FALSE OBVIOUS
<1>2. PICK n \in Nat \ S : \A m \in Nat \ S : n <= m BY NatMin, <1>1
<1>3. n # 0 /\ n - 1 \in Nat BY <1>2
<1>4. n - 1 \in S BY <1>2, <1>3
<1> QED BY <1>2, <1>3, <1>4

-----------------------------------------------------------------------------
(* FlattenSeq.                                                             *)

Flat(f, s, i) == IF i = 1 THEN s[i] ELSE f[i-1] \o s[i]
Flattens(f, s, n) == f = [i \in 1..n |-> Flat(f, s, i)]

LEMMA FlattenAt ==
    ASSUME NEW s, NEW n, NEW f, Flattens(f, s, n)
    PROVE  \A i \in 1..n : f[i] = Flat(f, s, i)
  BY DEF Flattens

LEMMA FlattenExists ==
    ASSUME NEW A, NEW s \in Seq(Seq(A))
    PROVE  \A n \in Nat : n <= Len(s) => \E f \in [1..n -> Seq(A)] : Flattens(f, s, n)
<1> DEFINE S == {n \in Nat : n <= Len(s) => \E f \in [1..n -> Seq(A)] : Flattens(f, s, n)}
<1>1. 0 \in S
  <2> DEFINE e == [i \in 1..0 |-> <<>>]
  <2>1. e \in [1..0 -> Seq(A)] OBVIOUS
  <2>2. Flattens(e, s, 0) BY DEF Flattens
  <2> QED BY <2>1, <2>2
<1>2. \A n \in Nat : n \in S => n + 1 \in S
  <2> SUFFICES ASSUME NEW n \in Nat, n \in S, n + 1 <= Len(s)
               PROVE  \E f \in [1..n+1 -> Seq(A)] : Flattens(f, s, n+1)
    OBVIOUS
  <2>1. PICK f \in [1..n -> Seq(A)] : Flattens(f, s, n) OBVIOUS
  <2>2. s[n+1] \in Seq(A) OBVIOUS
  <2> DEFINE last == IF n = 0 THEN s[n+1] ELSE f[n] \o s[n+1]
             g == [i \in 1..n+1 |-> IF i = n+1 THEN last ELSE f[i]]
  <2>3. last \in Seq(A) BY <2>2
  <2> HIDE DEF last
  <2>4. g \in [1..n+1 -> Seq(A)] /\ g[n+1] = last /\ \A i \in 1..n : g[i] = f[i] BY <2>3
  <2> HIDE DEF g
  <2>5. \A i \in 1..n+1 : g[i] = Flat(g, s, i)
    <3> SUFFICES ASSUME NEW i \in 1..n+1 PROVE g[i] = Flat(g, s, i)
      OBVIOUS
    <3>1. CASE i = n + 1 BY <3>1, <2>4 DEF last, Flat
    <3>2. CASE i \in 1..n
      <4>1. f[i] = Flat(f, s, i) BY <2>1, <3>2, FlattenAt
      <4>2. i # 1 => i - 1 \in 1..n BY <3>2
      <4> QED BY <4>1, <4>2, <3>2, <2>4 DEF Flat
    <3> QED BY <3>1, <3>2
  <2>6. Flattens(g, s, n+1) BY <2>4, <2>5 DEF Flattens
  <2> QED BY <2>4, <2>6
<1> HIDE DEF S
<1>3. Nat \subseteq S BY <1>1, <1>2, NatInd
<1> QED BY <1>3 DEF S
LEMMA FlattenTyped ==
    ASSUME NEW A, NEW s \in Seq(Seq(A)), NEW f, Flattens(f, s, Len(s))
    PROVE  f \in [1..Len(s) -> Seq(A)]
<1> DEFINE P(n) == f[n] \in Seq(A)
           S == {n \in Nat : n \in 1..Len(s) => P(n)}
<1> HIDE DEF P
<1>1. Len(s) \in Nat /\ \A i \in 1..Len(s) : s[i] \in Seq(A) OBVIOUS
<1>2. \A n \in Nat : n \in S => n + 1 \in S
  <2> SUFFICES ASSUME NEW n \in Nat, n \in S, n + 1 \in 1..Len(s) PROVE P(n + 1)
    BY DEF S
  <2>1. f[n + 1] = IF n + 1 = 1 THEN s[n + 1] ELSE f[(n + 1) - 1] \o s[n + 1] BY <1>1, FlattenAt DEF Flat
  <2>2. (n + 1) - 1 = n OBVIOUS
  <2>3. n # 0 => f[n] \in Seq(A) BY <1>1 DEF P
  <2> QED BY <1>1, <2>1, <2>2, <2>3 DEF P
<1>3. 0 \in S OBVIOUS
<1> HIDE DEF S
<1>4. Nat \subseteq S BY <1>2, <1>3, NatInd
<1>5. \A n \in 1..Len(s) : f[n] \in Seq(A) BY <1>1, <1>4 DEF S, P
<1>6. DOMAIN f = 1..Len(s) /\ f = [n \in DOMAIN f |-> f[n]] BY DEF Flattens
<1> QED BY <1>5, <1>6

LEMMA FlattenIs ==
    ASSUME NEW A, NEW s \in Seq(Seq(A)), s # <<>>
    PROVE  \E f \in [1..Len(s) -> Seq(A)] : Flattens(f, s, Len(s)) /\ FlattenSeq(s) = f[Len(s)]
<1> DEFINE h == CHOOSE f : f = [i \in 1..Len(s) |-> IF i = 1 THEN s[i] ELSE f[i-1] \o s[i]]
<1>1. Len(s) \in Nat /\ Len(s) # 0 OBVIOUS
<1>2. \E f : f = [i \in 1..Len(s) |-> IF i = 1 THEN s[i] ELSE f[i-1] \o s[i]]
  <2>1. PICK f \in [1..Len(s) -> Seq(A)] : Flattens(f, s, Len(s)) BY FlattenExists, <1>1, SMTT(60)
  <2> QED BY <2>1 DEF Flattens, Flat
<1>3. h = [i \in 1..Len(s) |-> IF i = 1 THEN s[i] ELSE h[i-1] \o s[i]]
  BY <1>2, Zenon
<1>4. FlattenSeq(s) = h[Len(s)] BY <1>1 DEF FlattenSeq
<1> HIDE DEF h
<1>5. Flattens(h, s, Len(s)) BY <1>3 DEF Flattens, Flat
<1>6. h \in [1..Len(s) -> Seq(A)] BY <1>5, FlattenTyped
<1> QED BY <1>4, <1>5, <1>6

-----------------------------------------------------------------------------
(* The fold that counts what ensure is asked for.                          *)

Spare(s) == FoldLeft(LAMBDA n, c : n + 1 + Extra(c), 0, s)
Count1(f, s, S) == IF S = {} THEN 0 ELSE f[S \ {Max(S)}] + 1 + Extra(s[Max(S)])
Counts(f, s, n) == f = [S \in SUBSET (1 .. n) |-> Count1(f, s, S)]

LEMMA ExtraNat == \A c : Extra(c) \in {0, 1, 5} BY DEF Extra

LEMMA MaxIs ==
    ASSUME NEW n \in Nat, NEW S \in SUBSET (1 .. n + 1), n + 1 \in S PROVE Max(S) = n + 1
<1>1. \A y \in S : n + 1 >= y OBVIOUS
<1>2. \A x \in S : (\A y \in S : x >= y) => x = n + 1 OBVIOUS
<1> QED BY <1>1, <1>2 DEF Max

LEMMA CountsExist ==
    ASSUME NEW s \in Seq(Nat)
    PROVE  \A n \in Nat : \E f : Counts(f, s, n) /\ f \in [SUBSET (1 .. n) -> Nat]
<1> DEFINE P(n) == \E f : Counts(f, s, n) /\ f \in [SUBSET (1 .. n) -> Nat]
           T == {n \in Nat : P(n)}
<1>1. 0 \in T
  <2> DEFINE e == [S \in SUBSET (1 .. 0) |-> 0]
  <2>1. \A S \in SUBSET (1 .. 0) : Count1(e, s, S) = 0 BY DEF Count1
  <2>2. Counts(e, s, 0) BY <2>1 DEF Counts
  <2> QED BY <2>2
<1>2. \A n \in Nat : n \in T => n + 1 \in T
  <2> HIDE DEF P
  <2> SUFFICES ASSUME NEW n \in Nat, P(n) PROVE P(n + 1) OBVIOUS
  <2>1. PICK f : Counts(f, s, n) /\ f \in [SUBSET (1 .. n) -> Nat] BY DEF P
  <2> DEFINE g == [S \in SUBSET (1 .. n + 1) |->
                     IF n + 1 \in S THEN f[S \ {n + 1}] + 1 + Extra(s[n + 1]) ELSE f[S]]
  <2>2. \A S \in SUBSET (1 .. n + 1) :
          /\ n + 1 \in S => S \ {n + 1} \in SUBSET (1 .. n)
          /\ n + 1 \notin S => S \in SUBSET (1 .. n)
    OBVIOUS
  <2>3. /\ g \in [SUBSET (1 .. n + 1) -> Nat]
        /\ \A S \in SUBSET (1 .. n) : g[S] = f[S]
        /\ \A S \in SUBSET (1 .. n + 1) :
             n + 1 \in S => g[S] = f[S \ {n + 1}] + 1 + Extra(s[n + 1])
    <3>1. Extra(s[n + 1]) \in Nat BY ExtraNat
    <3>2. \A S \in SUBSET (1 .. n + 1) :
             (IF n + 1 \in S THEN f[S \ {n + 1}] + 1 + Extra(s[n + 1]) ELSE f[S]) \in Nat
      BY <2>1, <2>2, <3>1
    <3>3. \A S \in SUBSET (1 .. n) : S \in SUBSET (1 .. n + 1) /\ n + 1 \notin S OBVIOUS
    <3>4. g \in [SUBSET (1 .. n + 1) -> Nat] BY <3>2
    <3> QED BY <3>3, <3>4
  <2> HIDE DEF g
  <2>4. ASSUME NEW S \in SUBSET (1 .. n + 1) PROVE g[S] = Count1(g, s, S)
    <3>1. CASE n + 1 \in S BY <2>2, <2>3, <3>1, MaxIs DEF Count1
    <3>2. CASE S \in SUBSET (1 .. n)
      <4>1. g[S] = Count1(f, s, S) BY <2>1, <2>3, <3>2 DEF Counts
      <4>2. S \ {Max(S)} \in SUBSET (1 .. n) BY <3>2
      <4> QED BY <2>3, <4>1, <4>2 DEF Count1
    <3> QED BY <2>2, <3>1, <3>2
  <2>5. Counts(g, s, n + 1) BY <2>3, <2>4 DEF Counts
  <2> QED BY <2>3, <2>5 DEF P
<1> HIDE DEF T
<1>3. Nat \subseteq T BY <1>1, <1>2, NatInd
<1> QED BY <1>3 DEF T

LEMMA SpareIs ==
    ASSUME NEW s \in Seq(Nat)
    PROVE  \E f \in [0 .. Len(s) -> Nat] :
             /\ f[0] = 0 /\ f[Len(s)] = Spare(s)
             /\ \A k \in 1 .. Len(s) : f[k] = f[k - 1] + 1 + Extra(s[k])
<1> DEFINE n == Len(s)
           iter == CHOOSE f : f = [S \in SUBSET DOMAIN s |-> Count1(f, s, S)]
<1>0. n \in Nat /\ DOMAIN s = 1 .. n OBVIOUS
<1>1. Spare(s) = iter[DOMAIN s] BY DEF Spare, FoldLeft, MapThenFoldSet, Count1, Max
<1>2. \E f : f = [S \in SUBSET DOMAIN s |-> Count1(f, s, S)] BY <1>0, CountsExist, ZenonT(60) DEF Counts
<1>3. iter = [S \in SUBSET DOMAIN s |-> Count1(iter, s, S)] BY <1>2, Zenon
<1> HIDE DEF iter
<1>4. \A S \in SUBSET (1 .. n) : iter[S] = Count1(iter, s, S) BY <1>0, <1>3
<1>5. iter[{}] = 0 BY <1>4 DEF Count1
<1>6. ASSUME NEW k \in 1 .. n PROVE iter[1 .. k] = iter[1 .. k - 1] + 1 + Extra(s[k])
  <2>1. 1 .. k \in SUBSET (1 .. n) /\ (1 .. k) \ {k} = 1 .. k - 1 /\ k \in 1 .. k BY <1>0
  <2>2. k - 1 \in Nat /\ (k - 1) + 1 = k BY <1>0
  <2>3. Max(1 .. k) = k BY <2>1, <2>2, MaxIs
  <2> QED BY <1>4, <2>1, <2>3 DEF Count1
<1> DEFINE f == [k \in 0 .. n |-> iter[1 .. k]]
<1>7. f[0] = 0 /\ f[n] = Spare(s) /\ \A k \in 1 .. n : f[k] = f[k - 1] + 1 + Extra(s[k])
  <2>1. 1 .. 0 = {} OBVIOUS
  <2> QED BY <1>0, <1>1, <1>5, <1>6, <2>1
<1> HIDE DEF f
<1> DEFINE T == {k \in Nat : k <= n => f[k] \in Nat}
<1>8. 0 \in T BY <1>7
<1>9. \A k \in Nat : k \in T => k + 1 \in T
  <2> SUFFICES ASSUME NEW k \in Nat, k \in T, k + 1 <= n PROVE f[k + 1] \in Nat BY <1>0
  <2>1. f[k + 1] = f[(k + 1) - 1] + 1 + Extra(s[k + 1]) BY <1>0, <1>7
  <2>2. (k + 1) - 1 = k /\ f[k] \in Nat BY <1>0
  <2> QED BY <2>1, <2>2, ExtraNat
<1> HIDE DEF T
<1>10. Nat \subseteq T BY <1>8, <1>9, NatInd
<1>11. \A k \in 0 .. n : f[k] \in Nat BY <1>0, <1>10 DEF T
<1>12. f \in [0 .. n -> Nat] BY <1>11 DEF f
<1> QED BY <1>7, <1>12

-----------------------------------------------------------------------------
(* print_number.                                                           *)

Digit == Seq(48 .. 57)
Numeral1(f, n) == (IF n < 10 THEN <<>> ELSE f[n \div 10]) \o <<48 + (n % 10)>>
Numerals(f, n) == f \in [0 .. n -> Digit] /\ \A i \in 0 .. n : f[i] = Numeral1(f, i)

LEMMA Tenth ==
    ASSUME NEW n \in Nat
    PROVE  /\ n \div 10 \in Nat /\ n % 10 \in 0 .. 9
           /\ n >= 10 => n \div 10 <= n - 1
  OBVIOUS

LEMMA NumeralTyped ==
    ASSUME NEW n \in Nat, NEW f, n >= 10 => f[n \div 10] \in Digit PROVE Numeral1(f, n) \in Digit
<1>1. <<48 + (n % 10)>> \in Digit BY Tenth DEF Digit
<1>2. (IF n < 10 THEN <<>> ELSE f[n \div 10]) \in Digit BY DEF Digit
<1> QED BY <1>1, <1>2 DEF Numeral1, Digit

LEMMA NumeralsExist == \A n \in Nat : \E f : Numerals(f, n)
<1> DEFINE S == {n \in Nat : \E f : Numerals(f, n)}
<1>1. 0 \in S
  <2> DEFINE e == [i \in 0 .. 0 |-> <<48>>]
  <2>1. 0 % 10 = 0 OBVIOUS
  <2>2. <<>> \o <<48 + 0>> = <<48>> OBVIOUS
  <2>3. \A i \in 0 .. 0 : i = 0 OBVIOUS
  <2>4. Numeral1(e, 0) = <<48>> BY <2>1, <2>2 DEF Numeral1
  <2>5. e \in [0 .. 0 -> Digit] /\ e[0] = <<48>> BY DEF Digit
  <2> HIDE DEF e
  <2>6. Numerals(e, 0) BY <2>3, <2>4, <2>5 DEF Numerals
  <2> QED BY <2>6
<1>2. \A n \in Nat : n \in S => n + 1 \in S
  <2> SUFFICES ASSUME NEW n \in Nat, n \in S PROVE \E f : Numerals(f, n + 1)
    OBVIOUS
  <2>1. PICK f : Numerals(f, n) OBVIOUS
  <2> DEFINE last == Numeral1(f, n + 1)
             g == [i \in 0 .. n + 1 |-> IF i = n + 1 THEN last ELSE f[i]]
  <2>2. n + 1 >= 10 => (n + 1) \div 10 \in 0 .. n BY Tenth
  <2>3. last \in Digit BY <2>1, <2>2, NumeralTyped DEF Numerals
  <2> HIDE DEF last
  <2>4. /\ g \in [0 .. n + 1 -> Digit] /\ g[n + 1] = last
        /\ \A i \in 0 .. n : g[i] = f[i]
    BY <2>1, <2>3 DEF Numerals
  <2> HIDE DEF g
  <2>5. \A i \in 0 .. n + 1 : g[i] = Numeral1(g, i)
    <3> SUFFICES ASSUME NEW i \in 0 .. n + 1 PROVE g[i] = Numeral1(g, i) OBVIOUS
    <3>1. i >= 10 => i \div 10 \in 0 .. n BY Tenth
    <3>2. Numeral1(g, i) = Numeral1(f, i) BY <3>1, <2>4 DEF Numeral1
    <3>3. i # n + 1 => i \in 0 .. n OBVIOUS
    <3> QED BY <2>1, <2>4, <3>2, <3>3 DEF last, Numerals
  <2> QED BY <2>4, <2>5 DEF Numerals
<1> HIDE DEF S
<1>3. Nat \subseteq S BY <1>1, <1>2, NatInd
<1> QED BY <1>3 DEF S

LEMMA NumeralsAgree ==
    ASSUME NEW m \in Nat, NEW n \in Nat, NEW f, NEW g, Numerals(f, m), Numerals(g, n)
    PROVE  \A k \in Nat : k <= m /\ k <= n => f[k] = g[k]
<1> DEFINE S == {k \in Nat : \A i \in 0 .. k : i <= m /\ i <= n => f[i] = g[i]}
<1>1. ASSUME NEW i \in Nat, i <= m, i <= n, i >= 10 => f[i \div 10] = g[i \div 10] PROVE f[i] = g[i]
  <2>1. i \in 0 .. m /\ i \in 0 .. n BY <1>1
  <2>2. f[i] = Numeral1(f, i) /\ g[i] = Numeral1(g, i) BY <2>1 DEF Numerals
  <2>3. CASE i < 10 BY <2>2, <2>3 DEF Numeral1
  <2>4. CASE i >= 10
    <3>1. ~ (i < 10) BY <2>4
    <3>2. f[i \div 10] = g[i \div 10] BY <1>1, <2>4
    <3> QED BY <2>2, <3>1, <3>2 DEF Numeral1
  <2> QED BY <2>3, <2>4
<1>2. 0 \in S BY <1>1
<1>3. \A k \in Nat : k \in S => k + 1 \in S
  <2> SUFFICES ASSUME NEW k \in Nat, k \in S, k + 1 <= m, k + 1 <= n PROVE f[k + 1] = g[k + 1]
    OBVIOUS
  <2>1. k + 1 >= 10 => (k + 1) \div 10 \in 0 .. k BY Tenth
  <2> QED BY <1>1, <2>1
<1> HIDE DEF S
<1>4. Nat \subseteq S BY <1>2, <1>3, NatInd
<1> QED BY <1>4 DEF S

LEMMA NumeralAt == \A n \in Nat : Numeral[n] = Numeral1(Numeral, n)
<1> DEFINE App(n) == CHOOSE f : Numerals(f, n)
           all == [n \in Nat |-> App(n)[n]]
<1>1. \A n \in Nat : Numerals(App(n), n) BY NumeralsExist
<1> HIDE DEF App
<1>2. \A n \in Nat : all[n] \in Digit BY <1>1 DEF Numerals
<1>3. ASSUME NEW n \in Nat PROVE all[n] = Numeral1(all, n)
  <2>1. all[n] = Numeral1(App(n), n) BY <1>1 DEF Numerals
  <2>2. ASSUME n >= 10 PROVE all[n \div 10] = App(n)[n \div 10]
    <3>1. n \div 10 \in Nat /\ n \div 10 <= n BY <2>2, Tenth
    <3> QED BY <3>1, <1>1, NumeralsAgree
  <2> QED BY <2>1, <2>2 DEF Numeral1
<1>4. all = [n \in Nat |-> Numeral1(all, n)] BY <1>3
<1> HIDE DEF all
<1>5. Numeral = [n \in Nat |-> Numeral1(Numeral, n)] BY <1>4 DEF Numeral, Numeral1
<1> QED BY <1>5

LEMMA NumeralIs == \A n \in Nat : Numeral[n] \in Digit
<1> DEFINE S == {k \in Nat : \A i \in 0 .. k : Numeral[i] \in Digit}
<1>1. ASSUME NEW i \in Nat, i >= 10 => Numeral[i \div 10] \in Digit PROVE Numeral[i] \in Digit
  <2>1. Numeral[i] = Numeral1(Numeral, i) BY NumeralAt
  <2> QED BY <1>1, <2>1, NumeralTyped
<1>2. 0 \in S BY <1>1
<1>3. \A k \in Nat : k \in S => k + 1 \in S
  <2> SUFFICES ASSUME NEW k \in Nat, k \in S PROVE Numeral[k + 1] \in Digit OBVIOUS
  <2>1. k + 1 >= 10 => (k + 1) \div 10 \in 0 .. k BY Tenth
  <2> QED BY <1>1, <2>1
<1> HIDE DEF S
<1>4. Nat \subseteq S BY <1>2, <1>3, NatInd
<1> QED BY <1>4 DEF S

-----------------------------------------------------------------------------
(* What is printed.                                                        *)

Fields == {"version", "data", "type", "message", "valve_no"}
\* What is written of a piece is covered by what ensure is asked for, and the
\* byte that it adds.
Pieces == {p \in [op : {"piece"}, bytes : Seq(Nat), need : Nat, size : Nat] : p.size <= p.need + 1}

LEMMA PieceIs ==
    ASSUME NEW bytes \in Seq(Nat), NEW n \in Nat, NEW end \in {0, 1}, Len(bytes) + end <= n + 1
    PROVE  Piece(bytes, n, end) \in Pieces
<1>1. Len(bytes) + end \in Nat OBVIOUS
<1> QED BY <1>1 DEF Piece, Pieces

LEMMA SmallPieces ==
    /\ \A c \in Nat : /\ Piece(<<c>>, 1, 0) \in Pieces /\ Piece(<<c>>, 2, 0) \in Pieces
                     /\ Piece(<<c>>, 2, 1) \in Pieces
    /\ Piece(<<>>, 1, 1) \in Pieces
<1>1. <<>> \in Seq(Nat) /\ Len(<<>>) + 1 = 1 /\ Len(<<>>) + 1 <= 1 + 1 OBVIOUS
<1>2. Piece(<<>>, 1, 1) \in Pieces BY <1>1 DEF Piece, Pieces
<1>3. ASSUME NEW c \in Nat
      PROVE  /\ Piece(<<c>>, 1, 0) \in Pieces /\ Piece(<<c>>, 2, 0) \in Pieces
             /\ Piece(<<c>>, 2, 1) \in Pieces
  <2>1. <<c>> \in Seq(Nat) /\ Len(<<c>>) + 0 = 1 /\ Len(<<c>>) + 1 = 2 OBVIOUS
  <2>2. Piece(<<c>>, 1, 0) \in Pieces BY <2>1 DEF Piece, Pieces
  <2>3. Piece(<<c>>, 2, 0) \in Pieces BY <2>1 DEF Piece, Pieces
  <2>4. Piece(<<c>>, 2, 1) \in Pieces BY <2>1 DEF Piece, Pieces
  <2> QED BY <2>2, <2>3, <2>4
<1> QED BY <1>2, <1>3

LEMMA SeqIs ==
    ASSUME NEW A, NEW s \in Seq(A)
    PROVE  /\ DOMAIN s = 1 .. Len(s) /\ Len(s) \in Nat
           /\ \A i \in 1 .. Len(s) : s[i] \in A
  OBVIOUS

LEMMA ConcatIs ==
    ASSUME NEW A, NEW s \in Seq(A), NEW t \in Seq(A)
    PROVE  s \o t \in Seq(A) /\ Len(s \o t) = Len(s) + Len(t)
  OBVIOUS

\* A byte is escaped by as many bytes as Extra counts.
LEMMA EscapedIs ==
    ASSUME NEW c \in 1..255
    PROVE  Escaped(c) \in Seq(Nat) /\ Len(Escaped(c)) = 1 + Extra(c)
<1>1. CASE c \in Short
  <2>1. PICK l \in DOMAIN Escapes \ {47} : Escapes[l] = c BY <1>1 DEF Short
  <2>2. Letter(c) \in DOMAIN Escapes BY <2>1 DEF Letter
  <2>3. Letter(c) \in Nat BY <2>2 DEF Escapes, Quote, Backslash
  <2>4. Escaped(c) = <<Backslash, Letter(c)>> /\ Extra(c) = 1 BY <1>1 DEF Escaped, Extra
  <2> HIDE DEF Letter
  <2> QED BY <2>3, <2>4 DEF Backslash
<1>2. CASE c \notin Short /\ c < 32
  <2>1. /\ Escaped(c) = <<Backslash, LetterU, 48, 48, Hex(c \div 16), Hex(c % 16)>>
        /\ Extra(c) = 5
    BY <1>2 DEF Escaped, Extra
  <2>2. c \div 16 \in Nat /\ c % 16 \in Nat OBVIOUS
  <2>3. Hex(c \div 16) \in Nat /\ Hex(c % 16) \in Nat BY <2>2 DEF Hex
  <2> QED BY <2>1, <2>3 DEF Backslash, LetterU
<1>3. CASE c \notin Short /\ ~ (c < 32)
  <2>1. Escaped(c) = <<c>> /\ Extra(c) = 0 BY <1>3 DEF Escaped, Extra
  <2> QED BY <2>1
<1> QED BY <1>1, <1>2, <1>3, Zenon

\* So is a string.
LEMMA EscapedString ==
    ASSUME NEW s \in Seq(1..255)
    PROVE  LET t == FlattenSeq([i \in DOMAIN s |-> Escaped(s[i])])
           IN  t \in Seq(Nat) /\ Len(t) = Spare(s) /\ Spare(s) \in Nat
<1> DEFINE e == [i \in DOMAIN s |-> Escaped(s[i])]
<1>0. DOMAIN s = 1 .. Len(s) /\ Len(s) \in Nat /\ \A i \in 1 .. Len(s) : s[i] \in 1..255
  BY SeqIs
<1>1. e \in Seq(Seq(Nat)) /\ Len(e) = Len(s) /\ \A i \in 1 .. Len(s) : e[i] = Escaped(s[i])
  <2>1. \A i \in 1 .. Len(s) : Escaped(s[i]) \in Seq(Nat) BY <1>0, EscapedIs
  <2> QED BY <1>0, <2>1
<1> HIDE DEF e
<1>2. PICK n \in [0 .. Len(s) -> Nat] :
        /\ n[0] = 0 /\ n[Len(s)] = Spare(s)
        /\ \A k \in 1 .. Len(s) : n[k] = n[k - 1] + 1 + Extra(s[k])
  <2>1. 1..255 \subseteq Nat OBVIOUS
  <2>2. \A A, B : A \subseteq B => Seq(A) \subseteq Seq(B) OBVIOUS
  <2>3. s \in Seq(Nat) BY <2>1, <2>2
  <2> QED BY <2>3, SpareIs
<1>3. CASE s = <<>>
  <2>1. Len(e) = 0 /\ e = <<>> BY <1>1, <1>3
  <2>2. FlattenSeq(e) = e BY <2>1 DEF FlattenSeq
  <2> QED BY <1>2, <1>3, <2>1, <2>2 DEF e
<1>4. CASE s # <<>>
  <2>0. e # <<>> BY <1>1, <1>4
  <2>1. PICK f \in [1 .. Len(e) -> Seq(Nat)] : Flattens(f, e, Len(e)) /\ FlattenSeq(e) = f[Len(e)]
    BY <1>1, <2>0, FlattenIs
  <2>2. \A i \in 1 .. Len(s) : f[i] = IF i = 1 THEN e[i] ELSE f[i - 1] \o e[i]
    <3>1. \A i \in 1 .. Len(e) : f[i] = Flat(f, e, i) BY <2>1, FlattenAt
    <3> QED BY <1>1, <3>1 DEF Flat
  <2> DEFINE P(k) == Len(f[k]) = n[k]
             T == {k \in Nat : k \in 1 .. Len(s) => P(k)}
  <2>3. 0 \in T OBVIOUS
  <2>4. \A k \in Nat : k \in T => k + 1 \in T
    <3> HIDE DEF P
    <3> SUFFICES ASSUME NEW k \in Nat, k \in T, k + 1 \in 1 .. Len(s) PROVE P(k + 1) OBVIOUS
    <3> DEFINE x == e[k + 1]
    <3>1. x \in Seq(Nat) /\ Len(x) = 1 + Extra(s[k + 1]) BY <1>0, <1>1, EscapedIs
    <3>2. n[k + 1] = n[k] + 1 + Extra(s[k + 1]) /\ n[k] \in Nat
      <4>1. (k + 1) - 1 = k /\ k \in 0 .. Len(s) BY <1>0
      <4> QED BY <1>2, <4>1
    <3>3. Extra(s[k + 1]) \in Nat BY ExtraNat
    <3>4. CASE k = 0 BY <1>2, <2>2, <3>1, <3>2, <3>3, <3>4 DEF P
    <3>5. CASE k # 0
      <4>1. k \in 1 .. Len(s) /\ k + 1 # 1 /\ (k + 1) - 1 = k BY <1>0, <3>5
      <4>2. f[k] \in Seq(Nat) /\ Len(f[k]) = n[k] BY <1>1, <2>1, <4>1 DEF P
      <4>3. f[k + 1] = f[k] \o x BY <2>2, <4>1
      <4>4. Len(f[k] \o x) = Len(f[k]) + Len(x) BY <3>1, <4>2, ConcatIs
      <4> QED BY <3>1, <3>2, <3>3, <4>2, <4>3, <4>4 DEF P
    <3> QED BY <3>4, <3>5
  <2> HIDE DEF T
  <2>5. Nat \subseteq T BY <2>3, <2>4, NatInd
  <2>6. Len(s) \in 1 .. Len(s) BY <1>0, <1>4
  <2>7. Len(f[Len(s)]) = n[Len(s)] BY <1>0, <2>5, <2>6 DEF T, P
  <2>8. FlattenSeq(e) = f[Len(s)] /\ f[Len(s)] \in Seq(Nat) BY <1>1, <2>1, <2>6
  <2>9. n[Len(s)] \in Nat BY <1>0, <1>2
  <2> QED BY <1>2, <2>7, <2>8, <2>9 DEF e
<1> QED BY <1>3, <1>4

LEMMA StringPieceIs ==
    ASSUME NEW s \in Seq(1..255)
    PROVE  StringPiece(s) \in Pieces
<1> DEFINE t == FlattenSeq([i \in DOMAIN s |-> Escaped(s[i])])
<1>1. t \in Seq(Nat) /\ Len(t) = Spare(s) /\ Spare(s) \in Nat BY EscapedString
<1>2. StringPiece(s) = Piece(<<Quote>> \o t \o <<Quote>>, Spare(s) + 3, 1) BY DEF StringPiece, Spare
<1> HIDE DEF t
<1>3. <<Quote>> \o t \o <<Quote>> \in Seq(Nat) /\ Len(<<Quote>> \o t \o <<Quote>>) = Len(t) + 2
  <2>1. <<Quote>> \in Seq(Nat) /\ Len(<<Quote>>) = 1 BY DEF Quote
  <2>2. <<Quote>> \o t \in Seq(Nat) /\ Len(<<Quote>> \o t) = 1 + Len(t) BY <1>1, <2>1
  <2> QED BY <1>1, <2>1, <2>2
<1>4. Spare(s) + 3 \in Nat /\ Len(t) + 2 + 1 <= Spare(s) + 3 + 1 BY <1>1
<1> QED BY <1>2, <1>3, <1>4, PieceIs

LEMMA NumberPieceIs ==
    ASSUME NEW n \in Int
    PROVE  PrintNumber(n) \in Seq(Nat) /\ NumberPiece(n) \in Pieces
<1>1. PrintNumber(n) \in Seq(Nat)
  <2>1. CASE n < 0
    <3>1. Numeral[-n] \in Seq(Nat) BY <2>1, NumeralIs DEF Digit
    <3> QED BY <2>1, <3>1 DEF PrintNumber
  <2>2. CASE ~ (n < 0)
    <3>1. Numeral[n] \in Seq(Nat) BY <2>2, NumeralIs DEF Digit
    <3> QED BY <2>2, <3>1 DEF PrintNumber
  <2> QED BY <2>1, <2>2
<1>2. Len(PrintNumber(n)) \in Nat BY <1>1
<1> QED BY <1>1, <1>2, PieceIs DEF NumberPiece

LEMMA FlattenType ==
    ASSUME NEW A, NEW s \in Seq(Seq(A))
    PROVE  FlattenSeq(s) \in Seq(A)
<1>1. CASE s = <<>>
  <2>1. Len(s) = 0 BY <1>1
  <2>2. FlattenSeq(s) = <<>> BY <1>1, <2>1 DEF FlattenSeq
  <2> QED BY <2>2
<1>2. CASE s # <<>>
  <2>1. Len(s) \in 1 .. Len(s) BY <1>2
  <2>2. PICK f \in [1 .. Len(s) -> Seq(A)] : FlattenSeq(s) = f[Len(s)] BY <1>2, FlattenIs
  <2> QED BY <2>1, <2>2
<1> QED BY <1>1, <1>2

LEMMA NameIs == \A f \in Fields : Name[f] \in Seq(1..255)
<1>1. /\ <<118>> \in Seq(1..255) /\ <<100>> \in Seq(1..255) /\ <<116>> \in Seq(1..255)
      /\ <<109>> \in Seq(1..255) /\ <<110>> \in Seq(1..255)
  OBVIOUS
<1>2. /\ Name["version"] = <<118>> /\ Name["data"] = <<100>> /\ Name["type"] = <<116>>
      /\ Name["message"] = <<109>> /\ Name["valve_no"] = <<110>>
  BY DEF Name
<1> HIDE DEF Name
<1> SUFFICES ASSUME NEW f \in Fields PROVE Name[f] \in Seq(1..255) OBVIOUS
<1>3. CASE f = "version" BY <1>1, <1>2, <1>3, ZenonT(60)
<1>4. CASE f = "data" BY <1>1, <1>2, <1>4, ZenonT(60)
<1>5. CASE f = "type" BY <1>1, <1>2, <1>5, ZenonT(60)
<1>6. CASE f = "message" BY <1>1, <1>2, <1>6, ZenonT(60)
<1>7. CASE f = "valve_no" BY <1>1, <1>2, <1>7, Zenon
<1> QED BY <1>3, <1>4, <1>5, <1>6, <1>7 DEF Fields

\* An object is printed in pieces, the first of which is its brace.
LEMMA ObjectIs ==
    ASSUME NEW fields \in Seq(Fields), NEW value,
           \A f \in ToSet(fields) : value[f] \in Seq(Pieces)
    PROVE  /\ print_object(fields, value) \in Seq(Pieces)
           /\ print_object(fields, value) # <<>>
           /\ print_object(fields, value)[1].bytes # <<>>
<1> DEFINE first == Piece(<<Open["Object"]>>, 2, 0)
           tail(i) == <<IF i < Len(fields) THEN Piece(<<Comma>>, 2, 1) ELSE Piece(<<>>, 1, 1)>>
           part(i) == <<StringPiece(Name[fields[i]]), Piece(<<Colon>>, 1, 0)>> \o value[fields[i]] \o tail(i)
           parts == [i \in DOMAIN fields |-> part(i)]
           last == Piece(<<Close["Object"]>>, 2, 1)
<1>1. first \in Pieces /\ last \in Pieces /\ first.bytes # <<>>
  <2>1. Open["Object"] \in Nat /\ Close["Object"] \in Nat BY DEF Open, Close
  <2>2. first.bytes = <<Open["Object"]>> /\ first.bytes # <<>> BY DEF Piece
  <2> QED BY <2>1, <2>2, SmallPieces
<1>2. Piece(<<Comma>>, 2, 1) \in Pieces /\ Piece(<<>>, 1, 1) \in Pieces /\ Piece(<<Colon>>, 1, 0) \in Pieces
  BY SmallPieces DEF Comma, Colon
<1>3. ASSUME NEW i \in DOMAIN fields PROVE part(i) \in Seq(Pieces)
  <2>1. fields[i] \in Fields /\ fields[i] \in ToSet(fields) BY <1>3 DEF ToSet
  <2>2. StringPiece(Name[fields[i]]) \in Pieces BY <2>1, NameIs, StringPieceIs
  <2>3. <<StringPiece(Name[fields[i]]), Piece(<<Colon>>, 1, 0)>> \in Seq(Pieces) BY <1>2, <2>2
  <2>4. tail(i) \in Seq(Pieces) BY <1>2
  <2>5. value[fields[i]] \in Seq(Pieces) BY <2>1
  <2> HIDE DEF tail
  <2> QED BY <2>3, <2>4, <2>5, ConcatIs
<1>4. print_object(fields, value) = <<first>> \o FlattenSeq(parts) \o <<last>> BY DEF print_object
<1> HIDE DEF first, part, last
<1>5. parts \in Seq(Seq(Pieces)) BY <1>3, SeqIs
<1>6. FlattenSeq(parts) \in Seq(Pieces) BY <1>5, FlattenType
<1> HIDE DEF parts
<1> DEFINE body == FlattenSeq(parts)
<1> HIDE DEF body
<1>7. body \in Seq(Pieces) BY <1>6 DEF body
<1>8. /\ <<first>> \o body \in Seq(Pieces) /\ (<<first>> \o body)[1] = first
      /\ Len(<<first>> \o body) >= 1
  BY <1>1, <1>7
<1>9. /\ (<<first>> \o body) \o <<last>> \in Seq(Pieces)
      /\ ((<<first>> \o body) \o <<last>>)[1] = first
      /\ Len((<<first>> \o body) \o <<last>>) >= 1
  <2> DEFINE b == <<first>> \o body
  <2> HIDE DEF b
  <2>1. b \in Seq(Pieces) /\ b[1] = first /\ Len(b) >= 1 BY <1>8 DEF b
  <2>2. b \o <<last>> \in Seq(Pieces) /\ (b \o <<last>>)[1] = first /\ Len(b \o <<last>>) >= 1
    BY <1>1, <2>1
  <2> QED BY <2>2 DEF b
<1> QED BY <1>1, <1>4, <1>9 DEF body

-----------------------------------------------------------------------------
(* The inductive invariant.                                                *)

Tasks == [op : {"new", "add", "refuse", "print"}, name : Fields \cup {"root"}]
Final == Do("shrink", "root")

EncTypes ==
    /\ out \in Seq(Nat) /\ used \in Nat /\ room \in Nat
    /\ refused \in Seq({"item", "key", "print", "shrink"})
    /\ msg.text \in Seq(1..255) /\ msg.valve \in Int
KidsOK ==
    /\ kids \in [{"root", "data"} -> Seq(Fields)]
    /\ ToSet(kids["root"]) \subseteq {"version", "data", "type"}
    /\ ToSet(kids["data"]) \subseteq {"message", "valve_no"}
    /\ "type" \in ToSet(kids["root"]) => msg.type \in DOMAIN TypeName

\* What is next to do when an item has been made.
Follows(d) == CASE d.name = "version" -> Do("new", "root")
                [] d.name = "root" -> Do("add", "version")
                [] OTHER -> Do("add", d.name)
\* encode_message still makes items,
Building ==
    /\ todo \in Seq(Tasks) /\ todo # <<>> /\ todo[Len(todo)].op = "print"
    /\ \A i \in 1 .. Len(todo) :
         /\ todo[i].op = "new" => todo[i + 1] = Follows(todo[i])
         /\ todo[i] = Do("new", "version") => i = 1
         /\ todo[i] = Do("new", "root") => i = 1 \/ (i = 2 /\ todo[1] = Do("new", "version"))
         /\ todo[i].op = "add" => todo[i].name # "root"
         /\ todo[i].op = "add" /\ todo[i].name = "type" => msg.type \in DOMAIN TypeName
\* or cJSON_PrintUnformatted writes them.
Printing ==
    /\ todo \in Seq(Pieces \cup {Final}) /\ todo # <<>> /\ todo[Len(todo)] = Final
    /\ \A i \in 1 .. Len(todo) - 1 : todo[i] \in Pieces

\* The failures that cJSON reports, and that lose nothing.
Clean == \A i \in DOMAIN refused : refused[i] \in {"item", "print"}
\* data is a child of root before it gets children.
DataFirst ==
    \A i \in 1 .. Len(todo) :
      todo[i].op = "add" /\ Parent(todo[i].name) = "data" =>
        \/ "data" \in ToSet(kids["root"])
        \/ \E j \in 1 .. i - 1 : todo[j] = Do("add", "data")
\* What can be allocated: the tree, and the item that has no parent yet.
Held == CASE todo[1] = Do("new", "version") -> {}
          [] todo[1] = Do("new", "root") -> Own("version")
          [] todo[1].op = "add" -> Tree("root") \cup Own(todo[1].name)
          [] OTHER -> Tree("root")
BuildHeld == Building => out = <<>> /\ blocks \subseteq Held /\ DataFirst
PrintHeld ==
    Printing => /\ <<"buffer">> \in blocks
                /\ blocks \subseteq Tree("root") \cup {<<"buffer">>}
                /\ out # <<>> \/ (todo[1] \in Pieces /\ todo[1].bytes # <<>>)
IdleHeld == todo = <<>> => blocks = IF out = <<>> THEN {} ELSE {<<"buffer">>}
BlocksOK == IdleHeld /\ BuildHeld /\ PrintHeld
EncInv == /\ EncTypes /\ KidsOK /\ PrintFits
          /\ todo = <<>> \/ Building \/ Printing
          /\ Clean => BlocksOK

LEMMA TypeNameIs == \A t \in DOMAIN TypeName : TypeName[t] \in Seq(1..255)
<1>1. /\ <<83, 82>> \in Seq(1..255) /\ <<79>> \in Seq(1..255) /\ <<86>> \in Seq(1..255)
      /\ <<75>> \in Seq(1..255)
  OBVIOUS
<1>2. /\ DOMAIN TypeName = {"SOFT_ERROR", "HARD_ERROR_OTHER", "HARD_ERROR_VALVE", "KEEP_ALIVE"}
      /\ TypeName["SOFT_ERROR"] = <<83, 82>> /\ TypeName["HARD_ERROR_OTHER"] = <<79>>
      /\ TypeName["HARD_ERROR_VALVE"] = <<86>> /\ TypeName["KEEP_ALIVE"] = <<75>>
  BY DEF TypeName
<1> HIDE DEF TypeName
<1> SUFFICES ASSUME NEW t \in DOMAIN TypeName PROVE TypeName[t] \in Seq(1..255) OBVIOUS
<1>3. CASE t = "SOFT_ERROR" BY <1>1, <1>2, <1>3, Zenon
<1>4. CASE t = "HARD_ERROR_OTHER" BY <1>1, <1>2, <1>4, Zenon
<1>5. CASE t = "HARD_ERROR_VALVE" BY <1>1, <1>2, <1>5, Zenon
<1>6. CASE t = "KEEP_ALIVE" BY <1>1, <1>2, <1>6, Zenon
<1> QED BY <1>2, <1>3, <1>4, <1>5, <1>6

LEMMA ScalarIs ==
    ASSUME EncTypes, NEW f \in Fields \ {"data"}, f = "type" => msg.type \in DOMAIN TypeName
    PROVE  Scalar(f) \in Seq(Pieces)
<1>1. CASE f = "version"
  <2>1. NumberPiece(DATA_FORMAT_VERSION) \in Pieces BY NumberPieceIs DEF DATA_FORMAT_VERSION
  <2>2. Scalar(f) = <<NumberPiece(DATA_FORMAT_VERSION)>> BY <1>1 DEF Scalar
  <2> QED BY <2>1, <2>2
<1>2. CASE f = "type"
  <2>1. StringPiece(TypeName[msg.type]) \in Pieces BY <1>2, TypeNameIs, StringPieceIs
  <2>2. Scalar(f) = <<StringPiece(TypeName[msg.type])>> BY <1>2 DEF Scalar
  <2> QED BY <2>1, <2>2
<1>3. CASE f = "message"
  <2>1. StringPiece(msg.text) \in Pieces BY StringPieceIs DEF EncTypes
  <2>2. Scalar(f) = <<StringPiece(msg.text)>> BY <1>3 DEF Scalar
  <2> QED BY <2>1, <2>2
<1>4. CASE f = "valve_no"
  <2>1. NumberPiece(msg.valve) \in Pieces BY NumberPieceIs DEF EncTypes
  <2>2. Scalar(f) = <<NumberPiece(msg.valve)>> BY <1>4 DEF Scalar
  <2> QED BY <2>1, <2>2
<1> QED BY <1>1, <1>2, <1>3, <1>4 DEF Fields

LEMMA PrintValueIs ==
    ASSUME EncTypes, KidsOK, NEW f \in ToSet(kids["root"])
    PROVE  print_value(f) \in Seq(Pieces)
<1>1. f \in {"version", "data", "type"} /\ f \in Fields BY DEF KidsOK, Fields
<1>2. CASE f = "data"
  <2> DEFINE value == [g \in ToSet(kids.data) |-> Scalar(g)]
  <2>1. ASSUME NEW g \in ToSet(kids.data) PROVE value[g] \in Seq(Pieces)
    <3>1. g \in Fields \ {"data"} /\ g # "type" BY DEF KidsOK, Fields
    <3> QED BY <3>1, ScalarIs
  <2>2. print_value(f) = print_object(kids.data, value) BY <1>2 DEF print_value
  <2> HIDE DEF value
  <2>3. kids.data \in Seq(Fields) BY DEF KidsOK
  <2> QED BY <2>1, <2>2, <2>3, ObjectIs
<1>3. CASE f # "data"
  <2>1. Scalar(f) \in Seq(Pieces) BY <1>1, <1>3, ScalarIs DEF KidsOK
  <2> QED BY <1>3, <2>1 DEF print_value
<1> QED BY <1>2, <1>3

\* What is below an object.
LEMMA TreeIs ==
    ASSUME KidsOK
    PROVE  /\ Tree("version") = Own("version")
           /\ Tree("root") = (UNION {Own(g) : g \in {"root"} \cup ToSet(kids["root"])})
                 \cup IF "data" \in ToSet(kids["root"])
                      THEN (UNION {Own(g) : g \in ToSet(kids["data"])}) ELSE {}
           /\ <<"buffer">> \notin Tree("root")
<1>1. /\ DOMAIN kids = {"root", "data"}
      /\ "root" \notin ToSet(kids["root"])
  BY DEF KidsOK
<1>2. /\ Linked("root") = ToSet(kids["root"]) /\ Linked("version") = {}
      /\ \A h \in Linked("root") : Linked(h) = IF h = "data" THEN ToSet(kids["data"]) ELSE {}
  BY <1>1 DEF Linked
<1>3. Tree("version") = Own("version") BY <1>2 DEF Tree
<1>4. UNION {Linked(h) : h \in Linked("root")}
        = IF "data" \in ToSet(kids["root"]) THEN ToSet(kids["data"]) ELSE {}
  BY <1>2
<1>5. Tree("root") = (UNION {Own(g) : g \in {"root"} \cup ToSet(kids["root"])})
                 \cup IF "data" \in ToSet(kids["root"])
                      THEN (UNION {Own(g) : g \in ToSet(kids["data"])}) ELSE {}
  <2>1. \A A, B : UNION {Own(g) : g \in A \cup B}
                   = (UNION {Own(g) : g \in A}) \cup (UNION {Own(g) : g \in B})
    OBVIOUS
  <2>2. UNION {Own(g) : g \in {}} = {} OBVIOUS
  <2> DEFINE below == IF "data" \in ToSet(kids["root"]) THEN ToSet(kids["data"]) ELSE {}
  <2>3. Tree("root") = UNION {Own(g) : g \in ({"root"} \cup ToSet(kids["root"])) \cup below}
    BY <1>2, <1>4, Zenon DEF Tree
  <2>4. Tree("root") = (UNION {Own(g) : g \in {"root"} \cup ToSet(kids["root"])})
                       \cup (UNION {Own(g) : g \in below})
    BY <2>1, <2>3
  <2> QED BY <2>2, <2>4
<1>6. \A f : <<"buffer">> \notin Own(f)
  <2>1. \A f, p : <<f, p>> # <<"buffer">>
    <3>1. \A f, p : Len(<<f, p>>) = 2 /\ Len(<<"buffer">>) = 1 OBVIOUS
    <3> QED BY <3>1
  <2> QED BY <2>1, Zenon DEF Own
<1>7. <<"buffer">> \notin Tree("root") BY <1>6 DEF Tree
<1> QED BY <1>3, <1>5, <1>7

-----------------------------------------------------------------------------
(* What encode_message has to do.                                          *)

\* The list of it, as far as it has been written down.
Made(s, t) ==
    /\ s \in Seq(Tasks) /\ Len(s) >= 5
    /\ s[1] = Do("new", "version") /\ s[5] = Do("add", "data")
    /\ \A i \in 1 .. Len(s) :
         /\ s[i].op = "new" => i < Len(s) /\ s[i + 1] = Follows(s[i])
         /\ s[i] = Do("new", "version") => i = 1
         /\ s[i] = Do("new", "root") => i = 2
         /\ s[i].op = "add" => /\ s[i].name # "root"
                               /\ s[i].name = "type" => t \in DOMAIN TypeName
                               /\ Parent(s[i].name) = "data" => i > 5

LEMMA AppendIs ==
    ASSUME NEW A, NEW s \in Seq(A), NEW a \in A
    PROVE  /\ s \o <<a>> \in Seq(A) /\ Len(s \o <<a>>) = Len(s) + 1
           /\ (s \o <<a>>)[Len(s) + 1] = a
           /\ \A i \in 1 .. Len(s) : (s \o <<a>>)[i] = s[i]
  OBVIOUS

LEMMA TwoIs == ASSUME NEW A, NEW x \in A, NEW y \in A PROVE <<x, y>> = <<x>> \o <<y>>
<1> DEFINE u == <<x>> \o <<y>>
           v == <<x, y>>
<1>1. <<x>> \in Seq(A) /\ <<y>> \in Seq(A) /\ v \in Seq(A) OBVIOUS
<1>2. u \in Seq(A) /\ Len(u) = 2 /\ u[1] = x /\ u[2] = y BY <1>1
<1>3. Len(v) = 2 /\ \A i \in 1 .. 2 : u[i] = v[i] BY <1>2
<1> HIDE DEF u, v
<1>4. u = v BY <1>1, <1>2, <1>3, SeqEqual
<1> QED BY <1>4 DEF u, v

LEMMA FirstMade ==
    ASSUME NEW t
    PROVE  Made(<<Do("new", "version"), Do("new", "root"), Do("add", "version"),
                  Do("new", "data"), Do("add", "data")>>, t)
<1> DEFINE s == <<Do("new", "version"), Do("new", "root"), Do("add", "version"),
                  Do("new", "data"), Do("add", "data")>>
<1>1. \A o \in {"new", "add", "refuse", "print"}, f \in Fields \cup {"root"} :
        Do(o, f) \in Tasks /\ Do(o, f).op = o /\ Do(o, f).name = f
  BY DEF Do, Tasks
<1>2. s \in Seq(Tasks) /\ Len(s) = 5 BY <1>1 DEF Fields
<1>3. /\ s[1] = Do("new", "version") /\ s[2] = Do("new", "root") /\ s[3] = Do("add", "version")
      /\ s[4] = Do("new", "data") /\ s[5] = Do("add", "data")
  OBVIOUS
<1> HIDE DEF s
<1>4. ASSUME NEW i \in 1 .. 5
      PROVE  /\ s[i].op = "new" => i < 5 /\ s[i + 1] = Follows(s[i])
             /\ s[i] = Do("new", "version") => i = 1
             /\ s[i] = Do("new", "root") => i = 2
             /\ s[i].op = "add" => s[i].name \in {"version", "data"}
  <2>1. CASE i = 1 BY <1>3, <2>1 DEF Do, Follows
  <2>2. CASE i = 2 BY <1>3, <2>2 DEF Do, Follows
  <2>3. CASE i = 3 BY <1>3, <2>3 DEF Do, Follows
  <2>4. CASE i = 4 BY <1>3, <2>4 DEF Do, Follows
  <2>5. CASE i = 5 BY <1>3, <2>5 DEF Do, Follows
  <2> QED BY <2>1, <2>2, <2>3, <2>4, <2>5
<1>5. Made(s, t) BY <1>2, <1>3, <1>4 DEF Made, Parent
<1> QED BY <1>5 DEF s

LEMMA PairMade ==
    ASSUME NEW s, NEW t, Made(s, t), NEW f \in {"type", "message", "valve_no"},
           f = "type" => t \in DOMAIN TypeName
    PROVE  Made(s \o <<Do("new", f), Do("add", f)>>, t)
<1> DEFINE a == s \o <<Do("new", f)>>
           b == a \o <<Do("add", f)>>
<1>0. s \in Seq(Tasks) /\ Len(s) \in Nat /\ Len(s) >= 5 BY DEF Made
<1>1. /\ Do("new", f) \in Tasks /\ Do("add", f) \in Tasks
      /\ Do("new", f).op = "new" /\ Do("add", f).op = "add" /\ Do("add", f).name = f
      /\ Do("new", f).name = f
  BY DEF Do, Tasks, Fields
<1>2. s \o <<Do("new", f), Do("add", f)>> = b
  <2> DEFINE x == Do("new", f)
             y == Do("add", f)
  <2>1. <<x>> \in Seq(Tasks) /\ <<y>> \in Seq(Tasks) BY <1>1
  <2>2. <<x, y>> = <<x>> \o <<y>> BY <1>1, TwoIs
  <2> HIDE DEF x, y
  <2>3. s \o (<<x>> \o <<y>>) = (s \o <<x>>) \o <<y>> BY <1>0, <2>1, ConcatAssociative
  <2> QED BY <2>2, <2>3 DEF x, y
<1>3. /\ a \in Seq(Tasks) /\ Len(a) = Len(s) + 1 /\ a[Len(s) + 1] = Do("new", f)
      /\ \A i \in 1 .. Len(s) : a[i] = s[i]
  BY <1>0, <1>1, AppendIs
<1> HIDE DEF a
<1>4. /\ b \in Seq(Tasks) /\ Len(b) = Len(s) + 2
      /\ b[Len(s) + 1] = Do("new", f) /\ b[Len(s) + 2] = Do("add", f)
      /\ \A i \in 1 .. Len(s) : b[i] = s[i]
  <2>1. /\ b \in Seq(Tasks) /\ Len(b) = Len(a) + 1 /\ b[Len(a) + 1] = Do("add", f)
        /\ \A i \in 1 .. Len(a) : b[i] = a[i]
    BY <1>1, <1>3, AppendIs
  <2> HIDE DEF b
  <2>2. Len(a) + 1 = Len(s) + 2 /\ \A i \in 1 .. Len(s) : i \in 1 .. Len(a) BY <1>0, <1>3
  <2>3. Len(s) + 1 \in 1 .. Len(a) BY <1>0, <1>3
  <2> QED BY <1>3, <2>1, <2>2, <2>3
<1> HIDE DEF b
<1>5. ASSUME NEW i \in 1 .. Len(b)
      PROVE  /\ b[i].op = "new" => i < Len(b) /\ b[i + 1] = Follows(b[i])
             /\ b[i] = Do("new", "version") => i = 1
             /\ b[i] = Do("new", "root") => i = 2
             /\ b[i].op = "add" => /\ b[i].name # "root"
                                   /\ b[i].name = "type" => t \in DOMAIN TypeName
                                   /\ Parent(b[i].name) = "data" => i > 5
  <2>1. CASE i \in 1 .. Len(s)
    <3>1. b[i] = s[i] BY <1>4, <2>1
    <3>2. s[i].op = "new" => i < Len(s) /\ i + 1 \in 1 .. Len(s) /\ s[i + 1] = Follows(s[i])
      BY <1>0, <2>1 DEF Made
    <3>3. s[i].op = "new" => b[i + 1] = s[i + 1] BY <1>4, <3>2
    <3>4. i < Len(b) BY <1>0, <1>4, <2>1
    <3> QED BY <2>1, <3>1, <3>2, <3>3, <3>4 DEF Made
  <2>2. CASE i = Len(s) + 1
    <3>1. b[i] = Do("new", f) /\ b[i + 1] = Do("add", f) /\ i < Len(b) BY <1>0, <1>4, <2>2
    <3>2. Follows(Do("new", f)) = Do("add", f) BY <1>1 DEF Follows
    <3> QED BY <1>1, <3>1, <3>2 DEF Do
  <2>3. CASE i = Len(s) + 2
    <3>1. b[i] = Do("add", f) /\ i > 5 BY <1>0, <1>4, <2>3
    <3> QED BY <1>1, <3>1 DEF Do
  <2> QED BY <1>0, <1>4, <2>1, <2>2, <2>3
<1>6. b[1] = Do("new", "version") /\ b[5] = Do("add", "data") BY <1>0, <1>4 DEF Made
<1> QED BY <1>0, <1>2, <1>4, <1>5, <1>6 DEF Made

\* What is left of it, or all of it, as the invariant says.
LEMMA StepsAre ==
    ASSUME NEW t \in Printable \cup {"KEEP_ALIVE", "INVALID"}
    PROVE  \E s : /\ Made(s, t)
                 /\ \/ Steps(t) = s \o <<Do("print", "root")>>
                    \/ Steps(t) = (s \o <<Do("refuse", "root")>>) \o <<Do("print", "root")>>
<1> DEFINE s0 == <<Do("new", "version"), Do("new", "root"), Do("add", "version"),
                   Do("new", "data"), Do("add", "data")>>
           two(f) == <<Do("new", f), Do("add", f)>>
           last == <<Do("print", "root")>>
           s1 == s0 \o two("type")
           s2 == s1 \o two("message")
           s3 == s2 \o two("valve_no")
<1>1. Made(s0, t) BY FirstMade
<1>2. \A q \in Seq(Tasks) : q \o <<>> = q OBVIOUS
<1>3. \A q : Made(q, t) => q \in Seq(Tasks) BY DEF Made
<1>4. Steps(t) = s0 \o (IF t = "INVALID" THEN <<Do("refuse", "root")>> ELSE two("type"))
                    \o (IF t \in Printable THEN two("message") ELSE <<>>)
                    \o (IF t = "HARD_ERROR_VALVE" THEN two("valve_no") ELSE <<>>)
                    \o last
  BY DEF Steps
<1> HIDE DEF s0, last
<1>5. t # "INVALID" => Made(s1, t)
  <2>1. t # "INVALID" => t \in DOMAIN TypeName BY DEF TypeName, Printable
  <2> QED BY <1>1, <2>1, PairMade
<1> HIDE DEF s1
<1>6. t # "INVALID" => Made(s2, t) BY <1>5, PairMade
<1> HIDE DEF s2
<1>7. t # "INVALID" => Made(s3, t) BY <1>6, PairMade
<1> HIDE DEF s3
<1>8. CASE t = "INVALID"
  <2> DEFINE q == s0 \o <<Do("refuse", "root")>>
  <2>1. q \in Seq(Tasks)
    <3>1. Do("refuse", "root") \in Tasks BY DEF Do, Tasks
    <3> QED BY <1>1, <1>3, <3>1, AppendIs
  <2>2. Steps(t) = ((q \o <<>>) \o <<>>) \o last BY <1>4, <1>8 DEF Printable
  <2> HIDE DEF q
  <2>3. Steps(t) = q \o last BY <1>2, <2>1, <2>2
  <2> QED BY <1>1, <2>3 DEF q, last
<1>9. CASE t = "KEEP_ALIVE"
  <2>1. Steps(t) = ((s1 \o <<>>) \o <<>>) \o last BY <1>4, <1>9 DEF Printable, s1
  <2>2. Steps(t) = s1 \o last BY <1>2, <1>3, <1>5, <1>9, <2>1
  <2> QED BY <1>5, <1>9, <2>2 DEF last
<1>10. CASE t \in {"SOFT_ERROR", "HARD_ERROR_OTHER"}
  <2>1. Steps(t) = (s2 \o <<>>) \o last BY <1>4, <1>10 DEF Printable, s1, s2
  <2>2. Steps(t) = s2 \o last BY <1>2, <1>3, <1>6, <1>10, <2>1
  <2> QED BY <1>6, <1>10, <2>2 DEF last
<1>11. CASE t = "HARD_ERROR_VALVE"
  <2>1. Steps(t) = s3 \o last BY <1>4, <1>11 DEF Printable, s1, s2, s3
  <2> QED BY <1>7, <1>11, <2>1 DEF last
<1> QED BY <1>8, <1>9, <1>10, <1>11 DEF Printable

\* The list as a whole is one that BuildHeld allows.
LEMMA StepsBuild ==
    ASSUME NEW t \in Printable \cup {"KEEP_ALIVE", "INVALID"}
    PROVE  /\ Steps(t) \in Seq(Tasks) /\ Steps(t) # <<>> /\ Steps(t)[Len(Steps(t))].op = "print"
           /\ Steps(t)[1] = Do("new", "version")
           /\ \A i \in 1 .. Len(Steps(t)) :
                /\ Steps(t)[i].op = "new" => Steps(t)[i + 1] = Follows(Steps(t)[i])
                /\ Steps(t)[i] = Do("new", "version") => i = 1
                /\ Steps(t)[i] = Do("new", "root") => i = 2
                /\ Steps(t)[i].op = "add" =>
                     /\ Steps(t)[i].name # "root"
                     /\ Steps(t)[i].name = "type" => t \in DOMAIN TypeName
                     /\ Parent(Steps(t)[i].name) = "data" =>
                          \E j \in 1 .. i - 1 : Steps(t)[j] = Do("add", "data")
<1> DEFINE Step(q, i) ==
             /\ q[i].op = "new" => i < Len(q) /\ q[i + 1] = Follows(q[i])
             /\ q[i] = Do("new", "version") => i = 1
             /\ q[i] = Do("new", "root") => i = 2
             /\ q[i].op = "add" => /\ q[i].name # "root"
                                   /\ q[i].name = "type" => t \in DOMAIN TypeName
                                   /\ Parent(q[i].name) = "data" => i > 5
           Good(q) == /\ q \in Seq(Tasks) /\ Len(q) >= 5
                      /\ q[1] = Do("new", "version") /\ q[5] = Do("add", "data")
                      /\ \A i \in 1 .. Len(q) : Step(q, i)
<1>1. \A q : Made(q, t) => Good(q) BY DEF Made
<1>2. ASSUME NEW q, Good(q), NEW o \in {"refuse", "print"}
      PROVE  Good(q \o <<Do(o, "root")>>) /\ (q \o <<Do(o, "root")>>)[Len(q) + 1].op = o
  <2> DEFINE a == q \o <<Do(o, "root")>>
  <2>1. Do(o, "root") \in Tasks /\ Do(o, "root").op = o BY DEF Do, Tasks
  <2>2. /\ a \in Seq(Tasks) /\ Len(a) = Len(q) + 1 /\ a[Len(q) + 1] = Do(o, "root")
        /\ \A i \in 1 .. Len(q) : a[i] = q[i]
    BY <1>2, <2>1, AppendIs
  <2> HIDE DEF a
  <2>3. Len(q) \in Nat /\ Len(q) >= 5 BY <1>2
  <2>4. ASSUME NEW i \in 1 .. Len(a) PROVE Step(a, i)
    <3>1. CASE i \in 1 .. Len(q)
      <4>1. Step(q, i) BY <1>2, <3>1
      <4>2. q[i].op = "new" => i + 1 \in 1 .. Len(q) BY <2>3, <3>1, <4>1
      <4>3. a[i] = q[i] BY <2>2, <3>1
      <4>4. q[i].op = "new" => a[i + 1] = q[i + 1] BY <2>2, <4>2
      <4>5. i < Len(a) BY <2>2, <2>3, <3>1
      <4> QED BY <4>1, <4>3, <4>4, <4>5
    <3>2. CASE i = Len(q) + 1
      <4>1. a[i] = Do(o, "root") /\ a[i].op = o BY <2>1, <2>2, <3>2
      <4> QED BY <4>1 DEF Do
    <3> QED BY <2>2, <2>3, <3>1, <3>2
  <2>5. a[1] = Do("new", "version") /\ a[5] = Do("add", "data") BY <1>2, <2>2, <2>3
  <2>6. Len(a) >= 5 /\ a[Len(q) + 1].op = o BY <2>1, <2>2, <2>3
  <2>7. Good(a) BY <2>2, <2>4, <2>5, <2>6
  <2> QED BY <2>6, <2>7 DEF a
<1>3. Good(Steps(t)) /\ Steps(t)[Len(Steps(t))].op = "print"
  <2> HIDE DEF Good
  <2>1. PICK s : /\ Good(s)
                 /\ \/ Steps(t) = s \o <<Do("print", "root")>>
                    \/ Steps(t) = (s \o <<Do("refuse", "root")>>) \o <<Do("print", "root")>>
    BY <1>1, StepsAre
  <2>2. PICK q : Good(q) /\ Steps(t) = q \o <<Do("print", "root")>> BY <1>2, <2>1
  <2>3. Len(q \o <<Do("print", "root")>>) = Len(q) + 1
    BY <2>2, AppendIs DEF Good, Do, Tasks
  <2> QED BY <1>2, <2>2, <2>3
<1> DEFINE q == Steps(t)
<1> HIDE DEF q
<1>4. Good(q) /\ q[Len(q)].op = "print" BY <1>3 DEF q
<1>5. ASSUME NEW i \in 1 .. Len(q), i > 5 PROVE \E j \in 1 .. i - 1 : q[j] = Do("add", "data")
  <2>1. 5 \in 1 .. i - 1 BY <1>5
  <2> QED BY <1>4, <2>1
<1>6. q # <<>> BY <1>4
<1> QED BY <1>4, <1>5, <1>6 DEF q

-----------------------------------------------------------------------------
(* The steps.                                                              *)

LEMMA TailIs ==
    ASSUME NEW A, NEW s \in Seq(A), s # <<>>
    PROVE  /\ Head(s) = s[1] /\ s[1] \in A /\ Len(s) \in Nat /\ Len(s) >= 1
           /\ Tail(s) \in Seq(A) /\ Len(Tail(s)) = Len(s) - 1
           /\ \A i \in 1 .. Len(s) - 1 : Tail(s)[i] = s[i + 1]
  OBVIOUS

\* The list says what encode_message is at.
LEMMA Kinds ==
    /\ Building => /\ todo[1] \in Tasks /\ Head(todo) = todo[1]
                   /\ todo[1] = Do(todo[1].op, todo[1].name)
                   /\ todo[1].op \in {"new", "add", "refuse", "print"}
    /\ Printing => /\ todo[1] \in Pieces \cup {Final} /\ Head(todo) = todo[1]
                   /\ todo[1].op \in {"piece", "shrink"}
                   /\ todo[1].op = "piece" => todo[1] \in Pieces
                   /\ todo[1].op = "shrink" => todo = <<Final>> /\ todo[1] \notin Pieces
<1>1. ASSUME Building
      PROVE  /\ todo[1] \in Tasks /\ Head(todo) = todo[1]
             /\ todo[1] = Do(todo[1].op, todo[1].name)
             /\ todo[1].op \in {"new", "add", "refuse", "print"}
  <2>1. todo[1] \in Tasks /\ Head(todo) = todo[1] BY <1>1, TailIs DEF Building
  <2> QED BY <2>1 DEF Tasks, Do
<1>2. ASSUME Printing
      PROVE  /\ todo[1] \in Pieces \cup {Final} /\ Head(todo) = todo[1]
             /\ todo[1].op \in {"piece", "shrink"}
             /\ todo[1].op = "piece" => todo[1] \in Pieces
             /\ todo[1].op = "shrink" => todo = <<Final>> /\ todo[1] \notin Pieces
  <2>1. /\ todo[1] \in Pieces \cup {Final} /\ Head(todo) = todo[1]
        /\ Len(todo) \in Nat /\ Len(todo) >= 1
    BY <1>2, TailIs DEF Printing
  <2>2. Final.op = "shrink" /\ \A p \in Pieces : p.op = "piece" BY DEF Final, Do, Pieces
  <2>3. ASSUME todo[1].op = "shrink" PROVE todo = <<Final>>
    <3>1. todo[1] \notin Pieces BY <2>2, <2>3
    <3>2. Len(todo) = 1
      <4>1. 1 \notin 1 .. Len(todo) - 1 BY <1>2, <3>1 DEF Printing
      <4>2. \A n \in Nat : n >= 1 /\ 1 \notin 1 .. n - 1 => n = 1 OBVIOUS
      <4> QED BY <2>1, <4>1, <4>2
    <3>3. todo[1] = Final BY <1>2, <3>2 DEF Printing
    <3>4. todo \in Seq(Pieces \cup {Final}) BY <1>2 DEF Printing
    <3> QED BY <3>2, <3>3, <3>4
  <2> QED BY <2>1, <2>2, <2>3
<1> QED BY <1>1, <1>2

\* After a task, other than the last.
LEMMA BuildTail ==
    ASSUME Building, todo' = Tail(todo), msg' = msg, todo[1].op # "print"
    PROVE  /\ Building' /\ ~ Printing' /\ todo' # <<>>
           /\ todo'[1] = todo[2] /\ todo'[1] \in Tasks
           /\ todo'[1] # Do("new", "version")
           /\ todo'[1] = Do("new", "root") => todo[1] = Do("new", "version")
           /\ Len(todo') = Len(todo) - 1
           /\ \A i \in 1 .. Len(todo') : todo'[i] = todo[i + 1]
<1>1. /\ todo \in Seq(Tasks) /\ todo # <<>> /\ Len(todo) \in Nat /\ Len(todo) >= 1
      /\ todo' \in Seq(Tasks) /\ Len(todo') = Len(todo) - 1
      /\ \A i \in 1 .. Len(todo') : todo'[i] = todo[i + 1]
  BY TailIs DEF Building
<1>2. Len(todo) # 1 BY DEF Building
<1>3. todo' # <<>> /\ 1 \in 1 .. Len(todo')
  <2>1. Len(todo') \in Nat /\ Len(todo') >= 1 BY <1>1, <1>2
  <2>2. 1 \in 1 .. Len(todo') BY <2>1
  <2>3. Len(<<>>) = 0 OBVIOUS
  <2>4. Len(todo') # 0 BY <2>1
  <2>5. todo' # <<>> BY <2>3, <2>4, Zenon
  <2> QED BY <2>2, <2>5
<1>4. todo'[1] = todo[2] /\ todo'[1] \in Tasks BY <1>1, <1>3
<1>5. todo'[Len(todo')].op = "print"
  <2>1. Len(todo') \in 1 .. Len(todo') /\ Len(todo') + 1 = Len(todo) BY <1>1, <1>3
  <2> QED BY <1>1, <2>1 DEF Building
<1>6. ASSUME NEW i \in 1 .. Len(todo')
      PROVE  /\ todo'[i].op = "new" => todo'[i + 1] = Follows(todo'[i])
             /\ todo'[i] # Do("new", "version")
             /\ todo'[i] = Do("new", "root") => i = 1 /\ todo[1] = Do("new", "version")
             /\ todo'[i].op = "add" => todo'[i].name # "root"
             /\ todo'[i].op = "add" /\ todo'[i].name = "type" => msg.type \in DOMAIN TypeName
  <2>1. i + 1 \in 1 .. Len(todo) /\ i + 1 # 1 BY <1>1
  <2>2. todo'[i] = todo[i + 1] BY <1>1
  <2>3. todo[i + 1].op = "new" => i + 1 \in 1 .. Len(todo')
    <3>1. todo[Len(todo)].op # "new" BY DEF Building
    <3>2. todo[i + 1].op = "new" => i + 1 # Len(todo) BY <3>1
    <3> QED BY <1>1, <2>1, <3>2
  <2>4. todo[i + 1].op = "new" => todo'[i + 1] = todo[(i + 1) + 1] BY <1>1, <2>3
  <2>5. todo[i + 1] = Do("new", "root") => i + 1 = 2 /\ todo[1] = Do("new", "version")
    BY <2>1 DEF Building
  <2>6. i + 1 = 2 => i = 1 OBVIOUS
  <2> QED BY <2>1, <2>2, <2>4, <2>5, <2>6 DEF Building
<1>7. Building' BY <1>1, <1>3, <1>5, <1>6 DEF Building, Follows
<1>8. ~ Printing'
  <2>1. todo'[1].op \in {"new", "add", "refuse", "print"} BY <1>4 DEF Tasks
  <2>2. todo'[1] \notin Pieces \cup {Final}
    <3>1. Final.op = "shrink" /\ \A p \in Pieces : p.op = "piece" BY DEF Final, Do, Pieces
    <3> QED BY <2>1, <3>1
  <2> QED BY <1>3, <2>2 DEF Printing
<1> QED BY <1>1, <1>3, <1>4, <1>6, <1>7, <1>8

LEMMA RefuseIs ==
    ASSUME EncTypes, NEW l \in {"item", "key", "print", "shrink"}, Refuse(l)
    PROVE  /\ refused' \in Seq({"item", "key", "print", "shrink"})
           /\ Clean' => Clean /\ l \in {"item", "print"}
<1>1. /\ refused \in Seq({"item", "key", "print", "shrink"})
      /\ refused' = Append(refused, l)
  BY DEF EncTypes, Refuse
<1>2. /\ refused' \in Seq({"item", "key", "print", "shrink"})
      /\ Len(refused') = Len(refused) + 1 /\ refused'[Len(refused) + 1] = l
      /\ \A i \in 1 .. Len(refused) : refused'[i] = refused[i]
      /\ DOMAIN refused = 1 .. Len(refused) /\ DOMAIN refused' = 1 .. Len(refused) + 1
      /\ Len(refused) \in Nat
  BY <1>1
<1>3. Clean' => Clean /\ l \in {"item", "print"}
  <2>1. Len(refused) + 1 \in DOMAIN refused' /\ DOMAIN refused \subseteq DOMAIN refused'
    BY <1>2
  <2> QED BY <1>2, <2>1 DEF Clean
<1> QED BY <1>2, <1>3

\* A message that is given up.
LEMMA AbandonKeeps ==
    ASSUME EncInv, NEW freed, Abandon(freed),
           refused' \in Seq({"item", "key", "print", "shrink"}),
           Clean' => blocks \subseteq freed
    PROVE  EncInv'
<1>1. /\ blocks' = blocks \ freed /\ todo' = <<>> /\ out' = <<>> /\ used' = 0
      /\ msg' = msg /\ kids' = kids /\ room' = room
  BY DEF Abandon
<1>2. EncTypes' BY <1>1 DEF EncInv, EncTypes
<1>3. KidsOK' BY <1>1 DEF EncInv, KidsOK
<1>4. PrintFits' BY <1>1 DEF PrintFits
<1>5. Clean' => BlocksOK' BY <1>1 DEF BlocksOK, IdleHeld, BuildHeld, PrintHeld, Building, Printing
<1> QED BY <1>1, <1>2, <1>3, <1>4, <1>5 DEF EncInv

LEMMA TreeSame == kids' = kids => \A f : Tree(f)' = Tree(f)
  BY DEF Tree, Linked

LEMMA NoKids ==
    ASSUME NEW k, k = [root |-> <<>>, data |-> <<>>]
    PROVE  k["root"] = <<>> /\ k["data"] = <<>> /\ k \in [{"root", "data"} -> Seq(Fields)]
<1>1. k["root"] = <<>> /\ k["data"] = <<>> /\ DOMAIN k = {"root", "data"} OBVIOUS
<1>2. k = [x \in DOMAIN k |-> k[x]] OBVIOUS
<1>3. <<>> \in Seq(Fields) OBVIOUS
<1>4. \A x \in DOMAIN k : k[x] \in Seq(Fields) BY <1>1, <1>3, Zenon
<1>5. k \in [DOMAIN k -> Seq(Fields)] BY <1>2, <1>4, Zenon
<1> QED BY <1>1, <1>5, Zenon

LEMMA Init_Enc == LinkInit => EncInv
<1> SUFFICES ASSUME LinkInit PROVE EncInv OBVIOUS
<1>1. /\ msg = [type |-> "INVALID", text |-> <<>>, valve |-> 0]
      /\ todo = <<>> /\ kids = [root |-> <<>>, data |-> <<>>]
      /\ blocks = {} /\ out = <<>> /\ used = 0 /\ room = 0 /\ refused = <<>>
  BY DEF LinkInit, EncoderInit
<1>2. EncTypes BY <1>1 DEF EncTypes
<1>3. KidsOK
  <2>1. ToSet(<<>>) = {} BY DEF ToSet
  <2>2. kids["root"] = <<>> /\ kids["data"] = <<>> /\ kids \in [{"root", "data"} -> Seq(Fields)]
    BY <1>1, NoKids
  <2> QED BY <2>1, <2>2 DEF KidsOK
<1>4. PrintFits BY <1>1 DEF PrintFits
<1>5. BlocksOK BY <1>1 DEF BlocksOK, IdleHeld, BuildHeld, PrintHeld, Building, Printing
<1> QED BY <1>1, <1>2, <1>3, <1>4, <1>5 DEF EncInv

LEMMA SendKeeps == ASSUME EncInv, send_message PROVE EncInv'
<1>1. PICK m \in Messages : encode_message(m) BY DEF send_message
<1>2. /\ todo = <<>> /\ out = <<>> /\ msg' = m /\ todo' = Steps(m.type)
      /\ kids' = [root |-> <<>>, data |-> <<>>] /\ out' = <<>> /\ used' = 0 /\ room' = 0
      /\ blocks' = blocks /\ refused' = refused
  BY <1>1 DEF send_message, MaySend, SenderIdle, encode_message
<1>3. m.type \in Printable \cup {"KEEP_ALIVE", "INVALID"} /\ m.text \in Seq(1..255) /\ m.valve \in Int
  BY EncoderAssumption
<1>4. EncTypes' BY <1>2, <1>3 DEF EncInv, EncTypes
<1>5. KidsOK'
  <2>1. ToSet(<<>>) = {} BY DEF ToSet
  <2>2. /\ kids'["root"] = <<>> /\ kids'["data"] = <<>>
        /\ kids' \in [{"root", "data"} -> Seq(Fields)]
    BY <1>2, NoKids
  <2> QED BY <2>1, <2>2 DEF KidsOK
<1>6. PrintFits' BY <1>2 DEF PrintFits
<1>7. Building' BY <1>2, <1>3, StepsBuild DEF Building, Follows
<1>8. ~ Printing'
  <2>1. todo'[1] \notin Pieces \cup {Final}
    <3>1. todo'[1] = Do("new", "version") BY <1>2, <1>3, StepsBuild
    <3> QED BY <3>1 DEF Pieces, Final, Do
  <2> QED BY <2>1, <1>2, <1>3, StepsBuild DEF Printing
<1>9. DataFirst' BY <1>2, <1>3, StepsBuild DEF DataFirst, Parent
<1>10. Clean' => blocks' = {} BY <1>2 DEF Clean, EncInv, BlocksOK, IdleHeld
<1>11. todo' # <<>> BY <1>2, <1>3, StepsBuild
<1>12. Clean' => BlocksOK'
  BY <1>2, <1>8, <1>9, <1>10, <1>11 DEF BlocksOK, IdleHeld, BuildHeld, PrintHeld
<1> QED BY <1>4, <1>5, <1>6, <1>7, <1>12 DEF EncInv

LEMMA CreateKeeps == ASSUME EncInv, Create PROVE EncInv'
<1> DEFINE f == todo[1].name
<1>1. /\ todo # <<>> /\ Head(todo).op = "new" /\ todo' = Tail(todo)
      /\ blocks' = blocks \cup ({<<Field, "item">>} \cup
                    IF Field \in {"type", "message"} THEN {<<Field, "value">>} ELSE {})
      /\ msg' = msg /\ kids' = kids /\ out' = out /\ used' = used /\ room' = room
      /\ refused' = refused
  BY DEF Create, Pending
<1>2. Building /\ Head(todo) = todo[1] /\ todo[1] \in Tasks /\ todo[1] = Do("new", f)
  BY <1>1, Kinds DEF EncInv
<1>3. todo[2] = Follows(todo[1])
  <2>1. 1 \in 1 .. Len(todo) BY <1>2 DEF Building
  <2> QED BY <1>1, <1>2, <2>1 DEF Building
<1>4. /\ Building' /\ ~ Printing' /\ todo' # <<>> /\ todo'[1] = todo[2]
      /\ Len(todo') = Len(todo) - 1 /\ \A i \in 1 .. Len(todo') : todo'[i] = todo[i + 1]
  BY <1>1, <1>2, BuildTail
<1>5. EncTypes' BY <1>1 DEF EncInv, EncTypes
<1>6. KidsOK' BY <1>1 DEF EncInv, KidsOK
<1>7. PrintFits' BY <1>1 DEF EncInv, PrintFits
<1>8. ASSUME Clean' PROVE BlocksOK'
  <2>1. blocks \subseteq Held /\ out = <<>> /\ DataFirst
    BY <1>1, <1>2, <1>8 DEF Clean, EncInv, BlocksOK, BuildHeld
  <2>2. DataFirst'
    <3> SUFFICES ASSUME NEW i \in 1 .. Len(todo'), todo'[i].op = "add",
                        Parent(todo'[i].name) = "data"
                 PROVE  \/ "data" \in ToSet(kids'["root"])
                        \/ \E j \in 1 .. i - 1 : todo'[j] = Do("add", "data")
      BY DEF DataFirst, Parent
    <3>0. todo \in Seq(Tasks) /\ Len(todo) \in Nat BY <1>2, SeqIs DEF Building
    <3>1. todo'[i] = todo[i + 1] /\ i + 1 \in 1 .. Len(todo) BY <1>4, <3>0
    <3>2. CASE "data" \in ToSet(kids["root"]) BY <1>1, <3>2
    <3>3. CASE "data" \notin ToSet(kids["root"])
      <4>1. PICK j \in 1 .. i : todo[j] = Do("add", "data")
        <5>1. (i + 1) - 1 = i OBVIOUS
        <5> QED BY <2>1, <3>1, <3>3, <5>1 DEF DataFirst
      <4>2. j # 1 BY <1>2, <4>1 DEF Do
      <4>3. j - 1 \in 1 .. i - 1 /\ j - 1 \in 1 .. Len(todo') /\ (j - 1) + 1 = j BY <1>4, <3>0, <4>2
      <4>4. todo'[j - 1] = Do("add", "data") BY <1>4, <4>1, <4>3
      <4> QED BY <4>3, <4>4
    <3> QED BY <3>2, <3>3
  <2>3. \A g : Tree(g)' = Tree(g) BY <1>1, TreeSame
  <2>4. blocks' \subseteq blocks \cup Own(f) BY <1>1, <1>2 DEF Own, Field
  <2>5. blocks' \subseteq Held'
    <3>1. CASE f = "version"
      <4>1. Held = {} BY <1>2, <3>1 DEF Held, Do
      <4>2. todo'[1] = Do("new", "root") BY <1>2, <1>3, <1>4, <3>1 DEF Follows, Do
      <4>3. Held' = Own("version") BY <4>2 DEF Held, Do
      <4> QED BY <2>1, <2>4, <3>1, <4>1, <4>3
    <3>2. CASE f = "root"
      <4>1. Held = Own("version") BY <1>2, <3>2 DEF Held, Do
      <4>2. todo'[1] = Do("add", "version") BY <1>2, <1>3, <1>4, <3>2 DEF Follows, Do
      <4>3. Held' = Tree("root")' \cup Own("version") BY <4>2 DEF Held, Do
      <4>4. Own("root") \subseteq Tree("root") BY DEF Tree
      <4> QED BY <2>1, <2>3, <2>4, <3>2, <4>1, <4>3, <4>4
    <3>3. CASE f \notin {"version", "root"}
      <4>1. Held = Tree("root") BY <1>2, <3>3 DEF Held, Do
      <4>2. todo'[1] = Do("add", f) BY <1>2, <1>3, <1>4, <3>3 DEF Follows, Do
      <4>3. Held' = Tree("root")' \cup Own(f) BY <4>2 DEF Held, Do
      <4> QED BY <2>1, <2>3, <2>4, <4>1, <4>3
    <3> QED BY <3>1, <3>2, <3>3
  <2> QED BY <1>1, <1>4, <2>1, <2>2, <2>5 DEF BlocksOK, IdleHeld, BuildHeld, PrintHeld
<1> QED BY <1>4, <1>5, <1>6, <1>7, <1>8 DEF EncInv

\* What can be allocated when an item cannot, is what encode_message then deletes.
LEMMA CreateFailsKeeps == ASSUME EncInv, CreateFails PROVE EncInv'
<1>1. todo # <<>> /\ Head(todo).op = "new" /\ Refuse("item") BY DEF CreateFails, Pending
<1>2. Building /\ Head(todo) = todo[1] /\ todo[1] = Do("new", Field)
  BY <1>1, Kinds DEF EncInv, Field
<1> DEFINE freed == IF Field = "root" THEN Tree("version") ELSE Tree("root")
<1>3. Clean' => Clean BY <1>1, RefuseIs DEF EncInv
<1>4. Clean => blocks \subseteq Held BY <1>2 DEF EncInv, BlocksOK, BuildHeld
<1>5. Held \subseteq freed
  <2>1. Tree("version") = Own("version") BY TreeIs DEF EncInv
  <2>2. CASE Field = "version" BY <1>2, <2>2 DEF Held, Do
  <2>3. CASE Field = "root" BY <1>2, <2>1, <2>3 DEF Held, Do
  <2>4. CASE Field \notin {"version", "root"} BY <1>2, <2>4 DEF Held, Do
  <2> QED BY <2>2, <2>3, <2>4
<1>6. Abandon(freed) BY DEF CreateFails
<1> HIDE DEF freed
<1>7. refused' \in Seq({"item", "key", "print", "shrink"}) BY <1>1, RefuseIs DEF EncInv
<1>8. Clean' => blocks \subseteq freed BY <1>3, <1>4, <1>5
<1> QED BY <1>6, <1>7, <1>8, AbandonKeeps

LEMMA ToSetAppend ==
    ASSUME NEW A, NEW s \in Seq(A), NEW e \in A
    PROVE  Append(s, e) \in Seq(A) /\ ToSet(Append(s, e)) = ToSet(s) \cup {e}
<1> DEFINE t == Append(s, e)
<1>1. /\ t \in Seq(A) /\ Len(s) \in Nat /\ DOMAIN s = 1 .. Len(s)
      /\ DOMAIN t = 1 .. Len(s) + 1 /\ t[Len(s) + 1] = e
      /\ \A i \in 1 .. Len(s) : t[i] = s[i]
  OBVIOUS
<1> HIDE DEF t
<1>2. 1 .. Len(s) + 1 = (1 .. Len(s)) \cup {Len(s) + 1} BY <1>1
<1>3. ToSet(t) = ToSet(s) \cup {e} BY <1>1, <1>2 DEF ToSet
<1> QED BY <1>1, <1>3 DEF t

\* What cJSON_Delete frees of root, now and after a step.
Below == (UNION {Own(g) : g \in {"root"} \cup ToSet(kids["root"])})
         \cup IF "data" \in ToSet(kids["root"])
              THEN (UNION {Own(g) : g \in ToSet(kids["data"])}) ELSE {}
LEMMA TreeNow == KidsOK => Tree("root") = Below
  BY TreeIs DEF Below
LEMMA TreeNext == KidsOK' => Tree("root")' = Below'
<1>1. (KidsOK => Tree("root") = Below)' BY TreeNow, PTL
<1> QED BY <1>1

\* The task that is done is a task of encode_message, and data was added before
\* the children of data are, if nothing was lost.
LEMMA AddKeeps == ASSUME EncInv, Add PROVE EncInv'
<1> DEFINE f == todo[1].name
           p == Parent(f)
<1>1. /\ todo # <<>> /\ Head(todo).op = "add" /\ todo' = Tail(todo)
      /\ kids' = [kids EXCEPT ![Parent(Field)] = Append(@, Field)]
      /\ blocks' = blocks \cup {<<Field, "key">>}
      /\ msg' = msg /\ out' = out /\ used' = used /\ room' = room
      /\ refused' = refused
  BY DEF Add, Pending
<1>2. Building /\ Head(todo) = todo[1] /\ todo[1] \in Tasks /\ todo[1] = Do("add", f) /\ Field = f
  BY <1>1, Kinds DEF EncInv, Field
<1>3. f \in Fields /\ (f = "type" => msg.type \in DOMAIN TypeName) /\ todo[1].op = "add"
  <2>1. 1 \in 1 .. Len(todo) BY <1>2 DEF Building
  <2> QED BY <1>1, <1>2, <2>1 DEF Building, Tasks
<1>4. /\ Building' /\ ~ Printing' /\ todo' # <<>> /\ todo'[1] = todo[2]
      /\ todo'[1] # Do("new", "version") /\ todo'[1] # Do("new", "root") /\ todo'[1] \in Tasks
      /\ Len(todo') = Len(todo) - 1 /\ \A i \in 1 .. Len(todo') : todo'[i] = todo[i + 1]
  <2>1. todo[1] # Do("new", "version") /\ todo[1].op # "print" BY <1>3 DEF Do
  <2> QED BY <1>1, <1>2, <2>1, BuildTail
<1>5. /\ p \in {"root", "data"} /\ kids'[p] = Append(kids[p], f)
      /\ kids' \in [{"root", "data"} -> Seq(Fields)]
      /\ \A q \in {"root", "data"} : q # p => kids'[q] = kids[q]
      /\ ToSet(kids'[p]) = ToSet(kids[p]) \cup {f}
  <2>1. p \in {"root", "data"} BY DEF Parent
  <2>2. kids \in [{"root", "data"} -> Seq(Fields)] BY DEF EncInv, KidsOK
  <2>3. kids[p] \in Seq(Fields) BY <2>1, <2>2
  <2>4. Append(kids[p], f) \in Seq(Fields) /\ ToSet(Append(kids[p], f)) = ToSet(kids[p]) \cup {f}
    BY <1>3, <2>3, ToSetAppend
  <2>5. kids' = [kids EXCEPT ![p] = Append(kids[p], f)] BY <1>1, <1>2
  <2> HIDE DEF p, f
  <2> QED BY <2>1, <2>2, <2>4, <2>5
<1>6. EncTypes' BY <1>1 DEF EncInv, EncTypes
<1>7. /\ KidsOK'
      /\ ToSet(kids["root"]) \subseteq ToSet(kids'["root"])
      /\ ToSet(kids["data"]) \subseteq ToSet(kids'["data"])
  <2>0. KidsOK BY DEF EncInv
  <2>1. CASE f \in {"message", "valve_no"}
    <3>1. p = "data" BY <2>1 DEF Parent
    <3>2. kids'["root"] = kids["root"] /\ ToSet(kids'["data"]) = ToSet(kids["data"]) \cup {f}
      BY <1>5, <3>1
    <3> QED BY <1>1, <1>5, <2>0, <2>1, <3>2 DEF KidsOK
  <2>2. CASE f \notin {"message", "valve_no"}
    <3>1. p = "root" BY <2>2 DEF Parent
    <3>2. kids'["data"] = kids["data"] /\ ToSet(kids'["root"]) = ToSet(kids["root"]) \cup {f}
      BY <1>5, <3>1
    <3> QED BY <1>1, <1>3, <1>5, <2>0, <2>2, <3>2 DEF KidsOK, Fields
  <2> QED BY <2>1, <2>2
<1>8. PrintFits' BY <1>1 DEF EncInv, PrintFits
<1>9. ASSUME Clean' PROVE BlocksOK'
  <2>0. todo \in Seq(Tasks) /\ Len(todo) \in Nat /\ Len(todo) >= 1
    <3>1. todo \in Seq(Tasks) BY <1>2 DEF Building
    <3> QED BY <1>1, <3>1, TailIs
  <2>1. blocks \subseteq Held /\ out = <<>> /\ DataFirst
    BY <1>1, <1>2, <1>9 DEF Clean, EncInv, BlocksOK, BuildHeld
  <2>2. DataFirst'
    <3> SUFFICES ASSUME NEW i \in 1 .. Len(todo'), todo'[i].op = "add",
                        Parent(todo'[i].name) = "data"
                 PROVE  \/ "data" \in ToSet(kids'["root"])
                        \/ \E j \in 1 .. i - 1 : todo'[j] = Do("add", "data")
      BY DEF DataFirst, Parent
    <3>1. todo'[i] = todo[i + 1] /\ i + 1 \in 1 .. Len(todo) BY <1>4, <2>0
    <3>2. CASE "data" \in ToSet(kids["root"]) BY <1>7, <3>2
    <3>3. CASE "data" \notin ToSet(kids["root"])
      <4>1. PICK j \in 1 .. i : todo[j] = Do("add", "data")
        <5>1. (i + 1) - 1 = i OBVIOUS
        <5> QED BY <2>1, <3>1, <3>3, <5>1 DEF DataFirst
      <4>2. CASE j = 1
        <5>1. f = "data" BY <1>2, <4>1, <4>2 DEF Do
        <5>2. p = "root" BY <5>1 DEF Parent
        <5> QED BY <1>5, <5>1, <5>2
      <4>3. CASE j # 1
        <5>1. j - 1 \in 1 .. i - 1 /\ j - 1 \in 1 .. Len(todo') /\ (j - 1) + 1 = j
          BY <1>4, <2>0, <4>3
        <5>2. todo'[j - 1] = Do("add", "data") BY <1>4, <4>1, <5>1
        <5> QED BY <5>1, <5>2
      <4> QED BY <4>2, <4>3
    <3> QED BY <3>2, <3>3
  <2>3. p = "data" => "data" \in ToSet(kids["root"])
    <3>1. 1 \in 1 .. Len(todo) /\ 1 .. 1 - 1 = {} BY <2>0
    <3> QED BY <1>3, <2>1, <3>1 DEF DataFirst
  <2>4. Held = Tree("root") \cup Own(f) BY <1>2 DEF Held, Do
  <2>5. Tree("root") \cup Own(f) \subseteq Tree("root")'
    <3> DEFINE T(r, d) == (UNION {Own(g) : g \in {"root"} \cup r})
                          \cup IF "data" \in r THEN (UNION {Own(g) : g \in d}) ELSE {}
    <3>1. Tree("root") = T(ToSet(kids["root"]), ToSet(kids["data"])) BY TreeIs DEF EncInv
    <3>2. Tree("root")' = T(ToSet(kids'["root"]), ToSet(kids'["data"]))
      BY <1>7, TreeNext DEF Below
    <3>3. f \in ToSet(kids'["root"]) \/ ("data" \in ToSet(kids'["root"]) /\ f \in ToSet(kids'["data"]))
      BY <1>5, <1>7, <2>3
    <3>4. Own(f) \subseteq T(ToSet(kids'["root"]), ToSet(kids'["data"])) BY <3>3
    <3>5. T(ToSet(kids["root"]), ToSet(kids["data"])) \subseteq T(ToSet(kids'["root"]), ToSet(kids'["data"]))
      BY <1>7
    <3> QED BY <3>1, <3>2, <3>4, <3>5
  <2>6. Tree("root")' \subseteq Held'
    <3>1. Held' = IF todo'[1].op = "add" THEN Tree("root")' \cup Own(todo'[1].name) ELSE Tree("root")'
      BY <1>4 DEF Held, Do
    <3> QED BY <3>1
  <2>7. <<Field, "key">> \in Own(f) BY <1>2 DEF Own
  <2>8. blocks' \subseteq Held' BY <1>1, <2>1, <2>4, <2>5, <2>6, <2>7
  <2> QED BY <1>1, <1>4, <2>1, <2>2, <2>8 DEF BlocksOK, IdleHeld, BuildHeld, PrintHeld
<1> QED BY <1>4, <1>6, <1>7, <1>8, <1>9 DEF EncInv

LEMMA AddIsIgnoredKeeps == ASSUME EncInv, AddIsIgnored PROVE EncInv'
<1>1. /\ todo # <<>> /\ Head(todo).op = "add" /\ todo' = Tail(todo) /\ Refuse("key")
      /\ msg' = msg /\ kids' = kids /\ out' = out /\ used' = used /\ room' = room
  BY DEF AddIsIgnored, Pending
<1>2. Building /\ todo[1].op # "print" BY <1>1, Kinds DEF EncInv
<1>3. Building' BY <1>1, <1>2, BuildTail
<1>4. refused' \in Seq({"item", "key", "print", "shrink"}) /\ ~ Clean' BY <1>1, RefuseIs DEF EncInv
<1>5. EncTypes' BY <1>1, <1>4 DEF EncInv, EncTypes
<1>6. KidsOK' BY <1>1 DEF EncInv, KidsOK
<1>7. PrintFits' BY <1>1 DEF EncInv, PrintFits
<1> QED BY <1>3, <1>4, <1>5, <1>6, <1>7 DEF EncInv

LEMMA RefuseTypeKeeps == ASSUME EncInv, RefuseType PROVE EncInv'
<1>1. /\ todo # <<>> /\ Head(todo).op = "refuse" /\ Abandon(Tree("root")) /\ refused' = refused
  BY DEF RefuseType, Pending
<1>2. Building /\ todo[1].op = "refuse" BY <1>1, Kinds DEF EncInv
<1>3. Clean' => blocks \subseteq Tree("root")
  <2>1. Held = Tree("root") BY <1>2 DEF Held, Do
  <2> QED BY <1>1, <1>2, <2>1 DEF Clean, EncInv, BlocksOK, BuildHeld
<1>4. refused' \in Seq({"item", "key", "print", "shrink"}) BY <1>1 DEF EncInv, EncTypes
<1> QED BY <1>1, <1>3, <1>4, AbandonKeeps

LEMMA BeginPrintKeeps == ASSUME EncInv, BeginPrint PROVE EncInv'
<1> DEFINE value == [f \in ToSet(kids.root) |-> print_value(f)]
           t == print_object(kids.root, value)
<1>1. /\ todo # <<>> /\ Head(todo).op = "print" /\ todo' = t \o <<Final>>
      /\ blocks' = blocks \cup {<<"buffer">>}
      /\ msg' = msg /\ kids' = kids /\ out' = out /\ used' = used /\ room' = room
      /\ refused' = refused
  BY DEF BeginPrint, Pending, Final
<1>2. Building /\ todo[1].op = "print" BY <1>1, Kinds DEF EncInv
<1>3. t \in Seq(Pieces) /\ t # <<>> /\ t[1].bytes # <<>>
  <2>1. \A f \in ToSet(kids.root) : value[f] \in Seq(Pieces) BY PrintValueIs DEF EncInv
  <2>2. kids.root \in Seq(Fields) BY DEF EncInv, KidsOK
  <2> HIDE DEF value
  <2> QED BY <2>1, <2>2, ObjectIs
<1> HIDE DEF t
<1>4. /\ todo' \in Seq(Pieces \cup {Final}) /\ Len(todo') = Len(t) + 1 /\ todo'[Len(t) + 1] = Final
      /\ \A i \in 1 .. Len(t) : todo'[i] = t[i]
  <2>1. Pieces \subseteq Pieces \cup {Final} OBVIOUS
  <2>2. t \in Seq(Pieces \cup {Final}) BY <1>3, <2>1
  <2> HIDE DEF Final
  <2> QED BY <1>1, <2>2, AppendIs
<1>5. Len(t) \in Nat /\ Len(t) >= 1 /\ t[1] \in Pieces /\ \A i \in 1 .. Len(t) : t[i] \in Pieces
  BY <1>3, TailIs, SeqIs
<1>6. todo'[1] = t[1] /\ todo'[1] \in Pieces /\ todo'[1].bytes # <<>>
  BY <1>3, <1>4, <1>5
<1>7. todo' # <<>>
  <2>1. Len(<<>>) = 0 /\ Len(todo') # 0 BY <1>4, <1>5
  <2> QED BY <2>1, Zenon
<1>8. Printing' BY <1>4, <1>5, <1>7 DEF Printing
<1>9. ~ Building'
  <2>1. todo'[1].op = "piece" BY <1>6 DEF Pieces
  <2>2. 1 \in 1 .. Len(todo') BY <1>4, <1>5
  <2>3. \A q \in Tasks : q.op # "piece" BY DEF Tasks
  <2>4. todo' \notin Seq(Tasks) BY <2>1, <2>2, <2>3, SeqIs
  <2> QED BY <2>4 DEF Building
<1>10. ASSUME Clean' PROVE BlocksOK'
  <2>1. Held = Tree("root") BY <1>2 DEF Held, Do
  <2>2. blocks \subseteq Tree("root")
    BY <1>1, <1>2, <1>10, <2>1 DEF Clean, EncInv, BlocksOK, BuildHeld
  <2>3. Tree("root")' = Tree("root") BY <1>1, TreeSame
  <2> QED BY <1>1, <1>6, <1>7, <1>9, <2>2, <2>3 DEF BlocksOK, IdleHeld, BuildHeld, PrintHeld
<1>11. EncTypes' BY <1>1 DEF EncInv, EncTypes
<1>12. KidsOK' BY <1>1 DEF EncInv, KidsOK
<1>13. PrintFits' BY <1>1 DEF EncInv, PrintFits
<1> QED BY <1>8, <1>10, <1>11, <1>12, <1>13 DEF EncInv

LEMMA BeginPrintFailsKeeps == ASSUME EncInv, BeginPrintFails PROVE EncInv'
<1>1. /\ todo # <<>> /\ Head(todo).op = "print" /\ Abandon(Tree("root")) /\ Refuse("print")
  BY DEF BeginPrintFails, Pending
<1>2. Building /\ todo[1].op = "print" BY <1>1, Kinds DEF EncInv
<1>3. Clean' => blocks \subseteq Tree("root")
  <2>1. Held = Tree("root") BY <1>2 DEF Held, Do
  <2>2. Clean' => Clean BY <1>1, RefuseIs DEF EncInv
  <2> QED BY <1>2, <2>1, <2>2 DEF EncInv, BlocksOK, BuildHeld
<1>4. refused' \in Seq({"item", "key", "print", "shrink"}) BY <1>1, RefuseIs DEF EncInv
<1> QED BY <1>1, <1>3, <1>4, AbandonKeeps

\* A piece is written where ensure has made room for it.
LEMMA PrintPieceKeeps == ASSUME EncInv, PrintPiece PROVE EncInv'
<1>1. /\ todo # <<>> /\ Head(todo).op = "piece" /\ todo' = Tail(todo)
      /\ room' = IF Needed <= room THEN room ELSE 2 * Needed
      /\ out' = out \o Head(todo).bytes /\ used' = Len(out) + Head(todo).size
      /\ msg' = msg /\ kids' = kids /\ blocks' = blocks /\ refused' = refused
  BY DEF PrintPiece, Pending
<1> DEFINE p == todo[1]
<1>2. Printing /\ Head(todo) = p /\ p \in Pieces BY <1>1, Kinds DEF EncInv
<1>3. /\ todo \in Seq(Pieces \cup {Final}) /\ Len(todo) \in Nat /\ Len(todo) >= 1
      /\ todo' \in Seq(Pieces \cup {Final}) /\ Len(todo') = Len(todo) - 1
      /\ \A i \in 1 .. Len(todo') : todo'[i] = todo[i + 1]
  BY <1>1, <1>2, TailIs DEF Printing
<1>4. Len(todo) # 1
  <2>1. Final \notin Pieces BY DEF Final, Do, Pieces
  <2> QED BY <1>2, <2>1 DEF Printing
<1>5. todo' # <<>> /\ todo'[1] = todo[2]
  <2>1. Len(<<>>) = 0 /\ Len(todo') # 0 /\ 1 \in 1 .. Len(todo') BY <1>3, <1>4
  <2>2. todo' # <<>> BY <2>1, Zenon
  <2> QED BY <1>3, <2>1, <2>2
<1>6. Printing'
  <2>1. Len(todo') \in 1 .. Len(todo') /\ Len(todo') + 1 = Len(todo) BY <1>3, <1>4
  <2>2. todo'[Len(todo')] = Final BY <1>2, <1>3, <2>1 DEF Printing
  <2>3. \A i \in 1 .. Len(todo') - 1 : todo'[i] \in Pieces
    <3>1. \A i \in 1 .. Len(todo') - 1 : i \in 1 .. Len(todo') /\ i + 1 \in 1 .. Len(todo) - 1
      BY <1>3
    <3> QED BY <1>2, <1>3, <3>1 DEF Printing
  <2> QED BY <1>3, <1>5, <2>2, <2>3 DEF Printing
<1>7. /\ p.bytes \in Seq(Nat) /\ p.need \in Nat /\ p.size \in Nat /\ p.size <= p.need + 1
      /\ out \in Seq(Nat) /\ room \in Nat /\ used \in Nat
  BY <1>2 DEF Pieces, EncInv, EncTypes
<1>8. Len(out) \in Nat BY <1>7
<1>9. /\ Needed = p.need + Len(out) + 1
      /\ out' = out \o p.bytes /\ used' = Len(out) + p.size
  <2>1. Head(todo) = p BY <1>2
  <2> HIDE DEF p
  <2> QED BY <1>1, <2>1, Zenon DEF Needed
<1> HIDE DEF p
<1>10. PrintFits'
  <2>1. used' <= Needed /\ Needed \in Nat /\ used' \in Nat BY <1>1, <1>2, <1>7, <1>8, <1>9, SMTT(60)
  <2>2. used' <= room' BY <1>1, <1>7, <2>1
  <2> QED BY <2>2 DEF PrintFits
<1>11. EncTypes'
  <2>1. out' \in Seq(Nat) BY <1>7, <1>9, ConcatIs
  <2>2. Needed \in Nat BY <1>7, <1>8, <1>9
  <2>3. room' \in Nat BY <1>1, <1>7, <2>2
  <2>4. used' \in Nat BY <1>7, <1>8, <1>9
  <2> QED BY <1>1, <2>1, <2>3, <2>4 DEF EncInv, EncTypes
<1>12. KidsOK' BY <1>1 DEF EncInv, KidsOK
<1>13. ~ Building'
  <2>1. 1 \in 1 .. Len(todo') /\ todo'[1] \in Pieces \cup {Final} BY <1>3, <1>4
  <2>2. \A q \in Tasks : q.op \notin {"piece", "shrink"} BY DEF Tasks
  <2>3. \A q \in Pieces \cup {Final} : q.op \in {"piece", "shrink"} BY DEF Pieces, Final, Do
  <2>4. todo' \notin Seq(Tasks) BY <2>1, <2>2, <2>3, SeqIs
  <2> QED BY <2>4 DEF Building
<1>14. ASSUME Clean' PROVE BlocksOK'
  <2>1. /\ <<"buffer">> \in blocks /\ blocks \subseteq Tree("root") \cup {<<"buffer">>}
        /\ out # <<>> \/ p.bytes # <<>>
    BY <1>1, <1>2, <1>14 DEF Clean, EncInv, BlocksOK, PrintHeld, p
  <2>2. out' # <<>>
    <3>1. Len(out') = Len(out) + Len(p.bytes) /\ Len(p.bytes) \in Nat BY <1>7, <1>9, ConcatIs
    <3>2. \A s \in Seq(Nat) : s # <<>> => Len(s) # 0 OBVIOUS
    <3>3. Len(out') # 0 BY <1>7, <1>8, <2>1, <3>1, <3>2
    <3>4. Len(<<>>) = 0 OBVIOUS
    <3> QED BY <3>3, <3>4, Zenon
  <2>3. Tree("root")' = Tree("root") BY <1>1, TreeSame
  <2> QED BY <1>1, <1>5, <1>13, <2>1, <2>2, <2>3 DEF BlocksOK, IdleHeld, BuildHeld, PrintHeld
<1> QED BY <1>6, <1>10, <1>11, <1>12, <1>14 DEF EncInv

LEMMA PrintFailsKeeps == ASSUME EncInv, PrintFails PROVE EncInv'
<1> DEFINE freed == Tree("root") \cup {<<"buffer">>}
<1>1. /\ todo # <<>> /\ Head(todo).op = "piece" /\ Abandon(freed) /\ Refuse("print")
  BY DEF PrintFails, Pending
<1>2. Printing BY <1>1, Kinds DEF EncInv
<1>3. Clean' => blocks \subseteq freed
  <2>1. Clean' => Clean BY <1>1, RefuseIs DEF EncInv
  <2> QED BY <1>2, <2>1 DEF EncInv, BlocksOK, PrintHeld
<1>4. refused' \in Seq({"item", "key", "print", "shrink"}) BY <1>1, RefuseIs DEF EncInv
<1> HIDE DEF freed
<1> QED BY <1>1, <1>3, <1>4, AbandonKeeps

LEMMA ShrinkKeeps == ASSUME EncInv, Shrink PROVE EncInv'
<1>1. /\ todo # <<>> /\ Head(todo).op = "shrink" /\ todo' = Tail(todo)
      /\ blocks' = blocks \ Tree("root")
      /\ msg' = msg /\ kids' = kids /\ out' = out /\ used' = used /\ room' = room
      /\ refused' = refused
  BY DEF Shrink, Pending
<1>2. Printing /\ todo = <<Final>> /\ todo[1] \notin Pieces BY <1>1, Kinds DEF EncInv
<1>3. todo' = <<>>
  <2>1. \A x : Tail(<<x>>) = <<>> OBVIOUS
  <2> QED BY <1>1, <1>2, <2>1, Zenon
<1>4. ~ Building' /\ ~ Printing' BY <1>3 DEF Building, Printing
<1>5. ASSUME Clean' PROVE BlocksOK'
  <2>1. /\ <<"buffer">> \in blocks /\ blocks \subseteq Tree("root") \cup {<<"buffer">>} /\ out # <<>>
    BY <1>1, <1>2, <1>5 DEF Clean, EncInv, BlocksOK, PrintHeld
  <2>2. <<"buffer">> \notin Tree("root") BY TreeIs DEF EncInv
  <2>3. blocks' = {<<"buffer">>} BY <1>1, <2>1, <2>2
  <2> QED BY <1>1, <1>4, <2>1, <2>3 DEF BlocksOK, IdleHeld, BuildHeld, PrintHeld
<1>6. EncTypes' BY <1>1 DEF EncInv, EncTypes
<1>7. KidsOK' BY <1>1 DEF EncInv, KidsOK
<1>8. PrintFits' BY <1>1 DEF EncInv, PrintFits
<1> QED BY <1>3, <1>5, <1>6, <1>7, <1>8 DEF EncInv

LEMMA ShrinkFailsKeeps == ASSUME EncInv, ShrinkFails PROVE EncInv'
<1>1. Abandon(Tree("root")) /\ Refuse("shrink") BY DEF ShrinkFails
<1>2. refused' \in Seq({"item", "key", "print", "shrink"}) /\ ~ Clean' BY <1>1, RefuseIs DEF EncInv
<1> QED BY <1>1, <1>2, AbandonKeeps

LEMMA SendEncodedKeeps == ASSUME EncInv, send_encoded_message PROVE EncInv'
<1>1. /\ todo = <<>> /\ out # <<>> /\ blocks' = blocks \ {<<"buffer">>} /\ out' = <<>> /\ used' = 0
      /\ msg' = msg /\ todo' = todo /\ kids' = kids /\ room' = room /\ refused' = refused
  BY DEF send_encoded_message, Free
<1>2. ~ Building' /\ ~ Printing' BY <1>1 DEF Building, Printing
<1>3. ASSUME Clean' PROVE BlocksOK'
  <2>1. blocks = {<<"buffer">>} BY <1>1, <1>3 DEF Clean, EncInv, BlocksOK, IdleHeld
  <2> QED BY <1>1, <1>2, <2>1 DEF BlocksOK, IdleHeld, BuildHeld, PrintHeld
<1>4. EncTypes' BY <1>1 DEF EncInv, EncTypes
<1>5. KidsOK' BY <1>1 DEF EncInv, KidsOK
<1>6. PrintFits' BY <1>1 DEF PrintFits
<1> QED BY <1>1, <1>3, <1>4, <1>5, <1>6 DEF EncInv

LEMMA IdleKeeps == ASSUME EncInv, UNCHANGED encoderVars PROVE EncInv'
<1>1. /\ todo' = todo /\ out' = out /\ blocks' = blocks /\ used' = used /\ msg' = msg
      /\ kids' = kids /\ room' = room /\ refused' = refused
  BY DEF encoderVars
<1>2. \A f : Tree(f)' = Tree(f) BY <1>1, TreeSame
<1>3. Building' = Building /\ Printing' = Printing BY <1>1 DEF Building, Printing, Follows
<1>4. Held' = Held BY <1>1, <1>2 DEF Held
<1>5. DataFirst' = DataFirst BY <1>1 DEF DataFirst, Parent
<1>6. Clean' = Clean BY <1>1 DEF Clean
<1>7. BlocksOK => BlocksOK'
  BY <1>1, <1>2, <1>3, <1>4, <1>5 DEF BlocksOK, IdleHeld, BuildHeld, PrintHeld
<1>8. EncTypes' BY <1>1 DEF EncInv, EncTypes
<1>9. KidsOK' BY <1>1 DEF EncInv, KidsOK
<1>10. PrintFits' BY <1>1 DEF EncInv, PrintFits
<1> QED BY <1>1, <1>3, <1>6, <1>7, <1>8, <1>9, <1>10 DEF EncInv

LEMMA NextEnc == EncInv /\ [LinkNext]_linkVars => EncInv'
<1> SUFFICES ASSUME EncInv, [LinkNext]_linkVars PROVE EncInv' OBVIOUS
<1>1. CASE send_message BY <1>1, SendKeeps
<1>2. CASE Encode
  <2>1. EncodeStep BY <1>2 DEF Encode
  <2> QED BY <2>1, CreateKeeps, CreateFailsKeeps, AddKeeps, AddIsIgnoredKeeps, RefuseTypeKeeps,
             BeginPrintKeeps, BeginPrintFailsKeeps, PrintPieceKeeps, PrintFailsKeeps,
             ShrinkKeeps, ShrinkFailsKeeps
     DEF EncodeStep
<1>3. CASE send_encoded_message BY <1>3, SendEncodedKeeps
<1>4. CASE UNCHANGED encoderVars BY <1>4, IdleKeeps
<1>5. \/ send_keep_alive \/ Arrive \/ FetchObject \/ FetchError \/ ParseStep \/ decode_message
      \/ DeleteTree \/ UNCHANGED linkVars
      => UNCHANGED encoderVars
  BY DEF send_keep_alive, Arrive, FetchObject, FetchError, ParseStep, decode_message, DeleteTree,
         linkVars
<1> QED BY <1>1, <1>2, <1>3, <1>4, <1>5 DEF LinkNext

\* What the printer writes fits into the room that ensure has made for it: print_string_ptr
\* counts the bytes of a string before it escapes them, and neither that count nor the
\* sizes that the other printers ask for are ever too small.
THEOREM PrintedFits == LinkSpec => []PrintFits
<1>1. EncInv => PrintFits BY DEF EncInv
<1> QED BY <1>1, Init_Enc, NextEnc, PTL DEF LinkSpec

\* Wherever an allocation fails, encode_message and cJSON_PrintUnformatted free what the
\* others gave, unless it was the copy of a name or the last realloc.
THEOREM EncodeFreesAll == LinkSpec => []EncodeCleansUp
<1>1. EncInv => EncodeCleansUp BY DEF EncInv, EncodeCleansUp, Clean, BlocksOK, IdleHeld
<1> QED BY <1>1, Init_Enc, NextEnc, PTL DEF LinkSpec
=============================================================================
