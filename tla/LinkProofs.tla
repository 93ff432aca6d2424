------------------------------ MODULE LinkProofs ------------------------------
(***************************************************************************)
(* A message comes out of decode_message as it went into encode_message:   *)
(* what is printed is cut out of the stream whole, and is parsed back, for *)
(* all texts and all numbers.                                              *)
(***************************************************************************)
EXTENDS EncoderProofs, FiniteSetTheorems

-----------------------------------------------------------------------------
(* Sequences, and sequences of them that are put one behind the other.     *)

LEMMA LastIs ==
    ASSUME NEW A, NEW s \in Seq(A), NEW n \in Nat, Len(s) = n + 1
    PROVE  /\ SubSeq(s, 1, n) \in Seq(A) /\ Len(SubSeq(s, 1, n)) = n /\ s[n + 1] \in A
           /\ s = SubSeq(s, 1, n) \o <<s[n + 1]>>
           /\ \A i \in 1 .. n : SubSeq(s, 1, n)[i] = s[i]
<1> DEFINE f == SubSeq(s, 1, n)
           t == f \o <<s[n + 1]>>
<1>1. f \in Seq(A) /\ Len(f) = n /\ s[n + 1] \in A /\ \A i \in 1 .. n : f[i] = s[i] OBVIOUS
<1> HIDE DEF f
<1>2. t \in Seq(A) /\ Len(t) = n + 1 /\ t[n + 1] = s[n + 1] /\ \A i \in 1 .. n : t[i] = f[i]
  BY <1>1, AppendIs
<1> HIDE DEF t
<1>3. s = t BY <1>1, <1>2
<1> QED BY <1>1, <1>3 DEF t, f

LEMMA FlattenEmpty == FlattenSeq(<<>>) = <<>>
<1>1. Len(<<>>) = 0 OBVIOUS
<1> QED BY <1>1 DEF FlattenSeq

LEMMA FlattenAppend ==
    ASSUME NEW A, NEW s \in Seq(Seq(A)), NEW x \in Seq(A)
    PROVE  FlattenSeq(s \o <<x>>) = FlattenSeq(s) \o x
<1> DEFINE t == s \o <<x>>
<1>1. /\ t \in Seq(Seq(A)) /\ Len(t) = Len(s) + 1 /\ t[Len(s) + 1] = x
      /\ \A i \in 1 .. Len(s) : t[i] = s[i]
  BY AppendIs
<1> HIDE DEF t
<1>2. Len(s) \in Nat /\ t # <<>> BY <1>1
<1>3. PICK f \in [1..Len(t) -> Seq(A)] : Flattens(f, t, Len(t)) /\ FlattenSeq(t) = f[Len(t)]
  BY <1>1, <1>2, FlattenIs
<1>4. \A i \in 1 .. Len(t) : f[i] = Flat(f, t, i) BY <1>3, FlattenAt
<1>5. CASE s = <<>>
  <2>1. Len(s) = 0 BY <1>5
  <2>2. FlattenSeq(s) = <<>> BY <1>5, FlattenEmpty
  <2>3. f[1] = x BY <1>1, <1>4, <2>1 DEF Flat
  <2>4. <<>> \o x = x OBVIOUS
  <2> QED BY <1>1, <1>3, <2>1, <2>2, <2>3, <2>4 DEF t
<1>6. CASE s # <<>>
  <2>1. PICK g \in [1..Len(s) -> Seq(A)] : Flattens(g, s, Len(s)) /\ FlattenSeq(s) = g[Len(s)]
    BY <1>6, FlattenIs
  <2>2. \A i \in 1 .. Len(s) : g[i] = Flat(g, s, i) BY <2>1, FlattenAt
  <2> DEFINE P(n) == f[n] = g[n]
             S == {n \in Nat : n \in 1 .. Len(s) => P(n)}
  <2> HIDE DEF P
  <2>3. 0 \in S OBVIOUS
  <2>4. ASSUME NEW n \in Nat, n \in S PROVE n + 1 \in S
    <3>1. ASSUME n + 1 \in 1 .. Len(s) PROVE P(n + 1)
      <4>1. f[n + 1] = Flat(f, t, n + 1) /\ g[n + 1] = Flat(g, s, n + 1)
        BY <1>1, <1>2, <1>4, <2>2, <3>1
      <4>2. t[n + 1] = s[n + 1] BY <1>1, <3>1
      <4>3. n # 0 => f[n] = g[n] BY <1>2, <2>4, <3>1 DEF P
      <4> QED BY <4>1, <4>2, <4>3 DEF Flat, P
    <3>2. n + 1 \in Nat OBVIOUS
    <3> QED BY <3>1, <3>2
  <2> HIDE DEF S
  <2>5. Nat \subseteq S BY <2>3, <2>4, NatInd
  <2>6. Len(s) \in 1 .. Len(s) BY <1>2, <1>6
  <2>7. f[Len(s)] = g[Len(s)] BY <1>2, <2>5, <2>6 DEF S, P
  <2>8. f[Len(s) + 1] = f[Len(s)] \o x
    <3>1. Len(s) + 1 \in 1 .. Len(t) /\ Len(s) + 1 # 1 /\ (Len(s) + 1) - 1 = Len(s) BY <1>1, <2>6
    <3> QED BY <1>1, <1>4, <3>1 DEF Flat
  <2> QED BY <1>1, <1>3, <2>1, <2>7, <2>8 DEF t
<1> QED BY <1>5, <1>6

LEMMA FlattenOne == ASSUME NEW A, NEW x \in Seq(A) PROVE FlattenSeq(<<x>>) = x
<1>1. <<>> \in Seq(Seq(A)) /\ <<>> \o <<x>> = <<x>> /\ <<>> \o x = x OBVIOUS
<1>2. FlattenSeq(<<>> \o <<x>>) = FlattenSeq(<<>>) \o x BY <1>1, FlattenAppend
<1> QED BY <1>1, <1>2, FlattenEmpty

LEMMA FlattenConcat ==
    ASSUME NEW A, NEW s \in Seq(Seq(A)), NEW t \in Seq(Seq(A))
    PROVE  FlattenSeq(s \o t) = FlattenSeq(s) \o FlattenSeq(t)
<1> DEFINE B == Seq(A)
           P(u) == FlattenSeq(s \o u) = FlattenSeq(s) \o FlattenSeq(u)
           S == {n \in Nat : \A u \in Seq(B) : Len(u) = n => P(u)}
<1>0. FlattenSeq(s) \in Seq(A) /\ s \in Seq(B) /\ t \in Seq(B) BY FlattenType
<1>1. \A u \in Seq(B), x \in B : FlattenSeq(u \o <<x>>) = FlattenSeq(u) \o x BY FlattenAppend
<1>2. \A u \in Seq(B) : FlattenSeq(u) \in Seq(A) BY FlattenType
<1>3. B = Seq(A) OBVIOUS
<1> HIDE DEF P, B
<1>4. 0 \in S
  <2> SUFFICES ASSUME NEW u \in Seq(B), Len(u) = 0 PROVE P(u) OBVIOUS
  <2>1. u = <<>> OBVIOUS
  <2>2. s \o <<>> = s /\ FlattenSeq(s) \o <<>> = FlattenSeq(s) BY <1>0
  <2> QED BY <2>1, <2>2, FlattenEmpty DEF P
<1>5. ASSUME NEW n \in Nat, n \in S PROVE n + 1 \in S
  <2>1. ASSUME NEW u \in Seq(B), Len(u) = n + 1 PROVE P(u)
    <3> DEFINE v == SubSeq(u, 1, n)
               x == u[n + 1]
    <3>1. v \in Seq(B) /\ Len(v) = n /\ x \in B /\ u = v \o <<x>> BY <2>1, LastIs
    <3>2. P(v) BY <1>5, <3>1
    <3> HIDE DEF v, x
    <3>3. <<x>> \in Seq(B) /\ s \o v \in Seq(B) BY <1>0, <3>1
    <3>4. s \o u = (s \o v) \o <<x>> BY <1>0, <3>1, <3>3, ConcatAssociative
    <3>5. FlattenSeq(s \o u) = FlattenSeq(s \o v) \o x BY <1>1, <3>1, <3>3, <3>4
    <3>6. FlattenSeq(u) = FlattenSeq(v) \o x BY <1>1, <3>1
    <3>7. FlattenSeq(v) \in Seq(A) /\ x \in Seq(A) BY <1>2, <1>3, <3>1
    <3>8. (FlattenSeq(s) \o FlattenSeq(v)) \o x = FlattenSeq(s) \o (FlattenSeq(v) \o x)
      BY <1>0, <3>7, ConcatAssociative
    <3> QED BY <3>2, <3>5, <3>6, <3>8 DEF P
  <2> QED BY <2>1
<1> HIDE DEF S
<1>6. Nat \subseteq S BY <1>4, <1>5, NatInd
<1>7. Len(t) \in Nat OBVIOUS
<1> QED BY <1>0, <1>6, <1>7 DEF S, P

-----------------------------------------------------------------------------
(* Bytes that are somewhere in a longer sequence.                          *)

Holds(t, o, b) == o + Len(b) <= Len(t) /\ \A i \in 1 .. Len(b) : t[o + i] = b[i]

LEMMA HoldsAll == ASSUME NEW t \in Seq(Nat) PROVE Holds(t, 0, t)
  BY DEF Holds

LEMMA HoldsParts ==
    ASSUME NEW t, NEW o \in Nat, NEW a \in Seq(Nat), NEW b \in Seq(Nat), Len(t) \in Nat,
           Holds(t, o, a \o b)
    PROVE  Holds(t, o, a) /\ Holds(t, o + Len(a), b)
<1> DEFINE c == a \o b
<1>1. /\ Len(c) = Len(a) + Len(b) /\ Len(a) \in Nat /\ Len(b) \in Nat
      /\ \A i \in 1 .. Len(a) : c[i] = a[i]
      /\ \A i \in 1 .. Len(b) : c[Len(a) + i] = b[i]
  OBVIOUS
<1> HIDE DEF c
<1>2. o + Len(c) <= Len(t) /\ \A i \in 1 .. Len(c) : t[o + i] = c[i] BY DEF Holds, c
<1>3. Holds(t, o, a)
  <2>1. \A i \in 1 .. Len(a) : i \in 1 .. Len(c) BY <1>1
  <2> QED BY <1>1, <1>2, <2>1 DEF Holds
<1>4. Holds(t, o + Len(a), b)
  <2>1. \A i \in 1 .. Len(b) : Len(a) + i \in 1 .. Len(c) /\ (o + Len(a)) + i = o + (Len(a) + i)
    BY <1>1
  <2>2. \A i \in 1 .. Len(b) : t[(o + Len(a)) + i] = b[i] BY <1>1, <1>2, <2>1
  <2> QED BY <1>1, <1>2, <2>2 DEF Holds
<1> QED BY <1>3, <1>4

\* Where each part begins.
Starts(pos, t, o, parts) ==
    /\ pos \in [1 .. Len(parts) + 1 -> Nat] /\ pos[1] = o
    /\ \A i \in 1 .. Len(parts) :
         Holds(t, pos[i], parts[i]) /\ pos[i + 1] = pos[i] + Len(parts[i])

LEMMA HoldsFlat ==
    ASSUME NEW t, Len(t) \in Nat, NEW o \in Nat, NEW parts \in Seq(Seq(Nat)),
           Holds(t, o, FlattenSeq(parts))
    PROVE  \E pos : /\ Starts(pos, t, o, parts)
                   /\ pos[Len(parts) + 1] = o + Len(FlattenSeq(parts))
<1> DEFINE B == Seq(Nat)
           P(u) == Holds(t, o, FlattenSeq(u)) =>
                     \E pos : Starts(pos, t, o, u) /\ pos[Len(u) + 1] = o + Len(FlattenSeq(u))
           S == {n \in Nat : \A u \in Seq(B) : Len(u) = n => P(u)}
<1>1. \A u \in Seq(B), x \in B : FlattenSeq(u \o <<x>>) = FlattenSeq(u) \o x BY FlattenAppend
<1>2. \A u \in Seq(B) : FlattenSeq(u) \in Seq(Nat) BY FlattenType
<1>3. B = Seq(Nat) OBVIOUS
<1> HIDE DEF P, B
<1>4. 0 \in S
  <2> SUFFICES ASSUME NEW u \in Seq(B), Len(u) = 0 PROVE P(u) OBVIOUS
  <2> DEFINE pos == [i \in 1 .. 1 |-> o]
  <2>1. u = <<>> OBVIOUS
  <2>2. Len(FlattenSeq(u)) = 0 BY <2>1, FlattenEmpty
  <2>3. pos \in [1 .. 1 -> Nat] /\ pos[1] = o OBVIOUS
  <2> HIDE DEF pos
  <2>4. Starts(pos, t, o, u) /\ pos[Len(u) + 1] = o + Len(FlattenSeq(u)) BY <2>2, <2>3 DEF Starts
  <2> QED BY <2>4 DEF P
<1>5. ASSUME NEW n \in Nat, n \in S PROVE n + 1 \in S
  <2>1. ASSUME NEW u \in Seq(B), Len(u) = n + 1, Holds(t, o, FlattenSeq(u))
        PROVE  \E pos : Starts(pos, t, o, u) /\ pos[Len(u) + 1] = o + Len(FlattenSeq(u))
    <3> DEFINE v == SubSeq(u, 1, n)
               x == u[n + 1]
    <3>1. /\ v \in Seq(B) /\ Len(v) = n /\ x \in B /\ u = v \o <<x>>
          /\ \A i \in 1 .. n : v[i] = u[i]
      BY <2>1, LastIs
    <3>2. P(v) BY <1>5, <3>1
    <3> HIDE DEF v
    <3> DEFINE a == FlattenSeq(v)
    <3>3. FlattenSeq(u) = a \o x BY <1>1, <3>1
    <3>4. a \in Seq(Nat) /\ x \in Seq(Nat) BY <1>2, <1>3, <3>1
    <3> HIDE DEF a, x
    <3>5. Holds(t, o, a) /\ Holds(t, o + Len(a), x) BY <2>1, <3>3, <3>4, HoldsParts
    <3>6. PICK f : Starts(f, t, o, v) /\ f[Len(v) + 1] = o + Len(a) BY <3>2, <3>5 DEF P, a
    <3>7. Len(a \o x) = Len(a) + Len(x) /\ Len(a) \in Nat /\ Len(x) \in Nat BY <3>4
    <3> DEFINE g == [i \in 1 .. n + 2 |-> IF i = n + 2 THEN (o + Len(a)) + Len(x) ELSE f[i]]
    <3>8. f \in [1 .. n + 1 -> Nat] /\ f[1] = o /\ f[n + 1] = o + Len(a)
      BY <3>1, <3>6 DEF Starts
    <3>9. /\ g \in [1 .. n + 2 -> Nat] /\ g[n + 2] = (o + Len(a)) + Len(x)
          /\ \A i \in 1 .. n + 1 : g[i] = f[i]
      BY <3>7, <3>8
    <3> HIDE DEF g
    <3>10. ASSUME NEW i \in 1 .. n + 1
           PROVE  Holds(t, g[i], u[i]) /\ g[i + 1] = g[i] + Len(u[i])
      <4>1. CASE i = n + 1
        <5>1. u[i] = x BY <4>1 DEF x
        <5>2. i + 1 = n + 2 /\ i \in 1 .. n + 1 BY <4>1
        <5>3. g[i] = o + Len(a) BY <4>1, <5>2, <3>8, <3>9
        <5>4. g[i + 1] = (o + Len(a)) + Len(x) BY <5>2, <3>9
        <5> QED BY <3>5, <5>1, <5>3, <5>4
      <4>2. CASE i # n + 1
        <5>1. i \in 1 .. n /\ i + 1 \in 1 .. n + 1 BY <4>2
        <5>2. Holds(t, f[i], v[i]) /\ f[i + 1] = f[i] + Len(v[i]) BY <3>1, <3>6, <5>1 DEF Starts
        <5>3. v[i] = u[i] /\ g[i] = f[i] /\ g[i + 1] = f[i + 1] BY <3>1, <3>9, <5>1
        <5> QED BY <5>2, <5>3
      <4> QED BY <4>1, <4>2
    <3>11. g[1] = o /\ Len(u) + 1 = n + 2 BY <2>1, <3>8, <3>9
    <3>12. g[n + 2] = o + Len(a \o x) BY <3>7, <3>9
    <3>13. Starts(g, t, o, u) BY <2>1, <3>9, <3>10, <3>11 DEF Starts
    <3> QED BY <3>3, <3>11, <3>12, <3>13
  <2>2. ASSUME NEW u \in Seq(B), Len(u) = n + 1 PROVE P(u) BY <2>1, <2>2 DEF P
  <2> QED BY <2>2
<1> HIDE DEF S
<1>6. Nat \subseteq S BY <1>4, <1>5, NatInd
<1>7. Len(parts) \in Nat /\ parts \in Seq(B) BY <1>3
<1> QED BY <1>6, <1>7 DEF S, P

-----------------------------------------------------------------------------
(* What the pieces of an object make together.                             *)

Bytes(pieces) == FlattenSeq([i \in DOMAIN pieces |-> pieces[i].bytes])

LEMMA BytesTyped ==
    ASSUME NEW p \in Seq(Pieces)
    PROVE  /\ [i \in DOMAIN p |-> p[i].bytes] \in Seq(Seq(Nat))
           /\ Bytes(p) \in Seq(Nat)
<1>1. \A i \in DOMAIN p : p[i].bytes \in Seq(Nat) BY DEF Pieces
<1>2. [i \in DOMAIN p |-> p[i].bytes] \in Seq(Seq(Nat)) BY <1>1, SeqIs
<1> QED BY <1>2, FlattenType DEF Bytes

LEMMA BytesAppend ==
    ASSUME NEW p \in Seq(Pieces), NEW q \in Pieces
    PROVE  Bytes(p \o <<q>>) = Bytes(p) \o q.bytes
<1> DEFINE b(s) == [i \in DOMAIN s |-> s[i].bytes]
           r == p \o <<q>>
<1>1. /\ r \in Seq(Pieces) /\ Len(r) = Len(p) + 1 /\ r[Len(p) + 1] = q
      /\ \A i \in 1 .. Len(p) : r[i] = p[i]
  BY AppendIs
<1> HIDE DEF r
<1>2. q.bytes \in Seq(Nat) BY DEF Pieces
<1>3. b(p) \in Seq(Seq(Nat)) BY BytesTyped
<1>4. b(r) = b(p) \o <<q.bytes>>
  <2> DEFINE c == b(p) \o <<q.bytes>>
             B == Seq(Nat)
             d == b(p)
             e == b(r)
  <2>1. d \in Seq(B) /\ q.bytes \in B BY <1>2, <1>3
  <2>2. Len(d) = Len(p) /\ \A i \in 1 .. Len(p) : d[i] = p[i].bytes BY SeqIs
  <2>3. e \in Seq(B) BY <1>1, BytesTyped
  <2>4. Len(e) = Len(r) /\ \A i \in 1 .. Len(r) : e[i] = r[i].bytes BY <1>1, SeqIs
  <2> HIDE DEF B, d, e
  <2>5. d \o <<q.bytes>> \in Seq(B) BY <2>1
  <2>6. /\ Len(d \o <<q.bytes>>) = Len(d) + 1 /\ (d \o <<q.bytes>>)[Len(d) + 1] = q.bytes
        /\ \A i \in 1 .. Len(d) : (d \o <<q.bytes>>)[i] = d[i]
    BY <2>1, AppendIs
  <2>7. e = d \o <<q.bytes>>
    <3> DEFINE h == d \o <<q.bytes>>
    <3> HIDE DEF h
    <3>1. Len(e) = Len(h) /\ Len(h) \in Nat BY <1>1, <2>2, <2>4, <2>5, <2>6 DEF h
    <3>2. ASSUME NEW i \in 1 .. Len(h) PROVE e[i] = h[i]
      <4>1. i \in 1 .. Len(p) \/ i = Len(p) + 1 BY <2>2, <2>6 DEF h
      <4>2. CASE i \in 1 .. Len(p) BY <1>1, <2>2, <2>4, <2>6, <4>2 DEF h
      <4>3. CASE i = Len(p) + 1 BY <1>1, <2>2, <2>4, <2>6, <4>3 DEF h
      <4> QED BY <4>1, <4>2, <4>3
    <3>3. h \in Seq(B) BY <2>5 DEF h
    <3>4. e = h BY <2>3, <3>1, <3>2, <3>3
    <3> QED BY <3>4 DEF h
  <2> QED BY <2>7 DEF d, e
<1> HIDE DEF b
<1>5. FlattenSeq(b(p) \o <<q.bytes>>) = FlattenSeq(b(p)) \o q.bytes BY <1>2, <1>3, FlattenAppend
<1> QED BY <1>4, <1>5 DEF Bytes, b, r

LEMMA BytesEmpty == Bytes(<<>>) = <<>>
<1>1. [i \in DOMAIN <<>> |-> <<>>[i].bytes] = <<>> OBVIOUS
<1> QED BY <1>1, FlattenEmpty DEF Bytes

LEMMA BytesOne == ASSUME NEW p \in Pieces PROVE Bytes(<<p>>) = p.bytes
<1>1. <<>> \in Seq(Pieces) /\ <<>> \o <<p>> = <<p>> OBVIOUS
<1>2. p.bytes \in Seq(Nat) BY DEF Pieces
<1>3. <<>> \o p.bytes = p.bytes BY <1>2
<1> QED BY <1>1, <1>3, BytesAppend, BytesEmpty

LEMMA BytesConcat ==
    ASSUME NEW p \in Seq(Pieces), NEW q \in Seq(Pieces)
    PROVE  Bytes(p \o q) = Bytes(p) \o Bytes(q)
<1> DEFINE P(u) == Bytes(p \o u) = Bytes(p) \o Bytes(u)
           S == {n \in Nat : \A u \in Seq(Pieces) : Len(u) = n => P(u)}
<1>0. Bytes(p) \in Seq(Nat) BY BytesTyped
<1> HIDE DEF P
<1>1. 0 \in S
  <2> SUFFICES ASSUME NEW u \in Seq(Pieces), Len(u) = 0 PROVE P(u) OBVIOUS
  <2>1. u = <<>> OBVIOUS
  <2>2. p \o <<>> = p /\ Bytes(p) \o <<>> = Bytes(p) BY <1>0
  <2> QED BY <2>1, <2>2, BytesEmpty DEF P
<1>2. ASSUME NEW n \in Nat, n \in S PROVE n + 1 \in S
  <2>1. ASSUME NEW u \in Seq(Pieces), Len(u) = n + 1 PROVE P(u)
    <3> DEFINE v == SubSeq(u, 1, n)
               x == u[n + 1]
    <3>1. v \in Seq(Pieces) /\ Len(v) = n /\ x \in Pieces /\ u = v \o <<x>> BY <2>1, LastIs
    <3>2. P(v) BY <1>2, <3>1
    <3> HIDE DEF v, x
    <3>3. <<x>> \in Seq(Pieces) /\ p \o v \in Seq(Pieces) BY <3>1
    <3>4. p \o u = (p \o v) \o <<x>> BY <3>1, <3>3, ConcatAssociative
    <3>5. Bytes(p \o u) = Bytes(p \o v) \o x.bytes BY <3>1, <3>3, <3>4, BytesAppend
    <3>6. Bytes(u) = Bytes(v) \o x.bytes BY <3>1, BytesAppend
    <3>7. Bytes(v) \in Seq(Nat) /\ x.bytes \in Seq(Nat) BY <3>1, BytesTyped DEF Pieces
    <3>8. ASSUME NEW a \in Seq(Nat), NEW b \in Seq(Nat), NEW c \in Seq(Nat)
          PROVE  (a \o b) \o c = a \o (b \o c)
      BY ConcatAssociative, SMTT(60)
    <3>9. (Bytes(p) \o Bytes(v)) \o x.bytes = Bytes(p) \o (Bytes(v) \o x.bytes)
      BY <1>0, <3>7, <3>8
    <3> QED BY <3>2, <3>5, <3>6, <3>9 DEF P
  <2> QED BY <2>1
<1> HIDE DEF S
<1>3. Nat \subseteq S BY <1>1, <1>2, NatInd
<1>4. Len(q) \in Nat OBVIOUS
<1> QED BY <1>3, <1>4 DEF S, P

LEMMA BytesFlat ==
    ASSUME NEW ps \in Seq(Seq(Pieces))
    PROVE  Bytes(FlattenSeq(ps)) = FlattenSeq([i \in DOMAIN ps |-> Bytes(ps[i])])
<1> DEFINE B == Seq(Pieces)
           C == Seq(Nat)
           m(u) == [i \in DOMAIN u |-> Bytes(u[i])]
           P(u) == Bytes(FlattenSeq(u)) = FlattenSeq(m(u))
           S == {n \in Nat : \A u \in Seq(B) : Len(u) = n => P(u)}
<1>1. \A u \in Seq(B), x \in B : FlattenSeq(u \o <<x>>) = FlattenSeq(u) \o x BY FlattenAppend
<1>2. \A u \in Seq(B) : FlattenSeq(u) \in B BY FlattenType
<1>3. \A a, b \in B : Bytes(a \o b) = Bytes(a) \o Bytes(b) BY BytesConcat
<1>4. \A u \in Seq(C), x \in C : FlattenSeq(u \o <<x>>) = FlattenSeq(u) \o x BY FlattenAppend
<1>5. \A a \in B : Bytes(a) \in C BY BytesTyped
<1>6. ps \in Seq(B) OBVIOUS
<1> HIDE DEF P, B, C
<1>7. 0 \in S
  <2> SUFFICES ASSUME NEW u \in Seq(B), Len(u) = 0 PROVE P(u) OBVIOUS
  <2>1. u = <<>> OBVIOUS
  <2>2. m(<<>>) = <<>> OBVIOUS
  <2> QED BY <2>1, <2>2, BytesEmpty, FlattenEmpty DEF P
<1>8. ASSUME NEW u \in Seq(B) PROVE m(u) \in Seq(C) /\ Len(m(u)) = Len(u)
  <2>1. \A i \in DOMAIN u : Bytes(u[i]) \in C BY <1>5, SeqIs
  <2> QED BY <2>1, SeqIs
<1>9. ASSUME NEW n \in Nat, n \in S PROVE n + 1 \in S
  <2>1. ASSUME NEW u \in Seq(B), Len(u) = n + 1 PROVE P(u)
    <3> DEFINE v == SubSeq(u, 1, n)
               x == u[n + 1]
    <3>1. /\ v \in Seq(B) /\ Len(v) = n /\ x \in B /\ u = v \o <<x>>
          /\ \A i \in 1 .. n : v[i] = u[i]
      BY <2>1, LastIs
    <3>2. P(v) BY <1>9, <3>1
    <3> HIDE DEF v
    <3>3. m(u) = m(v) \o <<Bytes(x)>>
      <4> DEFINE a == m(u)
                 b == m(v)
                 y == Bytes(x)
                 c == b \o <<y>>
      <4>1. a \in Seq(C) /\ Len(a) = n + 1 /\ b \in Seq(C) /\ Len(b) = n /\ y \in C
        BY <1>5, <1>8, <2>1, <3>1
      <4>2. \A i \in 1 .. n + 1 : a[i] = Bytes(u[i])
        <5>1. DOMAIN u = 1 .. n + 1 BY <2>1, SeqIs
        <5> QED BY <5>1
      <4>3. \A i \in 1 .. n : b[i] = Bytes(v[i])
        <5>1. DOMAIN v = 1 .. n BY <3>1, SeqIs
        <5> QED BY <5>1
      <4>4. a[n + 1] = y /\ \A i \in 1 .. n : a[i] = b[i] BY <3>1, <4>2, <4>3
      <4> HIDE DEF a, b, y
      <4>5. /\ c \in Seq(C) /\ Len(c) = n + 1 /\ c[n + 1] = y
            /\ \A i \in 1 .. n : c[i] = b[i]
        BY <4>1, AppendIs
      <4> HIDE DEF c
      <4>6. a = c BY <4>1, <4>4, <4>5
      <4> QED BY <4>6 DEF a, b, c, y
    <3> HIDE DEF x
    <3>4. m(v) \in Seq(C) /\ Bytes(x) \in C BY <1>5, <1>8, <3>1
    <3> HIDE DEF m
    <3>5. FlattenSeq(m(u)) = FlattenSeq(m(v)) \o Bytes(x) BY <1>4, <3>3, <3>4
    <3>6. FlattenSeq(u) = FlattenSeq(v) \o x BY <1>1, <3>1
    <3>7. Bytes(FlattenSeq(u)) = Bytes(FlattenSeq(v)) \o Bytes(x) BY <1>2, <1>3, <3>1, <3>6
    <3> QED BY <3>2, <3>5, <3>7 DEF P
  <2> QED BY <2>1
<1> HIDE DEF S, m
<1>10. Nat \subseteq S BY <1>7, <1>9, NatInd
<1>11. Len(ps) \in Nat OBVIOUS
<1> QED BY <1>6, <1>10, <1>11 DEF S, P, m

-----------------------------------------------------------------------------
(* An object as it is printed.                                             *)

Spelt(s) == FlattenSeq([i \in DOMAIN s |-> Escaped(s[i])])
Quoted(s) == <<Quote>> \o Spelt(s) \o <<Quote>>
FieldBytes(F, V, i) ==
    Quoted(Name[F[i]]) \o <<Colon>> \o V[F[i]] \o (IF i < Len(F) THEN <<Comma>> ELSE <<>>)
ObjectBytes(F, V) ==
    <<Open["Object"]>> \o FlattenSeq([i \in DOMAIN F |-> FieldBytes(F, V, i)]) \o <<Close["Object"]>>

LEMMA QuotedTyped ==
    ASSUME NEW s \in Seq(1..255)
    PROVE  /\ Spelt(s) \in Seq(Nat) /\ Quoted(s) \in Seq(Nat)
           /\ Len(Quoted(s)) = Len(Spelt(s)) + 2
           /\ StringPiece(s).bytes = Quoted(s) /\ StringPiece(s) \in Pieces
<1>1. Spelt(s) \in Seq(Nat) BY EscapedString DEF Spelt
<1>2. <<Quote>> \in Seq(Nat) /\ Len(<<Quote>>) = 1 BY DEF Quote
<1>3. <<Quote>> \o Spelt(s) \in Seq(Nat) /\ Len(<<Quote>> \o Spelt(s)) = 1 + Len(Spelt(s))
  BY <1>1, <1>2, ConcatIs
<1>4. Quoted(s) \in Seq(Nat) /\ Len(Quoted(s)) = (1 + Len(Spelt(s))) + 1
  BY <1>2, <1>3, ConcatIs DEF Quoted
<1>5. Len(Spelt(s)) \in Nat BY <1>1
<1>6. StringPiece(s).bytes = Quoted(s) BY DEF StringPiece, Piece, Quoted, Spelt
<1> QED BY <1>1, <1>4, <1>5, <1>6, StringPieceIs

LEMMA FieldTyped ==
    ASSUME NEW F \in Seq(Fields), NEW V, \A f \in ToSet(F) : V[f] \in Seq(Nat), NEW i \in DOMAIN F
    PROVE  /\ Quoted(Name[F[i]]) \in Seq(Nat) /\ V[F[i]] \in Seq(Nat)
           /\ <<Colon>> \in Seq(Nat) /\ Len(<<Colon>>) = 1
           /\ (IF i < Len(F) THEN <<Comma>> ELSE <<>>) \in Seq(Nat)
           /\ FieldBytes(F, V, i) \in Seq(Nat)
<1>1. F[i] \in Fields /\ F[i] \in ToSet(F) BY DEF ToSet
<1>2. Quoted(Name[F[i]]) \in Seq(Nat) BY <1>1, NameIs, QuotedTyped
<1>3. V[F[i]] \in Seq(Nat) BY <1>1
<1>4. /\ <<Colon>> \in Seq(Nat) /\ Len(<<Colon>>) = 1
      /\ (IF i < Len(F) THEN <<Comma>> ELSE <<>>) \in Seq(Nat)
  BY DEF Colon, Comma
<1> DEFINE last == IF i < Len(F) THEN <<Comma>> ELSE <<>>
<1>5. FieldBytes(F, V, i) = Quoted(Name[F[i]]) \o <<Colon>> \o V[F[i]] \o last BY DEF FieldBytes
<1>6. last \in Seq(Nat) BY <1>4
<1> HIDE DEF last
<1>7. Quoted(Name[F[i]]) \o <<Colon>> \in Seq(Nat) BY <1>2, <1>4, ConcatIs
<1>8. Quoted(Name[F[i]]) \o <<Colon>> \o V[F[i]] \in Seq(Nat) BY <1>3, <1>7, ConcatIs
<1>9. FieldBytes(F, V, i) \in Seq(Nat) BY <1>5, <1>6, <1>8, ConcatIs
<1> QED BY <1>2, <1>3, <1>4, <1>9

LEMMA ObjectTyped ==
    ASSUME NEW F \in Seq(Fields), NEW V, \A f \in ToSet(F) : V[f] \in Seq(Nat)
    PROVE  /\ [i \in DOMAIN F |-> FieldBytes(F, V, i)] \in Seq(Seq(Nat))
           /\ FlattenSeq([i \in DOMAIN F |-> FieldBytes(F, V, i)]) \in Seq(Nat)
           /\ ObjectBytes(F, V) \in Seq(Nat)
           /\ Len(ObjectBytes(F, V)) = Len(FlattenSeq([i \in DOMAIN F |-> FieldBytes(F, V, i)])) + 2
           /\ <<Open["Object"]>> \in Seq(Nat) /\ <<Close["Object"]>> \in Seq(Nat)
           /\ <<Open["Object"]>> \o FlattenSeq([i \in DOMAIN F |-> FieldBytes(F, V, i)]) \in Seq(Nat)
<1> DEFINE parts == [i \in DOMAIN F |-> FieldBytes(F, V, i)]
<1>1. parts \in Seq(Seq(Nat))
  <2>1. \A i \in DOMAIN F : FieldBytes(F, V, i) \in Seq(Nat) BY FieldTyped
  <2> QED BY <2>1, SeqIs
<1>2. FlattenSeq(parts) \in Seq(Nat) BY <1>1, FlattenType
<1>3. ObjectBytes(F, V) = <<Open["Object"]>> \o FlattenSeq(parts) \o <<Close["Object"]>> BY DEF ObjectBytes
<1> DEFINE body == FlattenSeq(parts)
<1>4. body \in Seq(Nat) /\ ObjectBytes(F, V) = (<<Open["Object"]>> \o body) \o <<Close["Object"]>>
  BY <1>2, <1>3
<1> HIDE DEF body, parts
<1>5. /\ <<Open["Object"]>> \in Seq(Nat) /\ <<Close["Object"]>> \in Seq(Nat)
      /\ Len(<<Open["Object"]>>) = 1 /\ Len(<<Close["Object"]>>) = 1
  BY DEF Open, Close
<1>6. /\ <<Open["Object"]>> \o body \in Seq(Nat)
      /\ Len(<<Open["Object"]>> \o body) = 1 + Len(body)
  BY <1>4, <1>5, ConcatIs
<1>7. ObjectBytes(F, V) \in Seq(Nat) /\ Len(ObjectBytes(F, V)) = (1 + Len(body)) + 1
  BY <1>4, <1>5, <1>6, ConcatIs
<1>8. Len(body) \in Nat BY <1>4
<1> QED BY <1>1, <1>4, <1>5, <1>6, <1>7, <1>8 DEF body, parts

LEMMA PrintedObject ==
    ASSUME NEW fields \in Seq(Fields), NEW value, NEW V,
           \A f \in ToSet(fields) : value[f] \in Seq(Pieces) /\ V[f] = Bytes(value[f])
    PROVE  Bytes(print_object(fields, value)) = ObjectBytes(fields, V)
<1> DEFINE first == Piece(<<Open["Object"]>>, 2, 0)
           tail(i) == <<IF i < Len(fields) THEN Piece(<<Comma>>, 2, 1) ELSE Piece(<<>>, 1, 1)>>
           part(i) == <<StringPiece(Name[fields[i]]), Piece(<<Colon>>, 1, 0)>> \o value[fields[i]] \o tail(i)
           parts == [i \in DOMAIN fields |-> part(i)]
           last == Piece(<<Close["Object"]>>, 2, 1)
<1>1. /\ first \in Pieces /\ last \in Pieces
      /\ first.bytes = <<Open["Object"]>> /\ last.bytes = <<Close["Object"]>>
  <2>1. Open["Object"] \in Nat /\ Close["Object"] \in Nat BY DEF Open, Close
  <2>2. first.bytes = <<Open["Object"]>> /\ last.bytes = <<Close["Object"]>> BY DEF Piece
  <2> QED BY <2>1, <2>2, SmallPieces
<1>2. /\ Piece(<<Comma>>, 2, 1) \in Pieces /\ Piece(<<>>, 1, 1) \in Pieces /\ Piece(<<Colon>>, 1, 0) \in Pieces
      /\ Piece(<<Comma>>, 2, 1).bytes = <<Comma>> /\ Piece(<<>>, 1, 1).bytes = <<>>
      /\ Piece(<<Colon>>, 1, 0).bytes = <<Colon>>
  BY SmallPieces DEF Comma, Colon, Piece
<1>3. ASSUME NEW i \in DOMAIN fields
      PROVE  part(i) \in Seq(Pieces) /\ Bytes(part(i)) = FieldBytes(fields, V, i)
  <2>1. fields[i] \in Fields /\ fields[i] \in ToSet(fields) BY <1>3 DEF ToSet
  <2> DEFINE q == StringPiece(Name[fields[i]])
             c == Piece(<<Colon>>, 1, 0)
             e == tail(i)
             w == value[fields[i]]
  <2>2. q \in Pieces /\ q.bytes = Quoted(Name[fields[i]]) BY <2>1, NameIs, QuotedTyped
  <2>3. c \in Pieces /\ c.bytes = <<Colon>> BY <1>2
  <2>4. e \in Seq(Pieces) /\ Bytes(e) = IF i < Len(fields) THEN <<Comma>> ELSE <<>>
    <3> DEFINE x == IF i < Len(fields) THEN Piece(<<Comma>>, 2, 1) ELSE Piece(<<>>, 1, 1)
    <3>1. x \in Pieces /\ x.bytes = IF i < Len(fields) THEN <<Comma>> ELSE <<>> BY <1>2
    <3>2. e = <<x>> OBVIOUS
    <3> HIDE DEF x, e
    <3>3. <<x>> \in Seq(Pieces) BY <3>1
    <3> QED BY <3>1, <3>2, <3>3, BytesOne
  <2>5. w \in Seq(Pieces) /\ Bytes(w) = V[fields[i]] BY <2>1
  <2>6. part(i) = <<q, c>> \o w \o e OBVIOUS
  <2> HIDE DEF q, c, e, w, part
  <2>7. <<q, c>> = <<q>> \o <<c>> /\ <<q>> \in Seq(Pieces) BY <2>2, <2>3, TwoIs
  <2>8. Bytes(<<q, c>>) = q.bytes \o c.bytes BY <2>2, <2>3, <2>7, BytesOne, BytesAppend
  <2>9. <<q, c>> \in Seq(Pieces) BY <2>2, <2>3
  <2>10. <<q, c>> \o w \in Seq(Pieces) /\ Bytes(<<q, c>> \o w) = Bytes(<<q, c>>) \o Bytes(w)
    BY <2>5, <2>9, BytesConcat, ConcatIs
  <2> DEFINE z == <<q, c>> \o w
  <2> HIDE DEF z
  <2>11. z \o e \in Seq(Pieces) /\ Bytes(z \o e) = Bytes(z) \o Bytes(e)
    BY <2>4, <2>10, BytesConcat, ConcatIs DEF z
  <2> QED BY <2>2, <2>3, <2>4, <2>5, <2>6, <2>8, <2>10, <2>11 DEF FieldBytes, z
<1>4. print_object(fields, value) = <<first>> \o FlattenSeq(parts) \o <<last>> BY DEF print_object
<1>5. /\ parts \in Seq(Seq(Pieces))
      /\ [i \in DOMAIN parts |-> Bytes(parts[i])] = [i \in DOMAIN fields |-> FieldBytes(fields, V, i)]
  <2> HIDE DEF part
  <2>1. parts \in Seq(Seq(Pieces)) BY <1>3, SeqIs
  <2>2. DOMAIN parts = DOMAIN fields OBVIOUS
  <2>3. \A i \in DOMAIN fields : Bytes(parts[i]) = FieldBytes(fields, V, i) BY <1>3
  <2> HIDE DEF parts
  <2> QED BY <2>1, <2>2, <2>3
<1> HIDE DEF first, last, parts, part
<1> DEFINE body == FlattenSeq(parts)
<1>6. body \in Seq(Pieces) BY <1>5, FlattenType
<1>7. Bytes(body) = FlattenSeq([i \in DOMAIN fields |-> FieldBytes(fields, V, i)]) BY <1>5, BytesFlat
<1> HIDE DEF body
<1>8. <<first>> \in Seq(Pieces) /\ Bytes(<<first>>) = first.bytes BY <1>1, BytesOne
<1>9. /\ <<first>> \o body \in Seq(Pieces)
      /\ Bytes(<<first>> \o body) = Bytes(<<first>>) \o Bytes(body)
  BY <1>6, <1>8, BytesConcat, ConcatIs
<1>10. Bytes((<<first>> \o body) \o <<last>>) = Bytes(<<first>> \o body) \o last.bytes
  <2> DEFINE z == <<first>> \o body
  <2> HIDE DEF z
  <2>1. Bytes(z \o <<last>>) = Bytes(z) \o last.bytes BY <1>1, <1>9, BytesAppend DEF z
  <2> QED BY <2>1 DEF z
<1> QED BY <1>1, <1>4, <1>7, <1>8, <1>9, <1>10 DEF ObjectBytes, body

\* Where the names of an object begin, and behind each of them the colon, the value
\* and what follows it.
NameEnd(F, pos, i) == pos[i] + Len(Quoted(Name[F[i]]))
ValueAt(F, pos, i) == NameEnd(F, pos, i) + 1
EndAt(F, V, pos, i) == ValueAt(F, pos, i) + Len(V[F[i]])
Laid(t, o, F, V, pos) ==
    /\ pos \in [1 .. Len(F) + 1 -> Nat] /\ pos[1] = o + 1
    /\ Holds(t, o, <<Open["Object"]>>) /\ Holds(t, pos[Len(F) + 1], <<Close["Object"]>>)
    /\ pos[Len(F) + 1] + 1 = o + Len(ObjectBytes(F, V))
    /\ \A i \in 1 .. Len(F) :
         /\ Holds(t, pos[i], Quoted(Name[F[i]])) /\ Holds(t, NameEnd(F, pos, i), <<Colon>>)
         /\ Holds(t, ValueAt(F, pos, i), V[F[i]])
         /\ IF i < Len(F) THEN /\ Holds(t, EndAt(F, V, pos, i), <<Comma>>)
                               /\ pos[i + 1] = EndAt(F, V, pos, i) + 1
                          ELSE pos[i + 1] = EndAt(F, V, pos, i)

LEMMA ObjectLaid ==
    ASSUME NEW t, Len(t) \in Nat, NEW o \in Nat,
           NEW F \in Seq(Fields), NEW V, \A f \in ToSet(F) : V[f] \in Seq(Nat),
           Holds(t, o, ObjectBytes(F, V))
    PROVE  \E pos : Laid(t, o, F, V, pos)
<1> DEFINE parts == [i \in DOMAIN F |-> FieldBytes(F, V, i)]
           body == FlattenSeq(parts)
           first == <<Open["Object"]>>
           last == <<Close["Object"]>>
<1>1. /\ parts \in Seq(Seq(Nat)) /\ body \in Seq(Nat) /\ first \in Seq(Nat) /\ last \in Seq(Nat)
      /\ first \o body \in Seq(Nat) /\ Len(ObjectBytes(F, V)) = Len(body) + 2
  BY ObjectTyped
<1>2. Len(F) \in Nat /\ DOMAIN F = 1 .. Len(F) /\ Len(first) = 1 OBVIOUS
<1>3. Len(parts) = Len(F) /\ \A i \in 1 .. Len(F) : parts[i] = FieldBytes(F, V, i)
  BY <1>2
<1>4. ObjectBytes(F, V) = (first \o body) \o last BY DEF ObjectBytes
<1>5. Holds(t, o, first \o body) /\ Holds(t, o + Len(first \o body), last)
  <2> DEFINE a == first \o body
  <2>1. a \in Seq(Nat) /\ Holds(t, o, a \o last) BY <1>1, <1>4
  <2> HIDE DEF a, last
  <2>2. Holds(t, o, a) /\ Holds(t, o + Len(a), last) BY <1>1, <2>1, HoldsParts
  <2> QED BY <2>2 DEF a
<1> HIDE DEF parts, body, first, last
<1>6. Holds(t, o, first) /\ Holds(t, o + 1, body) BY <1>1, <1>2, <1>5, HoldsParts
<1>7. Len(first \o body) = 1 + Len(body) /\ Len(body) \in Nat
  <2>1. Len(first \o body) = Len(first) + Len(body) BY <1>1, ConcatIs
  <2>2. Len(body) \in Nat BY <1>1, SeqIs
  <2> QED BY <1>2, <2>1, <2>2
<1>8. PICK pos : Starts(pos, t, o + 1, parts) /\ pos[Len(parts) + 1] = (o + 1) + Len(body)
  BY <1>1, <1>6, HoldsFlat DEF body
<1>9. /\ pos \in [1 .. Len(F) + 1 -> Nat] /\ pos[1] = o + 1
      /\ \A i \in 1 .. Len(F) : /\ Holds(t, pos[i], FieldBytes(F, V, i))
                               /\ pos[i + 1] = pos[i] + Len(FieldBytes(F, V, i))
  BY <1>3, <1>8 DEF Starts
<1>10. Holds(t, pos[Len(F) + 1], last) /\ pos[Len(F) + 1] + 1 = o + Len(ObjectBytes(F, V))
  <2>1. pos[Len(F) + 1] = (o + 1) + Len(body) BY <1>3, <1>8
  <2>2. (o + 1) + Len(body) = o + (1 + Len(body)) /\ ((o + 1) + Len(body)) + 1 = o + (Len(body) + 2)
    BY <1>7
  <2> QED BY <1>1, <1>5, <1>7, <2>1, <2>2
<1>11. ASSUME NEW i \in 1 .. Len(F)
       PROVE  /\ Holds(t, pos[i], Quoted(Name[F[i]])) /\ Holds(t, NameEnd(F, pos, i), <<Colon>>)
              /\ Holds(t, ValueAt(F, pos, i), V[F[i]])
              /\ IF i < Len(F) THEN /\ Holds(t, EndAt(F, V, pos, i), <<Comma>>)
                                    /\ pos[i + 1] = EndAt(F, V, pos, i) + 1
                               ELSE pos[i + 1] = EndAt(F, V, pos, i)
  <2> DEFINE q == Quoted(Name[F[i]])
             c == <<Colon>>
             v == V[F[i]]
             e == IF i < Len(F) THEN <<Comma>> ELSE <<>>
             p == pos[i]
             all == FieldBytes(F, V, i)
  <2>1. /\ q \in Seq(Nat) /\ v \in Seq(Nat) /\ c \in Seq(Nat) /\ Len(c) = 1 /\ e \in Seq(Nat)
    BY <1>2, FieldTyped
  <2>2. all = ((q \o c) \o v) \o e BY DEF FieldBytes
  <2>3. p \in Nat /\ Holds(t, p, all) /\ pos[i + 1] = p + Len(all) BY <1>9
  <2>4. Len(e) = IF i < Len(F) THEN 1 ELSE 0 OBVIOUS
  <2> HIDE DEF q, c, v, e, p, all
  <2>5. q \o c \in Seq(Nat) /\ (q \o c) \o v \in Seq(Nat) BY <2>1, ConcatIs
  <2>6. Holds(t, p, (q \o c) \o v) /\ Holds(t, p + Len((q \o c) \o v), e)
    BY <2>1, <2>2, <2>3, <2>5, HoldsParts
  <2>7. Holds(t, p, q \o c) /\ Holds(t, p + Len(q \o c), v) BY <2>1, <2>3, <2>5, <2>6, HoldsParts
  <2>8. Holds(t, p, q) /\ Holds(t, p + Len(q), c) BY <2>1, <2>3, <2>7, HoldsParts
  <2>9. /\ Len(q \o c) = Len(q) + 1 /\ Len((q \o c) \o v) = Len(q) + 1 + Len(v)
        /\ Len(all) = Len(q) + 1 + Len(v) + Len(e)
        /\ Len(q) \in Nat /\ Len(v) \in Nat /\ Len(e) \in Nat
    <3>1. Len(q) \in Nat /\ Len(v) \in Nat /\ Len(e) \in Nat BY <2>1
    <3>2. Len(q \o c) = Len(q) + 1 BY <2>1, ConcatIs
    <3>3. Len((q \o c) \o v) = Len(q \o c) + Len(v) BY <2>1, <2>5, ConcatIs
    <3>4. Len(all) = Len((q \o c) \o v) + Len(e) BY <2>1, <2>2, <2>5, ConcatIs
    <3> QED BY <3>1, <3>2, <3>3, <3>4
  <2>10. /\ NameEnd(F, pos, i) = p + Len(q) /\ ValueAt(F, pos, i) = p + Len(q) + 1
         /\ EndAt(F, V, pos, i) = p + Len(q) + 1 + Len(v)
    BY DEF NameEnd, ValueAt, EndAt, p, q, v
  <2>11. /\ p + Len(q \o c) = p + Len(q) + 1
         /\ p + Len((q \o c) \o v) = p + Len(q) + 1 + Len(v)
         /\ pos[i + 1] = p + Len(q) + 1 + Len(v) + Len(e)
    BY <2>3, <2>9
  <2>12. CASE i < Len(F)
    <3>1. e = <<Comma>> /\ Len(e) = 1 BY <2>4, <2>12 DEF e
    <3> QED BY <2>3, <2>6, <2>7, <2>8, <2>9, <2>10, <2>11, <2>12, <3>1 DEF q, c, v, p
  <2>13. CASE ~ (i < Len(F))
    <3>1. Len(e) = 0 BY <2>4, <2>13
    <3>2. pos[i + 1] = p + Len(q) + 1 + Len(v) BY <2>3, <2>9, <2>11, <3>1
    <3> QED BY <2>3, <2>6, <2>7, <2>8, <2>9, <2>10, <2>11, <2>13, <3>2 DEF q, c, v, p
  <2> QED BY <2>12, <2>13
<1> QED BY <1>6, <1>9, <1>10, <1>11 DEF Laid, first, last

-----------------------------------------------------------------------------
(* A message as it is encoded.                                             *)

\* The messages that can be encoded.
Sendable(m) ==
    /\ m \in [type : DOMAIN TypeName, text : Seq(1..255), valve : IntMin .. IntMax]
    /\ m.type # "HARD_ERROR_VALVE" => m.valve = 0
    /\ m.type = "KEEP_ALIVE" => m.text = <<>>

DataFields(t) == IF t = "KEEP_ALIVE" THEN <<>>
                 ELSE IF t = "HARD_ERROR_VALVE" THEN <<"message", "valve_no">> ELSE <<"message">>
RootFields == <<"version", "data", "type">>
ScalarBytes(m, f) == CASE f = "version"  -> PrintNumber(DATA_FORMAT_VERSION)
                       [] f = "type"     -> Quoted(TypeName[m.type])
                       [] f = "message"  -> Quoted(m.text)
                       [] f = "valve_no" -> PrintNumber(m.valve)
DataValues(m) == [f \in {"message", "valve_no"} |-> ScalarBytes(m, f)]
RootValues(m) == [f \in {"version", "data", "type"} |->
                    IF f = "data" THEN ObjectBytes(DataFields(m.type), DataValues(m))
                    ELSE ScalarBytes(m, f)]
Encoded(m) == ObjectBytes(RootFields, RootValues(m))

LEMMA DataFieldsAre ==
    ASSUME NEW t
    PROVE  /\ DataFields(t) \in Seq(Fields) /\ ToSet(DataFields(t)) \subseteq {"message", "valve_no"}
           /\ t = "KEEP_ALIVE" => DataFields(t) = <<>> /\ Len(DataFields(t)) = 0
           /\ t = "HARD_ERROR_VALVE" => /\ DataFields(t) = <<"message", "valve_no">>
                                        /\ Len(DataFields(t)) = 2
                                        /\ DataFields(t)[1] = "message" /\ DataFields(t)[2] = "valve_no"
           /\ t \notin {"KEEP_ALIVE", "HARD_ERROR_VALVE"} =>
                /\ DataFields(t) = <<"message">> /\ Len(DataFields(t)) = 1
                /\ DataFields(t)[1] = "message"
<1>1. CASE t = "KEEP_ALIVE"
  <2>1. DataFields(t) = <<>> BY <1>1 DEF DataFields
  <2>2. <<>> \in Seq(Fields) /\ ToSet(<<>>) = {} /\ Len(<<>>) = 0 BY DEF ToSet
  <2> QED BY <1>1, <2>1, <2>2
<1>2. CASE t = "HARD_ERROR_VALVE"
  <2> DEFINE s == <<"message", "valve_no">>
  <2>1. DataFields(t) = s BY <1>2 DEF DataFields
  <2>2. s \in Seq(Fields) /\ Len(s) = 2 /\ s[1] = "message" /\ s[2] = "valve_no" BY DEF Fields
  <2>3. ToSet(s) \subseteq {"message", "valve_no"} BY DEF ToSet
  <2> QED BY <1>2, <2>1, <2>2, <2>3
<1>3. CASE t \notin {"KEEP_ALIVE", "HARD_ERROR_VALVE"}
  <2> DEFINE s == <<"message">>
  <2>1. DataFields(t) = s BY <1>3 DEF DataFields
  <2>2. s \in Seq(Fields) /\ Len(s) = 1 /\ s[1] = "message" BY DEF Fields
  <2>3. ToSet(s) \subseteq {"message", "valve_no"} BY DEF ToSet
  <2> QED BY <1>3, <2>1, <2>2, <2>3
<1> QED BY <1>1, <1>2, <1>3

LEMMA RootFieldsAre ==
    /\ RootFields \in Seq(Fields) /\ ToSet(RootFields) \subseteq {"version", "data", "type"}
    /\ Len(RootFields) = 3
    /\ RootFields[1] = "version" /\ RootFields[2] = "data" /\ RootFields[3] = "type"
  BY DEF RootFields, Fields, ToSet

LEMMA ScalarTyped ==
    ASSUME NEW m, Sendable(m), NEW f \in {"version", "type", "message", "valve_no"}
    PROVE  ScalarBytes(m, f) \in Seq(Nat)
<1>1. m.type \in DOMAIN TypeName /\ m.text \in Seq(1..255) /\ m.valve \in Int
  BY DEF Sendable
<1>2. CASE f = "version" BY <1>2, NumberPieceIs DEF ScalarBytes, DATA_FORMAT_VERSION
<1>3. CASE f = "type"
  <2>1. ScalarBytes(m, f) = Quoted(TypeName[m.type]) BY <1>3 DEF ScalarBytes
  <2> QED BY <1>1, <2>1, TypeNameIs, QuotedTyped
<1>4. CASE f = "message"
  <2>1. ScalarBytes(m, f) = Quoted(m.text) BY <1>4 DEF ScalarBytes
  <2> QED BY <1>1, <2>1, QuotedTyped
<1>5. CASE f = "valve_no"
  <2>1. ScalarBytes(m, f) = PrintNumber(m.valve) BY <1>5 DEF ScalarBytes
  <2> QED BY <1>1, <2>1, NumberPieceIs
<1> QED BY <1>2, <1>3, <1>4, <1>5

LEMMA ValuesTyped ==
    ASSUME NEW m, Sendable(m)
    PROVE  /\ \A f \in {"message", "valve_no"} : DataValues(m)[f] = ScalarBytes(m, f)
           /\ \A f \in ToSet(DataFields(m.type)) : DataValues(m)[f] \in Seq(Nat)
           /\ RootValues(m)["data"] = ObjectBytes(DataFields(m.type), DataValues(m))
           /\ \A f \in {"version", "type"} : RootValues(m)[f] = ScalarBytes(m, f)
           /\ \A f \in ToSet(RootFields) : RootValues(m)[f] \in Seq(Nat)
           /\ Encoded(m) \in Seq(Nat)
<1>1. \A f \in {"message", "valve_no"} : DataValues(m)[f] = ScalarBytes(m, f) BY DEF DataValues
<1>2. \A f \in ToSet(DataFields(m.type)) : DataValues(m)[f] \in Seq(Nat)
  <2>1. ToSet(DataFields(m.type)) \subseteq {"message", "valve_no"} BY DataFieldsAre
  <2>2. \A f \in {"message", "valve_no"} : ScalarBytes(m, f) \in Seq(Nat) BY ScalarTyped
  <2> QED BY <1>1, <2>1, <2>2
<1>3. /\ RootValues(m)["data"] = ObjectBytes(DataFields(m.type), DataValues(m))
      /\ \A f \in {"version", "type"} : RootValues(m)[f] = ScalarBytes(m, f)
  BY DEF RootValues
<1>4. RootValues(m)["data"] \in Seq(Nat)
  <2>1. DataFields(m.type) \in Seq(Fields) BY DataFieldsAre
  <2> QED BY <1>2, <1>3, <2>1, ObjectTyped
<1>5. \A f \in {"version", "type"} : RootValues(m)[f] \in Seq(Nat) BY <1>3, ScalarTyped
<1>6. \A f \in ToSet(RootFields) : RootValues(m)[f] \in Seq(Nat) BY <1>4, <1>5, RootFieldsAre
<1>7. Encoded(m) \in Seq(Nat) BY <1>6, RootFieldsAre, ObjectTyped DEF Encoded
<1> QED BY <1>1, <1>2, <1>3, <1>6, <1>7

\* Where the two objects of a message are.
LEMMA MessageLaid ==
    ASSUME NEW m, Sendable(m), NEW t, Len(t) \in Nat, NEW o \in Nat, Holds(t, o, Encoded(m))
    PROVE  \E pos, sub :
             /\ Laid(t, o, RootFields, RootValues(m), pos)
             /\ ValueAt(RootFields, pos, 2) \in Nat
             /\ Laid(t, ValueAt(RootFields, pos, 2), DataFields(m.type), DataValues(m), sub)
<1>1. PICK pos : Laid(t, o, RootFields, RootValues(m), pos)
  BY ValuesTyped, RootFieldsAre, ObjectLaid DEF Encoded
<1> DEFINE p == ValueAt(RootFields, pos, 2)
<1>2. p \in Nat
  <2>1. pos[2] \in Nat BY <1>1, RootFieldsAre DEF Laid
  <2>2. Len(Quoted(Name["data"])) \in Nat
    <3>1. Quoted(Name["data"]) \in Seq(Nat) BY NameIs, QuotedTyped DEF Fields
    <3> QED BY <3>1
  <2> QED BY <2>1, <2>2, RootFieldsAre DEF ValueAt, NameEnd
<1>3. Holds(t, p, ObjectBytes(DataFields(m.type), DataValues(m)))
  <2>1. Holds(t, p, RootValues(m)[RootFields[2]]) BY <1>1, RootFieldsAre DEF Laid
  <2> QED BY <2>1, RootFieldsAre, ValuesTyped
<1> HIDE DEF p
<1>4. \E sub : Laid(t, p, DataFields(m.type), DataValues(m), sub)
  <2>1. DataFields(m.type) \in Seq(Fields) BY DataFieldsAre
  <2>2. \A f \in ToSet(DataFields(m.type)) : DataValues(m)[f] \in Seq(Nat) BY ValuesTyped
  <2> QED BY <1>2, <1>3, <2>1, <2>2, ObjectLaid
<1> QED BY <1>1, <1>2, <1>4 DEF p

-----------------------------------------------------------------------------
(* How a byte is escaped, and read again.                                  *)

LEMMA BytesNat == (\A x \in 1..255 : x \in Nat) /\ (\A s \in Seq(1..255) : s \in Seq(Nat))
<1>1. \A x \in 1..255 : x \in Nat OBVIOUS
<1>2. \A A, B : A \subseteq B => Seq(A) \subseteq Seq(B) OBVIOUS
<1>3. 1..255 \subseteq Nat BY <1>1, Zenon
<1> QED BY <1>1, <1>2, <1>3, Zenon

LEMMA LetterIs ==
    ASSUME NEW c \in Short
    PROVE  Letter(c) \in DOMAIN Escapes /\ Escapes[Letter(c)] = c /\ Letter(c) \in Nat
<1>1. PICK l \in DOMAIN Escapes \ {47} : Escapes[l] = c BY DEF Short
<1>2. Letter(c) \in DOMAIN Escapes /\ Escapes[Letter(c)] = c BY <1>1 DEF Letter
<1>3. DOMAIN Escapes \subseteq Nat BY DEF Escapes, Quote, Backslash
<1> QED BY <1>2, <1>3

LEMMA ShortIs == Short = {8, 9, 10, 12, 13, 34, 92}
<1>1. DOMAIN Escapes \ {47} = {98, 102, 110, 114, 116, 34, 92} BY DEF Escapes, Quote, Backslash
<1>2. /\ Escapes[98] = 8 /\ Escapes[102] = 12 /\ Escapes[110] = 10 /\ Escapes[114] = 13
      /\ Escapes[116] = 9 /\ Escapes[34] = 34 /\ Escapes[92] = 92
  BY DEF Escapes, Quote, Backslash
<1> QED BY <1>1, <1>2 DEF Short

LEMMA HexIs ==
    ASSUME NEW d \in 0 .. 15
    PROVE  /\ HexDigit(Hex(d)) = d /\ Hex(d) \in Nat
           /\ Hex(d) # Quote /\ Hex(d) # Backslash
<1>1. CASE d < 10
  <2>1. Hex(d) = 48 + d BY <1>1 DEF Hex
  <2> DEFINE h == 48 + d
  <2>2. h \in 48..57 /\ h - 48 = d BY <1>1
  <2> HIDE DEF h
  <2>3. HexDigit(h) = h - 48 BY <2>2 DEF HexDigit
  <2> QED BY <2>1, <2>2, <2>3 DEF h, Quote, Backslash
<1>2. CASE ~ (d < 10)
  <2>1. Hex(d) = 87 + d BY <1>2 DEF Hex
  <2> DEFINE h == 87 + d
  <2>2. h \in 97..102 /\ h - 87 = d BY <1>2
  <2> HIDE DEF h
  <2>3. HexDigit(h) = h - 87 BY <2>2 DEF HexDigit
  <2> QED BY <2>1, <2>2, <2>3 DEF h, Quote, Backslash
<1> QED BY <1>1, <1>2

\* As itself, by a letter, or by its code.
AsItself(c) == Escaped(c) = <<c>> /\ Len(Escaped(c)) = 1 /\ c # Quote /\ c # Backslash
ByLetter(c) == Escaped(c) = <<Backslash, Letter(c)>> /\ Len(Escaped(c)) = 2 /\ c \in Short
ByCode(c) ==
    /\ Escaped(c) = <<Backslash, LetterU, 48, 48, Hex(c \div 16), Hex(c % 16)>>
    /\ Len(Escaped(c)) = 6 /\ c < 32 /\ c \div 16 \in 0 .. 15 /\ c % 16 \in 0 .. 15
    /\ c = 16 * (c \div 16) + (c % 16)

LEMMA EscapedWays == ASSUME NEW c \in 1..255 PROVE AsItself(c) \/ ByLetter(c) \/ ByCode(c)
<1>1. CASE c \in Short
  <2>1. Escaped(c) = <<Backslash, Letter(c)>> BY <1>1 DEF Escaped
  <2>2. \A x, y : Len(<<x, y>>) = 2 OBVIOUS
  <2> QED BY <1>1, <2>1, <2>2 DEF ByLetter
<1>2. CASE c \notin Short /\ c < 32
  <2>1. Escaped(c) = <<Backslash, LetterU, 48, 48, Hex(c \div 16), Hex(c % 16)>>
    BY <1>2 DEF Escaped
  <2>2. \A x, y : Len(<<Backslash, LetterU, 48, 48, x, y>>) = 6 OBVIOUS
  <2>3. c \div 16 \in 0 .. 15 /\ c % 16 \in 0 .. 15 /\ c = 16 * (c \div 16) + (c % 16) BY <1>2
  <2> QED BY <1>2, <2>1, <2>2, <2>3 DEF ByCode
<1>3. CASE c \notin Short /\ ~ (c < 32)
  <2>1. Escaped(c) = <<c>> BY <1>3 DEF Escaped
  <2>2. \A x : Len(<<x>>) = 1 OBVIOUS
  <2>3. c # 34 /\ c # 92 BY <1>3, ShortIs
  <2> QED BY <2>1, <2>2, <2>3 DEF AsItself, Quote, Backslash
<1> QED BY <1>1, <1>2, <1>3

\* Where the bytes of a string are.
Cut(t, o, s, c) ==
    /\ c \in [1 .. Len(s) + 1 -> Nat] /\ c[1] = o + 1
    /\ Holds(t, o, <<Quote>>) /\ Holds(t, c[Len(s) + 1], <<Quote>>)
    /\ c[Len(s) + 1] + 1 = o + Len(Quoted(s))
    /\ \A j \in 1 .. Len(s) :
         Holds(t, c[j], Escaped(s[j])) /\ c[j + 1] = c[j] + Len(Escaped(s[j]))

LEMMA QuotedCut ==
    ASSUME NEW t, Len(t) \in Nat, NEW o \in Nat, NEW s \in Seq(1..255), Holds(t, o, Quoted(s))
    PROVE  \E c : Cut(t, o, s, c)
<1> DEFINE parts == [i \in DOMAIN s |-> Escaped(s[i])]
           body == FlattenSeq(parts)
           q == <<Quote>>
<1>1. DOMAIN s = 1 .. Len(s) /\ Len(s) \in Nat /\ \A i \in 1 .. Len(s) : s[i] \in 1..255 BY SeqIs
<1>2. parts \in Seq(Seq(Nat)) /\ Len(parts) = Len(s) /\ \A i \in 1 .. Len(s) : parts[i] = Escaped(s[i])
  <2>1. \A i \in 1 .. Len(s) : Escaped(s[i]) \in Seq(Nat) BY <1>1, EscapedIs
  <2> QED BY <1>1, <2>1
<1>3. Quoted(s) = (q \o body) \o q /\ body \in Seq(Nat) /\ Len(Quoted(s)) = Len(body) + 2
  <2>1. Spelt(s) = body BY DEF Spelt
  <2> QED BY <2>1, QuotedTyped DEF Quoted
<1>4. q \in Seq(Nat) /\ Len(q) = 1 BY DEF Quote
<1> HIDE DEF parts, body, q
<1>5. q \o body \in Seq(Nat) /\ Len(q \o body) = 1 + Len(body) /\ Len(body) \in Nat
  BY <1>3, <1>4, ConcatIs, SeqIs
<1>6. Holds(t, o, q \o body) /\ Holds(t, o + Len(q \o body), q) BY <1>3, <1>4, <1>5, HoldsParts
<1>7. Holds(t, o, q) /\ Holds(t, o + 1, body) BY <1>3, <1>4, <1>6, HoldsParts
<1>8. PICK c : Starts(c, t, o + 1, parts) /\ c[Len(parts) + 1] = (o + 1) + Len(body)
  BY <1>2, <1>7, HoldsFlat DEF body
<1>9. c \in [1 .. Len(s) + 1 -> Nat] /\ c[1] = o + 1
  BY <1>2, <1>8 DEF Starts
<1>10. \A j \in 1 .. Len(s) :
         Holds(t, c[j], Escaped(s[j])) /\ c[j + 1] = c[j] + Len(Escaped(s[j]))
  BY <1>2, <1>8 DEF Starts
<1>11. Holds(t, c[Len(s) + 1], q) /\ c[Len(s) + 1] + 1 = o + Len(Quoted(s))
  <2>1. (o + 1) + Len(body) = o + (1 + Len(body)) /\ ((o + 1) + Len(body)) + 1 = o + (Len(body) + 2)
    BY <1>5
  <2> QED BY <1>2, <1>3, <1>5, <1>6, <1>8, <2>1
<1> QED BY <1>7, <1>9, <1>10, <1>11 DEF Cut, q

-----------------------------------------------------------------------------
(* A string that has been printed is parsed.                               *)

LEMMA ByteHeld ==
    ASSUME text \in Seq(Nat), NEW o \in Nat, NEW b \in Seq(Nat), Holds(text, o, b)
    PROVE  \A i \in 1 .. Len(b) : (o + i) - 1 < Length /\ Byte((o + i) - 1) = b[i]
<1> SUFFICES ASSUME NEW i \in 1 .. Len(b)
             PROVE  (o + i) - 1 < Length /\ Byte((o + i) - 1) = b[i]
  OBVIOUS
<1>1. Length \in Nat /\ Len(b) \in Nat /\ o + Len(b) <= Length /\ text[o + i] = b[i]
  BY DEF Length, Holds
<1>2. (o + i) - 1 < Length /\ ((o + i) - 1) + 1 = o + i BY <1>1
<1> QED BY <1>1, <1>2 DEF Byte

LEMMA ByteFirst ==
    ASSUME text \in Seq(Nat), NEW o \in Nat, NEW x \in Nat, Holds(text, o, <<x>>)
    PROVE  o < Length /\ Byte(o) = x
<1>1. <<x>> \in Seq(Nat) /\ 1 \in 1 .. Len(<<x>>) /\ <<x>>[1] = x /\ (o + 1) - 1 = o OBVIOUS
<1> QED BY <1>1, ByteHeld

LEMMA CutRises ==
    ASSUME NEW t, NEW o \in Nat, NEW s \in Seq(1..255), NEW c, Cut(t, o, s, c)
    PROVE  \A j \in 1 .. Len(s) : /\ c[j] \in Nat /\ c[j] < c[Len(s) + 1]
                                  /\ c[j] + Len(Escaped(s[j])) <= c[Len(s) + 1]
<1> DEFINE n == Len(s)
           P(k) == \A j \in 1 .. n + 1 : j + k = n + 1 => c[j] <= c[n + 1]
           S == {k \in Nat : P(k)}
<1>1. n \in Nat /\ c \in [1 .. n + 1 -> Nat]
      /\ \A j \in 1 .. n : /\ c[j] \in Nat /\ c[j + 1] \in Nat /\ s[j] \in 1..255
                           /\ c[j + 1] = c[j] + Len(Escaped(s[j]))
  <2>1. n \in Nat /\ \A j \in 1 .. n : j + 1 \in 1 .. n + 1 /\ j \in 1 .. n + 1 BY SeqIs
  <2>2. \A j \in 1 .. n : s[j] \in 1..255 BY SeqIs
  <2>3. /\ c \in [1 .. n + 1 -> Nat]
        /\ \A j \in 1 .. n : c[j + 1] = c[j] + Len(Escaped(s[j]))
    BY DEF Cut
  <2> HIDE DEF n
  <2> QED BY <2>1, <2>2, <2>3
<1>2. ASSUME NEW j \in 1 .. n PROVE Len(Escaped(s[j])) \in Nat \ {0}
  <2>1. AsItself(s[j]) \/ ByLetter(s[j]) \/ ByCode(s[j]) BY <1>1, EscapedWays
  <2>2. Len(Escaped(s[j])) \in {1, 2, 6} BY <2>1, Zenon DEF AsItself, ByLetter, ByCode
  <2>3. \A k \in {1, 2, 6} : k \in Nat \ {0} OBVIOUS
  <2> QED BY <2>2, <2>3, Zenon
<1> HIDE DEF n, P
<1>3. 0 \in S BY <1>1 DEF P
<1>4. ASSUME NEW k \in Nat, k \in S PROVE k + 1 \in S
  <2>1. ASSUME NEW j \in 1 .. n + 1, j + (k + 1) = n + 1 PROVE c[j] <= c[n + 1]
    <3>1. j \in 1 .. n /\ j + 1 \in 1 .. n + 1 /\ (j + 1) + k = n + 1 BY <1>1, <2>1
    <3>2. c[j + 1] <= c[n + 1] BY <1>4, <3>1 DEF P
    <3>3. c[n + 1] \in Nat BY <1>1
    <3> QED BY <1>1, <1>2, <3>1, <3>2, <3>3
  <2>2. P(k + 1) BY <2>1 DEF P
  <2> QED BY <2>2
<1> HIDE DEF S
<1>5. Nat \subseteq S BY <1>3, <1>4, NatInd
<1>6. ASSUME NEW j \in 1 .. n PROVE c[j + 1] <= c[n + 1]
  <2>1. n - j \in Nat /\ j + 1 \in 1 .. n + 1 /\ (j + 1) + (n - j) = n + 1 BY <1>1
  <2>2. P(n - j) BY <1>5, <2>1 DEF S
  <2> QED BY <2>1, <2>2 DEF P
<1>7. c[n + 1] \in Nat BY <1>1
<1>8. \A j \in 1 .. n : c[j] < c[n + 1] /\ c[j] + Len(Escaped(s[j])) <= c[n + 1]
  BY <1>1, <1>2, <1>6, <1>7
<1> QED BY <1>1, <1>8 DEF n

\* Where the measuring loop can be: between two bytes of the string, or behind the u of
\* a code.
Between(e, s, c) ==
    \/ \E j \in 1 .. Len(s) + 1 : e = c[j]
    \/ \E j \in 1 .. Len(s) : ByCode(s[j]) /\ e \in c[j] + 2 .. c[j] + 5
Scan(o, s, c) ==
    \/ /\ spc \in {"measure", "allocate"} /\ offset = o /\ inPtr = c[1] /\ output = <<>>
       /\ IF spc = "measure" THEN Between(inEnd, s, c) ELSE inEnd = c[Len(s) + 1]
    \/ /\ spc = "copy" /\ offset = o /\ inEnd = c[Len(s) + 1]
       /\ output \in Seq(Nat) /\ Len(output) <= Len(s) /\ inPtr = c[Len(output) + 1]
       /\ \A i \in 1 .. Len(output) : output[i] = s[i]
    \/ /\ spc = "ok" /\ offset = o + Len(Quoted(s))
       /\ output \in Seq(Nat) /\ Len(output) = Len(s) + 1
       /\ \A i \in 1 .. Len(s) : output[i] = s[i]

\* What is read of an escaped byte.
LEMMA CutBytes ==
    ASSUME text \in Seq(Nat), NEW o \in Nat, NEW s \in Seq(1..255), NEW c, Cut(text, o, s, c),
           NEW j \in 1 .. Len(s)
    PROVE  /\ c[j] \in Nat
           /\ AsItself(s[j]) => /\ Byte(c[j]) = s[j] /\ c[j + 1] = c[j] + 1
           /\ ByLetter(s[j]) => /\ Byte(c[j]) = Backslash /\ Byte(c[j] + 1) = Letter(s[j])
                                /\ c[j] + 1 < Length /\ c[j + 1] = c[j] + 2
           /\ ByCode(s[j]) => /\ Byte(c[j]) = Backslash /\ Byte(c[j] + 1) = LetterU
                              /\ Byte(c[j] + 2) = 48 /\ Byte(c[j] + 3) = 48
                              /\ Byte(c[j] + 4) = Hex(s[j] \div 16)
                              /\ Byte(c[j] + 5) = Hex(s[j] % 16)
                              /\ c[j] + 1 < Length /\ c[j + 1] = c[j] + 6
<1> DEFINE b == Escaped(s[j])
           p == c[j]
<1>1. p \in Nat /\ Holds(text, p, b) /\ c[j + 1] = p + Len(b)
  <2>1. j \in 1 .. Len(s) + 1 OBVIOUS
  <2> QED BY <2>1 DEF Cut
<1>2. s[j] \in 1..255 /\ b \in Seq(Nat)
  <2>1. s[j] \in 1..255 BY SeqIs
  <2> QED BY <2>1, EscapedIs
<1> HIDE DEF p
<1>3. \A i \in 1 .. Len(b) : (p + i) - 1 < Length /\ Byte((p + i) - 1) = b[i]
  BY <1>1, <1>2, ByteHeld
<1>4. /\ (p + 1) - 1 = p /\ (p + 2) - 1 = p + 1 /\ (p + 3) - 1 = p + 2 /\ (p + 4) - 1 = p + 3
      /\ (p + 5) - 1 = p + 4 /\ (p + 6) - 1 = p + 5
  BY <1>1
<1>5. CASE AsItself(s[j])
  <2>1. Len(b) = 1 /\ b[1] = s[j] BY <1>5 DEF AsItself
  <2>2. ~ ByLetter(s[j]) /\ ~ ByCode(s[j]) BY <1>5 DEF AsItself, ByLetter, ByCode
  <2>3. 1 \in 1 .. Len(b) BY <2>1
  <2> QED BY <1>1, <1>3, <1>4, <2>1, <2>2, <2>3 DEF p
<1>6. CASE ByLetter(s[j])
  <2>1. Len(b) = 2 /\ b[1] = Backslash /\ b[2] = Letter(s[j]) BY <1>6 DEF ByLetter
  <2>2. ~ AsItself(s[j]) /\ ~ ByCode(s[j]) BY <1>6 DEF AsItself, ByLetter, ByCode
  <2>3. 1 \in 1 .. Len(b) /\ 2 \in 1 .. Len(b) BY <2>1
  <2>4. Byte(p) = b[1] /\ Byte(p + 1) = b[2] /\ p + 1 < Length BY <1>3, <1>4, <2>3
  <2> QED BY <1>1, <2>1, <2>2, <2>4 DEF p
<1>7. CASE ByCode(s[j])
  <2>1. /\ Len(b) = 6 /\ b[1] = Backslash /\ b[2] = LetterU /\ b[3] = 48 /\ b[4] = 48
        /\ b[5] = Hex(s[j] \div 16) /\ b[6] = Hex(s[j] % 16)
    BY <1>7 DEF ByCode
  <2>2. ~ AsItself(s[j]) /\ ~ ByLetter(s[j]) BY <1>7 DEF AsItself, ByLetter, ByCode
  <2>3. \A i \in 1 .. 6 : i \in 1 .. Len(b) BY <2>1
  <2>4. /\ Byte(p) = b[1] /\ Byte(p + 1) = b[2] /\ p + 1 < Length /\ Byte(p + 2) = b[3]
        /\ Byte(p + 3) = b[4] /\ Byte(p + 4) = b[5] /\ Byte(p + 5) = b[6]
    BY <1>3, <1>4, <2>3
  <2> QED BY <1>1, <2>1, <2>2, <2>4 DEF p
<1> QED BY <1>2, <1>5, <1>6, <1>7, EscapedWays

\* The measuring loop finds the closing quote, and not before.
LEMMA BetweenStep ==
    ASSUME text \in Seq(Nat), NEW o \in Nat, NEW s \in Seq(1..255), NEW c, Cut(text, o, s, c),
           NEW e, Between(e, s, c), e # c[Len(s) + 1]
    PROVE  /\ e \in Nat /\ Byte(e) # Quote
           /\ Byte(e) # Backslash => Between(e + 1, s, c)
           /\ Byte(e) = Backslash => e + 1 < Length /\ Between(e + 2, s, c)
<1>0. Len(s) \in Nat /\ \A j \in 1 .. Len(s) : j \in 1 .. Len(s) + 1 /\ j + 1 \in 1 .. Len(s) + 1
  BY SeqIs
<1>1. CASE \E j \in 1 .. Len(s) + 1 : e = c[j]
  <2>1. PICK j \in 1 .. Len(s) : e = c[j]
    <3>1. PICK j \in 1 .. Len(s) + 1 : e = c[j] BY <1>1
    <3>2. j \in 1 .. Len(s) BY <1>0, <3>1
    <3> QED BY <3>1, <3>2
  <2>2. s[j] \in 1..255 /\ (AsItself(s[j]) \/ ByLetter(s[j]) \/ ByCode(s[j]))
    <3>1. s[j] \in 1..255 BY SeqIs
    <3> QED BY <3>1, EscapedWays
  <2>3. j + 1 \in 1 .. Len(s) + 1 BY <1>0
  <2>4. c[j] \in Nat BY CutBytes
  <2>5. Backslash # Quote BY DEF Backslash, Quote
  <2>6. CASE AsItself(s[j])
    <3>1. Byte(e) = s[j] /\ c[j + 1] = e + 1 BY <2>1, <2>6, CutBytes
    <3>2. s[j] # Quote /\ s[j] # Backslash BY <2>6 DEF AsItself
    <3>3. Between(e + 1, s, c) BY <2>3, <3>1 DEF Between
    <3> QED BY <2>1, <2>4, <3>1, <3>2, <3>3
  <2>7. CASE ByLetter(s[j])
    <3>1. Byte(e) = Backslash /\ c[j + 1] = e + 2 /\ e + 1 < Length BY <2>1, <2>7, CutBytes
    <3>2. Between(e + 2, s, c) BY <2>3, <3>1 DEF Between
    <3> QED BY <2>1, <2>4, <2>5, <3>1, <3>2
  <2>8. CASE ByCode(s[j])
    <3>1. Byte(e) = Backslash /\ e + 1 < Length BY <2>1, <2>8, CutBytes
    <3>2. e + 2 \in c[j] + 2 .. c[j] + 5 BY <2>1, <2>4
    <3>3. Between(e + 2, s, c) BY <2>8, <3>2 DEF Between
    <3> QED BY <2>1, <2>4, <2>5, <3>1, <3>3
  <2> QED BY <2>2, <2>6, <2>7, <2>8
<1>2. CASE \E j \in 1 .. Len(s) : ByCode(s[j]) /\ e \in c[j] + 2 .. c[j] + 5
  <2>1. PICK j \in 1 .. Len(s) : ByCode(s[j]) /\ e \in c[j] + 2 .. c[j] + 5 BY <1>2
  <2> DEFINE p == c[j]
             x == s[j]
  <2>2. /\ p \in Nat /\ c[j + 1] = p + 6
        /\ Byte(p + 2) = 48 /\ Byte(p + 3) = 48
        /\ Byte(p + 4) = Hex(x \div 16) /\ Byte(p + 5) = Hex(x % 16)
    BY <2>1, CutBytes
  <2>3. x \div 16 \in 0 .. 15 /\ x % 16 \in 0 .. 15 BY <2>1 DEF ByCode
  <2>4. j + 1 \in 1 .. Len(s) + 1 BY <1>0
  <2> HIDE DEF p, x
  <2>5. /\ Hex(x \div 16) # Quote /\ Hex(x \div 16) # Backslash
        /\ Hex(x % 16) # Quote /\ Hex(x % 16) # Backslash
    BY <2>3, HexIs
  <2>6. 48 # Quote /\ 48 # Backslash BY DEF Quote, Backslash
  <2>7. e = p + 2 \/ e = p + 3 \/ e = p + 4 \/ e = p + 5
    <3>1. e \in p + 2 .. p + 5 BY <2>1 DEF p
    <3> QED BY <2>2, <3>1
  <2>8. e \in Nat /\ Byte(e) # Quote /\ Byte(e) # Backslash
    BY <2>2, <2>5, <2>6, <2>7
  <2>9. Between(e + 1, s, c)
    <3>1. CASE e = p + 5
      <4>1. e + 1 = c[j + 1] BY <2>2, <3>1
      <4> QED BY <2>4, <4>1 DEF Between
    <3>2. CASE e # p + 5
      <4>1. e + 1 \in p + 2 .. p + 5 BY <2>2, <2>7, <3>2
      <4> QED BY <2>1, <4>1 DEF Between, p
    <3> QED BY <3>1, <3>2
  <2> QED BY <2>8, <2>9
<1> QED BY <1>1, <1>2 DEF Between

LEMMA NoSurrogate == ASSUME NEW x \in 1..255 PROVE x \notin Low \cup High
<1>1. x \in Nat /\ x < 256 OBVIOUS
<1>2. x \notin Low BY <1>1, SMT DEF Low
<1>3. x \notin High BY <1>1, SMT DEF High
<1> QED BY <1>2, <1>3

LEMMA Utf8One == ASSUME NEW x \in 1 .. 127 PROVE Utf8(x) = <<x>>
<1>1. Utf8Size(x) = 1 BY DEF Utf8Size
<1>2. Mark[1] = 0 /\ Shift[1] = 1 BY DEF Mark, Shift
<1>3. x \div 1 = x /\ 0 + x = x OBVIOUS
<1> DEFINE u == [j \in 1 .. 1 |-> IF j = 1 THEN 0 + x \div 1 ELSE 128 + ((x \div Shift[1 - j + 1]) % 64)]
<1>4. Utf8(x) = u BY <1>1, <1>2 DEF Utf8
<1>5. u \in Seq(Nat) /\ Len(u) = 1 /\ u[1] = x
  <2>1. \A j \in 1 .. 1 : j = 1 OBVIOUS
  <2>2. u = [j \in 1 .. 1 |-> x] BY <1>3, <2>1
  <2> HIDE DEF u
  <2> QED BY <2>2
<1>6. <<x>> \in Seq(Nat) /\ Len(<<x>>) = 1 /\ <<x>>[1] = x OBVIOUS
<1> HIDE DEF u
<1>7. u = <<x>> BY <1>5, <1>6
<1> QED BY <1>4, <1>7

\* What the copying loop makes of an escaped byte.
LEMMA CopyStep ==
    ASSUME text \in Seq(Nat), NEW o \in Nat, NEW s \in Seq(1..255), NEW c, Cut(text, o, s, c),
           NEW j \in 1 .. Len(s), spc = "copy", inPtr = c[j], inEnd = c[Len(s) + 1],
           StringStep
    PROVE  /\ output' = output \o <<s[j]>> /\ inPtr' = c[j + 1]
           /\ UNCHANGED <<text, offset, spc, inEnd, skips, alloc>>
<1>1. s[j] \in 1..255 /\ (AsItself(s[j]) \/ ByLetter(s[j]) \/ ByCode(s[j]))
  <2>1. s[j] \in 1..255 BY SeqIs
  <2> QED BY <2>1, EscapedWays
<1>2. c[j] \in Nat /\ c[j] < inEnd /\ c[j] + Len(Escaped(s[j])) <= inEnd BY CutRises
<1>3. CopyPlain \/ CopyEscape \/ CopyLiteral \/ CopyPair \/ CopyFails
  <2>1. ~ (inPtr >= inEnd)
    <3>1. inEnd \in Nat
      <4>1. Len(s) + 1 \in 1 .. Len(s) + 1 BY SeqIs
      <4> QED BY <4>1 DEF Cut
    <3> QED BY <1>2, <3>1
  <2>2. ~ Measure /\ ~ Measured /\ ~ Allocate /\ ~ AllocateFails /\ ~ Copied
    BY <2>1 DEF Measure, MeasureByte, Measured, Allocate, AllocateFails, Copied
  <2> QED BY <2>2 DEF StringStep
<1>4. CASE AsItself(s[j])
  <2>1. Byte(inPtr) = s[j] /\ s[j] # Backslash /\ c[j + 1] = inPtr + 1
    BY <1>4, CutBytes DEF AsItself
  <2>2. CopyPlain
    BY <1>3, <2>1 DEF CopyEscape, CopyLiteral, CopyPair, CopyFails, IsLiteral
  <2> QED BY <2>1, <2>2 DEF CopyPlain, Write
<1>5. CASE ByLetter(s[j])
  <2>1. /\ Byte(inPtr) = Backslash /\ Byte(inPtr + 1) = Letter(s[j]) /\ c[j + 1] = inPtr + 2
        /\ s[j] \in Short
    BY <1>5, CutBytes DEF ByLetter
  <2>2. Letter(s[j]) \in DOMAIN Escapes /\ Escapes[Letter(s[j])] = s[j] BY <2>1, LetterIs
  <2>3. LetterU \notin DOMAIN Escapes BY DEF LetterU, Escapes, Quote, Backslash
  <2>4. CopyEscape
    BY <1>3, <2>1, <2>2, <2>3 DEF CopyPlain, CopyLiteral, CopyPair, CopyFails, IsLiteral
  <2> QED BY <2>1, <2>2, <2>4 DEF CopyEscape, Write
<1>6. CASE ByCode(s[j])
  <2> DEFINE x == s[j]
             p == c[j]
  <2>1. /\ p \in Nat /\ inPtr = p /\ c[j + 1] = p + 6 /\ Byte(p) = Backslash
        /\ Byte(p + 1) = LetterU /\ Byte(p + 2) = 48 /\ Byte(p + 3) = 48
        /\ Byte(p + 4) = Hex(x \div 16) /\ Byte(p + 5) = Hex(x % 16)
    BY <1>6, CutBytes
  <2>2. /\ x \div 16 \in 0 .. 15 /\ x % 16 \in 0 .. 15 /\ x < 32 /\ x \in 1..255
        /\ x = 16 * (x \div 16) + (x % 16) /\ Len(Escaped(x)) = 6
    BY <1>1, <1>6 DEF ByCode
  <2>3. inEnd \in Nat /\ p + 6 <= inEnd
    <3>1. Len(s) + 1 \in 1 .. Len(s) + 1 BY SeqIs
    <3>2. inEnd \in Nat BY <3>1 DEF Cut
    <3> QED BY <1>2, <2>2, <3>2
  <2> HIDE DEF x, p
  <2>4. first_code = x
    <3> DEFINE q == p + 2
    <3>1. q \in Nat /\ q + 0 = p + 2 /\ q + 1 = p + 3 /\ q + 2 = p + 4 /\ q + 3 = p + 5 BY <2>1
    <3> HIDE DEF q
    <3>2. HexDigit(48) = 0 BY DEF HexDigit
    <3>3. HexDigit(Hex(x \div 16)) = x \div 16 /\ HexDigit(Hex(x % 16)) = x % 16 BY <2>2, HexIs
    <3>4. /\ HexDigit(Byte(q)) = 0 /\ HexDigit(Byte(q + 1)) = 0
          /\ HexDigit(Byte(q + 2)) = x \div 16 /\ HexDigit(Byte(q + 3)) = x % 16
          /\ HexDigit(Byte(q + 0)) = 0
      BY <2>1, <3>1, <3>2, <3>3 DEF q
    <3>5. \A k \in 0 .. 3 : HexDigit(Byte(q + k)) # -1
      <4>1. \A k \in 0 .. 3 : k = 0 \/ k = 1 \/ k = 2 \/ k = 3 OBVIOUS
      <4>2. x \div 16 # -1 /\ x % 16 # -1 /\ 0 # -1 BY <2>2
      <4> QED BY <3>4, <4>1, <4>2
    <3>6. parse_hex4(q) = 4096 * 0 + 256 * 0 + 16 * (x \div 16) + (x % 16)
      BY <3>4, <3>5 DEF parse_hex4
    <3>7. parse_hex4(q) = x BY <2>2, <3>6
    <3> QED BY <2>1, <3>7 DEF first_code, q
  <2>5. x \notin Low \cup High BY <2>2, NoSurrogate
  <2>6. ~ (inEnd - inPtr < 6) BY <2>1, <2>3, SMTT(60)
  <2>7. LetterU \notin DOMAIN Escapes BY DEF LetterU, Escapes, Quote, Backslash
  <2>8. CopyLiteral
    <3>1. ~ CopyPlain BY <2>1 DEF CopyPlain
    <3>2. ~ CopyEscape BY <2>1, <2>7 DEF CopyEscape
    <3>3. ~ CopyPair BY <2>4, <2>5 DEF CopyPair
    <3>4. ~ CopyFails
      <4>1. ~ BadLiteral BY <2>4, <2>5, <2>6 DEF BadLiteral
      <4> QED BY <2>1, <4>1 DEF CopyFails
    <3> QED BY <1>3, <3>1, <3>2, <3>3, <3>4
  <2>9. Utf8(first_code) = <<x>>
    <3>1. x \in 1 .. 127 BY <2>2
    <3> QED BY <2>4, <3>1, Utf8One
  <2> QED BY <2>1, <2>8, <2>9 DEF CopyLiteral, Write, x
<1> QED BY <1>1, <1>4, <1>5, <1>6

LEMMA ScanStep ==
    ASSUME text \in Seq(Nat), NEW o \in Nat, NEW s \in Seq(1..255), NEW c, Cut(text, o, s, c),
           ~ AllocFails, Scan(o, s, c), StringStep
    PROVE  Scan(o, s, c)' /\ text' = text
<1>0. Len(s) \in Nat /\ c[Len(s) + 1] \in Nat /\ c[1] = o + 1
  <2>1. Len(s) \in Nat /\ Len(s) + 1 \in 1 .. Len(s) + 1 BY SeqIs
  <2> QED BY <2>1 DEF Cut
<1>1. CASE spc = "measure"
  <2>1. offset = o /\ inPtr = c[1] /\ output = <<>> /\ Between(inEnd, s, c)
    BY <1>1 DEF Scan
  <2>2. Measure \/ Measured
    BY <1>1 DEF StringStep, Allocate, AllocateFails, CopyPlain, CopyEscape, CopyLiteral, CopyPair,
                CopyFails, IsLiteral, Copying, Copied
  <2>3. CASE inEnd = c[Len(s) + 1]
    <3>1. Holds(text, inEnd, <<Quote>>) BY <2>3 DEF Cut
    <3>2. Byte(inEnd) = Quote /\ inEnd < Length
      <4>1. Quote \in Nat BY DEF Quote
      <4> QED BY <1>0, <2>3, <3>1, <4>1, ByteFirst
    <3>3. /\ spc' = "allocate" /\ text' = text /\ inEnd' = inEnd /\ inPtr' = inPtr
          /\ offset' = offset /\ output' = output
      BY <2>2, <3>2 DEF Measure, MeasureByte, Measured
    <3> QED BY <2>1, <2>3, <3>3 DEF Scan
  <2>4. CASE inEnd # c[Len(s) + 1]
    <3>1. /\ inEnd \in Nat /\ Byte(inEnd) # Quote
          /\ Byte(inEnd) # Backslash => Between(inEnd + 1, s, c)
          /\ Byte(inEnd) = Backslash => inEnd + 1 < Length /\ Between(inEnd + 2, s, c)
      BY <2>1, <2>4, BetweenStep
    <3>2. inEnd < Length
      <4>1. inEnd + 1 <= c[Len(s) + 1] \/ inEnd < Length
        <5>1. CASE \E j \in 1 .. Len(s) + 1 : inEnd = c[j]
          <6>1. PICK j \in 1 .. Len(s) + 1 : inEnd = c[j] BY <5>1
          <6>2. j \in 1 .. Len(s) BY <1>0, <2>4, <6>1
          <6>3. c[j] < c[Len(s) + 1] BY <6>2, CutRises
          <6> QED BY <1>0, <3>1, <6>1, <6>3
        <5>2. CASE \E j \in 1 .. Len(s) : ByCode(s[j]) /\ inEnd \in c[j] + 2 .. c[j] + 5
          <6>1. PICK j \in 1 .. Len(s) : ByCode(s[j]) /\ inEnd \in c[j] + 2 .. c[j] + 5 BY <5>2
          <6>2. /\ c[j] \in Nat /\ c[j] + Len(Escaped(s[j])) <= c[Len(s) + 1]
            BY CutRises
          <6>3. Len(Escaped(s[j])) = 6 BY <6>1 DEF ByCode
          <6>4. inEnd <= c[j] + 5 BY <6>1, <6>2
          <6> QED BY <1>0, <3>1, <6>2, <6>3, <6>4
        <5> QED BY <2>1, <5>1, <5>2 DEF Between
      <4>2. c[Len(s) + 1] < Length
        <5>1. Holds(text, c[Len(s) + 1], <<Quote>>) /\ Quote \in Nat BY DEF Cut, Quote
        <5> QED BY <1>0, <5>1, ByteFirst
      <4>3. Length \in Nat BY DEF Length
      <4> QED BY <1>0, <3>1, <4>1, <4>2, <4>3
    <3>3. Measure BY <2>2, <3>1, <3>2 DEF Measured
    <3>4. CASE Byte(inEnd) # Backslash
      <4>1. /\ inEnd' = inEnd + 1 /\ text' = text /\ offset' = offset /\ spc' = spc
            /\ output' = output /\ inPtr' = inPtr
        BY <3>3, <3>4 DEF Measure, MeasureByte
      <4> QED BY <1>1, <2>1, <3>1, <3>4, <4>1 DEF Scan
    <3>5. CASE Byte(inEnd) = Backslash
      <4>1. ~ (inEnd + 1 >= Length)
        <5>1. Length \in Nat BY DEF Length
        <5> QED BY <3>1, <3>5, <5>1
      <4>2. /\ inEnd' = inEnd + 2 /\ text' = text /\ offset' = offset /\ spc' = spc
            /\ output' = output /\ inPtr' = inPtr
        BY <3>3, <3>5, <4>1 DEF Measure, MeasureByte
      <4> QED BY <1>1, <2>1, <3>1, <3>5, <4>2 DEF Scan
    <3> QED BY <3>4, <3>5
  <2> QED BY <2>3, <2>4
<1>2. CASE spc = "allocate"
  <2>1. offset = o /\ inPtr = c[1] /\ output = <<>> /\ inEnd = c[Len(s) + 1]
    BY <1>2 DEF Scan
  <2>2. Allocate
    BY <1>2 DEF StringStep, Measure, MeasureByte, Measured, AllocateFails, CopyPlain, CopyEscape,
                CopyLiteral, CopyPair, CopyFails, IsLiteral, Copying, Copied
  <2>3. /\ spc' = "copy" /\ text' = text /\ offset' = offset /\ inEnd' = inEnd /\ inPtr' = inPtr
        /\ output' = output
    BY <2>2 DEF Allocate
  <2>4. Len(<<>>) = 0 /\ <<>> \in Seq(Nat) /\ 0 + 1 = 1 /\ 0 <= Len(s) BY <1>0
  <2> QED BY <2>1, <2>3, <2>4 DEF Scan
<1>3. CASE spc = "copy"
  <2> DEFINE n == Len(output)
  <2>1. /\ offset = o /\ inEnd = c[Len(s) + 1] /\ output \in Seq(Nat) /\ n <= Len(s)
        /\ inPtr = c[n + 1] /\ n \in Nat /\ \A i \in 1 .. n : output[i] = s[i]
    BY <1>3 DEF Scan
  <2>2. CASE n = Len(s)
    <3>1. inPtr = inEnd /\ inEnd \in Nat BY <1>0, <2>1, <2>2
    <3>2. ~ (inPtr < inEnd) BY <3>1
    <3>3. Copied
      BY <1>3, <3>2 DEF StringStep, Measure, MeasureByte, Measured, Allocate, AllocateFails,
                        CopyPlain, CopyEscape, CopyLiteral, CopyPair, CopyFails, IsLiteral, Copying
    <3>4. spc' = "ok" /\ output' = Append(output, 0) /\ offset' = inEnd + 1 /\ text' = text
      BY <3>3 DEF Copied
    <3>5. /\ output' \in Seq(Nat) /\ Len(output') = n + 1
          /\ \A i \in 1 .. n : output'[i] = output[i]
      BY <2>1, <3>4
    <3>6. offset' = o + Len(Quoted(s)) BY <2>1, <3>4 DEF Cut
    <3> QED BY <2>1, <2>2, <3>4, <3>5, <3>6 DEF Scan
  <2>3. CASE n # Len(s)
    <3>1. n + 1 \in 1 .. Len(s) BY <1>0, <2>1, <2>3
    <3>2. /\ output' = output \o <<s[n + 1]>> /\ inPtr' = c[(n + 1) + 1]
          /\ UNCHANGED <<text, offset, spc, inEnd, skips, alloc>>
      BY <1>3, <2>1, <3>1, CopyStep
    <3>3. s[n + 1] \in Nat
      <4>1. s[n + 1] \in 1..255 BY <3>1, SeqIs
      <4> QED BY <4>1, BytesNat, Zenon
    <3>4. /\ output' \in Seq(Nat) /\ Len(output') = n + 1 /\ output'[n + 1] = s[n + 1]
          /\ \A i \in 1 .. n : output'[i] = output[i]
      BY <2>1, <3>2, <3>3, AppendIs
    <3>5. \A i \in 1 .. n + 1 : i \in 1 .. n \/ i = n + 1 BY <2>1
    <3>6. n + 1 <= Len(s) BY <3>1
    <3> HIDE DEF n
    <3>7. /\ spc' = "copy" /\ offset' = o /\ inEnd' = c[Len(s) + 1] /\ text' = text
          /\ inPtr' = c[Len(output') + 1] /\ \A i \in 1 .. Len(output') : output'[i] = s[i]
      BY <1>3, <2>1, <3>2, <3>4, <3>5
    <3> QED BY <3>4, <3>6, <3>7 DEF Scan
  <2> QED BY <2>2, <2>3
<1>4. spc # "ok"
  BY DEF StringStep, Measure, MeasureByte, Measured, Allocate, AllocateFails, CopyPlain, CopyEscape,
         CopyLiteral, CopyPair, CopyFails, IsLiteral, Copying, Copied
<1> QED BY <1>1, <1>2, <1>3, <1>4 DEF Scan

\* parse_string begins at the opening quote.
LEMMA ScanBegins ==
    ASSUME text \in Seq(Nat), NEW o \in Nat, NEW s, NEW c, Cut(text, o, s, c), Len(s) \in Nat,
           offset = o, parse_string
    PROVE  Scan(o, s, c)'
<1>1. Holds(text, o, <<Quote>>) /\ c[1] = o + 1 /\ Quote \in Nat BY DEF Cut, Quote
<1>2. Byte(offset) = Quote BY <1>1, ByteFirst
<1>3. /\ spc' = "measure" /\ inPtr' = o + 1 /\ inEnd' = o + 1 /\ offset' = offset /\ output' = <<>>
  BY <1>2 DEF parse_string
<1>4. 1 \in 1 .. Len(s) + 1 OBVIOUS
<1>5. Between(inEnd', s, c) BY <1>1, <1>3, <1>4 DEF Between
<1> QED BY <1>1, <1>3, <1>5 DEF Scan

\* And ends behind the closing one, with the string.
LEMMA ScanEnds ==
    ASSUME NEW o, NEW s \in Seq(1..255), NEW c, Scan(o, s, c), spc = "ok"
    PROVE  Parsed = [block |-> fresh, bytes |-> s] /\ offset = o + Len(Quoted(s))
<1>1. /\ output \in Seq(Nat) /\ Len(output) = Len(s) + 1 /\ offset = o + Len(Quoted(s))
      /\ \A i \in 1 .. Len(s) : output[i] = s[i]
  BY DEF Scan
<1> DEFINE u == SubSeq(output, 1, Len(output) - 1)
<1>2. Len(s) \in Nat /\ (Len(s) + 1) - 1 = Len(s) BY SeqIs
<1>3. s \in Seq(Nat) BY BytesNat
<1>4. u \in Seq(Nat) /\ Len(u) = Len(s) /\ \A i \in 1 .. Len(s) : u[i] = output[i]
  BY <1>1, <1>2
<1> HIDE DEF u
<1>5. u = s
  <2>1. Len(u) = Len(s) /\ \A i \in 1 .. Len(u) : u[i] = s[i] BY <1>1, <1>4
  <2> QED BY <1>3, <1>4, <2>1, SeqEqual
<1> QED BY <1>1, <1>5 DEF Parsed, u

-----------------------------------------------------------------------------
(* A number that has been printed is parsed.                               *)

LEMMA LeastIs == ASSUME NEW S \in SUBSET Int, NEW x \in S, \A y \in S : x <= y PROVE Min(S) = x
<1>1. \A z \in S : (\A y \in S : z <= y) => z = x
  <2> SUFFICES ASSUME NEW z \in S, \A y \in S : z <= y PROVE z = x OBVIOUS
  <2>1. z <= x /\ x <= z /\ z \in Int /\ x \in Int OBVIOUS
  <2> QED BY <2>1
<1> QED BY <1>1 DEF Min

LEMMA RunIs ==
    ASSUME text \in Seq(Nat), NEW o \in Nat, NEW S, NEW most \in Nat, NEW n \in Nat,
           n <= most, o + n < Length, n = most \/ Byte(o + n) \notin S,
           \A k \in 0 .. n - 1 : Byte(o + k) \in S
    PROVE  Run(o, S, most) = n
<1> DEFINE T == {k \in 0 .. most : k = most \/ o + k >= Length \/ Byte(o + k) \notin S}
<1>1. T \in SUBSET Int /\ n \in T OBVIOUS
<1>2. ASSUME NEW k \in T PROVE n <= k
  <2>1. k \in Nat /\ k <= most OBVIOUS
  <2>2. SUFFICES ASSUME k < n PROVE FALSE BY <2>1
  <2>3. k \in 0 .. n - 1 /\ k # most BY <2>1, <2>2
  <2>4. Length \in Nat BY DEF Length
  <2>5. ~ (o + k >= Length) BY <2>1, <2>2, <2>4
  <2> QED BY <2>3, <2>5
<1> HIDE DEF T
<1>3. Min(T) = n BY <1>1, <1>2, LeastIs
<1> QED BY <1>3 DEF Run, T

\* The greatest numbers, of which the literals are not looked at elsewhere.
LEMMA Limits ==
    /\ IntMin \in Int /\ IntMin < -100 /\ IntMax \in Nat /\ -IntMin = IntMax + 1 /\ IntMax > 100
    /\ IntMax + 1 < 10000000000
<1>1. IntMax \in Nat /\ IntMax > 100 /\ IntMax + 1 < 10000000000 BY SMT DEF IntMax
<1>2. IntMin \in Int /\ -IntMin = IntMax + 1 BY <1>1, SMT DEF IntMin
<1> QED BY <1>1, <1>2, SMT

Decimal1(f, ds) ==
    IF ds = <<>> THEN 0
    ELSE LET v == f[SubSeq(ds, 1, Len(ds) - 1)]
             d == ds[Len(ds)] - 48
         IN IF v < (IntMin + d + 9) \div 10 THEN IntMin ELSE 10 * v - d
Short10(n) == {ds \in Digit : Len(ds) <= n}
Decimals(f, n) == f = [ds \in Short10(n) |-> Decimal1(f, ds)]

LEMMA DigitsLess ==
    ASSUME NEW n \in Nat, NEW ds \in Short10(n + 1), ds # <<>>
    PROVE  SubSeq(ds, 1, Len(ds) - 1) \in Short10(n) /\ Len(SubSeq(ds, 1, Len(ds) - 1)) = Len(ds) - 1
<1>1. ds \in Seq(48 .. 57) /\ Len(ds) \in Nat /\ Len(ds) <= n + 1 /\ Len(ds) # 0
  BY DEF Short10, Digit
<1> DEFINE k == Len(ds) - 1
<1>2. k \in Nat /\ Len(ds) = k + 1 /\ k <= n BY <1>1
<1> HIDE DEF k
<1>3. SubSeq(ds, 1, k) \in Seq(48 .. 57) /\ Len(SubSeq(ds, 1, k)) = k BY <1>1, <1>2, LastIs
<1> QED BY <1>2, <1>3 DEF Short10, Digit, k

LEMMA DecimalsExist == \A n \in Nat : \E f : Decimals(f, n)
<1> DEFINE S == {n \in Nat : \E f : Decimals(f, n)}
<1>1. 0 \in S
  <2> DEFINE e == [ds \in Short10(0) |-> 0]
  <2>1. \A ds \in Short10(0) : ds = <<>>
    <3>1. \A ds \in Seq(48 .. 57) : Len(ds) <= 0 => ds = <<>> OBVIOUS
    <3> QED BY <3>1 DEF Short10, Digit
  <2>2. \A ds \in Short10(0) : Decimal1(e, ds) = 0 BY <2>1 DEF Decimal1
  <2>3. Decimals(e, 0) BY <2>2 DEF Decimals
  <2> QED BY <2>3
<1>2. ASSUME NEW n \in Nat, n \in S PROVE n + 1 \in S
  <2>1. PICK f : Decimals(f, n) BY <1>2
  <2> DEFINE g == [ds \in Short10(n + 1) |-> Decimal1(f, ds)]
  <2>2. Short10(n) \subseteq Short10(n + 1)
    <3>1. \A ds \in Seq(48 .. 57) : Len(ds) <= n => Len(ds) <= n + 1 OBVIOUS
    <3> QED BY <3>1 DEF Short10, Digit
  <2>3. \A ds \in Short10(n) : g[ds] = f[ds] BY <2>1, <2>2 DEF Decimals
  <2>4. ASSUME NEW ds \in Short10(n + 1) PROVE Decimal1(f, ds) = Decimal1(g, ds)
    <3>1. ds # <<>> => g[SubSeq(ds, 1, Len(ds) - 1)] = f[SubSeq(ds, 1, Len(ds) - 1)]
      BY <2>3, DigitsLess
    <3> HIDE DEF g
    <3> QED BY <3>1 DEF Decimal1
  <2>5. g = [ds \in Short10(n + 1) |-> Decimal1(g, ds)] BY <2>4
  <2>6. Decimals(g, n + 1)
    <3> HIDE DEF g
    <3> QED BY <2>5 DEF Decimals
  <2> QED BY <2>6
<1> HIDE DEF S
<1>3. Nat \subseteq S BY <1>1, <1>2, NatInd
<1> QED BY <1>3 DEF S

LEMMA DecimalsAgree ==
    ASSUME NEW m \in Nat, NEW n \in Nat, NEW f, NEW g, Decimals(f, m), Decimals(g, n)
    PROVE  \A ds \in Digit : Len(ds) <= m /\ Len(ds) <= n => f[ds] = g[ds]
<1> DEFINE P(k) == \A ds \in Digit : Len(ds) = k /\ k <= m /\ k <= n => f[ds] = g[ds]
           S == {k \in Nat : P(k)}
<1>1. ASSUME NEW ds \in Digit, Len(ds) <= m, Len(ds) <= n
      PROVE  f[ds] = Decimal1(f, ds) /\ g[ds] = Decimal1(g, ds)
  BY <1>1 DEF Decimals, Short10
<1>2. 0 \in S
  <2>1. \A ds \in Digit : Len(ds) = 0 => ds = <<>> BY DEF Digit
  <2>2. ASSUME NEW ds \in Digit, Len(ds) = 0 PROVE f[ds] = g[ds]
    <3>1. ds = <<>> BY <2>1, <2>2
    <3>2. f[ds] = Decimal1(f, ds) /\ g[ds] = Decimal1(g, ds) BY <1>1, <2>2
    <3> QED BY <3>1, <3>2 DEF Decimal1
  <2> QED BY <2>2
<1>3. ASSUME NEW k \in Nat, k \in S PROVE k + 1 \in S
  <2>1. ASSUME NEW ds \in Digit, Len(ds) = k + 1, k + 1 <= m, k + 1 <= n PROVE f[ds] = g[ds]
    <3> DEFINE p == SubSeq(ds, 1, Len(ds) - 1)
    <3>1. ds # <<>> /\ ds \in Short10(k + 1)
      <4>1. ds \in Seq(48 .. 57) BY DEF Digit
      <4>2. ds # <<>> BY <2>1, <4>1
      <4> QED BY <2>1, <4>2 DEF Short10
    <3>2. p \in Digit /\ Len(p) = k
      <4>1. p \in Short10(k) /\ Len(p) = Len(ds) - 1 BY <3>1, DigitsLess
      <4>2. (k + 1) - 1 = k OBVIOUS
      <4> QED BY <2>1, <4>1, <4>2 DEF Short10
    <3>3. f[p] = g[p]
      <4>1. P(k) BY <1>3
      <4>2. k <= m /\ k <= n BY <2>1
      <4> HIDE DEF p
      <4> QED BY <3>2, <4>1, <4>2
    <3>4. f[ds] = Decimal1(f, ds) /\ g[ds] = Decimal1(g, ds) BY <1>1, <2>1
    <3> HIDE DEF p
    <3> QED BY <3>3, <3>4 DEF Decimal1, p
  <2>2. P(k + 1) BY <2>1
  <2> QED BY <2>2
<1> HIDE DEF S
<1>4. Nat \subseteq S BY <1>2, <1>3, NatInd
<1>5. ASSUME NEW ds \in Digit, Len(ds) <= m, Len(ds) <= n PROVE f[ds] = g[ds]
  <2>1. Len(ds) \in Nat BY DEF Digit
  <2>2. P(Len(ds)) BY <1>4, <2>1 DEF S
  <2> QED BY <1>5, <2>1, <2>2
<1> QED BY <1>5

LEMMA DecimalAt == \A ds \in Digit : Decimal[ds] = Decimal1(Decimal, ds)
<1> DEFINE App(n) == CHOOSE f : Decimals(f, n)
           all == [ds \in Digit |-> App(Len(ds))[ds]]
<1>1. \A n \in Nat : Decimals(App(n), n) BY DecimalsExist
<1> HIDE DEF App
<1>2. ASSUME NEW ds \in Digit PROVE all[ds] = Decimal1(all, ds)
  <2> DEFINE n == Len(ds)
             p == SubSeq(ds, 1, n - 1)
  <2>1. n \in Nat BY DEF Digit
  <2>2. all[ds] = Decimal1(App(n), ds)
    <3>1. ds \in Short10(n) BY <2>1 DEF Short10
    <3> QED BY <1>1, <2>1, <3>1 DEF Decimals
  <2>3. ASSUME ds # <<>> PROVE all[p] = App(n)[p]
    <3>1. n - 1 \in Nat /\ (n - 1) + 1 = n
      <4>1. ds \in Seq(48 .. 57) BY DEF Digit
      <4>2. n # 0 BY <2>3, <4>1
      <4> QED BY <2>1, <4>2
    <3>2. ds \in Short10((n - 1) + 1) BY <2>1, <3>1 DEF Short10
    <3>3. p \in Digit /\ Len(p) = n - 1 BY <2>3, <3>1, <3>2, DigitsLess DEF Short10
    <3>4. Len(p) <= n BY <2>1, <3>1, <3>3
    <3>5. App(n - 1)[p] = App(n)[p]
      <4>1. Decimals(App(n - 1), n - 1) /\ Decimals(App(n), n) BY <1>1, <2>1, <3>1
      <4>2. Len(p) <= n - 1 BY <2>1, <3>3, SMTT(60)
      <4> HIDE DEF p, n
      <4> QED BY <2>1, <3>1, <3>3, <3>4, <4>1, <4>2, DecimalsAgree
    <3> QED BY <3>3, <3>5
  <2> HIDE DEF all
  <2> QED BY <2>2, <2>3 DEF Decimal1
<1>3. all = [ds \in Digit |-> Decimal1(all, ds)] BY <1>2
<1> HIDE DEF all
<1>4. Decimal = [ds \in Digit |-> Decimal1(Decimal, ds)] BY <1>3, Zenon DEF Decimal, Decimal1, Digit
<1> QED BY <1>4

\* The numeral of a number, digit by digit.
LEMMA NumeralParts ==
    ASSUME NEW n \in Nat
    PROVE  \E pre \in Digit :
             /\ Numeral[n] \in Digit /\ Numeral[n] # <<>>
             /\ n < 10 => pre = <<>>
             /\ n >= 10 => pre = Numeral[n \div 10]
             /\ Len(Numeral[n]) = Len(pre) + 1 /\ Numeral[n][Len(pre) + 1] = 48 + (n % 10)
             /\ SubSeq(Numeral[n], 1, Len(Numeral[n]) - 1) = pre
<1> DEFINE q == n \div 10
           pre == IF n < 10 THEN <<>> ELSE Numeral[q]
           x == 48 + (n % 10)
           ds == Numeral[n]
<1>1. q \in Nat /\ x \in 48..57 OBVIOUS
<1>2. ds \in Digit BY NumeralIs
<1>3. pre \in Digit
  <2>1. <<>> \in Digit BY DEF Digit
  <2> QED BY <1>1, <2>1, NumeralIs
<1>4. ds = pre \o <<x>>
  <2>1. ds = Numeral1(Numeral, n) BY NumeralAt
  <2> QED BY <2>1 DEF Numeral1
<1>5. (n < 10 => pre = <<>>) /\ (n >= 10 => pre = Numeral[n \div 10]) OBVIOUS
<1> HIDE DEF pre, x, ds, q
<1>6. ds \in Seq(48..57) /\ pre \in Seq(48..57) BY <1>2, <1>3 DEF Digit
<1>7. /\ pre \o <<x>> \in Seq(48..57) /\ Len(pre \o <<x>>) = Len(pre) + 1
      /\ (pre \o <<x>>)[Len(pre) + 1] = x /\ Len(pre) \in Nat
      /\ \A i \in 1 .. Len(pre) : (pre \o <<x>>)[i] = pre[i]
  BY <1>1, <1>6, AppendIs
<1>8. Len(ds) = Len(pre) + 1 /\ ds[Len(pre) + 1] = x /\ \A i \in 1 .. Len(pre) : ds[i] = pre[i]
  BY <1>4, <1>7
<1>9. SubSeq(ds, 1, Len(ds) - 1) = pre
  <2> DEFINE u == SubSeq(ds, 1, Len(pre))
  <2>1. u \in Seq(48..57) /\ Len(u) = Len(pre) /\ \A i \in 1 .. Len(pre) : u[i] = ds[i]
    BY <1>6, <1>7, <1>8, LastIs
  <2> HIDE DEF u
  <2>2. Len(u) = Len(pre) /\ \A i \in 1 .. Len(u) : u[i] = pre[i] BY <1>8, <2>1
  <2>3. u = pre BY <1>6, <2>1, <2>2, SeqEqual
  <2>4. Len(ds) - 1 = Len(pre) BY <1>7, <1>8
  <2> QED BY <2>3, <2>4 DEF u
<1>10. ds # <<>>
  <2>1. Len(<<>>) = 0 OBVIOUS
  <2> QED BY <1>7, <1>8, <2>1
<1> QED BY <1>2, <1>3, <1>5, <1>8, <1>9, <1>10 DEF pre, x, ds

LEMMA NumeralBack == \A n \in Nat : n <= -IntMin => Decimal[Numeral[n]] = -n
<1> DEFINE P(n) == n <= -IntMin => Decimal[Numeral[n]] = -n
           S == {k \in Nat : \A n \in 0 .. k : P(n)}
<1>1. ASSUME NEW n \in Nat, n >= 10 => P(n \div 10) PROVE P(n)
  <2> SUFFICES ASSUME n <= -IntMin PROVE Decimal[Numeral[n]] = -n OBVIOUS
  <2>1. PICK pre \in Digit :
          /\ Numeral[n] \in Digit /\ Numeral[n] # <<>>
          /\ n < 10 => pre = <<>>
          /\ n >= 10 => pre = Numeral[n \div 10]
          /\ Len(Numeral[n]) = Len(pre) + 1 /\ Numeral[n][Len(pre) + 1] = 48 + (n % 10)
          /\ SubSeq(Numeral[n], 1, Len(Numeral[n]) - 1) = pre
    BY NumeralParts
  <2> DEFINE q == n \div 10
             r == n % 10
             ds == Numeral[n]
             v == Decimal[pre]
             z == (IntMin + r + 9) \div 10
  <2>2. IntMin \in Int BY Limits
  <2>3. q \in Nat /\ r \in 0 .. 9 /\ n = 10 * q + r /\ (n < 10 => q = 0) /\ q <= n OBVIOUS
  <2>4. v = -q
    <3>1. CASE n < 10
      <4>1. Decimal[<<>>] = 0
        <5>1. <<>> \in Digit BY DEF Digit
        <5> QED BY <5>1, DecimalAt DEF Decimal1
      <4> QED BY <2>1, <2>3, <3>1, <4>1
    <3>2. CASE n >= 10
      <4>1. q <= -IntMin BY <2>2, <2>3
      <4> QED BY <1>1, <2>1, <3>2, <4>1
    <3> QED BY <3>1, <3>2
  <2>5. Decimal[ds] = IF v < z THEN IntMin ELSE 10 * v - r
    <3>1. Decimal[ds] = Decimal1(Decimal, ds) BY <2>1, DecimalAt
    <3>2. ds[Len(ds)] - 48 = r
      <4>1. ds[Len(ds)] = 48 + r BY <2>1
      <4> QED BY <2>3, <4>1
    <3> HIDE DEF r
    <3> QED BY <2>1, <3>1, <3>2 DEF Decimal1
  <2>6. z \in Int /\ 10 * z <= IntMin + r + 9 BY <2>2, <2>3
  <2> HIDE DEF q, r, z, v, ds
  <2>7. ~ (v < z) BY <2>2, <2>3, <2>4, <2>6
  <2>8. Decimal[ds] = 10 * (-q) - r BY <2>4, <2>5, <2>7
  <2> QED BY <2>3, <2>8 DEF ds
<1> HIDE DEF P
<1>2. 0 \in S
  <2>1. P(0) BY <1>1
  <2>2. \A n \in 0 .. 0 : n = 0 OBVIOUS
  <2> QED BY <2>1, <2>2
<1>3. ASSUME NEW k \in Nat, k \in S PROVE k + 1 \in S
  <2>1. \A n \in 0 .. k : P(n) BY <1>3
  <2>2. P(k + 1)
    <3>1. k + 1 \in Nat OBVIOUS
    <3>2. k + 1 >= 10 => (k + 1) \div 10 \in 0 .. k OBVIOUS
    <3> QED BY <1>1, <2>1, <3>1, <3>2
  <2>3. \A n \in 0 .. k + 1 : n \in 0 .. k \/ n = k + 1 OBVIOUS
  <2>4. \A n \in 0 .. k + 1 : P(n) BY <2>1, <2>2, <2>3
  <2> QED BY <2>4
<1> HIDE DEF S
<1>4. Nat \subseteq S BY <1>2, <1>3, NatInd
<1>5. ASSUME NEW n \in Nat PROVE P(n)
  <2>1. n \in S /\ n \in 0 .. n BY <1>4
  <2> QED BY <2>1 DEF S
<1> QED BY <1>5 DEF P

\* A valve number has ten digits at most.
LEMMA NumeralShort == \A n \in Nat : n <= -IntMin => Len(Numeral[n]) <= 10
<1> DEFINE P(b, l) == \A n \in Nat : n < b => Len(Numeral[n]) <= l
<1>1. ASSUME NEW n \in Nat
      PROVE  \E k \in Nat : /\ Len(Numeral[n]) = k + 1 /\ (n < 10 => k = 0)
                            /\ n >= 10 => k = Len(Numeral[n \div 10])
  <2>1. PICK pre \in Digit :
          /\ n < 10 => pre = <<>>
          /\ n >= 10 => pre = Numeral[n \div 10]
          /\ Len(Numeral[n]) = Len(pre) + 1
    BY NumeralParts
  <2>2. Len(<<>>) = 0 OBVIOUS
  <2>3. Len(pre) \in Nat BY DEF Digit
  <2> QED BY <2>1, <2>2, <2>3
<1>2. P(10, 1)
  <2> SUFFICES ASSUME NEW n \in Nat, n < 10 PROVE Len(Numeral[n]) <= 1 OBVIOUS
  <2> QED BY <1>1
<1>3. ASSUME NEW b \in Nat, NEW l \in Nat, b >= 10, P(b, l) PROVE P(10 * b, l + 1)
  <2> SUFFICES ASSUME NEW n \in Nat, n < 10 * b PROVE Len(Numeral[n]) <= l + 1 OBVIOUS
  <2>1. PICK k \in Nat : /\ Len(Numeral[n]) = k + 1 /\ (n < 10 => k = 0)
                         /\ n >= 10 => k = Len(Numeral[n \div 10])
    BY <1>1
  <2>2. n \div 10 \in Nat /\ n \div 10 < b OBVIOUS
  <2>3. k <= l BY <1>3, <2>1, <2>2
  <2> QED BY <2>1, <2>3
<1> HIDE DEF P
<1>4. P(100, 2) BY <1>2, <1>3, SMT
<1>5. P(1000, 3) BY <1>3, <1>4, SMT
<1>6. P(10000, 4) BY <1>3, <1>5, SMT
<1>7. P(100000, 5) BY <1>3, <1>6, SMT
<1>8. P(1000000, 6) BY <1>3, <1>7, SMT
<1>9. P(10000000, 7) BY <1>3, <1>8, SMT
<1>10. P(100000000, 8) BY <1>3, <1>9, SMT
<1>11. P(1000000000, 9) BY <1>3, <1>10, SMT
<1>12. P(10000000000, 10) BY <1>3, <1>11, SMT
<1>13. ASSUME NEW n \in Nat, n <= -IntMin PROVE n < 10000000000 BY <1>13, Limits, SMT
<1> QED BY <1>12, <1>13, SMT DEF P

LEMMA NumberParsed ==
    ASSUME text \in Seq(Nat), NumberSize \in Nat, NumberSize >= 11,
           NEW n \in IntMin .. IntMax, NEW o \in Nat, offset = o,
           Holds(text, o, PrintNumber(n)), o + Len(PrintNumber(n)) < Length,
           Byte(o + Len(PrintNumber(n))) \notin NumberBytes
    PROVE  /\ IsNumber /\ Digits > 0
           /\ parse_number => Return([Current EXCEPT !.type = "Number", !.number = n],
                                     Len(PrintNumber(n)))
<1> DEFINE a == IF n < 0 THEN -n ELSE n
           sg == IF n < 0 THEN 1 ELSE 0
           ds == Numeral[a]
           D == Len(ds)
           L == Len(PrintNumber(n))
<1>1. n \in Int /\ a \in Nat /\ a <= -IntMin /\ (a = -IntMin => n < 0) /\ sg \in Nat
  BY Limits
<1>2. ds \in Digit /\ ds \in Seq(48..57) /\ D \in Nat /\ D >= 1 /\ D <= 10
      /\ \A i \in 1 .. D : ds[i] \in 48..57
  <2>1. PICK pre \in Digit : /\ Numeral[a] \in Digit /\ Len(Numeral[a]) = Len(pre) + 1
    BY <1>1, NumeralParts
  <2>2. Len(pre) \in Nat BY DEF Digit
  <2>3. Len(Numeral[a]) <= 10 BY <1>1, NumeralShort
  <2> HIDE DEF a
  <2>4. ds \in Seq(48..57) BY <2>1 DEF Digit
  <2>5. \A i \in 1 .. D : ds[i] \in 48..57 BY <2>4, SeqIs
  <2> QED BY <2>1, <2>2, <2>3, <2>4, <2>5
<1>3. Decimal[ds] = -a BY <1>1, NumeralBack
<1>4. (n < 0 => PrintNumber(n) = <<45>> \o ds) /\ (n >= 0 => PrintNumber(n) = ds)
  <2>1. n < 0 => PrintNumber(n) = <<45>> \o ds BY Zenon DEF PrintNumber
  <2>2. n >= 0 => ~ (n < 0) BY <1>1
  <2>3. ~ (n < 0) => PrintNumber(n) = ds BY Zenon DEF PrintNumber
  <2> HIDE DEF a, ds
  <2> QED BY <2>1, <2>2, <2>3
<1>5. (n < 0 => a = -n /\ sg = 1) /\ (n >= 0 => a = n /\ sg = 0) BY <1>1
<1> HIDE DEF a, ds, L, sg
<1>6. ds \in Seq(Nat)
  <2>1. \A x \in 48..57 : x \in Nat OBVIOUS
  <2>2. \A A, B : A \subseteq B => Seq(A) \subseteq Seq(B) OBVIOUS
  <2>3. 48..57 \subseteq Nat BY <2>1, Zenon
  <2> QED BY <1>2, <2>2, <2>3, Zenon
<1>7. L = sg + D /\ Holds(text, o + sg, ds) /\ (n < 0 => Byte(o) = 45)
  <2>1. CASE n < 0
    <3>1. <<45>> \in Seq(Nat) /\ Len(<<45>>) = 1 /\ 45 \in Nat OBVIOUS
    <3>2. Holds(text, o, <<45>>) /\ Holds(text, o + 1, ds)
      <4>1. Len(text) \in Nat OBVIOUS
      <4>2. Holds(text, o, <<45>> \o ds) BY <1>4, <2>1
      <4> DEFINE m == <<45>>
      <4>3. m \in Seq(Nat) /\ Len(m) = 1 /\ Holds(text, o, m \o ds) BY <3>1, <4>2
      <4> HIDE DEF m
      <4>4. Holds(text, o, m) /\ Holds(text, o + Len(m), ds) BY <1>6, <4>1, <4>3, HoldsParts
      <4> QED BY <4>3, <4>4 DEF m
    <3>3. L = 1 + D
      <4>1. Len(<<45>> \o ds) = Len(<<45>>) + Len(ds) BY <1>6, <3>1, ConcatIs
      <4> QED BY <1>4, <2>1, <3>1, <4>1 DEF L
    <3>4. Byte(o) = 45 BY <3>1, <3>2, ByteFirst
    <3> QED BY <1>5, <2>1, <3>2, <3>3, <3>4
  <2>2. CASE n >= 0
    <3>1. o + 0 = o /\ 0 + D = D BY <1>2
    <3>2. ~ (n < 0) /\ sg = 0 BY <1>1, <1>5, <2>2
    <3>3. L = D BY <1>4, <2>2 DEF L
    <3>4. Holds(text, o, ds) BY <1>4, <2>2
    <3> HIDE DEF D
    <3> QED BY <3>1, <3>2, <3>3, <3>4
  <2> QED BY <1>1, <2>1, <2>2
<1> HIDE DEF D
<1>8. ASSUME NEW k \in 0 .. D - 1 PROVE Byte((o + sg) + k) \in 48..57
  <2>1. k + 1 \in 1 .. D /\ ((o + sg) + (k + 1)) - 1 = (o + sg) + k /\ o + sg \in Nat
    BY <1>1, <1>2
  <2>2. Byte(((o + sg) + (k + 1)) - 1) = ds[k + 1] BY <1>6, <1>7, <2>1, ByteHeld DEF D
  <2> QED BY <1>2, <2>1, <2>2
<1>9. Sign = sg /\ IsNumber
  <2>1. CASE n < 0 BY <1>5, <1>7, <2>1 DEF Sign, IsNumber
  <2>2. CASE n >= 0
    <3>1. 0 \in 0 .. D - 1 /\ (o + sg) + 0 = o BY <1>2, <1>5, <2>2
    <3>2. Byte(o) \in 48..57 BY <1>8, <3>1
    <3>3. \A x \in 48..57 : x # 45 OBVIOUS
    <3> QED BY <1>5, <2>2, <3>2, <3>3 DEF Sign, IsNumber, IsDigit
  <2> QED BY <1>1, <2>1, <2>2
<1>10. Copied63 = L
  <2>1. L \in Nat /\ L <= NumberSize /\ o + L < Length BY <1>1, <1>2, <1>5, <1>7 DEF L
  <2>2. ASSUME NEW k \in 0 .. L - 1 PROVE Byte(o + k) \in NumberBytes
    <3>1. CASE n < 0 /\ k = 0
      <4>1. o + k = o BY <3>1
      <4> QED BY <1>7, <3>1, <4>1 DEF NumberBytes
    <3>2. CASE ~ (n < 0 /\ k = 0)
      <4>1. k - sg \in 0 .. D - 1 /\ (o + sg) + (k - sg) = o + k BY <1>1, <1>2, <1>5, <1>7, <3>2
      <4>2. Byte(o + k) \in 48..57 BY <1>8, <4>1
      <4> QED BY <4>2 DEF NumberBytes
    <3> QED BY <3>1, <3>2
  <2>3. Byte(o + L) \notin NumberBytes BY DEF L
  <2> QED BY <2>1, <2>2, <2>3, RunIs DEF Copied63
<1>11. Digits = D
  <2>1. ~ (L <= sg) /\ L - sg = D /\ o + sg \in Nat /\ (o + sg) + D = o + L
    BY <1>1, <1>2, <1>7
  <2>2. (o + sg) + D < Length BY <2>1 DEF L
  <2>3. Run(o + sg, 48..57, D) = D
    <3>1. D <= D BY <1>2
    <3> QED BY <1>2, <1>8, <2>1, <2>2, <3>1, RunIs
  <2> QED BY <1>9, <1>10, <2>1, <2>3 DEF Digits
<1>12. SubSeq(text, offset + Sign + 1, offset + Sign + Digits) = ds
  <2> DEFINE p == o + sg
             u == SubSeq(text, p + 1, p + D)
  <2>1. p \in Nat /\ p + D <= Len(text)
    <3>1. p \in Nat BY <1>1
    <3>2. p + D <= Len(text) BY <1>7 DEF Holds, D
    <3> QED BY <3>1, <3>2
  <2>2. \A i \in 1 .. D : text[p + i] = ds[i] BY <1>7 DEF Holds, D
  <2>3. u \in Seq(Nat) /\ Len(u) = D /\ \A i \in 1 .. D : u[i] = text[p + i]
    <3> HIDE DEF p
    <3>1. p + 1 >= 1 /\ (p + D) - (p + 1) + 1 = D /\ p + D \in Nat BY <1>2, <2>1
    <3>2. u \in Seq(Nat) /\ Len(u) = D BY <1>2, <2>1, <3>1
    <3>3. \A i \in 1 .. D : u[i] = text[((p + 1) + i) - 1] BY <1>2, <2>1, <3>1
    <3>4. \A i \in 1 .. D : ((p + 1) + i) - 1 = p + i BY <2>1
    <3> QED BY <3>2, <3>3, <3>4
  <2> HIDE DEF u, p
  <2>4. Len(u) = Len(ds) /\ \A i \in 1 .. Len(u) : u[i] = ds[i] BY <2>2, <2>3 DEF D
  <2>5. u = ds BY <1>6, <2>3, <2>4, SeqEqual
  <2> QED BY <1>9, <1>11, <2>5 DEF u, p
<1>13. (IF Sign = 1 THEN -a ELSE IF -a = IntMin THEN IntMax ELSE -(-a)) = n
  BY <1>1, <1>5, <1>9, Limits
<1>14. Digits > 0 /\ Sign + Digits = L BY <1>1, <1>2, <1>7, <1>9, <1>11
<1>15. ASSUME parse_number
       PROVE  Return([Current EXCEPT !.type = "Number", !.number = n], L)
  BY <1>3, <1>12, <1>13, <1>14, <1>15 DEF parse_number
<1> QED BY <1>9, <1>14, <1>15 DEF L

-----------------------------------------------------------------------------
(* The message that send_keep_alive has written down is one that is encoded. *)

LEMMA QuotedByte ==
    ASSUME NEW c \in 1..255, c \notin Short, c >= 32
    PROVE  LET q == Quoted(<<c>>)
           IN q \in Seq(Nat) /\ Len(q) = 3 /\ q[1] = 34 /\ q[2] = c /\ q[3] = 34
<1> DEFINE s == <<c>>
           parts == [i \in DOMAIN s |-> Escaped(s[i])]
<1>1. Escaped(c) = s BY DEF Escaped
<1>2. s \in Seq(1..255) /\ s \in Seq(Nat) /\ DOMAIN s = 1 .. 1 /\ s[1] = c /\ Len(s) = 1 OBVIOUS
<1>3. parts = <<s>>
  <2>1. \A i \in 1 .. 1 : i = 1 OBVIOUS
  <2>2. parts = [i \in 1 .. 1 |-> s] BY <1>1, <1>2, <2>1
  <2> HIDE DEF parts, s
  <2>3. [i \in 1 .. 1 |-> s] = <<s>> OBVIOUS
  <2> QED BY <2>2, <2>3
<1>4. Spelt(s) = s BY <1>2, <1>3, FlattenOne DEF Spelt
<1>5. Quoted(s) = (<<Quote>> \o s) \o <<Quote>> BY <1>4 DEF Quoted
<1>6. <<Quote>> \in Seq(Nat) /\ Quote \in Nat /\ Len(<<Quote>>) = 1 /\ <<Quote>>[1] = Quote
  BY DEF Quote
<1>7. /\ <<Quote>> \o s \in Seq(Nat) /\ Len(<<Quote>> \o s) = 2
      /\ (<<Quote>> \o s)[1] = Quote /\ (<<Quote>> \o s)[2] = c
  BY <1>2, <1>6
<1> DEFINE u == <<Quote>> \o s
<1> HIDE DEF u
<1>8. /\ u \o <<Quote>> \in Seq(Nat) /\ Len(u \o <<Quote>>) = 3
      /\ (u \o <<Quote>>)[1] = Quote /\ (u \o <<Quote>>)[2] = c /\ (u \o <<Quote>>)[3] = Quote
  BY <1>6, <1>7, AppendIs DEF u
<1> QED BY <1>5, <1>8 DEF u, Quote

LEMMA KeepAliveSendable == Sendable(KeepAlive)
<1>1. <<>> \in Seq(1..255) /\ "KEEP_ALIVE" \in DOMAIN TypeName BY DEF TypeName
<1>2. 0 \in IntMin .. IntMax BY Limits
<1> QED BY <1>1, <1>2 DEF Sendable, KeepAlive

LEMMA KeepAliveBytes == keep_alive_msg = Encoded(KeepAlive)
<1> DEFINE t == Encoded(KeepAlive)
           V == RootValues(KeepAlive)
<1>1. t \in Seq(Nat) BY KeepAliveSendable, ValuesTyped
<1>2. PICK pos : Laid(t, 0, RootFields, V, pos)
  <2>1. Holds(t, 0, t) /\ Len(t) \in Nat BY <1>1, HoldsAll
  <2>2. \A f \in ToSet(RootFields) : V[f] \in Seq(Nat) BY KeepAliveSendable, ValuesTyped
  <2>3. Holds(t, 0, ObjectBytes(RootFields, V)) BY <2>1 DEF Encoded
  <2> HIDE DEF t, V
  <2> QED BY <2>1, <2>2, <2>3, RootFieldsAre, ObjectLaid
<1>3. /\ Name["version"] = <<118>> /\ Name["data"] = <<100>> /\ Name["type"] = <<116>>
      /\ TypeName["KEEP_ALIVE"] = <<75>>
  BY DEF Name, TypeName
<1> DEFINE Is3(q, c) == Len(q) = 3 /\ q[1] = 34 /\ q[2] = c /\ q[3] = 34
<1>4. /\ Is3(Quoted(Name["version"]), 118) /\ Is3(Quoted(Name["data"]), 100)
      /\ Is3(Quoted(Name["type"]), 116) /\ Is3(Quoted(TypeName["KEEP_ALIVE"]), 75)
  <2>1. \A x \in {118, 100, 116, 75} : x \in 1..255 /\ x >= 32 /\ x \notin Short BY ShortIs
  <2>2. \A x \in {118, 100, 116, 75} : Is3(Quoted(<<x>>), x)
    <3> SUFFICES ASSUME NEW x \in {118, 100, 116, 75} PROVE Is3(Quoted(<<x>>), x) OBVIOUS
    <3>1. x \in 1..255 /\ x >= 32 /\ x \notin Short BY <2>1
    <3> QED BY <3>1, QuotedByte
  <2> HIDE DEF Is3
  <2> QED BY <1>3, <2>2
<1>5. V["type"] = Quoted(TypeName["KEEP_ALIVE"])
  BY KeepAliveSendable, ValuesTyped DEF ScalarBytes, KeepAlive
<1>6. V["version"] = <<50>>
  <2>1. PrintNumber(2) = Numeral[2] BY DEF PrintNumber
  <2>2. Numeral[2] = <<50>>
    <3>1. Numeral[2] = Numeral1(Numeral, 2) BY NumeralAt
    <3>2. 2 % 10 = 2 /\ 48 + 2 = 50 /\ <<>> \o <<50>> = <<50>> OBVIOUS
    <3> QED BY <3>1, <3>2 DEF Numeral1
  <2>3. V["version"] = PrintNumber(2)
    BY KeepAliveSendable, ValuesTyped DEF ScalarBytes, DATA_FORMAT_VERSION
  <2> QED BY <2>1, <2>2, <2>3
<1>7. V["data"] = <<LBrace, RBrace>>
  <2> DEFINE DV == DataValues(KeepAlive)
  <2>1. V["data"] = ObjectBytes(DataFields("KEEP_ALIVE"), DV)
    BY KeepAliveSendable, ValuesTyped DEF KeepAlive
  <2>2. DataFields("KEEP_ALIVE") = <<>> BY DataFieldsAre
  <2>3. [i \in DOMAIN <<>> |-> FieldBytes(<<>>, DV, i)] = <<>> OBVIOUS
  <2>4. ObjectBytes(<<>>, DV) = (<<LBrace>> \o <<>>) \o <<RBrace>>
    BY <2>3, FlattenEmpty DEF ObjectBytes, LBrace, RBrace
  <2>5. (<<LBrace>> \o <<>>) \o <<RBrace>> = <<LBrace, RBrace>>
    <3>1. LBrace \in Nat /\ RBrace \in Nat BY DEF LBrace, RBrace, Open, Close
    <3>2. \A x \in Nat : <<x>> \o <<>> = <<x>> OBVIOUS
    <3> QED BY <3>1, <3>2, TwoIs
  <2> QED BY <2>1, <2>2, <2>4, <2>5
<1>8. /\ Len(<<50>>) = 1 /\ <<50>>[1] = 50
      /\ Len(<<LBrace, RBrace>>) = 2 /\ <<LBrace, RBrace>>[1] = LBrace /\ <<LBrace, RBrace>>[2] = RBrace
      /\ Len(<<Colon>>) = 1 /\ <<Colon>>[1] = 58 /\ Len(<<Comma>>) = 1 /\ <<Comma>>[1] = 44
  BY DEF Colon, Comma
<1> HIDE DEF t, V, Is3
<1> DEFINE a == Quoted(Name["version"])
           b == Quoted(Name["data"])
           c == Quoted(Name["type"])
           d == Quoted(TypeName["KEEP_ALIVE"])
<1> HIDE DEF a, b, c, d
<1>9. /\ pos[1] = 1 /\ Holds(t, 0, <<Open["Object"]>>) /\ Holds(t, pos[4], <<Close["Object"]>>)
      /\ pos[4] + 1 = 0 + Len(t)
  BY <1>2, RootFieldsAre DEF Laid, t, Encoded, V
<1>10. \A i \in 1 .. 3 :
         /\ Holds(t, pos[i], Quoted(Name[RootFields[i]])) /\ Holds(t, NameEnd(RootFields, pos, i), <<Colon>>)
         /\ Holds(t, ValueAt(RootFields, pos, i), V[RootFields[i]])
         /\ i < 3 => /\ Holds(t, EndAt(RootFields, V, pos, i), <<Comma>>)
                     /\ pos[i + 1] = EndAt(RootFields, V, pos, i) + 1
         /\ ~ (i < 3) => pos[i + 1] = EndAt(RootFields, V, pos, i)
  BY <1>2, RootFieldsAre DEF Laid
<1>11. /\ Len(a) = 3 /\ Len(b) = 3 /\ Len(c) = 3 /\ Len(d) = 3 BY <1>4 DEF Is3, a, b, c, d
<1>12. /\ Holds(t, 1, a) /\ Holds(t, 4, <<Colon>>) /\ Holds(t, 5, <<50>>) /\ Holds(t, 6, <<Comma>>)
       /\ pos[2] = 7
  <2>0. Quoted(Name[RootFields[1]]) = a BY RootFieldsAre DEF a
  <2>1. NameEnd(RootFields, pos, 1) = 4
    <3>1. NameEnd(RootFields, pos, 1) = pos[1] + Len(a) BY <2>0 DEF NameEnd
    <3> QED BY <1>9, <1>11, <3>1
  <2>2. ValueAt(RootFields, pos, 1) = 5 BY <2>1 DEF ValueAt
  <2>3. EndAt(RootFields, V, pos, 1) = 6
    <3>1. Len(V[RootFields[1]]) = 1 BY <1>6, <1>8, RootFieldsAre
    <3> QED BY <2>2, <3>1 DEF EndAt
  <2>4. 1 \in 1 .. 3 /\ 1 < 3 /\ 1 + 1 = 2 /\ 6 + 1 = 7 OBVIOUS
  <2> QED BY <1>6, <1>9, <1>10, <2>1, <2>2, <2>3, <2>4, RootFieldsAre DEF a
<1>13. /\ Holds(t, 7, b) /\ Holds(t, 10, <<Colon>>) /\ Holds(t, 11, <<LBrace, RBrace>>)
       /\ Holds(t, 13, <<Comma>>) /\ pos[3] = 14
  <2>0. Quoted(Name[RootFields[2]]) = b BY RootFieldsAre DEF b
  <2>1. NameEnd(RootFields, pos, 2) = 10
    <3>1. NameEnd(RootFields, pos, 2) = pos[2] + Len(b) BY <2>0 DEF NameEnd
    <3> QED BY <1>12, <1>11, <3>1
  <2>2. ValueAt(RootFields, pos, 2) = 11 BY <2>1 DEF ValueAt
  <2>3. EndAt(RootFields, V, pos, 2) = 13
    <3>1. Len(V[RootFields[2]]) = 2 BY <1>7, <1>8, RootFieldsAre
    <3> QED BY <2>2, <3>1 DEF EndAt
  <2>4. 2 \in 1 .. 3 /\ 2 < 3 /\ 2 + 1 = 3 /\ 13 + 1 = 14 OBVIOUS
  <2> QED BY <1>7, <1>10, <1>12, <2>1, <2>2, <2>3, <2>4, RootFieldsAre DEF b
<1>14. /\ Holds(t, 14, c) /\ Holds(t, 17, <<Colon>>) /\ Holds(t, 18, d) /\ pos[4] = 21
  <2>0. Quoted(Name[RootFields[3]]) = c BY RootFieldsAre DEF c
  <2>1. NameEnd(RootFields, pos, 3) = 17
    <3>1. NameEnd(RootFields, pos, 3) = pos[3] + Len(c) BY <2>0 DEF NameEnd
    <3> QED BY <1>13, <1>11, <3>1
  <2>2. ValueAt(RootFields, pos, 3) = 18 BY <2>1 DEF ValueAt
  <2>3. EndAt(RootFields, V, pos, 3) = 21
    <3>1. Len(V[RootFields[3]]) = 3 BY <1>5, <1>11, RootFieldsAre DEF d
    <3> QED BY <2>2, <3>1 DEF EndAt
  <2>4. 3 \in 1 .. 3 /\ ~ (3 < 3) /\ 3 + 1 = 4 OBVIOUS
  <2> QED BY <1>5, <1>10, <1>13, <2>1, <2>2, <2>3, <2>4, RootFieldsAre DEF c, d
<1>15. Len(t) = 22
  <2>1. Len(t) \in Nat BY <1>1 DEF t
  <2> QED BY <1>9, <1>14, <2>1
<1>more. ASSUME NEW o, NEW q, Holds(t, o, q), Is3(q, q[2]), o \in Nat
       PROVE  t[o + 1] = 34 /\ t[o + 2] = q[2] /\ t[o + 3] = 34
  BY <1>more DEF Holds, Is3
<1>17. t[2] = 34 /\ t[3] = 118 /\ t[4] = 34
  <2>1. Is3(a, 118) /\ a[2] = 118 BY <1>4 DEF a, Is3
  <2>2. 1 + 1 = 2 /\ 1 + 2 = 3 /\ 1 + 3 = 4 OBVIOUS
  <2> QED BY <1>12, <1>more, <2>1, <2>2
<1>18. t[8] = 34 /\ t[9] = 100 /\ t[10] = 34
  <2>1. Is3(b, 100) /\ b[2] = 100 BY <1>4 DEF b, Is3
  <2>2. 7 + 1 = 8 /\ 7 + 2 = 9 /\ 7 + 3 = 10 OBVIOUS
  <2> QED BY <1>13, <1>more, <2>1, <2>2
<1>19. t[15] = 34 /\ t[16] = 116 /\ t[17] = 34
  <2>1. Is3(c, 116) /\ c[2] = 116 BY <1>4 DEF c, Is3
  <2>2. 14 + 1 = 15 /\ 14 + 2 = 16 /\ 14 + 3 = 17 OBVIOUS
  <2> QED BY <1>14, <1>more, <2>1, <2>2
<1>20. t[19] = 34 /\ t[20] = 75 /\ t[21] = 34
  <2>1. Is3(d, 75) /\ d[2] = 75 BY <1>4 DEF d, Is3
  <2>2. 18 + 1 = 19 /\ 18 + 2 = 20 /\ 18 + 3 = 21 OBVIOUS
  <2> QED BY <1>14, <1>more, <2>1, <2>2
<1>21. ASSUME NEW o \in Nat, NEW x, Holds(t, o, <<x>>) PROVE t[o + 1] = x
  <2>1. Len(<<x>>) = 1 /\ <<x>>[1] = x OBVIOUS
  <2> QED BY <1>21, <2>1 DEF Holds
<1>22. t[1] = LBrace /\ t[5] = 58 /\ t[6] = 50 /\ t[7] = 44
  <2>1. 0 + 1 = 1 /\ 4 + 1 = 5 /\ 5 + 1 = 6 /\ 6 + 1 = 7 OBVIOUS
  <2>2. Colon = 58 /\ Comma = 44 BY DEF Colon, Comma
  <2> QED BY <1>9, <1>12, <1>21, <2>1, <2>2 DEF LBrace
<1>23. t[11] = 58 /\ t[12] = LBrace /\ t[13] = RBrace /\ t[14] = 44
  <2>1. 10 + 1 = 11 /\ 11 + 1 = 12 /\ 11 + 2 = 13 /\ 13 + 1 = 14 OBVIOUS
  <2>2. Colon = 58 /\ Comma = 44 BY DEF Colon, Comma
  <2>3. t[12] = LBrace /\ t[13] = RBrace BY <1>8, <1>13, <2>1 DEF Holds
  <2> QED BY <1>13, <1>21, <2>1, <2>2, <2>3
<1>24. t[18] = 58 /\ t[22] = RBrace
  <2>1. 17 + 1 = 18 /\ 21 + 1 = 22 OBVIOUS
  <2>2. Colon = 58 BY DEF Colon
  <2> QED BY <1>9, <1>14, <1>21, <2>1, <2>2 DEF RBrace
<1> DEFINE k == keep_alive_msg
<1>25. /\ k \in Seq(Nat) /\ Len(k) = 22
       /\ k[1] = LBrace /\ k[2] = 34 /\ k[3] = 118 /\ k[4] = 34 /\ k[5] = 58 /\ k[6] = 50 /\ k[7] = 44
       /\ k[8] = 34 /\ k[9] = 100 /\ k[10] = 34 /\ k[11] = 58 /\ k[12] = LBrace /\ k[13] = RBrace
       /\ k[14] = 44 /\ k[15] = 34 /\ k[16] = 116 /\ k[17] = 34 /\ k[18] = 58 /\ k[19] = 34
       /\ k[20] = 75 /\ k[21] = 34 /\ k[22] = RBrace
  BY DEF keep_alive_msg, LBrace, RBrace, Open, Close
<1> HIDE DEF k
<1>26. \A i \in 1 .. Len(t) : t[i] = k[i]
  <2> DEFINE P(i) == t[i] = k[i]
  <2>1. P(1) /\ P(2) /\ P(3) /\ P(4) /\ P(5) /\ P(6) /\ P(7) BY <1>17, <1>22, <1>25
  <2>2. P(8) /\ P(9) /\ P(10) /\ P(11) /\ P(12) /\ P(13) /\ P(14) BY <1>18, <1>23, <1>25
  <2>3. P(15) /\ P(16) /\ P(17) /\ P(18) /\ P(19) /\ P(20) /\ P(21) /\ P(22)
    BY <1>19, <1>20, <1>24, <1>25
  <2> HIDE DEF P
  <2>4. \A i \in 1 .. 22 : i \in 1 .. 7 \/ i \in 8 .. 14 \/ i \in 15 .. 22 OBVIOUS
  <2>5. \A i \in 1 .. 7 : i \in {1, 2, 3, 4, 5, 6, 7} OBVIOUS
  <2>6. \A i \in 8 .. 14 : i \in {8, 9, 10, 11, 12, 13, 14} OBVIOUS
  <2>7. \A i \in 15 .. 22 : i \in {15, 16, 17, 18, 19, 20, 21, 22} OBVIOUS
  <2>8. \A i \in 1 .. 7 : P(i) BY <2>1, <2>5, Zenon
  <2>9. \A i \in 8 .. 14 : P(i) BY <2>2, <2>6, Zenon
  <2>10. \A i \in 15 .. 22 : P(i) BY <2>3, <2>7, Zenon
  <2>11. \A i \in 1 .. Len(t) : P(i) BY <1>15, <2>4, <2>8, <2>9, <2>10
  <2> QED BY <2>11 DEF P
<1>27. t = k
  <2>1. t \in Seq(Nat) /\ Len(t) = Len(k) BY <1>1, <1>15, <1>25 DEF t
  <2> QED BY <1>25, <1>26, <2>1, SeqEqual
<1> QED BY <1>27 DEF t, k

-----------------------------------------------------------------------------
(* encode_message and the printer: what of a message is in the bytes.      *)

\* The order in which fields are added.
Rank == [version |-> 1, data |-> 2, type |-> 3, message |-> 4, valve_no |-> 5]
Rising(s) == \A i, j \in 1 .. Len(s) : i < j => Rank[s[i]] < Rank[s[j]]
Adds(s) == {i \in 1 .. Len(s) : s[i].op = "add"}
InOrder(s, before) ==
    /\ \A i, j \in Adds(s) : i < j => Rank[s[i].name] < Rank[s[j].name]
    /\ \A i \in Adds(s), f \in before : Rank[f] < Rank[s[i].name]
\* The tasks that add these fields.
Ordered(s, W) == s \in Seq(Tasks) /\ InOrder(s, {}) /\ {s[i].name : i \in Adds(s)} = W
\* A message of no type is given up before it is printed.
RefusedFirst(s) == \E i \in 1 .. Len(s) : s[i].op = "refuse" /\ \A j \in 1 .. i : s[j].op # "print"

LEMMA RankIs ==
    /\ Rank["version"] = 1 /\ Rank["data"] = 2 /\ Rank["type"] = 3
    /\ Rank["message"] = 4 /\ Rank["valve_no"] = 5
  BY DEF Rank

LEMMA OrderedMore ==
    ASSUME NEW s, NEW W, Ordered(s, W), NEW d \in Tasks,
           d.op = "add" => \A g \in W : Rank[g] < Rank[d.name]
    PROVE  Ordered(s \o <<d>>, IF d.op = "add" THEN W \cup {d.name} ELSE W)
<1> DEFINE a == s \o <<d>>
           n == Len(s)
<1>1. /\ a \in Seq(Tasks) /\ Len(a) = n + 1 /\ a[n + 1] = d /\ \A i \in 1 .. n : a[i] = s[i]
      /\ n \in Nat
  <2>1. s \in Seq(Tasks) BY DEF Ordered
  <2> QED BY <2>1, AppendIs, SeqIs
<1> HIDE DEF a, n
<1>2. Adds(a) = Adds(s) \cup IF d.op = "add" THEN {n + 1} ELSE {}
  <2>1. 1 .. n + 1 = (1 .. n) \cup {n + 1} BY <1>1
  <2> QED BY <1>1, <2>1 DEF Adds, n
<1>3. \A i \in Adds(s) : i \in 1 .. n /\ a[i] = s[i] /\ i < n + 1 /\ s[i].name \in W
  BY <1>1 DEF Adds, Ordered, n
<1>4. \A i, j \in Adds(a) : i < j => Rank[a[i].name] < Rank[a[j].name]
  <2> SUFFICES ASSUME NEW i \in Adds(a), NEW j \in Adds(a), i < j
               PROVE  Rank[a[i].name] < Rank[a[j].name]
    OBVIOUS
  <2>1. CASE j \in Adds(s)
    <3>1. i \in Adds(s)
      <4>1. i = n + 1 \/ i \in Adds(s) BY <1>2
      <4>2. i \in Int /\ j \in Int /\ j < n + 1 BY <1>1, <1>3, <2>1 DEF Adds
      <4> QED BY <1>1, <4>1, <4>2
    <3> QED BY <1>3, <2>1, <3>1 DEF Ordered, InOrder
  <2>2. CASE j \notin Adds(s)
    <3>1. j = n + 1 /\ d.op = "add" BY <1>2, <2>2
    <3>2. i \in Adds(s)
      <4>1. i # n + 1 BY <1>1, <3>1
      <4> QED BY <1>2, <4>1
    <3>3. a[i].name \in W BY <1>3, <3>2
    <3> QED BY <1>1, <3>1, <3>3
  <2> QED BY <2>1, <2>2
<1>5. {a[i].name : i \in Adds(a)} = IF d.op = "add" THEN W \cup {d.name} ELSE W
  <2>1. {s[i].name : i \in Adds(s)} = W BY DEF Ordered
  <2>2. {a[i].name : i \in Adds(s)} = {s[i].name : i \in Adds(s)} BY <1>3
  <2> QED BY <1>1, <1>2, <2>1, <2>2
<1> QED BY <1>1, <1>4, <1>5 DEF Ordered, InOrder, a

LEMMA OrderedPair ==
    ASSUME NEW s, NEW W, Ordered(s, W), NEW f \in Fields, \A g \in W : Rank[g] < Rank[f]
    PROVE  Ordered(s \o <<Do("new", f), Do("add", f)>>, W \cup {f})
<1> DEFINE x == Do("new", f)
           y == Do("add", f)
<1>1. /\ x \in Tasks /\ y \in Tasks /\ x.op = "new" /\ y.op = "add" /\ y.name = f
  BY DEF Do, Tasks
<1> HIDE DEF x, y
<1>2. s \in Seq(Tasks) /\ <<x>> \in Seq(Tasks) /\ <<y>> \in Seq(Tasks) BY <1>1 DEF Ordered
<1>3. s \o <<x, y>> = (s \o <<x>>) \o <<y>> BY <1>1, <1>2, TwoIs, ConcatAssociative
<1>4. Ordered(s \o <<x>>, W) BY <1>1, OrderedMore
<1>5. Ordered((s \o <<x>>) \o <<y>>, W \cup {f}) BY <1>1, <1>4, OrderedMore
<1> QED BY <1>3, <1>5 DEF x, y

LEMMA OrderedFirst ==
    Ordered(<<Do("new", "version"), Do("new", "root"), Do("add", "version"),
              Do("new", "data"), Do("add", "data")>>, {"version", "data"})
<1> DEFINE s == <<Do("new", "version"), Do("new", "root"), Do("add", "version"),
                  Do("new", "data"), Do("add", "data")>>
<1>1. \A o \in {"new", "add", "refuse", "print"}, f \in Fields \cup {"root"} :
        Do(o, f) \in Tasks /\ Do(o, f).op = o /\ Do(o, f).name = f
  BY DEF Do, Tasks
<1>2. s \in Seq(Tasks) /\ Len(s) = 5 BY <1>1 DEF Fields
<1>3. /\ s[1] = Do("new", "version") /\ s[2] = Do("new", "root") /\ s[3] = Do("add", "version")
      /\ s[4] = Do("new", "data") /\ s[5] = Do("add", "data")
  OBVIOUS
<1> HIDE DEF s
<1>4. /\ s[1].op = "new" /\ s[2].op = "new" /\ s[3].op = "add" /\ s[3].name = "version"
      /\ s[4].op = "new" /\ s[5].op = "add" /\ s[5].name = "data"
  BY <1>1, <1>3 DEF Fields
<1>5. Adds(s) = {3, 5}
  <2>1. 1 .. 5 = {1, 2, 3, 4, 5} OBVIOUS
  <2> QED BY <1>2, <1>4, <2>1 DEF Adds
<1>6. {s[i].name : i \in {3, 5}} = {"version", "data"} BY <1>4
<1>7. InOrder(s, {})
  <2>1. Rank[s[3].name] < Rank[s[5].name] BY <1>4, RankIs
  <2> QED BY <1>5, <2>1 DEF InOrder
<1> QED BY <1>2, <1>5, <1>6, <1>7 DEF Ordered, s

\* The fields that a message has are added in their order.
LEMMA StepsOrdered ==
    ASSUME NEW t \in Printable \cup {"KEEP_ALIVE", "INVALID"}
    PROVE  /\ InOrder(Steps(t), {})
           /\ t # "INVALID" => Ordered(Steps(t), ToSet(RootFields) \cup ToSet(DataFields(t)))
           /\ t = "INVALID" => RefusedFirst(Steps(t))
<1> DEFINE s0 == <<Do("new", "version"), Do("new", "root"), Do("add", "version"),
                   Do("new", "data"), Do("add", "data")>>
           two(f) == <<Do("new", f), Do("add", f)>>
           print == Do("print", "root")
           refuse == Do("refuse", "root")
           s1 == s0 \o two("type")
           s2 == s1 \o two("message")
           s3 == s2 \o two("valve_no")
           W == {"version", "data", "type"}
<1>1. Ordered(s0, {"version", "data"}) /\ Len(s0) = 5 BY OrderedFirst
<1>2. \A q \in Seq(Tasks) : q \o <<>> = q OBVIOUS
<1>3. \A q, X : Ordered(q, X) => q \in Seq(Tasks) BY DEF Ordered
<1>4. Steps(t) = s0 \o (IF t = "INVALID" THEN <<refuse>> ELSE two("type"))
                    \o (IF t \in Printable THEN two("message") ELSE <<>>)
                    \o (IF t = "HARD_ERROR_VALVE" THEN two("valve_no") ELSE <<>>)
                    \o <<print>>
  BY DEF Steps
<1>5. /\ s0[1].op = "new" /\ s0[2].op = "new" /\ s0[3].op = "add" /\ s0[4].op = "new"
      /\ s0[5].op = "add"
  BY DEF Do
<1> HIDE DEF s0
<1>6. Ordered(s1, W)
  <2> DEFINE w == {"version", "data"}
  <2>1. \A g \in w : Rank[g] < Rank["type"] BY RankIs
  <2>2. w \cup {"type"} = W OBVIOUS
  <2>3. Ordered(s0, w) BY <1>1
  <2>4. "type" \in Fields BY DEF Fields
  <2> HIDE DEF w, W
  <2>5. Ordered(s1, w \cup {"type"}) BY <2>1, <2>3, <2>4, OrderedPair
  <2> QED BY <2>2, <2>5
<1> HIDE DEF s1
<1>7. Ordered(s2, W \cup {"message"})
  <2>1. \A g \in W : Rank[g] < Rank["message"] BY RankIs
  <2> QED BY <1>6, <2>1, OrderedPair DEF Fields
<1> HIDE DEF s2
<1>8. Ordered(s3, (W \cup {"message"}) \cup {"valve_no"})
  <2>1. \A g \in W \cup {"message"} : Rank[g] < Rank["valve_no"] BY RankIs
  <2> QED BY <1>7, <2>1, OrderedPair DEF Fields
<1> HIDE DEF s3
<1>9. print \in Tasks /\ print.op = "print" /\ refuse \in Tasks /\ refuse.op = "refuse"
  BY DEF Do, Tasks
<1> HIDE DEF print, refuse
<1>10. \A q, X : Ordered(q, X) => Ordered(q \o <<print>>, X)
  <2> SUFFICES ASSUME NEW q, NEW X, Ordered(q, X) PROVE Ordered(q \o <<print>>, X) OBVIOUS
  <2> QED BY <1>9, OrderedMore
<1>11. ToSet(RootFields) = W
  <2>1. RootFields \in Seq(Fields) /\ DOMAIN RootFields = {1, 2, 3} BY DEF RootFields, Fields
  <2> QED BY <2>1, RootFieldsAre DEF ToSet
<1>more. \A s \in Seq(Tasks), d \in Tasks :
          /\ s \o <<d>> \in Seq(Tasks) /\ Len(s \o <<d>>) = Len(s) + 1
          /\ (s \o <<d>>)[Len(s) + 1] = d
          /\ \A i \in 1 .. Len(s) : (s \o <<d>>)[i] = s[i]
  BY AppendIs
<1>12. CASE t = "INVALID"
  <2> DEFINE q == s0 \o <<refuse>>
             all == q \o <<print>>
  <2>1. q \in Seq(Tasks) /\ Len(q) = 6 /\ q[6] = refuse /\ \A i \in 1 .. 5 : q[i] = s0[i]
    <3>1. s0 \in Seq(Tasks) /\ 5 + 1 = 6 /\ Len(s0) = 5 BY <1>1, <1>3
    <3>2. /\ q \in Seq(Tasks) /\ Len(q) = Len(s0) + 1 /\ q[Len(s0) + 1] = refuse
          /\ \A i \in 1 .. Len(s0) : q[i] = s0[i]
      <4>1. s0 \in Seq(Tasks) /\ refuse \in Tasks BY <1>9, <3>1
      <4> QED BY <4>1, <1>more
    <3> QED BY <3>1, <3>2
  <2>2. Ordered(q, {"version", "data"}) BY <1>1, <1>9, OrderedMore
  <2>3. Steps(t) = ((q \o <<>>) \o <<>>) \o <<print>> BY <1>4, <1>12 DEF Printable
  <2> HIDE DEF q
  <2>4. Steps(t) = all BY <1>2, <2>1, <2>3
  <2>5. Len(all) = 7 /\ \A i \in 1 .. 6 : all[i] = q[i]
    <3>1. 6 + 1 = 7 /\ Len(q) = 6 BY <2>1
    <3>2. Len(all) = Len(q) + 1 /\ \A i \in 1 .. Len(q) : all[i] = q[i]
      <4>1. q \in Seq(Tasks) /\ print \in Tasks BY <1>9, <2>1
      <4> QED BY <4>1, <1>more
    <3> QED BY <3>1, <3>2
  <2>6. Ordered(all, {"version", "data"}) BY <1>10, <2>2
  <2> HIDE DEF all
  <2>7. RefusedFirst(all)
    <3>1. 6 \in 1 .. Len(all) /\ all[6].op = "refuse" BY <1>9, <2>1, <2>5
    <3>2. \A j \in 1 .. 6 : j = 6 \/ j = 1 \/ j = 2 \/ j = 3 \/ j = 4 \/ j = 5 OBVIOUS
    <3>3. \A j \in 1 .. 5 : all[j] = s0[j] BY <2>1, <2>5
    <3>4. \A j \in 1 .. 6 : all[j].op # "print" BY <1>5, <3>1, <3>2, <3>3
    <3> QED BY <3>1, <3>4 DEF RefusedFirst
  <2> QED BY <1>12, <2>4, <2>6, <2>7 DEF Ordered
<1>13. CASE t = "KEEP_ALIVE"
  <2>1. Steps(t) = ((s1 \o <<>>) \o <<>>) \o <<print>> BY <1>4, <1>13 DEF Printable, s1
  <2>2. Steps(t) = s1 \o <<print>> BY <1>2, <1>3, <1>6, <2>1
  <2>3. ToSet(RootFields) \cup ToSet(DataFields(t)) = W
    <3>1. DataFields(t) = <<>> /\ ToSet(<<>>) = {} BY <1>13, DataFieldsAre DEF ToSet
    <3> QED BY <1>11, <3>1
  <2>4. Ordered(Steps(t), W) BY <1>6, <1>10, <2>2
  <2> QED BY <1>13, <2>3, <2>4 DEF Ordered
<1>14. CASE t \in {"SOFT_ERROR", "HARD_ERROR_OTHER"}
  <2>1. Steps(t) = (s2 \o <<>>) \o <<print>> BY <1>4, <1>14 DEF Printable, s1, s2
  <2>2. Steps(t) = s2 \o <<print>> BY <1>2, <1>3, <1>7, <2>1
  <2>3. ToSet(RootFields) \cup ToSet(DataFields(t)) = W \cup {"message"}
    <3>1. DataFields(t) = <<"message">> BY <1>14, DataFieldsAre
    <3>2. ToSet(<<"message">>) = {"message"} BY DEF ToSet
    <3> QED BY <1>11, <3>1, <3>2
  <2>4. Ordered(Steps(t), W \cup {"message"}) BY <1>7, <1>10, <2>2
  <2> QED BY <1>14, <2>3, <2>4 DEF Ordered
<1>15. CASE t = "HARD_ERROR_VALVE"
  <2>1. Steps(t) = s3 \o <<print>> BY <1>4, <1>15 DEF Printable, s1, s2, s3
  <2>2. ToSet(RootFields) \cup ToSet(DataFields(t)) = (W \cup {"message"}) \cup {"valve_no"}
    <3>1. DataFields(t) = <<"message", "valve_no">> BY <1>15, DataFieldsAre
    <3>2. ToSet(<<"message", "valve_no">>) = {"message", "valve_no"} BY DEF ToSet
    <3> QED BY <1>11, <3>1, <3>2
  <2>3. Ordered(Steps(t), (W \cup {"message"}) \cup {"valve_no"}) BY <1>8, <1>10, <2>1
  <2> QED BY <1>15, <2>2, <2>3 DEF Ordered
<1> QED BY <1>12, <1>13, <1>14, <1>15 DEF Printable

\* What is printed of the items that there are.
Body == Bytes(print_object(kids.root, [f \in ToSet(kids.root) |-> print_value(f)]))
KidsRise == Rising(kids["root"]) /\ Rising(kids["data"])
Before == ToSet(kids["root"]) \cup ToSet(kids["data"])
OutBuild == Building => /\ out = <<>> /\ InOrder(todo, Before)
                        /\ msg.type = "INVALID" => RefusedFirst(todo)
OutPrint == Printing => out \o Bytes(SubSeq(todo, 1, Len(todo) - 1)) = Body
OutIdle == todo = <<>> => out = <<>> \/ out = Body
OutMsg == /\ todo # <<>> \/ out # <<>> => msg \in Messages
          /\ Printing \/ (todo = <<>> /\ out # <<>>) => msg.type # "INVALID"
EncOut == KidsRise /\ OutBuild /\ OutPrint /\ OutIdle /\ OutMsg

LEMMA BodySame == ASSUME kids' = kids, msg' = msg PROVE Body' = Body
<1>1. \A f : Scalar(f)' = Scalar(f) BY DEF Scalar
<1>2. \A f : print_value(f)' = print_value(f) BY <1>1 DEF print_value
<1> QED BY <1>2 DEF Body

LEMMA RisingEmpty == Rising(<<>>)
  BY DEF Rising

LEMMA AbandonOut == ASSUME EncOut, NEW freed, Abandon(freed) PROVE EncOut'
<1>1. todo' = <<>> /\ out' = <<>> /\ kids' = kids /\ msg' = msg BY DEF Abandon
<1>2. ~ Building' /\ ~ Printing' BY <1>1 DEF Building, Printing
<1>3. KidsRise' BY <1>1 DEF EncOut, KidsRise
<1> QED BY <1>1, <1>2, <1>3 DEF EncOut, OutBuild, OutPrint, OutIdle, OutMsg

\* A task of encode_message is done.
LEMMA TailOut ==
    ASSUME EncInv, EncOut, Building, todo' = Tail(todo), msg' = msg, out' = out, KidsRise',
           todo[1].op \in {"new", "add"},
           Before' \subseteq Before \cup IF todo[1].op = "add" THEN {todo[1].name} ELSE {}
    PROVE  EncOut'
<1>1. /\ Building' /\ ~ Printing' /\ todo' # <<>> /\ Len(todo') = Len(todo) - 1
      /\ \A i \in 1 .. Len(todo') : todo'[i] = todo[i + 1]
  BY BuildTail
<1>2. Len(todo) \in Nat /\ Len(todo) >= 1 /\ todo # <<>>
  <2>1. todo \in Seq(Tasks) /\ todo # <<>> BY DEF Building
  <2> QED BY <2>1, TailIs
<1>3. \A i \in Adds(todo') : i + 1 \in Adds(todo) /\ todo'[i] = todo[i + 1] /\ i \in Nat /\ i >= 1
  <2>1. \A i \in 1 .. Len(todo') : i + 1 \in 1 .. Len(todo) /\ i \in Nat /\ i >= 1 BY <1>1, <1>2
  <2> QED BY <1>1, <2>1 DEF Adds
<1>4. InOrder(todo, Before) BY DEF EncOut, OutBuild
<1>5. InOrder(todo', Before')
  <2>1. \A i, j \in Adds(todo') : i < j => Rank[todo'[i].name] < Rank[todo'[j].name]
    <3>1. \A i, j \in Adds(todo') : i < j => i + 1 < j + 1 BY <1>3
    <3> QED BY <1>3, <1>4, <3>1 DEF InOrder
  <2>2. ASSUME NEW i \in Adds(todo'), NEW f \in Before' PROVE Rank[f] < Rank[todo'[i].name]
    <3>1. CASE f \in Before BY <1>3, <1>4, <3>1 DEF InOrder
    <3>2. CASE f \notin Before
      <4>1. f = todo[1].name /\ todo[1].op = "add" BY <3>2
      <4>2. 1 \in Adds(todo) /\ 1 < i + 1 BY <1>2, <1>3, <4>1 DEF Adds
      <4> QED BY <1>3, <1>4, <4>1, <4>2 DEF InOrder
    <3> QED BY <3>1, <3>2
  <2> QED BY <2>1, <2>2 DEF InOrder
<1>6. ASSUME msg'.type = "INVALID" PROVE RefusedFirst(todo')
  <2>1. PICK i \in 1 .. Len(todo) : todo[i].op = "refuse" /\ \A j \in 1 .. i : todo[j].op # "print"
    BY <1>6 DEF EncOut, OutBuild, RefusedFirst
  <2>2. i # 1 BY <2>1
  <2>3. /\ i - 1 \in 1 .. Len(todo') /\ (i - 1) + 1 = i
        /\ \A j \in 1 .. i - 1 : j \in 1 .. Len(todo') /\ j + 1 \in 1 .. i
    BY <1>1, <1>2, <2>2
  <2>4. todo'[i - 1].op = "refuse" BY <1>1, <2>1, <2>3
  <2>5. \A j \in 1 .. i - 1 : todo'[j].op # "print" BY <1>1, <2>1, <2>3
  <2> QED BY <2>3, <2>4, <2>5 DEF RefusedFirst
<1>7. out' = <<>> BY DEF EncOut, OutBuild
<1>8. msg' \in Messages BY <1>2 DEF EncOut, OutMsg
<1> QED BY <1>1, <1>5, <1>6, <1>7, <1>8 DEF EncOut, OutBuild, OutPrint, OutIdle, OutMsg

LEMMA SendOut == ASSUME EncInv, EncOut, send_message PROVE EncOut'
<1>1. PICK m \in Messages : encode_message(m) BY DEF send_message
<1>2. /\ msg' = m /\ todo' = Steps(m.type) /\ out' = <<>>
      /\ kids' = [root |-> <<>>, data |-> <<>>]
  BY <1>1 DEF encode_message
<1>3. m.type \in Printable \cup {"KEEP_ALIVE", "INVALID"} BY EncoderAssumption
<1>4. kids'["root"] = <<>> /\ kids'["data"] = <<>> BY <1>2, NoKids
<1>5. KidsRise' BY <1>4, RisingEmpty DEF KidsRise
<1>6. Before' = {}
  <2>1. ToSet(<<>>) = {} BY DEF ToSet
  <2> QED BY <1>4, <2>1 DEF Before
<1>7. InOrder(todo', {}) /\ (m.type = "INVALID" => RefusedFirst(todo')) BY <1>2, <1>3, StepsOrdered
<1>8. ~ Printing' /\ todo' # <<>>
  <2>1. todo' \in Seq(Tasks) /\ todo' # <<>> BY <1>2, <1>3, StepsBuild
  <2>2. todo'[1] \in Tasks BY <2>1, TailIs
  <2>3. Final \notin Tasks /\ \A q \in Pieces : q \notin Tasks BY DEF Final, Do, Tasks, Pieces
  <2>4. Printing' => todo'[1] \in Pieces \cup {Final}
    <3>1. Printing' => todo' \in Seq(Pieces \cup {Final}) /\ todo' # <<>> BY DEF Printing
    <3> QED BY <3>1, TailIs
  <2> QED BY <2>1, <2>2, <2>3, <2>4
<1> QED BY <1>2, <1>5, <1>6, <1>7, <1>8 DEF EncOut, OutBuild, OutPrint, OutIdle, OutMsg

LEMMA BuildOut ==
    ASSUME EncInv, EncOut, Create \/ Add \/ AddIsIgnored
    PROVE  EncOut'
<1>1. /\ todo # <<>> /\ Head(todo).op \in {"new", "add"} /\ todo' = Tail(todo)
      /\ msg' = msg /\ out' = out
  BY DEF Create, Add, AddIsIgnored, Pending
<1>2. Building /\ Head(todo) = todo[1] BY <1>1, Kinds DEF EncInv
<1>3. CASE kids' = kids
  <2>1. KidsRise' /\ Before' = Before BY <1>3 DEF EncOut, KidsRise, Before
  <2> QED BY <1>1, <1>2, <2>1, TailOut
<1>4. CASE Add
  <2> DEFINE f == todo[1].name
             p == Parent(f)
  <2>1. kids' = [kids EXCEPT ![p] = Append(@, f)] /\ todo[1].op = "add"
    BY <1>2, <1>4 DEF Add, Field, Pending
  <2>2. f \in Fields
    <3>1. todo \in Seq(Tasks) /\ todo # <<>> BY <1>2 DEF Building
    <3>2. 1 \in 1 .. Len(todo) /\ todo[1] \in Tasks BY <3>1, TailIs
    <3>3. todo[1].name # "root" BY <1>2, <2>1, <3>2 DEF Building
    <3> QED BY <3>2, <3>3 DEF Tasks
  <2>3. p \in {"root", "data"} /\ kids \in [{"root", "data"} -> Seq(Fields)]
    BY DEF Parent, EncInv, KidsOK
  <2>4. \A g \in Before : Rank[g] < Rank[f]
    <3>1. todo \in Seq(Tasks) /\ todo # <<>> BY <1>2 DEF Building
    <3>2. 1 \in Adds(todo) BY <2>1, <3>1, TailIs DEF Adds
    <3> QED BY <1>2, <3>2 DEF EncOut, OutBuild, InOrder
  <2> HIDE DEF p, f
  <2>5. \A q \in {"root", "data"} :
          /\ kids[q] \in Seq(Fields)
          /\ kids'[q] = IF q = p THEN Append(kids[q], f) ELSE kids[q]
    BY <2>1, <2>3
  <2>6. \A q \in {"root", "data"} :
          /\ ToSet(kids'[q]) \subseteq ToSet(kids[q]) \cup {f}
          /\ Rising(kids'[q])
    <3> SUFFICES ASSUME NEW q \in {"root", "data"}
                 PROVE  ToSet(kids'[q]) \subseteq ToSet(kids[q]) \cup {f} /\ Rising(kids'[q])
      OBVIOUS
    <3> DEFINE s == kids[q]
               a == Append(s, f)
    <3>1. s \in Seq(Fields) BY <2>5
    <3>2. \A g \in ToSet(s) : Rank[g] < Rank[f] BY <2>4 DEF Before
    <3>3. Rising(s) BY DEF EncOut, KidsRise
    <3>4. kids'[q] = s \/ kids'[q] = a BY <2>5
    <3> HIDE DEF s
    <3>5. /\ Len(s) \in Nat /\ Len(a) = Len(s) + 1 /\ a[Len(s) + 1] = f
          /\ \A i \in 1 .. Len(s) : a[i] = s[i] /\ s[i] \in ToSet(s)
          /\ ToSet(a) = ToSet(s) \cup {f}
      <4>1. \A i \in 1 .. Len(s) : s[i] \in ToSet(s) BY <3>1 DEF ToSet
      <4>2. ToSet(a) = ToSet(s) \cup {f} BY <2>2, <3>1, ToSetAppend
      <4> QED BY <2>2, <3>1, <4>1, <4>2
    <3> HIDE DEF a
    <3>6. Rising(a)
      <4> SUFFICES ASSUME NEW i \in 1 .. Len(a), NEW j \in 1 .. Len(a), i < j
                   PROVE  Rank[a[i]] < Rank[a[j]]
        BY DEF Rising
      <4>1. i \in 1 .. Len(s) BY <3>5
      <4>2. CASE j = Len(s) + 1 BY <3>2, <3>5, <4>1, <4>2
      <4>3. CASE j # Len(s) + 1
        <5>1. j \in 1 .. Len(s) BY <3>5, <4>3
        <5> QED BY <3>3, <3>5, <4>1, <5>1 DEF Rising
      <4> QED BY <4>2, <4>3
    <3> QED BY <3>3, <3>4, <3>5, <3>6 DEF s
  <2>7. KidsRise' BY <2>6 DEF KidsRise
  <2>8. Before' \subseteq Before \cup {f} BY <2>6 DEF Before
  <2> QED BY <1>1, <1>2, <2>1, <2>7, <2>8, TailOut DEF f
<1> QED BY <1>3, <1>4 DEF Create, AddIsIgnored

LEMMA BeginPrintOut == ASSUME EncInv, EncOut, BeginPrint PROVE EncOut'
<1> DEFINE value == [f \in ToSet(kids.root) |-> print_value(f)]
           t == print_object(kids.root, value)
           q == t \o <<Final>>
<1>1. /\ todo # <<>> /\ Head(todo).op = "print" /\ todo' = q
      /\ msg' = msg /\ kids' = kids /\ out' = out
  BY DEF BeginPrint, Pending, Final
<1>2. Building /\ todo[1].op = "print" BY <1>1, Kinds DEF EncInv
<1>3. t \in Seq(Pieces)
  <2>1. \A f \in ToSet(kids.root) : value[f] \in Seq(Pieces) BY PrintValueIs DEF EncInv
  <2>2. kids.root \in Seq(Fields) BY DEF EncInv, KidsOK
  <2> HIDE DEF value
  <2> QED BY <2>1, <2>2, ObjectIs
<1>4. Bytes(t) = Body BY DEF Body
<1> HIDE DEF t
<1>5. q \in Seq(Pieces \cup {Final}) /\ Len(q) = Len(t) + 1 /\ SubSeq(q, 1, Len(q) - 1) = t
  <2>1. Pieces \subseteq Pieces \cup {Final} OBVIOUS
  <2>2. t \in Seq(Pieces \cup {Final}) BY <1>3, <2>1
  <2> DEFINE B == Pieces \cup {Final}
  <2>3. Final \in B /\ t \in Seq(B) BY <2>2
  <2> HIDE DEF Final, B
  <2>4. q \in Seq(B) /\ Len(q) = Len(t) + 1 /\ \A i \in 1 .. Len(t) : q[i] = t[i]
    BY <2>3, AppendIs
  <2>5. Len(t) \in Nat /\ (Len(t) + 1) - 1 = Len(t) BY <2>3
  <2> DEFINE u == SubSeq(q, 1, Len(t))
  <2>6. u \in Seq(B) /\ Len(u) = Len(t) /\ \A i \in 1 .. Len(t) : u[i] = q[i]
    BY <2>4, <2>5, LastIs
  <2> HIDE DEF u
  <2>7. u = t BY <2>3, <2>4, <2>6, SeqEqual
  <2> QED BY <2>4, <2>5, <2>7 DEF B, u
<1>6. todo' # <<>>
  <2>1. Len(<<>>) = 0 /\ Len(q) # 0 BY <1>3, <1>5
  <2> QED BY <1>1, <2>1, Zenon
<1>7. Body' = Body BY <1>1, BodySame
<1>8. OutPrint'
  <2>1. out = <<>> BY <1>2 DEF EncOut, OutBuild
  <2>2. Bytes(t) \in Seq(Nat) BY <1>3, BytesTyped
  <2>3. <<>> \o Bytes(t) = Bytes(t) BY <2>2
  <2> HIDE DEF q
  <2> QED BY <1>1, <1>4, <1>5, <1>7, <2>1, <2>3 DEF OutPrint
<1>9. ~ Building'
  <2>1. q[Len(q)] = Final
    <3> DEFINE B == Pieces \cup {Final}
    <3>1. Final \in B /\ t \in Seq(B)
      <4>1. Pieces \subseteq B OBVIOUS
      <4> QED BY <1>3, <4>1
    <3> HIDE DEF Final, B
    <3> QED BY <1>5, <3>1, AppendIs
  <2> HIDE DEF q
  <2>2. Building' => todo'[Len(todo')].op = "print" BY DEF Building
  <2> QED BY <1>1, <2>1, <2>2 DEF Final, Do
<1>10. msg.type # "INVALID"
  <2>1. SUFFICES ASSUME msg.type = "INVALID" PROVE FALSE OBVIOUS
  <2>2. PICK i \in 1 .. Len(todo) : todo[i].op = "refuse" /\ \A j \in 1 .. i : todo[j].op # "print"
    BY <1>2, <2>1 DEF EncOut, OutBuild, RefusedFirst
  <2>3. 1 \in 1 .. i OBVIOUS
  <2> QED BY <1>2, <2>2, <2>3
<1>11. msg \in Messages BY <1>1 DEF EncOut, OutMsg
<1>12. KidsRise' BY <1>1 DEF EncOut, KidsRise
<1> HIDE DEF q
<1> QED BY <1>1, <1>6, <1>8, <1>9, <1>10, <1>11, <1>12 DEF EncOut, OutBuild, OutIdle, OutMsg

\* The bytes of a piece are printed, those behind it not yet.
LEMMA PrintPieceOut == ASSUME EncInv, EncOut, PrintPiece PROVE EncOut'
<1> DEFINE p == todo[1]
           n == Len(todo) - 1
           r == SubSeq(todo, 1, n)
           s == SubSeq(todo', 1, n - 1)
           B == Pieces \cup {Final}
<1>1. /\ todo # <<>> /\ Head(todo).op = "piece" /\ todo' = Tail(todo)
      /\ out' = out \o Head(todo).bytes /\ msg' = msg /\ kids' = kids
  BY DEF PrintPiece, Pending
<1>2. Printing /\ Head(todo) = p /\ p \in Pieces BY <1>1, Kinds DEF EncInv
<1>3. todo \in Seq(B) /\ todo[Len(todo)] = Final /\ \A i \in 1 .. n : todo[i] \in Pieces
  BY <1>2 DEF Printing
<1> HIDE DEF B
<1>4. /\ Len(todo) \in Nat /\ Len(todo) >= 1 /\ todo' \in Seq(B) /\ Len(todo') = n
      /\ \A i \in 1 .. n : todo'[i] = todo[i + 1]
  BY <1>1, <1>3, TailIs
<1>5. n \in Nat /\ n # 0
  <2>1. Final \notin Pieces BY DEF Final, Do, Pieces
  <2>2. Len(todo) # 1 BY <1>2, <1>3, <2>1
  <2> QED BY <1>4, <2>2
<1>6. r \in Seq(Pieces) /\ Len(r) = n /\ \A i \in 1 .. n : r[i] = todo[i]
  <2>1. Len(todo) = n + 1 BY <1>4
  <2>2. r \in Seq(B) /\ Len(r) = n /\ \A i \in 1 .. n : r[i] = todo[i] BY <1>3, <1>5, <2>1, LastIs
  <2> HIDE DEF r, n
  <2>3. \A i \in 1 .. n : r[i] \in Pieces BY <1>3, <2>2
  <2> QED BY <2>2, <2>3
<1>7. s \in Seq(Pieces) /\ Len(s) = n - 1 /\ \A i \in 1 .. n - 1 : s[i] = r[i + 1]
  <2>1. n - 1 \in Nat /\ Len(todo') = (n - 1) + 1 BY <1>4, <1>5
  <2>2. s \in Seq(B) /\ Len(s) = n - 1 /\ \A i \in 1 .. n - 1 : s[i] = todo'[i]
    <3> DEFINE k == n - 1
    <3>1. k \in Nat /\ Len(todo') = k + 1 /\ todo' \in Seq(B) BY <1>4, <2>1
    <3> HIDE DEF k
    <3>2. /\ SubSeq(todo', 1, k) \in Seq(B) /\ Len(SubSeq(todo', 1, k)) = k
          /\ \A i \in 1 .. k : SubSeq(todo', 1, k)[i] = todo'[i]
      BY <3>1, LastIs
    <3> QED BY <3>2 DEF k
  <2> HIDE DEF s, n, r
  <2>3. \A i \in 1 .. n - 1 : i \in 1 .. n /\ i + 1 \in 1 .. n BY <1>5
  <2>4. \A i \in 1 .. n - 1 : s[i] = r[i + 1] /\ s[i] \in Pieces BY <1>3, <1>4, <1>6, <2>2, <2>3
  <2> QED BY <2>2, <2>4
<1> HIDE DEF n
<1>8. r = <<p>> \o s
  <2> HIDE DEF r, s
  <2>1. r[1] = p BY <1>5, <1>6
  <2> DEFINE m == <<p>>
             c == m \o s
  <2>2. m \in Seq(Pieces) /\ Len(m) = 1 /\ m[1] = p BY <1>2
  <2> HIDE DEF m, p
  <2>3. \A x, y \in Seq(Pieces) :
          /\ x \o y \in Seq(Pieces) /\ Len(x \o y) = Len(x) + Len(y)
          /\ \A i \in 1 .. Len(x) + Len(y) :
               (x \o y)[i] = IF i <= Len(x) THEN x[i] ELSE y[i - Len(x)]
    OBVIOUS
  <2>4. 1 + (n - 1) = n /\ s \in Seq(Pieces) /\ Len(s) = n - 1 BY <1>5, <1>7
  <2>5. /\ c \in Seq(Pieces) /\ Len(c) = n
        /\ \A i \in 1 .. n : c[i] = IF i <= 1 THEN m[i] ELSE s[i - 1]
    <3>1. /\ c \in Seq(Pieces) /\ Len(c) = Len(m) + Len(s)
          /\ \A i \in 1 .. Len(m) + Len(s) :
               c[i] = IF i <= Len(m) THEN m[i] ELSE s[i - Len(m)]
      BY <2>2, <2>3, <2>4
    <3>2. Len(m) = 1 /\ Len(m) + Len(s) = n BY <2>2, <2>4
    <3> HIDE DEF c
    <3> QED BY <3>1, <3>2
  <2>6. \A i \in 1 .. n : c[i] = r[i]
    <3> SUFFICES ASSUME NEW i \in 1 .. n PROVE c[i] = r[i] OBVIOUS
    <3>1. CASE i = 1 BY <2>1, <2>2, <2>5, <3>1
    <3>2. CASE i # 1
      <4>1. i - 1 \in 1 .. n - 1 /\ (i - 1) + 1 = i BY <1>5, <3>2
      <4>2. s[i - 1] = r[i] BY <1>7, <4>1
      <4> QED BY <2>5, <3>2, <4>2
    <3> QED BY <3>1, <3>2
  <2> HIDE DEF c
  <2>7. r = c BY <1>6, <2>5, <2>6, SeqEqual
  <2> QED BY <2>7 DEF c, m
<1>9. Bytes(r) = p.bytes \o Bytes(s)
  <2> DEFINE m == <<p>>
  <2>1. m \in Seq(Pieces) /\ Bytes(m) = p.bytes BY <1>2, BytesOne
  <2>2. r = m \o s BY <1>8
  <2> HIDE DEF m, r, s, p
  <2> QED BY <1>7, <2>1, <2>2, BytesConcat
<1>10. out' \o Bytes(s) = Body
  <2>1. out \in Seq(Nat) /\ p.bytes \in Seq(Nat) BY <1>2 DEF EncInv, EncTypes, Pieces
  <2>2. Bytes(s) \in Seq(Nat) BY <1>7, BytesTyped
  <2>3. out \o Bytes(r) = Body BY <1>2 DEF EncOut, OutPrint, n
  <2> DEFINE a == p.bytes
             b == Bytes(s)
  <2>4. a \in Seq(Nat) /\ b \in Seq(Nat) /\ out' = out \o a /\ out \o (a \o b) = Body
    BY <1>1, <1>2, <1>9, <2>1, <2>2, <2>3
  <2> HIDE DEF a, b
  <2>6. \A x, y, z \in Seq(Nat) : (x \o y) \o z = x \o (y \o z) BY ConcatAssociative, SMTT(60)
  <2>5. (out \o a) \o b = out \o (a \o b) BY <2>1, <2>4, <2>6
  <2> QED BY <2>4, <2>5 DEF b
<1>11. Body' = Body BY <1>1, BodySame
<1>12. OutPrint'
  <2>1. Len(todo') - 1 = n - 1 BY <1>4
  <2> QED BY <1>10, <1>11, <2>1 DEF OutPrint
<1>13. todo' # <<>>
  <2>1. Len(<<>>) = 0 /\ Len(todo') # 0 BY <1>4, <1>5
  <2> QED BY <2>1, Zenon
<1>14. ~ Building'
  <2>1. todo'[Len(todo')] = Final
    <3>1. n \in 1 .. n /\ n + 1 = Len(todo) BY <1>4, <1>5 DEF n
    <3> QED BY <1>3, <1>4, <3>1
  <2>2. Building' => todo'[Len(todo')].op = "print" BY DEF Building
  <2> QED BY <2>1, <2>2 DEF Final, Do
<1>15. msg.type # "INVALID" /\ msg \in Messages BY <1>1, <1>2 DEF EncOut, OutMsg
<1>16. KidsRise' BY <1>1 DEF EncOut, KidsRise
<1> HIDE DEF s, r, p
<1> QED BY <1>1, <1>12, <1>13, <1>14, <1>15, <1>16 DEF EncOut, OutBuild, OutIdle, OutMsg

LEMMA ShrinkOut == ASSUME EncInv, EncOut, Shrink PROVE EncOut'
<1>1. /\ todo # <<>> /\ Head(todo).op = "shrink" /\ todo' = Tail(todo)
      /\ out' = out /\ msg' = msg /\ kids' = kids
  BY DEF Shrink, Pending
<1>2. Printing /\ todo = <<Final>> BY <1>1, Kinds DEF EncInv
<1>3. todo' = <<>>
  <2>1. \A x : Tail(<<x>>) = <<>> OBVIOUS
  <2> QED BY <1>1, <1>2, <2>1, Zenon
<1>4. out = Body
  <2>1. SubSeq(todo, 1, Len(todo) - 1) = <<>>
    <3>1. \A x : Len(<<x>>) - 1 = 0 /\ SubSeq(<<x>>, 1, 0) = <<>> OBVIOUS
    <3> QED BY <1>2, <3>1, Zenon
  <2>2. out \o Bytes(<<>>) = Body BY <1>2, <2>1 DEF EncOut, OutPrint
  <2>3. out \in Seq(Nat) BY DEF EncInv, EncTypes
  <2>4. out \o <<>> = out BY <2>3
  <2> QED BY <2>2, <2>4, BytesEmpty
<1>5. Body' = Body BY <1>1, BodySame
<1>6. ~ Building' /\ ~ Printing' BY <1>3 DEF Building, Printing
<1>7. msg.type # "INVALID" /\ msg \in Messages BY <1>1, <1>2 DEF EncOut, OutMsg
<1>8. KidsRise' BY <1>1 DEF EncOut, KidsRise
<1> QED BY <1>1, <1>3, <1>4, <1>5, <1>6, <1>7, <1>8
    DEF EncOut, OutBuild, OutPrint, OutIdle, OutMsg

LEMMA Init_Out == LinkInit => EncOut
<1> SUFFICES ASSUME LinkInit PROVE EncOut OBVIOUS
<1>1. /\ msg = [type |-> "INVALID", text |-> <<>>, valve |-> 0]
      /\ todo = <<>> /\ kids = [root |-> <<>>, data |-> <<>>]
      /\ blocks = {} /\ out = <<>> /\ used = 0 /\ room = 0 /\ refused = <<>>
  BY DEF LinkInit, EncoderInit
<1>2. ~ Building /\ ~ Printing BY <1>1 DEF Building, Printing
<1>3. KidsRise BY <1>1, NoKids, RisingEmpty DEF KidsRise
<1> QED BY <1>1, <1>2, <1>3 DEF EncOut, OutBuild, OutPrint, OutIdle, OutMsg

LEMMA NextOut == EncInv /\ EncOut /\ [LinkNext]_linkVars => EncOut'
<1> SUFFICES ASSUME EncInv, EncOut, [LinkNext]_linkVars PROVE EncOut' OBVIOUS
<1>1. CASE send_message BY <1>1, SendOut
<1>2. CASE Encode
  <2>1. CASE \E freed : Abandon(freed) BY <2>1, AbandonOut
  <2>2. CreateFails \/ RefuseType \/ BeginPrintFails \/ PrintFails \/ ShrinkFails
        => \E freed : Abandon(freed)
    BY DEF CreateFails, RefuseType, BeginPrintFails, PrintFails, ShrinkFails
  <2>3. EncodeStep BY <1>2 DEF Encode
  <2> QED BY <2>1, <2>2, <2>3, BuildOut, BeginPrintOut, PrintPieceOut, ShrinkOut DEF EncodeStep
<1>3. CASE send_encoded_message
  <2>1. todo' = <<>> /\ out' = <<>> /\ kids' = kids /\ msg' = msg
    BY <1>3 DEF send_encoded_message, Free
  <2>2. ~ Building' /\ ~ Printing' BY <2>1 DEF Building, Printing
  <2>3. KidsRise' BY <2>1 DEF EncOut, KidsRise
  <2> QED BY <2>1, <2>2, <2>3 DEF EncOut, OutBuild, OutPrint, OutIdle, OutMsg
<1>4. CASE UNCHANGED encoderVars
  <2>1. todo' = todo /\ out' = out /\ kids' = kids /\ msg' = msg BY <1>4 DEF encoderVars
  <2>2. Building' = Building /\ Printing' = Printing BY <2>1 DEF Building, Printing, Follows
  <2>3. KidsRise' BY <2>1 DEF EncOut, KidsRise
  <2>4. Body' = Body /\ Before' = Before BY <2>1, BodySame DEF Before
  <2> QED BY <2>1, <2>2, <2>3, <2>4 DEF EncOut, OutBuild, OutPrint, OutIdle, OutMsg
<1>5. \/ send_keep_alive \/ Arrive \/ FetchObject \/ FetchError \/ ParseStep \/ decode_message
      \/ DeleteTree \/ UNCHANGED linkVars
      => UNCHANGED encoderVars
  BY DEF send_keep_alive, Arrive, FetchObject, FetchError, ParseStep, decode_message, DeleteTree,
         linkVars
<1> QED BY <1>1, <1>2, <1>3, <1>4, <1>5 DEF LinkNext

LEMMA RisingRoot ==
    ASSUME NEW s \in Seq(Fields), Rising(s), ToSet(s) = {"version", "data", "type"}
    PROVE  s = RootFields
<1> DEFINE n == Len(s)
<1>1. n \in Nat /\ DOMAIN s = 1 .. n /\ ToSet(s) = {s[i] : i \in 1 .. n} BY DEF ToSet
<1>2. \A f \in {"version", "data", "type"} : \E i \in 1 .. n : s[i] = f BY <1>1
<1>3. PICK a \in 1 .. n : s[a] = "version" BY <1>2
<1>4. PICK b \in 1 .. n : s[b] = "data" BY <1>2
<1>5. PICK c \in 1 .. n : s[c] = "type" BY <1>2
<1> HIDE DEF n
<1>6. \A i, j \in 1 .. n : i < j => Rank[s[i]] < Rank[s[j]] BY DEF Rising, n
<1>7. \A i, j \in 1 .. n : s[i] = s[j] => i = j
  <2> SUFFICES ASSUME NEW i \in 1 .. n, NEW j \in 1 .. n, s[i] = s[j], i < j \/ j < i PROVE FALSE
    BY <1>1
  <2>1. Rank[s[i]] < Rank[s[i]] BY <1>6
  <2>2. s[i] \in {"version", "data", "type"} BY <1>1
  <2>3. Rank[s[i]] \in Nat BY <2>2, RankIs
  <2> QED BY <2>1, <2>3
<1>8. a < b /\ b < c
  <2>1. Rank[s[a]] = 1 /\ Rank[s[b]] = 2 /\ Rank[s[c]] = 3 BY <1>3, <1>4, <1>5, RankIs
  <2>2. ~ (b < a) /\ ~ (c < b)
    <3>1. b < a => Rank[s[b]] < Rank[s[a]] BY <1>6
    <3>2. c < b => Rank[s[c]] < Rank[s[b]] BY <1>6
    <3> QED BY <2>1, <3>1, <3>2
  <2>3. a # b /\ b # c BY <1>3, <1>4, <1>5
  <2> QED BY <1>1, <2>2, <2>3
<1>9. \A i \in 1 .. n : i \in {a, b, c}
  <2> SUFFICES ASSUME NEW i \in 1 .. n PROVE i \in {a, b, c} OBVIOUS
  <2>1. s[i] \in {"version", "data", "type"} BY <1>1
  <2> QED BY <1>3, <1>4, <1>5, <1>7, <2>1
<1>10. a = 1 /\ b = 2 /\ c = 3 /\ n = 3
  <2>1. 1 \in 1 .. n BY <1>1
  <2>2. a = 1 BY <1>1, <1>8, <1>9, <2>1
  <2>3. 2 \in 1 .. n BY <1>1, <1>8, <2>2
  <2>4. b = 2 BY <1>1, <1>8, <1>9, <2>2, <2>3
  <2>5. 3 \in 1 .. n BY <1>1, <1>8, <2>4
  <2>6. c = 3 BY <1>1, <1>8, <1>9, <2>2, <2>4, <2>5
  <2>7. n \in 1 .. n BY <1>1, <2>1
  <2> QED BY <1>9, <2>2, <2>4, <2>5, <2>6, <2>7
<1>11. \A i \in 1 .. 3 : s[i] = RootFields[i]
  <2>1. \A i \in 1 .. 3 : i = 1 \/ i = 2 \/ i = 3 OBVIOUS
  <2> QED BY <1>3, <1>4, <1>5, <1>10, <2>1, RootFieldsAre
<1> QED BY <1>10, <1>11, RootFieldsAre, SeqEqual DEF n

LEMMA RisingData ==
    ASSUME NEW s \in Seq(Fields), Rising(s), NEW t, ToSet(s) = ToSet(DataFields(t))
    PROVE  s = DataFields(t)
<1> DEFINE n == Len(s)
<1>1. n \in Nat /\ DOMAIN s = 1 .. n /\ ToSet(s) = {s[i] : i \in 1 .. n} BY DEF ToSet
<1>2. DataFields(t) \in Seq(Fields) BY DataFieldsAre
<1> HIDE DEF n
<1>3. \A i, j \in 1 .. n : i < j => Rank[s[i]] < Rank[s[j]] BY DEF Rising, n
<1>4. CASE t = "KEEP_ALIVE"
  <2>1. DataFields(t) = <<>> /\ ToSet(<<>>) = {} BY <1>4, DataFieldsAre DEF ToSet
  <2>2. n = 0
    <3>1. 1 \notin 1 .. n BY <1>1, <2>1
    <3> QED BY <1>1, <3>1
  <2> QED BY <2>1, <2>2 DEF n
<1>5. CASE t = "HARD_ERROR_VALVE"
  <2>1. DataFields(t) = <<"message", "valve_no">> BY <1>5, DataFieldsAre
  <2>2. ToSet(<<"message", "valve_no">>) = {"message", "valve_no"} BY DEF ToSet
  <2>3. ToSet(s) = {"message", "valve_no"} BY <2>1, <2>2
  <2>4. PICK a \in 1 .. n : s[a] = "message" BY <1>1, <2>3
  <2>5. PICK b \in 1 .. n : s[b] = "valve_no" BY <1>1, <2>3
  <2>6. Rank[s[a]] = 4 /\ Rank[s[b]] = 5 BY <2>4, <2>5, RankIs
  <2>7. \A i \in 1 .. n : i \in {a, b}
    <3> SUFFICES ASSUME NEW i \in 1 .. n PROVE i \in {a, b} OBVIOUS
    <3>1. CASE s[i] = "message"
      <4>1. Rank[s[i]] = 4 BY <3>1, RankIs
      <4>2. i < a => Rank[s[i]] < Rank[s[a]] BY <1>3
      <4>3. a < i => Rank[s[a]] < Rank[s[i]] BY <1>3
      <4> QED BY <1>1, <2>6, <4>1, <4>2, <4>3
    <3>2. CASE s[i] = "valve_no"
      <4>1. Rank[s[i]] = 5 BY <3>2, RankIs
      <4>2. i < b => Rank[s[i]] < Rank[s[b]] BY <1>3
      <4>3. b < i => Rank[s[b]] < Rank[s[i]] BY <1>3
      <4> QED BY <1>1, <2>6, <4>1, <4>2, <4>3
    <3> QED BY <1>1, <2>3, <3>1, <3>2
  <2>8. a < b
    <3>1. b < a => Rank[s[b]] < Rank[s[a]] BY <1>3
    <3>2. a # b BY <2>4, <2>5
    <3> QED BY <1>1, <2>6, <3>1, <3>2
  <2>9. a = 1 /\ b = 2 /\ n = 2
    <3>1. 1 \in 1 .. n BY <1>1
    <3>2. a = 1 BY <1>1, <2>7, <2>8, <3>1
    <3>3. 2 \in 1 .. n BY <1>1, <2>8, <3>2
    <3>4. b = 2 BY <1>1, <2>7, <2>8, <3>2, <3>3
    <3>5. n \in 1 .. n BY <1>1, <3>1
    <3> QED BY <2>7, <3>2, <3>3, <3>4, <3>5
  <2>10. \A i \in 1 .. 2 : s[i] = DataFields(t)[i]
    <3>1. \A i \in 1 .. 2 : i = 1 \/ i = 2 OBVIOUS
    <3> QED BY <1>5, <2>4, <2>5, <2>9, <3>1, DataFieldsAre
  <2>11. Len(DataFields(t)) = 2 BY <1>5, DataFieldsAre
  <2> QED BY <1>2, <2>9, <2>10, <2>11, SeqEqual DEF n
<1>6. CASE t \notin {"KEEP_ALIVE", "HARD_ERROR_VALVE"}
  <2>1. DataFields(t) = <<"message">> BY <1>6, DataFieldsAre
  <2>2. ToSet(<<"message">>) = {"message"} BY DEF ToSet
  <2>3. ToSet(s) = {"message"} BY <2>1, <2>2
  <2>4. PICK a \in 1 .. n : s[a] = "message" BY <1>1, <2>3
  <2>5. \A i \in 1 .. n : s[i] = "message" /\ Rank[s[i]] = 4 BY <1>1, <2>3, RankIs
  <2>6. \A i, j \in 1 .. n : ~ (i < j) BY <1>3, <2>5
  <2>7. n = 1
    <3>1. 1 \in 1 .. n /\ n \in 1 .. n BY <1>1
    <3>2. ~ (1 < n) BY <2>6, <3>1
    <3> QED BY <1>1, <3>1, <3>2
  <2>8. \A i \in 1 .. 1 : s[i] = DataFields(t)[i]
    <3>1. \A i \in 1 .. 1 : i = 1 OBVIOUS
    <3> QED BY <1>6, <2>5, <2>7, <3>1, DataFieldsAre
  <2>9. Len(DataFields(t)) = 1 BY <1>6, DataFieldsAre
  <2> QED BY <1>2, <2>7, <2>8, <2>9, SeqEqual DEF n
<1> QED BY <1>4, <1>5, <1>6

LEMMA SentSendable ==
    ASSUME NEW m \in Messages, m.type # "INVALID" PROVE Sendable(m)
<1>1. /\ m \in [type : Printable \cup {"KEEP_ALIVE", "INVALID"}, text : Seq(1..255), valve : Int]
      /\ m.valve \in IntMin .. IntMax
      /\ m.type # "HARD_ERROR_VALVE" => m.valve = 0
      /\ m.type = "KEEP_ALIVE" => m.text = <<>>
  BY EncoderAssumption, LinkAssumption
<1>2. m.type \in DOMAIN TypeName BY <1>1 DEF TypeName, Printable
<1> HIDE DEF IntMin, IntMax
<1>3. m \in [type : DOMAIN TypeName, text : Seq(1..255), valve : IntMin .. IntMax] BY <1>1, <1>2
<1> QED BY <1>1, <1>3 DEF Sendable

LEMMA ScalarPrinted ==
    ASSUME EncInv, Sendable(msg), NEW f \in {"version", "type", "message", "valve_no"}
    PROVE  Scalar(f) \in Seq(Pieces) /\ Bytes(Scalar(f)) = ScalarBytes(msg, f)
<1>1. msg.type \in DOMAIN TypeName /\ msg.text \in Seq(1..255) /\ msg.valve \in Int
  BY DEF EncInv, EncTypes, Sendable
<1>2. f \in Fields \ {"data"} BY DEF Fields
<1>3. Scalar(f) \in Seq(Pieces) BY <1>1, <1>2, ScalarIs DEF EncInv
<1>4. \A n \in Int : NumberPiece(n) \in Pieces /\ NumberPiece(n).bytes = PrintNumber(n)
  BY NumberPieceIs DEF NumberPiece, Piece
<1>5. \A s \in Seq(1..255) : StringPiece(s) \in Pieces /\ StringPiece(s).bytes = Quoted(s)
  BY QuotedTyped
<1>6. CASE f = "version"
  <2>1. DATA_FORMAT_VERSION \in Int BY DEF DATA_FORMAT_VERSION
  <2>2. Scalar(f) = <<NumberPiece(DATA_FORMAT_VERSION)>> BY <1>6 DEF Scalar
  <2>3. ScalarBytes(msg, f) = PrintNumber(DATA_FORMAT_VERSION) BY <1>6 DEF ScalarBytes
  <2> QED BY <1>3, <1>4, <2>1, <2>2, <2>3, BytesOne
<1>7. CASE f = "type"
  <2>1. TypeName[msg.type] \in Seq(1..255) BY <1>1, TypeNameIs
  <2>2. Scalar(f) = <<StringPiece(TypeName[msg.type])>> BY <1>7 DEF Scalar
  <2>3. ScalarBytes(msg, f) = Quoted(TypeName[msg.type]) BY <1>7 DEF ScalarBytes
  <2> QED BY <1>3, <1>5, <2>1, <2>2, <2>3, BytesOne
<1>8. CASE f = "message"
  <2>2. Scalar(f) = <<StringPiece(msg.text)>> BY <1>8 DEF Scalar
  <2>3. ScalarBytes(msg, f) = Quoted(msg.text) BY <1>8 DEF ScalarBytes
  <2> QED BY <1>1, <1>3, <1>5, <2>2, <2>3, BytesOne
<1>9. CASE f = "valve_no"
  <2>2. Scalar(f) = <<NumberPiece(msg.valve)>> BY <1>9 DEF Scalar
  <2>3. ScalarBytes(msg, f) = PrintNumber(msg.valve) BY <1>9 DEF ScalarBytes
  <2> QED BY <1>1, <1>3, <1>4, <2>2, <2>3, BytesOne
<1> QED BY <1>6, <1>7, <1>8, <1>9

\* What is printed when no field has been lost.
LEMMA PrintedMessage ==
    ASSUME EncInv, EncOut, todo = <<>>, out # <<>>, Complete
    PROVE  Sendable(msg) /\ out = Encoded(msg)
<1>1. msg \in Messages /\ msg.type # "INVALID" /\ out = Body BY DEF EncOut, OutMsg, OutIdle
<1>2. Sendable(msg) BY <1>1, SentSendable
<1> DEFINE t == msg.type
           r == kids["root"]
           d == kids["data"]
<1>3. t \in Printable \cup {"KEEP_ALIVE", "INVALID"} BY <1>1, EncoderAssumption
<1>4. Wanted = ToSet(RootFields) \cup ToSet(DataFields(t))
  <2>1. Ordered(Steps(t), ToSet(RootFields) \cup ToSet(DataFields(t))) BY <1>1, <1>3, StepsOrdered
  <2>2. DOMAIN Steps(t) = 1 .. Len(Steps(t)) BY <2>1, SeqIs DEF Ordered
  <2>3. Wanted = {Steps(t)[i].name : i \in Adds(Steps(t))} BY <2>2 DEF Wanted, Adds
  <2> QED BY <2>1, <2>3 DEF Ordered
<1>5. /\ r \in Seq(Fields) /\ d \in Seq(Fields) /\ Rising(r) /\ Rising(d)
      /\ ToSet(r) \subseteq {"version", "data", "type"} /\ ToSet(d) \subseteq {"message", "valve_no"}
  BY DEF EncInv, KidsOK, EncOut, KidsRise
<1>6. ToSet(RootFields) = {"version", "data", "type"}
  BY DEF RootFields, ToSet
<1>7. ToSet(DataFields(t)) \subseteq {"message", "valve_no"} BY DataFieldsAre
<1>8. ToSet(r) \cup ToSet(d) = Wanted BY DEF Complete
<1>9. ToSet(r) = {"version", "data", "type"} /\ ToSet(d) = ToSet(DataFields(t))
  BY <1>4, <1>5, <1>6, <1>7, <1>8
<1>10. kids.root = RootFields /\ kids.data = DataFields(t) BY <1>5, <1>9, RisingRoot, RisingData
<1> DEFINE value == [g \in ToSet(kids.data) |-> Scalar(g)]
           all == [f \in ToSet(kids.root) |-> print_value(f)]
<1>11. /\ \A g \in {"message", "valve_no"} : DataValues(msg)[g] = ScalarBytes(msg, g)
       /\ RootValues(msg)["data"] = ObjectBytes(DataFields(t), DataValues(msg))
       /\ \A f \in {"version", "type"} : RootValues(msg)[f] = ScalarBytes(msg, f)
  BY <1>2, ValuesTyped
<1>12. \A g \in ToSet(DataFields(t)) : value[g] \in Seq(Pieces) /\ DataValues(msg)[g] = Bytes(value[g])
  <2> SUFFICES ASSUME NEW g \in ToSet(DataFields(t))
               PROVE  value[g] \in Seq(Pieces) /\ DataValues(msg)[g] = Bytes(value[g])
    OBVIOUS
  <2>1. g \in {"message", "valve_no"} BY <1>7
  <2>2. value[g] = Scalar(g) BY <1>10
  <2>3. Scalar(g) \in Seq(Pieces) /\ Bytes(Scalar(g)) = ScalarBytes(msg, g)
    BY <1>2, <2>1, ScalarPrinted
  <2> QED BY <1>11, <2>1, <2>2, <2>3
<1> DEFINE p == print_object(kids.data, value)
<1>13. p \in Seq(Pieces) /\ Bytes(p) = ObjectBytes(DataFields(t), DataValues(msg))
  <2>1. DataFields(t) \in Seq(Fields) BY DataFieldsAre
  <2>2. kids.data = DataFields(t) BY <1>10
  <2> HIDE DEF value
  <2> QED BY <1>12, <2>1, <2>2, PrintedObject, ObjectIs
<1>14. print_value("data") = p BY DEF print_value
<1> HIDE DEF p, value
<1>15. \A f \in ToSet(RootFields) : all[f] \in Seq(Pieces) /\ RootValues(msg)[f] = Bytes(all[f])
  <2> SUFFICES ASSUME NEW f \in ToSet(RootFields)
               PROVE  all[f] \in Seq(Pieces) /\ RootValues(msg)[f] = Bytes(all[f])
    OBVIOUS
  <2>1. all[f] = print_value(f) BY <1>10
  <2>2. CASE f = "data" BY <1>11, <1>13, <1>14, <2>1, <2>2
  <2>3. CASE f # "data"
    <3>1. f \in {"version", "type"} BY <1>6, <2>3
    <3>2. print_value(f) = Scalar(f) BY <2>3 DEF print_value
    <3>3. Scalar(f) \in Seq(Pieces) /\ Bytes(Scalar(f)) = ScalarBytes(msg, f)
      BY <1>2, <3>1, ScalarPrinted
    <3> QED BY <1>11, <2>1, <3>1, <3>2, <3>3
  <2> QED BY <2>2, <2>3
<1>16. Body = Bytes(print_object(RootFields, all)) BY <1>10 DEF Body
<1> HIDE DEF all
<1>17. Bytes(print_object(RootFields, all)) = ObjectBytes(RootFields, RootValues(msg))
  BY <1>15, RootFieldsAre, PrintedObject
<1> QED BY <1>1, <1>2, <1>16, <1>17 DEF Encoded

-----------------------------------------------------------------------------
(* The parser on a message that has been encoded.                          *)

StringOf(m, f) == IF f = "type" THEN TypeName[m.type] ELSE m.text
NumberOf(m, f) == IF f = "version" THEN DATA_FORMAT_VERSION ELSE m.valve
\* The fields of one of the two objects, and their values.
ObjectOf(m, F, V) == \/ F = RootFields /\ V = RootValues(m)
                     \/ F = DataFields(m.type) /\ V = DataValues(m)

LEMMA SpaceSkipped ==
    ASSUME text \in Seq(Nat), NEW o \in Nat, o < Length, Byte(o) > 32
    PROVE  SkipWhitespace(o) = o
<1> DEFINE S == {j \in o .. Length : j = Length \/ Byte(j) > 32}
<1>1. Length \in Nat BY DEF Length
<1>2. S \in SUBSET Int /\ o \in S /\ \A y \in S : o <= y BY <1>1
<1> HIDE DEF S
<1>3. Min(S) = o BY <1>2, LeastIs
<1>4. FirstBlack(o) = o BY <1>3 DEF FirstBlack, S
<1> QED BY <1>1, <1>4 DEF SkipWhitespace

LEMMA ConcatFirst ==
    ASSUME NEW A, NEW s \in Seq(A), NEW t \in Seq(A), Len(s) >= 1
    PROVE  /\ s \o t \in Seq(A) /\ Len(s \o t) = Len(s) + Len(t) /\ Len(t) \in Nat
           /\ Len(s \o t) >= 1 /\ (s \o t)[1] = s[1]
  OBVIOUS

LEMMA NumberFirst ==
    ASSUME NEW n \in IntMin .. IntMax
    PROVE  /\ PrintNumber(n) \in Seq(Nat) /\ Len(PrintNumber(n)) >= 1
           /\ PrintNumber(n)[1] \in 48..57 \cup {45}
<1>1. IntMin \in Int /\ IntMax \in Int BY Limits
<1> HIDE DEF IntMin, IntMax
<1>2. n \in Int BY <1>1
<1>3. PrintNumber(n) \in Seq(Nat) BY <1>2, NumberPieceIs
<1>4. \A a \in Nat : Numeral[a] \in Digit /\ Numeral[a] # <<>> BY NumeralParts
<1>5. CASE n < 0
  <2> DEFINE ds == Numeral[-n]
             k == <<45>>
  <2>1. -n \in Nat BY <1>2, <1>5
  <2>2. ds \in Seq(Nat)
    <3>1. ds \in Seq(48..57) BY <1>4, <2>1 DEF Digit
    <3>2. \A A, B : A \subseteq B => Seq(A) \subseteq Seq(B) OBVIOUS
    <3>3. 48..57 \subseteq Nat OBVIOUS
    <3> QED BY <3>1, <3>2, <3>3, Zenon
  <2>3. PrintNumber(n) = k \o ds BY <1>5 DEF PrintNumber
  <2>4. k \in Seq(Nat) /\ Len(k) = 1 /\ k[1] = 45 OBVIOUS
  <2> HIDE DEF k, ds
  <2>5. Len(k \o ds) = 1 + Len(ds) /\ Len(ds) \in Nat /\ (k \o ds)[1] = k[1]
    <3>1. k \in Seq(Nat) /\ Len(k) >= 1 BY <2>4
    <3>2. Len(k \o ds) = Len(k) + Len(ds) /\ Len(ds) \in Nat /\ (k \o ds)[1] = k[1]
      BY <2>2, <3>1, ConcatFirst
    <3> QED BY <2>4, <3>2
  <2> QED BY <1>3, <2>3, <2>4, <2>5
<1>6. CASE ~ (n < 0)
  <2> DEFINE ds == Numeral[n]
  <2>1. ds \in Seq(48..57) /\ ds # <<>> BY <1>2, <1>4, <1>6 DEF Digit
  <2>2. PrintNumber(n) = ds BY <1>6 DEF PrintNumber
  <2> HIDE DEF ds
  <2>3. Len(ds) >= 1 /\ ds[1] \in 48..57 BY <2>1, TailIs
  <2> QED BY <1>3, <2>2, <2>3
<1> QED BY <1>5, <1>6

LEMMA QuotedFirst ==
    ASSUME NEW s \in Seq(1..255)
    PROVE  Quoted(s) \in Seq(Nat) /\ Len(Quoted(s)) >= 1 /\ Quoted(s)[1] = Quote
<1> DEFINE q == <<Quote>>
           b == Spelt(s)
<1>1. Quoted(s) \in Seq(Nat) /\ b \in Seq(Nat) /\ Len(Quoted(s)) = Len(b) + 2 BY QuotedTyped
<1>2. q \in Seq(Nat) /\ Len(q) = 1 /\ q[1] = Quote BY DEF Quote
<1>3. Quoted(s) = (q \o b) \o q BY DEF Quoted
<1> HIDE DEF q, b
<1>4. q \o b \in Seq(Nat) /\ Len(q \o b) >= 1 /\ (q \o b)[1] = Quote
  <2>1. q \in Seq(Nat) /\ b \in Seq(Nat) /\ Len(q) >= 1 BY <1>1, <1>2
  <2> QED BY <1>2, <2>1, ConcatFirst
<1>5. ((q \o b) \o q)[1] = (q \o b)[1] BY <1>2, <1>4
<1>6. Len(b) \in Nat BY <1>1
<1> QED BY <1>1, <1>3, <1>4, <1>5, <1>6

LEMMA ObjectFirst ==
    ASSUME NEW F \in Seq(Fields), NEW V, \A f \in ToSet(F) : V[f] \in Seq(Nat)
    PROVE  /\ ObjectBytes(F, V) \in Seq(Nat) /\ Len(ObjectBytes(F, V)) >= 1
           /\ ObjectBytes(F, V)[1] = Open["Object"]
<1> DEFINE q == <<Open["Object"]>>
           z == <<Close["Object"]>>
           b == FlattenSeq([i \in DOMAIN F |-> FieldBytes(F, V, i)])
<1>1. /\ q \in Seq(Nat) /\ z \in Seq(Nat) /\ b \in Seq(Nat) /\ q \o b \in Seq(Nat)
      /\ ObjectBytes(F, V) \in Seq(Nat) /\ Len(ObjectBytes(F, V)) = Len(b) + 2
  BY ObjectTyped
<1>2. Len(q) = 1 /\ q[1] = Open["Object"] OBVIOUS
<1>3. ObjectBytes(F, V) = (q \o b) \o z BY DEF ObjectBytes
<1> HIDE DEF q, b, z
<1>4. Len(q \o b) >= 1 /\ (q \o b)[1] = Open["Object"]
  <2>1. q \in Seq(Nat) /\ b \in Seq(Nat) /\ Len(q) >= 1 BY <1>1, <1>2
  <2> QED BY <1>2, <2>1, ConcatFirst
<1>5. ((q \o b) \o z)[1] = (q \o b)[1] BY <1>1, <1>4
<1>6. Len(b) \in Nat BY <1>1
<1> QED BY <1>1, <1>3, <1>4, <1>5, <1>6

\* The fields of a message, and what each kind of them begins with.
LEMMA ObjectOfIs ==
    ASSUME NEW m, Sendable(m), NEW F, NEW V, ObjectOf(m, F, V)
    PROVE  /\ F \in Seq(Fields) /\ \A f \in ToSet(F) : V[f] \in Seq(Nat)
           /\ \A i \in 1 .. Len(F) :
                /\ F[i] \in ToSet(F) /\ Name[F[i]] \in Seq(1..255)
                /\ Len(V[F[i]]) >= 1 /\ V[F[i]][1] > 32
                /\ \/ /\ F[i] \in {"version", "valve_no"}
                      /\ V[F[i]] = PrintNumber(NumberOf(m, F[i]))
                      /\ NumberOf(m, F[i]) \in IntMin .. IntMax
                   \/ /\ F[i] \in {"type", "message"}
                      /\ V[F[i]] = Quoted(StringOf(m, F[i])) /\ StringOf(m, F[i]) \in Seq(1..255)
                   \/ /\ F[i] = "data" /\ F = RootFields /\ i = 2 /\ V = RootValues(m)
                      /\ V[F[i]] = ObjectBytes(DataFields(m.type), DataValues(m))
                      /\ V[F[i]][1] = Open["Object"]
<1>1. /\ \A f \in {"message", "valve_no"} : DataValues(m)[f] = ScalarBytes(m, f)
      /\ \A f \in ToSet(DataFields(m.type)) : DataValues(m)[f] \in Seq(Nat)
      /\ RootValues(m)["data"] = ObjectBytes(DataFields(m.type), DataValues(m))
      /\ \A f \in {"version", "type"} : RootValues(m)[f] = ScalarBytes(m, f)
      /\ \A f \in ToSet(RootFields) : RootValues(m)[f] \in Seq(Nat)
  BY ValuesTyped
<1>2. F \in Seq(Fields) /\ \A f \in ToSet(F) : V[f] \in Seq(Nat)
  BY <1>1, RootFieldsAre, DataFieldsAre DEF ObjectOf
<1>3. \A i \in 1 .. Len(F) : F[i] \in ToSet(F) /\ F[i] \in Fields BY <1>2 DEF ToSet
<1>4. \/ F = RootFields /\ V = RootValues(m) /\ ToSet(F) \subseteq {"version", "data", "type"}
      \/ V = DataValues(m) /\ ToSet(F) \subseteq {"message", "valve_no"}
  BY RootFieldsAre, DataFieldsAre DEF ObjectOf
<1>5. /\ ScalarBytes(m, "version") = PrintNumber(DATA_FORMAT_VERSION)
      /\ ScalarBytes(m, "type") = Quoted(TypeName[m.type])
      /\ ScalarBytes(m, "message") = Quoted(m.text)
      /\ ScalarBytes(m, "valve_no") = PrintNumber(m.valve)
  BY DEF ScalarBytes
<1>6. /\ TypeName[m.type] \in Seq(1..255) /\ m.text \in Seq(1..255) /\ m.valve \in IntMin .. IntMax
  <2> HIDE DEF IntMin, IntMax
  <2> QED BY TypeNameIs DEF Sendable
<1>7. DATA_FORMAT_VERSION \in IntMin .. IntMax BY Limits DEF DATA_FORMAT_VERSION
<1>8. \A n \in IntMin .. IntMax : Len(PrintNumber(n)) >= 1 /\ PrintNumber(n)[1] > 32
  <2> SUFFICES ASSUME NEW n \in IntMin .. IntMax
               PROVE  Len(PrintNumber(n)) >= 1 /\ PrintNumber(n)[1] > 32
    OBVIOUS
  <2>1. Len(PrintNumber(n)) >= 1 /\ PrintNumber(n)[1] \in 48..57 \cup {45} BY NumberFirst
  <2> QED BY <2>1
<1>9. \A s \in Seq(1..255) : Len(Quoted(s)) >= 1 /\ Quoted(s)[1] > 32 BY QuotedFirst DEF Quote
<1>10. LET b == ObjectBytes(DataFields(m.type), DataValues(m))
       IN  Len(b) >= 1 /\ b[1] = Open["Object"] /\ Open["Object"] > 32
  BY <1>1, DataFieldsAre, ObjectFirst DEF Open
<1> HIDE DEF IntMin, IntMax
<1> SUFFICES ASSUME NEW i \in 1 .. Len(F)
             PROVE  /\ F[i] \in ToSet(F) /\ Name[F[i]] \in Seq(1..255)
                    /\ Len(V[F[i]]) >= 1 /\ V[F[i]][1] > 32
                    /\ \/ /\ F[i] \in {"version", "valve_no"}
                          /\ V[F[i]] = PrintNumber(NumberOf(m, F[i]))
                          /\ NumberOf(m, F[i]) \in IntMin .. IntMax
                       \/ /\ F[i] \in {"type", "message"}
                          /\ V[F[i]] = Quoted(StringOf(m, F[i])) /\ StringOf(m, F[i]) \in Seq(1..255)
                       \/ /\ F[i] = "data" /\ F = RootFields /\ i = 2 /\ V = RootValues(m)
                          /\ V[F[i]] = ObjectBytes(DataFields(m.type), DataValues(m))
                          /\ V[F[i]][1] = Open["Object"]
  BY <1>2
<1>11. F[i] \in ToSet(F) /\ Name[F[i]] \in Seq(1..255) BY <1>3, NameIs
<1>12. CASE F[i] = "version"
  <2>1. V[F[i]] = PrintNumber(DATA_FORMAT_VERSION) BY <1>1, <1>4, <1>5, <1>11, <1>12
  <2>2. NumberOf(m, F[i]) = DATA_FORMAT_VERSION BY <1>12 DEF NumberOf
  <2> QED BY <1>7, <1>8, <1>11, <1>12, <2>1, <2>2
<1>13. CASE F[i] = "valve_no"
  <2>1. V[F[i]] = PrintNumber(m.valve) BY <1>1, <1>4, <1>5, <1>11, <1>13
  <2>2. NumberOf(m, F[i]) = m.valve BY <1>13 DEF NumberOf
  <2> QED BY <1>6, <1>8, <1>11, <1>13, <2>1, <2>2
<1>14. CASE F[i] = "type"
  <2>1. V[F[i]] = Quoted(TypeName[m.type]) BY <1>1, <1>4, <1>5, <1>11, <1>14
  <2>2. StringOf(m, F[i]) = TypeName[m.type] BY <1>14 DEF StringOf
  <2> QED BY <1>6, <1>9, <1>11, <1>14, <2>1, <2>2
<1>15. CASE F[i] = "message"
  <2>1. V[F[i]] = Quoted(m.text) BY <1>1, <1>4, <1>5, <1>11, <1>15
  <2>2. StringOf(m, F[i]) = m.text BY <1>15 DEF StringOf
  <2> QED BY <1>6, <1>9, <1>11, <1>15, <2>1, <2>2
<1>16. CASE F[i] = "data"
  <2>1. F = RootFields /\ V = RootValues(m) BY <1>4, <1>11, <1>16
  <2>2. i = 2
    <3>1. i \in 1 .. 3 BY <2>1, RootFieldsAre
    <3>2. i = 1 \/ i = 2 \/ i = 3 BY <3>1
    <3> QED BY <1>16, <2>1, <3>2, RootFieldsAre
  <2> QED BY <1>1, <1>10, <1>11, <1>16, <2>1, <2>2
<1> QED BY <1>4, <1>11, <1>12, <1>13, <1>14, <1>15, <1>16

\* What the parser finds where a field is laid out.
LEMMA LaidBytes ==
    ASSUME text \in Seq(Nat), NEW m, Sendable(m), NEW F, NEW V, ObjectOf(m, F, V),
           NEW o \in Nat, NEW pos, Laid(text, o, F, V, pos), NEW i \in 1 .. Len(F)
    PROVE  LET a == pos[i]   b == NameEnd(F, pos, i)
               c == ValueAt(F, pos, i)   d == EndAt(F, V, pos, i)
           IN /\ a \in Nat /\ a < Length /\ Byte(a) = Quote /\ b = a + Len(Quoted(Name[F[i]]))
              /\ b \in Nat /\ b < Length /\ Byte(b) = Colon /\ c = b + 1
              /\ c \in Nat /\ c < Length /\ Byte(c) = V[F[i]][1] /\ Byte(c) > 32
              /\ d \in Nat /\ d < Length /\ d = c + Len(V[F[i]])
              /\ IF i < Len(F) THEN Byte(d) = Comma /\ pos[i + 1] = d + 1
                 ELSE Byte(d) = Close["Object"] /\ pos[i + 1] = d
              /\ Holds(text, a, Quoted(Name[F[i]])) /\ Holds(text, c, V[F[i]])
<1> DEFINE a == pos[i]
           b == NameEnd(F, pos, i)
           c == ValueAt(F, pos, i)
           d == EndAt(F, V, pos, i)
           q == Quoted(Name[F[i]])
           v == V[F[i]]
<1>1. /\ F \in Seq(Fields) /\ v \in Seq(Nat) /\ Name[F[i]] \in Seq(1..255)
      /\ Len(v) >= 1 /\ v[1] > 32
  BY ObjectOfIs
<1>2. q \in Seq(Nat) /\ Len(q) >= 1 /\ q[1] = Quote BY <1>1, QuotedFirst
<1>3. /\ Holds(text, a, q) /\ Holds(text, b, <<Colon>>) /\ Holds(text, c, v)
      /\ b = a + Len(q) /\ c = b + 1 /\ d = c + Len(v)
      /\ IF i < Len(F) THEN Holds(text, d, <<Comma>>) /\ pos[i + 1] = d + 1 ELSE pos[i + 1] = d
      /\ Holds(text, pos[Len(F) + 1], <<Close["Object"]>>)
      /\ pos \in [1 .. Len(F) + 1 -> Nat]
  BY DEF Laid, NameEnd, ValueAt, EndAt
<1>4. Len(F) \in Nat BY <1>1
<1>5. a \in Nat
  <2>1. i \in 1 .. Len(F) + 1 BY <1>4
  <2> QED BY <1>3, <2>1
<1> HIDE DEF a, b, c, d, q, v
<1>6. b \in Nat /\ c \in Nat /\ d \in Nat
  <2>1. Len(q) \in Nat /\ Len(v) \in Nat BY <1>1, <1>2
  <2> QED BY <1>3, <1>5, <2>1
<1>7. a < Length /\ Byte(a) = Quote
  <2>1. 1 \in 1 .. Len(q) /\ (a + 1) - 1 = a BY <1>2, <1>5
  <2>2. (a + 1) - 1 < Length /\ Byte((a + 1) - 1) = q[1] BY <1>2, <1>3, <1>5, <2>1, ByteHeld
  <2> QED BY <1>2, <2>1, <2>2
<1>8. b < Length /\ Byte(b) = Colon
  <2>1. Colon \in Nat BY DEF Colon
  <2> QED BY <1>3, <1>6, <2>1, ByteFirst
<1>9. c < Length /\ Byte(c) = v[1]
  <2>1. 1 \in 1 .. Len(v) /\ (c + 1) - 1 = c BY <1>1, <1>6
  <2>2. (c + 1) - 1 < Length /\ Byte((c + 1) - 1) = v[1] BY <1>1, <1>3, <1>6, <2>1, ByteHeld
  <2> QED BY <2>1, <2>2
<1>10. d < Length /\ IF i < Len(F) THEN Byte(d) = Comma ELSE Byte(d) = Close["Object"]
  <2>1. Comma \in Nat /\ Close["Object"] \in Nat BY DEF Comma, Close
  <2>2. CASE i < Len(F) BY <1>3, <1>6, <2>1, <2>2, ByteFirst
  <2>3. CASE ~ (i < Len(F))
    <3>1. i = Len(F) BY <1>4, <2>3
    <3>2. Holds(text, d, <<Close["Object"]>>) BY <1>3, <2>3, <3>1
    <3> QED BY <1>6, <2>1, <2>3, <3>2, ByteFirst
  <2> QED BY <2>2, <2>3
<1>11. Byte(c) > 32 BY <1>1, <1>9
<1> QED BY <1>3, <1>5, <1>6, <1>7, <1>8, <1>9, <1>10, <1>11 DEF a, b, c, d, q, v

-----------------------------------------------------------------------------
(* The items and the lists of the parser.                                  *)

Strings == [block : Nat, bytes : Seq(Nat)]
Types == {"Invalid", "Number", "String", "Object"}
Items(C) == [block : Nat, type : Types, name : Strings, value : Strings, number : Int, child : C]
Leaf == Items({<<>>})
Node == Items(Seq(Leaf))
\* The stack in the root object, or in data with the list of the root object below.
Frame(l) == [kind |-> "Object", list |-> l]
Frames(outer, l) == IF outer = <<>> THEN <<Frame(l)>> ELSE <<Frame(outer), Frame(l)>>

LEMMA FrameIs ==
    ASSUME NEW l, NEW k
    PROVE  /\ Frame(l).kind = "Object" /\ Frame(l).list = l
           /\ [Frame(l) EXCEPT !.list = k] = Frame(k)
  BY DEF Frame

LEMMA FramesAre ==
    ASSUME NEW outer, NEW l, stack = Frames(outer, l)
    PROVE  /\ stack # <<>> /\ Top.kind = "Object" /\ Top.list = l /\ Current = l[Len(l)]
           /\ Len(stack) = (IF outer = <<>> THEN 1 ELSE 2)
<1> DEFINE x == Frame(l)
           y == Frame(outer)
<1>1. x.kind = "Object" /\ x.list = l BY FrameIs
<1> HIDE DEF x, y
<1>2. CASE outer = <<>>
  <2>1. stack = <<x>> BY <1>2 DEF Frames, x
  <2>2. Len(stack) = 1 /\ stack[1] = x /\ Len(<<>>) = 0 BY <2>1
  <2>3. stack # <<>> BY <2>2
  <2> QED BY <1>1, <1>2, <2>2, <2>3 DEF Top, Current
<1>3. CASE outer # <<>>
  <2>1. stack = <<y, x>> BY <1>3 DEF Frames, x, y
  <2>2. Len(stack) = 2 /\ stack[2] = x /\ Len(<<>>) = 0 BY <2>1
  <2>3. stack # <<>> BY <2>2
  <2> QED BY <1>1, <1>3, <2>2, <2>3 DEF Top, Current
<1> QED BY <1>2, <1>3

\* The list at the top becomes another.
LEMMA FramesList ==
    ASSUME NEW outer, NEW l, stack = Frames(outer, l), NEW k
    PROVE  [stack EXCEPT ![Len(stack)].list = k] = Frames(outer, k)
<1> DEFINE x == Frame(l)
           y == Frame(outer)
           z == Frame(k)
<1>1. [x EXCEPT !.list = k] = z BY FrameIs
<1>2. CASE outer = <<>>
  <2>1. stack = <<x>> /\ Frames(outer, k) = <<z>> BY <1>2 DEF Frames
  <2> HIDE DEF x, z
  <2>2. [<<x>> EXCEPT ![1].list = k] = <<[x EXCEPT !.list = k]>> OBVIOUS
  <2>3. Len(<<x>>) = 1 OBVIOUS
  <2> QED BY <1>1, <2>1, <2>2, <2>3
<1>3. CASE outer # <<>>
  <2>1. stack = <<y, x>> /\ Frames(outer, k) = <<y, z>> BY <1>3 DEF Frames
  <2> HIDE DEF x, z, y
  <2>2. [<<y, x>> EXCEPT ![2].list = k] = <<y, [x EXCEPT !.list = k]>> OBVIOUS
  <2>3. Len(<<y, x>>) = 2 OBVIOUS
  <2> QED BY <1>1, <2>1, <2>2, <2>3
<1> QED BY <1>2, <1>3

LEMMA FramesFill ==
    ASSUME NEW outer, NEW l, stack = Frames(outer, l), NEW item, Fill(item)
    PROVE  stack' = Frames(outer, SetLast(l, item)) /\ root' = root
<1>1. stack # <<>> /\ Top.list = l BY FramesAre
<1>2. stack' = [stack EXCEPT ![Len(stack)].list = SetLast(@, item)] /\ root' = root
  BY <1>1 DEF Fill
<1>3. stack[Len(stack)].list = l BY <1>1 DEF Top
<1>4. [stack EXCEPT ![Len(stack)].list = SetLast(@, item)]
        = [stack EXCEPT ![Len(stack)].list = SetLast(l, item)]
  BY <1>3
<1> QED BY <1>2, <1>4, FramesList

LEMMA RootFill ==
    ASSUME stack = <<>>, NEW item, Fill(item)
    PROVE  stack' = <<>> /\ root' = item
  BY DEF Fill

\* The last item of a list becomes another.
LEMMA SetLastIs ==
    ASSUME NEW A, NEW l \in Seq(A), Len(l) >= 1, NEW item \in A
    PROVE  /\ SetLast(l, item) \in Seq(A) /\ Len(SetLast(l, item)) = Len(l)
           /\ SetLast(l, item)[Len(l)] = item
           /\ \A j \in 1 .. Len(l) - 1 : SetLast(l, item)[j] = l[j]
  BY DEF SetLast

LEMMA NewItemIs ==
    ASSUME NEW b \in Nat
    PROVE  NewItem(b) \in Leaf /\ NewItem(b) \in Node /\ NewItem(b).child = <<>>
<1>1. NoString \in Strings BY DEF NoString, Strings
<1>2. <<>> \in Seq(Leaf) OBVIOUS
<1>3. \A C : <<>> \in C => NewItem(b) \in Items(C)
  <2> SUFFICES ASSUME NEW C, <<>> \in C PROVE NewItem(b) \in Items(C) OBVIOUS
  <2> DEFINE z == NoString
  <2>1. z \in Strings BY <1>1
  <2>2. NewItem(b) = [block |-> b, type |-> "Invalid", name |-> z, value |-> z,
                      number |-> 0, child |-> <<>>]
    BY DEF NewItem
  <2> HIDE DEF z
  <2> QED BY <2>1, <2>2 DEF Items, Types
<1>4. NewItem(b).child = <<>> BY DEF NewItem
<1> QED BY <1>2, <1>3, <1>4 DEF Leaf, Node

LEMMA LeafNode == Leaf \subseteq Node
<1>1. <<>> \in Seq(Leaf) OBVIOUS
<1> QED BY <1>1 DEF Leaf, Node, Items

\* What the parser makes of an item.
NumberIn(x, n) == [x EXCEPT !.type = "Number", !.number = n]
StringIn(x, s) == [x EXCEPT !.type = "String", !.value = s]
NameIn(x, s, v) == [x EXCEPT !.type = "String", !.name = s, !.value = v]
EmptyIn(x) == [x EXCEPT !.type = "Object"]
FullIn(x, l) == [x EXCEPT !.type = "Object", !.child = l]

LEMMA NumberItem ==
    ASSUME NEW C, NEW x \in Items(C), NEW n \in Int
    PROVE  /\ NumberIn(x, n) \in Items(C)
           /\ NumberIn(x, n).type = "Number" /\ NumberIn(x, n).number = n
           /\ NumberIn(x, n).name = x.name /\ NumberIn(x, n).child = x.child
  BY DEF Items, Types, NumberIn

LEMMA StringItem ==
    ASSUME NEW C, NEW x \in Items(C), NEW s \in Strings
    PROVE  /\ StringIn(x, s) \in Items(C)
           /\ StringIn(x, s).type = "String" /\ StringIn(x, s).value = s
           /\ StringIn(x, s).name = x.name /\ StringIn(x, s).child = x.child
  BY DEF Items, Types, StringIn

LEMMA NameItem ==
    ASSUME NEW C, NEW x \in Items(C), NEW s \in Strings, NEW v \in Strings
    PROVE  /\ NameIn(x, s, v) \in Items(C)
           /\ NameIn(x, s, v).name = s /\ NameIn(x, s, v).child = x.child
  BY DEF Items, Types, NameIn

LEMMA EmptyItem ==
    ASSUME NEW C, NEW x \in Items(C)
    PROVE  /\ EmptyIn(x) \in Items(C) /\ EmptyIn(x).type = "Object"
           /\ EmptyIn(x).name = x.name /\ EmptyIn(x).child = x.child
  BY DEF Items, Types, EmptyIn

LEMMA FullItem ==
    ASSUME NEW C, NEW x \in Items(C), NEW D, NEW l \in D
    PROVE  /\ FullIn(x, l) \in Items(D) /\ FullIn(x, l).type = "Object"
           /\ FullIn(x, l).child = l /\ FullIn(x, l).name = x.name
  BY DEF Items, Types, FullIn

-----------------------------------------------------------------------------
(* Where the parser is in a message.                                       *)

\* An item has the value of a field, and the name in front of it.
LikeScalar(m, f, x) ==
    IF f \in {"version", "valve_no"} THEN x.type = "Number" /\ x.number = NumberOf(m, f)
    ELSE x.type = "String" /\ x.value.bytes = StringOf(m, f)
LikeData(m, x) ==
    /\ x.type = "Object" /\ Len(x.child) = Len(DataFields(m.type))
    /\ \A j \in 1 .. Len(x.child) :
         /\ x.child[j].name.bytes = Name[DataFields(m.type)[j]]
         /\ LikeScalar(m, DataFields(m.type)[j], x.child[j])
Like(m, f, x) == IF f = "data" THEN LikeData(m, x) ELSE LikeScalar(m, f, x)
Read(m, F, l, n) == \A j \in 1 .. n : l[j].name.bytes = Name[F[j]] /\ Like(m, F[j], l[j])
\* In front of a string or within it.
InString(o, s) == \/ spc = "idle" /\ offset = o
                  \/ \E c : Cut(text, o, s, c) /\ Scan(o, s, c)
\* The fields of an object that are in the list have been read, the last one not yet.
Inside(m, F, V, pos, C, l) ==
    /\ l \in Seq(Items(C))
    /\ \/ /\ pc = "item" /\ spc = "idle" /\ Len(l) < Len(F) /\ Read(m, F, l, Len(l))
          /\ offset \in Nat /\ offset + 1 = pos[Len(l) + 1]
       \/ /\ pc = "name" /\ Len(l) \in 1 .. Len(F) /\ Read(m, F, l, Len(l) - 1)
          /\ l[Len(l)].child = <<>> /\ InString(pos[Len(l)], Name[F[Len(l)]])
       \/ /\ pc = "value" /\ Len(l) \in 1 .. Len(F) /\ Read(m, F, l, Len(l) - 1)
          /\ l[Len(l)].child = <<>> /\ l[Len(l)].name.bytes = Name[F[Len(l)]]
          /\ spc = "idle" /\ offset = ValueAt(F, pos, Len(l))
       \/ /\ pc = "string" /\ Len(l) \in 1 .. Len(F) /\ Read(m, F, l, Len(l) - 1)
          /\ l[Len(l)].child = <<>> /\ l[Len(l)].name.bytes = Name[F[Len(l)]]
          /\ F[Len(l)] \in {"type", "message"}
          /\ InString(ValueAt(F, pos, Len(l)), StringOf(m, F[Len(l)]))
       \/ /\ pc = "after" /\ Len(l) \in 1 .. Len(F) /\ Read(m, F, l, Len(l))
          /\ spc = "idle" /\ offset = EndAt(F, V, pos, Len(l))

LEMMA ReadSame ==
    ASSUME NEW m, NEW F, NEW l, NEW k, NEW n, Read(m, F, l, n), \A j \in 1 .. n : k[j] = l[j]
    PROVE  Read(m, F, k, n)
  BY DEF Read

LEMMA ReadMore ==
    ASSUME NEW m, NEW F, NEW l, NEW n \in Nat, n >= 1, Read(m, F, l, n - 1),
           l[n].name.bytes = Name[F[n]], Like(m, F[n], l[n])
    PROVE  Read(m, F, l, n)
<1>1. \A j \in 1 .. n : j = n \/ j \in 1 .. n - 1 OBVIOUS
<1> QED BY <1>1 DEF Read

\* Without a failing malloc only these steps can be next.
LEMMA NextAt ==
    ASSUME Next, doomed = <<>>, ~ AllocFails
    PROVE  /\ pc = "start" => cJSON_Parse
           /\ pc = "item" => NextItem
           /\ pc = "name" => ParseName \/ StringLoops \/ NameParsed \/ StringFails
           /\ pc = "value" => \/ ParseLiteral \/ parse_number \/ BeginString \/ ValueFails
                              \/ \E k \in {"Array", "Object"} : ParseList(k) \/ ParseEmpty(k)
           /\ pc = "string" => StringLoops \/ StringParsed \/ StringFails
           /\ pc = "after" => NextElement \/ EndOfList \/ ListFails \/ Succeed
           /\ pc # "done"
  BY DEF Next, At, cJSON_Parse, ParseLiteral, parse_number, BeginString, ValueFails, ParseList,
         ParseEmpty, BeginList, NextItem, ItemFails, ParseName, StringLoops, StringParsed,
         NameParsed, SwapName, StringFails, NextElement, EndOfList, CloseList, ListFails,
         Succeed, Fail, Delete

LEMMA ItemStep ==
    ASSUME text \in Seq(Nat), NEW m, Sendable(m), NEW F, NEW V, ObjectOf(m, F, V),
           NEW o \in Nat, NEW pos, Laid(text, o, F, V, pos),
           NEW C, <<>> \in C, NEW outer, NEW l, stack = Frames(outer, l), Inside(m, F, V, pos, C, l),
           fresh \in Nat, pc = "item", NextItem
    PROVE  /\ \E k : stack' = Frames(outer, k) /\ Inside(m, F, V, pos, C, k)'
           /\ fresh' \in Nat /\ UNCHANGED <<text, depth, root, doomed>>
<1>b. PICK b : b = fresh OBVIOUS
<1> DEFINE x == NewItem(b)
           k == Append(l, x)
           n == Len(l)
<1>1. /\ l \in Seq(Items(C)) /\ spc = "idle" /\ n < Len(F) /\ Read(m, F, l, n)
      /\ offset \in Nat /\ offset + 1 = pos[n + 1]
  BY DEF Inside
<1>2. /\ stack' = [stack EXCEPT ![Len(stack)].list = Append(@, NewItem(fresh))]
      /\ offset' = SkipWhitespace(offset + 1) /\ fresh' = fresh + 1
      /\ pc' = (IF Top.kind = "Array" THEN "value" ELSE "name")
      /\ UNCHANGED <<text, str, depth, root, doomed>>
  BY DEF NextItem, Malloc, Skip, Goto
<1>3. stack # <<>> /\ Top.kind = "Object" /\ Top.list = l BY FramesAre
<1>4. stack' = Frames(outer, k)
  <2>1. stack[Len(stack)].list = l BY <1>3 DEF Top
  <2>2. stack' = [stack EXCEPT ![Len(stack)].list = k] BY <1>b, <1>2, <2>1
  <2> HIDE DEF k
  <2> QED BY <2>2, FramesList
<1>5. x \in Items(C) /\ x.child = <<>>
  <2>1. NewItem(b) \in Leaf /\ x.child = <<>> BY <1>b, NewItemIs
  <2> HIDE DEF x
  <2>2. x \in Leaf BY <2>1 DEF x
  <2> QED BY <2>1, <2>2 DEF Leaf, Items
<1> HIDE DEF x
<1>6. /\ k \in Seq(Items(C)) /\ Len(k) = n + 1 /\ k[n + 1] = x /\ n \in Nat
      /\ \A j \in 1 .. n : k[j] = l[j]
  BY <1>1, <1>5
<1> HIDE DEF k, n
<1>7. Read(m, F, k, n) BY <1>1, <1>6, ReadSame
<1>8. F \in Seq(Fields) BY ObjectOfIs
<1>9. n + 1 \in 1 .. Len(F) /\ (n + 1) - 1 = n BY <1>1, <1>6, <1>8
<1>10. pos[n + 1] \in Nat /\ pos[n + 1] < Length /\ Byte(pos[n + 1]) = Quote
  BY <1>9, LaidBytes
<1>11. offset' = pos[n + 1]
  <2>1. Byte(pos[n + 1]) > 32 BY <1>10 DEF Quote
  <2> QED BY <1>1, <1>2, <1>10, <2>1, SpaceSkipped
<1>12. spc' = "idle" BY <1>1, <1>2 DEF str
<1>13. pc' = "name" BY <1>2, <1>3
<1>15. Inside(m, F, V, pos, C, k)' 
  <2>1. Len(k) = n + 1 /\ Len(k) \in 1 .. Len(F) /\ Read(m, F, k, Len(k) - 1)
        /\ k[Len(k)].child = <<>>
    BY <1>5, <1>6, <1>7, <1>9
  <2>2. offset' = pos[Len(k)] BY <1>11, <2>1
  <2> QED BY <1>6, <1>12, <1>13, <2>1, <2>2 DEF Inside, InString
<1>16. fresh' \in Nat BY <1>2
<1> QED BY <1>2, <1>4, <1>15, <1>16

LEMMA InStringStep ==
    ASSUME text \in Seq(Nat), NEW o \in Nat, NEW s \in Seq(1..255), Holds(text, o, Quoted(s)),
           ~ AllocFails, InString(o, s)
    PROVE  /\ StringStep => InString(o, s)' /\ text' = text
           /\ spc = "idle" /\ parse_string /\ text' = text => InString(o, s)'
           /\ spc # "failed"
           /\ spc = "ok" => /\ Parsed = [block |-> fresh, bytes |-> s]
                            /\ offset = o + Len(Quoted(s))
<1>1. CASE spc = "idle" /\ offset = o
  <2>1. ~ StringStep
    BY <1>1 DEF StringStep, Measure, MeasureByte, Measured, Allocate, AllocateFails, CopyPlain,
                CopyEscape, CopyLiteral, CopyPair, CopyFails, Copied, Copying, IsLiteral
  <2>2. ASSUME parse_string, text' = text PROVE InString(o, s)'
    <3>1. Len(text) \in Nat /\ Len(s) \in Nat OBVIOUS
    <3>2. PICK c : Cut(text, o, s, c) BY <3>1, QuotedCut
    <3>3. Scan(o, s, c)' BY <1>1, <2>2, <3>1, <3>2, ScanBegins
    <3>4. Cut(text', o, s, c) BY <2>2, <3>2
    <3> QED BY <3>3, <3>4 DEF InString
  <2> QED BY <1>1, <2>1, <2>2
<1>2. CASE \E c : Cut(text, o, s, c) /\ Scan(o, s, c)
  <2>1. PICK c : Cut(text, o, s, c) /\ Scan(o, s, c) BY <1>2
  <2>2. ASSUME StringStep PROVE InString(o, s)' /\ text' = text
    <3>1. Scan(o, s, c)' /\ text' = text BY <2>1, <2>2, ScanStep
    <3>2. Cut(text', o, s, c) BY <2>1, <3>1
    <3> QED BY <3>1, <3>2 DEF InString
  <2>3. spc \in {"measure", "allocate", "copy", "ok"} BY <2>1 DEF Scan
  <2>4. ASSUME spc = "ok"
        PROVE  Parsed = [block |-> fresh, bytes |-> s] /\ offset = o + Len(Quoted(s))
    BY <2>1, <2>4, ScanEnds
  <2> QED BY <2>2, <2>3, <2>4
<1> QED BY <1>1, <1>2 DEF InString

LEMMA NameStep ==
    ASSUME text \in Seq(Nat), NEW m, Sendable(m), NEW F, NEW V, ObjectOf(m, F, V),
           NEW o \in Nat, NEW pos, Laid(text, o, F, V, pos),
           NEW C, NEW outer, NEW l, stack = Frames(outer, l), Inside(m, F, V, pos, C, l),
           fresh \in Nat, pc = "name", ~ AllocFails,
           ParseName \/ StringLoops \/ NameParsed \/ StringFails
    PROVE  /\ \E k : stack' = Frames(outer, k) /\ Inside(m, F, V, pos, C, k)'
           /\ fresh' \in Nat /\ UNCHANGED <<text, depth, root, doomed>>
<1> DEFINE n == Len(l)
<1>1. /\ l \in Seq(Items(C)) /\ n \in 1 .. Len(F) /\ Read(m, F, l, n - 1) /\ l[n].child = <<>>
      /\ InString(pos[n], Name[F[n]])
  BY DEF Inside
<1>2. /\ pos[n] \in Nat /\ NameEnd(F, pos, n) = pos[n] + Len(Quoted(Name[F[n]]))
      /\ Holds(text, pos[n], Quoted(Name[F[n]]))
      /\ NameEnd(F, pos, n) \in Nat /\ NameEnd(F, pos, n) < Length
      /\ Byte(NameEnd(F, pos, n)) = Colon
      /\ ValueAt(F, pos, n) = NameEnd(F, pos, n) + 1
      /\ ValueAt(F, pos, n) \in Nat /\ ValueAt(F, pos, n) < Length
      /\ Byte(ValueAt(F, pos, n)) > 32
  BY <1>1, LaidBytes
<1>3. Name[F[n]] \in Seq(1..255) BY <1>1, ObjectOfIs
<1>4. /\ StringStep => InString(pos[n], Name[F[n]])' /\ text' = text
      /\ spc = "idle" /\ parse_string /\ text' = text => InString(pos[n], Name[F[n]])'
      /\ spc # "failed"
      /\ spc = "ok" => /\ Parsed = [block |-> fresh, bytes |-> Name[F[n]]]
                       /\ offset = pos[n] + Len(Quoted(Name[F[n]]))
  BY <1>1, <1>2, <1>3, InStringStep
<1>5. ASSUME InString(pos[n], Name[F[n]])', text' = text,
             UNCHANGED <<pc, depth, stack, root, fresh, doomed>>
      PROVE  /\ \E k : stack' = Frames(outer, k) /\ Inside(m, F, V, pos, C, k)'
             /\ fresh' \in Nat /\ UNCHANGED <<text, depth, root, doomed>>
  <2>1. Inside(m, F, V, pos, C, l)' BY <1>1, <1>5 DEF Inside
  <2>2. stack' = Frames(outer, l) BY <1>5
  <2>3. fresh' \in Nat BY <1>5
  <2> QED BY <1>5, <2>1, <2>2, <2>3
<1>6. CASE ParseName
  <2>1. /\ spc = "idle" /\ parse_string /\ text' = text
        /\ UNCHANGED <<pc, depth, stack, root, fresh, doomed>>
    BY <1>6 DEF ParseName
  <2> QED BY <1>4, <1>5, <2>1
<1>7. CASE StringLoops
  <2>1. StringStep /\ UNCHANGED <<pc, depth, stack, root, fresh, doomed>>
    BY <1>7 DEF StringLoops
  <2> QED BY <1>4, <1>5, <2>1
<1>8. CASE NameParsed
  <2> DEFINE p == SkipWhitespace(offset)
  <2>b. PICK b : b = Parsed OBVIOUS
  <2>1. /\ spc = "ok" /\ Fill([Current EXCEPT !.type = "String", !.name = b, !.value = NoString])
        /\ fresh' = fresh + 1 /\ spc' = "idle"
        /\ IF Byte(p) = Colon THEN Skip(p + 1) /\ Goto("value")
           ELSE offset' = p /\ Reads(p) /\ Goto("fail")
        /\ UNCHANGED <<text, depth, doomed>>
    BY <1>8, <2>b DEF NameParsed, SwapName, Malloc, StringOver
  <2>2. b = [block |-> fresh, bytes |-> Name[F[n]]] /\ offset = NameEnd(F, pos, n)
    BY <1>2, <1>4, <2>b, <2>1
  <2>3. p = NameEnd(F, pos, n)
    <3>1. Byte(NameEnd(F, pos, n)) > 32 BY <1>2 DEF Colon
    <3> QED BY <1>2, <2>2, <3>1, SpaceSkipped
  <2> HIDE DEF p
  <2>4. offset' = ValueAt(F, pos, n) /\ pc' = "value"
    <3>1. SkipWhitespace(ValueAt(F, pos, n)) = ValueAt(F, pos, n) BY <1>2, SpaceSkipped
    <3>2. Skip(p + 1) /\ Goto("value") BY <1>2, <2>1, <2>3
    <3> QED BY <1>2, <2>3, <3>1, <3>2 DEF Skip, Goto
  <2> DEFINE x == NameIn(l[n], b, NoString)
             k == SetLast(l, x)
  <2>5. b \in Strings /\ b.bytes = Name[F[n]]
    <3>1. Name[F[n]] \in Seq(Nat) BY <1>3, BytesNat
    <3> QED BY <2>2, <3>1 DEF Strings
  <2>6. x \in Items(C) /\ x.name = b /\ x.child = l[n].child
    <3>1. NoString \in Strings BY DEF NoString, Strings
    <3>2. n \in 1 .. Len(l)
      <4>1. n \in Nat /\ n >= 1 BY <1>1
      <4> QED BY <4>1
    <3>3. l[n] \in Items(C) BY <1>1, <3>2, SeqIs
    <3> QED BY <2>5, <3>1, <3>3, NameItem
  <2>7. stack' = Frames(outer, k) /\ root' = root
    <3>1. Current = l[n] BY FramesAre
    <3>2. Fill(x) BY <2>1, <3>1 DEF NameIn
    <3> HIDE DEF x
    <3> QED BY <3>2, FramesFill
  <2> HIDE DEF x
  <2>8. /\ k \in Seq(Items(C)) /\ Len(k) = n /\ k[n] = x
        /\ \A j \in 1 .. n - 1 : k[j] = l[j]
    <3>1. n >= 1 BY <1>1
    <3> QED BY <1>1, <2>6, <3>1, SetLastIs
  <2> HIDE DEF k
  <2>9. Read(m, F, k, n - 1) BY <1>1, <2>8, ReadSame
  <2>10. Inside(m, F, V, pos, C, k)'
    BY <1>1, <2>1, <2>4, <2>5, <2>6, <2>8, <2>9 DEF Inside
  <2>11. fresh' \in Nat BY <2>1
  <2> QED BY <2>1, <2>7, <2>10, <2>11
<1>9. ~ StringFails BY <1>4 DEF StringFails
<1> QED BY <1>6, <1>7, <1>8, <1>9

\* What a value can be by its first byte.
LEMMA ValueBy ==
    ASSUME text \in Seq(Nat), offset \in Nat, NEW c, Byte(offset) = c, doomed = <<>>,
           \/ ParseLiteral \/ parse_number \/ BeginString \/ ValueFails
           \/ \E k \in {"Array", "Object"} : ParseList(k) \/ ParseEmpty(k)
    PROVE  /\ c = Quote => BeginString
           /\ c \in 48..57 \cup {45} /\ IsNumber /\ Digits > 0 => parse_number
           /\ c = Open["Object"] /\ depth < NestingLimit => ParseList("Object") \/ ParseEmpty("Object")
<1>1. ASSUME ParseLiteral PROVE c \in {110, 102, 116}
  <2>1. PICK l \in DOMAIN Literals : IsAt(Literals[l]) BY <1>1 DEF ParseLiteral
  <2>2. l \in {"NULL", "False", "True"} BY <2>1 DEF Literals
  <2>3. PICK w : w = Literals[l] OBVIOUS
  <2>4. Len(w) \in Nat /\ Len(w) >= 1 /\ w[1] \in {110, 102, 116} BY <2>2, <2>3 DEF Literals
  <2>5. offset + Len(w) <= Length /\ SubSeq(text, offset + 1, offset + Len(w)) = w
    BY <2>1, <2>3 DEF IsAt
  <2>6. w[1] = text[offset + 1] /\ offset < Length
    <3>1. SubSeq(text, offset + 1, offset + Len(w))[1] = text[offset + 1]
      BY <2>4, <2>5 DEF Length
    <3> QED BY <2>4, <2>5, <3>1 DEF Length
  <2> QED BY <2>4, <2>6 DEF Byte
<1>2. /\ Quote = 34 /\ Open["Object"] = 123 /\ Open["Array"] = 91
  BY DEF Quote, Open
<1>3. parse_number => c \in 48..57 \cup {45} BY DEF parse_number, IsNumber, IsDigit
<1>4. BeginString => c = 34 BY <1>2 DEF BeginString
<1>5. \A k \in {"Array", "Object"} : ParseList(k) \/ ParseEmpty(k) => c = Open[k]
  BY DEF ParseList, BeginList, ParseEmpty
<1>6. ValueFails => /\ c # 34
                    /\ ~ (IsNumber /\ Digits > 0)
                    /\ ~ (c = 123 /\ depth < NestingLimit)
  BY <1>2 DEF ValueFails, Recognised
<1> QED BY <1>1, <1>2, <1>3, <1>4, <1>5, <1>6, SMTT(60)

LEMMA NumberStep ==
    ASSUME text \in Seq(Nat), NEW m, Sendable(m), NEW F, NEW V, ObjectOf(m, F, V),
           NEW o \in Nat, NEW pos, Laid(text, o, F, V, pos),
           NEW C, NEW outer, NEW l, stack = Frames(outer, l), Inside(m, F, V, pos, C, l),
           fresh \in Nat, pc = "value", F[Len(l)] \in {"version", "valve_no"},
           NumberSize \in Nat, NumberSize >= 11
    PROVE  /\ IsNumber /\ Digits > 0
           /\ parse_number =>
                /\ \E k : stack' = Frames(outer, k) /\ Inside(m, F, V, pos, C, k)'
                /\ fresh' \in Nat /\ UNCHANGED <<text, depth, root, doomed>>
<1> DEFINE n == Len(l)
<1>1. /\ l \in Seq(Items(C)) /\ n \in 1 .. Len(F) /\ Read(m, F, l, n - 1) /\ l[n].child = <<>>
      /\ l[n].name.bytes = Name[F[n]] /\ spc = "idle" /\ offset = ValueAt(F, pos, n)
  BY DEF Inside
<1>2. PICK v : v = NumberOf(m, F[n]) OBVIOUS
<1>3. V[F[n]] = PrintNumber(v) /\ v \in IntMin .. IntMax 
  <2>1. PICK f : f = F[n] OBVIOUS
  <2>2. \/ V[f] = PrintNumber(NumberOf(m, f)) /\ NumberOf(m, f) \in IntMin .. IntMax
        \/ f \in {"type", "message"}
        \/ f = "data"
    BY <1>1, <2>1, ObjectOfIs
  <2>3. f \in {"version", "valve_no"} BY <2>1
  <2> QED BY <1>2, <2>1, <2>2, <2>3
<1>4. /\ ValueAt(F, pos, n) \in Nat /\ EndAt(F, V, pos, n) < Length
      /\ EndAt(F, V, pos, n) = ValueAt(F, pos, n) + Len(V[F[n]])
      /\ Byte(EndAt(F, V, pos, n)) \in {Comma, Close["Object"]}
      /\ Holds(text, ValueAt(F, pos, n), V[F[n]])
  BY <1>1, LaidBytes
<1>5. Byte(EndAt(F, V, pos, n)) \notin NumberBytes 
  <2>1. Comma = 44 /\ Close["Object"] = 125 BY DEF Comma, Close
  <2> QED BY <1>4, <2>1, SMTT(60) DEF NumberBytes
<1>6. /\ IsNumber /\ Digits > 0
      /\ parse_number => Return([Current EXCEPT !.type = "Number", !.number = v],
                                Len(PrintNumber(v)))
  <2>1. /\ ValueAt(F, pos, n) \in Nat /\ Holds(text, ValueAt(F, pos, n), PrintNumber(v))
        /\ ValueAt(F, pos, n) + Len(PrintNumber(v)) < Length
        /\ Byte(ValueAt(F, pos, n) + Len(PrintNumber(v))) \notin NumberBytes
    BY <1>3, <1>4, <1>5
  <2> QED BY <1>1, <1>3, <2>1, NumberParsed
<1>7. ASSUME parse_number
      PROVE  /\ \E k : stack' = Frames(outer, k) /\ Inside(m, F, V, pos, C, k)'
             /\ fresh' \in Nat /\ UNCHANGED <<text, depth, root, doomed>>
  <2> DEFINE x == NumberIn(l[n], v)
             k == SetLast(l, x)
  <2>1. Current = l[n] BY FramesAre
  <2>2. Return(x, Len(PrintNumber(v))) BY <1>6, <1>7, <2>1 DEF NumberIn
  <2>3. /\ Fill(x) /\ offset' = offset + Len(PrintNumber(v)) /\ pc' = "after"
        /\ UNCHANGED <<text, spc, depth, fresh, doomed>>
    BY <2>2 DEF Return, Goto, str
  <2>4. /\ x \in Items(C) /\ x.type = "Number" /\ x.number = v
        /\ x.name = l[n].name /\ x.child = l[n].child
    <3>1. v \in Int BY <1>3
    <3>2. n \in 1 .. Len(l)
      <4>1. n \in Nat /\ n >= 1 BY <1>1
      <4> QED BY <4>1
    <3>3. l[n] \in Items(C) BY <1>1, <3>2, SeqIs
    <3> QED BY <3>1, <3>3, NumberItem, ZenonT(60)
  <2>5. stack' = Frames(outer, k) /\ root' = root
    <3> HIDE DEF x
    <3> QED BY <2>3, FramesFill
  <2> HIDE DEF x
  <2>6. /\ k \in Seq(Items(C)) /\ Len(k) = n /\ k[n] = x
        /\ \A j \in 1 .. n - 1 : k[j] = l[j]
    <3>1. n >= 1 BY <1>1
    <3> QED BY <1>1, <2>4, <3>1, SetLastIs
  <2> HIDE DEF k
  <2>7. Read(m, F, k, n)
    <3>1. Read(m, F, k, n - 1) BY <1>1, <2>6, ReadSame
    <3>2. Like(m, F[n], k[n]) BY <1>2, <2>4, <2>6 DEF Like, LikeScalar
    <3>3. k[n].name.bytes = Name[F[n]] BY <1>1, <2>4, <2>6
    <3>4. n \in Nat /\ n >= 1 BY <1>1
    <3> QED BY <3>1, <3>2, <3>3, <3>4, ReadMore
  <2>8. offset' = EndAt(F, V, pos, n) BY <1>1, <1>3, <1>4, <2>3
  <2>9. Inside(m, F, V, pos, C, k)'
    <3>1. spc' = "idle" BY <1>1, <2>3
    <3> QED BY <1>1, <2>3, <2>6, <2>7, <2>8, <3>1 DEF Inside
  <2>10. fresh' \in Nat BY <2>3
  <2> QED BY <2>3, <2>5, <2>9, <2>10
<1> QED BY <1>6, <1>7

\* The field of a string, from the opening quote to the closing one.
LEMMA TextStep ==
    ASSUME text \in Seq(Nat), NEW m, Sendable(m), NEW F, NEW V, ObjectOf(m, F, V),
           NEW o \in Nat, NEW pos, Laid(text, o, F, V, pos),
           NEW C, NEW outer, NEW l, stack = Frames(outer, l), Inside(m, F, V, pos, C, l),
           fresh \in Nat, ~ AllocFails,
           \/ pc = "value" /\ F[Len(l)] \in {"type", "message"} /\ BeginString
           \/ pc = "string" /\ (StringLoops \/ StringParsed \/ StringFails)
    PROVE  /\ \E k : stack' = Frames(outer, k) /\ Inside(m, F, V, pos, C, k)'
           /\ fresh' \in Nat /\ UNCHANGED <<text, depth, root, doomed>>
<1> DEFINE n == Len(l)
<1>s. PICK s : s = StringOf(m, F[n]) OBVIOUS
<1>1. /\ l \in Seq(Items(C)) /\ n \in 1 .. Len(F) /\ Read(m, F, l, n - 1)
      /\ l[n].child = <<>> /\ l[n].name.bytes = Name[F[n]] /\ F[n] \in {"type", "message"}
      /\ pc = "value" => spc = "idle" /\ offset = ValueAt(F, pos, n)
      /\ pc = "string" => InString(ValueAt(F, pos, n), s)
      /\ pc \in {"value", "string"}
  BY <1>s DEF Inside
<1>2. V[F[n]] = Quoted(s) /\ s \in Seq(1..255)
  <2>1. PICK f : f = F[n] OBVIOUS
  <2>2. \/ V[f] = Quoted(StringOf(m, f)) /\ StringOf(m, f) \in Seq(1..255)
        \/ f \in {"version", "valve_no"}
        \/ f = "data"
    BY <1>1, <2>1, ObjectOfIs
  <2>3. f \in {"type", "message"} BY <1>1, <2>1
  <2> QED BY <1>s, <2>1, <2>2, <2>3
<1>3. /\ ValueAt(F, pos, n) \in Nat /\ EndAt(F, V, pos, n) = ValueAt(F, pos, n) + Len(V[F[n]])
      /\ Holds(text, ValueAt(F, pos, n), V[F[n]])
  BY <1>1, LaidBytes
<1>4. InString(ValueAt(F, pos, n), s)
  BY <1>1 DEF InString
<1>5. /\ StringStep => InString(ValueAt(F, pos, n), s)' /\ text' = text
      /\ spc = "idle" /\ parse_string /\ text' = text => InString(ValueAt(F, pos, n), s)'
      /\ spc # "failed"
      /\ spc = "ok" => /\ Parsed = [block |-> fresh, bytes |-> s]
                       /\ offset = ValueAt(F, pos, n) + Len(Quoted(s))
  BY <1>2, <1>3, <1>4, InStringStep
<1>6. ASSUME InString(ValueAt(F, pos, n), s)', text' = text, pc' = "string",
             UNCHANGED <<depth, stack, root, fresh, doomed>>
      PROVE  /\ \E k : stack' = Frames(outer, k) /\ Inside(m, F, V, pos, C, k)'
             /\ fresh' \in Nat /\ UNCHANGED <<text, depth, root, doomed>>
  <2>1. Inside(m, F, V, pos, C, l)' BY <1>s, <1>1, <1>6 DEF Inside
  <2>2. stack' = Frames(outer, l) BY <1>6
  <2>3. fresh' \in Nat BY <1>6
  <2> QED BY <1>6, <2>1, <2>2, <2>3
<1>7. CASE pc = "value" /\ BeginString
  <2>1. /\ parse_string /\ text' = text /\ pc' = "string"
        /\ UNCHANGED <<depth, stack, root, fresh, doomed>>
    BY <1>7 DEF BeginString, Goto
  <2> QED BY <1>1, <1>5, <1>6, <1>7, <2>1
<1>8. CASE pc = "string" /\ StringLoops
  <2>1. StringStep /\ pc' = "string" /\ UNCHANGED <<depth, stack, root, fresh, doomed>>
    BY <1>8 DEF StringLoops
  <2> QED BY <1>5, <1>6, <2>1
<1>9. CASE pc = "string" /\ StringParsed
  <2>b. PICK b : b = Parsed OBVIOUS
  <2> DEFINE x == StringIn(l[n], b)
             k == SetLast(l, x)
  <2>1. Current = l[n] BY FramesAre
  <2>2. /\ Fill(x) /\ spc = "ok" /\ spc' = "idle" /\ offset' = offset /\ pc' = "after"
        /\ fresh' = fresh + 1 /\ UNCHANGED <<text, depth, doomed>>
    BY <1>9, <2>b, <2>1 DEF StringParsed, StringOver, Malloc, Goto, StringIn
  <2>3. b = [block |-> fresh, bytes |-> s] /\ offset = ValueAt(F, pos, n) + Len(Quoted(s))
    BY <1>5, <2>b, <2>2
  <2>4. b \in Strings /\ b.bytes = s
    <3>1. s \in Seq(Nat) BY <1>2, BytesNat
    <3> QED BY <2>3, <3>1 DEF Strings
  <2>5. /\ x \in Items(C) /\ x.type = "String" /\ x.value = b
        /\ x.name = l[n].name /\ x.child = l[n].child
    <3>2. n \in 1 .. Len(l)
      <4>1. n \in Nat /\ n >= 1 BY <1>1
      <4> QED BY <4>1
    <3>3. l[n] \in Items(C) BY <1>1, <3>2, SeqIs
    <3> QED BY <2>4, <3>3, StringItem
  <2>6. stack' = Frames(outer, k) /\ root' = root
    <3> HIDE DEF x
    <3> QED BY <2>2, FramesFill
  <2> HIDE DEF x
  <2>7. /\ k \in Seq(Items(C)) /\ Len(k) = n /\ k[n] = x
        /\ \A j \in 1 .. n - 1 : k[j] = l[j]
    <3>1. l \in Seq(Items(C)) /\ n >= 1 BY <1>1
    <3>2. x \in Items(C) BY <2>5
    <3> QED BY <3>1, <3>2, SetLastIs
  <2> HIDE DEF k
  <2>8. Read(m, F, k, n)
    <3>1. Read(m, F, k, n - 1) BY <1>1, <2>7, ReadSame
    <3>2. Like(m, F[n], k[n])
      <4>1. F[n] \notin {"data", "version", "valve_no"} BY <1>1
      <4> QED BY <1>s, <2>4, <2>5, <2>7, <4>1 DEF Like, LikeScalar
    <3>3. k[n].name.bytes = Name[F[n]] BY <1>1, <2>5, <2>7
    <3>4. n \in Nat /\ n >= 1 BY <1>1
    <3> QED BY <3>1, <3>2, <3>3, <3>4, ReadMore
  <2>9. offset' = EndAt(F, V, pos, n) BY <1>2, <1>3, <2>2, <2>3
  <2>10. Inside(m, F, V, pos, C, k)'
    BY <1>1, <2>2, <2>7, <2>8, <2>9 DEF Inside
  <2>11. fresh' \in Nat BY <2>2
  <2> QED BY <2>2, <2>6, <2>10, <2>11
<1>10. ~ StringFails BY <1>5 DEF StringFails
<1> QED BY <1>7, <1>8, <1>9, <1>10

\* Behind a field the next one follows.
LEMMA NextStep ==
    ASSUME text \in Seq(Nat), NEW m, Sendable(m), NEW F, NEW V, ObjectOf(m, F, V),
           NEW o \in Nat, NEW pos, Laid(text, o, F, V, pos),
           NEW C, NEW outer, NEW l, stack = Frames(outer, l), Inside(m, F, V, pos, C, l),
           fresh \in Nat, pc = "after", Len(l) # Len(F),
           NextElement \/ EndOfList \/ ListFails \/ Succeed
    PROVE  /\ \E k : stack' = Frames(outer, k) /\ Inside(m, F, V, pos, C, k)'
           /\ fresh' \in Nat /\ UNCHANGED <<text, depth, root, doomed>>
<1> DEFINE n == Len(l)
           d == EndAt(F, V, pos, n)
<1>1. /\ l \in Seq(Items(C)) /\ n \in 1 .. Len(F) /\ Read(m, F, l, n)
      /\ spc = "idle" /\ offset = d
  BY DEF Inside
<1>2. Len(F) \in Nat /\ n < Len(F)
  <2>1. F \in Seq(Fields) BY ObjectOfIs
  <2>2. Len(F) \in Nat BY <2>1
  <2> QED BY <1>1, <2>2
<1>3. d \in Nat /\ d < Length /\ Byte(d) = Comma /\ pos[n + 1] = d + 1
  BY <1>1, <1>2, LaidBytes
<1>4. SkipWhitespace(offset) = d
  <2>1. Byte(d) > 32 BY <1>3 DEF Comma
  <2> QED BY <1>1, <1>3, <2>1, SpaceSkipped
<1>5. stack # <<>> /\ Top.kind = "Object" BY FramesAre
<1>6. Comma # Close["Object"] BY DEF Comma, Close
<1>7. ~ EndOfList /\ ~ ListFails /\ ~ Succeed
  BY <1>3, <1>4, <1>5, <1>6 DEF EndOfList, CloseList, ListFails, Succeed
<1>8. /\ offset' = d /\ pc' = "item" /\ spc' = "idle"
      /\ UNCHANGED <<text, depth, stack, root, fresh, doomed>>
  BY <1>1, <1>4, <1>7 DEF NextElement, Skip, Goto, str
<1> HIDE DEF d
<1>9. Inside(m, F, V, pos, C, l)'
  BY <1>1, <1>2, <1>3, <1>8 DEF Inside
<1>10. stack' = Frames(outer, l) BY <1>8
<1>11. fresh' \in Nat BY <1>8
<1> QED BY <1>8, <1>9, <1>10, <1>11

\* The list becomes the child of the last item of the one below.
Closed(outer, l) == SetLast(outer, FullIn(outer[Len(outer)], l))

\* Behind the last field the list becomes the child of its item.
LEMMA LastStep ==
    ASSUME text \in Seq(Nat), NEW m, Sendable(m), NEW F, NEW V, ObjectOf(m, F, V),
           NEW o \in Nat, NEW pos, Laid(text, o, F, V, pos),
           NEW C, NEW outer, NEW l, stack = Frames(outer, l), Inside(m, F, V, pos, C, l),
           pc = "after", Len(l) = Len(F),
           NextElement \/ EndOfList \/ ListFails \/ Succeed
    PROVE  /\ Read(m, F, l, Len(F)) /\ l \in Seq(Items(C))
           /\ spc = "idle" /\ offset' = o + Len(ObjectBytes(F, V)) /\ depth' = depth - 1
           /\ UNCHANGED <<text, pc, spc, fresh, doomed>>
           /\ Len(stack) = 1 => stack' = <<>> /\ root' = FullIn(root, l)
           /\ Len(stack) = 2 => stack' = Frames(<<>>, Closed(outer, l)) /\ root' = root
<1> DEFINE n == Len(l)
           d == EndAt(F, V, pos, n)
<1>1. /\ l \in Seq(Items(C)) /\ n \in 1 .. Len(F) /\ Read(m, F, l, n)
      /\ spc = "idle" /\ offset = d
  BY DEF Inside
<1>2. d \in Nat /\ d < Length /\ Byte(d) = Close["Object"] /\ pos[n + 1] = d
  <2>1. F \in Seq(Fields) BY ObjectOfIs
  <2>2. Len(F) \in Nat BY <2>1
  <2> QED BY <1>1, <2>2, LaidBytes
<1>3. d + 1 = o + Len(ObjectBytes(F, V)) BY <1>2 DEF Laid
<1> HIDE DEF d
<1>4. SkipWhitespace(offset) = d
  <2>1. Byte(d) > 32 BY <1>2 DEF Close
  <2> QED BY <1>1, <1>2, <2>1, SpaceSkipped
<1>5. /\ stack # <<>> /\ Top.kind = "Object" /\ Top.list = l
      /\ Len(stack) = (IF outer = <<>> THEN 1 ELSE 2)
  BY FramesAre
<1>6. Comma # Close["Object"] BY DEF Comma, Close
<1>7. ~ NextElement /\ ~ ListFails /\ ~ Succeed
  BY <1>2, <1>4, <1>5, <1>6 DEF NextElement, ListFails, Succeed
<1>8. /\ offset' = d + 1 /\ depth' = depth - 1 /\ UNCHANGED <<text, pc, spc, fresh, doomed>>
      /\ IF Len(stack) = 1 THEN stack' = <<>> /\ root' = FullIn(root, l)
         ELSE /\ stack' = [Outer EXCEPT ![Len(Outer)].list = SetLast(@, FullIn(@[Len(@)], l))]
              /\ UNCHANGED root
  BY <1>4, <1>5, <1>7 DEF EndOfList, CloseList, FullIn, str
<1>9. ASSUME outer # <<>>
      PROVE  /\ stack' = Frames(<<>>, Closed(outer, l))
             /\ root' = root
  <2> DEFINE x == Frame(outer)
             y == Frame(l)
             k == SetLast(outer, FullIn(outer[Len(outer)], l))
             z == Frame(k)
  <2>1. stack = <<x, y>> BY <1>9 DEF Frames
  <2>2. x.list = outer /\ [x EXCEPT !.list = k] = z BY FrameIs
  <2>3. Frames(<<>>, k) = <<z>> BY DEF Frames
  <2> HIDE DEF x, y, z
  <2>4. Outer = <<x>> /\ Len(Outer) = 1
    <3>1. SubSeq(<<x, y>>, 1, 1) = <<x>>
      <4> DEFINE s == <<x, y>>
                 t == <<x>>
      <4>1. s \in Seq({x, y}) /\ Len(s) = 2 /\ s[1] = x OBVIOUS
      <4>2. t \in Seq({x, y}) /\ Len(t) = 1 /\ t[1] = x OBVIOUS
      <4> HIDE DEF s, t
      <4>3. SubSeq(s, 1, 1) \in Seq({x, y}) /\ Len(SubSeq(s, 1, 1)) = 1
            /\ SubSeq(s, 1, 1)[1] = x
        BY <4>1
      <4>4. SubSeq(s, 1, 1) = t BY <4>2, <4>3, SeqEqual
      <4> QED BY <4>4 DEF s, t
    <3>2. Len(<<x, y>>) - 1 = 1 /\ Len(<<x>>) = 1 OBVIOUS
    <3> QED BY <2>1, <3>1, <3>2 DEF Outer
  <2>5. /\ stack' = [Outer EXCEPT ![Len(Outer)].list = SetLast(@, FullIn(@[Len(@)], l))]
        /\ root' = root
    BY <1>5, <1>8, <1>9
  <2>6. stack' = [<<x>> EXCEPT ![1].list = SetLast(@, FullIn(@[Len(@)], l))]
    BY <2>4, <2>5
  <2>7. <<x>>[1].list = outer BY <2>2
  <2>8. stack' = [<<x>> EXCEPT ![1].list = k] BY <2>6, <2>7
  <2> HIDE DEF k
  <2>9. [<<x>> EXCEPT ![1].list = k] = <<[x EXCEPT !.list = k]>> OBVIOUS
  <2>10. stack' = Frames(<<>>, k) BY <2>2, <2>3, <2>8, <2>9
  <2> QED BY <2>5, <2>10 DEF k, Closed
<1>10. Len(stack) = 1 => stack' = <<>> /\ root' = FullIn(root, l) BY <1>8
<1>11. Len(stack) = 2 => stack' = Frames(<<>>, Closed(outer, l)) /\ root' = root
  <2>1. outer = <<>> => Len(stack) = 1 BY <1>5
  <2> QED BY <1>9, <2>1
<1> QED BY <1>1, <1>3, <1>8, <1>10, <1>11

LEMMA FirstByte ==
    ASSUME text \in Seq(Nat), NEW o \in Nat, NEW F, NEW V, NEW pos, Laid(text, o, F, V, pos)
    PROVE  o < Length /\ Byte(o) = Open["Object"]
<1>1. Open["Object"] \in Nat BY DEF Open
<1> QED BY <1>1, ByteFirst DEF Laid

\* An object is opened, up to its first field.
LEMMA OpenStep ==
    ASSUME text \in Seq(Nat), NEW m, Sendable(m), NEW F, NEW V, ObjectOf(m, F, V), Len(F) >= 1,
           NEW o \in Nat, NEW pos, Laid(text, o, F, V, pos), offset = o, spc = "idle", NEW C,
           ParseList("Object") \/ ParseEmpty("Object")
    PROVE  /\ stack' = Append(stack, Frame(<<>>)) /\ depth' = depth + 1
           /\ Inside(m, F, V, pos, C, <<>>)' /\ UNCHANGED <<text, root, fresh, doomed>>
<1>1. F \in Seq(Fields) /\ 1 \in 1 .. Len(F)
  <2>1. F \in Seq(Fields) BY ObjectOfIs
  <2> QED BY <2>1
<1>2. pos[1] = o + 1 /\ pos[1] \in Nat /\ pos[1] < Length /\ Byte(pos[1]) = Quote
  <2>1. pos[1] = o + 1 BY DEF Laid
  <2> QED BY <1>1, <2>1, LaidBytes
<1>3. SkipWhitespace(offset + 1) = o + 1
  <2>1. Byte(pos[1]) > 32 BY <1>2 DEF Quote
  <2> QED BY <1>2, <2>1, SpaceSkipped
<1>4. Quote # Close["Object"] BY DEF Quote, Close
<1>5. ~ ParseEmpty("Object") BY <1>2, <1>3, <1>4 DEF ParseEmpty
<1>6. /\ stack' = Append(stack, Frame(<<>>)) /\ depth' = depth + 1 /\ offset' = (o + 1) - 1
      /\ pc' = "item" /\ UNCHANGED <<text, spc, root, fresh, doomed>>
  BY <1>3, <1>5 DEF ParseList, BeginList, Frame, Goto, str
<1>7. offset' = o BY <1>6
<1>8. Inside(m, F, V, pos, C, <<>>)'
  <2>1. <<>> \in Seq(Items(C)) /\ Len(<<>>) = 0 OBVIOUS
  <2>2. Read(m, F, <<>>, 0) BY DEF Read
  <2>3. 0 < Len(F) /\ 0 + 1 = 1 BY <1>1
  <2> QED BY <1>2, <1>6, <1>7, <2>1, <2>2, <2>3 DEF Inside
<1> QED BY <1>6, <1>8

\* An object without fields.
LEMMA EmptyStep ==
    ASSUME text \in Seq(Nat), NEW F, NEW V, Len(F) = 0,
           NEW o \in Nat, NEW pos, Laid(text, o, F, V, pos), offset = o, spc = "idle",
           ParseList("Object") \/ ParseEmpty("Object")
    PROVE  /\ Fill(EmptyIn(Current)) /\ offset' = o + Len(ObjectBytes(F, V)) /\ pc' = "after"
           /\ UNCHANGED <<text, spc, depth, fresh, doomed>>
<1>1. /\ pos[1] = o + 1 /\ Holds(text, pos[1], <<Close["Object"]>>)
      /\ pos[1] + 1 = o + Len(ObjectBytes(F, V))
  <2>1. Len(F) + 1 = 1 OBVIOUS
  <2> QED BY <2>1 DEF Laid
<1>2. o + 1 < Length /\ Byte(o + 1) = Close["Object"]
  <2>1. Close["Object"] \in Nat /\ o + 1 \in Nat BY DEF Close
  <2> QED BY <1>1, <2>1, ByteFirst
<1>3. SkipWhitespace(offset + 1) = o + 1
  <2>1. Byte(o + 1) > 32 BY <1>2 DEF Close
  <2> QED BY <1>2, <2>1, SpaceSkipped
<1>4. ~ ParseList("Object") BY <1>2, <1>3 DEF ParseList, BeginList
<1> QED BY <1>1, <1>3, <1>4 DEF ParseEmpty, EmptyIn, Goto, str

\* The data of a message.
LEMMA DataStep ==
    ASSUME text \in Seq(Nat), NEW m, Sendable(m), NEW pos, Laid(text, 0, RootFields, RootValues(m), pos),
           NEW sub, NEW c \in Nat, c = ValueAt(RootFields, pos, 2),
           Laid(text, c, DataFields(m.type), DataValues(m), sub),
           NEW l, stack = Frames(<<>>, l),
           Inside(m, RootFields, RootValues(m), pos, Seq(Leaf), l),
           fresh \in Nat, pc = "value", RootFields[Len(l)] = "data",
           ParseList("Object") \/ ParseEmpty("Object")
    PROVE  /\ fresh' \in Nat /\ UNCHANGED <<text, root, doomed>>
           /\ \/ /\ \E k : /\ stack' = Frames(<<>>, k)
                          /\ Inside(m, RootFields, RootValues(m), pos, Seq(Leaf), k)'
                 /\ depth' = depth
              \/ /\ stack' = Frames(l, <<>>) /\ depth' = depth + 1 /\ Len(l) = 2
                 /\ l \in Seq(Node) /\ Read(m, RootFields, l, 1) /\ l[2].child = <<>>
                 /\ l[2].name.bytes = Name["data"]
                 /\ Inside(m, DataFields(m.type), DataValues(m), sub, {<<>>}, <<>>)'
<1> DEFINE n == Len(l)
           D == DataFields(m.type)
           W == DataValues(m)
           V == RootValues(m)
           C == Seq(Leaf)
           outer == <<>>
<1>1. /\ l \in Seq(Items(C)) /\ n \in 1 .. Len(RootFields) /\ Read(m, RootFields, l, n - 1)
      /\ l[n].child = <<>> /\ l[n].name.bytes = Name[RootFields[n]]
      /\ spc = "idle" /\ offset = ValueAt(RootFields, pos, n)
  BY DEF Inside
<1>2. n = 2
  <2>1. n \in {1, 2, 3} BY <1>1, RootFieldsAre
  <2> QED BY <2>1, RootFieldsAre
<1>3. ObjectOf(m, D, W) /\ offset = c BY <1>1, <1>2 DEF ObjectOf
<1>4. D \in Seq(Fields) /\ Len(D) \in Nat
  <2>1. D \in Seq(Fields) BY DataFieldsAre
  <2> QED BY <2>1
<1> HIDE DEF D, W
<1>5. CASE Len(D) >= 1
  <2>1. /\ stack' = Append(stack, Frame(<<>>)) /\ depth' = depth + 1
        /\ Inside(m, D, W, sub, {<<>>}, <<>>)' /\ UNCHANGED <<text, root, fresh, doomed>>
    <3>1. Laid(text, c, D, W, sub) BY DEF D, W
    <3> QED BY <1>1, <1>3, <1>5, <3>1, OpenStep
  <2>2. stack' = Frames(l, <<>>)
    <3> DEFINE x == Frame(l)
               y == Frame(<<>>)
    <3>1. stack = <<x>> BY DEF Frames
    <3>2. l # <<>>
      <4>1. Len(<<>>) = 0 /\ Len(l) = 2 BY <1>2
      <4>2. ASSUME l = <<>> PROVE Len(l) = Len(<<>>) BY <4>2
      <4>3. 0 # 2 OBVIOUS
      <4> QED BY <4>1, <4>2, <4>3
    <3>3. Frames(l, <<>>) = <<x, y>> BY <3>2 DEF Frames
    <3>4. stack' = Append(<<x>>, y) BY <2>1, <3>1
    <3> HIDE DEF x, y
    <3> QED BY <3>3, <3>4
  <2>3. Read(m, RootFields, l, 1) /\ l[2].child = <<>> /\ l[2].name.bytes = Name["data"]
    <3>1. n - 1 = 1 BY <1>2
    <3> QED BY <1>1, <1>2, <3>1
  <2>4. fresh' \in Nat BY <2>1
  <2> QED BY <1>1, <1>2, <2>1, <2>2, <2>3, <2>4 DEF D, W, Node
<1>6. CASE Len(D) = 0
  <2>1. /\ Fill(EmptyIn(Current)) /\ offset' = c + Len(ObjectBytes(D, W)) /\ pc' = "after"
        /\ UNCHANGED <<text, spc, depth, fresh, doomed>>
    <3>1. Laid(text, c, D, W, sub) BY DEF D, W
    <3> QED BY <1>1, <1>3, <1>6, <3>1, EmptyStep
  <2> DEFINE x == EmptyIn(l[n])
             k == SetLast(l, x)
  <2>2. Current = l[n] BY FramesAre
  <2>3. /\ x \in Items(C) /\ x.type = "Object" /\ x.name = l[n].name /\ x.child = l[n].child
    <3>1. n \in 1 .. Len(l) BY <1>2
    <3>2. l[n] \in Items(C) BY <1>1, <3>1, SeqIs
    <3> QED BY <3>2, EmptyItem
  <2>4. stack' = Frames(outer, k) /\ root' = root
    <3>1. Fill(x) BY <2>1, <2>2
    <3> HIDE DEF x
    <3> QED BY <3>1, FramesFill
  <2> HIDE DEF x
  <2>5. /\ k \in Seq(Items(C)) /\ Len(k) = n /\ k[n] = x
        /\ \A j \in 1 .. n - 1 : k[j] = l[j]
    <3>1. l \in Seq(Items(C)) /\ n >= 1 BY <1>1, <1>2
    <3>2. x \in Items(C) BY <2>3
    <3> QED BY <3>1, <3>2, SetLastIs
  <2> HIDE DEF k
  <2>6. Read(m, RootFields, k, n)
    <3>1. Read(m, RootFields, k, n - 1) BY <1>1, <2>5, ReadSame
    <3>2. LikeData(m, k[n])
      <4>1. x.child = <<>> /\ Len(<<>>) = 0 BY <1>1, <2>3
      <4>2. k[n].type = "Object" /\ Len(k[n].child) = 0 BY <2>3, <2>5, <4>1
      <4>3. Len(DataFields(m.type)) = 0 BY <1>6 DEF D
      <4> QED BY <4>2, <4>3 DEF LikeData
    <3>3. Like(m, RootFields[n], k[n]) BY <3>2 DEF Like
    <3>4. k[n].name.bytes = Name[RootFields[n]] BY <1>1, <2>3, <2>5
    <3>5. n \in Nat /\ n >= 1 BY <1>2
    <3> QED BY <3>1, <3>3, <3>4, <3>5, ReadMore
  <2>7. offset' = EndAt(RootFields, V, pos, n)
    <3>1. V["data"] = ObjectBytes(D, W) BY ValuesTyped DEF D, W
    <3>2. EndAt(RootFields, V, pos, n) = c + Len(V[RootFields[n]]) BY <1>2 DEF EndAt
    <3> QED BY <2>1, <3>1, <3>2
  <2>8. Inside(m, RootFields, V, pos, C, k)'
    <3>1. spc' = "idle" BY <1>1, <2>1
    <3> QED BY <1>1, <2>1, <2>5, <2>6, <2>7, <3>1 DEF Inside
  <2>9. fresh' \in Nat BY <2>1
  <2> QED BY <2>1, <2>4, <2>8, <2>9
<1> QED BY <1>4, <1>5, <1>6

\* A step in an object, but for those that open or close one.
LEMMA LevelStep ==
    ASSUME text \in Seq(Nat), NEW m, Sendable(m), NEW F, NEW V, ObjectOf(m, F, V),
           NEW o \in Nat, NEW pos, Laid(text, o, F, V, pos),
           NEW C, <<>> \in C, NEW outer, NEW l, stack = Frames(outer, l), Inside(m, F, V, pos, C, l),
           fresh \in Nat, doomed = <<>>, ~ AllocFails, NumberSize \in Nat, NumberSize >= 11, Next
    PROVE  \/ /\ \E k : stack' = Frames(outer, k) /\ Inside(m, F, V, pos, C, k)'
              /\ fresh' \in Nat /\ UNCHANGED <<text, depth, root, doomed>>
           \/ /\ pc = "value" /\ F[Len(l)] = "data"
              /\ depth < NestingLimit => ParseList("Object") \/ ParseEmpty("Object")
           \/ /\ pc = "after" /\ Len(l) = Len(F)
              /\ NextElement \/ EndOfList \/ ListFails \/ Succeed
<1> DEFINE n == Len(l)
           Stays == /\ \E k : stack' = Frames(outer, k) /\ Inside(m, F, V, pos, C, k)'
                    /\ fresh' \in Nat /\ UNCHANGED <<text, depth, root, doomed>>
<1>1. CASE pc = "item"
  <2>1. NextItem BY <1>1, NextAt
  <2>2. Stays BY <1>1, <2>1, ItemStep
  <2> QED BY <2>2
<1>2. CASE pc = "name"
  <2>1. ParseName \/ StringLoops \/ NameParsed \/ StringFails BY <1>2, NextAt
  <2>2. Stays BY <1>2, <2>1, NameStep
  <2> QED BY <2>2
<1>3. CASE pc = "string"
  <2>1. StringLoops \/ StringParsed \/ StringFails BY <1>3, NextAt
  <2>2. Stays BY <1>3, <2>1, TextStep
  <2> QED BY <2>2
<1>4. CASE pc = "after"
  <2>1. NextElement \/ EndOfList \/ ListFails \/ Succeed BY <1>4, NextAt
  <2>2. Stays \/ Len(l) = Len(F)
    <3> HIDE DEF Stays
    <3>1. Len(l) # Len(F) => Stays BY <1>4, <2>1, NextStep DEF Stays
    <3> QED BY <3>1
  <2> QED BY <1>4, <2>1, <2>2
<1>5. CASE pc = "value"
  <2>1. \/ ParseLiteral \/ parse_number \/ BeginString \/ ValueFails
        \/ \E k \in {"Array", "Object"} : ParseList(k) \/ ParseEmpty(k)
    BY <1>5, NextAt
  <2>2. n \in 1 .. Len(F) /\ offset = ValueAt(F, pos, n) BY <1>5 DEF Inside
  <2>c. PICK c : c = V[F[n]][1] OBVIOUS
  <2>3. offset \in Nat /\ Byte(offset) = c BY <2>c, <2>2, LaidBytes
  <2>4. /\ c = Quote => BeginString
        /\ c \in 48..57 \cup {45} /\ IsNumber /\ Digits > 0 => parse_number
        /\ c = Open["Object"] /\ depth < NestingLimit => ParseList("Object") \/ ParseEmpty("Object")
    BY <2>1, <2>3, ValueBy
  <2>f. PICK f : f = F[n] OBVIOUS
  <2>5. \/ /\ f \in {"version", "valve_no"} /\ V[f] = PrintNumber(NumberOf(m, f))
           /\ NumberOf(m, f) \in IntMin .. IntMax
        \/ /\ f \in {"type", "message"}
           /\ V[f] = Quoted(StringOf(m, f)) /\ StringOf(m, f) \in Seq(1..255)
        \/ f = "data" /\ V[f][1] = Open["Object"]
    BY <2>2, <2>f, ObjectOfIs
  <2>6. CASE f \in {"version", "valve_no"} /\ V[f] = PrintNumber(NumberOf(m, f))
             /\ NumberOf(m, f) \in IntMin .. IntMax
    <3>1. /\ IsNumber /\ Digits > 0
          /\ parse_number => Stays
      BY <1>5, <2>f, <2>6, NumberStep
    <3>2. c \in 48..57 \cup {45} BY <2>c, <2>f, <2>6, NumberFirst
    <3> HIDE DEF Stays
    <3>3. Stays BY <2>4, <3>1, <3>2
    <3> QED BY <3>3 DEF Stays
  <2>7. CASE f \in {"type", "message"} /\ V[f] = Quoted(StringOf(m, f))
             /\ StringOf(m, f) \in Seq(1..255)
    <3>1. c = Quote BY <2>c, <2>f, <2>7, QuotedFirst
    <3>2. Stays BY <1>5, <2>4, <2>f, <2>7, <3>1, TextStep
    <3> QED BY <3>2
  <2>8. CASE f = "data" /\ V[f][1] = Open["Object"]
    <3>1. c = Open["Object"] BY <2>c, <2>f, <2>8
    <3> QED BY <1>5, <2>4, <2>f, <2>8, <3>1
  <2> QED BY <2>5, <2>6, <2>7, <2>8
<1> QED BY <1>1, <1>2, <1>3, <1>4, <1>5 DEF Inside

\* The tree of a message.
Whole(m, r) == r.child \in Seq(Node) /\ Len(r.child) = 3 /\ Read(m, RootFields, r.child, 3)
\* The parser is in front of the root object, in it, in the data, or behind all.
Stage(m, pos, sub) ==
    \/ /\ pc \in {"start", "value"} /\ stack = <<>> /\ depth = 0 /\ spc = "idle" /\ offset = 0
       /\ pc = "value" => root \in Leaf
    \/ /\ root \in Leaf /\ depth = 1
       /\ \E l : /\ stack = Frames(<<>>, l)
                 /\ Inside(m, RootFields, RootValues(m), pos, Seq(Leaf), l)
    \/ /\ root \in Leaf /\ depth = 2
       /\ \E up, l : /\ up \in Seq(Node) /\ Len(up) = 2 /\ Read(m, RootFields, up, 1)
                     /\ up[2].name.bytes = Name["data"] /\ up[2].child = <<>>
                     /\ stack = Frames(up, l)
                     /\ Inside(m, DataFields(m.type), DataValues(m), sub, {<<>>}, l)
    \/ pc \in {"after", "done"} /\ stack = <<>> /\ spc = "idle" /\ Whole(m, root)
Path(m) ==
    /\ text = Encoded(m) \o <<0>> /\ doomed = <<>> /\ fresh \in Nat
    /\ \E pos, sub :
         /\ Laid(text, 0, RootFields, RootValues(m), pos)
         /\ Laid(text, ValueAt(RootFields, pos, 2), DataFields(m.type), DataValues(m), sub)
         /\ Stage(m, pos, sub)

LEMMA EncodedFirst ==
    ASSUME NEW m, Sendable(m)
    PROVE  Encoded(m) \in Seq(Nat) /\ Len(Encoded(m)) >= 1 /\ Encoded(m)[1] = Open["Object"]
<1>1. RootFields \in Seq(Fields) BY RootFieldsAre
<1>2. \A f \in ToSet(RootFields) : RootValues(m)[f] \in Seq(Nat) BY ValuesTyped
<1> QED BY <1>1, <1>2, ObjectFirst DEF Encoded

\* In front of the root object.
LEMMA StartStep ==
    ASSUME text \in Seq(Nat), NEW m, Sendable(m), NEW pos, NEW sub,
           Laid(text, 0, RootFields, RootValues(m), pos), text[1] = Open["Object"],
           stack = <<>>, depth = 0, spc = "idle", offset = 0, pc \in {"start", "value"},
           pc = "value" => root \in Leaf,
           fresh \in Nat, doomed = <<>>, ~ AllocFails, NestingLimit \in Nat, NestingLimit >= 2, Next
    PROVE  Stage(m, pos, sub)' /\ fresh' \in Nat /\ UNCHANGED <<text, doomed>>
<1>1. 0 < Length /\ Byte(0) = Open["Object"] BY FirstByte
<1>2. CASE pc = "start"
  <2>1. cJSON_Parse BY <1>2, NextAt
  <2>2. AfterBom = 0
    <3>1. text[1] # 239 BY DEF Open
    <3>2. ASSUME SubSeq(text, 1, 3) = <<239, 187, 191>>, Length > 4 PROVE FALSE
      <4>1. SubSeq(text, 1, 3)[1] = text[1] BY <3>2 DEF Length
      <4>2. <<239, 187, 191>>[1] = 239 OBVIOUS
      <4>3. SubSeq(text, 1, 3)[1] = <<239, 187, 191>>[1] BY <3>2
      <4> QED BY <3>1, <4>1, <4>2, <4>3
    <3> QED BY <3>2 DEF AfterBom
  <2>3. SkipWhitespace(0) = 0
    <3>1. Byte(0) > 32 BY <1>1 DEF Open
    <3> QED BY <1>1, <3>1, SpaceSkipped
  <2>b. PICK b : b = fresh OBVIOUS
  <2>4. /\ root' = NewItem(b) /\ offset' = 0 /\ pc' = "value" /\ fresh' = fresh + 1
        /\ UNCHANGED <<text, spc, depth, stack, doomed>>
    BY <2>1, <2>2, <2>3, <2>b DEF cJSON_Parse, Malloc, Skip, Goto, str
  <2>5. root' \in Leaf BY <2>b, <2>4, NewItemIs
  <2>6. Stage(m, pos, sub)' BY <2>4, <2>5 DEF Stage
  <2> QED BY <2>4, <2>6
<1>3. CASE pc = "value"
  <2>1. \/ ParseLiteral \/ parse_number \/ BeginString \/ ValueFails
        \/ \E k \in {"Array", "Object"} : ParseList(k) \/ ParseEmpty(k)
    BY <1>3, NextAt
  <2>2. offset \in Nat /\ Byte(offset) = Open["Object"] /\ depth < NestingLimit BY <1>1
  <2>3. ParseList("Object") \/ ParseEmpty("Object")
    <3>c. PICK c : c = Open["Object"] OBVIOUS
    <3> QED BY <2>1, <2>2, <3>c, ValueBy
  <2>4. ObjectOf(m, RootFields, RootValues(m)) /\ Len(RootFields) >= 1
    BY RootFieldsAre DEF ObjectOf
  <2>5. /\ stack' = Append(stack, Frame(<<>>)) /\ depth' = depth + 1
        /\ Inside(m, RootFields, RootValues(m), pos, Seq(Leaf), <<>>)'
        /\ UNCHANGED <<text, root, fresh, doomed>>
    <3>1. 0 \in Nat OBVIOUS
    <3> QED BY <2>3, <2>4, <3>1, OpenStep
  <2>6. stack' = Frames(<<>>, <<>>)
    <3> DEFINE x == Frame(<<>>)
    <3>1. Frames(<<>>, <<>>) = <<x>> BY DEF Frames
    <3> HIDE DEF x
    <3>2. Append(<<>>, x) = <<x>> OBVIOUS
    <3> QED BY <2>5, <3>1, <3>2 DEF x
  <2>7. root' \in Leaf /\ depth' = 1 /\ fresh' \in Nat BY <1>3, <2>5
  <2>8. Stage(m, pos, sub)' BY <2>5, <2>6, <2>7 DEF Stage
  <2> QED BY <2>5, <2>7, <2>8
<1> QED BY <1>2, <1>3

LEMMA NodeFull ==
    ASSUME NEW x \in Node, NEW l \in Seq(Leaf)
    PROVE  /\ FullIn(x, l) \in Node /\ FullIn(x, l).type = "Object"
           /\ FullIn(x, l).child = l /\ FullIn(x, l).name = x.name
  BY FullItem DEF Node

\* In the root object.
LEMMA RootStep ==
    ASSUME text \in Seq(Nat), NEW m, Sendable(m), NEW pos, NEW sub,
           Laid(text, 0, RootFields, RootValues(m), pos),
           Laid(text, ValueAt(RootFields, pos, 2), DataFields(m.type), DataValues(m), sub),
           NEW l, stack = Frames(<<>>, l), Inside(m, RootFields, RootValues(m), pos, Seq(Leaf), l),
           root \in Leaf, depth = 1, fresh \in Nat, doomed = <<>>, ~ AllocFails,
           NestingLimit \in Nat, NestingLimit >= 2, NumberSize \in Nat, NumberSize >= 11, Next
    PROVE  Stage(m, pos, sub)' /\ fresh' \in Nat /\ UNCHANGED <<text, doomed>>
<1> DEFINE F == RootFields
           V == RootValues(m)
           C == Seq(Leaf)
           outer == <<>>
<1>1. ObjectOf(m, F, V) /\ <<>> \in C /\ 0 \in Nat BY DEF ObjectOf
<1>2. \/ /\ \E k : stack' = Frames(outer, k) /\ Inside(m, F, V, pos, C, k)'
         /\ fresh' \in Nat /\ UNCHANGED <<text, depth, root, doomed>>
      \/ /\ pc = "value" /\ F[Len(l)] = "data"
         /\ depth < NestingLimit => ParseList("Object") \/ ParseEmpty("Object")
      \/ /\ pc = "after" /\ Len(l) = Len(F)
         /\ NextElement \/ EndOfList \/ ListFails \/ Succeed
  <2> HIDE DEF C, outer
  <2>1. stack = Frames(outer, l) /\ Inside(m, F, V, pos, C, l) BY DEF C, outer
  <2> HIDE DEF F, V
  <2>2. Laid(text, 0, F, V, pos) BY DEF F, V
  <2> QED BY <1>1, <2>1, <2>2, LevelStep
<1>3. ASSUME NEW k, stack' = Frames(outer, k), Inside(m, F, V, pos, C, k)',
             fresh' \in Nat, UNCHANGED <<text, depth, root, doomed>>
      PROVE  Stage(m, pos, sub)' /\ fresh' \in Nat /\ UNCHANGED <<text, doomed>>
  <2>1. root' \in Leaf /\ depth' = 1 BY <1>3
  <2>2. Stage(m, pos, sub)' BY <1>3, <2>1 DEF Stage
  <2> QED BY <1>3, <2>2
<1>4. CASE pc = "value" /\ F[Len(l)] = "data" /\ (ParseList("Object") \/ ParseEmpty("Object"))
  <2>c. PICK c : c = ValueAt(RootFields, pos, 2) OBVIOUS
  <2>1. c \in Nat
    <3>1. 2 \in 1 .. Len(F) BY RootFieldsAre
    <3> QED BY <1>1, <2>c, <3>1, LaidBytes
  <2>2. Laid(text, c, DataFields(m.type), DataValues(m), sub) BY <2>c
  <2>3. /\ fresh' \in Nat /\ UNCHANGED <<text, root, doomed>>
        /\ \/ /\ \E k : stack' = Frames(outer, k) /\ Inside(m, F, V, pos, C, k)'
              /\ depth' = depth
           \/ /\ stack' = Frames(l, <<>>) /\ depth' = depth + 1 /\ Len(l) = 2
              /\ l \in Seq(Node) /\ Read(m, F, l, 1) /\ l[2].child = <<>>
              /\ l[2].name.bytes = Name["data"]
              /\ Inside(m, DataFields(m.type), DataValues(m), sub, {<<>>}, <<>>)'
    BY <1>4, <2>c, <2>1, <2>2, DataStep
  <2>4. CASE depth' = depth /\ \E k : stack' = Frames(outer, k) /\ Inside(m, F, V, pos, C, k)'
    BY <1>3, <2>3, <2>4
  <2>5. CASE /\ stack' = Frames(l, <<>>) /\ depth' = depth + 1 /\ Len(l) = 2
             /\ l \in Seq(Node) /\ Read(m, F, l, 1) /\ l[2].child = <<>>
             /\ l[2].name.bytes = Name["data"]
             /\ Inside(m, DataFields(m.type), DataValues(m), sub, {<<>>}, <<>>)'
    <3>1. depth' = 2 /\ root' \in Leaf BY <2>3, <2>5
    <3>2. Stage(m, pos, sub)' BY <2>5, <3>1 DEF Stage
    <3> QED BY <2>3, <3>2
  <2> QED BY <2>3, <2>4, <2>5
<1>5. CASE pc = "after" /\ Len(l) = Len(F) /\ (NextElement \/ EndOfList \/ ListFails \/ Succeed)
  <2>1. /\ Read(m, F, l, Len(F)) /\ l \in Seq(Items(C))
        /\ spc = "idle" /\ UNCHANGED <<text, pc, spc, fresh, doomed>>
        /\ stack' = <<>> /\ root' = FullIn(root, l)
    <3> HIDE DEF C, outer, F, V
    <3>1. /\ stack = Frames(outer, l) /\ Inside(m, F, V, pos, C, l)
          /\ Laid(text, 0, F, V, pos)
      BY DEF C, outer, F, V
    <3>2. Len(stack) = 1 BY <3>1, FramesAre DEF outer
    <3> QED BY <1>1, <1>5, <3>1, <3>2, LastStep, ZenonT(60)
  <2>2. Len(l) = 3 /\ Len(F) = 3 BY <1>5, RootFieldsAre
  <2>3. l \in Seq(Node) BY <2>1 DEF Node
  <2>4. root'.type = "Object" /\ root'.child = l
    <3>1. root \in Items({<<>>}) BY DEF Leaf
    <3>2. FullIn(root, l).type = "Object" /\ FullIn(root, l).child = l BY <2>3, <3>1, FullItem
    <3> QED BY <2>1, <3>2
  <2>5. Whole(m, root)' BY <2>1, <2>2, <2>3, <2>4 DEF Whole
  <2>6. Stage(m, pos, sub)' BY <1>5, <2>1, <2>5 DEF Stage
  <2> QED BY <2>1, <2>6
<1>6. depth < NestingLimit OBVIOUS
<1> QED BY <1>2, <1>3, <1>4, <1>5, <1>6

\* The end of its data.
LEMMA InnerLast ==
    ASSUME text \in Seq(Nat), NEW m, Sendable(m), NEW c \in Nat, NEW sub,
           Laid(text, c, DataFields(m.type), DataValues(m), sub),
           NEW up, Len(stack) = 2, NEW l, stack = Frames(up, l),
           Inside(m, DataFields(m.type), DataValues(m), sub, {<<>>}, l),
           pc = "after", Len(l) = Len(DataFields(m.type)),
           NextElement \/ EndOfList \/ ListFails \/ Succeed
    PROVE  /\ Read(m, DataFields(m.type), l, Len(DataFields(m.type))) /\ l \in Seq(Leaf)
           /\ spc = "idle" /\ offset' = c + Len(ObjectBytes(DataFields(m.type), DataValues(m)))
           /\ depth' = depth - 1
           /\ UNCHANGED <<text, pc, spc, fresh, doomed>>
           /\ stack' = Frames(<<>>, Closed(up, l))
           /\ root' = root
<1>1. ObjectOf(m, DataFields(m.type), DataValues(m)) BY DEF ObjectOf
<1>2. /\ Read(m, DataFields(m.type), l, Len(DataFields(m.type))) /\ l \in Seq(Items({<<>>}))
      /\ spc = "idle" /\ offset' = c + Len(ObjectBytes(DataFields(m.type), DataValues(m)))
      /\ depth' = depth - 1
      /\ UNCHANGED <<text, pc, spc, fresh, doomed>>
      /\ stack' = Frames(<<>>, Closed(up, l))
      /\ root' = root
  BY <1>1, LastStep, SMTT(30)
<1> QED BY <1>2 DEF Leaf

LEMMA SetSecond ==
    ASSUME NEW A, NEW l \in Seq(A), Len(l) = 2, NEW x \in A
    PROVE  /\ SetLast(l, x) \in Seq(A) /\ Len(SetLast(l, x)) = 2
           /\ SetLast(l, x)[2] = x /\ SetLast(l, x)[1] = l[1]
  BY DEF SetLast

\* In its data.
LEMMA InnerStep ==
    ASSUME text \in Seq(Nat), NEW m, Sendable(m), NEW pos, NEW sub,
           Laid(text, 0, RootFields, RootValues(m), pos),
           Laid(text, ValueAt(RootFields, pos, 2), DataFields(m.type), DataValues(m), sub),
           NEW up \in Seq(Node), Len(up) = 2, Read(m, RootFields, up, 1),
           up[2].name.bytes = Name["data"], up[2].child = <<>>,
           NEW l, stack = Frames(up, l), Inside(m, DataFields(m.type), DataValues(m), sub, {<<>>}, l),
           root \in Leaf, depth = 2, fresh \in Nat, doomed = <<>>, ~ AllocFails,
           NumberSize \in Nat, NumberSize >= 11, Next
    PROVE  Stage(m, pos, sub)' /\ fresh' \in Nat /\ UNCHANGED <<text, doomed>>
<1> DEFINE F == DataFields(m.type)
           V == DataValues(m)
           C == {<<>>}
<1>c. PICK c : c = ValueAt(RootFields, pos, 2) OBVIOUS
<1>1. ObjectOf(m, F, V) /\ <<>> \in C BY DEF ObjectOf
<1>2. c \in Nat /\ EndAt(RootFields, RootValues(m), pos, 2) = c + Len(RootValues(m)["data"])
  <2>1. 2 \in 1 .. Len(RootFields) /\ RootFields[2] = "data" BY RootFieldsAre
  <2>2. ObjectOf(m, RootFields, RootValues(m)) /\ 0 \in Nat BY DEF ObjectOf
  <2> QED BY <1>c, <2>1, <2>2, LaidBytes
<1>3. \/ /\ \E k : stack' = Frames(up, k) /\ Inside(m, F, V, sub, C, k)'
         /\ fresh' \in Nat /\ UNCHANGED <<text, depth, root, doomed>>
      \/ pc = "value" /\ F[Len(l)] = "data"
      \/ /\ pc = "after" /\ Len(l) = Len(F)
         /\ NextElement \/ EndOfList \/ ListFails \/ Succeed
  <2> HIDE DEF C
  <2>1. Inside(m, F, V, sub, C, l) BY DEF C
  <2> HIDE DEF F, V
  <2>2. Laid(text, c, F, V, sub) BY <1>c DEF F, V
  <2> QED BY <1>1, <1>2, <2>1, <2>2, LevelStep
<1>4. CASE /\ \E k : stack' = Frames(up, k) /\ Inside(m, F, V, sub, C, k)'
           /\ fresh' \in Nat /\ UNCHANGED <<text, depth, root, doomed>>
  <2>1. root' \in Leaf /\ depth' = 2 BY <1>4
  <2>2. Stage(m, pos, sub)' BY <1>4, <2>1 DEF Stage
  <2> QED BY <1>4, <2>2
<1>5. ~ (pc = "value" /\ F[Len(l)] = "data")
  <2> SUFFICES ASSUME pc = "value", F[Len(l)] = "data" PROVE FALSE OBVIOUS
  <2>1. Len(l) \in 1 .. Len(F) BY DEF Inside
  <2>2. F[Len(l)] \in ToSet(F) BY <1>1, <2>1, ObjectOfIs
  <2>3. ToSet(F) \subseteq {"message", "valve_no"} BY DataFieldsAre
  <2> QED BY <2>2, <2>3
<1>6. CASE pc = "after" /\ Len(l) = Len(F) /\ (NextElement \/ EndOfList \/ ListFails \/ Succeed)
  <2>n. Len(stack) = 2
    <3>1. ASSUME up = <<>> PROVE Len(up) = Len(<<>>) BY <3>1
    <3>2. Len(<<>>) = 0 /\ 0 # 2 OBVIOUS
    <3>3. up # <<>> BY <3>1, <3>2
    <3> QED BY <3>3, FramesAre
  <2>1. /\ Read(m, F, l, Len(F)) /\ l \in Seq(Leaf)
        /\ spc = "idle" /\ offset' = c + Len(ObjectBytes(F, V)) /\ depth' = depth - 1
        /\ UNCHANGED <<text, pc, spc, fresh, doomed>>
        /\ stack' = Frames(<<>>, Closed(up, l))
        /\ root' = root
    <3>1. Laid(text, c, DataFields(m.type), DataValues(m), sub) BY <1>c
    <3> QED BY <1>2, <1>6, <2>n, <3>1, InnerLast
  <2> DEFINE x == FullIn(up[2], l)
             k == SetLast(up, x)
  <2>2. /\ x \in Node /\ x.type = "Object" /\ x.child = l /\ x.name = up[2].name
    <3>1. up[2] \in Node
      <4>1. 2 \in 1 .. Len(up) OBVIOUS
      <4> QED BY <4>1, SeqIs
    <3> QED BY <2>1, <3>1, NodeFull
  <2>3. stack' = Frames(<<>>, k) BY <2>1 DEF Closed
  <2> HIDE DEF x
  <2>4. k \in Seq(Node) /\ Len(k) = 2 /\ k[2] = x /\ k[1] = up[1]
    <3>1. x \in Node BY <2>2
    <3> QED BY <3>1, SetSecond
  <2> HIDE DEF k
  <2>5. Read(m, RootFields, k, 2)
    <3>1. Read(m, RootFields, k, 1)
      <4>1. \A j \in 1 .. 1 : k[j] = up[j] BY <2>4
      <4> QED BY <4>1, ReadSame
    <3>2. LikeData(m, x)
      <4>1. \A j \in 1 .. Len(l) : /\ l[j].name.bytes = Name[F[j]] /\ Like(m, F[j], l[j])
        BY <1>6, <2>1 DEF Read
      <4>2. \A j \in 1 .. Len(l) : LikeScalar(m, F[j], l[j])
        <5> SUFFICES ASSUME NEW j \in 1 .. Len(l) PROVE LikeScalar(m, F[j], l[j]) OBVIOUS
        <5>1. F[j] \in ToSet(F) BY <1>1, <1>6, ObjectOfIs
        <5>2. ToSet(F) \subseteq {"message", "valve_no"} BY DataFieldsAre
        <5>3. F[j] # "data" BY <5>1, <5>2
        <5> QED BY <4>1, <5>3 DEF Like
      <4> HIDE DEF F
      <4>3. x.type = "Object" /\ Len(x.child) = Len(F)
            /\ \A j \in 1 .. Len(x.child) : /\ x.child[j].name.bytes = Name[F[j]]
                                            /\ LikeScalar(m, F[j], x.child[j])
        BY <1>6, <2>2, <4>1, <4>2
      <4> QED BY <4>3 DEF LikeData, F
    <3>3. Like(m, RootFields[2], k[2]) BY <2>4, <3>2, RootFieldsAre DEF Like
    <3>4. k[2].name.bytes = Name[RootFields[2]] BY <2>2, <2>4, RootFieldsAre
    <3>5. 2 \in Nat /\ 2 >= 1 /\ 2 - 1 = 1 OBVIOUS
    <3> QED BY <3>1, <3>3, <3>4, <3>5, ReadMore
  <2>6. offset' = EndAt(RootFields, RootValues(m), pos, 2)
    <3>1. RootValues(m)["data"] = ObjectBytes(F, V) BY ValuesTyped
    <3> QED BY <1>2, <2>1, <3>1
  <2>7. Inside(m, RootFields, RootValues(m), pos, Seq(Leaf), k)'
    <3>1. k \in Seq(Items(Seq(Leaf))) BY <2>4 DEF Node
    <3>2. Len(k) \in 1 .. Len(RootFields) /\ Read(m, RootFields, k, Len(k))
      BY <2>4, <2>5, RootFieldsAre
    <3>3. pc' = "after" /\ spc' = "idle" BY <1>6, <2>1
    <3>4. offset' = EndAt(RootFields, RootValues(m), pos, Len(k)) BY <2>4, <2>6
    <3> QED BY <3>1, <3>2, <3>3, <3>4 DEF Inside
  <2>8. depth' = 1 /\ root' \in Leaf /\ fresh' \in Nat BY <2>1
  <2>9. Stage(m, pos, sub)' BY <2>3, <2>7, <2>8 DEF Stage
  <2> QED BY <2>1, <2>8, <2>9
<1> QED BY <1>3, <1>4, <1>5, <1>6

\* The parser gets through the text of a message.
LEMMA PathStep ==
    ASSUME NEW m, Sendable(m), Path(m), ~ AllocFails,
           NestingLimit \in Nat, NestingLimit >= 2, NumberSize \in Nat, NumberSize >= 11, Next
    PROVE  Path(m)'
<1>1. text \in Seq(Nat) /\ text[1] = Open["Object"]
  <2> DEFINE e == Encoded(m)
             z == <<0>>
  <2>1. e \in Seq(Nat) /\ Len(e) >= 1 /\ e[1] = Open["Object"] BY EncodedFirst
  <2>2. z \in Seq(Nat) OBVIOUS
  <2>3. text = e \o z BY DEF Path
  <2> HIDE DEF e, z
  <2> QED BY <2>1, <2>2, <2>3, ConcatFirst
<1>2. doomed = <<>> /\ fresh \in Nat BY DEF Path
<1>3. PICK pos, sub :
        /\ Laid(text, 0, RootFields, RootValues(m), pos)
        /\ Laid(text, ValueAt(RootFields, pos, 2), DataFields(m.type), DataValues(m), sub)
        /\ Stage(m, pos, sub)
  BY DEF Path
<1>4. ASSUME Stage(m, pos, sub)', fresh' \in Nat, UNCHANGED <<text, doomed>> PROVE Path(m)'
  <2>1. text' = Encoded(m) \o <<0>> /\ doomed' = <<>> BY <1>2, <1>4 DEF Path
  <2>2. /\ Laid(text', 0, RootFields, RootValues(m), pos)
        /\ Laid(text', ValueAt(RootFields, pos, 2), DataFields(m.type), DataValues(m), sub)
    BY <1>3, <1>4
  <2> QED BY <1>4, <2>1, <2>2 DEF Path
<1>5. CASE /\ pc \in {"start", "value"} /\ stack = <<>> /\ depth = 0 /\ spc = "idle" /\ offset = 0
           /\ pc = "value" => root \in Leaf
  <2>1. Stage(m, pos, sub)' /\ fresh' \in Nat /\ UNCHANGED <<text, doomed>>
    BY <1>1, <1>2, <1>3, <1>5, StartStep
  <2> QED BY <1>4, <2>1
<1>6. CASE /\ root \in Leaf /\ depth = 1
           /\ \E l : /\ stack = Frames(<<>>, l)
                     /\ Inside(m, RootFields, RootValues(m), pos, Seq(Leaf), l)
  <2>1. PICK l : stack = Frames(<<>>, l) /\ Inside(m, RootFields, RootValues(m), pos, Seq(Leaf), l)
    BY <1>6
  <2>2. Stage(m, pos, sub)' /\ fresh' \in Nat /\ UNCHANGED <<text, doomed>>
    BY <1>1, <1>2, <1>3, <1>6, <2>1, RootStep
  <2> QED BY <1>4, <2>2
<1>7. CASE /\ root \in Leaf /\ depth = 2
           /\ \E up, l : /\ up \in Seq(Node) /\ Len(up) = 2 /\ Read(m, RootFields, up, 1)
                         /\ up[2].name.bytes = Name["data"] /\ up[2].child = <<>>
                         /\ stack = Frames(up, l)
                         /\ Inside(m, DataFields(m.type), DataValues(m), sub, {<<>>}, l)
  <2>1. PICK up, l : /\ up \in Seq(Node) /\ Len(up) = 2 /\ Read(m, RootFields, up, 1)
                     /\ up[2].name.bytes = Name["data"] /\ up[2].child = <<>>
                     /\ stack = Frames(up, l)
                     /\ Inside(m, DataFields(m.type), DataValues(m), sub, {<<>>}, l)
    BY <1>7
  <2>2. Stage(m, pos, sub)' /\ fresh' \in Nat /\ UNCHANGED <<text, doomed>>
    BY <1>1, <1>2, <1>3, <1>7, <2>1, InnerStep
  <2> QED BY <1>4, <2>2
<1>8. CASE pc \in {"after", "done"} /\ stack = <<>> /\ spc = "idle" /\ Whole(m, root)
  <2>1. pc = "after" /\ (NextElement \/ EndOfList \/ ListFails \/ Succeed) BY <1>2, <1>8, NextAt
  <2>2. Succeed BY <1>8, <2>1 DEF NextElement, EndOfList, CloseList, ListFails
  <2>3. pc' = "done" /\ UNCHANGED <<text, spc, stack, root, fresh, doomed>>
    BY <2>2 DEF Succeed, Goto, str
  <2>4. Whole(m, root)' BY <1>8, <2>3 DEF Whole
  <2>5. Stage(m, pos, sub)' BY <1>8, <2>3, <2>4 DEF Stage
  <2> QED BY <1>2, <1>4, <2>3, <2>5
<1> QED BY <1>3, <1>5, <1>6, <1>7, <1>8 DEF Stage

Begun(m) == /\ text = Encoded(m) \o <<0>> /\ doomed = <<>> /\ fresh \in Nat
            /\ pc = "start" /\ stack = <<>> /\ depth = 0 /\ spc = "idle" /\ offset = 0
LEMMA PathBegins == ASSUME NEW m, Sendable(m), Begun(m) PROVE Path(m)
<1> DEFINE e == Encoded(m)
           z == <<0>>
<1>1. e \in Seq(Nat) /\ Len(e) >= 1 BY EncodedFirst
<1>2. z \in Seq(Nat) /\ text = e \o z BY DEF Begun
<1> HIDE DEF e, z
<1>3. text \in Seq(Nat) /\ Len(text) \in Nat /\ Holds(text, 0, text)
  <2>1. text \in Seq(Nat)
    <3>1. e \o z \in Seq(Nat) BY <1>1, <1>2, ConcatFirst
    <3> QED BY <1>2, <3>1
  <2>2. Len(text) \in Nat BY <2>1, SeqIs
  <2>3. Holds(text, 0, text) BY <2>1, HoldsAll
  <2> QED BY <2>1, <2>2, <2>3
<1>4. Holds(text, 0, e)
  <2>1. Holds(text, 0, e \o z) BY <1>2, <1>3
  <2>2. 0 \in Nat OBVIOUS
  <2> QED BY <1>1, <1>2, <1>3, <2>1, <2>2, HoldsParts
<1>5. PICK pos, sub :
        /\ Laid(text, 0, RootFields, RootValues(m), pos)
        /\ Laid(text, ValueAt(RootFields, pos, 2), DataFields(m.type), DataValues(m), sub)
  <2>1. 0 \in Nat OBVIOUS
  <2> QED BY <1>3, <1>4, <2>1, MessageLaid DEF e
<1>6. Stage(m, pos, sub) BY DEF Begun, Stage
<1> QED BY <1>5, <1>6 DEF Begun, Path

-----------------------------------------------------------------------------
(* decode_message on the tree of a message.                                *)

LEMMA NameSame ==
    ASSUME NEW f \in Fields, NEW g \in Fields
    PROVE  SameName(Name[f], Name[g]) <=> f = g
<1> DEFINE B == {118, 100, 116, 109, 110}
           L(a) == [i \in DOMAIN a |-> Lower(a[i])]
<1>1. \A h \in Fields : /\ Name[h] = <<Name[h][1]>> /\ Name[h][1] \in B
                        /\ DOMAIN Name[h] = {1}
  <2>1. \A b \in B : <<b>>[1] = b /\ DOMAIN <<b>> = {1}
    <3> SUFFICES ASSUME NEW b \in B PROVE <<b>>[1] = b /\ DOMAIN <<b>> = {1} OBVIOUS
    <3>1. DOMAIN <<b>> = 1 .. 1 OBVIOUS
    <3> QED BY <3>1
  <2>2. \A h \in Fields : \E b \in B : Name[h] = <<b>> BY DEF Name, Fields
  <2> SUFFICES ASSUME NEW h \in Fields
               PROVE  Name[h] = <<Name[h][1]>> /\ Name[h][1] \in B /\ DOMAIN Name[h] = {1}
    OBVIOUS
  <2>3. PICK b \in B : Name[h] = <<b>> BY <2>2
  <2> HIDE DEF B
  <2> QED BY <2>1, <2>3
<1>2. \A h \in Fields : Lower(Name[h][1]) = Name[h][1] BY <1>1 DEF Lower
<1>3. Name[f][1] = Name[g][1] => f = g BY DEF Name, Fields
<1>4. ASSUME L(Name[f]) = L(Name[g]) PROVE f = g
  <2>1. L(Name[f])[1] = Lower(Name[f][1]) /\ L(Name[g])[1] = Lower(Name[g][1]) BY <1>1
  <2> HIDE DEF L
  <2> QED BY <1>2, <1>3, <1>4, <2>1
<1>5. SameName(Name[f], Name[g]) <=> L(Name[f]) = L(Name[g]) BY DEF SameName
<1>6. f = g => L(Name[f]) = L(Name[g]) OBVIOUS
<1> QED BY <1>4, <1>5, <1>6

\* cJSON_GetObjectItem finds each field of an object, and no other.
LEMMA ItemIs ==
    ASSUME NEW F \in Seq(Fields), NEW x, NEW A, x.child \in Seq(A), Len(x.child) = Len(F),
           \A j \in 1 .. Len(F) : x.child[j].name.bytes = Name[F[j]],
           \A i, j \in 1 .. Len(F) : F[i] = F[j] => i = j
    PROVE  /\ \A i \in 1 .. Len(F) : Item(x, Name[F[i]]) = x.child[i]
           /\ \A f \in Fields \ ToSet(F) : Item(x, Name[f]) = Missing
<1>1. DOMAIN x.child = 1 .. Len(F) /\ Len(F) \in Nat BY SeqIs
<1>2. \A i \in 1 .. Len(F) : F[i] \in Fields /\ F[i] \in ToSet(F) BY DEF ToSet
<1>3. \A f \in Fields : Named(x, Name[f]) = {i \in 1 .. Len(F) : F[i] = f}
  <2> SUFFICES ASSUME NEW f \in Fields
               PROVE  Named(x, Name[f]) = {i \in 1 .. Len(F) : F[i] = f}
    OBVIOUS
  <2>1. \A i \in 1 .. Len(F) : SameName(x.child[i].name.bytes, Name[f]) <=> F[i] = f
    BY <1>2, NameSame
  <2> QED BY <1>1, <2>1 DEF Named
<1>4. ASSUME NEW i \in 1 .. Len(F) PROVE Item(x, Name[F[i]]) = x.child[i]
  <2>1. Named(x, Name[F[i]]) = {i}
    <3>1. {j \in 1 .. Len(F) : F[j] = F[i]} = {i} OBVIOUS
    <3>2. F[i] \in Fields BY <1>2
    <3> QED BY <1>3, <3>1, <3>2
  <2>2. Min({i}) = i
    <3>1. {i} \in SUBSET Int /\ i \in {i} /\ \A y \in {i} : i <= y BY <1>1
    <3> QED BY <3>1, LeastIs
  <2>3. {i} # {} OBVIOUS
  <2> QED BY <2>1, <2>2, <2>3 DEF Item
<1>5. ASSUME NEW f \in Fields \ ToSet(F) PROVE Item(x, Name[f]) = Missing
  <2>1. Named(x, Name[f]) = {} BY <1>2, <1>3, <1>5
  <2> QED BY <2>1 DEF Item
<1> QED BY <1>4, <1>5

LEMMA MissingIs == Missing.type = "missing"
  BY DEF Missing, NewItem

\* The comparison of a type with the beginning of what is read.
LEMMA TypeSame ==
    ASSUME NEW t \in DOMAIN TypeName, NEW b, b = TypeName[t]
    PROVE  /\ IsPrefix(<<83>>, b) <=> t = "SOFT_ERROR"
           /\ IsPrefix(TypeName["HARD_ERROR_OTHER"], b) <=> t = "HARD_ERROR_OTHER"
           /\ IsPrefix(TypeName["HARD_ERROR_VALVE"], b) <=> t = "HARD_ERROR_VALVE"
           /\ b = TypeName["KEEP_ALIVE"] <=> t = "KEEP_ALIVE"
<1>1. /\ t \in {"SOFT_ERROR", "HARD_ERROR_OTHER", "HARD_ERROR_VALVE", "KEEP_ALIVE"}
      /\ TypeName["SOFT_ERROR"] = <<83, 82>> /\ TypeName["HARD_ERROR_OTHER"] = <<79>>
      /\ TypeName["HARD_ERROR_VALVE"] = <<86>> /\ TypeName["KEEP_ALIVE"] = <<75>>
  BY DEF TypeName
<1>2. ASSUME NEW c \in Nat, NEW s \in Seq(Nat), Len(s) >= 1
      PROVE  IsPrefix(<<c>>, s) <=> s[1] = c
  <2> DEFINE p == <<c>>
  <2>1. p \in Seq(Nat) /\ Len(p) = 1 /\ p[1] = c OBVIOUS
  <2> HIDE DEF p
  <2>2. /\ SubSeq(s, 1, 1) \in Seq(Nat) /\ Len(SubSeq(s, 1, 1)) = 1 /\ SubSeq(s, 1, 1)[1] = s[1]
        /\ SubSeq(p, 1, 1) \in Seq(Nat) /\ Len(SubSeq(p, 1, 1)) = 1 /\ SubSeq(p, 1, 1)[1] = c
    BY <1>2, <2>1
  <2>3. SubSeq(p, 1, 1) = SubSeq(s, 1, 1) <=> s[1] = c BY <2>2, SeqEqual
  <2>4. IsPrefix(p, s) <=> SubSeq(p, 1, 1) = SubSeq(s, 1, 1)
    BY <1>2, <2>1 DEF IsPrefix
  <2> QED BY <2>3, <2>4 DEF p
<1>3. b \in Seq(Nat) /\ Len(b) >= 1
  <2>1. /\ <<83, 82>> \in Seq(Nat) /\ Len(<<83, 82>>) = 2
        /\ \A c \in Nat : <<c>> \in Seq(Nat) /\ Len(<<c>>) = 1
    OBVIOUS
  <2>2. 79 \in Nat /\ 86 \in Nat /\ 75 \in Nat /\ 1 >= 1 /\ 2 >= 1 OBVIOUS
  <2>3. b \in {<<83, 82>>, <<79>>, <<86>>, <<75>>} BY <1>1
  <2> QED BY <2>1, <2>2, <2>3
<1>4. /\ t = "SOFT_ERROR" => b[1] = 83
      /\ t = "HARD_ERROR_OTHER" => b[1] = 79
      /\ t = "HARD_ERROR_VALVE" => b[1] = 86
      /\ t = "KEEP_ALIVE" => b[1] = 75
  BY <1>1
<1>5. /\ IsPrefix(<<83>>, b) <=> b[1] = 83
      /\ IsPrefix(<<79>>, b) <=> b[1] = 79
      /\ IsPrefix(<<86>>, b) <=> b[1] = 86
  <2>1. 83 \in Nat /\ 79 \in Nat /\ 86 \in Nat OBVIOUS
  <2> QED BY <1>2, <1>3, <2>1
<1>6. b = <<75>> <=> t = "KEEP_ALIVE"
  <2>1. <<75>>[1] = 75 OBVIOUS
  <2> QED BY <1>1, <1>4, <2>1
<1> QED BY <1>1, <1>4, <1>5, <1>6

LEMMA DecodedWays ==
    ASSUME NEW r, NEW version, version = Item(r, Name["version"]),
           NEW data, data = Item(r, Name["data"]), NEW type, type = Item(r, Name["type"]),
           NEW message, message = Item(data, Name["message"]),
           NEW valve_no, valve_no = Item(data, Name["valve_no"]),
           version.type = "Number", version.number = DATA_FORMAT_VERSION,
           data # Missing, type.type = "String",
           NEW t \in DOMAIN TypeName, type.value.bytes = TypeName[t],
           t # "KEEP_ALIVE" => message.type = "String",
           t = "HARD_ERROR_VALVE" => valve_no.type = "Number"
    PROVE  Decoded(r) = IF t = "KEEP_ALIVE" THEN KeepAlive
                        ELSE [type |-> t, text |-> message.value.bytes,
                              valve |-> IF t = "HARD_ERROR_VALVE" THEN valve_no.number ELSE 0]
<1> DEFINE b == type.value.bytes
<1>1. /\ IsPrefix(<<83>>, b) <=> t = "SOFT_ERROR"
      /\ IsPrefix(TypeName["HARD_ERROR_OTHER"], b) <=> t = "HARD_ERROR_OTHER"
      /\ IsPrefix(TypeName["HARD_ERROR_VALVE"], b) <=> t = "HARD_ERROR_VALVE"
      /\ b = TypeName["KEEP_ALIVE"] <=> t = "KEEP_ALIVE"
  BY TypeSame
<1>2. t \in {"SOFT_ERROR", "HARD_ERROR_OTHER", "HARD_ERROR_VALVE", "KEEP_ALIVE"}
  BY DEF TypeName
<1> DEFINE Said(u, n) == IF message.type = "String"
                         THEN [type |-> u, text |-> message.value.bytes, valve |-> n] ELSE Bad
           bad == \/ version.type # "Number" \/ version.number # DATA_FORMAT_VERSION
                  \/ data = Missing \/ type.type # "String"
           soft == IsPrefix(<<83>>, b)
           other == IsPrefix(TypeName["HARD_ERROR_OTHER"], b)
           hard == IsPrefix(TypeName["HARD_ERROR_VALVE"], b) /\ valve_no.type = "Number"
           alive == b = TypeName["KEEP_ALIVE"]
<1>3. Decoded(r) = CASE bad -> Bad
                     [] soft -> Said("SOFT_ERROR", 0)
                     [] other -> Said("HARD_ERROR_OTHER", 0)
                     [] hard -> Said("HARD_ERROR_VALVE", valve_no.number)
                     [] alive -> KeepAlive
                     [] OTHER -> Bad
  BY DEF Decoded
<1>4. /\ ~ bad /\ (soft <=> t = "SOFT_ERROR") /\ (other <=> t = "HARD_ERROR_OTHER")
      /\ (hard <=> t = "HARD_ERROR_VALVE") /\ (alive <=> t = "KEEP_ALIVE")
  BY <1>1
<1>5. t # "KEEP_ALIVE" => \A n : Said(t, n) = [type |-> t, text |-> message.value.bytes, valve |-> n]
  OBVIOUS
<1> HIDE DEF bad, soft, other, hard, alive, Said
<1>6. CASE t = "SOFT_ERROR"
  <2>1. Decoded(r) = Said("SOFT_ERROR", 0) BY <1>3, <1>4, <1>6
  <2> QED BY <1>5, <1>6, <2>1
<1>7. CASE t = "HARD_ERROR_OTHER"
  <2>1. Decoded(r) = Said("HARD_ERROR_OTHER", 0) BY <1>3, <1>4, <1>7
  <2> QED BY <1>5, <1>7, <2>1
<1>8. CASE t = "HARD_ERROR_VALVE"
  <2>1. Decoded(r) = Said("HARD_ERROR_VALVE", valve_no.number) BY <1>3, <1>4, <1>8
  <2> QED BY <1>5, <1>8, <2>1
<1>9. CASE t = "KEEP_ALIVE"
  <2>1. Decoded(r) = KeepAlive BY <1>3, <1>4, <1>9
  <2> QED BY <1>9, <2>1
<1> QED BY <1>2, <1>6, <1>7, <1>8, <1>9

LEMMA DecodedIs ==
    ASSUME NEW m, Sendable(m), NEW r, Whole(m, r)
    PROVE  Decoded(r) = m
<1> DEFINE c == r.child
           t == m.type
           D == DataFields(t)
           data == c[2]
           d == data.child
<1>1. c \in Seq(Node) /\ Len(c) = 3 /\ Read(m, RootFields, c, 3) BY DEF Whole
<1>2. /\ c[1].type = "Number" /\ c[1].number = DATA_FORMAT_VERSION
      /\ LikeData(m, data) /\ c[3].type = "String" /\ c[3].value.bytes = TypeName[t]
      /\ \A j \in 1 .. 3 : c[j].name.bytes = Name[RootFields[j]]
  <2>1. Like(m, RootFields[1], c[1]) /\ Like(m, RootFields[2], c[2]) /\ Like(m, RootFields[3], c[3])
        /\ \A j \in 1 .. 3 : c[j].name.bytes = Name[RootFields[j]]
    BY <1>1 DEF Read
  <2>2. LikeScalar(m, "version", c[1]) /\ LikeData(m, c[2]) /\ LikeScalar(m, "type", c[3])
    BY <2>1, RootFieldsAre DEF Like
  <2>3. c[1].type = "Number" /\ c[1].number = DATA_FORMAT_VERSION
    BY <2>2 DEF LikeScalar, NumberOf
  <2>4. c[3].type = "String" /\ c[3].value.bytes = TypeName[t]
    BY <2>2 DEF LikeScalar, StringOf
  <2> QED BY <2>1, <2>2, <2>3, <2>4
<1>3. /\ c[1] = Item(r, Name["version"]) /\ data = Item(r, Name["data"])
      /\ c[3] = Item(r, Name["type"])
  <2>1. Len(c) = Len(RootFields) /\ Len(RootFields) = 3 BY <1>1, RootFieldsAre
  <2>2. \A i, j \in 1 .. 3 : RootFields[i] = RootFields[j] => i = j BY RootFieldsAre
  <2>3. \A i \in 1 .. 3 : Item(r, Name[RootFields[i]]) = c[i]
    <3>f. PICK F : F = RootFields OBVIOUS
    <3>1. F \in Seq(Fields) /\ Len(F) = 3 BY <3>f, RootFieldsAre
    <3>2. /\ r.child \in Seq(Node) /\ Len(r.child) = Len(F)
          /\ \A j \in 1 .. Len(F) : r.child[j].name.bytes = Name[F[j]]
          /\ \A i, j \in 1 .. Len(F) : F[i] = F[j] => i = j
      BY <1>1, <1>2, <2>2, <3>f, <3>1
    <3>3. \A i \in 1 .. Len(F) : Item(r, Name[F[i]]) = r.child[i] BY <3>1, <3>2, ItemIs, SMTT(60)
    <3> QED BY <3>f, <3>1, <3>3
  <2> QED BY <2>3, RootFieldsAre
<1>4. /\ data.type = "Object" /\ Len(d) = Len(D)
      /\ \A j \in 1 .. Len(d) : d[j].name.bytes = Name[D[j]] /\ LikeScalar(m, D[j], d[j])
  BY <1>2 DEF LikeData
<1>5. d \in Seq(Leaf)
  <2>1. 2 \in 1 .. Len(c) BY <1>1
  <2>2. c[2] \in Node BY <1>1, <2>1, SeqIs
  <2> HIDE DEF c
  <2> QED BY <2>2 DEF Node, Items
<1>6. D \in Seq(Fields) /\ t \in DOMAIN TypeName
  BY DataFieldsAre DEF Sendable
<1>7. /\ t # "KEEP_ALIVE" => Len(D) >= 1 /\ D[1] = "message"
      /\ t = "HARD_ERROR_VALVE" => Len(D) = 2 /\ D[2] = "valve_no"
      /\ \A i, j \in 1 .. Len(D) : D[i] = D[j] => i = j
  BY DataFieldsAre
<1> HIDE DEF c, data, d, D
<1>8. \A i \in 1 .. Len(D) : Item(data, Name[D[i]]) = d[i]
  <2>1. data.child \in Seq(Leaf) /\ Len(data.child) = Len(D)
        /\ \A j \in 1 .. Len(D) : data.child[j].name.bytes = Name[D[j]]
    BY <1>4, <1>5 DEF d
  <2>2. \A i \in 1 .. Len(D) : Item(data, Name[D[i]]) = data.child[i]
    BY <1>6, <1>7, <2>1, ItemIs
  <2> QED BY <2>2 DEF d
<1> DEFINE message == Item(data, Name["message"])
           valve_no == Item(data, Name["valve_no"])
<1>9. Len(D) \in Nat BY <1>6
<1>10. t # "KEEP_ALIVE" => message.type = "String" /\ message.value.bytes = m.text
  <2> SUFFICES ASSUME t # "KEEP_ALIVE" PROVE message.type = "String" /\ message.value.bytes = m.text
    OBVIOUS
  <2>1. 1 \in 1 .. Len(D) /\ D[1] = "message" BY <1>7, <1>9
  <2>2. message = d[1] /\ LikeScalar(m, "message", d[1]) BY <1>4, <1>8, <2>1
  <2> HIDE DEF message
  <2> QED BY <2>2 DEF LikeScalar, StringOf
<1>11. t = "HARD_ERROR_VALVE" => valve_no.type = "Number" /\ valve_no.number = m.valve
  <2> SUFFICES ASSUME t = "HARD_ERROR_VALVE"
               PROVE  valve_no.type = "Number" /\ valve_no.number = m.valve
    OBVIOUS
  <2>1. 2 \in 1 .. Len(D) /\ D[2] = "valve_no" BY <1>7, SMTT(60)
  <2>2. valve_no = d[2] /\ LikeScalar(m, "valve_no", d[2]) BY <1>4, <1>8, <2>1
  <2> HIDE DEF valve_no
  <2> QED BY <2>2 DEF LikeScalar, NumberOf
<1>12. data # Missing
  <2>1. "Object" # "missing" OBVIOUS
  <2> QED BY <1>4, <2>1, MissingIs
<1> HIDE DEF message, valve_no
<1>13. Decoded(r) = IF t = "KEEP_ALIVE" THEN KeepAlive
                    ELSE [type |-> t, text |-> message.value.bytes,
                          valve |-> IF t = "HARD_ERROR_VALVE" THEN valve_no.number ELSE 0]
  <2>1. message = Item(data, Name["message"]) /\ valve_no = Item(data, Name["valve_no"])
    BY DEF message, valve_no
  <2> QED BY <1>2, <1>3, <1>6, <1>10, <1>11, <1>12, <2>1, DecodedWays
<1>14. m = [type |-> t, text |-> m.text, valve |-> m.valve]
       /\ (t # "HARD_ERROR_VALVE" => m.valve = 0) /\ (t = "KEEP_ALIVE" => m.text = <<>>)
  <2> HIDE DEF IntMin, IntMax
  <2>1. /\ m \in [type : DOMAIN TypeName, text : Seq(1..255), valve : IntMin .. IntMax]
        /\ (t # "HARD_ERROR_VALVE" => m.valve = 0) /\ (t = "KEEP_ALIVE" => m.text = <<>>)
    BY DEF Sendable
  <2>2. \A A, B, C : \A x \in [type : A, text : B, valve : C] :
          x = [type |-> x.type, text |-> x.text, valve |-> x.valve]
    OBVIOUS
  <2> QED BY <2>1, <2>2
<1>15. CASE t = "KEEP_ALIVE"
  <2>1. m = [type |-> "KEEP_ALIVE", text |-> <<>>, valve |-> 0]
    <3>1. m.text = <<>> /\ m.valve = 0 BY <1>14, <1>15
    <3> QED BY <1>14, <1>15, <3>1, Zenon
  <2> QED BY <1>13, <1>15, <2>1 DEF KeepAlive
<1>16. CASE t # "KEEP_ALIVE"
  <2>1. message.value.bytes = m.text
        /\ (IF t = "HARD_ERROR_VALVE" THEN valve_no.number ELSE 0) = m.valve
    BY <1>10, <1>11, <1>14, <1>16
  <2>2. Decoded(r) = [type |-> t, text |-> m.text, valve |-> m.valve]
    BY <1>13, <1>16, <2>1
  <2> QED BY <1>14, <2>2, Zenon
<1> QED BY <1>15, <1>16

-----------------------------------------------------------------------------
(* The messages on the wire.                                               *)

\* The messages behind the first p, up to the k-th, as they are written.
Parts(s, p, k) == [i \in 1 .. k - p |-> Encoded(s[p + i].msg)]
Rest(s, p, k) == FlattenSeq(Parts(s, p, k))
Written1(s, k) == k \in Nat /\ \A i \in 1 .. k : Encoded(s[i].msg) \in Seq(Nat)

LEMMA PartsAre ==
    ASSUME NEW s, NEW p \in Nat, NEW k, p <= k, Written1(s, k)
    PROVE  /\ k \in Nat /\ Parts(s, p, k) \in Seq(Seq(Nat)) /\ Len(Parts(s, p, k)) = k - p
           /\ \A i \in 1 .. k - p : Parts(s, p, k)[i] = Encoded(s[p + i].msg)
           /\ Rest(s, p, k) \in Seq(Nat)
<1>1. k \in Nat /\ k - p \in Nat BY DEF Written1
<1>2. \A i \in 1 .. k - p : p + i \in 1 .. k BY <1>1
<1>3. \A i \in 1 .. k - p : Encoded(s[p + i].msg) \in Seq(Nat) BY <1>2 DEF Written1
<1>4. /\ Parts(s, p, k) \in Seq(Seq(Nat)) /\ Len(Parts(s, p, k)) = k - p
      /\ \A i \in 1 .. k - p : Parts(s, p, k)[i] = Encoded(s[p + i].msg)
  BY <1>1, <1>3 DEF Parts
<1>5. Rest(s, p, k) \in Seq(Nat) BY <1>4, FlattenType DEF Rest
<1> QED BY <1>1, <1>4, <1>5

LEMMA PartsAll ==
    ASSUME NEW s, NEW k \in Nat, Written1(s, k)
    PROVE  \A q \in Nat : q <= k =>
             /\ Parts(s, q, k) \in Seq(Seq(Nat)) /\ Len(Parts(s, q, k)) = k - q
             /\ \A i \in 1 .. k - q : Parts(s, q, k)[i] = Encoded(s[q + i].msg)
<1>1. ASSUME NEW q \in Nat, q <= k
      PROVE  /\ Parts(s, q, k) \in Seq(Seq(Nat)) /\ Len(Parts(s, q, k)) = k - q
             /\ \A i \in 1 .. k - q : Parts(s, q, k)[i] = Encoded(s[q + i].msg)
  <2>1. Parts(s, q, k) \in Seq(Seq(Nat)) BY <1>1, PartsAre
  <2>2. Len(Parts(s, q, k)) = k - q BY <1>1, PartsAre
  <2>3. \A i \in 1 .. k - q : Parts(s, q, k)[i] = Encoded(s[q + i].msg) BY DEF Parts
  <2> QED BY <2>1, <2>2, <2>3
<1> QED BY <1>1

LEMMA RestNone ==
    ASSUME NEW s, NEW k \in Nat, Written1(s, k)
    PROVE  Rest(s, k, k) = <<>>
<1>1. Parts(s, k, k) \in Seq(Seq(Nat)) /\ Len(Parts(s, k, k)) = 0
  <2>1. k - k = 0 /\ k <= k OBVIOUS
  <2> QED BY <2>1, PartsAre
<1>2. Parts(s, k, k) = <<>> BY <1>1
<1> QED BY <1>2, FlattenEmpty DEF Rest

LEMMA RestFirst ==
    ASSUME NEW s, NEW p \in Nat, NEW k, p < k, Written1(s, k)
    PROVE  Rest(s, p, k) = Encoded(s[p + 1].msg) \o Rest(s, p + 1, k)
<1>1. k \in Nat /\ p + 1 \in Nat /\ p + 1 <= k /\ p + 1 \in 1 .. k /\ p <= k BY DEF Written1
<1> DEFINE e == Encoded(s[p + 1].msg)
           a == Parts(s, p, k)
           b == Parts(s, p + 1, k)
           m == <<e>>
           B == Seq(Nat)
<1>2. e \in Seq(Nat) BY <1>1 DEF Written1
<1>p. \A q \in Nat : q <= k =>
        /\ Parts(s, q, k) \in Seq(B) /\ Len(Parts(s, q, k)) = k - q
        /\ \A i \in 1 .. k - q : Parts(s, q, k)[i] = Encoded(s[q + i].msg)
  BY <1>1, PartsAll
<1>3. /\ a \in Seq(B) /\ Len(a) = k - p
      /\ \A i \in 1 .. k - p : a[i] = Encoded(s[p + i].msg)
  BY <1>1, <1>p
<1>4. /\ b \in Seq(B) /\ Len(b) = k - (p + 1)
      /\ \A i \in 1 .. k - (p + 1) : b[i] = Encoded(s[(p + 1) + i].msg)
  <2>1. PICK q : q = p + 1 OBVIOUS
  <2>2. /\ Parts(s, q, k) \in Seq(B) /\ Len(Parts(s, q, k)) = k - q
        /\ \A i \in 1 .. k - q : Parts(s, q, k)[i] = Encoded(s[q + i].msg)
    BY <1>1, <1>p, <2>1
  <2> HIDE DEF B
  <2> QED BY <2>1, <2>2
<1>5. m \in Seq(B) /\ Len(m) = 1 /\ m[1] = e BY <1>2
<1>6. a[1] = e
  <2>1. 1 \in 1 .. k - p BY <1>1
  <2> QED BY <1>3, <2>1
<1>7. \A i \in 1 .. k - (p + 1) : a[i + 1] = b[i]
  <2> SUFFICES ASSUME NEW i \in 1 .. k - (p + 1) PROVE a[i + 1] = b[i] OBVIOUS
  <2>1. i + 1 \in 1 .. k - p /\ p + (i + 1) = (p + 1) + i BY <1>1
  <2> QED BY <1>3, <1>4, <2>1
<1> HIDE DEF a, b, m, e, B
<1>8. m \o b \in Seq(B) /\ Len(m \o b) = 1 + Len(b)
      /\ \A i \in 1 .. Len(m \o b) : (m \o b)[i] = IF i <= 1 THEN m[i] ELSE b[i - 1]
  <2>1. /\ m \o b \in Seq(B) /\ Len(m \o b) = Len(m) + Len(b)
        /\ \A i \in 1 .. Len(m) + Len(b) :
             (m \o b)[i] = IF i <= Len(m) THEN m[i] ELSE b[i - Len(m)]
    BY <1>4, <1>5, ConcatProperties
  <2> QED BY <1>5, <2>1
<1>9. a = m \o b
  <2>1. Len(a) = Len(m \o b) BY <1>1, <1>3, <1>4, <1>8
  <2>2. \A i \in 1 .. Len(a) : a[i] = (m \o b)[i]
    <3> SUFFICES ASSUME NEW i \in 1 .. Len(a) PROVE a[i] = (m \o b)[i] OBVIOUS
    <3>1. CASE i = 1 BY <1>5, <1>6, <1>8, <2>1, <3>1
    <3>2. CASE i # 1
      <4>1. i - 1 \in 1 .. k - (p + 1) /\ (i - 1) + 1 = i /\ ~ (i <= 1) BY <1>1, <1>3, <3>2
      <4>2. a[i] = b[i - 1] BY <1>7, <4>1
      <4> QED BY <1>8, <2>1, <4>1, <4>2
    <3> QED BY <3>1, <3>2
  <2> QED BY <1>3, <1>8, <2>1, <2>2, SeqEqual
<1>10. FlattenSeq(m \o b) = FlattenSeq(m) \o FlattenSeq(b) BY <1>4, <1>5, FlattenConcat DEF B
<1>11. FlattenSeq(m) = e BY <1>2, FlattenOne DEF m
<1> QED BY <1>9, <1>10, <1>11 DEF Rest, a, b, e

LEMMA RestLast ==
    ASSUME NEW s, NEW p \in Nat, NEW k \in Nat, p <= k, Written1(s, k + 1)
    PROVE  Rest(s, p, k + 1) = Rest(s, p, k) \o Encoded(s[k + 1].msg)
<1> DEFINE e == Encoded(s[k + 1].msg)
           a == Parts(s, p, k + 1)
           b == Parts(s, p, k)
           m == <<e>>
           B == Seq(Nat)
<1>1. Written1(s, k) /\ k + 1 \in 1 .. k + 1 /\ p <= k + 1
  <2>1. \A i \in 1 .. k : i \in 1 .. k + 1 OBVIOUS
  <2> QED BY <2>1 DEF Written1
<1>2. e \in Seq(Nat) BY <1>1 DEF Written1
<1>3. /\ a \in Seq(B) /\ Len(a) = (k + 1) - p
      /\ \A i \in 1 .. (k + 1) - p : a[i] = Encoded(s[p + i].msg)
  BY <1>1, PartsAre
<1>4. /\ b \in Seq(B) /\ Len(b) = k - p
      /\ \A i \in 1 .. k - p : b[i] = Encoded(s[p + i].msg)
  BY <1>1, PartsAre, ZenonT(60)
<1>5. a[(k - p) + 1] = e /\ (k - p) + 1 = (k + 1) - p /\ k - p \in Nat
  <2>1. (k - p) + 1 \in 1 .. (k + 1) - p /\ p + ((k - p) + 1) = k + 1 OBVIOUS
  <2> QED BY <1>3, <2>1
<1>6. \A i \in 1 .. k - p : a[i] = b[i]
  <2>1. \A i \in 1 .. k - p : i \in 1 .. (k + 1) - p OBVIOUS
  <2> QED BY <1>3, <1>4, <2>1
<1> HIDE DEF a, b, e, B
<1>7. e \in B BY <1>2 DEF B
<1>8. /\ b \o m \in Seq(B) /\ Len(b \o m) = Len(b) + 1
      /\ (b \o m)[Len(b) + 1] = e
      /\ \A i \in 1 .. Len(b) : (b \o m)[i] = b[i]
  BY <1>4, <1>7, AppendIs
<1> HIDE DEF m
<1>9. a = b \o m
  <2>1. Len(a) = Len(b \o m) BY <1>3, <1>4, <1>5, <1>8
  <2>2. \A i \in 1 .. Len(a) : a[i] = (b \o m)[i]
    <3> SUFFICES ASSUME NEW i \in 1 .. Len(a) PROVE a[i] = (b \o m)[i] OBVIOUS
    <3>1. i \in 1 .. k - p \/ i = (k - p) + 1 BY <1>3, <1>5
    <3> QED BY <1>4, <1>5, <1>6, <1>8, <3>1
  <2> QED BY <1>3, <1>8, <2>1, <2>2, SeqEqual
<1>10. FlattenSeq(b \o m) = FlattenSeq(b) \o e BY <1>2, <1>4, FlattenAppend DEF B, m
<1> QED BY <1>9, <1>10 DEF Rest, a, b, e

Agree(s, t, k) == \A i \in 1 .. k : t[i] = s[i]
LEMMA RestSame ==
    ASSUME NEW s, NEW t, NEW p \in Nat, NEW k, p <= k, Written1(s, k), Agree(s, t, k)
    PROVE  Rest(t, p, k) = Rest(s, p, k)
<1>1. k \in Nat BY DEF Written1
<1>2. \A i \in 1 .. k - p : p + i \in 1 .. k BY <1>1
<1>3. \A i \in 1 .. k - p : Encoded(t[p + i].msg) = Encoded(s[p + i].msg) BY <1>2 DEF Agree
<1>4. Parts(t, p, k) = Parts(s, p, k) BY <1>3 DEF Parts
<1> QED BY <1>4 DEF Rest

-----------------------------------------------------------------------------
(* An object is cut out of the wire.                                       *)

LEMMA ConcatThree == \A a, b, c \in Seq(Nat) : (a \o b) \o c = a \o (b \o c)
  BY ConcatAssociative

LEMMA CutFirst ==
    ASSUME NEW e \in Seq(Nat), Len(e) >= 1, NEW r \in Seq(Nat), NEW w, w = e \o r
    PROVE  /\ w \in Seq(Nat) /\ Len(w) = Len(e) + Len(r) /\ w[1] = e[1] /\ Len(e) \in 1 .. Len(w)
           /\ SubSeq(w, 1, Len(e)) = e /\ SubSeq(w, Len(e) + 1, Len(w)) = r
<1>1. /\ w \in Seq(Nat) /\ Len(w) = Len(e) + Len(r)
      /\ \A i \in 1 .. Len(e) + Len(r) : w[i] = IF i <= Len(e) THEN e[i] ELSE r[i - Len(e)]
  BY ConcatProperties
<1>2. Len(e) \in Nat /\ Len(r) \in Nat /\ 1 \in 1 .. Len(w) /\ Len(e) \in 1 .. Len(w) BY <1>1
<1>3. w[1] = e[1] BY <1>1, <1>2
<1>4. SubSeq(w, 1, Len(e)) = e
  <2>1. \A i \in 1 .. Len(e) : w[i] = e[i] BY <1>1, <1>2
  <2>2. /\ SubSeq(w, 1, Len(e)) \in Seq(Nat) /\ Len(SubSeq(w, 1, Len(e))) = Len(e)
        /\ \A i \in 1 .. Len(e) : SubSeq(w, 1, Len(e))[i] = w[i]
    BY <1>1, <1>2
  <2> QED BY <2>1, <2>2, SeqEqual
<1>5. SubSeq(w, Len(e) + 1, Len(w)) = r
  <2>1. /\ SubSeq(w, Len(e) + 1, Len(w)) \in Seq(Nat)
        /\ Len(SubSeq(w, Len(e) + 1, Len(w))) = Len(r)
        /\ \A i \in 1 .. Len(r) : SubSeq(w, Len(e) + 1, Len(w))[i] = w[Len(e) + i]
    BY <1>1, <1>2
  <2>2. \A i \in 1 .. Len(r) : w[Len(e) + i] = r[i]
    <3>1. ASSUME NEW i \in 1 .. Len(r) PROVE w[Len(e) + i] = r[i]
      <4>1. Len(e) + i \in 1 .. Len(e) + Len(r) /\ ~ (Len(e) + i <= Len(e))
            /\ (Len(e) + i) - Len(e) = i
        BY <1>2
      <4> QED BY <1>1, <4>1
    <3> QED BY <3>1
  <2>3. \A i \in 1 .. Len(r) : SubSeq(w, Len(e) + 1, Len(w))[i] = r[i] BY <2>1, <2>2
  <2> QED BY <2>1, <2>3, SeqEqual
<1> QED BY <1>1, <1>2, <1>3, <1>4, <1>5

\* read_json_object finds one end of the first object, at most.
LEMMA BalancedOnce ==
    ASSUME NEW w \in Seq(Nat), NEW a \in 1 .. Len(w), NEW n \in 1 .. Len(w),
           Balanced(SubSeq(w, 1, a)), Balanced(SubSeq(w, 1, n))
    PROVE  a = n
<1>1. ASSUME NEW p \in 1 .. Len(w), NEW q \in 1 .. Len(w), p < q,
             Balanced(SubSeq(w, 1, p)), Balanced(SubSeq(w, 1, q))
      PROVE  FALSE
  <2> DEFINE x == SubSeq(w, 1, p)
             y == SubSeq(w, 1, q)
  <2>1. /\ x \in Seq(Nat) /\ Len(x) = p /\ \A i \in 1 .. p : x[i] = w[i]
        /\ y \in Seq(Nat) /\ Len(y) = q /\ \A i \in 1 .. q : y[i] = w[i]
    BY <1>1, SMTT(60)
  <2>2. /\ SubSeq(y, 1, p) \in Seq(Nat) /\ Len(SubSeq(y, 1, p)) = p
        /\ \A i \in 1 .. p : SubSeq(y, 1, p)[i] = y[i]
    BY <1>1, <2>1
  <2>3. \A i \in 1 .. p : y[i] = x[i] BY <1>1, <2>1
  <2>4. SubSeq(y, 1, p) = x BY <2>1, <2>2, <2>3, SeqEqual
  <2>5. p \in 1 .. Len(y) - 1 BY <1>1, <2>1
  <2> HIDE DEF x, y
  <2>6. Balanced(x) /\ Balanced(y) BY <1>1 DEF x, y
  <2>7. Count(LBrace, x) = Count(RBrace, x) BY <2>6 DEF Balanced
  <2>8. Count(LBrace, x) > Count(RBrace, x)
    <3>1. \A k \in 1 .. Len(y) - 1 :
            Count(LBrace, SubSeq(y, 1, k)) > Count(RBrace, SubSeq(y, 1, k))
      BY <2>6 DEF Balanced
    <3> QED BY <2>4, <2>5, <3>1
  <2>9. Count(RBrace, x) \in Nat
    <3>1. IsFiniteSet(1 .. p) BY FS_Interval
    <3>2. {i \in DOMAIN x : x[i] = RBrace} \subseteq 1 .. p BY <2>1
    <3>3. IsFiniteSet({i \in DOMAIN x : x[i] = RBrace}) BY <3>1, <3>2, FS_Subset
    <3> QED BY <3>3, FS_CardinalityType DEF Count
  <2> QED BY <2>7, <2>8, <2>9
<1> QED BY <1>1

-----------------------------------------------------------------------------
(* The inductive invariant.                                                *)

Listed(s) == \E S : s \in Seq(S)
LinkTypes == /\ wire \in Seq(Nat) /\ arrived \in 0 .. Len(wire)
             /\ Listed(sent) /\ Listed(got)
\* Nothing follows once the connection is destroyed.
Alive == dropped = ""
Kept == dropped \in {"", "partial"}
Over == ~ Alive => wire = <<>> /\ arrived = 0 /\ SenderIdle
WholeTo(k) == \A i \in 1 .. k : sent[i].whole
SentWhole == \A i \in 1 .. Len(sent) :
                sent[i].whole => Sendable(sent[i].msg) /\ Balanced(Encoded(sent[i].msg))
\* The objects that have been taken off the wire.
Fetched == Len(got) + (IF decoding THEN 1 ELSE 0)
\* The first k messages, each of them whole: those that were taken off the wire
\* are what has been delivered, the others are still on it.
Carried(k) ==
    /\ \A i \in 1 .. k : i <= Len(got) => got[i] = sent[i].msg
    /\ Fetched <= k /\ Alive =>
         \E t \in Seq(Nat) : wire = Rest(sent, Fetched, k) \o t /\ (k = Len(sent) => t = <<>>)
    /\ Fetched < k => Kept
    /\ k = Len(sent) => Fetched <= k /\ Kept
    /\ Fetched <= k => IF decoding THEN \E m : m = sent[Fetched].msg /\ Path(m)
                       ELSE stack = <<>> /\ spc = "idle"
LinkInv == /\ LinkTypes /\ Over /\ SentWhole
           /\ \A k \in 0 .. Len(sent) : WholeTo(k) => Carried(k)

LEMMA ListedAppend ==
    ASSUME NEW s, Listed(s), NEW x
    PROVE  /\ Listed(Append(s, x)) /\ Len(s) \in Nat /\ Len(Append(s, x)) = Len(s) + 1
           /\ Append(s, x)[Len(s) + 1] = x /\ \A i \in 1 .. Len(s) : Append(s, x)[i] = s[i]
<1>1. PICK S : s \in Seq(S) BY DEF Listed
<1> DEFINE T == S \cup {x}
<1>2. s \in Seq(T) /\ x \in T BY <1>1
<1>3. /\ Append(s, x) \in Seq(T) /\ Len(s) \in Nat /\ Len(Append(s, x)) = Len(s) + 1
      /\ Append(s, x)[Len(s) + 1] = x /\ \A i \in 1 .. Len(s) : Append(s, x)[i] = s[i]
  BY <1>2
<1> QED BY <1>3 DEF Listed

LEMMA PathSame == ASSUME NEW m, Path(m), UNCHANGED vars PROVE Path(m)'
<1>1. UNCHANGED <<text, doomed, fresh, pc, stack, depth, spc, offset, root, inPtr, inEnd, output>>
  BY DEF vars, str
<1>2. \A o, s : InString(o, s) => InString(o, s)'
  BY <1>1 DEF InString, Scan
<1>3. \A F, V, pos, C, l : Inside(m, F, V, pos, C, l) => Inside(m, F, V, pos, C, l)'
  BY <1>1, <1>2 DEF Inside
<1>4. \A pos, sub : Stage(m, pos, sub) => Stage(m, pos, sub)'
  BY <1>1, <1>3 DEF Stage
<1> QED BY <1>1, <1>4 DEF Path

\* What has been sent whole is written down.
LEMMA WholeWritten ==
    ASSUME LinkInv, NEW k \in 0 .. Len(sent), WholeTo(k)
    PROVE  /\ Carried(k) /\ Written1(sent, k) /\ Len(sent) \in Nat
           /\ \A i \in 1 .. k : Sendable(sent[i].msg) /\ Balanced(Encoded(sent[i].msg))
<1>1. Carried(k) /\ Len(sent) \in Nat /\ SentWhole BY ListedAppend DEF LinkInv, LinkTypes
<1>2. \A i \in 1 .. k : i \in 1 .. Len(sent) BY <1>1
<1>3. \A i \in 1 .. k : Sendable(sent[i].msg) /\ Balanced(Encoded(sent[i].msg))
  BY <1>1, <1>2 DEF SentWhole, WholeTo
<1>4. Written1(sent, k)
  <2>1. \A i \in 1 .. k : Encoded(sent[i].msg) \in Seq(Nat) BY <1>3, EncodedFirst
  <2> QED BY <1>1, <2>1 DEF Written1
<1> QED BY <1>1, <1>3, <1>4

\* The first of the messages that are still on the wire.
LEMMA FirstOnWire ==
    ASSUME LinkInv, NEW k \in 0 .. Len(sent), WholeTo(k), Alive,
           NEW f, f = Fetched, f \in Nat, f < k
    PROVE  LET e == Encoded(sent[f + 1].msg)
           IN /\ e \in Seq(Nat) /\ Len(e) >= 1 /\ e[1] = LBrace /\ Balanced(e)
              /\ Sendable(sent[f + 1].msg)
              /\ \E t \in Seq(Nat) :
                   /\ wire = e \o (Rest(sent, f + 1, k) \o t)
                   /\ Rest(sent, f + 1, k) \o t \in Seq(Nat)
                   /\ k = Len(sent) => t = <<>>
<1> PICK e : e = Encoded(sent[f + 1].msg) OBVIOUS
<1>1. Written1(sent, k) /\ Carried(k) /\ Len(sent) \in Nat BY WholeWritten
<1>2. f + 1 \in 1 .. k /\ f + 1 \in Nat /\ f + 1 <= k /\ k \in Nat
  <2>1. k \in Nat BY <1>1
  <2>2. \A a, b \in Nat : a < b => a + 1 \in 1 .. b /\ a + 1 \in Nat /\ a + 1 <= b OBVIOUS
  <2> QED BY <2>1, <2>2
<1>3. Sendable(sent[f + 1].msg) /\ Balanced(e) BY <1>2, WholeWritten
<1>4. e \in Seq(Nat) /\ Len(e) >= 1 /\ e[1] = LBrace
  <2>1. PICK m : m = sent[f + 1].msg OBVIOUS
  <2>2. Encoded(m) \in Seq(Nat) /\ Len(Encoded(m)) >= 1 /\ Encoded(m)[1] = Open["Object"]
    BY <1>3, <2>1, EncodedFirst
  <2> QED BY <2>1, <2>2 DEF LBrace
<1>5. PICK t \in Seq(Nat) : wire = Rest(sent, f, k) \o t /\ (k = Len(sent) => t = <<>>)
  <2>1. Fetched <= k
    <3>1. \A a, b \in Nat : a < b => a <= b OBVIOUS
    <3> QED BY <1>2, <3>1
  <2>2. \E t \in Seq(Nat) : wire = Rest(sent, Fetched, k) \o t /\ (k = Len(sent) => t = <<>>)
    BY <1>1, <2>1 DEF Carried
  <2> QED BY <2>2
<1>6. Rest(sent, f, k) = e \o Rest(sent, f + 1, k) BY <1>1, <1>2, RestFirst
<1>7. Rest(sent, f + 1, k) \in Seq(Nat)
  <2>1. PICK q \in Nat : q = f + 1 BY <1>2
  <2>2. Rest(sent, q, k) \in Seq(Nat) BY <1>1, <1>2, <2>1, PartsAre
  <2> QED BY <2>1, <2>2
<1>8. PICK r : r = Rest(sent, f + 1, k) OBVIOUS
<1>9. (e \o r) \o t = e \o (r \o t)
  BY <1>4, <1>7, <1>8, ConcatThree, ZenonT(60)
<1>10. r \o t \in Seq(Nat) BY <1>7, <1>8, ConcatIs
<1>11. \E u \in Seq(Nat) :
         /\ wire = e \o (Rest(sent, f + 1, k) \o u) /\ Rest(sent, f + 1, k) \o u \in Seq(Nat)
         /\ k = Len(sent) => u = <<>>
  BY <1>5, <1>6, <1>8, <1>9, <1>10
<1> QED BY <1>3, <1>4, <1>11

LEMMA FetchedIs ==
    ASSUME LinkInv
    PROVE  /\ Len(got) \in Nat /\ Len(sent) \in Nat /\ Fetched \in Nat
           /\ decoding => Fetched = Len(got) + 1
           /\ ~ decoding => Fetched = Len(got)
<1>1. Len(got) \in Nat /\ Len(sent) \in Nat BY ListedAppend DEF LinkInv, LinkTypes
<1> QED BY <1>1 DEF Fetched

LEMMA AliveSame == dropped' = dropped => (Alive' <=> Alive) /\ (Kept' <=> Kept)
  BY Zenon DEF Alive, Kept

\* A step that leaves the wire and both ends of it alone.
LEMMA QuietKeeps ==
    ASSUME LinkInv, UNCHANGED <<sent, wire, decoding, dropped, got>>, arrived' \in 0 .. Len(wire),
           ~ Alive => arrived' = 0 /\ SenderIdle',
           ~ decoding => UNCHANGED <<stack, spc>>,
           decoding => \A m : Sendable(m) /\ Path(m) => Path(m)'
    PROVE  LinkInv'
<1>1. LinkTypes /\ Over /\ SentWhole BY DEF LinkInv
<1>2. (Alive' <=> Alive) /\ (Kept' <=> Kept) BY AliveSame
<1>3. LinkTypes' BY <1>1 DEF LinkTypes
<1>4. Over' BY <1>1, <1>2 DEF Over
<1>5. SentWhole' BY <1>1 DEF SentWhole
<1>6. Fetched' = Fetched BY DEF Fetched
<1>7. ASSUME NEW k \in 0 .. Len(sent), WholeTo(k) PROVE Carried(k)'
  <2>1. Carried(k) /\ \A i \in 1 .. k : Sendable(sent[i].msg) BY <1>7, WholeWritten
  <2>2. \A i \in 1 .. k : i <= Len(got) => got[i] = sent[i].msg BY <2>1 DEF Carried
  <2>3. Fetched <= k /\ Alive =>
          \E t \in Seq(Nat) : wire = Rest(sent, Fetched, k) \o t /\ (k = Len(sent) => t = <<>>)
    BY <2>1 DEF Carried
  <2>4. (Fetched < k => Kept) /\ (k = Len(sent) => Fetched <= k /\ Kept) BY <2>1 DEF Carried
  <2>5. ASSUME Fetched <= k, ~ decoding PROVE stack' = <<>> /\ spc' = "idle"
    BY <2>1, <2>5 DEF Carried
  <2>6. ASSUME Fetched <= k, decoding PROVE \E m : m = sent[Fetched].msg /\ Path(m)'
    <3>1. PICK m : m = sent[Fetched].msg /\ Path(m) BY <2>1, <2>6 DEF Carried
    <3>2. Fetched \in 1 .. k BY <1>7, <2>6, FetchedIs
    <3>3. Sendable(m) BY <2>1, <3>1, <3>2
    <3> QED BY <2>6, <3>1, <3>3
  <2> QED BY <1>2, <1>6, <2>2, <2>3, <2>4, <2>5, <2>6 DEF Carried
<1>8. \A k \in 0 .. Len(sent)' : WholeTo(k)' => Carried(k)'
  <2>1. \A k : WholeTo(k)' = WholeTo(k) BY DEF WholeTo
  <2> QED BY <1>7, <2>1
<1> QED BY <1>3, <1>4, <1>5, <1>8 DEF LinkInv

\* A message is written behind those on the wire.
LEMMA WrittenKeeps ==
    ASSUME LinkInv, Alive, NEW bytes \in Seq(Nat), NEW x,
           wire' = wire \o bytes, sent' = Append(sent, x),
           x.whole => Sendable(x.msg) /\ Balanced(bytes) /\ bytes = Encoded(x.msg),
           UNCHANGED vars, UNCHANGED <<arrived, decoding, dropped, got>>
    PROVE  LinkInv'
<1>1. LinkTypes /\ Over /\ SentWhole BY DEF LinkInv
<1>2. Alive' /\ (Kept' <=> Kept) BY AliveSame
<1>3. /\ Listed(sent') /\ Len(sent) \in Nat /\ Len(sent') = Len(sent) + 1
      /\ sent'[Len(sent) + 1] = x /\ \A i \in 1 .. Len(sent) : sent'[i] = sent[i]
  BY <1>1, ListedAppend DEF LinkTypes
<1>4. wire' \in Seq(Nat) /\ Len(wire') = Len(wire) + Len(bytes) BY <1>1, ConcatIs DEF LinkTypes
<1>5. LinkTypes' BY <1>1, <1>3, <1>4 DEF LinkTypes
<1>6. Over' BY <1>2 DEF Over
<1>7. SentWhole'
  <2>1. ASSUME NEW i \in 1 .. Len(sent'), sent'[i].whole
        PROVE  Sendable(sent'[i].msg) /\ Balanced(Encoded(sent'[i].msg))
    <3>1. CASE i \in 1 .. Len(sent)
      <4>1. sent'[i] = sent[i] BY <1>3, <3>1
      <4> QED BY <1>1, <2>1, <3>1, <4>1 DEF SentWhole
    <3>2. CASE i = Len(sent) + 1 BY <1>3, <2>1, <3>2
    <3> QED BY <1>3, <3>1, <3>2
  <2> QED BY <2>1 DEF SentWhole
<1>8. Fetched' = Fetched /\ Fetched \in Nat BY FetchedIs DEF Fetched
<1>9. stack' = stack /\ spc' = spc BY DEF vars, str
<1>10. ASSUME NEW k \in 0 .. Len(sent), WholeTo(k)
       PROVE  /\ Written1(sent, k) /\ Carried(k)
              /\ \A i \in 1 .. k : sent'[i] = sent[i]
              /\ Fetched <= k => Rest(sent', Fetched, k) = Rest(sent, Fetched, k)
  <2>1. Written1(sent, k) /\ Carried(k) BY <1>10, WholeWritten
  <2>2. \A i \in 1 .. k : sent'[i] = sent[i] BY <1>3, <1>10
  <2>3. \A p \in Nat : p <= k => Rest(sent', p, k) = Rest(sent, p, k)
    <3>1. k \in Nat BY <1>3
    <3>2. Agree(sent, sent', k) BY <2>2 DEF Agree
    <3> QED BY <2>1, <3>1, <3>2, RestSame
  <2> QED BY <1>8, <2>1, <2>2, <2>3
<1>11. ASSUME NEW k \in 0 .. Len(sent), WholeTo(k) PROVE Carried(k)'
  <2>1. Carried(k) /\ \A i \in 1 .. k : sent'[i] = sent[i] BY <1>10, <1>11
  <2>2. \A i \in 1 .. k : i <= Len(got') => got'[i] = sent'[i].msg BY <2>1 DEF Carried
  <2>3. ASSUME Fetched <= k PROVE \E t \in Seq(Nat) : wire' = Rest(sent', Fetched, k) \o t
    <3>1. PICK t \in Seq(Nat) : wire = Rest(sent, Fetched, k) \o t BY <2>1, <2>3 DEF Carried
    <3>2. wire' = (Rest(sent', Fetched, k) \o t) \o bytes BY <1>10, <1>11, <2>3, <3>1
    <3>3. Rest(sent, Fetched, k) \in Seq(Nat)
      <4>1. \A p \in Nat : p <= k => Rest(sent, p, k) \in Seq(Nat)
        BY <1>10, <1>11, PartsAre
      <4> QED BY <1>8, <2>3, <4>1
    <3>4. Rest(sent', Fetched, k) = Rest(sent, Fetched, k) BY <1>10, <1>11, <2>3
    <3>5. wire' = Rest(sent', Fetched, k) \o (t \o bytes)
      <4>1. PICK a : a = Rest(sent', Fetched, k) OBVIOUS
      <4>2. a \in Seq(Nat) BY <3>3, <3>4, <4>1
      <4>3. (a \o t) \o bytes = a \o (t \o bytes) BY <4>2, ConcatThree
      <4> QED BY <3>2, <4>1, <4>3, Zenon
    <3>6. t \o bytes \in Seq(Nat) BY ConcatIs
    <3> QED BY <3>5, <3>6
  <2>4. Fetched < k => Kept BY <2>1 DEF Carried
  <2>5. k # Len(sent') BY <1>3
  <2>6. ASSUME Fetched <= k, ~ decoding PROVE stack = <<>> /\ spc = "idle"
    BY <2>1, <2>6 DEF Carried
  <2>7. ASSUME Fetched <= k, decoding PROVE \E m : m = sent'[Fetched].msg /\ Path(m)'
    <3>1. PICK m : m = sent[Fetched].msg /\ Path(m) BY <2>1, <2>7 DEF Carried
    <3>2. Fetched \in 1 .. k BY <1>11, <2>7, FetchedIs
    <3> QED BY <2>1, <3>1, <3>2, PathSame
  <2> QED BY <1>2, <1>8, <1>9, <2>2, <2>3, <2>4, <2>5, <2>6, <2>7 DEF Carried
<1>12. ASSUME NEW k, k = Len(sent) + 1, WholeTo(k)' PROVE Carried(k)'
  <2> DEFINE n == Len(sent)
  <2>1. k \in Nat /\ n \in 0 .. Len(sent) /\ n + 1 = k /\ k \in 1 .. k BY <1>3, <1>12
  <2>2. x.whole /\ WholeTo(n)
    <3>1. \A i \in 1 .. k : sent'[i].whole BY <1>12 DEF WholeTo
    <3>2. sent'[k].whole BY <2>1, <3>1
    <3>3. \A i \in 1 .. n : sent[i].whole
      <4>1. \A i \in 1 .. n : i \in 1 .. k BY <2>1
      <4> QED BY <1>3, <3>1, <4>1
    <3> QED BY <1>3, <1>12, <3>2, <3>3 DEF WholeTo
  <2>3. Sendable(sent'[k].msg) /\ bytes = Encoded(sent'[k].msg) BY <1>3, <1>12, <2>2
  <2>4. /\ Carried(n) /\ Written1(sent, n) /\ Rest(sent', Fetched, n) = Rest(sent, Fetched, n)
        /\ Fetched <= n /\ Kept
    <3>1. Carried(n) /\ Written1(sent, n) BY <1>10, <2>1, <2>2
    <3>2. Fetched <= n /\ Kept BY <3>1 DEF Carried
    <3> QED BY <1>10, <2>1, <2>2, <3>1, <3>2
  <2>5. \A i \in 1 .. n : sent'[i] = sent[i] BY <1>3
  <2>6. wire = Rest(sent, Fetched, n) \o <<>>
    <3>1. \E t \in Seq(Nat) : wire = Rest(sent, Fetched, n) \o t /\ (n = Len(sent) => t = <<>>)
      BY <2>4 DEF Carried
    <3> QED BY <3>1
  <2> HIDE DEF n
  <2>7. Written1(sent', k)
    <3>1. \A i \in 1 .. k : Encoded(sent'[i].msg) \in Seq(Nat)
      <4>1. \A i \in 1 .. n : Encoded(sent[i].msg) \in Seq(Nat) BY <2>4 DEF Written1
      <4>2. Encoded(sent'[k].msg) \in Seq(Nat) BY <2>3
      <4>3. \A i \in 1 .. k : i \in 1 .. n \/ i = k BY <2>1, <1>3 DEF n
      <4> QED BY <2>5, <4>1, <4>2, <4>3
    <3> QED BY <2>1, <3>1 DEF Written1
  <2>8. Rest(sent', Fetched, k) = Rest(sent', Fetched, n) \o bytes
    <3>0. n \in Nat BY <1>3 DEF n
    <3>1. Rest(sent', Fetched, n + 1) = Rest(sent', Fetched, n) \o Encoded(sent'[n + 1].msg)
      BY <1>8, <2>1, <2>4, <2>7, <3>0, RestLast
    <3> QED BY <2>1, <2>3, <3>1
  <2>9. Rest(sent, Fetched, n) \in Seq(Nat)
    <3>0. n \in Nat BY <1>3 DEF n
    <3>1. \A p \in Nat : p <= n => Rest(sent, p, n) \in Seq(Nat) BY <2>4, <3>0, PartsAre
    <3> QED BY <1>8, <2>4, <3>1
  <2>10. wire = Rest(sent, Fetched, n)
    <3>1. \A s \in Seq(Nat) : s \o <<>> = s OBVIOUS
    <3> QED BY <2>6, <2>9, <3>1
  <2>11. wire' = Rest(sent', Fetched, k) \o <<>>
    <3>1. \A s \in Seq(Nat) : s \o <<>> = s OBVIOUS
    <3>2. wire' = Rest(sent', Fetched, k) BY <2>4, <2>8, <2>10
    <3> QED BY <1>4, <3>1, <3>2
  <2>12. \A i \in 1 .. k : i <= Len(got') => got'[i] = sent'[i].msg
    <3>1. Len(got) \in Nat /\ (Fetched = Len(got) \/ Fetched = Len(got) + 1) BY FetchedIs
    <3>2. Len(got) <= n BY <1>3, <2>4, <3>1 DEF n
    <3>3. \A i \in 1 .. n : i <= Len(got) => got[i] = sent[i].msg BY <2>4 DEF Carried
    <3>4. \A i \in 1 .. k : i <= Len(got) => i \in 1 .. n BY <1>3, <2>1, <3>1, <3>2 DEF n
    <3> QED BY <2>5, <3>3, <3>4
  <2>13. ~ decoding => stack = <<>> /\ spc = "idle" BY <2>4 DEF Carried
  <2>14. ASSUME decoding PROVE \E m : m = sent'[Fetched].msg /\ Path(m)'
    <3>1. PICK m : m = sent[Fetched].msg /\ Path(m) BY <2>4, <2>14 DEF Carried
    <3>2. Fetched \in 1 .. n BY <1>3, <2>4, <2>14, FetchedIs DEF n
    <3> QED BY <2>5, <3>1, <3>2, PathSame
  <2>15. Fetched <= k /\ <<>> \in Seq(Nat) BY <1>3, <1>8, <2>1, <2>4 DEF n
  <2> QED BY <1>2, <1>8, <1>9, <2>4, <2>11, <2>12, <2>13, <2>14, <2>15 DEF Carried
<1>13. \A k \in 0 .. Len(sent)' : WholeTo(k)' => Carried(k)'
  <2>1. ASSUME NEW k \in 0 .. Len(sent'), WholeTo(k)' PROVE Carried(k)'
    <3>1. CASE k = Len(sent) + 1 BY <1>12, <2>1, <3>1
    <3>2. CASE k \in 0 .. Len(sent)
      <4>1. WholeTo(k) BY <1>3, <2>1, <3>2 DEF WholeTo
      <4> QED BY <1>11, <3>2, <4>1
    <3> QED BY <1>3, <2>1, <3>1, <3>2
  <2> QED BY <2>1
<1> QED BY <1>5, <1>6, <1>7, <1>13 DEF LinkInv

-----------------------------------------------------------------------------
(* The steps.                                                              *)

LEMMA LinkInit_Inv == LinkInit => LinkInv
<1> SUFFICES ASSUME LinkInit PROVE LinkInv OBVIOUS
<1>1. /\ sent = <<>> /\ wire = <<>> /\ arrived = 0 /\ got = <<>> /\ decoding = FALSE
      /\ stack = <<>> /\ spc = "idle" /\ Alive
  BY Zenon DEF LinkInit, StringInit, Alive
<1>2. LinkTypes
  <2>1. sent \in Seq({}) /\ got \in Seq({}) /\ wire \in Seq(Nat) /\ Len(wire) = 0 BY <1>1
  <2> QED BY <1>1, <2>1 DEF LinkTypes, Listed
<1>3. Kept BY <1>1, Zenon DEF Alive, Kept
<1>4. Len(sent) = 0 /\ Len(got) = 0 /\ Fetched = 0 BY <1>1 DEF Fetched
<1>5. SentWhole BY <1>4 DEF SentWhole
<1>6. Carried(0)
  <2>1. Written1(sent, 0)
    <3>1. \A i \in 1 .. 0 : Encoded(sent[i].msg) \in Seq(Nat) OBVIOUS
    <3> QED BY <3>1 DEF Written1
  <2>2. Rest(sent, 0, 0) = <<>> BY <2>1, RestNone
  <2>3. wire = Rest(sent, Fetched, 0) \o <<>>
    <3>1. <<>> \o <<>> = <<>> OBVIOUS
    <3> QED BY <1>1, <1>4, <2>2, <3>1
  <2>4. \A i \in 1 .. 0 : i <= Len(got) => got[i] = sent[i].msg OBVIOUS
  <2>5. <<>> \in Seq(Nat) OBVIOUS
  <2>6. \E t \in Seq(Nat) : wire = Rest(sent, Fetched, 0) \o t /\ (0 = Len(sent) => t = <<>>)
    BY <2>3, <2>5
  <2>7. ~ decoding /\ stack = <<>> /\ spc = "idle" BY <1>1
  <2>8. Fetched <= 0 /\ ~ (Fetched < 0) BY <1>4
  <2> QED BY <1>3, <2>4, <2>6, <2>7, <2>8, Zenon DEF Carried
<1>7. \A k \in 0 .. Len(sent) : WholeTo(k) => Carried(k)
  <2>1. \A k \in 0 .. Len(sent) : k = 0 BY <1>4
  <2> QED BY <1>6, <2>1
<1> QED BY <1>1, <1>2, <1>5, <1>7 DEF LinkInv, Over

\* What is not about the wire.
LEMMA IdleKeepsLink ==
    ASSUME LinkInv, UNCHANGED <<vars, sent, wire, decoding, dropped, got>>,
           arrived' \in 0 .. Len(wire), ~ Alive => arrived' = 0 /\ SenderIdle'
    PROVE  LinkInv'
<1>1. UNCHANGED vars /\ UNCHANGED <<sent, wire, decoding, dropped, got>> OBVIOUS
<1>2. stack' = stack /\ spc' = spc BY <1>1 DEF vars, str
<1> QED BY <1>1, <1>2, PathSame, QuietKeeps

LEMMA MaySendAlive == MaySend => Alive
  BY Zenon DEF MaySend, Alive

LEMMA send_messageLink == ASSUME LinkInv, send_message PROVE LinkInv'
<1>1. Alive /\ UNCHANGED <<vars, sent, wire, arrived, decoding, dropped, got>>
  BY MaySendAlive DEF send_message
<1>2. arrived \in 0 .. Len(wire) BY DEF LinkInv, LinkTypes
<1> QED BY <1>1, <1>2, IdleKeepsLink

LEMMA EncodeLink == ASSUME LinkInv, Encode PROVE LinkInv'
<1>1. EncodeStep /\ UNCHANGED <<vars, sent, wire, arrived, decoding, dropped, got>> BY DEF Encode
<1>2. todo # <<>>
  BY <1>1 DEF EncodeStep, Create, CreateFails, Add, AddIsIgnored, RefuseType, BeginPrint,
             BeginPrintFails, PrintPiece, PrintFails, Shrink, ShrinkFails, Pending
<1>3. Alive BY <1>2 DEF LinkInv, Over, SenderIdle
<1>4. arrived \in 0 .. Len(wire) BY DEF LinkInv, LinkTypes
<1> QED BY <1>1, <1>3, <1>4, IdleKeepsLink

LEMMA send_encoded_messageLink ==
    ASSUME LinkInv, EncInv, EncOut, send_encoded_message PROVE LinkInv'
<1> DEFINE whole == Strnlen = Len(out) /\ Complete
           bytes == SubSeq(out, 1, Strnlen)
           x == [msg |-> msg, whole |-> whole /\ Balanced(bytes)]
<1>1. /\ todo = <<>> /\ out # <<>> /\ wire' = wire \o bytes /\ sent' = Append(sent, x)
      /\ UNCHANGED vars /\ UNCHANGED <<arrived, decoding, dropped, got>>
  BY DEF send_encoded_message, Written
<1>2. Alive BY <1>1 DEF LinkInv, Over, SenderIdle
<1>3. out \in Seq(Nat) BY DEF EncInv, EncTypes
<1>4. Strnlen \in 1 .. Len(out) BY <1>1, <1>3, EncoderAssumption DEF Strnlen
<1>5. /\ bytes \in Seq(Nat) /\ Len(bytes) = Strnlen
      /\ \A i \in 1 .. Strnlen : bytes[i] = out[i]
  BY <1>3, <1>4
<1>6. x.msg = msg /\ x.whole = (whole /\ Balanced(bytes)) BY Zenon
<1>7. ASSUME whole PROVE Sendable(msg) /\ bytes = Encoded(msg)
  <2>1. Strnlen = Len(out) /\ Complete BY <1>7
  <2>2. Sendable(msg) /\ out = Encoded(msg) BY <1>1, <2>1, PrintedMessage
  <2>3. bytes = out BY <1>3, <1>5, <2>1, SeqEqual
  <2> QED BY <2>2, <2>3
<1> HIDE DEF whole, bytes, x
<1>8. x.whole => Sendable(x.msg) /\ Balanced(bytes) /\ bytes = Encoded(x.msg)
  BY <1>6, <1>7, Zenon
<1> QED BY <1>1, <1>2, <1>5, <1>8, WrittenKeeps

LEMMA send_keep_aliveLink == ASSUME LinkInv, send_keep_alive PROVE LinkInv'
<1> DEFINE bytes == keep_alive_msg
           x == [msg |-> KeepAlive, whole |-> Balanced(bytes)]
<1>1. /\ wire' = wire \o bytes /\ sent' = Append(sent, x)
      /\ UNCHANGED vars /\ UNCHANGED <<arrived, decoding, dropped, got>>
  <2>1. (TRUE /\ Balanced(bytes)) = Balanced(bytes) BY DEF Balanced
  <2>2. sent' = Append(sent, [msg |-> KeepAlive, whole |-> TRUE /\ Balanced(bytes)])
    BY DEF send_keep_alive, Written
  <2>3. sent' = Append(sent, x) BY <2>1, <2>2, Zenon
  <2> QED BY <2>3 DEF send_keep_alive, Written
<1>2. Alive BY MaySendAlive DEF send_keep_alive
<1>3. x.msg = KeepAlive /\ x.whole = Balanced(bytes) BY Zenon
<1>4. bytes = Encoded(KeepAlive) BY KeepAliveBytes
<1>5. bytes \in Seq(Nat)
  <2>1. PICK m : m = KeepAlive OBVIOUS
  <2>2. Encoded(m) \in Seq(Nat) BY <2>1, KeepAliveSendable, EncodedFirst
  <2> QED BY <1>4, <2>1, <2>2
<1> HIDE DEF bytes, x
<1>6. x.whole => Sendable(x.msg) /\ Balanced(bytes) /\ bytes = Encoded(x.msg)
  BY <1>3, <1>4, KeepAliveSendable, Zenon
<1> QED BY <1>1, <1>2, <1>5, <1>6, WrittenKeeps

LEMMA ArriveLink == ASSUME LinkInv, Arrive PROVE LinkInv'
<1>1. UNCHANGED <<encoderVars, vars, sent, wire, decoding, dropped, got>> BY DEF Arrive
<1>2. arrived' \in arrived + 1 .. Len(wire) BY DEF Arrive
<1>3. wire \in Seq(Nat) /\ arrived \in 0 .. Len(wire) /\ Over BY DEF LinkInv, LinkTypes
<1>4. arrived' \in 0 .. Len(wire) BY <1>2, <1>3
<1>5. Alive
  <2>1. ASSUME ~ Alive PROVE FALSE
    <3>1. Len(wire) = 0 /\ arrived = 0 BY <1>3, <2>1 DEF Over
    <3> QED BY <1>2, <3>1
  <2> QED BY <2>1
<1> QED BY <1>1, <1>4, <1>5, IdleKeepsLink

LEMMA DeleteTreeLink == ASSUME LinkInv, DeleteTree PROVE LinkInv'
<1>1. /\ ~ decoding /\ UNCHANGED <<encoderVars, sent, wire, arrived, decoding, dropped, got>>
      /\ stack' = stack /\ spc' = spc
  BY DEF DeleteTree, Delete, str
<1>2. arrived \in 0 .. Len(wire) /\ Over BY DEF LinkInv, LinkTypes
<1>3. ~ Alive => arrived' = 0 /\ SenderIdle' BY <1>1, <1>2 DEF Over, SenderIdle, encoderVars
<1> QED BY <1>1, <1>2, <1>3, QuietKeeps

LEMMA ParseStepLink ==
    ASSUME LinkInv, ParseStep, ~ AllocFails,
           NestingLimit \in Nat, NestingLimit >= 2, NumberSize \in Nat, NumberSize >= 11
    PROVE  LinkInv'
<1>1. /\ decoding /\ Next /\ UNCHANGED <<encoderVars, sent, wire, arrived, decoding, dropped, got>>
  BY DEF ParseStep
<1>2. arrived \in 0 .. Len(wire) /\ Over BY DEF LinkInv, LinkTypes
<1>3. ~ Alive => arrived' = 0 /\ SenderIdle' BY <1>1, <1>2 DEF Over, SenderIdle, encoderVars
<1>4. \A m : Sendable(m) /\ Path(m) => Path(m)' BY <1>1, PathStep
<1> QED BY <1>1, <1>2, <1>3, <1>4, QuietKeeps

\* A message that is whole does not begin with another byte than a brace, nor does the
\* server wait for the first of what is not there.
LEMMA MessageWaits ==
    ASSUME LinkInv, Reading, NEW k \in 0 .. Len(sent), WholeTo(k)
    PROVE  /\ Alive /\ ~ decoding /\ doomed = <<>> /\ SenderIdle
           /\ k = Len(sent) => Fetched < k
           /\ Fetched < k => wire[1] = LBrace
<1>1. ~ decoding /\ doomed = <<>> /\ SenderIdle /\ arrived > 0 BY DEF Reading, ReaderIdle
<1>2. LinkTypes /\ Over BY DEF LinkInv
<1>3. Len(wire) > 0 BY <1>1, <1>2 DEF LinkTypes
<1>4. Alive BY <1>1, <1>2 DEF Over
<1>5. Carried(k) /\ Written1(sent, k) /\ Len(sent) \in Nat BY WholeWritten
<1>6. Fetched \in Nat /\ k \in Nat BY <1>5, FetchedIs
<1>7. ASSUME k = Len(sent) PROVE Fetched < k
  <2>1. Fetched <= k BY <1>5, <1>7 DEF Carried
  <2>2. ASSUME Fetched = k PROVE FALSE
    <3>1. \E t \in Seq(Nat) : wire = Rest(sent, Fetched, k) \o t /\ (k = Len(sent) => t = <<>>)
      BY <1>4, <1>5, <2>1 DEF Carried
    <3>2. Rest(sent, k, k) = <<>> BY <1>5, <1>6, RestNone
    <3>3. wire = <<>> \o <<>> BY <1>7, <2>2, <3>1, <3>2
    <3>4. Len(<<>> \o <<>>) = 0 OBVIOUS
    <3> QED BY <1>3, <3>3, <3>4
  <2> QED BY <1>6, <2>1, <2>2
<1>8. ASSUME Fetched < k PROVE wire[1] = LBrace
  <2>1. PICK f \in Nat : f = Fetched BY <1>6
  <2>2. PICK e : e = Encoded(sent[f + 1].msg) OBVIOUS
  <2>3. f < k BY <1>8, <2>1
  <2>4. e \in Seq(Nat) /\ Len(e) >= 1 /\ e[1] = LBrace
        /\ \E r \in Seq(Nat) : wire = e \o r
    BY <1>4, <2>1, <2>2, <2>3, FirstOnWire
  <2> QED BY <2>4, CutFirst
<1> QED BY <1>1, <1>4, <1>7, <1>8

LEMMA FetchErrorLink == ASSUME LinkInv, FetchError PROVE LinkInv'
<1>1. /\ Reading /\ wire' = <<>> /\ arrived' = 0
      /\ UNCHANGED <<encoderVars, vars, sent, decoding, got>>
      /\ ~ Kept' => wire[1] # LBrace
  BY Zenon DEF FetchError, Kept
<1>2. ~ Alive' BY Zenon DEF FetchError, Alive
<1>3. LinkTypes /\ SentWhole BY DEF LinkInv
<1>4. ~ decoding /\ SenderIdle BY <1>1 DEF Reading, ReaderIdle
<1>5. LinkTypes'
  <2>1. <<>> \in Seq(Nat) /\ Len(<<>>) = 0 OBVIOUS
  <2> QED BY <1>1, <1>3, <2>1 DEF LinkTypes
<1>6. Over' BY <1>1, <1>4 DEF Over, SenderIdle, encoderVars
<1>7. SentWhole' BY <1>1, <1>3 DEF SentWhole
<1>8. stack' = stack /\ spc' = spc /\ Fetched' = Fetched BY <1>1 DEF vars, str, Fetched
<1>9. ASSUME NEW k \in 0 .. Len(sent), WholeTo(k) PROVE Carried(k)'
  <2>1. /\ k = Len(sent) => Fetched < k
        /\ Fetched < k => wire[1] = LBrace
    BY <1>1, <1>9, MessageWaits
  <2>2. Carried(k) BY <1>9, WholeWritten
  <2>3. (Fetched < k => Kept') /\ (k = Len(sent) => Fetched <= k /\ Kept')
    <3>1. k = Len(sent) => Fetched <= k BY <2>2 DEF Carried
    <3> QED BY <1>1, <2>1, <3>1
  <2>4. \A i \in 1 .. k : i <= Len(got) => got[i] = sent[i].msg BY <2>2 DEF Carried
  <2>5. Fetched <= k => stack = <<>> /\ spc = "idle" BY <1>4, <2>2 DEF Carried
  <2> QED BY <1>1, <1>2, <1>4, <1>8, <2>3, <2>4, <2>5 DEF Carried
<1>10. \A k \in 0 .. Len(sent)' : WholeTo(k)' => Carried(k)'
  <2>1. \A k : WholeTo(k)' = WholeTo(k) BY <1>1 DEF WholeTo
  <2> QED BY <1>1, <1>9, <2>1
<1> QED BY <1>5, <1>6, <1>7, <1>10 DEF LinkInv

LEMMA PathBegun == ASSUME NEW m, Sendable(m) PROVE Begun(m)' => Path(m)'
<1>1. Sendable(m) /\ Begun(m) => Path(m) BY PathBegins
<1>2. (Sendable(m) /\ Begun(m) => Path(m))' BY <1>1, PTL
<1> QED BY <1>2

LEMMA FetchObjectLink == ASSUME LinkInv, FetchObject PROVE LinkInv'
<1>1. /\ Reading /\ decoding' = TRUE /\ pc' = "start" /\ offset' = 0 /\ depth' = 0 /\ fresh' = 1
      /\ UNCHANGED <<encoderVars, str, stack, heap, doomed, fate, sent, dropped, got>>
  BY DEF FetchObject
<1>2. PICK n \in 1 .. arrived : /\ Balanced(SubSeq(wire, 1, n))
                               /\ wire' = SubSeq(wire, n + 1, Len(wire)) /\ arrived' = arrived - n
                               /\ text' = SubSeq(wire, 1, n) \o <<0>>
  BY DEF FetchObject, Take
<1>3. LinkTypes /\ SentWhole BY DEF LinkInv
<1>4. wire \in Seq(Nat) /\ arrived \in 0 .. Len(wire) BY <1>3 DEF LinkTypes
<1>5. n \in 1 .. Len(wire) BY <1>4
<1>6. /\ wire' \in Seq(Nat) /\ arrived' \in 0 .. Len(wire')
  <2>1. /\ SubSeq(wire, n + 1, Len(wire)) \in Seq(Nat)
        /\ Len(SubSeq(wire, n + 1, Len(wire))) = Len(wire) - n
    BY <1>4, <1>5
  <2> QED BY <1>2, <1>4, <1>5, <2>1
<1>7. LinkTypes' BY <1>1, <1>3, <1>6 DEF LinkTypes
<1>8. SentWhole' BY <1>1, <1>3 DEF SentWhole
<1>9. /\ Alive /\ Alive' /\ ~ decoding /\ doomed = <<>>
  <2>1. ~ decoding /\ doomed = <<>> /\ arrived > 0 BY <1>1 DEF Reading, ReaderIdle
  <2>2. Alive BY <2>1 DEF LinkInv, Over
  <2> QED BY <1>1, <2>1, <2>2, AliveSame
<1>10. Over' BY <1>9 DEF Over
<1>11. Kept' BY <1>9, Zenon DEF Alive, Kept
<1>12. Fetched' = Fetched + 1 /\ Fetched' = Len(got) + 1 /\ Fetched \in Nat
  <2>1. Fetched = Len(got) /\ Fetched \in Nat BY <1>9, FetchedIs
  <2>2. Fetched' = Len(got) + 1 BY <1>1 DEF Fetched
  <2> QED BY <2>1, <2>2
<1>13. ASSUME NEW k \in 0 .. Len(sent), WholeTo(k) PROVE Carried(k)'
  <2>1. Carried(k) /\ (k = Len(sent) => Fetched < k) BY <1>1, <1>13, WholeWritten, MessageWaits
  <2>2. \A i \in 1 .. k : i <= Len(got) => got[i] = sent[i].msg BY <2>1 DEF Carried
  <2>3. k \in Nat BY <1>13, FetchedIs
  <2>4. ASSUME Fetched < k
        PROVE  /\ \E t \in Seq(Nat) :
                    wire' = Rest(sent, Fetched', k) \o t /\ (k = Len(sent) => t = <<>>)
               /\ \E m : m = sent[Fetched'].msg /\ Path(m)'
    <3>1. PICK f \in Nat : f = Fetched BY <1>12
    <3>2. f < k BY <2>4, <3>1
    <3>3. PICK m : m = sent[f + 1].msg OBVIOUS
    <3>4. PICK e : e = Encoded(m) OBVIOUS
    <3>5. e \in Seq(Nat) /\ Len(e) >= 1 /\ Balanced(e) /\ Sendable(m)
          /\ \E t \in Seq(Nat) : /\ wire = e \o (Rest(sent, f + 1, k) \o t)
                                 /\ Rest(sent, f + 1, k) \o t \in Seq(Nat)
                                 /\ k = Len(sent) => t = <<>>
      BY <1>9, <1>13, <3>1, <3>2, <3>3, <3>4, FirstOnWire
    <3>6. PICK t \in Seq(Nat) : /\ wire = e \o (Rest(sent, f + 1, k) \o t)
                                /\ Rest(sent, f + 1, k) \o t \in Seq(Nat)
                                /\ k = Len(sent) => t = <<>>
      BY <3>5
    <3>7. PICK r : r = Rest(sent, f + 1, k) \o t OBVIOUS
    <3>8. r \in Seq(Nat) /\ wire = e \o r BY <3>6, <3>7
    <3>9. /\ Len(e) \in 1 .. Len(wire) /\ SubSeq(wire, 1, Len(e)) = e
          /\ SubSeq(wire, Len(e) + 1, Len(wire)) = r
      BY <3>5, <3>8, CutFirst, ZenonT(60)
    <3>10. n = Len(e) BY <1>2, <1>4, <1>5, <3>5, <3>9, BalancedOnce
    <3>11. wire' = r /\ text' = e \o <<0>> BY <1>2, <3>9, <3>10
    <3>12. Fetched' = f + 1 BY <1>12, <3>1
    <3>13. Path(m)'
      <4>1. stack = <<>> /\ spc = "idle" BY <1>9, <1>12, <2>1, <2>3, <2>4 DEF Carried
      <4>2. Begun(m)' BY <1>1, <1>9, <3>4, <3>11, <4>1 DEF Begun, str
      <4> QED BY <3>5, <4>2, PathBegun
    <3> QED BY <3>3, <3>6, <3>7, <3>11, <3>12, <3>13
  <2>5. Fetched' <= k => Fetched < k BY <1>12, <2>3
  <2>6. k = Len(sent) => Fetched' <= k BY <1>12, <2>1, <2>3
  <2> QED BY <1>1, <1>11, <2>2, <2>4, <2>5, <2>6 DEF Carried
<1>14. \A k \in 0 .. Len(sent)' : WholeTo(k)' => Carried(k)'
  <2>1. \A k : WholeTo(k)' = WholeTo(k) BY <1>1 DEF WholeTo
  <2> QED BY <1>1, <1>13, <2>1
<1> QED BY <1>7, <1>8, <1>10, <1>14 DEF LinkInv

LEMMA decode_messageLink == ASSUME LinkInv, decode_message PROVE LinkInv'
<1>1. /\ decoding /\ pc \in {"done", "failed"} /\ doomed = <<>> /\ decoding' = FALSE
      /\ UNCHANGED <<encoderVars, text, offset, str, stack, fresh, depth, sent, wire, arrived, dropped>>
  BY DEF decode_message
<1>2. PICK x : x = (IF pc = "done" THEN Decoded(root) ELSE Bad) /\ got' = Append(got, x)
  BY DEF decode_message
<1>3. LinkTypes /\ SentWhole /\ Over BY DEF LinkInv
<1>4. /\ Listed(got') /\ Len(got) \in Nat /\ Len(got') = Len(got) + 1 /\ got'[Len(got) + 1] = x
      /\ \A i \in 1 .. Len(got) : got'[i] = got[i]
  BY <1>2, <1>3, ListedAppend DEF LinkTypes
<1>5. LinkTypes' BY <1>1, <1>3, <1>4 DEF LinkTypes
<1>6. SentWhole' BY <1>1, <1>3 DEF SentWhole
<1>7. (Alive' <=> Alive) /\ (Kept' <=> Kept) BY <1>1, AliveSame
<1>8. Over' BY <1>1, <1>3, <1>7 DEF Over, SenderIdle, encoderVars
<1>9. Fetched = Len(got) + 1 /\ Fetched' = Len(got) + 1 /\ Fetched' = Fetched
  <2>1. Fetched' = Len(got') + 0 BY <1>1 DEF Fetched
  <2>2. Fetched = Len(got) + 1 BY <1>1, FetchedIs
  <2> QED BY <1>4, <2>1, <2>2
<1>10. stack' = stack /\ spc' = spc BY <1>1 DEF str
<1>11. ASSUME NEW k \in 0 .. Len(sent), WholeTo(k) PROVE Carried(k)'
  <2>1. Carried(k) /\ Len(sent) \in Nat /\ \A i \in 1 .. k : Sendable(sent[i].msg)
    BY <1>11, WholeWritten
  <2>2. ASSUME Fetched <= k PROVE x = sent[Fetched].msg /\ stack = <<>> /\ spc = "idle"
    <3>1. PICK m : m = sent[Fetched].msg /\ Path(m) BY <1>1, <2>1, <2>2 DEF Carried
    <3>2. Fetched \in 1 .. k BY <1>4, <1>9, <2>1, <2>2
    <3>3. Sendable(m) BY <2>1, <3>1, <3>2
    <3>4. PICK pos, sub : Stage(m, pos, sub) BY <3>1 DEF Path
    <3>5. pc = "done" /\ stack = <<>> /\ spc = "idle" /\ Whole(m, root)
      BY <1>1, <3>4 DEF Stage, Inside
    <3>6. Decoded(root) = m
      <4>1. PICK r : r = root OBVIOUS
      <4>2. Decoded(r) = m BY <3>3, <3>5, <4>1, DecodedIs
      <4> QED BY <4>1, <4>2
    <3> QED BY <1>2, <3>1, <3>5, <3>6
  <2>3. \A i \in 1 .. k : i <= Len(got') => got'[i] = sent[i].msg
    <3>1. \A i \in 1 .. k : i <= Len(got) => got[i] = sent[i].msg BY <2>1 DEF Carried
    <3>2. ASSUME NEW i \in 1 .. k, i <= Len(got') PROVE got'[i] = sent[i].msg
      <4>1. CASE i <= Len(got)
        <5>1. i \in 1 .. Len(got) BY <1>4, <4>1
        <5> QED BY <1>4, <3>1, <4>1, <5>1
      <4>2. CASE i = Len(got) + 1
        <5>1. Fetched <= k /\ i = Fetched BY <1>4, <1>9, <2>1, <4>2
        <5> QED BY <1>4, <2>2, <4>2, <5>1
      <4> QED BY <1>4, <2>1, <3>2, <4>1, <4>2
    <3> QED BY <3>2
  <2>4. Fetched <= k /\ Alive =>
          \E t \in Seq(Nat) : wire = Rest(sent, Fetched, k) \o t /\ (k = Len(sent) => t = <<>>)
    BY <2>1 DEF Carried
  <2>5. (Fetched < k => Kept) /\ (k = Len(sent) => Fetched <= k /\ Kept) BY <2>1 DEF Carried
  <2> QED BY <1>1, <1>7, <1>9, <1>10, <2>2, <2>3, <2>4, <2>5 DEF Carried
<1>12. \A k \in 0 .. Len(sent)' : WholeTo(k)' => Carried(k)'
  <2>1. \A k : WholeTo(k)' = WholeTo(k) BY <1>1 DEF WholeTo
  <2> QED BY <1>1, <1>11, <2>1
<1> QED BY <1>5, <1>6, <1>8, <1>12 DEF LinkInv

\* Memory, and limits that no message reaches.
Roomy == ~ AllocFails /\ NestingLimit \in Nat /\ NestingLimit >= 2 /\ NumberSize \in Nat /\ NumberSize >= 11

LEMMA LinkNext_Inv ==
    ASSUME LinkInv, EncInv, EncOut, Roomy, [LinkNext]_linkVars PROVE LinkInv'
<1>1. CASE send_message BY <1>1, send_messageLink
<1>2. CASE Encode BY <1>2, EncodeLink
<1>3. CASE send_encoded_message BY <1>3, send_encoded_messageLink
<1>4. CASE send_keep_alive BY <1>4, send_keep_aliveLink
<1>5. CASE Arrive BY <1>5, ArriveLink
<1>6. CASE FetchObject BY <1>6, FetchObjectLink
<1>7. CASE FetchError BY <1>7, FetchErrorLink
<1>8. CASE ParseStep BY <1>8, ParseStepLink DEF Roomy
<1>9. CASE decode_message BY <1>9, decode_messageLink
<1>10. CASE DeleteTree BY <1>10, DeleteTreeLink
<1>11. CASE UNCHANGED linkVars
  <2>1. UNCHANGED <<encoderVars, vars, sent, wire, arrived, decoding, dropped, got>>
    BY <1>11 DEF linkVars
  <2>2. arrived \in 0 .. Len(wire) /\ Over BY DEF LinkInv, LinkTypes
  <2>3. ~ Alive => arrived' = 0 /\ SenderIdle' BY <2>1, <2>2 DEF Over, SenderIdle, encoderVars
  <2> QED BY <2>1, <2>2, <2>3, IdleKeepsLink
<1> QED BY <1>1, <1>2, <1>3, <1>4, <1>5, <1>6, <1>7, <1>8, <1>9, <1>10, <1>11 DEF LinkNext

\* What is whole is delivered in order, and when the wire is empty nothing is missing.
LEMMA NothingMissing == ASSUME LinkInv PROVE WholeMessagesArrive
<1> SUFFICES ASSUME NEW k \in DOMAIN sent, \A i \in 1 .. k : sent[i].whole
             PROVE  /\ \A i \in 1 .. k : i <= Len(got) => got[i] = sent[i].msg
                    /\ k = Len(sent) => Len(got) <= k /\ dropped \in {"", "partial"}
                    /\ (SenderIdle /\ ReaderIdle /\ wire = <<>> /\ dropped # "partial")
                         => Len(got) >= k
  BY Zenon DEF WholeMessagesArrive
<1>1. k \in 0 .. Len(sent) /\ k \in Nat /\ Len(sent) \in Nat
  <2>1. PICK S : sent \in Seq(S) BY DEF LinkInv, LinkTypes, Listed
  <2> QED BY <2>1
<1>2. WholeTo(k) BY DEF WholeTo
<1>3. Carried(k) BY <1>1, <1>2, WholeWritten
<1>4. Fetched \in Nat /\ Len(got) \in Nat /\ Len(got) <= Fetched
  <2>1. PICK S : got \in Seq(S) BY DEF LinkInv, LinkTypes, Listed
  <2>2. Len(got) \in Nat BY <2>1
  <2> QED BY <2>2 DEF Fetched
<1>5. ASSUME k = Len(sent) PROVE Len(got) <= k /\ dropped \in {"", "partial"}
  <2>1. Fetched <= k /\ Kept BY <1>3, <1>5 DEF Carried
  <2>2. dropped \in {"", "partial"} BY <2>1 DEF Kept
  <2>3. Len(got) <= k
    <3>1. PICK f \in Nat : f = Fetched BY <1>4
    <3>2. f <= k BY <2>1, <3>1
    <3>3. Len(got) <= f BY <1>4, <3>1
    <3> QED BY <1>1, <1>4, <3>2, <3>3
  <2> QED BY <2>2, <2>3
<1>6. ASSUME SenderIdle, ReaderIdle, wire = <<>>, dropped # "partial" PROVE Len(got) >= k
  <2>1. ~ decoding BY <1>6 DEF ReaderIdle
  <2>2. Fetched = Len(got) BY <2>1, FetchedIs
  <2>3. Kept => Alive BY <1>6, Zenon DEF Kept, Alive
  <2>4. ASSUME Fetched < k PROVE FALSE
    <3>1. Alive BY <1>3, <2>3, <2>4 DEF Carried
    <3>2. PICK f \in Nat : f = Fetched BY <1>4
    <3>3. PICK e : e = Encoded(sent[f + 1].msg) OBVIOUS
    <3>4. f < k BY <2>4, <3>2
    <3>5. e \in Seq(Nat) /\ Len(e) >= 1 /\ \E r \in Seq(Nat) : wire = e \o r
      BY <1>1, <1>2, <3>1, <3>2, <3>3, <3>4, FirstOnWire
    <3>6. PICK r \in Seq(Nat) : wire = e \o r BY <3>5
    <3>7. Len(wire) = Len(e) + Len(r) BY <3>5, <3>6, CutFirst, Zenon
    <3>8. Len(wire) = 0 BY <1>6
    <3> QED BY <3>5, <3>7, <3>8
  <2> QED BY <1>1, <1>4, <2>2, <2>4
<1>7. \A i \in 1 .. k : i <= Len(got) => got[i] = sent[i].msg BY <1>3 DEF Carried
<1> QED BY <1>5, <1>6, <1>7

\* WholeMessagesArrive: what send_message encodes is what decode_message makes of it, for
\* all texts and all valve numbers.  The messages that were written whole are delivered as
\* they were sent, each of them once, in their order and with nothing between them, up to
\* the first that lost a field, a byte or a brace.  An arrival that ends within an object
\* costs the connection: what has been delivered by then is the beginning of what was sent.
\* If none ends so, all whole messages arrive.  A malloc that fails in cJSON_Parse loses a
\* message; a nesting limit of 2 and 11 bytes for a number are what every message needs.
THEOREM Delivered ==
    ~ AllocFails /\ NestingLimit >= 2 /\ NumberSize >= 11 => (LinkSpec => []WholeMessagesArrive)
<1> SUFFICES ASSUME ~ AllocFails, NestingLimit >= 2, NumberSize >= 11
             PROVE  LinkSpec => []WholeMessagesArrive
  OBVIOUS
<1>1. Roomy BY ParserAssumption DEF Roomy
<1>2. LinkInit => EncInv /\ EncOut /\ LinkInv BY Init_Enc, Init_Out, LinkInit_Inv
<1>3. EncInv /\ EncOut /\ LinkInv /\ [LinkNext]_linkVars => (EncInv /\ EncOut /\ LinkInv)'
  BY <1>1, NextEnc, NextOut, LinkNext_Inv
<1>4. LinkInv => WholeMessagesArrive BY NothingMissing
<1> QED BY <1>2, <1>3, <1>4, PTL DEF LinkSpec
=============================================================================
