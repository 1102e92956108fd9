------------------------- MODULE PacketExchangeProofs -------------------------
(***************************************************************************)
(* What the run checks of the packets in a buffer, for any packets, any    *)
(* buffer and any number of rounds.                                        *)
(***************************************************************************)
EXTENDS PacketExchange, SequenceTheorems, WellFoundedInduction, TLAPS

-------------------------------------------------------------------------------
(***************************************************************************)
(* Induction, on a set instead of a predicate.                             *)
(***************************************************************************)

\* A set of numbers that is not empty has a smallest one.
LEMMA Smallest ==
    ASSUME NEW S \in SUBSET Nat, S # {}
    PROVE  \E x \in S : \A y \in S : x <= y
<1> DEFINE less == {p \in Nat \X Nat : p[1] < p[2]}
<1>1. IsWellFoundedOn(less, Nat)
  BY NatLessThanWellFounded DEF OpToRel
<1>2. PICK x \in S : \A y \in S : <<y, x>> \notin less
  <2> HIDE DEF less
  <2> QED
    BY <1>1, WFMin
<1>3. ASSUME NEW y \in S, ~(x <= y) PROVE FALSE
  <2>1. x \in Nat /\ y \in Nat /\ y < x
    BY <1>3
  <2>2. <<y, x>> \in less
    BY <2>1
  <2> QED
    BY <1>2, <2>2
<1> QED
  BY <1>3

LEMMA SetInduction ==
    ASSUME NEW S, 0 \in S, \A n \in Nat : n \in S => n + 1 \in S
    PROVE  \A n \in Nat : n \in S
<1> SUFFICES ASSUME Nat \ S # {} PROVE FALSE
  OBVIOUS
<1>1. PICK x \in Nat \ S : \A y \in Nat \ S : x <= y
  BY Smallest
<1>2. x # 0 /\ x - 1 \in Nat
  BY <1>1
<1>3. x - 1 \in S
  BY <1>1, <1>2
<1> QED
  BY <1>1, <1>2, <1>3

-------------------------------------------------------------------------------
(***************************************************************************)
(* FlattenSeq.                                                             *)
(***************************************************************************)

\* f[i] is the first i members of s, one after the other.
Flattens(f, s, n) ==
    /\ f = [i \in 1..n |-> f[i]]
    /\ \A i \in 1..n : f[i] = IF i = 1 THEN s[i] ELSE f[i - 1] \o s[i]

LEMMA FlattensAt ==
    ASSUME NEW f, NEW s, NEW n, Flattens(f, s, n), NEW i \in 1..n
    PROVE  f[i] = IF i = 1 THEN s[i] ELSE f[i - 1] \o s[i]
BY Zenon DEF Flattens

LEMMA FlattensExists ==
    ASSUME NEW s
    PROVE  \A n \in Nat : \E f : Flattens(f, s, n)
<1> DEFINE S == {n \in Nat : \E f : Flattens(f, s, n)}
<1>1. 0 \in S
  <2>1. Flattens([i \in 1..0 |-> 0], s, 0)
    BY DEF Flattens
  <2> QED
    BY <2>1
<1>2. ASSUME NEW n \in Nat, n \in S PROVE n + 1 \in S
  <2>1. PICK f : Flattens(f, s, n)
    BY <1>2
  <2> DEFINE g == [i \in 1..(n + 1) |->
                     IF i <= n THEN f[i]
                     ELSE IF n = 0 THEN s[1] ELSE f[n] \o s[n + 1]]
  <2>2. ASSUME NEW i \in 1..(n + 1)
        PROVE  g[i] = IF i = 1 THEN s[i] ELSE g[i - 1] \o s[i]
    <3>1. CASE i <= n
      <4>1. i \in 1..n /\ g[i] = f[i]
        BY <3>1
      <4>2. f[i] = IF i = 1 THEN s[i] ELSE f[i - 1] \o s[i]
        BY <4>1, <2>1 DEF Flattens
      <4>3. i # 1 => g[i - 1] = f[i - 1]
        BY <4>1
      <4> QED
        BY <4>1, <4>2, <4>3
    <3>2. CASE i = n + 1 /\ n # 0
      <4>1. i - 1 = n /\ n \in 1..(n + 1) /\ ~(i <= n) /\ n + 1 = i /\ i # 1
        BY <3>2
      <4>2. g[n] = f[n]
        BY <4>1
      <4>3. g[i] = f[n] \o s[n + 1]
        BY <4>1, <3>2
      <4> QED
        BY <4>1, <4>2, <4>3
    <3>3. CASE i = n + 1 /\ n = 0
      BY <3>3
    <3> QED
      BY <3>1, <3>2, <3>3
  <2>3. Flattens(g, s, n + 1)
    <3> HIDE DEF g
    <3>1. g = [i \in 1..(n + 1) |-> g[i]]
      BY DEF g
    <3> QED
      BY <2>2, <3>1 DEF Flattens
  <2> QED
    BY <2>3
<1>3. \A n \in Nat : n \in S
  <2> HIDE DEF S
  <2> QED
    BY <1>1, <1>2, SetInduction
<1> QED
  BY <1>3

\* Of sequences over T it is a sequence over T.
LEMMA FlattensType ==
    ASSUME NEW T, NEW s \in Seq(Seq(T)), NEW f, Flattens(f, s, Len(s))
    PROVE  \A i \in 1..Len(s) : f[i] \in Seq(T)
<1> DEFINE S == {n \in Nat : n \in 1..Len(s) => f[n] \in Seq(T)}
<1>1. 0 \in S
  OBVIOUS
<1>2. ASSUME NEW n \in Nat, n \in S PROVE n + 1 \in S
  <2> SUFFICES ASSUME n + 1 \in 1..Len(s) PROVE f[n + 1] \in Seq(T)
    OBVIOUS
  <2>1. f[n + 1] = IF n + 1 = 1 THEN s[n + 1] ELSE f[n + 1 - 1] \o s[n + 1]
    BY FlattensAt
  <2>2. s[n + 1] \in Seq(T)
    OBVIOUS
  <2>3. CASE n = 0
    BY <2>1, <2>2, <2>3
  <2>4. CASE n # 0
    <3>1. f[n] \in Seq(T) /\ n + 1 - 1 = n
      BY <1>2, <2>4
    <3>2. f[n + 1] = f[n] \o s[n + 1]
      <4>1. n + 1 # 1
        BY <2>4
      <4> QED
        BY <2>1, <4>1, <3>1
    <3> QED
      BY <3>1, <3>2, <2>2, ConcatProperties
  <2> QED
    BY <2>3, <2>4
<1>3. \A n \in Nat : n \in S
  <2> HIDE DEF S
  <2> QED
    BY <1>1, <1>2, SetInduction
<1> QED
  BY <1>3

Agree(s, t, n) == \A i \in 1..n : s[i] = t[i]

\* It depends on these members alone.
LEMMA FlattensAgree ==
    ASSUME NEW s, NEW t, NEW n \in Nat, NEW m \in Nat, n <= m, Agree(s, t, n),
           NEW f, Flattens(f, s, n), NEW g, Flattens(g, t, m)
    PROVE  Agree(f, g, n)
<1> DEFINE S == {k \in Nat : k \in 1..n => f[k] = g[k]}
<1>1. 0 \in S
  OBVIOUS
<1>2. ASSUME NEW k \in Nat, k \in S PROVE k + 1 \in S
  <2> SUFFICES ASSUME k + 1 \in 1..n PROVE f[k + 1] = g[k + 1]
    OBVIOUS
  <2>1. f[k + 1] = IF k + 1 = 1 THEN s[k + 1] ELSE f[k + 1 - 1] \o s[k + 1]
    BY FlattensAt
  <2>2. k + 1 \in 1..m
    OBVIOUS
  <2>3. g[k + 1] = IF k + 1 = 1 THEN t[k + 1] ELSE g[k + 1 - 1] \o t[k + 1]
    BY <2>2, FlattensAt
  <2>4. s[k + 1] = t[k + 1]
    BY DEF Agree
  <2>5. k + 1 - 1 = k
    OBVIOUS
  <2>6. k # 0 => f[k] = g[k]
    BY <1>2
  <2> QED
    BY <2>1, <2>3, <2>4, <2>5, <2>6
<1>3. \A k \in Nat : k \in S
  <2> HIDE DEF S
  <2> QED
    BY <1>1, <1>2, SetInduction
<1> QED
  BY <1>3 DEF Agree

LEMMA FlattenIs ==
    ASSUME NEW s, Len(s) \in Nat, Len(s) # 0
    PROVE  \E f : Flattens(f, s, Len(s)) /\ FlattenSeq(s) = f[Len(s)]
<1> DEFINE Solves(f) ==
              f = [i \in 1..Len(s) |-> IF i = 1 THEN s[i] ELSE f[i - 1] \o s[i]]
           f == CHOOSE f : Solves(f)
<1>1. ASSUME NEW h, Flattens(h, s, Len(s)) PROVE Solves(h)
  BY <1>1, Zenon DEF Flattens
<1>2. ASSUME NEW h, Solves(h) PROVE Flattens(h, s, Len(s))
  BY <1>2, Zenon DEF Flattens
<1>3. \E h : Solves(h)
  BY <1>1, FlattensExists
<1>4. Solves(f)
  BY <1>3
<1>5. FlattenSeq(s) = f[Len(s)]
  BY DEF FlattenSeq
<1> HIDE DEF f, Solves
<1> QED
  BY <1>2, <1>4, <1>5

LEMMA FlattenEmpty == FlattenSeq(<<>>) = <<>>
  BY DEF FlattenSeq

LEMMA FlattenType ==
    ASSUME NEW T, NEW s \in Seq(Seq(T))
    PROVE  FlattenSeq(s) \in Seq(T)
<1>1. CASE s = <<>>
  BY <1>1, FlattenEmpty, EmptySeq
<1>2. CASE s # <<>>
  <2>1. Len(s) \in Nat \ {0}
    BY <1>2, EmptySeq
  <2>2. PICK f : Flattens(f, s, Len(s)) /\ FlattenSeq(s) = f[Len(s)]
    BY <2>1, FlattenIs
  <2>3. \A i \in 1..Len(s) : f[i] \in Seq(T)
    BY <2>2, FlattensType
  <2> QED
    BY <2>1, <2>2, <2>3
<1> QED
  BY <1>1, <1>2

LEMMA Extended ==
    ASSUME NEW T, NEW s \in Seq(T), NEW x \in T
    PROVE  /\ Append(s, x) \in Seq(T) /\ Len(Append(s, x)) = Len(s) + 1 /\ Len(s) \in Nat
           /\ \A i \in 1..Len(s) : Append(s, x)[i] = s[i]
           /\ Append(s, x)[Len(s) + 1] = x
  OBVIOUS

\* A sequence to flatten, its elements kept folded: the provers then see sequences
\* of one kind at a time.
Piece(T) == Seq(T)

LEMMA PieceFlattened ==
    ASSUME NEW T, NEW s \in Seq(Piece(T))
    PROVE  FlattenSeq(s) \in Seq(T)
  BY FlattenType DEF Piece

LEMMA PieceAppended ==
    ASSUME NEW T, NEW s \in Seq(Piece(T)), NEW x \in Piece(T)
    PROVE  FlattenSeq(Append(s, x)) = FlattenSeq(s) \o x
<1> DEFINE t == Append(s, x)
           n == Len(s)
<1>1. /\ t \in Seq(Piece(T)) /\ Len(t) = n + 1 /\ n \in Nat
      /\ \A i \in 1..n : t[i] = s[i]
      /\ t[n + 1] = x
  BY Extended
<1> HIDE DEF t
<1>2. PICK g : Flattens(g, t, n + 1) /\ FlattenSeq(t) = g[n + 1]
  BY <1>1, FlattenIs
<1>3. g[n + 1] = IF n + 1 = 1 THEN t[n + 1] ELSE g[n + 1 - 1] \o t[n + 1]
  <2>1. n + 1 \in 1..(n + 1)
    BY <1>1
  <2> QED
    BY <2>1, <1>2, FlattensAt
<1>4. CASE s = <<>>
  <2>1. n = 0
    BY <1>4
  <2>2. FlattenSeq(t) = x
    BY <1>1, <1>2, <1>3, <2>1
  <2>3. FlattenSeq(s) = <<>>
    BY <1>4, FlattenEmpty
  <2>4. <<>> \o x = x
    BY ConcatEmptySeq DEF Piece
  <2> QED
    BY <2>2, <2>3, <2>4 DEF t
<1>5. CASE s # <<>>
  <2>1. n # 0
    BY <1>5, EmptySeq
  <2>2. PICK f : Flattens(f, s, n) /\ FlattenSeq(s) = f[n]
    BY <1>1, <2>1, FlattenIs
  <2>3. f[n] = g[n]
    <3>1. n \in Nat /\ n + 1 \in Nat /\ n <= n + 1
      BY <1>1
    <3>2. Agree(s, t, n)
      BY <1>1 DEF Agree
    <3> HIDE DEF n
    <3>4. Flattens(f, s, n) /\ Flattens(g, t, n + 1)
      BY <1>2, <2>2
    <3>3. Agree(f, g, n)
      BY <3>1, <3>2, <3>4, FlattensAgree
    <3> QED
      BY <3>1, <3>3, <2>1 DEF Agree
  <2>4. g[n + 1] = g[n] \o x
    BY <1>1, <1>3, <2>1
  <2> QED
    BY <1>2, <2>2, <2>3, <2>4 DEF t
<1> QED
  BY <1>4, <1>5

LEMMA FlattenAppend ==
    ASSUME NEW T, NEW s \in Seq(Seq(T)), NEW x \in Seq(T)
    PROVE  FlattenSeq(Append(s, x)) = FlattenSeq(s) \o x
  BY PieceAppended DEF Piece

LEMMA Associative ==
    ASSUME NEW T, NEW a \in Seq(T), NEW b \in Seq(T), NEW c \in Seq(T)
    PROVE  (a \o b) \o c = a \o (b \o c)
  OBVIOUS

LEMMA AppendLast ==
    ASSUME NEW T, NEW s \in Seq(T), NEW t \in Seq(T), NEW x \in T
    PROVE  s \o Append(t, x) = Append(s \o t, x)
  OBVIOUS

LEMMA FlattenConcatStep ==
    ASSUME NEW T, NEW s \in Seq(Piece(T)), NEW u \in Seq(Piece(T)), NEW x \in Piece(T)
    PROVE  FlattenSeq(s \o u) = FlattenSeq(s) \o FlattenSeq(u)
             => FlattenSeq(s \o Append(u, x)) = FlattenSeq(s) \o FlattenSeq(Append(u, x))
<1>1. PICK v \in Seq(T), w \in Seq(T), y \in Seq(T) :
           v = FlattenSeq(s) /\ w = FlattenSeq(u) /\ y = x
  BY PieceFlattened DEF Piece
<1>2. (v \o w) \o y = v \o (w \o y)
  BY Associative, SMTT(30)
<1>3. FlattenSeq(Append(u, x)) = w \o y
  BY <1>1, PieceAppended
<1>4. s \o Append(u, x) = Append(s \o u, x)
  BY AppendLast
<1>5. s \o u \in Seq(Piece(T))
  BY ConcatProperties
<1>6. FlattenSeq(Append(s \o u, x)) = FlattenSeq(s \o u) \o x
  BY <1>5, PieceAppended
<1> SUFFICES ASSUME FlattenSeq(s \o u) = v \o w
             PROVE  FlattenSeq(s \o Append(u, x)) = v \o FlattenSeq(Append(u, x))
  BY <1>1
<1>7. FlattenSeq(s \o u) \o x = (v \o w) \o y
  BY <1>1
<1> QED
  BY <1>2, <1>3, <1>4, <1>6, <1>7

\* One sequence of sequences after another.
LEMMA PiecesConcat ==
    ASSUME NEW T, NEW s \in Seq(Piece(T)), NEW t \in Seq(Piece(T))
    PROVE  FlattenSeq(s \o t) = FlattenSeq(s) \o FlattenSeq(t)
<1> DEFINE upto(k) == SubSeq(t, 1, k)
           S == {k \in Nat : k <= Len(t) =>
                   FlattenSeq(s \o upto(k)) = FlattenSeq(s) \o FlattenSeq(upto(k))}
<1>1. 0 \in S
  <2>1. upto(0) = <<>>
    BY SubSeqEmpty
  <2>2. s \o <<>> = s /\ FlattenSeq(s) \o <<>> = FlattenSeq(s)
    BY PieceFlattened, ConcatEmptySeq
  <2> QED
    BY <2>1, <2>2, FlattenEmpty
<1>2. ASSUME NEW k \in Nat, k \in S PROVE k + 1 \in S
  <2> SUFFICES ASSUME k + 1 <= Len(t)
               PROVE  FlattenSeq(s \o upto(k + 1)) = FlattenSeq(s) \o FlattenSeq(upto(k + 1))
    OBVIOUS
  <2> DEFINE u == upto(k)
             x == t[k + 1]
  <2>1. u \in Seq(Piece(T)) /\ x \in Piece(T)
    BY SubSeqProperties
  <2>2. upto(k + 1) = Append(u, x)
    <3>1. upto(k + 1) = u \o <<x>>
      BY SubSeqRecursiveSecond
    <3> QED
      BY <3>1, <2>1, AppendIsConcat
  <2>3. FlattenSeq(s \o u) = FlattenSeq(s) \o FlattenSeq(u)
    BY <1>2
  <2> HIDE DEF u, x, upto
  <2>4. FlattenSeq(s \o Append(u, x)) = FlattenSeq(s) \o FlattenSeq(Append(u, x))
    BY <2>1, <2>3, FlattenConcatStep
  <2> QED
    BY <2>2, <2>4
<1>3. \A k \in Nat : k \in S
  <2> HIDE DEF S
  <2> QED
    BY <1>1, <1>2, SetInduction
<1>4. upto(Len(t)) = t /\ Len(t) \in Nat
  BY SubSeqFull
<1>5. FlattenSeq(s \o upto(Len(t))) = FlattenSeq(s) \o FlattenSeq(upto(Len(t)))
  <2>1. Len(t) \in S
    <3> HIDE DEF S
    <3> QED
      BY <1>3, <1>4
  <2>2. Len(t) <= Len(t)
    BY <1>4
  <2> HIDE DEF upto
  <2> QED
    BY <2>1, <2>2
<1> QED
  BY <1>4, <1>5

LEMMA FlattenConcat ==
    ASSUME NEW T, NEW s \in Seq(Seq(T)), NEW t \in Seq(Seq(T))
    PROVE  FlattenSeq(s \o t) = FlattenSeq(s) \o FlattenSeq(t)
  BY PiecesConcat DEF Piece

\* Short ones.
LEMMA FlattenShort ==
    ASSUME NEW T, NEW a \in Seq(T), NEW b \in Seq(T)
    PROVE  /\ FlattenSeq(<<a>>) = a
           /\ FlattenSeq(<<a, b>>) = a \o b
<1>1. <<>> \in Seq(Seq(T)) /\ <<a>> \in Seq(Seq(T))
  OBVIOUS
<1>2. Append(<<>>, a) = <<a>> /\ Append(<<a>>, b) = <<a, b>>
  <2>1. <<a, b>> \in Seq(Seq(T)) /\ Len(<<a>>) = 1 /\ Len(<<a, b>>) = 2
    OBVIOUS
  <2>2. /\ Append(<<>>, a) \in Seq(Seq(T)) /\ Len(Append(<<>>, a)) = 1
        /\ Append(<<>>, a)[1] = a
    BY <1>1, EmptySeq, AppendProperties
  <2>3. /\ Append(<<a>>, b) \in Seq(Seq(T)) /\ Len(Append(<<a>>, b)) = 2
        /\ Append(<<a>>, b)[1] = a /\ Append(<<a>>, b)[2] = b
    BY <1>1, <2>1, AppendProperties
  <2>4. ASSUME NEW c \in Seq(Seq(T)), Len(c) = 1, c[1] = a PROVE c = <<a>>
    BY <2>4
  <2>5. ASSUME NEW c \in Seq(Seq(T)), Len(c) = 2, c[1] = a, c[2] = b PROVE c = <<a, b>>
    BY <2>5
  <2> QED
    BY <2>2, <2>3, <2>4, <2>5
<1>3. FlattenSeq(<<a>>) = <<>> \o a
  BY <1>1, <1>2, FlattenAppend, FlattenEmpty
<1>4. FlattenSeq(<<a, b>>) = FlattenSeq(<<a>>) \o b
  BY <1>1, <1>2, FlattenAppend
<1> QED
  BY <1>3, <1>4, ConcatEmptySeq

\* Concatenation, which the proofs keep folded.
Cat(s, t) == s \o t

LEMMA CatBytes ==
    ASSUME NEW s \in Seq(Byte), NEW t \in Seq(Byte)
    PROVE  Cat(s, t) \in Seq(Byte) /\ Len(Cat(s, t)) = Len(s) + Len(t)
BY DEF Cat

LEMMA CatGroups ==
    ASSUME NEW s \in Seq(Byte), NEW t \in Seq(Byte), NEW u \in Seq(Byte)
    PROVE  Cat(Cat(s, t), u) = Cat(s, Cat(t, u))
BY DEF Cat

LEMMA CatNothing ==
    ASSUME NEW s \in Seq(Byte)
    PROVE  Cat(s, <<>>) = s /\ Cat(<<>>, s) = s
BY DEF Cat

LEMMA CatChunks ==
    ASSUME NEW s \in Seq(Seq(Byte)), NEW t \in Seq(Seq(Byte))
    PROVE  /\ Cat(s, t) \in Seq(Seq(Byte))
           /\ FlattenSeq(Cat(s, t)) = Cat(FlattenSeq(s), FlattenSeq(t))
BY FlattenConcat DEF Cat

LEMMA FlattenOne ==
    ASSUME NEW a \in Seq(Byte)
    PROVE  <<a>> \in Seq(Seq(Byte)) /\ FlattenSeq(<<a>>) = a
<1>1. FlattenSeq(<<a>>) = a
  BY FlattenShort
<1> QED
  BY <1>1

LEMMA FlattenTwo ==
    ASSUME NEW a \in Seq(Byte), NEW b \in Seq(Byte)
    PROVE  <<a, b>> \in Seq(Seq(Byte)) /\ FlattenSeq(<<a, b>>) = Cat(a, b)
<1>1. FlattenSeq(<<a, b>>) = Cat(a, b)
  BY FlattenShort DEF Cat
<1> QED
  BY <1>1

-------------------------------------------------------------------------------
(***************************************************************************)
(* What the serializers write.                                             *)
(***************************************************************************)

LEMMA LengthSize ==
    ASSUME NEW n \in Nat, n < Weight[5]
    PROVE  \E k \in 1..4 : n < Weight[k + 1] /\ (k > 1 => n >= Weight[k])
<1>1. /\ Weight[1] = 1 /\ Weight[2] = 128 /\ Weight[3] = 128 * 128
      /\ Weight[4] = 128 * 128 * 128
  BY DEF Weight
<1>2. CASE n < 128
  BY <1>1, <1>2
<1>3. CASE n >= 128 /\ n < 128 * 128
  <2>1. 2 \in 1..4 /\ 2 + 1 = 3
    OBVIOUS
  <2> QED
    BY <1>1, <1>3, <2>1
<1>4. CASE n >= 128 * 128 /\ n < 128 * 128 * 128
  <2>1. 3 \in 1..4 /\ 3 + 1 = 4
    OBVIOUS
  <2> QED
    BY <1>1, <1>4, <2>1
<1>5. CASE n >= 128 * 128 * 128
  <2>1. 4 \in 1..4 /\ 4 + 1 = 5
    OBVIOUS
  <2> QED
    BY <1>1, <1>5, <2>1
<1> QED
  BY <1>2, <1>3, <1>4, <1>5

\* No byte of a length says that another one follows.
LEMMA LengthBytesType ==
    ASSUME NEW n \in Nat, n < Weight[5]
    PROVE  /\ LengthBytes(n) \in Seq(0..127)
           /\ Len(LengthBytes(n)) \in 1..4
           /\ LengthBytes(n)[1] = n % 128
           /\ n < 128 => LengthBytes(n) = <<n>>
<1> DEFINE fits(k) == n < Weight[k + 1] /\ (k > 1 => n >= Weight[k])
           size == CHOOSE k \in 1..4 : fits(k)
           byte == [i \in 1..size |-> (n \div Weight[i]) % 128]
<1>1. size \in 1..4 /\ fits(size)
  BY LengthSize
<1>2. LengthBytes(n) = byte
  BY DEF LengthBytes
<1> HIDE DEF size
<1>3. \A i \in 1..4 : Weight[i] \in Nat \ {0}
  BY DEF Weight
<1>4. \A i \in 1..size : (n \div Weight[i]) % 128 \in 0..127
  <2> SUFFICES ASSUME NEW i \in 1..size PROVE (n \div Weight[i]) % 128 \in 0..127
    OBVIOUS
  <2>1. i \in 1..4
    BY <1>1
  <2>2. PICK w \in Nat \ {0} : w = Weight[i]
    BY <2>1, <1>3
  <2>3. n \div w \in Int
    BY <2>2
  <2> QED
    BY <2>2, <2>3
<1>5. byte \in Seq(0..127) /\ Len(byte) = size
  <2>1. byte \in [1..size -> 0..127]
    BY <1>4
  <2> HIDE DEF byte
  <2>2. size \in Nat
    BY <1>1
  <2> QED
    BY <2>1, <2>2
<1>6. byte[1] = n % 128
  <2>1. Weight[1] = 1
    BY DEF Weight
  <2>2. n \div 1 = n
    OBVIOUS
  <2> QED
    BY <1>1, <2>1, <2>2
<1>7. ASSUME n < 128 PROVE byte = <<n>>
  <2>1. /\ Weight[1] = 1 /\ Weight[2] = 128 /\ Weight[3] = 128 * 128
        /\ Weight[4] = 128 * 128 * 128
    BY DEF Weight
  <2>2. size = 1
    BY <1>1, <1>7, <2>1
  <2>3. n % 128 = n
    BY <1>7
  <2> HIDE DEF byte
  <2> QED
    BY <1>5, <1>6, <2>2, <2>3
<1> QED
  BY <1>1, <1>2, <1>5, <1>6, <1>7

\* A number of two bytes.
LEMMA U16Type ==
    ASSUME NEW n \in Word
    PROVE  /\ U16(n) \in Seq(Byte)
           /\ Len(U16(n)) = 2
           /\ 256 * U16(n)[1] + U16(n)[2] = n
<1>1. n \div 256 \in Byte /\ n % 256 \in Byte /\ 256 * (n \div 256) + (n % 256) = n
  BY DEF Word, Byte
<1>2. ASSUME NEW a \in Byte, NEW b \in Byte, 256 * a + b = n
      PROVE  /\ <<a, b>> \in Seq(Byte)
             /\ Len(<<a, b>>) = 2
             /\ 256 * <<a, b>>[1] + <<a, b>>[2] = n
  BY <1>2
<1> QED
  BY <1>1, <1>2 DEF U16

\* The packets of each type.
LEMMA PacketKinds ==
    ASSUME NEW p \in Packet
    PROVE  /\ p.type \in {"CONNECT", "CONNACK", "PUBLISH", "SUBSCRIBE", "UNSUBSCRIBE",
                          "SUBACK"} \cup IdOnlyTypes \cup EmptyTypes
           /\ p.type = "CONNECT" => p \in ConnectPacket
           /\ p.type = "CONNACK" => p \in ConnackPacket
           /\ p.type = "PUBLISH" => p \in PublishPacket
           /\ p.type = "SUBSCRIBE" => p \in SubscribePacket
           /\ p.type = "UNSUBSCRIBE" => p \in UnsubscribePacket
           /\ p.type = "SUBACK" => p \in SubackPacket
           /\ p.type \in IdOnlyTypes => p \in IdOnlyPacket
BY DEF Packet, ConnectPacket, ConnackPacket, PublishPacket, SubscribePacket,
       UnsubscribePacket, SubackPacket, IdOnlyPacket, EmptyPacket, IdOnlyTypes,
       EmptyTypes

\* The strings of a CONNECT.
LEMMA ConnectStringsType ==
    ASSUME NEW p \in ConnectPacket
    PROVE  /\ ConnectStrings(p) \in Seq(Text)
           /\ ConnectStrings(p) \in Seq(Seq(Byte))
           /\ StringsLength(ConnectStrings(p)) \in Nat
<1>1. p.client_id \in Text /\ p.will \in Seq(Text) /\ p.credentials \in Seq(Text)
  BY DEF ConnectPacket
<1>2. ConnectStrings(p) \in Seq(Text)
  <2>1. <<p.client_id>> \in Seq(Text)
    BY <1>1
  <2>2. <<p.client_id>> \o p.will \in Seq(Text)
    BY <1>1, <2>1, ConcatProperties
  <2> QED
    BY <1>1, <2>2, ConcatProperties DEF ConnectStrings
<1>3. Text \subseteq Seq(Byte)
  BY DEF Text
<1>4. ConnectStrings(p) \in Seq(Seq(Byte))
  BY <1>2, <1>3, SeqMonotonic
<1>5. Len(ConnectStrings(p)) \in Nat /\ Len(FlattenSeq(ConnectStrings(p))) \in Nat
  BY <1>4, FlattenType, LenProperties
<1> QED
  BY <1>2, <1>4, <1>5 DEF StringsLength

LEMMA RemainingLengthType ==
    ASSUME NEW p \in Packet
    PROVE  RemainingLength(p) \in Nat /\ RemainingLength(p) < Weight[5]
<1>1. RemainingLength(p) < Weight[5]
  BY DEF Packet
<1> SUFFICES RemainingLength(p) \in Nat
  BY <1>1
<1>2. CASE p.type = "CONNECT"
  BY <1>2, PacketKinds, ConnectStringsType DEF RemainingLength
<1>3. CASE p.type = "PUBLISH"
  <2>1. Len(p.topic) \in Nat /\ Len(p.data) \in Nat
    BY <1>3, PacketKinds DEF PublishPacket, Text
  <2>2. PICK bit \in 0..1 : Bit(p.qos > 0) = bit
    BY DEF Bit
  <2>3. RemainingLength(p) = Len(p.topic) + 2 + Len(p.data) + 2 * bit
    BY <1>3, <2>2 DEF RemainingLength, IdOnlyTypes, EmptyTypes
  <2>4. \A m, n \in Nat : m + 2 + n + 2 * bit \in Nat
    OBVIOUS
  <2> QED
    BY <2>1, <2>3, <2>4
<1>4. CASE p.type \in {"SUBSCRIBE", "UNSUBSCRIBE"}
  <2>1. Len(p.topic) \in Nat
    BY <1>4, PacketKinds DEF SubscribePacket, UnsubscribePacket, Text
  <2>2. RemainingLength(p) \in {3 + Len(p.topic) + 2, 2 + Len(p.topic) + 2}
    BY <1>4 DEF RemainingLength, IdOnlyTypes, EmptyTypes
  <2> QED
    BY <2>1, <2>2
<1>5. CASE p.type \in {"SUBACK", "CONNACK"} \cup IdOnlyTypes \cup EmptyTypes
  BY <1>5 DEF RemainingLength, IdOnlyTypes, EmptyTypes
<1> QED
  BY <1>2, <1>3, <1>4, <1>5, PacketKinds

\* The first byte of a packet, and what the reader takes from it.
LEMMA TypeByteType ==
    ASSUME NEW p \in Packet, Serializable(p)
    PROVE  /\ TypeCode[p.type] \in 1..14
           /\ HeaderFlags(p) \in 0..15
           /\ TypeByte(p) = <<16 * TypeCode[p.type] + HeaderFlags(p)>>
           /\ TypeByte(p) \in Seq(Byte)
<1>1. TypeCode[p.type] \in 1..14
  BY PacketKinds DEF TypeCode, IdOnlyTypes, EmptyTypes
<1>2. HeaderFlags(p) \in 0..15
  <2>1. CASE p.type = "PUBLISH"
    <3>2. p.qos <= MaxQos
      BY <2>1 DEF Serializable
    <3>1. p.qos \in 0..2 /\ p.retain \in BOOLEAN /\ p.duplicate \in BOOLEAN
      <4>1. MaxQos \in 0..2
        BY CodecAssumption
      <4>2. p.qos \in 0..255 /\ p.retain \in BOOLEAN /\ p.duplicate \in BOOLEAN
        BY <2>1, PacketKinds DEF PublishPacket, Byte
      <4> QED
        BY <3>2, <4>1, <4>2
    <3> QED
      BY <2>1, <3>1 DEF HeaderFlags, Bit
  <2>2. CASE p.type # "PUBLISH"
    BY <2>2 DEF HeaderFlags
  <2> QED
    BY <2>1, <2>2
<1>3. 16 * TypeCode[p.type] + HeaderFlags(p) \in Byte
  BY <1>1, <1>2 DEF Byte
<1> QED
  BY <1>1, <1>2, <1>3 DEF TypeByte

Header(p) == Cat(TypeByte(p), LengthBytes(RemainingLength(p)))

StringBytes(s) == Cat(U16(Len(s)), s)

StringsBytes(ss) == FlattenSeq(StringsChunks(ss))

\* What follows the header of a packet.
Body(p) ==
    CASE p.type = "CONNECT" ->
            Cat(StringBytes(ProtocolName),
                Cat(<<ProtocolLevel>>,
                    Cat(<<ConnectFlags(p)>>,
                        Cat(U16(p.keepalive), StringsBytes(ConnectStrings(p))))))
      [] p.type = "CONNACK" -> <<Bit(p.session_present), p.retcode>>
      [] p.type = "PUBLISH" ->
            Cat(StringBytes(p.topic),
                Cat(IF p.qos > 0 THEN U16(p.packet_id) ELSE <<>>, p.data))
      [] p.type = "SUBSCRIBE" -> Cat(U16(p.packet_id), Cat(StringBytes(p.topic), <<p.qos>>))
      [] p.type = "UNSUBSCRIBE" -> Cat(U16(p.packet_id), StringBytes(p.topic))
      [] p.type = "SUBACK" -> Cat(U16(p.packet_id), <<p.qos>>)
      [] p.type \in IdOnlyTypes -> U16(p.packet_id)
      [] p.type \in EmptyTypes -> <<>>

\* A packet that is written as it should be.
WellWritten(p) ==
    /\ Chunks(p) \in Seq(Seq(Byte))
    /\ Body(p) \in Seq(Byte)
    /\ Bytes(p) = Cat(Header(p), Body(p))

LEMMA HeaderType ==
    ASSUME NEW p \in Packet, Serializable(p)
    PROVE  /\ Header(p) \in Seq(Byte)
           /\ LongHeader(p) \in Seq(Seq(Byte))
           /\ FlattenSeq(LongHeader(p)) = Header(p)
           /\ RemainingLength(p) < 128 =>
                /\ ShortHeader(p) \in Seq(Seq(Byte))
                /\ FlattenSeq(ShortHeader(p)) = Header(p)
<1>1. TypeByte(p) \in Seq(Byte)
  BY TypeByteType
<1> DEFINE n == RemainingLength(p)
<1>2. n \in Nat /\ n < Weight[5]
  BY RemainingLengthType
<1> HIDE DEF n
<1>3. LengthBytes(n) \in Seq(0..127) /\ (n < 128 => LengthBytes(n) = <<n>>)
  BY <1>2, LengthBytesType
<1>4. LengthBytes(n) \in Seq(Byte)
  <2>1. 0..127 \subseteq Byte
    BY DEF Byte
  <2> QED
    BY <1>3, <2>1, SeqMonotonic
<1>5. /\ Header(p) = Cat(TypeByte(p), LengthBytes(n))
      /\ LongHeader(p) = <<TypeByte(p), LengthBytes(n)>>
      /\ ShortHeader(p) = <<Cat(TypeByte(p), <<n>>)>>
  BY DEF Header, LongHeader, ShortHeader, Cat, n
<1>6. Header(p) \in Seq(Byte)
  BY <1>1, <1>4, <1>5, CatBytes
<1>7. LongHeader(p) \in Seq(Seq(Byte)) /\ FlattenSeq(LongHeader(p)) = Header(p)
  BY <1>1, <1>4, <1>5, FlattenTwo
<1>8. ASSUME n < 128
      PROVE  ShortHeader(p) \in Seq(Seq(Byte)) /\ FlattenSeq(ShortHeader(p)) = Header(p)
  <2>1. ShortHeader(p) = <<Header(p)>>
    BY <1>3, <1>5, <1>8
  <2> QED
    BY <1>6, <2>1, FlattenOne
<1> QED
  BY <1>6, <1>7, <1>8 DEF n

LEMMA StringType ==
    ASSUME NEW s \in Text
    PROVE  /\ U16(Len(s)) \in Seq(Byte) /\ Len(U16(Len(s))) = 2
           /\ s \in Seq(Byte)
           /\ StringBytes(s) \in Seq(Byte)
           /\ StringChunks(s) \in Seq(Seq(Byte))
           /\ FlattenSeq(StringChunks(s)) = StringBytes(s)
<1>1. s \in Seq(Byte) /\ Len(s) \in Word
  <2>1. s \in Seq(Byte) /\ Len(s) < 256 * 256
    BY DEF Text
  <2>2. Len(s) \in Nat
    BY <2>1, LenProperties
  <2> QED
    BY <2>1, <2>2 DEF Word
<1>2. U16(Len(s)) \in Seq(Byte) /\ Len(U16(Len(s))) = 2
  BY <1>1, U16Type
<1>3. StringBytes(s) \in Seq(Byte)
  BY <1>1, <1>2, CatBytes DEF StringBytes
<1> QED
  BY <1>1, <1>2, <1>3, FlattenTwo DEF StringBytes, StringChunks

LEMMA IdOnlyWritten ==
    ASSUME NEW p \in Packet, Serializable(p), p.type \in IdOnlyTypes
    PROVE  WellWritten(p)
<1>1. p.packet_id \in Word
  BY PacketKinds DEF IdOnlyPacket
<1>2. /\ Chunks(p) = Cat(ShortHeader(p), <<U16(p.packet_id)>>)
      /\ Body(p) = U16(p.packet_id)
      /\ RemainingLength(p) = 2
  BY DEF Chunks, IdOnlyChunks, Body, RemainingLength, IdOnlyTypes, EmptyTypes, Cat
<1>3. /\ U16(p.packet_id) \in Seq(Byte)
      /\ <<U16(p.packet_id)>> \in Seq(Seq(Byte))
      /\ FlattenSeq(<<U16(p.packet_id)>>) = U16(p.packet_id)
  BY <1>1, U16Type, FlattenOne
<1>4. ShortHeader(p) \in Seq(Seq(Byte)) /\ FlattenSeq(ShortHeader(p)) = Header(p)
  BY <1>2, HeaderType
<1>5. Chunks(p) \in Seq(Seq(Byte)) /\ FlattenSeq(Chunks(p)) = Cat(Header(p), Body(p))
  BY <1>2, <1>3, <1>4, CatChunks
<1> QED
  BY <1>2, <1>3, <1>5 DEF WellWritten, Bytes

LEMMA EmptyWritten ==
    ASSUME NEW p \in Packet, Serializable(p), p.type \in EmptyTypes
    PROVE  WellWritten(p)
<1>1. Chunks(p) = ShortHeader(p) /\ Body(p) = <<>> /\ RemainingLength(p) = 0
  BY DEF Chunks, Body, RemainingLength, IdOnlyTypes, EmptyTypes
<1>2. /\ ShortHeader(p) \in Seq(Seq(Byte)) /\ FlattenSeq(ShortHeader(p)) = Header(p)
      /\ Header(p) \in Seq(Byte)
  BY <1>1, HeaderType
<1>3. Header(p) = Cat(Header(p), <<>>)
  BY <1>2, CatNothing
<1> QED
  BY <1>1, <1>2, <1>3 DEF WellWritten, Bytes

LEMMA ConnackWritten ==
    ASSUME NEW p \in Packet, Serializable(p), p.type = "CONNACK"
    PROVE  WellWritten(p)
<1>1. p.session_present \in BOOLEAN /\ p.retcode \in Byte
  BY PacketKinds DEF ConnackPacket
<1>2. /\ Chunks(p) = Cat(ShortHeader(p), <<Body(p)>>)
      /\ Body(p) = <<Bit(p.session_present), p.retcode>>
      /\ RemainingLength(p) = 2
  BY DEF Chunks, ConnackChunks, Body, RemainingLength, IdOnlyTypes, EmptyTypes, Cat
<1>3. Bit(p.session_present) \in Byte
  BY DEF Bit, Byte
<1>4. Body(p) \in Seq(Byte)
  BY <1>1, <1>2, <1>3
<1>5. <<Body(p)>> \in Seq(Seq(Byte)) /\ FlattenSeq(<<Body(p)>>) = Body(p)
  BY <1>4, FlattenOne
<1>6. ShortHeader(p) \in Seq(Seq(Byte)) /\ FlattenSeq(ShortHeader(p)) = Header(p)
  BY <1>2, HeaderType
<1>7. Chunks(p) \in Seq(Seq(Byte)) /\ FlattenSeq(Chunks(p)) = Cat(Header(p), Body(p))
  BY <1>2, <1>5, <1>6, CatChunks
<1> QED
  BY <1>4, <1>7 DEF WellWritten, Bytes

LEMMA SubackWritten ==
    ASSUME NEW p \in Packet, Serializable(p), p.type = "SUBACK"
    PROVE  WellWritten(p)
<1>1. p.packet_id \in Word /\ p.qos \in Byte
  BY PacketKinds DEF SubackPacket
<1>2. /\ Chunks(p) = Cat(ShortHeader(p), <<U16(p.packet_id), <<p.qos>>>>)
      /\ Body(p) = Cat(U16(p.packet_id), <<p.qos>>)
      /\ RemainingLength(p) = 3
  BY DEF Chunks, SubackChunks, Body, RemainingLength, IdOnlyTypes, EmptyTypes, Cat
<1>3. U16(p.packet_id) \in Seq(Byte) /\ <<p.qos>> \in Seq(Byte)
  BY <1>1, U16Type
<1>4. /\ <<U16(p.packet_id), <<p.qos>>>> \in Seq(Seq(Byte))
      /\ FlattenSeq(<<U16(p.packet_id), <<p.qos>>>>) = Body(p)
      /\ Body(p) \in Seq(Byte)
  BY <1>2, <1>3, FlattenTwo, CatBytes
<1>6. ShortHeader(p) \in Seq(Seq(Byte)) /\ FlattenSeq(ShortHeader(p)) = Header(p)
  BY <1>2, HeaderType
<1>7. Chunks(p) \in Seq(Seq(Byte)) /\ FlattenSeq(Chunks(p)) = Cat(Header(p), Body(p))
  BY <1>2, <1>4, <1>6, CatChunks
<1> QED
  BY <1>4, <1>7 DEF WellWritten, Bytes

LEMMA UnsubscribeWritten ==
    ASSUME NEW p \in Packet, Serializable(p), p.type = "UNSUBSCRIBE"
    PROVE  WellWritten(p)
<1>1. p.packet_id \in Word /\ p.topic \in Text
  BY PacketKinds DEF UnsubscribePacket
<1> DEFINE id == U16(p.packet_id)
           topic_string == StringBytes(p.topic)
<1>2. /\ Chunks(p) = Cat(Cat(LongHeader(p), <<id>>), StringChunks(p.topic))
      /\ Body(p) = Cat(id, topic_string)
  BY DEF Chunks, UnsubscribeChunks, Body, IdOnlyTypes, EmptyTypes, Cat
<1>3. id \in Seq(Byte) /\ <<id>> \in Seq(Seq(Byte)) /\ FlattenSeq(<<id>>) = id
  BY <1>1, U16Type, FlattenOne
<1>4. /\ topic_string \in Seq(Byte)
      /\ StringChunks(p.topic) \in Seq(Seq(Byte))
      /\ FlattenSeq(StringChunks(p.topic)) = topic_string
  BY <1>1, StringType
<1>5. /\ LongHeader(p) \in Seq(Seq(Byte))
      /\ FlattenSeq(LongHeader(p)) = Header(p)
      /\ Header(p) \in Seq(Byte)
  BY HeaderType
<1> HIDE DEF id, topic_string
<1>6. /\ Cat(LongHeader(p), <<id>>) \in Seq(Seq(Byte))
      /\ FlattenSeq(Cat(LongHeader(p), <<id>>)) = Cat(Header(p), id)
  BY <1>3, <1>5, CatChunks
<1>7. /\ Chunks(p) \in Seq(Seq(Byte))
      /\ FlattenSeq(Chunks(p)) = Cat(Cat(Header(p), id), topic_string)
  BY <1>2, <1>4, <1>6, CatChunks
<1>8. /\ Cat(Cat(Header(p), id), topic_string) = Cat(Header(p), Body(p))
      /\ Body(p) \in Seq(Byte)
  BY <1>2, <1>3, <1>4, <1>5, CatGroups, CatBytes
<1> QED
  BY <1>7, <1>8 DEF WellWritten, Bytes

LEMMA SubscribeWritten ==
    ASSUME NEW p \in Packet, Serializable(p), p.type = "SUBSCRIBE"
    PROVE  WellWritten(p)
<1>1. p.packet_id \in Word /\ p.topic \in Text /\ p.qos \in Byte
  BY PacketKinds DEF SubscribePacket
<1> DEFINE id == U16(p.packet_id)
           topic_string == StringBytes(p.topic)
           qos == <<p.qos>>
           ids == <<id>>
<1>2. /\ Chunks(p) = Cat(Cat(Cat(LongHeader(p), ids), StringChunks(p.topic)), <<qos>>)
      /\ Body(p) = Cat(id, Cat(topic_string, qos))
  BY DEF Chunks, SubscribeChunks, Body, IdOnlyTypes, EmptyTypes, Cat
<1>3. /\ id \in Seq(Byte) /\ ids \in Seq(Seq(Byte)) /\ FlattenSeq(ids) = id
      /\ qos \in Seq(Byte) /\ <<qos>> \in Seq(Seq(Byte)) /\ FlattenSeq(<<qos>>) = qos
  <2>1. qos \in Seq(Byte)
    BY <1>1
  <2> QED
    BY <1>1, <2>1, U16Type, FlattenOne
<1>4. /\ topic_string \in Seq(Byte)
      /\ StringChunks(p.topic) \in Seq(Seq(Byte))
      /\ FlattenSeq(StringChunks(p.topic)) = topic_string
  BY <1>1, StringType
<1>5. /\ LongHeader(p) \in Seq(Seq(Byte))
      /\ FlattenSeq(LongHeader(p)) = Header(p)
      /\ Header(p) \in Seq(Byte)
  BY HeaderType
<1> HIDE DEF id, ids, topic_string, qos
<1>6. /\ Cat(LongHeader(p), ids) \in Seq(Seq(Byte))
      /\ FlattenSeq(Cat(LongHeader(p), ids)) = Cat(Header(p), id)
  BY <1>3, <1>5, CatChunks
<1>7. /\ Cat(Cat(LongHeader(p), ids), StringChunks(p.topic)) \in Seq(Seq(Byte))
      /\ FlattenSeq(Cat(Cat(LongHeader(p), ids), StringChunks(p.topic)))
            = Cat(Cat(Header(p), id), topic_string)
  BY <1>4, <1>6, CatChunks
<1>8. /\ Chunks(p) \in Seq(Seq(Byte))
      /\ FlattenSeq(Chunks(p)) = Cat(Cat(Cat(Header(p), id), topic_string), qos)
  BY <1>2, <1>3, <1>7, CatChunks
<1>9. Cat(Cat(Cat(Header(p), id), topic_string), qos) = Cat(Header(p), Body(p))
  <2>1. Cat(Cat(Header(p), id), topic_string) = Cat(Header(p), Cat(id, topic_string))
    BY <1>3, <1>4, <1>5, CatGroups
  <2>2. Cat(Cat(Header(p), Cat(id, topic_string)), qos)
          = Cat(Header(p), Cat(Cat(id, topic_string), qos))
    BY <1>3, <1>4, <1>5, CatGroups, CatBytes
  <2>3. Cat(Cat(id, topic_string), qos) = Cat(id, Cat(topic_string, qos))
    BY <1>3, <1>4, CatGroups
  <2> QED
    BY <1>2, <2>1, <2>2, <2>3
<1>10. Body(p) \in Seq(Byte)
  <2>1. Cat(topic_string, qos) \in Seq(Byte)
    BY <1>3, <1>4, CatBytes
  <2> QED
    BY <1>2, <1>3, <2>1, CatBytes
<1> QED
  BY <1>8, <1>9, <1>10 DEF WellWritten, Bytes

LEMMA PublishWritten ==
    ASSUME NEW p \in Packet, Serializable(p), p.type = "PUBLISH"
    PROVE  WellWritten(p)
<1>1. p.packet_id \in Word /\ p.topic \in Text /\ p.data \in Seq(Byte)
  BY PacketKinds DEF PublishPacket
<1> DEFINE id_chunks == IF p.qos > 0 THEN <<U16(p.packet_id)>> ELSE <<>>
           id == IF p.qos > 0 THEN U16(p.packet_id) ELSE <<>>
           data_chunks == IF p.data # <<>> THEN <<p.data>> ELSE <<>>
           topic_string == StringBytes(p.topic)
           data == p.data
<1>2. /\ Chunks(p)
            = Cat(Cat(Cat(LongHeader(p), StringChunks(p.topic)), id_chunks), data_chunks)
      /\ Body(p) = Cat(topic_string, Cat(id, data))
  BY DEF Chunks, PublishChunks, Body, IdOnlyTypes, EmptyTypes, Cat
<1>3. /\ <<>> \in Seq(Byte) /\ <<>> \in Seq(Seq(Byte)) /\ FlattenSeq(<<>>) = <<>>
  BY FlattenEmpty, EmptySeq
<1>4. id_chunks \in Seq(Seq(Byte)) /\ id \in Seq(Byte) /\ FlattenSeq(id_chunks) = id
  BY <1>1, <1>3, U16Type, FlattenOne
<1>5. data_chunks \in Seq(Seq(Byte)) /\ FlattenSeq(data_chunks) = data
  BY <1>1, <1>3, FlattenOne
<1>6. /\ topic_string \in Seq(Byte)
      /\ StringChunks(p.topic) \in Seq(Seq(Byte))
      /\ FlattenSeq(StringChunks(p.topic)) = topic_string
  BY <1>1, StringType
<1>7. /\ LongHeader(p) \in Seq(Seq(Byte))
      /\ FlattenSeq(LongHeader(p)) = Header(p)
      /\ Header(p) \in Seq(Byte)
  BY HeaderType
<1>8. data \in Seq(Byte)
  BY <1>1
<1> HIDE DEF id_chunks, id, data_chunks, topic_string, data
<1>9. /\ Cat(LongHeader(p), StringChunks(p.topic)) \in Seq(Seq(Byte))
      /\ FlattenSeq(Cat(LongHeader(p), StringChunks(p.topic)))
            = Cat(Header(p), topic_string)
  BY <1>6, <1>7, CatChunks
<1>10. /\ Cat(Cat(LongHeader(p), StringChunks(p.topic)), id_chunks) \in Seq(Seq(Byte))
       /\ FlattenSeq(Cat(Cat(LongHeader(p), StringChunks(p.topic)), id_chunks))
            = Cat(Cat(Header(p), topic_string), id)
  BY <1>4, <1>9, CatChunks
<1>11. /\ Chunks(p) \in Seq(Seq(Byte))
       /\ FlattenSeq(Chunks(p)) = Cat(Cat(Cat(Header(p), topic_string), id), data)
  BY <1>2, <1>5, <1>10, CatChunks
<1>12. Cat(Cat(Cat(Header(p), topic_string), id), data) = Cat(Header(p), Body(p))
  <2>1. Cat(Cat(Header(p), topic_string), id) = Cat(Header(p), Cat(topic_string, id))
    BY <1>4, <1>6, <1>7, CatGroups
  <2>2. Cat(Cat(Header(p), Cat(topic_string, id)), data)
          = Cat(Header(p), Cat(Cat(topic_string, id), data))
    BY <1>4, <1>6, <1>7, <1>8, CatGroups, CatBytes
  <2>3. Cat(Cat(topic_string, id), data) = Cat(topic_string, Cat(id, data))
    BY <1>4, <1>6, <1>8, CatGroups
  <2> QED
    BY <1>2, <2>1, <2>2, <2>3
<1>13. Body(p) \in Seq(Byte)
  <2>1. Cat(id, data) \in Seq(Byte)
    BY <1>4, <1>8, CatBytes
  <2> QED
    BY <1>2, <1>6, <2>1, CatBytes
<1> QED
  BY <1>11, <1>12, <1>13 DEF WellWritten, Bytes

\* StringsChunks is FlattenSeq of a sequence of pairs of chunks.
LEMMA StringsType ==
    ASSUME NEW ss \in Seq(Text)
    PROVE  /\ [i \in DOMAIN ss |-> StringChunks(ss[i])] \in Seq(Seq(Seq(Byte)))
           /\ StringsChunks(ss) \in Seq(Seq(Byte))
           /\ StringsBytes(ss) \in Seq(Byte)
<1> DEFINE pairs == [i \in DOMAIN ss |-> StringChunks(ss[i])]
<1>1. \A i \in 1..Len(ss) : StringChunks(ss[i]) \in Seq(Seq(Byte))
  <2> SUFFICES ASSUME NEW i \in 1..Len(ss) PROVE StringChunks(ss[i]) \in Seq(Seq(Byte))
    OBVIOUS
  <2>1. ss[i] \in Text
    OBVIOUS
  <2> QED
    BY <2>1, StringType
<1>2. pairs \in Seq(Seq(Seq(Byte)))
  <2>1. DOMAIN ss = 1..Len(ss) /\ Len(ss) \in Nat
    OBVIOUS
  <2>2. pairs = [i \in 1..Len(ss) |-> StringChunks(ss[i])]
    BY <2>1
  <2>3. \A n \in Nat : \A f \in [1..n -> Seq(Seq(Byte))] : f \in Seq(Seq(Seq(Byte)))
    OBVIOUS
  <2> HIDE DEF pairs
  <2> QED
    BY <1>1, <2>1, <2>2, <2>3
<1>3. StringsChunks(ss) \in Seq(Seq(Byte))
  BY <1>2, FlattenType DEF StringsChunks
<1> QED
  BY <1>2, <1>3, FlattenType DEF StringsBytes

LEMMA FlattenThree ==
    ASSUME NEW a \in Seq(Byte), NEW b \in Seq(Byte), NEW c \in Seq(Byte)
    PROVE  /\ <<a, b, c>> \in Seq(Seq(Byte))
           /\ FlattenSeq(<<a, b, c>>) = Cat(Cat(a, b), c)
<1>1. <<a, b>> \in Seq(Seq(Byte)) /\ FlattenSeq(<<a, b>>) = Cat(a, b)
  BY FlattenTwo
<1>2. <<a, b, c>> \in Seq(Seq(Byte))
  OBVIOUS
<1>3. Append(<<a, b>>, c) = <<a, b, c>>
  <2>1. /\ Append(<<a, b>>, c) \in Seq(Seq(Byte)) /\ Len(Append(<<a, b>>, c)) = 3
        /\ Append(<<a, b>>, c)[1] = a /\ Append(<<a, b>>, c)[2] = b
        /\ Append(<<a, b>>, c)[3] = c
    BY <1>1, AppendProperties
  <2>2. ASSUME NEW d \in Seq(Seq(Byte)), Len(d) = 3, d[1] = a, d[2] = b, d[3] = c
        PROVE  d = <<a, b, c>>
    BY <2>2
  <2> QED
    BY <2>1, <2>2
<1>4. FlattenSeq(Append(<<a, b>>, c)) = FlattenSeq(<<a, b>>) \o c
  BY <1>1, FlattenAppend
<1> QED
  BY <1>1, <1>2, <1>3, <1>4 DEF Cat

LEMMA ConnectFlagsType ==
    ASSUME NEW p \in Packet, Serializable(p), p.type = "CONNECT"
    PROVE  ConnectFlags(p) \in Byte
<1>1. p.clean_session \in BOOLEAN /\ p.will_retain \in BOOLEAN /\ p.will_qos \in 0..255
  BY PacketKinds DEF ConnectPacket, Byte
<1>2. \A b : Bit(b) \in 0..1
  BY DEF Bit
<1>3. p.will # <<>> => WillFlags(p) \in 0..(12 + 16 + 32)
  <2> SUFFICES ASSUME p.will # <<>> PROVE WillFlags(p) \in 0..(12 + 16 + 32)
    OBVIOUS
  <2>1. p.will_qos <= 2
    BY DEF Serializable
  <2>2. PICK b \in 0..1 : b = Bit(p.will_retain)
    BY <1>2
  <2>3. PICK q \in 0..1 : q = p.will_qos \div 2
    <3>1. p.will_qos \in {0, 1, 2}
      <4>1. \A n \in 0..255 : n <= 2 => n \in {0, 1, 2}
        OBVIOUS
      <4>2. p.will_qos \in 0..255
        BY <1>1
      <4> QED
        BY <2>1, <4>1, <4>2, Zenon
    <3>2. 0 \div 2 = 0 /\ 1 \div 2 = 0 /\ 2 \div 2 = 1
      OBVIOUS
    <3>3. p.will_qos \div 2 \in 0..1
      BY <3>1, <3>2
    <3> QED
      BY <3>3
  <2>4. WillFlags(p) = 4 + 8 + 16 * q + 32 * b
    BY <2>2, <2>3 DEF WillFlags
  <2> QED
    BY <2>4
<1> DEFINE will == IF p.will = <<>> THEN 0 ELSE WillFlags(p)
           clean == Bit(p.clean_session)
           password == Bit(Len(p.credentials) = 2)
<1>4. will \in 0..(12 + 16 + 32) /\ clean \in 0..1 /\ password \in 0..1
  <2>1. clean \in 0..1 /\ password \in 0..1
    BY <1>2
  <2>2. CASE p.will = <<>>
    BY <2>1, <2>2
  <2>3. CASE p.will # <<>>
    BY <1>3, <2>1, <2>3
  <2> QED
    BY <2>2, <2>3
<1>5. ConnectFlags(p)
        = 2 * clean + IF p.credentials = <<>> THEN 0 ELSE 128 + 64 * password + will
  BY DEF ConnectFlags
<1> HIDE DEF will, clean, password
<1>6. ConnectFlags(p) \in 0..(2 + 128 + 64 + 12 + 16 + 32)
  BY <1>4, <1>5
<1> QED
  BY <1>6 DEF Byte

LEMMA ConnectWritten ==
    ASSUME NEW p \in Packet, Serializable(p), p.type = "CONNECT"
    PROVE  WellWritten(p)
<1>1. p.keepalive \in Word /\ ConnectStrings(p) \in Seq(Text)
  BY PacketKinds, ConnectStringsType DEF ConnectPacket
<1> DEFINE four == U16(4)
           level == <<ProtocolLevel>>
           flags == <<ConnectFlags(p)>>
           keepalive == U16(p.keepalive)
           fixed == <<Cat(Cat(four, ProtocolName), level), flags, keepalive>>
           strings == StringsBytes(ConnectStrings(p))
           name == StringBytes(ProtocolName)
<1>2. Chunks(p) = Cat(Cat(LongHeader(p), fixed), StringsChunks(ConnectStrings(p)))
  BY DEF Chunks, ConnectChunks, IdOnlyTypes, EmptyTypes, Cat
<1>3. Body(p) = Cat(name, Cat(level, Cat(flags, Cat(keepalive, strings))))
  BY DEF Body, IdOnlyTypes, EmptyTypes
<1>4. /\ four \in Seq(Byte) /\ level \in Seq(Byte) /\ flags \in Seq(Byte)
      /\ keepalive \in Seq(Byte) /\ ProtocolName \in Seq(Byte)
  <2>1. 4 \in Word /\ ProtocolLevel \in Byte
    BY DEF Word, ProtocolLevel, Byte
  <2>2. ProtocolName \in Seq(Byte)
    BY DEF ProtocolName, Byte
  <2>3. ConnectFlags(p) \in Byte
    BY ConnectFlagsType
  <2>4. level \in Seq(Byte) /\ flags \in Seq(Byte)
    BY <2>1, <2>3
  <2> QED
    BY <1>1, <2>1, <2>2, <2>4, U16Type
<1>5. name = Cat(four, ProtocolName) /\ name \in Seq(Byte)
  <2>1. Len(ProtocolName) = 4
    BY DEF ProtocolName
  <2> QED
    BY <1>4, <2>1, CatBytes DEF StringBytes
<1>6. /\ strings \in Seq(Byte)
      /\ StringsChunks(ConnectStrings(p)) \in Seq(Seq(Byte))
      /\ FlattenSeq(StringsChunks(ConnectStrings(p))) = strings
  BY <1>1, StringsType DEF StringsBytes
<1>7. /\ LongHeader(p) \in Seq(Seq(Byte))
      /\ FlattenSeq(LongHeader(p)) = Header(p)
      /\ Header(p) \in Seq(Byte)
  BY HeaderType
<1> HIDE DEF four, level, flags, keepalive, strings, name
<1>8. /\ fixed \in Seq(Seq(Byte))
      /\ FlattenSeq(fixed) = Cat(Cat(Cat(name, level), flags), keepalive)
  <2>1. Cat(name, level) \in Seq(Byte)
    BY <1>4, <1>5, CatBytes
  <2> QED
    BY <1>4, <1>5, <2>1, FlattenThree
<1> HIDE DEF fixed
<1>9. /\ Cat(LongHeader(p), fixed) \in Seq(Seq(Byte))
      /\ FlattenSeq(Cat(LongHeader(p), fixed)) = Cat(Header(p), FlattenSeq(fixed))
  BY <1>7, <1>8, CatChunks
<1>10. /\ Chunks(p) \in Seq(Seq(Byte))
       /\ FlattenSeq(Chunks(p)) = Cat(Cat(Header(p), FlattenSeq(fixed)), strings)
  BY <1>2, <1>6, <1>9, CatChunks
<1>11. /\ Cat(FlattenSeq(fixed), strings) = Body(p)
       /\ Body(p) \in Seq(Byte) /\ FlattenSeq(fixed) \in Seq(Byte)
  <2>1. /\ Cat(name, level) \in Seq(Byte)
        /\ Cat(Cat(name, level), flags) \in Seq(Byte)
        /\ Cat(Cat(Cat(name, level), flags), keepalive) \in Seq(Byte)
    BY <1>4, <1>5, CatBytes
  <2>2. Cat(Cat(Cat(Cat(name, level), flags), keepalive), strings)
          = Cat(Cat(Cat(name, level), flags), Cat(keepalive, strings))
    BY <1>4, <1>6, <2>1, CatGroups
  <2>3. Cat(keepalive, strings) \in Seq(Byte)
    BY <1>4, <1>6, CatBytes
  <2>4. Cat(Cat(Cat(name, level), flags), Cat(keepalive, strings))
          = Cat(Cat(name, level), Cat(flags, Cat(keepalive, strings)))
    BY <1>4, <2>1, <2>3, CatGroups
  <2>5. Cat(flags, Cat(keepalive, strings)) \in Seq(Byte)
    BY <1>4, <2>3, CatBytes
  <2>6. Cat(Cat(name, level), Cat(flags, Cat(keepalive, strings))) = Body(p)
    BY <1>3, <1>4, <1>5, <2>5, CatGroups
  <2>7. Cat(Cat(name, level), Cat(flags, Cat(keepalive, strings))) \in Seq(Byte)
    BY <2>1, <2>5, CatBytes
  <2> QED
    BY <1>8, <2>1, <2>2, <2>4, <2>6, <2>7
<1>12. Cat(Cat(Header(p), FlattenSeq(fixed)), strings) = Cat(Header(p), Body(p))
  BY <1>6, <1>7, <1>11, CatGroups
<1> QED
  BY <1>10, <1>11, <1>12 DEF WellWritten, Bytes

LEMMA PacketWritten ==
    ASSUME NEW p \in Packet, Serializable(p)
    PROVE  WellWritten(p)
BY PacketKinds, ConnectWritten, ConnackWritten, PublishWritten, SubscribeWritten,
   UnsubscribeWritten, SubackWritten, IdOnlyWritten, EmptyWritten

-------------------------------------------------------------------------------
(***************************************************************************)
(* What the buffer takes of them.                                          *)
(***************************************************************************)

Before(chunks, i) == FlattenSeq(SubSeq(chunks, 1, i - 1))
Failing(chunks) == {i \in DOMAIN chunks : ~Fits(Before(chunks, i), chunks[i])}

\* As long as the chunks before fit, what is stored fits.
LEMMA BeforeFits ==
    ASSUME NEW chunks \in Seq(Seq(Byte)),
           outstream.size = BufferSize, outstream.written \in 0..BufferSize,
           NEW i \in 1..(Len(chunks) + 1),
           \A j \in Failing(chunks) : i <= j
    PROVE  /\ Before(chunks, i) \in Seq(Byte)
           /\ outstream.written + Len(Before(chunks, i)) <= BufferSize
<1>1. SubSeq(chunks, 1, i - 1) \in Seq(Seq(Byte))
  BY SubSeqProperties
<1>2. Before(chunks, i) \in Seq(Byte)
  BY <1>1, FlattenType DEF Before
<1>3. CASE i = 1
  <2>1. SubSeq(chunks, 1, 0) = <<>>
    BY SubSeqEmpty
  <2>2. i - 1 = 0
    BY <1>3
  <2>3. Before(chunks, i) = <<>>
    BY <2>1, <2>2, FlattenEmpty, Zenon DEF Before
  <2> QED
    BY <1>2, <2>3
<1>4. CASE i # 1
  <2> DEFINE h == i - 1
             b == Before(chunks, h)
             c == chunks[h]
  <2>1. h \in 1..Len(chunks) /\ ~(i <= h) /\ h \in DOMAIN chunks
    BY <1>4
  <2>2. Fits(b, c)
    BY <2>1 DEF Failing
  <2>3. b \in Seq(Byte) /\ c \in Seq(Byte)
    <3>1. SubSeq(chunks, 1, h - 1) \in Seq(Seq(Byte))
      BY <2>1, SubSeqProperties
    <3>2. b \in Seq(Byte)
      BY <3>1, FlattenType, Zenon DEF Before
    <3> QED
      BY <2>1, <3>2
  <2>4. Before(chunks, i) = b \o c
    <3>1. SubSeq(chunks, 1, h) = SubSeq(chunks, 1, h - 1) \o <<chunks[h]>>
      BY <2>1, SubSeqRecursiveSecond
    <3>2. SubSeq(chunks, 1, h - 1) \in Seq(Seq(Byte))
      BY <2>1, SubSeqProperties
    <3>3. SubSeq(chunks, 1, h - 1) \o <<c>> = Append(SubSeq(chunks, 1, h - 1), c)
      BY <2>3, <3>2, AppendIsConcat
    <3> QED
      BY <2>3, <3>1, <3>2, <3>3, FlattenAppend DEF Before
  <2>5. Len(Before(chunks, i)) = Len(b) + Len(c)
    BY <2>3, <2>4
  <2>6. outstream.written + Len(b) + Len(c) <= BufferSize
    BY <2>2 DEF Fits
  <2> HIDE DEF b, c
  <2>7. Len(b) \in Nat /\ Len(c) \in Nat
    BY <2>3
  <2> QED
    BY <1>2, <2>5, <2>6, <2>7
<1> QED
  BY <1>3, <1>4

LEMMA StoredFits ==
    ASSUME NEW chunks \in Seq(Seq(Byte)),
           outstream.size = BufferSize, outstream.written \in 0..BufferSize
    PROVE  /\ Stored(chunks).bytes \in Seq(Byte)
           /\ Stored(chunks).ok \in BOOLEAN
           /\ outstream.written + Len(Stored(chunks).bytes) <= BufferSize
           /\ Stored(chunks).ok => Stored(chunks).bytes = FlattenSeq(chunks)
<1> DEFINE first == CHOOSE i \in Failing(chunks) : \A j \in Failing(chunks) : i <= j
<1>1. Stored(chunks)
        = IF Failing(chunks) = {} THEN [ok |-> TRUE, bytes |-> FlattenSeq(chunks)]
          ELSE [ok |-> FALSE, bytes |-> Before(chunks, first)]
  BY DEF Stored, Before, Failing
<1>2. CASE Failing(chunks) = {}
  <2> DEFINE n == Len(chunks) + 1
  <2>1. n \in 1..n
    OBVIOUS
  <2>2. Before(chunks, n) = FlattenSeq(chunks)
    <3>1. n - 1 = Len(chunks)
      OBVIOUS
    <3>2. SubSeq(chunks, 1, Len(chunks)) = chunks
      BY SubSeqFull
    <3> HIDE DEF n
    <3> QED
      BY <3>1, <3>2, Zenon DEF Before
  <2>3. /\ Before(chunks, n) \in Seq(Byte)
        /\ outstream.written + Len(Before(chunks, n)) <= BufferSize
    BY <1>2, <2>1, BeforeFits
  <2> QED
    BY <1>1, <1>2, <2>2, <2>3
<1>3. CASE Failing(chunks) # {}
  <2>1. Failing(chunks) \in SUBSET Nat
    BY DEF Failing
  <2>2. \E i \in Failing(chunks) : \A j \in Failing(chunks) : i <= j
    BY <1>3, <2>1, Smallest
  <2>3. first \in Failing(chunks) /\ \A j \in Failing(chunks) : first <= j
    BY <2>2
  <2> HIDE DEF first
  <2>4. first \in 1..(Len(chunks) + 1)
    BY <2>3 DEF Failing
  <2>5. /\ Before(chunks, first) \in Seq(Byte)
        /\ outstream.written + Len(Before(chunks, first)) <= BufferSize
    BY <2>3, <2>4, BeforeFits
  <2> QED
    BY <1>1, <1>3, <2>5
<1> QED
  BY <1>2, <1>3

Cell == Byte \cup {Stale}

\* Bytes that are written after the first w of a buffer.
LEMMA MemoryAfter ==
    ASSUME NEW m \in [1..BufferSize -> Cell], NEW w \in 0..BufferSize,
           NEW bytes \in Seq(Byte), w + Len(bytes) <= BufferSize,
           NEW after, after = [i \in 1..BufferSize |->
                                 IF i \in (w + 1)..(w + Len(bytes)) THEN bytes[i - w]
                                 ELSE m[i]]
    PROVE  /\ after \in [1..BufferSize -> Cell]
           /\ SubSeq(after, 1, w + Len(bytes)) = Cat(SubSeq(m, 1, w), bytes)
<1> USE BufferAssumption
<1>1. bytes \in Seq(Cell) /\ Len(bytes) \in Nat
  <2>1. Byte \subseteq Cell
    BY DEF Cell
  <2> QED
    BY <2>1, SeqMonotonic
<1>2. after \in [1..BufferSize -> Cell]
  <2>1. \A i \in (w + 1)..(w + Len(bytes)) : bytes[i - w] \in Cell
    BY <1>1
  <2> QED
    BY <2>1
<1> DEFINE left == SubSeq(m, 1, w)
           new == SubSeq(after, 1, w + Len(bytes))
<1>3. left \in Seq(Cell) /\ Len(left) = w /\ \A i \in 1..w : left[i] = m[i]
  BY SubSeqProperties
<1>4. /\ new \in Seq(Cell) /\ Len(new) = w + Len(bytes)
      /\ \A i \in 1..(w + Len(bytes)) : new[i] = after[i]
  BY <1>1, <1>2, SubSeqProperties
<1>5. /\ left \o bytes \in Seq(Cell) /\ Len(left \o bytes) = w + Len(bytes)
      /\ \A i \in 1..(w + Len(bytes)) :
            (left \o bytes)[i] = IF i <= w THEN left[i] ELSE bytes[i - w]
  BY <1>1, <1>3, ConcatProperties
<1>6. \A i \in 1..(w + Len(bytes)) : new[i] = (left \o bytes)[i]
  <2> SUFFICES ASSUME NEW i \in 1..(w + Len(bytes)) PROVE new[i] = (left \o bytes)[i]
    OBVIOUS
  <2>1. /\ new[i] = after[i]
        /\ (left \o bytes)[i] = IF i <= w THEN left[i] ELSE bytes[i - w]
    BY <1>4, <1>5
  <2>2. after[i] = IF i \in (w + 1)..(w + Len(bytes)) THEN bytes[i - w] ELSE m[i]
    BY <1>1
  <2>3. i <= w => left[i] = m[i]
    BY <1>1, <1>3
  <2> HIDE DEF left, new
  <2> QED
    BY <1>1, <2>1, <2>2, <2>3
<1> HIDE DEF left, new
<1>7. new = left \o bytes
  BY <1>4, <1>5, <1>6, SeqEqual
<1> QED
  BY <1>2, <1>7 DEF left, new, Cat

-------------------------------------------------------------------------------
(***************************************************************************)
(* What the deserializers do to a cursor, whatever the bytes.              *)
(***************************************************************************)

Flags == [clean_session : BOOLEAN, will : BOOLEAN, will_qos : Nat,
          will_retain : BOOLEAN, password : BOOLEAN, username : BOOLEAN]

Value == Nat \cup BOOLEAN \cup Seq(Cell) \cup Flags

ACursor == [left : Seq(Cell), ok : BOOLEAN, got : Seq(Value), room : Nat]

\* t begins with the members of s.
Begins(s, t) == Len(s) <= Len(t) /\ \A i \in 1..Len(s) : t[i] = s[i]

\* The bytes that are left and the room of the topic string only shrink, the
\* values that were read stay, and a failure stays one.
Follows(c, d) ==
    /\ d \in ACursor
    /\ Len(d.left) <= Len(c.left)
    /\ d.room <= c.room
    /\ Begins(c.got, d.got)
    /\ d.ok => c.ok

LEMMA BeginsItself ==
    ASSUME NEW s \in Seq(Value)
    PROVE  Begins(s, s)
  BY DEF Begins

LEMMA BeginsAgain ==
    ASSUME NEW s \in Seq(Value), NEW t \in Seq(Value), NEW u \in Seq(Value),
           Begins(s, t), Begins(t, u)
    PROVE  Begins(s, u)
<1>1. Len(s) \in Nat /\ Len(t) \in Nat /\ Len(u) \in Nat
  OBVIOUS
<1> QED
  BY <1>1 DEF Begins

LEMMA BeginsAppend ==
    ASSUME NEW s \in Seq(Value), NEW v \in Value
    PROVE  Begins(s, Append(s, v))
  BY Extended DEF Begins

LEMMA FollowsAgain ==
    ASSUME NEW c \in ACursor, NEW d, NEW e, Follows(c, d), Follows(d, e)
    PROVE  Follows(c, e)
<1>1. d \in ACursor /\ e \in ACursor
  BY DEF Follows
<1>2. /\ Len(c.left) \in Nat /\ Len(d.left) \in Nat /\ Len(e.left) \in Nat
      /\ c.room \in Nat /\ d.room \in Nat /\ e.room \in Nat
  BY <1>1 DEF ACursor
<1>3. Begins(c.got, e.got)
  <2>1. c.got \in Seq(Value) /\ d.got \in Seq(Value) /\ e.got \in Seq(Value)
    BY <1>1 DEF ACursor
  <2> QED
    BY <2>1, BeginsAgain DEF Follows
<1> QED
  BY <1>1, <1>2, <1>3 DEF Follows

LEMMA CellIsNat ==
    /\ Cell = 0..256
    /\ \A x, y \in Cell : 256 * x + y \in Nat
<1>1. Cell = 0..256
  BY DEF Cell, Byte, Stale
<1> QED
  BY <1>1

LEMMA CellParts ==
    \A x \in Cell : x \div 16 \in Nat /\ x % 16 \in Nat /\ x % 128 \in Nat
<1>1. \A x \in 0..256 : x \div 16 \in Nat /\ x % 16 \in Nat /\ x % 128 \in Nat
  OBVIOUS
<1> QED
  BY <1>1, CellIsNat

LEMMA Appended ==
    ASSUME NEW x, NEW y, NEW z
    PROVE  /\ Append(<<>>, x) = <<x>>
           /\ Append(<<x>>, y) = <<x, y>>
           /\ Append(<<x, y>>, z) = <<x, y, z>>
<1> DEFINE S == {x, y, z}
<1>1. Append(<<>>, x) = <<x>>
  OBVIOUS
<1>2. Append(<<x>>, y) = <<x, y>>
  <2>1. <<x>> \in Seq(S) /\ <<x, y>> \in Seq(S) /\ y \in S
    OBVIOUS
  <2>2. ASSUME NEW d \in Seq(S), Len(d) = 2, d[1] = x, d[2] = y PROVE d = <<x, y>>
    BY <2>2
  <2>3. /\ Append(<<x>>, y) \in Seq(S) /\ Len(Append(<<x>>, y)) = 2
        /\ Append(<<x>>, y)[1] = x /\ Append(<<x>>, y)[2] = y
    <3> HIDE DEF S
    <3> QED
      BY <2>1, AppendProperties
  <2> QED
    BY <2>2, <2>3
<1>3. Append(<<x, y>>, z) = <<x, y, z>>
  <2>1. <<x, y>> \in Seq(S) /\ <<x, y, z>> \in Seq(S) /\ z \in S
    OBVIOUS
  <2>2. ASSUME NEW d \in Seq(S), Len(d) = 3, d[1] = x, d[2] = y, d[3] = z
        PROVE  d = <<x, y, z>>
    BY <2>2
  <2>3. /\ Append(<<x, y>>, z) \in Seq(S) /\ Len(Append(<<x, y>>, z)) = 3
        /\ Append(<<x, y>>, z)[1] = x /\ Append(<<x, y>>, z)[2] = y
        /\ Append(<<x, y>>, z)[3] = z
    <3> HIDE DEF S
    <3> QED
      BY <2>1, AppendProperties
  <2> QED
    BY <2>2, <2>3
<1> QED
  BY <1>1, <1>2, <1>3

LEMMA FailType ==
    ASSUME NEW c \in ACursor
    PROVE  Follows(c, Fail(c)) /\ ~Fail(c).ok
<1>1. /\ Fail(c) \in ACursor /\ ~Fail(c).ok
      /\ Fail(c).left = c.left /\ Fail(c).room = c.room /\ Fail(c).got = c.got
  BY DEF ACursor, Fail
<1>2. Len(c.left) \in Nat /\ c.room \in Nat /\ Begins(c.got, c.got)
  BY BeginsItself DEF ACursor
<1> QED
  BY <1>1, <1>2 DEF Follows

LEMMA SkipType ==
    ASSUME NEW c \in ACursor, NEW n \in Nat
    PROVE  /\ Follows(c, Skip(c, n))
           /\ Skip(c, n).ok = c.ok
           /\ Skip(c, n).got = c.got
           /\ Skip(c, n).room = c.room
           /\ Skip(c, n).left = SubSeq(c.left, n + 1, Len(c.left))
<1> DEFINE rest == SubSeq(c.left, n + 1, Len(c.left))
<1>1. rest \in Seq(Cell) /\ Len(rest) <= Len(c.left) /\ Len(c.left) \in Nat
  <2>1. c.left \in Seq(Cell) /\ Len(c.left) \in Nat
    BY DEF ACursor
  <2>2. \A i \in (n + 1)..Len(c.left) : c.left[i] \in Cell
    BY <2>1
  <2>3. /\ rest \in Seq(Cell)
        /\ Len(rest) = IF n + 1 <= Len(c.left) THEN Len(c.left) - (n + 1) + 1 ELSE 0
    BY <2>1, <2>2, SubSeqProperties
  <2> HIDE DEF rest
  <2> QED
    BY <2>1, <2>3
<1>2. Skip(c, n) = [c EXCEPT !.left = rest]
  BY DEF Skip
<1> HIDE DEF rest
<1>3. /\ Skip(c, n) \in ACursor /\ Skip(c, n).left = rest /\ Skip(c, n).ok = c.ok
      /\ Skip(c, n).got = c.got /\ Skip(c, n).room = c.room
  BY <1>1, <1>2 DEF ACursor
<1>4. c.room \in Nat /\ Begins(c.got, c.got)
  BY BeginsItself DEF ACursor
<1> QED
  BY <1>1, <1>3, <1>4 DEF Follows, rest

LEMMA TakeType ==
    ASSUME NEW c \in ACursor, NEW n \in Nat, NEW v \in Value
    PROVE  /\ Follows(c, Take(c, n, v))
           /\ Take(c, n, v).ok = c.ok
           /\ Take(c, n, v).got = Append(c.got, v)
           /\ Take(c, n, v).room = c.room
           /\ Take(c, n, v).left = SubSeq(c.left, n + 1, Len(c.left))
<1>1. PICK d \in ACursor : d = Skip(c, n)
  BY SkipType DEF Follows
<1>2. Take(c, n, v) = [d EXCEPT !.got = Append(@, v)]
  BY <1>1 DEF Take
<1>3. Append(d.got, v) \in Seq(Value)
  BY DEF ACursor
<1>4. /\ Take(c, n, v) \in ACursor /\ Take(c, n, v).got = Append(d.got, v)
      /\ Take(c, n, v).ok = d.ok /\ Take(c, n, v).left = d.left
      /\ Take(c, n, v).room = d.room
  BY <1>2, <1>3 DEF ACursor
<1>5. Begins(c.got, Append(c.got, v))
  BY BeginsAppend DEF ACursor
<1> QED
  BY <1>1, <1>4, <1>5, SkipType DEF Follows

LEMMA FollowsItself ==
    ASSUME NEW c \in ACursor
    PROVE  Follows(c, c)
<1>1. Len(c.left) \in Nat /\ c.room \in Nat /\ Begins(c.got, c.got)
  BY BeginsItself DEF ACursor
<1> QED
  BY <1>1 DEF Follows

\* A cell that can be read, and two of them.
LEMMA CellsType ==
    ASSUME NEW c \in ACursor
    PROVE  /\ CanRead(c, 1) => c.left[1] \in Cell
           /\ CanRead(c, 2) => c.left[1] \in Cell /\ c.left[2] \in Cell /\ U16At(c) \in Nat
<1>1. c.left \in Seq(Cell) /\ Len(c.left) \in Nat
  BY DEF ACursor
<1>2. \A n \in Nat : n >= 1 /\ n <= Len(c.left) => c.left[n] \in Cell
  BY <1>1
<1>3. CanRead(c, 1) => c.left[1] \in Cell
  BY <1>2 DEF CanRead
<1>4. ASSUME CanRead(c, 2)
      PROVE  c.left[1] \in Cell /\ c.left[2] \in Cell /\ U16At(c) \in Nat
  <2>1. 2 <= Len(c.left)
    BY <1>4 DEF CanRead
  <2>2. c.left[1] \in Cell /\ c.left[2] \in Cell
    BY <1>1, <1>2, <2>1
  <2>3. PICK x, y \in Cell : x = c.left[1] /\ y = c.left[2]
    BY <2>2
  <2>4. 256 * x + y \in Nat
    BY CellIsNat
  <2> QED
    BY <2>3, <2>4 DEF U16At
<1> QED
  BY <1>3, <1>4

LEMMA ReadByteType ==
    ASSUME NEW c \in ACursor
    PROVE  Follows(c, ReadByte(c))
<1>1. CASE CanRead(c, 1)
  <2>1. c.left[1] \in Value
    <3>1. c.left[1] \in 0..256
      BY <1>1, CellsType, CellIsNat
    <3>2. c.left[1] \in Nat
      BY <3>1
    <3> QED
      BY <3>2 DEF Value
  <2> QED
    BY <1>1, <2>1, TakeType DEF ReadByte
<1>2. CASE ~CanRead(c, 1)
  BY <1>2, FailType DEF ReadByte
<1> QED
  BY <1>1, <1>2

LEMMA ReadU16Type ==
    ASSUME NEW c \in ACursor
    PROVE  Follows(c, ReadU16(c))
<1>1. CASE CanRead(c, 2)
  <2>1. U16At(c) \in Value
    BY <1>1, CellsType DEF Value
  <2> QED
    BY <1>1, <2>1, TakeType DEF ReadU16
<1>2. CASE ~CanRead(c, 2)
  BY <1>2, FailType DEF ReadU16
<1> QED
  BY <1>1, <1>2

\* The first n bytes that are left.
LEMMA TakeBytesType ==
    ASSUME NEW c \in ACursor, NEW n \in Nat, CanRead(c, n)
    PROVE  /\ SubSeq(c.left, 1, n) \in Value
           /\ Follows(c, Take(c, n, SubSeq(c.left, 1, n)))
<1>1. SubSeq(c.left, 1, n) \in Seq(Cell)
  <2>1. c.left \in Seq(Cell) /\ n <= Len(c.left)
    BY DEF ACursor, CanRead
  <2>2. \A i \in 1..n : c.left[i] \in Cell
    BY <2>1
  <2> QED
    BY <2>2, SubSeqProperties
<1>2. SubSeq(c.left, 1, n) \in Value
  BY <1>1 DEF Value
<1> QED
  BY <1>2, TakeType

LEMMA ReadStringType ==
    ASSUME NEW c \in ACursor, NEW cap \in Nat
    PROVE  Follows(c, ReadString(c, cap))
<1> DEFINE rest == Skip(c, 2)
           n == U16At(c)
<1>1. ReadString(c, cap)
        = IF ~CanRead(c, 2) THEN Fail(c)
          ELSE IF n <= cap /\ CanRead(rest, n) THEN Take(rest, n, SubSeq(rest.left, 1, n))
          ELSE Fail(rest)
  BY DEF ReadString
<1>2. Follows(c, rest) /\ rest \in ACursor
  BY SkipType DEF Follows
<1>3. CASE ~CanRead(c, 2)
  BY <1>1, <1>3, FailType
<1>4. CASE CanRead(c, 2) /\ n <= cap /\ CanRead(rest, n)
  <2>1. n \in Nat
    BY <1>4, CellsType
  <2> HIDE DEF rest, n
  <2>2. Follows(rest, ReadString(c, cap))
    BY <1>1, <1>2, <1>4, <2>1, TakeBytesType
  <2> QED
    BY <1>2, <2>2, FollowsAgain
<1>5. CASE CanRead(c, 2) /\ ~(n <= cap /\ CanRead(rest, n))
  <2> HIDE DEF rest, n
  <2>1. Follows(rest, ReadString(c, cap))
    BY <1>1, <1>2, <1>5, FailType
  <2> QED
    BY <1>2, <2>1, FollowsAgain
<1> QED
  BY <1>3, <1>4, <1>5

LEMMA ReadTopicType ==
    ASSUME NEW c \in ACursor
    PROVE  Follows(c, ReadTopic(c)) /\ ReadTopic(c).room \in Nat
<1> DEFINE fits == CanRead(c, 2) /\ U16At(c) <= c.room
<1>1. c.room \in Nat
  BY DEF ACursor
<1>2. PICK d : d = ReadString(c, c.room)
  OBVIOUS
<1>3. /\ d \in ACursor /\ Len(d.left) <= Len(c.left) /\ d.room <= c.room
      /\ Begins(c.got, d.got) /\ (d.ok => c.ok)
  BY <1>1, <1>2, ReadStringType DEF Follows
<1>4. PICK room : room = IF fits THEN U16At(c) ELSE d.room
  OBVIOUS
<1>5. ReadTopic(c) = [d EXCEPT !.room = room]
  BY <1>2, <1>4 DEF ReadTopic
<1>6. room \in Nat /\ room <= c.room
  <2>1. fits => U16At(c) \in Nat
    BY CellsType
  <2>2. d.room \in Nat
    BY <1>3 DEF ACursor
  <2> QED
    BY <1>3, <1>4, <2>1, <2>2
<1>7. /\ ReadTopic(c) \in ACursor /\ ReadTopic(c).left = d.left
      /\ ReadTopic(c).room = room /\ ReadTopic(c).got = d.got /\ ReadTopic(c).ok = d.ok
  BY <1>3, <1>5, <1>6 DEF ACursor
<1> QED
  BY <1>3, <1>6, <1>7 DEF Follows

LEMMA ReadTypeType ==
    ASSUME NEW c \in ACursor, c.got = <<>>
    PROVE  /\ Follows(c, ReadType(c))
           /\ ReadType(c).ok =>
                /\ CanRead(c, 1)
                /\ ReadType(c).left = SubSeq(c.left, 2, Len(c.left))
                /\ ReadType(c).got = <<c.left[1] \div 16, c.left[1] % 16>>
                /\ ReadType(c).room = c.room
                /\ c.left[1] \in Cell
                /\ c.left[1] \div 16 \in 1..14
<1> DEFINE code == c.left[1] \div 16
           flags == c.left[1] % 16
           known == code \in 1..14 /\ (code \in {8, 10} => flags = 2)
<1>1. CASE ~CanRead(c, 1)
  <2>1. ReadType(c) = Fail(c)
    BY <1>1 DEF ReadType
  <2> QED
    BY <2>1, FailType
<1>2. CASE CanRead(c, 1) /\ ~known
  <2>1. ReadType(c) = Fail(Skip(c, 1))
    BY <1>2 DEF ReadType
  <2>2. Follows(c, Skip(c, 1)) /\ Skip(c, 1) \in ACursor
    BY SkipType DEF Follows
  <2>3. Follows(c, ReadType(c)) /\ ~ReadType(c).ok
    BY <2>1, <2>2, FailType, FollowsAgain
  <2> QED
    BY <2>3
<1>3. CASE CanRead(c, 1) /\ known
  <2>1. c.left[1] \in Cell /\ code \in Nat /\ flags \in Nat
    <3>1. c.left[1] \in Cell
      BY <1>3, CellsType
    <3> QED
      BY <3>1, CellParts
  <2>2. PICK d : d = Take(c, 1, code)
    OBVIOUS
  <2>3. code \in Value /\ flags \in Value
    BY <2>1 DEF Value
  <2>4. /\ Follows(c, d) /\ d \in ACursor /\ d.ok = c.ok /\ d.got = Append(c.got, code)
        /\ d.room = c.room /\ d.left = SubSeq(c.left, 1 + 1, Len(c.left))
    <3>1. /\ Follows(c, Take(c, 1, code)) /\ Take(c, 1, code).ok = c.ok
          /\ Take(c, 1, code).got = Append(c.got, code)
          /\ Take(c, 1, code).room = c.room
          /\ Take(c, 1, code).left = SubSeq(c.left, 1 + 1, Len(c.left))
      BY <2>3, TakeType
    <3> QED
      BY <2>2, <3>1 DEF Follows
  <2>5. ReadType(c) = [d EXCEPT !.got = Append(@, flags)]
    BY <1>3, <2>2 DEF ReadType
  <2>6. d.got = <<code>> /\ Append(d.got, flags) = <<code, flags>>
    <3>1. d.got = Append(<<>>, code)
      BY <2>4
    <3> HIDE DEF code, flags
    <3> QED
      BY <3>1, Appended
  <2>7. Append(d.got, flags) \in Seq(Value)
    BY <2>3, <2>4, AppendProperties DEF ACursor
  <2> HIDE DEF code, flags
  <2>8. /\ ReadType(c) \in ACursor /\ ReadType(c).left = d.left
        /\ ReadType(c).room = d.room /\ ReadType(c).got = <<code, flags>>
    BY <2>4, <2>5, <2>6, <2>7 DEF ACursor
  <2>9. Begins(c.got, <<code, flags>>) /\ c.ok
    BY <1>3, EmptySeq DEF Begins, CanRead
  <2> QED
    BY <1>3, <2>1, <2>4, <2>8, <2>9 DEF Follows, code, flags
<1> QED
  BY <1>1, <1>2, <1>3

\* f[i] is the length that the first i bytes of s say.
Decodes(f, s, n) ==
    /\ f = [i \in 0..n |-> f[i]]
    /\ \A i \in 0..n :
          f[i] = IF i = 0 THEN 0 ELSE (128 * f[i - 1] + (s[i] % 128)) % LengthMod

LEMMA DecodesAt ==
    ASSUME NEW f, NEW s, NEW n, Decodes(f, s, n), NEW i \in 0..n
    PROVE  f[i] = IF i = 0 THEN 0 ELSE (128 * f[i - 1] + (s[i] % 128)) % LengthMod
BY Zenon DEF Decodes

LEMMA DecodesExists ==
    ASSUME NEW s
    PROVE  \A n \in Nat : \E f : Decodes(f, s, n)
<1> DEFINE S == {n \in Nat : \E f : Decodes(f, s, n)}
           next(last, i) == (128 * last + (s[i] % 128)) % LengthMod
<1>1. 0 \in S
  <2>1. Decodes([i \in 0..0 |-> 0], s, 0)
    BY DEF Decodes
  <2> QED
    BY <2>1
<1>2. ASSUME NEW n \in Nat, n \in S PROVE n + 1 \in S
  <2>1. PICK f : Decodes(f, s, n)
    BY <1>2
  <2> DEFINE g == [i \in 0..(n + 1) |-> IF i <= n THEN f[i] ELSE next(f[n], n + 1)]
  <2>2. ASSUME NEW i \in 0..(n + 1) PROVE g[i] = IF i = 0 THEN 0 ELSE next(g[i - 1], i)
    <3> HIDE DEF next
    <3>1. CASE i <= n
      <4>1. i \in 0..n /\ g[i] = f[i]
        BY <3>1
      <4>2. f[i] = IF i = 0 THEN 0 ELSE next(f[i - 1], i)
        BY <4>1, <2>1, DecodesAt DEF next
      <4>3. i # 0 => g[i - 1] = f[i - 1]
        BY <4>1
      <4> QED
        BY <4>1, <4>2, <4>3
    <3>2. CASE i = n + 1
      <4>1. i - 1 = n /\ n \in 0..(n + 1) /\ ~(i <= n) /\ n + 1 = i /\ i # 0
        BY <3>2
      <4>2. g[n] = f[n]
        BY <4>1
      <4>3. g[i] = next(f[n], n + 1)
        BY <4>1
      <4> QED
        BY <4>1, <4>2, <4>3
    <3> QED
      BY <3>1, <3>2
  <2>3. Decodes(g, s, n + 1)
    <3> HIDE DEF g
    <3>1. g = [i \in 0..(n + 1) |-> g[i]]
      BY DEF g
    <3> QED
      BY <2>2, <3>1 DEF Decodes
  <2> QED
    BY <2>3
<1>3. \A n \in Nat : n \in S
  <2> HIDE DEF S
  <2> QED
    BY <1>1, <1>2, SetInduction
<1> QED
  BY <1>3

LEMMA DecodesType ==
    ASSUME NEW s \in Seq(Cell), NEW n \in 0..Len(s), NEW f, Decodes(f, s, n)
    PROVE  \A i \in 0..n : f[i] \in 0..(LengthMod - 1)
<1> USE CodecAssumption
<1> DEFINE S == {i \in Nat : i \in 0..n => f[i] \in 0..(LengthMod - 1)}
<1>1. LengthMod \in Nat /\ LengthMod > 0
  OBVIOUS
<1>2. 0 \in S
  <2>1. 0 \in 0..n
    OBVIOUS
  <2>2. f[0] = 0
    BY <2>1, DecodesAt
  <2> QED
    BY <1>1, <2>2
<1>3. ASSUME NEW i \in Nat, i \in S PROVE i + 1 \in S
  <2> SUFFICES ASSUME i + 1 \in 0..n PROVE f[i + 1] \in 0..(LengthMod - 1)
    OBVIOUS
  <2>1. f[i + 1] = (128 * f[i] + (s[i + 1] % 128)) % LengthMod
    <3>1. i + 1 # 0 /\ i + 1 - 1 = i
      OBVIOUS
    <3>2. f[i + 1] = IF i + 1 = 0 THEN 0
                     ELSE (128 * f[i + 1 - 1] + (s[i + 1] % 128)) % LengthMod
      BY DecodesAt
    <3> QED
      BY <3>1, <3>2
  <2>2. f[i] \in Nat
    BY <1>1, <1>3
  <2>3. s[i + 1] \in Cell
    <3>1. i + 1 \in 1..Len(s)
      OBVIOUS
    <3> QED
      BY <3>1
  <2>4. s[i + 1] % 128 \in Nat
    BY <2>3, CellParts, SMTT(30)
  <2>5. \A x, y \in Nat : (128 * x + y) % LengthMod \in 0..(LengthMod - 1)
    BY <1>1
  <2>6. (128 * f[i] + (s[i + 1] % 128)) % LengthMod \in 0..(LengthMod - 1)
    BY <2>2, <2>4, <2>5
  <2> QED
    BY <2>1, <2>6, Zenon
<1>4. \A i \in Nat : i \in S
  <2> HIDE DEF S
  <2> QED
    BY <1>2, <1>3, SetInduction
<1> QED
  BY <1>4

\* Where the length of a packet may end.
Ends(c) == {i \in DOMAIN c.left : c.left[i] < 128}

LEMMA ReadLengthIs ==
    ASSUME NEW c \in ACursor, c.ok, Ends(c) # {}
    PROVE  \E size \in Ends(c) : \E length :
             /\ \A i \in Ends(c) : size <= i
             /\ Decodes(length, c.left, size)
             /\ ReadLength(c) = Take(c, size, length[size])
<1> DEFINE size == CHOOSE i \in Ends(c) : \A j \in Ends(c) : i <= j
           Solves(f) == f = [i \in 0..size |->
                               IF i = 0 THEN 0
                               ELSE (128 * f[i - 1] + (c.left[i] % 128)) % LengthMod]
           length == CHOOSE f : Solves(f)
<1>1. Ends(c) \in SUBSET Nat
  <2>1. c.left \in Seq(Cell)
    BY DEF ACursor
  <2> QED
    BY <2>1 DEF Ends
<1>2. \E i \in Ends(c) : \A j \in Ends(c) : i <= j
  BY <1>1, Smallest
<1>3. size \in Ends(c) /\ \A j \in Ends(c) : size <= j
  BY <1>2
<1>4. ReadLength(c) = Take(c, size, length[size])
  BY DEF ReadLength, Ends
<1> HIDE DEF size
<1>5. ASSUME NEW f, Decodes(f, c.left, size) PROVE Solves(f)
  BY <1>5, Zenon DEF Decodes
<1>6. ASSUME NEW f, Solves(f) PROVE Decodes(f, c.left, size)
  BY <1>6, Zenon DEF Decodes
<1>7. size \in Nat
  BY <1>1, <1>3
<1>8. \E f : Solves(f)
  BY <1>5, <1>7, DecodesExists
<1>9. Solves(length)
  BY <1>8
<1> HIDE DEF length, Solves
<1>10. Decodes(length, c.left, size)
  BY <1>6, <1>9
<1> QED
  BY <1>3, <1>4, <1>10

LEMMA ReadLengthType ==
    ASSUME NEW c \in ACursor
    PROVE  /\ Follows(c, ReadLength(c))
           /\ ReadLength(c).ok =>
                c.ok /\ \E n \in 0..(LengthMod - 1) : ReadLength(c).got = Append(c.got, n)
<1>1. CASE ~c.ok
  <2>1. ReadLength(c) = c
    BY <1>1 DEF ReadLength
  <2> QED
    BY <1>1, <2>1, FollowsItself
<1>2. CASE c.ok /\ Ends(c) = {}
  <2> DEFINE rest == Skip(c, Len(c.left))
  <2>1. ReadLength(c) = Fail(rest)
    BY <1>2 DEF ReadLength, Ends
  <2>2. Follows(c, rest) /\ rest \in ACursor
    <3>1. Len(c.left) \in Nat
      BY DEF ACursor
    <3> QED
      BY <3>1, SkipType DEF Follows
  <2> HIDE DEF rest
  <2>3. Follows(c, ReadLength(c)) /\ ~ReadLength(c).ok
    BY <2>1, <2>2, FailType, FollowsAgain
  <2> QED
    BY <2>3
<1>3. CASE c.ok /\ Ends(c) # {}
  <2>1. PICK size \in Ends(c) : \E length :
           Decodes(length, c.left, size) /\ ReadLength(c) = Take(c, size, length[size])
    BY <1>3, ReadLengthIs
  <2>2. PICK length :
           Decodes(length, c.left, size) /\ ReadLength(c) = Take(c, size, length[size])
    BY <2>1
  <2>3. c.left \in Seq(Cell) /\ size \in 0..Len(c.left) /\ size \in Nat
    <3>1. c.left \in Seq(Cell)
      BY DEF ACursor
    <3> QED
      BY <3>1 DEF Ends
  <2>4. length[size] \in 0..(LengthMod - 1)
    <3>1. size \in 0..size
      BY <2>3
    <3> QED
      BY <2>2, <2>3, <3>1, DecodesType
  <2>5. length[size] \in Value
    <3>1. length[size] \in Nat
      BY <2>4
    <3> QED
      BY <3>1 DEF Value
  <2> QED
    BY <1>3, <2>2, <2>3, <2>4, <2>5, TakeType
<1> QED
  BY <1>1, <1>2, <1>3

\* After the header there are three numbers.
LEMMA ReadHeaderType ==
    ASSUME NEW c \in ACursor, c.got = <<>>
    PROVE  /\ Follows(c, ReadHeader(c))
           /\ ReadHeader(c).ok =>
                \E code \in 1..14 : \E flags, n \in Nat :
                    ReadHeader(c).got = <<code, flags, n>>
<1>1. PICK d : d = ReadType(c)
  OBVIOUS
<1>2. Follows(c, d) /\ d \in ACursor
  BY <1>1, ReadTypeType DEF Follows
<1>3. ReadHeader(c) = ReadLength(d)
  BY <1>1 DEF ReadHeader
<1>4. Follows(c, ReadHeader(c))
  <2>1. Follows(d, ReadLength(d))
    BY <1>2, ReadLengthType
  <2> QED
    BY <1>2, <1>3, <2>1, FollowsAgain
<1>5. ASSUME ReadHeader(c).ok
      PROVE  \E code \in 1..14 : \E flags, n \in Nat :
                 ReadHeader(c).got = <<code, flags, n>>
  <2>1. PICK n \in 0..(LengthMod - 1) : d.ok /\ ReadHeader(c).got = Append(d.got, n)
    BY <1>2, <1>3, <1>5, ReadLengthType
  <2>2. n \in Nat
    BY CodecAssumption
  <2>3. PICK code \in 1..14, flags \in Nat : d.got = <<code, flags>>
    <3>1. /\ d.got = <<c.left[1] \div 16, c.left[1] % 16>>
          /\ c.left[1] \in Cell /\ c.left[1] \div 16 \in 1..14
      BY <1>1, <2>1, ReadTypeType
    <3>2. c.left[1] % 16 \in Nat
      BY <3>1, CellParts
    <3> QED
      BY <3>1, <3>2
  <2>4. ReadHeader(c).got = <<code, flags, n>>
    <3>1. Append(<<code, flags>>, n) = <<code, flags, n>>
      BY Appended
    <3> QED
      BY <2>1, <2>3, <3>1
  <2> QED
    BY <2>2, <2>4
<1> QED
  BY <1>4, <1>5

LEMMA ReadConnectFlagsType ==
    ASSUME NEW c \in ACursor
    PROVE  Follows(c, ReadConnectFlags(c))
<1>1. CASE CanRead(c, 1)
  <2>1. c.left[1] \in Cell
    BY <1>1, CellsType
  <2>2. \A b \in Cell : ConnectFlagsRead(b) \in Value
    <3> SUFFICES ASSUME NEW b \in Cell PROVE ConnectFlagsRead(b) \in Flags
      BY DEF Value
    <3>1. (b \div 8) % 4 \in Nat
      <4>1. \A x \in 0..256 : (x \div 8) % 4 \in Nat
        OBVIOUS
      <4> QED
        BY <4>1, CellIsNat
    <3> QED
      BY <3>1 DEF ConnectFlagsRead, Flags
  <2> QED
    BY <1>1, <2>1, <2>2, TakeType DEF ReadConnectFlags
<1>2. CASE ~CanRead(c, 1)
  BY <1>2, FailType DEF ReadConnectFlags
<1> QED
  BY <1>1, <1>2

\* One deserializer after another.
LEMMA ReadConnectType ==
    ASSUME NEW c \in ACursor
    PROVE  Follows(c, ReadConnect(c))
<1>1. StringCap \in Nat
  BY CodecAssumption
<1>2. \A d \in ACursor : Follows(d, ReadString(d, StringCap))
  BY <1>1, ReadStringType
<1>3. \A d, e : Follows(c, d) /\ Follows(d, e) => Follows(c, e)
  BY FollowsAgain
<1>4. \A d : Follows(c, d) => d \in ACursor
  BY DEF Follows
<1>5. \A d : Follows(c, d) => Follows(c, ReadString(d, StringCap))
  BY <1>2, <1>3, <1>4
<1>6. Follows(c, c)
  BY FollowsItself
<1>7. Follows(c, ReadFixed(c))
  <2>1. Follows(c, ReadString(c, StringCap))
    BY <1>5, <1>6
  <2>2. Follows(c, ReadByte(ReadString(c, StringCap)))
    BY <1>3, <1>4, <2>1, ReadByteType
  <2>3. Follows(c, ReadConnectFlags(ReadByte(ReadString(c, StringCap))))
    BY <1>3, <1>4, <2>2, ReadConnectFlagsType
  <2> QED
    BY <1>3, <1>4, <2>3, ReadU16Type DEF ReadFixed
<1>8. ASSUME NEW d, NEW flags, Follows(c, d)
      PROVE  /\ Follows(c, ReadWill(d, flags))
             /\ Follows(c, ReadUser(d, flags))
             /\ Follows(c, ReadPassword(d, flags))
  BY <1>5, <1>8 DEF ReadWill, ReadUser, ReadPassword
<1> DEFINE fixed == ReadFixed(c)
           flags == fixed.got[Len(fixed.got) - 1]
           willed == ReadWill(ReadString(fixed, StringCap), flags)
<1>9. ReadConnect(c)
        = IF fixed.ok THEN ReadPassword(ReadUser(willed, flags), flags) ELSE fixed
  BY DEF ReadConnect
<1>10. Follows(c, willed)
  BY <1>5, <1>7, <1>8
<1> HIDE DEF fixed, flags, willed
<1>11. Follows(c, ReadPassword(ReadUser(willed, flags), flags))
  BY <1>8, <1>10
<1> QED
  BY <1>7, <1>9, <1>11 DEF fixed

LEMMA ReadConnackType ==
    ASSUME NEW c \in ACursor
    PROVE  Follows(c, ReadConnack(c))
<1>1. CASE ~CanRead(c, 2)
  BY <1>1, FailType DEF ReadConnack
<1>2. CASE CanRead(c, 2) /\ c.left[1] > 1
  <2>1. ReadConnack(c) = Fail(Skip(c, 2))
    BY <1>2 DEF ReadConnack
  <2>2. Follows(c, Skip(c, 2)) /\ Skip(c, 2) \in ACursor
    BY SkipType DEF Follows
  <2> QED
    BY <2>1, <2>2, FailType, FollowsAgain
<1>3. CASE CanRead(c, 2) /\ ~(c.left[1] > 1)
  <2>1. PICK session : session = (c.left[1] = 1)
    OBVIOUS
  <2>2. session \in Value
    BY <2>1 DEF Value
  <2>3. PICK d : d = Take(c, 1, session)
    OBVIOUS
  <2>4. Follows(c, d) /\ d \in ACursor
    BY <2>2, <2>3, TakeType DEF Follows
  <2>5. PICK retcode : retcode = c.left[2]
    OBVIOUS
  <2>6. retcode \in Value
    <3>1. \A x \in Cell : x \in Nat
      <4>1. \A x \in 0..256 : x \in Nat
        OBVIOUS
      <4> QED
        BY <4>1, CellIsNat
    <3> QED
      BY <1>3, <2>5, <3>1, CellsType DEF Value
  <2>7. PICK rest : rest = SubSeq(d.left, 2, Len(d.left))
    OBVIOUS
  <2>8. ReadConnack(c) = [d EXCEPT !.left = rest, !.got = Append(@, retcode)]
    BY <1>3, <2>1, <2>3, <2>5, <2>7 DEF ReadConnack
  <2>9. rest \in Seq(Cell) /\ Len(rest) <= Len(d.left)
    <3>1. Skip(d, 1).left = SubSeq(d.left, 1 + 1, Len(d.left)) /\ Follows(d, Skip(d, 1))
      BY <2>4, SkipType
    <3>2. Skip(d, 1).left = rest
      BY <2>7, <3>1
    <3> QED
      BY <3>1, <3>2 DEF Follows, ACursor
  <2>10. /\ ReadConnack(c) \in ACursor /\ ReadConnack(c).left = rest
         /\ ReadConnack(c).room = d.room /\ ReadConnack(c).ok = d.ok
         /\ Begins(d.got, ReadConnack(c).got)
    <3>1. Append(d.got, retcode) \in Seq(Value) /\ Begins(d.got, Append(d.got, retcode))
      BY <2>4, <2>6, AppendProperties, BeginsAppend DEF ACursor
    <3> QED
      BY <2>4, <2>8, <2>9, <3>1 DEF ACursor
  <2>11. d.room \in Nat
    BY <2>4 DEF ACursor
  <2>12. Follows(d, ReadConnack(c))
    BY <2>9, <2>10, <2>11 DEF Follows
  <2> QED
    BY <2>4, <2>12, FollowsAgain
<1> QED
  BY <1>1, <1>2, <1>3

LEMMA ReadQosType ==
    ASSUME NEW c \in ACursor
    PROVE  Follows(c, ReadQos(c))
<1>1. Follows(c, Skip(c, 1)) /\ Skip(c, 1) \in ACursor
  BY SkipType DEF Follows
<1>2. Follows(c, Fail(Skip(c, 1)))
  BY <1>1, FailType, FollowsAgain
<1> QED
  BY <1>2, ReadByteType DEF ReadQos

\* What is left for the payload is computed as an unsigned number.
LEMMA ReadPublishType ==
    ASSUME NEW c \in ACursor, c.got[3] \in Nat
    PROVE  Follows(c, ReadPublish(c))
<1>1. PICK read_topic \in ACursor : read_topic = ReadTopic(c) /\ Follows(c, read_topic)
  BY ReadTopicType DEF Follows
<1>2. LengthMod \in Nat \ {0} /\ IdSize \in Nat
  BY CodecAssumption DEF IdSize
<1>3. PICK after : after = (c.got[3] - (read_topic.room + 2)) % LengthMod
  OBVIOUS
<1>4. after \in Nat
  <2>1. read_topic.room \in Nat
    BY DEF ACursor
  <2>2. \A x, y \in Nat : (x - (y + 2)) % LengthMod \in Nat
    BY <1>2
  <2> QED
    BY <1>3, <2>1, <2>2
<1>5. PICK has_id : has_id = ((c.got[2] \div 2) % 4 > 0 /\ after > IdSize)
  OBVIOUS
<1>6. PICK named : named = IF has_id THEN ReadU16(read_topic) ELSE read_topic
  OBVIOUS
<1>7. PICK size : size = IF has_id THEN (after - IdSize) % LengthMod ELSE after
  OBVIOUS
<1>8. size \in Nat
  <2>1. \A x \in Nat : (x - IdSize) % LengthMod \in Nat
    BY <1>2
  <2> QED
    BY <1>4, <1>7, <2>1
<1>9. Follows(c, named) /\ named \in ACursor
  <2>1. Follows(read_topic, ReadU16(read_topic))
    BY ReadU16Type
  <2>2. Follows(c, ReadU16(read_topic))
    BY <1>1, <2>1, FollowsAgain
  <2> QED
    BY <1>1, <1>6, <2>2 DEF Follows
<1>10. ReadPublish(c) \in {Fail(c), Fail(named), Take(named, size, SubSeq(named.left, 1, size))}
       /\ (ReadPublish(c) \notin {Fail(c), Fail(named)} => CanRead(named, size))
  BY <1>1, <1>3, <1>5, <1>6, <1>7 DEF ReadPublish
<1>11. CASE ReadPublish(c) = Fail(c)
  BY <1>11, FailType
<1>12. CASE ReadPublish(c) = Fail(named)
  BY <1>9, <1>12, FailType, FollowsAgain
<1>13. CASE ReadPublish(c) = Take(named, size, SubSeq(named.left, 1, size))
            /\ CanRead(named, size)
  <2>1. Follows(named, ReadPublish(c))
    BY <1>8, <1>9, <1>13, TakeBytesType
  <2> QED
    BY <1>9, <2>1, FollowsAgain
<1> QED
  BY <1>10, <1>11, <1>12, <1>13


LEMMA TypeOfCode ==
    /\ \A t, u \in DOMAIN TypeCode : TypeCode[t] = TypeCode[u] => t = u
    /\ \A code \in 1..14 : \E t \in DOMAIN TypeCode : TypeCode[t] = code
    /\ DOMAIN TypeCode = {"CONNECT", "CONNACK", "PUBLISH", "SUBSCRIBE", "SUBACK",
                          "UNSUBSCRIBE"} \cup IdOnlyTypes \cup EmptyTypes
<1>1. DOMAIN TypeCode = {"CONNECT", "CONNACK", "PUBLISH", "SUBSCRIBE", "SUBACK",
                         "UNSUBSCRIBE"} \cup IdOnlyTypes \cup EmptyTypes
  BY DEF TypeCode, IdOnlyTypes, EmptyTypes
<1>2. \A t, u \in DOMAIN TypeCode : TypeCode[t] = TypeCode[u] => t = u
  BY DEF TypeCode
<1>3. \A code \in 1..14 : \E t \in DOMAIN TypeCode : TypeCode[t] = code
  <2>1. /\ TypeCode["CONNECT"] = 1 /\ TypeCode["CONNACK"] = 2
        /\ TypeCode["PUBLISH"] = 3 /\ TypeCode["PUBACK"] = 4
        /\ TypeCode["PUBREC"] = 5 /\ TypeCode["PUBREL"] = 6
        /\ TypeCode["PUBCOMP"] = 7 /\ TypeCode["SUBSCRIBE"] = 8
        /\ TypeCode["SUBACK"] = 9 /\ TypeCode["UNSUBSCRIBE"] = 10
        /\ TypeCode["UNSUBACK"] = 11 /\ TypeCode["PINGREQ"] = 12
        /\ TypeCode["PINGRESP"] = 13 /\ TypeCode["DISCONNECT"] = 14
    BY DEF TypeCode
  <2>2. \A code \in 1..14 :
           \/ code = 1 \/ code = 2 \/ code = 3 \/ code = 4 \/ code = 5 \/ code = 6
           \/ code = 7 \/ code = 8 \/ code = 9 \/ code = 10 \/ code = 11 \/ code = 12
           \/ code = 13 \/ code = 14
    OBVIOUS
  <2> QED
    BY <1>1, <2>1, <2>2 DEF IdOnlyTypes, EmptyTypes
<1> QED
  BY <1>1, <1>2, <1>3

\* Reading a packet from a buffer of any contents moves the cursor forward,
\* and not past the end.
LEMMA ReadPacketType ==
    ASSUME NEW c \in ACursor, c.got = <<>>
    PROVE  Follows(c, ReadPacketFrom(c)) /\ Follows(ReadHeader(c), ReadPacketFrom(c))
<1>1. PICK d : d = ReadHeader(c)
  OBVIOUS
<1>2. /\ Follows(c, d) /\ d \in ACursor
      /\ d.ok => \E code \in 1..14 : \E flags, n \in Nat : d.got = <<code, flags, n>>
  BY <1>1, ReadHeaderType DEF Follows
<1>3. CASE ~d.ok
  <2>1. ReadPacketFrom(c) = d
    BY <1>1, <1>3 DEF ReadPacketFrom
  <2> QED
    BY <1>1, <1>2, <2>1, FollowsItself
<1>4. CASE d.ok
  <2>1. PICK code \in 1..14 : \E flags, n \in Nat : d.got = <<code, flags, n>>
    BY <1>2, <1>4
  <2>2. d.got[1] = code /\ d.got[3] \in Nat
    BY <2>1
  <2>3. PICK type \in DOMAIN TypeCode :
           type = CHOOSE t \in DOMAIN TypeCode : TypeCode[t] = d.got[1]
    <3>1. \E t \in DOMAIN TypeCode : TypeCode[t] = d.got[1]
      BY <2>2, TypeOfCode
    <3> QED
      BY <3>1
  <2>4. /\ type = "CONNECT" => ReadPacketFrom(c) = ReadConnect(d)
        /\ type = "CONNACK" => ReadPacketFrom(c) = ReadConnack(d)
        /\ type = "PUBLISH" => ReadPacketFrom(c) = ReadPublish(d)
        /\ type = "SUBSCRIBE" => ReadPacketFrom(c) = ReadSubscribe(d)
        /\ type = "UNSUBSCRIBE" => ReadPacketFrom(c) = ReadUnsubscribe(d)
        /\ type = "SUBACK" => ReadPacketFrom(c) = ReadSuback(d)
        /\ type \in IdOnlyTypes => ReadPacketFrom(c) = ReadIdOnly(d)
        /\ type \in EmptyTypes => ReadPacketFrom(c) = ReadEmpty(d)
    BY <1>1, <1>4, <2>3 DEF ReadPacketFrom, IdOnlyTypes, EmptyTypes
  <2>5. \A e \in ACursor : /\ Follows(e, ReadU16(e)) /\ Follows(e, ReadTopic(e))
                           /\ Follows(e, ReadQos(e)) /\ Follows(e, Fail(e))
    BY ReadU16Type, ReadTopicType, ReadQosType, FailType
  <2>6. \A e, f : Follows(d, e) /\ Follows(e, f) => Follows(d, f) /\ e \in ACursor
    BY <1>2, FollowsAgain DEF Follows
  <2>7. \A e : Follows(d, e) => e \in ACursor
    BY DEF Follows
  <2>8. Follows(d, ReadTopic(ReadU16(d)))
    BY <1>2, <2>5, <2>6, <2>7
  <2>9. Follows(d, ReadQos(ReadTopic(ReadU16(d)))) /\ Follows(d, ReadQos(ReadU16(d)))
    BY <1>2, <2>5, <2>6, <2>7, <2>8
  <2>10. /\ Follows(d, ReadConnect(d)) /\ Follows(d, ReadConnack(d))
         /\ Follows(d, ReadPublish(d))
    BY <1>2, <2>2, ReadConnectType, ReadConnackType, ReadPublishType
  <2>11. Follows(d, ReadSubscribe(d)) /\ Follows(d, ReadUnsubscribe(d))
    BY <1>2, <2>5, <2>8, <2>9 DEF ReadSubscribe, ReadUnsubscribe, WithRoom
  <2>12. Follows(d, ReadSuback(d)) /\ Follows(d, ReadIdOnly(d))
    BY <1>2, <2>5, <2>9 DEF ReadSuback, ReadIdOnly
  <2>13. Follows(d, ReadEmpty(d))
    BY <1>2, <2>5, FollowsItself DEF ReadEmpty
  <2>14. Follows(d, ReadPacketFrom(c))
    BY <2>3, <2>4, <2>10, <2>11, <2>12, <2>13, TypeOfCode
  <2> QED
    BY <1>1, <1>2, <2>14, FollowsAgain
<1> QED
  BY <1>3, <1>4

-------------------------------------------------------------------------------
(***************************************************************************)
(* The buffer.                                                             *)
(***************************************************************************)

Good(packets) ==
    packets \in Seq(Packets) /\ \A i \in DOMAIN packets : Serializable(packets[i])

Images(packets) == [i \in DOMAIN packets |-> Bytes(packets[i])]

LEMMA ImagesType ==
    ASSUME NEW packets, Good(packets)
    PROVE  /\ Images(packets) \in Seq(Seq(Byte))
           /\ Len(Images(packets)) = Len(packets)
           /\ \A i \in 1..Len(packets) : Images(packets)[i] = Bytes(packets[i])
<1>1. packets \in Seq(Packets) /\ Len(packets) \in Nat /\ DOMAIN packets = 1..Len(packets)
  BY DEF Good
<1>2. ASSUME NEW i \in 1..Len(packets) PROVE Bytes(packets[i]) \in Seq(Byte)
  <2>1. packets[i] \in Packet /\ Serializable(packets[i])
    BY <1>1, ExchangeAssumption DEF Good
  <2>2. Chunks(packets[i]) \in Seq(Seq(Byte))
    BY <2>1, PacketWritten DEF WellWritten
  <2> QED
    BY <2>2, FlattenType DEF Bytes
<1>3. Images(packets) = [i \in 1..Len(packets) |-> Bytes(packets[i])]
  BY <1>1 DEF Images
<1>4. \A n \in Nat : \A f \in [1..n -> Seq(Byte)] : f \in Seq(Seq(Byte)) /\ Len(f) = n
  OBVIOUS
<1>5. Images(packets) \in [1..Len(packets) -> Seq(Byte)]
  BY <1>2, <1>3
<1> QED
  BY <1>1, <1>3, <1>4, <1>5

LEMMA WrittenType ==
    ASSUME NEW packets, Good(packets)
    PROVE  Written(packets) \in Seq(Byte) /\ Written(<<>>) = <<>>
<1>1. Written(packets) \in Seq(Byte)
  BY ImagesType, FlattenType DEF Images, Written
<1>2. [i \in DOMAIN <<>> |-> Bytes(<<>>[i])] = <<>>
  OBVIOUS
<1> QED
  BY <1>1, <1>2, FlattenEmpty DEF Written

\* One more packet.
LEMMA WrittenAppend ==
    ASSUME NEW packets, Good(packets), NEW p \in Packets, Serializable(p)
    PROVE  /\ Good(Append(packets, p))
           /\ Bytes(p) \in Seq(Byte)
           /\ Written(Append(packets, p)) = Cat(Written(packets), Bytes(p))
<1> DEFINE more == Append(packets, p)
           n == Len(packets)
<1>1. /\ more \in Seq(Packets) /\ Len(more) = n + 1 /\ n \in Nat
      /\ \A i \in 1..n : more[i] = packets[i]
      /\ more[n + 1] = p
  BY AppendProperties DEF Good
<1>2. Good(more)
  <2>1. DOMAIN more = 1..(n + 1) /\ DOMAIN packets = 1..n
    BY <1>1 DEF Good
  <2>2. ASSUME NEW i \in DOMAIN more PROVE Serializable(more[i])
    <3> HIDE DEF more
    <3>1. CASE i = n + 1
      BY <1>1, <3>1
    <3>2. CASE i \in 1..n
      BY <1>1, <2>1, <3>2 DEF Good
    <3> QED
      BY <2>1, <3>1, <3>2
  <2> QED
    BY <1>1, <2>2 DEF Good
<1>3. Bytes(p) \in Seq(Byte)
  <2>1. Chunks(p) \in Seq(Seq(Byte))
    BY PacketWritten, ExchangeAssumption DEF WellWritten
  <2> QED
    BY <2>1, FlattenType DEF Bytes
<1> HIDE DEF more
<1>4. /\ Images(packets) \in Seq(Seq(Byte)) /\ Len(Images(packets)) = n
      /\ \A i \in 1..n : Images(packets)[i] = Bytes(packets[i])
  BY ImagesType
<1>5. /\ Images(more) \in Seq(Seq(Byte)) /\ Len(Images(more)) = n + 1
      /\ \A i \in 1..(n + 1) : Images(more)[i] = Bytes(more[i])
  BY <1>1, <1>2, ImagesType
<1> DEFINE appended == Append(Images(packets), Bytes(p))
<1>6. /\ appended \in Seq(Seq(Byte)) /\ Len(appended) = n + 1
      /\ \A i \in 1..n : appended[i] = Bytes(packets[i])
      /\ appended[n + 1] = Bytes(p)
  BY <1>3, <1>4, AppendProperties
<1> HIDE DEF appended, n
<1>7. Images(more) = appended
  <2>1. ASSUME NEW i \in 1..(n + 1) PROVE Images(more)[i] = appended[i]
    <3>1. Images(more)[i] = Bytes(more[i])
      BY <1>5
    <3>2. CASE i \in 1..n
      BY <1>1, <1>6, <3>1, <3>2
    <3>3. CASE i = n + 1
      BY <1>1, <1>6, <3>1, <3>3
    <3>4. n \in Nat
      BY <1>1
    <3> QED
      BY <3>2, <3>3, <3>4
  <2> QED
    BY <1>5, <1>6, <2>1, SeqEqual
<1>8. FlattenSeq(appended) = Cat(FlattenSeq(Images(packets)), Bytes(p))
  BY <1>3, <1>4, FlattenAppend DEF Cat, appended
<1> QED
  BY <1>2, <1>3, <1>7, <1>8 DEF Images, Written, more

LEMMA PrefixLemma ==
    ASSUME NEW s \in Seq(Cell), NEW t \in Seq(Cell)
    PROVE  /\ IsPrefix(s, t) /\ Len(s) = Len(t) => s = t
           /\ IsPrefix(s, Cat(s, t))
<1>1. SubSeq(s, 1, Len(s)) = s /\ SubSeq(t, 1, Len(t)) = t
  BY SubSeqFull
<1>2. IsPrefix(s, t) /\ Len(s) = Len(t) => s = t
  BY <1>1 DEF IsPrefix
<1>3. IsPrefix(s, Cat(s, t))
  <2>1. s \o t \in Seq(Cell) /\ Len(s \o t) = Len(s) + Len(t)
    BY ConcatProperties
  <2>2. \A i \in 1..Len(s) : (s \o t)[i] = s[i]
    OBVIOUS
  <2> DEFINE u == SubSeq(s \o t, 1, Len(s))
  <2>3. u \in Seq(Cell) /\ Len(u) = Len(s) /\ \A i \in 1..Len(s) : u[i] = (s \o t)[i]
    OBVIOUS
  <2>4. u = s
    <3> HIDE DEF u
    <3> QED
      BY <2>2, <2>3, SeqEqual
  <2>5. Len(s) <= Len(s \o t)
    BY <2>1
  <2> QED
    BY <1>1, <2>4, <2>5 DEF IsPrefix, Cat
<1> QED
  BY <1>2, <1>3

\* Both streams are records, the packets that were sent pass the checks of
\* their parameters, and what is read is what was written.
ExchangeInv ==
    /\ TypeOK
    /\ outstream \in [param : Nat, written : Nat, size : Nat]
    /\ instream \in [param : Nat, read : Nat, size : Nat]
    /\ \A i \in DOMAIN sent : Serializable(sent[i])
    /\ BufferHoldsPackets
    /\ phase = "reading" => instream.size = outstream.written

LEMMA InitExchange == Init => ExchangeInv
<1> SUFFICES ASSUME Init PROVE ExchangeInv
  OBVIOUS
<1> USE BufferAssumption, ExchangeAssumption
<1>1. /\ outstream = [param |-> 0, written |-> 0, size |-> BufferSize]
      /\ instream = [param |-> 0, read |-> 0, size |-> BufferSize]
      /\ memory = [i \in 1..BufferSize |-> Stale]
      /\ phase = "writing" /\ sent = <<>> /\ got = <<>> /\ topic = TopicCap
  BY DEF Init, StreamInit, OutputFromBuffer, InputFromBuffer
<1>2. TypeOK
  BY <1>1 DEF TypeOK, StreamTypeOK
<1>3. BufferHoldsPackets
  <2>1. Good(<<>>)
    BY DEF Good
  <2>2. Written(sent) = <<>>
    BY <1>1, <2>1, WrittenType
  <2>3. SubSeq(memory, 1, outstream.written) = <<>>
    BY <1>1, SubSeqEmpty
  <2> QED
    BY <1>1, <2>2, <2>3 DEF BufferHoldsPackets, IsPrefix
<1> QED
  BY <1>1, <1>2, <1>3 DEF ExchangeInv

\* What the invariant says before a step.
LEMMA ExchangeFacts ==
    ASSUME ExchangeInv
    PROVE  /\ memory \in [1..BufferSize -> Cell] /\ DOMAIN memory = 1..BufferSize
           /\ outstream = [param |-> outstream.written, written |-> outstream.written,
                           size |-> BufferSize]
           /\ outstream.size = BufferSize /\ outstream.param = outstream.written
           /\ outstream.written \in 0..BufferSize
           /\ instream = [param |-> instream.read, read |-> instream.read,
                          size |-> instream.size]
           /\ instream.param = instream.read
           /\ instream.size \in 0..BufferSize /\ instream.read \in 0..instream.size
           /\ Good(sent)
<1>1. memory \in [1..BufferSize -> Cell]
  BY DEF ExchangeInv, TypeOK, StreamTypeOK, Cell
<1>2. Good(sent)
  BY DEF ExchangeInv, TypeOK, Good
<1> QED
  BY <1>1, <1>2 DEF ExchangeInv, TypeOK, StreamTypeOK

LEMMA SerializeKeeps ==
    ASSUME ExchangeInv, NEW p \in Packets, Serialize(p)
    PROVE  ExchangeInv'
<1> USE BufferAssumption, ExchangeAssumption
<1> DEFINE w == outstream.written
<1>1. /\ phase = "writing" /\ Len(sent) < MaxPackets /\ Serializable(p)
      /\ instream' = instream /\ got' = got /\ topic' = topic
  BY DEF Serialize
<1>2. PICK stored : stored = Stored(Chunks(p))
  OBVIOUS
<1>3. /\ Write(stored.bytes)
      /\ phase' = IF stored.ok THEN "writing" ELSE "torn"
      /\ sent' = IF stored.ok THEN Append(sent, p) ELSE sent
  BY <1>2 DEF Serialize
<1>4. /\ memory \in [1..BufferSize -> Cell] /\ DOMAIN memory = 1..BufferSize
      /\ outstream = [param |-> w, written |-> w, size |-> BufferSize]
      /\ outstream.size = BufferSize /\ outstream.param = w
      /\ w \in 0..BufferSize
      /\ Good(sent)
  BY ExchangeFacts
<1>5. Chunks(p) \in Seq(Seq(Byte)) /\ FlattenSeq(Chunks(p)) = Bytes(p)
  BY <1>1, PacketWritten DEF WellWritten, Bytes
<1>6. /\ stored.bytes \in Seq(Byte) /\ stored.ok \in BOOLEAN
      /\ w + Len(stored.bytes) <= BufferSize
      /\ stored.ok => stored.bytes = Bytes(p)
  BY <1>2, <1>4, <1>5, StoredFits
<1>7. PICK bytes \in Seq(Byte) : bytes = stored.bytes
  BY <1>6
<1>8. Len(bytes) \in Nat /\ w + Len(bytes) <= BufferSize
  BY <1>6, <1>7
<1> HIDE DEF w
<1>9. memory' = [i \in 1..BufferSize |->
                   IF i \in (w + 1)..(w + Len(bytes)) THEN bytes[i - w] ELSE memory[i]]
  BY <1>3, <1>4, <1>7 DEF Write
<1>10. outstream' = [param |-> w + Len(bytes), written |-> w + Len(bytes),
                     size |-> BufferSize]
  <2>1. outstream' = [outstream EXCEPT !.written = @ + Len(bytes), !.param = w + Len(bytes)]
    BY <1>3, <1>4, <1>7 DEF Write
  <2> QED
    BY <1>4, <2>1
<1>11. w + Len(bytes) \in 0..BufferSize
  BY <1>4, <1>8
<1>12. /\ memory' \in [1..BufferSize -> Cell]
       /\ SubSeq(memory', 1, w + Len(bytes)) = Cat(SubSeq(memory, 1, w), bytes)
  <2>1. PICK m \in [1..BufferSize -> Cell] : m = memory
    BY <1>4
  <2>2. PICK n \in 0..BufferSize : n = w
    BY <1>4
  <2>3. PICK after :
           after = [i \in 1..BufferSize |->
                      IF i \in (n + 1)..(n + Len(bytes)) THEN bytes[i - n] ELSE m[i]]
    OBVIOUS
  <2>4. memory' = after
    BY <1>9, <2>1, <2>2, <2>3
  <2>5. n + Len(bytes) <= BufferSize
    BY <1>8, <2>2
  <2>6. /\ after \in [1..BufferSize -> Cell]
        /\ SubSeq(after, 1, n + Len(bytes)) = Cat(SubSeq(m, 1, n), bytes)
    BY <2>3, <2>5, MemoryAfter
  <2> QED
    BY <2>1, <2>2, <2>4, <2>6
<1>13. Good(sent') /\ Len(sent') <= MaxPackets
  <2>1. Good(Append(sent, p)) /\ Len(Append(sent, p)) = Len(sent) + 1
    <3>1. sent \in Seq(Packets)
      BY <1>4 DEF Good
    <3> QED
      BY <1>1, <1>4, <3>1, WrittenAppend, AppendProperties
  <2>2. Len(sent) \in Nat
    BY <1>4 DEF Good
  <2> QED
    BY <1>1, <1>3, <1>4, <2>1, <2>2
<1>14. StreamTypeOK'
  <2>1. instream'.size \in 0..BufferSize /\ instream'.read \in 0..instream'.size
        /\ instream'.param = instream'.read
    BY <1>1, ExchangeFacts
  <2> QED
    BY <1>10, <1>11, <1>12, <2>1 DEF StreamTypeOK, Cell
<1>15. TypeOK'
  BY <1>1, <1>3, <1>6, <1>13, <1>14 DEF TypeOK, Good, ExchangeInv
<1>16. Written(sent) \in Seq(Byte) /\ Written(sent) = SubSeq(memory, 1, w)
  <2>1. Written(sent) \in Seq(Byte)
    BY <1>4, WrittenType
  <2>2. IsPrefix(Written(sent), SubSeq(memory, 1, w)) /\ Len(Written(sent)) = w
    BY <1>1 DEF ExchangeInv, BufferHoldsPackets, w
  <2>3. SubSeq(memory, 1, w) \in Seq(Cell) /\ Len(SubSeq(memory, 1, w)) = w
    BY <1>4, SubSeqProperties
  <2>4. Written(sent) \in Seq(Cell)
    <3>1. Byte \subseteq Cell
      BY DEF Cell
    <3> QED
      BY <2>1, <3>1, SeqMonotonic
  <2> QED
    BY <2>1, <2>2, <2>3, <2>4, PrefixLemma
<1>17. SubSeq(memory', 1, outstream'.written) = Cat(Written(sent), bytes)
       /\ outstream'.written = w + Len(bytes)
  BY <1>10, <1>12, <1>16
<1>18. BufferHoldsPackets'
  <2>1. Len(Written(sent)) = w
    BY <1>1 DEF ExchangeInv, BufferHoldsPackets, w
  <2>2. CASE stored.ok
    <3>1. Written(sent') = Cat(Written(sent), bytes)
      BY <1>1, <1>3, <1>4, <1>6, <1>7, <2>2, WrittenAppend
    <3>2. Len(Cat(Written(sent), bytes)) = w + Len(bytes)
      BY <1>16, <2>1, CatBytes
    <3> DEFINE now == Cat(Written(sent), bytes)
    <3> HIDE DEF now
    <3>3. IsPrefix(now, now)
      <4>1. now \in Seq(Byte)
        BY <1>16, CatBytes DEF now
      <4> QED
        BY <4>1 DEF IsPrefix
    <3> QED
      BY <1>17, <3>1, <3>2, <3>3 DEF BufferHoldsPackets, now
  <2>3. CASE ~stored.ok
    <3>1. sent' = sent /\ phase' = "torn"
      BY <1>3, <2>3
    <3>2. Written(sent) \in Seq(Cell) /\ bytes \in Seq(Cell)
      <4>1. Byte \subseteq Cell
        BY DEF Cell
      <4> QED
        BY <1>16, <4>1, SeqMonotonic
    <3>3. IsPrefix(Written(sent), Cat(Written(sent), bytes))
      BY <3>2, PrefixLemma
    <3>4. Written(sent') = Written(sent)
      BY <3>1
    <3> QED
      BY <1>17, <3>1, <3>3, <3>4 DEF BufferHoldsPackets
  <2> QED
    BY <2>2, <2>3
<1>19. /\ outstream' \in [param : Nat, written : Nat, size : Nat]
       /\ instream' \in [param : Nat, read : Nat, size : Nat]
       /\ phase' # "reading"
  BY <1>1, <1>3, <1>10, <1>11 DEF ExchangeInv
<1>20. \A i \in DOMAIN sent' : Serializable(sent'[i])
  BY <1>13 DEF Good
<1> QED
  BY <1>15, <1>18, <1>19, <1>20 DEF ExchangeInv

LEMMA HandOverKeeps ==
    ASSUME ExchangeInv, HandOver
    PROVE  ExchangeInv'
<1>1. /\ memory' = memory /\ outstream' = outstream /\ sent' = sent /\ topic' = topic
      /\ phase = "writing" /\ phase' = "reading"
  BY DEF HandOver
<1>2. instream' = [param |-> 0, read |-> 0, size |-> outstream.written]
  <2>1. instream' = [instream EXCEPT !.param = @ - instream.read,
                                     !.size = outstream.written, !.read = 0]
    BY DEF HandOver, ResetInput
  <2>2. PICK n \in Nat, size \in Nat : instream = [param |-> n, read |-> n, size |-> size]
    BY ExchangeFacts, BufferAssumption
  <2>3. instream.read = n /\ n - n = 0
    BY <2>2
  <2> QED
    BY <2>1, <2>2, <2>3
<1>3. outstream.written \in 0..BufferSize /\ outstream.written \in Nat
  BY ExchangeFacts, BufferAssumption
<1>4. TypeOK'
  BY <1>1, <1>2, <1>3 DEF ExchangeInv, TypeOK, StreamTypeOK
<1>5. BufferHoldsPackets'
  BY <1>1 DEF ExchangeInv, BufferHoldsPackets
<1> QED
  BY <1>1, <1>2, <1>3, <1>4, <1>5 DEF ExchangeInv

\* The reader is given the cells between its pointer and its size.
LEMMA UnreadType ==
    ASSUME ExchangeInv
    PROVE  /\ Unread = SubSeq(memory, instream.read + 1, instream.size)
           /\ Unread \in Seq(Cell)
           /\ Len(Unread) = instream.size - instream.read
           /\ Cursor(Unread, topic) \in ACursor
           /\ Cursor(Unread, topic).got = <<>>
<1> USE BufferAssumption, ExchangeAssumption
<1>1. /\ memory \in [1..BufferSize -> Cell] /\ instream.param = instream.read
      /\ instream.size \in 0..BufferSize /\ instream.read \in 0..instream.size
  BY ExchangeFacts
<1>2. Unread = SubSeq(memory, instream.read + 1, instream.size)
  <2>1. instream.param + instream.size - instream.read = instream.size
    BY <1>1
  <2> QED
    BY <1>1, <2>1 DEF Unread
<1>3. Unread \in Seq(Cell) /\ Len(Unread) = instream.size - instream.read
  <2>1. \A i \in (instream.read + 1)..instream.size : memory[i] \in Cell
    BY <1>1
  <2>2. /\ Unread \in Seq(Cell)
        /\ Len(Unread) = IF instream.read + 1 <= instream.size
                         THEN instream.size - (instream.read + 1) + 1 ELSE 0
    <3>1. instream.read + 1 \in Int /\ instream.size \in Int
      BY <1>1
    <3> QED
      BY <1>2, <2>1, <3>1, SubSeqProperties
  <2> QED
    BY <1>1, <2>2
<1>4. topic \in Nat
  BY DEF ExchangeInv, TypeOK
<1>5. <<>> \in Seq(Value)
  OBVIOUS
<1> QED
  BY <1>2, <1>3, <1>4, <1>5 DEF Cursor, ACursor

LEMMA DeserializeKeeps ==
    ASSUME ExchangeInv, Deserialize
    PROVE  ExchangeInv'
<1> USE BufferAssumption, ExchangeAssumption
<1>1. PICK result : result = ReadPacketFrom(Cursor(Unread, topic))
  OBVIOUS
<1>2. /\ Read(Len(Unread) - Len(result.left)) /\ topic' = result.room
      /\ memory' = memory /\ outstream' = outstream /\ phase' = phase /\ sent' = sent
      /\ phase = "reading"
  BY <1>1 DEF Deserialize, MayRead
<1>3. /\ instream.size \in 0..BufferSize /\ instream.read \in 0..instream.size
      /\ instream = [param |-> instream.read, read |-> instream.read,
                     size |-> instream.size]
  BY ExchangeFacts
<1>4. Follows(Cursor(Unread, topic), result)
  BY <1>1, UnreadType, ReadPacketType
<1>5. /\ result \in ACursor /\ Len(result.left) \in Nat
      /\ Len(result.left) <= Len(Unread) /\ result.room <= topic
  BY <1>4 DEF Follows, ACursor, Cursor
<1>6. PICK read \in 0..instream.size :
         instream' = [param |-> read, read |-> read, size |-> instream.size]
  <2>1. PICK n : n = Len(Unread) - Len(result.left)
    OBVIOUS
  <2>2. n \in Nat /\ instream.read + n <= instream.size
    BY <1>3, <1>5, <2>1, UnreadType
  <2>3. instream' = [instream EXCEPT !.read = @ + n, !.param = @ + n]
    BY <1>2, <2>1 DEF Read
  <2>4. instream' = [param |-> instream.read + n, read |-> instream.read + n,
                     size |-> instream.size]
    <3>1. PICK m, size : instream = [param |-> m, read |-> m, size |-> size]
      BY <1>3
    <3>2. instream.read = m /\ instream.size = size
      BY <3>1
    <3> QED
      BY <2>3, <3>1, <3>2
  <2>5. instream.read + n \in 0..instream.size
    BY <1>3, <2>2
  <2> QED
    BY <2>4, <2>5
<1>7. topic' \in 0..TopicCap
  <2>1. result.room \in Nat
    BY <1>5 DEF ACursor
  <2>2. topic \in 0..TopicCap
    BY DEF ExchangeInv, TypeOK
  <2> QED
    BY <1>2, <1>5, <2>1, <2>2
<1>8. StreamTypeOK'
  <2>1. /\ instream'.size = instream.size /\ instream'.read = read
        /\ instream'.param = read
    BY <1>6
  <2> QED
    BY <1>2, <1>3, <2>1 DEF ExchangeInv, TypeOK, StreamTypeOK
<1>9. TypeOK'
  BY <1>2, <1>7, <1>8 DEF ExchangeInv, TypeOK
<1>10. BufferHoldsPackets'
  BY <1>2 DEF ExchangeInv, BufferHoldsPackets
<1> QED
  BY <1>2, <1>3, <1>6, <1>9, <1>10 DEF ExchangeInv

LEMMA RecycleKeeps ==
    ASSUME ExchangeInv, Recycle
    PROVE  ExchangeInv'
<1> USE BufferAssumption
<1>1. /\ phase' = "writing" /\ sent' = <<>> /\ topic' = topic
      /\ memory' = [i \in 1..BufferSize |-> Stale]
  BY ExchangeFacts DEF Recycle
<1>2. outstream' = [param |-> 0, written |-> 0, size |-> BufferSize]
  <2>1. outstream' = [outstream EXCEPT !.param = @ - outstream.written, !.written = 0]
    BY DEF Recycle, ResetOutput
  <2>2. PICK n \in Nat : outstream = [param |-> n, written |-> n, size |-> BufferSize]
    BY ExchangeFacts
  <2>3. outstream.written = n /\ n - n = 0
    BY <2>2
  <2> QED
    BY <2>1, <2>2, <2>3
<1>3. instream' = [param |-> 0, read |-> 0, size |-> 0]
  <2>1. instream' = [instream EXCEPT !.param = @ - instream.read, !.size = 0, !.read = 0]
    BY DEF Recycle, ResetInput
  <2>2. PICK n \in Nat, size \in Nat : instream = [param |-> n, read |-> n, size |-> size]
    BY ExchangeFacts, BufferAssumption
  <2>3. instream.read = n /\ n - n = 0
    BY <2>2
  <2> QED
    BY <2>1, <2>2, <2>3
<1>4. Good(<<>>)
  BY DEF Good
<1>5. TypeOK'
  <2>1. <<>> \in Seq(Packets) /\ Len(<<>>) <= MaxPackets
    BY ExchangeAssumption
  <2> QED
    BY <1>1, <1>2, <1>3, <2>1 DEF ExchangeInv, TypeOK, StreamTypeOK
<1>6. BufferHoldsPackets'
  <2>1. Written(sent') = <<>>
    BY <1>1, <1>4, WrittenType
  <2>2. SubSeq(memory', 1, outstream'.written) = <<>>
    BY <1>2, SubSeqEmpty
  <2>3. outstream'.written = 0 /\ Len(<<>>) = 0
    BY <1>2
  <2> QED
    BY <2>1, <2>2, <2>3 DEF BufferHoldsPackets, IsPrefix
<1> QED
  BY <1>1, <1>2, <1>3, <1>5, <1>6 DEF ExchangeInv

LEMMA NextExchange == ExchangeInv /\ [Next]_vars => ExchangeInv'
<1> SUFFICES ASSUME ExchangeInv, [Next]_vars PROVE ExchangeInv'
  OBVIOUS
<1>1. CASE \E p \in Packets : Serialize(p)
  BY <1>1, SerializeKeeps
<1>2. CASE HandOver
  BY <1>2, HandOverKeeps
<1>3. CASE Deserialize
  BY <1>3, DeserializeKeeps
<1>4. CASE Recycle
  BY <1>4, RecycleKeeps
<1>5. CASE UNCHANGED vars
  BY <1>5 DEF vars, streamVars, ExchangeInv, TypeOK, StreamTypeOK, BufferHoldsPackets
<1> QED
  BY <1>1, <1>2, <1>3, <1>4, <1>5 DEF Next

LEMMA ExchangeInvariant == Spec => []ExchangeInv
<1> QED
  BY InitExchange, NextExchange, PTL DEF Spec

\* The streams stay in the buffer and their pointers with their counts,
\* whatever the reader finds in it, and a topic string never grows: for any
\* packets, any buffer and any number of rounds.
THEOREM ExchangeTypeCorrect == Spec => []TypeOK
<1>1. ExchangeInv => TypeOK
  BY DEF ExchangeInv
<1> QED
  BY <1>1, ExchangeInvariant, PTL

\* The buffer holds the packets whose serialization succeeded and nothing
\* else, or after a failure a part of one more: each serializer writes all of
\* its packet in a fixed order of chunks, or stops at the first that does not
\* fit, and a reset takes the pointer back with the count.
THEOREM BufferKeepsPackets == Spec => []BufferHoldsPackets
<1>1. ExchangeInv => BufferHoldsPackets
  BY DEF ExchangeInv
<1> QED
  BY <1>1, ExchangeInvariant, PTL
===============================================================================
