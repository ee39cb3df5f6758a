---------------------------- MODULE QueryParserProofs ----------------------------
(***************************************************************************)
(* Proofs about PreParseGetParam, for any targets, forms and path: its     *)
(* results are bytes, every field of a query is parsed and nothing else    *)
(* is, and a form that UrlEncode encoded arrives as it was.  The functions *)
(* of UrlCodec recur over strings, so that the lemmas on them need         *)
(* induction.                                                              *)
(***************************************************************************)
EXTENDS QueryParser, SequenceTheorems, WellFoundedInduction, TLAPS
-------------------------------------------------------------------------------
(* Induction.  The library has it for predicates, which the provers cannot *)
(* instantiate; here it is for sets, from the least element of a set.      *)

\* Every nonempty set of numbers has a least element.
LEMMA LeastElement ==
    ASSUME NEW T, T \subseteq Nat, T # {}
    PROVE  \E n \in T : \A m \in T : n <= m
<1> DEFINE Less == {p \in Nat \X Nat : p[1] < p[2]}
<1>1. IsWellFoundedOn(Less, Nat)
  BY NatLessThanWellFounded DEF OpToRel
<1> HIDE DEF Less
<1>2. PICK x \in T : \A y \in T : ~ (<<y, x>> \in Less)
  BY <1>1, WFMin
<1>3. \A y \in T : ~(y < x)
  BY <1>2 DEF Less
<1> QED BY <1>3

\* Induction, on a set instead of a predicate.
LEMMA Induction ==
    ASSUME NEW T, 0 \in T, \A n \in Nat : n \in T => n + 1 \in T
    PROVE  \A n \in Nat : n \in T
<1> SUFFICES ASSUME NEW n \in Nat, n \notin T PROVE FALSE
  OBVIOUS
<1> DEFINE Others == {i \in Nat : i \notin T}
<1>1. PICK m \in Others : \A i \in Others : m <= i
  BY LeastElement
<1>2. m # 0 /\ m - 1 \in Nat /\ m - 1 \notin Others
  BY <1>1
<1> QED BY <1>1, <1>2

\* Induction along an interval.
LEMMA InductionTo ==
    ASSUME NEW N \in Nat, NEW T, 1 \in 1..N => 1 \in T,
           \A i \in 1..N : i \in T /\ i + 1 \in 1..N => i + 1 \in T
    PROVE  1..N \subseteq T
<1> DEFINE U == {n \in Nat : n + 1 \in 1..N => n + 1 \in T}
<1>1. 0 \in U
  OBVIOUS
<1>2. ASSUME NEW n \in Nat, n \in U PROVE n + 1 \in U
  <2>1. (n + 1) + 1 \in 1..N => n + 1 \in 1..N
    OBVIOUS
  <2> QED BY <1>2, <2>1
<1> HIDE DEF U
<1>3. \A n \in Nat : n \in U
  BY <1>1, <1>2, Induction
<1>4. ASSUME NEW i \in 1..N PROVE i \in T
  <2>1. i - 1 \in Nat /\ (i - 1) + 1 = i
    OBVIOUS
  <2> QED BY <1>3, <2>1 DEF U
<1> QED BY <1>4

\* Induction from the end of an interval.
LEMMA InductionDown ==
    ASSUME NEW N \in Nat, NEW T,
           \A i \in 1..N : (\A j \in 1..N : j > i => j \in T) => i \in T
    PROVE  1..N \subseteq T
<1> SUFFICES ASSUME NEW k \in 1..N, k \notin T PROVE FALSE
  OBVIOUS
<1> DEFINE Others == {n \in Nat : N - n \in 1..N /\ N - n \notin T}
<1>1. N - k \in Others
  OBVIOUS
<1>2. PICK m \in Others : \A n \in Others : m <= n
  <2>1. Others \subseteq Nat /\ Others # {}
    BY <1>1
  <2> HIDE DEF Others
  <2> QED BY <2>1, LeastElement
<1>3. ASSUME NEW j \in 1..N, j > N - m PROVE j \in T
  <2>1. N - j \in Nat /\ N - j < m /\ N - (N - j) = j
    BY <1>2
  <2>2. N - j \notin Others
    BY <1>2, <2>1
  <2> QED BY <2>1, <2>2
<1>4. N - m \in 1..N /\ N - m \notin T
  BY <1>2
<1> QED BY <1>3, <1>4
-------------------------------------------------------------------------------
(* Concatenation of a sequence of sequences: FlattenSeq is the last value of *)
(* a function that joins one more element at each index.                   *)

\* f[i] is the first i elements of s, joined: the function within FlattenSeq.
Joined(s, f) == f = [i \in 1..Len(s) |-> IF i = 1 THEN s[i] ELSE f[i - 1] \o s[i]]

\* There is such a function, which is what its CHOOSE in FlattenSeq needs.
LEMMA JoinExists ==
    ASSUME NEW S, NEW s \in Seq(Seq(S))
    PROVE  \E f : Joined(s, f)
<1> DEFINE Upto(n, f) == f = [i \in 1..n |-> IF i = 1 THEN s[i] ELSE f[i - 1] \o s[i]]
           T == {n \in Nat : \E f : Upto(n, f)}
<1>1. 0 \in T
  <2>1. Upto(0, <<>>)
    OBVIOUS
  <2> QED BY <2>1
<1>2. ASSUME NEW n \in Nat, n \in T PROVE n + 1 \in T
  <2>1. PICK f : Upto(n, f)
    BY <1>2
  <2> DEFINE last == IF n + 1 = 1 THEN s[n + 1] ELSE f[n] \o s[n + 1]
             g == [i \in 1..(n + 1) |-> IF i = n + 1 THEN last ELSE f[i]]
  <2>2. \A i \in 1..n : g[i] = f[i] /\ i \in 1..n + 1
    OBVIOUS
  <2>3. ASSUME NEW i \in 1..(n + 1) PROVE g[i] = IF i = 1 THEN s[i] ELSE g[i - 1] \o s[i]
    <3>1. CASE i = n + 1
      <4>1. i # 1 => i - 1 \in 1..n /\ i - 1 = n
        BY <3>1
      <4> QED BY <3>1, <4>1, <2>2
    <3>2. CASE i # n + 1
      <4>1. i \in 1..n /\ (i # 1 => i - 1 \in 1..n)
        BY <3>2
      <4>2. f[i] = IF i = 1 THEN s[i] ELSE f[i - 1] \o s[i]
        BY <4>1, <2>1
      <4> QED BY <4>1, <4>2, <2>2
    <3> QED BY <3>1, <3>2
  <2>4. Upto(n + 1, g)
    BY <2>3
  <2> HIDE DEF Upto, g
  <2>5. \E h : Upto(n + 1, h)
    BY <2>4
  <2> QED BY <2>5
<1> HIDE DEF T
<1>3. \A n \in Nat : n \in T
  BY <1>1, <1>2, Induction
<1>4. Len(s) \in T
  BY <1>3
<1> QED BY <1>4 DEF T, Joined

\* FlattenSeq is its last value.
LEMMA Flattened ==
    ASSUME NEW S, NEW s \in Seq(Seq(S)), s # <<>>
    PROVE  \E f : Joined(s, f) /\ FlattenSeq(s) = f[Len(s)]
<1>1. Len(s) # 0
  BY EmptySeq
<1>2. \E f : f = [i \in 1..Len(s) |-> IF i = 1 THEN s[i] ELSE f[i - 1] \o s[i]]
  BY JoinExists DEF Joined
<1> QED BY <1>1, <1>2 DEF FlattenSeq, Joined

\* One more element at each index.
LEMMA JoinedStep ==
    ASSUME NEW S, NEW s \in Seq(Seq(S)), NEW f, Joined(s, f)
    PROVE  /\ Len(s) \in Nat
           /\ \A i \in 1..Len(s) : s[i] \in Seq(S)
           /\ 1 \in 1..Len(s) => f[1] = s[1]
           /\ \A i \in 1..Len(s) : i + 1 \in 1..Len(s) => f[i + 1] = f[i] \o s[i + 1]
<1>1. Len(s) \in Nat
  BY LenProperties
<1>2. \A i \in 1..Len(s) : s[i] \in Seq(S)
  BY ElementOfSeq
<1>3. \A i \in 1..Len(s) : f[i] = IF i = 1 THEN s[i] ELSE f[i - 1] \o s[i]
  BY DEF Joined
<1>4. \A i \in 1..Len(s) : i + 1 # 1 /\ (i + 1) - 1 = i
  BY <1>1
<1>5. \A i \in 1..Len(s) : i + 1 \in 1..Len(s) => f[i + 1] = f[i] \o s[i + 1]
  BY <1>3, <1>4
<1>6. 1 \in 1..Len(s) => f[1] = s[1]
  BY <1>3
<1> QED BY <1>1, <1>2, <1>5, <1>6

\* What is joined has the elements of the parts.
LEMMA JoinedTyped ==
    ASSUME NEW S, NEW s \in Seq(Seq(S)), NEW f, Joined(s, f)
    PROVE  \A i \in 1..Len(s) : f[i] \in Seq(S)
<1> DEFINE T == {i \in 1..Len(s) : f[i] \in Seq(S)}
<1>1. \A i \in 1..Len(s) : s[i] \in Seq(S)
  BY JoinedStep
<1>2. 1 \in 1..Len(s) => 1 \in T
  BY JoinedStep
<1>3. ASSUME NEW i \in 1..Len(s), i \in T, i + 1 \in 1..Len(s) PROVE i + 1 \in T
  <2>1. f[i + 1] = f[i] \o s[i + 1]
    BY <1>3, JoinedStep
  <2>2. f[i] \in Seq(S) /\ s[i + 1] \in Seq(S)
    BY <1>1, <1>3
  <2>3. f[i + 1] \in Seq(S)
    BY <2>1, <2>2, ConcatProperties
  <2> QED BY <1>3, <2>3
<1>4. Len(s) \in Nat
  BY JoinedStep
<1> HIDE DEF T
<1>5. 1..Len(s) \subseteq T
  BY <1>2, <1>3, <1>4, InductionTo
<1> QED BY <1>5 DEF T

\* Whatever g has joined, f has joined behind the first element of s.
After(s, t, f, g) == \A i \in 1..Len(t) : f[i + 1] = s[1] \o g[i]
\* t is s without its first element.
Shifted(s, t) == Len(s) = Len(t) + 1 /\ \A i \in 1..Len(t) : t[i] = s[i + 1]

\* Joining s is joining t behind the first element of s.
LEMMA JoinedShift ==
    ASSUME NEW S, NEW s \in Seq(Seq(S)), NEW t \in Seq(Seq(S)), NEW f, NEW g,
           Joined(s, f), Joined(t, g), Shifted(s, t)
    PROVE  After(s, t, f, g)
<1> DEFINE T == {i \in 1..Len(t) : f[i + 1] = s[1] \o g[i]}
<1>0. /\ Len(s) = Len(t) + 1 /\ Len(t) \in Nat
      /\ \A i \in 1..Len(t) : t[i] = s[i + 1]
  BY LenProperties DEF Shifted
<1>1. \A i \in 1..Len(t) : g[i] \in Seq(S) /\ t[i] \in Seq(S)
  BY JoinedStep, JoinedTyped
<1>2. s[1] \in Seq(S) /\ f[1] = s[1]
  <2>1. 1 \in 1..Len(s)
    BY <1>0
  <2>2. s[1] \in Seq(S)
    BY <2>1, ElementOfSeq
  <2>3. 1 \in 1..Len(s) => f[1] = s[1]
    BY DEF Joined
  <2> QED BY <2>1, <2>2, <2>3
<1>3. \A i \in 1..Len(t) : f[i + 1] = f[i] \o t[i]
  <2>1. \A i \in 1..Len(t) : i \in 1..Len(s) /\ i + 1 \in 1..Len(s)
    BY <1>0
  <2>2. \A i \in 1..Len(s) : i + 1 \in 1..Len(s) => f[i + 1] = f[i] \o s[i + 1]
    BY JoinedStep
  <2> QED BY <1>0, <2>1, <2>2
<1>4. 1 \in 1..Len(t) => 1 \in T

  <2> SUFFICES ASSUME 1 \in 1..Len(t) PROVE f[1 + 1] = s[1] \o g[1]
    OBVIOUS
  <2>1. g[1] = t[1]
    BY DEF Joined
  <2>2. f[1 + 1] = f[1] \o t[1]
    BY <1>3
  <2> QED BY <1>2, <2>1, <2>2
<1>5. ASSUME NEW i \in 1..Len(t), i \in T, i + 1 \in 1..Len(t) PROVE i + 1 \in T
  <2>1. g[i + 1] = g[i] \o t[i + 1]
    BY <1>5, JoinedStep
  <2>2. f[(i + 1) + 1] = (s[1] \o g[i]) \o t[i + 1]
    BY <1>3, <1>5
  <2>3. g[i] \in Seq(S) /\ t[i + 1] \in Seq(S)
    BY <1>1, <1>5
  <2>4. (s[1] \o g[i]) \o t[i + 1] = s[1] \o (g[i] \o t[i + 1])
    <3>1. PICK x, y, z : x = s[1] /\ y = g[i] /\ z = t[i + 1]
      OBVIOUS
    <3>2. x \in Seq(S) /\ y \in Seq(S) /\ z \in Seq(S)
      BY <1>2, <2>3, <3>1
    <3>3. (x \o y) \o z = x \o (y \o z)
      BY <3>2
    <3> QED BY <3>1, <3>3
  <2> QED BY <1>5, <2>1, <2>2, <2>4
<1> HIDE DEF T
<1>6. 1..Len(t) \subseteq T
  BY <1>0, <1>4, <1>5, InductionTo
<1> QED BY <1>6 DEF T, After

\* What FlattenSeq yields, the first element and then the rest.
LEMMA FlattenCons ==
    ASSUME NEW S, NEW s \in Seq(Seq(S)), NEW t \in Seq(Seq(S)), Shifted(s, t)
    PROVE  FlattenSeq(s) = s[1] \o FlattenSeq(t)
<1>1. /\ Len(s) = Len(t) + 1 /\ Len(t) \in Nat /\ s # <<>>
  BY LenProperties DEF Shifted
<1>2. PICK f : Joined(s, f) /\ FlattenSeq(s) = f[Len(s)]
  BY <1>1, Flattened
<1>3. CASE t = <<>>
  <2>1. Len(s) = 1 /\ 1 \in 1..Len(s)
    BY <1>1, <1>3, EmptySeq
  <2>2. FlattenSeq(s) = s[1] /\ s[1] \in Seq(S)
    BY <1>2, <2>1, JoinedStep
  <2>3. FlattenSeq(t) = <<>>
    BY <1>3 DEF FlattenSeq
  <2> QED BY <2>2, <2>3, ConcatEmptySeq
<1>4. CASE t # <<>>
  <2>1. PICK g : Joined(t, g) /\ FlattenSeq(t) = g[Len(t)]
    BY <1>4, Flattened
  <2>2. Len(t) \in 1..Len(t)
    BY <1>1, <1>4, EmptySeq
  <2>3. After(s, t, f, g)
    <3>1. Joined(s, f) /\ Joined(t, g)
      BY <1>2, <2>1
    <3> QED BY <3>1, JoinedShift
  <2> QED BY <1>1, <1>2, <2>1, <2>2, <2>3 DEF After
<1> QED BY <1>3, <1>4

\* Tail drops the first element.
LEMMA TailShifts ==
    ASSUME NEW S, NEW s \in Seq(S), s # <<>>
    PROVE  /\ Tail(s) \in Seq(S) /\ Len(s) \in Nat \ {0} /\ s[1] \in S
           /\ Shifted(s, Tail(s))
<1>1. PICK t : t = Tail(s)
  OBVIOUS
<1>2. /\ t \in Seq(S) /\ Len(s) \in Nat \ {0} /\ Len(t) = Len(s) - 1
      /\ \A i \in 1..Len(t) : t[i] = s[i + 1]
  BY <1>1, HeadTailProperties, EmptySeq
<1>3. s[1] \in S
  BY <1>2, ElementOfSeq
<1>4. Len(s) = Len(t) + 1
  BY <1>2
<1> QED BY <1>1, <1>2, <1>3, <1>4 DEF Shifted

\* Concatenating sequences over S gives a sequence over S.
LEMMA FlattenTyped ==
    ASSUME NEW S, NEW s \in Seq(Seq(S))
    PROVE  FlattenSeq(s) \in Seq(S)
<1>1. CASE s = <<>>
  BY <1>1, EmptySeq DEF FlattenSeq
<1>2. CASE s # <<>>
  <2>1. Len(s) \in 1..Len(s)
    BY <1>2, EmptySeq
  <2> QED BY <1>2, <2>1, Flattened, JoinedTyped
<1> QED BY <1>1, <1>2
-------------------------------------------------------------------------------
(* The codec: escapes, decoding from a position on, and the round trip.    *)

\* A half byte becomes a byte FromHex takes without stopping, and comes back.
LEMMA HexRoundTrip ==
    ASSUME NEW x \in 0..15
    PROVE  ToHex(x) \in HexByte /\ FromHex(ToHex(x)) = x
<1>1. CASE x > 9
  BY <1>1 DEF ToHex, FromHex, HexByte, Digits, Upper, Lower
<1>2. CASE x <= 9
  BY <1>2 DEF ToHex, FromHex, HexByte, Digits, Upper, Lower
<1> QED BY <1>1, <1>2

\* The two halves that UrlEncode shifts and masks out of a byte.
LEMMA Halves ==
    ASSUME NEW b \in Byte
    PROVE  /\ b \div 16 \in 0..15 /\ b % 16 \in 0..15
           /\ (b \div 16) * 16 + (b % 16) = b
  BY DEF Byte

\* UrlEncode writes no '&', '=', '?' or blank, which mean something in a
\* query, and '%' and '+' only where UrlDecode reads them as it means them.
LEMMA EncodedByte ==
    ASSUME NEW b \in Byte
    PROVE  \/ EncodeByte(b) = <<b>> /\ b \notin {Percent, Amp, Plus, Eq, Question, Space}
           \/ EncodeByte(b) = <<Plus>> /\ b = Space
           \/ \E high, low \in HexByte :
                 EncodeByte(b) = <<Percent, high, low>> /\ Join(FromHex(high), FromHex(low)) = b
<1>1. CASE b \in Unreserved
  BY <1>1 DEF EncodeByte, Unreserved, Digits, Upper, Lower, Percent, Amp, Plus, Eq, Question, Space
<1>2. CASE b \notin Unreserved /\ b = Space
  BY <1>2 DEF EncodeByte
<1>3. CASE b \notin Unreserved /\ b # Space
  <2> DEFINE high == ToHex(b \div 16)
             low  == ToHex(b % 16)
  <2>1. high \in HexByte /\ low \in HexByte
    BY Halves, HexRoundTrip
  <2>2. FromHex(high) = b \div 16 /\ FromHex(low) = b % 16
    BY Halves, HexRoundTrip
  <2>3. Join(FromHex(high), FromHex(low)) = b
    BY <2>2, Halves DEF Join, Byte
  <2> QED BY <1>3, <2>1, <2>3 DEF EncodeByte
<1> QED BY <1>1, <1>2, <1>3

\* An escape with any letters decodes to a byte.
LEMMA EscapeIsByte ==
    ASSUME NEW high \in HexByte, NEW low \in HexByte
    PROVE  Join(FromHex(high), FromHex(low)) \in Byte
<1>1. FromHex(high) \in Int /\ FromHex(low) \in Int
  BY DEF FromHex, HexByte, Digits, Upper, Lower
<1> QED BY <1>1 DEF Join, Byte

\* f[i] is the result of decoding str from i on: the function within UrlDecode.
Decoding(str, f) == f = [i \in 1..Len(str) + 1 |-> DecodeFrom(str, f, i)]

\* t is what remains of str after k bytes.
Remains(str, t, k) == Len(str) = k + Len(t) /\ \A i \in 1..Len(t) : str[k + i] = t[i]

\* A pass through the loop of UrlDecode looks only at what is ahead.
LEMMA DecodesAhead ==
    ASSUME NEW str \in Seq(Byte), NEW t \in Seq(Byte), NEW k \in Nat, Remains(str, t, k),
           NEW f, NEW g, NEW i \in 1..Len(t) + 1,
           \A j \in 1..Len(t) + 1 : j > i => f[k + j] = g[j]
    PROVE  DecodeFrom(str, f, k + i) = DecodeFrom(t, g, i)
<1>1. Len(str) = k + Len(t) /\ Len(t) \in Nat /\ k + i \in Nat
  BY DEF Remains
<1>2. CASE i = Len(t) + 1
  <2>1. k + i > Len(str) /\ i > Len(t)
    BY <1>1, <1>2
  <2> QED BY <2>1 DEF DecodeFrom
<1>3. CASE i \in 1..Len(t)
  <2>1. k + i <= Len(str) /\ str[k + i] = t[i] /\ ~(k + i > Len(str)) /\ ~(i > Len(t))
    BY <1>1, <1>3 DEF Remains
  <2>2. f[(k + i) + 1] = g[i + 1]
    <3>1. PICK j : j = i + 1
      OBVIOUS
    <3>2. j \in 1..Len(t) + 1 /\ j > i /\ (k + i) + 1 = k + j
      BY <1>1, <1>3, <3>1
    <3>3. f[k + j] = g[j]
      BY <3>2
    <3> QED BY <3>1, <3>2, <3>3
  <2>3. (k + i) + 2 <= Len(str) <=> i + 2 <= Len(t)
    BY <1>1
  <2>4. ASSUME i + 2 <= Len(t)
        PROVE  str[(k + i) + 1] = t[i + 1] /\ str[(k + i) + 2] = t[i + 2] /\ f[(k + i) + 3] = g[i + 3]
    <3>1. PICK j1, j2, j3 : j1 = i + 1 /\ j2 = i + 2 /\ j3 = i + 3
      OBVIOUS
    <3>2. /\ j1 \in 1..Len(t) /\ (k + i) + 1 = k + j1
          /\ j2 \in 1..Len(t) /\ (k + i) + 2 = k + j2
          /\ j3 \in 1..Len(t) + 1 /\ j3 > i /\ (k + i) + 3 = k + j3
      BY <1>1, <1>3, <2>4, <3>1
    <3>3. f[k + j3] = g[j3]
      BY <3>2
    <3>4. str[k + j1] = t[j1] /\ str[k + j2] = t[j2]
      BY <3>2 DEF Remains
    <3> QED BY <3>1, <3>2, <3>3, <3>4
  <2> QED BY <2>1, <2>2, <2>3, <2>4 DEF DecodeFrom
<1> QED BY <1>1, <1>2, <1>3

\* There is such a function, built from the end of the string.
LEMMA DecodingExists ==
    ASSUME NEW str \in Seq(Byte)
    PROVE  \E f : Decoding(str, f)
<1> DEFINE N == Len(str) + 1
           Upon(i, f) == f = [j \in i..N |-> DecodeFrom(str, f, j)]
           T == {i \in 1..N : \E f : Upon(i, f)}
<1>1. Len(str) \in Nat /\ N \in Nat /\ 1 \in 1..N
  BY LenProperties
<1>2. Remains(str, str, 0)
  BY <1>1 DEF Remains
<1>3. ASSUME NEW i \in 1..N, NEW f, i + 1 \in 1..N => Upon(i + 1, f)
      PROVE  \E g : Upon(i, g)
  <2> DEFINE g == [j \in i..N |-> IF j = i THEN DecodeFrom(str, f, j) ELSE f[j]]
  <2>1. \A j \in 1..N : j > i => g[j] = f[j]
    BY <1>1
  <2>2. ASSUME NEW j \in i..N PROVE g[j] = DecodeFrom(str, g, j)
    <3>1. j \in 1..Len(str) + 1 /\ \A l \in 1..Len(str) + 1 : l > j => f[0 + l] = g[l]
      <4>1. \A l \in 1..N : l > j => f[l] = g[l] /\ 0 + l = l
        BY <1>1, <2>1
      <4> QED BY <1>1, <4>1
    <3> HIDE DEF g
    <3>2. DecodeFrom(str, f, 0 + j) = DecodeFrom(str, g, j)
      BY <1>2, <3>1, DecodesAhead
    <3>3. 0 + j = j
      BY <1>1
    <3>4. g[j] = DecodeFrom(str, f, j)
      <4>1. CASE j = i
        BY <4>1 DEF g
      <4>2. CASE j # i
        <5>1. j \in (i + 1)..N /\ i + 1 \in 1..N
          BY <1>1, <4>2
        <5>2. f[j] = DecodeFrom(str, f, j)
          BY <1>3, <5>1
        <5> QED BY <4>2, <5>2 DEF g
      <4> QED BY <4>1, <4>2
    <3> QED BY <3>2, <3>3, <3>4
  <2>3. Upon(i, g)
    BY <2>2
  <2> HIDE DEF g, Upon
  <2> QED BY <2>3
<1>4. ASSUME NEW i \in 1..N, \A j \in 1..N : j > i => j \in T PROVE i \in T
  <2>1. \E f : i + 1 \in 1..N => Upon(i + 1, f)
    <3>1. i + 1 > i
      BY <1>1
    <3> HIDE DEF Upon
    <3> QED BY <1>4, <3>1
  <2> QED BY <1>3, <2>1
<1> HIDE DEF T
<1>5. 1..N \subseteq T
  BY <1>1, <1>4, InductionDown
<1>6. 1 \in T
  BY <1>1, <1>5
<1> QED BY <1>6 DEF T, Decoding

\* UrlDecode is its value at the first position.
LEMMA DecodeOf ==
    ASSUME NEW str \in Seq(Byte)
    PROVE  \E f : Decoding(str, f) /\ UrlDecode(str) = f[1]
BY DecodingExists DEF Decoding, UrlDecode

\* Its value at each position is one pass of the loop.
LEMMA DecodedAt ==
    ASSUME NEW str \in Seq(Byte), NEW f, Decoding(str, f)
    PROVE  /\ Len(str) \in Nat
           /\ \A i \in 1..Len(str) + 1 : f[i] = DecodeFrom(str, f, i)
BY LenProperties DEF Decoding

\* The results of decoding: none, or one string.
Outcomes == {{}} \cup {{x} : x \in Seq(Byte)}

\* A byte before the result is again a result.
LEMMA PrependOutcome ==
    ASSUME NEW b \in Byte, NEW r \in Outcomes
    PROVE  Prepend(b, r) \in Outcomes
<1>1. CASE r = {}
  BY <1>1 DEF Prepend, Outcomes
<1>2. CASE r # {}
  <2>1. PICK x \in Seq(Byte) : r = {x}
    BY <1>2 DEF Outcomes
  <2>2. Prepend(b, r) = {<<b>> \o x}
    BY <2>1 DEF Prepend
  <2>3. <<b>> \o x \in Seq(Byte)
    OBVIOUS
  <2> QED BY <2>2, <2>3 DEF Outcomes
<1> QED BY <1>1, <1>2

\* One pass of the loop has at most one result, a string of bytes.
LEMMA DecodeFromOutcome ==
    ASSUME NEW str \in Seq(Byte), NEW f, NEW i \in 1..Len(str) + 1,
           \A j \in 1..Len(str) + 1 : j > i => f[j] \in Outcomes
    PROVE  DecodeFrom(str, f, i) \in Outcomes
<1>1. Len(str) \in Nat
  BY LenProperties
<1>2. CASE i > Len(str)
  <2>1. DecodeFrom(str, f, i) = {<<>>} /\ <<>> \in Seq(Byte)
    BY <1>2 DEF DecodeFrom
  <2> QED BY <2>1 DEF Outcomes
<1>3. CASE ~(i > Len(str))
  <2>1. i \in 1..Len(str) /\ str[i] \in Byte /\ f[i + 1] \in Outcomes
    <3>1. i \in 1..Len(str) /\ i + 1 \in 1..Len(str) + 1 /\ i + 1 > i
      BY <1>1, <1>3
    <3>2. str[i] \in Byte
      BY <3>1, ElementOfSeq
    <3>3. f[i + 1] \in Outcomes
      BY <3>1
    <3> QED BY <3>1, <3>2, <3>3
  <2>2. CASE str[i] = Plus
    <3>1. DecodeFrom(str, f, i) = Prepend(Space, f[i + 1])
      BY <1>3, <2>2 DEF DecodeFrom
    <3>2. Space \in Byte
      BY DEF Space, Byte
    <3> QED BY <2>1, <3>1, <3>2, PrependOutcome
  <2>3. CASE str[i] # Plus /\ str[i] # Percent
    <3>1. DecodeFrom(str, f, i) = Prepend(str[i], f[i + 1])
      BY <1>3, <2>3 DEF DecodeFrom
    <3> QED BY <2>1, <3>1, PrependOutcome
  <2> DEFINE Escaped == i + 2 <= Len(str) /\ str[i + 1] \in HexByte /\ str[i + 2] \in HexByte
  <2>4. CASE str[i] # Plus /\ str[i] = Percent /\ ~Escaped
    <3>1. DecodeFrom(str, f, i) = {}
      BY <1>3, <2>4 DEF DecodeFrom
    <3> QED BY <3>1 DEF Outcomes
  <2>5. CASE str[i] # Plus /\ str[i] = Percent /\ Escaped
    <3>1. PICK b : b = Join(FromHex(str[i + 1]), FromHex(str[i + 2]))
      OBVIOUS
    <3>2. b \in Byte
      BY <2>5, <3>1, EscapeIsByte
    <3>3. DecodeFrom(str, f, i) = Prepend(b, f[i + 3])
      BY <1>3, <2>5, <3>1 DEF DecodeFrom
    <3>4. i + 3 \in 1..Len(str) + 1 /\ i + 3 > i
      BY <1>1, <2>5
    <3>5. f[i + 3] \in Outcomes
      BY <3>4
    <3> QED BY <3>2, <3>3, <3>5, PrependOutcome
  <2> QED BY <2>2, <2>3, <2>4, <2>5
<1> QED BY <1>2, <1>3

\* So has decoding, whatever letters follow a percent sign.
LEMMA DecodeOutcome ==
    ASSUME NEW str \in Seq(Byte)
    PROVE  UrlDecode(str) \in Outcomes
<1>1. PICK f : Decoding(str, f) /\ UrlDecode(str) = f[1]
  BY DecodeOf
<1> DEFINE T == {i \in 1..Len(str) + 1 : f[i] \in Outcomes}
<1>2. Len(str) + 1 \in Nat /\ 1 \in 1..Len(str) + 1
  BY LenProperties
<1>3. ASSUME NEW i \in 1..Len(str) + 1, \A j \in 1..Len(str) + 1 : j > i => j \in T PROVE i \in T
  <2>1. DecodeFrom(str, f, i) \in Outcomes
    BY <1>3, DecodeFromOutcome
  <2>2. f[i] = DecodeFrom(str, f, i)
    BY <1>1, DecodedAt
  <2> QED BY <2>1, <2>2
<1> HIDE DEF T
<1>4. 1..Len(str) + 1 \subseteq T
  BY <1>2, <1>3, InductionDown
<1> QED BY <1>1, <1>2, <1>4 DEF T

\* From k on, decoding gives what decoding t gives.
Agree(t, f, g, k) == \A i \in 1..Len(t) + 1 : f[k + i] = g[i]

\* Decoding a string does not depend on what was before it.
LEMMA DecodeShift ==
    ASSUME NEW str \in Seq(Byte), NEW t \in Seq(Byte), NEW k \in Nat, Remains(str, t, k),
           NEW f, NEW g, Decoding(str, f), Decoding(t, g)
    PROVE  Agree(t, f, g, k)
<1> DEFINE T == {i \in 1..Len(t) + 1 : f[k + i] = g[i]}
<1>1. Len(t) \in Nat /\ Len(t) + 1 \in Nat /\ Len(str) = k + Len(t)
  BY LenProperties DEF Remains
<1>2. ASSUME NEW i \in 1..Len(t) + 1, \A j \in 1..Len(t) + 1 : j > i => j \in T PROVE i \in T
  <2>0. \A j \in 1..Len(t) + 1 : j > i => f[k + j] = g[j]
    BY <1>2
  <2>1. DecodeFrom(str, f, k + i) = DecodeFrom(t, g, i)
    <3> HIDE DEF T
    <3> QED BY <2>0, DecodesAhead
  <2>2. k + i \in 1..Len(str) + 1
    BY <1>1
  <2>3. f[k + i] = DecodeFrom(str, f, k + i)
    BY <2>2, DecodedAt
  <2>4. g[i] = DecodeFrom(t, g, i)
    BY DecodedAt
  <2> QED BY <2>1, <2>3, <2>4
<1> HIDE DEF T
<1>3. 1..Len(t) + 1 \subseteq T
  BY <1>1, <1>2, InductionDown
<1> QED BY <1>3 DEF T, Agree

\* At its first byte the loop takes k bytes of str for the one byte b.
Reads(str, k, b) == \A f : DecodeFrom(str, f, 1) = Prepend(b, f[k + 1])

\* Then decoding gives b, and what decoding the rest gives.
LEMMA DecodeCons ==
    ASSUME NEW e \in Seq(Byte), NEW t \in Seq(Byte), NEW b, Reads(e \o t, Len(e), b)
    PROVE  UrlDecode(e \o t) = Prepend(b, UrlDecode(t))
<1>1. PICK str, k : str = e \o t /\ k = Len(e)
  OBVIOUS
<1>2. /\ str \in Seq(Byte) /\ Len(str) = k + Len(t) /\ k \in Nat /\ Len(t) \in Nat
      /\ \A i \in 1..Len(t) : str[k + i] = t[i]
  BY <1>1
<1>3. PICK f : Decoding(str, f) /\ UrlDecode(str) = f[1]
  BY <1>2, DecodeOf
<1>4. PICK g : Decoding(t, g) /\ UrlDecode(t) = g[1]
  BY DecodeOf
<1>5. Remains(str, t, k)
  BY <1>2 DEF Remains
<1>6. Agree(t, f, g, k)
  BY <1>2, <1>3, <1>4, <1>5, DecodeShift
<1>7. f[k + 1] = g[1]
  BY <1>2, <1>6 DEF Agree
<1>8. f[1] = DecodeFrom(str, f, 1)
  BY <1>2, <1>3, DecodedAt
<1>9. DecodeFrom(str, f, 1) = Prepend(b, f[k + 1])
  BY <1>1 DEF Reads
<1> QED BY <1>1, <1>3, <1>4, <1>7, <1>8, <1>9

\* An encoded byte decodes to itself, whatever follows.
LEMMA DecodeEncoded ==
    ASSUME NEW b \in Byte, NEW t \in Seq(Byte)
    PROVE  UrlDecode(EncodeByte(b) \o t) = Prepend(b, UrlDecode(t))
<1>0. Len(t) \in Nat /\ Plus \in Byte /\ Percent \in Byte /\ Percent # Plus /\ HexByte \subseteq Byte
  BY LenProperties DEF Plus, Percent, Byte, HexByte, Digits, Upper, Lower
<1>1. PICK e : e = EncodeByte(b)
  OBVIOUS
<1>2. e \in Seq(Byte) /\ Reads(e \o t, Len(e), b)
  <2>1. CASE e = <<b>> /\ b \notin {Percent, Amp, Plus, Eq, Question, Space}
    <3>1. PICK str : str = e \o t
      OBVIOUS
    <3>2. e \in Seq(Byte) /\ Len(e) = 1 /\ Len(str) = 1 + Len(t) /\ str[1] = b
      BY <2>1, <3>1
    <3>3. Reads(str, 1, b)
      BY <1>0, <2>1, <3>2 DEF Reads, DecodeFrom
    <3> QED BY <3>1, <3>2, <3>3
  <2>2. CASE e = <<Plus>> /\ b = Space
    <3>1. PICK str : str = e \o t
      OBVIOUS
    <3>2. e \in Seq(Byte) /\ Len(e) = 1 /\ Len(str) = 1 + Len(t) /\ str[1] = Plus
      BY <1>0, <2>2, <3>1
    <3>3. Reads(str, 1, b)
      BY <1>0, <2>2, <3>2 DEF Reads, DecodeFrom
    <3> QED BY <3>1, <3>2, <3>3
  <2>3. ASSUME NEW high \in HexByte, NEW low \in HexByte,
               e = <<Percent, high, low>>, Join(FromHex(high), FromHex(low)) = b
        PROVE  e \in Seq(Byte) /\ Reads(e \o t, Len(e), b)
    <3>1. PICK str : str = e \o t
      OBVIOUS
    <3>2. e \in Seq(Byte) /\ Len(e) = 3 /\ e[1] = Percent /\ e[2] = high /\ e[3] = low
      BY <1>0, <2>3
    <3>a. e \in Seq(Byte)
      BY <3>2
    <3>b. /\ Len(e \o t) = Len(e) + Len(t)
          /\ \A i \in 1..Len(e) + Len(t) : (e \o t)[i] = IF i <= Len(e) THEN e[i] ELSE t[i - Len(e)]
      BY <3>a, ConcatProperties
    <3>3. Len(str) = 3 + Len(t)
      BY <3>1, <3>2, <3>b
    <3>4. \A i \in 1..3 : str[i] = e[i]
      BY <1>0, <3>1, <3>2, <3>b
    <3>5. str[1] = Percent /\ str[1 + 1] = high /\ str[1 + 2] = low
      BY <3>2, <3>4
    <3>6. 1 + 2 <= Len(str) /\ ~(1 > Len(str)) /\ 1 + 3 = 3 + 1
      BY <1>0, <3>3
    <3>7. Reads(str, 3, b)
      BY <1>0, <2>3, <3>5, <3>6 DEF Reads, DecodeFrom
    <3> QED BY <3>1, <3>2, <3>7
  <2> QED BY <1>1, <2>1, <2>2, <2>3, EncodedByte
<1> QED BY <1>1, <1>2, DecodeCons

\* Bytes that mean nothing to the loop of PreParseGetParam.
Opaque == Byte \ {Amp, Eq}

\* UrlEncode writes only such bytes for a byte.
LEMMA EncodedOpaque ==
    ASSUME NEW b \in Byte
    PROVE  EncodeByte(b) \in Seq(Opaque)
<1>0. Plus \in Opaque /\ Percent \in Opaque /\ HexByte \subseteq Opaque
  BY DEF Plus, Percent, Opaque, Byte, Amp, Eq, HexByte, Digits, Upper, Lower
<1>1. CASE EncodeByte(b) = <<b>> /\ b \notin {Percent, Amp, Plus, Eq, Question, Space}
  BY <1>1 DEF Opaque
<1>2. CASE EncodeByte(b) = <<Plus>> /\ b = Space
  BY <1>0, <1>2
<1>3. ASSUME NEW high \in HexByte, NEW low \in HexByte, EncodeByte(b) = <<Percent, high, low>>
      PROVE  EncodeByte(b) \in Seq(Opaque)
  BY <1>0, <1>3
<1> QED BY <1>1, <1>2, <1>3, EncodedByte

\* A string, byte by byte encoded.
Escapes(s) == [i \in DOMAIN s |-> EncodeByte(s[i])]

\* Its elements are the encoded bytes.
LEMMA EscapesTyped ==
    ASSUME NEW s \in Seq(Byte)
    PROVE  /\ Escapes(s) \in Seq(Seq(Opaque)) /\ Len(Escapes(s)) = Len(s)
           /\ \A i \in 1..Len(s) : Escapes(s)[i] = EncodeByte(s[i])
<1>1. Len(s) \in Nat /\ DOMAIN s = 1..Len(s) /\ \A i \in 1..Len(s) : s[i] \in Byte
  BY LenProperties, ElementOfSeq
<1>2. \A i \in 1..Len(s) : EncodeByte(s[i]) \in Seq(Opaque)
  BY <1>1, EncodedOpaque
<1>3. Escapes(s) \in [1..Len(s) -> Seq(Opaque)]
  BY <1>1, <1>2 DEF Escapes
<1>4. Escapes(s) \in Seq(Seq(Opaque)) /\ Len(Escapes(s)) = Len(s)
  BY <1>1, <1>3
<1> QED BY <1>1, <1>4 DEF Escapes

\* Opaque bytes are bytes.
LEMMA OpaqueBytes == ASSUME NEW s \in Seq(Opaque) PROVE s \in Seq(Byte)
BY DEF Opaque

\* UrlEncode writes no '&' and no '='.
LEMMA EncodeTyped ==
    ASSUME NEW s \in Seq(Byte)
    PROVE  UrlEncode(s) \in Seq(Opaque)
<1>1. UrlEncode(s) = FlattenSeq(Escapes(s))
  BY DEF UrlEncode, Escapes
<1> QED BY <1>1, EscapesTyped, FlattenTyped

\* UrlEncode encodes the first byte, then the rest.
LEMMA UrlEncodeCons ==
    ASSUME NEW s \in Seq(Byte), NEW t \in Seq(Byte), Shifted(s, t)
    PROVE  UrlEncode(s) = EncodeByte(s[1]) \o UrlEncode(t)
<1>1. PICK es, et : es = Escapes(s) /\ et = Escapes(t)
  OBVIOUS
<1>2. /\ es \in Seq(Seq(Opaque)) /\ Len(es) = Len(s)
      /\ \A i \in 1..Len(s) : es[i] = EncodeByte(s[i])
  BY <1>1, EscapesTyped
<1>3. /\ et \in Seq(Seq(Opaque)) /\ Len(et) = Len(t)
      /\ \A i \in 1..Len(t) : et[i] = EncodeByte(t[i])
  BY <1>1, EscapesTyped
<1>4. /\ Len(s) = Len(t) + 1 /\ 1 \in 1..Len(s)
      /\ \A i \in 1..Len(t) : i + 1 \in 1..Len(s) /\ t[i] = s[i + 1]
  BY LenProperties DEF Shifted
<1>5. Shifted(es, et)
  BY <1>2, <1>3, <1>4 DEF Shifted
<1>6. FlattenSeq(es) = es[1] \o FlattenSeq(et)
  BY <1>2, <1>3, <1>5, FlattenCons
<1> QED BY <1>1, <1>2, <1>4, <1>6 DEF UrlEncode, Escapes

\* What UrlEncode wrote, UrlDecode reads back, whatever the bytes.
THEOREM RoundTrip ==
    ASSUME NEW s \in Seq(Byte)
    PROVE  UrlDecode(UrlEncode(s)) = {s}
<1> DEFINE T == {n \in Nat : \A r \in Seq(Byte) : Len(r) = n => UrlDecode(UrlEncode(r)) = {r}}
<1>1. 0 \in T
  <2> SUFFICES ASSUME NEW r \in Seq(Byte), Len(r) = 0 PROVE UrlDecode(UrlEncode(r)) = {r}
    OBVIOUS
  <2>1. r = <<>>
    BY EmptySeq
  <2>2. UrlEncode(r) = <<>>
    BY <2>1 DEF UrlEncode, FlattenSeq
  <2>3. PICK e : e = <<>> /\ e \in Seq(Byte) /\ Len(e) = 0
    BY <2>1
  <2>4. PICK f : Decoding(e, f) /\ UrlDecode(e) = f[1]
    BY <2>3, DecodeOf
  <2>5. f[1] = DecodeFrom(e, f, 1)
    <3>1. \A i \in 1..Len(e) + 1 : f[i] = DecodeFrom(e, f, i)
      BY <2>3, <2>4, DecodedAt
    <3>2. 1 \in 1..Len(e) + 1
      BY <2>3
    <3> QED BY <3>1, <3>2
  <2>6. DecodeFrom(e, f, 1) = {<<>>}
    BY <2>3 DEF DecodeFrom
  <2> QED BY <2>1, <2>2, <2>3, <2>4, <2>5, <2>6
<1>2. ASSUME NEW n \in Nat, n \in T PROVE n + 1 \in T
  <2> SUFFICES ASSUME NEW r \in Seq(Byte), Len(r) = n + 1 PROVE UrlDecode(UrlEncode(r)) = {r}
    OBVIOUS
  <2>1. PICK b, t : b = r[1] /\ t = Tail(r)
    OBVIOUS
  <2>2. r # <<>> /\ b \in Byte /\ t \in Seq(Byte) /\ Len(t) = n /\ r = <<b>> \o t
    <3>1. r # <<>> /\ 1 \in 1..Len(r)
      OBVIOUS
    <3>2. b \in Byte /\ t \in Seq(Byte) /\ Len(t) = n
      BY <2>1, <3>1, TailShifts DEF Shifted
    <3>3. r = <<r[1]>> \o Tail(r)
      BY <3>1
    <3> QED BY <2>1, <3>1, <3>2, <3>3
  <2>3. UrlDecode(UrlEncode(t)) = {t}
    BY <1>2, <2>2
  <2>4. UrlEncode(r) = EncodeByte(b) \o UrlEncode(t)
    BY <2>1, <2>2, TailShifts, UrlEncodeCons
  <2>5. PICK u : u = UrlEncode(t)
    OBVIOUS
  <2>6. u \in Seq(Byte)
    BY <2>2, <2>5, EncodeTyped, OpaqueBytes
  <2>7. UrlDecode(EncodeByte(b) \o u) = Prepend(b, UrlDecode(u))
    BY <2>2, <2>6, DecodeEncoded
  <2>8. Prepend(b, {t}) = {<<b>> \o t}
    BY DEF Prepend
  <2> QED BY <2>2, <2>3, <2>4, <2>5, <2>7, <2>8
<1> HIDE DEF T
<1>3. \A n \in Nat : n \in T
  BY <1>1, <1>2, Induction
<1>4. Len(s) \in T
  BY <1>3, LenProperties
<1> QED BY <1>4 DEF T
-------------------------------------------------------------------------------
(* find and substr.                                                        *)

\* find returns the first position of a byte, or 0 if there is none.
LEMMA FindByte ==
    ASSUME NEW str \in Seq(Byte), NEW b
    PROVE  /\ Find(str, b) \in 0..Len(str)
           /\ Find(str, b) = 0 => \A i \in 1..Len(str) : str[i] # b
           /\ Find(str, b) # 0 => str[Find(str, b)] = b /\ \A i \in 1..Find(str, b) - 1 : str[i] # b
<1> DEFINE I == {i \in 1..Len(str) : str[i] = b}
<1>1. Find(str, b) = IF I # {} THEN CHOOSE x \in I : \A y \in I : x <= y ELSE 0
  BY DEF Find, SelectInSeq, Min
<1>2. Len(str) \in Nat /\ I \subseteq Nat
  OBVIOUS
<1> HIDE DEF I
<1>3. CASE I = {}
  BY <1>1, <1>2, <1>3 DEF I
<1>4. CASE I # {}
  <2>1. \E x \in I : \A y \in I : x <= y
    BY <1>2, <1>4, LeastElement
  <2>2. Find(str, b) \in I /\ \A y \in I : Find(str, b) <= y
    BY <1>1, <1>4, <2>1
  <2> QED BY <1>2, <2>2 DEF I
<1> QED BY <1>3, <1>4

\* Splitting at the first of a byte gives back what was joined with it.
LEMMA FindJoin ==
    ASSUME NEW b \in Byte, NEW x \in Seq(Byte), NEW y \in Seq(Byte),
           \A i \in 1..Len(x) : x[i] # b
    PROVE  LET s == x \o <<b>> \o y IN
           /\ s \in Seq(Byte)
           /\ Find(s, b) = Len(x) + 1
           /\ Prefix(s, Find(s, b)) = x
           /\ Suffix(s, Find(s, b)) = y
<1>1. PICK s : s = x \o <<b>> \o y
  OBVIOUS
<1>2. /\ s \in Seq(Byte) /\ Len(s) = Len(x) + 1 + Len(y) /\ Len(x) \in Nat /\ Len(y) \in Nat
      /\ \A i \in 1..Len(x) : s[i] = x[i]
      /\ s[Len(x) + 1] = b
  BY <1>1
<1>3. Find(s, b) = Len(x) + 1
  <2>1. /\ Find(s, b) \in 0..Len(s)
        /\ Find(s, b) = 0 => \A i \in 1..Len(s) : s[i] # b
        /\ Find(s, b) # 0 => s[Find(s, b)] = b /\ \A i \in 1..Find(s, b) - 1 : s[i] # b
    BY <1>2, FindByte
  <2>2. Len(x) + 1 \in 1..Len(s)
    BY <1>2
  <2>3. Find(s, b) # 0
    BY <1>2, <2>1, <2>2
  <2>4. ~(Find(s, b) \in 1..Len(x))
    BY <1>2, <2>1, <2>3
  <2>5. ~(Len(x) + 1 \in 1..Find(s, b) - 1)
    BY <1>2, <2>1, <2>3
  <2> QED BY <1>2, <2>1, <2>3, <2>4, <2>5
<1>4. SubSeq(s, 1, Len(x)) = x
  BY <1>1
<1>5. SubSeq(s, Len(x) + 2, Len(s)) = y
  BY <1>1
<1>6. (Len(x) + 1) - 1 = Len(x) /\ (Len(x) + 1) + 1 = Len(x) + 2
  BY <1>2
<1>7. Prefix(s, Find(s, b)) = x /\ Suffix(s, Find(s, b)) = y
  BY <1>3, <1>4, <1>5, <1>6 DEF Prefix, Suffix
<1> QED BY <1>1, <1>2, <1>3, <1>7

\* find of a byte that does not occur.
LEMMA FindNone ==
    ASSUME NEW b, NEW x \in Seq(Byte), \A i \in 1..Len(x) : x[i] # b
    PROVE  Find(x, b) = 0
BY FindByte, LenProperties

\* The two sides of a position are strings of bytes.
LEMMA CutTyped ==
    ASSUME NEW str \in Seq(Byte), NEW pos \in 1..Len(str)
    PROVE  Prefix(str, pos) \in Seq(Byte) /\ Suffix(str, pos) \in Seq(Byte)
<1>1. Len(str) \in Nat /\ pos \in Int
  BY LenProperties
<1>2. SubSeq(str, 1, pos - 1) \in Seq(Byte) /\ SubSeq(str, pos + 1, Len(str)) \in Seq(Byte)
  BY <1>1
<1> QED BY <1>2 DEF Prefix, Suffix

\* So are those of the position of a byte that was found.
LEMMA FoundCut ==
    ASSUME NEW str \in Seq(Byte), NEW b, Find(str, b) # 0
    PROVE  Prefix(str, Find(str, b)) \in Seq(Byte) /\ Suffix(str, Find(str, b)) \in Seq(Byte)
<1>1. Find(str, b) \in 1..Len(str)
  BY FindByte, LenProperties
<1> QED BY <1>1, CutTyped

\* substr of a substr.
LEMMA CutOfCut ==
    ASSUME NEW S, NEW s \in Seq(S), NEW a \in 1..Len(s) + 1, NEW b \in a - 1..Len(s),
           NEW i \in 1..(b - a) + 2, NEW j \in i - 1..(b - a) + 1
    PROVE  /\ SubSeq(s, a, b) \in Seq(S) /\ Len(SubSeq(s, a, b)) = (b - a) + 1
           /\ SubSeq(SubSeq(s, a, b), i, j) = SubSeq(s, a + i - 1, a + j - 1)
OBVIOUS

\* substr of the rest of a string.
LEMMA CutOfWhole ==
    ASSUME NEW S, NEW s \in Seq(S), NEW a \in 1..Len(s) + 1,
           NEW i \in 1..(Len(s) - a) + 2, NEW j \in i - 1..(Len(s) - a) + 1
    PROVE  SubSeq(SubSeq(s, a, Len(s)), i, j) = SubSeq(s, a + i - 1, a + j - 1)
<1>1. Len(s) \in a - 1..Len(s)
  BY LenProperties
<1> QED BY <1>1, CutOfCut
-------------------------------------------------------------------------------
(* Forms as a client encodes them.                                         *)

\* Opaque bytes separate nothing.
LEMMA OpaqueFree ==
    ASSUME NEW x \in Seq(Opaque)
    PROVE  \A i \in 1..Len(x) : x[i] # Amp /\ x[i] # Eq
BY ElementOfSeq DEF Opaque

\* A key and a value.
Field == Seq(Byte) \X Seq(Byte)

\* A field holds no '&' once it is written, is split where it was joined, and
\* its parts decode to its key and value.
LEMMA FieldWritten ==
    ASSUME NEW d \in Field
    PROVE  /\ EncodeField(d) \in Seq(Byte)
           /\ \A i \in 1..Len(EncodeField(d)) : EncodeField(d)[i] # Amp
           /\ Split(EncodeField(d)) # 0
           /\ UrlDecode(Prefix(EncodeField(d), Split(EncodeField(d)))) = {d[1]}
           /\ UrlDecode(Suffix(EncodeField(d), Split(EncodeField(d)))) = {d[2]}
<1>0. d[1] \in Seq(Byte) /\ d[2] \in Seq(Byte) /\ Eq \in Byte /\ Eq # Amp
  BY DEF Field, Eq, Amp, Byte
<1>1. PICK x, y, s : x = UrlEncode(d[1]) /\ y = UrlEncode(d[2]) /\ s = x \o <<Eq>> \o y
  OBVIOUS
<1>2. x \in Seq(Opaque) /\ y \in Seq(Opaque)
  BY <1>0, <1>1, EncodeTyped
<1>3. x \in Seq(Byte) /\ y \in Seq(Byte) /\ Len(x) \in Nat /\ Len(y) \in Nat
  BY <1>2, OpaqueBytes, LenProperties
<1>4. \A i \in 1..Len(x) : x[i] # Amp /\ x[i] # Eq
  BY <1>2, OpaqueFree
<1>5. \A i \in 1..Len(y) : y[i] # Amp
  BY <1>2, OpaqueFree
<1>6. /\ s \in Seq(Byte) /\ Find(s, Eq) = Len(x) + 1
      /\ Prefix(s, Find(s, Eq)) = x /\ Suffix(s, Find(s, Eq)) = y
  BY <1>0, <1>1, <1>3, <1>4, FindJoin
<1>7. \A i \in 1..Len(s) : s[i] # Amp
  <2>1. /\ Len(s) = Len(x) + 1 + Len(y) /\ s[Len(x) + 1] = Eq
        /\ \A i \in 1..Len(x) : s[i] = x[i]
        /\ \A i \in 1..Len(y) : s[Len(x) + 1 + i] = y[i]
    BY <1>1, <1>3
  <2> SUFFICES ASSUME NEW i \in 1..Len(s) PROVE s[i] # Amp
    OBVIOUS
  <2>2. i \in 1..Len(x) \/ i = Len(x) + 1 \/ (i - Len(x) - 1 \in 1..Len(y) /\ Len(x) + 1 + (i - Len(x) - 1) = i)
    BY <1>3, <2>1
  <2> QED BY <1>0, <1>4, <1>5, <2>1, <2>2
<1>8. EncodeField(d) = s
  BY <1>1 DEF EncodeField
<1>9. Split(s) = Find(s, Eq)
  BY DEF Split
<1>10. UrlDecode(x) = {d[1]} /\ UrlDecode(y) = {d[2]}
  BY <1>0, <1>1, RoundTrip
<1>11. Find(s, Eq) # 0
  BY <1>3, <1>6
<1> QED BY <1>6, <1>7, <1>8, <1>9, <1>10, <1>11

\* The fields of a form, each with an '&' before it.
Pieces(fs) == [i \in DOMAIN fs |-> <<Amp>> \o EncodeField(fs[i])]
\* All fields of fs, each with the '&' before it.
Written(fs) == FlattenSeq(Pieces(fs))

\* They are strings of bytes.
LEMMA PiecesTyped ==
    ASSUME NEW fs \in Seq(Field)
    PROVE  /\ Pieces(fs) \in Seq(Seq(Byte)) /\ Len(Pieces(fs)) = Len(fs)
           /\ \A i \in 1..Len(fs) : Pieces(fs)[i] = <<Amp>> \o EncodeField(fs[i])
<1>1. Len(fs) \in Nat /\ DOMAIN fs = 1..Len(fs) /\ \A i \in 1..Len(fs) : fs[i] \in Field
  BY LenProperties, ElementOfSeq
<1>2. ASSUME NEW i \in 1..Len(fs) PROVE <<Amp>> \o EncodeField(fs[i]) \in Seq(Byte)
  <2>1. PICK x : x = EncodeField(fs[i])
    OBVIOUS
  <2>2. x \in Seq(Byte) /\ Amp \in Byte
    BY <1>1, <2>1, FieldWritten DEF Amp, Byte
  <2>3. <<Amp>> \o x \in Seq(Byte)
    BY <2>2
  <2> QED BY <2>1, <2>3
<1>3. Pieces(fs) \in [1..Len(fs) -> Seq(Byte)]
  BY <1>1, <1>2 DEF Pieces
<1>4. Pieces(fs) \in Seq(Seq(Byte)) /\ Len(Pieces(fs)) = Len(fs)
  BY <1>1, <1>3
<1> QED BY <1>1, <1>4 DEF Pieces

\* So is their concatenation.
LEMMA WrittenTyped ==
    ASSUME NEW fs \in Seq(Field)
    PROVE  Written(fs) \in Seq(Byte)
BY PiecesTyped, FlattenTyped DEF Written

\* The first field of fs, then the rest.
LEMMA WrittenCons ==
    ASSUME NEW fs \in Seq(Field), NEW t \in Seq(Field), Shifted(fs, t)
    PROVE  Written(fs) = (<<Amp>> \o EncodeField(fs[1])) \o Written(t)
<1>1. PICK es, et : es = Pieces(fs) /\ et = Pieces(t)
  OBVIOUS
<1>2. /\ es \in Seq(Seq(Byte)) /\ Len(es) = Len(fs)
      /\ \A i \in 1..Len(fs) : es[i] = <<Amp>> \o EncodeField(fs[i])
  BY <1>1, PiecesTyped
<1>3. /\ et \in Seq(Seq(Byte)) /\ Len(et) = Len(t)
      /\ \A i \in 1..Len(t) : et[i] = <<Amp>> \o EncodeField(t[i])
  BY <1>1, PiecesTyped
<1>4. /\ Len(fs) = Len(t) + 1 /\ 1 \in 1..Len(fs)
      /\ \A i \in 1..Len(t) : i + 1 \in 1..Len(fs) /\ t[i] = fs[i + 1]
  BY LenProperties DEF Shifted
<1>5. Shifted(es, et)
  BY <1>2, <1>3, <1>4 DEF Shifted
<1>6. FlattenSeq(es) = es[1] \o FlattenSeq(et)
  BY <1>2, <1>3, <1>5, FlattenCons
<1> QED BY <1>1, <1>2, <1>4, <1>6 DEF Written

\* The first field of a form is written without an '&'.
LEMMA EncodeCons ==
    ASSUME NEW fs \in Seq(Field), NEW t \in Seq(Field), Shifted(fs, t)
    PROVE  /\ Encode(fs) = EncodeField(fs[1]) \o Written(t)
           /\ Encode(fs) \in Seq(Byte)
<1> DEFINE Joint(i) == (IF i = 1 THEN <<>> ELSE <<Amp>>) \o EncodeField(fs[i])
<1>1. PICK es, et : es = [i \in DOMAIN fs |-> Joint(i)] /\ et = Pieces(t)
  OBVIOUS
<1>2. /\ Len(fs) = Len(t) + 1 /\ Len(t) \in Nat /\ 1 \in 1..Len(fs) /\ DOMAIN fs = 1..Len(fs)
      /\ \A i \in 1..Len(t) : i + 1 \in 1..Len(fs) /\ t[i] = fs[i + 1]
  BY LenProperties DEF Shifted
<1>3. /\ et \in Seq(Seq(Byte)) /\ Len(et) = Len(t)
      /\ \A i \in 1..Len(t) : et[i] = <<Amp>> \o EncodeField(t[i])
  BY <1>1, PiecesTyped
<1>4. \A i \in 1..Len(fs) : EncodeField(fs[i]) \in Seq(Byte)
  BY ElementOfSeq, FieldWritten
<1>5. es \in Seq(Seq(Byte)) /\ Len(es) = Len(fs)
  <2>1. ASSUME NEW i \in 1..Len(fs) PROVE Joint(i) \in Seq(Byte)
    <3>1. PICK x : x = EncodeField(fs[i])
      OBVIOUS
    <3>2. x \in Seq(Byte) /\ Amp \in Byte
      BY <1>4, <3>1 DEF Amp, Byte
    <3>3. <<>> \o x \in Seq(Byte) /\ <<Amp>> \o x \in Seq(Byte)
      BY <3>2
    <3> QED BY <3>1, <3>3
  <2>2. es \in [1..Len(fs) -> Seq(Byte)]
    BY <1>1, <1>2, <2>1
  <2>3. Len(fs) \in Nat
    BY LenProperties
  <2> QED BY <2>2, <2>3
<1>6. es[1] = EncodeField(fs[1])
  <2>1. es[1] = <<>> \o EncodeField(fs[1])
    BY <1>1, <1>2
  <2> QED BY <1>2, <1>4, <2>1, ConcatEmptySeq
<1>7. Shifted(es, et)
  <2>1. \A i \in 1..Len(t) : es[i + 1] = <<Amp>> \o EncodeField(fs[i + 1])
    BY <1>1, <1>2
  <2> QED BY <1>2, <1>3, <1>5, <2>1 DEF Shifted
<1>8. FlattenSeq(es) = es[1] \o FlattenSeq(et)
  BY <1>3, <1>5, <1>7, FlattenCons
<1>9. FlattenSeq(es) \in Seq(Byte)
  BY <1>5, FlattenTyped
<1>10. FlattenSeq(es) = Encode(fs)
  BY <1>1 DEF Encode
<1> QED BY <1>1, <1>6, <1>8, <1>9, <1>10 DEF Written
-------------------------------------------------------------------------------
(* Types.                                                                  *)

\* The part of TypeOK about _get_params.
Params == /\ DOMAIN _get_params \subseteq Seq(Byte)
          /\ \A k \in DOMAIN _get_params : _get_params[k] \in Seq(Byte)

\* What decoding yields is a string, and it yields no other.
LEMMA Results ==
    ASSUME NEW str \in Seq(Byte), NEW x \in UrlDecode(str)
    PROVE  x \in Seq(Byte) /\ UrlDecode(str) = {x}
BY DecodeOutcome DEF Outcomes

\* A pass of the loop stores strings only.
LEMMA PutTyped ==
    ASSUME Params, NEW pair \in Seq(Byte), NEW next, Put(pair, next)
    PROVE  Params' /\ step' \in {next, "aborted"}
<1> DEFINE e == Split(pair)
<1>1. CASE e = 0
  BY <1>1 DEF Put, Params
<1>2. CASE e # 0 /\ (UrlDecode(Prefix(pair, e)) = {} \/ UrlDecode(Suffix(pair, e)) = {})
  BY <1>2 DEF Put, Params
<1>3. CASE e # 0 /\ ~(UrlDecode(Prefix(pair, e)) = {} \/ UrlDecode(Suffix(pair, e)) = {})
  <2>1. Prefix(pair, e) \in Seq(Byte) /\ Suffix(pair, e) \in Seq(Byte)
    BY <1>3, FoundCut DEF Split
  <2>2. PICK k \in UrlDecode(Prefix(pair, e)), v \in UrlDecode(Suffix(pair, e)) :
           step' = next /\ _get_params' = Store(k, v)
    BY <1>3 DEF Put
  <2>3. k \in Seq(Byte) /\ v \in Seq(Byte)
    BY <2>1, <2>2, Results
  <2> QED BY <2>2, <2>3 DEF Params, Store
<1> QED BY <1>1, <1>2, <1>3

\* TypeOK is inductive once the types of what is parsed are known.
Typed == TypeOK /\ target \in Seq(Byte) /\ form \in Seq(Field)

\* Targets and encoded forms are strings of bytes.
LEMMA InitTyped == Init => Typed
<1> SUFFICES ASSUME Init PROVE Typed
  OBVIOUS
<1>1. TypeOK
  BY DEF Init, TypeOK
<1>2. CASE target \in Targets /\ form = <<>>
  BY <1>1, <1>2, TargetsAreText DEF Typed
<1>3. CASE form \in Forms /\ target = Path \o <<Question>> \o Encode(form)
  <2>1. form \in Seq(Field)
    BY <1>3, FormsAreText DEF Field
  <2>2. Encode(form) \in Seq(Byte)
    <3>1. CASE form = <<>>
      BY <3>1 DEF Encode, FlattenSeq
    <3>2. CASE form # <<>>
      BY <2>1, <3>2, TailShifts, EncodeCons
    <3> QED BY <3>1, <3>2
  <2>3. PICK p, e : p = Path /\ e = Encode(form)
    OBVIOUS
  <2>4. p \in Seq(Byte) /\ e \in Seq(Byte) /\ Question \in Byte
    <3>1. p \in Seq(Byte \ {Question})
      BY <2>3, PathPlain
    <3> QED BY <2>2, <2>3, <3>1 DEF Question, Byte
  <2>5. p \o <<Question>> \o e \in Seq(Byte)
    BY <2>4
  <2> QED BY <1>1, <1>3, <2>1, <2>3, <2>5 DEF Typed
<1> QED BY <1>2, <1>3 DEF Init

\* Every pass keeps the types.
LEMMA NextTyped == Typed /\ [Next]_vars => Typed'
<1> SUFFICES ASSUME Typed, [Next]_vars PROVE Typed'
  OBVIOUS
<1>0. /\ TypeOK /\ Params /\ target \in Seq(Byte) /\ form \in Seq(Field)
      /\ _get_url \in Seq(Byte) /\ query_string \in Seq(Byte)
  BY DEF Typed, TypeOK, Params
<1>1. CASE FindQuery
  <2>1. CASE Find(target, Question) = 0
    BY <1>0, <1>1, <2>1 DEF FindQuery, Typed, TypeOK
  <2>2. CASE Find(target, Question) # 0
    <3>1. _get_url' \in Seq(Byte) /\ query_string' \in Seq(Byte)
      BY <1>0, <1>1, <2>2, FoundCut DEF FindQuery
    <3> QED BY <1>0, <1>1, <2>2, <3>1 DEF FindQuery, Typed, TypeOK
  <2> QED BY <2>1, <2>2
<1>2. CASE NextPair
  <2> DEFINE pos == Find(query_string, Amp)
  <2>1. pos # 0 /\ Put(Prefix(query_string, pos), "pairs") /\ query_string' = Suffix(query_string, pos)
    BY <1>2 DEF NextPair
  <2>2. Prefix(query_string, pos) \in Seq(Byte) /\ query_string' \in Seq(Byte)
    BY <1>0, <2>1, FoundCut
  <2>3. Params' /\ step' \in {"pairs", "aborted"}
    BY <1>0, <2>1, <2>2, PutTyped
  <2> QED BY <1>0, <1>2, <2>2, <2>3 DEF NextPair, Typed, TypeOK, Params
<1>3. CASE LastPair
  <2>1. Params' /\ step' \in {"done", "aborted"}
    BY <1>0, <1>3, PutTyped DEF LastPair
  <2> QED BY <1>0, <1>3, <2>1 DEF LastPair, Typed, TypeOK, Params
<1>4. CASE Ended \/ UNCHANGED vars
  BY <1>0, <1>4 DEF Ended, vars, Typed, TypeOK
<1> QED BY <1>1, <1>2, <1>3, <1>4 DEF Next

\* Whatever is decoded, every result is a string of bytes.
THEOREM TypeCorrect == Spec => []TypeOK
<1>1. Typed => TypeOK
  BY DEF Typed
<1> QED BY <1>1, InitTyped, NextTyped, PTL DEF Spec
-------------------------------------------------------------------------------
(* Forms arrive.  The invariant says where in the encoded form the loop is. *)

\* The first m fields of the form have been parsed: each is a parameter,
\* unless a later one of them has its key.
Arrived(m) ==
    \A j \in 1..m :
        (\A l \in 1..m : l > j => form[l][1] # form[j][1]) =>
            form[j][1] \in DOMAIN _get_params /\ _get_params[form[j][1]] = form[j][2]

\* Before the loop the target is the encoded form; in the loop, before field i,
\* what remains is that field and those after it, and those before it have been
\* parsed; after the loop all have been.
FormInv ==
    form # <<>> =>
        /\ step = "find" => target = Path \o <<Question>> \o Encode(form)
        /\ step = "pairs" =>
              /\ _get_url = Path
              /\ \E i \in 1..Len(form) :
                    /\ Arrived(i - 1)
                    /\ query_string = EncodeField(form[i]) \o Written(SubSeq(form, i + 1, Len(form)))
        /\ step = "done" => _get_url = Path /\ Arrived(Len(form))
        /\ step # "aborted"

\* A field that UrlEncode wrote is stored, and stops nothing.
LEMMA PutField ==
    ASSUME NEW d \in Field, NEW next, Put(EncodeField(d), next)
    PROVE  step' = next /\ _get_params' = Store(d[1], d[2])
<1>1. PICK pair, e : pair = EncodeField(d) /\ e = Split(pair)
  OBVIOUS
<1>2. /\ e # 0
      /\ UrlDecode(Prefix(pair, e)) = {d[1]} /\ UrlDecode(Suffix(pair, e)) = {d[2]}
  BY <1>1, FieldWritten
<1>3. Put(pair, next)
  BY <1>1
<1>4. step' = next /\ \E k \in {d[1]}, v \in {d[2]} : _get_params' = Store(k, v)
  BY <1>1, <1>2, <1>3 DEF Put
<1> QED BY <1>4

\* Storing field i adds it to those that have been parsed.
LEMMA ArrivedStep ==
    ASSUME form \in Seq(Field), NEW i \in 1..Len(form), Arrived(i - 1),
           _get_params' = Store(form[i][1], form[i][2]), UNCHANGED form
    PROVE  Arrived(i)'
<1>0. i \in Nat /\ i \in 1..i
  BY LenProperties
<1>1. PICK key, value : key = form[i][1] /\ value = form[i][2]
  OBVIOUS
<1>2. /\ DOMAIN _get_params' = DOMAIN _get_params \cup {key}
      /\ _get_params'[key] = value
      /\ \A k \in DOMAIN _get_params : k # key => _get_params'[k] = _get_params[k]
  BY <1>1 DEF Store
<1> SUFFICES ASSUME NEW j \in 1..i,
                    \A l \in 1..i : l > j => form[l][1] # form[j][1]
             PROVE  form[j][1] \in DOMAIN _get_params' /\ _get_params'[form[j][1]] = form[j][2]
  BY DEF Arrived
<1>3. CASE j = i
  BY <1>1, <1>2, <1>3
<1>4. CASE j # i
  <2>1. j \in 1..i - 1 /\ form[j][1] # key
    <3>1. j \in 1..i - 1 /\ i > j
      BY <1>0, <1>4
    <3>2. form[i][1] # form[j][1]
      BY <1>0, <3>1
    <3> QED BY <1>1, <3>1, <3>2
  <2>2. \A l \in 1..i - 1 : l > j => form[l][1] # form[j][1]
    <3>1. \A l \in 1..i - 1 : l \in 1..i
      BY <1>0
    <3> QED BY <3>1
  <2>3. form[j][1] \in DOMAIN _get_params /\ _get_params[form[j][1]] = form[j][2]
    BY <2>1, <2>2 DEF Arrived
  <2> QED BY <1>2, <2>1, <2>3
<1> QED BY <1>3, <1>4

\* It holds of every target at first.
LEMMA InitForm == Init => FormInv
BY DEF Init, FormInv

\* The query begins with the first field, since the path holds no '?'.
LEMMA FindForm ==
    ASSUME Typed, FormInv, FindQuery
    PROVE  FormInv'
<1> SUFFICES ASSUME form # <<>> PROVE FormInv'
  BY DEF FormInv, FindQuery
<1>1. PICK p, e, t : p = Path /\ e = Encode(form) /\ t = Tail(form)
  OBVIOUS
<1>2. /\ form \in Seq(Field) /\ t \in Seq(Field) /\ Shifted(form, t)
      /\ Len(form) \in Nat \ {0} /\ form[1] \in Field
  BY <1>1, TailShifts DEF Typed
<1>3. e = EncodeField(form[1]) \o Written(t) /\ e \in Seq(Byte)
  BY <1>1, <1>2, EncodeCons
<1>4. target = p \o <<Question>> \o e
  BY <1>1 DEF FormInv, FindQuery
<1>5. p \in Seq(Byte) /\ \A i \in 1..Len(p) : p[i] # Question
  <2>1. p \in Seq(Byte \ {Question})
    BY <1>1, PathPlain
  <2> QED BY <2>1
<1>6. Find(target, Question) # 0 /\ Prefix(target, Find(target, Question)) = p
      /\ Suffix(target, Find(target, Question)) = e
  <2>1. Question \in Byte
    BY DEF Question, Byte
  <2>2. /\ Find(target, Question) = Len(p) + 1
        /\ Prefix(target, Find(target, Question)) = p
        /\ Suffix(target, Find(target, Question)) = e
    BY <1>3, <1>4, <1>5, <2>1, FindJoin
  <2>3. Len(p) \in Nat
    BY <1>5, LenProperties
  <2> QED BY <2>2, <2>3
<1>7. /\ step' = "pairs" /\ _get_url' = p /\ query_string' = e
      /\ form' = form
  BY <1>6 DEF FindQuery
<1>8. t = SubSeq(form, 1 + 1, Len(form))
  BY <1>1, <1>2
<1>9. Arrived(1 - 1)'
  BY DEF Arrived
<1>10. 1 \in 1..Len(form)
  BY <1>2
<1> QED BY <1>1, <1>3, <1>7, <1>8, <1>9, <1>10 DEF FormInv

\* A pass takes one field, up to the '&' before the next one, or the last.
LEMMA PairForm ==
    ASSUME Typed, FormInv, NextPair \/ LastPair
    PROVE  FormInv'
<1> SUFFICES ASSUME form # <<>> PROVE FormInv'
  BY DEF FormInv, NextPair, LastPair
<1>0. form \in Seq(Field) /\ Len(form) \in Nat /\ form' = form /\ step = "pairs" /\ _get_url' = _get_url
  BY LenProperties DEF Typed, NextPair, LastPair
<1>1. PICK i \in 1..Len(form) :
         /\ Arrived(i - 1)
         /\ query_string = EncodeField(form[i]) \o Written(SubSeq(form, i + 1, Len(form)))
  BY <1>0 DEF FormInv
<1>2. _get_url = Path
  BY <1>0 DEF FormInv
<1>3. PICK x, u : x = EncodeField(form[i]) /\ u = SubSeq(form, i + 1, Len(form))
  OBVIOUS
<1>4. form[i] \in Field /\ x \in Seq(Byte) /\ \A k \in 1..Len(x) : x[k] # Amp
  <2>1. form[i] \in Field
    BY <1>0, ElementOfSeq
  <2> QED BY <1>3, <2>1, FieldWritten
<1>5. u \in Seq(Field) /\ Len(u) = Len(form) - i
  BY <1>0, <1>3
<1>6. CASE i = Len(form)
  <2>1. u = <<>>
    BY <1>0, <1>5, <1>6, EmptySeq
  <2>2. Written(u) = <<>>
    BY <2>1 DEF Written, Pieces, FlattenSeq
  <2>3. query_string = x
    BY <1>1, <1>3, <1>4, <2>2, ConcatEmptySeq
  <2>4. Find(query_string, Amp) = 0
    BY <1>4, <2>3, FindNone
  <2>5. Put(x, "done")
    BY <2>3, <2>4 DEF NextPair, LastPair
  <2>6. step' = "done" /\ _get_params' = Store(form[i][1], form[i][2])
    BY <1>3, <1>4, <2>5, PutField
  <2>7. Arrived(i)'
    BY <1>0, <1>1, <2>6, ArrivedStep
  <2>8. Arrived(Len(form))'
    BY <1>0, <1>6, <2>7 DEF Arrived
  <2> QED BY <1>0, <1>2, <2>6, <2>8 DEF FormInv
<1>7. CASE i # Len(form)
  <2>1. PICK w, y : w = Tail(u) /\ y = EncodeField(u[1]) \o Written(w)
    OBVIOUS
  <2>2. u # <<>> /\ i + 1 \in 1..Len(form)
    BY <1>0, <1>5, <1>7
  <2>3. w \in Seq(Field) /\ u[1] \in Field /\ Shifted(u, w)
    BY <1>5, <2>1, <2>2, TailShifts
  <2>4. y \in Seq(Byte)
    <3>1. EncodeField(u[1]) \in Seq(Byte) /\ Written(w) \in Seq(Byte)
      BY <2>3, FieldWritten, WrittenTyped
    <3> QED BY <2>1, <3>1, ConcatProperties
  <2>5. Written(u) = <<Amp>> \o y
    <3>1. Written(u) = (<<Amp>> \o EncodeField(u[1])) \o Written(w)
      BY <1>5, <2>3, WrittenCons
    <3>2. PICK a, b : a = EncodeField(u[1]) /\ b = Written(w)
      OBVIOUS
    <3>3. a \in Seq(Byte) /\ b \in Seq(Byte)
      BY <2>3, <3>2, FieldWritten, WrittenTyped
    <3>4. (<<Amp>> \o a) \o b = <<Amp>> \o (a \o b)
      BY <3>3 DEF Amp, Byte
    <3> QED BY <2>1, <3>1, <3>2, <3>4
  <2>6. query_string = x \o <<Amp>> \o y
    <3>1. x \o (<<Amp>> \o y) = x \o <<Amp>> \o y
      BY <1>4, <2>4 DEF Amp, Byte
    <3> QED BY <1>1, <1>3, <2>5, <3>1
  <2>7. /\ Find(query_string, Amp) # 0
        /\ Prefix(query_string, Find(query_string, Amp)) = x
        /\ Suffix(query_string, Find(query_string, Amp)) = y
    <3>1. Amp \in Byte /\ Len(x) \in Nat
      BY <1>4, LenProperties DEF Amp, Byte
    <3>2. /\ Find(query_string, Amp) = Len(x) + 1
          /\ Prefix(query_string, Find(query_string, Amp)) = x
          /\ Suffix(query_string, Find(query_string, Amp)) = y
      BY <1>4, <2>4, <2>6, <3>1, FindJoin
    <3> QED BY <3>1, <3>2
  <2>8. Put(x, "pairs") /\ query_string' = y
    BY <2>7 DEF NextPair, LastPair
  <2>9. step' = "pairs" /\ _get_params' = Store(form[i][1], form[i][2])
    BY <1>3, <1>4, <2>8, PutField
  <2>10. Arrived(i)'
    BY <1>0, <1>1, <2>9, ArrivedStep
  <2>11. u[1] = form[i + 1] /\ w = SubSeq(form, (i + 1) + 1, Len(form))
    BY <1>0, <1>3, <2>1, <2>2
  <2>12. query_string' = EncodeField(form[i + 1]) \o Written(SubSeq(form, (i + 1) + 1, Len(form)))
    BY <2>1, <2>8, <2>11
  <2>13. Arrived((i + 1) - 1)'
    BY <1>0, <2>10 DEF Arrived
  <2> QED BY <1>0, <1>2, <2>2, <2>9, <2>12, <2>13 DEF FormInv
<1> QED BY <1>6, <1>7

\* Every step keeps it.
LEMMA NextForm == Typed /\ FormInv /\ [Next]_vars => FormInv'
<1> SUFFICES ASSUME Typed, FormInv, [Next]_vars PROVE FormInv'
  OBVIOUS
<1>1. CASE Ended \/ UNCHANGED vars
  BY <1>1 DEF Ended, vars, FormInv, Arrived
<1> QED BY <1>1, FindForm, PairForm DEF Next

\* A form that UrlEncode encoded arrives as it was, and never stops the program.
THEOREM FormsArrive == Spec => []FormsSurvive
<1>1. Typed /\ FormInv => FormsSurvive
  <2> SUFFICES ASSUME Typed, FormInv PROVE FormsSurvive
    OBVIOUS
  <2>1. DOMAIN form = 1..Len(form)
    BY LenProperties DEF Typed
  <2> QED BY <2>1 DEF FormInv, FormsSurvive, Arrived
<1> QED BY <1>1, InitTyped, NextTyped, InitForm, NextForm, PTL DEF Spec
-------------------------------------------------------------------------------
(* Every field is parsed.  The invariant compares what has been stored so far *)
(* with the fields that start before the place where the loop is.          *)

\* The query from p to e is what lies between two '&'; it may be empty.
Part(p, e) ==
    /\ p \in 1..Len(Query) + 1 /\ e \in p - 1..Len(Query)
    /\ p = 1 \/ Query[p - 1] = Amp
    /\ e = Len(Query) \/ Query[e + 1] = Amp
    /\ \A k \in p..e : Query[k] # Amp

\* The fields that start before p.
Before(p) == {f \in Fields : f[1] < p}

\* The query is a string of bytes.
LEMMA QueryTyped == ASSUME Typed PROVE Query \in Seq(Byte) /\ Len(Query) \in Nat
<1>1. CASE Find(target, Question) = 0
  BY <1>1 DEF Query
<1>2. CASE Find(target, Question) # 0
  <2>1. Query = Suffix(target, Find(target, Question))
    BY <1>2 DEF Query
  <2>2. Query \in Seq(Byte)
    BY <1>2, <2>1, FoundCut DEF Typed
  <2> QED BY <2>2, LenProperties
<1> QED BY <1>1, <1>2

\* A field that starts within a part, or at the '&' after it, is that part.
LEMMA PartStarts ==
    ASSUME Typed, NEW p, NEW e, Part(p, e), NEW f \in Fields, f[1] >= p, f[1] < e + 2
    PROVE  f = <<p, e>>
<1>1. Len(Query) \in Nat /\ p \in Nat /\ e \in Int /\ p \in 1..Len(Query) + 1 /\ e \in p - 1..Len(Query)
  BY QueryTyped DEF Part
<1>2. PICK a, b : f = <<a, b>> /\ a \in 1..Len(Query) /\ b \in 1..Len(Query) /\ a = f[1] /\ b = f[2]
  BY DEF Fields
<1>3. /\ \A k \in a..b : Query[k] # Amp
      /\ a = 1 \/ Query[a - 1] = Amp
      /\ b = Len(Query) \/ Query[b + 1] = Amp
      /\ a <= b
  <2>1. \E k \in a..b : Query[k] = Eq
    BY <1>2 DEF Fields
  <2>2. a <= b
    BY <1>2, <2>1
  <2> QED BY <1>2, <2>2 DEF Fields
<1>4. a = p
  <2> SUFFICES ASSUME a # p PROVE FALSE
    OBVIOUS
  <2>1. a > p /\ Query[a - 1] = Amp
    BY <1>1, <1>2, <1>3
  <2>2. a - 1 \in p..e
    BY <1>1, <1>2, <2>1
  <2> QED BY <2>1, <2>2 DEF Part
<1>5. b = e
  <2>1. ~(b < e)
    <3> SUFFICES ASSUME b < e PROVE FALSE
      OBVIOUS
    <3>1. b + 1 \in p..e /\ b # Len(Query)
      BY <1>1, <1>2, <1>3, <1>4
    <3> QED BY <1>3, <3>1 DEF Part
  <2>2. ~(b > e)
    <3> SUFFICES ASSUME b > e PROVE FALSE
      OBVIOUS
    <3>1. e + 1 \in a..b /\ e # Len(Query)
      BY <1>1, <1>2, <1>3, <1>4
    <3> QED BY <1>3, <3>1 DEF Part
  <2> QED BY <1>1, <1>2, <2>1, <2>2
<1> QED BY <1>2, <1>4, <1>5

\* A part without an '=' is no field.
LEMMA PartWithout ==
    ASSUME Typed, NEW p, NEW e, Part(p, e), \A k \in p..e : Query[k] # Eq
    PROVE  Before(e + 2) = Before(p)
<1>1. p \in Nat /\ e \in Int /\ e >= p - 1 /\ p - 1 \in Int
  BY QueryTyped DEF Part
<1>2. ASSUME NEW f \in Fields PROVE f[1] \in Nat /\ \E k \in f[1]..f[2] : Query[k] = Eq
  BY <1>2 DEF Fields
<1>3. ASSUME NEW f \in Fields, f[1] < e + 2 PROVE f[1] < p
  <2>1. ~(f[1] >= p)
    BY <1>2, <1>3, PartStarts
  <2> QED BY <1>1, <1>2, <2>1
<1>4. ASSUME NEW f \in Fields, f[1] < p PROVE f[1] < e + 2
  BY <1>1, <1>2, <1>4
<1> QED BY <1>3, <1>4 DEF Before

\* A part with an '=' is a field, and the only one that it adds.
LEMMA PartWith ==
    ASSUME Typed, NEW p, NEW e, Part(p, e), \E k \in p..e : Query[k] = Eq
    PROVE  /\ <<p, e>> \in Fields
           /\ Before(e + 2) = Before(p) \cup {<<p, e>>}
           /\ \A f \in Before(p) : f[1] < p
<1>1. p \in Nat /\ e \in Int /\ e >= p - 1 /\ p \in 1..Len(Query) /\ e \in 1..Len(Query) /\ p <= e
  BY QueryTyped DEF Part
<1>2. <<p, e>> \in Fields
  BY <1>1 DEF Part, Fields
<1>3. \A f \in Fields : f[1] \in Nat
  BY DEF Fields
<1>4. ASSUME NEW f \in Fields, f[1] < e + 2 PROVE f[1] < p \/ f = <<p, e>>
  BY <1>1, <1>3, <1>4, PartStarts
<1>5. ASSUME NEW f \in Fields, f[1] < p \/ f = <<p, e>> PROVE f[1] < e + 2
  BY <1>1, <1>3, <1>5
<1> QED BY <1>2, <1>4, <1>5 DEF Before

\* The loop splits a part where the reference definition does.
LEMMA PairOfPart ==
    ASSUME Typed, NEW p, NEW e, Part(p, e)
    PROVE  LET pair == SubSeq(Query, p, e) IN
           /\ pair \in Seq(Byte)
           /\ Split(pair) = 0 => \A k \in p..e : Query[k] # Eq
           /\ Split(pair) # 0 =>
                /\ \E k \in p..e : Query[k] = Eq
                /\ Decoded(<<p, e>>) =
                     UrlDecode(Prefix(pair, Split(pair))) \X UrlDecode(Suffix(pair, Split(pair)))
<1>1. p \in Nat /\ e \in Int /\ p \in 1..Len(Query) + 1 /\ e \in p - 1..Len(Query) /\ Query \in Seq(Byte)
      /\ Len(Query) \in Nat
  BY QueryTyped DEF Part
<1>2. PICK pair, s : pair = SubSeq(Query, p, e) /\ s = Split(pair)
  OBVIOUS
<1>3. /\ pair \in Seq(Byte) /\ Len(pair) = e - p + 1
      /\ \A i \in 1..Len(pair) : pair[i] = Query[p + i - 1]
  BY <1>1, <1>2
<1>4. /\ s \in 0..Len(pair)
      /\ s = 0 => \A i \in 1..Len(pair) : pair[i] # Eq
      /\ s # 0 => pair[s] = Eq /\ \A i \in 1..s - 1 : pair[i] # Eq
  BY <1>2, <1>3, FindByte DEF Split
<1>5. \A k \in p..e : k - p + 1 \in 1..Len(pair) /\ p + (k - p + 1) - 1 = k
  BY <1>1, <1>3
<1>6. s = 0 => \A k \in p..e : Query[k] # Eq
  BY <1>3, <1>4, <1>5
<1>7. ASSUME s # 0
      PROVE  /\ \E k \in p..e : Query[k] = Eq
             /\ Decoded(<<p, e>>) = UrlDecode(Prefix(pair, s)) \X UrlDecode(Suffix(pair, s))
  <2>1. PICK c : c = p + s - 1
    OBVIOUS
  <2>2. s \in 1..Len(pair) /\ c \in p..e
    BY <1>1, <1>3, <1>4, <1>7, <2>1
  <2>3. Query[c] = Eq
    BY <1>3, <1>4, <1>7, <2>1, <2>2
  <2>4. ASSUME NEW k \in p..c - 1 PROVE Query[k] # Eq
    <3>1. k \in p..e /\ k - p + 1 \in 1..s - 1
      BY <1>1, <2>1, <2>2
    <3> QED BY <1>3, <1>4, <1>5, <1>7, <3>1
  <2>5. ASSUME NEW d \in p..e, Query[d] = Eq, \A k \in p..d - 1 : Query[k] # Eq PROVE d = c
    <3>1. ~(d < c)
      BY <1>1, <2>2, <2>4, <2>5
    <3>2. ~(c < d)
      BY <1>1, <2>2, <2>3, <2>5
    <3> QED BY <1>1, <2>2, <3>1, <3>2
  <2>6. (CHOOSE d \in p..e : Query[d] = Eq /\ \A k \in p..d - 1 : Query[k] # Eq) = c
    BY <2>2, <2>3, <2>4, <2>5
  <2>7. Decoded(<<p, e>>) = UrlDecode(SubSeq(Query, p, c - 1)) \X UrlDecode(SubSeq(Query, c + 1, e))
    BY <2>6 DEF Decoded
  <2>8. SubSeq(Query, p, c - 1) = Prefix(pair, s)
    <3>1. SubSeq(pair, 1, s - 1) = SubSeq(Query, p, c - 1)
      BY <1>1, <1>2, <1>3, <2>1, <2>2
    <3> QED BY <3>1 DEF Prefix
  <2>9. SubSeq(Query, c + 1, e) = Suffix(pair, s)
    <3>1. PICK i, j : i = s + 1 /\ j = Len(pair)
      OBVIOUS
    <3>2. /\ i \in 1..(e - p) + 2 /\ j \in i - 1..(e - p) + 1
          /\ p + i - 1 = c + 1 /\ p + j - 1 = e
      BY <1>1, <1>3, <2>1, <2>2, <3>1
    <3>3. SubSeq(pair, i, j) = SubSeq(Query, p + i - 1, p + j - 1)
      BY <1>1, <1>2, <3>2, CutOfCut
    <3>4. SubSeq(pair, s + 1, Len(pair)) = SubSeq(Query, c + 1, e)
      BY <3>1, <3>2, <3>3
    <3> QED BY <3>4 DEF Suffix
  <2> QED BY <2>2, <2>3, <2>7, <2>8, <2>9
<1> QED BY <1>2, <1>3, <1>6, <1>7

\* Of the fields that start before p, the last with this key has this value.
Latest(p, k, v) ==
    \E f \in Before(p) :
        /\ <<k, v>> \in Decoded(f)
        /\ \A g \in Before(p) : g[1] > f[1] => \A x \in Decoded(g) : x[1] # k

\* Exactly those are the parameters, and all fields before p can be decoded.
Parsed(p) ==
    /\ \A f \in Before(p) : Decoded(f) # {}
    /\ \A k, v \in Seq(Byte) :
          Latest(p, k, v) <=> (k \in DOMAIN _get_params /\ _get_params[k] = v)

\* Before the loop nothing is stored; in the loop it is at the start p of a part,
\* and the fields before p have been parsed; after it all have been, or the
\* program has stopped in a field that cannot be decoded.
ParseInv ==
    /\ step = "find" => DOMAIN _get_params = {}
    /\ step = "pairs" =>
          \E p \in 1..Len(Query) + 1 :
              /\ p = 1 \/ Query[p - 1] = Amp
              /\ query_string = SubSeq(Query, p, Len(Query))
              /\ Parsed(p)
    /\ step = "done" => Parsed(Len(Query) + 2)
    /\ step = "aborted" => \E f \in Fields : Decoded(f) = {}

\* One pass stores the field of the part it takes, if the part holds one.
LEMMA PutPart ==
    ASSUME Typed, NEW p, NEW e, Part(p, e), Parsed(p), NEW next, next # "aborted",
           Put(SubSeq(Query, p, e), next), UNCHANGED target
    PROVE  \/ step' = "aborted" /\ \E f \in Fields : Decoded(f) = {}
           \/ step' = next /\ Parsed(e + 2)'
<1>0. Query' = Query /\ Fields' = Fields /\ \A q : Before(q)' = Before(q)
  BY DEF Query, Fields, Before
<1>00. \A f : Decoded(f)' = Decoded(f)
  BY <1>0 DEF Decoded
<1>1. PICK pair, s, new : pair = SubSeq(Query, p, e) /\ s = Split(pair) /\ new = <<p, e>>
  OBVIOUS
<1>2. /\ pair \in Seq(Byte)
      /\ s = 0 => \A k \in p..e : Query[k] # Eq
      /\ s # 0 => /\ \E k \in p..e : Query[k] = Eq
                  /\ Decoded(new) = UrlDecode(Prefix(pair, s)) \X UrlDecode(Suffix(pair, s))
  BY <1>1, PairOfPart
<1>3. Put(pair, next)
  BY <1>1
<1>4. CASE s = 0
  <2>1. step' = next /\ _get_params' = _get_params
    BY <1>1, <1>3, <1>4 DEF Put
  <2>2. Before(e + 2) = Before(p)
    BY <1>2, <1>4, PartWithout
  <2>3. \A k, v : Latest(e + 2, k, v)' <=> Latest(p, k, v)
    BY <1>0, <1>00, <2>2 DEF Latest
  <2>4. Parsed(e + 2)'
    BY <1>0, <1>00, <2>1, <2>2, <2>3 DEF Parsed
  <2> QED BY <2>1, <2>4
<1>5. CASE s # 0 /\ (UrlDecode(Prefix(pair, s)) = {} \/ UrlDecode(Suffix(pair, s)) = {})
  <2>1. step' = "aborted"
    BY <1>1, <1>3, <1>5 DEF Put
  <2>2. new \in Fields
    BY <1>1, <1>2, <1>5, PartWith
  <2>3. Decoded(new) = {}
    BY <1>2, <1>5
  <2> QED BY <2>1, <2>2, <2>3
<1>6. CASE s # 0 /\ ~(UrlDecode(Prefix(pair, s)) = {} \/ UrlDecode(Suffix(pair, s)) = {})
  <2>1. PICK key \in UrlDecode(Prefix(pair, s)), value \in UrlDecode(Suffix(pair, s)) :
           step' = next /\ _get_params' = Store(key, value)
    BY <1>1, <1>3, <1>6 DEF Put
  <2>2. Prefix(pair, s) \in Seq(Byte) /\ Suffix(pair, s) \in Seq(Byte)
    BY <1>1, <1>2, <1>6, FoundCut DEF Split
  <2>3. /\ key \in Seq(Byte) /\ value \in Seq(Byte)
        /\ UrlDecode(Prefix(pair, s)) = {key} /\ UrlDecode(Suffix(pair, s)) = {value}
    BY <2>1, <2>2, Results
  <2>4. Decoded(new) = {<<key, value>>}
    BY <1>2, <1>6, <2>3
  <2>5. /\ Before(e + 2) = Before(p) \cup {new}
        /\ \A f \in Before(p) : f[1] < p
        /\ new[1] = p
    BY <1>1, <1>2, <1>6, PartWith
  <2>6. p \in Nat /\ \A f \in Before(p) : f[1] \in Nat
    BY QueryTyped DEF Part, Before, Fields
  <2>7. ASSUME NEW v PROVE Latest(e + 2, key, v)' <=> v = value
    <3>1. ASSUME Latest(e + 2, key, v) PROVE v = value
      <4>1. PICK f \in Before(e + 2) :
               /\ <<key, v>> \in Decoded(f)
               /\ \A g \in Before(e + 2) : g[1] > f[1] => \A x \in Decoded(g) : x[1] # key
        BY <3>1 DEF Latest
      <4>2. f = new
        <5> SUFFICES ASSUME f # new PROVE FALSE
          OBVIOUS
        <5>1. new[1] > f[1] /\ new \in Before(e + 2)
          BY <2>5, <2>6
        <5>2. \A x \in Decoded(new) : x[1] # key
          BY <4>1, <5>1
        <5> QED BY <2>4, <5>2
      <4> QED BY <2>4, <4>1, <4>2
    <3>2. Latest(e + 2, key, value)
      <4>1. \A g \in Before(e + 2) : ~(g[1] > new[1])
        BY <2>5, <2>6
      <4>2. new \in Before(e + 2) /\ <<key, value>> \in Decoded(new)
        BY <2>4, <2>5
      <4> QED BY <4>1, <4>2 DEF Latest
    <3>3. Latest(e + 2, key, v)' <=> Latest(e + 2, key, v)
      BY <1>0, <1>00 DEF Latest
    <3> QED BY <3>1, <3>2, <3>3
  <2>8. ASSUME NEW k, NEW v, k # key PROVE Latest(e + 2, k, v)' <=> Latest(p, k, v)
    <3>1. \A x \in Decoded(new) : x[1] # k
      BY <2>4, <2>8
    <3>2. <<k, v>> \notin Decoded(new)
      BY <2>4, <2>8
    <3>3. Latest(e + 2, k, v) <=> Latest(p, k, v)
      BY <2>5, <3>1, <3>2 DEF Latest
    <3>4. Latest(e + 2, k, v)' <=> Latest(e + 2, k, v)
      BY <1>0, <1>00 DEF Latest
    <3> QED BY <3>3, <3>4
  <2>9. /\ DOMAIN _get_params' = DOMAIN _get_params \cup {key}
        /\ _get_params'[key] = value
        /\ \A k \in DOMAIN _get_params : k # key => _get_params'[k] = _get_params[k]
    BY <2>1 DEF Store
  <2>10. \A f \in Before(e + 2) : Decoded(f) # {}
    BY <2>4, <2>5 DEF Parsed
  <2>11. ASSUME NEW k \in Seq(Byte), NEW v \in Seq(Byte)
         PROVE  Latest(e + 2, k, v)' <=> (k \in DOMAIN _get_params' /\ _get_params'[k] = v)
    <3>1. CASE k = key
      BY <2>7, <2>9, <3>1
    <3>2. CASE k # key
      <4>1. Latest(p, k, v) <=> (k \in DOMAIN _get_params /\ _get_params[k] = v)
        BY DEF Parsed
      <4> QED BY <2>8, <2>9, <3>2, <4>1
    <3> QED BY <3>1, <3>2
  <2>12. Parsed(e + 2)'
    BY <1>0, <1>00, <2>10, <2>11 DEF Parsed
  <2> QED BY <2>1, <2>12
<1> QED BY <1>4, <1>5, <1>6

\* Nothing is stored at first.
LEMMA InitParse == Init => ParseInv
BY DEF Init, ParseInv

\* The loop starts at the first byte of the query; without one there is no field.
LEMMA FindParse ==
    ASSUME Typed, ParseInv, FindQuery
    PROVE  ParseInv'
<1>1. Query' = Query /\ Fields' = Fields /\ DOMAIN _get_params' = {}
  BY DEF FindQuery, Query, Fields, ParseInv
<1>2. Query \in Seq(Byte) /\ Len(Query) \in Nat /\ \A f \in Fields : f[1] \in 1..Len(Query)
  BY QueryTyped DEF Fields
<1>3. ASSUME NEW p, \A f \in Fields : ~(f[1] < p) PROVE Parsed(p)'
  <2>1. Before(p)' = {}
    BY <1>1, <1>3 DEF Before
  <2> QED BY <1>1, <2>1 DEF Parsed, Latest
<1>4. CASE Find(target, Question) = 0
  <2>1. Len(Query) = 0
    BY <1>4 DEF Query
  <2>2. Parsed(Len(Query) + 2)'
    BY <1>2, <1>3, <2>1
  <2> QED BY <1>1, <1>4, <2>2 DEF FindQuery, ParseInv, Parsed
<1>5. CASE Find(target, Question) # 0
  <2>1. query_string' = Query /\ step' = "pairs"
    BY <1>5 DEF FindQuery, Query
  <2>2. Query = SubSeq(Query, 1, Len(Query)) /\ 1 \in 1..Len(Query) + 1
    BY <1>2
  <2>3. Parsed(1)'
    BY <1>2, <1>3
  <2> QED BY <1>1, <2>1, <2>2, <2>3 DEF ParseInv
<1> QED BY <1>4, <1>5

\* A pass takes the part up to the next '&'.
LEMMA NextPairParse ==
    ASSUME Typed, ParseInv, NextPair
    PROVE  ParseInv'
<1>1. /\ Query' = Query /\ Fields' = Fields /\ UNCHANGED target
      /\ \A f : Decoded(f)' = Decoded(f)
  BY DEF NextPair, Query, Fields, Decoded
<1>2. Query \in Seq(Byte) /\ Len(Query) \in Nat
  BY QueryTyped
<1>3. PICK p \in 1..Len(Query) + 1 :
         /\ p = 1 \/ Query[p - 1] = Amp
         /\ query_string = SubSeq(Query, p, Len(Query))
         /\ Parsed(p)
  BY DEF NextPair, ParseInv
<1>4. PICK pos, e, str : pos = Find(str, Amp) /\ e = p + pos - 2 /\ str = query_string
  OBVIOUS
<1>5. /\ pos # 0 /\ Put(Prefix(str, pos), "pairs") /\ query_string' = Suffix(str, pos)
  BY <1>4 DEF NextPair
<1>6. str \in Seq(Byte) /\ Len(str) = (Len(Query) - p) + 1 /\ \A i \in 1..Len(str) : str[i] = Query[p + i - 1]
  BY <1>2, <1>3, <1>4
<1>7. pos \in 1..Len(str) /\ str[pos] = Amp /\ \A i \in 1..pos - 1 : str[i] # Amp
  BY <1>4, <1>5, <1>6, FindByte
<1>a. PICK L : L = Len(Query)
  OBVIOUS
<1>b. L \in Nat /\ p \in 1..L + 1 /\ pos \in 1..(L - p) + 1 /\ e = p + pos - 2
  BY <1>2, <1>3, <1>4, <1>6, <1>7, <1>a
<1>8. Part(p, e)
  <2>1. e \in p - 1..Len(Query) /\ e + 1 = p + pos - 1
    BY <1>a, <1>b
  <2>2. Query[e + 1] = Amp
    BY <1>6, <1>7, <2>1
  <2>3. ASSUME NEW k \in p..e PROVE Query[k] # Amp
    <3>1. k - p + 1 \in 1..pos - 1 /\ k - p + 1 \in 1..Len(str) /\ p + (k - p + 1) - 1 = k
      BY <1>6, <1>a, <1>b
    <3> QED BY <1>6, <1>7, <3>1
  <2> QED BY <1>3, <2>1, <2>2, <2>3 DEF Part
<1>9. Prefix(str, pos) = SubSeq(Query, p, e)
  <2>1. PICK j : j = pos - 1
    OBVIOUS
  <2>2. /\ 1 \in 1..(Len(Query) - p) + 2 /\ j \in 1 - 1..(Len(Query) - p) + 1
        /\ p + 1 - 1 = p /\ p + j - 1 = e
    BY <1>a, <1>b, <2>1
  <2>3. SubSeq(str, 1, j) = SubSeq(Query, p + 1 - 1, p + j - 1)
    BY <1>2, <1>3, <1>4, <2>2, CutOfWhole
  <2> QED BY <2>1, <2>2, <2>3 DEF Prefix
<1>10. Suffix(str, pos) = SubSeq(Query, e + 2, Len(Query)) /\ e + 2 \in 1..Len(Query) + 1 /\ Query[(e + 2) - 1] = Amp
  <2>1. PICK i, j : i = pos + 1 /\ j = Len(str)
    OBVIOUS
  <2>2. /\ i \in 1..(Len(Query) - p) + 2 /\ j \in i - 1..(Len(Query) - p) + 1
        /\ p + i - 1 = e + 2 /\ p + j - 1 = Len(Query) /\ (e + 2) - 1 = p + pos - 1
        /\ e + 2 \in 1..Len(Query) + 1
    <3>1. j = (L - p) + 1 /\ Len(Query) = L
      BY <1>6, <1>a, <2>1
    <3> QED BY <1>b, <2>1, <3>1
  <2>3. SubSeq(str, i, j) = SubSeq(Query, p + i - 1, p + j - 1)
    BY <1>2, <1>3, <1>4, <2>2, CutOfWhole
  <2> QED BY <1>6, <1>7, <2>1, <2>2, <2>3 DEF Suffix
<1>11. \/ step' = "aborted" /\ \E f \in Fields : Decoded(f) = {}
       \/ step' = "pairs" /\ Parsed(e + 2)'
  BY <1>1, <1>3, <1>5, <1>8, <1>9, PutPart
<1>12. CASE step' = "aborted" /\ \E f \in Fields : Decoded(f) = {}
  BY <1>1, <1>12 DEF ParseInv
<1>13. CASE step' = "pairs" /\ Parsed(e + 2)'
  <2>1. /\ Query'[(e + 2) - 1] = Amp
        /\ query_string' = SubSeq(Query', e + 2, Len(Query'))
        /\ e + 2 \in 1..Len(Query') + 1
    BY <1>1, <1>5, <1>10
  <2> QED BY <1>13, <2>1 DEF ParseInv
<1> QED BY <1>11, <1>12, <1>13

\* The last pass takes the part up to the end.
LEMMA LastPairParse ==
    ASSUME Typed, ParseInv, LastPair
    PROVE  ParseInv'
<1>1. /\ Query' = Query /\ Fields' = Fields /\ UNCHANGED target
      /\ \A f : Decoded(f)' = Decoded(f)
  BY DEF LastPair, Query, Fields, Decoded
<1>2. Query \in Seq(Byte) /\ Len(Query) \in Nat
  BY QueryTyped
<1>3. PICK p \in 1..Len(Query) + 1 :
         /\ p = 1 \/ Query[p - 1] = Amp
         /\ query_string = SubSeq(Query, p, Len(Query))
         /\ Parsed(p)
  BY DEF LastPair, ParseInv
<1>4. PICK str, e : str = query_string /\ e = Len(Query)
  OBVIOUS
<1>5. str \in Seq(Byte) /\ Len(str) = (Len(Query) - p) + 1 /\ \A i \in 1..Len(str) : str[i] = Query[p + i - 1]
  BY <1>2, <1>3, <1>4
<1>6. \A i \in 1..Len(str) : str[i] # Amp
  BY <1>4, <1>5, FindByte DEF LastPair
<1>7. Part(p, e)
  <2>1. Len(Query) \in p - 1..Len(Query)
    BY <1>2
  <2>2. ASSUME NEW k \in p..Len(Query) PROVE Query[k] # Amp
    <3>1. k - p + 1 \in 1..Len(str) /\ p + (k - p + 1) - 1 = k
      BY <1>2, <1>5
    <3> QED BY <1>5, <1>6, <3>1
  <2> QED BY <1>3, <1>4, <2>1, <2>2 DEF Part
<1>8. \/ step' = "aborted" /\ \E f \in Fields : Decoded(f) = {}
      \/ step' = "done" /\ Parsed(e + 2)'
  <2>1. Put(SubSeq(Query, p, e), "done")
    BY <1>3, <1>4 DEF LastPair
  <2> QED BY <1>1, <1>3, <1>7, <2>1, PutPart
<1>9. CASE step' = "aborted" /\ \E f \in Fields : Decoded(f) = {}
  BY <1>1, <1>9 DEF ParseInv
<1>10. CASE step' = "done" /\ Parsed(e + 2)'
  <2>1. e = Len(Query')
    BY <1>1, <1>4
  <2> QED BY <1>10, <2>1 DEF ParseInv
<1> QED BY <1>8, <1>9, <1>10

\* Every step keeps it.
LEMMA NextParse == Typed /\ ParseInv /\ [Next]_vars => ParseInv'
<1> SUFFICES ASSUME Typed, ParseInv, [Next]_vars PROVE ParseInv'
  OBVIOUS
<1>1. CASE Ended \/ UNCHANGED vars
  <2>1. UNCHANGED <<target, step, query_string, _get_params>>
    BY <1>1 DEF Ended, vars
  <2>2. Query' = Query /\ Fields' = Fields /\ \A p : Before(p)' = Before(p)
    BY <2>1 DEF Query, Fields, Before
  <2>3. \A f : Decoded(f)' = Decoded(f)
    BY <2>2 DEF Decoded
  <2>4. \A p, k, v : Latest(p, k, v)' <=> Latest(p, k, v)
    BY <2>2, <2>3 DEF Latest
  <2>5. \A p : Parsed(p)' <=> Parsed(p)
    BY <2>1, <2>2, <2>3, <2>4 DEF Parsed
  <2> QED BY <2>1, <2>2, <2>3, <2>5 DEF ParseInv
<1> QED BY <1>1, FindParse, NextPairParse, LastPairParse DEF Next

\* A field decodes in at most one way.
LEMMA DecodedOnce ==
    ASSUME Typed, NEW f \in Fields, NEW d \in Decoded(f)
    PROVE  /\ d \in Field /\ d = <<d[1], d[2]>>
           /\ \A c \in Decoded(f) : c = d
<1>1. PICK p \in 1..Len(Query), e \in 1..Len(Query) : f = <<p, e>>
  BY DEF Fields
<1>2. Part(p, e)
  <2>1. Len(Query) \in Nat
    BY QueryTyped
  <2>2. PICK k \in p..e : Query[k] = Eq
    BY <1>1 DEF Fields
  <2>3. e \in p - 1..Len(Query) /\ p \in 1..Len(Query) + 1
    BY <1>1, <2>1, <2>2
  <2> QED BY <1>1, <2>3 DEF Part, Fields
<1>3. PICK pair, s : pair = SubSeq(Query, p, e) /\ s = Split(pair)
  OBVIOUS
<1>4. /\ pair \in Seq(Byte) /\ s # 0
      /\ Decoded(f) = UrlDecode(Prefix(pair, s)) \X UrlDecode(Suffix(pair, s))
  <2>1. \E k \in p..e : Query[k] = Eq
    BY <1>1 DEF Fields
  <2> QED BY <1>1, <1>2, <1>3, <2>1, PairOfPart
<1>5. Prefix(pair, s) \in Seq(Byte) /\ Suffix(pair, s) \in Seq(Byte)
  BY <1>3, <1>4, FoundCut DEF Split
<1>6. PICK key \in UrlDecode(Prefix(pair, s)), value \in UrlDecode(Suffix(pair, s)) : d = <<key, value>>
  BY <1>4
<1>7. /\ key \in Seq(Byte) /\ UrlDecode(Prefix(pair, s)) = {key}
      /\ value \in Seq(Byte) /\ UrlDecode(Suffix(pair, s)) = {value}
  BY <1>5, <1>6, Results
<1>8. Decoded(f) = {<<key, value>>}
  BY <1>4, <1>7
<1> QED BY <1>6, <1>7, <1>8 DEF Field

\* Every field of the query is a parameter with its own value, the last of those
\* with its key, nothing else is, and the program stops only at a malformed escape.
THEOREM FieldsParsed == Spec => []ParsesEveryField
<1>1. Typed /\ ParseInv => ParsesEveryField
  <2> SUFFICES ASSUME Typed, ParseInv, step = "done"
               PROVE  /\ \A f \in Fields : Decoded(f) # {}
                      /\ {<<k, _get_params[k]>> : k \in DOMAIN _get_params} =
                           UNION {Decoded(f) : f \in {f \in Fields :
                              \A g \in Fields : g[1] > f[1] =>
                                 \A d \in Decoded(f), x \in Decoded(g) : x[1] # d[1]}}
    BY DEF ParseInv, ParsesEveryField
  <2>1. Parsed(Len(Query) + 2)
    BY DEF ParseInv
  <2>2. Before(Len(Query) + 2) = Fields
    <3>1. Len(Query) \in Nat /\ \A f \in Fields : f[1] \in 1..Len(Query)
      BY QueryTyped DEF Fields
    <3>2. \A f \in Fields : f[1] < Len(Query) + 2
      BY <3>1
    <3> QED BY <3>2 DEF Before
  <2>3. \A f \in Fields : Decoded(f) # {}
    BY <2>1, <2>2 DEF Parsed
  <2> DEFINE Final == {f \in Fields : \A g \in Fields : g[1] > f[1] =>
                         \A d \in Decoded(f), x \in Decoded(g) : x[1] # d[1]}
  <2>4. ASSUME NEW k \in DOMAIN _get_params
        PROVE  \E f \in Final : <<k, _get_params[k]>> \in Decoded(f)
    <3>1. k \in Seq(Byte) /\ _get_params[k] \in Seq(Byte)
      BY DEF Typed, TypeOK
    <3>2. PICK v : v = _get_params[k]
      OBVIOUS
    <3>3. Latest(Len(Query) + 2, k, v)
      BY <2>1, <3>1, <3>2 DEF Parsed
    <3>4. PICK f \in Fields :
             /\ <<k, v>> \in Decoded(f)
             /\ \A g \in Fields : g[1] > f[1] => \A x \in Decoded(g) : x[1] # k
      BY <2>2, <3>3 DEF Latest
    <3>5. \A d \in Decoded(f) : d = <<k, v>>
      BY <3>4, DecodedOnce
    <3>6. \A d \in Decoded(f) : d[1] = k
      BY <3>5
    <3> QED BY <3>2, <3>4, <3>6
  <2>5. ASSUME NEW f \in Final, NEW d \in Decoded(f)
        PROVE  d[1] \in DOMAIN _get_params /\ d = <<d[1], _get_params[d[1]]>>
    <3>1. d \in Field /\ d = <<d[1], d[2]>>
      BY DecodedOnce
    <3>2. PICK k, v : k = d[1] /\ v = d[2]
      OBVIOUS
    <3>3. k \in Seq(Byte) /\ v \in Seq(Byte) /\ d = <<k, v>>
      BY <3>1, <3>2 DEF Field
    <3>4. \A g \in Fields : g[1] > f[1] => \A x \in Decoded(g) : x[1] # k
      BY <3>2
    <3>5. Latest(Len(Query) + 2, k, v)
      BY <2>2, <3>3, <3>4 DEF Latest
    <3>6. k \in DOMAIN _get_params /\ _get_params[k] = v
      BY <2>1, <3>3, <3>5 DEF Parsed
    <3> QED BY <3>2, <3>3, <3>6
  <2>6. {<<k, _get_params[k]>> : k \in DOMAIN _get_params} = UNION {Decoded(f) : f \in Final}
    <3> HIDE DEF Final
    <3>1. \A d : d \in {<<k, _get_params[k]>> : k \in DOMAIN _get_params}
                    => d \in UNION {Decoded(f) : f \in Final}
      BY <2>4
    <3>2. \A d : d \in UNION {Decoded(f) : f \in Final}
                    => d \in {<<k, _get_params[k]>> : k \in DOMAIN _get_params}
      BY <2>5
    <3> QED BY <3>1, <3>2
  <2> QED BY <2>3, <2>6
<1> QED BY <1>1, InitTyped, NextTyped, InitParse, NextParse, PTL DEF Spec
===============================================================================
