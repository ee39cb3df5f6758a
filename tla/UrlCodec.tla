-------------------------------- MODULE UrlCodec --------------------------------
(***************************************************************************)
(* ToHex, FromHex, UrlEncode and UrlDecode of HttpConnection.cpp, on bytes *)
(* as numbers.  The asserts are active (no build type is set, so NDEBUG is *)
(* not), and stop the program.                                             *)
(***************************************************************************)
EXTENDS Integers, SequencesExt

Byte == 0..255

Digits == 48..57
Upper == 65..90
Lower == 97..122

Space == 32
Percent == 37
Amp == 38
Plus == 43
Eq == 61
Question == 63

\* isalnum in the "C" locale, and - _ . ~
Unreserved == Digits \cup Upper \cup Lower \cup {45, 95, 46, 126}

ToHex(x) == IF x > 9 THEN x + 55 ELSE x + 48

\* The bytes FromHex takes without stopping: all letters, not only A to F.
HexByte == Digits \cup Upper \cup Lower

FromHex(x) == IF x \in Upper THEN x - 55 ELSE IF x \in Lower THEN x - 87 ELSE x - 48

\* Mutated form of Join: the sum is not cut to a char.
JoinWide(high, low) == high * 16 + low

\* high * 16 + low, appended to a string as a char.
Join(high, low) == (high * 16 + low) % 256

\* Mutated form of EncodeByte: only bytes with a meaning in a query are escaped.
EncodeReserved(b) ==
    IF b \in {Percent, Amp, Plus, Question}
      THEN <<Percent, ToHex(b \div 16), ToHex(b % 16)>> ELSE <<b>>

EncodeByte(b) ==
    IF b \in Unreserved THEN <<b>>
    ELSE IF b = Space THEN <<Plus>>
    ELSE <<Percent, ToHex(b \div 16), ToHex(b % 16)>>

UrlEncode(str) == FlattenSeq([i \in DOMAIN str |-> EncodeByte(str[i])])

\* A byte put before each of the results for the rest.
Prepend(b, rest) == {<<b>> \o r : r \in rest}

\* The results of decoding str from position i on, which are none if an assert
\* stops the program; from holds those of later positions.
DecodeFrom(str, from, i) ==
    IF i > Len(str) THEN {<<>>}
    ELSE IF str[i] = Plus THEN Prepend(Space, from[i + 1])
    ELSE IF str[i] # Percent THEN Prepend(str[i], from[i + 1])
    ELSE IF i + 2 <= Len(str) /\ str[i + 1] \in HexByte /\ str[i + 2] \in HexByte
      THEN Prepend(Join(FromHex(str[i + 1]), FromHex(str[i + 2])), from[i + 3])
    ELSE {}

\* The decoded string, or nothing if an assert stops the program.
UrlDecode(str) ==
    LET from[i \in 1..Len(str) + 1] == DecodeFrom(str, from, i) IN from[1]
===============================================================================
