------------------------------ MODULE KeyText ------------------------------
(***************************************************************************)
(* What a lookup key says: the name jiter decodes from the raw bytes of a  *)
(* JSON string, its quotes included, and where those bytes stop being      *)
(* UTF-8.  A name is the byte sequence of a Rust String.  The functions    *)
(* model jiter's next_str and std::str::from_utf8 as complete_token calls  *)
(* them; the escapes have been checked by the lexer before.                *)
(***************************************************************************)
EXTENDS Bytes, FiniteSets

(* The well-formed UTF-8 characters, as the range of each of their bytes.  *)
Tail8 == 128 .. 191
Utf8Form ==
  { <<0 .. 127>>,
    <<194 .. 223, Tail8>>,
    <<{224}, 160 .. 191, Tail8>>,
    <<225 .. 236, Tail8, Tail8>>,
    <<{237}, 128 .. 159, Tail8>>,
    <<238 .. 239, Tail8, Tail8>>,
    <<{240}, 144 .. 191, Tail8, Tail8>>,
    <<241 .. 243, Tail8, Tail8, Tail8>>,
    <<{244}, 128 .. 143, Tail8, Tail8>> }

CharForms(k, i) ==
  { f \in Utf8Form : /\ i + Len(f) - 1 <= Len(k)
                     /\ \A j \in 1 .. Len(f) : k[i + j - 1] \in f[j] }

(* The first n bytes are text: each is in a character that ends among them.*)
(* A character cannot start inside another, so the characters tile them.   *)
IsText(k, n) ==
  \A i \in 1 .. n : \E j \in 1 .. i : \E f \in CharForms(k, j) :
     j + Len(f) - 1 \in i .. n

IsUtf8(k) == IsText(k, Len(k))

(* str::from_utf8(k).valid_up_to(): how many bytes are in a prefix that is *)
(* text.                                                                   *)
ValidUpTo(k) ==
  Cardinality({ i \in 1 .. Len(k) : \E n \in i .. Len(k) : IsText(k, n) })

(* The UTF-8 bytes of a code point.                                        *)
Cont(c, weight) == 128 + ((c \div weight) % 64)

Utf8(c) ==
  CASE c < 128            -> <<c>>
    [] c \in 128 .. 2047   -> <<192 + (c \div 64), Cont(c, 1)>>
    [] c \in 2048 .. 65535 -> <<224 + (c \div 4096), Cont(c, 64), Cont(c, 1)>>
    [] OTHER               -> <<240 + (c \div 262144), Cont(c, 4096),
                               Cont(c, 64), Cont(c, 1)>>

Unescape == [ b \in SimpleEscape |->
                CASE b = LowerB -> 8  [] b = LowerF -> 12 [] b = LowerN -> 10
                  [] b = LowerR -> 13 [] b = LowerT -> 9  [] OTHER -> b ]

Hex4(k, i) == HexValue(k[i]) * 4096 + HexValue(k[i + 1]) * 256
              + HexValue(k[i + 2]) * 16 + HexValue(k[i + 3])

(* A pair of surrogates makes one code point above the sixteen-bit plane.  *)
Paired(high, low) == 65536 + (high - 55296) * 1024 + (low - 56320)

(* The name a raw key spells, for a key the lexer has accepted.            *)
Decode(k) ==
  LET f[i \in 1 .. Len(k)] ==
        CASE i = Len(k)       -> <<>>
          [] k[i] # Backslash /\ i # Len(k) -> <<k[i]>> \o f[i + 1]
          [] k[i] = Backslash /\ i # Len(k) /\ k[i + 1] # LowerU
                              -> <<Unescape[k[i + 1]]>> \o f[i + 2]
          [] OTHER ->
               LET c == Hex4(k, i + 2)
               IN  IF c \in HighSurrogate
                   THEN Utf8(Paired(c, Hex4(k, i + 8))) \o f[i + 12]
                   ELSE Utf8(c) \o f[i + 6]
  IN  f[2]
=============================================================================
