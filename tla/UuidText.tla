------------------------------ MODULE UuidText ------------------------------
(***************************************************************************)
(* Ids as text: format_uuid and format_uuid_hex of src/src/lib.rs in their *)
(* scalar, SSSE3 and NEON bodies, the choice between them, and             *)
(* parse_uuid_text of the Python module.  An id is its 16 bytes, most      *)
(* significant first; a text is a sequence of ASCII codes.                 *)
(*                                                                         *)
(* On x86 without SSSE3 at compile time the choice is made at run time and *)
(* cached in a relaxed atomic that the threads race to fill.               *)
(***************************************************************************)
EXTENDS UuidFields

CONSTANTS
    Callers,    \* threads that format ids
    Bytes,      \* bound: the values of the bytes that vary
    Varying     \* bound: their positions; the other bytes are 0x7A

ASSUME TextAssumption ==
    /\ Bytes \subseteq 0 .. 255
    /\ Varying \subseteq 1 .. 16

Ids == { [k \in 1 .. 16 |-> IF k \in Varying THEN f[k] ELSE 122] :
             f \in [Varying -> Bytes] }

Dash == 45
HEX == <<48, 49, 50, 51, 52, 53, 54, 55, 56, 57, 97, 98, 99, 100, 101, 102>>

-----------------------------------------------------------------------------
(* Scalar *)

\* Mutant of hex_pairs: the nibbles change places.
hex_pairs_swapped(byte) == <<HEX[(byte % 16) + 1], HEX[(byte \div 16) + 1]>>

hex_pairs(byte) == <<HEX[(byte \div 16) + 1], HEX[(byte % 16) + 1]>>

\* Where the pair of each byte goes; positions 8, 13, 18 and 23 hold a dash.
ScalarOffset == <<0, 2, 4, 6, 9, 11, 14, 16, 19, 21, 24, 26, 28, 30, 32, 34>>

format_uuid_scalar(id) ==
    [p \in 1 .. 36 |->
        IF p - 1 \in {8, 13, 18, 23} THEN Dash
        ELSE LET k == CHOOSE k \in 1 .. 16 : p - 1 - ScalarOffset[k] \in {0, 1}
             IN  hex_pairs(id[k])[p - ScalarOffset[k]]]

format_uuid_hex_scalar(id) ==
    [p \in 1 .. 32 |-> hex_pairs(id[(p + 1) \div 2])[((p - 1) % 2) + 1]]

-----------------------------------------------------------------------------
(* SSSE3 and NEON *)

\* The low and the high half of two vectors, byte by byte in turn.
unpacklo(a, b) == [p \in 1 .. 16 |-> IF p % 2 = 1 THEN a[(p + 1) \div 2] ELSE b[p \div 2]]
unpackhi(a, b) == unpacklo(SubSeq(a, 9, 16), SubSeq(b, 9, 16))

\* A shift of the eight little-endian 16-bit lanes: the low byte of a lane
\* receives the low nibble of the high one, which the mask takes off again.
srli_epi16(a) ==
    [p \in 1 .. 16 |->
        IF p % 2 = 1 THEN ((a[p] + 256 * a[p + 1]) \div 16) % 256 ELSE a[p] \div 16]

shuffle(nibbles) == [p \in 1 .. 16 |-> HEX[nibbles[p] + 1]]

format_uuid_hex_simd(id) ==
    LET lo == [p \in 1 .. 16 |-> id[p] % 16]
        hi == [p \in 1 .. 16 |-> srli_epi16(id)[p] % 16]
    IN  shuffle(unpacklo(hi, lo)) \o shuffle(unpackhi(hi, lo))

format_uuid_hex_neon(id) ==
    LET lo == [p \in 1 .. 16 |-> id[p] % 16]
        hi == [p \in 1 .. 16 |-> id[p] \div 16]
    IN  shuffle(unpacklo(hi, lo)) \o shuffle(unpackhi(hi, lo))

\* Mutant of uuid_string_from_hex: the first two groups change places.
uuid_string_from_hex_swapped(hex) ==
    SubSeq(hex, 5, 12) \o <<Dash>> \o SubSeq(hex, 1, 4) \o <<Dash>>
        \o SubSeq(hex, 13, 16) \o <<Dash>> \o SubSeq(hex, 17, 20) \o <<Dash>>
        \o SubSeq(hex, 21, 32)

uuid_string_from_hex(hex) ==
    SubSeq(hex, 1, 8) \o <<Dash>> \o SubSeq(hex, 9, 12) \o <<Dash>>
        \o SubSeq(hex, 13, 16) \o <<Dash>> \o SubSeq(hex, 17, 20) \o <<Dash>>
        \o SubSeq(hex, 21, 32)

-----------------------------------------------------------------------------
(* The parser *)

DigitOf(char) ==
    CASE char \in 48 .. 57  -> char - 48
      [] char \in 97 .. 102 -> char - 87
      [] char \in 65 .. 70  -> char - 55
      [] OTHER -> -1

Failed == <<-1>>

\* Mutant of ParseByte: a digit too many is dropped.
ParseByteLenient(digits, char) ==
    IF char = Dash \/ digits = Failed THEN digits
    ELSE IF DigitOf(char) = -1 THEN Failed
    ELSE IF Len(digits) = 32 THEN digits
    ELSE Append(digits, DigitOf(char))

\* One turn of the loop: the digits so far, or Failed.
ParseByte(digits, char) ==
    IF char = Dash \/ digits = Failed THEN digits
    ELSE IF DigitOf(char) = -1 \/ Len(digits) = 32 THEN Failed
    ELSE Append(digits, DigitOf(char))

\* The digits of the first n bytes, for each n.
DigitsRead(text) ==
    LET read[n \in 0 .. Len(text)] ==
            IF n = 0 THEN <<>> ELSE ParseByte(read[n - 1], text[n])
    IN  read

parse_uuid_text(text) ==
    LET digits == DigitsRead(text)[Len(text)]
    IN  IF digits = Failed \/ Len(digits) # 32 THEN Failed
        ELSE [k \in 1 .. 16 |-> 16 * digits[2 * k - 1] + digits[2 * k]]

-----------------------------------------------------------------------------
(* The choice of a formatter, by threads *)

VARIABLES
    build,      \* what the crate was compiled for
    has_ssse3,  \* what the CPU has
    X86_FORMATTER,
    stage,      \* where each thread is in format_uuid or format_uuid_hex
    arg,        \* its argument
    text,       \* what it returned last
    hex,        \* whether that is the form without dashes
    ran         \* history: the formatter body that made it

text_vars == <<build, has_ssse3, X86_FORMATTER, stage, arg, text, hex, ran>>

Builds == {"x86", "x86_ssse3", "aarch64", "other"}

TextInit ==
    /\ build \in Builds
    /\ has_ssse3 \in BOOLEAN
    /\ build = "x86_ssse3" => has_ssse3
    /\ X86_FORMATTER = 0
    /\ stage = [t \in Callers |-> "start"]
    /\ arg \in [Callers -> Ids]
    /\ text = [t \in Callers |-> <<>>]
    /\ hex = [t \in Callers |-> FALSE]
    /\ ran = [t \in Callers |-> "none"]

\* The body a call runs: SSSE3 code where it was told so, else the build's own.
BodyFor(simd) ==
    CASE simd -> "ssse3"
      [] ~simd /\ build = "aarch64" -> "neon"
      [] ~simd /\ build # "aarch64" -> "scalar"

dashed_by(body, id) ==
    CASE body = "ssse3"  -> uuid_string_from_hex(format_uuid_hex_simd(id))
      [] body = "neon"   -> uuid_string_from_hex(format_uuid_hex_neon(id))
      [] body = "scalar" -> format_uuid_scalar(id)

hex_by(body, id) ==
    CASE body = "ssse3"  -> format_uuid_hex_simd(id)
      [] body = "neon"   -> format_uuid_hex_neon(id)
      [] body = "scalar" -> format_uuid_hex_scalar(id)

Format(t, simd) ==
    /\ ran' = [ran EXCEPT ![t] = BodyFor(simd)]
    /\ \/ /\ text' = [text EXCEPT ![t] = dashed_by(BodyFor(simd), arg[t])]
          /\ hex' = [hex EXCEPT ![t] = FALSE]
       \/ /\ text' = [text EXCEPT ![t] = hex_by(BodyFor(simd), arg[t])]
          /\ hex' = [hex EXCEPT ![t] = TRUE]

\* Mutant of FormatChosen: an empty cache passes for a CPU that has SSSE3.
FormatChosenUnasked(t) ==
    /\ stage[t] = "start"
    /\ \/ build # "x86" /\ Format(t, build = "x86_ssse3")
       \/ build = "x86" /\ Format(t, X86_FORMATTER # 1)
    /\ stage' = [stage EXCEPT ![t] = "done"]
    /\ UNCHANGED <<build, has_ssse3, X86_FORMATTER, arg>>

\* Every build but one knows at compile time; that one loads what was detected.
FormatChosen(t) ==
    /\ stage[t] = "start"
    /\ \/ build # "x86" /\ Format(t, build = "x86_ssse3")
       \/ build = "x86" /\ X86_FORMATTER # 0 /\ Format(t, X86_FORMATTER = 2)
    /\ stage' = [stage EXCEPT ![t] = "done"]
    /\ UNCHANGED <<build, has_ssse3, X86_FORMATTER, arg>>

Undetected(t) ==
    /\ stage[t] = "start"
    /\ build = "x86"
    /\ X86_FORMATTER = 0
    /\ stage' = [stage EXCEPT ![t] = "detect"]
    /\ UNCHANGED <<build, has_ssse3, X86_FORMATTER, arg, text, hex, ran>>

\* Mutant of Detect: the two answers change places in the cache.
DetectSwapped(t) ==
    /\ stage[t] = "detect"
    /\ X86_FORMATTER' = IF has_ssse3 THEN 1 ELSE 2
    /\ Format(t, has_ssse3)
    /\ stage' = [stage EXCEPT ![t] = "done"]
    /\ UNCHANGED <<build, has_ssse3, arg>>

\* The answer is the same for every thread that comes this far.
Detect(t) ==
    /\ stage[t] = "detect"
    /\ X86_FORMATTER' = IF has_ssse3 THEN 2 ELSE 1
    /\ Format(t, has_ssse3)
    /\ stage' = [stage EXCEPT ![t] = "done"]
    /\ UNCHANGED <<build, has_ssse3, arg>>

TextNext == \E t \in Callers : FormatChosen(t) \/ Undetected(t) \/ Detect(t)

TextSpec == TextInit /\ [][TextNext]_text_vars

-----------------------------------------------------------------------------
(* Properties *)

\* Every variable keeps its range; the cached answer, once there is one, is
\* what the CPU has.
TextTypeOK ==
    /\ build \in Builds
    /\ X86_FORMATTER \in {0, IF has_ssse3 THEN 2 ELSE 1}
    /\ X86_FORMATTER # 0 => build = "x86"
    /\ stage \in [Callers -> {"start", "detect", "done"}]
    /\ arg \in [Callers -> Ids]
    /\ \A t \in Callers : Len(text[t]) \in {0, IF hex[t] THEN 32 ELSE 36}
    /\ ran \in [Callers -> {"none", "scalar", "ssse3", "neon"}]

Done(t) == stage[t] = "done"

\* The formatter a build has for its CPU.
CpuFormatter ==
    CASE build = "aarch64" -> "neon"
      [] build \in {"x86", "x86_ssse3"} /\ has_ssse3 -> "ssse3"
      [] build = "other" \/ (build # "aarch64" /\ ~has_ssse3) -> "scalar"

\* "x86_has_ssse3 verifies SSSE3 support before calling": whichever threads
\* find the cache empty or filled, in whatever order they detect and store,
\* SSSE3 code runs on a CPU that has it and on no other, NEON code on aarch64.
FormatterOfCpu == \A t \in Callers : Done(t) => ran[t] = CpuFormatter

\* a sorts before b, as texts and as big-endian numbers do.
Before(a, b) ==
    \E k \in 1 .. Len(a) : a[k] < b[k] /\ \A j \in 1 .. k - 1 : a[j] = b[j]

\* "In both numeric and lexicographic (formatted string) order": the texts of
\* any two threads sort as their ids do, whichever formatter each has used.
TextOrder ==
    \A t, u \in Callers :
        Done(t) /\ Done(u) /\ hex[t] = hex[u] =>
            (Before(text[t], text[u]) <=> Before(arg[t], arg[u]))

\* Whatever formatter made it, the parser reads the id back.
RoundTrip == \A t \in Callers : Done(t) => parse_uuid_text(text[t]) = arg[t]

HexOf(bytes) ==
    [p \in 1 .. 2 * Len(bytes) |-> hex_pairs(bytes[(p + 1) \div 2])[((p - 1) % 2) + 1]]

\* Texts next to a correct one: a character lost, repeated, in capitals or
\* not a digit at all, at the ends or next to a dash.
Neighbours(s) ==
    LET places == {1, 8, 9, Len(s)}
    IN  {RemoveAt(s, k) : k \in places}
        \cup {InsertAt(s, k, s[k]) : k \in places}
        \cup {[s EXCEPT ![k] = c] : k \in places, c \in {Dash, 65, 71, 58}}

\* What the getters say of an id is what it was made of, and what its text
\* shows: time, version and variant are those a generator gave it, and the
\* fields are the groups of the text, read as numbers.
ReaderSeesParts ==
    \A t \in Callers : Done(t) =>
        LET rand_a == 256 * (arg[t][7] % 16) + arg[t][8]
            made == uuid_v7_bytes(SubSeq(arg[t], 1, 6), rand_a, SubSeq(arg[t], 9, 16))
            f == fields(arg[t])
            dash == IF hex[t] THEN <<>> ELSE <<Dash>>
        IN  /\ time(made) = time(arg[t])
            /\ version(made) = 7
            /\ variant(made) = "specified in RFC 4122"
            /\ made = arg[t] <=>
                   version(arg[t]) = 7 /\ variant(arg[t]) = "specified in RFC 4122"
            /\ text[t] = HexOf(f[1]) \o dash \o HexOf(f[2]) \o dash \o HexOf(f[3])
                             \o dash \o HexOf(f[4]) \o HexOf(f[5]) \o dash \o HexOf(f[6])

IsDigit(c) == c \in 48 .. 57 \cup 65 .. 70 \cup 97 .. 102

\* The parser takes exactly the texts of 32 hexadecimal digits, with dashes
\* anywhere, and refuses what is one character away from them.
ParserExact ==
    \A t \in Callers : Done(t) =>
        \A s \in Neighbours(text[t]) :
            parse_uuid_text(s) # Failed <=>
                LET digits == {k \in 1 .. Len(s) : s[k] # Dash}
                IN  Cardinality(digits) = 32 /\ \A k \in digits : IsDigit(s[k])
=============================================================================
