----------------------------- MODULE UuidLayout -----------------------------
(***************************************************************************)
(* The 128-bit layout of a UUID v7 as src/src/lib.rs packs it, read as the *)
(* number the code returns: 48 bits of timestamp, the version nibble 7, 12 *)
(* bits rand_a, the two variant bits 10, 62 bits rand_b.  A field of n     *)
(* bits is a digit of base 2^n, so a shift is a multiplication and an OR   *)
(* of disjoint fields an addition.  The bases are parameters: TLC takes    *)
(* small ones, the proofs none in particular.                              *)
(***************************************************************************)
EXTENDS Integers

CONSTANTS
    TsMod,        \* 2^48: a timestamp wider than this is cut off
    RandAMod,     \* 2^12: values of rand_a
    CtrLowMod,    \* 2^6:  counter values kept in the top bits of rand_b
    RandLowMod    \* 2^56: values of the random bits below the counter

ASSUME LayoutAssumption ==
    /\ TsMod \in Nat \ {0}
    /\ RandAMod \in Nat \ {0}
    /\ CtrLowMod \in Nat \ {0}
    /\ RandLowMod \in Nat \ {0}

Version == 7
Variant == 2
RandBMod == CtrLowMod * RandLowMod

\* Appends a digit of the given base below the number `high`.
Pack(high, base, digit) == high * base + digit

\* The shift by 80 drops what lies above 48 bits; rand_b is masked to 62 bits;
\* rand_a is not masked, every caller keeps it under RandAMod.
uuid_v7_from_parts(timestamp_ms, rand_a, rand_b) ==
    Pack(Pack(Pack(Pack(timestamp_ms % TsMod, 16, Version),
                   RandAMod, rand_a),
              4, Variant),
         RandBMod, rand_b % RandBMod)

\* The 18-bit counter of gen_id_with_count and SequentialGenerator::next_id:
\* its high 12 bits are rand_a, its low 6 the high bits of rand_b.
counter_id(timestamp_ms, counter, rand_b_low) ==
    uuid_v7_from_parts(timestamp_ms,
                       (counter \div CtrLowMod) % RandAMod,
                       Pack(counter % CtrLowMod, RandLowMod, rand_b_low))

\* High bits of rand_a from the sub-millisecond fraction, the rest random.
\* `slots` is 2^bits, so RandAMod \div slots is 2^random_bits.
compose_rand_a(random, fraction, slots) ==
    LET random_slots == RandAMod \div slots
    IN  Pack(fraction % slots, random_slots, random % random_slots)

\* Fields of an id as a reader decodes them.
TimestampOf(id) == id \div (16 * RandAMod * 4 * RandBMod)
=============================================================================
