----------------------------- MODULE UuidFields -----------------------------
(***************************************************************************)
(* An id as its 16 bytes, most significant first: what uuid_v7_from_parts  *)
(* of src/src/lib.rs puts where, at the real widths of the fields, and     *)
(* what the accessors of the Python UUID class read there.  UuidLayout has *)
(* the same layout as a number, for fields of any width.                   *)
(***************************************************************************)
EXTENDS Integers, SequencesExt

\* A timestamp of 6 bytes, 12 bits rand_a, 8 bytes rand_b cut to 62 bits.
uuid_v7_bytes(timestamp, rand_a, rand_b) ==
    timestamp
        \o <<7 * 16 + (rand_a \div 256), rand_a % 256, 2 * 64 + (rand_b[1] % 64)>>
        \o SubSeq(rand_b, 2, 8)

\* The getters time and timestamp, and version.
time(id) == SubSeq(id, 1, 6)
version(id) == id[7] \div 16

variant(id) ==
    CASE id[9] \div 128 = 0 -> "reserved for NCS compatibility"
      [] id[9] \div 64 = 2  -> "specified in RFC 4122"
      [] id[9] \div 32 = 6  -> "reserved for Microsoft compatibility"
      [] OTHER -> "reserved for future definition"

\* Mutant of fields: the clock sequence is read one byte early.
fields_shifted(id) ==
    <<SubSeq(id, 1, 4), SubSeq(id, 5, 6), SubSeq(id, 7, 8),
      SubSeq(id, 8, 8), SubSeq(id, 9, 9), SubSeq(id, 11, 16)>>

\* Time low, mid and high with version, clock sequence high and low, and node.
fields(id) ==
    <<SubSeq(id, 1, 4), SubSeq(id, 5, 6), SubSeq(id, 7, 8),
      SubSeq(id, 9, 9), SubSeq(id, 10, 10), SubSeq(id, 11, 16)>>
=============================================================================
