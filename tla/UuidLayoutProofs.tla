-------------------------- MODULE UuidLayoutProofs --------------------------
(***************************************************************************)
(* Order facts of the packing, for every choice of the field widths: a     *)
(* larger high part wins whatever stands below it, so ids compare as the   *)
(* pairs (timestamp, counter) they were made from.  The facts on quotients *)
(* and remainders are what the proofs about clocks rest on as well.        *)
(***************************************************************************)
EXTENDS UuidLayout, TLAPS

\* Appending a digit keeps a natural number a natural number.
LEMMA PackNat ==
    ASSUME NEW high \in Nat, NEW base \in Nat, NEW digit \in Nat
    PROVE  Pack(high, base, digit) \in Nat
BY DEF Pack

\* A smaller high part makes a smaller number, whatever the digits below.
LEMMA PackHigh ==
    ASSUME NEW x \in Nat, NEW y \in Nat, x < y,
           NEW base \in Nat,
           NEW a \in 0 .. base - 1, NEW b \in Nat
    PROVE  Pack(x, base, a) < Pack(y, base, b)
<1>1. PICK k \in Nat : y = x + 1 + k
    <2>1. y - x - 1 \in Nat /\ y = x + 1 + (y - x - 1)
        OBVIOUS
    <2> QED BY <2>1
<1>2. y * base = x * base + base + k * base
    BY <1>1
<1>3. k * base \in Nat /\ x * base \in Nat /\ y * base \in Nat
    OBVIOUS
<1>4. x * base + a < y * base + b
    BY <1>2, <1>3
<1> QED
    BY <1>4 DEF Pack

\* Under the same high part the digits decide.
LEMMA PackLow ==
    ASSUME NEW x \in Nat, NEW base \in Nat,
           NEW a \in Nat, NEW b \in Nat, a < b
    PROVE  Pack(x, base, a) < Pack(x, base, b)
<1>1. x * base \in Nat
    OBVIOUS
<1> QED
    BY <1>1 DEF Pack

\* A remainder is a digit of its base.
LEMMA ModIsDigit ==
    ASSUME NEW n \in Nat, NEW base \in Nat \ {0}
    PROVE  n % base \in 0 .. base - 1
OBVIOUS

\* Below the base, the remainder is the number.
LEMMA ModOfSmall ==
    ASSUME NEW base \in Nat \ {0}, NEW n \in 0 .. base - 1
    PROVE  n % base = n
OBVIOUS

\* Splitting a number at a base and packing the parts gives it back.
LEMMA DivMod ==
    ASSUME NEW n \in Nat, NEW base \in Nat \ {0}
    PROVE  /\ n \div base \in Nat
           /\ n % base \in 0 .. base - 1
           /\ n = (n \div base) * base + (n % base)
OBVIOUS

\* The high part of a number below base * count is a digit of base count.
LEMMA DivIsDigit ==
    ASSUME NEW count \in Nat \ {0}, NEW base \in Nat \ {0},
           NEW n \in 0 .. count * base - 1
    PROVE  n \div base \in 0 .. count - 1
<1>0. n \in Nat
    <2>1. count * base \in Nat
        OBVIOUS
    <2> QED BY <2>1
<1>1. n \div base \in Nat /\ n = (n \div base) * base + (n % base)
      /\ n % base \in 0 .. base - 1
    BY <1>0, DivMod
<1>2. SUFFICES ASSUME count <= n \div base PROVE FALSE
    BY <1>1
<1>3. PICK k \in Nat : n \div base = count + k
    <2>1. n \div base - count \in Nat
          /\ n \div base = count + (n \div base - count)
        BY <1>1, <1>2
    <2> QED BY <2>1
<1>4. (n \div base) * base = count * base + k * base
    BY <1>3
<1>5. k * base \in Nat /\ count * base \in Nat
    OBVIOUS
<1> QED
    BY <1>1, <1>4, <1>5

\* Quotient and remainder are the only way to split a number at a base.
LEMMA DivUnique ==
    ASSUME NEW base \in Nat \ {0}, NEW high \in Nat, NEW digit \in 0 .. base - 1
    PROVE  Pack(high, base, digit) \div base = high
<1> DEFINE n == Pack(high, base, digit)
<1>1. n \in Nat
    BY PackNat
<1>2. PICK q \in Nat, r \in Nat :
          q = n \div base /\ r < base /\ n = Pack(q, base, r)
    BY <1>1, DivMod DEF Pack
<1>3. ~(q < high)
    <2>1. ASSUME q < high PROVE Pack(q, base, r) < n
        <3>1. r \in 0 .. base - 1 /\ digit \in Nat
            BY <1>2
        <3> QED BY <2>1, <3>1, PackHigh
    <2> QED BY <1>1, <1>2, <2>1
<1>4. ~(high < q)
    <2>1. ASSUME high < q PROVE n < Pack(q, base, r)
        BY <2>1, PackHigh
    <2> QED BY <1>1, <1>2, <2>1
<1> QED
    BY <1>2, <1>3, <1>4

\* An integer splits at a base as a natural number does.
LEMMA SplitInt ==
    ASSUME NEW m \in Nat \ {0}, NEW a \in Int
    PROVE  /\ a \div m \in Int
           /\ a % m \in 0 .. m - 1
           /\ a = (a \div m) * m + (a % m)
OBVIOUS

\* Whole multiples of the modulus do not change a remainder.
LEMMA ModPlusMultiple ==
    ASSUME NEW m \in Nat \ {0}, NEW a \in Int, NEW b \in Int, NEW k \in Int,
           b = a + k * m
    PROVE  b % m = a % m
<1>1. PICK q \in Int, r \in 0 .. m - 1 : r = a % m /\ a = q * m + r
    BY SplitInt
<1>2. PICK p \in Int, s \in 0 .. m - 1 : s = b % m /\ b = p * m + s
    BY SplitInt
<1>3. PICK j \in Int : j = q + k - p
    OBVIOUS
<1>4. j * m = s - r
    <2>1. PICK x \in Int, y \in Int, z \in Int :
              x = q * m /\ y = k * m /\ z = p * m /\ j * m = x + y - z
        BY <1>3
    <2>2. a = x + r /\ b = z + s /\ b = a + y /\ r \in Int /\ s \in Int
        BY <1>1, <1>2, <2>1
    <2> QED BY <2>1, <2>2
<1>5. ~(j >= 1)
    <2>1. j >= 1 => j * m >= m
        <3>1. ASSUME j >= 1 PROVE j * m >= m
            <4>1. PICK i \in Nat : j = i + 1
                BY <3>1, j - 1 \in Nat
            <4>2. j * m = i * m + m /\ i * m \in Nat
                BY <4>1
            <4> QED BY <4>2
        <3> QED BY <3>1
    <2> QED BY <1>4, <2>1
<1>6. ~(j <= -1)
    <2>1. ASSUME j <= -1 PROVE j * m <= -m
        <3>1. PICK i \in Nat : j = -i - 1
            BY <2>1, -j - 1 \in Nat
        <3>2. j * m = -(i * m) - m /\ i * m \in Nat
            BY <3>1
        <3> QED BY <3>2
    <2> QED BY <1>4, <2>1
<1>7. j = 0
    BY <1>5, <1>6
<1>8. s = r
    BY <1>4, <1>7
<1> QED
    BY <1>1, <1>2, <1>8

\* A sum may be reduced before it is complete.
LEMMA ModThenAdd ==
    ASSUME NEW m \in Nat \ {0}, NEW a \in Int, NEW b \in Int
    PROVE  ((a % m) + b) % m = (a + b) % m
<1>1. PICK q \in Int, r \in 0 .. m - 1 : r = a % m /\ a = q * m + r
    BY SplitInt
<1>2. PICK x \in Int : x = q * m
    OBVIOUS
<1>3. a + b = (r + b) + q * m
    BY <1>1, <1>2
<1>4. r + b \in Int /\ a + b \in Int
    OBVIOUS
<1> QED
    BY <1>1, <1>3, <1>4, ModPlusMultiple

\* Below a multiple of the divisor, so is the quotient.
LEMMA DivBelow ==
    ASSUME NEW n \in Nat \ {0}, NEW a \in Int, NEW q \in Int, a < (q + 1) * n
    PROVE  a \div n <= q
<1>1. PICK p \in Int, r \in 0 .. n - 1 : p = a \div n /\ a = p * n + r
    BY SplitInt
<1>2. ~(p > q)
    <2> SUFFICES ASSUME p > q PROVE FALSE
        OBVIOUS
    <2>1. PICK k \in Nat : p = (q + 1) + k
        <3>1. p - q - 1 \in Nat /\ p = (q + 1) + (p - q - 1)
            OBVIOUS
        <3> QED BY <3>1
    <2>2. PICK x \in Int, y \in Nat : x = (q + 1) * n /\ y = k * n /\ p * n = x + y
        BY <2>1
    <2> QED BY <1>1, <2>2
<1> QED
    BY <1>1, <1>2

\* Quotients keep the order.
LEMMA DivMonotone ==
    ASSUME NEW a \in Int, NEW b \in Int, a <= b, NEW n \in Nat \ {0}
    PROVE  a \div n <= b \div n
<1>1. PICK q \in Int, r \in 0 .. n - 1 : q = b \div n /\ b = q * n + r
    BY SplitInt
<1>2. b < (q + 1) * n
    <2>1. PICK x \in Int : x = q * n /\ (q + 1) * n = x + n
        OBVIOUS
    <2> QED BY <1>1, <2>1
<1>3. a < (q + 1) * n
    <2>1. (q + 1) * n \in Int
        OBVIOUS
    <2> QED BY <1>2, <2>1
<1> QED
    BY <1>1, <1>3, DivBelow

\* Multiplying by a natural number keeps the order; by a positive one, it can
\* be taken back.
LEMMA TimesOrder ==
    ASSUME NEW a \in Int, NEW b \in Int, NEW n \in Nat
    PROVE  /\ a * n \in Int
           /\ a \in Nat => a * n \in Nat
           /\ a <= b => a * n <= b * n
           /\ n # 0 /\ a * n <= b * n => a <= b
<1>1. a * n \in Int /\ (a \in Nat => a * n \in Nat)
    OBVIOUS
<1>2. ASSUME a <= b PROVE a * n <= b * n
    <2>1. PICK k \in Nat : b = a + k
        BY <1>2, b - a \in Nat
    <2>2. b * n = a * n + k * n /\ k * n \in Nat /\ a * n \in Int
        BY <2>1
    <2> QED BY <2>2
<1>3. ASSUME n # 0, b < a PROVE b * n < a * n
    <2>1. PICK k \in Nat : a = b + k + 1
        BY <1>3, a - b - 1 \in Nat
    <2>2. a * n = b * n + k * n + n /\ k * n \in Nat /\ b * n \in Int
        BY <2>1
    <2> QED BY <1>3, <2>2
<1>4. a * n \in Int /\ b * n \in Int
    OBVIOUS
<1> QED
    BY <1>1, <1>2, <1>3, <1>4

\* Two digits appended in turn are one digit of the product base.
LEMMA PackTwice ==
    ASSUME NEW high \in Nat, NEW b1 \in Nat \ {0}, NEW b2 \in Nat \ {0},
           NEW d1 \in 0 .. b1 - 1, NEW d2 \in 0 .. b2 - 1
    PROVE  /\ Pack(Pack(high, b1, d1), b2, d2) = Pack(high, b1 * b2, Pack(d1, b2, d2))
           /\ Pack(d1, b2, d2) \in 0 .. b1 * b2 - 1
           /\ b1 * b2 \in Nat \ {0}
<1>1. (high * b1 + d1) * b2 + d2 = high * (b1 * b2) + (d1 * b2 + d2)
    <2>1. (high * b1 + d1) * b2 = high * (b1 * b2) + d1 * b2
        OBVIOUS
    <2>2. high * (b1 * b2) \in Nat /\ d1 * b2 \in Nat
        OBVIOUS
    <2> QED BY <2>1, <2>2
<1>2. Pack(d1, b2, d2) < Pack(b1, b2, 0)
    BY PackHigh
<1>3. Pack(d1, b2, d2) \in Nat /\ b1 * b2 \in Nat \ {0}
    <2>1. d1 \in Nat /\ d2 \in Nat
        OBVIOUS
    <2>2. b1 * b2 \in Nat \ {0}
        OBVIOUS
    <2> QED BY <2>1, <2>2, PackNat
<1>4. Pack(b1, b2, 0) = b1 * b2
    BY <1>3 DEF Pack
<1> QED
    BY <1>1, <1>2, <1>3, <1>4 DEF Pack

\* What the counter is split into can be put together again: a larger counter
\* has a larger rand_a, or the same rand_a and a larger part in rand_b.
LEMMA CounterSplit ==
    ASSUME NEW c \in 0 .. RandAMod * CtrLowMod - 1,
           NEW d \in 0 .. RandAMod * CtrLowMod - 1, c < d
    PROVE  /\ c \div CtrLowMod \in 0 .. RandAMod - 1
           /\ d \div CtrLowMod \in 0 .. RandAMod - 1
           /\ \/ c \div CtrLowMod < d \div CtrLowMod
              \/ /\ c \div CtrLowMod = d \div CtrLowMod
                 /\ c % CtrLowMod < d % CtrLowMod
<1> USE LayoutAssumption
<1>0. c \in Nat /\ d \in Nat
    <2>1. RandAMod * CtrLowMod \in Nat
        OBVIOUS
    <2> QED BY <2>1
<1>1. /\ c \div CtrLowMod \in 0 .. RandAMod - 1
      /\ d \div CtrLowMod \in 0 .. RandAMod - 1
    BY DivIsDigit
<1> DEFINE ch == c \div CtrLowMod
           dh == d \div CtrLowMod
           cl == c % CtrLowMod
           dl == d % CtrLowMod
<1>2. /\ ch \in Nat /\ cl \in 0 .. CtrLowMod - 1 /\ c = Pack(ch, CtrLowMod, cl)
      /\ dh \in Nat /\ dl \in 0 .. CtrLowMod - 1 /\ d = Pack(dh, CtrLowMod, dl)
    BY <1>0, DivMod DEF Pack
<1> HIDE DEF ch, dh, cl, dl
<1>3. ASSUME ~(ch < dh), ~(ch = dh /\ cl < dl)
      PROVE  FALSE
    <2>1. CASE dh < ch
        <3>1. Pack(dh, CtrLowMod, dl) < Pack(ch, CtrLowMod, cl)
            BY <1>2, <2>1, PackHigh
        <3> QED
            BY <3>1, <1>0, <1>2
    <2>2. CASE ch = dh /\ dl <= cl
        <3>1. CASE dl = cl
            BY <1>0, <1>2, <2>2, <3>1
        <3>2. CASE dl < cl
            <4>1. Pack(dh, CtrLowMod, dl) < Pack(dh, CtrLowMod, cl)
                BY <1>2, <3>2, PackLow
            <4> QED
                BY <4>1, <1>0, <1>2, <2>2
        <3> QED
            BY <1>2, <2>2, <3>1, <3>2
    <2> QED
        BY <1>2, <1>3, <2>1, <2>2
<1> QED
    BY <1>1, <1>3 DEF ch, dh, cl, dl

\* Ids made by uuid_v7_from_parts compare as their fields do, from the left:
\* timestamp, then rand_a, then rand_b.
LEMMA PartsOrder ==
    ASSUME NEW ts1 \in 0 .. TsMod - 1, NEW ts2 \in 0 .. TsMod - 1,
           NEW a1 \in 0 .. RandAMod - 1, NEW a2 \in 0 .. RandAMod - 1,
           NEW b1 \in 0 .. RandBMod - 1, NEW b2 \in 0 .. RandBMod - 1,
           \/ ts1 < ts2
           \/ ts1 = ts2 /\ a1 < a2
           \/ ts1 = ts2 /\ a1 = a2 /\ b1 < b2
    PROVE  /\ uuid_v7_from_parts(ts1, a1, b1) \in Nat
           /\ uuid_v7_from_parts(ts1, a1, b1) < uuid_v7_from_parts(ts2, a2, b2)
<1> USE LayoutAssumption
<1>0. RandBMod \in Nat \ {0}
    BY DEF RandBMod
<1>1. /\ ts1 % TsMod = ts1 /\ ts2 % TsMod = ts2
      /\ b1 % RandBMod = b1 /\ b2 % RandBMod = b2
    BY <1>0, ModOfSmall
<1> DEFINE v(ts) == Pack(ts, 16, 7)
           a(ts, ra) == Pack(v(ts), RandAMod, ra)
           w(ts, ra) == Pack(a(ts, ra), 4, 2)
           id(ts, ra, rb) == Pack(w(ts, ra), RandBMod, rb)
<1>2. /\ uuid_v7_from_parts(ts1, a1, b1) = id(ts1, a1, b1)
      /\ uuid_v7_from_parts(ts2, a2, b2) = id(ts2, a2, b2)
    BY <1>1 DEF uuid_v7_from_parts, Version, Variant
<1>3. /\ v(ts1) \in Nat /\ v(ts2) \in Nat
      /\ a(ts1, a1) \in Nat /\ a(ts2, a2) \in Nat
      /\ w(ts1, a1) \in Nat /\ w(ts2, a2) \in Nat
      /\ id(ts1, a1, b1) \in Nat
    <2>0. /\ ts1 \in Nat /\ ts2 \in Nat /\ a1 \in Nat /\ a2 \in Nat
          /\ b1 \in Nat /\ RandBMod \in Nat /\ RandAMod \in Nat
        BY <1>0
    <2>1. v(ts1) \in Nat /\ v(ts2) \in Nat
        BY <2>0, PackNat
    <2>2. a(ts1, a1) \in Nat /\ a(ts2, a2) \in Nat
        BY <2>0, <2>1, PackNat
    <2>3. w(ts1, a1) \in Nat /\ w(ts2, a2) \in Nat
        BY <2>2, PackNat
    <2>4. id(ts1, a1, b1) \in Nat
        BY <2>0, <2>3, PackNat
    <2> QED BY <2>1, <2>2, <2>3, <2>4
<1>4. ASSUME a(ts1, a1) < a(ts2, a2)
      PROVE  id(ts1, a1, b1) < id(ts2, a2, b2)
    <2>1. w(ts1, a1) < w(ts2, a2)
        BY <1>3, <1>4, PackHigh
    <2> QED BY <1>0, <1>3, <2>1, PackHigh
<1>5. CASE ts1 < ts2
    <2>1. v(ts1) < v(ts2)
        BY <1>5, PackHigh
    <2>2. a(ts1, a1) < a(ts2, a2)
        BY <1>3, <2>1, PackHigh
    <2> QED BY <1>2, <1>3, <1>4, <2>2
<1>6. CASE ts1 = ts2 /\ a1 < a2
    <2>1. a(ts1, a1) < a(ts2, a2)
        BY <1>3, <1>6, PackLow
    <2> QED BY <1>2, <1>3, <1>4, <2>1
<1>7. CASE ts1 = ts2 /\ a1 = a2 /\ b1 < b2
    <2>1. id(ts1, a1, b1) < id(ts2, a2, b2)
        BY <1>0, <1>3, <1>7, PackLow
    <2> QED BY <1>2, <1>3, <2>1
<1> QED BY <1>5, <1>6, <1>7

\* An id is a natural number and never 0: its version and variant bits are set.
LEMMA PartsPositive ==
    ASSUME NEW ts \in Nat, NEW a \in Nat, NEW b \in Nat
    PROVE  uuid_v7_from_parts(ts, a, b) \in Nat \ {0}
<1>0. /\ RandBMod \in Nat \ {0} /\ RandAMod \in Nat
      /\ ts % TsMod \in Nat /\ b % RandBMod \in Nat
    <2>1. RandBMod \in Nat \ {0} /\ RandAMod \in Nat /\ TsMod \in Nat \ {0}
        BY LayoutAssumption DEF RandBMod
    <2> QED BY <2>1, ModIsDigit
<1>1. PICK v \in Nat : v = Pack(ts % TsMod, 16, Version)
    BY <1>0, PackNat DEF Version
<1>2. PICK va \in Nat : va = Pack(v, RandAMod, a)
    BY <1>0, PackNat
<1>3. PICK w \in Nat \ {0} : w = Pack(va, 4, Variant)
    BY DEF Pack, Variant
<1>4. Pack(0, RandBMod, 0) < Pack(w, RandBMod, b % RandBMod)
    BY <1>0, PackHigh
<1>5. Pack(w, RandBMod, b % RandBMod) \in Nat
    BY <1>0, PackNat
<1>6. Pack(0, RandBMod, 0) = 0
    BY <1>0 DEF Pack
<1> QED
    BY <1>1, <1>2, <1>3, <1>4, <1>5, <1>6 DEF uuid_v7_from_parts

\* So is an id that carries a counter.
LEMMA CounterIdPositive ==
    ASSUME NEW ts \in Nat, NEW c \in Nat, NEW r \in Nat
    PROVE  counter_id(ts, c, r) \in Nat \ {0}
<1>1. CtrLowMod \in Nat \ {0} /\ RandAMod \in Nat \ {0} /\ RandLowMod \in Nat
    BY LayoutAssumption
<1>2. c \div CtrLowMod \in Nat
    BY <1>1, DivMod
<1>3. (c \div CtrLowMod) % RandAMod \in Nat
    BY <1>1, <1>2, ModIsDigit
<1>4. c % CtrLowMod \in Nat
    BY <1>1, ModIsDigit
<1>5. Pack(c % CtrLowMod, RandLowMod, r) \in Nat
    BY <1>1, <1>4, PackNat
<1> QED
    BY <1>3, <1>5, PartsPositive DEF counter_id

\* Reading an id from the left: cut after the first `slots` values of rand_a
\* and what remains is timestamp, version and that much of rand_a.
LEMMA PrefixOfParts ==
    ASSUME NEW ts \in 0 .. TsMod - 1,
           NEW slots \in Nat \ {0}, NEW rest \in Nat \ {0}, RandAMod = slots * rest,
           NEW f \in 0 .. slots - 1, NEW r \in 0 .. rest - 1, NEW b \in Nat
    PROVE  uuid_v7_from_parts(ts, Pack(f, rest, r), b) \div (rest * 4 * RandBMod)
               = Pack(Pack(ts, 16, Version), slots, f)
<1>0. /\ RandBMod \in Nat \ {0} /\ ts \in Nat /\ ts % TsMod = ts
      /\ b % RandBMod \in 0 .. RandBMod - 1
    <2>1. RandBMod \in Nat \ {0} /\ TsMod \in Nat \ {0}
        BY LayoutAssumption DEF RandBMod
    <2>2. ts \in Nat /\ ts % TsMod = ts
        BY <2>1, ModOfSmall
    <2>3. b % RandBMod \in 0 .. RandBMod - 1
        BY <2>1, ModIsDigit
    <2> QED BY <2>1, <2>2, <2>3
<1>1. PICK v \in Nat : v = Pack(ts, 16, Version)
    BY <1>0, PackNat DEF Version
<1>2. PICK p \in Nat : p = Pack(v, slots, f)
    <2>1. f \in Nat
        OBVIOUS
    <2> QED BY <2>1, PackNat
<1>3. Pack(v, RandAMod, Pack(f, rest, r)) = Pack(p, rest, r)
    BY <1>2, PackTwice
<1>4. /\ Pack(Pack(p, rest, r), 4, 2) = Pack(p, rest * 4, Pack(r, 4, 2))
      /\ Pack(r, 4, 2) \in 0 .. rest * 4 - 1 /\ rest * 4 \in Nat \ {0}
    BY DEF Pack
<1>5. PICK c \in Nat \ {0}, d \in Nat, x \in 0 .. RandBMod - 1 :
          /\ c = rest * 4 /\ d = Pack(r, 4, 2) /\ x = b % RandBMod
          /\ d \in 0 .. c - 1
    BY <1>0, <1>4
<1>6. d \in 0 .. c - 1 /\ RandBMod \in Nat \ {0}
    BY <1>0, <1>5
<1>7. /\ Pack(Pack(p, c, d), RandBMod, x) = Pack(p, c * RandBMod, Pack(d, RandBMod, x))
      /\ Pack(d, RandBMod, x) \in 0 .. c * RandBMod - 1
      /\ c * RandBMod \in Nat \ {0}
    <2>1. Pack(Pack(p, c, d), RandBMod, x) = Pack(p, c * RandBMod, Pack(d, RandBMod, x))
        BY <1>6, PackTwice
    <2>2. Pack(d, RandBMod, x) \in 0 .. c * RandBMod - 1
        BY <1>6, PackTwice
    <2>3. c * RandBMod \in Nat \ {0}
        BY <1>6
    <2> QED BY <2>1, <2>2, <2>3
<1>8. uuid_v7_from_parts(ts, Pack(f, rest, r), b)
          = Pack(p, c * RandBMod, Pack(d, RandBMod, x))
    BY <1>0, <1>1, <1>3, <1>4, <1>5, <1>7 DEF uuid_v7_from_parts, Variant
<1>9. Pack(p, c * RandBMod, Pack(d, RandBMod, x)) \div (c * RandBMod) = p
    BY <1>7, DivUnique
<1> QED
    BY <1>1, <1>2, <1>5, <1>8, <1>9

\* The timestamp can be read back from an id.
LEMMA TimestampOfParts ==
    ASSUME NEW ts \in 0 .. TsMod - 1, NEW a \in 0 .. RandAMod - 1, NEW b \in Nat
    PROVE  TimestampOf(uuid_v7_from_parts(ts, a, b)) = ts
<1>0. /\ RandBMod \in Nat \ {0} /\ RandAMod \in Nat \ {0}
      /\ ts \in Nat /\ ts % TsMod = ts
      /\ b % RandBMod \in 0 .. RandBMod - 1
    <2>1. RandBMod \in Nat \ {0} /\ TsMod \in Nat \ {0} /\ RandAMod \in Nat \ {0}
        BY LayoutAssumption DEF RandBMod
    <2>2. ts \in Nat /\ ts % TsMod = ts
        BY <2>1, ModOfSmall
    <2>3. b % RandBMod \in 0 .. RandBMod - 1
        BY <2>1, ModIsDigit
    <2> QED BY <2>1, <2>2, <2>3
<1>1. /\ Pack(Pack(ts, 16, 7), RandAMod, a) = Pack(ts, 16 * RandAMod, Pack(7, RandAMod, a))
      /\ Pack(7, RandAMod, a) \in 0 .. 16 * RandAMod - 1
      /\ 16 * RandAMod \in Nat \ {0}
    BY <1>0 DEF Pack
<1>2. PICK m \in Nat \ {0}, d \in Nat :
          m = 16 * RandAMod /\ d = Pack(7, RandAMod, a) /\ d < m
    BY <1>1
<1>3. /\ Pack(Pack(ts, m, d), 4, 2) = Pack(ts, m * 4, Pack(d, 4, 2))
      /\ Pack(d, 4, 2) \in 0 .. m * 4 - 1 /\ m * 4 \in Nat \ {0}
    BY <1>0, <1>2 DEF Pack
<1>4. PICK c \in Nat \ {0}, e \in Nat, x \in 0 .. RandBMod - 1 :
          /\ c = m * 4 /\ e = Pack(d, 4, 2) /\ x = b % RandBMod
          /\ e \in 0 .. c - 1
    BY <1>0, <1>3
<1>5. /\ Pack(Pack(ts, c, e), RandBMod, x) = Pack(ts, c * RandBMod, Pack(e, RandBMod, x))
      /\ Pack(e, RandBMod, x) \in 0 .. c * RandBMod - 1
      /\ c * RandBMod \in Nat \ {0}
    <2>1. e \in 0 .. c - 1 /\ RandBMod \in Nat \ {0} /\ ts \in Nat
        BY <1>0, <1>4
    <2>2. Pack(Pack(ts, c, e), RandBMod, x) = Pack(ts, c * RandBMod, Pack(e, RandBMod, x))
        BY <2>1, PackTwice
    <2>3. Pack(e, RandBMod, x) \in 0 .. c * RandBMod - 1
        BY <2>1, PackTwice
    <2>4. c * RandBMod \in Nat \ {0}
        BY <2>1
    <2> QED BY <2>2, <2>3, <2>4
<1>6. uuid_v7_from_parts(ts, a, b) = Pack(ts, c * RandBMod, Pack(e, RandBMod, x))
    BY <1>0, <1>1, <1>2, <1>3, <1>4, <1>5 DEF uuid_v7_from_parts, Version, Variant
<1>7. Pack(ts, c * RandBMod, Pack(e, RandBMod, x)) \div (c * RandBMod) = ts
    BY <1>0, <1>5, DivUnique
<1> QED
    BY <1>2, <1>4, <1>6, <1>7 DEF TimestampOf

\* The ids of gen_id_with_count and SequentialGenerator::next_id compare as
\* the pairs (timestamp, counter) they carry, whatever their random bits.
THEOREM CounterIdOrder ==
    ASSUME NEW ts1 \in 0 .. TsMod - 1, NEW ts2 \in 0 .. TsMod - 1,
           NEW c1 \in 0 .. RandAMod * CtrLowMod - 1,
           NEW c2 \in 0 .. RandAMod * CtrLowMod - 1,
           NEW r1 \in 0 .. RandLowMod - 1, NEW r2 \in 0 .. RandLowMod - 1,
           ts1 < ts2 \/ (ts1 = ts2 /\ c1 < c2)
    PROVE  /\ counter_id(ts1, c1, r1) \in Nat
           /\ counter_id(ts1, c1, r1) < counter_id(ts2, c2, r2)
<1> USE LayoutAssumption
<1>0. c1 \in Nat /\ c2 \in Nat
    <2>1. RandAMod * CtrLowMod \in Nat
        OBVIOUS
    <2> QED BY <2>1
<1>1. ASSUME NEW c \in 0 .. RandAMod * CtrLowMod - 1, c \in Nat,
             NEW r \in 0 .. RandLowMod - 1
      PROVE  /\ (c \div CtrLowMod) % RandAMod = c \div CtrLowMod
             /\ c \div CtrLowMod \in 0 .. RandAMod - 1
             /\ c % CtrLowMod \in 0 .. CtrLowMod - 1
             /\ Pack(c % CtrLowMod, RandLowMod, r) \in 0 .. RandBMod - 1
    <2>1. c \div CtrLowMod \in 0 .. RandAMod - 1
        BY DivIsDigit
    <2>2. (c \div CtrLowMod) % RandAMod = c \div CtrLowMod
        BY <2>1, ModOfSmall
    <2>3. c % CtrLowMod \in 0 .. CtrLowMod - 1
        BY <1>1, ModIsDigit
    <2>4. Pack(c % CtrLowMod, RandLowMod, r) < Pack(CtrLowMod, RandLowMod, 0)
        BY <2>3, PackHigh
    <2>5. Pack(c % CtrLowMod, RandLowMod, r) \in Nat
        <3>1. c % CtrLowMod \in Nat /\ RandLowMod \in Nat /\ r \in Nat
            BY <2>3
        <3> QED BY <3>1, PackNat
    <2>6. Pack(CtrLowMod, RandLowMod, 0) = RandBMod /\ RandBMod \in Nat
        BY DEF Pack, RandBMod
    <2> QED BY <2>1, <2>2, <2>3, <2>4, <2>5, <2>6
<1> DEFINE p(c, r) == Pack(c % CtrLowMod, RandLowMod, r)
<1>2. /\ counter_id(ts1, c1, r1) = uuid_v7_from_parts(ts1, c1 \div CtrLowMod, p(c1, r1))
      /\ counter_id(ts2, c2, r2) = uuid_v7_from_parts(ts2, c2 \div CtrLowMod, p(c2, r2))
      /\ p(c1, r1) \in 0 .. RandBMod - 1 /\ p(c2, r2) \in 0 .. RandBMod - 1
      /\ c1 \div CtrLowMod \in 0 .. RandAMod - 1
      /\ c2 \div CtrLowMod \in 0 .. RandAMod - 1
    BY <1>0, <1>1 DEF counter_id
<1>3. \/ ts1 < ts2
      \/ ts1 = ts2 /\ c1 \div CtrLowMod < c2 \div CtrLowMod
      \/ /\ ts1 = ts2 /\ c1 \div CtrLowMod = c2 \div CtrLowMod
         /\ c1 % CtrLowMod < c2 % CtrLowMod
    BY CounterSplit
<1>4. ASSUME c1 % CtrLowMod < c2 % CtrLowMod
      PROVE  p(c1, r1) < p(c2, r2)
    <2>1. c1 % CtrLowMod \in Nat /\ c2 % CtrLowMod \in Nat
        BY <1>0, <1>1
    <2> QED BY <1>4, <2>1, PackHigh
<1> HIDE DEF p
<1> QED
    BY <1>2, <1>3, <1>4, PartsOrder
=============================================================================
