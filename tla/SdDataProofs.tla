---------------------------- MODULE SdDataProofs ----------------------------
(***************************************************************************)
(* What the checksums of storage/sd_crc.c promise about the transfers of   *)
(* sd_spi.c, for messages of any length: they are the remainders the SD    *)
(* specification asks for, and one burst of damage no longer than the      *)
(* checksum never goes unnoticed; and what sd_spi_read_csd makes of any    *)
(* CSD register is the size that specification gives it.                   *)
(*                                                                         *)
(* The remainder and the fields of the register are recursive functions of *)
(* the message, so the proofs begin with induction: over sets of numbers,  *)
(* which WellFoundedInduction's least elements give.  The shift register   *)
(* is then compared with long division turn by turn, as an invariant.      *)
(*                                                                         *)
(* The burst's argument follows the difference of the registers.  The      *)
(* first damaged bit makes them differ at their lowest bit; while the      *)
(* burst may last, that difference has not yet been shifted to the top,    *)
(* where alone another damaged bit could cancel it; and once the burst has *)
(* ended the two registers are fed the same bits and never agree again.    *)
(***************************************************************************)
EXTENDS SdData, SequenceTheorems, WellFoundedInduction, TLAPS

Differ(i) == ~(crc_calc[i] <=> sent_crc[i])
Mismatch(i) == ~(crc_in[i] <=> crc_calc[i])

\* Where a transfer is, and that its message is one of those that are sent.
PlaceOK ==
    /\ phase # "done" => data \in Seq(BOOLEAN) /\ data # <<>>
    /\ phase = "data" => at \in 1 .. Len(data) /\ Len(got) = at - 1
    /\ phase = "crc" => at \in Low(kind) .. Top(kind)
    /\ phase = "check" => at = Low(kind) - 1
    /\ phase = "decode" => noise = 0 /\ kind = "csd"

\* CRC7 leaves the lowest bit of its byte alone.
LowBitsClear ==
    \A i \in Bits(kind) : i < Low(kind) => ~sent_crc[i] /\ ~crc_calc[i] /\ ~crc_in[i]

\* On a line that has damaged nothing the two ends agree.
CleanAgrees ==
    noise = 0 =>
        /\ crc_calc = sent_crc
        /\ phase = "data" => \A j \in 1 .. at - 1 : got[j] = data[j]
        /\ phase \in {"crc", "check", "decode"} => got = data
        /\ phase \in {"crc", "check"} => \A i \in Bits(kind) : i > at => ~Mismatch(i)

\* A difference that the rest of the burst cannot reach any more.
DamageShows ==
    noise > 0 =>
        /\ phase = "data" =>
               \E i \in Low(kind) .. Top(kind) :
                   Differ(i) /\ noise + (Top(kind) - i) >= Burst[kind]
        /\ phase \in {"crc", "check"} =>
               \E i \in Low(kind) .. Top(kind) :
                   \/ i > at /\ Mismatch(i)
                   \/ i <= at /\ Differ(i) /\ noise + (at - i) >= Burst[kind]

\* The registers of CRC7 and CRC16, as polynomials of degree less than the
\* generator's: bit Low + x holds the term of exponent x.
Holding(k, crc, x) == x \in 0 .. CrcLength(k) - 1 /\ crc[x + Low(k)]

\* The message's bits from t + 1 on, which the register has not taken yet.
Awaits(s, n, t, i) == i \in t + 1 .. n /\ s[i]

\* What long division has left when it has taken t bits of the message.
Left(k, s, t) == Reduced(k, s)[Len(s) + CrcLength(k) - t]

\* The polynomial p is what the register holds and what it awaits of a message of
\* n bits, after t of them, added up.
Sums(k, n, s, t, crc, p) ==
    /\ p \subseteq 0 .. n + CrcLength(k) - 1
    /\ \A x \in 0 .. n + CrcLength(k) - 1 :
           x \in p <=> ~(Holding(k, crc, x - (n - t)) <=> Awaits(s, n, t, n + CrcLength(k) - x))

Divided(k, s, t, crc) == Sums(k, Len(s), s, t, crc, Left(k, s, t))

\* The sender's register and long division of its message go along together.
Taken == IF phase = "data" THEN at - 1 ELSE Len(data)

LongDivision == phase \in {"data", "crc"} => Divided(kind, data, Taken, sent_crc)

SdInv ==
    /\ TypeOK /\ PlaceOK /\ LowBitsClear /\ CleanAgrees /\ DamageShows
    /\ DamageIsCaught /\ LongDivision /\ CapacityIsExact

-----------------------------------------------------------------------------
(* Recursive functions *)

LessThan == {p \in Nat \X Nat : p[1] < p[2]}

\* A set of numbers that is not empty has a least one.
LEMMA Least ==
    ASSUME NEW T \in SUBSET Nat, T # {}
    PROVE  \E n \in T : \A m \in T : n <= m
<1>1. IsWellFoundedOn(LessThan, Nat)
  BY NatLessThanWellFounded, Zenon DEF OpToRel, LessThan
<1>2. PICK x \in T : \A y \in T : ~(<<y, x>> \in LessThan)
  BY <1>1, WFMin
<1>3. ASSUME NEW y \in T PROVE x <= y
  <2>1. <<y, x>> \in Nat \X Nat /\ x \in Nat /\ y \in Nat
    OBVIOUS
  <2>2. <<y, x>> \in LessThan <=> y < x
    BY <2>1 DEF LessThan
  <2> QED BY <1>2, <2>1, <2>2
<1> QED BY <1>3

\* Induction over the numbers, for a set in the place of a predicate.
LEMMA SetInduction ==
    ASSUME NEW S, 0 \in S, \A n \in Nat : n \in S => n + 1 \in S
    PROVE  \A n \in Nat : n \in S
<1> SUFFICES ASSUME NEW k \in Nat, k \notin S PROVE FALSE
  OBVIOUS
<1> DEFINE T == {n \in Nat : n \notin S}
<1>1. PICK n \in T : \A m \in T : n <= m
  BY Least
<1>2. n # 0 /\ n - 1 \in Nat /\ n - 1 \in S
  BY <1>1
<1> QED BY <1>1, <1>2

Solutions(low, high, V, start, step) ==
    {f \in [low .. high -> V] :
        /\ f[high] = start
        /\ \A e \in low .. high - 1 : f[e] = step[<<e, f[e + 1]>>]}

\* A function may be defined from the top of its domain down.
LEMMA DownwardRecursion ==
    ASSUME NEW low \in Int, NEW high \in Int, low <= high,
           NEW V, NEW start \in V, NEW step \in [(low .. high - 1) \X V -> V]
    PROVE  Solutions(low, high, V, start, step) # {}
<1> DEFINE Down(d) == high - d .. high
           Solves(f, d) == /\ f \in [Down(d) -> V]
                           /\ f[high] = start
                           /\ \A e \in Down(d) : e # high => f[e] = step[<<e, f[e + 1]>>]
           S == {d \in Nat : d <= high - low => \E f : Solves(f, d)}
<1>1. 0 \in S
  <2>1. Solves([e \in Down(0) |-> start], 0)
    OBVIOUS
  <2> QED BY <2>1
<1>2. ASSUME NEW d \in Nat, d \in S PROVE d + 1 \in S
  <2>0. SUFFICES ASSUME d + 1 <= high - low PROVE \E f : Solves(f, d + 1)
    <3> HIDE DEF Solves
    <3> QED OBVIOUS
  <2>1. PICK f : Solves(f, d)
    BY <1>2, <2>0
  <2> DEFINE b == high - (d + 1)
             g == [e \in Down(d + 1) |-> IF e = b THEN step[<<e, f[e + 1]>>] ELSE f[e]]
  <2>2. /\ b \in low .. high - 1 /\ b \in Int /\ b \notin Down(d) /\ b + 1 \in Down(d)
        /\ Down(d + 1) = Down(d) \cup {b} /\ high \in Down(d)
    BY <2>0
  <2>3. f[b + 1] \in V /\ step[<<b, f[b + 1]>>] \in V
    BY <2>1, <2>2
  <2>4. /\ g[b] = step[<<b, f[b + 1]>>]
        /\ \A e \in Down(d) : g[e] = f[e]
        /\ DOMAIN g = Down(d + 1)
        /\ g = [e \in Down(d + 1) |-> g[e]]
    BY <2>2
  <2> HIDE DEF g
  <2>5. g \in [Down(d + 1) -> V]
    BY <2>1, <2>2, <2>3, <2>4
  <2>6. \A e \in Down(d + 1) : e # high => g[e] = step[<<e, g[e + 1]>>]
    <3> SUFFICES ASSUME NEW e \in Down(d + 1), e # high PROVE g[e] = step[<<e, g[e + 1]>>]
      OBVIOUS
    <3>1. e \in Int /\ e + 1 \in Down(d)
      OBVIOUS
    <3>2. g[e + 1] = f[e + 1]
      BY <2>4, <3>1
    <3>3. CASE e = b
      BY <2>4, <3>2, <3>3
    <3>4. CASE e # b
      BY <2>1, <2>2, <2>4, <3>2, <3>4
    <3> QED BY <3>3, <3>4
  <2> QED BY <2>1, <2>2, <2>4, <2>5, <2>6
<1>3. high - low \in S
  <2>1. high - low \in Nat
    OBVIOUS
  <2> HIDE DEF S
  <2> QED BY <1>1, <1>2, <2>1, SetInduction
<1>4. PICK f : Solves(f, high - low)
  BY <1>3
<1>5. Down(high - low) = low .. high
  OBVIOUS
<1> QED BY <1>4, <1>5 DEF Solutions

-----------------------------------------------------------------------------
(* The shift registers *)

\* The checksums of sd_crc.c are 7 bits in the top of a byte and 16 bits.
LEMMA Widths ==
    ASSUME NEW k \in Kinds
    PROVE  /\ Top(k) \in Nat /\ Low(k) \in Nat /\ Low(k) \in {0, 1} /\ Low(k) < Top(k)
           /\ Low(k) \in Mask(k)
           /\ \A i \in Mask(k) : i >= Low(k)
           /\ CrcLength(k) = Top(k) - Low(k) + 1
           /\ Burst[k] \in Nat /\ Burst[k] <= CrcLength(k)
BY DataAssumption DEF Kinds, Top, Low, Mask, CrcLength

\* One turn of the loop gives a register, and keeps the lowest bit of CRC7's clear.
LEMMA ShiftKeepsRegister ==
    ASSUME NEW k \in Kinds, NEW crc \in Registers(k), NEW bit \in BOOLEAN
    PROVE  /\ Shift(k, crc, bit) \in Registers(k)
           /\ \A i \in Bits(k) : i < Low(k) => ~Shift(k, crc, bit)[i]
<1>1. Shift(k, crc, bit) \in Registers(k)
  BY DEF Shift, Registers
<1>2. ASSUME NEW i \in Bits(k), i < Low(k)
      PROVE  ~Shift(k, crc, bit)[i]
  <2>1. i = 0 /\ i \notin Mask(k)
    BY <1>2, Widths DEF Bits
  <2>2. Shift(k, crc, bit)[i] <=> ((i > 0 /\ crc[i - 1]) # (i \in Mask(k) /\ (crc[Top(k)] # bit)))
    BY DEF Shift
  <2> QED BY <2>1, <2>2
<1> QED BY <1>1, <1>2

\* Two registers fed the same difference of top bit and input carry each bit in
\* which they differ one place up.
LEMMA SameFeedbackCarries ==
    ASSUME NEW k \in Kinds, NEW c \in Registers(k), NEW s \in Registers(k),
           NEW b \in BOOLEAN, NEW d \in BOOLEAN,
           (c[Top(k)] # b) <=> (s[Top(k)] # d),
           NEW i \in Low(k) .. Top(k), i < Top(k), ~(c[i] <=> s[i])
    PROVE  ~(Shift(k, c, b)[i + 1] <=> Shift(k, s, d)[i + 1])
<1>1. i \in Bits(k) /\ i + 1 \in Bits(k) /\ i + 1 > 0 /\ (i + 1) - 1 = i /\ Top(k) \in Bits(k)
  BY Widths DEF Bits
<1>2. c[i] \in BOOLEAN /\ s[i] \in BOOLEAN /\ c[Top(k)] \in BOOLEAN /\ s[Top(k)] \in BOOLEAN
  BY <1>1 DEF Registers
<1>3. Shift(k, c, b)[i + 1] <=> (c[i] # (i + 1 \in Mask(k) /\ (c[Top(k)] # b)))
  BY <1>1, <1>2 DEF Shift
<1>4. Shift(k, s, d)[i + 1] <=> (s[i] # (i + 1 \in Mask(k) /\ (s[Top(k)] # d)))
  BY <1>1, <1>2 DEF Shift
<1> QED BY <1>2, <1>3, <1>4

\* Fed different ones, they differ at their lowest bit.
LEMMA OtherFeedbackShows ==
    ASSUME NEW k \in Kinds, NEW c \in Registers(k), NEW s \in Registers(k),
           \A i \in Bits(k) : i < Low(k) => ~c[i] /\ ~s[i],
           NEW b \in BOOLEAN, NEW d \in BOOLEAN,
           ~((c[Top(k)] # b) <=> (s[Top(k)] # d))
    PROVE  ~(Shift(k, c, b)[Low(k)] <=> Shift(k, s, d)[Low(k)])
<1>1. Low(k) \in Bits(k) /\ Top(k) \in Bits(k) /\ Low(k) \in Mask(k)
  BY Widths DEF Bits
<1>2. ~(Low(k) > 0 /\ c[Low(k) - 1]) /\ ~(Low(k) > 0 /\ s[Low(k) - 1])
  BY Widths DEF Bits
<1>3. Shift(k, c, b)[Low(k)] <=> (c[Top(k)] # b)
  BY <1>1, <1>2 DEF Shift
<1>4. Shift(k, s, d)[Low(k)] <=> (s[Top(k)] # d)
  BY <1>1, <1>2 DEF Shift
<1> QED BY <1>3, <1>4

-----------------------------------------------------------------------------
(* Long division *)

\* The equations of long division.
LEMMA ReducedSteps ==
    ASSUME NEW k \in Kinds, NEW s \in Seq(BOOLEAN)
    PROVE  /\ Reduced(k, s)[Len(s) + CrcLength(k)] = Message(k, s)
           /\ \A e \in CrcLength(k) .. Len(s) + CrcLength(k) - 1 :
                  Reduced(k, s)[e] = Cancel(k, Reduced(k, s)[e + 1], e)
<1> DEFINE low == CrcLength(k)
           high == Len(s) + CrcLength(k)
           step == [p \in (low .. high - 1) \X SUBSET Int |-> Cancel(k, p[2], p[1])]
           Solves(f) == f = [e \in low .. high |->
                                IF e = high THEN Message(k, s) ELSE Cancel(k, f[e + 1], e)]
<1>1. Len(s) \in Nat /\ low \in Int /\ high \in Int /\ 0 <= low /\ low <= high
  BY LenProperties, Widths
<1>2. Generator(k) \subseteq Int
  BY DEF Generator
<1>3. Message(k, s) \in SUBSET Int
  BY <1>1 DEF Message
<1>4. ASSUME NEW e \in low .. high - 1, NEW v \in SUBSET Int
      PROVE  step[<<e, v>>] = Cancel(k, v, e) /\ Cancel(k, v, e) \in SUBSET Int
  <2>1. <<e, v>> \in (low .. high - 1) \X SUBSET Int
    OBVIOUS
  <2>2. step[<<e, v>>] = Cancel(k, v, e)
    BY <2>1
  <2>3. {g + e - low : g \in Generator(k)} \subseteq Int
    BY <1>1, <1>2
  <2>4. Cancel(k, v, e) \subseteq Int
    BY <2>3 DEF Cancel, Plus
  <2> QED BY <2>2, <2>4
<1>5. PICK f \in [low .. high -> SUBSET Int] :
          f[high] = Message(k, s) /\ \A e \in low .. high - 1 : f[e] = step[<<e, f[e + 1]>>]
  <2> DEFINE start == Message(k, s)
             V == SUBSET Int
  <2>1. start \in V /\ step \in [(low .. high - 1) \X V -> V]
    BY <1>3, <1>4
  <2> HIDE DEF low, high, step, start, V, Solves
  <2>2. Solutions(low, high, V, start, step) # {}
    BY <1>1, <2>1, DownwardRecursion
  <2> QED BY <2>2 DEF start, V, Solutions
<1>6. f = [e \in low .. high |-> IF e = high THEN Message(k, s) ELSE Cancel(k, f[e + 1], e)]
  <2> SUFFICES ASSUME NEW e \in low .. high
               PROVE  f[e] = IF e = high THEN Message(k, s) ELSE Cancel(k, f[e + 1], e)
    OBVIOUS
  <2>1. CASE e = high
    BY <1>5, <2>1
  <2>2. CASE e # high
    <3>1. e \in low .. high - 1 /\ e + 1 \in low .. high
      BY <1>1, <2>2
    <3>2. f[e + 1] \in SUBSET Int
      BY <1>5, <3>1
    <3> HIDE DEF low, high, step
    <3> QED BY <1>4, <1>5, <2>2, <3>1, <3>2
  <2> QED BY <2>1, <2>2
<1>7. Solves(Reduced(k, s))
  <2>1. Reduced(k, s) = CHOOSE g : Solves(g)
    BY DEF Reduced
  <2>2. Solves(f)
    BY <1>6
  <2> HIDE DEF Solves
  <2> QED BY <2>1, <2>2
<1>8. ASSUME NEW e \in low .. high
      PROVE  Reduced(k, s)[e] = IF e = high THEN Message(k, s) ELSE Cancel(k, Reduced(k, s)[e + 1], e)
  <2> DEFINE r == Reduced(k, s)
  <2>1. r = [i \in low .. high |-> IF i = high THEN Message(k, s) ELSE Cancel(k, r[i + 1], i)]
    BY <1>7
  <2> HIDE DEF r
  <2> QED BY <2>1 DEF r
<1> QED BY <1>1, <1>8

\* The same, counted in bits of the message taken.
LEMMA LeftSteps ==
    ASSUME NEW k \in Kinds, NEW s \in Seq(BOOLEAN)
    PROVE  /\ Left(k, s, 0) = Message(k, s)
           /\ \A t \in 0 .. Len(s) - 1 :
                  Left(k, s, t + 1) = Cancel(k, Left(k, s, t), Len(s) + CrcLength(k) - (t + 1))
<1>1. Len(s) \in Nat /\ CrcLength(k) \in Nat
  BY LenProperties, Widths
<1>2. Left(k, s, 0) = Message(k, s)
  <2>1. Len(s) + CrcLength(k) - 0 = Len(s) + CrcLength(k)
    BY <1>1
  <2> QED BY <2>1, ReducedSteps DEF Left
<1>3. ASSUME NEW t \in 0 .. Len(s) - 1
      PROVE  Left(k, s, t + 1) = Cancel(k, Left(k, s, t), Len(s) + CrcLength(k) - (t + 1))
  <2> DEFINE e == Len(s) + CrcLength(k) - (t + 1)
  <2>1. e \in CrcLength(k) .. Len(s) + CrcLength(k) - 1 /\ e + 1 = Len(s) + CrcLength(k) - t
    BY <1>1
  <2>2. Reduced(k, s)[e] = Cancel(k, Reduced(k, s)[e + 1], e)
    BY <2>1, ReducedSteps
  <2> QED BY <2>1, <2>2 DEF Left
<1> QED BY <1>2, <1>3

\* The masks of sd_crc.c are the generator polynomials without their first term.
LEMMA MaskIsGenerator ==
    ASSUME NEW k \in Kinds
    PROVE  /\ \A x \in Int : x \in Generator(k) <=> x = CrcLength(k) \/ x + Low(k) \in Mask(k)
           /\ Mask(k) \subseteq Low(k) .. Top(k)
BY DEF Kinds, Generator, Mask, Low, Top, CrcLength

\* One turn of the loop of sd_crc.c multiplies the register's polynomial by its
\* variable and, if the top bit and the message's differ, adds the mask's.
LEMMA ShiftMultiplies ==
    ASSUME NEW k \in Kinds, NEW crc \in Registers(k), NEW bit \in BOOLEAN,
           \A i \in Bits(k) : i < Low(k) => ~crc[i],
           NEW y \in Int, y < CrcLength(k)
    PROVE  Holding(k, Shift(k, crc, bit), y)
               <=> ~(Holding(k, crc, y - 1) <=> (crc[Top(k)] # bit) /\ y + Low(k) \in Mask(k))
<1> DEFINE next == Shift(k, crc, bit)
           feedback == crc[Top(k)] # bit
<1>1. PICK m \in Nat, low \in Nat, top \in Nat, i \in Int :
          /\ m = CrcLength(k) /\ low = Low(k) /\ top = Top(k)
          /\ low \in {0, 1} /\ top = m - 1 + low /\ i = y + low
  BY Widths
<1>0. low \in {0, 1} /\ top = m - 1 + low /\ i = y + low /\ y < m
  BY <1>1
<1>2. /\ \A j \in Mask(k) : j \in Int /\ low <= j /\ j <= top
      /\ Bits(k) = 0 .. top
      /\ crc \in [0 .. top -> BOOLEAN]
      /\ \A j \in 0 .. top : j < low => ~crc[j]
  <2>1. Mask(k) \subseteq low .. top
    BY <1>1, MaskIsGenerator
  <2>2. Bits(k) = 0 .. top
    BY <1>1 DEF Bits
  <2>3. crc \in [0 .. top -> BOOLEAN]
    BY <2>2 DEF Registers
  <2>4. \A j \in 0 .. top : j < low => ~crc[j]
    BY <1>1, <2>2
  <2>5. \A j \in Mask(k) : j \in Int /\ low <= j /\ j <= top
    BY <2>1
  <2> QED BY <2>2, <2>3, <2>4, <2>5
<1>3. \A c, x : Holding(k, c, x) <=> x \in 0 .. m - 1 /\ c[x + low]
  BY <1>1 DEF Holding
<1>4. crc[top] \in BOOLEAN /\ feedback \in BOOLEAN /\ feedback = (crc[Top(k)] # bit)
  BY <1>1, <1>2
<1>5. \A j \in 0 .. top : next[j] = ((j > 0 /\ crc[j - 1]) # (j \in Mask(k) /\ feedback))
  BY <1>2 DEF Shift
<1> HIDE DEF next, feedback
<1>6. Holding(k, next, y) <=> ~(Holding(k, crc, y - 1) <=> feedback /\ i \in Mask(k))
  <2>1. CASE y < 0
    <3>1. i \notin Mask(k)
      BY <1>0, <1>2, <2>1
    <3>2. ~Holding(k, next, y) /\ ~Holding(k, crc, y - 1)
      BY <1>3, <2>1
    <3> QED BY <3>1, <3>2
  <2>2. CASE y >= 0
    <3>1. i \in 0 .. top /\ y \in 0 .. m - 1 /\ y + low = i
      BY <1>0, <2>2
    <3>2. i > 0 => crc[i - 1] \in BOOLEAN
      BY <1>2, <3>1
    <3>3. Holding(k, next, y) <=> next[i]
      BY <1>3, <3>1
    <3>4. Holding(k, crc, y - 1) <=> (i > 0 /\ crc[i - 1])
      <4>1. CASE y = 0
        <5>1. ~Holding(k, crc, y - 1)
          BY <1>3, <4>1
        <5>2. i > 0 => i - 1 \in 0 .. top /\ i - 1 < low
          BY <1>0, <3>1, <4>1
        <5> QED BY <1>2, <5>1, <5>2
      <4>2. CASE y > 0
        <5>1. y - 1 \in 0 .. m - 1 /\ (y - 1) + low = i - 1 /\ i > 0
          BY <1>0, <3>1, <4>2
        <5> QED BY <1>3, <5>1
      <4> QED BY <2>2, <4>1, <4>2
    <3> QED BY <1>4, <1>5, <3>1, <3>2, <3>3, <3>4
  <2> QED BY <2>1, <2>2
<1> QED BY <1>1, <1>4, <1>6 DEF next

\* A step of long division and a turn of the loop keep that so.
LEMMA SumsStep ==
    ASSUME NEW k \in Kinds, NEW n \in Nat, NEW s \in [1 .. n -> BOOLEAN],
           NEW crc \in Registers(k), \A i \in Bits(k) : i < Low(k) => ~crc[i],
           NEW t \in 0 .. n - 1, NEW p, Sums(k, n, s, t, crc, p)
    PROVE  Sums(k, n, s, t + 1, Shift(k, crc, s[t + 1]), Cancel(k, p, n + CrcLength(k) - (t + 1)))
<1>1. PICK m \in Nat, low \in Nat, top \in Nat, e \in Nat :
          /\ m = CrcLength(k) /\ low = Low(k) /\ top = Top(k)
          /\ e = n + m - (t + 1) /\ m <= e /\ e < n + m
          /\ m > 0 /\ top = m - 1 + low
  BY Widths
<1>0. /\ e = n + m - (t + 1) /\ m <= e /\ e < n + m
      /\ m > 0 /\ top = m - 1 + low
  BY <1>1
<1> DEFINE q == Cancel(k, p, e)
           next == Shift(k, crc, s[t + 1])
           feedback == crc[top] # s[t + 1]
           shifted == {g + e - m : g \in Generator(k)}
           pulled(x) == x = e \/ (x - (n - (t + 1))) + low \in Mask(k)
<1>2. /\ \A i \in Mask(k) : i \in Int /\ low <= i /\ i <= top
      /\ crc \in [0 .. top -> BOOLEAN]
  <2>1. Mask(k) \subseteq low .. top
    BY <1>1, MaskIsGenerator
  <2>2. Bits(k) = 0 .. top
    BY <1>1 DEF Bits
  <2>3. crc \in [0 .. top -> BOOLEAN]
    BY <2>2 DEF Registers
  <2>4. \A i \in Mask(k) : i \in Int /\ low <= i /\ i <= top
    BY <2>1
  <2> QED BY <2>3, <2>4
<1>3. s[t + 1] \in BOOLEAN /\ crc[top] \in BOOLEAN /\ feedback \in BOOLEAN
  BY <1>1, <1>2
<1>4. /\ p \subseteq 0 .. n + m - 1
      /\ \A x \in 0 .. n + m - 1 :
             x \in p <=> ~(Holding(k, crc, x - (n - t)) <=> Awaits(s, n, t, n + m - x))
  BY <1>1 DEF Sums
<1>5. /\ \A i : Awaits(s, n, t, i) <=> i \in t + 1 .. n /\ s[i]
      /\ \A i : Awaits(s, n, t + 1, i) <=> i \in (t + 1) + 1 .. n /\ s[i]
      /\ \A c, x : Holding(k, c, x) <=> x \in 0 .. m - 1 /\ c[x + low]
  BY <1>1 DEF Awaits, Holding
<1>6. e \in p <=> feedback
  <2>1. e - (n - t) = m - 1 /\ n + m - e = t + 1 /\ (m - 1) + low = top /\ e \in 0 .. n + m - 1
    BY <1>0
  <2>2. Holding(k, crc, m - 1) <=> crc[top]
    BY <1>0, <1>5, <2>1
  <2>3. Awaits(s, n, t, t + 1) <=> s[t + 1]
    BY <1>5
  <2>4. e \in p <=> ~(Holding(k, crc, m - 1) <=> Awaits(s, n, t, t + 1))
    BY <1>4, <2>1
  <2> QED BY <1>3, <2>2, <2>3, <2>4
<1>7. ASSUME NEW x \in Int
      PROVE  x \in shifted <=> pulled(x)
  <2>1. Generator(k) \subseteq Int
    BY DEF Generator
  <2>2. PICK g \in Int : g = x - (e - m)
    OBVIOUS
  <2>3. x \in shifted <=> g \in Generator(k)
    <3>1. ASSUME NEW h \in Generator(k), x = h + e - m PROVE g = h
      BY <2>1, <2>2, <3>1
    <3>2. x = g + e - m
      BY <2>2
    <3> QED BY <3>1, <3>2
  <2>4. g \in Generator(k) <=> g = m \/ g + low \in Mask(k)
    BY <1>1, MaskIsGenerator
  <2>5. g = x - (n - (t + 1)) /\ (g = m <=> x = e)
    BY <1>0, <2>2
  <2> QED BY <2>3, <2>4, <2>5
<1>8. shifted \subseteq 0 .. n + m - 1
  <2> SUFFICES ASSUME NEW x \in shifted PROVE x \in 0 .. n + m - 1
    OBVIOUS
  <2>1. x \in Int
    BY DEF Generator
  <2>2. PICK y \in Int : y = x - (n - (t + 1))
    BY <2>1
  <2>3. x = e \/ (low <= y + low /\ y + low <= top)
    BY <1>2, <1>7, <2>1, <2>2
  <2> HIDE DEF shifted
  <2> QED BY <1>0, <2>1, <2>2, <2>3
<1>9. q = IF e \in p THEN Plus(p, shifted) ELSE p
  BY <1>1 DEF Cancel
<1> HIDE DEF q, shifted, next, feedback
<1>10. q \subseteq 0 .. n + m - 1
  BY <1>4, <1>8, <1>9 DEF Plus
<1>11. ASSUME NEW x \in 0 .. n + m - 1
       PROVE  x \in q <=> ~(Holding(k, next, x - (n - (t + 1))) <=> Awaits(s, n, t + 1, n + m - x))
  <2>1. PICK y \in Int, j \in Int : y = x - (n - (t + 1)) /\ j = n + m - x
    OBVIOUS
  <2>2. x \in Int /\ x - (n - t) = y - 1 /\ x = y + (n - (t + 1))
    BY <2>1
  <2>3. x \in p <=> ~(Holding(k, crc, y - 1) <=> Awaits(s, n, t, j))
    BY <1>4, <2>1, <2>2
  <2>4. x \in q <=> ~(x \in p <=> feedback /\ (x = e \/ y + low \in Mask(k)))
    <3>1. x \in shifted <=> (x = e \/ y + low \in Mask(k))
      BY <1>7, <2>1, <2>2
    <3> QED BY <1>6, <1>9, <3>1 DEF Plus
  <2>5. CASE x = e
    <3>1. y = m /\ j = t + 1
      BY <1>0, <2>1, <2>2, <2>5
    <3>2. ~Holding(k, next, y) /\ ~Awaits(s, n, t + 1, j)
      BY <1>0, <1>5, <3>1
    <3> QED BY <1>3, <1>6, <2>1, <2>4, <2>5, <3>2
  <2>6. CASE x > e
    <3>1. y > m /\ j <= t
      BY <1>0, <2>1, <2>2, <2>6
    <3>2. /\ ~Holding(k, next, y) /\ ~Awaits(s, n, t + 1, j)
          /\ ~Holding(k, crc, y - 1) /\ ~Awaits(s, n, t, j)
      BY <1>0, <1>5, <3>1
    <3>3. y + low \notin Mask(k) /\ x # e
      BY <1>0, <1>2, <2>2, <2>6, <3>1
    <3> QED BY <2>1, <2>3, <2>4, <3>2, <3>3
  <2>7. CASE x < e
    <3>1. y < m /\ j > t + 1 /\ x # e
      BY <1>0, <2>1, <2>2, <2>7
    <3>2. Awaits(s, n, t, j) <=> Awaits(s, n, t + 1, j)
      BY <1>5, <3>1
    <3>3. Holding(k, next, y) <=> ~(Holding(k, crc, y - 1) <=> feedback /\ y + low \in Mask(k))
      BY <1>1, <1>3, <3>1, ShiftMultiplies DEF next, feedback
    <3> QED BY <1>3, <2>1, <2>3, <2>4, <3>1, <3>2, <3>3
  <2> QED BY <1>0, <2>2, <2>5, <2>6, <2>7
<1>12. \A x \in 0 .. n + m - 1 :
           x \in q <=> ~(Holding(k, next, x - (n - (t + 1))) <=> Awaits(s, n, t + 1, n + m - x))
  BY <1>11
<1> QED BY <1>1, <1>10, <1>12 DEF Sums, q, next

\* Before the first bit the register is clear and all of the message is left.
LEMMA DivisionBegins ==
    ASSUME NEW k \in Kinds, NEW s \in Seq(BOOLEAN)
    PROVE  Divided(k, s, 0, Zero(k))
<1>1. PICK n \in Nat, m \in Nat : n = Len(s) /\ m = CrcLength(k) /\ m > 0
  BY LenProperties, Widths
<1> DEFINE p == {n + m - i : i \in {j \in 1 .. n : s[j]}}
<1>2. Left(k, s, 0) = p
  BY <1>1, LeftSteps DEF Message
<1>3. p \subseteq 0 .. n + m - 1
  BY <1>1
<1>4. ASSUME NEW x \in 0 .. n + m - 1
      PROVE  x \in p <=> ~(Holding(k, Zero(k), x - (n - 0)) <=> Awaits(s, n, 0, n + m - x))
  <2>1. PICK j \in Int : j = n + m - x
    OBVIOUS
  <2>2. x \in p <=> j \in 1 .. n /\ s[j]
    <3>1. ASSUME NEW i \in {h \in 1 .. n : s[h]}, x = n + m - i PROVE j = i
      BY <2>1, <3>1
    <3>2. x = n + m - j
      BY <2>1
    <3> QED BY <3>1, <3>2
  <2>3. Awaits(s, n, 0, j) <=> j \in 1 .. n /\ s[j]
    BY DEF Awaits
  <2>4. ~Holding(k, Zero(k), x - (n - 0))
    BY Widths DEF Holding, Zero, Bits
  <2> QED BY <2>1, <2>2, <2>3, <2>4
<1>5. \A x \in 0 .. n + m - 1 :
          x \in p <=> ~(Holding(k, Zero(k), x - (n - 0)) <=> Awaits(s, n, 0, n + m - x))
  BY <1>4
<1> QED BY <1>1, <1>2, <1>3, <1>5 DEF Divided, Sums

\* One turn of the loop is one step of the division.
LEMMA DivisionSteps ==
    ASSUME NEW k \in Kinds, NEW s \in Seq(BOOLEAN), NEW crc \in Registers(k),
           \A i \in Bits(k) : i < Low(k) => ~crc[i],
           NEW t \in 0 .. Len(s) - 1, Divided(k, s, t, crc)
    PROVE  Divided(k, s, t + 1, Shift(k, crc, s[t + 1]))
<1>1. Len(s) \in Nat /\ s \in [1 .. Len(s) -> BOOLEAN]
  BY LenProperties
<1>2. Left(k, s, t + 1) = Cancel(k, Left(k, s, t), Len(s) + CrcLength(k) - (t + 1))
  BY LeftSteps
<1> QED BY <1>1, <1>2, SumsStep DEF Divided

\* After the last bit, what is left is what the register holds.
LEMMA DivisionEnds ==
    ASSUME NEW k \in Kinds, NEW s \in Seq(BOOLEAN), NEW crc \in Registers(k),
           \A i \in Bits(k) : i < Low(k) => ~crc[i],
           Divided(k, s, Len(s), crc)
    PROVE  Remainder(k, s) = {i - Low(k) : i \in {j \in Bits(k) : crc[j]}}
<1>1. PICK n \in Nat, m \in Nat, low \in Nat, top \in Nat :
          /\ n = Len(s) /\ m = CrcLength(k) /\ low = Low(k) /\ top = Top(k)
          /\ m > 0 /\ top = m - 1 + low
  BY LenProperties, Widths
<1>0. top = m - 1 + low
  BY <1>1
<1> DEFINE left == Left(k, s, n)
           held == {i - low : i \in {j \in 0 .. top : crc[j]}}
<1>2. Remainder(k, s) = left
  <2>1. n + m - n = m
    OBVIOUS
  <2> QED BY <1>1, <2>1 DEF Remainder, Left
<1>3. left \subseteq 0 .. n + m - 1
  BY <1>1 DEF Divided, Sums
<1>4. ASSUME NEW x \in 0 .. n + m - 1
      PROVE  x \in left <=> x \in 0 .. m - 1 /\ crc[x + low]
  <2>1. x - (n - n) = x
    OBVIOUS
  <2>2. ~Awaits(s, n, n, n + m - x)
    BY DEF Awaits
  <2>3. x \in left <=> ~(Holding(k, crc, x - (n - n)) <=> Awaits(s, n, n, n + m - x))
    BY <1>1 DEF Divided, Sums
  <2>4. x \in left <=> Holding(k, crc, x)
    BY <2>1, <2>2, <2>3
  <2> QED BY <1>1, <2>4 DEF Holding
<1> HIDE DEF left
<1>5. ASSUME NEW x \in Int
      PROVE  x \in held <=> x \in 0 .. m - 1 /\ crc[x + low]
  <2>1. ASSUME NEW i \in {j \in 0 .. top : crc[j]}, x = i - low, low <= i
        PROVE  x \in 0 .. m - 1 /\ crc[x + low]
    <3>1. i \in Int /\ i <= top /\ x + low = i
      BY <2>1
    <3> QED BY <1>0, <2>1, <3>1
  <2>2. ASSUME x \in 0 .. m - 1, crc[x + low]
        PROVE  x \in held
    <3>1. x + low \in {j \in 0 .. top : crc[j]} /\ x = (x + low) - low
      BY <1>0, <2>2
    <3> QED BY <3>1
  <2>3. \A i \in {j \in 0 .. top : crc[j]} : low <= i
    BY <1>1 DEF Bits
  <2> QED BY <2>1, <2>2, <2>3
<1>6. held \subseteq Int
  OBVIOUS
<1> HIDE DEF held
<1>7. left = held
  <2>1. ASSUME NEW x \in left PROVE x \in held
    <3>1. x \in 0 .. n + m - 1 /\ x \in Int
      BY <1>3
    <3> QED BY <1>4, <1>5, <2>1, <3>1
  <2>2. ASSUME NEW x \in held PROVE x \in left
    <3>1. x \in Int
      BY <1>6
    <3>2. x \in 0 .. m - 1 /\ crc[x + low]
      BY <1>5, <2>2, <3>1
    <3>3. x \in 0 .. n + m - 1
      BY <3>1, <3>2
    <3> QED BY <1>4, <3>2, <3>3
  <2> QED BY <2>1, <2>2
<1> QED BY <1>1, <1>2, <1>7 DEF held, Bits

-----------------------------------------------------------------------------
(* Fields of the CSD register *)

\* The equations of a field's value, from its highest bit down.
LEMMA SliceSteps ==
    ASSUME NEW s, NEW high \in Int, NEW low \in Int, low <= high
    PROVE  /\ Slice(s, high, low)[high + 1] = 0
           /\ \A b \in low .. high :
                  Slice(s, high, low)[b] = 2 * Slice(s, high, low)[b + 1] + BitAt(s, 128 - b)
<1> DEFINE top == high + 1
           step == [p \in (low .. top - 1) \X Int |-> 2 * p[2] + BitAt(s, 128 - p[1])]
           Solves(f) == f = [b \in low .. top |->
                                IF b = top THEN 0 ELSE 2 * f[b + 1] + BitAt(s, 128 - b)]
<1>1. top \in Int /\ low <= top
  OBVIOUS
<1>2. ASSUME NEW b \in low .. top - 1, NEW v \in Int
      PROVE  step[<<b, v>>] = 2 * v + BitAt(s, 128 - b) /\ 2 * v + BitAt(s, 128 - b) \in Int
  <2>1. <<b, v>> \in (low .. top - 1) \X Int
    OBVIOUS
  <2>2. BitAt(s, 128 - b) \in Int
    BY DEF BitAt
  <2> QED BY <2>1, <2>2
<1>3. PICK f \in [low .. top -> Int] :
          f[top] = 0 /\ \A b \in low .. top - 1 : f[b] = step[<<b, f[b + 1]>>]
  <2>1. step \in [(low .. top - 1) \X Int -> Int] /\ 0 \in Int
    <3>1. \A p \in (low .. top - 1) \X Int : 2 * p[2] + BitAt(s, 128 - p[1]) \in Int
      BY DEF BitAt
    <3> QED BY <3>1
  <2> HIDE DEF top, step, Solves
  <2>2. Solutions(low, top, Int, 0, step) # {}
    BY <1>1, <2>1, DownwardRecursion
  <2> QED BY <2>2 DEF Solutions
<1>4. Solves(f)
  <2> SUFFICES ASSUME NEW b \in low .. top
               PROVE  f[b] = IF b = top THEN 0 ELSE 2 * f[b + 1] + BitAt(s, 128 - b)
    OBVIOUS
  <2>1. CASE b = top
    BY <1>3, <2>1
  <2>2. CASE b # top
    <3>1. b \in low .. top - 1 /\ b + 1 \in low .. top
      BY <1>1, <2>2
    <3>2. f[b + 1] \in Int
      BY <1>3, <3>1
    <3>3. f[b] = step[<<b, f[b + 1]>>]
      BY <1>3, <3>1
    <3>4. step[<<b, f[b + 1]>>] = 2 * f[b + 1] + BitAt(s, 128 - b)
      BY <1>2, <3>1, <3>2
    <3> QED BY <2>2, <3>3, <3>4
  <2> QED BY <2>1, <2>2
<1> DEFINE v == Slice(s, high, low)
<1>5. Solves(v)
  <2>1. v = CHOOSE g : Solves(g)
    BY DEF Slice
  <2> HIDE DEF Solves, v
  <2> QED BY <1>4, <2>1
<1> HIDE DEF v
<1>6. \A b \in low .. top : v[b] = IF b = top THEN 0 ELSE 2 * v[b + 1] + BitAt(s, 128 - b)
  BY <1>5
<1>7. v[top] = 0 /\ \A b \in low .. high : v[b] = 2 * v[b + 1] + BitAt(s, 128 - b)
  BY <1>6
<1> QED BY <1>7 DEF v

\* What shifts and masks cut out of a byte.
LEMMA PartsOfByte ==
    ASSUME NEW a \in 0 .. 1, NEW b \in 0 .. 1, NEW c \in 0 .. 1, NEW d \in 0 .. 1,
           NEW e \in 0 .. 1, NEW f \in 0 .. 1, NEW g \in 0 .. 1, NEW h \in 0 .. 1,
           NEW x \in Int, x = 128 * a + 64 * b + 32 * c + 16 * d + 8 * e + 4 * f + 2 * g + h
    PROVE  /\ x % 4 = 2 * g + h
           /\ x % 16 = 8 * e + 4 * f + 2 * g + h
           /\ x % 64 = 32 * c + 16 * d + 8 * e + 4 * f + 2 * g + h
           /\ x \div 64 = 2 * a + b
           /\ x \div 128 = a
<1>1. x % 4 = 2 * g + h
  <2>1. PICK q \in Int : x = 4 * q + (2 * g + h)
    <3>1. x = 4 * (32 * a + 16 * b + 8 * c + 4 * d + 2 * e + f) + (2 * g + h)
      OBVIOUS
    <3> QED BY <3>1
  <2> QED BY <2>1
<1>2. x % 16 = 8 * e + 4 * f + 2 * g + h
  <2>1. PICK q \in Int : x = 16 * q + (8 * e + 4 * f + 2 * g + h)
    <3>1. x = 16 * (8 * a + 4 * b + 2 * c + d) + (8 * e + 4 * f + 2 * g + h)
      OBVIOUS
    <3> QED BY <3>1
  <2> QED BY <2>1
<1>3. x % 64 = 32 * c + 16 * d + 8 * e + 4 * f + 2 * g + h
  OBVIOUS
<1>4. x \div 64 = 2 * a + b
  OBVIOUS
<1>5. x \div 128 = a
  OBVIOUS
<1> QED BY <1>1, <1>2, <1>3, <1>4, <1>5

\* A byte of the register, as sd_spi_read_csd takes it from the buffer, and its bits.
LEMMA ByteOfBits ==
    ASSUME NEW s, NEW i \in 0 .. 15
    PROVE  LET bit(j) == BitAt(s, 8 * i + j)
           IN  /\ \A j : BitAt(s, j) \in 0 .. 1
               /\ Byte(s, i) = 128 * bit(1) + 64 * bit(2) + 32 * bit(3) + 16 * bit(4)
                                 + 8 * bit(5) + 4 * bit(6) + 2 * bit(7) + bit(8)
               /\ Byte(s, i) % 4 = 2 * bit(7) + bit(8)
               /\ Byte(s, i) % 16 = 8 * bit(5) + 4 * bit(6) + 2 * bit(7) + bit(8)
               /\ Byte(s, i) % 64 = 32 * bit(3) + 16 * bit(4) + 8 * bit(5) + 4 * bit(6)
                                      + 2 * bit(7) + bit(8)
               /\ Byte(s, i) \div 64 = 2 * bit(1) + bit(2)
               /\ Byte(s, i) \div 128 = bit(1)
<1> DEFINE bit(j) == BitAt(s, 8 * i + j)
<1>1. \A j : BitAt(s, j) \in 0 .. 1
  BY DEF BitAt
<1>2. Byte(s, i) = 128 * bit(1) + 64 * bit(2) + 32 * bit(3) + 16 * bit(4)
                     + 8 * bit(5) + 4 * bit(6) + 2 * bit(7) + bit(8)
  BY DEF Byte, BitAt
<1>3. \A j \in 1 .. 8 : bit(j) \in 0 .. 1
  BY <1>1
<1> HIDE DEF bit
<1>4. Byte(s, i) \in Int
  BY <1>2, <1>3
<1> QED BY <1>1, <1>2, <1>3, <1>4, PartsOfByte DEF bit

\* The eight bits of a field that make a whole byte.
LEMMA WholeByte ==
    ASSUME NEW s, NEW high \in Int, NEW low \in Int, NEW i \in 0 .. 15,
           low <= 120 - 8 * i, 127 - 8 * i <= high,
           Slice(s, high, low)[128 - 8 * i] \in Int
    PROVE  Slice(s, high, low)[120 - 8 * i] = 256 * Slice(s, high, low)[128 - 8 * i] + Byte(s, i)
<1> DEFINE v == Slice(s, high, low)
           bit(j) == BitAt(s, 8 * i + j)
<1>1. \A b \in low .. high : v[b] = 2 * v[b + 1] + BitAt(s, 128 - b)
  BY SliceSteps
<1>2. ASSUME NEW j \in 1 .. 8
      PROVE  v[(128 - 8 * i) - j] = 2 * v[(128 - 8 * i) - (j - 1)] + bit(j)
  <2>1. PICK b \in low .. high : b = (128 - 8 * i) - j
    OBVIOUS
  <2>2. b + 1 = (128 - 8 * i) - (j - 1) /\ 128 - b = 8 * i + j
    BY <2>1
  <2> QED BY <1>1, <2>1, <2>2
<1>3. \A j \in 1 .. 8 : bit(j) \in 0 .. 1
  BY ByteOfBits
<1>4. Byte(s, i) = 128 * bit(1) + 64 * bit(2) + 32 * bit(3) + 16 * bit(4)
                     + 8 * bit(5) + 4 * bit(6) + 2 * bit(7) + bit(8)
  BY ByteOfBits
<1> DEFINE w(j) == v[(128 - 8 * i) - j]
<1>5. \A j \in 1 .. 8 : w(j) = 2 * w(j - 1) + bit(j)
  BY <1>2
<1>6. w(0) = v[128 - 8 * i] /\ w(8) = v[120 - 8 * i]
  <2>1. (128 - 8 * i) - 0 = 128 - 8 * i /\ (128 - 8 * i) - 8 = 120 - 8 * i
    OBVIOUS
  <2> QED BY <2>1
<1>7. w(0) \in Int
  BY <1>6
<1> HIDE DEF w, bit
<1>8. /\ w(1) = 2 * w(0) + bit(1) /\ w(2) = 2 * w(1) + bit(2)
      /\ w(3) = 2 * w(2) + bit(3) /\ w(4) = 2 * w(3) + bit(4)
      /\ w(5) = 2 * w(4) + bit(5) /\ w(6) = 2 * w(5) + bit(6)
      /\ w(7) = 2 * w(6) + bit(7) /\ w(8) = 2 * w(7) + bit(8)
  BY <1>5
<1>9. w(8) = 256 * w(0) + Byte(s, i)
  <2>1. w(2) = 4 * w(0) + 2 * bit(1) + bit(2)
    BY <1>3, <1>7, <1>8
  <2>2. w(4) = 4 * w(2) + 2 * bit(3) + bit(4)
    BY <1>3, <1>7, <1>8, <2>1
  <2>3. w(6) = 4 * w(4) + 2 * bit(5) + bit(6)
    BY <1>3, <1>7, <1>8, <2>1, <2>2
  <2>4. w(8) = 4 * w(6) + 2 * bit(7) + bit(8)
    BY <1>3, <1>7, <1>8, <2>1, <2>2, <2>3
  <2> QED BY <1>3, <1>4, <1>7, <2>1, <2>2, <2>3, <2>4
<1> QED BY <1>6, <1>9

\* What the driver reads as the structure, the block length, the size and its
\* multiplier are the fields of the SD specification, for every register.
LEMMA StructureField ==
    ASSUME NEW s
    PROVE  Structure(s) = Field(s, 127, 126)
<1> DEFINE v == Slice(s, 127, 126)
<1>1. v[128] = 0 /\ \A b \in 126 .. 127 : v[b] = 2 * v[b + 1] + BitAt(s, 128 - b)
  BY SliceSteps
<1>2. v[127] = BitAt(s, 1) /\ v[126] = 2 * BitAt(s, 1) + BitAt(s, 2)
  <2> HIDE DEF v
  <2>1. BitAt(s, 1) \in 0 .. 1 /\ BitAt(s, 2) \in 0 .. 1
    BY ByteOfBits
  <2>2. v[127] = 2 * v[128] + BitAt(s, 1) /\ v[126] = 2 * v[127] + BitAt(s, 2)
    BY <1>1
  <2> QED BY <1>1, <2>1, <2>2
<1>3. Byte(s, 0) \div 64 = 2 * BitAt(s, 1) + BitAt(s, 2)
  BY ByteOfBits
<1> QED BY <1>2, <1>3 DEF Structure, Field

\* READ_BL_LEN, the low half of byte 5.
LEMMA LengthField ==
    ASSUME NEW s
    PROVE  ReadBlockLength(s) = Field(s, 83, 80)
<1> DEFINE v == Slice(s, 83, 80)
<1>1. v[84] = 0 /\ \A b \in 80 .. 83 : v[b] = 2 * v[b + 1] + BitAt(s, 128 - b)
  BY SliceSteps
<1>2. v[80] = 8 * BitAt(s, 45) + 4 * BitAt(s, 46) + 2 * BitAt(s, 47) + BitAt(s, 48)
  <2> HIDE DEF v
  <2>1. \A j : BitAt(s, j) \in 0 .. 1
    BY DEF BitAt
  <2>2. /\ v[83] = 2 * v[84] + BitAt(s, 45) /\ v[82] = 2 * v[83] + BitAt(s, 46)
        /\ v[81] = 2 * v[82] + BitAt(s, 47) /\ v[80] = 2 * v[81] + BitAt(s, 48)
    BY <1>1
  <2>3. v[82] = 2 * BitAt(s, 45) + BitAt(s, 46)
    BY <1>1, <2>1, <2>2
  <2> QED BY <2>1, <2>2, <2>3
<1>3. Byte(s, 5) % 16 = 8 * BitAt(s, 45) + 4 * BitAt(s, 46) + 2 * BitAt(s, 47) + BitAt(s, 48)
  BY ByteOfBits
<1> QED BY <1>2, <1>3 DEF ReadBlockLength, Field

\* C_SIZE of version 1.0, which runs over three bytes.
LEMMA Size1Field ==
    ASSUME NEW s
    PROVE  Size1(s) = Field(s, 73, 62)
<1> DEFINE v == Slice(s, 73, 62)
<1>1. v[74] = 0 /\ \A b \in 62 .. 73 : v[b] = 2 * v[b + 1] + BitAt(s, 128 - b)
  BY SliceSteps
<1>2. \A j : BitAt(s, j) \in 0 .. 1
  BY DEF BitAt
<1>3. v[72] = Byte(s, 6) % 4 /\ v[72] \in Int
  <2>1. v[73] = 2 * v[74] + BitAt(s, 55) /\ v[72] = 2 * v[73] + BitAt(s, 56)
    BY <1>1
  <2>2. Byte(s, 6) % 4 = 2 * BitAt(s, 55) + BitAt(s, 56)
    BY ByteOfBits
  <2> HIDE DEF v
  <2> QED BY <1>1, <1>2, <2>1, <2>2
<1>4. v[64] = 256 * v[72] + Byte(s, 7)
  <2>1. 7 \in 0 .. 15 /\ 128 - 8 * 7 = 72 /\ 120 - 8 * 7 = 64 /\ 127 - 8 * 7 = 71
    OBVIOUS
  <2> QED BY <1>3, <2>1, WholeByte
<1>5. v[62] = 4 * v[64] + Byte(s, 8) \div 64
  <2>1. v[63] = 2 * v[64] + BitAt(s, 65) /\ v[62] = 2 * v[63] + BitAt(s, 66)
    BY <1>1
  <2>2. Byte(s, 8) \div 64 = 2 * BitAt(s, 65) + BitAt(s, 66)
    BY ByteOfBits
  <2>3. Byte(s, 7) \in Int
    BY DEF Byte
  <2> HIDE DEF v
  <2> QED BY <1>2, <1>3, <1>4, <2>1, <2>2, <2>3
<1>6. Byte(s, 7) \in Int /\ Byte(s, 8) \div 64 \in Int
  <2>1. Byte(s, 8) \div 64 = 2 * BitAt(s, 65) + BitAt(s, 66)
    BY ByteOfBits
  <2> QED BY <1>2, <2>1 DEF Byte
<1> HIDE DEF v
<1>7. v[62] = (Byte(s, 6) % 4) * 1024 + Byte(s, 7) * 4 + Byte(s, 8) \div 64
  BY <1>3, <1>4, <1>5, <1>6
<1> QED BY <1>7 DEF Size1, Field, v

\* C_SIZE_MULT of version 1.0, which runs over two bytes.
LEMMA Multiplier1Field ==
    ASSUME NEW s
    PROVE  Multiplier1(s) = Field(s, 49, 47)
<1> DEFINE v == Slice(s, 49, 47)
<1>1. v[50] = 0 /\ \A b \in 47 .. 49 : v[b] = 2 * v[b + 1] + BitAt(s, 128 - b)
  BY SliceSteps
<1>2. /\ v[49] = 2 * v[50] + BitAt(s, 79) /\ v[48] = 2 * v[49] + BitAt(s, 80)
      /\ v[47] = 2 * v[48] + BitAt(s, 81)
  BY <1>1
<1>3. Byte(s, 9) % 4 = 2 * BitAt(s, 79) + BitAt(s, 80) /\ Byte(s, 10) \div 128 = BitAt(s, 81)
  BY ByteOfBits
<1>4. \A j : BitAt(s, j) \in 0 .. 1
  BY DEF BitAt
<1> HIDE DEF v
<1>5. v[47] = (Byte(s, 9) % 4) * 2 + Byte(s, 10) \div 128
  BY <1>1, <1>2, <1>3, <1>4
<1> QED BY <1>5 DEF Multiplier1, Field, v

\* C_SIZE of version 2.0, which runs over three bytes.
LEMMA Size2Field ==
    ASSUME NEW s
    PROVE  Size2(s) = Field(s, 69, 48)
<1> DEFINE v == Slice(s, 69, 48)
<1>1. v[70] = 0 /\ \A b \in 48 .. 69 : v[b] = 2 * v[b + 1] + BitAt(s, 128 - b)
  BY SliceSteps
<1>2. \A j : BitAt(s, j) \in 0 .. 1
  BY DEF BitAt
<1>3. v[64] = Byte(s, 7) % 64 /\ v[64] \in Int
  <2>1. /\ v[69] = 2 * v[70] + BitAt(s, 59) /\ v[68] = 2 * v[69] + BitAt(s, 60)
        /\ v[67] = 2 * v[68] + BitAt(s, 61) /\ v[66] = 2 * v[67] + BitAt(s, 62)
        /\ v[65] = 2 * v[66] + BitAt(s, 63) /\ v[64] = 2 * v[65] + BitAt(s, 64)
    BY <1>1
  <2>2. Byte(s, 7) % 64 = 32 * BitAt(s, 59) + 16 * BitAt(s, 60) + 8 * BitAt(s, 61)
                            + 4 * BitAt(s, 62) + 2 * BitAt(s, 63) + BitAt(s, 64)
    BY ByteOfBits
  <2> HIDE DEF v
  <2>3. v[68] = 2 * BitAt(s, 59) + BitAt(s, 60)
    BY <1>1, <1>2, <2>1
  <2>4. v[66] = 4 * v[68] + 2 * BitAt(s, 61) + BitAt(s, 62)
    BY <1>2, <2>1, <2>3
  <2>5. v[64] = 4 * v[66] + 2 * BitAt(s, 63) + BitAt(s, 64)
    BY <1>2, <2>1, <2>3, <2>4
  <2> QED BY <1>2, <2>2, <2>3, <2>4, <2>5
<1>4. v[56] = 256 * v[64] + Byte(s, 8)
  <2>1. 8 \in 0 .. 15 /\ 128 - 8 * 8 = 64 /\ 120 - 8 * 8 = 56 /\ 127 - 8 * 8 = 63
    OBVIOUS
  <2> QED BY <1>3, <2>1, WholeByte
<1>5. Byte(s, 8) \in Int /\ Byte(s, 9) \in Int
  BY DEF Byte
<1>6. v[48] = 256 * v[56] + Byte(s, 9)
  <2>1. 9 \in 0 .. 15 /\ 128 - 8 * 9 = 56 /\ 120 - 8 * 9 = 48 /\ 127 - 8 * 9 = 55
    OBVIOUS
  <2>2. v[56] \in Int
    <3> HIDE DEF v
    <3> QED BY <1>3, <1>4, <1>5
  <2> QED BY <2>1, <2>2, WholeByte
<1> HIDE DEF v
<1>7. v[48] = (Byte(s, 7) % 64) * 65536 + Byte(s, 8) * 256 + Byte(s, 9)
  BY <1>3, <1>4, <1>5, <1>6
<1> QED BY <1>7 DEF Size2, Field, v

-----------------------------------------------------------------------------
(* The steps of a transfer *)

\* Init: no transfer has begun.
LEMMA InitEstablishes == Init => SdInv
<1> SUFFICES ASSUME Init PROVE SdInv
  OBVIOUS
<1> USE DEF Init
<1>1. TypeOK
  BY Widths, DataAssumption DEF TypeOK, Kinds, Registers, Zero, Bits
<1>2. LongDivision /\ CapacityIsExact
  BY DEF LongDivision, CapacityIsExact, Ended
<1> QED BY <1>1, <1>2, Widths DEF SdInv, PlaceOK, LowBitsClear, CleanAgrees, DamageShows, DamageIsCaught,
           Ended, Zero, Bits, Kinds, Mismatch

\* Begin: a new transfer starts with both registers clear.
LEMMA BeginKeeps ==
    ASSUME SdInv, NEW k \in Kinds, NEW d \in Messages[k], Begin(k, d)
    PROVE  SdInv'
<1> USE DEF Begin, Seed
<1>1. d \in Seq(BOOLEAN) /\ d # <<>> /\ Len(d) \in Nat \ {0}
  BY DataAssumption, EmptySeq, LenProperties
<1>2. TypeOK'
  <2>1. Zero(k) \in Registers(k)
    BY DEF Zero, Registers
  <2>2. hcxc' \in BOOLEAN
    BY DEF SdInv, TypeOK
  <2> QED BY <1>1, <2>1, <2>2, Widths, EmptySeq DEF TypeOK
<1>3. PlaceOK'
  BY <1>1 DEF PlaceOK
<1>4. LowBitsClear'
  BY DEF LowBitsClear, Zero
<1>5. CleanAgrees' /\ DamageShows' /\ DamageIsCaught'
  BY DEF CleanAgrees, DamageShows, DamageIsCaught, Ended
<1>6. LongDivision'
  <2>1. Divided(k, d, 0, Zero(k))
    BY <1>1, DivisionBegins
  <2> QED BY <2>1 DEF LongDivision, Taken
<1>7. CapacityIsExact'
  BY DEF CapacityIsExact, Ended
<1> QED BY <1>2, <1>3, <1>4, <1>5, <1>6, <1>7 DEF SdInv

\* A damaged bit is counted, and the burst is never longer than it may be.
LEMMA DamageCounts ==
    ASSUME TypeOK, NEW flip \in BOOLEAN, Damage(flip)
    PROVE  /\ noise' \in 0 .. Burst[kind]
           /\ noise' = 0 <=> noise = 0 /\ ~flip
           /\ noise < Burst[kind] /\ (noise > 0 \/ flip) => noise' = noise + 1
           /\ noise = Burst[kind] => noise' = noise /\ ~flip
BY Widths DEF TypeOK, Damage

\* DataBit: both registers take a bit, which the line may have changed.
LEMMA DataBitKeeps ==
    ASSUME SdInv, NEW flip \in BOOLEAN, DataBit(flip)
    PROVE  SdInv'
<1> DEFINE sent == data[at]
           seen == data[at] # flip
<1>1. kind \in Kinds /\ kind' = kind /\ data' = data
  BY DEF SdInv, TypeOK, DataBit
<1>2. /\ data \in Seq(BOOLEAN) /\ Len(data) \in Nat /\ at \in 1 .. Len(data)
      /\ got \in Seq(BOOLEAN) /\ Len(got) = at - 1 /\ phase = "data"
  BY LenProperties DEF SdInv, TypeOK, PlaceOK, DataBit
<1>3. sent \in BOOLEAN /\ seen \in BOOLEAN
  BY <1>2, ElementOfSeq
<1>4. /\ crc_calc \in Registers(kind) /\ sent_crc \in Registers(kind) /\ crc_in \in Registers(kind)
      /\ crc_calc' = Shift(kind, crc_calc, seen) /\ sent_crc' = Shift(kind, sent_crc, sent)
      /\ crc_in' = crc_in
  BY DEF SdInv, TypeOK, DataBit
<1>5. /\ noise' \in 0 .. Burst[kind]
      /\ noise' = 0 <=> noise = 0 /\ ~flip
      /\ noise < Burst[kind] /\ (noise > 0 \/ flip) => noise' = noise + 1
      /\ noise = Burst[kind] => noise' = noise /\ ~flip
  BY DamageCounts DEF SdInv, DataBit
<1>6. \/ at = Len(data) /\ phase' = "crc" /\ at' = Top(kind)
      \/ at # Len(data) /\ phase' = "data" /\ at' = at + 1
  BY DEF DataBit
<1>7. got' = Append(got, seen) /\ UNCHANGED <<hcxc, result, capacity>>
  BY DEF DataBit
<1>8. /\ got' \in Seq(BOOLEAN) /\ Len(got') = at
      /\ \A j \in 1 .. at - 1 : got'[j] = got[j]
      /\ got'[at] = seen
  BY <1>2, <1>3, <1>7, AppendProperties
<1> HIDE DEF sent, seen
<1>9. TypeOK'
  <2>1. crc_calc' \in Registers(kind) /\ sent_crc' \in Registers(kind)
    BY <1>1, <1>3, <1>4, ShiftKeepsRegister
  <2> QED BY <1>1, <1>2, <1>4, <1>5, <1>6, <1>7, <1>8, <2>1, Widths DEF SdInv, TypeOK
<1>10. PlaceOK'
  BY <1>1, <1>2, <1>6, <1>8, Widths DEF SdInv, PlaceOK
<1>11. LowBitsClear'
  BY <1>1, <1>3, <1>4, ShiftKeepsRegister DEF SdInv, LowBitsClear
<1>12. CleanAgrees'
  <2> SUFFICES ASSUME noise' = 0 PROVE CleanAgrees'
    BY DEF CleanAgrees
  <2>1. noise = 0 /\ ~flip /\ seen = sent
    BY <1>3, <1>5 DEF seen, sent
  <2>2. crc_calc' = sent_crc'
    BY <1>4, <2>1 DEF SdInv, CleanAgrees
  <2>3. \A j \in 1 .. at : got'[j] = data[j]
    BY <1>2, <1>8, <2>1 DEF SdInv, CleanAgrees, sent
  <2>4. phase' = "data" => \A j \in 1 .. at' - 1 : got'[j] = data'[j]
    BY <1>1, <1>2, <1>6, <2>3
  <2>5. phase' = "crc" => got' = data'
    BY <1>1, <1>2, <1>6, <1>8, <2>3, SeqEqual
  <2>6. phase' = "crc" => \A i \in Bits(kind') : i > at' => ~Mismatch(i)'
    BY <1>1, <1>6, Widths DEF Bits
  <2> QED BY <1>6, <2>2, <2>4, <2>5, <2>6 DEF CleanAgrees
<1>13. DamageShows'
  <2> SUFFICES ASSUME noise' > 0
               PROVE  \E i \in Low(kind) .. Top(kind) :
                          Differ(i)' /\ noise' + (Top(kind) - i) >= Burst[kind]
    BY <1>1, <1>6, Widths DEF DamageShows
  <2> DEFINE fed(c, bit) == c[Top(kind)] # bit
  <2>1. CASE ~(fed(crc_calc, seen) <=> fed(sent_crc, sent))
    <3>1. Differ(Low(kind))'
      BY <1>1, <1>3, <1>4, <2>1, OtherFeedbackShows DEF SdInv, LowBitsClear, Differ
    <3> QED BY <1>1, <1>5, <3>1, Widths
  <2>2. CASE fed(crc_calc, seen) <=> fed(sent_crc, sent)
    <3>0. Top(kind) \in Bits(kind)
      BY <1>1, Widths DEF Bits
    <3>1. noise > 0
      <4> SUFFICES ASSUME noise = 0 PROVE FALSE
        BY DEF SdInv, TypeOK
      <4>1. flip /\ crc_calc = sent_crc
        BY <1>5 DEF SdInv, CleanAgrees
      <4>2. ~(seen <=> sent)
        BY <1>3, <4>1 DEF seen, sent
      <4> QED BY <1>3, <1>4, <2>2, <3>0, <4>1, <4>2 DEF Registers
    <3>2. PICK i \in Low(kind) .. Top(kind) :
              Differ(i) /\ noise + (Top(kind) - i) >= Burst[kind]
      BY <1>2, <3>1 DEF SdInv, DamageShows
    <3>3. i < Top(kind)
      <4> SUFFICES ASSUME i = Top(kind) PROVE FALSE
        BY <1>1, Widths
      <4>1. noise = Burst[kind]
        BY <1>1, <3>2, Widths DEF SdInv, TypeOK
      <4>2. seen <=> sent
        BY <1>3, <1>5, <4>1 DEF seen, sent
      <4>3. ~(crc_calc[Top(kind)] <=> sent_crc[Top(kind)])
        BY <3>2 DEF Differ
      <4>4. crc_calc[Top(kind)] \in BOOLEAN /\ sent_crc[Top(kind)] \in BOOLEAN
        BY <1>4, <3>0 DEF Registers
      <4> QED BY <1>3, <2>2, <4>2, <4>3, <4>4
    <3>4. Differ(i + 1)'
      BY <1>1, <1>3, <1>4, <2>2, <3>2, <3>3, SameFeedbackCarries DEF Differ
    <3>5. i + 1 \in Low(kind) .. Top(kind) /\ noise' + (Top(kind) - (i + 1)) >= Burst[kind]
      <4>1. Top(kind) \in Nat /\ Low(kind) \in Nat /\ Burst[kind] \in Nat /\ noise \in 0 .. Burst[kind]
        BY <1>1, Widths DEF SdInv, TypeOK
      <4>2. i \in Int /\ Low(kind) <= i /\ i < Top(kind) /\ noise + (Top(kind) - i) >= Burst[kind]
        BY <3>2, <3>3, <4>1
      <4>3. noise' = noise + 1 \/ (noise' = noise /\ noise = Burst[kind])
        BY <1>5, <3>1, <4>1
      <4>4. i + 1 \in Low(kind) .. Top(kind)
        BY <4>1, <4>2
      <4>5. noise' + (Top(kind) - (i + 1)) >= Burst[kind]
        BY <4>1, <4>2, <4>3
      <4> QED BY <4>4, <4>5
    <3> DEFINE j == i + 1
    <3>6. j \in Low(kind) .. Top(kind) /\ Differ(j)' /\ noise' + (Top(kind) - j) >= Burst[kind]
      BY <3>4, <3>5
    <3> HIDE DEF j
    <3> QED BY <3>6
  <2> QED BY <2>1, <2>2
<1>14. DamageIsCaught'
  BY <1>6 DEF DamageIsCaught, Ended
<1>15. LongDivision'
  <2>1. Divided(kind, data, at - 1, sent_crc)
    BY <1>2 DEF SdInv, LongDivision, Taken
  <2>2. at - 1 \in 0 .. Len(data) - 1 /\ (at - 1) + 1 = at
    BY <1>2
  <2>3. Divided(kind, data, at, Shift(kind, sent_crc, data[at]))
    <3>1. Divided(kind, data, (at - 1) + 1, Shift(kind, sent_crc, data[(at - 1) + 1]))
      BY <1>1, <1>2, <1>4, <2>1, <2>2, DivisionSteps DEF SdInv, LowBitsClear
    <3> QED BY <2>2, <3>1
  <2>4. Taken' = at
    BY <1>1, <1>2, <1>6 DEF Taken
  <2> QED BY <1>1, <1>4, <2>3, <2>4 DEF LongDivision, sent
<1>16. CapacityIsExact'
  BY <1>6 DEF CapacityIsExact, Ended
<1> QED BY <1>9, <1>10, <1>11, <1>12, <1>13, <1>14, <1>15, <1>16 DEF SdInv

\* ChecksumBit: the receiver takes the sender's bit, which the line may have changed.
LEMMA ChecksumBitKeeps ==
    ASSUME SdInv, NEW flip \in BOOLEAN, ChecksumBit(flip)
    PROVE  SdInv'
<1>1. /\ kind \in Kinds /\ kind' = kind /\ data' = data /\ got' = got
      /\ phase = "crc" /\ at' = at - 1
      /\ UNCHANGED <<hcxc, sent_crc, crc_calc, result, capacity>>
  BY DEF SdInv, TypeOK, ChecksumBit
<1>2. at \in Low(kind) .. Top(kind) /\ at \in Bits(kind) /\ at \in Int
  BY <1>1, Widths DEF SdInv, PlaceOK, Bits
<1>3. /\ crc_calc \in Registers(kind) /\ sent_crc \in Registers(kind) /\ crc_in \in Registers(kind)
      /\ crc_in' = [crc_in EXCEPT ![at] = sent_crc[at] # flip]
  BY DEF SdInv, TypeOK, ChecksumBit
<1>4. /\ noise' \in 0 .. Burst[kind]
      /\ noise' = 0 <=> noise = 0 /\ ~flip
      /\ noise < Burst[kind] /\ (noise > 0 \/ flip) => noise' = noise + 1
      /\ noise = Burst[kind] => noise' = noise /\ ~flip
  BY DamageCounts DEF SdInv, ChecksumBit
<1>5. \/ at = Low(kind) /\ phase' = "check"
      \/ at # Low(kind) /\ phase' = "crc"
  BY DEF ChecksumBit
<1>6. /\ crc_in' \in Registers(kind)
      /\ crc_in'[at] <=> (sent_crc[at] # flip)
      /\ \A i \in Bits(kind) : i # at => crc_in'[i] = crc_in[i]
      /\ sent_crc[at] \in BOOLEAN /\ crc_calc[at] \in BOOLEAN
  BY <1>2, <1>3 DEF Registers
<1>7. TypeOK'
  BY <1>1, <1>2, <1>3, <1>4, <1>5, <1>6 DEF SdInv, TypeOK
<1>8. PlaceOK'
  BY <1>1, <1>2, <1>5, Widths DEF SdInv, PlaceOK
<1>9. LowBitsClear'
  <2> SUFFICES ASSUME NEW i \in Bits(kind), i < Low(kind)
               PROVE  ~sent_crc[i] /\ ~crc_calc[i] /\ ~crc_in'[i]
    BY <1>1 DEF LowBitsClear
  <2>1. i # at
    BY <1>1, <1>2, Widths DEF Bits
  <2> QED BY <1>6, <2>1 DEF SdInv, LowBitsClear
<1>10. CleanAgrees'
  <2> SUFFICES ASSUME noise' = 0 PROVE CleanAgrees'
    BY DEF CleanAgrees
  <2>1. noise = 0 /\ ~flip
    BY <1>4
  <2>2. crc_calc = sent_crc /\ got = data
    BY <1>1, <2>1 DEF SdInv, CleanAgrees
  <2>3. ASSUME NEW i \in Bits(kind), i > at - 1
        PROVE  crc_in'[i] <=> crc_calc[i]
    <3>1. CASE i = at
      BY <1>6, <2>1, <2>2, <3>1
    <3>2. CASE i # at
      <4>1. i > at
        BY <1>2, <1>1, <2>3, <3>2, Widths DEF Bits
      <4>2. crc_in[i] <=> crc_calc[i]
        BY <1>1, <2>1, <4>1 DEF SdInv, CleanAgrees, Mismatch
      <4> QED BY <1>6, <3>2, <4>2
    <3> QED BY <3>1, <3>2
  <2> QED BY <1>1, <1>5, <2>2, <2>3 DEF CleanAgrees, Mismatch
<1>11. DamageShows'
  <2> SUFFICES ASSUME noise' > 0
               PROVE  \E i \in Low(kind) .. Top(kind) :
                          \/ i > at - 1 /\ Mismatch(i)'
                          \/ i <= at - 1 /\ Differ(i)' /\ noise' + (at - 1 - i) >= Burst[kind]
    BY <1>1, <1>5 DEF DamageShows
  <2>1. CASE noise = 0
    <3>1. flip /\ crc_calc = sent_crc
      BY <1>4, <2>1 DEF SdInv, CleanAgrees
    <3>2. ~(crc_in'[at] <=> crc_calc'[at])
      BY <1>1, <1>6, <3>1
    <3> QED BY <1>2, <3>2 DEF Mismatch
  <2>2. CASE noise > 0
    <3>1. PICK i \in Low(kind) .. Top(kind) :
              \/ i > at /\ Mismatch(i)
              \/ i <= at /\ Differ(i) /\ noise + (at - i) >= Burst[kind]
      BY <1>1, <2>2 DEF SdInv, DamageShows
    <3>2. i \in Bits(kind) /\ i \in Int
      BY <1>1, Widths DEF Bits
    <3>3. CASE i > at
      <4>1. Mismatch(i)'
        BY <1>1, <1>2, <1>6, <3>1, <3>2, <3>3 DEF Mismatch
      <4> QED BY <1>2, <3>2, <3>3, <4>1
    <3>4. CASE i < at
      <4>1. Differ(i)'
        BY <1>1, <1>2, <3>1, <3>2, <3>4 DEF Differ
      <4>2. noise' + (at - 1 - i) >= Burst[kind]
        <5>1. /\ noise \in Nat /\ at \in Int /\ i \in Int
              /\ Burst[kind] \in Nat /\ noise \in 0 .. Burst[kind]
          BY <1>1, <3>2, Widths DEF SdInv, TypeOK
        <5>2. noise' = noise + 1 \/ (noise' = noise /\ noise = Burst[kind])
          BY <1>4, <2>2, <5>1
        <5>3. noise + (at - i) >= Burst[kind] /\ i < at
          BY <3>1, <3>4, <5>1
        <5> QED BY <5>1, <5>2, <5>3
      <4> QED BY <1>2, <3>2, <3>4, <4>1, <4>2
    <3>5. CASE i = at
      <4>1. noise = Burst[kind] /\ ~(crc_calc[at] <=> sent_crc[at])
        BY <1>1, <1>2, <3>1, <3>5, Widths DEF SdInv, TypeOK, Differ
      <4>2. ~(crc_in'[at] <=> crc_calc'[at])
        BY <1>1, <1>4, <1>6, <4>1
      <4> QED BY <1>2, <4>2 DEF Mismatch
    <3> QED BY <1>2, <3>2, <3>3, <3>4, <3>5
  <2> QED BY <2>1, <2>2, <1>1, Widths DEF SdInv, TypeOK
<1>12. DamageIsCaught'
  BY <1>5 DEF DamageIsCaught, Ended
<1>13. LongDivision'
  BY <1>1, <1>5 DEF SdInv, LongDivision, Taken
<1>14. CapacityIsExact'
  BY <1>5 DEF CapacityIsExact, Ended
<1> QED BY <1>7, <1>8, <1>9, <1>10, <1>11, <1>12, <1>13, <1>14 DEF SdInv

\* Compare: the checksums agree exactly if the line damaged nothing.
LEMMA MatchesWhenClean ==
    ASSUME SdInv, phase = "check"
    PROVE  Matches <=> noise = 0
<1>1. /\ kind \in Kinds /\ at = Low(kind) - 1
      /\ crc_calc \in Registers(kind) /\ crc_in \in Registers(kind)
  BY DEF SdInv, TypeOK, PlaceOK
<1>2. ASSUME noise = 0 PROVE Matches
  <2>1. ASSUME NEW i \in Bits(kind) PROVE crc_in[i] <=> crc_calc[i]
    BY <1>1, <1>2, Widths DEF SdInv, CleanAgrees, LowBitsClear, Mismatch, Bits
  <2>2. \A i \in Bits(kind) : crc_in[i] = crc_calc[i]
    BY <1>1, <2>1 DEF Registers
  <2> QED BY <1>1, <2>2 DEF Matches, Registers
<1>3. ASSUME noise > 0 PROVE ~Matches
  <2>1. PICK i \in Low(kind) .. Top(kind) : Mismatch(i)
    BY <1>1, <1>3, Widths DEF SdInv, DamageShows
  <2> QED BY <2>1 DEF Matches, Mismatch
<1> QED BY <1>1, <1>2, <1>3, Widths DEF SdInv, TypeOK

\* Compare: the transfer ends, or the register it brought is taken apart.
LEMMA CompareKeeps ==
    ASSUME SdInv, Compare
    PROVE  SdInv'
<1>1. Matches <=> noise = 0
  BY MatchesWhenClean DEF Compare
<1>2. /\ phase = "check" /\ kind \in Kinds
      /\ UNCHANGED <<kind, data, hcxc, at, sent_crc, got, crc_calc, crc_in, noise, capacity>>
      /\ \/ noise = 0 /\ kind = "csd" /\ phase' = "decode" /\ result' = result
         \/ noise = 0 /\ phase' = "done" /\ result' = "OK" /\ kind # "csd"
         \/ noise # 0 /\ phase' = "done" /\ result' = "IO_ERROR"
  BY <1>1 DEF SdInv, TypeOK, Compare
<1>3. TypeOK'
  BY <1>2 DEF SdInv, TypeOK
<1>4. PlaceOK' /\ LowBitsClear' /\ DamageShows'
  BY <1>2, Widths DEF SdInv, PlaceOK, LowBitsClear, DamageShows
<1>5. CleanAgrees'
  BY <1>2 DEF SdInv, CleanAgrees
<1>6. DamageIsCaught'
  BY <1>2 DEF SdInv, TypeOK, CleanAgrees, DamageIsCaught, Ended, Kinds
<1>7. LongDivision' /\ CapacityIsExact'
  BY <1>2 DEF LongDivision, CapacityIsExact, Ended
<1> QED BY <1>3, <1>4, <1>5, <1>6, <1>7 DEF SdInv

\* Decode: what the card's register says of its size is a number of blocks.
LEMMA DecodeKeeps ==
    ASSUME SdInv, Decode
    PROVE  SdInv'
<1>1. /\ phase = "decode" /\ phase' = "done" /\ noise = 0 /\ kind = "csd"
      /\ UNCHANGED <<kind, data, hcxc, at, sent_crc, got, crc_calc, crc_in, noise>>
  BY DEF SdInv, PlaceOK, Decode
<1>2. \A s : \A i \in Nat : Byte(s, i) \in 0 .. 255
  BY DEF Byte
<1>3. /\ Size1(got) + 1 \in Nat /\ Size2(got) + 1 \in Nat
      /\ Multiplier1(got) \in Nat /\ ReadBlockLength(got) \in Nat
  <2>1. ASSUME NEW b \in 0 .. 255
        PROVE  /\ b % 4 \in 0 .. 3 /\ b % 16 \in 0 .. 15 /\ b % 64 \in 0 .. 63
               /\ b \div 64 \in 0 .. 3 /\ b \div 128 \in 0 .. 1
    <3>1. b % 4 \in 0 .. 3 OBVIOUS
    <3>2. b % 16 \in 0 .. 15 OBVIOUS
    <3>3. b % 64 \in 0 .. 63 OBVIOUS
    <3>4. b \div 64 \in 0 .. 3 OBVIOUS
    <3>5. b \div 128 \in 0 .. 1 OBVIOUS
    <3> QED BY <3>1, <3>2, <3>3, <3>4, <3>5
  <2>2. \A i \in {5, 6, 7, 8, 9, 10} : Byte(got, i) \in 0 .. 255
    BY <1>2
  <2>3. Size1(got) + 1 \in Nat
    <3> DEFINE a == Byte(got, 6) % 4
               b == Byte(got, 7)
               c == Byte(got, 8) \div 64
    <3>1. a \in Nat /\ b \in Nat /\ c \in Nat
      BY <2>1, <2>2
    <3>2. Size1(got) = a * 1024 + b * 4 + c
      BY DEF Size1
    <3> HIDE DEF a, b, c
    <3> QED BY <3>1, <3>2
  <2>4. Size2(got) + 1 \in Nat
    <3> DEFINE a == Byte(got, 7) % 64
               b == Byte(got, 8)
               c == Byte(got, 9)
    <3>1. a \in Nat /\ b \in Nat /\ c \in Nat
      BY <2>1, <2>2
    <3>2. Size2(got) = a * 65536 + b * 256 + c
      BY DEF Size2
    <3> HIDE DEF a, b, c
    <3> QED BY <3>1, <3>2
  <2>5. Multiplier1(got) \in Nat
    BY <2>1, <2>2 DEF Multiplier1
  <2>6. ReadBlockLength(got) \in Nat
    BY <2>1, <2>2 DEF ReadBlockLength
  <2> QED BY <2>3, <2>4, <2>5, <2>6
<1>4. result' \in {"none", "OK", "IO_ERROR", "NOT_IMPLEMENTED"} /\ capacity' \in Nat \X Nat
  <2>1. CASE UNCHANGED capacity
    BY <2>1 DEF Decode, SdInv, TypeOK
  <2>2. CASE Fits1(got) /\ result' = "OK"
             /\ capacity' = <<Size1(got) + 1, Multiplier1(got) + 2 + ReadBlockLength(got) - 9>>
    BY <1>3, <2>2 DEF Fits1
  <2>3. CASE result' = "OK" /\ capacity' = <<Size2(got) + 1, 10>>
    BY <1>3, <2>3
  <2> QED BY <2>1, <2>2, <2>3 DEF Decode, SdInv, TypeOK
<1>5. TypeOK'
  BY <1>1, <1>4 DEF SdInv, TypeOK
<1>6. PlaceOK' /\ LowBitsClear' /\ DamageShows'
  BY <1>1 DEF SdInv, PlaceOK, LowBitsClear, DamageShows
<1>7. CleanAgrees'
  BY <1>1 DEF SdInv, CleanAgrees
<1>8. DamageIsCaught'
  BY <1>1 DEF SdInv, CleanAgrees, DamageIsCaught, Ended
<1>9. LongDivision'
  BY <1>1 DEF LongDivision
<1>10. CapacityIsExact'
  <2>1. got = data
    BY <1>1 DEF SdInv, CleanAgrees
  <2> SUFFICES ASSUME result' = "OK"
               PROVE  \/ /\ Structure(data) = 0 /\ ~hcxc
                         /\ ReadBlockLength(data) \in 9 .. 11
                         /\ capacity' = <<Size1(data) + 1,
                                          Multiplier1(data) + 2 + ReadBlockLength(data) - 9>>
                      \/ /\ Structure(data) = 1 /\ hcxc
                         /\ capacity' = <<Size2(data) + 1, 10>>
    BY <1>1, StructureField, LengthField, Size1Field, Multiplier1Field, Size2Field
       DEF CapacityIsExact
  <2> QED BY <2>1 DEF Decode, Fits1
<1> QED BY <1>5, <1>6, <1>7, <1>8, <1>9, <1>10 DEF SdInv

-----------------------------------------------------------------------------
(* The theorems *)

\* SdInv holds of every reachable state, for every length of the messages, every
\* place damage may begin at, and every burst no longer than the checksum.
THEOREM InductiveInvariant == Spec => []SdInv
<1>1. ASSUME SdInv, [Next]_vars PROVE SdInv'
  <2>1. ASSUME NEW k \in Kinds, NEW d \in Messages[k], Begin(k, d) PROVE SdInv'
    BY <1>1, <2>1, BeginKeeps
  <2>2. ASSUME NEW flip \in BOOLEAN, DataBit(flip) PROVE SdInv'
    BY <1>1, <2>2, DataBitKeeps
  <2>3. ASSUME NEW flip \in BOOLEAN, ChecksumBit(flip) PROVE SdInv'
    BY <1>1, <2>3, ChecksumBitKeeps
  <2>4. CASE Compare
    BY <1>1, <2>4, CompareKeeps
  <2>5. CASE Decode
    BY <1>1, <2>5, DecodeKeeps
  <2>6. CASE UNCHANGED vars
    BY <1>1, <2>6 DEF vars, SdInv, TypeOK, PlaceOK, LowBitsClear, CleanAgrees, DamageShows,
       DamageIsCaught, LongDivision, Taken, CapacityIsExact, Differ, Mismatch, Ended
  <2> QED BY <1>1, <2>1, <2>2, <2>3, <2>4, <2>5, <2>6 DEF Next
<1> QED BY <1>1, InitEstablishes, PTL DEF Spec

\* Registers, positions and the capacity keep their types (sd_crc.c, sd_spi_read_csd).
THEOREM TypeCorrect == Spec => []TypeOK
BY InductiveInvariant, PTL DEF SdInv

\* A stretch of damage no longer than the checksum is always caught, also where it
\* runs into the checksum itself, and an undamaged transfer is never refused
\* (the comparisons at sd_spi.c:485 and sd_spi.c:1000).
THEOREM DamageCaughtCorrect == Spec => []DamageIsCaught
BY InductiveInvariant, PTL DEF SdInv

\* What the shift register of sd_crc.c holds after a message, of any length, is
\* the remainder of its long division by the generator of the SD specification.
THEOREM RemainderCorrect == Spec => []CrcIsRemainder
<1>1. SdInv => CrcIsRemainder
  <2> SUFFICES ASSUME SdInv, phase = "crc", at = Top(kind)
               PROVE  Remainder(kind, data) = {i - Low(kind) : i \in {j \in Bits(kind) : sent_crc[j]}}
    BY DEF CrcIsRemainder
  <2>1. kind \in Kinds /\ data \in Seq(BOOLEAN) /\ sent_crc \in Registers(kind)
    BY DEF SdInv, TypeOK
  <2>2. Divided(kind, data, Len(data), sent_crc)
    BY DEF SdInv, LongDivision, Taken
  <2>3. \A i \in Bits(kind) : i < Low(kind) => ~sent_crc[i]
    BY DEF SdInv, LowBitsClear
  <2> QED BY <2>1, <2>2, <2>3, DivisionEnds
<1> QED BY <1>1, InductiveInvariant, PTL

\* The capacity sd_spi_read_csd reports is the one the SD specification gives the
\* register the card sent, for every register and whatever one burst did to it.
THEOREM CapacityCorrect == Spec => []CapacityIsExact
BY InductiveInvariant, PTL DEF SdInv
=============================================================================
