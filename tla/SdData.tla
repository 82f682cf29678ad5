------------------------------- MODULE SdData -------------------------------
(***************************************************************************)
(* What the SD driver does to the bits it exchanges with the card: the     *)
(* checksums of storage/sd_crc.c over commands and data blocks, on a line  *)
(* that may damage a burst of bits, and the capacity that sd_spi_read_csd  *)
(* makes of the card's CSD register.                                       *)
(*                                                                         *)
(* One transfer runs from Begin to the comparison of the two checksums,    *)
(* bit by bit, most significant first.  The card is one of the two ends;   *)
(* it forms and checks its checksums as the driver does.  The driver's     *)
(* registers are kept as wide as they are in C, as functions from bit      *)
(* numbers to bits.  A removal during a transfer is SdDriver's subject.    *)
(***************************************************************************)
EXTENDS Integers, Sequences

CONSTANTS
    Messages,           \* what is sent: sequences of bits for each kind of transfer
    Starts,             \* bound: the bits, of each kind, at which damage may begin
    Burst               \* the longest stretch of bits, of each kind, the line damages

Kinds == {"command", "block", "csd"}

\* CRC7 sits in the top seven bits of a byte, CRC16 fills its register.
Top(k) == IF k = "command" THEN 7 ELSE 15
Low(k) == IF k = "command" THEN 1 ELSE 0
Bits(k) == 0 .. Top(k)
CrcLength(k) == Top(k) - Low(k) + 1

ASSUME DataAssumption ==
    /\ Messages \in [Kinds -> SUBSET (Seq(BOOLEAN) \ {<<>>})]
    /\ Starts \in [Kinds -> SUBSET Int]
    /\ Burst \in [Kinds -> Nat]
    /\ \A k \in Kinds : Burst[k] <= CrcLength(k)

VARIABLES
    kind, data,         \* the transfer under way, and what its sender sends
    hcxc,               \* card_type_hcxc
    phase, at,          \* the part of the transfer, and the bit of it that comes next
    sent_crc,           \* the sender's register
    got,                \* what the receiver has in its buffer
    crc_calc, crc_in,   \* the receiver's register, and the checksum it received
    noise,              \* bits since the line damaged the first one, up to Burst
    result,
    capacity            \* *block_count = capacity[1] * 2^capacity[2]

crcs == <<sent_crc, crc_calc, crc_in>>
vars == <<kind, data, hcxc, phase, at, sent_crc, got, crc_calc, crc_in, noise, result, capacity>>

Registers(k) == [Bits(k) -> BOOLEAN]
Zero(k) == [i \in Bits(k) |-> FALSE]

TypeOK ==
    /\ kind \in Kinds
    /\ data \in Seq(BOOLEAN) /\ got \in Seq(BOOLEAN)
    /\ hcxc \in BOOLEAN
    /\ phase \in {"data", "crc", "check", "decode", "done"}
    /\ at \in Int
    /\ {sent_crc, crc_calc, crc_in} \subseteq Registers(kind)
    /\ noise \in 0 .. Burst[kind]
    /\ result \in {"none", "OK", "IO_ERROR", "NOT_IMPLEMENTED"}
    /\ capacity \in Nat \X Nat

-----------------------------------------------------------------------------
(* The checksums: one turn of the loops in crc_helper_7, crc_helper_rolling_16 *)

\* The masks: 0x12 in a byte, 0x1021 in a half-word.
Mask(k) == IF k = "command" THEN {4, 1} ELSE {12, 5, 0}

ShiftThenFeed(k, crc, bit) ==               \* (mutant) the top bit is looked at after the shift
    LET shifted == [i \in Bits(k) |-> i > 0 /\ crc[i - 1]]
    IN  [i \in Bits(k) |-> shifted[i] # (i \in Mask(k) /\ (shifted[Top(k)] # bit))]

Shift(k, crc, bit) ==
    LET feedback == crc[Top(k)] # bit
    IN  [i \in Bits(k) |-> (i > 0 /\ crc[i - 1]) # (i \in Mask(k) /\ feedback)]

-----------------------------------------------------------------------------
(* A transfer *)

Init ==
    /\ kind = "block" /\ data = <<>> /\ hcxc \in BOOLEAN
    /\ phase = "done" /\ at = 0
    /\ sent_crc = Zero("block") /\ crc_calc = Zero("block") /\ crc_in = Zero("block")
    /\ got = <<>>
    /\ noise = 0
    /\ result = "none" /\ capacity = <<0, 0>>

\* Both ends start from a register of zeroes, for every block of a transfer.
Seed == sent_crc' = Zero(kind') /\ crc_calc' = Zero(kind') /\ crc_in' = Zero(kind')

Begin(k, d) ==
    /\ phase = "done"
    /\ kind' = k /\ data' = d
    /\ hcxc' \in IF k = "csd" THEN BOOLEAN ELSE {hcxc}
    /\ phase' = "data" /\ at' = 1
    /\ Seed
    /\ got' = <<>>
    /\ noise' = 0
    /\ result' = "none" /\ capacity' = <<0, 0>>

\* The line may damage any bits of one stretch.
Damage(flip) ==
    /\ flip => noise < Burst[kind] /\ (noise = 0 => at \in Starts[kind])
    /\ noise' = IF noise = 0 /\ ~flip THEN 0
                ELSE IF noise < Burst[kind] THEN noise + 1 ELSE noise

DataBit(flip) ==
    /\ phase = "data"
    /\ Damage(flip)
    /\ sent_crc' = Shift(kind, sent_crc, data[at])
    /\ got' = Append(got, data[at] # flip)
    /\ crc_calc' = Shift(kind, crc_calc, data[at] # flip)
    /\ IF at = Len(data) THEN phase' = "crc" /\ at' = Top(kind)
                         ELSE phase' = "data" /\ at' = at + 1
    /\ UNCHANGED <<kind, data, hcxc, crc_in, result, capacity>>

\* The checksum follows, its top bit first; a damaged bit arrives changed.
ChecksumBit(flip) ==
    /\ phase = "crc"
    /\ Damage(flip)
    /\ crc_in' = [crc_in EXCEPT ![at] = sent_crc[at] # flip]
    /\ at' = at - 1
    /\ phase' = IF at = Low(kind) THEN "check" ELSE "crc"
    /\ UNCHANGED <<kind, data, hcxc, sent_crc, got, crc_calc, result, capacity>>

\* (mutant) the high bytes only are compared
MatchesHigh == \A i \in 8 .. Top(kind) : crc_in[i] = crc_calc[i]

Matches == crc_in = crc_calc

Compare ==
    /\ phase = "check"
    /\ IF Matches /\ kind = "csd" THEN phase' = "decode" /\ UNCHANGED result
       ELSE phase' = "done" /\ result' = IF Matches THEN "OK" ELSE "IO_ERROR"
    /\ UNCHANGED <<kind, data, hcxc, at, sent_crc, got, crc_calc, crc_in, noise, capacity>>

-----------------------------------------------------------------------------
(* The CSD register, byte by byte as the driver takes it apart *)

Byte(s, i) ==
    LET Bit(j) == IF s[8 * i + j] THEN 1 ELSE 0
    IN  128 * Bit(1) + 64 * Bit(2) + 32 * Bit(3) + 16 * Bit(4)
            + 8 * Bit(5) + 4 * Bit(6) + 2 * Bit(7) + Bit(8)

Structure(s) == Byte(s, 0) \div 64

ReadBlockLength(s) == Byte(s, 5) % 16

Size1(s) == (Byte(s, 6) % 4) * 1024 + Byte(s, 7) * 4 + Byte(s, 8) \div 64
Multiplier1(s) == (Byte(s, 9) % 4) * 2 + Byte(s, 10) \div 128

Size2Unmasked(s) == Byte(s, 7) * 65536 + Byte(s, 8) * 256 + Byte(s, 9)     \* (mutant)

Size2(s) == (Byte(s, 7) % 64) * 65536 + Byte(s, 8) * 256 + Byte(s, 9)

Fits1(s) == ReadBlockLength(s) \in 9 .. 11

\* The capacity's 64 bits never wrap; it is a whole number of blocks.
Decode ==
    /\ phase = "decode"
    /\ phase' = "done"
    /\ \/ /\ Structure(got) = 0 /\ ~hcxc /\ Fits1(got)
          /\ result' = "OK"
          /\ capacity' = <<Size1(got) + 1, Multiplier1(got) + 2 + ReadBlockLength(got) - 9>>
       \/ /\ Structure(got) = 1 /\ hcxc
          /\ result' = "OK"
          /\ capacity' = <<Size2(got) + 1, 10>>
       \/ /\ \/ Structure(got) = 0 /\ (hcxc \/ ~Fits1(got))
             \/ Structure(got) = 1 /\ ~hcxc
          /\ result' = "IO_ERROR" /\ UNCHANGED capacity
       \/ /\ Structure(got) > 1
          /\ result' = "NOT_IMPLEMENTED" /\ UNCHANGED capacity
    /\ UNCHANGED <<kind, data, hcxc, at, sent_crc, got, crc_calc, crc_in, noise>>

-----------------------------------------------------------------------------
Next ==
    \/ \E k \in Kinds : \E d \in Messages[k] : Begin(k, d)
    \/ \E flip \in BOOLEAN : DataBit(flip) \/ ChecksumBit(flip)
    \/ Compare \/ Decode

Spec == Init /\ [][Next]_vars

-----------------------------------------------------------------------------
(* Properties *)

Ended(k) == phase = "done" /\ kind \in k /\ data # <<>>

\* A transfer is accepted exactly when the line damaged nothing: every stretch of
\* damage no longer than the checksum is caught, wherever it begins and also where
\* it runs into the checksum, and no good transfer is refused.
DamageIsCaught ==
    /\ Ended({"command", "block"}) => (result = "OK" <=> noise = 0)
    /\ Ended({"csd"}) /\ noise > 0 => result = "IO_ERROR"
    /\ Ended(Kinds) /\ noise = 0 => got = data

\* The reference: long division of the message, followed by as many zeroes, by
\* the generator polynomial of the SD specification.
Generator(k) == IF k = "command" THEN {7, 3, 0} ELSE {16, 12, 5, 0}

Plus(p, q) == (p \cup q) \ (p \cap q)       \* of polynomials, as sets of exponents

Message(k, s) == {Len(s) + CrcLength(k) - i : i \in {j \in 1 .. Len(s) : s[j]}}

Cancel(k, p, e) ==
    IF e \in p THEN Plus(p, {g + e - CrcLength(k) : g \in Generator(k)}) ELSE p

Reduced(k, s) ==                            \* at e, no term of exponent e or more is left
    LET reduced[e \in CrcLength(k) .. Len(s) + CrcLength(k)] ==
            IF e = Len(s) + CrcLength(k) THEN Message(k, s) ELSE Cancel(k, reduced[e + 1], e)
    IN  reduced

Remainder(k, s) == Reduced(k, s)[CrcLength(k)]

\* What the shift registers of sd_crc.c hold after a message is its remainder, so
\* that a card that follows the SD specification agrees with the driver.
CrcIsRemainder ==
    phase = "crc" /\ at = Top(kind) =>
        Remainder(kind, data) = {i - Low(kind) : i \in {j \in Bits(kind) : sent_crc[j]}}

\* The reference: a field is a slice of the register, bits numbered down from 127.
BitAt(s, j) == IF s[j] THEN 1 ELSE 0

Slice(s, high, low) ==                      \* at b, the number its bits from high to b make
    LET value[b \in low .. high + 1] ==
            IF b = high + 1 THEN 0 ELSE 2 * value[b + 1] + BitAt(s, 128 - b)
    IN  value

Field(s, high, low) == Slice(s, high, low)[low]

\* The capacity reported is the one the SD specification gives the register the
\* card sent, of a version that fits the card, whatever one burst did to it.
CapacityIsExact ==
    Ended({"csd"}) /\ result = "OK" =>
        \/ /\ Field(data, 127, 126) = 0 /\ ~hcxc
           /\ Field(data, 83, 80) \in 9 .. 11
           /\ capacity = <<Field(data, 73, 62) + 1, Field(data, 49, 47) + 2 + Field(data, 83, 80) - 9>>
        \/ /\ Field(data, 127, 126) = 1 /\ hcxc
           /\ capacity = <<Field(data, 69, 48) + 1, 10>>
=============================================================================
