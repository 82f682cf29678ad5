------------------------------ MODULE MCSdData ------------------------------
(* Every message of six bits with damage of up to five bits from any bit on, *)
(* and CSD registers whose fields are at their limits, with damage from one  *)
(* of C_SIZE's bits on.                                                      *)
EXTENDS SdData

MCShort == [1 .. 6 -> BOOLEAN]

\* The bit numbered b of a field of the given lowest bit and value.
Holds(b, low, value) == (value \div 2 ^ (b - low)) % 2 = 1

Csd1(rest, structure, length, size, multiplier) ==
    [j \in 1 .. 128 |->
        LET b == 128 - j
        IN  CASE b \in 126 .. 127 -> Holds(b, 126, structure)
              [] b \in 80 .. 83 -> Holds(b, 80, length)
              [] b \in 62 .. 73 -> Holds(b, 62, size)
              [] b \in 47 .. 49 -> Holds(b, 47, multiplier)
              [] OTHER -> rest]

Csd2(rest, structure, size) ==
    [j \in 1 .. 128 |->
        LET b == 128 - j
        IN  CASE b \in 126 .. 127 -> Holds(b, 126, structure)
              [] b \in 48 .. 69 -> Holds(b, 48, size)
              [] OTHER -> rest]

MCCsd ==
    {Csd1(rest, 0, length, size, multiplier) :
        rest \in BOOLEAN, length \in {8, 9, 11, 12}, size \in {0, 1029, 4095}, multiplier \in {0, 7}}
    \cup {Csd2(rest, structure, size) :
        rest \in BOOLEAN, structure \in 1 .. 3, size \in {0, 65793, 4194303}}

MCMessages == [k \in Kinds |-> IF k = "csd" THEN MCCsd ELSE MCShort]
MCStarts == [k \in Kinds |-> IF k = "csd" THEN {59} ELSE 0 .. 15]
MCBurst == [k \in Kinds |-> IF k = "csd" THEN 3 ELSE 5]
=============================================================================
