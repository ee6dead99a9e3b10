---------------------------- MODULE Mcp3424Codec ----------------------------
(***************************************************************************)
(* The arithmetic of the MCP3424 driver (MCP3424.cpp): the configuration   *)
(* register it writes and the signed code it reads.  The register is the   *)
(* set of its bits that are 1; include/MCP3424.h, lines 9 to 37, is the    *)
(* layout it is meant to have.                                             *)
(***************************************************************************)
EXTENDS Integers

Bytes == 0 .. 255
Configs == [address : Bytes, bitrate : Bytes, gain : Bytes, conv_mode : Bytes,
            channel : Bytes]

Bitrates == {12, 14, 16, 18}
Gains    == {1, 2, 4, 8}
Channels == 1 .. 4

-----------------------------------------------------------------------------
(* The configuration register.                                             *)

\* address &= 0b01101111; anything the chip does not know takes its default.
Validated(c) ==
    [address   |-> (c.address % 16) + 32 * ((c.address \div 32) % 4),
     bitrate   |-> IF c.bitrate \in Bitrates THEN c.bitrate ELSE 12,
     gain      |-> IF c.gain \in Gains THEN c.gain ELSE 1,
     conv_mode |-> c.conv_mode % 2,
     channel   |-> IF c.channel \in Channels THEN c.channel ELSE 1]

Bit(n, j) == (n \div 2^j) % 2 = 1

\* Two calls of configSetBit: bits at and at + 1 of the register become n's.
SetField(reg, at, n) ==
    (reg \ {at, at + 1}) \cup {at + j : j \in {k \in 0 .. 1 : Bit(n, k)}}

GainCode(g) == CHOOSE n \in 0 .. 3 : 2^n = g
RateCode(b) == CHOOSE n \in 0 .. 3 : 12 + 2 * n = b

\* An unknown channel leaves the register alone.
WithChannel(reg, ch) ==
    IF ch \in Channels THEN SetField(reg, 5, ch - 1) ELSE reg

\* Mutation of WithMode: bits are only ever set, a leftover 1 stays.
WithModeOr(reg, m) == IF m = 1 THEN reg \cup {4} ELSE reg
WithMode(reg, m)   == IF m = 1 THEN reg \cup {4} ELSE reg \ {4}

\* generateConfig, for a validated configuration.
Generated(reg, c) ==
    LET gained == SetField(reg, 0, GainCode(c.gain))
        rated  == SetField(gained, 2, RateCode(c.bitrate))
    IN  WithChannel(WithMode(rated, c.conv_mode), c.channel)

-----------------------------------------------------------------------------
(* The data code.                                                          *)

\* The word of the given resolution in the bytes of the read buffer.
Word(bits, b) ==
    CASE bits = 18 -> (b[1] % 4) * 65536 + b[2] * 256 + b[3]
      [] bits = 16 -> b[1] * 256 + b[2]
      [] bits = 14 -> (b[1] % 64) * 256 + b[2]
      [] bits = 12 -> (b[1] % 16) * 256 + b[2]

\* The bit readRaw looks at: the top bit, but bit 18 of an 18-bit word.
SignBit(bits) == IF bits = 18 THEN 18 ELSE bits - 1

\* Mutation of Negative: the bit below the sign is tested.
NegativeOneOff(bits, w) == Bit(w, SignBit(bits) - 1)
Negative(bits, w)       == Bit(w, SignBit(bits))

\* readRaw's value with the sign bit cleared, and readVoltage's offset of half
\* the scale, in units of the last bit.
Decoded(bits, w) ==
    IF Negative(bits, w) THEN (w - 2^(bits - 1)) - 2^(bits - 1) ELSE w

\* What the chip means by the word.
TwosComplement(bits, w) == IF w >= 2^(bits - 1) THEN w - 2^bits ELSE w

=============================================================================
