----------------------- MODULE Mcp3424RegistersProofs -----------------------
(***************************************************************************)
(* Proofs about Mcp3424Codec and Mcp3424Registers: the register that       *)
(* generateConfig and setChannel compute bit by bit, and the sign of the   *)
(* words readRaw puts together, for all settings and all bytes.            *)
(***************************************************************************)
EXTENDS Mcp3424Registers, TLAPS

ValidConfigs ==
    [address : Nat, bitrate : Bitrates, gain : Gains, conv_mode : 0 .. 1,
     channel : Channels]

-----------------------------------------------------------------------------
(* Bits and fields of the register.                                        *)

LEMMA SmallBits ==
    /\ ~Bit(0, 0) /\ ~Bit(0, 1)
    /\ Bit(1, 0)  /\ ~Bit(1, 1)
    /\ ~Bit(2, 0) /\ Bit(2, 1)
    /\ Bit(3, 0)  /\ Bit(3, 1)
<1>1. 2^0 = 1 /\ 2^1 = 2
  OBVIOUS
<1>2. /\ 0 \div 1 = 0 /\ 1 \div 1 = 1 /\ 2 \div 1 = 2 /\ 3 \div 1 = 3
      /\ 0 \div 2 = 0 /\ 1 \div 2 = 0 /\ 2 \div 2 = 1 /\ 3 \div 2 = 1
  OBVIOUS
<1>3. 0 % 2 = 0 /\ 1 % 2 = 1 /\ 2 % 2 = 0 /\ 3 % 2 = 1
  OBVIOUS
<1> QED
  BY <1>1, <1>2, <1>3 DEF Bit

\* Two calls of configSetBit write the two bits of a field and no other.
LEMMA FieldBits ==
    ASSUME NEW reg, NEW at \in Nat, NEW n \in 0 .. 3, NEW j
    PROVE  j \in SetField(reg, at, n) <=>
              \/ j \in reg /\ j # at /\ j # at + 1
              \/ j = at /\ Bit(n, 0)
              \/ j = at + 1 /\ Bit(n, 1)
<1>1. {k \in 0 .. 1 : Bit(n, k)} = {k \in {0, 1} : Bit(n, k)}
  <2>1. 0 .. 1 = {0, 1}
    OBVIOUS
  <2> QED
    BY <2>1
<1>2. j \in {at + k : k \in {m \in {0, 1} : Bit(n, m)}} <=>
        (j = at /\ Bit(n, 0)) \/ (j = at + 1 /\ Bit(n, 1))
  <2>1. at + 0 = at
    OBVIOUS
  <2> QED
    BY <2>1
<1> QED
  BY <1>1, <1>2 DEF SetField

\* What was written is what is read back.
LEMMA FieldWritten ==
    ASSUME NEW reg, NEW at \in Nat, NEW n \in 0 .. 3
    PROVE  FieldOf(SetField(reg, at, n), at) = n
<1> DEFINE new == SetField(reg, at, n)
<1>1. at \in new <=> Bit(n, 0)
  BY FieldBits
<1>2. at + 1 \in new <=> Bit(n, 1)
  BY FieldBits
<1>3. n = 0 \/ n = 1 \/ n = 2 \/ n = 3
  OBVIOUS
<1> HIDE DEF new
<1>4. FieldOf(new, at) = n
  BY <1>1, <1>2, <1>3, SmallBits DEF FieldOf
<1> QED
  BY <1>4 DEF new

\* A field is untouched by writing another.
LEMMA FieldKept ==
    ASSUME NEW reg, NEW at \in Nat, NEW n \in 0 .. 3, NEW other \in Nat,
           other + 1 < at \/ at + 1 < other
    PROVE  FieldOf(SetField(reg, at, n), other) = FieldOf(reg, other)
<1>1. other # at /\ other # at + 1 /\ other + 1 # at /\ other + 1 # at + 1
  OBVIOUS
<1>2. other \in SetField(reg, at, n) <=> other \in reg
  BY <1>1, FieldBits
<1>3. other + 1 \in SetField(reg, at, n) <=> other + 1 \in reg
  BY <1>1, FieldBits
<1> QED
  BY <1>2, <1>3 DEF FieldOf

\* The codes of the settings are the fields' contents.
LEMMA Codes ==
    /\ \A g \in Gains : GainCode(g) \in 0 .. 3 /\ 2^GainCode(g) = g
    /\ \A b \in Bitrates : RateCode(b) \in 0 .. 3 /\ 12 + 2 * RateCode(b) = b
<1>1. ASSUME NEW g \in Gains
      PROVE  GainCode(g) \in 0 .. 3 /\ 2^GainCode(g) = g
  <2>1. 2^0 = 1 /\ 2^1 = 2 /\ 2^2 = 4 /\ 2^3 = 8
    OBVIOUS
  <2>2. \E n \in 0 .. 3 : 2^n = g
    BY <2>1 DEF Gains
  <2> QED
    BY <2>2, Zenon DEF GainCode
<1>2. ASSUME NEW b \in Bitrates
      PROVE  RateCode(b) \in 0 .. 3 /\ 12 + 2 * RateCode(b) = b
  <2>1. \E n \in 0 .. 3 : 12 + 2 * n = b
    BY DEF Bitrates
  <2> QED
    BY <2>1, Zenon DEF RateCode
<1> QED
  BY <1>1, <1>2

-----------------------------------------------------------------------------
(* validateConfig and generateConfig.                                      *)

LEMMA ValidatedType ==
    ASSUME NEW c \in Configs
    PROVE  Validated(c) \in ValidConfigs
<1>1. /\ c.address \in Nat /\ c.conv_mode \in Nat
  BY DEF Configs, Bytes
<1>2. (c.address % 16) + 32 * ((c.address \div 32) % 4) \in Nat
  BY <1>1
<1>3. c.conv_mode % 2 \in 0 .. 1
  BY <1>1
<1>4. 12 \in Bitrates /\ 1 \in Gains /\ 1 \in Channels
  BY DEF Bitrates, Gains, Channels
<1> QED
  BY <1>2, <1>3, <1>4 DEF Validated, ValidConfigs

\* The address keeps the bits of its mask, 0110 1111, and validating them again
\* takes no other away.
LEMMA MaskedTwice ==
    ASSUME NEW a \in Nat
    PROVE  LET m == (a % 16) + 32 * ((a \div 32) % 4)
           IN  (m % 16) + 32 * ((m \div 32) % 4) = m
<1> DEFINE low == a % 16
           high == (a \div 32) % 4
           m == low + 32 * high
<1>1. low \in 0 .. 15 /\ high \in 0 .. 3
  OBVIOUS
<1> HIDE DEF low, high
<1>2. m % 16 = low
  <2>1. m = 16 * (2 * high) + low
    BY <1>1
  <2> QED
    BY <1>1, <2>1
<1>3. m \div 32 = high
  BY <1>1
<1>4. high % 4 = high
  BY <1>1
<1>5. (m % 16) + 32 * ((m \div 32) % 4) = m
  BY <1>2, <1>3, <1>4
<1> QED
  BY <1>5 DEF low, high

\* validateConfig works on the caller's structure, which setConfigValues hands
\* to it once more whenever the sensor is switched: the second time changes nothing
\* (MCP3424.cpp:147-164, 193-197).
THEOREM ValidatedOnce ==
    ASSUME NEW c \in Configs
    PROVE  Validated(Validated(c)) = Validated(c)
<1> DEFINE v == Validated(c)
<1>1. v \in ValidConfigs
  BY ValidatedType
<1>2. c.address \in Nat /\ c.conv_mode \in Nat
  BY DEF Configs, Bytes
<1>3. (v.address % 16) + 32 * ((v.address \div 32) % 4) = v.address
  BY <1>2, MaskedTwice DEF Validated
<1>4. v.conv_mode % 2 = v.conv_mode
  BY <1>1 DEF ValidConfigs
<1>5. v.bitrate \in Bitrates /\ v.gain \in Gains /\ v.channel \in Channels
  BY <1>1 DEF ValidConfigs
<1>6. v = [address |-> v.address, bitrate |-> v.bitrate, gain |-> v.gain,
           conv_mode |-> v.conv_mode, channel |-> v.channel]
  BY DEF Validated
<1> HIDE DEF v
<1>7. Validated(v) = v
  BY <1>3, <1>4, <1>5, <1>6 DEF Validated
<1> QED
  BY <1>7 DEF v

LEMMA ModeWritten ==
    ASSUME NEW reg, NEW m \in 0 .. 1
    PROVE  /\ 4 \in WithMode(reg, m) <=> m = 1
           /\ \A at \in {0, 2, 5} : FieldOf(WithMode(reg, m), at) = FieldOf(reg, at)
<1>1. \A j : j # 4 => (j \in WithMode(reg, m) <=> j \in reg)
  BY DEF WithMode
<1>2. \A at \in {0, 2, 5} : at # 4 /\ at + 1 # 4
  OBVIOUS
<1>3. \A at \in {0, 2, 5} : FieldOf(WithMode(reg, m), at) = FieldOf(reg, at)
  BY <1>1, <1>2 DEF FieldOf
<1>4. 4 \in WithMode(reg, m) <=> m = 1
  BY DEF WithMode
<1> QED
  BY <1>3, <1>4

LEMMA ChannelWritten ==
    ASSUME NEW reg, NEW ch \in Bytes
    PROVE  /\ ch \in Channels => 1 + FieldOf(WithChannel(reg, ch), 5) = ch
           /\ ch \notin Channels => WithChannel(reg, ch) = reg
           /\ \A at \in {0, 2} : FieldOf(WithChannel(reg, ch), at) = FieldOf(reg, at)
           /\ 4 \in WithChannel(reg, ch) <=> 4 \in reg
<1>1. CASE ch \in Channels
  <2>1. ch - 1 \in 0 .. 3
    BY <1>1 DEF Channels
  <2>2. FieldOf(SetField(reg, 5, ch - 1), 5) = ch - 1
    BY <2>1, FieldWritten
  <2>3. \A at \in {0, 2} : FieldOf(SetField(reg, 5, ch - 1), at) = FieldOf(reg, at)
    BY <2>1, FieldKept
  <2>4. 4 \in SetField(reg, 5, ch - 1) <=> 4 \in reg
    BY <2>1, FieldBits
  <2> QED
    BY <1>1, <2>1, <2>2, <2>3, <2>4 DEF WithChannel, Channels
<1>2. CASE ch \notin Channels
  BY <1>2 DEF WithChannel
<1> QED
  BY <1>1, <1>2

\* generateConfig, whatever the register held before.
LEMMA GeneratedFields ==
    ASSUME NEW reg, NEW c \in ValidConfigs
    PROVE  LET new == Generated(reg, c) IN
           /\ 2^FieldOf(new, 0) = c.gain
           /\ 12 + 2 * FieldOf(new, 2) = c.bitrate
           /\ 4 \in new <=> c.conv_mode = 1
           /\ 1 + FieldOf(new, 5) = c.channel
<1> DEFINE gained == SetField(reg, 0, GainCode(c.gain))
           rated  == SetField(gained, 2, RateCode(c.bitrate))
           moded  == WithMode(rated, c.conv_mode)
           new    == WithChannel(moded, c.channel)
<1>1. /\ c.gain \in Gains /\ c.bitrate \in Bitrates
      /\ c.conv_mode \in 0 .. 1 /\ c.channel \in Channels /\ c.channel \in Bytes
  BY DEF ValidConfigs, Channels, Bytes
<1>2. /\ GainCode(c.gain) \in 0 .. 3 /\ 2^GainCode(c.gain) = c.gain
      /\ RateCode(c.bitrate) \in 0 .. 3 /\ 12 + 2 * RateCode(c.bitrate) = c.bitrate
  BY <1>1, Codes
<1>3. FieldOf(gained, 0) = GainCode(c.gain)
  BY <1>2, FieldWritten
<1>4. FieldOf(rated, 0) = FieldOf(gained, 0)
  <2> HIDE DEF gained
  <2> QED
    BY <1>2, FieldKept
<1>5. FieldOf(rated, 2) = RateCode(c.bitrate)
  <2> HIDE DEF gained
  <2> QED
    BY <1>2, FieldWritten
<1> HIDE DEF gained, rated
<1>6. /\ 4 \in moded <=> c.conv_mode = 1
      /\ FieldOf(moded, 0) = FieldOf(rated, 0)
      /\ FieldOf(moded, 2) = FieldOf(rated, 2)
  BY <1>1, ModeWritten
<1> HIDE DEF moded
<1>7. /\ 1 + FieldOf(new, 5) = c.channel
      /\ FieldOf(new, 0) = FieldOf(moded, 0)
      /\ FieldOf(new, 2) = FieldOf(moded, 2)
      /\ 4 \in new <=> 4 \in moded
  BY <1>1, ChannelWritten
<1>8. Generated(reg, c) = new
  BY DEF Generated, gained, rated, moded
<1> HIDE DEF new
<1> QED
  BY <1>2, <1>3, <1>4, <1>5, <1>6, <1>7, <1>8

-----------------------------------------------------------------------------
(* The register in every order of calls.                                   *)

RegistersOK ==
    /\ conf \in ValidConfigs
    /\ selected \in Channels
    /\ buf \in [1 .. 3 -> Bytes]

IInv == RegistersOK /\ RegisterMatchesSettings

LEMMA InitInv == Init => IInv
<1> SUFFICES ASSUME Init PROVE IInv
  OBVIOUS
<1>1. PICK c \in SomeConfigs : /\ conf = Validated(c)
                               /\ config = Generated({4, 7}, conf)
                               /\ selected = conf.channel
  BY DEF Init
<1>2. conf \in ValidConfigs
  BY <1>1, RegistersAssumption, ValidatedType
<1>3. selected \in Channels
  BY <1>1, <1>2 DEF ValidConfigs
<1>4. buf \in [1 .. 3 -> Bytes]
  BY DEF Init, Bytes
<1>5. RegisterMatchesSettings
  BY <1>1, <1>2, GeneratedFields DEF RegisterMatchesSettings
<1> QED
  BY <1>2, <1>3, <1>4, <1>5 DEF IInv, RegistersOK

LEMMA SetConfigValuesStep ==
    ASSUME IInv, NEW c \in SomeConfigs, SetConfigValues(c)
    PROVE  IInv'
<1>1. conf' \in ValidConfigs
  BY RegistersAssumption, ValidatedType DEF SetConfigValues
<1>2. config' = Generated(config, conf') /\ selected' = conf'.channel
  BY DEF SetConfigValues
<1>3. RegisterMatchesSettings'
  BY <1>1, <1>2, GeneratedFields DEF RegisterMatchesSettings
<1>4. selected' \in Channels /\ buf' \in [1 .. 3 -> Bytes]
  BY <1>1, <1>2 DEF SetConfigValues, ValidConfigs, IInv, RegistersOK
<1> QED
  BY <1>1, <1>3, <1>4 DEF IInv, RegistersOK

LEMMA SetChannelStep ==
    ASSUME IInv, NEW ch \in SomeChannels, SetChannel(ch)
    PROVE  IInv'
<1>1. ch \in Bytes
  BY RegistersAssumption
<1>2. /\ config' = WithChannel(config, ch)
      /\ selected' = IF ch \in Channels THEN ch ELSE selected
      /\ conf' = conf /\ buf' = buf
  BY DEF SetChannel
<1>3. /\ FieldOf(config', 0) = FieldOf(config, 0)
      /\ FieldOf(config', 2) = FieldOf(config, 2)
      /\ 4 \in config' <=> 4 \in config
  BY <1>1, <1>2, ChannelWritten
<1>4. 1 + FieldOf(config', 5) = selected'
  BY <1>1, <1>2, ChannelWritten DEF IInv, RegisterMatchesSettings
<1>5. RegisterMatchesSettings'
  BY <1>2, <1>3, <1>4 DEF IInv, RegisterMatchesSettings
<1> QED
  BY <1>2, <1>5 DEF IInv, RegistersOK

LEMMA ReadRawStep ==
    ASSUME IInv, NEW b \in [1 .. 3 -> SomeBytes], ReadRaw(b)
    PROVE  IInv'
<1>1. b \in [1 .. 3 -> Bytes]
  BY RegistersAssumption
<1>2. \A j : j # 7 => (j \in config' <=> j \in config)
  BY DEF ReadRaw
<1>3. \A at \in {0, 2, 5} : FieldOf(config', at) = FieldOf(config, at)
  <2>1. \A at \in {0, 2, 5} : at # 7 /\ at + 1 # 7
    OBVIOUS
  <2> QED
    BY <1>2, <2>1 DEF FieldOf
<1>4. 4 \in config' <=> 4 \in config
  BY <1>2
<1>5. RegisterMatchesSettings'
  BY <1>3, <1>4 DEF IInv, RegisterMatchesSettings, ReadRaw
<1> QED
  BY <1>1, <1>5 DEF IInv, RegistersOK, ReadRaw

LEMMA InvStep == IInv /\ [Next]_vars => IInv'
<1> SUFFICES ASSUME IInv, [Next]_vars PROVE IInv'
  OBVIOUS
<1>1. CASE \E c \in SomeConfigs : SetConfigValues(c)
  BY <1>1, SetConfigValuesStep
<1>2. CASE \E ch \in SomeChannels : SetChannel(ch)
  BY <1>2, SetChannelStep
<1>3. CASE \E b \in [1 .. 3 -> SomeBytes] : ReadRaw(b)
  BY <1>3, ReadRawStep
<1>4. CASE UNCHANGED vars
  BY <1>4 DEF vars, IInv, RegistersOK, RegisterMatchesSettings
<1> QED
  BY <1>1, <1>2, <1>3, <1>4 DEF Next

LEMMA Invariant == Spec => []IInv
<1> QED
  BY InitInv, InvStep, PTL DEF Spec

\* In whatever order an object is configured, switched and read, the register it
\* writes to the chip holds the four settings that are in force and nothing of
\* earlier ones (MCP3424.cpp:165-197).
THEOREM RegisterIsRight == Spec => []RegisterMatchesSettings
<1>1. IInv => RegisterMatchesSettings
  BY DEF IInv
<1> QED
  BY <1>1, Invariant, PTL

-----------------------------------------------------------------------------
(* The sign of a word.                                                     *)

\* The powers of two that readRaw shifts and masks with.
LEMMA Powers ==
    /\ 2^11 = 2048  /\ 2^12 = 4096  /\ 2^13 = 8192   /\ 2^14 = 16384
    /\ 2^15 = 32768 /\ 2^16 = 65536 /\ 2^17 = 131072 /\ 2^18 = 262144
  OBVIOUS

\* The top bit of a word is set in its upper half.
LEMMA TopBit ==
    ASSUME NEW h \in Nat \ {0}, NEW w \in Nat, w < 2 * h
    PROVE  (w \div h) % 2 = 1 <=> w >= h
<1> DEFINE q == w \div h
<1>1. q \in Int /\ h * q <= w /\ w < h * q + h
  OBVIOUS
<1> HIDE DEF q
<1>2. q = 0 \/ q = 1
  <2>1. CASE q >= 2
    <3>1. h * q >= h * 2
      BY <1>1, <2>1
    <3> QED
      BY <1>1, <3>1
  <2>2. CASE q <= -1
    <3>1. h * q <= h * (-1)
      BY <1>1, <2>2
    <3> QED
      BY <1>1, <3>1
  <2> QED
    BY <1>1, <2>1, <2>2
<1>3. 0 % 2 = 0 /\ 1 % 2 = 1
  OBVIOUS
<1>4. CASE q = 0
  BY <1>1, <1>3, <1>4 DEF q
<1>5. CASE q = 1
  BY <1>1, <1>3, <1>5 DEF q
<1> QED
  BY <1>2, <1>4, <1>5

\* An unsigned word of so many bits.
WordOf(bits, w) == w \in Nat /\ w < 2^bits

LEMMA TwoBytes ==
    ASSUME NEW x \in Nat, NEW y \in Nat, y < 256
    PROVE  /\ x * 256 + y \in Nat
           /\ x < 256 => x * 256 + y < 65536
           /\ x < 64  => x * 256 + y < 16384
           /\ x < 16  => x * 256 + y < 4096
  OBVIOUS

LEMMA ThreeBytes ==
    ASSUME NEW m \in Nat, NEW x \in Nat, NEW y \in Nat, m < 4, x < 256, y < 256
    PROVE  /\ m * 65536 + x * 256 + y \in Nat
           /\ m * 65536 + x * 256 + y < 262144
  OBVIOUS

\* Two or three bytes, the first one masked, make a word of the resolution.
LEMMA WordRange ==
    ASSUME NEW b \in [1 .. 3 -> Bytes], NEW bits \in Bitrates
    PROVE  WordOf(bits, Word(bits, b))
<1>1. /\ b[1] \in Nat /\ b[2] \in Nat /\ b[3] \in Nat
      /\ b[1] < 256 /\ b[2] < 256 /\ b[3] < 256
  BY DEF Bytes
<1>2. /\ b[1] % 4 \in Nat /\ b[1] % 64 \in Nat /\ b[1] % 16 \in Nat
      /\ b[1] % 4 < 4 /\ b[1] % 64 < 64 /\ b[1] % 16 < 16
  BY <1>1
<1>3. CASE bits = 18
  BY <1>1, <1>2, <1>3, ThreeBytes, Powers DEF Word, WordOf
<1>4. CASE bits = 16
  BY <1>1, <1>4, TwoBytes, Powers DEF Word, WordOf
<1>5. CASE bits = 14
  BY <1>1, <1>2, <1>5, TwoBytes, Powers DEF Word, WordOf
<1>6. CASE bits = 12
  BY <1>1, <1>2, <1>6, TwoBytes, Powers DEF Word, WordOf
<1> QED
  BY <1>3, <1>4, <1>5, <1>6 DEF Bitrates

LEMMA NegativeIsUpperHalf ==
    ASSUME NEW bits \in {12, 14, 16}, NEW w, WordOf(bits, w)
    PROVE  Negative(bits, w) <=> w >= 2^(bits - 1)
<1>1. CASE bits = 12
  BY <1>1, TopBit, Powers DEF Negative, SignBit, Bit, WordOf
<1>2. CASE bits = 14
  BY <1>2, TopBit, Powers DEF Negative, SignBit, Bit, WordOf
<1>3. CASE bits = 16
  BY <1>3, TopBit, Powers DEF Negative, SignBit, Bit, WordOf
<1> QED
  BY <1>1, <1>2, <1>3

\* readRaw and readVoltage give the two's complement of any word up to 16 bits.
LEMMA ShortWordsDecode ==
    ASSUME NEW bits \in {12, 14, 16}, NEW w, WordOf(bits, w)
    PROVE  Decoded(bits, w) = TwosComplement(bits, w)
<1>1. w - 2^bits = (w - 2^(bits - 1)) - 2^(bits - 1)
  <2>1. CASE bits = 12
    BY <2>1, Powers DEF WordOf
  <2>2. CASE bits = 14
    BY <2>2, Powers DEF WordOf
  <2>3. CASE bits = 16
    BY <2>3, Powers DEF WordOf
  <2> QED
    BY <2>1, <2>2, <2>3
<1> QED
  BY <1>1, NegativeIsUpperHalf DEF Decoded, TwosComplement

\* The bit tested is outside an 18-bit word: no such word is ever negative.
LEMMA LongWordsUnsigned ==
    ASSUME NEW w, WordOf(18, w)
    PROVE  Decoded(18, w) = w
<1>1. w \div 262144 = 0
  BY Powers DEF WordOf
<1>2. 0 % 2 = 0
  OBVIOUS
<1> QED
  BY <1>1, <1>2, Powers DEF Decoded, Negative, SignBit, Bit

\* At 12, 14 and 16 bits a reading is the two's complement of any bytes the chip
\* returns (MCP3424.cpp:113-141, 222-225).
THEOREM ShortReadingsDecode == Spec => []DecodesTwosComplement16
<1>1. IInv => DecodesTwosComplement16
  <2> SUFFICES ASSUME IInv, conf.bitrate # 18
               PROVE  LET w == Word(conf.bitrate, buf)
                      IN  Decoded(conf.bitrate, w) = TwosComplement(conf.bitrate, w)
    BY DEF DecodesTwosComplement16
  <2>1. conf.bitrate \in {12, 14, 16} /\ conf.bitrate \in Bitrates
    BY DEF IInv, RegistersOK, ValidConfigs, Bitrates
  <2>2. WordOf(conf.bitrate, Word(conf.bitrate, buf))
    BY <2>1, WordRange DEF IInv, RegistersOK
  <2> QED
    BY <2>1, <2>2, ShortWordsDecode
<1> QED
  BY <1>1, Invariant, PTL

\* What the run mcp_sign finds, for every reading of 18 bits: a negative one is
\* taken for a positive one of 2^18 more, and no other is wrong (MCP3424.cpp:117).
NegativesWrap ==
    conf.bitrate = 18 =>
        LET w == Word(18, buf)
        IN  Decoded(18, w) = TwosComplement(18, w)
                             + (IF TwosComplement(18, w) < 0 THEN 2^18 ELSE 0)

\* The settings in force and the bytes read are enough: nothing of an earlier reading
\* or setting comes into it (MCP3424.cpp:113-141).
THEOREM LongReadingsWrap == Spec => []NegativesWrap
<1>1. IInv => NegativesWrap
  <2> SUFFICES ASSUME IInv, conf.bitrate = 18
               PROVE  LET w == Word(18, buf)
                      IN  Decoded(18, w) = TwosComplement(18, w)
                            + (IF TwosComplement(18, w) < 0 THEN 2^18 ELSE 0)
    BY DEF NegativesWrap
  <2> DEFINE w == Word(18, buf)
  <2>1. WordOf(18, w)
    BY WordRange DEF IInv, RegistersOK, Bitrates
  <2>2. Decoded(18, w) = w
    BY <2>1, LongWordsUnsigned
  <2> HIDE DEF w
  <2>3. Decoded(18, w) = TwosComplement(18, w)
                         + (IF TwosComplement(18, w) < 0 THEN 2^18 ELSE 0)
    BY <2>1, <2>2, Powers DEF TwosComplement, WordOf
  <2> QED
    BY <2>3 DEF w
<1> QED
  BY <1>1, Invariant, PTL

=============================================================================
