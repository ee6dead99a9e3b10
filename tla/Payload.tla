------------------------------ MODULE Payload ------------------------------
(***************************************************************************)
(* The twelve bytes of an uplink: makeLoRaPayload and hex2str of           *)
(* clientModel.cpp on the union lora_payload of commonConfig.h.            *)
(*                                                                         *)
(* The values are floats, their fraction dropped; a conversion to an       *)
(* integer type that cannot hold the value is undefined, and its result is *)
(* any of those the processors the program is built for produce: modulo    *)
(* the width, zero, or stopped at the largest value.                       *)
(***************************************************************************)
EXTENDS Floats, Sequences

CONSTANTS
    ByteSize,       \* values of a uint8_t, 2^8 in the code
    WordSize        \* values of a uint16_t, ByteSize^2

ASSUME PayloadAssumption ==
    /\ ByteSize \in Nat /\ ByteSize > 1
    /\ WordSize = ByteSize * ByteSize

Length == 12        \* _LORA_PAYLOAD_LENGTH

\* Mutation of Unsigned: a value beyond the type is taken as it is.
UnsignedWhole(v, size) == {v}

\* No int holds v, nor does the register it is converted in.
Beyond(v) == v \div WordSize >= WordSize \div 2

\* What converting v to an unsigned type of the given size may give.
Unsigned(v, size) ==
    {v % size} \cup (IF v < 0 THEN {0} ELSE {})
               \cup (IF Beyond(v) THEN {0, size - 1} ELSE {})

\* The bit pattern of an int8_t.
Signed8(v) == {v % ByteSize}

\* A float: NaN becomes zero, an infinity zero or the largest value.
ToWord(x) ==
    CASE IsNumber(x)     -> Unsigned(x.value, WordSize)
      [] x = Infinity(1) -> {0, WordSize - 1}
      [] OTHER           -> {0}

Low(w)  == w % ByteSize
High(w) == w \div ByteSize

\* The fields in the order of byte_payload, low byte first.
Laid(tem, hum, pre, co, o3, so2, no2) ==
    <<tem, hum, Low(pre), High(pre), Low(co), High(co), Low(o3), High(o3),
      Low(so2), High(so2), Low(no2), High(no2)>>

\* Divided by 100 here, although bme280::getValues has already made it hPa.
Pressure(pre) == pre \div 100

\* Mutation of MakeLoRaPayload: the gases in the order of the bytes.
MakeLoRaPayloadInByteOrder(amb, ppb) ==
    {Laid(tem, hum, pre, co, o3, so2, no2) :
        tem \in Signed8(amb.temp), hum \in Unsigned(amb.hum, ByteSize),
        pre \in Unsigned(Pressure(amb.pre), WordSize),
        co  \in ToWord(ppb[1]), o3  \in ToWord(ppb[2]),
        so2 \in ToWord(ppb[3]), no2 \in ToWord(ppb[4])}

\* makeLoRaPayload: gas[0] to gas[3] are CO, NO2, SO2 and O3.
MakeLoRaPayload(amb, ppb) ==
    {Laid(tem, hum, pre, co, o3, so2, no2) :
        tem \in Signed8(amb.temp), hum \in Unsigned(amb.hum, ByteSize),
        pre \in Unsigned(Pressure(amb.pre), WordSize),
        co  \in ToWord(ppb[1]), no2 \in ToWord(ppb[2]),
        so2 \in ToWord(ppb[3]), o3  \in ToWord(ppb[4])}

-----------------------------------------------------------------------------
(* The receiver's reading of the bytes, from the comments of byte_payload. *)

Word(raw, at) == raw[at] + ByteSize * raw[at + 1]

PressureIn(raw) == Word(raw, 3)

\* Where the gases of the row lie.
PlaceOf == <<5, 11, 9, 7>>

GasIn(raw, i) == Word(raw, PlaceOf[i])

=============================================================================
