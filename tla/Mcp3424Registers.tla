-------------------------- MODULE Mcp3424Registers --------------------------
(***************************************************************************)
(* A run of the register and of the decoder: an MCP3424 object is given    *)
(* configurations and channels in any order, starts conversions, and reads *)
(* words of its resolution.                                                *)
(***************************************************************************)
EXTENDS Mcp3424Codec

CONSTANTS
    SomeConfigs,     \* the configurations tried, valid or not
    SomeChannels,    \* the arguments of setChannel tried
    SomeBytes        \* the bytes the chip may return

ASSUME RegistersAssumption ==
    /\ SomeConfigs \subseteq Configs
    /\ SomeChannels \subseteq Bytes
    /\ SomeBytes \subseteq Bytes

VARIABLES
    conf,        \* *_conf after validateConfig
    config,      \* _config
    selected,    \* the channel last selected
    buf          \* the data bytes of _rBuff

vars == <<conf, config, selected, buf>>

Init ==
    /\ \E c \in SomeConfigs :
         /\ conf = Validated(c)
         /\ config = Generated({4, 7}, conf)
         /\ selected = conf.channel
    /\ buf = <<0, 0, 0>>

SetConfigValues(c) ==
    /\ conf' = Validated(c)
    /\ config' = Generated(config, Validated(c))
    /\ selected' = Validated(c).channel
    /\ UNCHANGED buf

SetChannel(ch) ==
    /\ config' = WithChannel(config, ch)
    /\ selected' = IF ch \in Channels THEN ch ELSE selected
    /\ UNCHANGED <<conf, buf>>

\* readRaw: the start bit, then the bytes of the conversion.
ReadRaw(b) ==
    /\ config' = config \cup {7}
    /\ buf' = b
    /\ UNCHANGED <<conf, selected>>

Next ==
    \/ \E c \in SomeConfigs : SetConfigValues(c)
    \/ \E ch \in SomeChannels : SetChannel(ch)
    \/ \E b \in [1 .. 3 -> SomeBytes] : ReadRaw(b)

Spec == Init /\ [][Next]_vars

-----------------------------------------------------------------------------

FieldOf(reg, at) == (IF at \in reg THEN 1 ELSE 0) + (IF at + 1 \in reg THEN 2 ELSE 0)

(***************************************************************************)
(* Whatever was configured before, the register written to the chip says   *)
(* what include/MCP3424.h:18-36 says it should for the present settings:   *)
(* no bit of an earlier gain, resolution, mode or channel survives.        *)
(***************************************************************************)
RegisterMatchesSettings ==
    /\ 2^FieldOf(config, 0) = conf.gain
    /\ 12 + 2 * FieldOf(config, 2) = conf.bitrate
    /\ (4 \in config) = (conf.conv_mode = 1)
    /\ 1 + FieldOf(config, 5) = selected

(***************************************************************************)
(* Up to 16 bits the value of a reading is the two's complement of the     *)
(* bytes read, so negative voltages come out negative.                     *)
(***************************************************************************)
DecodesTwosComplement16 ==
    conf.bitrate # 18 =>
        LET w == Word(conf.bitrate, buf)
        IN  Decoded(conf.bitrate, w) = TwosComplement(conf.bitrate, w)

(***************************************************************************)
(* README.md:92, "bitrate: resolution in bits 12, 14, 16 or 18": the same  *)
(* for every resolution the configuration offers.                          *)
(***************************************************************************)
DecodesTwosComplement ==
    LET w == Word(conf.bitrate, buf)
    IN  Decoded(conf.bitrate, w) = TwosComplement(conf.bitrate, w)

=============================================================================
