------------------------- MODULE MCMcp3424Registers -------------------------
(* Settings of every kind, valid ones and ones validateConfig corrects.    *)
EXTENDS Mcp3424Registers

CONSTANTS MCBitrates, MCGains

MCConfigs ==
    [address : {255}, bitrate : MCBitrates, gain : MCGains,
     conv_mode : {0, 3}, channel : {0, 3}]

=============================================================================
