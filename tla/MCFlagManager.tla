--------------------------- MODULE MCFlagManager ---------------------------
(***************************************************************************)
(* Operating conditions and readings for TLC: ranges of different widths   *)
(* as in mainConfig.cfg, one with a limit that is NaN and one without an   *)
(* upper limit, lives that end while the model runs, readings on both      *)
(* sides of every limit and on the limits, and what is no number.          *)
(***************************************************************************)
EXTENDS FlagManager

Between(low, high) == <<Number(low), Number(high)>>

MCRanges == {Between(0, 20), Between(0, 60), Between(1, 40), <<NaN, Number(20)>>,
             <<Number(1), Infinity(1)>>}

Condition(ranges, lifeTime) ==
    [temperature |-> Between(0, 1), pressure |-> Between(0, 2), humidity |-> Between(1, 2),
     ranges |-> ranges, startupTime |-> 0, lifeTime |-> lifeTime]

MCConditions == {Condition(r, 1) : r \in MCRanges} \cup {Condition(Between(0, 60), 0)}

MCAmbients == {[temp |-> 0, pre |-> 2, hum |-> 1], [temp |-> -1, pre |-> 2, hum |-> 1],
               [temp |-> 2, pre |-> 2, hum |-> 1], [temp |-> 1, pre |-> 3, hum |-> 2],
               [temp |-> 1, pre |-> 0, hum |-> 0]}

MCConcentrations ==
    {Number(n) : n \in {-1, 0, 1, 19, 20, 21, 40, 59, 60, 400, 401, 1201}}
        \cup {NaN, Infinity(1), Infinity(-1)}

=============================================================================
