------------------------------- MODULE Bme280 -------------------------------
(***************************************************************************)
(* A reading of the ambient sensor: getValues of bme280.cpp, with the chip *)
(* on the other side of the bus.  The register value 0x25 written to       *)
(* ctrl_meas starts one conversion; the driver reads the data registers at *)
(* once, while the conversion takes some milliseconds, so that a word read *)
(* is of this conversion or of the one before, whichever the registers     *)
(* hold at that moment.                                                    *)
(*                                                                         *)
(* No result of a transfer is ever looked at, and each may fail: a reading *)
(* whose mode is never written starts no conversion and goes on to read    *)
(* the registers all the same.                                             *)
(*                                                                         *)
(* The arithmetic of the data sheet is left out: a word stands for the     *)
(* physical value it was converted from.                                   *)
(***************************************************************************)
EXTENDS Integers

CONSTANTS
    Airs,           \* the states of the air: temperature, pressure, humidity
    ResetAir,       \* what the registers' power-up contents are computed to
    MaxConversions  \* bound of the model: readings begun

VARIABLES
    asked,      \* history: mode writes the driver has tried since power-up
    missed,     \* history: of these, the latest ones in a row that failed
    busy,       \* the chip is converting
    data,       \* the data registers: the latest finished conversion
    at,         \* what the driver does next
    words,      \* the reading at hand: what came of its transfers, and its words
    amb         \* the object's members: the values, and the conversions they are of

bmeVars == <<asked, missed, busy, data, at, words, amb>>

-----------------------------------------------------------------------------

Air == [temp : Int, pre : Int, hum : Int]

ASSUME Bme280Assumption ==
    /\ Airs \subseteq Air
    /\ ResetAir \in Air
    /\ MaxConversions \in Nat

\* Every transfer returns -1: the same coefficients and words, always.  Their
\* values come out as 0.00 degrees, 0.0154 hPa and 0.00 per cent.
DeadAir == [temp |-> 0, pre |-> 0, hum |-> 0]

Quantities == <<"pre", "temp", "hum">>      \* in the order of the registers

\* How many of a block of transfers succeed.
Outcomes == {"all", "some", "none"}

NoWords == [of |-> {}, air |-> ResetAir, got |-> "all", late |-> 0]
NoValues == [of |-> {}, air |-> ResetAir, dead |-> FALSE, late |-> 0]

BmeInit ==
    /\ asked = 0 /\ missed = 0 /\ busy = FALSE
    /\ data = [of |-> 0, air |-> ResetAir]
    /\ at = 0
    /\ words = NoWords
    /\ amb = NoValues

\* getValues, behind its gate: the two dozen transfers of the calibration.  The
\* gate is a minute, so the conversion before has long been finished.
Calibrate ==
    /\ at = 0 /\ ~busy /\ asked < MaxConversions
    /\ \E got \in Outcomes : words' = [NoWords EXCEPT !.got = got]
    /\ at' = 1
    /\ UNCHANGED <<asked, missed, busy, data, amb>>

\* Mutation of Trigger: the mode bits written are those of sleep.
TriggerAsleep ==
    /\ at = 1
    /\ asked' = asked + 1
    /\ \E written \in BOOLEAN : missed' = IF written THEN 0 ELSE missed + 1
    /\ words' = [words EXCEPT !.late = missed]
    /\ at' = 2
    /\ UNCHANGED <<busy, data, amb>>

\* The write to ctrl_meas, which starts a conversion when it arrives.
Trigger ==
    /\ at = 1
    /\ asked' = asked + 1
    /\ \E written \in BOOLEAN :
         /\ busy' = written
         /\ missed' = IF written THEN 0 ELSE missed + 1
    /\ words' = [words EXCEPT !.late = missed]
    /\ at' = 2
    /\ UNCHANGED <<data, amb>>

\* The chip finishes the conversion (external).
Finish ==
    /\ busy /\ busy' = FALSE
    /\ data' \in [of : {asked}, air : Airs]
    /\ UNCHANGED <<asked, missed, at, words, amb>>

\* getRawData: the bytes of one word, and with the first of them the address.
ReadWord ==
    /\ at \in 2 .. 4
    /\ LET q == Quantities[at - 1] IN
       \E got \in Outcomes :
         words' = [words EXCEPT
                     !.got = IF got = @ THEN @ ELSE "some",
                     !.of  = IF got = "none" THEN @ ELSE @ \cup {data.of},
                     !.air = IF got = "all" THEN [@ EXCEPT ![q] = data.air[q]] ELSE @]
    /\ at' = at + 1
    /\ UNCHANGED <<asked, missed, busy, data, amb>>

\* Mutation of Computed: a reading that failed keeps the values of the one before.
ComputedOrKept == IF words.got = "all" THEN {words.air} ELSE {amb.air}

\* Coefficients and words of which some are -1 are computed like any others, to
\* what may be anything.
Computed ==
    CASE words.got = "all"  -> {words.air}
      [] words.got = "none" -> {DeadAir}
      [] OTHER              -> Airs

Compute ==
    /\ at = 5
    /\ amb' \in [of : {words.of}, dead : {words.got = "none"}, air : Computed,
                 late : {words.late}]
    /\ at' = 0 /\ words' = NoWords
    /\ UNCHANGED <<asked, missed, busy, data>>

=============================================================================
