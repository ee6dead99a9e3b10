---------------------------- MODULE MeasureCycle ----------------------------
(***************************************************************************)
(* The values that go into one turn of main's loop (main.cpp:147-191): the *)
(* ambient sensor, the ADCs and the gas sensors each keep their last       *)
(* reading and only read again when their isTime gate (include/sen/*.h)    *)
(* says enough seconds have passed, while main, the gas sensors and the    *)
(* flag managers all ask for values, several times, as time goes by.       *)
(*                                                                         *)
(* A reading is known by the time it was made at, the driver's _lastTime;  *)
(* a concentration by the readings it was computed from.  The sensors are  *)
(* numbered in the order main adds them to the list; the list is Ring's,   *)
(* which CircularList implements.                                          *)
(***************************************************************************)
EXTENDS Integers, Sequences

CONSTANTS
    N,             \* gas sensors, 4 in the code
    Alphasense,    \* those with a gate and an auxiliary electrode, 1 to 3; none has the
                   \* type O3_SENSOR, whose name sends main the Aeroqual way (main.cpp:155)
    AmbGap,        \* _INTERVAL_AS, 60 seconds
    GasGap,        \* _INTERVAL_GS, 60 seconds
    AdcGap,        \* _INTERVAL_ADCS, 5 seconds
    Sampling,      \* timeCfg.sampling, 120 seconds
    VisitMax,      \* what one sensor's turn may take, in seconds
    CycleMax,      \* what the ambient values and all sensors may take
    Start,         \* the clock when the process starts
    MaxTime        \* bound of the model: where the clock stops

ASSUME MeasureAssumption ==
    /\ N \in Nat \ {0} /\ Alphasense \subseteq 1 .. N
    /\ {AmbGap, GasGap, AdcGap, Sampling, VisitMax, CycleMax, Start, MaxTime} \subseteq Nat

\* The clock is set, and the gates open between two cycles but not within one.
ASSUME TimingAssumption ==
    /\ \A gap \in {AmbGap, GasGap, AdcGap} : gap < Sampling /\ gap < Start
    /\ VisitMax <= AdcGap /\ VisitMax <= GasGap
    /\ CycleMax <= AmbGap

VARIABLES
    now,            \* time(NULL)
    began,          \* history: when this cycle began
    entered,        \* history: when this sensor's turn began
    rest,           \* history: when the sampling pause began
    pc,             \* where main stands, in its own code or in what it calls
    i,              \* main's loop variable
    use,            \* which of main's uses getConcentration is called for
    items, pos,     \* the list of sensors and its cursor
    bme,            \* the ambient sensor's last reading
    we, ae,         \* the last readings of each sensor's ADCs
    gate,           \* when each gas sensor's gate last opened
    ppm,            \* what each sensor's concentration was computed from
    ab,             \* _ab: the readings its three values are of
    info,           \* _info: this sensor's concentrations and voltages
    values          \* _values: per column, the concentration and what its flag judged

R == INSTANCE Ring WITH Data <- 1 .. N

clock  == <<now, began, entered, rest>>
list   == <<items, pos>>
drivers == <<bme, we, ae, gate, ppm>>
record == <<ab, info, values>>
vars   == <<clock, pc, i, use, list, drivers, record>>

Sensors == 1 .. N
Current == items[pos]

Ambient  == {"temp", "pre", "hum"}
InVisit  == {"conc", "conc_temp", "conc_we", "conc_ae", "have", "we", "ae", "put",
             "flag_temp", "flag_pre", "flag_hum", "insert"}
InCycle  == Ambient \cup InVisit \cup {"visit"}
Places   == InCycle \cup {"values", "sleep"}

NoReadings == [temp |-> 0, we |-> 0, ae |-> 0]

Init ==
    /\ now = Start /\ began = Start /\ entered = Start /\ rest = 0
    /\ pc = "temp" /\ i = 1 /\ use = "corrected"
    /\ items = [k \in Sensors |-> k] /\ pos = 1
    /\ bme = 0
    /\ we = [k \in Sensors |-> 0] /\ ae = we /\ gate = we
    /\ ppm = [k \in Sensors |-> NoReadings]
    /\ ab = [temp |-> 0, pre |-> 0, hum |-> 0]
    /\ info = [sensor |-> 1, conc |-> NoReadings, raw |-> NoReadings, we |-> 0, ae |-> 0]
    /\ values = [k \in Sensors |->
                   [sensor |-> k, conc |-> NoReadings, judged |-> NoReadings, amb |-> ab]]

-----------------------------------------------------------------------------
(* The gates, and the readings behind them.                                *)

\* Mutation of IsTime: the gate lets every call through.
AlwaysTime(last, gap) == TRUE
IsTime(last, gap)     == now - last > gap

\* bme280::getValues: a reading of all three values, if it is time.
Bme == IF IsTime(bme, AmbGap) THEN now ELSE bme

\* MCP3424::getVoltage, of sensor k's ADC for the one or the other electrode.
We(k) == IF IsTime(we[k], AdcGap) THEN now ELSE we[k]
Ae(k) == IF IsTime(ae[k], AdcGap) THEN now ELSE ae[k]

-----------------------------------------------------------------------------
(* The ambient values of the row: main.cpp:148-150.                        *)

AmbientTemp ==
    /\ pc = "temp" /\ pc' = "pre"
    /\ bme' = Bme /\ ab' = [ab EXCEPT !.temp = bme']
    /\ UNCHANGED <<clock, i, use, list, we, ae, gate, ppm, info, values>>

AmbientPre ==
    /\ pc = "pre" /\ pc' = "hum"
    /\ bme' = Bme /\ ab' = [ab EXCEPT !.pre = bme']
    /\ UNCHANGED <<clock, i, use, list, we, ae, gate, ppm, info, values>>

AmbientHum ==
    /\ pc = "hum" /\ pc' = "visit"
    /\ bme' = Bme /\ ab' = [ab EXCEPT !.hum = bme']
    /\ UNCHANGED <<clock, i, use, list, we, ae, gate, ppm, info, values>>

-----------------------------------------------------------------------------
(* One sensor's turn: main.cpp:153-172.                                    *)

Visit ==
    /\ pc = "visit" /\ pc' = "conc"
    /\ entered' = now
    /\ info' = [info EXCEPT !.sensor = Current]
    /\ use' = "corrected"
    /\ UNCHANGED <<now, began, rest, i, list, drivers, ab, values>>

\* getConcentration: an Alphasense sensor computes anew if it is time; the
\* Aeroqual sensor always asks its ADC.
Concentration ==
    /\ pc = "conc"
    /\ LET k == Current IN
       IF k \in Alphasense
       THEN IF IsTime(gate[k], GasGap)
            THEN pc' = "conc_temp" /\ gate' = [gate EXCEPT ![k] = now]
            ELSE pc' = "have" /\ UNCHANGED gate
       ELSE pc' = "conc_we" /\ UNCHANGED gate
    /\ UNCHANGED <<clock, i, use, list, bme, we, ae, ppm, record>>

ConcentrationTemp ==
    /\ pc = "conc_temp" /\ pc' = "conc_we"
    /\ bme' = Bme /\ ppm' = [ppm EXCEPT ![Current].temp = bme']
    /\ UNCHANGED <<clock, i, use, list, we, ae, gate, record>>

ConcentrationWe ==
    /\ pc = "conc_we"
    /\ pc' = IF Current \in Alphasense THEN "conc_ae" ELSE "have"
    /\ we' = [we EXCEPT ![Current] = We(Current)]
    /\ ppm' = [ppm EXCEPT ![Current].we = We(Current)]
    /\ UNCHANGED <<clock, i, use, list, bme, ae, gate, record>>

ConcentrationAe ==
    /\ pc = "conc_ae" /\ pc' = "have"
    /\ ae' = [ae EXCEPT ![Current] = Ae(Current)]
    /\ ppm' = [ppm EXCEPT ![Current].ae = Ae(Current)]
    /\ UNCHANGED <<clock, i, use, list, bme, we, gate, record>>

\* getConcentration returns: main's corrected and uncorrected values ...
HaveCorrected ==
    /\ pc = "have" /\ use = "corrected"
    /\ info' = [info EXCEPT !.conc = ppm[Current], !.raw = NoReadings]
    /\ IF Current \in Alphasense THEN pc' = "conc" /\ use' = "raw"
                                 ELSE pc' = "we" /\ UNCHANGED use
    /\ UNCHANGED <<clock, i, list, drivers, ab, values>>

HaveRaw ==
    /\ pc = "have" /\ use = "raw" /\ pc' = "we"
    /\ info' = [info EXCEPT !.raw = ppm[Current]]
    /\ UNCHANGED <<clock, i, use, list, drivers, ab, values>>

\* ... and the one checkRanges judges, the last that getFlag asks for.
HaveFlag ==
    /\ pc = "have" /\ use = "flag" /\ pc' = "insert"
    /\ values' = [values EXCEPT ![i].judged = ppm[Current]]
    /\ UNCHANGED <<clock, i, use, list, drivers, ab, info>>

\* The voltages of the row are asked of the ADCs again.
VoltageWe ==
    /\ pc = "we"
    /\ we' = [we EXCEPT ![Current] = We(Current)]
    /\ info' = [info EXCEPT !.we = We(Current), !.ae = 0]
    /\ pc' = IF Current \in Alphasense THEN "ae" ELSE "put"
    /\ UNCHANGED <<clock, i, use, list, bme, ae, gate, ppm, ab, values>>

VoltageAe ==
    /\ pc = "ae" /\ pc' = "put"
    /\ ae' = [ae EXCEPT ![Current] = Ae(Current)]
    /\ info' = [info EXCEPT !.ae = Ae(Current)]
    /\ UNCHANGED <<clock, i, use, list, bme, we, gate, ppm, ab, values>>

\* Mutation of Put: the list moves on before getFlag.
PutAndAdvance ==
    /\ pc = "put" /\ pc' = "flag_temp"
    /\ values' = [values EXCEPT ![i].sensor = Current, ![i].conc = info.conc]
    /\ R!Advance
    /\ UNCHANGED <<clock, i, use, drivers, ab, info>>

Put ==
    /\ pc = "put" /\ pc' = "flag_temp"
    /\ values' = [values EXCEPT ![i].sensor = Current, ![i].conc = info.conc]
    /\ UNCHANGED <<clock, i, use, list, drivers, ab, info>>

\* getFlag: checkAmbientConditions asks for the three values, then checkRanges
\* for the concentration.
FlagTemp ==
    /\ pc = "flag_temp" /\ pc' = "flag_pre"
    /\ bme' = Bme /\ values' = [values EXCEPT ![i].amb.temp = bme']
    /\ UNCHANGED <<clock, i, use, list, we, ae, gate, ppm, ab, info>>

FlagPre ==
    /\ pc = "flag_pre" /\ pc' = "flag_hum"
    /\ bme' = Bme /\ values' = [values EXCEPT ![i].amb.pre = bme']
    /\ UNCHANGED <<clock, i, use, list, we, ae, gate, ppm, ab, info>>

FlagHum ==
    /\ pc = "flag_hum" /\ pc' = "conc" /\ use' = "flag"
    /\ bme' = Bme /\ values' = [values EXCEPT ![i].amb.hum = bme']
    /\ UNCHANGED <<clock, i, list, we, ae, gate, ppm, ab, info>>

\* Mutation of Insert: the list does not move on after the last sensor.
InsertStays ==
    /\ pc = "insert"
    /\ IF i < N THEN pc' = "visit" /\ i' = i + 1 /\ R!Advance
                ELSE pc' = "values" /\ i' = 1 /\ UNCHANGED list
    /\ UNCHANGED <<clock, use, drivers, record>>

\* insert_in_GAS_INFO, next, and the end of the for loop.
Insert ==
    /\ pc = "insert"
    /\ IF i < N THEN pc' = "visit" /\ i' = i + 1 ELSE pc' = "values" /\ i' = 1
    /\ R!Advance
    /\ UNCHANGED <<clock, use, drivers, record>>

-----------------------------------------------------------------------------

\* insert_in_GAS_VALUES and the uplink, of whatever outcome, then the pause.
SendValues ==
    /\ pc = "values" /\ pc' = "sleep"
    /\ rest' = now
    /\ UNCHANGED <<now, began, entered, i, use, list, drivers, record>>

\* Mutation of SampleWait: no pause.
SampleAtOnce ==
    /\ pc = "sleep" /\ pc' = "temp"
    /\ began' = now
    /\ UNCHANGED <<now, entered, rest, i, use, list, drivers, record>>

SampleWait ==
    /\ pc = "sleep" /\ now >= rest + Sampling /\ pc' = "temp"
    /\ began' = now
    /\ UNCHANGED <<now, entered, rest, i, use, list, drivers, record>>

Main ==
    \/ AmbientTemp \/ AmbientPre \/ AmbientHum
    \/ Visit \/ Concentration \/ ConcentrationTemp \/ ConcentrationWe
    \/ ConcentrationAe \/ HaveCorrected \/ HaveRaw \/ HaveFlag
    \/ VoltageWe \/ VoltageAe \/ Put \/ FlagTemp \/ FlagPre \/ FlagHum \/ Insert
    \/ SendValues \/ SampleWait

\* A second passes: at any point, within what a turn and a cycle may take.
Tick ==
    /\ now < MaxTime
    /\ pc \in InVisit => now - entered < VisitMax
    /\ pc \in InCycle => now - began < CycleMax
    /\ now' = now + 1
    /\ UNCHANGED <<began, entered, rest, pc, i, use, list, drivers, record>>

Next == Main \/ Tick

Spec == Init /\ [][Next]_vars

-----------------------------------------------------------------------------

Readings == [temp : Nat, we : Nat, ae : Nat]
Ambients == [temp : Nat, pre : Nat, hum : Nat]

TypeOK ==
    /\ now \in Nat /\ began \in Nat /\ entered \in Nat /\ rest \in Nat
    /\ pc \in Places
    /\ i \in Sensors
    /\ use \in {"corrected", "raw", "flag"}
    /\ items = [k \in Sensors |-> k]
    /\ pos \in Sensors
    /\ bme \in Nat
    /\ we \in [Sensors -> Nat] /\ ae \in [Sensors -> Nat] /\ gate \in [Sensors -> Nat]
    /\ ppm \in [Sensors -> Readings]
    /\ ab \in Ambients
    /\ info \in [sensor : Sensors, conc : Readings, raw : Readings, we : Nat, ae : Nat]
    /\ values \in [Sensors -> [sensor : Sensors, conc : Readings, judged : Readings,
                               amb : Ambients]]

(***************************************************************************)
(* Temperature, pressure and humidity of a row are of one reading of the   *)
(* BME280, although main asks for each of them in a call of its own        *)
(* (main.cpp:148-150).                                                     *)
(***************************************************************************)
AmbientIsWhole ==
    pc \notin Ambient => ab.temp = ab.pre /\ ab.temp = ab.hum

(***************************************************************************)
(* The voltages of a GAS_INFO row are those its concentrations were        *)
(* computed from, and both concentrations are of the same readings,        *)
(* although every value is asked for again (main.cpp:156-165).             *)
(***************************************************************************)
VoltagesOfConcentration ==
    pc = "insert" =>
        /\ info.we = info.conc.we /\ info.ae = info.conc.ae
        /\ info.sensor \in Alphasense => info.raw = info.conc

(***************************************************************************)
(* The flag of a row judges the very concentration and the very ambient    *)
(* values that stand in the row (main.cpp:168-169, flagManager.cpp:22-89). *)
(***************************************************************************)
FlagJudgesTheRow ==
    pc = "insert" =>
        /\ values[i].judged = values[i].conc
        /\ values[i].amb = ab

(***************************************************************************)
(* What is stored and sent was all measured in this turn of the loop: no   *)
(* gate hands a value of the turn before into the row (main.cpp:174-176).  *)
(***************************************************************************)
RowIsOfThisCycle ==
    pc = "values" =>
        /\ ab.temp >= began
        /\ \A k \in Sensors :
             /\ values[k].conc.we >= began
             /\ k \in Alphasense => values[k].conc.ae >= began
                                    /\ values[k].conc.temp = ab.temp

(***************************************************************************)
(* Column k of the row is of the k-th sensor, turn after turn: the cursor  *)
(* of the list and main's loop variable never part (main.cpp:152, 172).    *)
(***************************************************************************)
ColumnsInOrder == pc = "values" => \A k \in Sensors : values[k].sensor = k

=============================================================================
