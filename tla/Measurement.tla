---------------------------- MODULE Measurement ----------------------------
(***************************************************************************)
(* From the configuration file to the bytes on the air: main.cpp with the  *)
(* settings it loads (Settings), the ambient sensor (Bme280), the gas      *)
(* sensors (Compensation), their flags (FlagManager) and the uplink        *)
(* (Payload).  One turn of the measuring loop reads the ambient sensor     *)
(* once and each gas once: that the time gates make it so is shown in      *)
(* MeasureCycle.                                                           *)
(***************************************************************************)
EXTENDS Settings, Bme280, Compensation, Payload

CONSTANTS
    Volts,      \* voltages the ADCs may return, in millivolts
    Today       \* the time of the measurements

ASSUME MeasurementAssumption ==
    /\ Volts \subseteq Int
    /\ Today \in Int

VARIABLES
    pc,       \* where main() stands
    gas,      \* the gas being measured: the list's current node and the loop's i
    zero,     \* the static of flagManager::checkRanges
    info,     \* _info, the GAS_INFO row: of which sensor, its concentrations and voltages
    row,      \* what was computed for each gas, and its flag
    raw       \* the bytes of the latest uplink

mainVars == <<pc, gas, zero, info, row, raw>>
vars == <<settingsVars, bmeVars, mainVars>>

Blank == [con |-> NaN, flag |-> "none", cell |-> 0]
NoRow == [i \in Sensors |-> Blank]

NoInfo == [sensor |-> 0, ppb_c |-> NaN, ppb |-> NaN, we |-> 0, ae |-> 0]

\* The settings an Alphasense sensor is given.
Bag(i) == mem[i].features

Name(i) == IF i = Aeroqual THEN "O3" ELSE SensorName(Bag(i).sensor.value)

\* The conditions each flag manager is given.
Cond(i) ==
    [temperature |-> mem[i].operation.temperature, pressure |-> mem[i].operation.pressure,
     humidity |-> mem[i].operation.humidity, ranges |-> mem[i].operation.ranges,
     lifeTime |-> mem[i].operation.lifeTime, startupTime |-> mem[i].startup]

Flag == INSTANCE FlagManager WITH
    Managers <- Sensors, Conditions <- {}, Ambients <- Airs, Concentrations <- {},
    MaxTime <- 0, now <- Today, cond <- [i \in Sensors |-> Cond(i)],
    zRanges <- zero, last <- row

MainInit == pc = "start" /\ gas = 1 /\ zero = Flag!Unset /\ info = NoInfo
            /\ row = NoRow /\ raw = <<>>

Init == SettingsInit /\ BmeInit /\ MainInit

-----------------------------------------------------------------------------

Load == GetSettings /\ UNCHANGED <<bmeVars, mainVars>>

\* The sensors get their settings; sendTP throws on a txPower that is no number.
Start ==
    /\ pc = "start" /\ stage = "loaded" /\ file.numeric
    /\ pc' = "turn"
    /\ UNCHANGED <<settingsVars, bmeVars, gas, zero, info, row, raw>>

\* A process ends with its memory; the chip, on its own supply, goes on.
Die ==
    /\ Exit
    /\ pc' = "start" /\ gas' = 1 /\ zero' = Flag!Unset
    /\ info' = NoInfo /\ row' = NoRow /\ raw' = <<>>
    /\ at' = 0 /\ words' = NoWords
    /\ amb' = NoValues
    /\ UNCHANGED <<asked, missed, busy, data>>

NoPower == pc = "start" /\ stage = "loaded" /\ ~file.numeric /\ Die

\* Any other end of a running process.
Crash == pc # "start" /\ Die

Restart == stage = "exit" /\ Reload /\ UNCHANGED <<bmeVars, mainVars>>

BeginTurn ==
    /\ pc = "turn" /\ Calibrate
    /\ pc' = "ambient" /\ info' = NoInfo /\ row' = NoRow /\ raw' = <<>>
    /\ UNCHANGED <<settingsVars, gas, zero>>

ReadAmbient ==
    /\ pc = "ambient" /\ (Trigger \/ ReadWord)
    /\ UNCHANGED <<settingsVars, mainVars>>

AmbientDone ==
    /\ pc = "ambient" /\ Compute
    /\ pc' = "gas" /\ gas' = 1
    /\ UNCHANGED <<settingsVars, zero, info, row, raw>>

\* What the chip does while main is elsewhere shows at the next reading.
Chip == pc \in {"turn", "ambient"} /\ Finish /\ UNCHANGED <<settingsVars, mainVars>>

\* getFlag of the gas's manager.
FlagOf(i, con, z) ==
    Flag!Decide(Flag!CheckAmbient(Cond(i), amb.air), Flag!CheckLife(Cond(i)),
                Flag!CheckRanges(Cond(i), Flag!Twentieths(con), z))

Cell(i) == IF i = Aeroqual THEN 0
           ELSE Position(Bag(i).compensate.value, Bag(i).algorithm.value, amb.air.temp)

\* Mutation of StoredInfo: the two electrodes are mixed up.
StoredInfoCrossed(i, con, we, ae) ==
    IF Name(i) = "O3"
    THEN [sensor |-> i, ppb_c |-> con, ppb |-> Number(0),
          we |-> IF i = Aeroqual THEN we ELSE ae, ae |-> 0]
    ELSE [sensor |-> i, ppb_c |-> con, ppb |-> Uncorrected(Bag(i), Adjust(we), Adjust(ae)),
          we |-> Adjust(ae), ae |-> Adjust(we)]

\* The GAS_INFO row.  main tells the Aeroqual sensor by its name; the voltage
\* it then stores is getAdc()'s, of an Alphasense sensor the auxiliary electrode's.
StoredInfo(i, con, we, ae) ==
    IF Name(i) = "O3"
    THEN [sensor |-> i, ppb_c |-> con, ppb |-> Number(0),
          we |-> IF i = Aeroqual THEN we ELSE ae, ae |-> 0]
    ELSE [sensor |-> i, ppb_c |-> con, ppb |-> Uncorrected(Bag(i), Adjust(we), Adjust(ae)),
          we |-> Adjust(we), ae |-> Adjust(ae)]

\* One gas: its concentration, its flag, its GAS_INFO row, and the next node.
Judge(con, we, ae) ==
    /\ info' = StoredInfo(gas, con, we, ae)
    /\ zero' = IF zero = Flag!Unset THEN Flag!ZeroRange(Cond(gas)) ELSE zero
    /\ row' = [row EXCEPT ![gas] = [con |-> con, flag |-> FlagOf(gas, con, zero'),
                                    cell |-> Cell(gas)]]
    /\ IF gas < Aeroqual THEN pc' = "gas" /\ gas' = gas + 1 ELSE pc' = "send" /\ gas' = 1
    /\ UNCHANGED <<settingsVars, bmeVars, raw>>

MeasureAlphasense ==
    /\ pc = "gas" /\ gas \in Alphasense
    /\ \E we, ae \in Volts :
         Judge(Concentration(Bag(gas), Adjust(we), Adjust(ae), amb.air.temp), we, ae)

MeasureAeroqual ==
    /\ pc = "gas" /\ gas = Aeroqual
    /\ \E v \in Volts : Judge(OzoneConcentration(v), v, 0)

\* sendSP: the payload is made and sent; whether it is heard is Station's business.
SendPayload ==
    /\ pc = "send"
    /\ raw' \in MakeLoRaPayload(amb.air, [i \in Sensors |-> row[i].con])
    /\ pc' = "turn"
    /\ UNCHANGED <<settingsVars, bmeVars, gas, zero, info, row>>

Main ==
    \/ Load \/ Start \/ NoPower \/ BeginTurn \/ ReadAmbient \/ AmbientDone
    \/ MeasureAlphasense \/ MeasureAeroqual \/ SendPayload

Next == Main \/ Crash \/ Restart \/ Chip

Spec == Init /\ [][Next]_vars

-----------------------------------------------------------------------------

TypeOK ==
    /\ SettingsTypeOK
    /\ asked \in 0 .. MaxConversions /\ missed \in 0 .. asked /\ busy \in BOOLEAN
    /\ data \in [of : 0 .. MaxConversions, air : Air]
    /\ at \in 0 .. 5
    /\ pc \in {"start", "turn", "ambient", "gas", "send"}
    /\ gas \in Sensors
    /\ zero \in Limits \cup {Flag!Unset}
    /\ info.sensor \in {0} \cup Sensors
    /\ \A i \in Sensors : row[i].flag \in Flag!Flags \cup {"none"}
    /\ raw = <<>> \/ raw \in [1 .. Length -> 0 .. ByteSize - 1]

Valid(i) == row[i].flag \in {"VA", "VZ"}

Within(limits, low, high) ==
    AtMost(Number(low), limits[1]) /\ AtMost(limits[2], Number(high))

(***************************************************************************)
(* How old an ambient value may be: it is of the conversion its own        *)
(* reading started or of the one before, for the mode written is not the   *)
(* normal mode the comment at bme280.cpp:151 names, and one reading older  *)
(* still for every mode write in a row that failed just before: nobody     *)
(* looks at their results.  No order of failures, ends of conversions and  *)
(* restarts makes it older, or of an age between.                          *)
(***************************************************************************)
AgedByMissedWrites == at = 0 => amb.of \subseteq {asked, asked - 1 - amb.late}

(***************************************************************************)
(* A bus that fails through a whole reading is noticed by nobody but the   *)
(* limits: the values it is computed to are flagged invalid for every gas  *)
(* whose pressure limits leave out 0 hPa (bme280.cpp:146-160).             *)
(***************************************************************************)
DeadSensorIsTold ==
    amb.dead =>
        \A i \in Sensors : Less(Number(0), mem[i].operation.pressure[1]) => ~Valid(i)

(***************************************************************************)
(* The flag makes up for the range test that lets every temperature in     *)
(* (AlphasenseSensor.cpp:59): a value flagged valid was never computed     *)
(* with a factor of another gas or of no gas at all, provided the gas's    *)
(* temperature limits keep within -35 and 55 degrees.                      *)
(***************************************************************************)
ValidFromOwnRow ==
    \A i \in Alphasense :
        LET f == Bag(i) IN
        Valid(i) /\ f.compensate.value \in 0 .. Types - 1
                 /\ Within(mem[i].operation.temperature, -35, 55)
            => RowOf(row[i].cell) = 4 * f.compensate.value + Algorithm(f.algorithm.value) - 1

Electrical == Looked \ {"sensor", "compensate", "algorithm"}

\* Far beyond any data sheet, and far from where a float overflows.
Plausible == 1000000

\* The electrical settings are numbers that a data sheet may give.
Sound(f) == \A n \in Electrical : IsNumber(f[n]) /\ f[n].value \in -Plausible .. Plausible

InTable(position) == position \in 0 .. Rows * Columns - 1

(***************************************************************************)
(* A value flagged valid may be no number at all, but not by chance: the   *)
(* settings of a sound file have it divided by zero, with a sensitivity of *)
(* 0 or, in algorithm 2, equal offsets of the auxiliary electrode          *)
(* (AlphasenseSensor.cpp:52, 79), unless a setting is not sound, which may *)
(* be one the file lacks and the memory's contents stand for, or the       *)
(* factor was read behind the table (line 68).                             *)
(***************************************************************************)
NaNFromZeroDivisor ==
    \A i \in Sensors :
        Valid(i) /\ row[i].con = NaN =>
            /\ i \in Alphasense
            /\ LET f == Bag(i) IN
               \/ f.sensitivity = Number(0)
               \/ Algorithm(f.algorithm.value) = 2 /\ f.ae_total = f.ae_electronic
               \/ ~Sound(f)
               \/ ~InTable(row[i].cell)

(***************************************************************************)
(* A GAS_INFO row can be checked from itself: its concentrations are those *)
(* its own voltages give.  Of an Alphasense sensor with the type O3_SENSOR *)
(* it cannot, for main takes the name O3 for the Aeroqual sensor and       *)
(* stores the auxiliary electrode under we (main.cpp:155-166).             *)
(***************************************************************************)
InfoExplainsItself ==
    LET i == info.sensor IN
    /\ i \in Alphasense /\ Bag(i).sensor.value # 4 =>
         /\ info.ppb_c = Concentration(Bag(i), info.we, info.ae, amb.air.temp)
         /\ info.ppb = Uncorrected(Bag(i), info.we, info.ae)
    /\ i = Aeroqual => info.ppb_c = OzoneConcentration(info.we)

(***************************************************************************)
(* What the station flags valid it sends unharmed: when a gas's limits fit *)
(* the sixteen bits of its field, a receiver that goes by the comments of  *)
(* byte_payload finds the value of the row in the bytes of that very gas   *)
(* (clientModel.cpp:14-27).                                                *)
(***************************************************************************)
ValidIsSentWhole ==
    raw # <<>> =>
        \A i \in Sensors :
            Valid(i) /\ row[i].con # NaN
                     /\ Within(mem[i].operation.ranges, 0, WordSize - 1)
                => Number(GasIn(raw, i)) = row[i].con

(***************************************************************************)
(* commonConfig.h:146, "uint16_t _pre; // 0 - 65535 in hPa": the pressure  *)
(* sent is the one measured, in hPa.                                       *)
(***************************************************************************)
PressureInHpa ==
    raw # <<>> /\ amb.air.pre \in 0 .. WordSize - 1 => PressureIn(raw) = amb.air.pre

=============================================================================
