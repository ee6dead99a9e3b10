---------------------------- MODULE Compensation ----------------------------
(***************************************************************************)
(* The arithmetic of the gas sensors: AlphasenseSensor.cpp with its table  *)
(* of compensation factors, main.cpp's adjust, and aeroqualSM50.cpp.       *)
(*                                                                         *)
(* Voltages are in millivolts, sensitivities in millivolts per ppm,        *)
(* concentrations in ppb, factors in tenths and temperatures in degrees.   *)
(* The settings of a sensor are floats that may hold anything, so may what *)
(* lies behind the table, and quotients by zero are taken.                 *)
(***************************************************************************)
EXTENDS Floats

CONSTANTS
    Factor(_, _),    \* the factor in a row and a column of the table
    Behind(_)        \* the float the memory holds so many places behind the table

-----------------------------------------------------------------------------
(* The table: twelve compensation types of four algorithms, nine columns   *)
(* from -30 to 50 degrees.                                                 *)

Types   == 12
Rows    == Types * 4
Columns == 9

ASSUME CompensationAssumption ==
    \A r \in 0 .. Rows - 1, c \in 0 .. Columns - 1 : Factor(r, c) \in Int

Algorithms == 1 .. 4

\* The names of the sensor types, 0 to 5.
SensorNames == <<"CO", "H2S", "NO", "NO2", "O3", "SO2">>

SensorName(type) == IF type \in 0 .. 5 THEN SensorNames[type + 1] ELSE "--"

CharSize == 256

\* The int is put in a char; anything but the four algorithms becomes the first.
Algorithm(alg) == IF alg % CharSize \in Algorithms THEN alg % CharSize ELSE 1

\* Mutation of FactorIndex: the counter is advanced before the test.
FactorIndexAfter(temp) ==
    LET steps == {k \in 0 .. 9 : temp >= 10 * k - 35 /\ temp <= 10 * k - 25}
    IN  IF steps = {} THEN 10 ELSE 1 + CHOOSE k \in steps : \A j \in steps : k <= j

\* The step of the loop over t = -35, -25 .. 55 that meets the temperature; past
\* them all when none does, for the || around the loop lets every value in.
FactorIndex(temp) ==
    LET steps == {k \in 0 .. 9 : temp >= 10 * k - 35 /\ temp <= 10 * k - 25}
    IN  IF steps = {} THEN 10 ELSE CHOOSE k \in steps : \A j \in steps : k <= j

\* Where the float lies that is read: the compiler lays the rows end to end.
Position(type, alg, temp) ==
    (4 * type + Algorithm(alg) - 1) * Columns + FactorIndex(temp)

RowOf(position)    == position \div Columns
ColumnOf(position) == position % Columns

CompFactor(type, alg, temp) ==
    LET p == Position(type, alg, temp)
    IN  IF p \in 0 .. Rows * Columns - 1 THEN Number(Factor(RowOf(p), ColumnOf(p)))
        ELSE Behind(p)

-----------------------------------------------------------------------------

\* The adjustment of every Alphasense voltage, whichever electrode it is of.
Adjust(v) == (-302157 * v) \div 100000 + 2668

Tenth(x) == Quotient(x, Number(10))

\* Mutation of Corrected: the ratio of the offsets is turned over.
CorrectedUpsideDown(alg, we, ae, zero, factor) ==
    LET scaled == Times(factor, ae) IN
    CASE Algorithm(alg) = 2 ->
            Minus(we, Quotient(Times(scaled, zero.ae), Times(Number(10), zero.we)))
      [] OTHER -> Minus(Minus(we, zero.we), Tenth(scaled))

\* get_WE_correct: the working electrode, corrected for the temperature.
Corrected(alg, we, ae, zero, factor) ==
    LET scaled == Times(factor, ae) IN
    CASE Algorithm(alg) = 1 -> Minus(we, Tenth(scaled))
      [] Algorithm(alg) = 2 ->
            Minus(we, Quotient(Times(scaled, zero.we), Times(Number(10), zero.ae)))
      [] Algorithm(alg) = 3 ->
            Minus(Minus(we, Minus(zero.we, zero.ae)), Tenth(scaled))
      [] Algorithm(alg) = 4 ->
            Minus(Minus(we, zero.we), Times(Number(100), factor))

InPpb(x) == Times(Number(1000), x)

\* getConcentration(1, 0): the corrected concentration in ppb.
Concentration(f, we, ae, temp) ==
    LET zero   == [we |-> Minus(f.we_total, f.we_electronic),
                   ae |-> Minus(f.ae_total, f.ae_electronic)]
        factor == CompFactor(f.compensate.value, f.algorithm.value, temp)
    IN  Quotient(InPpb(Corrected(f.algorithm.value, Number(we), Number(ae), zero, factor)),
                 f.sensitivity)

\* getConcentration(1, 1): the concentration without the correction.
Uncorrected(f, we, ae) ==
    Quotient(InPpb(Minus(Minus(Number(we), f.we_total), Minus(Number(ae), f.ae_total))),
             f.sensitivity)

\* aeroqualSM50: five volts are ten ppm.
OzoneConcentration(v) == Number(2 * v)

=============================================================================
