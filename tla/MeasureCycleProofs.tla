------------------------- MODULE MeasureCycleProofs -------------------------
(***************************************************************************)
(* Proofs about MeasureCycle, for every number of sensors and every timing *)
(* that keeps MeasureAssumption and TimingAssumption.  The invariant is    *)
(* MeasureCycleInv's: within a cycle each gate opens only for the first    *)
(* call, so all later calls see the same reading.                          *)
(***************************************************************************)
EXTENDS MeasureCycleInv, SequenceTheorems, TLAPS

USE DEF Sensors, Current

-----------------------------------------------------------------------------
(* The gates.                                                              *)

\* Main's loop variable is the sensor under the cursor.
LEMMA CurrentIsI == ASSUME GatesInv PROVE Current = i /\ i \in Sensors /\ i \in Nat
BY DEF GatesInv, TypeOK, Together

\* The ambient sensor's gate stays shut from the second call of a cycle on.
LEMMA BmeShut ==
    ASSUME GatesInv, pc \in InCycle, pc # "temp"
    PROVE  Bme = bme
<1>1. bme >= began /\ now - began <= CycleMax /\ bme \in Nat /\ began \in Nat /\ now \in Nat
  BY DEF GatesInv, TypeOK, BmeOnce, Clock, InCycle, Ambient
<1> QED
  BY <1>1, MeasureAssumption, TimingAssumption DEF Bme, IsTime

\* What was read in this turn is not read again in it.
LEMMA Shut ==
    ASSUME GatesInv, pc \in InVisit
    PROVE  /\ we[i] >= entered => We(i) = we[i]
           /\ ae[i] >= entered => Ae(i) = ae[i]
           /\ gate[i] >= entered => ~IsTime(gate[i], GasGap)
<1>1. now - entered <= VisitMax /\ entered \in Nat /\ now \in Nat
  BY DEF GatesInv, TypeOK, Clock
<1>2. we[i] \in Nat /\ ae[i] \in Nat /\ gate[i] \in Nat
  BY DEF GatesInv, TypeOK
<1> QED
  BY <1>1, <1>2, MeasureAssumption, TimingAssumption DEF We, Ae, IsTime

\* What is due since the cycle began is read at the first call.
LEMMA Open ==
    ASSUME GatesInv
    PROVE  /\ began - we[i] > AdcGap => We(i) = now
           /\ began - ae[i] > AdcGap => Ae(i) = now
           /\ began - gate[i] > GasGap => IsTime(gate[i], GasGap)
           /\ began - bme > AmbGap => Bme = now
<1>1. began <= now /\ began \in Nat /\ now \in Nat /\ bme \in Nat
  BY DEF GatesInv, TypeOK, Clock
<1>2. we[i] \in Nat /\ ae[i] \in Nat /\ gate[i] \in Nat
  BY DEF GatesInv, TypeOK
<1> QED
  BY <1>1, <1>2, MeasureAssumption DEF We, Ae, Bme, IsTime

\* A call returns a reading of the present or of the past.
LEMMA Reads ==
    ASSUME GatesInv
    PROVE  /\ Bme \in Nat /\ Bme <= now /\ bme <= Bme
           /\ We(i) \in Nat /\ We(i) <= now
           /\ Ae(i) \in Nat /\ Ae(i) <= now
<1>1. now \in Nat /\ bme \in Nat /\ bme <= now
  BY DEF GatesInv, TypeOK, NoneLater, Past
<1>2. i \in Sensors /\ we[i] \in Nat /\ ae[i] \in Nat /\ we[i] <= now /\ ae[i] <= now
  BY DEF GatesInv, TypeOK, NoneLater, Past
<1> QED
  BY <1>1, <1>2 DEF Bme, We, Ae

-----------------------------------------------------------------------------
LEMMA AmbientTempInv == ASSUME GatesInv, AmbientTemp PROVE GatesInv'
<1>f. bme' = Bme /\ Bme = now /\ ab' = [ab EXCEPT !.temp = now] /\ pc = "temp" /\ pc' = "pre"
      /\ began <= now /\ now \in Nat /\ ab \in Ambients
  BY Open DEF AmbientTemp, GatesInv, TypeOK, BmeOnce, Clock
<1>1. TypeOK'
  BY Reads DEF AmbientTemp, GatesInv, TypeOK, Ambients, Places, InCycle, Ambient, clock,
     list
<1>2. Uses'
  BY DEF AmbientTemp, Uses
<1>3. Together'
  BY DEF AmbientTemp, GatesInv, Together, InVisit, list
<1>4. Clock'
  BY DEF AmbientTemp, GatesInv, Clock, InCycle, InVisit, Ambient, clock
<1>5. NoneLater'
  BY Reads DEF AmbientTemp, GatesInv, NoneLater, Past, clock
<1>6. BmeOnce'
  BY <1>f DEF AmbientTemp, BmeOnce, InVisit, clock
<1>7. ToCome'
  BY DEF AmbientTemp, GatesInv, ToCome, Due, Ambient, clock
<1>8. Reading'
  BY DEF AmbientTemp, Reading
<1>9. OneVoltage'
  BY DEF AmbientTemp, GatesInv, OneVoltage
<1>10. RowSoFar'
  BY DEF AmbientTemp, RowSoFar, HasConc, HasRaw, HasWe, HasVolts, HasPut, HasFlag,
     InVisit
<1>11. Filled'
  BY DEF AmbientTemp, Filled, InVisit
<1> QED
  BY <1>1, <1>2, <1>3, <1>4, <1>5, <1>6, <1>7, <1>8, <1>9, <1>10, <1>11 DEF GatesInv

LEMMA AmbientPreInv == ASSUME GatesInv, AmbientPre PROVE GatesInv'
<1>f. bme' = bme /\ ab' = [ab EXCEPT !.pre = bme] /\ ab \in Ambients /\ pc = "pre" /\ pc' = "hum"
  BY BmeShut DEF AmbientPre, GatesInv, TypeOK, InCycle, Ambient
<1>1. TypeOK'
  BY <1>f DEF AmbientPre, GatesInv, TypeOK, Ambients, Places, InCycle, Ambient, clock,
     list
<1>2. Uses'
  BY DEF AmbientPre, Uses
<1>3. Together'
  BY DEF AmbientPre, GatesInv, Together, InVisit, list
<1>4. Clock'
  BY DEF AmbientPre, GatesInv, Clock, InCycle, InVisit, Ambient, clock
<1>5. NoneLater'
  BY <1>f DEF AmbientPre, GatesInv, NoneLater, Past, clock
<1>6. BmeOnce'
  BY <1>f DEF AmbientPre, GatesInv, BmeOnce, InVisit, clock
<1>7. ToCome'
  BY DEF AmbientPre, GatesInv, ToCome, Due, Ambient, clock
<1>8. Reading'
  BY DEF AmbientPre, Reading
<1>9. OneVoltage'
  BY DEF AmbientPre, GatesInv, OneVoltage
<1>10. RowSoFar'
  BY DEF AmbientPre, RowSoFar, HasConc, HasRaw, HasWe, HasVolts, HasPut, HasFlag,
     InVisit
<1>11. Filled'
  BY DEF AmbientPre, Filled, InVisit
<1> QED
  BY <1>1, <1>2, <1>3, <1>4, <1>5, <1>6, <1>7, <1>8, <1>9, <1>10, <1>11 DEF GatesInv

LEMMA AmbientHumInv == ASSUME GatesInv, AmbientHum PROVE GatesInv'
<1>f. bme' = bme /\ ab' = [ab EXCEPT !.hum = bme] /\ ab \in Ambients /\ pc = "hum" /\ pc' = "visit"
  BY BmeShut DEF AmbientHum, GatesInv, TypeOK, InCycle, Ambient
<1>1. TypeOK'
  BY <1>f DEF AmbientHum, GatesInv, TypeOK, Ambients, Places, InCycle, clock, list
<1>2. Uses'
  BY DEF AmbientHum, Uses
<1>3. Together'
  BY DEF AmbientHum, GatesInv, Together, list
<1>4. Clock'
  BY DEF AmbientHum, GatesInv, Clock, InCycle, InVisit, Ambient, clock
<1>5. NoneLater'
  BY <1>f DEF AmbientHum, GatesInv, NoneLater, Past, clock
<1>6. BmeOnce'
  BY <1>f DEF AmbientHum, GatesInv, BmeOnce, Ambients, clock
<1>7. ToCome'
  BY DEF AmbientHum, GatesInv, ToCome, Due, Ambient, clock
<1>8. Reading'
  BY DEF AmbientHum, Reading
<1>9. OneVoltage'
  BY DEF AmbientHum, GatesInv, OneVoltage
<1>10. RowSoFar'
  BY DEF AmbientHum, RowSoFar, HasConc, HasRaw, HasWe, HasVolts, HasPut, HasFlag,
     InVisit
<1>11. Filled'
  BY DEF AmbientHum, GatesInv, Filled, Column, InVisit, Together
<1> QED
  BY <1>1, <1>2, <1>3, <1>4, <1>5, <1>6, <1>7, <1>8, <1>9, <1>10, <1>11 DEF GatesInv

LEMMA VisitInv == ASSUME GatesInv, Visit PROVE GatesInv'
<1>0. Current = i /\ i \in Sensors /\ i \in Nat
  BY CurrentIsI
<1>f0. i \in Sensors /\ pc = "visit" /\ Due(i)
  BY <1>0 DEF Visit, GatesInv, ToCome
<1>f1. \A k \in Sensors : k > i => Due(k)
  BY <1>f0 DEF GatesInv, ToCome
<1>f2. began <= now /\ now - began <= CycleMax /\ now - now <= VisitMax /\ now \in Nat
  BY MeasureAssumption DEF Visit, GatesInv, TypeOK, Clock, InCycle
<1>1. TypeOK'
  BY DEF Visit, GatesInv, TypeOK, Places, InCycle, InVisit, list, drivers
<1>2. Uses'
  BY DEF Visit, Uses
<1>3. Together'
  BY DEF Visit, GatesInv, Together, InVisit, list
<1>4. Clock'
  BY <1>f2 DEF Visit, GatesInv, Clock
<1>5. NoneLater'
  BY DEF Visit, GatesInv, NoneLater, Past, drivers
<1>6. BmeOnce'
  BY DEF Visit, GatesInv, BmeOnce, drivers
<1>7. ToCome'
  BY <1>f1 DEF Visit, ToCome, Due, Ambient, drivers
<1>8. Reading'
  BY <1>f0 DEF Visit, Reading, Due, drivers
<1>9. OneVoltage'
  BY DEF Visit, GatesInv, OneVoltage, drivers
<1>10. RowSoFar'
  BY <1>0 DEF Visit, RowSoFar, HasConc, HasRaw, HasWe, HasVolts, HasPut, HasFlag
<1>11. Filled'
  BY DEF Visit, GatesInv, Filled, Column
<1> QED
  BY <1>1, <1>2, <1>3, <1>4, <1>5, <1>6, <1>7, <1>8, <1>9, <1>10, <1>11 DEF GatesInv

LEMMA ConcentrationInv == ASSUME GatesInv, Concentration PROVE GatesInv'
<1>0. Current = i /\ i \in Sensors /\ i \in Nat
  BY CurrentIsI
<1>f0. /\ pc = "conc" /\ pc' \in {"conc_temp", "conc_we", "have"}
       /\ now \in Nat /\ gate \in [Sensors -> Nat] /\ gate' \in [Sensors -> Nat]
       /\ \A k \in Sensors : gate'[k] = gate[k] \/ (k = i /\ gate'[k] = now)
  BY <1>0 DEF Concentration, GatesInv, TypeOK, clock
<1>f1. entered <= now /\ entered \in Nat
  BY DEF GatesInv, TypeOK, Clock, InVisit, Concentration
<1>f2. use \in {"corrected", "raw", "flag"} /\ (use = "corrected" => Due(i))
  BY DEF GatesInv, TypeOK, Reading, Concentration
<1>f3. use # "corrected" => Fresh(i)
  BY DEF GatesInv, RowSoFar, HasConc, InVisit, Concentration
<1>f4. i \in Alphasense => IF use = "corrected" THEN pc' = "conc_temp" /\ gate'[i] = now
                             ELSE pc' = "have" /\ gate' = gate
  BY <1>0, <1>f2, <1>f3, Open, Shut DEF Concentration, Due, Fresh, InVisit, GatesInv,
     TypeOK
<1>f5. i \notin Alphasense => pc' = "conc_we" /\ gate' = gate
  BY <1>0 DEF Concentration
<1>f6. use # "corrected" => Fresh(i)'
  BY <1>f3, <1>f4 DEF Concentration, Fresh, clock
<1>f7. use = "corrected" => RowSoFar'
  BY DEF RowSoFar, HasConc, HasRaw, HasWe, HasVolts, HasPut, HasFlag, InVisit,
     Concentration, GatesInv, record
<1>f8. use = "raw" => i \in Alphasense
  BY DEF GatesInv, Uses, Concentration
<1>f9. use = "raw" => RowSoFar'
  BY <1>f4, <1>f6, <1>f8 DEF RowSoFar, HasConc, HasRaw, HasWe, HasVolts, HasPut,
     HasFlag, InVisit, Concentration, GatesInv, record
<1>f10. use = "flag" => RowSoFar'
  BY <1>f6 DEF RowSoFar, HasConc, HasRaw, HasWe, HasVolts, HasPut, HasFlag, InVisit,
     Concentration, GatesInv, record
<1>1. TypeOK'
  BY <1>f1, <1>f2, <1>f3, <1>f4, <1>f9, <1>f10 DEF Concentration, GatesInv, TypeOK,
     Places, InCycle, InVisit, Ambient, clock, list, record
<1>2. Uses'
  BY <1>f2, <1>f4, <1>f5 DEF Concentration, GatesInv, Uses
<1>3. Together'
  BY DEF Concentration, GatesInv, Together, InVisit, list
<1>4. Clock'
  BY DEF Concentration, GatesInv, Clock, InCycle, InVisit, clock
<1>5. NoneLater'
  BY <1>f0 DEF Concentration, GatesInv, NoneLater, Past, clock
<1>6. BmeOnce'
  BY DEF Concentration, GatesInv, BmeOnce, InVisit, clock, record
<1>7. ToCome'
  BY <1>f0 DEF Concentration, GatesInv, ToCome, Due, InVisit, Ambient, clock
<1>8. Reading'
  BY <1>f1, <1>f4, <1>f5 DEF Concentration, GatesInv, Reading, Due, clock
<1>9. OneVoltage'
  BY DEF Concentration, GatesInv, OneVoltage
<1>10. RowSoFar'
  BY <1>f2, <1>f7, <1>f9, <1>f10
<1>11. Filled'
  BY DEF Concentration, GatesInv, Filled, Column, InVisit, clock, record
<1> QED
  BY <1>1, <1>2, <1>3, <1>4, <1>5, <1>6, <1>7, <1>8, <1>9, <1>10, <1>11 DEF GatesInv

LEMMA ConcentrationTempInv == ASSUME GatesInv, ConcentrationTemp PROVE GatesInv'
<1>0. Current = i /\ i \in Sensors /\ i \in Nat
  BY CurrentIsI
<1>f0. bme' = bme /\ i \in Alphasense /\ bme \in Nat
  BY BmeShut DEF ConcentrationTemp, GatesInv, TypeOK, Uses, InCycle, InVisit
<1>f1. /\ ppm[i] \in Readings /\ ppm' = [ppm EXCEPT ![i] = [ppm[i] EXCEPT !.temp = bme]]
       /\ \A k \in Sensors : k # i => ppm'[k] = ppm[k]
  BY <1>0, <1>f0 DEF ConcentrationTemp, GatesInv, TypeOK
<1>f2. ppm'[i] \in Readings /\ ppm' \in [Sensors -> Readings]
  BY <1>f1 DEF GatesInv, TypeOK, Readings
<1>1. TypeOK'
  BY <1>f0, <1>f2 DEF ConcentrationTemp, GatesInv, TypeOK, Places, InCycle, InVisit,
     clock, list, record
<1>2. Uses'
  BY DEF ConcentrationTemp, GatesInv, Uses
<1>3. Together'
  BY DEF ConcentrationTemp, GatesInv, Together, InVisit, list
<1>4. Clock'
  BY DEF ConcentrationTemp, GatesInv, Clock, InCycle, InVisit, clock
<1>5. NoneLater'
  BY <1>f0 DEF ConcentrationTemp, GatesInv, NoneLater, Past, clock
<1>6. BmeOnce'
  BY <1>f0 DEF ConcentrationTemp, GatesInv, BmeOnce, InVisit, clock, record
<1>7. ToCome'
  BY DEF ConcentrationTemp, GatesInv, ToCome, Due, InVisit, Ambient, clock
<1>8. Reading'
  BY <1>f0, <1>f1 DEF ConcentrationTemp, GatesInv, Reading, TypeOK, Readings, clock
<1>9. OneVoltage'
  BY <1>f1 DEF ConcentrationTemp, GatesInv, OneVoltage, Uses
<1>10. RowSoFar'
  BY DEF ConcentrationTemp, GatesInv, RowSoFar, HasConc, HasRaw, HasWe, HasVolts, HasPut,
     HasFlag, InVisit, Uses, record
<1>11. Filled'
  BY DEF ConcentrationTemp, GatesInv, Filled, Column, InVisit, clock, record
<1> QED
  BY <1>1, <1>2, <1>3, <1>4, <1>5, <1>6, <1>7, <1>8, <1>9, <1>10, <1>11 DEF GatesInv

LEMMA ConcentrationWeInv == ASSUME GatesInv, ConcentrationWe PROVE GatesInv'
<1>0. Current = i /\ i \in Sensors /\ i \in Nat
  BY CurrentIsI
<1>f0. /\ we' = [we EXCEPT ![i] = We(i)] /\ We(i) \in Nat /\ We(i) <= now
  BY <1>0, Reads DEF ConcentrationWe
<1>f1. use = "corrected" => We(i) = now /\ entered <= now
  BY Open DEF GatesInv, Reading, Clock, InVisit, ConcentrationWe
<1>f2. use # "corrected" => i \notin Alphasense /\ Fresh(i) /\ We(i) = we[i]
  BY Shut DEF GatesInv, Uses, RowSoFar, HasConc, Fresh, InVisit, ConcentrationWe
<1>f3. we' \in [Sensors -> Nat] /\ we'[i] = We(i) /\ \A k \in Sensors : k # i => we'[k] = we[k]
  BY <1>f0 DEF GatesInv, TypeOK
<1>f4. /\ ppm[i] \in Readings /\ ppm' = [ppm EXCEPT ![i] = [ppm[i] EXCEPT !.we = We(i)]]
       /\ \A k \in Sensors : k # i => ppm'[k] = ppm[k]
  BY <1>0 DEF ConcentrationWe, GatesInv, TypeOK
<1>f5. ppm'[i] \in Readings /\ ppm' \in [Sensors -> Readings]
  BY <1>f4, Reads DEF GatesInv, TypeOK, Readings
<1>f6. pc = "conc_we" /\ pc' = IF i \in Alphasense THEN "conc_ae" ELSE "have"
  BY <1>0 DEF ConcentrationWe
<1>f7. use # "corrected" => ppm'[i] = ppm[i]
  BY <1>f2, <1>f4 DEF Fresh, Readings
<1>f8. use # "corrected" => Fresh(i)'
  BY <1>f2 DEF ConcentrationWe, Fresh, clock
<1>1. TypeOK'
  BY <1>f3, <1>f5 DEF ConcentrationWe, GatesInv, TypeOK, Places, InCycle, InVisit, clock,
     list, record
<1>2. Uses'
  BY <1>f6 DEF ConcentrationWe, GatesInv, Uses
<1>3. Together'
  BY DEF ConcentrationWe, GatesInv, Together, InVisit, list
<1>4. Clock'
  BY DEF ConcentrationWe, GatesInv, Clock, InCycle, InVisit, clock
<1>5. NoneLater'
  BY <1>f0 DEF ConcentrationWe, GatesInv, NoneLater, Past, clock
<1>6. BmeOnce'
  BY DEF ConcentrationWe, GatesInv, BmeOnce, InVisit, clock, record
<1>7. ToCome'
  BY <1>0 DEF ConcentrationWe, GatesInv, ToCome, Due, InVisit, Ambient, clock
<1>8. Reading'
  BY <1>0, <1>f1 DEF ConcentrationWe, GatesInv, Reading, TypeOK, clock
<1>9. OneVoltage'
  BY DEF ConcentrationWe, GatesInv, OneVoltage
<1>10. RowSoFar'
  BY <1>f7, <1>f8 DEF ConcentrationWe, GatesInv, RowSoFar, HasConc, HasRaw, HasWe,
     HasVolts, HasPut, HasFlag, InVisit, record
<1>11. Filled'
  BY DEF ConcentrationWe, GatesInv, Filled, Column, InVisit, clock, record
<1> QED
  BY <1>1, <1>2, <1>3, <1>4, <1>5, <1>6, <1>7, <1>8, <1>9, <1>10, <1>11 DEF GatesInv

LEMMA ConcentrationAeInv == ASSUME GatesInv, ConcentrationAe PROVE GatesInv'
<1>0. Current = i /\ i \in Sensors /\ i \in Nat
  BY CurrentIsI
<1>f0. /\ ae' = [ae EXCEPT ![i] = Ae(i)] /\ Ae(i) \in Nat /\ Ae(i) <= now
  BY <1>0, Reads DEF ConcentrationAe
<1>f1. Ae(i) = now /\ entered <= now /\ use = "corrected" /\ i \in Alphasense
  BY Open DEF GatesInv, Reading, Clock, Uses, InVisit, ConcentrationAe
<1>f2. ae' \in [Sensors -> Nat] /\ ae'[i] = Ae(i) /\ \A k \in Sensors : k # i => ae'[k] = ae[k]
  BY <1>f0 DEF GatesInv, TypeOK
<1>f3. /\ ppm[i] \in Readings /\ ppm' = [ppm EXCEPT ![i] = [ppm[i] EXCEPT !.ae = Ae(i)]]
       /\ \A k \in Sensors : k # i => ppm'[k] = ppm[k]
  BY <1>0 DEF ConcentrationAe, GatesInv, TypeOK
<1>f4. ppm'[i] \in Readings /\ ppm' \in [Sensors -> Readings]
  BY <1>f3, Reads DEF GatesInv, TypeOK, Readings
<1>1. TypeOK'
  BY <1>f2, <1>f4 DEF ConcentrationAe, GatesInv, TypeOK, Places, InCycle, InVisit, clock,
     list, record
<1>2. Uses'
  BY DEF ConcentrationAe, GatesInv, Uses
<1>3. Together'
  BY DEF ConcentrationAe, GatesInv, Together, InVisit, list
<1>4. Clock'
  BY DEF ConcentrationAe, GatesInv, Clock, InCycle, InVisit, clock
<1>5. NoneLater'
  BY <1>f0 DEF ConcentrationAe, GatesInv, NoneLater, Past, clock
<1>6. BmeOnce'
  BY DEF ConcentrationAe, GatesInv, BmeOnce, InVisit, clock, record
<1>7. ToCome'
  BY <1>0 DEF ConcentrationAe, GatesInv, ToCome, Due, InVisit, Ambient, clock
<1>8. Reading'
  BY <1>0, <1>f1 DEF ConcentrationAe, GatesInv, Reading, TypeOK, clock
<1>9. OneVoltage'
  BY <1>f3 DEF ConcentrationAe, GatesInv, OneVoltage, Uses
<1>10. RowSoFar'
  BY DEF ConcentrationAe, GatesInv, RowSoFar, HasConc, HasRaw, HasWe, HasVolts, HasPut,
     HasFlag, InVisit, Uses, record
<1>11. Filled'
  BY DEF ConcentrationAe, GatesInv, Filled, Column, InVisit, clock, record
<1> QED
  BY <1>1, <1>2, <1>3, <1>4, <1>5, <1>6, <1>7, <1>8, <1>9, <1>10, <1>11 DEF GatesInv

LEMMA HaveCorrectedInv == ASSUME GatesInv, HaveCorrected PROVE GatesInv'
<1>0. Current = i /\ i \in Sensors /\ i \in Nat
  BY CurrentIsI
<1>1. TypeOK'
  BY DEF HaveCorrected, GatesInv, TypeOK, Readings, NoReadings, Places, InCycle, InVisit,
     clock, list, drivers
<1>2. Uses'
  BY <1>0 DEF HaveCorrected, Uses, TypeOK
<1>3. Together'
  BY DEF HaveCorrected, GatesInv, Together, InVisit, list
<1>4. Clock'
  BY DEF HaveCorrected, GatesInv, Clock, InCycle, InVisit, clock
<1>5. NoneLater'
  BY DEF HaveCorrected, GatesInv, NoneLater, Past, clock, drivers
<1>6. BmeOnce'
  BY DEF HaveCorrected, GatesInv, BmeOnce, InVisit, clock, drivers
<1>7. ToCome'
  BY DEF HaveCorrected, GatesInv, ToCome, Due, InVisit, Ambient, clock, drivers
<1>8. Reading'
  BY DEF HaveCorrected, Reading
<1>9. OneVoltage'
  BY DEF HaveCorrected, GatesInv, OneVoltage, drivers
<1>10. RowSoFar'
  BY <1>0 DEF HaveCorrected, GatesInv, RowSoFar, Fresh, HasRaw, HasWe, HasVolts, HasPut,
     HasFlag, InVisit, Reading, clock, drivers
<1>11. Filled'
  BY DEF HaveCorrected, GatesInv, Filled, Column, InVisit, clock
<1> QED
  BY <1>1, <1>2, <1>3, <1>4, <1>5, <1>6, <1>7, <1>8, <1>9, <1>10, <1>11 DEF GatesInv

LEMMA HaveRawInv == ASSUME GatesInv, HaveRaw PROVE GatesInv'
<1>0. Current = i /\ i \in Sensors /\ i \in Nat
  BY CurrentIsI
<1>1. TypeOK'
  BY DEF HaveRaw, GatesInv, TypeOK, Places, InCycle, InVisit, clock, list, drivers
<1>2. Uses'
  BY DEF HaveRaw, GatesInv, Uses
<1>3. Together'
  BY DEF HaveRaw, GatesInv, Together, InVisit, list
<1>4. Clock'
  BY DEF HaveRaw, GatesInv, Clock, InCycle, InVisit, clock
<1>5. NoneLater'
  BY DEF HaveRaw, GatesInv, NoneLater, Past, clock, drivers
<1>6. BmeOnce'
  BY DEF HaveRaw, GatesInv, BmeOnce, InVisit, clock, drivers
<1>7. ToCome'
  BY DEF HaveRaw, GatesInv, ToCome, Due, InVisit, Ambient, clock, drivers
<1>8. Reading'
  BY DEF HaveRaw, Reading
<1>9. OneVoltage'
  BY DEF HaveRaw, GatesInv, OneVoltage, drivers
<1>10. RowSoFar'
  BY <1>0 DEF HaveRaw, GatesInv, RowSoFar, Fresh, HasConc, HasWe, HasVolts, HasPut,
     HasFlag, InVisit, clock, drivers
<1>11. Filled'
  BY DEF HaveRaw, GatesInv, Filled, Column, InVisit, clock
<1> QED
  BY <1>1, <1>2, <1>3, <1>4, <1>5, <1>6, <1>7, <1>8, <1>9, <1>10, <1>11 DEF GatesInv

LEMMA HaveFlagInv == ASSUME GatesInv, HaveFlag PROVE GatesInv'
<1>0. Current = i /\ i \in Sensors /\ i \in Nat
  BY CurrentIsI
<1>f0. values' = [values EXCEPT ![i].judged = ppm[i]] /\ ppm[i] \in Readings
  BY <1>0 DEF HaveFlag, GatesInv, TypeOK
<1>f1. /\ values[i] \in [sensor : Sensors, conc : Readings, judged : Readings, amb : Ambients]
       /\ values' = [values EXCEPT ![i] = [values[i] EXCEPT !.judged = ppm[i]]]
       /\ \A k \in Sensors : k # i => values'[k] = values[k]
  BY <1>f0 DEF GatesInv, TypeOK
<1>f2. [values[i] EXCEPT !.judged = ppm[i]] \in [sensor : Sensors, conc : Readings, judged : Readings, amb : Ambients]
  BY <1>f0, <1>f1
<1>f3. values'[i] \in [sensor : Sensors, conc : Readings, judged : Readings, amb : Ambients]
      /\ values' \in [Sensors -> [sensor : Sensors, conc : Readings, judged : Readings, amb : Ambients]]
  BY <1>f1 DEF GatesInv, TypeOK
<1>1. TypeOK'
  BY <1>f3 DEF HaveFlag, GatesInv, TypeOK, Places, InCycle, InVisit, clock, list, drivers
<1>2. Uses'
  BY DEF HaveFlag, Uses
<1>3. Together'
  BY DEF HaveFlag, GatesInv, Together, InVisit, list
<1>4. Clock'
  BY DEF HaveFlag, GatesInv, Clock, InCycle, InVisit, clock
<1>5. NoneLater'
  BY DEF HaveFlag, GatesInv, NoneLater, Past, clock, drivers
<1>6. BmeOnce'
  BY DEF HaveFlag, GatesInv, BmeOnce, InVisit, clock, drivers
<1>7. ToCome'
  BY DEF HaveFlag, GatesInv, ToCome, Due, InVisit, Ambient, clock, drivers
<1>8. Reading'
  BY DEF HaveFlag, Reading
<1>9. OneVoltage'
  BY DEF HaveFlag, GatesInv, OneVoltage, drivers
<1>10. RowSoFar'
  BY <1>f1, <1>f2, Shut DEF HaveFlag, GatesInv, RowSoFar, Fresh, HasConc, HasRaw, HasWe,
     HasVolts, HasPut, HasFlag, InVisit, TypeOK, clock, drivers
<1>11. Filled'
  BY DEF HaveFlag, GatesInv, Filled, Column, InVisit, clock
<1> QED
  BY <1>1, <1>2, <1>3, <1>4, <1>5, <1>6, <1>7, <1>8, <1>9, <1>10, <1>11 DEF GatesInv

LEMMA VoltageWeInv == ASSUME GatesInv, VoltageWe PROVE GatesInv'
<1>0. Current = i /\ i \in Sensors /\ i \in Nat
  BY CurrentIsI
<1>f. /\ we' = [we EXCEPT ![i] = We(i)] /\ We(i) \in Nat /\ We(i) <= now
      /\ We(i) = we[i]
  BY <1>0, Reads, Shut DEF VoltageWe, GatesInv, RowSoFar, HasConc, Fresh, InVisit
<1>1. TypeOK'
  BY <1>0, <1>f DEF VoltageWe, GatesInv, TypeOK, Places, InCycle, InVisit, clock, list
<1>2. Uses'
  BY <1>0 DEF VoltageWe, GatesInv, Uses
<1>3. Together'
  BY DEF VoltageWe, GatesInv, Together, InVisit, list
<1>4. Clock'
  BY DEF VoltageWe, GatesInv, Clock, InCycle, InVisit, clock
<1>5. NoneLater'
  BY <1>f DEF VoltageWe, GatesInv, NoneLater, Past, clock
<1>6. BmeOnce'
  BY DEF VoltageWe, GatesInv, BmeOnce, InVisit, clock
<1>7. ToCome'
  BY <1>f DEF VoltageWe, GatesInv, ToCome, Due, InVisit, Ambient, clock
<1>8. Reading'
  BY DEF VoltageWe, Reading
<1>9. OneVoltage'
  BY DEF VoltageWe, GatesInv, OneVoltage
<1>10. RowSoFar'
  BY <1>0, Shut, Open DEF VoltageWe, GatesInv, RowSoFar, Fresh, HasConc, HasRaw, HasWe,
     HasVolts, HasPut, HasFlag, InVisit, OneVoltage, clock
<1>11. Filled'
  BY DEF VoltageWe, GatesInv, Filled, Column, InVisit, clock
<1> QED
  BY <1>1, <1>2, <1>3, <1>4, <1>5, <1>6, <1>7, <1>8, <1>9, <1>10, <1>11 DEF GatesInv

LEMMA VoltageAeInv == ASSUME GatesInv, VoltageAe PROVE GatesInv'
<1>0. Current = i /\ i \in Sensors /\ i \in Nat
  BY CurrentIsI
<1>f. /\ ae' = [ae EXCEPT ![i] = Ae(i)] /\ Ae(i) \in Nat /\ Ae(i) <= now
      /\ Ae(i) = ae[i]
  BY <1>0, Reads, Shut DEF VoltageAe, GatesInv, RowSoFar, HasConc, Fresh, Uses, InVisit
<1>1. TypeOK'
  BY <1>0, <1>f DEF VoltageAe, GatesInv, TypeOK, Places, InCycle, InVisit, clock, list
<1>2. Uses'
  BY DEF VoltageAe, GatesInv, Uses
<1>3. Together'
  BY DEF VoltageAe, GatesInv, Together, InVisit, list
<1>4. Clock'
  BY DEF VoltageAe, GatesInv, Clock, InCycle, InVisit, clock
<1>5. NoneLater'
  BY <1>f DEF VoltageAe, GatesInv, NoneLater, Past, clock
<1>6. BmeOnce'
  BY DEF VoltageAe, GatesInv, BmeOnce, InVisit, clock
<1>7. ToCome'
  BY <1>f DEF VoltageAe, GatesInv, ToCome, Due, InVisit, Ambient, clock
<1>8. Reading'
  BY DEF VoltageAe, Reading
<1>9. OneVoltage'
  BY DEF VoltageAe, GatesInv, OneVoltage
<1>10. RowSoFar'
  BY <1>0, Shut DEF VoltageAe, GatesInv, RowSoFar, Fresh, HasConc, HasRaw, HasWe, HasPut,
     HasFlag, InVisit, Uses, clock
<1>11. Filled'
  BY DEF VoltageAe, GatesInv, Filled, Column, InVisit, clock
<1> QED
  BY <1>1, <1>2, <1>3, <1>4, <1>5, <1>6, <1>7, <1>8, <1>9, <1>10, <1>11 DEF GatesInv

LEMMA PutInv == ASSUME GatesInv, Put PROVE GatesInv'
<1>0. Current = i /\ i \in Sensors /\ i \in Nat
  BY CurrentIsI
<1>f1. /\ values[i] \in [sensor : Sensors, conc : Readings, judged : Readings, amb : Ambients]
       /\ values' = [values EXCEPT ![i] = [values[i] EXCEPT !.sensor = i, !.conc = info.conc]]
       /\ \A k \in Sensors : k # i => values'[k] = values[k]
  BY <1>0 DEF Put, GatesInv, TypeOK
<1>f2. values'[i] \in [sensor : Sensors, conc : Readings, judged : Readings, amb : Ambients]
      /\ values' \in [Sensors -> [sensor : Sensors, conc : Readings, judged : Readings, amb : Ambients]]
  BY <1>f1 DEF GatesInv, TypeOK
<1>1. TypeOK'
  BY <1>f2 DEF Put, GatesInv, TypeOK, Places, InCycle, InVisit, clock, list, drivers
<1>2. Uses'
  BY DEF Put, GatesInv, Uses
<1>3. Together'
  BY DEF Put, GatesInv, Together, InVisit, list
<1>4. Clock'
  BY DEF Put, GatesInv, Clock, InCycle, InVisit, clock
<1>5. NoneLater'
  BY DEF Put, GatesInv, NoneLater, Past, clock, drivers
<1>6. BmeOnce'
  BY DEF Put, GatesInv, BmeOnce, InVisit, clock, drivers
<1>7. ToCome'
  BY DEF Put, GatesInv, ToCome, Due, InVisit, Ambient, clock, drivers
<1>8. Reading'
  BY DEF Put, Reading
<1>9. OneVoltage'
  BY DEF Put, GatesInv, OneVoltage, drivers
<1>10. RowSoFar'
  BY <1>0 DEF Put, GatesInv, RowSoFar, Fresh, HasConc, HasRaw, HasWe, HasVolts, HasFlag,
     InVisit, TypeOK, clock, drivers
<1>11. Filled'
  BY <1>f2 DEF Put, GatesInv, Filled, Column, InVisit, clock
<1> QED
  BY <1>1, <1>2, <1>3, <1>4, <1>5, <1>6, <1>7, <1>8, <1>9, <1>10, <1>11 DEF GatesInv

LEMMA FlagTempInv == ASSUME GatesInv, FlagTemp PROVE GatesInv'
<1>f0. bme' = bme /\ bme \in Nat
  BY BmeShut DEF FlagTemp, GatesInv, TypeOK, InCycle, InVisit
<1>f2. /\ values[i] \in [sensor : Sensors, conc : Readings, judged : Readings, amb : Ambients]
       /\ values' = [values EXCEPT ![i] = [values[i] EXCEPT !.amb = [values[i].amb EXCEPT !.temp = bme]]]
       /\ \A k \in Sensors : k # i => values'[k] = values[k]
  BY <1>f0 DEF FlagTemp, GatesInv, TypeOK
<1>f4. /\ values'[i].sensor = values[i].sensor /\ values'[i].conc = values[i].conc
       /\ values'[i].judged = values[i].judged /\ values'[i].amb = [values[i].amb EXCEPT !.temp = bme]
  BY <1>f2 DEF GatesInv, TypeOK
<1>f5. values'[i] \in [sensor : Sensors, conc : Readings, judged : Readings, amb : Ambients]
      /\ values' \in [Sensors -> [sensor : Sensors, conc : Readings, judged : Readings, amb : Ambients]]
  BY <1>f2 DEF GatesInv, TypeOK, Ambients
<1>1. TypeOK'
  BY <1>f0, <1>f5 DEF FlagTemp, GatesInv, TypeOK, Places, InCycle, InVisit, clock, list
<1>2. Uses'
  BY DEF FlagTemp, GatesInv, Uses
<1>3. Together'
  BY DEF FlagTemp, GatesInv, Together, InVisit, list
<1>4. Clock'
  BY DEF FlagTemp, GatesInv, Clock, InCycle, InVisit, clock
<1>5. NoneLater'
  BY <1>f0 DEF FlagTemp, GatesInv, NoneLater, Past, clock
<1>6. BmeOnce'
  BY <1>f0 DEF FlagTemp, GatesInv, BmeOnce, InVisit, clock
<1>7. ToCome'
  BY DEF FlagTemp, GatesInv, ToCome, Due, InVisit, Ambient, clock
<1>8. Reading'
  BY DEF FlagTemp, Reading
<1>9. OneVoltage'
  BY DEF FlagTemp, GatesInv, OneVoltage
<1>10. RowSoFar'
  BY <1>f0, <1>f2, <1>f4 DEF FlagTemp, GatesInv, RowSoFar, Fresh, HasConc, HasRaw, HasWe,
     HasVolts, HasPut, HasFlag, InVisit, Ambients, Uses, clock
<1>11. Filled'
  BY DEF FlagTemp, GatesInv, Filled, Column, InVisit, clock
<1> QED
  BY <1>1, <1>2, <1>3, <1>4, <1>5, <1>6, <1>7, <1>8, <1>9, <1>10, <1>11 DEF GatesInv

LEMMA FlagPreInv == ASSUME GatesInv, FlagPre PROVE GatesInv'
<1>f0. bme' = bme /\ bme \in Nat
  BY BmeShut DEF FlagPre, GatesInv, TypeOK, InCycle, InVisit
<1>f2. /\ values[i] \in [sensor : Sensors, conc : Readings, judged : Readings, amb : Ambients]
       /\ values' = [values EXCEPT ![i] = [values[i] EXCEPT !.amb = [values[i].amb EXCEPT !.pre = bme]]]
       /\ \A k \in Sensors : k # i => values'[k] = values[k]
  BY <1>f0 DEF FlagPre, GatesInv, TypeOK
<1>f4. /\ values'[i].sensor = values[i].sensor /\ values'[i].conc = values[i].conc
       /\ values'[i].judged = values[i].judged /\ values'[i].amb = [values[i].amb EXCEPT !.pre = bme]
  BY <1>f2 DEF GatesInv, TypeOK
<1>f5. values'[i] \in [sensor : Sensors, conc : Readings, judged : Readings, amb : Ambients]
      /\ values' \in [Sensors -> [sensor : Sensors, conc : Readings, judged : Readings, amb : Ambients]]
  BY <1>f2 DEF GatesInv, TypeOK, Ambients
<1>1. TypeOK'
  BY <1>f0, <1>f5 DEF FlagPre, GatesInv, TypeOK, Places, InCycle, InVisit, clock, list
<1>2. Uses'
  BY DEF FlagPre, GatesInv, Uses
<1>3. Together'
  BY DEF FlagPre, GatesInv, Together, InVisit, list
<1>4. Clock'
  BY DEF FlagPre, GatesInv, Clock, InCycle, InVisit, clock
<1>5. NoneLater'
  BY <1>f0 DEF FlagPre, GatesInv, NoneLater, Past, clock
<1>6. BmeOnce'
  BY <1>f0 DEF FlagPre, GatesInv, BmeOnce, InVisit, clock
<1>7. ToCome'
  BY DEF FlagPre, GatesInv, ToCome, Due, InVisit, Ambient, clock
<1>8. Reading'
  BY DEF FlagPre, Reading
<1>9. OneVoltage'
  BY DEF FlagPre, GatesInv, OneVoltage
<1>10. RowSoFar'
  BY <1>f0, <1>f2, <1>f4 DEF FlagPre, GatesInv, RowSoFar, Fresh, HasConc, HasRaw, HasWe,
     HasVolts, HasPut, HasFlag, InVisit, Ambients, Uses, clock
<1>11. Filled'
  BY DEF FlagPre, GatesInv, Filled, Column, InVisit, clock
<1> QED
  BY <1>1, <1>2, <1>3, <1>4, <1>5, <1>6, <1>7, <1>8, <1>9, <1>10, <1>11 DEF GatesInv

LEMMA FlagHumInv == ASSUME GatesInv, FlagHum PROVE GatesInv'
<1>f0. bme' = bme /\ bme \in Nat
  BY BmeShut DEF FlagHum, GatesInv, TypeOK, InCycle, InVisit
<1>f2. /\ values[i] \in [sensor : Sensors, conc : Readings, judged : Readings, amb : Ambients]
       /\ values' = [values EXCEPT ![i] = [values[i] EXCEPT !.amb = [values[i].amb EXCEPT !.hum = bme]]]
       /\ \A k \in Sensors : k # i => values'[k] = values[k]
  BY <1>f0 DEF FlagHum, GatesInv, TypeOK
<1>f4. /\ values'[i].sensor = values[i].sensor /\ values'[i].conc = values[i].conc
       /\ values'[i].judged = values[i].judged /\ values'[i].amb = [values[i].amb EXCEPT !.hum = bme]
  BY <1>f2 DEF GatesInv, TypeOK
<1>f5. values'[i] \in [sensor : Sensors, conc : Readings, judged : Readings, amb : Ambients]
      /\ values' \in [Sensors -> [sensor : Sensors, conc : Readings, judged : Readings, amb : Ambients]]
  BY <1>f2 DEF GatesInv, TypeOK, Ambients
<1>f6. ab = [temp |-> bme, pre |-> bme, hum |-> bme] /\ values[i].amb.temp = bme /\ values[i].amb.pre = bme
  BY DEF FlagHum, GatesInv, BmeOnce, RowSoFar, InVisit
<1>f7. values'[i].amb = ab
  BY <1>f4, <1>f5, <1>f6 DEF Ambients
<1>1. TypeOK'
  BY <1>f0, <1>f5 DEF FlagHum, GatesInv, TypeOK, Places, InCycle, InVisit, clock, list
<1>2. Uses'
  BY DEF FlagHum, Uses
<1>3. Together'
  BY DEF FlagHum, GatesInv, Together, InVisit, list
<1>4. Clock'
  BY DEF FlagHum, GatesInv, Clock, InCycle, InVisit, clock
<1>5. NoneLater'
  BY <1>f0 DEF FlagHum, GatesInv, NoneLater, Past, clock
<1>6. BmeOnce'
  BY <1>f0 DEF FlagHum, GatesInv, BmeOnce, InVisit, clock
<1>7. ToCome'
  BY DEF FlagHum, GatesInv, ToCome, Due, InVisit, Ambient, clock
<1>8. Reading'
  BY DEF FlagHum, Reading
<1>9. OneVoltage'
  BY DEF FlagHum, GatesInv, OneVoltage
<1>10. RowSoFar'
  BY <1>f0, <1>f6, <1>f7 DEF FlagHum, GatesInv, RowSoFar, Fresh, HasConc, HasRaw, HasWe,
     HasVolts, HasPut, InVisit, clock
<1>11. Filled'
  BY DEF FlagHum, GatesInv, Filled, Column, InVisit, clock
<1> QED
  BY <1>1, <1>2, <1>3, <1>4, <1>5, <1>6, <1>7, <1>8, <1>9, <1>10, <1>11 DEF GatesInv

LEMMA SendValuesInv == ASSUME GatesInv, SendValues PROVE GatesInv'
<1>1. TypeOK'
  BY DEF SendValues, GatesInv, TypeOK, Places, list, drivers, record
<1>2. Uses'
  BY DEF SendValues, Uses, TypeOK, clock
<1>3. Together'
  BY DEF SendValues, GatesInv, Together, InVisit, list
<1>4. Clock'
  BY DEF SendValues, GatesInv, Clock, InCycle, InVisit, Ambient, TypeOK, clock
<1>5. NoneLater'
  BY DEF SendValues, GatesInv, NoneLater, Past, drivers
<1>6. BmeOnce'
  BY DEF SendValues, GatesInv, BmeOnce, drivers, record
<1>7. ToCome'
  BY DEF SendValues, ToCome, InVisit, Ambient
<1>8. Reading'
  BY DEF SendValues, Reading
<1>9. OneVoltage'
  BY DEF SendValues, GatesInv, OneVoltage, drivers
<1>10. RowSoFar'
  BY DEF SendValues, RowSoFar, HasConc, HasRaw, HasWe, HasVolts, HasPut, HasFlag,
     InVisit
<1>11. Filled'
  BY DEF SendValues, Filled, InVisit
<1> QED
  BY <1>1, <1>2, <1>3, <1>4, <1>5, <1>6, <1>7, <1>8, <1>9, <1>10, <1>11 DEF GatesInv

LEMMA SampleWaitInv == ASSUME GatesInv, SampleWait PROVE GatesInv'
<1>f0. /\ pc = "sleep" /\ pc' = "temp" /\ began' = now /\ now \in Nat /\ rest \in Nat
       /\ now >= rest + Sampling
  BY DEF SampleWait, GatesInv, TypeOK
<1>f1. Past(rest) /\ bme \in Nat /\ \A k \in Sensors : we[k] \in Nat /\ ae[k] \in Nat /\ gate[k] \in Nat
  BY <1>f0 DEF GatesInv, TypeOK, NoneLater
<1>f2. AmbGap < Sampling /\ GasGap < Sampling /\ AdcGap < Sampling /\ {AmbGap, GasGap, AdcGap, Sampling} \subseteq Nat
  BY MeasureAssumption, TimingAssumption
<1>f3. now - bme > AmbGap
  BY <1>f0, <1>f1, <1>f2 DEF Past
<1>f4. \A k \in Sensors : now - gate[k] > GasGap /\ now - we[k] > AdcGap /\ now - ae[k] > AdcGap
  BY <1>f0, <1>f1, <1>f2 DEF Past
<1>1. TypeOK'
  BY DEF SampleWait, GatesInv, TypeOK, Places, InCycle, Ambient, list, drivers, record
<1>2. Uses'
  BY DEF SampleWait, Uses
<1>3. Together'
  BY DEF SampleWait, GatesInv, Together, InVisit, list
<1>4. Clock'
  BY MeasureAssumption DEF SampleWait, GatesInv, Clock, InVisit, TypeOK, drivers
<1>5. NoneLater'
  BY DEF SampleWait, GatesInv, NoneLater, Past, drivers
<1>6. BmeOnce'
  BY <1>f3 DEF SampleWait, BmeOnce, InVisit, drivers
<1>7. ToCome'
  BY <1>f4 DEF SampleWait, ToCome, Due, drivers
<1>8. Reading'
  BY DEF SampleWait, Reading
<1>9. OneVoltage'
  BY DEF SampleWait, GatesInv, OneVoltage, drivers
<1>10. RowSoFar'
  BY DEF SampleWait, RowSoFar, HasConc, HasRaw, HasWe, HasVolts, HasPut, HasFlag,
     InVisit
<1>11. Filled'
  BY DEF SampleWait, Filled, InVisit
<1> QED
  BY <1>1, <1>2, <1>3, <1>4, <1>5, <1>6, <1>7, <1>8, <1>9, <1>10, <1>11 DEF GatesInv

LEMMA TickInv == ASSUME GatesInv, Tick PROVE GatesInv'
<1>0. Current = i /\ i \in Sensors /\ i \in Nat
  BY CurrentIsI
<1>f0. now \in Nat /\ began \in Nat /\ entered \in Nat /\ rest \in Nat /\ now' = now + 1
  BY DEF Tick, GatesInv, TypeOK
<1>f1. CycleMax \in Nat /\ VisitMax \in Nat
  BY MeasureAssumption
<1>f2. /\ bme \in Nat /\ bme <= now
       /\ \A k \in Sensors : /\ we[k] \in Nat /\ ae[k] \in Nat /\ gate[k] \in Nat
                           /\ we[k] <= now /\ ae[k] <= now /\ gate[k] <= now
  BY DEF GatesInv, TypeOK, NoneLater, Past
<1>1. TypeOK'
  BY <1>0 DEF Tick, GatesInv, TypeOK, list, drivers, record
<1>2. Uses'
  BY DEF Tick, GatesInv, Uses
<1>3. Together'
  BY DEF Tick, GatesInv, Together, list
<1>4. Clock'
  BY <1>f0, <1>f1 DEF Tick, GatesInv, Clock
<1>5. NoneLater'
  BY <1>f0, <1>f2 DEF Tick, GatesInv, NoneLater, Past, clock, drivers
<1>6. BmeOnce'
  BY DEF Tick, GatesInv, BmeOnce, drivers, record
<1>7. ToCome'
  BY DEF Tick, GatesInv, ToCome, Due, drivers
<1>8. Reading'
  BY DEF Tick, GatesInv, Reading, Due, drivers
<1>9. OneVoltage'
  BY DEF Tick, GatesInv, OneVoltage, drivers
<1>10. RowSoFar'
  BY <1>f2 DEF Tick, GatesInv, RowSoFar, Fresh, HasConc, HasRaw, HasWe, HasVolts, HasPut,
     HasFlag, drivers, record
<1>11. Filled'
  BY DEF Tick, GatesInv, Filled, Column, record
<1> QED
  BY <1>1, <1>2, <1>3, <1>4, <1>5, <1>6, <1>7, <1>8, <1>9, <1>10, <1>11 DEF GatesInv

LEMMA StutterInv == ASSUME GatesInv, UNCHANGED vars PROVE GatesInv'
BY DEF GatesInv, vars, clock, list, drivers, record, TypeOK, Uses, Together, Clock,
   NoneLater, Past, BmeOnce, ToCome, Due, Reading, OneVoltage, RowSoFar, Fresh,
   HasConc, HasRaw, HasWe, HasVolts, HasPut, HasFlag, Filled, Column

-----------------------------------------------------------------------------
(* The list and the loop variable move together.                           *)

LEMMA InsertInv == ASSUME GatesInv, Insert PROVE GatesInv'
<1>a. N \in Nat /\ N >= 1
  BY MeasureAssumption
<1>b. Len(items) = N /\ items # <<>>
  <2>1. items \in [1 .. N -> 1 .. N] /\ DOMAIN items = 1 .. N
    BY DEF GatesInv, TypeOK
  <2>2. items \in Seq(1 .. N)
    BY <1>a, <2>1
  <2>3. Len(items) = N
    BY <1>a, <2>1
  <2> QED
    BY <1>a, <2>3
<1>c. pos = i /\ i \in Sensors /\ i \in Nat /\ pc = "insert"
  BY DEF GatesInv, TypeOK, Together, Insert
<1>d. /\ UNCHANGED items
      /\ pos' = IF i = N THEN 1 ELSE i + 1
      /\ i' = IF i = N THEN 1 ELSE i + 1
      /\ pc' = IF i = N THEN "values" ELSE "visit"
  BY <1>b, <1>c DEF Insert, R!Advance
<1>e. UNCHANGED <<clock, use, drivers, record>>
  BY DEF Insert
\* The turn that ends has filled column i.
<1>f. Column(i)
  <2>1. /\ values[i].sensor = i /\ values[i].conc = ppm[i]
        /\ Fresh(i) /\ ab.temp = bme
    BY <1>c DEF GatesInv, RowSoFar, HasPut, HasVolts, HasWe, HasRaw, HasConc, BmeOnce,
       InVisit
  <2>2. began <= entered /\ began \in Nat /\ entered \in Nat /\ we[i] \in Nat /\ ae[i] \in Nat
    BY <1>c DEF GatesInv, TypeOK, Clock, InVisit
  <2> QED
    BY <2>1, <2>2 DEF Column, Fresh
<1>1. TypeOK'
  <2>1. i' \in Sensors /\ pos' \in Sensors /\ pc' \in Places
    BY <1>a, <1>c, <1>d DEF Places, InCycle
  <2> QED
    BY <1>d, <1>e, <2>1 DEF GatesInv, TypeOK, clock, drivers, record
<1>2. Uses'
  BY <1>d DEF Uses
<1>3. Together'
  BY <1>d DEF Together
<1>4. Clock'
  BY <1>c, <1>e DEF GatesInv, Clock, InCycle, InVisit, clock
<1>5. NoneLater'
  BY <1>d, <1>e DEF GatesInv, NoneLater, Past, clock, drivers
<1>6. BmeOnce'
  BY <1>c, <1>d, <1>e DEF GatesInv, BmeOnce, InVisit, clock, drivers, record
<1>7. ToCome'
  BY <1>c, <1>d, <1>e DEF GatesInv, ToCome, Due, InVisit, Ambient, clock, drivers
<1>8. Reading' /\ RowSoFar'
  BY <1>d DEF Reading, RowSoFar, HasConc, HasRaw, HasWe, HasVolts, HasPut, HasFlag,
     InVisit
<1>9. OneVoltage'
  BY <1>e DEF GatesInv, OneVoltage, drivers
<1>10. Filled'
  <2> SUFFICES ASSUME NEW k \in Sensors, (pc' = "visit" /\ k < i') \/ pc' = "values"
               PROVE  Column(k)'
    BY <1>d DEF Filled
  <2>1. k = i \/ k < i
    BY <1>c, <1>d
  <2>2. Column(k)
    BY <1>c, <1>f, <2>1 DEF GatesInv, Filled, InVisit
  <2> QED
    BY <2>2, <1>e DEF Column, clock, record
<1> QED
  BY <1>1, <1>2, <1>3, <1>4, <1>5, <1>6, <1>7, <1>8, <1>9, <1>10 DEF GatesInv

-----------------------------------------------------------------------------

LEMMA InitInv == Init => GatesInv
<1> SUFFICES ASSUME Init PROVE GatesInv
  OBVIOUS
<1>a. N \in Nat /\ 1 \in Sensors /\ Start \in Nat
  BY MeasureAssumption
<1>1. NoReadings \in Readings /\ ab \in Ambients
  BY DEF Init, NoReadings, Readings, Ambients
<1>2. TypeOK
  BY <1>a, <1>1 DEF Init, TypeOK, Places, InCycle, Ambient
<1>3. Uses /\ Together /\ Reading /\ RowSoFar
  BY DEF Init, Uses, Together, Reading, RowSoFar, HasConc, HasRaw, HasWe, HasVolts,
     HasPut, HasFlag
<1>4. Clock
  BY MeasureAssumption DEF Init, Clock
<1>5. NoneLater
  BY <1>a DEF Init, NoneLater, Past
<1>6. AmbGap < Start /\ GasGap < Start /\ AdcGap < Start
  BY TimingAssumption
<1>7. BmeOnce /\ ToCome
  BY <1>6, MeasureAssumption DEF Init, BmeOnce, ToCome, Due, InVisit
<1>8. OneVoltage
  BY DEF Init, OneVoltage, NoReadings
<1>9. Filled
  BY DEF Init, Filled
<1> QED
  BY <1>2, <1>3, <1>4, <1>5, <1>7, <1>8, <1>9 DEF GatesInv

LEMMA StepInv == GatesInv /\ [Next]_vars => GatesInv'
<1> SUFFICES ASSUME GatesInv, [Next]_vars PROVE GatesInv'
  OBVIOUS
<1>1. CASE AmbientTemp \/ AmbientPre \/ AmbientHum
  BY <1>1, AmbientTempInv, AmbientPreInv, AmbientHumInv
<1>2. CASE Visit \/ Concentration \/ ConcentrationTemp \/ ConcentrationWe \/ ConcentrationAe
  BY <1>2, VisitInv, ConcentrationInv, ConcentrationTempInv, ConcentrationWeInv,
     ConcentrationAeInv
<1>3. CASE HaveCorrected \/ HaveRaw \/ HaveFlag
  BY <1>3, HaveCorrectedInv, HaveRawInv, HaveFlagInv
<1>4. CASE VoltageWe \/ VoltageAe \/ Put
  BY <1>4, VoltageWeInv, VoltageAeInv, PutInv
<1>5. CASE FlagTemp \/ FlagPre \/ FlagHum \/ Insert
  BY <1>5, FlagTempInv, FlagPreInv, FlagHumInv, InsertInv
<1>6. CASE SendValues \/ SampleWait \/ Tick
  BY <1>6, SendValuesInv, SampleWaitInv, TickInv
<1>7. CASE UNCHANGED vars
  BY <1>7, StutterInv
<1> QED
  BY <1>1, <1>2, <1>3, <1>4, <1>5, <1>6, <1>7 DEF Next, Main

(***************************************************************************)
(* The inductive invariant holds, for every number of sensors and every    *)
(* timing that keeps the assumptions.                                      *)
(***************************************************************************)
THEOREM InvariantHolds == Spec => []GatesInv
  BY InitInv, StepInv, PTL DEF Spec

(***************************************************************************)
(* Every variable of the measuring cycle keeps its type, for every number  *)
(* of sensors and every timing.                                            *)
(***************************************************************************)
THEOREM TypeCorrect == Spec => []TypeOK
<1>1. GatesInv => TypeOK
  BY DEF GatesInv
<1> QED
  BY <1>1, InvariantHolds, PTL

(***************************************************************************)
(* Temperature, pressure and humidity of a row are of one reading.         *)
(***************************************************************************)
THEOREM OneAmbientReading == Spec => []AmbientIsWhole
<1>1. GatesInv => AmbientIsWhole
  BY DEF GatesInv, TypeOK, BmeOnce, AmbientIsWhole, Places, InCycle
<1> QED
  BY <1>1, InvariantHolds, PTL

(***************************************************************************)
(* The stored voltages are those the stored concentrations come from.      *)
(***************************************************************************)
THEOREM VoltagesBelong == Spec => []VoltagesOfConcentration
<1>1. GatesInv => VoltagesOfConcentration
  <2> SUFFICES ASSUME GatesInv, pc = "insert"
               PROVE  /\ info.we = info.conc.we /\ info.ae = info.conc.ae
                      /\ info.sensor \in Alphasense => info.raw = info.conc
    BY DEF VoltagesOfConcentration
  <2> QED
    BY DEF GatesInv, RowSoFar, HasVolts, HasWe, HasRaw, HasConc, InVisit
<1> QED
  BY <1>1, InvariantHolds, PTL

(***************************************************************************)
(* The flag of a row judges what stands in the row.                        *)
(***************************************************************************)
THEOREM FlagBelongsToRow == Spec => []FlagJudgesTheRow
<1>1. GatesInv => FlagJudgesTheRow
  <2> SUFFICES ASSUME GatesInv, pc = "insert"
               PROVE  values[i].judged = values[i].conc /\ values[i].amb = ab
    BY DEF FlagJudgesTheRow
  <2>1. use = "flag"
    BY DEF GatesInv, Uses
  <2> QED
    BY <2>1 DEF GatesInv, RowSoFar, HasPut, HasVolts, HasWe, HasRaw, HasConc, HasFlag,
       InVisit
<1> QED
  BY <1>1, InvariantHolds, PTL

(***************************************************************************)
(* What is stored and sent was measured in this turn of the loop.          *)
(***************************************************************************)
THEOREM RowIsFresh == Spec => []RowIsOfThisCycle
<1>1. GatesInv => RowIsOfThisCycle
  BY DEF GatesInv, Filled, Column, BmeOnce, RowIsOfThisCycle
<1> QED
  BY <1>1, InvariantHolds, PTL

(***************************************************************************)
(* Column k of the row is of the k-th sensor.                              *)
(***************************************************************************)
THEOREM ColumnsKeepOrder == Spec => []ColumnsInOrder
<1>1. GatesInv => ColumnsInOrder
  BY DEF GatesInv, Filled, Column, ColumnsInOrder
<1> QED
  BY <1>1, InvariantHolds, PTL

=============================================================================
