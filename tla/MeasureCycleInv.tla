--------------------------- MODULE MeasureCycleInv ---------------------------
(***************************************************************************)
(* The inductive invariant of MeasureCycle, checked by TLC before it is    *)
(* proved (MeasureCycleProofs).                                            *)
(***************************************************************************)
EXTENDS MeasureCycle

\* How far the turn of sensor i has come.
HasConc  == \/ pc \in {"we", "ae", "put", "flag_temp", "flag_pre", "flag_hum", "insert"}
            \/ pc \in InVisit /\ use # "corrected"
HasRaw   == HasConc /\ ~(pc \in {"conc", "have"} /\ use = "raw")
HasWe    == HasRaw /\ pc # "we"
HasVolts == HasWe /\ pc # "ae"
HasPut   == HasVolts /\ pc # "put"
HasFlag  == pc \in InVisit /\ use = "flag"

\* The calls of getConcentration, and the way each kind of sensor takes.
Uses ==
    /\ pc \in {"conc_temp", "conc_ae"} => use = "corrected" /\ i \in Alphasense
    /\ pc = "conc_we" => (use = "corrected" \/ (use = "flag" /\ i \notin Alphasense))
    /\ pc \in {"conc", "have"} => (use = "raw" => i \in Alphasense)
    /\ pc \in {"we", "put", "flag_temp", "flag_pre", "flag_hum"}
         => use = IF i \in Alphasense THEN "raw" ELSE "corrected"
    /\ pc = "ae" => use = "raw" /\ i \in Alphasense
    /\ pc = "insert" => use = "flag"

\* Main's loop variable and the cursor of the list.
Together == pos = i /\ (pc \notin InVisit \cup {"visit"} => i = 1)

\* The clock, and what a turn and a cycle may have taken so far.
Clock ==
    /\ began <= now /\ rest <= now
    /\ pc \in InCycle => now - began <= CycleMax
    /\ pc \in InVisit => began <= entered /\ entered <= now
                         /\ now - entered <= VisitMax

\* No reading is of the future; in the pause, none is later than its beginning.
Past(t) ==
    /\ bme <= t
    /\ \A k \in Sensors : we[k] <= t /\ ae[k] <= t /\ gate[k] <= t
NoneLater == Past(now) /\ (pc = "sleep" => Past(rest))

\* The ambient sensor is read once per cycle, by the first to ask.
BmeOnce ==
    /\ pc = "temp" => began - bme > AmbGap
    /\ pc \in {"pre", "hum"} => bme >= began /\ ab.temp = bme
    /\ pc = "hum" => ab.pre = bme
    /\ pc \in InVisit \cup {"visit", "values"} =>
          bme >= began /\ ab = [temp |-> bme, pre |-> bme, hum |-> bme]
    /\ pc = "sleep" => ab.temp = ab.pre /\ ab.temp = ab.hum

\* Sensors whose turn has yet to come are due in every respect.
Due(k) == began - gate[k] > GasGap /\ began - we[k] > AdcGap /\ began - ae[k] > AdcGap
ToCome == \A k \in Sensors :
    \/ pc \in Ambient
    \/ pc = "visit" /\ k >= i
    \/ pc \in InVisit /\ k > i
    => Due(k)

\* The first getConcentration of the turn: what is read, and what is still due.
Reading ==
    pc \in {"conc", "conc_temp", "conc_we", "conc_ae", "have"} /\ use = "corrected" =>
        /\ pc = "conc" => Due(i)
        /\ pc \in {"conc_temp", "conc_we"} => began - we[i] > AdcGap
        /\ pc \in {"conc_temp", "conc_we", "conc_ae"} => began - ae[i] > AdcGap
        /\ pc # "conc" /\ i \in Alphasense => gate[i] >= entered
        /\ pc \in {"conc_we", "conc_ae", "have"} /\ i \in Alphasense => ppm[i].temp = bme
        /\ pc \in {"conc_ae", "have"} => we[i] >= entered /\ ppm[i].we = we[i]
        /\ pc = "have" /\ i \in Alphasense => ae[i] >= entered /\ ppm[i].ae = ae[i]

\* An Aeroqual sensor computes from one voltage.
OneVoltage == \A k \in Sensors \ Alphasense : ppm[k].temp = 0 /\ ppm[k].ae = 0

\* Read in this turn, and the concentration computed from just that.
Fresh(k) ==
    /\ we[k] >= entered /\ ppm[k].we = we[k]
    /\ k \in Alphasense => /\ gate[k] >= entered /\ ae[k] >= entered
                           /\ ppm[k].temp = bme /\ ppm[k].ae = ae[k]

\* What this turn has put into the row of its sensor.
RowSoFar ==
    /\ pc \in InVisit => info.sensor = i
    /\ HasConc => Fresh(i) /\ info.conc = ppm[i]
    /\ HasRaw /\ i \in Alphasense => info.raw = ppm[i]
    /\ HasWe => info.we = ppm[i].we
    /\ HasVolts => info.ae = ppm[i].ae
    /\ HasPut => values[i].sensor = i /\ values[i].conc = ppm[i]
    /\ pc \in {"flag_pre", "flag_hum"} => values[i].amb.temp = bme
    /\ pc = "flag_hum" => values[i].amb.pre = bme
    /\ HasFlag => values[i].amb = ab
    /\ pc = "insert" => values[i].judged = ppm[i]

\* The columns filled in this cycle.
Column(k) ==
    /\ values[k].sensor = k
    /\ values[k].conc.we >= began
    /\ k \in Alphasense => values[k].conc.ae >= began /\ values[k].conc.temp = ab.temp
Filled == \A k \in Sensors :
    (pc \in InVisit \cup {"visit"} /\ k < i) \/ pc = "values" => Column(k)

(***************************************************************************)
(* The inductive invariant: within a cycle every gate opens at most once,  *)
(* at the first call that asks; between two cycles all of them open again. *)
(***************************************************************************)
GatesInv ==
    /\ TypeOK
    /\ Uses /\ Together /\ Clock /\ NoneLater /\ BmeOnce /\ ToCome
    /\ Reading /\ OneVoltage /\ RowSoFar /\ Filled

=============================================================================
