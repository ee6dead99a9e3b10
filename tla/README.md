# Formal verification of emca

emca is the program of an air-quality station. A Raspberry Pi reads a BME280
(temperature, pressure, humidity), three Alphasense electrochemical sensors and
an Aeroqual ozone sensor through MCP3424 converters, flags every value, stores
the values in a MariaDB database and sends them every cycle as one LoRa uplink
through a USB stick. The program is one sequential process under systemd
(`release/emca.service`, `Restart=always`, `RestartSec=60`).

This directory holds TLA+ models of the program in `src/`, the TLC runs that
check them and proofs that TLAPS checks. Paths below are relative to `src/`.

## 1. Inventory

| Component | State | Operations | Speaks to |
|---|---|---|---|
| Main program, `src/main.cpp` | settings in memory, `_errorCounter`, loop variables, the row of the cycle | start-up, configuration loop, restore wait, measuring loop, saving | all others |
| LoRa client and serial port, `clientModel.cpp`, `serial.cpp` | the open port; kernel buffers both ways | `openSerial`, `sendTP` .. `sendFC`, `sendSP`, all through `sendAndWaitOK` | the USB stick, by text commands answered with `OK` |
| Persisted settings, `cfgSettings.cpp` | the config file (settings, `frameCounter`, `latestMeasure`) | `getSettings`, `writeFrameCounter` | the file system |
| Database connector, `sqlConnector.cpp` | connection, statement | `connect`, two inserts | MariaDB |
| MCP3424 driver, `MCP3424.cpp` | register, read buffer, error counter, descriptor, last voltage | `setConfigValues`, `setChannel`, `readVoltage`, `getVoltage` | I2C bus |
| Gas sensors, `AlphasenseSensor.cpp`, `aeroqualSM50.cpp`, `include/sen/*.h` | last concentrations, time gate | `getConcentration` | ADCs, ambient sensor |
| BME280 driver, `bme280.cpp` | last values, calibration, time gate | three getters | I2C bus |
| Flag manager, `flagManager.cpp` | operating conditions, one shared static | `getFlag` | its gas sensor, the ambient sensor |
| Circular list, `CircularList.cpp` | linked nodes, cursor | `addNode`, `next`, `deleteAll`, `getLength`, `getCurrentData` | owns the flag managers |
| Log, vendored `include/plog` | the files, their number, the size of the one that is open | `write`, `rollLogFiles`, `openLogFile` | the file system |
| Build, install and release files, manual tests | - | - | scripts; only the service unit is used |

### What is hard, and what makes each part correct

* **Command exchange.** `sendAndWaitOK` writes a command, flushes the port both
  ways (`tcflush(TCIOFLUSH)`), sleeps two seconds and looks for `OK` in whatever
  has arrived. Commands carry no number: an answer that comes after the two
  seconds could be taken for the answer to the next command. Correct means that
  an `OK` answers the command just sent and that nothing older is still under
  way behind it.
* **Life of the process.** Eight configuration commands in a chain that starts
  over after any failure, error limits that end the process, restarts, crashes
  and power losses between any two steps, a file that is truncated before it is
  rewritten. Correct means that the loop only runs with a fully configured
  stick, that the persisted frame counter never runs ahead of the uplinks aired,
  that a dead stick ends the process and that uplinks resume when all is well.
* **Values of one cycle.** Every value of a row is asked for several times, by
  main, by the gas sensors and by the flag managers, while the clock runs and
  each driver decides by its own time gate whether to read again. Correct means
  that a row is of one piece: one ambient reading, voltages that belong to the
  concentrations, a flag that judged what is in the row, nothing from the cycle
  before.
* **Settings.** Some settings must be there, others are looked up with a function
  whose result nobody reads; one string is shared by all entries; the memory
  they are put into is never initialised. Correct means that what the station
  measures with is what the operator wrote, and that it is known exactly when not.
* **Values.** Tables indexed by a computed column, quotients without a test of the
  divisor, a sensor told by its name, conversions to unsigned bytes, an ambient
  sensor that is read while it converts over a bus nobody checks. Correct means
  that whatever is flagged valid was computed from the right things and arrives.
* **Log.** Files are renamed one over the other, no result is looked at, and the
  process may die in between. Correct means that the recent records are there
  and that the files stay small.
* **ADC reading.** Every operation on the bus may fail. Correct means bounded
  retries, descriptors accounted for, no old value passed off as new, and a
  register without bits of earlier settings.
* **List.** `do .. while` loops that end only on a well-formed circle. Correct
  means it is one, no node is leaked or left dangling, every call ends.
* **Flags.** A chain of conditions over three verdicts, one of them depending on
  a function-local static. Correct means that valid is said exactly of values
  that keep the limits of their own gas, and that it is known what a NaN is said to be.

The hazards, each at its line with the properties that would catch it, are
listed in `PROJECT.json`.

## 2. Modules

An arrow reads "is used by".

```
LoraLink ------> Station ------> StationInv ---> StationProofs
                    |
                    v
                 MCStation

Ring ----------> MeasureCycle -> MeasureCycleInv -> MeasureCycleProofs
   |
   v
CircularList --> CircularListProofs

Floats --> Settings ------+
  |-> Compensation -------+
  |-> Payload ------------+-> Measurement ---> MCMeasurement
  |-> FlagManager --------+       |
        |         Bme280 -+       v
        v                   MeasurementProofs
  MCFlagManager, FlagManagerProofs

Mcp3424Codec -> Mcp3424Registers -> MCMcp3424Registers
                       |
                       v
                Mcp3424RegistersProofs
Mcp3424 ------> Mcp3424Proofs
RollingLog ---> RollingLogProofs
```

**`LoraLink`** is the serial line alone: `Write`, `Flush`, `Read` (`Accept` or
`Reject`) are the steps of `sendAndWaitOK`; `outq` and `inq` the kernel's
buffers, `rx` what the stick has received. The stick and the line are external.
`env` says how they behave: `calm` (in time), `rough` (commands and answers lost
or late), `deaf`. A request remembers whether it is the client's latest (`cur`).
The client is anyone who keeps the rule `Send`: no command while an exchange is
in flight.

**`Station`** is `main.cpp` from start to end of the process, over `LoraLink`,
with the parts of `cfgSettings.cpp`, `clientModel.cpp` and `sqlConnector.cpp`
that decide what main does next. `pc` names the place in main. `file` is the
config file reduced to whether it is complete, its `frameCounter`, and whether
`latestMeasure` is recent. Environment actions are the line, crashes, power
losses, the database server stopping and coming back, and time passing. That
`Station` implements `LoraLink` - main keeps the rule `Send` - is the property
`KeepsLinkRule`. `StationInv` states its inductive invariant.

**`MeasureCycle`** is one level below `Station`'s `MeasureGas`: the measuring loop
with every call that can reach a sensor. A reading is known by the second it was
made in (the driver's `_lastTime`), a concentration by the readings it was
computed from, a column of the row by the concentration it holds and the one its
flag judged. A failed ADC reading is 0 V of that second; it is a reading like
any other here and `Mcp3424`'s business otherwise. The two calls of `time` in
`isTime` are one instant. The list is `Ring`. `MeasureCycleInv` states the
inductive invariant.

**`Floats`** is what a C float may be: numbers (integers, as fine as the properties
need them), the two infinities and NaN, with the comparisons and the arithmetic
IEEE 754 gives them. A float never read from the file is any of them.

**`FlagManager`** is `getFlag` with its three checks, over several managers that
share `zRanges`. Concentrations and limits are floats: a NaN passes every test.

**`Mcp3424Codec`** (register bits, decoding) is run by **`Mcp3424Registers`** (any
order of configurations, channels and readings); **`Mcp3424`** is one reading over
a failing bus, step by step.

**`Ring`** is what the list promises, **`CircularList`** the pointers, with a step
per turn of each loop and `new` returning any free address; `ImplementsRing` is
the refinement.

**`Measurement`** is what the values *are*, where `MeasureCycle` is when they were
measured: from the configuration file to the twelve bytes on the air, one action
per step of main. It is composed of

* **`Settings`**, `getSettings` entry by entry. An entry says which of the settings
  read with `lookupValue` it gives with their right types; the others keep what
  the memory held (`Junk`), which may be a NaN or an infinity as well. The start-up
  date goes through the string all entries share; a string that is no date is
  `mktime` of the fields `strptime` found in it before it stopped (`MkTime`).
  `SettingsSpec` is the loading by itself, and `Measurement` implements it
  (`LoadsSettings`);
* **`Bme280`**, a reading while the chip converts: the calibration, the mode write
  and the three words, each of which may succeed or fail whatever the others do
  (a block of transfers wholly, in part or not at all). A mode write that fails
  starts no conversion, and the driver goes on to read what the registers hold.
  A word stands for the value it is converted to; the history `of` says which
  conversion it is of, `missed` how many mode writes in a row have failed. When
  some transfers fail and others do not, the values computed are any;
* **`Compensation`**, the index into the table of factors and the four algorithms,
  over floats; the algorithm's number is narrowed to a char, and what lies behind
  the table is any float;
* **`Payload`**, the conversions into the bytes of an uplink and a receiver that
  decodes them by the comments of `byte_payload`;
* **`FlagManager`**, instantiated for the decisions.

A process may end at every step and starts again with another file, other junk
and the same chip. Voltages are those the ADC driver returns.

**`RollingLog`** is plog's rolling file appender as main sets it up, one action per
file operation. A record is a number, and a file the sequence of records in it;
every unlink, rename, open and write may fail, and the process may die and be
started again between any two of them.

Definitions marked *Mutation of X* are variants with a plausible bug; they are
not part of any specification and show that the properties notice it.

## 3. Runs

| Run | Shows | Bounds |
|---|---|---|
| `station` | `OkAnswersThisCommand`, `OkMeansQuiet`, `StickReady`, `CountedWasAired`, `LostRowsStayLost`, `KeepsLinkRule`, the invariant `ExchangeInv`; under fairness `DeadStickExits`, `ResumesUplinks`, both for `Restore < ByteMod` | counter of 3 values, 1 retry, 1 failed uplink allowed, restore of 2 s in a byte of 4 values; any number in flight |
| `restore_wait` | **violated**: the wait before the first measurement ends | the shipped `restore = 1800` and the real 8-bit counter |
| `measure_cycle` | `AmbientIsWhole`, `VoltagesOfConcentration`, `FlagJudgesTheRow`, `RowIsOfThisCycle`, `ColumnsInOrder`, and `GatesInv` | one sensor of each kind, gates of 4, 3 and 2 s, turns of up to 2 s, cycles of up to 4 s, a pause of 5 s, 17 s in all |
| `flags` | `ValidIffFit`, `FlagSaysWhy`, which together leave no room for NULL | two managers; conditions with and without NaN limits; readings below, on and above every limit, NaN and the infinities; the clock at 0 and 1 |
| `flags_zero` | **violated**: VZ only close to zero by the gas's own range | as `flags` |
| `mcp_registers` | `RegisterMatchesSettings`, `DecodesTwosComplement16` | valid and invalid settings, bytes 0, 1, 127, 128, 255 |
| `mcp_sign` | **violated**: 18-bit readings decode to two's complement | as `mcp_registers` |
| `mcp_reading` | `DescriptorsAccounted`, `OldOnlyAfterFailedRead`, `ReadingEnds` | 3 writes, 4 polls, 3 errors, 4 descriptors |
| `circular_list` | `Circular`, `NodesOwned`, `LengthIsCount`, `ImplementsRing`, `CallsEnd` | 4 addresses, 4 items |
| `measurement` | `StartupOfNearestText`, `LoadedOrJunk`, `AgedByMissedWrites`, `DeadSensorIsTold`, `ValidFromOwnRow`, `NaNFromZeroDivisor`, `InfoExplainsItself`, `ValidIsSentWhole` | seven files, three memories, one of them of NaNs, three temperatures, two voltages, 3 ambient readings; bytes of 8 bits |
| `pressure` | **violated**: the pressure arrives in hPa | as `measurement` |
| `log` | `RecentKept`, `GrowthBounded`, `OldestGoFirst`, and `FilesInv` | files of 2 entries, 3 files, 8 records, 3 starts |

Why the bounds are enough to be telling: a frame counter of 2 to 4 values wraps
within a run and still tells an old from a new one; an error limit of 1 has a
first failure, a last allowed one and the one too many; a list of four nodes has
a head, a tail, a middle and a node under the cursor; the gates of
`measure_cycle` are in the order of the real ones (60, 60 and 5 s against turns
of at most 5 s, cycles of at most 60 s and a pause of 120 s) and 17 seconds hold
more than a whole cycle and the next. The files of `measurement` are the shipped
one, careless and short variants of it - dates that are missing, no string or no
date, settings that are missing, offsets that divide by zero, wide limits,
a sensor of type O3 - and the kinds that cannot be loaded; the temperatures lie
within the table and behind it; three readings hold two mode writes missed in a row
and the conversion before them. In `log` eight records roll three times, so that a
record passes through all three files and out of them, and three starts hold a crash
in a roll and one in the next. The theorems of section 4 hold without these bounds.

`CHECK_DEADLOCK FALSE` stands in `MeasureCycle.cfg` because the model's clock
stops at `MaxTime` with main in its pause, and in `Mcp3424.cfg` because a model
that holds `MaxOpens` descriptors, or whose process has exited, does nothing more.

### Fairness

`Station!FairSpec` asks that the process goes on when it can (it is a process
on an otherwise idle machine and every call in it is bounded), that systemd
restarts it, that the port transmits what it holds, and that the stick disposes
of what it received (it need not answer). It asks nothing of crashes, of the
weather on the line or of the database; both liveness properties are conditional
on `env` and, for `ResumesUplinks`, on the database being there and the file not
left torn (`TornFileIsForGood` proves what becomes of the station when it is).

Both also have the premise `Restore < ByteMod`, that the restore time fits the byte
it is counted in. **The shipped configuration does not meet it** (1800 seconds, a
byte of 256 values): there the restore wait ends only with the process, so a process
whose stick dies in it never ends by itself, and no uplink is ever delivered by a
fresh station. That is what `restore_wait` finds and `RestoreIsForever` and
`FirstStartNeverMeasures` prove; the two liveness properties say what the program
does with a restore time of up to 255 seconds.
 `Mcp3424!FairSpec` and `CircularList`'s ask only that the program runs;
the chip owes nothing.

### Environment assumptions

* The pauses of main (15 s after a failed configuration, the sampling pause, the
  60 s before a restart) are longer than an exchange in flight: `Retry`,
  `GiveUpConfig`, `SampleWait` and `Restart` wait for `Drained`. Without it an
  answer could be late by more than a pause and nothing in the code would tell.
* The stick shares the station's power supply and keeps its frame counter only
  while powered.
* `MeasureCycle`: the clock does not go back, a sensor's turn takes at most as
  long as the shortest gate (5 s) and a cycle at most as long as the ambient gate
  (60 s), `sampling` is above 60 (the shipped value is 120). A reading takes
  milliseconds; what could break this is a database that answers slowly. No
  Alphasense sensor is of type O3, the name main tells the Aeroqual sensor by.
* `Bme280`: a conversion, of some milliseconds, has ended before the next reading,
  a minute later, begins. The chip keeps its supply; what its registers hold at
  power-up is the conversion number 0.
* `Floats`: a number is an integer of the unit at hand and has no greatest one, so
  that rounding and the overflow of a finite result to infinity are left out.
* `Settings`: no file lists more sensors or ADCs than `projectCfg` has room for.
* `Payload`: a float that an unsigned type cannot hold is converted to any of the
  results of the processors the program is built for: modulo the width, zero, or
  stopped at the nearest value.
* `Settings`: `mktime` is external; any function of the fields found (`MkTime`).
* `RollingLog`: a record is written whole or not at all, and what was written
  survives the process (not a power loss).

## 4. Proofs

`tlapm` checks all theorems to the last leaf. Every safety property of the passing
runs is proved for all values of the constants. Beyond them

* the **safety half of each liveness property** is proved: a *variant*, a natural
  number that every step of the program lessens and that nothing else adds to, so
  that only the fairness of the scheduler is left to TLC. The variants are
  `Patience` (`DeadStickExits`), `Way` (`ResumesUplinks`), `Left` (`ReadingEnds`) and the
  pair `Rounds`, `Turns` (`CallsEnd`);
* each **violated** property has a theorem that says exactly what the code does
  instead, for all constants: `RestoreIsForever` and `FirstStartNeverMeasures`
  (`restore_wait`), `LongReadingsWrap` (`mcp_sign`), `ZeroRangeIsOnes` and
  `ZeroIsFirstSensors` (`flags_zero`), `PressureLosesTwoDigits` (`pressure`).

By module:

* **The link alone**, in `StationProofs` - `LinkTypeCorrect`, `OneAtATime`, `OkIsForThisCommand`,
  `OkLeavesQuiet`: for every size of the counter. `OkAnswersThisCommand` is not
  inductive; the strengthening is `OneExchange`: because `Send` waits for an empty
  line and the flush empties both buffers, everything on the line while the client
  waits belongs to one exchange.
* **`StationProofs`** - `TypeCorrect`, `InvariantHolds`, `LoopNeedsReadyStick`
  (`StickReady`), `PersistedCountWasAired` (`CountedWasAired`), `LossIsForGood`
  (`LostRowsStayLost`) and `StationKeepsLinkRule` (the refinement of `LoraLink`), for
  every counter size, restore time and limit. The invariant, `ExchangeInv`, says that
  only pauses leave an exchange in flight (`Quiet`), that all of a waiting exchange is the
  present command (`OneRequest`, `Flushed`), that each acknowledged parameter is in
  the stick (`Given`), and that every counter anybody holds - file, memory, stick
  or a command on the line - is one below which all was aired (`AiredBelow`,
  `StickAhead`). `OkMeansPerformed` is the point of the whole exchange: an OK names no
  command, yet what main does on it - the next parameter, the next counter - rests
  on something the stick has done (`HeardMeans`). `LossIsForGood` speaks of rows lost
  for want of a connection; a row the server refuses for itself (`excecuteQuery`
  catches every SQL exception) is lost alone and the next may be stored.
  `TornFileIsForGood`: a start on a torn config file fails, and so does every later one.
* **The process's own counters**, in `StationProofs`. `CountersStayFit`: between two
  resets `_errorCounter` never passes the limit of the loop it counts for.
  `RestoreIsForever` and `FirstStartNeverMeasures` have the hypothesis
  `Restore >= ByteMod`, which the shipped file meets (1800 and 256): the wait is then
  left by the death of the process only, and since the short wait needs a
  measurement of an earlier process, no process ever measures.
* **The variants of the station**, in `StationProofs`, both from the hypothesis
  `Restore < ByteMod`, without which the theorems above say the contrary.
  `DeadStickWearsOut`: while the
  stick is dead, no OK appears (`Deaf`), a round of either loop costs fewer than 14
  steps and leaves the error counter one higher, so that `Patience` - rounds left,
  place in the round, stage of the exchange - falls with every step until the
  process is down. `WellStationNears`: while line, stick and database are well, two
  things may still go wrong, once each: the exchange that began in worse times
  (`Sure` says it will succeed), and a process that began without the database and
  has a NULL statement (`Blind`). Each costs a `Detour` longer than a whole life of
  the process; `Way` is the `Leg` to the next save and the detours still possible.
* **`MeasureCycleProofs`** - `InvariantHolds`, `TypeCorrect` and the five properties of
  a row, for every number of sensors, every choice of Alphasense sensors and every
  timing within the assumptions. The argument: at the beginning of a cycle every
  gate is due (`ToCome`, `BmeOnce`), because the pause is longer than every gate and
  no reading is later than its beginning (`NoneLater`); the first call of a turn
  reads (`Reading`); after it the gate is shut for the rest of the turn, because
  a turn is no longer than a gate (`Clock`), so all later calls return the same
  reading (`RowSoFar`), which the columns then hold (`Filled`). Four lemmas
  (`BmeShut`, `Shut`, `Open`, `Reads`) state this of the gates; each action has a
  lemma of its own.
* **`MeasurementProofs`** - `LoadsSettings` (`Measurement` implements `SettingsSpec`)
  and all nine invariants of the run `measurement`, for any files, memories, air,
  voltages, factors, limits and width of a byte. Four invariants carry them:
  `SettingsInv` (while entries are read, `_tmpStr` is the string of the latest entry
  with one, `TextAtHand`, and every sensor not yet read still has what the memory
  held, `FromMemory`); `BmeInv` (between readings the registers are as many readings
  old as mode writes were missed, `Resting`; the words of a reading are of its own
  conversion or of what the registers held before it, `UnderWay`);
  `RowInv` (each cell of the row was computed and judged with the settings and the
  air that are *still* there, since both only change while the row is blank); and
  `SentInv` (the bytes are a conversion of the row that is still there). The rest
  is arithmetic: the steps of the loop over the table leave no gap and a column
  within a row does not leave it (`IndexWithinRow`, `RowOfPosition`); numbers stay
  numbers as long as none is divided by zero (`NumbersClosed`), so that a NaN needs
  a zero divisor, a setting that is none of a data sheet, as the memory may hold
  for one the file lacks, or a factor that is none of the table (`NaNNeedsZero`);
  limits that are kept and keep within a range keep the value in it (`KeepsWithin`);
  a word is the sum of its two bytes (`Bytes`).
  `ValidAirIsSentWhole` adds the air to what arrives, and that of the pressure only
  the hundreds do. `ZeroIsFirstSensors` needs an invariant over the life of the
  process (`ZeroInv`): the static is set by the first call of `getFlag`, which is the
  first sensor's, and every flag of every later row was decided by it.
  `TypeCorrect` and `ValidArrivesWhole` have the hypothesis `BehindIsFloat`, that
  whatever lies behind the table of factors is some float, NaN included: a statement
  about every place in memory, which TLC could not evaluate as an `ASSUME`.
* **`CircularListProofs`** - `InvariantHolds`, `ListIsCircular`, `NodesAreOwned`,
  `LengthIsRight`, `RefinesRing`, for every set of addresses and data. The
  invariant relates the links to the history of additions: the successor of each
  node is the next in that order and the last one's the head, and each loop's
  variable stands on a node of it. `EachTurnIsNearer`: the place of that variable in
  the order is what makes a loop end.
* **`FlagManagerProofs`** - `FlagsTyped` (a flag is always returned, never NULL),
  `ValidMeansFit` and `InvalidSaysWhy`, for all conditions and readings, each of
  them any float: valid is said of values that keep the limits as far as they can be
  told apart from them, and a NaN, of the value or of the limit, cannot. They follow
  from each call by itself; that the shared `zRanges` cannot make an unfit value
  valid is the point of the proof. What they can do is proved as well:
  `ZeroRangeIsOnes` (one gas's range decides VZ for all, for good) and
  `SameRangesSameZero` (no harm while all gases have the same ranges, its hypothesis;
  those of the shipped file differ).
* **`Mcp3424Proofs`** - `TypeCorrect`, `DescriptorsAreClosed`, `OldNeedsFailedRead`, for
  every number of retries, polls and errors. Types and the account of the
  descriptors are one invariant: which descriptor is closed depends on where the
  reading stands. `CountersStayFit` and `EachStepShortens`: tries are only counted
  down, and the general error counter stops one past its limit.
* **`Mcp3424RegistersProofs`** - `RegisterIsRight`, for all settings and bytes and any
  order of calls. The register is the set of its bits and is followed field by
  field: writing two bits puts the code there (`FieldWritten`) and leaves the other
  fields alone (`FieldKept`), so that after `generateConfig` each of the four fields is
  the code of its setting, whatever it held before. `ValidatedOnce`: a configuration validated twice is the
  one validated once. `ShortReadingsDecode` and `LongReadingsWrap` compare the
  decoding with two's complement: at 12, 14 and 16 bits the bit tested is the sign,
  at 18 it is a bit above the word, and exactly the negative readings are wrong, each
  by 2^18.
* **`RollingLogProofs`** - `InvariantHolds`, `RecentIsKept`, `OldestFirst`,
  `GrowthIsBounded`, for every size of file, number of records and number of starts.
  The invariant: entries are in order within each file and over all of them
  (`InOrder`); an open file has the size the appender counts (`SizeKnown`); during a
  roll the file that was full is there, under its old number or its new one
  (`FullAtHand`), which is the file `RecentKept` speaks of when another is lost; what
  is in the way of a rename is there because a call has failed (`InTheWay`), so that
  two failures are needed to lose a record that is not the oldest. Growth needs a
  strengthening of its own: between the test and the write there is room for one
  record more (`Room`).

The assumptions are the ASSUMEs of the modules: types and positivity of the
parameters, for `MeasureCycle` the timing above, and what section 3 says of the
environment.

Only model-checked: that the variants' steps are in fact taken, which makes
`DeadStickExits`, `ResumesUplinks`, `ReadingEnds` and `CallsEnd` of them; it is about
fairness and ENABLED, which the prover does not reach.

## 5. What the runs found

Contradictions between the code and what its own comments and documents say:

* `restore = 1800` is never reached by the `uint8_t` that counts to it
  (`main.cpp:133`): the first start never measures (`restore_wait`).
* The 18-bit sign is tested one bit too high (`MCP3424.cpp:117`): negative voltages
  come out large and positive (`mcp_sign`).
* The close-to-zero range belongs to the first gas asked (`flagManager.cpp:77`,
  `flags_zero`). The branch for the flag IF (`flagManager.cpp:42`) is behind one that
  has already answered IC: by `FlagSaysWhy`, a theorem, a sensor past its life is
  IC whatever its concentration, and IF is never given.
* The pressure is divided by 100 in the driver and again in the payload
  (`clientModel.cpp:20`): 900 hPa arrive as 9 (`pressure`).

More contradictions, for which a property of a passing run states what the code does
instead and a theorem proves it:

* `bme280.cpp:151` calls the mode it writes to the BME280 `mode normal`. 0x25 is the
  forced mode: one conversion for each write, and the registers are read at once.
  The ambient values are mostly those of the turn before, and older still after
  mode writes that failed, which nobody notices (`AgedByMissedWrites`).
* `AlphasenseSensor.cpp:59`, `if is out of range`, and line 66, `default from zero`:
  the `||` of the test lets every temperature in and the default is never taken.
  Outside -35 to 55 degrees the factor is the first of another row of the table,
  or whatever is behind it; a gas whose limits allow such temperatures has it in
  valid values (`ValidFromOwnRow` says where not).
* `main.cpp:38`, `1MB file size`, and plog's `maxFileSize - the maximum log file size
  in bytes` (`include/plog/README.md:159`): the size is tested before a record is
  written, so a file exceeds the limit by up to one record, and by one more for
  each start on a full file and each failed rename (`GrowthBounded`).

Other behaviours, on which the documents are silent, stated as what does hold:

* After an uplink whose `OK` was late the persisted frame counter is behind the
  stick's and the next start uses a counter again: `CountedWasAired` only says that
  it never runs ahead.
* After one broken database connection no row is saved until the process
  restarts (`LostRowsStayLost`). Over a good connection a single row may be refused
  (`sqlConnector.cpp:59-70`), with a line in the log and nothing else.
* A config file torn by a crash while it is rewritten ends every start from then on
  (`TornFileIsForGood`).
* A dead bus reads as 0 degrees, 0 hPa, 0 per cent, and only the limits tell
  (`DeadSensorIsTold`).
* A setting of another type, 1 for 1.0, is neither reported nor defaulted
  (`LoadedOrJunk`), and a missing start-up date is the one of the entry before
  (`StartupOfNearestText`; the shipped file has such an entry).
* A NaN passes every comparison of the flag manager, as a concentration or as a
  limit, and is flagged VA (`ValidIffFit`, `NaNFromZeroDivisor`), and goes out as zero.
* A start-up date that is no date is a time all the same, `mktime` of whatever fields
  were found in it; only the log tells (`StartupOfNearestText`).
* A number of an algorithm is cut to its lowest byte: 258 is algorithm 2.
* An Alphasense sensor of type O3 is taken for the Aeroqual one, and the voltage of
  its auxiliary electrode is stored as that of the working one
  (`InfoExplainsItself`, `main.cpp:155`).

## 6. Not modelled, and the plan

What the components' status "partly" leaves out:

* **Log**: severities (plog is set to pass every record), the text of a record, a
  write that stops half way, a power loss that loses the tail of a file, the other
  appenders, the Windows branches. The appender's mutex is never contended.
* **Settings**: `printSettings`, which is never called; a configuration with more
  sensors or ADCs than `projectCfg` holds, which is written past its arrays and
  whose effects have no bounded set of outcomes.
* **LoRa client**: the port's termios settings and the 100-byte buffer of an answer.
* **ADC driver**: the scaling of a code to volts.
* **BME280**: the arithmetic of the data sheet, which has no control flow, and
  `getAltitude`, which is never called.
* **Database connector**: the text of the statements.
* Scripts, schema and manual test programs.

What could still be added, by use:

1. `MeasureCycle` with a slow database and with a clock that is set: which of the
   five properties survive without `TimingAssumption`, and `MeasureCycle` as an
   implementation of `Station`'s measuring loop.
2. A reading (`Mcp3424`) composed with the register of `Mcp3424Registers`: that a
   failed write leaves the chip with the settings of the channel before.
3. `Settings` over the file `Station` leaves behind: `writeFrameCounter` as a
   read-change-write of the file `getSettings` reads, entry by entry.
