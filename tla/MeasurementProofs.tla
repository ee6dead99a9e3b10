------------------------- MODULE MeasurementProofs -------------------------
(***************************************************************************)
(* Proofs about Measurement: for any configuration files, any air, any     *)
(* voltages and any number of conversions.  What only concerns the loading *)
(* of the settings is proved of SettingsSpec, which Measurement implements.*)
(***************************************************************************)
EXTENDS Measurement, TLAPS

-----------------------------------------------------------------------------
(* Floats.                                                                 *)

LEMMA FloatValue == ASSUME NEW x \in Floats PROVE x.value \in Int
BY DEF Floats, Numbers, Infinities, NaN

LEMMA FloatCases ==
    ASSUME NEW x \in Floats
    PROVE  \/ \E n \in Int : x = Number(n)
           \/ x = Infinity(1) \/ x = Infinity(-1) \/ x = NaN
<1>1. CASE x \in Numbers
  <2>1. x = Number(x.value) /\ x.value \in Int
    BY <1>1 DEF Numbers, Number
  <2> QED
    BY <2>1
<1>2. CASE x \in Infinities
  BY <1>2 DEF Infinities, Infinity
<1> QED
  BY <1>1, <1>2 DEF Floats

\* Numbers stay numbers as long as none is divided by zero.
LEMMA NumbersClosed ==
    ASSUME NEW x \in Numbers, NEW y \in Numbers
    PROVE  /\ Plus(x, y) \in Numbers /\ Minus(x, y) \in Numbers /\ Times(x, y) \in Numbers
           /\ y # Number(0) => Quotient(x, y) \in Numbers
<1>1. PICK m, n \in Int : x = Number(m) /\ y = Number(n)
  <2>1. x = Number(x.value) /\ y = Number(y.value) /\ x.value \in Int /\ y.value \in Int
    BY DEF Numbers, Number
  <2> QED
    BY <2>1
<1>2. \A k \in Int : Number(k) \in Numbers
  BY DEF Number, Numbers
<1>3. IsNumber(x) /\ IsNumber(y) /\ ~IsInfinite(x) /\ ~IsInfinite(y)
      /\ x.value = m /\ y.value = n
  BY <1>1 DEF IsNumber, IsInfinite, Number
<1>4. Plus(x, y) = Number(m + n) /\ Times(x, y) = Number(m * n)
  BY <1>3 DEF Plus, Times
<1>5. Minus(x, y) = Number(m + -n)
  <2>1. Negated(y) = Number(-n)
    BY <1>1 DEF Negated, Number
  <2>2. IsNumber(Negated(y)) /\ ~IsInfinite(Negated(y)) /\ Negated(y).value = -n
    BY <2>1 DEF IsNumber, IsInfinite, Number
  <2> QED
    BY <1>3, <2>2 DEF Minus, Plus
<1>6. ASSUME y # Number(0) PROVE Quotient(x, y) \in Numbers
  <2>1. n # 0
    BY <1>1, <1>6
  <2>2. Quotient(x, y) = Number(RoundedDown(m, n))
    BY <1>3, <1>6, <2>1 DEF Quotient
  <2>3. RoundedDown(m, n) \in Int
    <3>1. n > 0 => m \div n \in Int
      OBVIOUS
    <3>2. n < 0 => (-m) \div (-n) \in Int
      OBVIOUS
    <3> QED
      BY <2>1, <3>1, <3>2 DEF RoundedDown
  <2> QED
    BY <1>2, <2>2, <2>3
<1>7. m + n \in Int /\ m * n \in Int /\ m + -n \in Int
  OBVIOUS
<1> QED
  BY <1>2, <1>4, <1>5, <1>6, <1>7

\* The arithmetic never leaves the floats.
LEMMA FloatsClosed ==
    ASSUME NEW x \in Floats, NEW y \in Floats
    PROVE  Plus(x, y) \in Floats /\ Minus(x, y) \in Floats
           /\ Times(x, y) \in Floats /\ Quotient(x, y) \in Floats
<1>1. ASSUME NEW z \in Floats PROVE Negated(z) \in Floats
  BY DEF Negated, Floats, Numbers, Infinities, NaN
<1>2. ASSUME NEW z \in Floats PROVE Plus(x, z) \in Floats
  <2>1. CASE IsNumber(x) /\ IsNumber(z)
    <3>1. x.value + z.value \in Int
      BY FloatValue
    <3> QED
      BY <2>1, <3>1 DEF Plus, Number, Floats, Numbers
  <2>2. CASE ~(IsNumber(x) /\ IsNumber(z))
    BY <2>2 DEF Plus, Floats
  <2> QED
    BY <2>1, <2>2
<1>3. x.value \in Int /\ y.value \in Int /\ x.value * y.value \in Int
  BY FloatValue
<1>4. Times(x, y) \in Floats
  <2>1. \A n \in Int : Number(n) \in Floats /\ (n # 0 => Infinity(Sign(n)) \in Floats)
    BY DEF Number, Infinity, Sign, Floats, Numbers, Infinities
  <2>2. NaN \in Floats
    BY DEF Floats
  <2> DEFINE p == x.value * y.value
  <2>3. Times(x, y) \in {Number(p), NaN} \/ (p # 0 /\ Times(x, y) = Infinity(Sign(p)))
    BY DEF Times
  <2> HIDE DEF p
  <2> QED
    BY <1>3, <2>1, <2>2, <2>3 DEF p
<1>5. Quotient(x, y) \in Floats
  <2>1. CASE x \in Numbers /\ y \in Numbers /\ y # Number(0)
    BY <2>1, NumbersClosed DEF Floats
  <2>2. CASE x \in Numbers /\ y = Number(0)
    BY <1>3, <2>2 DEF Quotient, IsNumber, IsInfinite, Number, Infinity, Sign, NaN, Floats,
       Numbers, Infinities
  <2>3. CASE x \notin Numbers \/ y \notin Numbers
    <3>1. IsNumber(x) => x \in Numbers
      BY DEF IsNumber, Floats, Infinities, NaN
    <3>2. IsNumber(y) => y \in Numbers
      BY DEF IsNumber, Floats, Infinities, NaN
    <3>3. Number(0) \in Numbers /\ NaN \in Floats
      BY DEF Number, Numbers, Floats
    <3>4. Quotient(x, y) \in {Number(0), NaN, Negated(x), x}
      BY <2>3, <3>1, <3>2, <3>3 DEF Quotient
    <3> QED
      BY <1>1, <3>3, <3>4 DEF Floats
  <2> QED
    BY <2>1, <2>2, <2>3
<1> QED
  BY <1>1, <1>2, <1>4, <1>5 DEF Minus

\* What is found neither below nor above limits that keep within a range is a
\* number of that range, or NaN.
LEMMA KeepsWithin ==
    ASSUME NEW x \in Floats, x # NaN, NEW limits \in Limits, NEW low \in Int, NEW high \in Int,
           Within(limits, low, high), ~Less(x, limits[1]), ~Less(limits[2], x)
    PROVE  \E n \in low .. high : x = Number(n)
<1>1. limits[1] \in Floats /\ limits[2] \in Floats
  BY DEF Limits
<1> USE DEF Less, AtMost, Within, IsNumber, Number, Infinity, NaN
<1>2. \/ limits[1] = Infinity(1)
      \/ \E a \in Int : limits[1] = Number(a) /\ low <= a
  BY <1>1, FloatCases
<1>3. \/ limits[2] = Infinity(-1)
      \/ \E b \in Int : limits[2] = Number(b) /\ b <= high
  BY <1>1, FloatCases
<1>4. x # Infinity(1) /\ x # Infinity(-1)
  BY <1>2, <1>3
<1>5. PICK n \in Int : x = Number(n)
  BY <1>4, FloatCases
<1>6. low <= n
  <2>1. PICK a \in Int : limits[1] = Number(a) /\ low <= a
    BY <1>2, <1>5
  <2> QED
    BY <1>5, <2>1
<1>7. n <= high
  <2>1. PICK b \in Int : limits[2] = Number(b) /\ b <= high
    BY <1>3, <1>5
  <2> QED
    BY <1>5, <2>1
<1> QED
  BY <1>5, <1>6, <1>7

\* The flag manager's floats are the same.
LEMMA FlagFloats ==
    ASSUME NEW x, NEW y
    PROVE  /\ Flag!Less(x, y) <=> Less(x, y)
           /\ Flag!Number(x) = Number(x)
           /\ Flag!Twentieths(x) = Times(Number(20), x)
<1>1. Flag!Number(x) = Number(x) /\ Flag!Number(20) = Number(20)
  BY DEF Flag!Number, Number
<1>2. Flag!Less(x, y) <=> Less(x, y)
  BY DEF Flag!Less, Less, Flag!NaN, NaN, Flag!IsNumber, IsNumber, Flag!Infinity, Infinity
<1>3. Flag!Twentieths(x) = Times(Number(20), x)
  BY DEF Flag!Twentieths, Flag!Times, Times, Flag!Number, Number, Flag!IsNumber, IsNumber,
     Flag!IsInfinite, IsInfinite, Flag!Infinity, Infinity, Flag!Sign, Sign, Flag!NaN, NaN
<1> QED
  BY <1>1, <1>2, <1>3

\* Twentieths keep the order.
LEMMA TwentiethsOrdered ==
    ASSUME NEW x \in Floats, NEW y \in Floats
    PROVE  Less(Times(Number(20), x), Times(Number(20), y)) <=> Less(x, y)
<1>1. ASSUME NEW n \in Int PROVE Times(Number(20), Number(n)) = Number(20 * n)
  BY DEF Times, Number, IsNumber, IsInfinite
<1>2. /\ Times(Number(20), Infinity(1)) = Infinity(1)
      /\ Times(Number(20), Infinity(-1)) = Infinity(-1)
      /\ Times(Number(20), NaN) = NaN
  BY DEF Times, Number, Infinity, NaN, IsNumber, IsInfinite, Sign
<1>3. \A m, n \in Int : Less(Number(m), Number(n)) <=> m < n
  BY DEF Less, Number, Infinity, NaN, IsNumber
<1>4. \A m \in Int : /\ Less(Number(m), Infinity(1)) /\ ~Less(Number(m), Infinity(-1))
                     /\ Less(Infinity(-1), Number(m)) /\ ~Less(Infinity(1), Number(m))
  BY DEF Less, Number, Infinity, NaN, IsNumber
<1>5. /\ Less(Infinity(-1), Infinity(1)) /\ ~Less(Infinity(1), Infinity(-1))
      /\ ~Less(Infinity(1), Infinity(1)) /\ ~Less(Infinity(-1), Infinity(-1))
  BY DEF Less, Infinity, NaN, IsNumber
<1>6. \A z : ~Less(NaN, z) /\ ~Less(z, NaN)
  BY DEF Less
<1>7. CASE x = NaN \/ y = NaN
  BY <1>2, <1>6, <1>7
<1>8. ASSUME NEW m \in Int, x = Number(m), NEW n \in Int, y = Number(n)
      PROVE  Less(Times(Number(20), x), Times(Number(20), y)) <=> Less(x, y)
  <2>1. 20 * m \in Int /\ 20 * n \in Int /\ (20 * m < 20 * n <=> m < n)
    OBVIOUS
  <2> QED
    BY <1>1, <1>3, <1>8, <2>1
<1>9. ASSUME NEW m \in Int, x = Number(m) \/ y = Number(m),
             {x, y} \cap {Infinity(1), Infinity(-1)} # {}
      PROVE  Less(Times(Number(20), x), Times(Number(20), y)) <=> Less(x, y)
  <2>1. 20 * m \in Int
    OBVIOUS
  <2> QED
    BY <1>1, <1>2, <1>4, <1>5, <1>9, <2>1
<1>10. CASE x \in {Infinity(1), Infinity(-1)} /\ y \in {Infinity(1), Infinity(-1)}
  BY <1>2, <1>5, <1>10
<1> QED
  BY <1>7, <1>8, <1>9, <1>10, FloatCases

-----------------------------------------------------------------------------
(* The settings.                                                           *)

Entry(i) == file.alphasense[i]

\* The entries with a string among those already read.
Texted == {j \in ReadSoFar : Entry(j).startup # <<>>}

\* While entries are read, _tmpStr is the string of the latest one that has one.
TextAtHand ==
    stage \in {"read", "entries"} =>
        /\ Texted = {} => tmpStr = Empty
        /\ \A j \in Texted :
             (\A k \in Texted : k <= j) => tmpStr = Head(Entry(j).startup)

\* How far getSettings has come.
Progress ==
    /\ stage = "read" => next = 1
    /\ stage \in {"entries", "loaded"} => file.readable /\ file.whole
    /\ stage = "loaded" => next = Len(file.alphasense) + 1 /\ file.aeroqual.whole
    /\ next <= Len(file.alphasense) + 1
    /\ \A i \in ReadSoFar : Entry(i).whole

\* What sensor i's settings are when the memory held j.
Given(i, j) ==
    IF i < next
    THEN /\ mem[i].adcs = 1 .. Entry(i).adcs
         /\ mem[i].operation = Entry(i).operation
         /\ \A n \in Looked :
              mem[i].features[n] = IF n \in Entry(i).given THEN Entry(i).features[n]
                                   ELSE j.features[n]
    ELSE mem[i].features = j.features /\ mem[i].operation = j.operation

FromMemory == \E j \in Junk : \A i \in Alphasense : Given(i, j)

SettingsInv ==
    SettingsTypeOK /\ Progress /\ TextAtHand /\ FromMemory /\ StartupOfNearestText

LEMMA EntriesTyped ==
    ASSUME SettingsTypeOK
    PROVE  /\ file.alphasense \in Seq(Entries) /\ file.aeroqual \in Entries
           /\ Len(file.alphasense) \in 0 .. 3
           /\ \A i \in 1 .. Len(file.alphasense) : Entry(i) \in Entries /\ Entry(i).adcs <= 2
<1>1. file \in ConfigFiles /\ file \in Files
  BY SettingsAssumption DEF SettingsTypeOK
<1>2. file.alphasense \in Seq(Entries) /\ file.aeroqual \in Entries
  BY <1>1 DEF ConfigFiles
<1>3. Len(file.alphasense) <= 3
      /\ \A i \in 1 .. Len(file.alphasense) : Entry(i).adcs <= 2
  BY <1>1, SettingsAssumption DEF Entry
<1>4. Len(file.alphasense) \in Nat
      /\ \A i \in 1 .. Len(file.alphasense) : file.alphasense[i] \in Entries
  BY <1>2
<1>5. Len(file.alphasense) \in 0 .. 3
  <2>1. \A n \in Nat : n <= 3 => n \in 0 .. 3
    OBVIOUS
  <2> QED
    BY <1>3, <1>4, <2>1, Zenon
<1>6. \A i \in 1 .. Len(file.alphasense) : Entry(i) \in Entries /\ Entry(i).adcs <= 2
  BY <1>3, <1>4 DEF Entry
<1> QED
  BY <1>2, <1>5, <1>6

\* A text that an entry gives, and the one that is used, are texts.
LEMMA TextTyped ==
    ASSUME SettingsTypeOK, NEW e \in Entries
    PROVE  NextText(e) \in Texts
<1>1. e.startup \in Seq(Texts) /\ tmpStr \in Texts
  BY DEF Entries, SettingsTypeOK
<1>2. e.startup # <<>> => Head(e.startup) \in Texts
  BY <1>1
<1> QED
  BY <1>1, <1>2 DEF NextText

LEMMA TimeTyped == ASSUME NEW x \in Texts PROVE StrToTime(x) \in Int
BY SettingsAssumption DEF StrToTime

\* One entry: what becomes of the memory of its sensor.
LEMMA LoadedMemory ==
    ASSUME SettingsTypeOK, Progress, LoadEntry
    PROVE  /\ next \in Alphasense /\ Entry(next) \in Entries /\ Entry(next).whole
           /\ tmpStr' = NextText(Entry(next)) /\ tmpStr' \in Texts
           /\ mem' \in [Sensors -> Memory]
           /\ mem'[next].features = LookUp(mem[next].features, Entry(next))
           /\ mem'[next].adcs = 1 .. Entry(next).adcs
           /\ mem'[next].startup = StrToTime(tmpStr')
           /\ mem'[next].operation = Entry(next).operation
           /\ \A i \in Sensors \ {next} : mem'[i] = mem[i]
<1> DEFINE e == Entry(next)
           new == [features |-> LookUp(mem[next].features, e), adcs |-> 1 .. e.adcs,
                   startup |-> StrToTime(tmpStr'), operation |-> e.operation]
<1>1. next \in 1 .. Len(file.alphasense) /\ next \in Alphasense
  BY EntriesTyped DEF LoadEntry, SettingsTypeOK, Alphasense
<1>2. e \in Entries /\ e.adcs <= 2 /\ e.adcs \in Nat /\ e.whole
  <2>1. e \in Entries /\ e.adcs <= 2
    BY <1>1, EntriesTyped
  <2>2. e.adcs \in Nat
    BY <2>1 DEF Entries
  <2> QED
    BY <2>1, <2>2 DEF LoadEntry, Entry
<1>3. tmpStr' = NextText(e) /\ tmpStr' \in Texts
  BY <1>2, TextTyped DEF LoadEntry, Entry
<1>4. mem \in [Sensors -> Memory] /\ next \in Sensors
  BY <1>1 DEF SettingsTypeOK, Sensors
<1>5. mem' = [mem EXCEPT ![next] = new]
  BY <1>4 DEF LoadEntry, Entry
<1>6. new \in Memory
  <2>1. mem[next].features \in Features
    BY <1>4 DEF Memory
  <2>2. e.features \in Features /\ e.operation \in Operation
    BY <1>2 DEF Entries
  <2>3. LookUp(mem[next].features, e) \in Features
    BY <2>1, <2>2 DEF LookUp, Features
  <2>4. 1 .. e.adcs \in SUBSET Adcs
    BY <1>2 DEF Adcs
  <2>5. StrToTime(tmpStr') \in Int
    BY <1>3, TimeTyped
  <2> QED
    BY <2>2, <2>3, <2>4, <2>5 DEF Memory
<1>7. mem' \in [Sensors -> Memory] /\ mem'[next] = new
      /\ \A i \in Sensors \ {next} : mem'[i] = mem[i]
  BY <1>4, <1>5, <1>6
<1> QED
  BY <1>1, <1>2, <1>3, <1>7

\* The last entry.
LEMMA LoadedOzone ==
    ASSUME SettingsTypeOK, LoadAeroqual
    PROVE  /\ tmpStr' = NextText(file.aeroqual) /\ tmpStr' \in Texts
           /\ mem' \in [Sensors -> Memory]
           /\ mem'[Aeroqual].startup = StrToTime(tmpStr')
           /\ \A i \in Alphasense : mem'[i] = mem[i]
<1> DEFINE e == file.aeroqual
           new == [mem[Aeroqual] EXCEPT !.adcs = {1}, !.startup = StrToTime(tmpStr'),
                                        !.operation = e.operation]
<1>1. e \in Entries
  BY EntriesTyped
<1>2. tmpStr' = NextText(e) /\ tmpStr' \in Texts
  BY <1>1, TextTyped DEF LoadAeroqual
<1>3. mem \in [Sensors -> Memory] /\ Aeroqual \in Sensors /\ Aeroqual \notin Alphasense
  BY DEF SettingsTypeOK, Sensors, Aeroqual, Alphasense
<1>4. mem' = [mem EXCEPT ![Aeroqual] = new]
  BY <1>3 DEF LoadAeroqual
<1>5. new \in Memory /\ new.startup = StrToTime(tmpStr')
  <2>1. e.operation \in Operation
    BY <1>1 DEF Entries
  <2>2. mem[Aeroqual] \in Memory /\ {1} \in SUBSET Adcs /\ StrToTime(tmpStr') \in Int
    BY <1>2, <1>3, TimeTyped DEF Adcs
  <2> QED
    BY <2>1, <2>2 DEF Memory
<1>6. mem' \in [Sensors -> Memory] /\ mem'[Aeroqual] = new
      /\ \A i \in Sensors \ {Aeroqual} : mem'[i] = mem[i]
  BY <1>3, <1>4, <1>5
<1> QED
  BY <1>2, <1>3, <1>5, <1>6 DEF Sensors

-----------------------------------------------------------------------------
(* Each step of getSettings keeps SettingsInv.                             *)

LEMMA FreshSettings == ASSUME SettingsInit PROVE SettingsInv
<1> USE DEF SettingsInit
<1>1. PICK j \in Junk : mem = [i \in Sensors |-> [j EXCEPT !.adcs = {}]]
  BY DEF SettingsInit
<1>2. j \in Memory /\ {} \in SUBSET Adcs
  BY SettingsAssumption
<1>3. [j EXCEPT !.adcs = {}] \in Memory /\ [j EXCEPT !.adcs = {}].features = j.features
      /\ [j EXCEPT !.adcs = {}].operation = j.operation
  BY <1>2 DEF Memory
<1>4. SettingsTypeOK
  <2>1. tmpStr \in Texts
    BY SettingsAssumption
  <2> DEFINE m == [j EXCEPT !.adcs = {}]
  <2>2. mem = [i \in Sensors |-> m] /\ m \in Memory
    BY <1>1, <1>3
  <2> HIDE DEF m
  <2>3. mem \in [Sensors -> Memory]
    BY <2>2
  <2>4. stage \in {"read", "entries", "loaded", "exit"} /\ file \in Files /\ next \in 1 .. 4
    OBVIOUS
  <2> QED
    BY <2>1, <2>3, <2>4 DEF SettingsTypeOK
<1>5. ReadSoFar = {} /\ Read = {} /\ Texted = {}
  BY DEF ReadSoFar, Read, Texted
<1>6. Progress
  BY <1>4, <1>5, EntriesTyped DEF Progress
<1>7. TextAtHand /\ StartupOfNearestText
  BY <1>5 DEF TextAtHand, StartupOfNearestText
<1>8. FromMemory
  <2>1. ASSUME NEW i \in Alphasense PROVE Given(i, j)
    <3>1. i \in Sensors /\ ~(i < next)
      BY DEF Sensors, Alphasense
    <3>2. mem[i] = [j EXCEPT !.adcs = {}]
      BY <1>1, <3>1
    <3> QED
      BY <1>3, <3>1, <3>2 DEF Given
  <2> QED
    BY <2>1 DEF FromMemory
<1> QED
  BY <1>4, <1>6, <1>7, <1>8 DEF SettingsInv

\* A process that is started again begins like the first one.
LEMMA ReloadedSettings == Reload => SettingsInv'
<1>1. Reload => SettingsInit'
  BY DEF Reload, SettingsInit
<1>2. SettingsInit => SettingsInv
  BY FreshSettings
<1> QED
  BY <1>1, <1>2, PTL

\* Only the place in the code changes: the start, and the end of a process.
LEMMA StageOnly ==
    ASSUME SettingsInv, UNCHANGED <<file, next, tmpStr, mem>>,
           ReadFile \/ Exit
    PROVE  SettingsInv'
<1> USE DEF SettingsInv
<1>1. SettingsTypeOK'
  BY DEF SettingsTypeOK, ReadFile, Exit
<1>2. Progress'
  BY DEF Progress, ReadFile, Exit, ReadSoFar, Entry
<1>3. TextAtHand'
  BY DEF TextAtHand, ReadFile, Exit, Texted, ReadSoFar, Entry
<1>4. FromMemory'
  BY DEF FromMemory, Given, Entry
<1>5. StartupOfNearestText'
  <2>1. next \in 1 .. 4 /\ ReadSoFar' = ReadSoFar /\ Read' = ReadSoFar
    BY DEF Read, ReadFile, Exit, ReadSoFar, SettingsTypeOK
  <2>2. ReadSoFar \subseteq Read
    BY DEF Read
  <2>3. ASSUME NEW i \in ReadSoFar
        PROVE  WithText(i)' = WithText(i)
    BY <2>1 DEF WithText, Read, ReadSoFar, EntryOf, Aeroqual
  <2> QED
    BY <2>1, <2>2, <2>3 DEF StartupOfNearestText, EntryOf
<1> QED
  BY <1>1, <1>2, <1>3, <1>4, <1>5

LEMMA EntryStep == ASSUME SettingsInv, LoadEntry PROVE SettingsInv'
<1> USE DEF SettingsInv
<1>1. /\ next \in Alphasense /\ Entry(next) \in Entries /\ Entry(next).whole
      /\ tmpStr' = NextText(Entry(next)) /\ tmpStr' \in Texts
      /\ mem' \in [Sensors -> Memory]
      /\ mem'[next].features = LookUp(mem[next].features, Entry(next))
      /\ mem'[next].adcs = 1 .. Entry(next).adcs
      /\ mem'[next].startup = StrToTime(tmpStr')
      /\ mem'[next].operation = Entry(next).operation
      /\ \A i \in Sensors \ {next} : mem'[i] = mem[i]
  BY LoadedMemory
<1>2. /\ stage = "entries" /\ stage' = "entries" /\ file' = file /\ next' = next + 1
      /\ next \in 1 .. 3 /\ next <= Len(file.alphasense) /\ Len(file.alphasense) \in 0 .. 3
      /\ \A i : Entry(i)' = Entry(i)
  BY <1>1, EntriesTyped DEF LoadEntry, Alphasense, Entry
<1>3. ReadSoFar' = ReadSoFar \cup {next} /\ Read = ReadSoFar /\ Read' = ReadSoFar'
      /\ \A i \in ReadSoFar : i < next /\ i \in 1 .. 3
  BY <1>2 DEF ReadSoFar, Read
<1>4. SettingsTypeOK'
  BY <1>1, <1>2 DEF SettingsTypeOK
<1>5. Progress'
  BY <1>1, <1>2, <1>3 DEF Progress
<1>6. FromMemory'
  <2>1. PICK j \in Junk : \A i \in Alphasense : Given(i, j)
    BY DEF FromMemory
  <2>2. ASSUME NEW i \in Alphasense PROVE Given(i, j)'
    <3>1. CASE i = next
      <4>1. mem[next].features = j.features
        BY <1>1, <1>2, <2>1 DEF Given
      <4>2. \A n \in Looked : mem'[i].features[n] =
              IF n \in Entry(i).given THEN Entry(i).features[n] ELSE j.features[n]
        BY <1>1, <3>1, <4>1 DEF LookUp
      <4> QED
        BY <1>1, <1>2, <3>1, <4>2 DEF Given
    <3>2. CASE i # next
      <4>1. i \in Sensors /\ (i < next + 1 <=> i < next)
        BY <1>2, <3>2 DEF Alphasense, Sensors
      <4>2. Given(i, j) /\ mem'[i] = mem[i]
        BY <1>1, <2>1, <3>2, <4>1
      <4> QED
        BY <1>2, <4>1, <4>2 DEF Given
    <3> QED
      BY <3>1, <3>2
  <2> QED
    BY <2>2 DEF FromMemory
<1>7. TextAtHand'
  <2>1. Texted' = Texted \cup (IF Entry(next).startup # <<>> THEN {next} ELSE {})
    BY <1>2, <1>3 DEF Texted
  <2>2. CASE Entry(next).startup # <<>>
    <3>1. \A k \in Texted' : next \in Texted' /\ (k = next \/ k < next)
      BY <1>3, <2>1, <2>2 DEF Texted
    <3>2. tmpStr' = Head(Entry(next).startup)
      BY <1>1, <2>2 DEF NextText
    <3>3. ASSUME NEW j \in Texted', \A k \in Texted' : k <= j
          PROVE  j = next
      <4>1. next <= j /\ (j = next \/ j < next)
        BY <3>1, <3>3
      <4>2. j \in 1 .. 3
        BY <1>2, <1>3, <2>1 DEF Texted
      <4> QED
        BY <1>2, <4>1, <4>2
    <3> QED
      BY <1>2, <2>1, <2>2, <3>2, <3>3 DEF TextAtHand
  <2>3. CASE Entry(next).startup = <<>>
    <3>1. Texted' = Texted /\ tmpStr' = tmpStr
      BY <1>1, <2>1, <2>3 DEF NextText
    <3> QED
      BY <1>2, <3>1 DEF TextAtHand
  <2> QED
    BY <2>2, <2>3
<1>8. StartupOfNearestText'
  <2>1. ASSUME NEW i \in ReadSoFar'
        PROVE  /\ WithText(i)' = {k \in ReadSoFar' : k <= i /\ Entry(k).startup # <<>>}
               /\ i < next => WithText(i)' = WithText(i)
               /\ i = next => WithText(i)' = Texted'
    BY <1>2, <1>3 DEF WithText, EntryOf, Aeroqual, Entry, Texted
  <2>2. ASSUME NEW i \in Read'
        PROVE  /\ WithText(i)' = {} => mem'[i].startup = StrToTime(Empty)
               /\ \A j \in WithText(i)' :
                    (\A k \in WithText(i)' : k <= j)
                      => mem'[i].startup = StrToTime(Head(EntryOf(j)'.startup))
    <3>1. \A j \in WithText(i)' : EntryOf(j)' = Entry(j) /\ EntryOf(j) = Entry(j)
      BY <1>2, <1>3, <2>1, <2>2 DEF EntryOf, Aeroqual, Entry
    <3>2. CASE i = next
      <4>1. WithText(i)' = Texted'
        BY <1>3, <2>1, <2>2, <3>2
      <4>2. Texted' = {} => tmpStr' = Empty
        BY <1>2, <1>7 DEF TextAtHand
      <4>3. \A j \in Texted' : (\A k \in Texted' : k <= j)
                => tmpStr' = Head(Entry(j).startup)
        BY <1>2, <1>7 DEF TextAtHand
      <4> QED
        BY <1>1, <3>1, <3>2, <4>1, <4>2, <4>3
    <3>3. CASE i # next
      <4>1. i \in ReadSoFar /\ i < next /\ i \in Sensors
        BY <1>3, <2>2, <3>3 DEF Sensors, Alphasense
      <4>2. WithText(i)' = WithText(i) /\ mem'[i] = mem[i] /\ i \in Read
        BY <1>1, <1>3, <2>1, <4>1
      <4> QED
        BY <3>1, <4>2 DEF StartupOfNearestText
    <3> QED
      BY <3>2, <3>3
  <2> QED
    BY <2>2 DEF StartupOfNearestText
<1> QED
  BY <1>4, <1>5, <1>6, <1>7, <1>8

LEMMA OzoneStep == ASSUME SettingsInv, LoadAeroqual PROVE SettingsInv'
<1> USE DEF SettingsInv
<1>1. /\ tmpStr' = NextText(file.aeroqual) /\ tmpStr' \in Texts
      /\ mem' \in [Sensors -> Memory]
      /\ mem'[Aeroqual].startup = StrToTime(tmpStr')
      /\ \A i \in Alphasense : mem'[i] = mem[i]
  BY LoadedOzone
<1>2. /\ stage = "entries" /\ stage' = "loaded" /\ file' = file /\ next' = next
      /\ next \in 1 .. 4 /\ next = Len(file.alphasense) + 1 /\ file.aeroqual.whole
      /\ \A i : Entry(i)' = Entry(i)
  BY EntriesTyped DEF LoadAeroqual, Progress, SettingsTypeOK, Entry
<1>3. ReadSoFar' = ReadSoFar /\ Read = ReadSoFar /\ Read' = ReadSoFar \cup {Aeroqual}
      /\ \A i \in ReadSoFar : i \in 1 .. 3 /\ i \in Alphasense
  BY <1>2 DEF ReadSoFar, Read, Alphasense
<1>4. SettingsTypeOK'
  BY <1>1, <1>2 DEF SettingsTypeOK
<1>5. Progress'
  BY <1>2, <1>3 DEF Progress
<1>6. FromMemory'
  BY <1>1, <1>2 DEF FromMemory, Given
<1>7. TextAtHand'
  BY <1>2 DEF TextAtHand
<1>8. StartupOfNearestText'
  <2>1. ASSUME NEW i \in ReadSoFar PROVE WithText(i)' = WithText(i)
    BY <1>2, <1>3 DEF WithText, EntryOf, Aeroqual
  <2>2. WithText(Aeroqual)' =
          Texted \cup (IF file.aeroqual.startup # <<>> THEN {Aeroqual} ELSE {})
    <3>1. \A j \in ReadSoFar : j <= Aeroqual /\ j # Aeroqual /\ EntryOf(j)' = Entry(j)
      BY <1>2, <1>3 DEF EntryOf, Aeroqual, Entry
    <3>2. Aeroqual <= Aeroqual /\ EntryOf(Aeroqual)' = file.aeroqual
      BY <1>2 DEF EntryOf, Aeroqual
    <3> QED
      BY <1>3, <3>1, <3>2 DEF WithText, Texted
  <2>3. ASSUME NEW i \in Read'
        PROVE  /\ WithText(i)' = {} => mem'[i].startup = StrToTime(Empty)
               /\ \A j \in WithText(i)' :
                    (\A k \in WithText(i)' : k <= j)
                      => mem'[i].startup = StrToTime(Head(EntryOf(j)'.startup))
    <3>1. CASE i \in ReadSoFar
      <4>1. WithText(i)' = WithText(i) /\ mem'[i] = mem[i] /\ i \in Read
            /\ \A j : EntryOf(j)' = EntryOf(j)
        BY <1>1, <1>2, <1>3, <2>1, <3>1 DEF EntryOf
      <4> QED
        BY <4>1 DEF StartupOfNearestText
    <3>2. CASE i = Aeroqual /\ file.aeroqual.startup # <<>>
      <4>1. tmpStr' = Head(file.aeroqual.startup) /\ Aeroqual \in WithText(i)'
        BY <1>1, <2>2, <3>2 DEF NextText
      <4>2. \A j \in WithText(i)' : j = Aeroqual \/ j \in 1 .. 3
        BY <1>3, <2>2, <3>2 DEF Texted
      <4>3. \A j \in WithText(i)' : (\A k \in WithText(i)' : k <= j) => j = Aeroqual
        BY <4>1, <4>2 DEF Aeroqual
      <4>4. EntryOf(Aeroqual)' = file.aeroqual
        BY <1>2 DEF EntryOf
      <4> QED
        BY <1>1, <3>2, <4>1, <4>3, <4>4
    <3>3. CASE i = Aeroqual /\ file.aeroqual.startup = <<>>
      <4>1. WithText(i)' = Texted /\ tmpStr' = tmpStr
        BY <1>1, <2>2, <3>3 DEF NextText
      <4>2. \A j \in Texted : EntryOf(j)' = Entry(j)
        BY <1>2, <1>3 DEF Texted, EntryOf, Aeroqual, Entry
      <4> QED
        BY <1>1, <1>2, <3>3, <4>1, <4>2 DEF TextAtHand
    <3> QED
      BY <1>3, <2>3, <3>1, <3>2, <3>3
  <2> QED
    BY <2>3 DEF StartupOfNearestText
<1> QED
  BY <1>4, <1>5, <1>6, <1>7, <1>8

LEMMA ReadStep == ASSUME SettingsInv, ReadFile PROVE SettingsInv'
<1> USE DEF SettingsInv
<1>1. /\ stage = "read" /\ stage' = "entries" /\ UNCHANGED <<file, next, tmpStr, mem>>
      /\ file.readable /\ file.whole
  BY DEF ReadFile
<1>2. SettingsTypeOK' /\ FromMemory'
  BY <1>1 DEF SettingsTypeOK, FromMemory, Given, Entry
<1>3. Progress' /\ TextAtHand'
  BY <1>1 DEF Progress, TextAtHand, Texted, ReadSoFar, Entry
<1>4. StartupOfNearestText'
  <2>1. ReadSoFar = {} /\ ReadSoFar' = {}
    BY <1>1 DEF Progress, ReadSoFar
  <2>2. Read' = {}
    BY <1>1, <2>1 DEF Read
  <2> QED
    BY <2>2 DEF StartupOfNearestText
<1> QED
  BY <1>2, <1>3, <1>4

LEMMA SettingsStep ==
    ASSUME SettingsInv, [SettingsNext]_settingsVars
    PROVE  SettingsInv'
<1>1. CASE ReadFile
  BY <1>1, ReadStep
<1>2. CASE LoadEntry
  BY <1>2, EntryStep
<1>3. CASE LoadAeroqual
  BY <1>3, OzoneStep
<1>4. CASE ReadFails \/ EntryFails \/ AeroqualFails \/ Exit
  BY <1>4, StageOnly DEF ReadFails, EntryFails, AeroqualFails, Exit
<1>5. CASE stage = "exit" /\ Reload
  BY <1>5, ReloadedSettings
<1>6. CASE UNCHANGED settingsVars
  BY <1>6 DEF settingsVars, SettingsInv, SettingsTypeOK, Progress, TextAtHand, FromMemory,
     StartupOfNearestText, Texted, Given, Entry, EntryOf, WithText, Read, ReadSoFar
<1> QED
  BY <1>1, <1>2, <1>3, <1>4, <1>5, <1>6 DEF SettingsNext, GetSettings

-----------------------------------------------------------------------------
(* Measurement loads its settings as SettingsSpec says.                    *)

\* Whatever main does, it leaves the settings alone, loads them or ends.
LEMMA SettingsOnly == ASSUME [Next]_vars PROVE [SettingsNext]_settingsVars
<1>1. CASE Load
  BY <1>1 DEF Load, SettingsNext
<1>2. CASE NoPower \/ Crash
  BY <1>2 DEF NoPower, Crash, Die, SettingsNext
<1>3. CASE Restart
  BY <1>3 DEF Restart, SettingsNext
<1>4. CASE Start \/ BeginTurn \/ ReadAmbient \/ AmbientDone \/ SendPayload \/ Chip
  BY <1>4 DEF Start, BeginTurn, ReadAmbient, AmbientDone, SendPayload, Chip
<1>5. CASE MeasureAlphasense \/ MeasureAeroqual
  BY <1>5 DEF MeasureAlphasense, MeasureAeroqual, Judge
<1>6. CASE UNCHANGED vars
  BY <1>6 DEF vars
<1> QED
  BY <1>1, <1>2, <1>3, <1>4, <1>5, <1>6 DEF Next, Main

\* The station loads its settings as Settings describes, turn after turn and start
\* after start.
THEOREM LoadsSettings == Spec => SettingsSpec
<1>1. Init => SettingsInit
  BY DEF Init
<1>2. [Next]_vars => [SettingsNext]_settingsVars
  BY SettingsOnly
<1> QED
  BY <1>1, <1>2, PTL DEF Spec, SettingsSpec

LEMMA SettingsInvariant == Spec => []SettingsInv
<1>1. SettingsInit => SettingsInv
  BY FreshSettings
<1>2. SettingsInv /\ [SettingsNext]_settingsVars => SettingsInv'
  BY SettingsStep
<1>3. SettingsSpec => []SettingsInv
  BY <1>1, <1>2, PTL DEF SettingsSpec
<1> QED
  BY <1>3, LoadsSettings

\* The age of a sensor is counted from the nearest date at or before its own entry.
THEOREM StartupIsNearest == Spec => []StartupOfNearestText
<1>1. SettingsInv => StartupOfNearestText
  BY DEF SettingsInv
<1> QED
  BY <1>1, SettingsInvariant, PTL

LEMMA LoadedFromJunk == ASSUME SettingsInv PROVE LoadedOrJunk
<1> SUFFICES ASSUME stage = "loaded"
             PROVE  /\ file.readable /\ file.whole /\ file.aeroqual.whole
                    /\ \E j \in Junk : \A i \in Alphasense :
                         IF i <= Len(file.alphasense)
                         THEN /\ file.alphasense[i].whole
                              /\ mem[i].adcs = 1 .. file.alphasense[i].adcs
                              /\ mem[i].operation = file.alphasense[i].operation
                              /\ \A n \in Looked :
                                   mem[i].features[n] =
                                     IF n \in file.alphasense[i].given
                                     THEN file.alphasense[i].features[n]
                                     ELSE j.features[n]
                         ELSE mem[i].features = j.features /\ mem[i].operation = j.operation
  BY DEF LoadedOrJunk
<1>1. file.readable /\ file.whole /\ file.aeroqual.whole
      /\ next = Len(file.alphasense) + 1 /\ Len(file.alphasense) \in 0 .. 3
  BY EntriesTyped DEF SettingsInv, Progress
<1>2. PICK j \in Junk : \A i \in Alphasense : Given(i, j)
  BY DEF SettingsInv, FromMemory
<1>3. ASSUME NEW i \in Alphasense
      PROVE  (i <= Len(file.alphasense) <=> i < next) /\ (i < next => i \in ReadSoFar)
  BY <1>1 DEF Alphasense, ReadSoFar
<1>4. \A i \in ReadSoFar : Entry(i).whole
  BY DEF SettingsInv, Progress
<1> QED
  BY <1>1, <1>2, <1>3, <1>4 DEF Given, Entry

\* What main measures with is what the file gives with the right types, and
\* otherwise what happened to be in the memory.
THEOREM SettingsAreLoadedOrJunk == Spec => []LoadedOrJunk
<1>1. SettingsInv => LoadedOrJunk
  BY LoadedFromJunk
<1> QED
  BY <1>1, SettingsInvariant, PTL

-----------------------------------------------------------------------------
(* The ambient sensor.  The chip knows two conversions, the one it is at   *)
(* and the one in its registers; what is left in the registers is as many  *)
(* readings old as mode writes were missed.                                *)

\* Between two readings.
Resting == busy = FALSE => data.of = asked - missed

\* Once the mode is written, or is not: the registers then hold what they held
\* before, or what the reading's own conversion gave.
UnderWay ==
    /\ words.late \in Nat
    /\ missed \in {0, words.late + 1}
    /\ busy => missed = 0 /\ data.of = asked - 1 - words.late
    /\ ~busy => data.of \in {asked, asked - 1 - words.late}
    /\ words.of \subseteq {asked, asked - 1 - words.late}

WordsRecords == [of : SUBSET Int, air : Air, got : Outcomes, late : Nat]
Values       == [of : SUBSET Int, air : Air, dead : BOOLEAN, late : Nat]

BmeInv ==
    /\ asked \in Nat /\ missed \in 0 .. asked /\ busy \in BOOLEAN /\ at \in 0 .. 5
    /\ data \in [of : Int, air : Air]
    /\ words \in WordsRecords
    /\ amb \in Values
    /\ busy => missed = 0
    /\ Resting
    /\ at = 1 => ~busy /\ words.of = {}
    /\ at \in 2 .. 5 => UnderWay
    /\ amb.dead => amb.air = DeadAir
    /\ AgedByMissedWrites

LEMMA BlankReading == NoWords \in WordsRecords /\ NoValues \in Values
BY Bme280Assumption DEF NoWords, NoValues, WordsRecords, Values, Outcomes

LEMMA CalibrateStep == ASSUME BmeInv, Calibrate PROVE BmeInv'
<1> USE DEF BmeInv
<1>1. PICK got \in Outcomes : words' = [NoWords EXCEPT !.got = got]
  BY DEF Calibrate
<1>2. words' \in WordsRecords /\ words'.of = {}
  BY <1>1, BlankReading DEF WordsRecords, NoWords
<1>3. at = 0 /\ at' = 1 /\ ~busy /\ UNCHANGED <<asked, missed, busy, data, amb>>
  BY DEF Calibrate
<1> QED
  BY <1>2, <1>3 DEF Resting, UnderWay, AgedByMissedWrites

LEMMA TriggerStep == ASSUME BmeInv, Trigger PROVE BmeInv'
<1> USE DEF BmeInv
<1>1. PICK written \in BOOLEAN :
        busy' = written /\ missed' = IF written THEN 0 ELSE missed + 1
  BY DEF Trigger
<1>2. /\ at = 1 /\ at' = 2 /\ asked' = asked + 1 /\ UNCHANGED <<data, amb>>
      /\ words' = [words EXCEPT !.late = missed]
  BY DEF Trigger
<1>3. words' \in WordsRecords /\ words'.of = {} /\ words'.late = missed
  BY <1>2 DEF WordsRecords
<1>4. data.of = asked' - 1 - words'.late
  BY <1>2, <1>3 DEF Resting
<1>5. UnderWay'
  BY <1>1, <1>2, <1>3, <1>4 DEF UnderWay
<1>6. busy' = FALSE => data'.of = asked' - missed'
  BY <1>1, <1>2, <1>3, <1>4
<1>7. asked' \in Nat /\ missed' \in 0 .. asked' /\ busy' \in BOOLEAN
      /\ (busy' => missed' = 0)
  BY <1>1, <1>2
<1> QED
  BY <1>2, <1>3, <1>5, <1>6, <1>7 DEF Resting, AgedByMissedWrites

LEMMA FinishStep == ASSUME BmeInv, Finish PROVE BmeInv'
<1> USE DEF BmeInv
<1>1. PICK a \in Airs : data' = [of |-> asked, air |-> a]
  BY DEF Finish
<1>2. data' \in [of : Int, air : Air] /\ data'.of = asked
  BY <1>1, Bme280Assumption
<1>3. busy /\ busy' = FALSE /\ missed = 0 /\ UNCHANGED <<asked, missed, at, words, amb>>
  BY DEF Finish
<1>4. Resting' /\ (UnderWay => UnderWay')
  BY <1>2, <1>3 DEF Resting, UnderWay
<1>5. AgedByMissedWrites'
  BY <1>3 DEF AgedByMissedWrites
<1> QED
  BY <1>2, <1>3, <1>4, <1>5

LEMMA ReadStepBme == ASSUME BmeInv, ReadWord PROVE BmeInv'
<1> USE DEF BmeInv
<1>1. /\ at \in 2 .. 4 /\ at' = at + 1 /\ at' \in 2 .. 5
      /\ UNCHANGED <<asked, missed, busy, data, amb>>
  BY DEF ReadWord
<1> DEFINE q == Quantities[at - 1]
<1>2. q \in {"pre", "temp", "hum"}
  BY <1>1 DEF Quantities
<1> HIDE DEF q
<1>3. PICK got \in Outcomes :
        words' = [words EXCEPT
                    !.got = IF got = @ THEN @ ELSE "some",
                    !.of  = IF got = "none" THEN @ ELSE @ \cup {data.of},
                    !.air = IF got = "all" THEN [@ EXCEPT ![q] = data.air[q]] ELSE @]
  BY DEF ReadWord, q
<1>4. [words.air EXCEPT ![q] = data.air[q]] \in Air /\ words.air \in Air
  BY <1>2 DEF Air, WordsRecords
<1>5. words' \in WordsRecords /\ words'.late = words.late
      /\ words'.of \subseteq words.of \cup {data.of}
  BY <1>3, <1>4 DEF WordsRecords, Outcomes
<1>6. UnderWay'
  <2>1. UnderWay
    BY <1>1
  <2>2. data.of \in {asked, asked - 1 - words.late}
    BY <2>1 DEF UnderWay
  <2> QED
    BY <1>1, <1>5, <2>1, <2>2 DEF UnderWay
<1>7. Resting' /\ AgedByMissedWrites'
  BY <1>1 DEF Resting, AgedByMissedWrites
<1> QED
  BY <1>1, <1>5, <1>6, <1>7

LEMMA ComputeStep == ASSUME BmeInv, Compute PROVE BmeInv'
<1> USE DEF BmeInv
<1>1. PICK a \in Computed :
        amb' = [of |-> words.of, dead |-> (words.got = "none"), air |-> a, late |-> words.late]
  BY DEF Compute
<1>2. at = 5 /\ at' = 0 /\ words' = NoWords /\ UNCHANGED <<asked, missed, busy, data>>
  BY DEF Compute
<1>3. DeadAir \in Air /\ Airs \subseteq Air
  BY Bme280Assumption DEF DeadAir, Air
<1>4. a \in Air /\ (words.got = "none" => a = DeadAir)
  BY <1>3 DEF Computed, WordsRecords
<1>5. amb' \in Values /\ amb'.of = words.of /\ amb'.late = words.late
      /\ (amb'.dead => amb'.air = DeadAir)
  BY <1>1, <1>4 DEF Values, WordsRecords
<1>6. AgedByMissedWrites'
  BY <1>2, <1>5 DEF UnderWay, AgedByMissedWrites
<1>7. Resting' /\ words' \in WordsRecords
  BY <1>2, BlankReading DEF Resting
<1>8. DeadAir' = DeadAir
  BY DEF DeadAir
<1> QED
  BY <1>2, <1>5, <1>6, <1>7, <1>8

\* A process ends with its values; the chip goes on.
LEMMA DeathStep == ASSUME BmeInv, Die PROVE BmeInv'
<1> USE DEF BmeInv
<1>1. /\ UNCHANGED <<asked, missed, busy, data>> /\ at' = 0 /\ words' = NoWords
      /\ amb' = NoValues
  BY DEF Die
<1>2. NoValues.of = {} /\ NoValues.dead = FALSE
  BY DEF NoValues
<1> QED
  BY <1>1, <1>2, BlankReading DEF Resting, AgedByMissedWrites

LEMMA BmeStep == ASSUME BmeInv, [Next]_vars PROVE BmeInv'
<1>1. CASE UNCHANGED bmeVars
  BY <1>1 DEF bmeVars, BmeInv, Resting, UnderWay, AgedByMissedWrites
<1>2. CASE Load \/ Start \/ Restart \/ SendPayload \/ UNCHANGED vars
  BY <1>1, <1>2 DEF Load, Start, Restart, SendPayload, vars
<1>3. CASE NoPower \/ Crash
  BY <1>3, DeathStep DEF NoPower, Crash
<1>4. CASE BeginTurn
  BY <1>4, CalibrateStep DEF BeginTurn
<1>5. CASE ReadAmbient
  BY <1>5, TriggerStep, ReadStepBme DEF ReadAmbient
<1>6. CASE AmbientDone
  BY <1>6, ComputeStep DEF AmbientDone
<1>7. CASE Chip
  BY <1>7, FinishStep DEF Chip
<1>8. CASE MeasureAlphasense \/ MeasureAeroqual
  BY <1>1, <1>8 DEF MeasureAlphasense, MeasureAeroqual, Judge
<1> QED
  BY <1>2, <1>3, <1>4, <1>5, <1>6, <1>7, <1>8 DEF Next, Main

LEMMA BmeInvariant == Spec => []BmeInv
<1>1. Init => BmeInv
  <2> SUFFICES ASSUME BmeInit PROVE BmeInv
    BY DEF Init
  <2> USE DEF BmeInit
  <2>1. data \in [of : Int, air : Air] /\ data.of = 0
    BY Bme280Assumption
  <2>2. words \in WordsRecords /\ amb \in Values /\ amb.of = {} /\ ~amb.dead
    BY BlankReading DEF NoValues
  <2>3. AgedByMissedWrites /\ Resting
    BY <2>1, <2>2 DEF AgedByMissedWrites, Resting
  <2>4. asked = 0 /\ missed = 0 /\ at = 0
    OBVIOUS
  <2>5. asked \in Nat /\ missed \in 0 .. asked /\ at \in 0 .. 5 /\ at # 1 /\ at \notin 2 .. 5
    BY <2>4
  <2>6. busy \in BOOLEAN /\ ~busy
    OBVIOUS
  <2> HIDE DEF BmeInit
  <2> QED
    BY <2>1, <2>2, <2>3, <2>5, <2>6 DEF BmeInv
<1>2. BmeInv /\ [Next]_vars => BmeInv'
  BY BmeStep
<1> QED
  BY <1>1, <1>2, PTL DEF Spec

\* An ambient value is of this conversion or of the one before, and older only by
\* the mode writes that failed before, whatever else dies and fails in between.
THEOREM AmbientAge == Spec => []AgedByMissedWrites
<1>1. BmeInv => AgedByMissedWrites
  BY DEF BmeInv
<1> QED
  BY <1>1, BmeInvariant, PTL

-----------------------------------------------------------------------------
(* The row.  What is in it was judged with the settings and the ambient    *)
(* values that are still there: they only change while the row is blank.   *)

\* What sensor i may be found to measure in the present air.
Measured(i, con) ==
    IF i = Aeroqual THEN \E v \in Volts : con = OzoneConcentration(v)
    ELSE \E we, ae \in Volts :
           con = Concentration(Bag(i), Adjust(we), Adjust(ae), amb.air.temp)

Explained(i) ==
    \/ row[i] = Blank
    \/ \E con, z : /\ Measured(i, con)
                   /\ row[i] = [con |-> con, flag |-> FlagOf(i, con, z), cell |-> Cell(i)]

RowInv ==
    /\ stage # "loaded" => pc = "start"
    /\ pc \in {"start", "ambient"} => row = NoRow /\ info = NoInfo
    /\ gas \in Sensors
    /\ row = [i \in Sensors |-> row[i]]
    /\ \A i \in Sensors : Explained(i)
    /\ InfoExplainsItself

LEMMA BlankRow ==
    row = NoRow /\ info = NoInfo =>
        /\ row = [i \in Sensors |-> row[i]]
        /\ \A i \in Sensors : Explained(i)
        /\ InfoExplainsItself
<1> SUFFICES ASSUME row = NoRow, info = NoInfo
             PROVE  /\ row = [i \in Sensors |-> row[i]]
                    /\ \A i \in Sensors : Explained(i)
                    /\ InfoExplainsItself
  OBVIOUS
<1>1. \A i \in Sensors : row[i] = Blank
  BY DEF NoRow
<1>2. info.sensor = 0
  BY DEF NoInfo
<1>3. InfoExplainsItself
  BY <1>2 DEF InfoExplainsItself, Alphasense, Aeroqual
<1> QED
  BY <1>1, <1>3 DEF NoRow, Explained

LEMMA BlankRowNext ==
    row' = NoRow /\ info' = NoInfo =>
        /\ row' = [i \in Sensors |-> row'[i]]
        /\ (\A i \in Sensors : Explained(i))'
        /\ InfoExplainsItself'
<1>1. NoRow' = NoRow /\ NoInfo' = NoInfo
  BY DEF NoRow, NoInfo, Blank, NaN
<1>2. (row = NoRow /\ info = NoInfo)' =>
        /\ (row = [i \in Sensors |-> row[i]])'
        /\ (\A i \in Sensors : Explained(i))'
        /\ InfoExplainsItself'
  BY BlankRow, PTL
<1> QED
  BY <1>1, <1>2

\* The same settings and the same air give the same verdict.
LEMMA SameVerdict ==
    ASSUME UNCHANGED <<mem, amb>>, NEW i, NEW con, NEW z
    PROVE  /\ FlagOf(i, con, z)' = FlagOf(i, con, z)
           /\ Cell(i)' = Cell(i)
           /\ Measured(i, con)' <=> Measured(i, con)
<1>1. FlagOf(i, con, z)' = FlagOf(i, con, z)
  <2>1. /\ Flag!CheckAmbient(Cond(i), amb.air)' = Flag!CheckAmbient(Cond(i), amb.air)
        /\ Flag!CheckLife(Cond(i))' = Flag!CheckLife(Cond(i))
    BY DEF Cond, Flag!CheckAmbient, Flag!CheckLife, Flag!Outside, Flag!Number, Flag!Less,
       Flag!NaN, Flag!IsNumber, Flag!Infinity
  <2>2. Flag!CheckRanges(Cond(i), Flag!Twentieths(con), z)'
          = Flag!CheckRanges(Cond(i), Flag!Twentieths(con), z)
    BY DEF Cond, Flag!CheckRanges, Flag!Near, Flag!Number, Flag!Less, Flag!Twentieths,
       Flag!Times, Flag!NaN, Flag!IsNumber, Flag!IsInfinite, Flag!Infinity, Flag!Sign
  <2> QED
    BY <2>1, <2>2 DEF FlagOf, Flag!Decide
<1>2. Cell(i)' = Cell(i) /\ (Measured(i, con)' <=> Measured(i, con))
  BY DEF Cell, Measured, Bag
<1> QED
  BY <1>1, <1>2

LEMMA SameExplained ==
    ASSUME UNCHANGED <<mem, amb>>, NEW i, row'[i] = row[i], Explained(i)
    PROVE  Explained(i)'
<1>1. CASE row[i] = Blank
  BY <1>1 DEF Explained
<1>2. CASE row[i] # Blank
  <2>1. PICK con, z : /\ Measured(i, con)
                      /\ row[i] = [con |-> con, flag |-> FlagOf(i, con, z), cell |-> Cell(i)]
    BY <1>2 DEF Explained
  <2>2. /\ Measured(i, con)'
        /\ row'[i] = [con |-> con, flag |-> FlagOf(i, con, z)', cell |-> Cell(i)']
    BY <2>1, SameVerdict
  <2> QED
    BY <2>2 DEF Explained
<1> QED
  BY <1>1, <1>2

LEMMA RowStays ==
    ASSUME RowInv, UNCHANGED <<mem, amb, row, info>>
    PROVE  /\ row' = [i \in Sensors |-> row'[i]]
           /\ \A i \in Sensors : Explained(i)'
           /\ InfoExplainsItself'
<1>1. \A i \in Sensors : Explained(i) => Explained(i)'
  BY SameExplained
<1>2. InfoExplainsItself => InfoExplainsItself'
  BY DEF InfoExplainsItself, Bag
<1> QED
  BY <1>1, <1>2 DEF RowInv

\* The name main goes by is the Aeroqual sensor's, and an O3 sensor's.
LEMMA NamedOzone ==
    ASSUME SettingsTypeOK, NEW i \in Sensors
    PROVE  /\ i = Aeroqual => Name(i) = "O3"
           /\ i \in Alphasense /\ Name(i) = "O3" => Bag(i).sensor.value = 4
<1>1. Bag(i).sensor.value \in Int
  BY FloatValue DEF SettingsTypeOK, Memory, Bag, Features, Looked
<1>2. ASSUME Bag(i).sensor.value # 4 PROVE SensorName(Bag(i).sensor.value) # "O3"
  <2>1. CASE Bag(i).sensor.value \in 0 .. 5
    BY <1>2, <2>1 DEF SensorName, SensorNames
  <2>2. CASE Bag(i).sensor.value \notin 0 .. 5
    BY <2>2 DEF SensorName
  <2> QED
    BY <2>1, <2>2
<1> QED
  BY <1>2 DEF Name, Alphasense, Aeroqual

LEMMA JudgeStep ==
    ASSUME SettingsTypeOK, RowInv, NEW con, NEW we, NEW ae, Judge(con, we, ae),
           Measured(gas, con), stage = "loaded",
           IF gas = Aeroqual THEN con = OzoneConcentration(we)
           ELSE con = Concentration(Bag(gas), Adjust(we), Adjust(ae), amb.air.temp)
    PROVE  RowInv'
<1>1. UNCHANGED <<mem, amb, stage>>
  BY DEF Judge, settingsVars, bmeVars
<1>2. pc' \in {"gas", "send"} /\ gas' \in Sensors
  BY DEF Judge, RowInv, Sensors, Alphasense, Aeroqual
<1>3. row' = [row EXCEPT ![gas] = [con |-> con, flag |-> FlagOf(gas, con, zero'),
                                   cell |-> Cell(gas)]]
  BY DEF Judge
<1>4. row' = [i \in Sensors |-> row'[i]]
  BY <1>3 DEF RowInv
<1>5. ASSUME NEW i \in Sensors PROVE Explained(i)'
  <2>1. CASE i = gas
    <3>1. row'[i] = [con |-> con, flag |-> FlagOf(i, con, zero'), cell |-> Cell(i)]
      BY <1>3, <2>1 DEF RowInv
    <3>2. PICK z : z = zero'
      OBVIOUS
    <3>3. /\ Measured(i, con)'
          /\ row'[i] = [con |-> con, flag |-> FlagOf(i, con, z)', cell |-> Cell(i)']
      BY <1>1, <2>1, <3>1, <3>2, SameVerdict
    <3> QED
      BY <3>3 DEF Explained
  <2>2. CASE i # gas
    <3>1. row'[i] = row[i] /\ Explained(i)
      BY <1>3, <2>2 DEF RowInv
    <3> QED
      BY <1>1, <3>1, SameExplained
  <2> QED
    BY <2>1, <2>2
<1>6. InfoExplainsItself'
  <2>1. info' = StoredInfo(gas, con, we, ae) /\ gas \in Sensors
    BY DEF Judge, RowInv
  <2>2. CASE gas = Aeroqual
    <3>1. info'.sensor = Aeroqual /\ info'.ppb_c = con /\ info'.we = we
      BY <2>1, <2>2, NamedOzone DEF StoredInfo
    <3> QED
      BY <2>2, <3>1 DEF InfoExplainsItself, Aeroqual, Alphasense
  <2>3. CASE gas # Aeroqual
    <3>1. gas \in Alphasense /\ info'.sensor = gas /\ info'.ppb_c = con
      BY <2>1, <2>3 DEF StoredInfo, Sensors
    <3>2. Bag(gas).sensor.value # 4 =>
            /\ info'.we = Adjust(we) /\ info'.ae = Adjust(ae)
            /\ info'.ppb = Uncorrected(Bag(gas), Adjust(we), Adjust(ae))
      BY <2>1, <3>1, NamedOzone DEF StoredInfo
    <3>3. con = Concentration(Bag(gas), Adjust(we), Adjust(ae), amb.air.temp)
      BY <2>3
    <3>4. \A f, x, y : Concentration(f, x, y, amb'.air.temp) = Concentration(f, x, y, amb.air.temp)
      BY <1>1
    <3>5. /\ gas # Aeroqual /\ gas \in Alphasense /\ info'.sensor = gas /\ mem' = mem
          /\ mem[gas].features.sensor.value # 4 =>
               /\ info'.ppb_c = Concentration(mem[gas].features, info'.we, info'.ae, amb'.air.temp)
               /\ info'.ppb = Uncorrected(mem[gas].features, info'.we, info'.ae)
      BY <1>1, <2>3, <3>1, <3>2, <3>3, <3>4 DEF Bag
    <3> QED
      BY <3>5 DEF InfoExplainsItself, Bag
  <2> QED
    BY <2>2, <2>3
<1> QED
  BY <1>1, <1>2, <1>4, <1>5, <1>6 DEF RowInv

LEMMA RowStep == ASSUME SettingsTypeOK, RowInv, [Next]_vars PROVE RowInv'
<1>1. CASE Load \/ Restart
  <2>1. stage # "loaded"
    BY <1>1 DEF Load, Restart, GetSettings, ReadFile, ReadFails, LoadEntry, EntryFails,
       LoadAeroqual, AeroqualFails
  <2>2. pc' = "start" /\ row' = NoRow /\ info' = NoInfo /\ gas' \in Sensors
    BY <1>1, <2>1 DEF Load, Restart, RowInv, mainVars
  <2> QED
    BY <2>2, BlankRowNext DEF RowInv
<1>2. CASE NoPower \/ Crash
  <2>1. pc' = "start" /\ row' = NoRow /\ info' = NoInfo /\ gas' = 1
    BY <1>2 DEF NoPower, Crash, Die
  <2> QED
    BY <2>1, BlankRowNext DEF RowInv, Sensors, Alphasense
<1>3. CASE Start \/ ReadAmbient \/ Chip \/ SendPayload
  <2>1. UNCHANGED <<mem, amb, row, info>> /\ stage' = stage /\ gas' = gas
    BY <1>3 DEF Start, ReadAmbient, Trigger, ReadWord, Chip, Finish, SendPayload,
       settingsVars, bmeVars, mainVars
  <2>2. (stage # "loaded" => pc' = "start")
        /\ (pc' \in {"start", "ambient"} => pc \in {"start", "ambient"})
    BY <1>3 DEF Start, ReadAmbient, Chip, SendPayload, RowInv, mainVars
  <2> QED
    BY <2>1, <2>2, RowStays DEF RowInv
<1>4. CASE BeginTurn
  <2>1. row' = NoRow /\ info' = NoInfo /\ gas' = gas /\ stage' = stage /\ stage = "loaded"
    BY <1>4 DEF BeginTurn, RowInv, settingsVars
  <2> QED
    BY <2>1, BlankRowNext DEF RowInv
<1>5. CASE AmbientDone
  <2>1. row' = NoRow /\ info' = NoInfo /\ gas' = 1 /\ stage' = stage /\ stage = "loaded"
    BY <1>5 DEF AmbientDone, RowInv, settingsVars
  <2> QED
    BY <2>1, BlankRowNext DEF RowInv, Sensors, Alphasense
<1>6. CASE MeasureAlphasense
  <2>1. PICK we, ae \in Volts :
          Judge(Concentration(Bag(gas), Adjust(we), Adjust(ae), amb.air.temp), we, ae)
    BY <1>6 DEF MeasureAlphasense
  <2>2. gas # Aeroqual /\ stage = "loaded"
    BY <1>6 DEF MeasureAlphasense, Alphasense, Aeroqual, RowInv
  <2>3. Measured(gas, Concentration(Bag(gas), Adjust(we), Adjust(ae), amb.air.temp))
    BY <2>2 DEF Measured
  <2> QED
    BY <2>1, <2>2, <2>3, JudgeStep
<1>7. CASE MeasureAeroqual
  <2>1. PICK v \in Volts : Judge(OzoneConcentration(v), v, 0)
    BY <1>7 DEF MeasureAeroqual
  <2>2. gas = Aeroqual /\ stage = "loaded"
    BY <1>7 DEF MeasureAeroqual, RowInv
  <2>3. Measured(gas, OzoneConcentration(v))
    BY <2>2 DEF Measured
  <2> QED
    BY <2>1, <2>2, <2>3, JudgeStep
<1>8. CASE UNCHANGED vars
  <2>1. UNCHANGED <<mem, amb, row, info, stage, pc, gas>>
    BY <1>8 DEF vars, settingsVars, bmeVars, mainVars
  <2> QED
    BY <2>1, RowStays DEF RowInv
<1> QED
  BY <1>1, <1>2, <1>3, <1>4, <1>5, <1>6, <1>7, <1>8 DEF Next, Main

LEMMA RowInvariant == Spec => []RowInv
<1>1. Init => RowInv
  BY BlankRow DEF Init, SettingsInit, MainInit, RowInv, Sensors, Alphasense
<1>2. SettingsInv /\ RowInv /\ [Next]_vars => RowInv'
  BY RowStep DEF SettingsInv
<1> QED
  BY <1>1, <1>2, SettingsInvariant, PTL DEF Spec

-----------------------------------------------------------------------------
(* What the row's invariant says of the values.                            *)

\* A GAS_INFO row explains itself, but for the sensors that share the name O3.
THEOREM InfoIsExplained == Spec => []InfoExplainsItself
<1>1. RowInv => InfoExplainsItself
  BY DEF RowInv
<1> QED
  BY <1>1, RowInvariant, PTL

LEMMA ValidFits ==
    ASSUME RowInv, NEW i \in Sensors, Valid(i)
    PROVE  /\ Flag!CheckAmbient(Cond(i), amb.air) = 0
           /\ Measured(i, row[i].con)
           /\ row[i].cell = Cell(i)
<1>1. row[i] # Blank
  BY DEF Valid, Blank
<1>2. PICK con, z : /\ Measured(i, con)
                    /\ row[i] = [con |-> con, flag |-> FlagOf(i, con, z), cell |-> Cell(i)]
  BY <1>1 DEF RowInv, Explained
<1>3. FlagOf(i, con, z) \in {"VA", "VZ"}
  BY <1>2 DEF Valid
<1>4. Flag!CheckAmbient(Cond(i), amb.air) = 0
  BY <1>3 DEF FlagOf, Flag!Decide
<1> QED
  BY <1>2, <1>4

\* Beside a valid value no ambient value is found out of the sensor's limits.
LEMMA ValidAirFits ==
    ASSUME RowInv, NEW i \in Sensors, Valid(i)
    PROVE  LET op == mem[i].operation
               n(v) == Number(v)
           IN  /\ ~Less(n(amb.air.temp), op.temperature[1])
               /\ ~Less(op.temperature[2], n(amb.air.temp))
               /\ ~Less(n(amb.air.pre), op.pressure[1])
               /\ ~Less(op.pressure[2], n(amb.air.pre))
               /\ ~Less(n(amb.air.hum), op.humidity[1])
               /\ ~Less(op.humidity[2], n(amb.air.hum))
<1> DEFINE op == mem[i].operation
<1>1. Flag!CheckAmbient(Cond(i), amb.air) = 0
  BY ValidFits
<1>2. /\ Cond(i).temperature = op.temperature /\ Cond(i).pressure = op.pressure
      /\ Cond(i).humidity = op.humidity
  BY DEF Cond
<1> HIDE DEF op
<1>3. /\ ~Flag!Outside(Flag!Number(amb.air.temp), op.temperature)
      /\ ~Flag!Outside(Flag!Number(amb.air.pre), op.pressure)
      /\ ~Flag!Outside(Flag!Number(amb.air.hum), op.humidity)
  BY <1>1, <1>2 DEF Flag!CheckAmbient
<1>4. \A v, limits : Flag!Outside(Flag!Number(v), limits)
                       <=> Less(Number(v), limits[1]) \/ Less(limits[2], Number(v))
  BY FlagFloats DEF Flag!Outside
<1> QED
  BY <1>3, <1>4 DEF op

\* Limits that are kept and keep within a range keep the ambient value in it.
LEMMA AirWithin ==
    ASSUME NEW v \in Int, NEW limits \in Limits, NEW low \in Int, NEW high \in Int,
           Within(limits, low, high),
           ~Less(Number(v), limits[1]), ~Less(limits[2], Number(v))
    PROVE  low <= v /\ v <= high
<1>1. Number(v) \in Floats /\ Number(v) # NaN
  BY DEF Number, Floats, Numbers, NaN
<1>2. PICK n \in low .. high : Number(v) = Number(n)
  BY <1>1, KeepsWithin
<1>3. n = v
  BY <1>2 DEF Number
<1> QED
  BY <1>2, <1>3

\* Dead readings are only flagged valid where 0 hPa is.
THEOREM DeadIsTold == Spec => []DeadSensorIsTold
<1>1. ASSUME BmeInv, RowInv PROVE DeadSensorIsTold
  <2> SUFFICES ASSUME amb.dead, NEW i \in Sensors, Valid(i),
                      Less(Number(0), mem[i].operation.pressure[1])
               PROVE  FALSE
    BY DEF DeadSensorIsTold
  <2>1. amb.air.pre = 0
    BY <1>1 DEF BmeInv, DeadAir
  <2> QED
    BY <1>1, <2>1, ValidAirFits
<1> QED
  BY <1>1, BmeInvariant, RowInvariant, PTL

\* The loop's steps cover -35 to 55 degrees without a gap, one for each column.
LEMMA IndexWithinRow ==
    ASSUME NEW t \in Int, -35 <= t, t <= 55
    PROVE  FactorIndex(t) \in 0 .. Columns - 1
<1> DEFINE steps == {k \in 0 .. 9 : t >= 10 * k - 35 /\ t <= 10 * k - 25}
<1>1. PICK j \in 0 .. 8 : t <= 10 * j - 25 /\ (t > 10 * j - 35 \/ j = 0)
  <2>1. CASE t <= -25
    BY <2>1
  <2>2. CASE t > -25
    <3>1. \E j \in 1 .. 8 : t <= 10 * j - 25 /\ t > 10 * j - 35
      <4>1. t <= -15 \/ (t > -15 /\ t <= -5) \/ (t > -5 /\ t <= 5) \/ (t > 5 /\ t <= 15)
            \/ (t > 15 /\ t <= 25) \/ (t > 25 /\ t <= 35) \/ (t > 35 /\ t <= 45) \/ t > 45
        OBVIOUS
      <4>2. 1 \in 1 .. 8 /\ 2 \in 1 .. 8 /\ 3 \in 1 .. 8 /\ 4 \in 1 .. 8
            /\ 5 \in 1 .. 8 /\ 6 \in 1 .. 8 /\ 7 \in 1 .. 8 /\ 8 \in 1 .. 8
        OBVIOUS
      <4> QED
        BY <2>2, <4>1, <4>2
    <3> QED
      BY <3>1
  <2> QED
    BY <2>1, <2>2
<1>2. j \in steps
  BY <1>1
<1>3. \A k \in steps : j <= k
  BY <1>1
<1>4. FactorIndex(t) = CHOOSE k \in steps : \A m \in steps : k <= m
  BY <1>2 DEF FactorIndex
<1> HIDE DEF steps
<1>5. (CHOOSE k \in steps : \A m \in steps : k <= m) \in steps
      /\ \A m \in steps : (CHOOSE k \in steps : \A n \in steps : k <= n) <= m
  BY <1>2, <1>3
<1>6. (CHOOSE k \in steps : \A m \in steps : k <= m) <= j
  BY <1>2, <1>5
<1> QED
  BY <1>1, <1>4, <1>5, <1>6 DEF steps, Columns

LEMMA AlgorithmTyped == ASSUME NEW alg PROVE Algorithm(alg) \in 1 .. 4
BY DEF Algorithm, Algorithms

\* A column within the row leaves the row what it is.
LEMMA RowOfPosition ==
    ASSUME NEW r \in Int, NEW c \in 0 .. Columns - 1
    PROVE  RowOf(r * Columns + c) = r
BY DEF RowOf, Columns

\* Within -35 to 55 degrees the gas's own factors are the ones that are used.
THEOREM ValidUsesOwnRow == Spec => []ValidFromOwnRow
<1>1. ASSUME SettingsInv, BmeInv, RowInv PROVE ValidFromOwnRow
  <2> SUFFICES ASSUME NEW i \in Alphasense, Valid(i),
                      Bag(i).compensate.value \in 0 .. Types - 1,
                      Within(mem[i].operation.temperature, -35, 55)
               PROVE  RowOf(row[i].cell)
                        = 4 * Bag(i).compensate.value + Algorithm(Bag(i).algorithm.value) - 1
    BY DEF ValidFromOwnRow
  <2>1. i \in Sensors /\ i # Aeroqual
    BY DEF Sensors, Alphasense, Aeroqual
  <2>2. row[i].cell = Cell(i)
    BY <1>1, <2>1, ValidFits
  <2>3. amb.air.temp \in Int
    BY <1>1 DEF BmeInv, Values, Air
  <2>4. mem[i].operation.temperature \in Limits
    BY <1>1, <2>1 DEF SettingsInv, SettingsTypeOK, Memory, Operation
  <2>5. -35 <= amb.air.temp /\ amb.air.temp <= 55
    <3>1. /\ ~Less(Number(amb.air.temp), mem[i].operation.temperature[1])
          /\ ~Less(mem[i].operation.temperature[2], Number(amb.air.temp))
      BY <1>1, <2>1, ValidAirFits
    <3> QED
      BY <2>3, <2>4, <3>1, AirWithin
  <2>6. FactorIndex(amb.air.temp) \in 0 .. Columns - 1
    BY <2>3, <2>5, IndexWithinRow
  <2> DEFINE algorithm == Algorithm(Bag(i).algorithm.value)
             r == 4 * Bag(i).compensate.value + algorithm - 1
  <2>7. algorithm \in 1 .. 4
    BY AlgorithmTyped
  <2>8. Cell(i) = r * Columns + FactorIndex(amb.air.temp)
    BY <2>1 DEF Cell, Position
  <2> HIDE DEF algorithm
  <2>9. r \in Int
    BY <2>7 DEF Types
  <2> QED
    BY <2>2, <2>6, <2>8, <2>9, RowOfPosition DEF algorithm
<1> QED
  BY <1>1, SettingsInvariant, BmeInvariant, RowInvariant, PTL

-----------------------------------------------------------------------------
(* The arithmetic of the gas sensors.                                      *)

LEMMA AdjustTyped == ASSUME NEW v \in Int PROVE Adjust(v) \in Int
BY DEF Adjust

LEMMA NumberTyped == ASSUME NEW n \in Int PROVE Number(n) \in Numbers /\ Number(n) \in Floats
BY DEF Number, Numbers, Floats

LEMMA TableTyped ==
    ASSUME NEW p \in 0 .. Rows * Columns - 1
    PROVE  Factor(RowOf(p), ColumnOf(p)) \in Int
<1>1. p \div Columns \in 0 .. Rows - 1 /\ p % Columns \in 0 .. Columns - 1
  BY DEF Rows, Columns, Types
<1> QED
  BY <1>1, CompensationAssumption DEF RowOf, ColumnOf

\* A correction with sound settings and a factor of the table is a number, unless
\* the second algorithm divides it by an offset of zero.
LEMMA CorrectedIsNumber ==
    ASSUME NEW alg, NEW we \in Numbers, NEW ae \in Numbers, NEW offset, offset.we \in Numbers,
           offset.ae \in Numbers, NEW factor \in Numbers,
           Algorithm(alg) = 2 => offset.ae # Number(0)
    PROVE  Corrected(alg, we, ae, offset, factor) \in Numbers
<1> DEFINE scaled == Times(factor, ae)
           divisor == Times(Number(10), offset.ae)
<1>1. Number(10) \in Numbers /\ Number(100) \in Numbers /\ Number(10) # Number(0)
  BY NumberTyped DEF Number
<1>2. scaled \in Numbers /\ divisor \in Numbers
  BY <1>1, NumbersClosed
<1>3. Algorithm(alg) = 2 => divisor # Number(0)
  <2> SUFFICES ASSUME Algorithm(alg) = 2 PROVE divisor # Number(0)
    OBVIOUS
  <2>1. offset.ae.value \in Int /\ offset.ae = Number(offset.ae.value)
    BY DEF Numbers, Number
  <2>2. offset.ae.value # 0
    BY <2>1
  <2>3. divisor.value = 10 * offset.ae.value
    BY <2>1 DEF Times, IsNumber, IsInfinite, Number
  <2>4. 10 * offset.ae.value # 0
    BY <2>1, <2>2
  <2> QED
    BY <2>3, <2>4 DEF Number
<1> HIDE DEF scaled, divisor
<1>4. Tenth(scaled) \in Numbers
  BY <1>1, <1>2, NumbersClosed DEF Tenth
<1>5. CASE Algorithm(alg) = 1
  BY <1>4, <1>5, NumbersClosed DEF Corrected, scaled
<1>6. CASE Algorithm(alg) = 2
  <2>1. Times(scaled, offset.we) \in Numbers
    BY <1>2, NumbersClosed
  <2>2. Quotient(Times(scaled, offset.we), divisor) \in Numbers
    BY <1>2, <1>3, <1>6, <2>1, NumbersClosed
  <2>3. Minus(we, Quotient(Times(scaled, offset.we), divisor)) \in Numbers
    BY <2>2, NumbersClosed
  <2> QED
    BY <1>6, <2>3 DEF Corrected, scaled, divisor
<1>7. CASE Algorithm(alg) = 3
  <2>1. Minus(offset.we, offset.ae) \in Numbers
    BY NumbersClosed
  <2>2. Minus(we, Minus(offset.we, offset.ae)) \in Numbers
    BY <2>1, NumbersClosed
  <2>3. Minus(Minus(we, Minus(offset.we, offset.ae)), Tenth(scaled)) \in Numbers
    BY <1>4, <2>2, NumbersClosed
  <2> QED
    BY <1>7, <2>3 DEF Corrected, scaled
<1>8. CASE Algorithm(alg) = 4
  <2>1. Minus(we, offset.we) \in Numbers /\ Times(Number(100), factor) \in Numbers
    BY <1>1, NumbersClosed
  <2>2. Minus(Minus(we, offset.we), Times(Number(100), factor)) \in Numbers
    BY <2>1, NumbersClosed
  <2> QED
    BY <1>8, <2>2 DEF Corrected
<1> QED
  BY <1>5, <1>6, <1>7, <1>8, AlgorithmTyped

\* Where a NaN comes from, and an infinity too.
LEMMA NaNNeedsZero ==
    ASSUME NEW f \in Features, Sound(f), NEW we \in Int, NEW ae \in Int, NEW t,
           InTable(Position(f.compensate.value, f.algorithm.value, t)),
           f.sensitivity # Number(0),
           Algorithm(f.algorithm.value) = 2 => f.ae_total # f.ae_electronic
    PROVE  Concentration(f, we, ae, t) # NaN
<1> DEFINE offset == [we |-> Minus(f.we_total, f.we_electronic),
                    ae |-> Minus(f.ae_total, f.ae_electronic)]
           factor == CompFactor(f.compensate.value, f.algorithm.value, t)
           c == Corrected(f.algorithm.value, Number(we), Number(ae), offset, factor)
<1>1. \A n \in Electrical : f[n] \in Numbers
  BY DEF Sound, Features, Electrical, IsNumber, Floats, Infinities, NaN
<1>2. /\ f.we_total \in Numbers /\ f.we_electronic \in Numbers /\ f.ae_total \in Numbers
      /\ f.ae_electronic \in Numbers /\ f.sensitivity \in Numbers
  BY <1>1 DEF Electrical, Looked
<1>3. offset.we \in Numbers /\ offset.ae \in Numbers
  BY <1>2, NumbersClosed
<1>4. factor \in Numbers
  BY TableTyped, NumberTyped DEF CompFactor, InTable
<1>5. f.ae_total # f.ae_electronic => offset.ae # Number(0)
  <2>1. PICK m, n \in Int : f.ae_total = Number(m) /\ f.ae_electronic = Number(n)
    <3>1. /\ f.ae_total = Number(f.ae_total.value) /\ f.ae_total.value \in Int
          /\ f.ae_electronic = Number(f.ae_electronic.value) /\ f.ae_electronic.value \in Int
      BY <1>2 DEF Numbers, Number
    <3> QED
      BY <3>1
  <2>2. offset.ae = Number(m + -n)
    BY <2>1 DEF Minus, Plus, Negated, Number, IsNumber, IsInfinite
  <2>3. offset.ae = Number(0) => m + -n = 0
    BY <2>2 DEF Number
  <2> QED
    BY <2>1, <2>3
<1>6. Number(we) \in Numbers /\ Number(ae) \in Numbers /\ Number(1000) \in Numbers
  BY NumberTyped
<1> HIDE DEF offset, factor
<1>7. c \in Numbers
  BY <1>3, <1>4, <1>5, <1>6, CorrectedIsNumber
<1> HIDE DEF c
<1>8. Quotient(InPpb(c), f.sensitivity) \in Numbers
  BY <1>2, <1>6, <1>7, NumbersClosed DEF InPpb
<1>9. NaN \notin Numbers
  BY DEF NaN, Numbers
<1> QED
  BY <1>8, <1>9 DEF Concentration, c, offset, factor

\* A valid value is a number unless the settings divide it by zero, or are no sound
\* settings, or the factor was none of the table.
THEOREM NaNNeedsZeroDivisor == Spec => []NaNFromZeroDivisor
<1>1. ASSUME SettingsInv, RowInv PROVE NaNFromZeroDivisor
  <2> SUFFICES ASSUME NEW i \in Sensors, Valid(i), row[i].con = NaN
               PROVE  /\ i \in Alphasense
                      /\ LET f == Bag(i) IN
                         \/ f.sensitivity = Number(0)
                         \/ Algorithm(f.algorithm.value) = 2 /\ f.ae_total = f.ae_electronic
                         \/ ~Sound(f)
                         \/ ~InTable(row[i].cell)
    BY DEF NaNFromZeroDivisor
  <2>1. Measured(i, row[i].con) /\ row[i].cell = Cell(i)
    BY <1>1, ValidFits
  <2>2. i # Aeroqual
    <3> SUFFICES ASSUME i = Aeroqual PROVE FALSE
      OBVIOUS
    <3>1. PICK v \in Volts : row[i].con = OzoneConcentration(v)
      BY <2>1 DEF Measured
    <3>2. OzoneConcentration(v) # NaN
      BY DEF OzoneConcentration, Number, NaN
    <3> QED
      BY <3>1, <3>2
  <2>3. PICK we, ae \in Volts :
          row[i].con = Concentration(Bag(i), Adjust(we), Adjust(ae), amb.air.temp)
    BY <2>1, <2>2 DEF Measured
  <2>4. Bag(i) \in Features
    BY <1>1 DEF SettingsInv, SettingsTypeOK, Memory, Bag
  <2>5. Adjust(we) \in Int /\ Adjust(ae) \in Int
    BY MeasurementAssumption, AdjustTyped
  <2>6. row[i].cell = Position(Bag(i).compensate.value, Bag(i).algorithm.value, amb.air.temp)
    BY <2>1, <2>2 DEF Cell
  <2>7. i \in Alphasense
    BY <2>2 DEF Sensors
  <2> QED
    BY <2>3, <2>4, <2>5, <2>6, <2>7, NaNNeedsZero
<1> QED
  BY <1>1, SettingsInvariant, RowInvariant, PTL

-----------------------------------------------------------------------------
(* The types of the values, and the bytes they become.  What lies behind   *)
(* the table of factors may be any float.                                  *)

BehindIsFloat == \A p : Behind(p) \in Floats

LEMMA ConcentrationTyped ==
    ASSUME BehindIsFloat, NEW f \in Features, NEW we \in Int, NEW ae \in Int, NEW t
    PROVE  Concentration(f, we, ae, t) \in Floats
<1> DEFINE offset == [we |-> Minus(f.we_total, f.we_electronic),
                    ae |-> Minus(f.ae_total, f.ae_electronic)]
           alg == f.algorithm.value
           factor == CompFactor(f.compensate.value, alg, t)
           c == Corrected(alg, Number(we), Number(ae), offset, factor)
           scaled == Times(factor, Number(ae))
<1>1. /\ f.we_total \in Floats /\ f.we_electronic \in Floats /\ f.ae_total \in Floats
      /\ f.ae_electronic \in Floats /\ f.sensitivity \in Floats
  BY DEF Features, Looked
<1>2. offset.we \in Floats /\ offset.ae \in Floats
  BY <1>1, FloatsClosed
<1>3. factor \in Floats
  BY TableTyped, NumberTyped DEF CompFactor, BehindIsFloat
<1>4. /\ Number(we) \in Floats /\ Number(ae) \in Floats /\ Number(10) \in Floats
      /\ Number(100) \in Floats /\ Number(1000) \in Floats
  BY NumberTyped
<1> HIDE DEF offset, factor, alg
<1>5. scaled \in Floats
  BY <1>3, <1>4, FloatsClosed
<1> HIDE DEF scaled
<1>6. Tenth(scaled) \in Floats /\ Times(scaled, offset.we) \in Floats
      /\ Times(Number(10), offset.ae) \in Floats /\ Minus(offset.we, offset.ae) \in Floats
      /\ Minus(Number(we), offset.we) \in Floats /\ Times(Number(100), factor) \in Floats
  BY <1>2, <1>3, <1>4, <1>5, FloatsClosed DEF Tenth
<1>7. Quotient(Times(scaled, offset.we), Times(Number(10), offset.ae)) \in Floats
      /\ Minus(Number(we), Minus(offset.we, offset.ae)) \in Floats
  BY <1>4, <1>6, FloatsClosed
<1>8. c \in Floats
  <2>1. CASE Algorithm(alg) = 1
    <3>1. Minus(Number(we), Tenth(scaled)) \in Floats
      BY <1>4, <1>6, FloatsClosed
    <3> QED
      BY <2>1, <3>1 DEF Corrected, scaled
  <2>2. CASE Algorithm(alg) = 2
    <3>1. Minus(Number(we), Quotient(Times(scaled, offset.we), Times(Number(10), offset.ae)))
            \in Floats
      BY <1>4, <1>7, FloatsClosed
    <3> QED
      BY <2>2, <3>1 DEF Corrected, scaled
  <2>3. CASE Algorithm(alg) = 3
    <3>1. Minus(Minus(Number(we), Minus(offset.we, offset.ae)), Tenth(scaled)) \in Floats
      BY <1>6, <1>7, FloatsClosed
    <3> QED
      BY <2>3, <3>1 DEF Corrected, scaled
  <2>4. CASE Algorithm(alg) = 4
    <3>1. Minus(Minus(Number(we), offset.we), Times(Number(100), factor)) \in Floats
      BY <1>6, FloatsClosed
    <3> QED
      BY <2>4, <3>1 DEF Corrected
  <2> QED
    BY <2>1, <2>2, <2>3, <2>4, AlgorithmTyped
<1> HIDE DEF c
<1>9. Quotient(InPpb(c), f.sensitivity) \in Floats
  <2>1. InPpb(c) \in Floats
    BY <1>4, <1>8, FloatsClosed DEF InPpb
  <2> QED
    BY <1>1, <2>1, FloatsClosed
<1> QED
  BY <1>9 DEF Concentration, c, offset, factor, alg

LEMMA RowTyped ==
    ASSUME BehindIsFloat, SettingsInv, RowInv, NEW i \in Sensors
    PROVE  row[i].con \in Floats
<1>1. CASE row[i] = Blank
  BY <1>1 DEF Blank, Floats
<1>2. CASE row[i] # Blank
  <2>1. Measured(i, row[i].con)
    BY <1>2 DEF RowInv, Explained
  <2>2. CASE i = Aeroqual
    <3>1. PICK v \in Volts : row[i].con = Number(2 * v)
      BY <2>1, <2>2 DEF Measured, OzoneConcentration
    <3>2. 2 * v \in Int
      BY MeasurementAssumption
    <3> QED
      BY <3>1, <3>2, NumberTyped
  <2>3. CASE i # Aeroqual
    <3>1. PICK we, ae \in Volts :
            row[i].con = Concentration(Bag(i), Adjust(we), Adjust(ae), amb.air.temp)
      BY <2>1, <2>3 DEF Measured
    <3>2. Adjust(we) \in Int /\ Adjust(ae) \in Int
      BY MeasurementAssumption, AdjustTyped
    <3>3. Bag(i) \in Features
      BY DEF SettingsInv, SettingsTypeOK, Memory, Bag
    <3> QED
      BY <3>1, <3>2, <3>3, ConcentrationTyped
  <2> QED
    BY <2>2, <2>3
<1> QED
  BY <1>1, <1>2

-----------------------------------------------------------------------------

Sent == MakeLoRaPayload(amb.air, [i \in Sensors |-> row[i].con])

\* The bytes are those of the row that is still there.
SentInv ==
    /\ pc # "turn" => raw = <<>>
    /\ raw # <<>> => raw \in Sent

LEMMA SentStep == ASSUME RowInv, SentInv, [Next]_vars PROVE SentInv'
<1>1. CASE UNCHANGED <<pc, raw, amb, row>>
  <2>1. Sent' = Sent
    BY <1>1 DEF Sent, MakeLoRaPayload, Signed8, Unsigned, Beyond, ToWord, Pressure, Laid, Low, High,
       IsNumber, Infinity
  <2> QED
    BY <1>1, <2>1 DEF SentInv
<1>2. CASE raw' = <<>>
  BY <1>2 DEF SentInv
<1>3. CASE SendPayload
  <2>1. pc' = "turn" /\ raw' \in Sent /\ UNCHANGED <<amb, row>>
    BY <1>3 DEF SendPayload, Sent, bmeVars
  <2>2. Sent' = Sent
    BY <2>1 DEF Sent, MakeLoRaPayload, Signed8, Unsigned, Beyond, ToWord, Pressure, Laid, Low, High,
       IsNumber, Infinity
  <2> QED
    BY <2>1, <2>2 DEF SentInv
<1>4. CASE Load \/ Restart \/ UNCHANGED vars
  BY <1>1, <1>4 DEF Load, Restart, vars, bmeVars, mainVars
<1>5. CASE Chip
  BY <1>1, <1>5 DEF Chip, Finish, mainVars
<1>6. CASE NoPower \/ Crash \/ BeginTurn
  BY <1>2, <1>6 DEF NoPower, Crash, Die, BeginTurn
<1>7. CASE Start \/ ReadAmbient \/ AmbientDone \/ MeasureAlphasense \/ MeasureAeroqual
  <2>1. raw = <<>> /\ raw' = raw
    BY <1>7 DEF Start, ReadAmbient, AmbientDone, MeasureAlphasense, MeasureAeroqual, Judge,
       SentInv, mainVars
  <2> QED
    BY <1>2, <2>1
<1> QED
  BY <1>3, <1>4, <1>5, <1>6, <1>7 DEF Next, Main

LEMMA SentInvariant == Spec => []SentInv
<1>1. Init => SentInv
  BY DEF Init, MainInit, SentInv
<1>2. RowInv /\ SentInv /\ [Next]_vars => SentInv'
  BY SentStep
<1> QED
  BY <1>1, <1>2, RowInvariant, PTL DEF Spec

\* A word and its two bytes.
LEMMA Bytes ==
    ASSUME NEW w \in 0 .. WordSize - 1
    PROVE  /\ Low(w) \in 0 .. ByteSize - 1
           /\ High(w) \in 0 .. ByteSize - 1
           /\ Low(w) + ByteSize * High(w) = w
<1>1. ByteSize \in Nat /\ ByteSize > 1 /\ WordSize = ByteSize * ByteSize /\ w \in Nat
      /\ w < ByteSize * ByteSize
  BY PayloadAssumption
<1>2. w % ByteSize \in 0 .. ByteSize - 1
  BY <1>1
<1>3. w \div ByteSize \in Int
  BY <1>1
<1>4. w = ByteSize * (w \div ByteSize) + (w % ByteSize)
  BY <1>1
<1> DEFINE q == w \div ByteSize
           r == w % ByteSize
<1> HIDE DEF q, r
<1>5. /\ q \in Int /\ r \in 0 .. ByteSize - 1 /\ w = ByteSize * q + r
  BY <1>2, <1>3, <1>4 DEF q, r
<1>6. q >= 0
  <2> SUFFICES ASSUME q < 0 PROVE FALSE
    BY <1>5
  <2>1. ByteSize * q <= -ByteSize
    BY <1>1, <1>5
  <2> QED
    BY <1>1, <1>5, <2>1
<1>7. q < ByteSize
  <2> SUFFICES ASSUME q >= ByteSize PROVE FALSE
    BY <1>1, <1>5
  <2>1. ByteSize * q >= ByteSize * ByteSize
    BY <1>1, <1>5
  <2> QED
    BY <1>1, <1>5, <2>1
<1> QED
  BY <1>1, <1>5, <1>6, <1>7 DEF Low, High, q, r

\* Modulo n, a small negative number is n less than what it becomes.
LEMMA ModuloOfSmall ==
    ASSUME NEW n \in Nat, n > 1, NEW v \in Int
    PROVE  /\ 0 <= v /\ v < n => v % n = v /\ v \div n = 0
           /\ -n <= v /\ v < 0 => v % n = v + n
<1> DEFINE q == v \div n
           r == v % n
<1>1. /\ q \in Int /\ r \in 0 .. n - 1 /\ v = n * q + r
  OBVIOUS
<1> HIDE DEF q, r
<1>2. 0 <= v /\ v < n => q = 0
  <2>1. ASSUME 0 <= v, v < n, q >= 1 PROVE FALSE
    <3>1. n * q >= n
      BY <1>1, <2>1
    <3> QED
      BY <1>1, <2>1, <3>1
  <2>2. ASSUME 0 <= v, v < n, q <= -1 PROVE FALSE
    <3>1. n * q <= -n
      BY <1>1, <2>2
    <3> QED
      BY <1>1, <2>2, <3>1
  <2> QED
    BY <1>1, <2>1, <2>2
<1>3. -n <= v /\ v < 0 => q = -1
  <2>1. ASSUME v < 0, q >= 0 PROVE FALSE
    <3>1. n * q >= 0
      BY <1>1, <2>1
    <3> QED
      BY <1>1, <2>1, <3>1
  <2>2. ASSUME -n <= v, q <= -2 PROVE FALSE
    <3>1. n * q <= -2 * n
      BY <1>1, <2>2
    <3> QED
      BY <1>1, <2>2, <3>1
  <2> QED
    BY <1>1, <2>1, <2>2
<1>4. q = 0 => r = v
  BY <1>1
<1>5. q = -1 => r = v + n
  BY <1>1
<1> QED
  BY <1>2, <1>3, <1>4, <1>5 DEF q, r

\* A number that fits the type is converted to itself.
LEMMA UnsignedOfFitting ==
    ASSUME NEW size \in {ByteSize, WordSize}, NEW v \in 0 .. size - 1
    PROVE  Unsigned(v, size) = {v}
<1>1. ByteSize \in Nat /\ ByteSize > 1 /\ WordSize = ByteSize * ByteSize
  BY PayloadAssumption
<1>2. WordSize \in Nat /\ WordSize >= 2 * ByteSize
  BY <1>1
<1>3. size \in Nat /\ size > 1 /\ v \in Int /\ 0 <= v /\ v < size /\ v < WordSize
  BY <1>1, <1>2
<1>4. v % size = v
  BY <1>3, ModuloOfSmall
<1>5. ~Beyond(v)
  <2>1. v \div WordSize = 0
    BY <1>1, <1>2, <1>3, ModuloOfSmall
  <2>2. WordSize \div 2 > 0
    BY <1>1, <1>2
  <2> QED
    BY <1>2, <2>1, <2>2 DEF Beyond
<1> QED
  BY <1>3, <1>4, <1>5 DEF Unsigned

LEMMA WordOfFitting ==
    ASSUME NEW v \in 0 .. WordSize - 1
    PROVE  ToWord(Number(v)) = {v}
<1>1. ToWord(Number(v)) = Unsigned(v, WordSize)
  BY DEF ToWord, Number, IsNumber, Infinity
<1> QED
  BY <1>1, UnsignedOfFitting

\* A valid number keeps the limits of its gas.
LEMMA ValidInRange ==
    ASSUME BehindIsFloat, SettingsInv, RowInv, NEW i \in Sensors, Valid(i),
           row[i].con # NaN, Within(mem[i].operation.ranges, 0, WordSize - 1)
    PROVE  \E v \in 0 .. WordSize - 1 : row[i].con = Number(v)
<1> DEFINE ranges == mem[i].operation.ranges
<1>1. row[i] # Blank
  BY DEF Valid, Blank
<1>2. PICK con, z : /\ Measured(i, con)
                    /\ row[i] = [con |-> con, flag |-> FlagOf(i, con, z), cell |-> Cell(i)]
  BY <1>1 DEF RowInv, Explained
<1>3. row[i].con = con /\ FlagOf(i, con, z) \in {"VA", "VZ"}
  BY <1>2 DEF Valid
<1> DEFINE n == Flag!CheckRanges(Cond(i), Flag!Twentieths(con), z)
<1>4. n \notin 1 .. 2
  <2>1. n \in 0 .. 3
    BY DEF Flag!CheckRanges
  <2>2. FlagOf(i, con, z) =
          Flag!Decide(Flag!CheckAmbient(Cond(i), amb.air), Flag!CheckLife(Cond(i)), n)
    BY DEF FlagOf
  <2> HIDE DEF n
  <2> QED
    BY <1>3, <2>1, <2>2 DEF Flag!Decide
<1>5. Cond(i).ranges = ranges
  BY DEF Cond
<1> HIDE DEF ranges
<1>6. /\ ~Flag!Less(Flag!Twentieths(con), Flag!Twentieths(ranges[1]))
      /\ ~Flag!Less(Flag!Twentieths(ranges[2]), Flag!Twentieths(con))
  BY <1>4, <1>5 DEF Flag!CheckRanges
<1>7. ranges \in Limits /\ ranges[1] \in Floats /\ ranges[2] \in Floats
  BY DEF SettingsInv, SettingsTypeOK, Memory, Operation, Limits, ranges
<1>8. con \in Floats
  BY <1>3, RowTyped
<1>9. ~Less(con, ranges[1]) /\ ~Less(ranges[2], con)
  BY <1>6, <1>7, <1>8, FlagFloats, TwentiethsOrdered
<1>10. WordSize - 1 \in Int
  BY PayloadAssumption
<1> QED
  BY <1>3, <1>7, <1>8, <1>9, <1>10, KeepsWithin DEF ranges

\* Each gas has its word in the bytes.
LEMMA GasBytes ==
    ASSUME NEW air, NEW ppb, NEW bytes \in MakeLoRaPayload(air, ppb), NEW i \in 1 .. 4
    PROVE  \E w \in ToWord(ppb[i]) : GasIn(bytes, i) = Low(w) + ByteSize * High(w)
<1>1. PICK tem \in Signed8(air.temp), hum \in Unsigned(air.hum, ByteSize),
           pre \in Unsigned(Pressure(air.pre), WordSize),
           co \in ToWord(ppb[1]), no2 \in ToWord(ppb[2]),
           so2 \in ToWord(ppb[3]), o3 \in ToWord(ppb[4]) :
        bytes = Laid(tem, hum, pre, co, o3, so2, no2)
  BY SMTT(60) DEF MakeLoRaPayload
<1>2. /\ GasIn(bytes, 1) = Low(co) + ByteSize * High(co)
      /\ GasIn(bytes, 2) = Low(no2) + ByteSize * High(no2)
      /\ GasIn(bytes, 3) = Low(so2) + ByteSize * High(so2)
      /\ GasIn(bytes, 4) = Low(o3) + ByteSize * High(o3)
  BY <1>1 DEF GasIn, Word, PlaceOf, Laid
<1>3. i = 1 \/ i = 2 \/ i = 3 \/ i = 4
  OBVIOUS
<1> QED
  BY <1>2, <1>3

LEMMA SentWhole ==
    ASSUME BehindIsFloat, SettingsInv, RowInv, SentInv
    PROVE  ValidIsSentWhole
<1> SUFFICES ASSUME raw # <<>>, NEW i \in Sensors, Valid(i), row[i].con # NaN,
                    Within(mem[i].operation.ranges, 0, WordSize - 1)
             PROVE  Number(GasIn(raw, i)) = row[i].con
  BY DEF ValidIsSentWhole
<1> DEFINE ppb == [k \in Sensors |-> row[k].con]
<1>1. raw \in MakeLoRaPayload(amb.air, ppb) /\ i \in 1 .. 4 /\ ppb[i] = row[i].con
  BY DEF SentInv, Sent, Sensors, Alphasense, Aeroqual
<1> HIDE DEF ppb
<1>2. PICK v \in 0 .. WordSize - 1 : row[i].con = Number(v)
  BY ValidInRange
<1>3. ToWord(ppb[i]) = {v}
  BY <1>1, <1>2, WordOfFitting
<1>4. PICK w \in ToWord(ppb[i]) : GasIn(raw, i) = Low(w) + ByteSize * High(w)
  BY <1>1, GasBytes
<1>5. w = v
  BY <1>3, <1>4
<1> QED
  BY <1>2, <1>4, <1>5, Bytes

\* A valid value that its field can hold reaches the receiver as it is, whatever
\* floats lie behind the table of factors.
THEOREM ValidArrivesWhole == BehindIsFloat => (Spec => []ValidIsSentWhole)
<1> SUFFICES ASSUME BehindIsFloat PROVE Spec => []ValidIsSentWhole
  OBVIOUS
<1>1. SettingsInv /\ RowInv /\ SentInv => ValidIsSentWhole
  BY SentWhole
<1> QED
  BY <1>1, SettingsInvariant, RowInvariant, SentInvariant, PTL

-----------------------------------------------------------------------------
(* Types.                                                                  *)

ControlInv ==
    /\ asked <= MaxConversions /\ (at = 1 => asked < MaxConversions)
    /\ data.of \in 0 .. asked
    /\ pc \in {"start", "turn", "ambient", "gas", "send"}
    /\ zero \in Limits \cup {Flag!Unset}
    /\ info.sensor \in {0} \cup Sensors

LEMMA ControlStep ==
    ASSUME SettingsTypeOK, BmeInv, RowInv, ControlInv, [Next]_vars
    PROVE  ControlInv'
<1> USE DEF ControlInv
<1>1. CASE Load \/ Restart \/ Start \/ AmbientDone \/ SendPayload \/ UNCHANGED vars
  BY <1>1 DEF Load, Restart, Start, AmbientDone, Compute, SendPayload, vars, bmeVars, mainVars
<1>2. CASE NoPower \/ Crash
  BY <1>2 DEF NoPower, Crash, Die, NoInfo
<1>3. CASE BeginTurn
  BY <1>3 DEF BeginTurn, Calibrate, NoInfo
<1>4. CASE ReadAmbient
  <2>1. asked \in Nat /\ MaxConversions \in Nat /\ mainVars' = mainVars /\ data' = data
    BY <1>4, Bme280Assumption DEF ReadAmbient, BmeInv, Trigger, ReadWord
  <2>2. CASE Trigger
    BY <2>1, <2>2 DEF Trigger, mainVars
  <2>3. CASE ReadWord
    BY <2>1, <2>3 DEF ReadWord, mainVars
  <2> QED
    BY <1>4, <2>2, <2>3 DEF ReadAmbient
<1>5. CASE Chip
  <2>1. asked' = asked /\ at' = at /\ data'.of = asked /\ asked \in Nat
    BY <1>5 DEF Chip, Finish, BmeInv
  <2> QED
    BY <1>5, <2>1 DEF Chip, mainVars
<1>6. ASSUME NEW con, NEW we, NEW ae, Judge(con, we, ae) PROVE ControlInv'
  <2>1. gas \in Sensors
    BY DEF RowInv
  <2>2. mem[gas].operation.ranges \in Limits
    BY <2>1 DEF SettingsTypeOK, Memory, Operation
  <2>3. Flag!ZeroRange(Cond(gas)) \in Limits
    <3> DEFINE low == mem[gas].operation.ranges[1]
    <3>1. Flag!Twentieths(low) \in Floats
      <4>1. low \in Floats /\ Number(20) \in Floats
        BY <2>2, NumberTyped DEF Limits
      <4> HIDE DEF low
      <4>2. Flag!Twentieths(low) = Times(Number(20), low)
        BY FlagFloats
      <4> QED
        BY <4>1, <4>2, FloatsClosed
    <3> QED
      BY <2>2, <3>1 DEF Flag!ZeroRange, Cond, Limits
  <2>4. info'.sensor = gas
    BY <1>6 DEF Judge, StoredInfo
  <2>5. pc' \in {"gas", "send"} /\ zero' \in Limits \cup {Flag!Unset}
        /\ UNCHANGED <<asked, at, data>>
    BY <1>6, <2>3 DEF Judge, bmeVars
  <2> QED
    BY <2>1, <2>4, <2>5
<1>7. CASE MeasureAlphasense \/ MeasureAeroqual
  BY <1>6, <1>7 DEF MeasureAlphasense, MeasureAeroqual
<1> QED
  BY <1>1, <1>2, <1>3, <1>4, <1>5, <1>7 DEF Next, Main

LEMMA ControlInvariant == Spec => []ControlInv
<1>1. Init => ControlInv
  BY Bme280Assumption DEF Init, BmeInit, MainInit, NoInfo, ControlInv
<1>2. SettingsInv /\ BmeInv /\ RowInv /\ ControlInv /\ [Next]_vars => ControlInv'
  BY ControlStep DEF SettingsInv
<1> QED
  BY <1>1, <1>2, SettingsInvariant, BmeInvariant, RowInvariant, PTL DEF Spec

\* getFlag always answers with one of its flags.
LEMMA FlagAlways == ASSUME NEW i, NEW con, NEW z PROVE FlagOf(i, con, z) \in Flag!Flags
<1> DEFINE n == Flag!CheckRanges(Cond(i), Flag!Twentieths(con), z)
<1>1. n \in 0 .. 3
  BY DEF Flag!CheckRanges
<1>2. Flag!CheckAmbient(Cond(i), amb.air) \in 0 .. 3 /\ Flag!CheckLife(Cond(i)) \in 0 .. 1
  BY DEF Flag!CheckAmbient, Flag!CheckLife
<1>3. FlagOf(i, con, z) =
        Flag!Decide(Flag!CheckAmbient(Cond(i), amb.air), Flag!CheckLife(Cond(i)), n)
  BY DEF FlagOf
<1> HIDE DEF n
<1> QED
  BY <1>1, <1>2, <1>3 DEF Flag!Decide, Flag!Flags

LEMMA UnsignedTyped ==
    ASSUME NEW v \in Int, NEW size \in {ByteSize, WordSize}, NEW w \in Unsigned(v, size)
    PROVE  w \in 0 .. size - 1
<1>1. size \in Nat /\ size > 0
  BY PayloadAssumption
<1>2. v % size \in 0 .. size - 1 /\ 0 \in 0 .. size - 1 /\ size - 1 \in 0 .. size - 1
  BY <1>1
<1> QED
  BY <1>2 DEF Unsigned

LEMMA WordTyped == ASSUME NEW x \in Floats, NEW w \in ToWord(x) PROVE w \in 0 .. WordSize - 1
<1>1. WordSize \in Nat /\ WordSize > 0
  BY PayloadAssumption
<1>2. CASE IsNumber(x)
  <2>1. x.value \in Int /\ w \in Unsigned(x.value, WordSize)
    BY <1>2, FloatValue DEF ToWord, Infinity, IsNumber
  <2> QED
    BY <2>1, UnsignedTyped
<1>3. CASE ~IsNumber(x)
  <2>1. w \in {0, WordSize - 1}
    BY <1>3 DEF ToWord
  <2> QED
    BY <1>1, <2>1
<1> QED
  BY <1>2, <1>3

LEMMA BytesTyped ==
    ASSUME NEW air \in Air, NEW ppb, \A i \in 1 .. 4 : ppb[i] \in Floats,
           NEW bytes \in MakeLoRaPayload(air, ppb)
    PROVE  bytes \in [1 .. Length -> 0 .. ByteSize - 1]
<1>1. PICK tem \in Signed8(air.temp), hum \in Unsigned(air.hum, ByteSize),
           pre \in Unsigned(Pressure(air.pre), WordSize),
           co \in ToWord(ppb[1]), no2 \in ToWord(ppb[2]),
           so2 \in ToWord(ppb[3]), o3 \in ToWord(ppb[4]) :
        bytes = Laid(tem, hum, pre, co, o3, so2, no2)
  BY SMTT(60) DEF MakeLoRaPayload
<1>2. ByteSize \in Nat /\ ByteSize > 1 /\ WordSize \in Nat /\ WordSize > 0
  BY PayloadAssumption
<1>3. air.temp \in Int /\ air.hum \in Int /\ air.pre \in Int
  BY DEF Air
<1>4. tem \in 0 .. ByteSize - 1
  BY <1>2, <1>3 DEF Signed8
<1>5. hum \in 0 .. ByteSize - 1
  BY <1>3, UnsignedTyped
<1>6. pre \in 0 .. WordSize - 1
  <2>1. Pressure(air.pre) \in Int
    BY <1>3 DEF Pressure
  <2> QED
    BY <2>1, UnsignedTyped
<1>7. /\ co \in 0 .. WordSize - 1 /\ no2 \in 0 .. WordSize - 1
      /\ so2 \in 0 .. WordSize - 1 /\ o3 \in 0 .. WordSize - 1
  BY WordTyped
<1>8. \A w \in {pre, co, no2, so2, o3} :
        Low(w) \in 0 .. ByteSize - 1 /\ High(w) \in 0 .. ByteSize - 1
  BY <1>6, <1>7, Bytes
<1> QED
  BY <1>1, <1>4, <1>5, <1>8 DEF Laid, Length

\* Every variable keeps its type; in particular a flag is never NULL and a byte
\* never more than a byte.
THEOREM TypeCorrect == BehindIsFloat => (Spec => []TypeOK)
<1> SUFFICES ASSUME BehindIsFloat PROVE Spec => []TypeOK
  OBVIOUS
<1>1. ASSUME SettingsInv, BmeInv, RowInv, SentInv, ControlInv PROVE TypeOK
  <2> USE <1>1
  <2>1. asked \in 0 .. MaxConversions
    BY Bme280Assumption DEF BmeInv, ControlInv
  <2>2. data \in [of : 0 .. MaxConversions, air : Air]
    <3>1. data.of \in 0 .. MaxConversions
      BY <2>1, Bme280Assumption DEF ControlInv
    <3> QED
      BY <3>1 DEF BmeInv
  <2>3. \A i \in Sensors : row[i].flag \in Flag!Flags \cup {"none"}
    <3> TAKE i \in Sensors
    <3>1. CASE row[i] = Blank
      BY <3>1 DEF Blank
    <3>2. CASE row[i] # Blank
      <4>1. PICK con, z : row[i] = [con |-> con, flag |-> FlagOf(i, con, z), cell |-> Cell(i)]
        BY <3>2 DEF RowInv, Explained
      <4> QED
        BY <4>1, FlagAlways
    <3> QED
      BY <3>1, <3>2
  <2>4. raw = <<>> \/ raw \in [1 .. Length -> 0 .. ByteSize - 1]
    <3> SUFFICES ASSUME raw # <<>> PROVE raw \in [1 .. Length -> 0 .. ByteSize - 1]
      OBVIOUS
    <3> DEFINE ppb == [k \in Sensors |-> row[k].con]
    <3>1. raw \in MakeLoRaPayload(amb.air, ppb)
      BY DEF SentInv, Sent
    <3>2. \A i \in 1 .. 4 : ppb[i] \in Floats
      BY RowTyped DEF Sensors, Alphasense, Aeroqual
    <3>3. amb.air \in Air
      BY DEF BmeInv, Values
    <3> HIDE DEF ppb
    <3> QED
      BY <3>1, <3>2, <3>3, BytesTyped
  <2> QED
    BY <2>1, <2>2, <2>3, <2>4 DEF TypeOK, SettingsInv, BmeInv, RowInv, ControlInv
<1> QED
  BY <1>1, SettingsInvariant, BmeInvariant, RowInvariant, SentInvariant, ControlInvariant, PTL

-----------------------------------------------------------------------------
(* The ambient values of the uplink.                                       *)

\* The receiver's reading of the first two bytes: an int8_t and a uint8_t.
TemperatureIn(bytes) == IF 2 * bytes[1] < ByteSize THEN bytes[1] ELSE bytes[1] - ByteSize
HumidityIn(bytes)    == bytes[2]

\* Limits within what an int8_t holds.
FitsSignedByte(limits) ==
    Within(limits, -(ByteSize \div 2), (ByteSize - 1) \div 2)

PressureInHundreds ==
    raw # <<>> /\ amb.air.pre \in 0 .. WordSize - 1 => PressureIn(raw) = amb.air.pre \div 100

ValidAirArrives ==
    raw # <<>> =>
        \A i \in Sensors :
            LET op == mem[i].operation IN
            Valid(i) =>
                /\ FitsSignedByte(op.temperature) => TemperatureIn(raw) = amb.air.temp
                /\ Within(op.humidity, 0, ByteSize - 1) => HumidityIn(raw) = amb.air.hum
                /\ Within(op.pressure, 0, WordSize - 1)
                     => PressureIn(raw) = amb.air.pre \div 100

\* Where the ambient values lie in the bytes.
LEMMA AirBytes ==
    ASSUME NEW air, NEW ppb, NEW bytes \in MakeLoRaPayload(air, ppb)
    PROVE  /\ bytes[1] \in Signed8(air.temp)
           /\ bytes[2] \in Unsigned(air.hum, ByteSize)
           /\ \E w \in Unsigned(Pressure(air.pre), WordSize) :
                PressureIn(bytes) = Low(w) + ByteSize * High(w)
<1>1. PICK tem \in Signed8(air.temp), hum \in Unsigned(air.hum, ByteSize),
           pre \in Unsigned(Pressure(air.pre), WordSize),
           co \in ToWord(ppb[1]), no2 \in ToWord(ppb[2]),
           so2 \in ToWord(ppb[3]), o3 \in ToWord(ppb[4]) :
        bytes = Laid(tem, hum, pre, co, o3, so2, no2)
  BY SMTT(60) DEF MakeLoRaPayload
<1>2. /\ bytes[1] = tem /\ bytes[2] = hum
      /\ PressureIn(bytes) = Low(pre) + ByteSize * High(pre)
  BY <1>1 DEF PressureIn, Word, Laid
<1> QED
  BY <1>2

LEMMA PressureByte ==
    ASSUME BmeInv, SentInv, raw # <<>>, amb.air.pre \in 0 .. WordSize - 1
    PROVE  PressureIn(raw) = amb.air.pre \div 100
<1> DEFINE ppb == [k \in Sensors |-> row[k].con]
           hundreds == amb.air.pre \div 100
<1>1. raw \in MakeLoRaPayload(amb.air, ppb)
  BY DEF SentInv, Sent
<1>2. WordSize \in Nat /\ WordSize > 1
  BY PayloadAssumption
<1>3. hundreds \in Int /\ 0 <= hundreds /\ hundreds < WordSize
  BY <1>2
<1> HIDE DEF ppb
<1>4. PICK w \in Unsigned(hundreds, WordSize) : PressureIn(raw) = Low(w) + ByteSize * High(w)
  BY <1>1, AirBytes DEF Pressure
<1>5. hundreds \in 0 .. WordSize - 1
  BY <1>2, <1>3
<1> HIDE DEF hundreds
<1>6. w = hundreds
  BY <1>4, <1>5, UnsignedOfFitting
<1> QED
  BY <1>4, <1>5, <1>6, Bytes DEF hundreds

LEMMA AirArrives ==
    ASSUME SettingsInv, BmeInv, RowInv, SentInv
    PROVE  ValidAirArrives
<1> SUFFICES ASSUME raw # <<>>, NEW i \in Sensors, Valid(i)
             PROVE  LET op == mem[i].operation IN
                    /\ FitsSignedByte(op.temperature) => TemperatureIn(raw) = amb.air.temp
                    /\ Within(op.humidity, 0, ByteSize - 1) => HumidityIn(raw) = amb.air.hum
                    /\ Within(op.pressure, 0, WordSize - 1)
                         => PressureIn(raw) = amb.air.pre \div 100
  BY DEF ValidAirArrives
<1> DEFINE op  == mem[i].operation
           ppb == [k \in Sensors |-> row[k].con]
<1>1. raw \in MakeLoRaPayload(amb.air, ppb)
  BY DEF SentInv, Sent
<1> HIDE DEF ppb
<1>2. raw[1] \in Signed8(amb.air.temp) /\ raw[2] \in Unsigned(amb.air.hum, ByteSize)
  BY <1>1, AirBytes
<1>3. /\ op.temperature \in Limits /\ op.humidity \in Limits /\ op.pressure \in Limits
      /\ amb.air.temp \in Int /\ amb.air.hum \in Int /\ amb.air.pre \in Int
  BY DEF SettingsInv, SettingsTypeOK, Memory, Operation, BmeInv, Values, Air
<1>4. /\ ~Less(Number(amb.air.temp), op.temperature[1])
      /\ ~Less(op.temperature[2], Number(amb.air.temp))
      /\ ~Less(Number(amb.air.pre), op.pressure[1])
      /\ ~Less(op.pressure[2], Number(amb.air.pre))
      /\ ~Less(Number(amb.air.hum), op.humidity[1])
      /\ ~Less(op.humidity[2], Number(amb.air.hum))
  BY ValidAirFits
<1> HIDE DEF op
<1>6. ByteSize \in Nat /\ ByteSize > 1 /\ WordSize \in Nat
  BY PayloadAssumption
<1>7. ASSUME FitsSignedByte(op.temperature)
      PROVE  TemperatureIn(raw) = amb.air.temp
  <2>1. -ByteSize <= 2 * amb.air.temp /\ 2 * amb.air.temp < ByteSize
    <3>1. -(ByteSize \div 2) \in Int /\ (ByteSize - 1) \div 2 \in Int
      BY <1>6
    <3>2. -(ByteSize \div 2) <= amb.air.temp /\ amb.air.temp <= (ByteSize - 1) \div 2
      BY <1>3, <1>4, <1>7, <3>1, AirWithin DEF FitsSignedByte
    <3> QED
      BY <1>3, <1>6, <3>2
  <2> DEFINE t == amb.air.temp
  <2>2. raw[1] = t % ByteSize /\ t \in Int
    BY <1>2, <1>3 DEF Signed8
  <2> HIDE DEF t
  <2>3. 0 <= t /\ t < ByteSize => t % ByteSize = t
    BY <1>6, <2>2, ModuloOfSmall
  <2>4. -ByteSize <= t /\ t < 0 => t % ByteSize = t + ByteSize
    BY <1>6, <2>2, ModuloOfSmall
  <2>5. -ByteSize <= 2 * t /\ 2 * t < ByteSize
    BY <2>1 DEF t
  <2>6. CASE t >= 0
    <3>1. raw[1] = t /\ 2 * raw[1] < ByteSize
      BY <1>6, <2>2, <2>3, <2>5, <2>6
    <3> QED
      BY <3>1 DEF TemperatureIn, t
  <2>7. CASE t < 0
    <3>1. raw[1] = t + ByteSize
      BY <1>6, <2>2, <2>4, <2>5, <2>7
    <3>2. ~(2 * raw[1] < ByteSize) /\ raw[1] - ByteSize = t
      BY <1>6, <2>2, <2>5, <3>1
    <3> QED
      BY <3>2 DEF TemperatureIn, t
  <2> QED
    BY <2>2, <2>6, <2>7
<1>8. ASSUME Within(op.humidity, 0, ByteSize - 1)
      PROVE  HumidityIn(raw) = amb.air.hum
  <2>1. 0 <= amb.air.hum /\ amb.air.hum <= ByteSize - 1
    BY <1>3, <1>4, <1>6, <1>8, AirWithin
  <2>2. amb.air.hum \in 0 .. ByteSize - 1
    BY <1>3, <1>6, <2>1
  <2> QED
    BY <1>2, <2>2, UnsignedOfFitting DEF HumidityIn
<1>9. ASSUME Within(op.pressure, 0, WordSize - 1)
      PROVE  PressureIn(raw) = amb.air.pre \div 100
  <2>1. 0 <= amb.air.pre /\ amb.air.pre <= WordSize - 1
    BY <1>3, <1>4, <1>6, <1>9, AirWithin
  <2>2. amb.air.pre \in 0 .. WordSize - 1
    BY <1>3, <1>6, <2>1
  <2> QED
    BY <2>2, PressureByte
<1> QED
  BY <1>7, <1>8, <1>9 DEF op

(***************************************************************************)
(* The pressure of every uplink arrives as the hundreds of the hPa that    *)
(* were measured, whatever they were: divided by 100 once in bme280.cpp    *)
(* and once more in clientModel.cpp:20, it never tells more than that.     *)
(***************************************************************************)
THEOREM PressureLosesTwoDigits == Spec => []PressureInHundreds
<1>1. BmeInv /\ SentInv => PressureInHundreds
  BY PressureByte DEF PressureInHundreds
<1> QED
  BY <1>1, BmeInvariant, SentInvariant, PTL

(***************************************************************************)
(* Temperature and humidity of an uplink with a valid gas reach the        *)
(* receiver as they were measured, negative temperatures too, when that    *)
(* gas's limits fit the bytes they are sent in (clientModel.cpp:18-20).    *)
(***************************************************************************)
THEOREM ValidAirIsSentWhole == Spec => []ValidAirArrives
<1>1. SettingsInv /\ BmeInv /\ RowInv /\ SentInv => ValidAirArrives
  BY AirArrives
<1> QED
  BY <1>1, SettingsInvariant, BmeInvariant, RowInvariant, SentInvariant, PTL

-----------------------------------------------------------------------------
(* The range close to zero.                                                *)

FirstRange == Flag!ZeroRange(Cond(1))

\* The flag a gas has been given is that of its number and the first range.
ByFirst(i) ==
    \/ row[i] = Blank
    \/ \E con, z : con = row[i].con /\ z = FirstRange /\ row[i].flag = FlagOf(i, con, z)

\* main asks the first sensor first, so the static takes its range, for good.
ZeroInv ==
    /\ pc = "start" => zero = Flag!Unset
    /\ zero = Flag!Unset => gas = 1
    /\ zero # Flag!Unset => zero = FirstRange
    /\ \A i \in Sensors : ByFirst(i)

\* A valid value is called close to zero when it is so for the first sensor; a NaN
\* never is.
ZeroOfFirstSensor ==
    \A i \in Sensors :
        Valid(i) => (row[i].flag = "VZ"
                       <=> Flag!Near(Flag!Twentieths(row[i].con), FirstRange))

LEMMA ZeroWhenBlank ==
    ASSUME row' = NoRow, zero = Flag!Unset \/ zero = FirstRange, mem' = mem,
           zero' = zero, pc' # "start", zero = Flag!Unset => gas' = 1
    PROVE  ZeroInv'
<1>1. \A i \in Sensors : row'[i] = Blank
  BY DEF NoRow
<1>2. FirstRange' = FirstRange
  BY DEF FirstRange, Flag!ZeroRange, Cond
<1>3. Blank' = Blank
  BY DEF Blank, NaN
<1> QED
  BY <1>1, <1>2, <1>3 DEF ZeroInv, ByFirst

LEMMA ZeroAfresh ==
    ASSUME row' = NoRow, zero' = Flag!Unset, gas' = 1
    PROVE  ZeroInv'
<1>1. \A i \in Sensors : row'[i] = Blank
  BY DEF NoRow
<1>2. Blank' = Blank
  BY DEF Blank, NaN
<1> QED
  BY <1>1, <1>2 DEF ZeroInv, ByFirst

LEMMA ZeroStays ==
    ASSUME ZeroInv, UNCHANGED <<mem, amb, row, zero, gas>>, pc # "start" => pc' # "start"
    PROVE  ZeroInv'
<1>1. FirstRange' = FirstRange /\ Blank' = Blank
  BY DEF FirstRange, Flag!ZeroRange, Cond, Blank, NaN
<1>2. ASSUME NEW i \in Sensors
      PROVE  ByFirst(i)'
  <2>1. CASE row[i] = Blank
    BY <1>1, <2>1 DEF ByFirst
  <2>2. CASE row[i] # Blank
    <3>1. PICK con, z : con = row[i].con /\ z = FirstRange /\ row[i].flag = FlagOf(i, con, z)
      BY <2>2 DEF ZeroInv, ByFirst
    <3>2. con = row'[i].con /\ z = FirstRange' /\ row'[i].flag = FlagOf(i, con, z)'
      BY <1>1, <3>1, SameVerdict
    <3> QED
      BY <3>2 DEF ByFirst
  <2> QED
    BY <2>1, <2>2
<1> QED
  BY <1>1, <1>2 DEF ZeroInv

LEMMA ZeroJudge ==
    ASSUME RowInv, ZeroInv, NEW con, NEW we, NEW ae, Judge(con, we, ae), pc = "gas"
    PROVE  ZeroInv'
<1>1. UNCHANGED <<mem, amb>> /\ pc' # "start" /\ gas \in Sensors
  BY DEF Judge, settingsVars, bmeVars, RowInv
<1>2. FirstRange' = FirstRange /\ Blank' = Blank
  BY <1>1 DEF FirstRange, Flag!ZeroRange, Cond, Blank, NaN
<1>3. zero' = FirstRange
  <2>1. zero = Flag!Unset => gas = 1
    BY DEF ZeroInv
  <2> QED
    BY <2>1 DEF Judge, ZeroInv, FirstRange
<1>4. zero' # Flag!Unset
  BY <1>3 DEF FirstRange, Flag!ZeroRange, Flag!Unset
<1>5. /\ row' = [row EXCEPT ![gas] = [con |-> con, flag |-> FlagOf(gas, con, zero'),
                                      cell |-> Cell(gas)]]
      /\ row = [i \in Sensors |-> row[i]]
  BY DEF Judge, RowInv
<1>6. ASSUME NEW i \in Sensors
      PROVE  ByFirst(i)'
  <2>1. CASE i = gas
    <3>1. PICK z : z = zero'
      OBVIOUS
    <3>2. con = row'[i].con /\ row'[i].flag = FlagOf(i, con, z)
      BY <1>1, <1>5, <2>1, <3>1
    <3>3. FlagOf(i, con, z)' = FlagOf(i, con, z)
      BY <1>1, SameVerdict
    <3>4. con = row'[i].con /\ z = FirstRange' /\ row'[i].flag = FlagOf(i, con, z)'
      BY <1>2, <1>3, <3>1, <3>2, <3>3
    <3> QED
      BY <3>4 DEF ByFirst
  <2>2. CASE i # gas
    <3>1. row'[i] = row[i]
      BY <1>1, <1>5, <2>2
    <3>2. CASE row[i] = Blank
      BY <1>2, <3>1, <3>2 DEF ByFirst
    <3>3. CASE row[i] # Blank
      <4>1. PICK c, z : c = row[i].con /\ z = FirstRange /\ row[i].flag = FlagOf(i, c, z)
        BY <3>3 DEF ZeroInv, ByFirst
      <4>2. c = row'[i].con /\ z = FirstRange' /\ row'[i].flag = FlagOf(i, c, z)'
        BY <1>1, <1>2, <3>1, <4>1, SameVerdict
      <4> QED
        BY <4>2 DEF ByFirst
    <3> QED
      BY <3>2, <3>3
  <2> QED
    BY <2>1, <2>2
<1> QED
  BY <1>1, <1>2, <1>3, <1>4, <1>6 DEF ZeroInv

LEMMA ZeroStep == ASSUME RowInv, ZeroInv, [Next]_vars PROVE ZeroInv'
<1>1. CASE Load \/ Restart
  <2>1. pc = "start" /\ UNCHANGED <<pc, row, zero, gas>>
    BY <1>1 DEF Load, Restart, GetSettings, ReadFile, ReadFails, LoadEntry, EntryFails,
       LoadAeroqual, AeroqualFails, RowInv, mainVars
  <2>2. row' = NoRow /\ zero' = Flag!Unset /\ gas' = 1
    BY <2>1 DEF RowInv, ZeroInv
  <2> QED
    BY <2>2, ZeroAfresh
<1>2. CASE NoPower \/ Crash
  BY <1>2, ZeroAfresh DEF NoPower, Crash, Die
<1>3. CASE Start \/ ReadAmbient \/ Chip \/ SendPayload \/ UNCHANGED vars
  <2>1. UNCHANGED <<mem, amb, row, zero, gas>> /\ (pc # "start" => pc' # "start")
    BY <1>3 DEF Start, ReadAmbient, Trigger, ReadWord, Chip, Finish, SendPayload,
       settingsVars, bmeVars, mainVars, vars
  <2> QED
    BY <2>1, ZeroStays
<1>4. CASE BeginTurn \/ AmbientDone
  <2>1. /\ row' = NoRow /\ mem' = mem /\ zero' = zero /\ pc' # "start"
        /\ gas' \in {gas, 1}
    BY <1>4 DEF BeginTurn, AmbientDone, RowInv, settingsVars
  <2>2. /\ zero = Flag!Unset \/ zero = FirstRange
        /\ zero = Flag!Unset => gas' = 1
    BY <2>1 DEF ZeroInv
  <2> QED
    BY <2>1, <2>2, ZeroWhenBlank
<1>5. CASE MeasureAlphasense \/ MeasureAeroqual
  BY <1>5, ZeroJudge DEF MeasureAlphasense, MeasureAeroqual
<1> QED
  BY <1>1, <1>2, <1>3, <1>4, <1>5 DEF Next, Main

LEMMA ZeroInvariant == Spec => []ZeroInv
<1>1. Init => ZeroInv
  BY DEF Init, MainInit, ZeroInv, ByFirst, NoRow
<1>2. RowInv /\ ZeroInv /\ [Next]_vars => ZeroInv'
  BY ZeroStep
<1> QED
  BY <1>1, <1>2, RowInvariant, PTL DEF Spec

(***************************************************************************)
(* Which values are flagged as close to zero is settled by the range of    *)
(* the first sensor of the list, for every sensor and for the whole life   *)
(* of the process: exactly the valid numbers close to zero by that range   *)
(* are flagged VZ (flagManager.cpp:57, main.cpp:151-172).                  *)
(***************************************************************************)
THEOREM ZeroIsFirstSensors == Spec => []ZeroOfFirstSensor
<1>1. ASSUME ZeroInv PROVE ZeroOfFirstSensor
  <2> SUFFICES ASSUME NEW i \in Sensors, Valid(i)
               PROVE  row[i].flag = "VZ"
                        <=> Flag!Near(Flag!Twentieths(row[i].con), FirstRange)
    BY DEF ZeroOfFirstSensor
  <2> DEFINE n == Flag!CheckRanges(Cond(i), Flag!Twentieths(row[i].con), FirstRange)
  <2>1. row[i] # Blank
    BY DEF Valid, Blank
  <2>2. row[i].flag = Flag!Decide(Flag!CheckAmbient(Cond(i), amb.air),
                                  Flag!CheckLife(Cond(i)), n)
    BY <1>1, <2>1 DEF ZeroInv, ByFirst, FlagOf
  <2>3. n \in 0 .. 3 /\ (n = 3 => Flag!Near(Flag!Twentieths(row[i].con), FirstRange))
        /\ (n = 0 => ~Flag!Near(Flag!Twentieths(row[i].con), FirstRange))
    BY DEF Flag!CheckRanges
  <2> HIDE DEF n
  <2>4. /\ row[i].flag = "VZ" => n = 3
        /\ row[i].flag = "VA" => n = 0
    BY <2>2, <2>3 DEF Flag!Decide
  <2> QED
    BY <2>3, <2>4 DEF Valid
<1> QED
  BY <1>1, ZeroInvariant, PTL

=============================================================================
