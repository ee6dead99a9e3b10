------------------------------ MODULE Settings ------------------------------
(***************************************************************************)
(* Loading the configuration: getSettings and strToTime of                 *)
(* cfgSettings.cpp, over the libconfig calls they make.                    *)
(*                                                                         *)
(* There are two kinds of settings.  What is read with lookup or [] must   *)
(* be there and of its type, or the process exits.  What is read with      *)
(* lookupValue may be missing or of another type: the field of mainCfg, a  *)
(* local of main that nothing initialises, then stays what it was.  Only   *)
(* startuptime is looked up into a string that all entries share.          *)
(***************************************************************************)
EXTENDS Floats, Sequences

CONSTANTS
    Files,          \* the configuration files the operator may leave
    Junk,           \* what the memory of mainCfg may hold before it is set
    MkTime          \* mktime's result, as an int, for each text it may be given

VARIABLES
    stage,     \* where getSettings stands
    file,      \* the configuration file
    next,      \* the sensor entry to be loaded
    tmpStr,    \* _tmpStr, the string shared by all entries
    mem        \* what mainCfg holds for each sensor

settingsVars == <<stage, file, next, tmpStr, mem>>

-----------------------------------------------------------------------------

Alphasense == 1 .. 3
Aeroqual   == 4
Sensors    == Alphasense \cup {Aeroqual}

\* What lookupValue reads in an entry's Sensor group.
Looked == {"sensor", "compensate", "algorithm", "we_electronic", "we_total",
           "ae_electronic", "ae_total", "sensitivity"}

Adcs == 1 .. 2

\* The three of them that are ints have no other value than .value.
Features == [Looked -> Floats]

Limits == Floats \X Floats

\* A text is the fields, of day, month and year, that strptime finds in it before
\* it stops; all three make a date.
Texts == DOMAIN MkTime
Empty == <<>>

\* The operating conditions without the start-up time.
Operation == [temperature : Limits, pressure : Limits, humidity : Limits,
              ranges : Limits, lifeTime : Int]

\* An entry: are the settings it must have all there, which of the others are
\* given with their types and as what, how many ADCs it lists, and its
\* startuptime: one text, or none when it is missing or no string.
Entries == [whole : BOOLEAN, given : SUBSET Looked, features : Features,
            adcs : Nat, startup : Seq(Texts), operation : Operation]

\* A file: can it be read, are the settings outside the sensor entries that must
\* be there all there, is txPower a number, and the entries.
ConfigFiles == [readable : BOOLEAN, whole : BOOLEAN, numeric : BOOLEAN,
                alphasense : Seq(Entries), aeroqual : Entries]

\* A float the memory holds may be anything a float may be.
Memory == [features : Features, adcs : SUBSET Adcs, startup : Int,
           operation : Operation]

\* More entries or ADCs than mainCfg has room for are written past its arrays;
\* the files considered have no more.
ASSUME SettingsAssumption ==
    /\ Files \subseteq ConfigFiles
    /\ \A f \in Files :
         /\ Len(f.alphasense) <= 3
         /\ \A i \in 1 .. Len(f.alphasense) : f.alphasense[i].adcs <= 2
    /\ Junk \subseteq Memory
    /\ Empty \in Texts
    /\ MkTime \in [Texts -> Int]

\* projectCfg mainCfg; a fresh string, and memory that holds anything.
SettingsInit ==
    /\ stage = "read" /\ next = 1 /\ tmpStr = Empty
    /\ file \in Files
    /\ \E j \in Junk : mem = [i \in Sensors |-> [j EXCEPT !.adcs = {}]]

-----------------------------------------------------------------------------

Exit == stage' = "exit" /\ UNCHANGED <<file, next, tmpStr, mem>>

\* The lookups outside the entries that fail end the process; so does stoi later
\* in sendTP, before anything is measured.
ReadFile ==
    /\ stage = "read" /\ file.readable /\ file.whole
    /\ stage' = "entries"
    /\ UNCHANGED <<file, next, tmpStr, mem>>

ReadFails ==
    /\ stage = "read" /\ ~(file.readable /\ file.whole)
    /\ Exit

\* Mutation of LookUp: what is not there becomes zero.
LookUpOrZero(old, entry) ==
    [n \in Looked |-> IF n \in entry.given THEN entry.features[n] ELSE Number(0)]

\* The lookupValue calls: what is not there stays as it was.
LookUp(old, entry) ==
    [n \in Looked |-> IF n \in entry.given THEN entry.features[n] ELSE old[n]]

\* Mutation of NextText: every entry starts from an empty string.
NextTextOwn(entry) == IF entry.startup # <<>> THEN Head(entry.startup) ELSE Empty
NextText(entry)    == IF entry.startup # <<>> THEN Head(entry.startup) ELSE tmpStr

\* A string that is no date is reported in the log, and mktime makes a time of the
\* fields found in it all the same: the others are zero.
StrToTime(text) == MkTime[text]

\* One turn of the loop over the entries, for the entry at hand.
LoadEntry ==
    /\ stage = "entries" /\ next <= Len(file.alphasense)
    /\ LET e == file.alphasense[next] IN
         /\ e.whole
         /\ tmpStr' = NextText(e)
         /\ mem' = [mem EXCEPT ![next] =
                      [features |-> LookUp(@.features, e), adcs |-> 1 .. e.adcs,
                       startup |-> StrToTime(tmpStr'), operation |-> e.operation]]
    /\ next' = next + 1
    /\ UNCHANGED <<stage, file>>

EntryFails ==
    /\ stage = "entries" /\ next <= Len(file.alphasense)
    /\ ~file.alphasense[next].whole
    /\ Exit

\* The aeroqual entry, with one ADC and no features, and the LoRa settings.
LoadAeroqual ==
    /\ stage = "entries" /\ next > Len(file.alphasense)
    /\ file.aeroqual.whole
    /\ tmpStr' = NextText(file.aeroqual)
    /\ mem' = [mem EXCEPT ![Aeroqual] =
                 [@ EXCEPT !.adcs = {1}, !.startup = StrToTime(tmpStr'),
                           !.operation = file.aeroqual.operation]]
    /\ stage' = "loaded"
    /\ UNCHANGED <<file, next>>

AeroqualFails ==
    /\ stage = "entries" /\ next > Len(file.alphasense)
    /\ ~file.aeroqual.whole
    /\ Exit

\* The service manager starts the process again, with the file of the day and
\* with memory that again holds anything.
Reload ==
    /\ stage' = "read" /\ next' = 1 /\ tmpStr' = Empty
    /\ file' \in Files
    /\ \E j \in Junk : mem' = [i \in Sensors |-> [j EXCEPT !.adcs = {}]]

GetSettings ==
    \/ ReadFile \/ ReadFails
    \/ LoadEntry \/ EntryFails
    \/ LoadAeroqual \/ AeroqualFails

\* The process may also end later, by whatever main does with its settings.
SettingsNext == GetSettings \/ Exit \/ (stage = "exit" /\ Reload)

SettingsSpec == SettingsInit /\ [][SettingsNext]_settingsVars

-----------------------------------------------------------------------------

SettingsTypeOK ==
    /\ stage \in {"read", "entries", "loaded", "exit"}
    /\ file \in Files
    /\ next \in 1 .. 4
    /\ tmpStr \in Texts
    /\ mem \in [Sensors -> Memory]

EntryOf(i) == IF i = Aeroqual THEN file.aeroqual ELSE file.alphasense[i]

\* The sensors whose entries getSettings has read.
ReadSoFar == 1 .. next - 1
Read      == IF stage = "loaded" THEN ReadSoFar \cup {Aeroqual} ELSE ReadSoFar

\* The entries with a string up to sensor i's own.
WithText(i) == {j \in Read : j <= i /\ EntryOf(j).startup # <<>>}

(***************************************************************************)
(* The age of a sensor is counted from the date of its own entry or, when  *)
(* that has no string (mainConfig.cfg:112), from the one of the nearest    *)
(* entry before it that has, as if it were its own (cfgSettings.cpp:102);  *)
(* with no such entry it is the time mktime makes of no field at all.      *)
(***************************************************************************)
StartupOfNearestText ==
    \A i \in Read :
        /\ WithText(i) = {} => mem[i].startup = StrToTime(Empty)
        /\ \A j \in WithText(i) :
             (\A k \in WithText(i) : k <= j)
                 => mem[i].startup = StrToTime(Head(EntryOf(j).startup))

(***************************************************************************)
(* A process that got past getSettings has, for every entry of the file,   *)
(* the settings the entry gives with their right types, and nothing but    *)
(* the accidental contents of the memory for a setting it does not: a      *)
(* sensitivity written as 1 for 1.0 is neither reported nor defaulted      *)
(* (cfgSettings.cpp:74-81), nor is a sensor main uses and the file lacks.  *)
(***************************************************************************)
LoadedOrJunk ==
    stage = "loaded" =>
        /\ file.readable /\ file.whole /\ file.aeroqual.whole
        /\ \E j \in Junk : \A i \in Alphasense :
             IF i <= Len(file.alphasense)
             THEN /\ file.alphasense[i].whole
                  /\ mem[i].adcs = 1 .. file.alphasense[i].adcs
                  /\ mem[i].operation = file.alphasense[i].operation
                  /\ \A n \in Looked :
                       mem[i].features[n] = IF n \in file.alphasense[i].given
                                            THEN file.alphasense[i].features[n]
                                            ELSE j.features[n]
             ELSE mem[i].features = j.features /\ mem[i].operation = j.operation

=============================================================================
