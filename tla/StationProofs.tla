--------------------------- MODULE StationProofs ---------------------------
(***************************************************************************)
(* Theorems about the serial exchange alone (LoraLink): its type invariant,*)
(* and what an OK means to a client that keeps Send's rule; then about the *)
(* station: its type invariant, the inductive invariant of StationInv, the *)
(* safety properties that follow from it, and that the station implements  *)
(* the client LoraLink assumes.                                            *)
(***************************************************************************)
EXTENDS StationInv, TLAPS

-----------------------------------------------------------------------------
(* The exchange: LoraLink by itself.                                       *)

\* Adding one to a frame counter wraps inside its type.
LEMMA BumpType == \A n \in Counters : Bump(n) \in Counters
  BY FcModAssumption, SMT DEF Bump, Counters

\* Ageing requests or replies keeps their type.
LEMMA StaleType ==
    /\ \A q \in SUBSET Requests : Stale(q) \subseteq Requests
    /\ \A q \in SUBSET Replies : Stale(q) \subseteq Replies
  BY DEF Stale, Requests, Replies

\* Whatever the stick does for a request keeps its state in type.
LEMMA PerformType ==
  ASSUME LinkTypeOK, NEW r \in Requests, Perform(r)
  PROVE  stick' \in [fc : Counters, set : SUBSET Params] /\ aired' \subseteq Counters
<1>1. CASE r.cmd = "SP"
  <2>1. aired' = aired \cup {stick.fc} /\ stick' = [stick EXCEPT !.fc = Bump(@)]
    BY <1>1 DEF Perform
  <2> QED
    BY <2>1, BumpType DEF LinkTypeOK
<1>2. CASE r.cmd = "FC"
  <2>1. stick' = [fc |-> r.fc, set |-> stick.set \cup {"FC"}] /\ aired' = aired
    BY <1>2 DEF Perform
  <2> QED
    BY <2>1 DEF LinkTypeOK, Requests, Params
<1>3. CASE r.cmd = "CC"
  <2>1. UNCHANGED <<stick, aired>>
    BY <1>3 DEF Perform
  <2> QED
    BY <2>1 DEF LinkTypeOK
<1>4. CASE r.cmd \notin {"SP", "FC", "CC"}
  <2>1. stick' = [stick EXCEPT !.set = @ \cup {r.cmd}] /\ aired' = aired
    BY <1>4 DEF Perform
  <2>2. r.cmd \in Params
    BY <1>4 DEF Requests, Commands
  <2> QED
    BY <2>1, <2>2 DEF LinkTypeOK
<1> QED
  BY <1>1, <1>2, <1>3, <1>4

\* A step of the line or of the client keeps the link's state in type.
LEMMA LinkTypeStep ==
  ASSUME LinkTypeOK,
         \/ \E c \in Commands, n \in Counters : Write(c, n)
         \/ Flush \/ Read \/ Hangup \/ Transmit \/ Serve
         \/ PowerCycle \/ EnvChange \/ UNCHANGED linkVars
  PROVE  LinkTypeOK'
<1>1. CASE \E c \in Commands, n \in Counters : Write(c, n)
  <2>1. PICK c \in Commands, n \in Counters : Write(c, n)
    BY <1>1
  <2>2. [cmd |-> c, fc |-> n, cur |-> TRUE] \in Requests
    BY DEF Requests
  <2> QED
    BY <2>1, <2>2, StaleType DEF Write, LinkTypeOK
<1>2. CASE Flush
  BY <1>2 DEF Flush, LinkTypeOK
<1>3. CASE Read
  BY <1>3 DEF Read, LinkTypeOK
<1>4. CASE Hangup
  BY <1>4 DEF Hangup, LinkTypeOK
<1>5. CASE Transmit
  BY <1>5 DEF Transmit, LinkTypeOK
<1>6. CASE Serve
  <2>1. PICK r \in rx : /\ rx' = rx \ {r}
                        /\ Answer(r) \/ Mute(r) \/ Ignore(r)
                        /\ UNCHANGED <<env, phase, outq>>
    BY <1>6 DEF Serve
  <2>2. r \in Requests
    BY DEF LinkTypeOK
  <2>3. stick' \in [fc : Counters, set : SUBSET Params] /\ aired' \subseteq Counters
    BY <2>1, <2>2, PerformType DEF Answer, Mute, Ignore, LinkTypeOK
  <2>4. \A b \in BOOLEAN : [ok |-> b, cur |-> r.cur] \in Replies
    BY <2>2 DEF Replies, Requests
  <2>5. \/ inq' = inq
        \/ \E b \in BOOLEAN : inq' = inq \cup {[ok |-> b, cur |-> r.cur]}
    BY <2>1 DEF Answer, Mute, Ignore
  <2>6. inq' \subseteq Replies
    BY <2>4, <2>5 DEF LinkTypeOK
  <2> QED
    BY <2>1, <2>3, <2>6 DEF LinkTypeOK
<1>7. CASE PowerCycle
  BY <1>7, FcModAssumption DEF PowerCycle, LinkTypeOK, Counters
<1>8. CASE EnvChange
  BY <1>8 DEF EnvChange, LinkTypeOK
<1>9. CASE UNCHANGED linkVars
  BY <1>9 DEF linkVars, LinkTypeOK
<1> QED
  BY <1>1, <1>2, <1>3, <1>4, <1>5, <1>6, <1>7, <1>8, <1>9

(***************************************************************************)
(* The state of the port and of the stick keeps its types: in particular   *)
(* the stick's frame counter wraps inside its range.                       *)
(***************************************************************************)
THEOREM LinkTypeCorrect == LinkSpec => []LinkTypeOK
<1>1. LinkInit => LinkTypeOK
  BY FcModAssumption DEF LinkInit, LinkTypeOK, Counters
<1>2. LinkTypeOK /\ [LinkNext]_linkVars => LinkTypeOK'
  BY LinkTypeStep DEF LinkNext, Send, Accept, Reject
<1> QED
  BY <1>1, <1>2, PTL DEF LinkSpec

-----------------------------------------------------------------------------

(***************************************************************************)
(* The strengthening: from the write on there is one request, the latest;  *)
(* from the flush on every reply is to it too.                             *)
(***************************************************************************)
OneInFlight ==
    /\ phase # "idle" =>
         /\ \A r, s \in outq \cup rx : r = s
         /\ \A r \in outq \cup rx : r.cur
    /\ OneExchange

LEMMA OneInFlightStep ==
  ASSUME LinkTypeOK, OneInFlight, [LinkNext]_linkVars
  PROVE  OneInFlight'
<1> USE DEF OneInFlight, OneExchange
<1>1. ASSUME NEW c \in Commands, NEW n \in Counters, Send(c, n)
      PROVE  OneInFlight'
  <2>1. phase' = "written" /\ outq' = {[cmd |-> c, fc |-> n, cur |-> TRUE]} /\ rx' = {}
    BY <1>1 DEF Send, Drained, Write, Stale
  <2> QED
    BY <2>1
<1>2. CASE Flush
  BY <1>2 DEF Flush
<1>3. CASE Accept \/ Reject
  BY <1>3 DEF Accept, Reject, Read
<1>4. CASE Hangup
  BY <1>4 DEF Hangup
<1>5. CASE Transmit
  BY <1>5 DEF Transmit
<1>6. CASE Serve
  <2>1. PICK r \in rx : /\ rx' = rx \ {r}
                        /\ Answer(r) \/ Mute(r) \/ Ignore(r)
                        /\ UNCHANGED <<env, phase, outq>>
    BY <1>6 DEF Serve
  <2>2. \A a \in inq' : a \in inq \/ a.cur = r.cur
    BY <2>1 DEF Answer, Mute, Ignore
  <2> QED
    BY <2>1, <2>2
<1>7. CASE PowerCycle
  BY <1>7 DEF PowerCycle
<1>8. CASE EnvChange
  BY <1>8 DEF EnvChange
<1>9. CASE UNCHANGED linkVars
  BY <1>9 DEF linkVars
<1> QED
  BY <1>1, <1>2, <1>3, <1>4, <1>5, <1>6, <1>7, <1>8, <1>9 DEF LinkNext

(***************************************************************************)
(* For a client that waits out every exchange it has given up, at most one *)
(* request is on the line while it waits.                                  *)
(***************************************************************************)
THEOREM OneAtATime == LinkSpec => []OneInFlight
<1>1. LinkInit => OneInFlight
  BY DEF LinkInit, OneInFlight, OneExchange
<1>2. LinkTypeOK /\ OneInFlight /\ [LinkNext]_linkVars => OneInFlight'
  BY OneInFlightStep
<1> QED
  BY <1>1, <1>2, LinkTypeCorrect, PTL DEF LinkSpec

(***************************************************************************)
(* An OK that ends an exchange answers the command of that exchange.       *)
(***************************************************************************)
THEOREM OkIsForThisCommand == LinkSpec => []OkAnswersThisCommand
<1>1. OneInFlight => OkAnswersThisCommand
  BY DEF OneInFlight, OneExchange, OkAnswersThisCommand
<1> QED
  BY <1>1, OneAtATime, PTL

(***************************************************************************)
(* After an OK nothing older is left on the line.                          *)
(***************************************************************************)
THEOREM OkLeavesQuiet == LinkSpec => []OkMeansQuiet
<1>1. OneInFlight => OkMeansQuiet
  BY DEF OneInFlight, OneExchange, OkMeansQuiet, Heard, Drained
<1> QED
  BY <1>1, OneAtATime, PTL

-----------------------------------------------------------------------------
(* The station.                                                            *)

\* The configuration's eight commands are the eight parameters, FC the last.
LEMMA OrderFacts ==
    /\ Len(Order) = 8
    /\ \A i \in 1 .. 8 : Order[i] \in Params
    /\ \A i \in 1 .. 7 : Order[i] # "FC"
    /\ Order[8] = "FC"
    /\ \A p \in Params : \E i \in 1 .. 8 : Order[i] = p
<1>1. /\ Len(Order) = 8
      /\ Order[1] = "TP" /\ Order[2] = "AM" /\ Order[3] = "DR" /\ Order[4] = "CH"
      /\ Order[5] = "NK" /\ Order[6] = "AK" /\ Order[7] = "DA" /\ Order[8] = "FC"
  BY DEF Order
<1>2. \A i \in 1 .. 8 : i \in {1, 2, 3, 4, 5, 6, 7, 8}
  OBVIOUS
<1>3. \A i \in 1 .. 7 : i \in {1, 2, 3, 4, 5, 6, 7}
  OBVIOUS
<1>4. 1 \in 1 .. 8 /\ 2 \in 1 .. 8 /\ 3 \in 1 .. 8 /\ 4 \in 1 .. 8
      /\ 5 \in 1 .. 8 /\ 6 \in 1 .. 8 /\ 7 \in 1 .. 8 /\ 8 \in 1 .. 8
  OBVIOUS
<1>5. \A i \in 1 .. 8 : Order[i] \in Params
  BY <1>1, <1>2 DEF Params
<1>6. \A i \in 1 .. 7 : Order[i] # "FC"
  BY <1>1, <1>3
<1>7. \A p \in Params : \E i \in 1 .. 8 : Order[i] = p
  BY <1>1, <1>4 DEF Params
<1> QED
  BY <1>1, <1>5, <1>6, <1>7

\* What main is about to send is a command of the protocol, in type.
LEMMA CommandType ==
  ASSUME TypeOK, pc \in Talking
  PROVE  /\ Command \in Commands
         /\ Argument \in Counters
         /\ pc = "cc" => Command = "CC"
         /\ pc = "send" => Command = "SP"
         /\ pc = "config" => Command = Order[step] /\ Command \in Params
<1>1. CASE pc = "cc"
  BY <1>1, FcModAssumption DEF Command, Argument, Commands, Counters
<1>2. CASE pc = "send"
  BY <1>2, FcModAssumption DEF Command, Argument, Commands, Counters
<1>3. CASE pc = "config"
  <2>1. Command = Order[step]
    BY <1>3 DEF Command
  <2>2. Order[step] \in Params
    BY <1>3, OrderFacts DEF TypeOK
  <2>3. Argument \in Counters
    BY FcModAssumption DEF Argument, Counters, TypeOK
  <2> QED
    BY <1>3, <2>1, <2>2, <2>3 DEF Commands
<1> QED
  BY <1>1, <1>2, <1>3 DEF Talking

\* Every step of the station is a step of the link, or leaves the link alone.
LEMMA LinkMoves ==
  ASSUME TypeOK, Next
  PROVE  \/ pc \in Talking /\ Write(Command, Argument) /\ UNCHANGED stationVars
         \/ Flush /\ UNCHANGED stationVars
         \/ Read \/ Hangup \/ Transmit \/ Serve \/ PowerCycle \/ EnvChange
         \/ UNCHANGED linkVars
<1>1. CASE Program
  BY <1>1 DEF Program, LoadSettings, LoadFails, OpenPort, OpenFails, Talk,
     FlushPort, CheckCommunication, NoStick, Configured, NotConfigured, Retry,
     GiveUpConfig, ShortWait, LongWait, RestoreTick, RestoreDone, Connect,
     MeasureGas, NullStatement, AdcGivesUp, InsertValues, Delivered,
     Undelivered, GiveUpSending, SaveOpens, SaveWrites, SaveFails, SaveAborts,
     SampleWait, Exit, Accept, Reject
<1>2. CASE Restart
  BY <1>2 DEF Restart
<1>3. CASE Environment
  BY <1>3 DEF Environment, Line, Crash, PowerLoss, DbStops, DbStarts, Expire, Exit
<1> QED
  BY <1>1, <1>2, <1>3 DEF Next

LEMMA LinkStaysTyped ==
  ASSUME TypeOK, Next
  PROVE  LinkTypeOK'
<1>1. \/ \E c \in Commands, n \in Counters : Write(c, n)
      \/ Flush \/ Read \/ Hangup \/ Transmit \/ Serve
      \/ PowerCycle \/ EnvChange \/ UNCHANGED linkVars
  BY LinkMoves, CommandType
<1>2. LinkTypeOK
  BY DEF TypeOK
<1> QED
  BY <1>1, <1>2, LinkTypeStep

-----------------------------------------------------------------------------
(* Type correctness.                                                       *)

\* TypeOK without the link: what is left of it once LinkTypeOK' is known.
OwnTypeOK ==
    /\ pc \in Places
    /\ step \in 0 .. 8
    /\ pc = "config" => step \in 1 .. 8
    /\ err \in Nat
    /\ t \in 0 .. ByteMod - 1
    /\ fc \in Counters
    /\ file \in [whole : BOOLEAN, fc : Counters, recent : BOOLEAN]
    /\ conn \in {"none", "open", "broken"}
    /\ dbUp \in BOOLEAN
    /\ row \in {"none", "stored", "refused", "lost"}

\* The ways a step of the station can go, as far as its own variables show.
StartsUp  == \/ LoadSettings \/ OpenPort \/ CheckCommunication \/ Configured
             \/ NotConfigured \/ Retry \/ ShortWait \/ LongWait
             \/ RestoreTick \/ RestoreDone \/ Connect
Loops     == \/ MeasureGas \/ InsertValues \/ Delivered \/ Undelivered
             \/ SaveOpens \/ SaveWrites \/ SaveFails \/ SampleWait
StaysPut  == \/ UNCHANGED stationVars \/ Restart \/ DbStops \/ DbStarts \/ Expire

LEMMA DieType ==
  ASSUME OwnTypeOK, Die
  PROVE  OwnTypeOK'
  BY FcModAssumption, StationAssumption DEF OwnTypeOK, Die, Places, Counters

LEMMA StartUpType ==
  ASSUME OwnTypeOK, StartsUp
  PROVE  OwnTypeOK'
<1> USE DEF OwnTypeOK, Places, Go
<1>1. CASE LoadSettings
  BY <1>1 DEF LoadSettings
<1>2. CASE OpenPort
  BY <1>2 DEF OpenPort
<1>3. CASE CheckCommunication
  BY <1>3 DEF CheckCommunication
<1>4. CASE Configured
  <2>1. /\ pc = "config"
        /\ step < 8 => pc' = "config" /\ step' = step + 1
        /\ ~(step < 8) => pc' = "choose" /\ step' = 0
        /\ UNCHANGED <<err, t, fc, file, conn, dbUp, row>>
    BY <1>4, OrderFacts DEF Configured
  <2> QED
    BY <2>1
<1>5. CASE NotConfigured
  BY <1>5 DEF NotConfigured
<1>6. CASE Retry
  BY <1>6 DEF Retry
<1>7. CASE ShortWait
  BY <1>7 DEF ShortWait
<1>8. CASE LongWait
  BY <1>8, StationAssumption DEF LongWait
<1>9. CASE RestoreTick
  BY <1>9, StationAssumption DEF RestoreTick
<1>10. CASE RestoreDone
  BY <1>10, StationAssumption DEF RestoreDone
<1>11. CASE Connect
  BY <1>11 DEF Connect, Running
<1> QED
  BY <1>1, <1>2, <1>3, <1>4, <1>5, <1>6, <1>7, <1>8, <1>9, <1>10, <1>11
     DEF StartsUp

LEMMA LoopType ==
  ASSUME OwnTypeOK, Loops
  PROVE  OwnTypeOK'
<1> USE DEF OwnTypeOK, Places, Running, Go
<1>1. CASE MeasureGas
  BY <1>1 DEF MeasureGas, Gases
<1>2. CASE InsertValues
  BY <1>2 DEF InsertValues
<1>3. CASE Delivered
  BY <1>3, BumpType DEF Delivered
<1>4. CASE Undelivered
  BY <1>4 DEF Undelivered
<1>5. CASE SaveOpens
  BY <1>5 DEF SaveOpens
<1>6. CASE SaveWrites
  BY <1>6 DEF SaveWrites
<1>7. CASE SaveFails
  BY <1>7 DEF SaveFails
<1>8. CASE SampleWait
  BY <1>8 DEF SampleWait
<1> QED
  BY <1>1, <1>2, <1>3, <1>4, <1>5, <1>6, <1>7, <1>8
     DEF Loops

\* The steps that leave main where it is.
LEMMA OutsideType ==
  ASSUME OwnTypeOK, StaysPut
  PROVE  OwnTypeOK'
<1> USE DEF OwnTypeOK, Places
<1>1. CASE UNCHANGED stationVars
  BY <1>1 DEF stationVars
<1>2. CASE Restart
  BY <1>2 DEF Restart, Go
<1>3. CASE DbStops
  BY <1>3 DEF DbStops
<1>4. CASE DbStarts
  BY <1>4 DEF DbStarts
<1>5. CASE Expire
  BY <1>5 DEF Expire
<1> QED
  BY <1>1, <1>2, <1>3, <1>4, <1>5 DEF StaysPut

LEMMA Kinds == Next => Die \/ StartsUp \/ Loops \/ StaysPut
  BY DEF Next, Program, Environment, Line, Crash, PowerLoss, LoadFails, OpenFails,
     NoStick, GiveUpConfig, NullStatement, AdcGivesUp, GiveUpSending, SaveAborts,
     Talk, FlushPort, Exit, StartsUp, Loops, StaysPut

LEMMA TypeStep == TypeOK /\ [Next]_vars => TypeOK'
<1> SUFFICES ASSUME TypeOK, [Next]_vars
             PROVE  TypeOK'
  OBVIOUS
<1>1. OwnTypeOK /\ LinkTypeOK
  BY DEF TypeOK, OwnTypeOK
<1>2. CASE Next
  <2>1. OwnTypeOK'
    BY <1>1, <1>2, Kinds, DieType, StartUpType, LoopType, OutsideType
  <2> QED
    BY <1>2, <2>1, LinkStaysTyped DEF TypeOK, OwnTypeOK
<1>3. CASE UNCHANGED vars
  BY <1>3 DEF vars, stationVars, linkVars, TypeOK, LinkTypeOK
<1> QED
  BY <1>2, <1>3

LEMMA InitType == Init => TypeOK
  BY FcModAssumption, StationAssumption
     DEF Init, LinkInit, TypeOK, LinkTypeOK, Counters, Places

(***************************************************************************)
(* Every variable of the station keeps its type: the configuration index   *)
(* stays in the table of commands, the byte counter of the restore wait in *)
(* its byte, the frame counters in theirs.                                 *)
(***************************************************************************)
THEOREM TypeCorrect == Spec => []TypeOK
  BY InitType, TypeStep, PTL DEF Spec

-----------------------------------------------------------------------------
(* The inductive invariant.                                                *)

\* ExchangeInv but for the types.
Exchanges ==
    /\ OneRequest /\ Flushed /\ Quiet /\ OnlyUplinks
    /\ Given /\ AiredBelow /\ StickAhead /\ HeardMeans

\* Outside an exchange most of it holds at once.
LEMMA WhenIdle ==
  ASSUME phase = "idle"
  PROVE  OneRequest /\ Flushed /\ HeardMeans
  BY DEF OneRequest, Flushed, HeardMeans

LEMMA BelowFacts ==
    /\ Below(0) = {}
    /\ \A n \in Counters : Below(n) \subseteq Counters
    /\ \A n \in Counters, S \in SUBSET Counters :
         Below(n) \subseteq S /\ n \in S =>
            /\ Below(Bump(n)) \subseteq S
            /\ n + 1 = FcMod => S = Counters
            /\ n + 1 # FcMod => Bump(n) = n + 1
    /\ \A n \in Counters, m \in Counters : n < m => n \in Below(m)
<1>1. Below(0) = {}
  BY DEF Below
<1>2. ASSUME NEW n \in Counters
      PROVE  Below(n) \subseteq Counters
  BY FcModAssumption DEF Below, Counters
<1>3. ASSUME NEW n \in Counters, NEW S \in SUBSET Counters,
             Below(n) \subseteq S, n \in S
      PROVE  /\ Below(Bump(n)) \subseteq S
             /\ n + 1 = FcMod => S = Counters
             /\ n + 1 # FcMod => Bump(n) = n + 1
  <2>1. n \in Nat /\ FcMod \in Nat
    BY FcModAssumption DEF Counters
  <2>2. \A k \in Below(n + 1) : k \in Below(n) \/ k = n
    BY <2>1 DEF Below
  <2>3. Below(n + 1) \subseteq S
    BY <1>3, <2>2
  <2>4. CASE n + 1 = FcMod
    <3>1. Below(n + 1) = Counters
      BY <2>4 DEF Below, Counters
    <3>2. Bump(n) = 0
      BY <2>4 DEF Bump
    <3> QED
      BY <1>1, <2>3, <2>4, <3>1, <3>2
  <2>5. CASE n + 1 # FcMod
    <3>1. Bump(n) = n + 1
      BY <2>5 DEF Bump
    <3> QED
      BY <2>3, <2>5, <3>1
  <2> QED
    BY <2>4, <2>5
<1>4. ASSUME NEW n \in Counters, NEW m \in Counters, n < m
      PROVE  n \in Below(m)
  BY <1>4, FcModAssumption DEF Below, Counters
<1> QED
  BY <1>1, <1>2, <1>3, <1>4

\* The process ends, with the line and the stick's count as they are or reset.
LEMMA DeathStep ==
  ASSUME ExchangeInv, Die, phase' = "idle", InFlight' \subseteq InFlight,
         stick' = stick \/ stick'.fc = 0, aired' = aired
  PROVE  Exchanges'
<1>1. (OneRequest /\ Flushed /\ HeardMeans)'
  BY DEF OneRequest, Flushed, HeardMeans
<1>2. pc' = "down" /\ fc' = 0 /\ file' = file
  BY DEF Die
<1>3. Quiet' /\ OnlyUplinks' /\ Given' /\ StickAhead'
  BY <1>2 DEF Quiet, OnlyUplinks, Given, StickAhead, Loop, Running
<1>4. AiredBelow'
  BY <1>2, BelowFacts DEF ExchangeInv, AiredBelow
<1> QED
  BY <1>1, <1>3, <1>4 DEF Exchanges

LEMMA ExitStep ==
  ASSUME ExchangeInv, Exit \/ PowerLoss
  PROVE  Exchanges'
<1>1. Die /\ phase' = "idle" /\ aired' = aired
  BY DEF Exit, Hangup, PowerLoss, PowerCycle
<1>2. InFlight' \subseteq InFlight /\ (stick' = stick \/ stick'.fc = 0)
  BY DEF Exit, Hangup, PowerLoss, PowerCycle, InFlight
<1> QED
  BY <1>1, <1>2, DeathStep

-----------------------------------------------------------------------------
(* Steps that leave the line alone.                                        *)

\* Steps of main outside an exchange.
Silent == \/ LoadSettings \/ OpenPort \/ Retry
          \/ ShortWait \/ LongWait \/ RestoreTick \/ RestoreDone \/ Connect
          \/ MeasureGas \/ InsertValues
          \/ SaveOpens \/ SaveWrites \/ SaveFails
          \/ SampleWait \/ Restart

LEMMA SilentStep ==
  ASSUME ExchangeInv, Silent
  PROVE  Exchanges'
<1>1. UNCHANGED linkVars
  BY DEF Silent, LoadSettings, OpenPort, Retry, ShortWait, LongWait, RestoreTick,
     RestoreDone, Connect, MeasureGas, InsertValues, SaveOpens, SaveWrites,
     SaveFails, SampleWait, Restart
<1>2. pc \notin {"cc", "config"} /\ (pc = "send" => FALSE)
  BY DEF Silent, LoadSettings, OpenPort, Retry, ShortWait, LongWait, RestoreTick,
     RestoreDone, Connect, MeasureGas, InsertValues, SaveOpens, SaveWrites,
     SaveFails, SampleWait, Restart
<1>3. phase = "idle"
  BY <1>2 DEF ExchangeInv, OneRequest, Talking
<1>4. phase' = "idle" /\ (OneRequest /\ Flushed /\ HeardMeans)'
  BY <1>1, <1>3 DEF linkVars, OneRequest, Flushed, HeardMeans
<1>5. Drained \/ pc \in {"backoff", "sleep", "down"}
  BY <1>3 DEF ExchangeInv, Quiet
<1>6. Drained \/ pc' = "sleep"
  BY <1>5 DEF Silent, LoadSettings, OpenPort, Retry, ShortWait, LongWait,
     RestoreTick, RestoreDone, Connect, MeasureGas, InsertValues, SaveOpens,
     SaveWrites, SaveFails, SampleWait, Restart
<1>7. Quiet'
  BY <1>1, <1>6 DEF Quiet, Drained, linkVars
<1>8. pc' \in Loop => pc \in Loop
  BY DEF Silent, LoadSettings, OpenPort, Retry, ShortWait, LongWait, RestoreTick,
     RestoreDone, Connect, MeasureGas, InsertValues, SaveOpens, SaveWrites,
     SaveFails, SampleWait, Restart, Loop, Running, Go
<1>9. InFlight' = InFlight /\ stick' = stick /\ aired' = aired
  BY <1>1 DEF linkVars, InFlight
<1>10. OnlyUplinks'
  BY <1>8, <1>9 DEF ExchangeInv, OnlyUplinks
<1>11. pc' = "config" => step' = 1
  BY DEF Silent, LoadSettings, OpenPort, Retry, ShortWait, LongWait, RestoreTick,
     RestoreDone, Connect, MeasureGas, InsertValues, SaveOpens, SaveWrites,
     SaveFails, SampleWait, Restart, Go
<1>12. Given'
  BY <1>8, <1>9, <1>11 DEF ExchangeInv, Given
<1>13. fc' \in {fc, file.fc} /\ file'.fc \in {file.fc, fc}
  BY DEF ExchangeInv, TypeOK, Silent, LoadSettings, OpenPort, Retry, ShortWait, LongWait,
     RestoreTick, RestoreDone, Connect, MeasureGas, InsertValues, SaveOpens,
     SaveWrites, SaveFails, SampleWait, Restart
<1>14. AiredBelow'
  BY <1>9, <1>13 DEF ExchangeInv, AiredBelow
<1>15. pc' \in Loop => fc' = fc
  BY DEF Silent, LoadSettings, OpenPort, Retry, ShortWait, LongWait, RestoreTick,
     RestoreDone, Connect, MeasureGas, InsertValues, SaveOpens, SaveWrites,
     SaveFails, SampleWait, Restart, Loop, Running, Go
<1>16. StickAhead'
  BY <1>8, <1>9, <1>15 DEF ExchangeInv, StickAhead
<1> QED
  BY <1>4, <1>7, <1>10, <1>12, <1>14, <1>16 DEF Exchanges

\* The database server and the clock.
LEMMA OutsideStep ==
  ASSUME ExchangeInv, DbStops \/ DbStarts \/ Expire
  PROVE  Exchanges'
<1>1. UNCHANGED <<linkVars, pc, step, fc>> /\ file'.fc = file.fc
  BY DEF ExchangeInv, TypeOK, DbStops, DbStarts, Expire
<1> QED
  BY <1>1 DEF ExchangeInv, Exchanges, linkVars, OneRequest, Flushed, Quiet, OnlyUplinks,
     Given, AiredBelow, StickAhead, HeardMeans, Heard, Drained, InFlight,
     Command, Argument

-----------------------------------------------------------------------------
(* The exchange: main's side.                                              *)

LEMMA TalkStep ==
  ASSUME ExchangeInv, Talk
  PROVE  Exchanges'
<1>1. pc \in Talking /\ phase = "idle" /\ Drained
  BY DEF ExchangeInv, Talk, Write, Quiet, Talking
<1>2. /\ phase' = "written" /\ rx' = {}
      /\ outq' = {[cmd |-> Command, fc |-> Argument, cur |-> TRUE]}
      /\ UNCHANGED <<env, stick, aired, stationVars>>
  BY <1>1 DEF Talk, Write, Stale, Drained
<1>3. InFlight' = {[cmd |-> Command, fc |-> Argument, cur |-> TRUE]}
  BY <1>2 DEF InFlight
<1>4. Command' = Command /\ Argument' = Argument
  BY <1>2 DEF Command, Argument, stationVars
<1>5. OneRequest'
  BY <1>1, <1>2, <1>3, <1>4 DEF OneRequest, stationVars
<1>6. Flushed' /\ Quiet' /\ HeardMeans'
  BY <1>2 DEF Flushed, Quiet, HeardMeans
<1>7. pc \in Loop => Command = "SP"
  BY <1>1 DEF Loop, Running, Talking, Command
<1>8. OnlyUplinks'
  BY <1>2, <1>3, <1>7 DEF OnlyUplinks, stationVars
<1>9. Given' /\ StickAhead'
  BY <1>2 DEF ExchangeInv, Given, StickAhead, stationVars
<1>10. Argument = IF Command = "FC" THEN fc ELSE 0
  BY DEF Argument
<1>11. AiredBelow'
  BY <1>2, <1>3, <1>10 DEF ExchangeInv, AiredBelow, stationVars
<1> QED
  BY <1>5, <1>6, <1>8, <1>9, <1>11 DEF Exchanges

LEMMA FlushStep ==
  ASSUME ExchangeInv, FlushPort
  PROVE  Exchanges'
<1>1. /\ phase = "written" /\ phase' = "waiting" /\ outq' = {} /\ inq' = {}
      /\ UNCHANGED <<rx, stick, aired, stationVars>>
  BY DEF FlushPort, Flush
<1>2. InFlight' \subseteq InFlight
  BY <1>1 DEF InFlight
<1>3. Command' = Command /\ Argument' = Argument
  BY <1>1 DEF Command, Argument, stationVars
<1>4. OneRequest'
  BY <1>1, <1>2, <1>3 DEF ExchangeInv, OneRequest, stationVars
<1>5. Flushed' /\ Quiet' /\ HeardMeans'
  BY <1>1 DEF Flushed, Quiet, HeardMeans, Heard
<1>6. OnlyUplinks' /\ Given' /\ StickAhead' /\ AiredBelow'
  BY <1>1, <1>2 DEF ExchangeInv, OnlyUplinks, Given, StickAhead, AiredBelow, stationVars
<1> QED
  BY <1>4, <1>5, <1>6 DEF Exchanges

\* An OK leaves the line at rest.
LEMMA AcceptFacts ==
  ASSUME ExchangeInv, Accept
  PROVE  /\ phase = "waiting" /\ Heard /\ phase' = "idle"
         /\ Drained' /\ InFlight' = {}
         /\ stick' = stick /\ aired' = aired
<1>1. phase = "waiting" /\ Heard /\ phase' = "idle"
      /\ UNCHANGED <<outq, rx, stick, aired>>
  BY DEF Accept, Read
<1>2. outq = {} /\ rx = {}
  BY <1>1 DEF ExchangeInv, Flushed, Heard
<1> QED
  BY <1>1, <1>2 DEF Drained, InFlight

LEMMA AcceptStep ==
  ASSUME ExchangeInv, CheckCommunication \/ Configured \/ Delivered
  PROVE  Exchanges'
<1>1. /\ phase = "waiting" /\ Heard /\ phase' = "idle"
      /\ Drained' /\ InFlight' = {}
      /\ stick' = stick /\ aired' = aired
  BY AcceptFacts DEF CheckCommunication, Configured, Delivered
<1>2. (OneRequest /\ Flushed /\ HeardMeans /\ Quiet /\ OnlyUplinks)'
  BY <1>1 DEF OneRequest, Flushed, HeardMeans, Quiet, OnlyUplinks
<1>3. TypeOK
  BY DEF ExchangeInv
<1>4. CASE CheckCommunication
  <2>1. pc' = "config" /\ step' = 1 /\ fc' = fc /\ file' = file
    BY <1>4 DEF CheckCommunication, Go
  <2>2. Given' /\ StickAhead'
    BY <2>1 DEF Given, StickAhead, Loop, Running
  <2>3. AiredBelow'
    BY <1>1, <2>1 DEF ExchangeInv, AiredBelow
  <2> QED
    BY <1>2, <2>2, <2>3 DEF Exchanges
<1>5. CASE Configured
  <2>1. pc = "config" /\ step \in 1 .. 8 /\ fc' = fc /\ file' = file
    BY <1>3, <1>5 DEF Configured, TypeOK
  <2>2. Command = Order[step]
    BY <2>1 DEF Command
  <2>3. Order[step] \in stick.set /\ (Order[step] = "FC" => stick.fc = fc)
    BY <1>1, <2>1, <2>2 DEF ExchangeInv, HeardMeans
  <2>4. \A i \in 1 .. step : Order[i] \in stick.set
    <3>1. \A i \in 1 .. step : i \in 1 .. step - 1 \/ i = step
      BY <2>1
    <3> QED
      BY <2>1, <2>3, <3>1 DEF ExchangeInv, Given
  <2>5. AiredBelow'
    BY <1>1, <2>1 DEF ExchangeInv, AiredBelow
  <2>6. CASE step < 8
    <3>1. pc' = "config" /\ step' = step + 1
      BY <1>5, <2>6, OrderFacts DEF Configured, Go
    <3>2. Given'
      BY <1>1, <2>1, <2>4, <3>1 DEF Given, Loop, Running
    <3>3. StickAhead'
      BY <3>1 DEF StickAhead, Loop, Running
    <3> QED
      BY <1>2, <2>5, <3>2, <3>3 DEF Exchanges
  <2>7. CASE ~(step < 8)
    <3>1. pc' = "choose"
      BY <1>5, <2>7, OrderFacts DEF Configured, Go
    <3>2. step = 8
      BY <2>1, <2>7
    <3>3. stick.set = Params
      BY <1>3, <2>4, <3>2, OrderFacts DEF TypeOK, LinkTypeOK
    <3>4. stick.fc = fc /\ fc \in Nat
      BY <1>3, <2>3, <3>2, OrderFacts DEF TypeOK, Counters
    <3>5. Given' /\ StickAhead'
      BY <1>1, <2>1, <3>1, <3>3, <3>4 DEF Given, StickAhead
    <3> QED
      BY <1>2, <2>5, <3>5 DEF Exchanges
  <2> QED
    BY <2>6, <2>7
<1>6. CASE Delivered
  <2>1. pc = "send" /\ pc' = "save" /\ fc' = Bump(fc) /\ file' = file
    BY <1>6 DEF Delivered, Go
  <2>2. fc < stick.fc \/ aired = Counters
    BY <1>1, <2>1 DEF ExchangeInv, HeardMeans
  <2>3. fc \in Counters /\ stick.fc \in Counters /\ aired \subseteq Counters
    BY <1>3 DEF TypeOK, LinkTypeOK
  <2>4. fc \in aired
    BY <2>2, <2>3, BelowFacts DEF ExchangeInv, AiredBelow
  <2>5. Below(Bump(fc)) \subseteq aired
    BY <2>3, <2>4, BelowFacts DEF ExchangeInv, AiredBelow
  <2>6. AiredBelow'
    BY <1>1, <2>1, <2>5 DEF ExchangeInv, AiredBelow
  <2>7. Given'
    BY <1>1, <2>1 DEF ExchangeInv, Given, Loop, Running
  <2>8. Bump(fc) <= stick.fc \/ aired = Counters
    BY <2>2, <2>3, FcModAssumption DEF Bump, Counters
  <2>9. StickAhead'
    BY <1>1, <2>1, <2>8 DEF StickAhead
  <2> QED
    BY <1>2, <2>6, <2>7, <2>9 DEF Exchanges
<1> QED
  BY <1>4, <1>5, <1>6

LEMMA RejectStep ==
  ASSUME ExchangeInv, NoStick \/ NotConfigured \/ Undelivered \/ GiveUpSending
  PROVE  Exchanges'
<1>1. phase' = "idle" /\ UNCHANGED <<outq, rx, stick, aired>>
  BY DEF NoStick, NotConfigured, Undelivered, GiveUpSending, Reject, Read
<1>2. InFlight' = InFlight
  BY <1>1 DEF InFlight
<1>3. CASE NoStick \/ GiveUpSending
  BY <1>1, <1>2, <1>3, DeathStep DEF NoStick, GiveUpSending
<1>4. CASE NotConfigured \/ Undelivered
  <2>1. /\ (pc' = "backoff" \/ (pc = "send" /\ pc' = "sleep"))
        /\ fc' = fc /\ file' = file
    BY <1>4 DEF NotConfigured, Undelivered, Go
  <2>2. (OneRequest /\ Flushed /\ HeardMeans)'
    BY <1>1 DEF OneRequest, Flushed, HeardMeans
  <2>3. Quiet'
    BY <2>1 DEF Quiet
  <2>4. OnlyUplinks' /\ Given' /\ StickAhead'
    BY <1>1, <1>2, <2>1 DEF ExchangeInv, OnlyUplinks, Given, StickAhead, Loop, Running
  <2>5. AiredBelow'
    BY <1>1, <1>2, <2>1 DEF ExchangeInv, AiredBelow
  <2> QED
    BY <2>2, <2>3, <2>4, <2>5 DEF Exchanges
<1> QED
  BY <1>3, <1>4

-----------------------------------------------------------------------------
(* The exchange: the line's and the stick's side.                          *)

LEMMA TransmitStep ==
  ASSUME ExchangeInv, Transmit, UNCHANGED stationVars
  PROVE  Exchanges'
<1>1. PICK r \in outq : /\ outq' = outq \ {r} /\ rx' = rx \cup {r}
                        /\ UNCHANGED <<env, phase, inq, stick, aired>>
  BY DEF Transmit
<1>2. InFlight' = InFlight
  BY <1>1 DEF InFlight
<1>3. Command' = Command /\ Argument' = Argument
  BY DEF Command, Argument, stationVars
<1>4. OneRequest'
  BY <1>1, <1>2, <1>3 DEF ExchangeInv, OneRequest, stationVars
<1>5. phase # "waiting"
  BY <1>1 DEF ExchangeInv, Flushed
<1>6. Flushed' /\ HeardMeans'
  BY <1>1, <1>5 DEF Flushed, HeardMeans
<1>7. Quiet'
  BY <1>1 DEF ExchangeInv, Quiet, Drained, stationVars
<1>8. OnlyUplinks' /\ Given' /\ StickAhead' /\ AiredBelow'
  BY <1>1, <1>2 DEF ExchangeInv, OnlyUplinks, Given, StickAhead, AiredBelow, stationVars
<1> QED
  BY <1>4, <1>6, <1>7, <1>8 DEF Exchanges

LEMMA EnvStep ==
  ASSUME ExchangeInv, EnvChange, UNCHANGED stationVars
  PROVE  Exchanges'
  BY DEF EnvChange, stationVars, ExchangeInv, Exchanges, OneRequest, Flushed, Quiet,
     OnlyUplinks, Given, AiredBelow, StickAhead, HeardMeans, Heard, Drained,
     InFlight, Command, Argument

\* What performing a request of the station does to the stick's count.
LEMMA PerformFacts ==
  ASSUME ExchangeInv, NEW r \in rx, Perform(r)
  PROVE  /\ stick.set \subseteq stick'.set
         /\ aired \subseteq aired'
         /\ Below(stick'.fc) \subseteq aired'
         /\ r.cmd \in Params => r.cmd \in stick'.set
         /\ r.cmd = "FC" => stick'.fc = r.fc
         /\ r.cmd = "SP" /\ (fc <= stick.fc \/ aired = Counters)
              => fc < stick'.fc \/ aired' = Counters
<1>1. /\ r \in Requests /\ stick \in [fc : Counters, set : SUBSET Params]
      /\ aired \subseteq Counters /\ fc \in Counters
  BY DEF ExchangeInv, TypeOK, LinkTypeOK
<1>2. Below(stick.fc) \subseteq aired /\ (r.cmd = "FC" => Below(r.fc) \subseteq aired)
  BY DEF ExchangeInv, AiredBelow, InFlight
<1>3. CASE r.cmd = "SP"
  <2>1. aired' = aired \cup {stick.fc} /\ stick' = [stick EXCEPT !.fc = Bump(@)]
    BY <1>3 DEF Perform
  <2>2. stick'.fc = Bump(stick.fc) /\ stick'.set = stick.set
    BY <1>1, <2>1
  <2>3. aired' \in SUBSET Counters /\ stick.fc \in aired' /\ Below(stick.fc) \subseteq aired'
    BY <1>1, <1>2, <2>1
  <2>4. /\ Below(Bump(stick.fc)) \subseteq aired'
        /\ stick.fc + 1 = FcMod => aired' = Counters
        /\ stick.fc + 1 # FcMod => Bump(stick.fc) = stick.fc + 1
    BY <1>1, <2>3, BelowFacts
  <2>5. fc <= stick.fc \/ aired = Counters => fc < stick'.fc \/ aired' = Counters
    <3>1. CASE aired = Counters
      BY <1>1, <2>1, <3>1
    <3>2. CASE fc <= stick.fc
      BY <1>1, <2>2, <2>4, <3>2, FcModAssumption DEF Counters
    <3> QED
      BY <3>1, <3>2
  <2> QED
    BY <1>3, <2>1, <2>2, <2>4, <2>5 DEF Params
<1>4. CASE r.cmd = "FC"
  <2>1. stick' = [fc |-> r.fc, set |-> stick.set \cup {"FC"}] /\ aired' = aired
    BY <1>4 DEF Perform
  <2> QED
    BY <1>1, <1>2, <1>4, <2>1
<1>5. CASE r.cmd = "CC"
  <2>1. stick' = stick /\ aired' = aired
    BY <1>5 DEF Perform
  <2> QED
    BY <1>2, <1>5, <2>1 DEF Params
<1>6. CASE r.cmd \notin {"SP", "FC", "CC"}
  <2>1. stick' = [stick EXCEPT !.set = @ \cup {r.cmd}] /\ aired' = aired
    BY <1>6 DEF Perform
  <2>2. stick'.fc = stick.fc /\ stick'.set = stick.set \cup {r.cmd}
    BY <1>1, <2>1
  <2> QED
    BY <1>2, <1>6, <2>1, <2>2
<1> QED
  BY <1>3, <1>4, <1>5, <1>6

LEMMA ServeStep ==
  ASSUME ExchangeInv, Serve, UNCHANGED stationVars
  PROVE  Exchanges'
<1>1. PICK r \in rx : /\ rx' = rx \ {r}
                      /\ Answer(r) \/ Mute(r) \/ Ignore(r)
                      /\ UNCHANGED <<env, phase, outq>>
  BY DEF Serve
<1>2. /\ UNCHANGED <<pc, step, fc, file>>
      /\ Command' = Command /\ Argument' = Argument
      /\ InFlight' \subseteq InFlight /\ r \in InFlight
  BY <1>1 DEF stationVars, Command, Argument, InFlight
<1>3. \/ Perform(r)
      \/ /\ stick' = stick /\ aired' = aired
         /\ \A a \in inq' : a.ok => a \in inq
  BY <1>1 DEF Answer, Mute, Ignore
<1>4. \A a \in inq' : a \in inq \/ a.cur = r.cur
  BY <1>1 DEF Answer, Mute, Ignore
<1>5. stick.set \subseteq stick'.set /\ aired \subseteq aired'
  BY <1>3, PerformFacts
<1>6. TypeOK /\ LinkTypeOK'
  <2>1. Next
    BY DEF Next, Environment, Line
  <2> QED
    BY <2>1, LinkStaysTyped DEF ExchangeInv
<1>7. OneRequest'
  BY <1>1, <1>2 DEF ExchangeInv, OneRequest
<1>8. phase = "waiting" =>
        /\ outq = {} /\ rx = {r} /\ inq = {}
        /\ r.cur /\ r.cmd = Command /\ r.fc = Argument
  BY <1>1, <1>2 DEF ExchangeInv, Flushed, OneRequest, InFlight
<1>9. Flushed'
  BY <1>1, <1>4, <1>8 DEF Flushed
<1>10. Quiet'
  BY <1>1, <1>2 DEF ExchangeInv, Quiet, Drained
<1>11. OnlyUplinks'
  BY <1>2 DEF ExchangeInv, OnlyUplinks
<1>12. Given'
  BY <1>2, <1>5, <1>6 DEF ExchangeInv, Given, LinkTypeOK
<1>13. Below(stick'.fc) \subseteq aired'
  BY <1>3, <1>5, PerformFacts DEF ExchangeInv, AiredBelow
<1>14. AiredBelow'
  BY <1>2, <1>5, <1>13 DEF ExchangeInv, AiredBelow
<1>15. ASSUME pc \in Loop
       PROVE  fc <= stick'.fc \/ aired' = Counters
  <2>1. r.cmd = "SP" /\ (fc <= stick.fc \/ aired = Counters)
    BY <1>2, <1>15 DEF ExchangeInv, OnlyUplinks, StickAhead
  <2>2. aired' \subseteq Counters /\ stick'.fc \in Nat /\ fc \in Nat
    BY <1>6 DEF LinkTypeOK, TypeOK, Counters
  <2>3. CASE Perform(r)
    BY <2>1, <2>2, <2>3, PerformFacts
  <2>4. CASE stick' = stick /\ aired' = aired
    BY <2>1, <2>4
  <2> QED
    BY <1>3, <2>3, <2>4
<1>16. StickAhead'
  BY <1>2, <1>15 DEF StickAhead
<1>17. HeardMeans'
  <2> SUFFICES ASSUME phase' = "waiting", Heard'
               PROVE  HeardMeans'
    BY DEF HeardMeans
  <2>1. r.cmd = Command /\ r.fc = Argument /\ inq = {}
    BY <1>1, <1>8
  <2>2. Perform(r)
    BY <1>3, <2>1 DEF Heard
  <2>3. CASE pc = "config"
    <3>1. Command \in Params
      BY <1>6, <2>3, CommandType DEF Talking
    <3>2. Command = "FC" => r.fc = fc
      BY <2>1 DEF Argument
    <3>3. Command \in stick'.set /\ (Command = "FC" => stick'.fc = fc)
      BY <2>1, <2>2, <3>1, <3>2, PerformFacts
    <3> QED
      BY <1>2, <2>3, <3>3 DEF HeardMeans
  <2>4. CASE pc = "send"
    <3>1. r.cmd = "SP" /\ pc \in Loop
      BY <2>1, <2>4 DEF Command, Loop, Running
    <3>2. fc <= stick.fc \/ aired = Counters
      BY <3>1 DEF ExchangeInv, StickAhead
    <3>3. fc < stick'.fc \/ aired' = Counters
      BY <2>2, <3>1, <3>2, PerformFacts
    <3> QED
      BY <1>2, <2>4, <3>3 DEF HeardMeans
  <2>5. CASE pc \notin {"config", "send"}
    BY <1>2, <2>5 DEF HeardMeans
  <2> QED
    BY <2>3, <2>4, <2>5
<1> QED
  BY <1>7, <1>9, <1>10, <1>11, <1>12, <1>14, <1>16, <1>17 DEF Exchanges

-----------------------------------------------------------------------------
(* The invariant, and what follows from it.                                *)

LEMMA InitInv == Init => ExchangeInv
<1> SUFFICES ASSUME Init
             PROVE  ExchangeInv
  OBVIOUS
<1>1. TypeOK
  BY InitType
<1>2. /\ pc = "load" /\ phase = "idle" /\ outq = {} /\ rx = {}
      /\ fc = 0 /\ file.fc = 0 /\ stick.fc = 0
  BY DEF Init, LinkInit
<1>3. OneRequest /\ Flushed /\ HeardMeans /\ Quiet /\ OnlyUplinks /\ Given /\ StickAhead
  BY <1>2 DEF OneRequest, Flushed, HeardMeans, Quiet, Drained, OnlyUplinks, Given,
     StickAhead, Loop, Running
<1>4. AiredBelow
  BY <1>2, BelowFacts DEF AiredBelow, InFlight
<1> QED
  BY <1>1, <1>3, <1>4 DEF ExchangeInv

LEMMA InvStep == ExchangeInv /\ [Next]_vars => ExchangeInv'
<1> SUFFICES ASSUME ExchangeInv, [Next]_vars
             PROVE  Exchanges'
  BY TypeStep DEF ExchangeInv, Exchanges
<1>1. CASE Exit \/ PowerLoss
  BY <1>1, ExitStep
<1>2. CASE Silent
  BY <1>2, SilentStep
<1>3. CASE DbStops \/ DbStarts \/ Expire
  BY <1>3, OutsideStep
<1>4. CASE Talk
  BY <1>4, TalkStep
<1>5. CASE FlushPort
  BY <1>5, FlushStep
<1>6. CASE CheckCommunication \/ Configured \/ Delivered
  BY <1>6, AcceptStep
<1>7. CASE NoStick \/ NotConfigured \/ Undelivered \/ GiveUpSending
  BY <1>7, RejectStep
<1>8. CASE Line
  BY <1>8, TransmitStep, ServeStep, EnvStep DEF Line
<1>9. CASE UNCHANGED vars
  BY <1>9 DEF vars, linkVars, stationVars, ExchangeInv, Exchanges, OneRequest, Flushed,
     Quiet, OnlyUplinks, Given, AiredBelow, StickAhead, HeardMeans, Heard, Drained,
     InFlight, Command, Argument
<1>10. Next => \/ Exit \/ PowerLoss \/ Silent \/ DbStops \/ DbStarts \/ Expire
               \/ Talk \/ FlushPort
               \/ CheckCommunication \/ Configured \/ Delivered
               \/ NoStick \/ NotConfigured \/ Undelivered \/ GiveUpSending \/ Line
  BY DEF Next, Program, Environment, Crash, LoadFails, OpenFails, GiveUpConfig,
     NullStatement, AdcGivesUp, SaveAborts, Silent
<1> QED
  BY <1>1, <1>2, <1>3, <1>4, <1>5, <1>6, <1>7, <1>8, <1>9, <1>10

(***************************************************************************)
(* The inductive invariant holds: what the exchange, the configuration     *)
(* loop and the uplink loop keep together, for every size of the counter   *)
(* and every limit.                                                        *)
(***************************************************************************)
THEOREM InvariantHolds == Spec => []ExchangeInv
  BY InitInv, InvStep, PTL DEF Spec

(***************************************************************************)
(* The measuring loop only runs with a fully configured stick.             *)
(***************************************************************************)
THEOREM LoopNeedsReadyStick == Spec => []StickReady
<1>1. ExchangeInv => StickReady
  BY DEF ExchangeInv, Given, StickReady, Loop
<1> QED
  BY <1>1, InvariantHolds, PTL

(***************************************************************************)
(* The persisted frame counter never runs ahead of the uplinks aired.      *)
(***************************************************************************)
THEOREM PersistedCountWasAired == Spec => []CountedWasAired
<1>1. ExchangeInv => CountedWasAired
  BY DEF ExchangeInv, AiredBelow, CountedWasAired, Below
<1> QED
  BY <1>1, InvariantHolds, PTL

(***************************************************************************)
(* What main takes an OK for has happened: a parameter it goes on from is  *)
(* in the stick, and the uplink it counts was aired with the counter it    *)
(* counts (main.cpp lines 90 to 119 and 175 to 181).                       *)
(***************************************************************************)
OksWerePerformed ==
    [][/\ Configured => Command \in stick.set
       /\ Delivered => fc \in aired]_vars

(***************************************************************************)
(* The station is never told of a success there was none of: the OK names  *)
(* no command, but only the one command of its exchange can have earned it,*)
(* and it earned it by being executed.                                     *)
(***************************************************************************)
THEOREM OkMeansPerformed == Spec => OksWerePerformed
<1>1. ASSUME ExchangeInv, Configured
      PROVE  Command \in stick.set
  BY <1>1 DEF ExchangeInv, HeardMeans, Configured, Accept, Read
<1>2. ASSUME ExchangeInv, Delivered
      PROVE  fc \in aired
  <2>1. fc < stick.fc \/ aired = Counters
    BY <1>2 DEF ExchangeInv, HeardMeans, Delivered, Accept, Read
  <2>2. fc \in Nat /\ fc \in Counters /\ stick.fc \in Nat
    BY <1>2, FcModAssumption DEF ExchangeInv, TypeOK, LinkTypeOK, Counters
  <2>3. CASE fc < stick.fc
    <3>1. fc \in Below(stick.fc)
      BY <2>2, <2>3 DEF Below
    <3> QED
      BY <1>2, <3>1 DEF ExchangeInv, AiredBelow
  <2> QED
    BY <2>1, <2>2, <2>3
<1> QED
  BY <1>1, <1>2, InvariantHolds, PTL DEF OksWerePerformed

-----------------------------------------------------------------------------
(* The database connection.                                                *)

\* A row is lost, and not refused, through a connection that is not open, and no
\* connection is opened while there is a row.
RowsOfConnection ==
    /\ row = "lost" => conn # "open"
    /\ row # "none" => pc \in Running

LEMMA RowsStep == TypeOK /\ RowsOfConnection /\ [Next]_vars
                    => RowsOfConnection' /\ (row = "lost" => row' = "lost" \/ pc' = "down")
<1> SUFFICES ASSUME TypeOK, RowsOfConnection, [Next]_vars
             PROVE  RowsOfConnection' /\ (row = "lost" => row' = "lost" \/ pc' = "down")
  OBVIOUS
<1>1. CASE InsertValues
  BY <1>1 DEF InsertValues, RowsOfConnection, Go, Running
<1>2. CASE Die
  BY <1>2 DEF Die, RowsOfConnection
<1>3. CASE Connect
  BY <1>3 DEF Connect, RowsOfConnection, Running
<1>4. CASE DbStops
  BY <1>4 DEF DbStops, RowsOfConnection
<1>5. CASE /\ row' = row /\ conn' = conn
           /\ pc \in Running => pc' \in Running
  BY <1>5 DEF RowsOfConnection
<1>6. [Next]_vars => \/ InsertValues \/ Die \/ Connect \/ DbStops
                     \/ /\ row' = row /\ conn' = conn
                        /\ pc \in Running => pc' \in Running
  <2>1. Program => \/ InsertValues \/ Die \/ Connect
                   \/ /\ row' = row /\ conn' = conn
                      /\ pc \in Running => pc' \in Running
    BY DEF Program, Exit, Go, Running, Talking,
       LoadSettings, LoadFails, OpenPort, OpenFails, Talk, FlushPort, stationVars,
       CheckCommunication, NoStick, Configured, NotConfigured, Retry, GiveUpConfig,
       ShortWait, LongWait, RestoreTick, RestoreDone, MeasureGas, NullStatement,
       AdcGivesUp, Delivered, Undelivered, GiveUpSending, SaveOpens, SaveWrites,
       SaveFails, SaveAborts, SampleWait
  <2>2. Restart \/ Environment \/ UNCHANGED vars
          => \/ Die \/ DbStops
             \/ /\ row' = row /\ conn' = conn
                /\ pc \in Running => pc' \in Running
    BY DEF Restart, Environment, Line, Crash, PowerLoss, DbStarts, Expire, Exit, Go,
       Running, stationVars, vars
  <2> QED
    BY <2>1, <2>2 DEF Next
<1> QED
  BY <1>1, <1>2, <1>3, <1>4, <1>5, <1>6

(***************************************************************************)
(* A process that has lost a row to a broken connection loses every other  *)
(* row until it ends, whatever the server does and whichever single rows   *)
(* were refused before.                                                    *)
(***************************************************************************)
THEOREM LossIsForGood == Spec => LostRowsStayLost
<1>1. Init => RowsOfConnection
  BY DEF Init, RowsOfConnection
<1> QED
  BY <1>1, RowsStep, TypeCorrect, PTL DEF Spec, LostRowsStayLost

(***************************************************************************)
(* The station implements the client that LoraLink assumes, so what is     *)
(* proved of the link alone (an OK answers this command) holds in it.      *)
(***************************************************************************)
THEOREM StationKeepsLinkRule == Spec => KeepsLinkRule
<1>1. Init => LinkInit
  BY DEF Init
<1>2. ExchangeInv /\ [Next]_vars => [LinkNext]_linkVars
  <2> SUFFICES ASSUME ExchangeInv, [Next]_vars
               PROVE  [LinkNext]_linkVars
    OBVIOUS
  <2>1. CASE Next
    <3>1. TypeOK
      BY DEF ExchangeInv
    <3>2. CASE pc \in Talking /\ Write(Command, Argument)
      <4>1. Drained
        BY <3>2 DEF ExchangeInv, Quiet, Write, Talking
      <4>2. Send(Command, Argument)
        BY <3>2, <4>1 DEF Send
      <4> QED
        BY <3>1, <3>2, <4>2, CommandType DEF LinkNext
    <3>3. Read => Accept \/ Reject
      BY DEF Accept, Reject
    <3> QED
      BY <2>1, <3>1, <3>2, <3>3, LinkMoves DEF LinkNext
  <2>2. CASE UNCHANGED vars
    BY <2>2 DEF vars
  <2> QED
    BY <2>1, <2>2
<1> QED
  BY <1>1, <1>2, InvariantHolds, PTL DEF Spec, KeepsLinkRule, LinkSpec

-----------------------------------------------------------------------------
(* The restore wait.                                                       *)

\* Measuring has not begun, and nothing says it had begun before a restart.
NeverMeasures == ~file.recent /\ pc \notin {"connect"} \cup Running

\* The wait is only left by the death of the process.
WaitsForever == [][pc = "restore" => pc' \in {"restore", "down"}]_vars

\* Nothing but the wait's own steps, and a crash, comes while main waits.
LEMMA FromRestore ==
  ASSUME pc = "restore", phase = "idle", [Next]_vars
  PROVE  RestoreTick \/ RestoreDone \/ Die \/ pc' = pc
<1>1. CASE Program
  <2>1. ~(LoadSettings \/ LoadFails \/ OpenPort \/ OpenFails \/ Talk \/ FlushPort)
    BY DEF LoadSettings, LoadFails, OpenPort, OpenFails, Talk, FlushPort, Talking, Flush
  <2>2. ~(CheckCommunication \/ NoStick \/ Configured \/ NotConfigured \/ Retry)
    BY DEF CheckCommunication, NoStick, Configured, NotConfigured, Retry
  <2>3. ~(GiveUpConfig \/ ShortWait \/ LongWait \/ Connect \/ MeasureGas)
    BY DEF GiveUpConfig, ShortWait, LongWait, Connect, MeasureGas
  <2>4. ~(NullStatement \/ AdcGivesUp \/ InsertValues \/ Delivered \/ Undelivered)
    BY DEF NullStatement, AdcGivesUp, InsertValues, Delivered, Undelivered
  <2>5. ~(GiveUpSending \/ SaveOpens \/ SaveWrites \/ SaveFails \/ SaveAborts)
    BY DEF GiveUpSending, SaveOpens, SaveWrites, SaveFails, SaveAborts
  <2>6. ~SampleWait
    BY DEF SampleWait
  <2> QED
    BY <1>1, <2>1, <2>2, <2>3, <2>4, <2>5, <2>6 DEF Program
<1>2. CASE Restart \/ Environment \/ UNCHANGED vars
  BY <1>2 DEF Restart, Environment, Line, Crash, PowerLoss, DbStops, DbStarts, Expire,
     Exit, stationVars, vars
<1> QED
  BY <1>1, <1>2 DEF Next

(***************************************************************************)
(* A restore time the byte counter cannot reach is waited for by every     *)
(* process that begins to wait, until it dies (main.cpp lines 130 to 133). *)
(***************************************************************************)
THEOREM RestoreIsForever ==
  ASSUME Restore >= ByteMod
  PROVE  Spec => WaitsForever
<1>1. ASSUME ExchangeInv, pc = "restore", [Next]_vars
      PROVE  pc' \in {"restore", "down"}
  <2>1. TypeOK /\ phase = "idle"
    BY <1>1 DEF ExchangeInv, OneRequest, Talking
  <2>2. ~RestoreDone
    BY <2>1, StationAssumption DEF RestoreDone, TypeOK
  <2> QED
    BY <1>1, <2>1, <2>2, FromRestore DEF RestoreTick, Die
<1> QED
  BY <1>1, InvariantHolds, PTL DEF Spec, WaitsForever

LEMMA NeverStep ==
  ASSUME Restore >= ByteMod, TypeOK, NeverMeasures, [Next]_vars
  PROVE  NeverMeasures'
<1> USE DEF NeverMeasures, Running, Go
<1>1. CASE Program
  <2>1. ~RestoreDone
    BY StationAssumption DEF RestoreDone, TypeOK
  <2>2. CASE Die
    BY <2>2 DEF Die
  <2>3. CASE UNCHANGED stationVars
    BY <2>3 DEF stationVars
  <2>4. CASE Configured
    BY <2>4 DEF Configured
  <2>5. CASE CheckCommunication \/ NotConfigured \/ Retry
    BY <2>5 DEF CheckCommunication, NotConfigured, Retry
  <2>6. CASE LoadSettings \/ OpenPort \/ LongWait \/ RestoreTick
    BY <2>6 DEF LoadSettings, OpenPort, LongWait, RestoreTick
  <2>7. ~(ShortWait \/ Connect)
    BY DEF ShortWait, Connect
  <2>8. ~(MeasureGas \/ InsertValues \/ Delivered \/ Undelivered \/ SampleWait)
    BY DEF MeasureGas, InsertValues, Delivered, Undelivered, SampleWait
  <2>9. ~(SaveOpens \/ SaveWrites \/ SaveFails)
    BY DEF SaveOpens, SaveWrites, SaveFails
  <2>10. \/ Die \/ UNCHANGED stationVars
         \/ Configured \/ CheckCommunication \/ NotConfigured \/ Retry
         \/ LoadSettings \/ OpenPort \/ LongWait \/ RestoreTick
    BY <1>1, <2>1, <2>7, <2>8, <2>9 DEF Program, LoadFails, OpenFails, NoStick,
       GiveUpConfig, NullStatement, AdcGivesUp, GiveUpSending, SaveAborts,
       Talk, FlushPort, Exit
  <2> QED
    BY <2>2, <2>3, <2>4, <2>5, <2>6, <2>10
<1>2. CASE Restart \/ Environment \/ UNCHANGED vars
  <2>1. \/ Die
        \/ pc' = pc /\ file' = file
        \/ pc = "down" /\ pc' = "load" /\ file' = file
        \/ file.recent
    BY <1>2 DEF Restart, Environment, Line, Crash, PowerLoss, DbStops, DbStarts,
       Expire, Exit, stationVars, vars
  <2> QED
    BY <2>1 DEF Die
<1> QED
  BY <1>1, <1>2 DEF Next

(***************************************************************************)
(* With such a restore time a station that has never measured never does:  *)
(* the short wait needs a measurement of an earlier process, the long one  *)
(* never ends (main.cpp lines 121 to 133; the time shipped is 1800).       *)
(***************************************************************************)
THEOREM FirstStartNeverMeasures ==
  ASSUME Restore >= ByteMod
  PROVE  Spec => []NeverMeasures
<1>1. Init => NeverMeasures
  BY DEF Init, NeverMeasures, Running
<1> QED
  BY <1>1, NeverStep, TypeCorrect, PTL DEF Spec

-----------------------------------------------------------------------------
(* The process's own counters.                                             *)

\* The restore loop's counter does not pass the time it is compared with.
TicksFit == t <= Restore

\* _errorCounter stays within the limit of the loop it counts for.
ErrorsFit ==
    /\ pc \in {"load", "open", "cc", "down"} => err = 0
    /\ pc \in {"config", "backoff", "choose", "restore", "connect"} => err <= CfgErrorLimit
    /\ pc \in Running => err <= SendErrorLimit

CountersFit == TicksFit /\ ErrorsFit

LEMMA FitStep ==
  ASSUME TypeOK, CountersFit, [Next]_vars
  PROVE  CountersFit'
<1> USE StationAssumption DEF CountersFit, TicksFit, ErrorsFit, Running, Go
<1>0. /\ err \in Nat /\ t \in Nat /\ t < ByteMod
      /\ ByteMod \in Nat /\ ByteMod # 0
  BY DEF TypeOK
<1>1. CASE Die
  BY <1>1 DEF Die
<1>2. CASE StartsUp
  <2>1. CASE LoadSettings \/ OpenPort \/ CheckCommunication
    BY <2>1 DEF LoadSettings, OpenPort, CheckCommunication
  <2>2. CASE Configured
    BY <2>2 DEF Configured
  <2>3. CASE NotConfigured \/ Retry
    BY <1>0, <2>3 DEF NotConfigured, Retry
  <2>4. CASE ShortWait \/ LongWait \/ RestoreDone
    BY <2>4 DEF ShortWait, LongWait, RestoreDone
  <2>5. CASE RestoreTick
    <3>1. t' = (t + 1) % ByteMod /\ t < Restore /\ UNCHANGED <<pc, err>>
      BY <2>5 DEF RestoreTick
    <3>2. CASE t + 1 < ByteMod
      <4>1. (t + 1) % ByteMod = t + 1
        BY <1>0, <3>2
      <4> QED
        BY <1>0, <3>1, <4>1
    <3>3. CASE t + 1 = ByteMod
      <4>1. (t + 1) % ByteMod = 0
        BY <1>0, <3>3
      <4> QED
        BY <1>0, <3>1, <4>1
    <3> QED
      BY <1>0, <3>2, <3>3
  <2>6. CASE Connect
    BY <2>6 DEF Connect
  <2> QED
    BY <1>2, <2>1, <2>2, <2>3, <2>4, <2>5, <2>6 DEF StartsUp
<1>3. CASE Loops
  <2>1. CASE MeasureGas \/ InsertValues \/ Delivered
    BY <2>1 DEF MeasureGas, InsertValues, Delivered
  <2>2. CASE Undelivered
    BY <1>0, <2>2 DEF Undelivered
  <2>3. CASE SaveOpens \/ SaveWrites \/ SaveFails \/ SampleWait
    BY <2>3 DEF SaveOpens, SaveWrites, SaveFails, SampleWait
  <2> QED
    BY <1>3, <2>1, <2>2, <2>3 DEF Loops
<1>4. CASE StaysPut \/ UNCHANGED vars
  BY <1>4 DEF StaysPut, stationVars, vars, Restart, DbStops, DbStarts, Expire
<1> QED
  BY <1>1, <1>2, <1>3, <1>4, Kinds

(***************************************************************************)
(* Between two resets _errorCounter counts no further than the limit it is *)
(* tested against, in the configuration loop as in the measuring loop: its *)
(* uint8_t never wraps past the test (main.cpp lines 115, 146 and 178 to   *)
(* 183).  The restore wait's counter stays below the time it waits for.    *)
(***************************************************************************)
THEOREM CountersStayFit == Spec => []CountersFit
<1>1. Init => CountersFit
  BY StationAssumption DEF Init, CountersFit, TicksFit, ErrorsFit, Running
<1> QED
  BY <1>1, FitStep, TypeCorrect, PTL DEF Spec

-----------------------------------------------------------------------------
(* The torn config file.                                                   *)

\* From a start on a torn file main gets no further than getSettings.
TornIsForGood ==
    [][~file.whole /\ pc \in {"down", "load"}
         => ~file'.whole /\ pc' \in {"down", "load"}]_vars

(***************************************************************************)
(* A start on a torn config file fails in getSettings, and so does every   *)
(* later one: nothing repairs the file, however often the service manager  *)
(* tries (main.cpp lines 60 to 62, cfgSettings.cpp:29-40).                 *)
(***************************************************************************)
THEOREM TornFileIsForGood == Spec => TornIsForGood
<1>1. ASSUME ExchangeInv, [Next]_vars, ~file.whole, pc \in {"down", "load"}
      PROVE  ~file'.whole /\ pc' \in {"down", "load"}
  <2>1. phase = "idle" /\ pc \notin Talking
    BY <1>1 DEF ExchangeInv, OneRequest, Talking
  <2>2. CASE Program
    BY <1>1, <2>1, <2>2 DEF Program, Exit, Die, Accept, Reject, Read, Flush, Talking,
       LoadSettings, LoadFails, OpenPort, OpenFails, Talk, FlushPort,
       CheckCommunication, NoStick, Configured, NotConfigured, Retry, GiveUpConfig,
       ShortWait, LongWait, RestoreTick, RestoreDone, Connect, MeasureGas,
       NullStatement, AdcGivesUp, InsertValues, Delivered, Undelivered,
       GiveUpSending, SaveOpens, SaveWrites, SaveFails, SaveAborts, SampleWait
  <2>3. CASE Expire
    <3>1. file'.whole = file.whole
      BY <1>1, <2>3 DEF Expire, ExchangeInv, TypeOK
    <3> QED
      BY <1>1, <2>3, <3>1 DEF Expire
  <2>4. CASE Restart \/ Line \/ Crash \/ PowerLoss \/ DbStops \/ DbStarts
    BY <1>1, <2>4 DEF Restart, Line, Crash, PowerLoss, DbStops, DbStarts, Exit, Die,
       Go, stationVars
  <2>5. CASE UNCHANGED vars
    BY <1>1, <2>5 DEF stationVars, vars
  <2> QED
    BY <1>1, <2>2, <2>3, <2>4, <2>5 DEF Next, Environment
<1> QED
  BY <1>1, InvariantHolds, PTL DEF Spec, TornIsForGood

-----------------------------------------------------------------------------
(* What a dead stick leaves to do.                                         *)

\* Nothing answers, and no OK of an earlier time is left in the port.
Deaf == env = "deaf" /\ ~Heard

\* How much of an exchange is left: its write, its flush, its read.
Stage == CASE phase = "idle" -> 3 [] phase = "written" -> 2 [] OTHER -> 1

\* A round of either loop takes fewer than 14 steps; limit - err rounds are left.
Retries(limit) == 14 * (limit - err)

\* The steps left to a process that hears nothing.
Patience ==
    CASE pc = "load"    -> 5
      [] pc = "open"    -> 4
      [] pc = "cc"      -> Stage
      [] pc = "config"  -> Retries(CfgErrorLimit) + 1 + Stage
      [] pc = "backoff" -> Retries(CfgErrorLimit) + 1
      [] pc = "choose"  -> 14 * SendErrorLimit + 17 + Restore
      [] pc = "restore" -> 14 * SendErrorLimit + 16 + Restore - t
      [] pc \in {"connect", "save"} -> 14 * SendErrorLimit + 15
      [] pc = "rewrite" -> 14 * SendErrorLimit + 14
      [] pc = "sleep"   -> Retries(SendErrorLimit) + 13
      [] pc = "measure" -> Retries(SendErrorLimit) + 13 - step
      [] pc = "values"  -> Retries(SendErrorLimit) + 4
      [] pc = "send"    -> Retries(SendErrorLimit) + Stage
      [] OTHER          -> 0

WearsOut ==
    [][Deaf /\ env' = "deaf" =>
         /\ Deaf'
         /\ Program => pc' = "down" \/ Patience' < Patience
         /\ ~Program /\ ~Restart => pc' = "down" \/ Patience' = Patience]_vars

\* In silence no OK appears.
LEMMA SilenceLasts ==
  ASSUME TypeOK, Deaf, env' = "deaf", [Next]_vars
  PROVE  Deaf'
<1> USE DEF Deaf, Heard
<1>1. CASE Write(Command, Argument)
  <2>1. \A a \in Replies : [a EXCEPT !.cur = FALSE].ok = a.ok
    BY DEF Replies
  <2>2. inq \subseteq Replies
    BY DEF TypeOK, LinkTypeOK
  <2>3. \A b \in inq' : \E a \in inq : b.ok = a.ok
    BY <1>1, <2>1, <2>2 DEF Write, Stale
  <2> QED
    BY <2>3
<1>2. CASE Flush \/ Read \/ Hangup \/ PowerCycle
  BY <1>2 DEF Flush, Read, Hangup, PowerCycle
<1>3. CASE Transmit \/ EnvChange \/ UNCHANGED linkVars
  BY <1>3 DEF Transmit, EnvChange, linkVars
<1>4. CASE Serve
  <2>1. PICK r \in rx : Ignore(r)
    BY <1>4 DEF Serve, Answer, Mute
  <2> QED
    BY <2>1 DEF Ignore
<1> QED
  BY <1>1, <1>2, <1>3, <1>4, LinkMoves DEF vars

LEMMA PatienceFalls ==
  ASSUME Restore < ByteMod, ExchangeInv, CountersFit, Deaf, Program
  PROVE  pc' = "down" \/ Patience' < Patience
<1> USE StationAssumption DEF Go
<1>0. /\ err \in Nat /\ t \in Nat /\ step \in Nat /\ step <= 8
      /\ pc \notin Talking => phase = "idle"
  BY DEF ExchangeInv, TypeOK, OneRequest
<1>1. CASE Die
  BY <1>1 DEF Die
<1>2. ~(CheckCommunication \/ Configured \/ Delivered)
  BY DEF CheckCommunication, Configured, Delivered, Accept, Deaf
<1>3. CASE LoadSettings
  BY <1>3 DEF LoadSettings, Patience
<1>4. CASE OpenPort
  <2>1. Stage' <= 3 /\ Stage' \in Nat
    BY DEF Stage
  <2> QED
    BY <1>4, <2>1 DEF OpenPort, Patience
<1>5. CASE Talk \/ FlushPort
  <2>1. pc \in Talking
    BY <1>5 DEF Talk, FlushPort, Flush, ExchangeInv, OneRequest
  <2>2. Stage' < Stage /\ Stage \in Nat /\ Stage' \in Nat
    BY <1>5 DEF Talk, FlushPort, Write, Flush, Stage
  <2>3. UNCHANGED <<pc, err>>
    BY <1>5 DEF Talk, FlushPort, stationVars
  <2> QED
    BY <1>0, <2>1, <2>2, <2>3 DEF Patience, Talking, Retries
<1>6. CASE NotConfigured
  <2>1. Stage = 1 /\ pc = "config" /\ pc' = "backoff" /\ err' = err
    BY <1>6 DEF NotConfigured, Reject, Read, Stage
  <2> QED
    BY <1>0, <2>1 DEF Patience, Retries
<1>7. CASE Retry
  <2>1. Stage' <= 3 /\ Stage' \in Nat
    BY DEF Stage
  <2>2. pc = "backoff" /\ pc' = "config" /\ err' = err + 1
    BY <1>7 DEF Retry
  <2> QED
    BY <1>0, <2>1, <2>2 DEF Patience, Retries
<1>8. CASE ShortWait \/ LongWait
  BY <1>0, <1>8 DEF ShortWait, LongWait, Patience
<1>9. CASE RestoreTick
  <2>1. (t + 1) % ByteMod = t + 1
    BY <1>0, <1>9 DEF RestoreTick
  <2> QED
    BY <1>0, <1>9, <2>1 DEF RestoreTick, Patience
<1>10. CASE RestoreDone
  BY <1>0, <1>10 DEF RestoreDone, Patience, CountersFit, TicksFit
<1>11. CASE Connect
  BY <1>0, <1>11 DEF Connect, Patience, Retries
<1>12. CASE MeasureGas
  BY <1>0, <1>12 DEF MeasureGas, Gases, Patience, Retries, ExchangeInv, TypeOK
<1>13. CASE InsertValues
  <2>1. Stage' = 3
    BY <1>0, <1>13 DEF InsertValues, linkVars, Stage, Talking
  <2> QED
    BY <1>0, <1>13, <2>1 DEF InsertValues, Patience, Retries
<1>14. CASE Undelivered
  <2>1. Stage = 1
    BY <1>14 DEF Undelivered, Reject, Read, Stage
  <2> QED
    BY <1>0, <1>14, <2>1 DEF Undelivered, Patience, Retries
<1>15. CASE SaveOpens \/ SaveWrites \/ SaveFails
  BY <1>0, <1>15 DEF SaveOpens, SaveWrites, SaveFails, Patience, Retries
<1>16. CASE SampleWait
  BY <1>0, <1>16 DEF SampleWait, Patience, Retries
<1>17. Program =>
         \/ Die \/ CheckCommunication \/ Configured \/ Delivered
         \/ LoadSettings \/ OpenPort \/ Talk \/ FlushPort \/ NotConfigured \/ Retry
         \/ ShortWait \/ LongWait \/ RestoreTick \/ RestoreDone \/ Connect
         \/ MeasureGas \/ InsertValues \/ Undelivered
         \/ SaveOpens \/ SaveWrites \/ SaveFails \/ SampleWait
  BY DEF Program, LoadFails, OpenFails, NoStick, GiveUpConfig, NullStatement,
     AdcGivesUp, GiveUpSending, SaveAborts, Exit
<1> QED
  BY <1>1, <1>2, <1>3, <1>4, <1>5, <1>6, <1>7, <1>8, <1>9, <1>10, <1>11, <1>12,
     <1>13, <1>14, <1>15, <1>16, <1>17

\* Neither the line nor the server nor the clock gives or takes any of it.
LEMMA PatienceStays ==
  ASSUME ExchangeInv, Deaf, env' = "deaf", [Next]_vars, ~Program, ~Restart
  PROVE  pc' = "down" \/ Patience' = Patience
<1>1. CASE Die
  BY <1>1 DEF Die
<1>2. CASE UNCHANGED <<pc, step, err, t, phase>>
  BY <1>2 DEF Patience, Retries, Stage
<1>3. Environment \/ UNCHANGED vars => Die \/ UNCHANGED <<pc, step, err, t, phase>>
  BY DEF Environment, Line, Transmit, Serve, EnvChange, Crash, PowerLoss, DbStops,
     DbStarts, Expire, Exit, stationVars, linkVars, vars
<1> QED
  BY <1>1, <1>2, <1>3 DEF Next

LEMMA PatienceIsNat ==
  ASSUME TypeOK, CountersFit
  PROVE  Patience \in Nat
<1>1. /\ err \in Nat /\ t \in Nat /\ t <= Restore /\ step \in 0 .. 8
      /\ Stage \in Nat /\ Restore \in Nat
      /\ CfgErrorLimit \in Nat /\ SendErrorLimit \in Nat
  BY StationAssumption DEF TypeOK, CountersFit, TicksFit, Stage
<1>2. /\ pc \in {"config", "backoff"} => Retries(CfgErrorLimit) \in Nat
      /\ pc \in Running => Retries(SendErrorLimit) \in Nat
  BY <1>1 DEF CountersFit, ErrorsFit, Retries
<1> QED
  BY <1>1, <1>2 DEF Patience, Running

(***************************************************************************)
(* Where the restore time fits its byte, nothing prolongs the life of the  *)
(* process while the stick stays dead: the steps left to it are a natural  *)
(* number, every step of its own makes them fewer, and nothing but the     *)
(* next start of the process makes them more.  Both error counters and the *)
(* pauses are what bounds it; this is the safety half of DeadStickExits    *)
(* (main.cpp lines 110 to 119, 175 to 190).  Of the shipped restore time   *)
(* RestoreIsForever says the opposite.                                     *)
(***************************************************************************)
THEOREM DeadStickWearsOut ==
  ASSUME Restore < ByteMod
  PROVE  Spec => WearsOut /\ [](Patience \in Nat)
<1>1. ExchangeInv /\ CountersFit => Patience \in Nat
  BY PatienceIsNat DEF ExchangeInv
<1>2. ASSUME ExchangeInv, CountersFit, [Next]_vars, Deaf, env' = "deaf"
      PROVE  /\ Deaf'
             /\ Program => pc' = "down" \/ Patience' < Patience
             /\ ~Program /\ ~Restart => pc' = "down" \/ Patience' = Patience
  BY <1>2, SilenceLasts, PatienceFalls, PatienceStays DEF ExchangeInv
<1> QED
  BY <1>1, <1>2, InvariantHolds, CountersStayFit, PTL DEF Spec, WearsOut

-----------------------------------------------------------------------------
(* What a station that is well has left to do until it saves.              *)

\* Line, stick and server are well and the config file is not left torn.
Well == env = "calm" /\ dbUp /\ (file.whole \/ pc = "rewrite")

\* An exchange under way will be answered.
Sure ==
    /\ phase = "written" => InFlight # {}
    /\ phase = "waiting" => rx # {} \/ Heard

\* The process measures without a database statement.
Blind == pc \in Running /\ conn = "none"

\* More than a whole life of the process takes.
Detour == 50 + Restore

\* The steps to the next save if nothing goes wrong.
Leg ==
    CASE pc = "backoff" -> 49 + Restore
      [] pc = "down"    -> 48 + Restore
      [] pc = "load"    -> 47 + Restore
      [] pc = "open"    -> 46 + Restore
      [] pc = "cc"      -> 42 + Restore + Stage
      [] pc = "config"  -> 42 + Restore - 3 * step + Stage
      [] pc = "choose"  -> 18 + Restore
      [] pc = "restore" -> 17 + Restore - t
      [] pc = "connect" -> 16
      [] pc = "rewrite" -> 15
      [] pc = "sleep"   -> 14
      [] pc = "measure" -> 13 - step
      [] pc = "values"  -> 4
      [] pc = "send"    -> Stage
      [] OTHER          -> 0

\* What may still go wrong, once each: the exchange under way, a NULL statement.
Risk == (IF Sure THEN 0 ELSE Detour) + (IF Blind THEN Detour ELSE 0)

Way == Leg + Risk

Nears ==
    [][Well /\ Well' /\ pc # "save" =>
         /\ Program \/ Restart => Way' < Way
         /\ ~Program /\ ~Restart => Way' <= Way]_vars

LEMMA LegBounds ==
    TypeOK /\ CountersFit => /\ Leg \in Nat /\ Leg < Detour /\ Detour \in Nat
                             /\ Way \in Nat
<1> SUFFICES ASSUME TypeOK, CountersFit
             PROVE  /\ Leg \in Nat /\ Leg < Detour /\ Detour \in Nat
                    /\ Way \in Nat
  OBVIOUS
<1>1. /\ t \in Nat /\ t <= Restore /\ step \in 0 .. 8 /\ Restore \in Nat
      /\ Stage \in Nat /\ Stage <= 3 /\ Stage >= 1
      /\ pc = "config" => step >= 1
  BY StationAssumption DEF TypeOK, CountersFit, TicksFit, Stage
<1>2. Detour \in Nat /\ Detour = 50 + Restore
  BY <1>1 DEF Detour
<1>3. Leg \in Nat /\ Leg < 50 + Restore
  BY <1>1 DEF Leg
<1>4. Risk \in Nat
  BY <1>2 DEF Risk
<1>5. Way \in Nat
  BY <1>2, <1>3, <1>4 DEF Way
<1> QED
  BY <1>2, <1>3, <1>5

LEMMA LegBoundsNext ==
    (TypeOK /\ CountersFit => /\ Leg \in Nat /\ Leg < Detour /\ Detour \in Nat
                              /\ Way \in Nat)'
  BY LegBounds, PTL

\* A step after which nothing more can go wrong than before.
NoWorse == (Sure => Sure') /\ (Blind' => Blind)

\* What the risk does: it does not grow, or one detour of it is over.
LEMMA RiskFalls ==
  ASSUME TypeOK, CountersFit
  PROVE  /\ Risk \in Nat /\ Risk' \in Nat
         /\ NoWorse => Risk' <= Risk
         /\ ~Sure /\ Sure' /\ (Blind' => Blind) => Risk' + Detour <= Risk
         /\ Sure /\ Sure' /\ Blind /\ ~Blind' => Risk' + Detour <= Risk
<1>1. Detour \in Nat /\ Detour' = Detour
  BY StationAssumption DEF Detour
<1>2. /\ Risk  = (IF Sure THEN 0 ELSE Detour) + (IF Blind THEN Detour ELSE 0)
      /\ Risk' = (IF Sure' THEN 0 ELSE Detour) + (IF Blind' THEN Detour ELSE 0)
  BY <1>1 DEF Risk
<1>3. CASE Sure /\ Blind
  BY <1>1, <1>2, <1>3 DEF NoWorse
<1>4. CASE Sure /\ ~Blind
  BY <1>1, <1>2, <1>4 DEF NoWorse
<1>5. CASE ~Sure /\ Blind
  BY <1>1, <1>2, <1>5 DEF NoWorse
<1>6. CASE ~Sure /\ ~Blind
  BY <1>1, <1>2, <1>6 DEF NoWorse
<1> QED
  BY <1>3, <1>4, <1>5, <1>6

LEMMA Sums ==
    \A a, b, c, d \in Nat :
        /\ a < b /\ c <= d => a + c < b + d
        /\ a <= b /\ c <= d => a + c <= b + d
        /\ \A e \in Nat : a < e /\ c + e <= d => a + c < b + d
  OBVIOUS

\* When the leg shrinks and nothing more can go wrong, the way shrinks.
LEMMA Shrinks ==
  ASSUME TypeOK, CountersFit, TypeOK', CountersFit', NoWorse
  PROVE  /\ Leg' < Leg => Way' < Way
         /\ Leg' <= Leg => Way' <= Way
<1>1. Leg \in Nat /\ Leg' \in Nat
  BY LegBounds, LegBoundsNext
<1>2. Risk \in Nat /\ Risk' \in Nat /\ Risk' <= Risk
  BY RiskFalls
<1> QED
  BY <1>1, <1>2, Sums DEF Way

\* The steps of main that go forward.
LEMMA ForwardStep ==
  ASSUME Restore < ByteMod, ExchangeInv, CountersFit, Well,
         \/ LoadSettings \/ OpenPort \/ CheckCommunication \/ Configured \/ Retry
         \/ GiveUpConfig \/ ShortWait \/ LongWait \/ RestoreTick \/ RestoreDone
         \/ Connect \/ MeasureGas \/ InsertValues \/ Delivered \/ SaveWrites
         \/ SampleWait \/ Restart
  PROVE  Leg' < Leg /\ NoWorse
<1> USE StationAssumption DEF Go
<1>0. /\ t \in Nat /\ t <= Restore /\ step \in Nat /\ step <= 8
      /\ pc \notin Talking => phase = "idle"
      /\ Stage \in Nat /\ Stage >= 1 /\ Stage' \in Nat /\ Stage' <= 3
  BY DEF ExchangeInv, TypeOK, OneRequest, CountersFit, TicksFit, Stage
<1>1. CASE LoadSettings \/ OpenPort
  BY <1>0, <1>1 DEF LoadSettings, OpenPort, linkVars, Leg, NoWorse, Sure, Blind,
     Running, Heard, InFlight
<1>2. CASE CheckCommunication
  BY <1>0, <1>2 DEF CheckCommunication, Accept, Read, Leg, NoWorse, Sure, Blind, Running
<1>3. CASE Configured
  <2>1. /\ pc = "config" /\ phase' = "idle"
        /\ step < 8 => pc' = "config" /\ step' = step + 1
        /\ ~(step < 8) => pc' = "choose"
    BY <1>3, OrderFacts DEF Configured, Accept, Read
  <2> QED
    BY <1>0, <2>1 DEF Leg, NoWorse, Sure, Blind, Running
<1>4. CASE Retry
  BY <1>0, <1>4 DEF Retry, linkVars, Leg, NoWorse, Sure, Blind, Running, Heard,
     InFlight, Talking
<1>5. CASE GiveUpConfig
  BY <1>5 DEF GiveUpConfig, Exit, Die, Hangup, Leg, NoWorse, Sure, Blind, Running
<1>6. CASE ShortWait \/ LongWait \/ RestoreDone
  BY <1>0, <1>6 DEF ShortWait, LongWait, RestoreDone, linkVars, Leg, NoWorse, Sure,
     Blind, Running, Heard, InFlight
<1>7. CASE RestoreTick
  <2>1. (t + 1) % ByteMod = t + 1
    BY <1>0, <1>7 DEF RestoreTick
  <2> QED
    BY <1>0, <1>7, <2>1 DEF RestoreTick, linkVars, Leg, NoWorse, Sure, Blind,
       Running, Heard, InFlight
<1>8. CASE Connect
  BY <1>0, <1>8 DEF Connect, Well, linkVars, Leg, NoWorse, Sure, Blind, Heard, InFlight
<1>9. CASE MeasureGas \/ SaveWrites \/ SampleWait
  BY <1>0, <1>9 DEF MeasureGas, Gases, SaveWrites, SampleWait, linkVars, Leg,
     NoWorse, Sure, Blind, Running, Heard, InFlight
<1>10. CASE InsertValues
  BY <1>0, <1>10 DEF InsertValues, linkVars, Leg, NoWorse, Sure, Blind, Running,
     Heard, InFlight
<1>11. CASE Delivered
  BY <1>0, <1>11 DEF Delivered, Accept, Read, Leg, NoWorse, Sure, Blind, Running
<1>12. CASE Restart
  BY <1>12 DEF Restart, linkVars, Leg, NoWorse, Sure, Blind, Running, Heard, InFlight
<1> QED
  BY <1>1, <1>2, <1>3, <1>4, <1>5, <1>6, <1>7, <1>8, <1>9, <1>10, <1>11, <1>12

\* A write in a calm line will be answered, and the flush does not undo that.
LEMMA ExchangeStep ==
  ASSUME ExchangeInv, Well, Talk \/ FlushPort
  PROVE  Leg' < Leg /\ NoWorse
<1>1. pc \in Talking /\ step \in Nat /\ Restore \in Nat
  BY StationAssumption DEF Talk, FlushPort, Flush, ExchangeInv, OneRequest, TypeOK
<1>2. Stage' < Stage /\ Stage \in Nat /\ Stage' \in Nat
  BY DEF Talk, FlushPort, Write, Flush, Stage
<1>3. UNCHANGED stationVars
  BY DEF Talk, FlushPort
<1>4. Leg' < Leg
  BY <1>1, <1>2, <1>3 DEF Leg, Talking, stationVars
<1>5. Sure => Sure'
  <2>1. CASE Talk
    BY <2>1 DEF Talk, Write, Sure, InFlight
  <2>2. CASE FlushPort
    BY <2>2 DEF FlushPort, Flush, Sure, InFlight, Well
  <2> QED
    BY <2>1, <2>2
<1> QED
  BY <1>3, <1>4, <1>5 DEF NoWorse, Blind, stationVars

\* In a calm line only an exchange that began before it was calm can fail.
LEMMA LateRejectStep ==
  ASSUME ExchangeInv, CountersFit, ExchangeInv', CountersFit', Well,
         NoStick \/ NotConfigured \/ Undelivered \/ GiveUpSending
  PROVE  Way' < Way
<1>1. ~Sure /\ Sure'
  BY DEF NoStick, NotConfigured, Undelivered, GiveUpSending, Reject, Read, Well, Sure
<1>2. Blind' => Blind
  BY DEF NoStick, NotConfigured, Undelivered, GiveUpSending, Die, Go, Blind, Running
<1>3. Leg \in Nat /\ Detour \in Nat /\ Leg' \in Nat /\ Leg' < Detour
  BY LegBounds, LegBoundsNext DEF ExchangeInv, Detour
<1>4. Risk \in Nat /\ Risk' \in Nat /\ Risk' + Detour <= Risk
  BY <1>1, <1>2, RiskFalls DEF ExchangeInv
<1> QED
  BY <1>3, <1>4, Sums DEF Way

\* A process that began without the database ends at its next measurement.
LEMMA NullStep ==
  ASSUME ExchangeInv, CountersFit, ExchangeInv', CountersFit', NullStatement
  PROVE  Way' < Way
<1>1. Sure /\ Sure' /\ Blind /\ ~Blind'
  BY DEF NullStatement, Exit, Die, Hangup, Sure, Blind, Running, ExchangeInv, OneRequest, Talking
<1>2. Leg \in Nat /\ Detour \in Nat /\ Leg' \in Nat /\ Leg' < Detour
  BY LegBounds, LegBoundsNext DEF ExchangeInv, Detour
<1>3. Risk \in Nat /\ Risk' \in Nat /\ Risk' + Detour <= Risk
  BY <1>1, RiskFalls DEF ExchangeInv
<1> QED
  BY <1>2, <1>3, Sums DEF Way

\* The stick, the line and the clock of a calm station only help.
LEMMA SurroundingStep ==
  ASSUME ExchangeInv, Well, Well', Environment \/ UNCHANGED vars
  PROVE  Leg' = Leg /\ NoWorse
<1> USE DEF Leg, Stage, NoWorse, Blind
<1>1. CASE Transmit /\ UNCHANGED stationVars
  BY <1>1 DEF Transmit, Sure, InFlight, Heard, stationVars
<1>2. CASE Serve /\ UNCHANGED stationVars
  <2>1. PICK r \in rx : Answer(r)
    BY <1>2 DEF Serve, Mute, Ignore, Well
  <2>2. phase # "written"
    BY <2>1 DEF Answer, Well
  <2>3. [ok |-> TRUE, cur |-> r.cur] \in inq' /\ [ok |-> TRUE, cur |-> r.cur].ok
    BY <2>1 DEF Answer
  <2>4. Heard'
    BY <2>3 DEF Heard
  <2> QED
    BY <1>2, <2>2, <2>4 DEF Serve, Sure, stationVars
<1>3. CASE Expire \/ DbStarts \/ UNCHANGED vars
  BY <1>3 DEF Expire, DbStarts, Sure, InFlight, Heard, linkVars, stationVars, vars
<1>4. Environment => \/ Transmit /\ UNCHANGED stationVars
                     \/ Serve /\ UNCHANGED stationVars
                     \/ Expire \/ DbStarts
  BY DEF Environment, Line, Crash, PowerLoss, DbStops, EnvChange, Well
<1> QED
  BY <1>1, <1>2, <1>3, <1>4

\* What main can do in a station that is well, except to save.
LEMMA WellProgram ==
  ASSUME Well, pc # "save", Program
  PROVE  \/ LoadSettings \/ OpenPort \/ CheckCommunication \/ Configured \/ Retry
         \/ GiveUpConfig \/ ShortWait \/ LongWait \/ RestoreTick \/ RestoreDone
         \/ Connect \/ MeasureGas \/ InsertValues \/ Delivered \/ SaveWrites
         \/ SampleWait
         \/ Talk \/ FlushPort
         \/ NoStick \/ NotConfigured \/ Undelivered \/ GiveUpSending
         \/ NullStatement
  BY DEF Program, Well, LoadFails, OpenFails, AdcGivesUp, SaveOpens, SaveFails, SaveAborts

(***************************************************************************)
(* Where the restore time fits its byte, a station whose line, stick and   *)
(* database are well and whose file is not torn nears its next save with   *)
(* every step it takes, from wherever the trouble before has left it: a    *)
(* way to go that is a natural number becomes less, and the surroundings   *)
(* never add to it.  One exchange begun in worse times may still fail, and *)
(* one process may have begun without the database; nothing fails twice.   *)
(* This is the safety half of ResumesUplinks (main.cpp lines 60 to 191).   *)
(* Of the shipped restore time FirstStartNeverMeasures says the opposite.  *)
(***************************************************************************)
THEOREM WellStationNears ==
  ASSUME Restore < ByteMod
  PROVE  Spec => Nears /\ [](Way \in Nat)
<1>1. ExchangeInv /\ CountersFit => Way \in Nat
  BY LegBounds DEF ExchangeInv
<1>2. ASSUME ExchangeInv, CountersFit, ExchangeInv', CountersFit', [Next]_vars,
             Well, Well', pc # "save"
      PROVE  /\ Program \/ Restart => Way' < Way
             /\ ~Program /\ ~Restart => Way' <= Way
  <2>1. Leg \in Nat /\ Leg' \in Nat /\ TypeOK /\ TypeOK'
    BY <1>2, LegBounds, LegBoundsNext DEF ExchangeInv
  <2>2. ASSUME Program \/ Restart
        PROVE  Way' < Way
    <3>1. CASE NoStick \/ NotConfigured \/ Undelivered \/ GiveUpSending
      BY <1>2, <3>1, LateRejectStep
    <3>2. CASE NullStatement
      BY <1>2, <3>2, NullStep
    <3>3. CASE Talk \/ FlushPort
      BY <1>2, <2>1, <3>3, ExchangeStep, Shrinks
    <3> QED
      BY <1>2, <2>1, <2>2, <3>1, <3>2, <3>3, WellProgram, ForwardStep, Shrinks
  <2>3. ASSUME ~Program, ~Restart
        PROVE  Way' <= Way
    BY <1>2, <2>1, <2>3, SurroundingStep, Shrinks DEF Next
  <2> QED
    BY <2>2, <2>3
<1> QED
  BY <1>1, <1>2, InvariantHolds, CountersStayFit, PTL DEF Spec, Nears

=============================================================================
