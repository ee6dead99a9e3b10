------------------------------ MODULE Station ------------------------------
(***************************************************************************)
(* The life of the emca process: main.cpp, with the parts of getSettings   *)
(* and writeFrameCounter (cfgSettings.cpp), clientModel::openSerial and    *)
(* sqlConnector that decide what it does next, over the serial link of     *)
(* LoraLink.  The service manager restarts the process whenever it ends    *)
(* (release/emca.service, Restart=always).                                 *)
(*                                                                         *)
(* The process is sequential; what interleaves with it is the line and the *)
(* stick, the database server, the clock, the service manager, and crashes *)
(* and power losses, which may come between any two of its steps.          *)
(***************************************************************************)
EXTENDS LoraLink, Sequences

CONSTANTS
    ByteMod,          \* size of the restore loop counter's type, 2^8 in the code
    Restore,          \* timeCfg.restore, in seconds
    CfgErrorLimit,    \* failed configurations allowed, 5 in the code
    SendErrorLimit    \* uplinks in a row allowed to fail, 10 in the code

ASSUME StationAssumption ==
    /\ ByteMod \in Nat \ {0}
    /\ Restore \in Nat
    /\ CfgErrorLimit \in Nat
    /\ SendErrorLimit \in Nat

VARIABLES
    pc,       \* where main() stands
    step,     \* parameter being configured (1..8) or gas being measured (1..4)
    err,      \* _errorCounter
    t,        \* the restore loop's uint8_t t
    fc,       \* mainCfg._lora.frameCounter
    file,     \* the config file: complete?, frameCounter, is latestMeasure recent?
    conn,     \* the database connection of this process
    dbUp,     \* the database server answers
    row       \* what became of the latest GAS_VALUES row

memory == <<pc, step, err, t, fc, conn, row>>
stationVars == <<pc, step, err, t, fc, file, conn, dbUp, row>>
vars == <<linkVars, stationVars>>

-----------------------------------------------------------------------------

\* The order of the calls in the condition of main's configuration loop.
Order == <<"TP", "AM", "DR", "CH", "NK", "AK", "DA", "FC">>

Gases == 4

Talking == {"cc", "config", "send"}
Running == {"measure", "values", "send", "save", "rewrite", "sleep"}
Places  == {"load", "open", "cc", "config", "backoff", "choose", "restore",
            "connect", "down"} \cup Running

\* The command main is sending, and the argument it prints with it.
Command  == CASE pc = "cc"   -> "CC"
              [] pc = "send" -> "SP"
              [] OTHER       -> Order[step]
Argument == IF Command = "FC" THEN fc ELSE 0

Init ==
    /\ LinkInit
    /\ pc = "load" /\ step = 0 /\ err = 0 /\ t = 0 /\ fc = 0
    /\ file = [whole |-> TRUE, fc |-> 0, recent |-> FALSE]
    /\ conn = "none" /\ dbUp = TRUE /\ row = "none"

\* The process ends; its memory goes with it.
Die ==
    /\ pc' = "down"
    /\ step' = 0 /\ err' = 0 /\ t' = 0 /\ fc' = 0
    /\ conn' = "none" /\ row' = "none"
    /\ UNCHANGED <<file, dbUp>>

Exit == Die /\ Hangup

Go(place) == pc' = place

-----------------------------------------------------------------------------
(* Start-up: main.cpp lines 60 to 146.                                     *)

\* getSettings: an unreadable, unparsable or incomplete file ends the process.
LoadSettings ==
    /\ pc = "load" /\ file.whole
    /\ fc' = file.fc
    /\ Go("open")
    /\ UNCHANGED <<linkVars, step, err, t, file, conn, dbUp, row>>

LoadFails == pc = "load" /\ ~file.whole /\ Exit

\* openSerial: the device may be missing, then main gives up.
OpenPort ==
    /\ pc = "open"
    /\ Go("cc")
    /\ UNCHANGED <<linkVars, step, err, t, fc, file, conn, dbUp, row>>

OpenFails == pc = "open" /\ env # "calm" /\ Exit

\* Any of the client's commands, up to the pause that waits for the answer.
Talk ==
    /\ pc \in Talking
    /\ Write(Command, Argument)
    /\ UNCHANGED stationVars

FlushPort == Flush /\ UNCHANGED stationVars

\* openSerial's [CC]; without an OK the port is closed and main gives up.
CheckCommunication ==
    /\ pc = "cc" /\ Accept
    /\ Go("config") /\ step' = 1 /\ err' = 0
    /\ UNCHANGED <<t, fc, file, conn, dbUp, row>>

NoStick == pc = "cc" /\ Reject /\ Die

\* Mutation of Configured: the last command of the chain is left out.
ConfiguredButOne ==
    /\ pc = "config" /\ Accept
    /\ IF step < Len(Order) - 1 THEN Go("config") /\ step' = step + 1
                                ELSE Go("choose") /\ step' = 0
    /\ UNCHANGED <<err, t, fc, file, conn, dbUp, row>>

\* The || chain of main's while condition: the next command, or the loop is left.
Configured ==
    /\ pc = "config" /\ Accept
    /\ IF step < Len(Order) THEN Go("config") /\ step' = step + 1
                            ELSE Go("choose") /\ step' = 0
    /\ UNCHANGED <<err, t, fc, file, conn, dbUp, row>>

NotConfigured ==
    /\ pc = "config" /\ Reject
    /\ Go("backoff")
    /\ UNCHANGED <<step, err, t, fc, file, conn, dbUp, row>>

\* Mutation of Retry: no sleep before the commands are sent again.
RetryAtOnce ==
    /\ pc = "backoff"
    /\ err + 1 <= CfgErrorLimit
    /\ err' = err + 1
    /\ Go("config") /\ step' = 1
    /\ UNCHANGED <<linkVars, t, fc, file, conn, dbUp, row>>

\* sleep(15), longer than an exchange, then all the commands again from TP.
Retry ==
    /\ pc = "backoff" /\ Drained
    /\ err + 1 <= CfgErrorLimit
    /\ err' = err + 1
    /\ Go("config") /\ step' = 1
    /\ UNCHANGED <<linkVars, t, fc, file, conn, dbUp, row>>

GiveUpConfig ==
    /\ pc = "backoff" /\ Drained
    /\ err + 1 > CfgErrorLimit
    /\ Exit

\* The station was measuring not long ago: a fixed wait is enough.
ShortWait ==
    /\ pc = "choose" /\ file.recent
    /\ Go("connect")
    /\ UNCHANGED <<linkVars, step, err, t, fc, file, conn, dbUp, row>>

LongWait ==
    /\ pc = "choose" /\ ~file.recent
    /\ Go("restore") /\ t' = 0
    /\ UNCHANGED <<linkVars, step, err, fc, file, conn, dbUp, row>>

RestoreTick ==
    /\ pc = "restore" /\ t < Restore
    /\ t' = (t + 1) % ByteMod
    /\ UNCHANGED <<linkVars, pc, step, err, fc, file, conn, dbUp, row>>

RestoreDone ==
    /\ pc = "restore" /\ t >= Restore
    /\ Go("connect") /\ t' = 0
    /\ UNCHANGED <<linkVars, step, err, fc, file, conn, dbUp, row>>

\* sqlConnector::connect swallows its exception and leaves stmt NULL.
Connect ==
    /\ pc = "connect"
    /\ conn' = IF dbUp THEN "open" ELSE "none"
    /\ err' = 0
    /\ Go("measure") /\ step' = 1
    /\ UNCHANGED <<linkVars, t, fc, file, dbUp, row>>

-----------------------------------------------------------------------------
(* The measuring loop: main.cpp lines 147 to 191.                          *)

\* One gas: its values, its flag, its GAS_INFO row; then the next list node.
MeasureGas ==
    /\ pc = "measure" /\ conn # "none"
    /\ IF step < Gases THEN Go("measure") /\ step' = step + 1
                       ELSE Go("values") /\ step' = 0
    /\ UNCHANGED <<linkVars, err, t, fc, file, conn, dbUp, row>>

\* excecuteQuery through a NULL statement.
NullStatement == pc = "measure" /\ conn = "none" /\ Exit

\* MCP3424::readVoltage gives up after three failed readings in a row.
AdcGivesUp == pc = "measure" /\ env # "calm" /\ Exit

\* Mutation of InsertValues: wait until the connection works.
InsertWhenOpen ==
    /\ pc = "values" /\ conn = "open"
    /\ row' = "stored"
    /\ Go("send")
    /\ UNCHANGED <<linkVars, step, err, t, fc, file, conn, dbUp>>

\* Mutation of InsertValues: a broken connection is replaced after the failure.
InsertReconnects ==
    /\ pc = "values"
    /\ row' \in IF conn = "open" THEN {"stored", "refused"} ELSE {"lost"}
    /\ conn' = IF dbUp THEN "open" ELSE conn
    /\ Go("send")
    /\ UNCHANGED <<linkVars, step, err, t, fc, file, dbUp>>

\* excecuteQuery swallows every SQLException.  The server may refuse a single
\* statement over a good connection (a value printed as nan, a lock that times
\* out, a full disk); over a broken one every statement fails, for nothing
\* reconnects.
InsertValues ==
    /\ pc = "values"
    /\ row' \in IF conn = "open" THEN {"stored", "refused"} ELSE {"lost"}
    /\ Go("send")
    /\ UNCHANGED <<linkVars, step, err, t, fc, file, conn, dbUp>>

\* Mutation of Delivered: the uplink is counted without looking at the answer.
DeliveredUnheard ==
    /\ pc = "send" /\ Read
    /\ fc' = Bump(fc)
    /\ Go("save")
    /\ UNCHANGED <<step, err, t, file, conn, dbUp, row>>

Delivered ==
    /\ pc = "send" /\ Accept
    /\ fc' = Bump(fc)
    /\ Go("save")
    /\ UNCHANGED <<step, err, t, file, conn, dbUp, row>>

\* Mutation of Undelivered: frameCounter++ moved out of the successful branch.
UndeliveredCounts ==
    /\ pc = "send" /\ Reject
    /\ err + 1 <= SendErrorLimit
    /\ err' = err + 1
    /\ fc' = Bump(fc)
    /\ Go("sleep")
    /\ UNCHANGED <<step, t, file, conn, dbUp, row>>

\* Mutation of Undelivered: _errorCounter is reset on both branches.
UndeliveredForgets ==
    /\ pc = "send" /\ Reject
    /\ err + 1 <= SendErrorLimit
    /\ err' = 0
    /\ Go("sleep")
    /\ UNCHANGED <<step, t, fc, file, conn, dbUp, row>>

Undelivered ==
    /\ pc = "send" /\ Reject
    /\ err + 1 <= SendErrorLimit
    /\ err' = err + 1
    /\ Go("sleep")
    /\ UNCHANGED <<step, t, fc, file, conn, dbUp, row>>

GiveUpSending ==
    /\ pc = "send" /\ Reject
    /\ err + 1 > SendErrorLimit
    /\ Die

-----------------------------------------------------------------------------
(* writeFrameCounter: libconfig reads the file, then truncates it and      *)
(* writes it anew.                                                         *)

SaveOpens ==
    /\ pc = "save" /\ file.whole
    /\ file' = [file EXCEPT !.whole = FALSE]
    /\ Go("rewrite")
    /\ UNCHANGED <<linkVars, step, err, t, fc, conn, dbUp, row>>

SaveWrites ==
    /\ pc = "rewrite"
    /\ file' = [whole |-> TRUE, fc |-> fc, recent |-> TRUE]
    /\ err' = 0
    /\ Go("sleep")
    /\ UNCHANGED <<linkVars, step, t, fc, conn, dbUp, row>>

\* The file cannot be read, parsed or opened (the exceptions that are caught),
\* or the disk is full after the truncation (which libconfig does not report).
SaveFails ==
    /\ pc \in {"save", "rewrite"}
    /\ env # "calm" \/ (pc = "save" /\ ~file.whole)
    /\ err' = 0
    /\ Go("sleep")
    /\ UNCHANGED <<linkVars, step, t, fc, file, conn, dbUp, row>>

\* The file was left without its settings: lookup throws what nobody catches.
SaveAborts == pc = "save" /\ ~file.whole /\ Exit

\* The sampling pause, longer than an exchange.
SampleWait ==
    /\ pc = "sleep" /\ Drained
    /\ Go("measure") /\ step' = 1
    /\ UNCHANGED <<linkVars, err, t, fc, file, conn, dbUp, row>>

-----------------------------------------------------------------------------

Restart ==
    /\ pc = "down" /\ Drained
    /\ Go("load")
    /\ UNCHANGED <<linkVars, step, err, t, fc, file, conn, dbUp, row>>

Program ==
    \/ LoadSettings \/ LoadFails \/ OpenPort \/ OpenFails
    \/ Talk \/ FlushPort
    \/ CheckCommunication \/ NoStick
    \/ Configured \/ NotConfigured \/ Retry \/ GiveUpConfig
    \/ ShortWait \/ LongWait \/ RestoreTick \/ RestoreDone \/ Connect
    \/ MeasureGas \/ NullStatement \/ AdcGivesUp \/ InsertValues
    \/ Delivered \/ Undelivered \/ GiveUpSending
    \/ SaveOpens \/ SaveWrites \/ SaveFails \/ SaveAborts
    \/ SampleWait

Line == (Transmit \/ Serve \/ EnvChange) /\ UNCHANGED stationVars

Crash == pc # "down" /\ env # "calm" /\ Exit

PowerLoss == env # "calm" /\ Die /\ PowerCycle

\* The server stops, and every connection to it with it; later it is back.
DbStops ==
    /\ dbUp
    /\ dbUp' = FALSE
    /\ conn' = IF conn = "open" THEN "broken" ELSE conn
    /\ UNCHANGED <<linkVars, pc, step, err, t, fc, file, row>>

DbStarts ==
    /\ ~dbUp
    /\ dbUp' = TRUE
    /\ UNCHANGED <<linkVars, pc, step, err, t, fc, file, conn, row>>

\* More than restore seconds have passed since latestMeasure.
Expire ==
    /\ file.recent
    /\ file' = [file EXCEPT !.recent = FALSE]
    /\ UNCHANGED <<linkVars, pc, step, err, t, fc, conn, dbUp, row>>

Environment == Line \/ Crash \/ PowerLoss \/ DbStops \/ DbStarts \/ Expire

Next == Program \/ Restart \/ Environment

Spec == Init /\ [][Next]_vars

(***************************************************************************)
(* The process runs as long as it can step, the port transmits what is in  *)
(* it, the stick deals with what it has received (it need not answer), and *)
(* the service manager restarts a process that has ended.                  *)
(***************************************************************************)
FairSpec ==
    /\ Spec
    /\ WF_vars(Program)
    /\ WF_vars(Restart)
    /\ WF_vars(Transmit /\ UNCHANGED stationVars)
    /\ WF_vars(Serve /\ UNCHANGED stationVars)

-----------------------------------------------------------------------------

TypeOK ==
    /\ LinkTypeOK
    /\ pc \in Places
    /\ step \in 0 .. 8
    /\ pc = "config" => step \in 1 .. 8
    /\ err \in Nat
    /\ t \in 0 .. ByteMod - 1
    /\ fc \in Counters
    /\ file \in [whole : BOOLEAN, fc : Counters, recent : BOOLEAN]
    /\ conn \in {"none", "open", "broken"}
    /\ dbUp \in BOOLEAN
    /\ row \in {"none", "stored", "refused", "lost"}

(***************************************************************************)
(* The measuring loop is only entered, and no uplink is ever aired, with a *)
(* stick that holds all eight parameters, however many commands were lost, *)
(* answered late or repeated on the way (main.cpp lines 109 to 119).       *)
(***************************************************************************)
StickReady == pc \in Running => stick.set = Params

(***************************************************************************)
(* A frame counter the config file has gone past was really aired: neither *)
(* a late answer nor a crash nor a half-written file makes the persisted   *)
(* count run ahead of the uplinks (main.cpp lines 176 to 178).             *)
(***************************************************************************)
CountedWasAired == \A n \in 0 .. file.fc - 1 : n \in aired

(***************************************************************************)
(* A process that has lost a row to a broken connection loses every other  *)
(* row as well, until it ends, though the server be back and the uplinks   *)
(* go on: nothing reconnects (sqlConnector.cpp:59-78).  A row the server   *)
(* refuses over a good connection is lost alone: the next may be stored.   *)
(***************************************************************************)
LostRowsStayLost == [][row = "lost" => row' = "lost" \/ pc' = "down"]_vars

(***************************************************************************)
(* Whatever the process does with the port keeps the link's rule: it never *)
(* sends a command while an earlier one is still in flight, because every  *)
(* path from a failed exchange to the next command passes through a pause. *)
(***************************************************************************)
KeepsLinkRule == LinkSpec

(***************************************************************************)
(* Where the restore time fits the byte it is counted in, a process whose  *)
(* stick stays dead always ends, so that the service manager can start it  *)
(* afresh.  With the shipped configuration it does not fit: a process      *)
(* whose stick dies in the restore wait waits on for ever (main.cpp:133).  *)
(***************************************************************************)
DeadStickExits ==
    Restore < ByteMod => (<>[](env = "deaf") => []<>(pc = "down"))

(***************************************************************************)
(* Where the restore time fits the byte it is counted in, uplinks are      *)
(* delivered again and again once the line, the stick and the database     *)
(* are well, whichever losses, crashes and power losses came before, save  *)
(* one: a config file left torn, which nothing repairs (TornIsForGood of   *)
(* StationProofs).                                                         *)
(***************************************************************************)
ResumesUplinks ==
    Restore < ByteMod =>
        (<>[](env = "calm" /\ dbUp /\ (file.whole \/ pc = "rewrite"))
            => []<>(pc = "save"))

=============================================================================
