------------------------------ MODULE Mcp3424 ------------------------------
(***************************************************************************)
(* One reading of an MCP3424: readVoltage and readRaw of MCP3424.cpp over  *)
(* an I2C bus on which any operation may fail.  A reading opens the bus,   *)
(* writes the register to start a conversion (with a bounded number of     *)
(* tries), polls until the chip says the conversion is done (bounded too), *)
(* and closes the bus; too many failed readings in a row end the process.  *)
(* The values themselves are Mcp3424Codec's business: here a buffer or a   *)
(* voltage is only known by the conversion it comes from.                  *)
(***************************************************************************)
EXTENDS Integers

CONSTANTS
    WriteTries,     \* 10 in the code
    PollTries,      \* 1000 in the code
    ErrorLimit,     \* 2 in the code
    MaxOpens        \* bound of the model: descriptors the process may hold

ASSUME Mcp3424Assumption ==
    /\ WriteTries \in Nat \ {0}
    /\ PollTries \in Nat \ {0}
    /\ ErrorLimit \in Nat
    /\ MaxOpens \in Nat

VARIABLES
    at,          \* where the driver stands
    tries,       \* the local of readRaw
    errors,      \* _generalError
    held,        \* descriptors of the bus the process holds
    busy,        \* the chip is converting
    buf,         \* _rBuff: its ready bit is 0, it is of this conversion
    voltage,     \* where _voltage comes from
    refused,     \* history: times the bus was opened and its address refused
    unread       \* history: a read() failed in this reading

vars == <<at, tries, errors, held, busy, buf, voltage, refused, unread>>

Values == {"none", "this", "old", "zero"}

Init ==
    /\ at = "idle" /\ tries = 0 /\ errors = 0 /\ held = 0
    /\ busy = FALSE
    /\ buf \in [ready : BOOLEAN, this : {FALSE}]     \* never initialised
    /\ voltage = "none"
    /\ refused = 0 /\ unread = FALSE

\* A failed reading: one more error, and 0 for a result.
Fail ==
    /\ errors' = errors + 1
    /\ voltage' = "zero"
    /\ at' = "count"

-----------------------------------------------------------------------------

Begin ==
    /\ at = "idle" /\ held < MaxOpens
    /\ at' = "open"
    /\ buf' = [buf EXCEPT !.this = FALSE]
    /\ voltage' = IF voltage = "this" THEN "old" ELSE voltage
    /\ unread' = FALSE
    /\ UNCHANGED <<tries, errors, held, busy, refused>>

OpenI2C ==
    /\ at = "open"
    /\ held' = held + 1
    /\ at' = "write" /\ tries' = WriteTries
    /\ UNCHANGED <<errors, busy, buf, voltage, refused, unread>>

NoBus ==
    /\ at = "open"
    /\ Fail
    /\ UNCHANGED <<tries, held, busy, buf, refused, unread>>

\* ioctl fails: readRaw returns without closing what open returned.
AddressRefused ==
    /\ at = "open"
    /\ held' = held + 1 /\ refused' = refused + 1
    /\ Fail
    /\ UNCHANGED <<tries, busy, buf, unread>>

WriteConfig ==
    /\ at = "write"
    /\ busy' = TRUE
    /\ at' = "poll" /\ tries' = PollTries
    /\ UNCHANGED <<errors, held, buf, voltage, refused, unread>>

WriteFails ==
    /\ at = "write" /\ tries > 1
    /\ tries' = tries - 1
    /\ UNCHANGED <<at, errors, held, busy, buf, voltage, refused, unread>>

\* Mutation of WriteGivesUp: the early return forgets closeI2C.
WriteGivesUpOpen ==
    /\ at = "write" /\ tries = 1
    /\ tries' = 0
    /\ Fail
    /\ UNCHANGED <<held, busy, buf, refused, unread>>

WriteGivesUp ==
    /\ at = "write" /\ tries = 1
    /\ tries' = 0 /\ held' = held - 1
    /\ Fail
    /\ UNCHANGED <<busy, buf, refused, unread>>

\* The chip finishes its conversion (external).
Convert ==
    /\ busy
    /\ busy' = FALSE
    /\ UNCHANGED <<at, tries, errors, held, buf, voltage, refused, unread>>

\* Mutation of Fetch: the ready bit is not looked at.
FetchReady ==
    /\ buf' = [ready |-> TRUE, this |-> ~busy]
    /\ UNCHANGED unread

\* read() fills the buffer with what the chip has, or fails and leaves it.
Fetch ==
    \/ buf' = [ready |-> ~busy, this |-> ~busy] /\ UNCHANGED unread
    \/ UNCHANGED buf /\ unread' = TRUE

\* The buffer's ready bit ends the loop; the conversion counts as a success.
PollDone ==
    /\ at = "poll" /\ Fetch /\ buf'.ready
    /\ held' = held - 1
    /\ errors' = 0
    /\ voltage' = IF buf'.this THEN "this" ELSE "old"
    /\ at' = "count"
    /\ UNCHANGED <<tries, busy, refused>>

\* Mutation of PollAgain: the loop polls without counting.
PollForEver ==
    /\ at = "poll" /\ Fetch /\ ~buf'.ready /\ tries > 1
    /\ UNCHANGED <<at, tries, errors, held, busy, voltage, refused>>

PollAgain ==
    /\ at = "poll" /\ Fetch /\ ~buf'.ready /\ tries > 1
    /\ tries' = tries - 1
    /\ UNCHANGED <<at, errors, held, busy, voltage, refused>>

PollGivesUp ==
    /\ at = "poll" /\ Fetch /\ ~buf'.ready /\ tries = 1
    /\ tries' = 0 /\ held' = held - 1
    /\ Fail
    /\ UNCHANGED <<busy, refused>>

\* readVoltage hands the value out, or ends the process.
Return ==
    /\ at = "count"
    /\ at' = IF errors > ErrorLimit THEN "exit" ELSE "idle"
    /\ UNCHANGED <<tries, errors, held, busy, buf, voltage, refused, unread>>

Driver ==
    \/ OpenI2C \/ NoBus \/ AddressRefused
    \/ WriteConfig \/ WriteFails \/ WriteGivesUp
    \/ PollDone \/ PollAgain \/ PollGivesUp
    \/ Return

Next == Begin \/ Driver \/ Convert

Spec == Init /\ [][Next]_vars

\* The process runs; the bus and the chip owe it nothing.
FairSpec == Spec /\ WF_vars(Driver)

-----------------------------------------------------------------------------

TypeOK ==
    /\ at \in {"idle", "open", "write", "poll", "count", "exit"}
    /\ tries \in Nat
    /\ errors \in Nat
    /\ held \in Nat
    /\ busy \in BOOLEAN
    /\ buf \in [ready : BOOLEAN, this : BOOLEAN]
    /\ voltage \in Values
    /\ refused \in Nat
    /\ unread \in BOOLEAN

(***************************************************************************)
(* readRaw has five ways out; whichever a reading takes, and however often *)
(* it tried, it has closed the descriptor it opened, except when the       *)
(* address was refused after the open (MCP3424.cpp:34-37, 77-80).          *)
(***************************************************************************)
DescriptorsAccounted ==
    held = refused + (IF at \in {"write", "poll"} THEN 1 ELSE 0)

(***************************************************************************)
(* A voltage handed out is of the conversion just asked for, or 0 after an *)
(* error, unless a read() failed on the way: readConfig does not report    *)
(* that, and the loop then judges by the bytes of an earlier conversion    *)
(* (MCP3424.cpp:53-62, 99).                                                *)
(***************************************************************************)
OldOnlyAfterFailedRead ==
    at = "count" /\ voltage = "old" => unread

(***************************************************************************)
(* However the bus and the chip behave, a reading ends: it returns a value *)
(* or the process exits.                                                   *)
(***************************************************************************)
ReadingEnds == at = "open" ~> at \in {"idle", "exit"}

=============================================================================
