------------------------------ MODULE LoraLink ------------------------------
(***************************************************************************)
(* The serial line between the station and its LoRa USB stick:             *)
(* clientModel.cpp's command exchange over serial.cpp.                     *)
(*                                                                         *)
(* A command is one call of clientModel::sendAndWaitOK: write the bytes,   *)
(* flush the port, pause two seconds, look for "OK" in what has arrived.   *)
(* The flush is tcflush(TCIOFLUSH): it drops what the port has not sent    *)
(* yet as well as what it has received.  The stick is not in the           *)
(* repository; it is modelled from how the client uses it.                 *)
(*                                                                         *)
(* env is the condition of the line and the stick:                         *)
(*   "calm"   bytes leave before the flush, answers come within the pause  *)
(*   "rough"  bytes, commands and answers may be lost or come late         *)
(*   "deaf"   nothing answers                                              *)
(***************************************************************************)
EXTENDS Integers

CONSTANT FcMod    \* size of the frame counter's type, 2^32 in the code

ASSUME FcModAssumption == FcMod \in Nat \ {0}

VARIABLES
    env,      \* condition of the line
    phase,    \* where the client stands in sendAndWaitOK
    outq,     \* requests in the port's transmit buffer
    rx,       \* requests the stick has received and not served
    inq,      \* replies in the port's receive buffer
    stick,    \* the stick's frame counter and the parameters it has been given
    aired     \* frame counters of the uplinks the stick has transmitted

linkVars == <<env, phase, outq, rx, inq, stick, aired>>

-----------------------------------------------------------------------------

Params   == {"TP", "AM", "DR", "CH", "NK", "AK", "DA", "FC"}
Commands == Params \cup {"CC", "SP"}
Counters == 0 .. FcMod - 1
Bump(n)  == IF n + 1 = FcMod THEN 0 ELSE n + 1

\* cur: the request (or the request a reply answers) is the client's latest
Requests == [cmd : Commands, fc : Counters, cur : BOOLEAN]
Replies  == [ok : BOOLEAN, cur : BOOLEAN]

Stale(q) == {[r EXCEPT !.cur = FALSE] : r \in q}

\* No exchange is in flight.
Drained == outq = {} /\ rx = {}

LinkInit ==
    /\ env = "calm"
    /\ phase = "idle"
    /\ outq = {} /\ rx = {} /\ inq = {}
    /\ stick = [fc |-> 0, set |-> {}]
    /\ aired = {}

-----------------------------------------------------------------------------
(* The client: clientModel::sendAndWaitOK, in three steps.                 *)

\* sendAndWaitOK puts command c (with counter n when c is FC) in the port.
Write(c, n) ==
    /\ phase = "idle"
    /\ phase' = "written"
    /\ outq' = Stale(outq) \cup {[cmd |-> c, fc |-> n, cur |-> TRUE]}
    /\ rx' = Stale(rx)
    /\ inq' = Stale(inq)
    /\ UNCHANGED <<env, stick, aired>>

\* Mutation of Flush: only the output queue is discarded (TCOFLUSH).
FlushOutputOnly ==
    /\ phase = "written"
    /\ env = "calm" => outq = {}
    /\ phase' = "waiting"
    /\ outq' = {}
    /\ UNCHANGED <<env, rx, inq, stick, aired>>

Flush ==
    /\ phase = "written"
    /\ env = "calm" => outq = {}
    /\ phase' = "waiting"
    /\ outq' = {}
    /\ inq' = {}
    /\ UNCHANGED <<env, rx, stick, aired>>

\* "OK" is somewhere in the bytes Serial::read returns.
Heard == \E a \in inq : a.ok

\* The end of the pause: read everything, return whether "OK" was there.
Read ==
    /\ phase = "waiting"
    /\ env = "calm" => rx = {}
    /\ phase' = "idle"
    /\ inq' = {}
    /\ UNCHANGED <<env, outq, rx, stick, aired>>

Accept == Heard /\ Read
Reject == ~Heard /\ Read

\* The process dies and the kernel closes its port.
Hangup ==
    /\ phase' = "idle"
    /\ outq' \in {outq, {}}
    /\ UNCHANGED <<env, rx, inq, stick, aired>>

-----------------------------------------------------------------------------
(* The line and the stick (external).                                      *)

Transmit ==
    \E r \in outq :
        /\ outq' = outq \ {r}
        /\ rx' = rx \cup {r}
        /\ UNCHANGED <<env, phase, inq, stick, aired>>

\* What the stick does for request r.
Perform(r) ==
    CASE r.cmd = "SP" -> /\ aired' = aired \cup {stick.fc}
                         /\ stick' = [stick EXCEPT !.fc = Bump(@)]
      [] r.cmd = "FC" -> /\ stick' = [fc |-> r.fc, set |-> stick.set \cup {"FC"}]
                         /\ UNCHANGED aired
      [] r.cmd = "CC" -> UNCHANGED <<stick, aired>>
      [] OTHER        -> /\ stick' = [stick EXCEPT !.set = @ \cup {r.cmd}]
                         /\ UNCHANGED aired

\* In a calm line the stick's answer comes after the flush that follows the write.
Answer(r) ==
    /\ env # "deaf"
    /\ env = "calm" => phase # "written"
    /\ Perform(r)
    /\ inq' = inq \cup {[ok |-> TRUE, cur |-> r.cur]}

\* Performed, but the answer is lost on its way.
Mute(r) ==
    /\ env = "rough"
    /\ Perform(r)
    /\ UNCHANGED inq

\* Not performed: no answer, or one without "OK".
Ignore(r) ==
    /\ env # "calm"
    /\ inq' \in {inq, inq \cup {[ok |-> FALSE, cur |-> r.cur]}}
    /\ UNCHANGED <<stick, aired>>

Serve ==
    \E r \in rx :
        /\ rx' = rx \ {r}
        /\ Answer(r) \/ Mute(r) \/ Ignore(r)
        /\ UNCHANGED <<env, phase, outq>>

\* The station and the stick lose their common power supply.
PowerCycle ==
    /\ phase' = "idle"
    /\ outq' = {} /\ rx' = {} /\ inq' = {}
    /\ stick' = [fc |-> 0, set |-> {}]
    /\ UNCHANGED <<env, aired>>

EnvChange ==
    /\ env' \in {"calm", "rough", "deaf"} \ {env}
    /\ UNCHANGED <<phase, outq, rx, inq, stick, aired>>

-----------------------------------------------------------------------------

\* The rule the client's callers keep: no command while one is in flight.
Send(c, n) == Drained /\ Write(c, n)

LinkNext ==
    \/ \E c \in Commands, n \in Counters : Send(c, n)
    \/ Flush \/ Accept \/ Reject \/ Hangup
    \/ Transmit \/ Serve \/ PowerCycle \/ EnvChange

LinkSpec == LinkInit /\ [][LinkNext]_linkVars

-----------------------------------------------------------------------------

LinkTypeOK ==
    /\ env \in {"calm", "rough", "deaf"}
    /\ phase \in {"idle", "written", "waiting"}
    /\ outq \subseteq Requests
    /\ rx \subseteq Requests
    /\ inq \subseteq Replies
    /\ stick \in [fc : Counters, set : SUBSET Params]
    /\ aired \subseteq Counters

\* While the client waits, at most one exchange exists and it is the latest one.
OneExchange ==
    phase = "waiting" =>
        /\ outq = {}
        /\ inq # {} => rx = {}
        /\ \A r \in rx : r.cur /\ rx = {r}
        /\ \A a \in inq : a.cur

(***************************************************************************)
(* An "OK" the client is about to accept answers the command it has just   *)
(* sent, never an earlier one that was given up (sendAndWaitOK keeps no    *)
(* sequence number: what protects it is the flush after the write).        *)
(***************************************************************************)
OkAnswersThisCommand ==
    phase = "waiting" => \A a \in inq : a.ok => a.cur

(***************************************************************************)
(* When the client hears "OK" for a command, nothing of an earlier command *)
(* is left on the line that the stick could still execute after it.        *)
(***************************************************************************)
OkMeansQuiet ==
    phase = "waiting" /\ Heard => Drained

=============================================================================
