----------------------------- MODULE StationInv -----------------------------
(***************************************************************************)
(* The inductive invariant of Station, checked by TLC before it is proved  *)
(* (StationProofs).  Each conjunct is named for what it says of the code.  *)
(***************************************************************************)
EXTENDS Station

Below(n) == 0 .. n - 1

InFlight == outq \cup rx

\* Everywhere main can be once the configuration loop has been left.
Loop == {"choose", "restore", "connect"} \cup Running

\* During an exchange at most one request exists, and replies heard are to it.
OneRequest ==
    phase # "idle" =>
        /\ pc \in Talking
        /\ \A r, s \in InFlight : r = s
        /\ \A r \in InFlight : r.cur /\ r.cmd = Command /\ r.fc = Argument

\* After the flush nothing is unsent and every reply is to the latest request.
Flushed ==
    phase = "waiting" =>
        /\ outq = {}
        /\ inq # {} => rx = {}
        /\ \A a \in inq : a.cur

\* Only a pause or the death of the process leaves an exchange in flight.
Quiet == phase = "idle" /\ pc \notin {"backoff", "sleep", "down"} => Drained

\* No command of the configuration is still under way in the loop.
OnlyUplinks == pc \in Loop => \A r \in InFlight : r.cmd = "SP"

\* The stick holds every parameter it has acknowledged in this round.
Given ==
    /\ pc = "config" => \A i \in 1 .. step - 1 : Order[i] \in stick.set
    /\ pc \in Loop => stick.set = Params

\* Every frame counter below one that anybody holds was aired.
AiredBelow ==
    /\ Below(file.fc) \subseteq aired
    /\ Below(fc) \subseteq aired
    /\ Below(stick.fc) \subseteq aired
    /\ \A r \in InFlight : r.cmd = "FC" => Below(r.fc) \subseteq aired

\* In the loop the stick is never behind the station, until the counter wraps.
StickAhead == pc \in Loop => fc <= stick.fc \/ aired = Counters

\* What an OK heard by the client stands for.
HeardMeans ==
    phase = "waiting" /\ Heard =>
        /\ pc = "config" => /\ Command \in stick.set
                            /\ Command = "FC" => stick.fc = fc
        /\ pc = "send" => fc < stick.fc \/ aired = Counters

(***************************************************************************)
(* The inductive invariant: what the serial exchange, the configuration    *)
(* loop and the uplink loop of main.cpp keep together, from which the      *)
(* invariants of Station follow.                                           *)
(***************************************************************************)
ExchangeInv ==
    /\ TypeOK
    /\ OneRequest /\ Flushed /\ Quiet /\ OnlyUplinks
    /\ Given /\ AiredBelow /\ StickAhead /\ HeardMeans

=============================================================================
