----------------------------- MODULE FlagManager -----------------------------
(***************************************************************************)
(* The data-quality flag of a gas: flagManager.cpp.  Each gas has a flag   *)
(* manager with its own operating conditions; main asks them in turn.  The *)
(* one thing they share is the function-local static zRanges, which takes  *)
(* its value from the first manager whose checkRanges runs.                *)
(*                                                                         *)
(* Limits on the concentration are in ppb and the concentration is in      *)
(* twentieths of a ppb, so that five per cent of a limit is whole.  Both   *)
(* may be what a float may be: the quotients of the gas sensors give NaN   *)
(* and the infinities, and limits the configuration lacks are whatever the *)
(* memory held.  The ambient values are numbers of any unit.               *)
(***************************************************************************)
EXTENDS Floats

CONSTANTS
    Managers,          \* the flag managers
    Conditions,        \* the operating conditions a configuration may hold
    Ambients,          \* readings of the ambient sensor
    Concentrations,    \* what the gas sensors may return
    MaxTime            \* bound of the model: where the clock stops

Limits == Floats \X Floats

ASSUME FlagAssumption ==
    /\ Conditions \subseteq [temperature : Limits, pressure : Limits, humidity : Limits,
                             ranges : Limits, startupTime : Int, lifeTime : Int]
    /\ Ambients \subseteq [temp : Int, pre : Int, hum : Int]
    /\ Concentrations \subseteq Floats
    /\ MaxTime \in Nat

VARIABLES
    now,        \* time(NULL)
    cond,       \* each manager's operating conditions, from the configuration
    zRanges,    \* checkRanges' static, shared by all managers
    last        \* the latest call of getFlag: of whom, on what, with which result

vars == <<now, cond, zRanges, last>>

Flags == {"VA", "VZ", "IR", "IC", "IF", "ND"}

Unset == <<>>
NoCall == [manager |-> "none"]

Init ==
    /\ now = 0
    /\ cond \in [Managers -> Conditions]
    /\ zRanges = Unset
    /\ last = NoCall

-----------------------------------------------------------------------------

Outside(value, limits) == Less(value, limits[1]) \/ Less(limits[2], value)

\* checkAmbientConditions: 0, or the first of the three values out of range.
CheckAmbient(c, a) ==
    IF Outside(Number(a.temp), c.temperature)   THEN 1
    ELSE IF Outside(Number(a.pre), c.pressure)  THEN 2
    ELSE IF Outside(Number(a.hum), c.humidity)  THEN 3
    ELSE 0

CheckLife(c) == IF now - c.startupTime > c.lifeTime THEN 0 ELSE 1

\* A limit in the unit of the concentrations.
Twentieths(x) == Times(Number(20), x)

\* The static's initialisation: the lower limit, and 0.05 of the upper one.
ZeroRange(c) == <<Twentieths(c.ranges[1]), c.ranges[2]>>

Near(con, z) == Less(z[1], con) /\ Less(con, z[2])

\* Mutation of CheckRanges: close to zero is decided before the range is.
CheckRangesZeroFirst(c, con, z) ==
    IF Near(con, z)                                THEN 3
    ELSE IF Less(con, Twentieths(c.ranges[1]))     THEN 1
    ELSE IF Less(Twentieths(c.ranges[2]), con)     THEN 2
    ELSE 0

\* checkRanges: 0, below, above, or close to zero.
CheckRanges(c, con, z) ==
    IF Less(con, Twentieths(c.ranges[1]))          THEN 1
    ELSE IF Less(Twentieths(c.ranges[2]), con)     THEN 2
    ELSE IF Near(con, z)                           THEN 3
    ELSE 0

\* Mutation of Decide: the sensor's life is looked at before the ambient values.
DecideLifeFirst(ambient, life, rangues) ==
    IF life = 0                                           THEN "IC"
    ELSE IF ambient # 0                                   THEN "IR"
    ELSE IF rangues \in 1 .. 2                            THEN "IR"
    ELSE IF rangues = 3                                   THEN "VZ"
    ELSE "VA"

\* getFlag's chain of conditions, in the code's order.
Decide(ambient, life, rangues) ==
    IF ambient # 0                                        THEN "IR"
    ELSE IF life = 0                                      THEN "IC"
    ELSE IF rangues > 0 /\ rangues < 3                    THEN "IR"
    ELSE IF life = 0 /\ rangues > 0 /\ rangues < 3        THEN "IF"
    ELSE IF ambient = 0 /\ life # 0 /\ rangues = 3        THEN "VZ"
    ELSE IF ambient = 0 /\ life # 0 /\ rangues = 0        THEN "VA"
    ELSE IF ambient # 0 /\ life = 0 /\ rangues # 0        THEN "ND"
    ELSE "NULL"

\* getFlag of manager m, with what its sensors return.
GetFlag(m, a, con) ==
    LET c == cond[m] IN
    /\ zRanges' = IF zRanges = Unset THEN ZeroRange(c) ELSE zRanges
    /\ last' = [manager |-> m, amb |-> a, con |-> con, at |-> now,
                flag |-> Decide(CheckAmbient(c, a), CheckLife(c), CheckRanges(c, con, zRanges'))]
    /\ UNCHANGED <<now, cond>>

Tick == now < MaxTime /\ now' = now + 1 /\ UNCHANGED <<cond, zRanges, last>>

Next ==
    \/ \E m \in Managers, a \in Ambients, con \in Concentrations : GetFlag(m, a, con)
    \/ Tick

Spec == Init /\ [][Next]_vars

-----------------------------------------------------------------------------

Calls == [manager : Managers, amb : Ambients, con : Concentrations, at : Int,
          flag : Flags]

\* The flag's type leaves out NULL: getFlag never reaches its return NULL, which
\* sqlConnector would print into the statement (flagManager.cpp:50).
TypeOK ==
    /\ now \in Int
    /\ cond \in [Managers -> Conditions]
    /\ zRanges \in Limits \cup {Unset}
    /\ last \in Calls \cup {NoCall}

Called == last # NoCall

\* x keeps both limits as far as they can be told apart from it: against a NaN,
\* of the value or of the limit, nothing is ever found wrong.
Passes(x, limits) ==
    /\ AtMost(limits[1], x) \/ NaN \in {limits[1], x}
    /\ AtMost(x, limits[2]) \/ NaN \in {x, limits[2]}

\* What the call judged, by the manager's own operating conditions.
Own         == cond[last.manager]
AmbientFits == /\ Passes(Number(last.amb.temp), Own.temperature)
               /\ Passes(Number(last.amb.pre), Own.pressure)
               /\ Passes(Number(last.amb.hum), Own.humidity)
Alive       == last.at - Own.startupTime <= Own.lifeTime
InRange     == Passes(last.con, <<Twentieths(Own.ranges[1]), Twentieths(Own.ranges[2])>>)

(***************************************************************************)
(* A value is flagged valid exactly when the ambient values, the sensor's  *)
(* age and the concentration all keep the limits of this very gas, however *)
(* the static zero range of another gas cuts across them.  A concentration *)
(* that is NaN keeps every limit and is flagged valid, and a limit that is *)
(* NaN is kept by every value (flagManager.cpp:58-63, 81-86).              *)
(***************************************************************************)
ValidIffFit ==
    Called => (last.flag \in {"VA", "VZ"} <=> AmbientFits /\ Alive /\ InRange)

(***************************************************************************)
(* An invalid value's flag says why: the ambient values first, then the    *)
(* age of the sensor, then the range (flagManager.cpp:36-41), with NaN     *)
(* never a reason.  A sensor past its life is therefore IC whatever its    *)
(* concentration, and the IF of line 43 is never given.                    *)
(***************************************************************************)
FlagSaysWhy ==
    Called =>
        /\ last.flag = "IC" <=> AmbientFits /\ ~Alive
        /\ last.flag = "IR" <=> ~AmbientFits \/ (Alive /\ ~InRange)

(***************************************************************************)
(* flagManager.h:46, "3: is in the range close to zero": a gas is flagged  *)
(* VZ only when it is close to zero by its own range.                      *)
(***************************************************************************)
ZeroByOwnRange ==
    Called /\ last.flag = "VZ" => Near(last.con, ZeroRange(Own))

=============================================================================
