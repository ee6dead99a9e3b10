------------------------- MODULE FlagManagerProofs -------------------------
(***************************************************************************)
(* The flags of FlagManager.tla mean what they say, for all operating      *)
(* conditions and readings.                                                *)
(***************************************************************************)
EXTENDS FlagManager, TLAPS

\* A NaN aside, of two floats one is less than the other or not.
LEMMA LessOrNot ==
    ASSUME NEW x \in Floats, NEW y \in Floats
    PROVE  ~Less(x, y) <=> AtMost(y, x) \/ NaN \in {x, y}
<1>1. CASE NaN \in {x, y}
  BY <1>1 DEF Less
<1>2. CASE IsNumber(x) /\ IsNumber(y) /\ NaN \notin {x, y}
  <2>1. x \in Numbers /\ y \in Numbers
    BY <1>2 DEF Floats, IsNumber, Infinities, NaN
  <2>2. x = y <=> x.value = y.value
    BY <1>2, <2>1 DEF Numbers
  <2> QED
    BY <1>2, <2>1, <2>2 DEF Less, AtMost, Numbers, IsNumber, Infinity
<1>3. CASE ~(IsNumber(x) /\ IsNumber(y)) /\ NaN \notin {x, y}
  <2>1. \A z \in Floats : z = NaN \/ IsNumber(z) \/ z = Infinity(1) \/ z = Infinity(-1)
    BY DEF Floats, Numbers, Infinities, IsNumber, Infinity
  <2>2. \A z \in Floats : IsNumber(z) => z # Infinity(1) /\ z # Infinity(-1)
    BY DEF IsNumber, Infinity
  <2>3. Infinity(1) # Infinity(-1)
    BY DEF Infinity
  <2> QED
    BY <1>3, <2>1, <2>2, <2>3 DEF Less, AtMost
<1> QED
  BY <1>1, <1>2, <1>3

LEMMA OutsideFails ==
    ASSUME NEW x \in Floats, NEW limits \in Limits
    PROVE  ~Outside(x, limits) <=> Passes(x, limits)
BY LessOrNot DEF Outside, Passes, Limits

LEMMA TwentiethsTyped == ASSUME NEW x \in Floats PROVE Twentieths(x) \in Floats
BY DEF Twentieths, Times, Floats, Numbers, Infinities, NaN, Number, Infinity, Sign,
   IsNumber, IsInfinite

LEMMA NumberTyped == ASSUME NEW n \in Int PROVE Number(n) \in Floats
BY DEF Number, Floats, Numbers

\* What the three checks return.
LEMMA Checks ==
    ASSUME NEW c, NEW a, NEW con, NEW z
    PROVE  /\ CheckAmbient(c, a) \in 0 .. 3 /\ CheckLife(c) \in 0 .. 1
           /\ CheckRanges(c, con, z) \in 0 .. 3
           /\ CheckAmbient(c, a) = 0 <=> /\ ~Outside(Number(a.temp), c.temperature)
                                         /\ ~Outside(Number(a.pre), c.pressure)
                                         /\ ~Outside(Number(a.hum), c.humidity)
           /\ CheckLife(c) = 0 <=> now - c.startupTime > c.lifeTime
           /\ CheckRanges(c, con, z) \in {0, 3}
                <=> ~Outside(con, <<Twentieths(c.ranges[1]), Twentieths(c.ranges[2])>>)
BY DEF CheckAmbient, CheckLife, CheckRanges, Outside

\* What getFlag makes of them: one of four flags, never NULL.
LEMMA Decisions ==
    ASSUME NEW ambient \in 0 .. 3, NEW life \in 0 .. 1, NEW rangues \in 0 .. 3
    PROVE  /\ Decide(ambient, life, rangues) \in {"VA", "VZ", "IR", "IC"}
           /\ Decide(ambient, life, rangues) \in {"VA", "VZ"}
                <=> ambient = 0 /\ life = 1 /\ rangues \in {0, 3}
           /\ Decide(ambient, life, rangues) = "IC" <=> ambient = 0 /\ life = 0
           /\ Decide(ambient, life, rangues) = "IR"
                <=> ambient # 0 \/ (life = 1 /\ rangues \notin {0, 3})
BY DEF Decide

LEMMA TypeStep == ASSUME TypeOK, [Next]_vars PROVE TypeOK'
<1>1. ASSUME NEW m \in Managers, NEW a \in Ambients, NEW con \in Concentrations,
             GetFlag(m, a, con)
      PROVE  TypeOK'
  <2> DEFINE c == cond[m]
             f == Decide(CheckAmbient(c, a), CheckLife(c), CheckRanges(c, con, zRanges'))
  <2>1. c.ranges \in Limits
    BY FlagAssumption DEF TypeOK
  <2>2. zRanges' \in Limits \cup {Unset}
    BY <1>1, <2>1, TwentiethsTyped DEF GetFlag, TypeOK, ZeroRange, Limits
  <2>3. f \in Flags
    <3>1. f \in {"VA", "VZ", "IR", "IC"}
      <4> HIDE DEF c
      <4> QED
        BY Checks, Decisions
    <3> QED
      BY <3>1 DEF Flags
  <2>4. last' \in Calls
    <3> HIDE DEF f
    <3>1. last' = [manager |-> m, amb |-> a, con |-> con, at |-> now, flag |-> f]
      BY <1>1 DEF GetFlag, f
    <3> QED
      BY <2>3, <3>1 DEF Calls, TypeOK
  <2> QED
    BY <1>1, <2>2, <2>4 DEF GetFlag, TypeOK
<1>2. CASE Tick
  BY <1>2 DEF Tick, TypeOK
<1>3. CASE UNCHANGED vars
  BY <1>3 DEF vars, TypeOK
<1> QED
  BY <1>1, <1>2, <1>3 DEF Next

\* The two properties hold of a call by its own decision, whatever zRanges is.
LEMMA MeaningStep ==
    ASSUME TypeOK, ValidIffFit, FlagSaysWhy, [Next]_vars
    PROVE  ValidIffFit' /\ FlagSaysWhy'
<1>1. ASSUME NEW m \in Managers, NEW a \in Ambients, NEW con \in Concentrations,
             GetFlag(m, a, con)
      PROVE  ValidIffFit' /\ FlagSaysWhy'
  <2> DEFINE c  == cond[m]
             am == CheckAmbient(c, a)
             li == CheckLife(c)
             ra == CheckRanges(c, con, zRanges')
  <2>1. /\ last' = [manager |-> m, amb |-> a, con |-> con, at |-> now,
                    flag |-> Decide(am, li, ra)]
        /\ cond' = cond
    BY <1>1 DEF GetFlag
  <2>2. am \in 0 .. 3 /\ li \in 0 .. 1 /\ ra \in 0 .. 3
    <3> HIDE DEF c
    <3> QED
      BY Checks
  <2>3. Own' = c
    BY <2>1 DEF Own
  <2>4. AmbientFits' <=> am = 0
    <3>1. c.temperature \in Limits /\ c.pressure \in Limits /\ c.humidity \in Limits
      BY FlagAssumption DEF TypeOK
    <3>2. /\ Number(a.temp) \in Floats /\ Number(a.pre) \in Floats
          /\ Number(a.hum) \in Floats
      BY FlagAssumption, NumberTyped
    <3> HIDE DEF c
    <3>3. am = 0 <=> /\ Passes(Number(a.temp), c.temperature)
                     /\ Passes(Number(a.pre), c.pressure)
                     /\ Passes(Number(a.hum), c.humidity)
      BY <3>1, <3>2, Checks, OutsideFails
    <3>4. last'.amb = a
      BY <2>1
    <3> QED
      BY <2>3, <3>3, <3>4 DEF AmbientFits, Passes, Number
  <2>5. Alive' <=> li = 1
    <3>1. c.startupTime \in Int /\ c.lifeTime \in Int /\ now \in Int
      BY FlagAssumption DEF TypeOK
    <3> HIDE DEF c
    <3> QED
      BY <2>1, <2>3, <3>1 DEF Alive, CheckLife
  <2>6. InRange' <=> ra \in {0, 3}
    <3>1. c.ranges \in Limits /\ con \in Floats
      BY FlagAssumption DEF TypeOK
    <3>2. <<Twentieths(c.ranges[1]), Twentieths(c.ranges[2])>> \in Limits
      BY <3>1, TwentiethsTyped DEF Limits
    <3> HIDE DEF c
    <3>3. ra \in {0, 3}
            <=> Passes(con, <<Twentieths(c.ranges[1]), Twentieths(c.ranges[2])>>)
      BY <3>1, <3>2, Checks, OutsideFails
    <3>4. last'.con = con
      BY <2>1
    <3> QED
      BY <2>3, <3>3, <3>4 DEF InRange, Passes, AtMost, Less, Twentieths
  <2>7. last'.flag = Decide(am, li, ra)
    BY <2>1
  <2> HIDE DEF am, li, ra
  <2> QED
    BY <2>2, <2>4, <2>5, <2>6, <2>7, Decisions DEF ValidIffFit, FlagSaysWhy
<1>2. CASE UNCHANGED <<cond, last>>
  BY <1>2 DEF ValidIffFit, FlagSaysWhy, Called, Own, AmbientFits, Alive, InRange
<1> QED
  BY <1>1, <1>2 DEF Next, Tick, vars

LEMMA InitInv == Init => TypeOK /\ ValidIffFit /\ FlagSaysWhy
BY DEF Init, TypeOK, ValidIffFit, FlagSaysWhy, Called

(***************************************************************************)
(* getFlag returns a documented flag, never NULL.                          *)
(***************************************************************************)
THEOREM FlagsTyped == Spec => []TypeOK
BY InitInv, TypeStep, PTL DEF Spec

(***************************************************************************)
(* A value is flagged valid exactly when everything about it keeps the     *)
(* limits of its own gas, although the zero range is another's; a NaN,     *)
(* read or set as a limit, keeps and is kept by everything.                *)
(***************************************************************************)
THEOREM ValidMeansFit == Spec => []ValidIffFit
<1>1. TypeOK /\ ValidIffFit /\ FlagSaysWhy /\ [Next]_vars
        => TypeOK' /\ ValidIffFit' /\ FlagSaysWhy'
  BY TypeStep, MeaningStep
<1> QED
  BY <1>1, InitInv, PTL DEF Spec

(***************************************************************************)
(* An invalid value's flag says why: IC is a sensor past its life within   *)
(* the ambient limits, IR what is left.                                    *)
(***************************************************************************)
THEOREM InvalidSaysWhy == Spec => []FlagSaysWhy
<1>1. TypeOK /\ ValidIffFit /\ FlagSaysWhy /\ [Next]_vars
        => TypeOK' /\ ValidIffFit' /\ FlagSaysWhy'
  BY TypeStep, MeaningStep
<1> QED
  BY <1>1, InitInv, PTL DEF Spec

-----------------------------------------------------------------------------
(* The range close to zero.                                                *)

\* Once there is a zero range it is one manager's, and every VZ is by it.
ZeroByOneRange ==
    /\ zRanges # Unset => \E m \in Managers : zRanges = ZeroRange(cond[m])
    /\ Called /\ last.flag = "VZ" => zRanges # Unset /\ Near(last.con, zRanges)

ZeroRangeForGood == [][zRanges # Unset => zRanges' = zRanges]_vars

LEMMA ZeroStep ==
    ASSUME TypeOK, ZeroByOneRange, [Next]_vars
    PROVE  ZeroByOneRange'
<1>1. ASSUME NEW m \in Managers, NEW a \in Ambients, NEW con \in Concentrations,
             GetFlag(m, a, con)
      PROVE  ZeroByOneRange'
  <2> DEFINE c  == cond[m]
             am == CheckAmbient(c, a)
             li == CheckLife(c)
             ra == CheckRanges(c, con, zRanges')
  <2>1. /\ zRanges' = IF zRanges = Unset THEN ZeroRange(c) ELSE zRanges
        /\ last' = [manager |-> m, amb |-> a, con |-> con, at |-> now,
                    flag |-> Decide(am, li, ra)]
        /\ cond' = cond
    BY <1>1 DEF GetFlag
  <2>2. ZeroRange(c) # Unset
    BY DEF ZeroRange, Unset
  <2>3. (zRanges # Unset => \E k \in Managers : zRanges = ZeroRange(cond[k]))'
    BY <2>1 DEF ZeroByOneRange, ZeroRange
  <2>4. zRanges' # Unset
    BY <2>1, <2>2
  <2>5. Decide(am, li, ra) = "VZ" => ra = 3
    BY DEF Decide
  <2>6. ra = 3 => Near(con, zRanges')
    BY DEF CheckRanges
  <2>7. last'.flag = "VZ" => Near(last'.con, zRanges')
    <3> HIDE DEF am, li, ra
    <3> QED
      BY <2>1, <2>5, <2>6
  <2> QED
    BY <2>3, <2>4, <2>7 DEF ZeroByOneRange, Near, Unset
<1>2. CASE UNCHANGED <<cond, last, zRanges>>
  BY <1>2 DEF ZeroByOneRange, ZeroRange, Called, Near
<1> QED
  BY <1>1, <1>2 DEF Next, Tick, vars

LEMMA ZeroInvariant == Spec => []ZeroByOneRange
<1>1. Init => ZeroByOneRange
  BY DEF Init, ZeroByOneRange, Called
<1>2. TypeOK /\ ZeroByOneRange /\ [Next]_vars => ZeroByOneRange'
  BY ZeroStep
<1> QED
  BY <1>1, <1>2, FlagsTyped, PTL DEF Spec

(***************************************************************************)
(* The zero range is one manager's and stays that manager's: whatever is   *)
(* flagged VZ, by any of them, is close to zero by that one range          *)
(* (flagManager.cpp:77).                                                   *)
(***************************************************************************)
THEOREM ZeroRangeIsOnes == Spec => []ZeroByOneRange /\ ZeroRangeForGood
<1>1. [Next]_vars => (zRanges # Unset => zRanges' = zRanges)
  BY DEF Next, GetFlag, Tick, vars
<1> QED
  BY <1>1, ZeroInvariant, PTL DEF Spec, ZeroRangeForGood

(***************************************************************************)
(* What flagManager.h:46 says of VZ is therefore true of a configuration   *)
(* that gives all its gases the same range, which the one shipped does not *)
(* (mainConfig.cfg:50, 83, 133).                                           *)
(***************************************************************************)
THEOREM SameRangesSameZero ==
    ASSUME \A c, d \in Conditions : c.ranges = d.ranges
    PROVE  Spec => []ZeroByOwnRange
<1>1. ASSUME TypeOK, ZeroByOneRange
      PROVE  ZeroByOwnRange
  <2> SUFFICES ASSUME Called, last.flag = "VZ"
               PROVE  Near(last.con, ZeroRange(Own))
    BY DEF ZeroByOwnRange
  <2>1. zRanges # Unset /\ Near(last.con, zRanges)
    BY <1>1 DEF ZeroByOneRange
  <2>2. PICK m \in Managers : zRanges = ZeroRange(cond[m])
    BY <1>1, <2>1 DEF ZeroByOneRange
  <2>3. last.manager \in Managers
    BY <1>1 DEF TypeOK, Called, Calls
  <2>4. cond[m] \in Conditions /\ Own \in Conditions
    BY <1>1, <2>3 DEF TypeOK, Own
  <2>5. cond[m].ranges = Own.ranges
    BY <2>4
  <2> QED
    BY <2>1, <2>2, <2>5 DEF ZeroRange
<1> QED
  BY <1>1, FlagsTyped, ZeroInvariant, PTL

=============================================================================
