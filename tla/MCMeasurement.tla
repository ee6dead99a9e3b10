--------------------------- MODULE MCMeasurement ---------------------------
(***************************************************************************)
(* Configurations, air and voltages for TLC.  The files are the shipped    *)
(* mainConfig.cfg and what an operator may make of it: a start-up date     *)
(* that is no string or no date, settings that are missing or mistyped,    *)
(* entries left out, offsets that divide by zero, limits set wide.         *)
(***************************************************************************)
EXTENDS Measurement

\* The compensation table only matters by its cells; every sign occurs.
MCFactor(r, c) == ((r % 3) - 1) * (c + 1)
MCBehind(p)    == IF p % 2 = 0 THEN NaN ELSE Number(7)

Bagged(type, comp, alg, we, ae, sens) ==
    [sensor |-> Number(type), compensate |-> Number(comp), algorithm |-> Number(alg),
     we_electronic |-> Number(277), we_total |-> Number(277 + we),
     ae_electronic |-> Number(282), ae_total |-> Number(282 + ae),
     sensitivity |-> Number(sens)]

Between(low, high) == <<Number(low), Number(high)>>

Tight == [temperature |-> Between(-20, 50), pressure |-> Between(1, 1000),
          humidity |-> Between(0, 80), ranges |-> Between(0, 5000), lifeTime |-> 365]
Wide  == [temperature |-> Between(-60, 70), pressure |-> Between(0, 2000),
          humidity |-> Between(0, 100), ranges |-> Between(-9999, 99999), lifeTime |-> 30]

\* Startup texts: the 100th, 200th and 300th day of 1970, and "5.1.1970".
First  == <<10, 4, 70>>
Second == <<19, 7, 70>>
Third  == <<27, 10, 70>>
Dotted == <<5>>
NoText == <<>>

Entry(f, missing, startup, op) ==
    [whole |-> TRUE, given |-> Looked \ missing, features |-> f, adcs |-> 2, startup |-> startup, operation |-> op]

Ozone(startup) == [Entry(Bagged(0, 0, 0, 0, 0, 0), Looked, startup, Tight)
                      EXCEPT !.adcs = 1]

ConfigFile(entries, ozone) ==
    [readable |-> TRUE, whole |-> TRUE, numeric |-> TRUE, alphasense |-> entries,
     aeroqual |-> ozone]

Shipped ==
    ConfigFile(<<Entry(Bagged(0, 1, 2, -2, -7, 489), {}, <<First>>, Tight),
                 Entry(Bagged(3, 7, 1, -13, -7, 302), {}, <<Second>>, Tight),
                 Entry(Bagged(5, 11, 4, 40, 5, 489), {}, NoText, Tight)>>, Ozone(<<First>>))

\* No date before the second entry; the third one's offsets divide by zero, by an
\* algorithm whose number only its lowest byte is of.
Careless ==
    ConfigFile(<<Entry(Bagged(4, 10, 3, 5, 5, 400), {"sensitivity"}, NoText, Wide),
                 Entry(Bagged(1, 3, 2, 0, 5, 400), {}, <<Dotted>>, Tight),
                 Entry(Bagged(2, 4, 258, 0, 0, 400), {}, <<Third>>, Wide)>>, Ozone(NoText))

\* One sensor only; the settings of the others are what the memory holds.
Short ==
    ConfigFile(<<Entry(Bagged(5, 11, 4, 5, 5, 400), {"compensate", "algorithm"},
                       <<Third>>, Wide)>>, Ozone(NoText))

MCFiles ==
    {Shipped, Careless, Short,
     [Shipped EXCEPT !.readable = FALSE], [Shipped EXCEPT !.numeric = FALSE],
     [Shipped EXCEPT !.alphasense[2].whole = FALSE], [Shipped EXCEPT !.aeroqual.whole = FALSE]}

Filled(x, operation, startup) ==
    [features |-> [n \in Looked |-> x], adcs |-> {}, startup |-> startup, operation |-> operation]

\* Zeros, small numbers, and words that are no numbers.
MCJunk ==
    {Filled(Number(0), Wide, 0), Filled(Number(11), Tight, 350),
     Filled(NaN, [Tight EXCEPT !.ranges = <<NaN, Infinity(1)>>], 350)}

\* On a board whose time_t has 64 bits, whose cast to int makes of a rejected date a
\* day of 2036.
MCMkTime == [x \in {Empty, Dotted, First, Second, Third} |->
                CASE x = First  -> 100
                  [] x = Second -> 200
                  [] x = Third  -> 300
                  [] x = Dotted -> 24147
                  [] OTHER      -> 24142]

MCAirs == [temp : {20, 50, 60}, pre : {900}, hum : {50}]

MCResetAir == [temp |-> 20, pre |-> 900, hum |-> 50]

=============================================================================
