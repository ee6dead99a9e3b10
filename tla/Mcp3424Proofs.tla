--------------------------- MODULE Mcp3424Proofs ---------------------------
(***************************************************************************)
(* Proofs about Mcp3424, for any number of tries and any error limit.      *)
(* Types and descriptors are proved together: that a descriptor is there   *)
(* to be closed is what keeps their count a natural number.                *)
(***************************************************************************)
EXTENDS Mcp3424, TLAPS

IInv == TypeOK /\ DescriptorsAccounted

Buffers == [ready : BOOLEAN, this : BOOLEAN]

LEMMA InitInvariant == ASSUME Init PROVE IInv
<1>1. buf \in Buffers
  <2>1. PICK r \in BOOLEAN, t \in {FALSE} : buf = [ready |-> r, this |-> t]
    BY DEF Init
  <2>2. t \in BOOLEAN
    OBVIOUS
  <2> QED
    BY <2>1, <2>2 DEF Buffers
<1> QED
  <2>1. TypeOK
    BY <1>1 DEF Init, TypeOK, Values, Buffers
  <2>2. DescriptorsAccounted
    BY DEF Init, DescriptorsAccounted
  <2> QED
    BY <2>1, <2>2 DEF IInv

\* What a read() leaves in the buffer.
LEMMA FetchTypes ==
    ASSUME IInv, Fetch
    PROVE  buf' \in Buffers /\ unread' \in BOOLEAN
<1>1. busy \in BOOLEAN /\ (~busy) \in BOOLEAN /\ buf \in Buffers /\ unread \in BOOLEAN
  BY DEF IInv, TypeOK, Buffers
<1>2. [ready |-> ~busy, this |-> ~busy] \in Buffers
  BY <1>1 DEF Buffers
<1> QED
  BY <1>1, <1>2 DEF Fetch

\* Every way into and out of a reading keeps the account of the descriptors.
LEMMA StepInvariant == ASSUME IInv, [Next]_vars PROVE IInv'
<1> USE Mcp3424Assumption DEF IInv, TypeOK, DescriptorsAccounted, Values
<1>1. CASE Begin
  <2>1. buf' \in Buffers
    BY <1>1, Zenon DEF Begin, Buffers
  <2> QED
    BY <1>1, <2>1 DEF Begin, Buffers
<1>2. CASE OpenI2C
  BY <1>2 DEF OpenI2C
<1>3. CASE NoBus
  BY <1>3 DEF NoBus, Fail
<1>4. CASE AddressRefused
  BY <1>4 DEF AddressRefused, Fail
<1>5. CASE WriteConfig
  BY <1>5 DEF WriteConfig
<1>6. CASE WriteFails
  BY <1>6 DEF WriteFails
<1>7. CASE WriteGivesUp
  BY <1>7 DEF WriteGivesUp, Fail
<1>8. CASE PollDone
  BY <1>8, FetchTypes DEF PollDone, Buffers
<1>9. CASE PollAgain
  BY <1>9, FetchTypes DEF PollAgain, Buffers
<1>10. CASE PollGivesUp
  BY <1>10, FetchTypes DEF PollGivesUp, Fail, Buffers
<1>11. CASE Return
  BY <1>11 DEF Return
<1>12. CASE Convert
  BY <1>12 DEF Convert
<1>13. CASE UNCHANGED vars
  BY <1>13 DEF vars
<1> QED
  BY <1>1, <1>2, <1>3, <1>4, <1>5, <1>6, <1>7, <1>8, <1>9, <1>10, <1>11, <1>12, <1>13
  DEF Next, Driver

LEMMA Invariant == Spec => []IInv
<1>1. Init => IInv
  BY InitInvariant
<1>2. IInv /\ [Next]_vars => IInv'
  BY StepInvariant
<1> QED
  BY <1>1, <1>2, PTL DEF Spec

\* The variables of the driver keep their types, however the bus behaves.
THEOREM TypeCorrect == Spec => []TypeOK
<1>1. IInv => TypeOK
  BY DEF IInv
<1> QED
  BY <1>1, Invariant, PTL

\* readRaw closes what it opened on each of its ways out but one: where the
\* address was refused.
THEOREM DescriptorsAreClosed == Spec => []DescriptorsAccounted
<1>1. IInv => DescriptorsAccounted
  BY DEF IInv
<1> QED
  BY <1>1, Invariant, PTL

-----------------------------------------------------------------------------

\* A successful read() hands out the conversion it is of: only a failed one can
\* leave a ready bit of an earlier conversion in the buffer.
LEMMA DoneIsFresh ==
    ASSUME PollDone
    PROVE  voltage' = "old" => unread'
<1>1. CASE buf' = [ready |-> ~busy, this |-> ~busy]
  <2>1. buf'.ready => buf'.this
    BY <1>1
  <2> QED
    BY <2>1 DEF PollDone
<1>2. CASE unread' = TRUE
  BY <1>2
<1> QED
  BY <1>1, <1>2 DEF PollDone, Fetch

LEMMA StepOld == ASSUME OldOnlyAfterFailedRead, [Next]_vars PROVE OldOnlyAfterFailedRead'
<1> USE DEF OldOnlyAfterFailedRead
<1>1. CASE NoBus \/ AddressRefused \/ WriteGivesUp \/ PollGivesUp
  BY <1>1 DEF NoBus, AddressRefused, WriteGivesUp, PollGivesUp, Fail
<1>2. CASE PollDone
  BY <1>2, DoneIsFresh
<1>3. CASE Begin \/ OpenI2C \/ WriteConfig \/ WriteFails \/ PollAgain
  BY <1>3 DEF Begin, OpenI2C, WriteConfig, WriteFails, PollAgain
<1>4. CASE Return
  BY <1>4 DEF Return
<1>5. CASE Convert \/ UNCHANGED vars
  BY <1>5 DEF Convert, vars
<1> QED
  BY <1>1, <1>2, <1>3, <1>4, <1>5 DEF Next, Driver

\* A voltage handed out is of an earlier conversion only after a failed read().
THEOREM OldNeedsFailedRead == Spec => []OldOnlyAfterFailedRead
<1>1. Init => OldOnlyAfterFailedRead
  BY DEF Init, OldOnlyAfterFailedRead
<1>2. OldOnlyAfterFailedRead /\ [Next]_vars => OldOnlyAfterFailedRead'
  BY StepOld
<1> QED
  BY <1>1, <1>2, PTL DEF Spec

-----------------------------------------------------------------------------
(* The counters, and how long a reading takes.                             *)

\* The loops of readRaw count within their limits; _generalError counts the failed
\* readings in a row, and one more than the limit ends the process.
CountersFit ==
    /\ at = "write" => 1 <= tries /\ tries <= WriteTries
    /\ at = "poll" => 1 <= tries /\ tries <= PollTries
    /\ errors <= ErrorLimit + 1
    /\ at \in {"idle", "open", "write", "poll"} => errors <= ErrorLimit
    /\ at = "exit" => errors = ErrorLimit + 1

LEMMA StepCounters ==
    ASSUME TypeOK, CountersFit, [Next]_vars
    PROVE  CountersFit'
<1> USE Mcp3424Assumption DEF TypeOK, CountersFit
<1>1. CASE NoBus \/ AddressRefused \/ WriteGivesUp \/ PollGivesUp
  BY <1>1 DEF NoBus, AddressRefused, WriteGivesUp, PollGivesUp, Fail
<1>2. CASE Begin \/ OpenI2C \/ WriteConfig \/ WriteFails
  BY <1>2 DEF Begin, OpenI2C, WriteConfig, WriteFails
<1>3. CASE PollDone \/ PollAgain
  BY <1>3 DEF PollDone, PollAgain
<1>4. CASE Return
  BY <1>4 DEF Return
<1>5. CASE Convert \/ UNCHANGED vars
  BY <1>5 DEF Convert, vars
<1> QED
  BY <1>1, <1>2, <1>3, <1>4, <1>5 DEF Next, Driver

\* No counter of the driver runs past its type, and the process exits at the
\* ErrorLimit + 1st failed reading in a row, not before (MCP3424.cpp:74-111, 198-207).
THEOREM CountersStayFit == Spec => []CountersFit
<1>1. Init => CountersFit
  BY Mcp3424Assumption DEF Init, CountersFit
<1>2. TypeOK /\ CountersFit /\ [Next]_vars => CountersFit'
  BY StepCounters
<1> QED
  BY <1>1, <1>2, TypeCorrect, PTL DEF Spec

\* The steps a reading may still take.
Left ==
    CASE at = "open"  -> WriteTries + PollTries + 2
      [] at = "write" -> tries + PollTries + 1
      [] at = "poll"  -> tries + 1
      [] at = "count" -> 1
      [] OTHER        -> 0

LEMMA LeftIsNat == TypeOK => Left \in Nat
  BY Mcp3424Assumption DEF TypeOK, Left

LEMMA StepShortens ==
    ASSUME TypeOK, CountersFit, TypeOK', CountersFit', [Next]_vars
    PROVE  /\ Driver => Left' < Left
           /\ at \in {"open", "write", "poll", "count"} => Left' <= Left
<1> USE Mcp3424Assumption DEF TypeOK, CountersFit, Left
<1>1. CASE NoBus \/ AddressRefused \/ WriteGivesUp \/ PollGivesUp
  BY <1>1 DEF NoBus, AddressRefused, WriteGivesUp, PollGivesUp, Fail
<1>2. CASE OpenI2C \/ WriteConfig \/ WriteFails
  BY <1>2 DEF OpenI2C, WriteConfig, WriteFails
<1>3. CASE PollDone \/ PollAgain
  BY <1>3 DEF PollDone, PollAgain
<1>4. CASE Return
  BY <1>4 DEF Return
<1>5. CASE (Begin \/ Convert \/ UNCHANGED vars) /\ ~Driver
  BY <1>5 DEF Begin, Convert, vars
<1> QED
  BY <1>1, <1>2, <1>3, <1>4, <1>5 DEF Next, Driver

\* However the bus and the chip behave, each step of the driver brings a reading
\* nearer to its end: what is proved of ReadingEnds (MCP3424.cpp:69-111).
ReadingShortens ==
    [][/\ Left \in Nat
       /\ Driver => Left' < Left
       /\ at \in {"open", "write", "poll", "count"} => Left' <= Left]_vars

\* For every number of retries and polls: no fault of the bus gives a reading back
\* a try it has used (MCP3424.cpp:69-111).
THEOREM EachStepShortens == Spec => ReadingShortens
<1>1. TypeOK /\ CountersFit /\ TypeOK' /\ CountersFit' /\ [Next]_vars
        => [/\ Left \in Nat
            /\ Driver => Left' < Left
            /\ at \in {"open", "write", "poll", "count"} => Left' <= Left]_vars
  BY LeftIsNat, StepShortens
<1> QED
  BY <1>1, TypeCorrect, CountersStayFit, PTL DEF Spec, ReadingShortens

=============================================================================
