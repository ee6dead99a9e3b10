----------------------------- MODULE RollingLog -----------------------------
(***************************************************************************)
(* The log of the station: plog's RollingFileAppender as main sets it up   *)
(* (main.cpp:38), writing one record after the other into a file, and      *)
(* renaming a full file to the next number, the last one being removed.    *)
(*                                                                         *)
(* No result of unlink, rename, open or write is acted upon, and the       *)
(* process may die between any two of them.  The process has one thread,   *)
(* so that the appender's mutex is never contended.                        *)
(*                                                                         *)
(* The size of a file is its number of entries: records and the header.    *)
(***************************************************************************)
EXTENDS Integers, Sequences

CONSTANTS
    MaxFileSize,    \* m_maxFileSize
    MaxFiles,       \* m_maxFiles, 3 in the code
    MaxRecords,     \* bound of the model: records handed to the log
    MaxStarts       \* bound of the model: starts of the process

ASSUME LogAssumption ==
    /\ MaxFileSize \in Nat \ {0}
    /\ MaxFiles \in 2 .. 3
    /\ MaxRecords \in Nat
    /\ MaxStarts \in Nat

VARIABLES
    pc,        \* where the appender stands; "idle" between two records
    number,    \* fileNumber, the file to be renamed next
    fd,        \* m_file is open
    size,      \* m_fileSize
    first,     \* m_firstWrite
    file,      \* what each file holds; a file that is not there holds nothing
    sent,      \* history: records handed to the log
    written,   \* history: the records that reached a file
    failed,    \* history: calls of this roll that failed on a file that is there
    over,      \* history: times the file to be written to was already full
    starts     \* history: starts of the process

vars == <<pc, number, fd, size, first, file, sent, written, failed, over, starts>>

-----------------------------------------------------------------------------

Numbers == 0 .. MaxFiles - 1
Last    == MaxFiles - 1

\* The byte order mark an empty file is begun with.
Header == 0

Full(n) == Len(file[n]) > MaxFileSize

Init ==
    /\ pc = "idle" /\ number = -1
    /\ fd = FALSE /\ size = 0 /\ first = TRUE
    /\ file = [n \in Numbers |-> <<>>]
    /\ sent = 0 /\ written = {} /\ failed = 0 /\ over = 0 /\ starts = 1

\* Mutation of Opened: the file is truncated instead of continued.
OpenedAnew ==
    /\ fd' = TRUE
    /\ file' = [file EXCEPT ![0] = <<Header>>]
    /\ size' = 1

\* Mutation of Opened: the size counts from zero, whatever the file holds.
OpenedAtZero ==
    /\ fd' = TRUE
    /\ \E header \in {<<Header>>, <<>>} :
         /\ file' = [file EXCEPT ![0] = IF @ = <<>> THEN header ELSE @]
         /\ size' = 0

\* The file is found or made, and begun with a header when it is empty; the write
\* of the header may fail like any other.
Opened ==
    /\ fd' = TRUE
    /\ \E header \in {<<Header>>, <<>>} :
         file' = [file EXCEPT ![0] = IF @ = <<>> THEN header ELSE @]
    /\ size' = Len(file'[0])

NotOpened == fd' = FALSE /\ size' = -1 /\ UNCHANGED file

Open == Opened \/ NotOpened

\* write: the first record of a process opens the file, however full it is.
FirstWrite ==
    /\ pc = "idle" /\ first /\ sent < MaxRecords
    /\ Open
    /\ first' = FALSE /\ over' = IF Full(0) THEN over + 1 ELSE over
    /\ pc' = "append"
    /\ UNCHANGED <<number, sent, written, failed, starts>>

\* write: the file is full.  A size of -1, of a file never opened, is not.
StartRoll ==
    /\ pc = "idle" /\ ~first /\ sent < MaxRecords
    /\ size > MaxFileSize
    /\ fd' = FALSE /\ failed' = 0
    /\ pc' = "unlink"
    /\ UNCHANGED <<number, size, first, file, sent, written, over, starts>>

\* Mutation of Unlink: left out, for rename replaces the last file anyway.
UnlinkLeftOut ==
    /\ pc = "unlink"
    /\ number' = MaxFiles - 2 /\ pc' = "rename"
    /\ UNCHANGED <<fd, size, first, file, sent, written, failed, over, starts>>

Unlink ==
    /\ pc = "unlink"
    /\ \/ file' = [file EXCEPT ![Last] = <<>>] /\ UNCHANGED failed
       \/ file[Last] # <<>> /\ failed' = failed + 1 /\ UNCHANGED file
    /\ number' = MaxFiles - 2 /\ pc' = "rename"
    /\ UNCHANGED <<fd, size, first, sent, written, over, starts>>

\* A file that is there replaces the next one, or fails to.
Rename ==
    /\ pc = "rename" /\ number >= 0
    /\ file[number] # <<>>
    /\ \/ /\ file' = [file EXCEPT ![number + 1] = file[number], ![number] = <<>>]
          /\ UNCHANGED <<failed, over>>
       \/ /\ failed' = failed + 1
          /\ over' = IF number = 0 THEN over + 1 ELSE over
          /\ UNCHANGED file
    /\ number' = number - 1
    /\ UNCHANGED <<pc, fd, size, first, sent, written, starts>>

NothingToRename ==
    /\ pc = "rename" /\ number >= 0
    /\ file[number] = <<>>
    /\ number' = number - 1
    /\ UNCHANGED <<pc, fd, size, first, file, sent, written, failed, over, starts>>

EndRoll ==
    /\ pc = "rename" /\ number < 0
    /\ Open
    /\ pc' = "append"
    /\ UNCHANGED <<number, first, sent, written, failed, over, starts>>

\* Where m_file.write is reached: after an opening, or with a file not yet full.
Writing == pc = "append" \/ (pc = "idle" /\ ~first /\ size <= MaxFileSize)

\* Mutation of WriteRecord: m_fileSize is not advanced.
WriteRecordUncounted ==
    /\ Writing /\ sent < MaxRecords
    /\ fd
    /\ sent' = sent + 1 /\ pc' = "idle"
    /\ file' = [file EXCEPT ![0] = Append(@, sent')]
    /\ written' = written \cup {sent'}
    /\ UNCHANGED <<number, fd, size, first, failed, over, starts>>

WriteRecord ==
    /\ Writing /\ sent < MaxRecords
    /\ fd
    /\ sent' = sent + 1 /\ pc' = "idle"
    /\ file' = [file EXCEPT ![0] = Append(@, sent')]
    /\ size' = size + 1
    /\ written' = written \cup {sent'}
    /\ UNCHANGED <<number, fd, first, failed, over, starts>>

\* The file is not open, or the write fails: the record is gone.
WriteFails ==
    /\ Writing /\ sent < MaxRecords
    /\ sent' = sent + 1 /\ pc' = "idle"
    /\ UNCHANGED <<number, fd, size, first, file, written, failed, over, starts>>

\* The process dies at any point, and is started again.
Crash ==
    /\ pc # "down"
    /\ pc' = "down" /\ number' = -1
    /\ fd' = FALSE /\ size' = 0 /\ first' = TRUE /\ failed' = 0
    /\ UNCHANGED <<file, sent, written, over, starts>>

Restart ==
    /\ pc = "down" /\ starts < MaxStarts
    /\ pc' = "idle" /\ starts' = starts + 1
    /\ UNCHANGED <<number, fd, size, first, file, sent, written, failed, over>>

Next ==
    \/ FirstWrite \/ StartRoll
    \/ Unlink \/ Rename \/ NothingToRename \/ EndRoll
    \/ WriteRecord \/ WriteFails
    \/ Crash \/ Restart

Spec == Init /\ [][Next]_vars

-----------------------------------------------------------------------------

TypeOK ==
    /\ pc \in {"idle", "unlink", "rename", "append", "down"}
    /\ number \in -1 .. MaxFiles - 2
    /\ fd \in BOOLEAN /\ first \in BOOLEAN
    /\ size \in Int /\ size >= -1
    /\ file \in [Numbers -> Seq(0 .. MaxRecords)]
    /\ sent \in 0 .. MaxRecords
    /\ written \subseteq 1 .. sent
    /\ failed \in Nat /\ over \in Nat /\ starts \in Nat

Entry(n) == 1 .. Len(file[n])

Records(n) == {file[n][i] : i \in Entry(n)} \ {Header}
Kept       == UNION {Records(n) : n \in Numbers}

\* The entries of a file numbered higher, and those before in the same, are older.
Older(m, i, n, j) == m > n \/ (m = n /\ i < j)

\* No entry of file n, the header aside, is as old as r.
AllNewer(n, r) == \A i \in Entry(n) : file[n][i] = Header \/ file[n][i] > r

(***************************************************************************)
(* The log never loses what is recent: whatever record has disappeared, by *)
(* a roll, a failed call in one, or a crash in the middle of one, a whole  *)
(* full file of newer records is there (RollingFileAppender.h:56-73).      *)
(***************************************************************************)
RecentKept ==
    \A r \in written \ Kept : \E n \in Numbers : Full(n) /\ AllNewer(n, r)

(***************************************************************************)
(* The oldest go first: a step that loses records keeps none older than    *)
(* they are, unless two calls of the same roll have failed; after a crash  *)
(* in the middle of a roll too (RollingFileAppender.h:60-69).              *)
(***************************************************************************)
OldestGoFirst ==
    [][failed <= 1 => \A r \in Kept \ Kept', q \in Kept' : r < q]_vars

(***************************************************************************)
(* The files stay small: beyond the limit and the record that exceeds it,  *)
(* a file grows by one record each time the process starts with a full one *)
(* or cannot rename it (RollingFileAppender.h:38-46).                      *)
(***************************************************************************)
GrowthBounded == \A n \in Numbers : Len(file[n]) <= MaxFileSize + 1 + over

-----------------------------------------------------------------------------
(* The inductive invariant.                                                *)

\* A header only begins a file, and every entry is newer than those it follows.
InOrder ==
    /\ \A n \in Numbers : \A i \in Entry(n) :
         /\ file[n][i] = Header => i = 1
         /\ file[n][i] <= sent
    /\ \A m, n \in Numbers : \A i \in Entry(m) : \A j \in Entry(n) :
         Older(m, i, n, j) => file[n][j] = Header \/ file[m][i] < file[n][j]

\* While a file is open m_fileSize is its size.
SizeKnown ==
    /\ fd => size = Len(file[0]) /\ ~first
    /\ fd => pc \in {"idle", "append"}
    /\ ~fd /\ pc \in {"idle", "append"} /\ ~first => size = -1
    /\ pc \in {"unlink", "rename", "append"} => ~first
    /\ pc = "down" => first

\* A roll has the full file at hand, under its old number or its new one.
FullAtHand ==
    /\ pc = "unlink" => Full(0)
    /\ pc = "rename" => IF number >= 0 THEN Full(0) ELSE Full(0) \/ Full(1)

\* What is still in the way of a rename is there because calls failed.
InTheWay ==
    pc = "rename" =>
        /\ number + 1 = Last /\ file[Last] # <<>> => failed >= 1
        /\ number + 2 = Last /\ file[number + 1] # <<>> => failed >= 1
        /\ number + 2 = Last /\ file[number + 1] # <<>> /\ file[Last] # <<>>
             => failed >= 2

(***************************************************************************)
(* The inductive invariant: the order of the entries over all files, the   *)
(* size the appender counts by, the full file a roll has at hand.          *)
(***************************************************************************)
FilesInv == TypeOK /\ InOrder /\ SizeKnown /\ FullAtHand /\ InTheWay /\ RecentKept

=============================================================================
