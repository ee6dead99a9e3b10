-------------------------- MODULE RollingLogProofs --------------------------
(***************************************************************************)
(* Proofs about the log, for every size of its files: the inductive        *)
(* invariant of RollingLog, that recent records are never lost, that the   *)
(* oldest go first, and that the files stay small.                         *)
(***************************************************************************)
EXTENDS RollingLog, SequenceTheorems, TLAPS

\* The files that are there in every instance.
LEMMA SomeNumbers ==
    /\ 0 \in Numbers /\ 1 \in Numbers /\ Last \in Numbers /\ Last >= 1
    /\ Last - 1 = MaxFiles - 2 /\ Numbers \subseteq Nat
BY LogAssumption DEF Numbers, Last

\* A sequence with one more element.
LEMMA OneMore ==
    ASSUME NEW S, NEW s \in Seq(S), NEW x \in S
    PROVE  /\ Append(s, x) \in Seq(S)
           /\ Len(Append(s, x)) = Len(s) + 1
           /\ \A i \in 1 .. Len(s) : Append(s, x)[i] = s[i]
           /\ Append(s, x)[Len(s) + 1] = x
BY AppendProperties

\* Entries are numbers, and a full file ends with a record.
LEMMA Entries ==
    ASSUME TypeOK, InOrder
    PROVE  /\ \A n \in Numbers : Len(file[n]) \in Nat /\ Entry(n) \subseteq Nat
           /\ \A n \in Numbers : \A i \in Entry(n) : file[n][i] \in Nat
           /\ \A n \in Numbers :
                Full(n) => /\ Len(file[n]) \in Entry(n)
                           /\ file[n][Len(file[n])] # Header
<1>1. \A n \in Numbers : file[n] \in Seq(0 .. MaxRecords)
  BY DEF TypeOK
<1>2. \A n \in Numbers : Len(file[n]) \in Nat
  BY <1>1, LenProperties
<1>3. \A n \in Numbers : \A i \in Entry(n) : file[n][i] \in 0 .. MaxRecords
  BY <1>1, ElementOfSeq DEF Entry
<1>4. ASSUME NEW n \in Numbers, Full(n)
      PROVE  Len(file[n]) \in Entry(n) /\ file[n][Len(file[n])] # Header
  <2>1. Len(file[n]) \in Nat /\ MaxFileSize \in Nat /\ MaxFileSize >= 1
    BY <1>2, LogAssumption
  <2>2. Len(file[n]) > MaxFileSize
    BY <1>4 DEF Full
  <2>3. \A k, m \in Nat : m >= 1 /\ k > m => k \in 1 .. k /\ k # 1
    OBVIOUS
  <2>4. Len(file[n]) \in Entry(n) /\ Len(file[n]) # 1
    BY <2>1, <2>2, <2>3 DEF Entry
  <2> QED
    BY <2>4 DEF InOrder
<1>5. MaxRecords \in Nat
  BY LogAssumption
<1> QED
  BY <1>2, <1>3, <1>4, <1>5 DEF Entry

-----------------------------------------------------------------------------
(* What is older than file 0 is older than all of it.                      *)

LEMMA NewestFile ==
    ASSUME TypeOK, InOrder, NEW n \in Numbers, n > 0, NEW r \in Nat,
           NEW i \in Entry(n), r <= file[n][i]
    PROVE  AllNewer(0, r)
<1>1. ASSUME NEW j \in Entry(0)
      PROVE  file[0][j] = Header \/ file[n][i] < file[0][j]
  BY <1>1, SomeNumbers DEF InOrder, Older
<1>2. ASSUME NEW j \in Entry(0)
      PROVE  file[0][j] \in Nat /\ file[n][i] \in Nat
  BY <1>2, Entries, SomeNumbers
<1> QED
  BY <1>1, <1>2 DEF AllNewer

\* A record lost before or with file n leaves a full file 0 that is newer.
LEMMA LostWithFile ==
    ASSUME FilesInv, NEW n \in Numbers, n > 0, NEW r \in Nat,
           r \in Records(n) \/ (Full(n) /\ AllNewer(n, r))
    PROVE  AllNewer(0, r)
<1>1. CASE r \in Records(n)
  <2>1. PICK i \in Entry(n) : file[n][i] = r
    BY <1>1 DEF Records
  <2> QED
    BY <2>1, NewestFile DEF FilesInv
<1>2. CASE Full(n) /\ AllNewer(n, r)
  <2>1. /\ Len(file[n]) \in Entry(n)
        /\ file[n][Len(file[n])] # Header
        /\ file[n][Len(file[n])] \in Nat
    BY <1>2, Entries DEF FilesInv
  <2>2. r <= file[n][Len(file[n])]
    BY <1>2, <2>1 DEF AllNewer
  <2> QED
    BY <2>1, <2>2, NewestFile DEF FilesInv
<1> QED
  BY <1>1, <1>2

-----------------------------------------------------------------------------
(* What the parts of a step do to the files.                               *)

\* What a step that leaves the files and the records alone keeps.
LEMMA FilesAlone ==
    ASSUME FilesInv, UNCHANGED <<file, written>>, sent' \in Nat, sent' >= sent
    PROVE  InOrder' /\ RecentKept' /\ Kept' = Kept
<1>1. InOrder'
  <2>1. \A n \in Numbers : \A i \in Entry(n) : file[n][i] \in Nat
    BY Entries DEF FilesInv
  <2>2. sent \in Nat
    BY DEF FilesInv, TypeOK
  <2> QED
    BY <2>1, <2>2 DEF FilesInv, InOrder, Entry, Older
<1>2. RecentKept'
  BY DEF FilesInv, RecentKept, Kept, Records, Entry, Full, AllNewer
<1>3. Kept' = Kept
  BY DEF Kept, Records, Entry
<1> QED
  BY <1>1, <1>2, <1>3

\* An empty file that is begun: no record comes or goes.
LEMMA Begun ==
    ASSUME FilesInv, UNCHANGED <<sent, written>>, file[0] = <<>>,
           NEW header \in {<<Header>>, <<>>},
           file' = [file EXCEPT ![0] = header]
    PROVE  /\ file' \in [Numbers -> Seq(0 .. MaxRecords)]
           /\ InOrder' /\ RecentKept' /\ Kept' = Kept
           /\ Len(file'[0]) \in 0 .. 1
           /\ \A n \in Numbers \ {0} : file'[n] = file[n]
<1>1. header \in Seq(0 .. MaxRecords) /\ Len(header) \in 0 .. 1
  <2>1. CASE header = <<>>
    BY <2>1
  <2>2. CASE header = <<Header>>
    BY <2>2, LogAssumption DEF Header
  <2> QED
    BY <2>1, <2>2
<1>2. \A i \in 1 .. Len(header) : i = 1 /\ header[i] = Header
  <2>1. CASE header = <<>>
    BY <2>1
  <2>2. CASE header = <<Header>>
    BY <2>2
  <2> QED
    BY <2>1, <2>2
<1>3. file \in [Numbers -> Seq(0 .. MaxRecords)]
  BY DEF FilesInv, TypeOK
<1>4. file' \in [Numbers -> Seq(0 .. MaxRecords)]
  BY <1>1, <1>3, SomeNumbers
<1>5. file'[0] = header /\ \A n \in Numbers \ {0} : file'[n] = file[n]
  BY <1>3, SomeNumbers
<1>6. Len(file[0]) = 0
  OBVIOUS
<1>7. \A n \in Numbers : Records(n)' = Records(n)
  <2>1. Records(0)' = {}
    BY <1>2, <1>5 DEF Records, Entry
  <2>2. Records(0) = {}
    BY <1>6 DEF Records, Entry
  <2>3. \A n \in Numbers \ {0} : Records(n)' = Records(n)
    BY <1>5 DEF Records, Entry
  <2> QED
    BY <2>1, <2>2, <2>3
<1>8. Kept' = Kept
  BY <1>7 DEF Kept
<1>9. RecentKept'
  <2>1. ASSUME NEW r \in written, r \notin Kept
        PROVE  \E n \in Numbers : Full(n)' /\ AllNewer(n, r)'
    <3>1. PICK n \in Numbers : Full(n) /\ AllNewer(n, r)
      BY <2>1 DEF FilesInv, RecentKept
    <3>2. n # 0
      BY <3>1, <1>6, LogAssumption DEF Full
    <3>3. file'[n] = file[n]
      BY <3>2, <1>5
    <3> QED
      BY <3>1, <3>3 DEF Full, AllNewer, Entry
  <2> QED
    BY <2>1, <1>8 DEF RecentKept
<1>10. InOrder'
  <2>1. \A i \in Entry(0)' : i = 1 /\ file'[0][i] = Header
    BY <1>2, <1>5 DEF Entry
  <2>2. \A n \in Numbers \ {0} : Entry(n)' = Entry(n) /\ file'[n] = file[n]
    BY <1>5 DEF Entry
  <2>3. sent' = sent /\ sent \in Nat /\ Header \in Nat /\ Numbers \subseteq Nat
    BY SomeNumbers DEF FilesInv, TypeOK, Header
  <2>4. ASSUME NEW n \in Numbers, NEW i \in Entry(n)'
        PROVE  (file'[n][i] = Header => i = 1) /\ file'[n][i] <= sent'
    <3>1. CASE n = 0
      BY <3>1, <2>1, <2>3, <2>4 DEF Header
    <3>2. CASE n # 0
      BY <3>2, <2>2, <2>3, <2>4 DEF FilesInv, InOrder
    <3> QED
      BY <3>1, <3>2
  <2>5. ASSUME NEW m \in Numbers, NEW n \in Numbers, NEW i \in Entry(m)',
               NEW j \in Entry(n)', Older(m, i, n, j)
        PROVE  file'[n][j] = Header \/ file'[m][i] < file'[n][j]
    <3>1. CASE n = 0
      BY <3>1, <2>1, <2>5
    <3>2. CASE n # 0
      <4>1. m # 0
        BY <3>2, <2>3, <2>5 DEF Older
      <4>2. i \in Entry(m) /\ j \in Entry(n)
        BY <4>1, <3>2, <2>2, <2>5
      <4>3. file[n][j] = Header \/ file[m][i] < file[n][j]
        BY <4>2, <2>5 DEF FilesInv, InOrder
      <4> QED
        BY <4>1, <4>3, <3>2, <2>2
    <3> QED
      BY <3>1, <3>2
  <2> QED
    BY <2>4, <2>5 DEF InOrder, Older
<1> QED
  BY <1>1, <1>4, <1>5, <1>8, <1>9, <1>10

\* Opening changes no record, and begins an empty file at most with its header.
LEMMA OpenKeeps ==
    ASSUME FilesInv, Open, UNCHANGED <<sent, written>>
    PROVE  /\ file' \in [Numbers -> Seq(0 .. MaxRecords)]
           /\ InOrder' /\ RecentKept' /\ Kept' = Kept
           /\ fd' \in BOOLEAN /\ size' \in Int /\ size' >= -1
           /\ fd' => size' = Len(file'[0])
           /\ ~fd' => size' = -1
           /\ file'[0] = file[0] \/ Len(file'[0]) \in 0 .. 1
           /\ \A n \in Numbers \ {0} : file'[n] = file[n]
<1>1. sent \in Nat /\ file \in [Numbers -> Seq(0 .. MaxRecords)]
  BY DEF FilesInv, TypeOK
<1>2. CASE NotOpened
  <2>1. file' = file /\ fd' = FALSE /\ size' = -1
    BY <1>2 DEF NotOpened
  <2>2. InOrder' /\ RecentKept' /\ Kept' = Kept
    BY <2>1, <1>1, FilesAlone
  <2>3. size' \in Int /\ size' >= -1
    BY <2>1
  <2>4. fd' \in BOOLEAN /\ ~fd'
    BY <2>1
  <2> QED
    BY <2>1, <2>2, <2>3, <2>4, <1>1, Zenon
<1>3. CASE Opened
  <2>1. PICK header \in {<<Header>>, <<>>} :
              file' = [file EXCEPT ![0] = IF @ = <<>> THEN header ELSE @]
    BY <1>3 DEF Opened
  <2>2. fd' = TRUE /\ size' = Len(file'[0])
    BY <1>3 DEF Opened
  <2>3. CASE file[0] # <<>>
    <3>1. file' = file
      BY <2>1, <2>3, <1>1
    <3>2. Len(file[0]) \in Nat
      BY Entries, SomeNumbers DEF FilesInv
    <3>3. InOrder' /\ RecentKept' /\ Kept' = Kept
      BY <3>1, <1>1, FilesAlone
    <3> QED
      BY <2>2, <3>1, <3>2, <3>3, <1>1
  <2>4. CASE file[0] = <<>>
    <3>1. file' = [file EXCEPT ![0] = header]
      BY <2>1, <2>4
    <3>2. /\ file' \in [Numbers -> Seq(0 .. MaxRecords)]
          /\ InOrder' /\ RecentKept' /\ Kept' = Kept
          /\ Len(file'[0]) \in 0 .. 1
          /\ \A n \in Numbers \ {0} : file'[n] = file[n]
      BY <3>1, <2>4, Begun
    <3> QED
      BY <2>2, <3>2
  <2> QED
    BY <2>3, <2>4
<1> QED
  BY <1>2, <1>3 DEF Open

\* Files that are removed or moved, their order being kept, stay in order.
LEMMA Moves ==
    ASSUME TypeOK, InOrder, sent' = sent, NEW f,
           \A n \in Numbers : \/ file'[n] = <<>>
                              \/ f[n] \in Numbers /\ file'[n] = file[f[n]],
           \A m, n \in Numbers : m > n /\ file'[m] # <<>> /\ file'[n] # <<>>
                                   => f[m] > f[n]
    PROVE  InOrder'
<1>1. ASSUME NEW n \in Numbers, NEW i \in Entry(n)'
      PROVE  /\ file'[n] # <<>> /\ f[n] \in Numbers
             /\ i \in Entry(f[n]) /\ file'[n][i] = file[f[n]][i]
  <2>1. file'[n] # <<>>
    BY <1>1 DEF Entry
  <2> QED
    BY <2>1, <1>1 DEF Entry
<1>2. ASSUME NEW n \in Numbers, NEW i \in Entry(n)'
      PROVE  (file'[n][i] = Header => i = 1) /\ file'[n][i] <= sent'
  BY <1>1, <1>2 DEF InOrder
<1>3. ASSUME NEW m \in Numbers, NEW n \in Numbers, NEW i \in Entry(m)',
             NEW j \in Entry(n)', Older(m, i, n, j)
      PROVE  file'[n][j] = Header \/ file'[m][i] < file'[n][j]
  <2>1. Older(f[m], i, f[n], j)
    BY <1>1, <1>3 DEF Older
  <2>2. file[f[n]][j] = Header \/ file[f[m]][i] < file[f[n]][j]
    BY <2>1, <1>1 DEF InOrder
  <2> QED
    BY <2>2, <1>1
<1> QED
  BY <1>2, <1>3 DEF InOrder, Older

\* File d goes and the others stay, file 0 being full: nothing recent is lost.
LEMMA OneGoes ==
    ASSUME FilesInv, written' = written, Full(0), NEW d \in Numbers, d > 0,
           \A n \in Numbers \ {d} : \E m \in Numbers : file'[m] = file[n]
    PROVE  RecentKept'
<1>1. \A n \in Numbers \ {d} : Records(n) \subseteq Kept'
  BY DEF Kept, Records, Entry
<1>2. PICK w \in Numbers : file'[w] = file[0]
  BY SomeNumbers
<1>3. ASSUME NEW r \in written, r \notin Kept'
      PROVE  \E n \in Numbers : Full(n)' /\ AllNewer(n, r)'
  <2>0. r \in Nat
    BY DEF FilesInv, TypeOK
  <2>1. ASSUME AllNewer(0, r)
        PROVE  Full(w)' /\ AllNewer(w, r)'
    BY <2>1, <1>2 DEF Full, AllNewer, Entry
  <2>2. CASE r \in Kept
    <3>1. r \in Records(d)
      BY <2>2, <1>1, <1>3 DEF Kept
    <3> QED
      BY <3>1, <2>0, <2>1, LostWithFile
  <2>3. CASE r \notin Kept
    <3>1. PICK n \in Numbers : Full(n) /\ AllNewer(n, r)
      BY <2>3 DEF FilesInv, RecentKept
    <3>2. CASE n = d
      BY <3>1, <3>2, <2>0, <2>1, LostWithFile
    <3>3. CASE n # d
      BY <3>1, <3>3 DEF Full, AllNewer, Entry
    <3> QED
      BY <3>2, <3>3
  <2> QED
    BY <2>2, <2>3
<1> QED
  BY <1>3 DEF RecentKept

\* What goes with file d is older than what stays, the higher files being empty.
LEMMA OldestGo ==
    ASSUME FilesInv, NEW d \in Numbers, NEW r \in Records(d),
           NEW n \in Numbers, NEW q \in Records(n), n < d
    PROVE  r < q
<1>1. PICK i \in Entry(d) : file[d][i] = r
  BY DEF Records
<1>2. PICK j \in Entry(n) : file[n][j] = q /\ q # Header
  BY DEF Records
<1>3. Older(d, i, n, j)
  BY SomeNumbers DEF Older
<1> QED
  BY <1>1, <1>2, <1>3 DEF FilesInv, InOrder

-----------------------------------------------------------------------------
(* The steps: each keeps the inductive invariant, and the order in which   *)
(* records go.                                                             *)

\* Records go as they should: none, or the oldest.
GoInOrder == failed <= 1 => \A r \in Kept \ Kept', q \in Kept' : r < q

LEMMA StartStep ==
    ASSUME Init
    PROVE  FilesInv
<1>1. file = [n \in Numbers |-> <<>>] /\ written = {} /\ sent = 0
      /\ pc = "idle" /\ fd = FALSE /\ first = TRUE
  BY DEF Init
<1>2. TypeOK
  <2>1. file \in [Numbers -> Seq(0 .. MaxRecords)]
    BY <1>1
  <2>2. number \in -1 .. MaxFiles - 2 /\ size \in Int /\ size >= -1
    BY LogAssumption DEF Init
  <2>3. sent \in 0 .. MaxRecords /\ written \subseteq 1 .. sent
    BY <1>1, LogAssumption
  <2>4. failed \in Nat /\ over \in Nat /\ starts \in Nat
    BY DEF Init
  <2> QED
    BY <1>1, <2>1, <2>2, <2>3, <2>4 DEF TypeOK
<1>3. \A n \in Numbers : Entry(n) = {}
  BY <1>1 DEF Entry
<1>4. InOrder /\ RecentKept
  BY <1>1, <1>3 DEF InOrder, RecentKept
<1>5. SizeKnown /\ FullAtHand /\ InTheWay
  BY <1>1 DEF SizeKnown, FullAtHand, InTheWay
<1> QED
  BY <1>2, <1>4, <1>5 DEF FilesInv

LEMMA FirstWriteStep ==
    ASSUME FilesInv, FirstWrite
    PROVE  FilesInv' /\ Kept' = Kept
<1>1. /\ Open /\ first' = FALSE /\ pc' = "append"
      /\ over' = IF Full(0) THEN over + 1 ELSE over
      /\ UNCHANGED <<number, sent, written, failed, starts>>
  BY DEF FirstWrite
<1>2. /\ file' \in [Numbers -> Seq(0 .. MaxRecords)]
      /\ InOrder' /\ RecentKept' /\ Kept' = Kept
      /\ fd' \in BOOLEAN /\ size' \in Int /\ size' >= -1
      /\ fd' => size' = Len(file'[0])
      /\ ~fd' => size' = -1
  BY <1>1, OpenKeeps
<1>3. TypeOK'
  <2>1. over' \in Nat
    BY <1>1 DEF FilesInv, TypeOK
  <2> QED
    BY <1>1, <1>2, <2>1 DEF FilesInv, TypeOK
<1>4. SizeKnown' /\ FullAtHand' /\ InTheWay'
  BY <1>1, <1>2 DEF SizeKnown, FullAtHand, InTheWay
<1> QED
  BY <1>2, <1>3, <1>4 DEF FilesInv

LEMMA StartRollStep ==
    ASSUME FilesInv, StartRoll
    PROVE  FilesInv' /\ Kept' = Kept
<1>1. /\ pc = "idle" /\ ~first /\ size > MaxFileSize
      /\ fd' = FALSE /\ failed' = 0 /\ pc' = "unlink"
      /\ UNCHANGED <<number, size, first, file, sent, written, over, starts>>
  BY DEF StartRoll
<1>2. InOrder' /\ RecentKept' /\ Kept' = Kept
  BY <1>1, FilesAlone DEF FilesInv, TypeOK
<1>3. TypeOK'
  BY <1>1 DEF FilesInv, TypeOK
<1>4. Full(0)
  <2>1. MaxFileSize \in Nat
    BY LogAssumption
  <2>2. size # -1
    BY <1>1, <2>1
  <2>3. fd
    BY <1>1, <2>2 DEF FilesInv, SizeKnown
  <2> QED
    BY <1>1, <2>3 DEF FilesInv, SizeKnown, Full
<1>5. SizeKnown' /\ FullAtHand' /\ InTheWay'
  BY <1>1, <1>4 DEF SizeKnown, FullAtHand, InTheWay, Full
<1> QED
  BY <1>2, <1>3, <1>5 DEF FilesInv

LEMMA UnlinkStep ==
    ASSUME FilesInv, Unlink
    PROVE  FilesInv' /\ GoInOrder
<1>1. /\ pc = "unlink" /\ number' = Last - 1 /\ pc' = "rename"
      /\ UNCHANGED <<fd, size, first, sent, written, over, starts>>
  BY SomeNumbers DEF Unlink
<1>2. /\ file \in [Numbers -> Seq(0 .. MaxRecords)] /\ failed \in Nat
      /\ number' \in -1 .. MaxFiles - 2 /\ Full(0) /\ Last \in Nat /\ Last >= 1
  BY <1>1, SomeNumbers, LogAssumption DEF FilesInv, TypeOK, FullAtHand, Last
<1>3. SizeKnown'
  BY <1>1 DEF FilesInv, SizeKnown
<1>4. CASE file' = [file EXCEPT ![Last] = <<>>] /\ failed' = failed
  <2>1. /\ file'[Last] = <<>> /\ \A n \in Numbers \ {Last} : file'[n] = file[n]
        /\ file' \in [Numbers -> Seq(0 .. MaxRecords)]
    BY <1>2, <1>4, SomeNumbers
  <2>2. TypeOK'
    BY <1>1, <1>2, <1>4, <2>1 DEF FilesInv, TypeOK
  <2>3. InOrder'
    <3> DEFINE f == [n \in Numbers |-> n]
    <3>1. \A n \in Numbers : file'[n] = <<>> \/ (f[n] \in Numbers /\ file'[n] = file[f[n]])
      BY <2>1
    <3>2. \A m, n \in Numbers :
            m > n /\ file'[m] # <<>> /\ file'[n] # <<>> => f[m] > f[n]
      OBVIOUS
    <3> HIDE DEF f
    <3> QED
      BY <1>1, <3>1, <3>2, Moves DEF FilesInv
  <2>4. RecentKept'
    BY <1>1, <1>2, <2>1, SomeNumbers, OneGoes
  <2>5. FullAtHand' /\ InTheWay'
    <3>1. 0 # Last /\ number' >= 0
      BY <1>1, <1>2
    <3>2. Full(0)'
      BY <1>2, <2>1, <3>1, SomeNumbers DEF Full
    <3>3. number' + 2 # Last
      BY <1>1, <1>2
    <3> QED
      BY <1>1, <2>1, <3>1, <3>2, <3>3 DEF FullAtHand, InTheWay
  <2>6. ASSUME NEW r \in Kept \ Kept', NEW q \in Kept'
        PROVE  r < q
    <3>1. \A n \in Numbers \ {Last} : Records(n)' = Records(n)
      BY <2>1 DEF Records, Entry
    <3>2. Records(Last)' = {}
      BY <2>1 DEF Records, Entry
    <3>3. r \in Records(Last)
      BY <2>6, <3>1 DEF Kept
    <3>4. PICK n \in Numbers \ {Last} : q \in Records(n)
      BY <2>6, <3>1, <3>2 DEF Kept
    <3>5. n < Last
      BY LogAssumption DEF Numbers, Last
    <3> QED
      BY <3>3, <3>4, <3>5, SomeNumbers, OldestGo
  <2> QED
    BY <1>3, <2>2, <2>3, <2>4, <2>5, <2>6 DEF FilesInv, GoInOrder
<1>5. CASE file[Last] # <<>> /\ failed' = failed + 1 /\ file' = file
  <2>1. TypeOK'
    BY <1>1, <1>2, <1>5 DEF FilesInv, TypeOK
  <2>2. InOrder' /\ RecentKept' /\ Kept' = Kept
    BY <1>1, <1>5, FilesAlone DEF FilesInv, TypeOK
  <2>3. FullAtHand' /\ InTheWay'
    BY <1>1, <1>2, <1>5 DEF FullAtHand, InTheWay, Full
  <2> QED
    BY <1>3, <2>1, <2>2, <2>3 DEF FilesInv, GoInOrder
<1> QED
  BY <1>4, <1>5 DEF Unlink

LEMMA RenameStep ==
    ASSUME FilesInv, Rename
    PROVE  FilesInv' /\ GoInOrder
<1>1. /\ pc = "rename" /\ number >= 0 /\ file[number] # <<>>
      /\ number' = number - 1
      /\ UNCHANGED <<pc, fd, size, first, sent, written, starts>>
  BY DEF Rename
<1>2. /\ file \in [Numbers -> Seq(0 .. MaxRecords)]
      /\ failed \in Nat /\ over \in Nat
      /\ number' \in -1 .. MaxFiles - 2 /\ Full(0)
  BY <1>1, LogAssumption DEF FilesInv, TypeOK, FullAtHand
<1>3. PICK k \in Numbers : k = number
  BY <1>1, LogAssumption DEF FilesInv, TypeOK, Numbers
<1>4. /\ k \in Numbers /\ k + 1 \in Numbers /\ k + 1 > 0
      /\ k \in Int /\ Last \in 1 .. 2 /\ k + 1 <= Last
      /\ Numbers = 0 .. Last
  BY <1>3, <1>1, LogAssumption DEF FilesInv, TypeOK, Numbers, Last
<1>5. SizeKnown'
  BY <1>1 DEF FilesInv, SizeKnown
<1>6. CASE /\ file' = [file EXCEPT ![k + 1] = file[k],
                                   ![k] = <<>>]
           /\ failed' = failed /\ over' = over
  <2>1. /\ file'[k + 1] = file[k] /\ file'[k] = <<>>
        /\ \A n \in Numbers \ {k, k + 1} : file'[n] = file[n]
        /\ file' \in [Numbers -> Seq(0 .. MaxRecords)]
    BY <1>2, <1>4, <1>6
  <2>2. TypeOK'
    BY <1>1, <1>2, <1>6, <2>1 DEF FilesInv, TypeOK
  <2>3. InOrder'
    <3> DEFINE f == [n \in Numbers |-> IF n = k + 1 THEN k ELSE n]
    <3>1. \A n \in Numbers : file'[n] = <<>> \/ (f[n] \in Numbers /\ file'[n] = file[f[n]])
      BY <1>4, <2>1
    <3>2. \A m, n \in Numbers :
            m > n /\ file'[m] # <<>> /\ file'[n] # <<>> => f[m] > f[n]
      <4>1. ASSUME NEW m \in Numbers, NEW n \in Numbers, m > n,
                   file'[m] # <<>>, file'[n] # <<>>
            PROVE  f[m] > f[n]
        <5>1. m # k /\ n # k
          BY <2>1, <4>1
        <5>2. m \in Int /\ n \in Int
          <6>1. Last \in Int
            BY <1>4
          <6> QED
            BY <4>1, <1>4, <6>1
        <5>3. f[m] = (IF m = k + 1 THEN k ELSE m) /\ f[n] = (IF n = k + 1 THEN k ELSE n)
          BY <4>1
        <5> HIDE DEF f
        <5> QED
          BY <4>1, <5>1, <5>2, <5>3, <1>4
      <4> QED
        BY <4>1
    <3> HIDE DEF f
    <3> QED
      BY <1>1, <3>1, <3>2, Moves DEF FilesInv
  <2>4. RecentKept'
    <3>1. ASSUME NEW n \in Numbers \ {k + 1}
          PROVE  \E m \in Numbers : file'[m] = file[n]
      BY <1>4, <2>1
    <3> QED
      BY <1>1, <1>2, <1>4, <3>1, OneGoes
  <2>5. FullAtHand' /\ InTheWay'
    <3>1. CASE k = 0
      BY <1>3, <1>1, <1>2, <1>4, <2>1, <3>1 DEF FullAtHand, InTheWay, Full
    <3>2. CASE k # 0
      BY <1>3, <1>1, <1>2, <1>4, <2>1, <3>2 DEF FullAtHand, InTheWay, Full
    <3> QED
      BY <3>1, <3>2
  <2>6. ASSUME failed <= 1, NEW r \in Kept \ Kept', NEW q \in Kept'
        PROVE  r < q
    <3>1. Records(k + 1)' = Records(k) /\ Records(k)' = {}
      BY <2>1 DEF Records, Entry
    <3>2. \A n \in Numbers \ {k, k + 1} : Records(n)' = Records(n)
      BY <2>1 DEF Records, Entry
    <3>3. r \in Records(k + 1)
      BY <2>6, <1>4, <3>1, <3>2 DEF Kept
    <3>4. PICK n \in Numbers \ {k + 1} : q \in Records(n)
      BY <2>6, <1>4, <3>1, <3>2 DEF Kept
    <3>5. file[k + 1] # <<>>
      BY <3>3 DEF Records, Entry
    <3>6. n < k + 1
      <4>1. SUFFICES ASSUME n > k + 1 PROVE FALSE
        BY <1>4
      <4>2. n = Last /\ k + 2 = Last
        BY <1>1, <1>4, <4>1
      <4>3. file[Last] # <<>>
        BY <3>4, <4>2 DEF Records, Entry
      <4>4. failed >= 2
        BY <1>3, <1>1, <3>5, <4>2, <4>3 DEF FilesInv, InTheWay
      <4> QED
        BY <2>6, <4>4, <1>2
    <3> QED
      BY <1>4, <3>3, <3>4, <3>6, OldestGo
  <2> QED
    BY <1>5, <2>2, <2>3, <2>4, <2>5, <2>6 DEF FilesInv, GoInOrder
<1>7. CASE /\ failed' = failed + 1 /\ file' = file
           /\ over' = IF number = 0 THEN over + 1 ELSE over
  <2>1. TypeOK'
    <3>1. over' \in Nat
      BY <1>2, <1>7
    <3> QED
      BY <1>1, <1>2, <1>7, <3>1 DEF FilesInv, TypeOK
  <2>2. InOrder' /\ RecentKept' /\ Kept' = Kept
    BY <1>1, <1>7, FilesAlone DEF FilesInv, TypeOK
  <2>3. FullAtHand'
    BY <1>1, <1>2, <1>7 DEF FullAtHand, Full
  <2>4. InTheWay'
    <3>1. number' + 1 # Last
      BY <1>3, <1>1, <1>4
    <3>2. ASSUME number' + 2 = Last, file[Last] # <<>>
          PROVE  failed >= 1
      BY <1>3, <1>1, <1>4, <3>2 DEF FilesInv, InTheWay
    <3> QED
      BY <1>3, <1>1, <1>2, <1>7, <3>1, <3>2 DEF InTheWay
  <2> QED
    BY <1>5, <2>1, <2>2, <2>3, <2>4 DEF FilesInv, GoInOrder
<1> QED
  BY <1>3, <1>6, <1>7 DEF Rename

LEMMA NothingToRenameStep ==
    ASSUME FilesInv, NothingToRename
    PROVE  FilesInv' /\ Kept' = Kept
<1>1. /\ pc = "rename" /\ number >= 0 /\ file[number] = <<>>
      /\ number' = number - 1
      /\ UNCHANGED <<pc, fd, size, first, file, sent, written, failed, over, starts>>
  BY DEF NothingToRename
<1>2. InOrder' /\ RecentKept' /\ Kept' = Kept
  BY <1>1, FilesAlone DEF FilesInv, TypeOK
<1>3. number \in Int /\ number + 1 <= Last /\ Last \in 1 .. 2
  BY LogAssumption DEF FilesInv, TypeOK, Last
<1>4. TypeOK'
  <2>1. number' \in -1 .. MaxFiles - 2
    BY <1>1, LogAssumption DEF FilesInv, TypeOK
  <2> QED
    BY <1>1, <2>1 DEF FilesInv, TypeOK
<1>5. SizeKnown' /\ FullAtHand' /\ InTheWay'
  BY <1>1, <1>3 DEF FilesInv, SizeKnown, FullAtHand, InTheWay, Full
<1> QED
  BY <1>2, <1>4, <1>5 DEF FilesInv

LEMMA EndRollStep ==
    ASSUME FilesInv, EndRoll
    PROVE  FilesInv' /\ Kept' = Kept
<1>1. /\ pc = "rename" /\ Open /\ pc' = "append"
      /\ UNCHANGED <<number, first, sent, written, failed, over, starts>>
  BY DEF EndRoll
<1>2. /\ file' \in [Numbers -> Seq(0 .. MaxRecords)]
      /\ InOrder' /\ RecentKept' /\ Kept' = Kept
      /\ fd' \in BOOLEAN /\ size' \in Int /\ size' >= -1
      /\ fd' => size' = Len(file'[0])
      /\ ~fd' => size' = -1
  BY <1>1, OpenKeeps
<1>3. TypeOK'
  BY <1>1, <1>2 DEF FilesInv, TypeOK
<1>4. SizeKnown' /\ FullAtHand' /\ InTheWay'
  BY <1>1, <1>2 DEF FilesInv, SizeKnown, FullAtHand, InTheWay
<1> QED
  BY <1>2, <1>3, <1>4 DEF FilesInv

LEMMA WriteRecordStep ==
    ASSUME FilesInv, WriteRecord
    PROVE  FilesInv' /\ Kept \subseteq Kept'
<1>1. /\ Writing /\ sent < MaxRecords /\ fd
      /\ sent' = sent + 1 /\ pc' = "idle"
      /\ file' = [file EXCEPT ![0] = Append(file[0], sent')]
      /\ size' = size + 1 /\ written' = written \cup {sent'}
      /\ UNCHANGED <<number, fd, first, failed, over, starts>>
  BY DEF WriteRecord
<1>2. /\ file \in [Numbers -> Seq(0 .. MaxRecords)]
      /\ sent \in Nat /\ MaxRecords \in Nat /\ written \subseteq 1 .. sent
  BY LogAssumption DEF FilesInv, TypeOK
<1>3. file[0] \in Seq(0 .. MaxRecords) /\ sent' \in 0 .. MaxRecords
  BY <1>1, <1>2, SomeNumbers
<1>4. DEFINE s == file[0]
             k == Len(file[0])
<1>5. /\ file'[0] \in Seq(0 .. MaxRecords) /\ Len(file'[0]) = k + 1
      /\ \A i \in 1 .. k : file'[0][i] = file[0][i]
      /\ file'[0][k + 1] = sent'
  <2>1. file'[0] = Append(file[0], sent')
    BY <1>1, <1>2, SomeNumbers
  <2> QED
    BY <1>3, <2>1, OneMore
<1>6. \A n \in Numbers \ {0} : file'[n] = file[n]
  BY <1>1, <1>2
<1>7. k \in Nat /\ \A n \in Numbers : Entry(n) \subseteq Nat
  BY Entries, SomeNumbers DEF FilesInv
<1> HIDE DEF k, s
<1>8. Entry(0)' = Entry(0) \cup {k + 1} /\ k + 1 \notin Entry(0)
  BY <1>5, <1>7 DEF Entry, k
<1>9. \A n \in Numbers \ {0} : Entry(n)' = Entry(n)
  BY <1>6 DEF Entry
<1>10. \A n \in Numbers : \A i \in Entry(n) :
         i \in Entry(n)' /\ file'[n][i] = file[n][i]
  BY <1>5, <1>6, <1>8, <1>9 DEF Entry, k
<1>11. \A n \in Numbers : \A i \in Entry(n)' :
         i \in Entry(n) \/ (n = 0 /\ i = k + 1 /\ file'[n][i] = sent')
  BY <1>5, <1>8, <1>9
<1>12. sent' > 0 /\ sent' # Header
  BY <1>1, <1>2 DEF Header
<1>13. \A n \in Numbers : \A i \in Entry(n) : file[n][i] \in Nat /\ file[n][i] <= sent
  BY Entries DEF FilesInv, InOrder
<1>14. TypeOK'
  <2>1. file' \in [Numbers -> Seq(0 .. MaxRecords)]
    BY <1>1, <1>2, <1>5, <1>6
  <2>2. written' \subseteq 1 .. sent'
    BY <1>1, <1>2
  <2>3. size' \in Int /\ size' >= -1
    BY <1>1 DEF FilesInv, TypeOK
  <2> QED
    BY <1>1, <1>3, <2>1, <2>2, <2>3 DEF FilesInv, TypeOK
<1>15. InOrder'
  <2>1. ASSUME NEW n \in Numbers, NEW i \in Entry(n)'
        PROVE  (file'[n][i] = Header => i = 1) /\ file'[n][i] <= sent'
    <3>1. CASE i \in Entry(n)
      <4>1. file'[n][i] = file[n][i] /\ file[n][i] \in Nat /\ file[n][i] <= sent
        BY <3>1, <1>10, <1>13
      <4>2. file[n][i] = Header => i = 1
        BY <3>1 DEF FilesInv, InOrder
      <4> QED
        BY <4>1, <4>2, <1>1, <1>2
    <3>2. CASE i \notin Entry(n)
      <4>1. file'[n][i] = sent'
        BY <3>2, <2>1, <1>11
      <4> QED
        BY <4>1, <1>1, <1>2, <1>12
    <3> QED
      BY <3>1, <3>2
  <2>2. ASSUME NEW m \in Numbers, NEW n \in Numbers, NEW i \in Entry(m)',
               NEW j \in Entry(n)', Older(m, i, n, j)
        PROVE  file'[n][j] = Header \/ file'[m][i] < file'[n][j]
    <3>1. i \in Entry(m)
      <4>1. SUFFICES ASSUME m = 0, i = k + 1 PROVE FALSE
        BY <1>11, <2>2
      <4>2. n = 0 /\ k + 1 < j
        BY <4>1, <2>2, SomeNumbers DEF Older
      <4>3. j \in Entry(0) \/ j = k + 1
        BY <4>2, <2>2, <1>8
      <4> QED
        BY <4>2, <4>3, <1>7 DEF Entry, k
    <3>2. CASE j \in Entry(n)
      BY <3>1, <3>2, <2>2, <1>10 DEF FilesInv, InOrder
    <3>3. CASE j \notin Entry(n)
      <4>1. file'[n][j] = sent'
        BY <3>3, <2>2, <1>11
      <4>2. file'[m][i] = file[m][i] /\ file[m][i] \in Nat /\ file[m][i] <= sent
        BY <3>1, <1>10, <1>13
      <4> QED
        BY <4>1, <4>2, <1>1, <1>2
    <3> QED
      BY <3>2, <3>3
  <2> QED
    BY <2>1, <2>2 DEF InOrder, Older
<1>16. Kept \subseteq Kept'
  <2>1. \A n \in Numbers : Records(n) \subseteq Records(n)'
    BY <1>10 DEF Records
  <2> QED
    BY <2>1 DEF Kept
<1>17. sent' \in Kept'
  BY <1>5, <1>8, <1>12, SomeNumbers DEF Kept, Records
<1>18. RecentKept'
  <2>1. ASSUME NEW r \in written', r \notin Kept'
        PROVE  \E n \in Numbers : Full(n)' /\ AllNewer(n, r)'
    <3>1. r \in written /\ r \notin Kept
      BY <2>1, <1>1, <1>16, <1>17
    <3>2. PICK n \in Numbers : Full(n) /\ AllNewer(n, r)
      BY <3>1 DEF FilesInv, RecentKept
    <3>3. Full(n)'
      <4>1. CASE n = 0
        BY <4>1, <3>2, <1>5, <1>7, LogAssumption DEF Full, k
      <4>2. CASE n # 0
        BY <4>2, <3>2, <1>6 DEF Full
      <4> QED
        BY <4>1, <4>2
    <3>4. r < sent'
      BY <3>1, <1>1, <1>2
    <3>5. AllNewer(n, r)'
      BY <3>2, <3>4, <1>10, <1>11 DEF AllNewer
    <3> QED
      BY <3>3, <3>5
  <2> QED
    BY <2>1 DEF RecentKept
<1>19. SizeKnown' /\ FullAtHand' /\ InTheWay'
  BY <1>1, <1>5 DEF FilesInv, SizeKnown, FullAtHand, InTheWay, k
<1> QED
  BY <1>14, <1>15, <1>16, <1>18, <1>19 DEF FilesInv

LEMMA OtherSteps ==
    ASSUME FilesInv, WriteFails \/ Crash \/ Restart \/ UNCHANGED vars
    PROVE  FilesInv' /\ Kept' = Kept
<1>1. CASE WriteFails
  <2>1. /\ sent < MaxRecords /\ sent' = sent + 1 /\ pc' = "idle" /\ Writing
        /\ UNCHANGED <<number, fd, size, first, file, written, failed, over, starts>>
    BY <1>1 DEF WriteFails
  <2>2. sent \in Nat /\ MaxRecords \in Nat /\ written \subseteq 1 .. sent
    BY LogAssumption DEF FilesInv, TypeOK
  <2>3. InOrder' /\ RecentKept' /\ Kept' = Kept
    BY <2>1, <2>2, FilesAlone
  <2>4. sent' \in 0 .. MaxRecords /\ written' \subseteq 1 .. sent'
    BY <2>1, <2>2
  <2>5. TypeOK'
    BY <2>1, <2>4 DEF FilesInv, TypeOK
  <2>6. SizeKnown' /\ FullAtHand' /\ InTheWay'
    BY <2>1 DEF FilesInv, SizeKnown, FullAtHand, InTheWay, Writing
  <2> QED
    BY <2>3, <2>5, <2>6 DEF FilesInv
<1>2. CASE Crash
  <2>1. /\ pc' = "down" /\ number' = -1 /\ fd' = FALSE /\ size' = 0
        /\ first' = TRUE /\ failed' = 0
        /\ UNCHANGED <<file, sent, written, over, starts>>
    BY <1>2 DEF Crash
  <2>2. InOrder' /\ RecentKept' /\ Kept' = Kept
    BY <2>1, FilesAlone DEF FilesInv, TypeOK
  <2>3. number' \in -1 .. MaxFiles - 2 /\ size' \in Int /\ size' >= -1
    BY <2>1, LogAssumption
  <2>4. TypeOK'
    BY <2>1, <2>3 DEF FilesInv, TypeOK
  <2>5. SizeKnown' /\ FullAtHand' /\ InTheWay'
    BY <2>1 DEF SizeKnown, FullAtHand, InTheWay
  <2> QED
    BY <2>2, <2>4, <2>5 DEF FilesInv
<1>3. CASE Restart
  <2>1. /\ pc = "down" /\ pc' = "idle" /\ starts' = starts + 1
        /\ UNCHANGED <<number, fd, size, first, file, sent, written, failed, over>>
    BY <1>3 DEF Restart
  <2>2. InOrder' /\ RecentKept' /\ Kept' = Kept
    BY <2>1, FilesAlone DEF FilesInv, TypeOK
  <2>3. TypeOK'
    BY <2>1 DEF FilesInv, TypeOK
  <2>4. FullAtHand' /\ InTheWay'
    BY <2>1 DEF FullAtHand, InTheWay
  <2>5. SizeKnown'
    BY <2>1 DEF FilesInv, SizeKnown
  <2> QED
    BY <2>2, <2>3, <2>4, <2>5 DEF FilesInv
<1>4. CASE UNCHANGED vars
  <2>1. /\ UNCHANGED <<pc, number, fd, size, first, file>>
        /\ UNCHANGED <<sent, written, failed, over, starts>>
    BY <1>4 DEF vars
  <2>2. InOrder' /\ RecentKept' /\ Kept' = Kept
    BY <2>1, FilesAlone DEF FilesInv, TypeOK
  <2>3. TypeOK'
    BY <2>1 DEF FilesInv, TypeOK
  <2>4. SizeKnown' /\ FullAtHand' /\ InTheWay'
    BY <2>1 DEF FilesInv, SizeKnown, FullAtHand, InTheWay, Full
  <2> QED
    BY <2>2, <2>3, <2>4 DEF FilesInv
<1> QED
  BY <1>1, <1>2, <1>3, <1>4

LEMMA InvStep ==
    ASSUME FilesInv, [Next]_vars
    PROVE  FilesInv' /\ GoInOrder
<1>1. CASE Unlink
  BY <1>1, UnlinkStep
<1>2. CASE Rename
  BY <1>2, RenameStep
<1>3. ASSUME Kept \subseteq Kept'
      PROVE  GoInOrder
  BY <1>3 DEF GoInOrder
<1>4. CASE FirstWrite
  BY <1>3, <1>4, FirstWriteStep
<1>5. CASE StartRoll
  BY <1>3, <1>5, StartRollStep
<1>6. CASE NothingToRename
  BY <1>3, <1>6, NothingToRenameStep
<1>7. CASE EndRoll
  BY <1>3, <1>7, EndRollStep
<1>8. CASE WriteRecord
  BY <1>3, <1>8, WriteRecordStep
<1>9. CASE WriteFails \/ Crash \/ Restart \/ UNCHANGED vars
  BY <1>3, <1>9, OtherSteps
<1> QED
  BY <1>1, <1>2, <1>4, <1>5, <1>6, <1>7, <1>8, <1>9 DEF Next

-----------------------------------------------------------------------------
(* The theorems.                                                           *)

(***************************************************************************)
(* The inductive invariant of the log, for files of any size and any       *)
(* number of records and starts.                                           *)
(***************************************************************************)
THEOREM InvariantHolds == Spec => []FilesInv
<1>1. Init => FilesInv
  BY StartStep
<1>2. FilesInv /\ [Next]_vars => FilesInv'
  BY InvStep
<1> QED
  BY <1>1, <1>2, PTL DEF Spec

(***************************************************************************)
(* The log never loses what is recent: whatever record has disappeared, a  *)
(* full file of newer ones is there (RollingFileAppender.h:56-73).         *)
(***************************************************************************)
THEOREM RecentIsKept == Spec => []RecentKept
<1>1. FilesInv => RecentKept
  BY DEF FilesInv
<1> QED
  BY <1>1, InvariantHolds, PTL

(***************************************************************************)
(* A step that loses records keeps none older than they are, unless two    *)
(* calls of the same roll have failed (RollingFileAppender.h:60-69).       *)
(***************************************************************************)
THEOREM OldestFirst == Spec => OldestGoFirst
<1>1. FilesInv /\ [Next]_vars =>
        [failed <= 1 => \A r \in Kept \ Kept', q \in Kept' : r < q]_vars
  BY InvStep DEF GoInOrder
<1> QED
  BY <1>1, InvariantHolds, PTL DEF Spec, OldestGoFirst

-----------------------------------------------------------------------------
(* The growth of the files.                                                *)

\* Where a record is about to be written to file 0, there is room for it.
Room == (pc = "append" \/ (pc = "rename" /\ number < 0))
            => Len(file[0]) <= MaxFileSize + over

\* A file just begun, at most with a header, is within the limit.
LEMMA HeaderFits ==
    ASSUME NEW l \in 0 .. 1, NEW o \in Nat
    PROVE  l <= MaxFileSize + o
BY LogAssumption

LEMMA GrowthStep ==
    ASSUME FilesInv, FilesInv', GrowthBounded, Room, [Next]_vars
    PROVE  GrowthBounded' /\ Room'
<1>1. /\ file \in [Numbers -> Seq(0 .. MaxRecords)] /\ over \in Nat
      /\ MaxFileSize \in Nat /\ MaxFileSize >= 1
      /\ \A n \in Numbers : Len(file[n]) \in Nat
  BY LogAssumption, Entries DEF FilesInv, TypeOK
<1>2. 0 \in Numbers /\ 1 \in Numbers /\ Last \in Numbers /\ Last # 0
  BY SomeNumbers
<1>3. CASE FirstWrite
  <2>1. /\ Open /\ over' = IF Full(0) THEN over + 1 ELSE over
        /\ UNCHANGED <<sent, written>> /\ pc' = "append"
    BY <1>3 DEF FirstWrite
  <2>2. /\ file'[0] = file[0] \/ Len(file'[0]) \in 0 .. 1
        /\ \A n \in Numbers \ {0} : file'[n] = file[n]
    BY <2>1, OpenKeeps
  <2>3. over' \in Nat /\ over' >= over
    BY <2>1, <1>1
  <2>4. Len(file'[0]) <= MaxFileSize + over'
    <3>1. Len(file[0]) <= MaxFileSize + over'
      <4>1. CASE Full(0)
        BY <4>1, <2>1, <1>1, <1>2 DEF GrowthBounded
      <4>2. CASE ~Full(0)
        BY <4>2, <2>1, <1>1, <1>2 DEF Full
      <4> QED
        BY <4>1, <4>2
    <3>2. CASE file'[0] = file[0]
      BY <3>1, <3>2
    <3>3. CASE Len(file'[0]) \in 0 .. 1
      BY <3>3, <2>3, HeaderFits
    <3> QED
      BY <2>2, <3>2, <3>3
  <2>5. Len(file'[0]) <= MaxFileSize + 1 + over'
    <3>1. Len(file'[0]) \in Nat
      BY <2>2, <1>1, <1>2
    <3> QED
      BY <3>1, <2>3, <2>4, <1>1
  <2>6. \A n \in Numbers \ {0} : Len(file'[n]) <= MaxFileSize + 1 + over'
    BY <2>2, <2>3, <1>1 DEF GrowthBounded
  <2> QED
    BY <2>4, <2>5, <2>6 DEF GrowthBounded, Room
<1>4. CASE StartRoll \/ WriteFails \/ Crash \/ Restart
  <2>1. UNCHANGED <<file, over>> /\ pc' \notin {"append", "rename"}
    BY <1>4 DEF StartRoll, WriteFails, Crash, Restart
  <2> QED
    BY <2>1 DEF GrowthBounded, Room
<1>5. CASE Unlink
  <2>1. /\ over' = over /\ pc' = "rename" /\ number' >= 0
        /\ file' = file \/ file' = [file EXCEPT ![Last] = <<>>]
    BY <1>5, LogAssumption DEF Unlink
  <2>2. ASSUME NEW n \in Numbers
        PROVE  file'[n] = file[n] \/ file'[n] = <<>>
    BY <2>1, <1>1
  <2>3. ASSUME NEW n \in Numbers
        PROVE  Len(file'[n]) <= MaxFileSize + 1 + over
    <3>1. CASE file'[n] = file[n]
      BY <3>1 DEF GrowthBounded
    <3>2. CASE file'[n] = <<>>
      BY <3>2, <1>1
    <3> QED
      BY <2>2, <3>1, <3>2
  <2>4. ~(number' < 0)
    BY <2>1 DEF FilesInv, TypeOK
  <2> QED
    BY <2>1, <2>3, <2>4 DEF GrowthBounded, Room
<1>6. CASE Rename
  <2>0. /\ pc = "rename" /\ number >= 0 /\ number' = number - 1 /\ pc' = pc
    BY <1>6 DEF Rename
  <2>1. PICK k \in Numbers : k = number
    BY <2>0, LogAssumption DEF FilesInv, TypeOK, Numbers
  <2>2. k + 1 \in Numbers /\ k \in Nat
    BY <2>0, <2>1, LogAssumption DEF FilesInv, TypeOK, Numbers
  <2>3. CASE file' = [file EXCEPT ![k + 1] = file[k], ![k] = <<>>] /\ over' = over
    <3>1. /\ file'[k] = <<>> /\ file'[k + 1] = file[k]
          /\ \A n \in Numbers \ {k, k + 1} : file'[n] = file[n]
      BY <2>2, <2>3, <1>1
    <3>2. \A n \in Numbers : Len(file'[n]) <= MaxFileSize + 1 + over
      <4>1. Len(file'[k]) = 0
        BY <3>1
      <4> QED
        BY <4>1, <3>1, <2>2, <1>1 DEF GrowthBounded
    <3>3. number' < 0 => Len(file'[0]) = 0
      BY <2>0, <2>1, <2>2, <3>1
    <3> QED
      BY <2>0, <2>3, <3>2, <3>3, <1>1 DEF GrowthBounded, Room
  <2>4. CASE file' = file /\ over' = IF k = 0 THEN over + 1 ELSE over
    <3>1. over' \in Nat /\ over' >= over
      BY <2>4, <1>1
    <3>2. GrowthBounded'
      BY <2>4, <3>1, <1>1 DEF GrowthBounded
    <3>3. number' < 0 => k = 0
      BY <2>0, <2>1, <2>2
    <3>4. k = 0 => Len(file[0]) <= MaxFileSize + over'
      BY <2>4, <1>1, <1>2 DEF GrowthBounded
    <3> QED
      BY <2>0, <2>4, <3>2, <3>3, <3>4 DEF Room
  <2> QED
    BY <1>6, <2>1, <2>3, <2>4 DEF Rename
<1>7. CASE NothingToRename
  <2>1. /\ number >= 0 /\ file[number] = <<>> /\ number' = number - 1
        /\ UNCHANGED <<pc, file, over>> /\ number \in Int
    BY <1>7 DEF NothingToRename, FilesInv, TypeOK
  <2>2. number' < 0 => Len(file[0]) = 0
    BY <2>1
  <2> QED
    BY <2>1, <2>2, <1>1 DEF GrowthBounded, Room
<1>8. CASE EndRoll
  <2>1. /\ pc = "rename" /\ number < 0 /\ Open /\ pc' = "append"
        /\ UNCHANGED <<sent, written, over>>
    BY <1>8 DEF EndRoll
  <2>2. /\ file'[0] = file[0] \/ Len(file'[0]) \in 0 .. 1
        /\ \A n \in Numbers \ {0} : file'[n] = file[n]
    BY <2>1, OpenKeeps
  <2>3. Len(file'[0]) <= MaxFileSize + over
    <3>1. CASE file'[0] = file[0]
      BY <3>1, <2>1 DEF Room
    <3>2. CASE Len(file'[0]) \in 0 .. 1
      BY <3>2, <1>1, HeaderFits
    <3> QED
      BY <2>2, <3>1, <3>2
  <2>4. \A n \in Numbers : Len(file'[n]) <= MaxFileSize + 1 + over
    <3>1. Len(file'[0]) \in Nat
      BY <2>2, <1>1, <1>2
    <3> QED
      BY <3>1, <2>2, <2>3, <1>1 DEF GrowthBounded
  <2> QED
    BY <2>1, <2>3, <2>4 DEF GrowthBounded, Room
<1>9. CASE WriteRecord
  <2>1. /\ Writing /\ fd /\ pc' = "idle" /\ over' = over
        /\ file' = [file EXCEPT ![0] = Append(file[0], sent')]
        /\ sent' \in 0 .. MaxRecords
    BY <1>9 DEF WriteRecord, FilesInv, TypeOK
  <2>2. /\ Len(file'[0]) = Len(file[0]) + 1
        /\ \A n \in Numbers \ {0} : file'[n] = file[n]
    <3>1. file'[0] = Append(file[0], sent')
      BY <2>1, <1>1, <1>2
    <3>2. file[0] \in Seq(0 .. MaxRecords)
      BY <1>1, <1>2
    <3>3. \A n \in Numbers \ {0} : file'[n] = file[n]
      BY <2>1, <1>1
    <3> QED
      BY <2>1, <3>1, <3>2, <3>3, OneMore
  <2>3. Len(file[0]) <= MaxFileSize + over
    <3>1. CASE pc = "append"
      BY <3>1 DEF Room
    <3>2. CASE pc = "idle" /\ ~first /\ size <= MaxFileSize
      BY <3>2, <2>1, <1>1, <1>2 DEF FilesInv, SizeKnown
    <3> QED
      BY <2>1, <3>1, <3>2 DEF Writing
  <2> QED
    BY <2>1, <2>2, <2>3, <1>1, <1>2 DEF GrowthBounded, Room
<1>10. CASE UNCHANGED vars
  BY <1>10 DEF vars, GrowthBounded, Room
<1> QED
  BY <1>3, <1>4, <1>5, <1>6, <1>7, <1>8, <1>9, <1>10 DEF Next

(***************************************************************************)
(* The files stay small: beyond the limit and the record that exceeds it,  *)
(* a file grows by one record each time the process starts with a full one *)
(* or cannot rename it (RollingFileAppender.h:38-46).                      *)
(***************************************************************************)
THEOREM GrowthIsBounded == Spec => []GrowthBounded
<1>1. Init => GrowthBounded /\ Room
  <2>1. SUFFICES ASSUME Init PROVE GrowthBounded /\ Room
    OBVIOUS
  <2>2. file = [n \in Numbers |-> <<>>] /\ over = 0 /\ pc = "idle"
    BY <2>1 DEF Init
  <2>3. \A n \in Numbers : Len(file[n]) = 0
    BY <2>2
  <2>4. MaxFileSize + 1 + over >= 0
    BY <2>2, LogAssumption
  <2> QED
    BY <2>2, <2>3, <2>4 DEF GrowthBounded, Room
<1>2. FilesInv /\ FilesInv' /\ GrowthBounded /\ Room /\ [Next]_vars
        => GrowthBounded' /\ Room'
  BY GrowthStep
<1> QED
  BY <1>1, <1>2, InvariantHolds, PTL DEF Spec

=============================================================================
