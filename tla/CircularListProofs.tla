------------------------- MODULE CircularListProofs -------------------------
(***************************************************************************)
(* The list of CircularList.tla is circular, owns its nodes and implements *)
(* Ring, for every set of addresses.                                       *)
(***************************************************************************)
EXTENDS CircularList, SequenceTheorems, TLAPS

\* Members of the list's sequence are addresses that are in use.
LEMMA NodesLive ==
    ASSUME IInv
    PROVE  /\ Nodes \subseteq live /\ Nodes \subseteq Addresses
           /\ \A i \in 1 .. Len(order) : order[i] \in Nodes /\ order[i] \in Addresses
           /\ Len(order) \in Nat
           /\ order # <<>> <=> Len(order) > 0
           /\ order # <<>> <=> head # Null
BY ListAssumption DEF IInv, TypeOK, Circular, NodesOwned, Nodes

\* Only the links decide the circle: it survives what leaves them alone.
LEMMA SameCircle ==
    ASSUME IInv, UNCHANGED <<head, link, order>>
    PROVE  Circular'
BY DEF IInv, Circular, After

LEMMA InitInv == Init => IInv
<1> SUFFICES ASSUME Init PROVE IInv
  OBVIOUS
<1>1. order = <<>> /\ Len(order) = 0 /\ op = "idle" /\ ~Deleting
  BY DEF Init, Deleting
<1>2. TypeOK
  BY DEF Init, TypeOK
<1>3. Circular
  BY <1>1 DEF Init, Circular
<1>4. NodesOwned
  BY <1>1 DEF Init, NodesOwned, Nodes
<1>5. LoopsOnTrack /\ LengthIsCount
  BY <1>1 DEF Init, LoopsOnTrack, LengthIsCount
<1> QED
  BY <1>2, <1>3, <1>4, <1>5 DEF IInv

-----------------------------------------------------------------------------
(* addNode                                                                 *)

LEMMA AddFirstInv ==
    ASSUME IInv, NEW a \in Addresses, NEW d \in Data, AddFirst(a, d)
    PROVE  IInv'
<1>0. order = <<>> /\ live = {} /\ op = "idle"
  BY NodesLive DEF AddFirst, IInv, NodesOwned, Nodes
<1>1. order' = <<a>> /\ Len(order') = 1 /\ order'[1] = a /\ op' = "idle"
  BY <1>0 DEF AddFirst
<1>2. TypeOK'
  BY <1>1 DEF IInv, TypeOK, AddFirst, Allocate, locals
<1>3. Circular'
  <2>1. link'[a] = a
    BY DEF AddFirst, IInv, TypeOK
  <2> QED
    BY <1>1, <2>1 DEF AddFirst, Circular, After
<1>4. NodesOwned'
  BY <1>0, <1>1 DEF AddFirst, Allocate, NodesOwned, Nodes
<1>5. LoopsOnTrack' /\ LengthIsCount'
  BY <1>1 DEF AddFirst, LoopsOnTrack, LengthIsCount, Deleting, Nodes
<1> QED
  BY <1>2, <1>3, <1>4, <1>5 DEF IInv

LEMMA AddBeginsInv ==
    ASSUME IInv, NEW a \in Addresses, NEW d \in Data, AddBegins(a, d)
    PROVE  IInv'
<1>0. order # <<>> /\ live = Nodes /\ op = "idle" /\ a \notin Nodes /\ op' = "add"
  BY NodesLive DEF AddBegins, Allocate, IInv, NodesOwned
<1>1. TypeOK'
  BY DEF IInv, TypeOK, AddBegins, Allocate, object
<1>2. \A i \in 1 .. Len(order) : order[i] # a /\ link'[order[i]] = link[order[i]]
  BY <1>0, NodesLive DEF AddBegins, IInv, TypeOK, Nodes
<1>3. Circular'
  BY <1>2, NodesLive DEF AddBegins, object, IInv, Circular, After
<1>4. NodesOwned'
  BY <1>0 DEF AddBegins, Allocate, NodesOwned, Nodes
<1>5. head \in Nodes /\ data'[a] = d /\ Nodes' = Nodes
  BY <1>0, NodesLive DEF AddBegins, Allocate, IInv, TypeOK, Circular, Nodes
<1>6. LoopsOnTrack'
  BY <1>0, <1>5 DEF AddBegins, object, IInv, LoopsOnTrack, Deleting
<1>7. LengthIsCount'
  BY <1>0 DEF LengthIsCount
<1> QED
  BY <1>1, <1>3, <1>4, <1>6, <1>7 DEF IInv

\* Where the link of a node leads, and when it leads to the head.
LEMMA LinkOfNode ==
    ASSUME IInv, NEW i \in 1 .. Len(order)
    PROVE  /\ link[order[i]] \in Nodes
           /\ i < Len(order) => link[order[i]] = order[i + 1]
           /\ link[order[i]] = head <=> i = Len(order)
BY NodesLive DEF IInv, Circular, After, Nodes

LEMMA AddWalksInv ==
    ASSUME IInv, AddWalks
    PROVE  IInv'
<1>0. op = "add" /\ order # <<>> /\ tmp \in Nodes
  BY DEF AddWalks, IInv, LoopsOnTrack
<1>1. tmp' \in Nodes
  BY <1>0, LinkOfNode DEF AddWalks, Nodes
<1>2. PICK j \in 1 .. Len(order) : tmp' = order[j]
  BY <1>1 DEF Nodes
<1>3. op' = IF j = Len(order) THEN "link" ELSE "add"
  BY <1>2, LinkOfNode DEF AddWalks
<1>4. TypeOK'
  BY <1>1, <1>3, NodesLive DEF AddWalks, object, memory, IInv, TypeOK
<1>5. Circular'
  BY SameCircle DEF AddWalks, object, memory
<1>6. NodesOwned' /\ LengthIsCount'
  BY <1>0, <1>3 DEF AddWalks, object, memory, IInv, NodesOwned, Nodes, LengthIsCount
<1>7. LoopsOnTrack'
  <2>1. Nodes' = Nodes
    BY DEF AddWalks, Nodes
  <2> QED
    BY <1>0, <1>1, <1>2, <1>3, <2>1
    DEF AddWalks, object, memory, IInv, LoopsOnTrack, Deleting
<1> QED
  BY <1>4, <1>5, <1>6, <1>7 DEF IInv

LEMMA AddLinksInv ==
    ASSUME IInv, AddLinks
    PROVE  IInv'
<1> DEFINE n == Len(order)
<1>0. /\ op = "link" /\ order # <<>> /\ tmp = order[n] /\ n \in Nat /\ n > 0
      /\ node \in Addresses \ Nodes
  BY NodesLive DEF AddLinks, IInv, LoopsOnTrack
<1>1. /\ order' = Append(order, node) /\ Len(order') = n + 1
      /\ order'[n + 1] = node
      /\ \A i \in 1 .. n : order'[i] = order[i]
      /\ order' \in Seq(Addresses) /\ order' # <<>>
  BY <1>0 DEF AddLinks, IInv, TypeOK
<1>2. \A i \in 1 .. n : order[i] # node
  BY <1>0 DEF Nodes
<1>3. /\ link'[node] = head
      /\ link'[order[n]] = node
      /\ \A i \in 1 .. n - 1 : link'[order[i]] = order[i + 1]
  <2>1. \A i \in 1 .. n - 1 : order[i] # order[n] /\ link[order[i]] = order[i + 1]
    BY <1>0 DEF IInv, Circular, After
  <2> QED
    BY <1>0, <1>2, <2>1, NodesLive DEF AddLinks, IInv, TypeOK
<1>4. TypeOK'
  <2>1. head \in Addresses
    BY <1>0, NodesLive DEF IInv, TypeOK
  <2> QED
    BY <1>0, <1>1, <2>1 DEF AddLinks, object, locals, IInv, TypeOK
<1>5. Circular'
  <2>1. head' = head /\ head = order[1]
    BY <1>0 DEF AddLinks, object, IInv, Circular
  <2>2. \A i, j \in 1 .. n + 1 : order'[i] = order'[j] => i = j
    BY <1>0, <1>1, <1>2 DEF IInv, Circular
  <2>3. \A i \in 1 .. n + 1 : link'[order'[i]] = (After(i))'
    <3> TAKE i \in 1 .. n + 1
    <3>1. CASE i = n + 1
      BY <3>1, <1>0, <1>1, <1>3, <2>1 DEF After
    <3>2. CASE i = n
      BY <3>2, <1>0, <1>1, <1>3 DEF After
    <3>3. CASE i \in 1 .. n - 1
      BY <3>3, <1>0, <1>1, <1>3 DEF After
    <3> QED
      BY <3>1, <3>2, <3>3, <1>0
  <2> QED
    BY <1>0, <1>1, <2>1, <2>2, <2>3 DEF Circular
<1>6. Nodes' = Nodes \cup {node}
  BY <1>0, <1>1 DEF Nodes
<1>7. NodesOwned' /\ LengthIsCount'
  BY <1>0, <1>6 DEF AddLinks, IInv, NodesOwned, LengthIsCount
<1>8. LoopsOnTrack'
  BY <1>0, <1>1, <1>6 DEF AddLinks, object, IInv, LoopsOnTrack, Deleting
<1> QED
  BY <1>4, <1>5, <1>7, <1>8 DEF IInv

-----------------------------------------------------------------------------
(* next and getLength                                                      *)

LEMMA AdvanceInv ==
    ASSUME IInv, Advance
    PROVE  IInv'
<1>0. op = "idle" /\ order # <<>> /\ current \in Nodes /\ op' = "idle"
  BY NodesLive DEF Advance, IInv, LoopsOnTrack, Deleting
<1>1. current' \in Nodes /\ Nodes' = Nodes
  BY <1>0, LinkOfNode DEF Advance, Nodes
<1>2. TypeOK'
  BY <1>1, NodesLive DEF Advance, memory, locals, IInv, TypeOK
<1>3. Circular'
  BY SameCircle DEF Advance, memory
<1>4. NodesOwned' /\ LengthIsCount' /\ LoopsOnTrack'
  BY <1>0, <1>1
  DEF Advance, memory, locals, IInv, NodesOwned, LengthIsCount, LoopsOnTrack, Deleting
<1> QED
  BY <1>2, <1>3, <1>4 DEF IInv

LEMMA CountInv ==
    ASSUME IInv, CountBegins \/ Counts \/ CountEnds
    PROVE  IInv'
<1>0. Nodes' = Nodes /\ UNCHANGED <<object, memory, node, aux, order>>
  BY DEF CountBegins, Counts, CountEnds, Nodes, object, memory, locals
<1>1. Circular'
  BY <1>0, SameCircle DEF object, memory
<1>2. NodesOwned'
  BY <1>0 DEF CountBegins, Counts, CountEnds, memory, IInv, NodesOwned
<1>3. CASE CountBegins
  <2>1. TypeOK' /\ LengthIsCount' /\ LoopsOnTrack'
    <3>1. order # <<>> => head = order[1] /\ Len(order) > 0 /\ head # Null
      BY NodesLive DEF IInv, Circular
    <3>2. order = <<>> => head = Null /\ Len(order) = 0
      BY NodesLive DEF IInv, Circular
    <3>3. TypeOK'
      BY <1>0, <1>3 DEF CountBegins, object, memory, IInv, TypeOK
    <3>4. LengthIsCount'
      BY <1>0, <1>3, <3>1, <3>2 DEF CountBegins, LengthIsCount
    <3>5. LoopsOnTrack'
      BY <1>0, <1>3, <3>1, <3>2, NodesLive
      DEF CountBegins, object, IInv, LoopsOnTrack, Deleting
    <3> QED
      BY <3>3, <3>4, <3>5
  <2> QED
    BY <1>1, <1>2, <2>1 DEF IInv
<1>4. CASE Counts
  <2>0. /\ op = "count" /\ order # <<>>
        /\ count \in Nat /\ count + 1 \in 1 .. Len(order) /\ tmp = order[count + 1]
    BY <1>4 DEF Counts, IInv, TypeOK, LoopsOnTrack
  <2>1. /\ tmp' \in Nodes
        /\ tmp' = head <=> count + 1 = Len(order)
        /\ count + 1 < Len(order) => tmp' = order[count + 2]
    BY <1>4, <2>0, LinkOfNode DEF Counts
  <2>2. TypeOK'
    BY <1>0, <1>4, <2>0, <2>1, NodesLive DEF Counts, object, memory, IInv, TypeOK
  <2>3. LengthIsCount'
    BY <1>0, <1>4, <2>0, <2>1 DEF Counts, LengthIsCount
  <2>4. LoopsOnTrack'
    BY <1>0, <1>4, <2>0, <2>1, NodesLive
    DEF Counts, object, IInv, LoopsOnTrack, Deleting
  <2> QED
    BY <1>1, <1>2, <2>2, <2>3, <2>4 DEF IInv
<1>5. CASE CountEnds
  <2>1. TypeOK' /\ LengthIsCount' /\ LoopsOnTrack'
    BY <1>0, <1>5
    DEF CountEnds, object, memory, locals, IInv, TypeOK, LengthIsCount,
        LoopsOnTrack, Deleting
  <2> QED
    BY <1>1, <1>2, <2>1 DEF IInv
<1> QED
  BY <1>3, <1>4, <1>5

-----------------------------------------------------------------------------
(* deleteAll                                                               *)

LEMMA DeleteBeginsInv ==
    ASSUME IInv, DeleteBegins \/ DeleteEnds
    PROVE  IInv'
<1>0. /\ UNCHANGED <<object, memory, locals, order>> /\ Nodes' = Nodes
      /\ op \in {"idle", "delete"} /\ op' \in {"idle", "delete"}
  BY DEF DeleteBegins, DeleteEnds, Nodes
<1>1. TypeOK' /\ Circular' /\ NodesOwned' /\ LengthIsCount'
  BY <1>0, SameCircle
  DEF object, memory, locals, IInv, TypeOK, NodesOwned, LengthIsCount
<1>2. /\ order = <<>> => current = Null
      /\ op' = "idle" /\ order # <<>> => current \in Nodes
  <2>1. CASE DeleteBegins
    BY <2>1 DEF DeleteBegins, IInv, LoopsOnTrack, Deleting
  <2>2. CASE DeleteEnds
    BY <2>2, NodesLive DEF DeleteEnds, IInv, LoopsOnTrack, Deleting
  <2> QED
    BY <2>1, <2>2
<1>3. LoopsOnTrack'
  BY <1>0, <1>2 DEF object, locals, LoopsOnTrack, Deleting
<1> QED
  BY <1>1, <1>3 DEF IInv

LEMMA DeleteSeeksInv ==
    ASSUME IInv, DeleteSeeks
    PROVE  IInv'
<1>0. /\ op = "delete" /\ op' = "seek" /\ order # <<>> /\ head = order[1]
      /\ Nodes' = Nodes
  BY NodesLive DEF DeleteSeeks, IInv, Circular, Nodes
<1>1. Len(order) \in Nat /\ 1 \in 1 .. Len(order) - 1
  BY <1>0, NodesLive, LinkOfNode DEF DeleteSeeks
<1>2. TypeOK'
  BY <1>0 DEF DeleteSeeks, memory, IInv, TypeOK
<1>3. Circular' /\ NodesOwned' /\ LengthIsCount'
  BY <1>0, SameCircle DEF DeleteSeeks, memory, IInv, NodesOwned, LengthIsCount
<1>4. LoopsOnTrack'
  BY <1>0, <1>1 DEF DeleteSeeks, LoopsOnTrack, Deleting
<1> QED
  BY <1>2, <1>3, <1>4 DEF IInv

LEMMA DeleteWalksInv ==
    ASSUME IInv, DeleteWalks
    PROVE  IInv'
<1>0. op = "seek" /\ order # <<>> /\ Nodes' = Nodes /\ Len(order) \in Nat
  BY NodesLive DEF DeleteWalks, IInv, LoopsOnTrack, Nodes
<1>1. PICK k \in 1 .. Len(order) - 1 : tmp = order[k]
  BY <1>0 DEF IInv, LoopsOnTrack
<1>2. /\ tmp' = order[k + 1] /\ aux' = order[k] /\ Len(order) > 1
      /\ k + 1 \in 1 .. Len(order)
  BY <1>0, <1>1, LinkOfNode DEF DeleteWalks
<1>3. op' = IF k + 1 = Len(order) THEN "cut" ELSE "seek"
  BY <1>0, <1>2, LinkOfNode DEF DeleteWalks
<1>4. TypeOK'
  BY <1>0, <1>2, <1>3, NodesLive DEF DeleteWalks, object, memory, IInv, TypeOK
<1>5. Circular' /\ NodesOwned' /\ LengthIsCount'
  BY <1>0, <1>3, SameCircle
  DEF DeleteWalks, object, memory, IInv, NodesOwned, LengthIsCount
<1>6. LoopsOnTrack'
  <2>1. CASE k + 1 = Len(order)
    BY <2>1, <1>0, <1>2, <1>3 DEF DeleteWalks, LoopsOnTrack, Deleting
  <2>2. CASE k + 1 # Len(order)
    <3>1. k + 1 \in 1 .. Len(order) - 1
      BY <2>2, <1>0, <1>2
    <3> QED
      BY <2>2, <3>1, <1>0, <1>2, <1>3 DEF DeleteWalks, LoopsOnTrack, Deleting
  <2> QED
    BY <2>1, <2>2
<1> QED
  BY <1>4, <1>5, <1>6 DEF IInv

\* A sequence without its last member.
LEMMA ButLast ==
    ASSUME NEW S, NEW s \in Seq(S), Len(s) > 1
    PROVE  /\ SubSeq(s, 1, Len(s) - 1) \in Seq(S)
           /\ SubSeq(s, 1, Len(s) - 1) # <<>>
           /\ Len(SubSeq(s, 1, Len(s) - 1)) = Len(s) - 1
           /\ \A i \in 1 .. Len(s) - 1 : SubSeq(s, 1, Len(s) - 1)[i] = s[i]
<1> DEFINE m == Len(s) - 1
<1>1. m \in Nat /\ m > 0 /\ \A i \in 1 .. m : s[i] \in S
  OBVIOUS
<1>2. /\ SubSeq(s, 1, m) \in Seq(S)
      /\ Len(SubSeq(s, 1, m)) = IF 1 <= m THEN m - 1 + 1 ELSE 0
      /\ \A i \in 1 .. m - 1 + 1 : SubSeq(s, 1, m)[i] = s[1 + i - 1]
  <2> HIDE DEF m
  <2> QED
    BY <1>1, SubSeqProperties
<1>3. Len(SubSeq(s, 1, m)) = m
  BY <1>1, <1>2
<1>4. \A i \in 1 .. m : SubSeq(s, 1, m)[i] = s[i]
  <2> HIDE DEF m
  <2> QED
    BY <1>1, <1>2
<1>5. SubSeq(s, 1, m) # <<>>
  <2>1. Len(<<>>) = 0
    OBVIOUS
  <2> HIDE DEF m
  <2> QED
    BY <1>1, <1>3, <2>1
<1> QED
  BY <1>2, <1>3, <1>4, <1>5, Zenon

LEMMA DeleteCutsInv ==
    ASSUME IInv, DeleteCuts
    PROVE  IInv'
<1> DEFINE n == Len(order)
<1>0. /\ op = "cut" /\ op' = "delete" /\ n \in Nat /\ n > 1
      /\ tmp = order[n] /\ aux = order[n - 1] /\ head = order[1]
  BY NodesLive DEF DeleteCuts, IInv, LoopsOnTrack, Circular
<1>1. /\ Len(order') = n - 1 /\ order' # <<>>
      /\ \A i \in 1 .. n - 1 : order'[i] = order[i]
      /\ order' \in Seq(Addresses)
  <2>1. order \in Seq(Addresses) /\ order' = SubSeq(order, 1, n - 1)
    BY DEF DeleteCuts, IInv, TypeOK
  <2> QED
    BY <1>0, <2>1, ButLast
<1>2. \A i \in 1 .. n - 1 : order[i] # tmp
  BY <1>0 DEF IInv, Circular
<1>3. /\ link'[order[n - 1]] = head
      /\ \A i \in 1 .. n - 2 : link'[order[i]] = order[i + 1]
  <2>1. \A i \in 1 .. n - 2 : order[i] # aux /\ link[order[i]] = order[i + 1]
    BY <1>0 DEF IInv, Circular, After
  <2> QED
    BY <1>0, <1>2, <2>1, NodesLive DEF DeleteCuts, IInv, TypeOK
<1>4. TypeOK'
  <2>1. head \in Addresses /\ tmp \in Addresses
    BY <1>0, NodesLive
  <2> QED
    BY <1>0, <1>1, <2>1 DEF DeleteCuts, Free, object, locals, IInv, TypeOK
<1>5. Circular'
  <2>1. head' = order'[1]
    BY <1>0, <1>1 DEF DeleteCuts, object
  <2>2. \A i, j \in 1 .. n - 1 : order'[i] = order'[j] => i = j
    BY <1>0, <1>1 DEF IInv, Circular
  <2>3. \A i \in 1 .. n - 1 : link'[order'[i]] = (After(i))'
    <3> TAKE i \in 1 .. n - 1
    <3>1. CASE i = n - 1
      BY <3>1, <1>0, <1>1, <1>3 DEF After
    <3>2. CASE i \in 1 .. n - 2
      BY <3>2, <1>0, <1>1, <1>3 DEF After
    <3> QED
      BY <3>1, <3>2, <1>0
  <2> QED
    BY <1>0, <1>1, <2>1, <2>2, <2>3 DEF Circular
<1>6. Nodes' = Nodes \ {tmp}
  BY <1>0, <1>1, <1>2 DEF Nodes
<1>7. NodesOwned' /\ LengthIsCount'
  BY <1>0, <1>6 DEF DeleteCuts, Free, IInv, NodesOwned, LengthIsCount
<1>8. LoopsOnTrack'
  BY <1>0, <1>1 DEF LoopsOnTrack, Deleting
<1> QED
  BY <1>4, <1>5, <1>7, <1>8 DEF IInv

LEMMA DeleteLastInv ==
    ASSUME IInv, DeleteLast
    PROVE  IInv'
<1>0. /\ op = "delete" /\ op' = "delete" /\ Len(order) = 1 /\ head = order[1]
      /\ order' = <<>> /\ Len(order') = 0 /\ head \in Addresses
  <2>1. order # <<>> /\ head \in Addresses /\ head = order[1] /\ Len(order) > 0
    BY NodesLive DEF DeleteLast, IInv, TypeOK, Circular
  <2>2. Len(order) = 1
    BY <2>1, NodesLive, LinkOfNode DEF DeleteLast
  <2> QED
    BY <2>1, <2>2 DEF DeleteLast
<1>1. TypeOK'
  BY <1>0 DEF DeleteLast, Free, locals, IInv, TypeOK
<1>2. Circular'
  BY <1>0 DEF DeleteLast, Circular
<1>3. Nodes = {head} /\ Nodes' = {}
  BY <1>0 DEF Nodes
<1>4. NodesOwned' /\ LengthIsCount' /\ LoopsOnTrack'
  BY <1>0, <1>3
  DEF DeleteLast, Free, IInv, NodesOwned, LengthIsCount, LoopsOnTrack, Deleting
<1> QED
  BY <1>1, <1>2, <1>4 DEF IInv

-----------------------------------------------------------------------------

LEMMA NextInv == IInv /\ [Next]_vars => IInv'
<1> SUFFICES ASSUME IInv, [Next]_vars PROVE IInv'
  OBVIOUS
<1>1. CASE UNCHANGED vars
  BY <1>1
  DEF vars, object, memory, locals, IInv, TypeOK, Circular, After, NodesOwned,
      Nodes, LengthIsCount, LoopsOnTrack, Deleting
<1>2. CASE Call
  BY <1>2, AddFirstInv, AddBeginsInv, AdvanceInv, DeleteBeginsInv, CountInv DEF Call
<1>3. CASE Proceed
  BY <1>3, AddWalksInv, AddLinksInv, DeleteSeeksInv, DeleteWalksInv, DeleteCutsInv,
     DeleteLastInv, DeleteBeginsInv, CountInv DEF Proceed
<1> QED
  BY <1>1, <1>2, <1>3 DEF Next

(***************************************************************************)
(* The inductive invariant: types, circle, ownership and where each loop   *)
(* stands (CircularList.cpp:12-64).                                        *)
(***************************************************************************)
THEOREM InvariantHolds == Spec => []IInv
BY InitInv, NextInv, PTL DEF Spec

(***************************************************************************)
(* The links always run round all the nodes in order (CircularList.cpp).   *)
(***************************************************************************)
THEOREM ListIsCircular == Spec => []Circular
<1>1. IInv => Circular
  BY DEF IInv
<1> QED
  BY <1>1, InvariantHolds, PTL

(***************************************************************************)
(* addNode and deleteAll neither leak a node nor leave one dangling.       *)
(***************************************************************************)
THEOREM NodesAreOwned == Spec => []NodesOwned
<1>1. IInv => NodesOwned
  BY DEF IInv
<1> QED
  BY <1>1, InvariantHolds, PTL

(***************************************************************************)
(* getLength returns the number of nodes.                                  *)
(***************************************************************************)
THEOREM LengthIsRight == Spec => []LengthIsCount
<1>1. IInv => LengthIsCount
  BY DEF IInv
<1> QED
  BY <1>1, InvariantHolds, PTL

-----------------------------------------------------------------------------
(* Refinement.                                                             *)

\* The cursor's index is the one index of the node it points at.
LEMMA PositionOf ==
    ASSUME IInv, ~Deleting, NEW i \in 1 .. Len(order), current = order[i]
    PROVE  Position = i
BY NodesLive DEF IInv, Circular, Position

\* The same in the next state.
LEMMA PositionOfNext ==
    ASSUME IInv', ~Deleting', NEW i \in 1 .. Len(order'), current' = order'[i]
    PROVE  Position' = i
BY DEF IInv, Circular, Position

\* What neither adds nor moves is not seen by the callers.
LEMMA Stutter ==
    ASSUME IInv, UNCHANGED <<current, data, order>>, ~Deleting, ~Deleting'
    PROVE  UNCHANGED R!vars
BY DEF R!vars, Items, Position

LEMMA AddFirstRefines ==
    ASSUME IInv, NEW a \in Addresses, NEW d \in Data, AddFirst(a, d)
    PROVE  R!Add(d)
<1>0. /\ order = <<>> /\ order' = <<a>> /\ Len(order') = 1 /\ Len(order) = 0
      /\ ~Deleting /\ ~Deleting' /\ data'[a] = d /\ current' = a
  BY NodesLive DEF AddFirst, Allocate, Deleting, IInv, TypeOK
<1>1. IInv'
  BY AddFirstInv
<1>2. Position' = 1
  BY <1>0, <1>1, PositionOfNext
<1>3. Items = <<>>
  BY <1>0 DEF Items
<1>4. Items' = <<d>>
  BY <1>0 DEF Items
<1> QED
  BY <1>2, <1>3, <1>4 DEF R!Add

LEMMA AddLinksRefines ==
    ASSUME IInv, AddLinks
    PROVE  \E d \in Data : R!Add(d)
<1> DEFINE n == Len(order)
<1>0. /\ op = "link" /\ order # <<>> /\ n \in Nat /\ n > 0
      /\ node \in Addresses \ Nodes /\ data[node] \in Data /\ data' = data
      /\ ~Deleting /\ ~Deleting' /\ current' = current
  BY NodesLive DEF AddLinks, object, IInv, LoopsOnTrack, Deleting
<1>1. /\ order' = Append(order, node) /\ Len(order') = n + 1
      /\ order'[n + 1] = node
      /\ \A i \in 1 .. n : order'[i] = order[i]
  BY <1>0 DEF AddLinks, IInv, TypeOK
<1>2. Items' = Append(Items, data[node])
  <2>1. Items = [i \in 1 .. n |-> data[order[i]]]
    BY <1>0 DEF Items
  <2>2. Items' = [i \in 1 .. n + 1 |-> data[order'[i]]]
    BY <1>0, <1>1 DEF Items
  <2>3. Items \in Seq(Data \cup {Null}) /\ Len(Items) = n
    BY <2>1, <1>0, NodesLive DEF IInv, TypeOK
  <2> QED
    BY <1>0, <1>1, <2>1, <2>2, <2>3
<1>3. PICK i \in 1 .. n : current = order[i]
  BY <1>0 DEF IInv, LoopsOnTrack, Nodes
<1>4. Position = i
  BY <1>0, <1>3, PositionOf
<1>5. IInv'
  BY AddLinksInv
<1>6. Position' = i
  BY <1>0, <1>1, <1>3, <1>5, PositionOfNext
<1>7. Items # <<>>
  BY <1>0 DEF Items
<1> QED
  BY <1>0, <1>2, <1>4, <1>6, <1>7 DEF R!Add

LEMMA AdvanceRefines ==
    ASSUME IInv, Advance
    PROVE  R!Advance
<1>0. /\ op = "idle" /\ order # <<>> /\ current \in Nodes /\ ~Deleting /\ ~Deleting'
      /\ order' = order /\ data' = data /\ Len(order) \in Nat /\ Len(order) > 0
  BY NodesLive DEF Advance, memory, IInv, LoopsOnTrack, Deleting
<1>1. PICK i \in 1 .. Len(order) : current = order[i]
  BY <1>0 DEF Nodes
<1>2. Position = i
  BY <1>0, <1>1, PositionOf
<1> DEFINE j == IF i = Len(order) THEN 1 ELSE i + 1
<1>3. current' = order[j] /\ j \in 1 .. Len(order)
  BY <1>0, <1>1 DEF Advance, IInv, Circular, After
<1>4. IInv'
  BY AdvanceInv
<1>5. Position' = j
  BY <1>0, <1>3, <1>4, PositionOfNext
<1>6. Items' = Items /\ Items # <<>> /\ Len(Items) = Len(order)
  BY <1>0 DEF Items
<1> QED
  BY <1>2, <1>5, <1>6 DEF R!Advance

LEMMA DeletesRefine ==
    ASSUME IInv,
           DeleteBegins \/ DeleteSeeks \/ DeleteWalks \/ DeleteCuts \/ DeleteLast
             \/ DeleteEnds
    PROVE  R!Clear \/ UNCHANGED R!vars
<1>1. CASE DeleteBegins
  BY <1>1 DEF DeleteBegins, Deleting, Items, Position, R!Clear
<1>2. CASE DeleteSeeks \/ DeleteWalks \/ DeleteCuts \/ DeleteLast
  <2>1. Deleting /\ Deleting'
    BY <1>2 DEF DeleteSeeks, DeleteWalks, DeleteCuts, DeleteLast, Deleting
  <2> QED
    BY <2>1 DEF Items, Position, R!vars
<1>3. CASE DeleteEnds
  <2>1. Deleting /\ ~Deleting' /\ order = <<>> /\ order' = order /\ Len(order) = 0
    BY <1>3, NodesLive DEF DeleteEnds, Deleting
  <2>2. Items = <<>> /\ Position = 0 /\ Items' = <<>> /\ Position' = 0
    BY <2>1 DEF Items, Position
  <2> QED
    BY <2>2 DEF R!vars
<1> QED
  BY <1>1, <1>2, <1>3

LEMMA QuietRefines ==
    ASSUME IInv,
           \/ \E a \in Addresses : \E d \in Data : AddBegins(a, d)
           \/ AddWalks \/ CountBegins \/ Counts \/ CountEnds
    PROVE  UNCHANGED R!vars
<1>1. CASE \E a \in Addresses : \E d \in Data : AddBegins(a, d)
  <2> PICK a \in Addresses, d \in Data : AddBegins(a, d)
    BY <1>1
  <2>1. /\ ~Deleting /\ ~Deleting' /\ current' = current /\ order' = order
        /\ \A i \in 1 .. Len(order) : data'[order[i]] = data[order[i]]
    BY NodesLive DEF AddBegins, Allocate, object, Deleting, IInv, TypeOK
  <2>2. Items' = Items /\ Position' = Position
    BY <2>1 DEF Items, Position
  <2> QED
    BY <2>2 DEF R!vars
<1>2. CASE AddWalks \/ CountBegins \/ Counts \/ CountEnds
  <2>1. ~Deleting /\ ~Deleting' /\ UNCHANGED <<current, data, order>>
    BY <1>2 DEF AddWalks, CountBegins, Counts, CountEnds, object, memory, Deleting
  <2> QED
    BY <2>1, Stutter
<1> QED
  BY <1>1, <1>2

(***************************************************************************)
(* The list of nodes implements the ring of items: what addNode, next,     *)
(* deleteAll and getCurrentData do is what Ring says (CircularList.cpp).   *)
(***************************************************************************)
THEOREM RefinesRing == Spec => ImplementsRing
<1>1. Init => R!RingInit
  BY DEF Init, Items, Position, Deleting, R!RingInit
<1>2. IInv /\ [Next]_vars => [R!RingNext]_(R!vars)
  <2> SUFFICES ASSUME IInv, [Next]_vars PROVE [R!RingNext]_(R!vars)
    OBVIOUS
  <2>1. CASE UNCHANGED vars
    BY <2>1 DEF vars, object, memory, Items, Position, Deleting, R!vars
  <2>2. CASE Call
    <3>1. CASE \E a \in Addresses : \E d \in Data : AddFirst(a, d)
      BY <3>1, AddFirstRefines DEF R!RingNext
    <3>2. CASE Advance
      BY <3>2, AdvanceRefines DEF R!RingNext
    <3> QED
      BY <2>2, <3>1, <3>2, DeletesRefine, QuietRefines DEF Call, R!RingNext
  <2>3. CASE Proceed
    BY <2>3, AddLinksRefines, DeletesRefine, QuietRefines DEF Proceed, R!RingNext
  <2> QED
    BY <2>1, <2>2, <2>3 DEF Next
<1> QED
  BY <1>1, <1>2, InvariantHolds, PTL DEF Spec, ImplementsRing, R!Spec

-----------------------------------------------------------------------------
(* Every turn of a loop brings its call nearer to the end.                 *)

\* The index of the node that tmp points at.
Walker == CHOOSE i \in 1 .. Len(order) : order[i] = tmp

\* deleteAll removes a node per round; within a round, as in the other calls,
\* turns are left until the walker is at the last node.
Rounds == IF Deleting THEN Len(order) ELSE 0
Turns ==
    CASE op = "add"     -> IF Walker = Len(order) THEN Len(order) + 1
                                                  ELSE Len(order) - Walker + 1
      [] op = "link"    -> 1
      [] op = "delete"  -> Len(order) + 2
      [] op = "seek"    -> Len(order) - Walker + 1
      [] op = "cut"     -> 1
      [] op = "count"   -> Len(order) - count + 1
      [] op = "counted" -> 1
      [] OTHER          -> 0

Nearer == Rounds' < Rounds \/ (Rounds' = Rounds /\ Turns' < Turns)

LEMMA WalkerIs ==
    ASSUME IInv, NEW k \in 1 .. Len(order), tmp = order[k]
    PROVE  Walker = k
BY NodesLive DEF IInv, Circular, Walker

LEMMA WalkerIsNext ==
    ASSUME IInv', NEW k \in 1 .. Len(order'), tmp' = order'[k]
    PROVE  Walker' = k
BY DEF IInv, Circular, Walker

\* Both measures are natural numbers.
LEMMA MeasuresAreNat == ASSUME IInv PROVE Rounds \in Nat /\ Turns \in Nat
<1>1. Len(order) \in Nat
  BY NodesLive
<1>2. Rounds \in Nat
  BY <1>1 DEF Rounds
<1>3. CASE op \in {"add", "seek"}
  <2>1. \E k \in 1 .. Len(order) : tmp = order[k]
    BY <1>1, <1>3 DEF IInv, LoopsOnTrack, Nodes
  <2>2. Walker \in 1 .. Len(order)
    BY <2>1, WalkerIs
  <2> QED
    BY <1>1, <1>2, <1>3, <2>2 DEF Turns
<1>4. CASE op = "count"
  <2>1. count \in Nat /\ count + 1 <= Len(order)
    BY <1>1, <1>4 DEF IInv, TypeOK, LoopsOnTrack
  <2> QED
    BY <1>1, <1>2, <1>4, <2>1 DEF Turns
<1>5. CASE op \notin {"add", "seek", "count"}
  BY <1>1, <1>2, <1>5 DEF Turns
<1> QED
  BY <1>3, <1>4, <1>5

LEMMA AddWalksNearer == ASSUME IInv, AddWalks, IInv' PROVE Nearer
<1> DEFINE n == Len(order)
<1>1. /\ op = "add" /\ order' = order /\ n \in Nat
      /\ tmp' = link[tmp] /\ head' = head /\ link' = link
      /\ op' = IF link[tmp'] # head THEN "add" ELSE "link"
  BY NodesLive DEF AddWalks, object, memory
<1>2. PICK k \in 1 .. n : tmp = order[k]
  BY <1>1 DEF IInv, LoopsOnTrack, Nodes
<1>3. Walker = k
  BY <1>2, WalkerIs
<1>4. Rounds = 0 /\ Rounds' = 0
  BY <1>1 DEF Rounds, Deleting
<1>5. CASE k < n
  <2>1. k + 1 \in 1 .. n /\ tmp' = order[k + 1]
    BY <1>1, <1>2, <1>5, LinkOfNode
  <2>2. op' = IF k + 1 = n THEN "link" ELSE "add"
    BY <1>1, <2>1, LinkOfNode
  <2>3. Walker' = k + 1
    BY <1>1, <2>1, WalkerIsNext
  <2>4. Turns = n - k + 1
    BY <1>1, <1>3, <1>5 DEF Turns
  <2>5. Turns' < Turns
    BY <1>1, <1>5, <2>2, <2>3, <2>4 DEF Turns
  <2> QED
    BY <1>4, <2>5 DEF Nearer
<1>6. CASE k = n
  <2>1. 1 \in 1 .. n /\ tmp' = order[1]
    <3>1. tmp' = head
      BY <1>1, <1>2, <1>6, LinkOfNode
    <3> QED
      BY <1>1, <1>2, <3>1 DEF IInv, Circular
  <2>2. op' = IF 1 = n THEN "link" ELSE "add"
    BY <1>1, <2>1, LinkOfNode
  <2>3. Walker' = 1
    BY <1>1, <2>1, WalkerIsNext
  <2>4. Turns = n + 1
    BY <1>1, <1>3, <1>6 DEF Turns
  <2>5. Turns' < Turns
    BY <1>1, <1>6, <2>2, <2>3, <2>4 DEF Turns
  <2> QED
    BY <1>4, <2>5 DEF Nearer
<1> QED
  BY <1>1, <1>2, <1>5, <1>6

LEMMA DeleteWalksNearer == ASSUME IInv, DeleteWalks, IInv' PROVE Nearer
<1> DEFINE n == Len(order)
<1>1. /\ op = "seek" /\ order' = order /\ n \in Nat /\ tmp' = link[tmp]
      /\ head' = head /\ link' = link
      /\ op' = IF link[tmp'] # head THEN "seek" ELSE "cut"
  BY NodesLive DEF DeleteWalks, object, memory
<1>2. PICK k \in 1 .. n - 1 : tmp = order[k]
  BY <1>1 DEF IInv, LoopsOnTrack
<1>3. k \in 1 .. n /\ k + 1 \in 1 .. n /\ k \in Int
  BY <1>1, <1>2
<1>4. tmp' = order[k + 1]
  BY <1>1, <1>2, <1>3, LinkOfNode
<1>5. Walker = k /\ Walker' = k + 1
  BY <1>1, <1>2, <1>3, <1>4, WalkerIs, WalkerIsNext
<1>6. op' = IF k + 1 = n THEN "cut" ELSE "seek"
  BY <1>1, <1>3, <1>4, LinkOfNode
<1>7. Rounds = n /\ Rounds' = n
  BY <1>1, <1>6 DEF Rounds, Deleting
<1>8. Turns = n - k + 1 /\ (Turns' = IF k + 1 = n THEN 1 ELSE n - k)
  BY <1>1, <1>3, <1>5, <1>6 DEF Turns
<1> QED
  BY <1>1, <1>3, <1>7, <1>8 DEF Nearer

LEMMA DeletesNearer ==
    ASSUME IInv, IInv', DeleteSeeks \/ DeleteCuts \/ DeleteLast \/ DeleteEnds
    PROVE  Nearer
<1> DEFINE n == Len(order)
<1>1. n \in Nat
  BY NodesLive
<1>2. CASE DeleteSeeks
  <2>1. /\ op = "delete" /\ op' = "seek" /\ order' = order /\ tmp' = head /\ head # Null
    BY <1>2 DEF DeleteSeeks, memory
  <2>2. 1 \in 1 .. n /\ tmp' = order[1]
    BY <1>1, <2>1, NodesLive DEF IInv, Circular
  <2>3. Walker' = 1
    BY <2>1, <2>2, WalkerIsNext
  <2>4. Rounds = n /\ Rounds' = n /\ Turns = n + 2 /\ Turns' = n - 1 + 1
    BY <2>1, <2>3 DEF Rounds, Turns, Deleting
  <2> QED
    BY <1>1, <2>4 DEF Nearer
<1>3. CASE DeleteCuts
  <2>1. op = "cut" /\ op' = "delete" /\ order' = SubSeq(order, 1, n - 1)
    BY <1>3 DEF DeleteCuts
  <2>2. n > 1 /\ order \in Seq(Addresses)
    BY <2>1 DEF IInv, LoopsOnTrack, TypeOK
  <2>3. Len(order') = n - 1
    BY <2>1, <2>2, ButLast
  <2>4. Rounds = n /\ Rounds' = n - 1
    BY <2>1, <2>3 DEF Rounds, Deleting
  <2> QED
    BY <1>1, <2>4 DEF Nearer
<1>4. CASE DeleteLast
  <2>1. op = "delete" /\ op' = "delete" /\ order' = <<>> /\ head # Null
    BY <1>4 DEF DeleteLast, locals
  <2>2. n > 0 /\ Len(order') = 0
    BY <1>1, <2>1, NodesLive DEF IInv, Circular
  <2>3. Rounds = n /\ Rounds' = 0
    BY <2>1, <2>2 DEF Rounds, Deleting
  <2> QED
    BY <1>1, <2>2, <2>3 DEF Nearer
<1>5. CASE DeleteEnds
  <2>1. op = "delete" /\ op' = "idle" /\ order' = order /\ head = Null
    BY <1>5 DEF DeleteEnds, object
  <2>2. n = 0
    BY <1>1, <2>1, NodesLive DEF IInv, Circular, TypeOK
  <2>3. Rounds = 0 /\ Rounds' = 0 /\ Turns = 2 /\ Turns' = 0
    BY <2>1, <2>2 DEF Rounds, Turns, Deleting
  <2> QED
    BY <2>3 DEF Nearer
<1> QED
  BY <1>2, <1>3, <1>4, <1>5

LEMMA CountsNearer ==
    ASSUME IInv, IInv', AddLinks \/ Counts \/ CountEnds
    PROVE  Nearer
<1> DEFINE n == Len(order)
<1>1. n \in Nat
  BY NodesLive
<1>2. CASE AddLinks
  BY <1>2 DEF AddLinks, Nearer, Rounds, Turns, Deleting
<1>3. CASE Counts
  <2>1. /\ op = "count" /\ op' \in {"count", "counted"}
        /\ order' = order /\ count' = count + 1
    BY <1>3 DEF Counts
  <2>2. count \in Nat /\ count + 1 <= n
    BY <1>1, <2>1 DEF IInv, TypeOK, LoopsOnTrack
  <2>3. Rounds = 0 /\ Rounds' = 0
    BY <2>1 DEF Rounds, Deleting
  <2>4. Turns = n - count + 1
    BY <2>1 DEF Turns
  <2>5. Turns' = n - (count + 1) + 1 \/ Turns' = 1
    BY <2>1 DEF Turns
  <2> QED
    BY <1>1, <2>2, <2>3, <2>4, <2>5 DEF Nearer
<1>4. CASE CountEnds
  BY <1>4 DEF CountEnds, Nearer, Rounds, Turns, Deleting
<1> QED
  BY <1>2, <1>3, <1>4

(***************************************************************************)
(* Each step of a running call lessens Rounds, or leaves it and lessens    *)
(* Turns, both natural numbers: what is proved of CallsEnd.  No do-while   *)
(* loop of CircularList.cpp goes round for ever.                           *)
(***************************************************************************)
CallsShorten ==
    [][/\ Rounds \in Nat /\ Turns \in Nat
       /\ op # "idle" => Nearer]_vars

(***************************************************************************)
(* For every list and every call: while the circle is whole, each loop's   *)
(* variable only goes forward on it (CircularList.cpp lines 12 to 68).     *)
(***************************************************************************)
THEOREM EachTurnIsNearer == Spec => CallsShorten
<1>1. IInv /\ IInv' /\ [Next]_vars
        => [/\ Rounds \in Nat /\ Turns \in Nat
            /\ op # "idle" => Nearer]_vars
  <2> SUFFICES ASSUME IInv, IInv', Next, op # "idle" PROVE Nearer
    BY MeasuresAreNat
  <2>1. Proceed
    BY DEF Next, Call, AddFirst, AddBegins, Advance, DeleteBegins, CountBegins
  <2> QED
    BY <2>1, AddWalksNearer, DeleteWalksNearer, DeletesNearer, CountsNearer DEF Proceed
<1> QED
  BY <1>1, InvariantHolds, PTL DEF Spec, CallsShorten

=============================================================================
