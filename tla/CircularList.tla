---------------------------- MODULE CircularList ----------------------------
(***************************************************************************)
(* The list of CircularList.cpp as it lies in memory: nodes that point to  *)
(* the next, the last one to the first.  The loops of addNode, deleteAll   *)
(* and getLength take a step per turn, so that a broken link shows as a    *)
(* loop that never ends or a node that is lost.  The refinement of Ring is *)
(* stated at the end.                                                      *)
(***************************************************************************)
EXTENDS Naturals, Sequences

CONSTANTS
    Addresses,     \* what new may return (bound of the model)
    Data,          \* what the nodes own
    Null

ASSUME ListAssumption == Null \notin Addresses /\ Null \notin Data

VARIABLES
    head, current,     \* the object's members
    live,              \* the nodes allocated and not yet deleted
    data, link,        \* Node::data and Node::next, by address
    op,                \* the loop being run, "idle" between two calls
    node, tmp, aux,    \* n_node, tmp and aux of the running call
    count,             \* count of getLength
    order              \* history: the nodes in the order they were added

object == <<head, current>>
memory == <<live, data, link>>
locals == <<node, tmp, aux, count>>
vars   == <<object, memory, op, locals, order>>

Nodes == {order[i] : i \in 1 .. Len(order)}

Init ==
    /\ head = Null /\ current = Null
    /\ live = {}
    /\ data \in [Addresses -> {Null}] /\ link = data
    /\ op = "idle"
    /\ node = Null /\ tmp = Null /\ aux = Null /\ count = 0
    /\ order = <<>>

\* new Node(d): the address is any that is free.
Allocate(a, d) ==
    /\ a \notin live
    /\ live' = live \cup {a}
    /\ data' = [data EXCEPT ![a] = d]

\* delete: the destructor of the node deletes its data as well.
Free(a) == live' = live \ {a} /\ data' = [data EXCEPT ![a] = Null]

-----------------------------------------------------------------------------
(* addNode                                                                 *)

AddFirst(a, d) ==
    /\ op = "idle" /\ head = Null
    /\ Allocate(a, d)
    /\ link' = [link EXCEPT ![a] = a]
    /\ head' = a /\ current' = a
    /\ order' = <<a>>
    /\ UNCHANGED <<op, locals>>

AddBegins(a, d) ==
    /\ op = "idle" /\ head # Null
    /\ Allocate(a, d)
    /\ link' = [link EXCEPT ![a] = Null]
    /\ node' = a /\ tmp' = head
    /\ op' = "add"
    /\ UNCHANGED <<object, aux, count, order>>

\* Mutation of AddWalks: the loop tests before it moves, and never goes on.
AddWalksLate ==
    /\ op = "add"
    /\ tmp' = tmp
    /\ op' = IF link[tmp] # head THEN "add" ELSE "link"
    /\ UNCHANGED <<object, memory, node, aux, count, order>>

AddWalks ==
    /\ op = "add"
    /\ tmp' = link[tmp]
    /\ op' = IF link[tmp'] # head THEN "add" ELSE "link"
    /\ UNCHANGED <<object, memory, node, aux, count, order>>

\* Mutation of AddLinks: the new node goes in after the cursor.
AddLinksAtCursor ==
    /\ op = "link"
    /\ link' = [link EXCEPT ![current] = node, ![node] = link[current]]
    /\ order' = Append(order, node)
    /\ op' = "idle"
    /\ UNCHANGED <<object, live, data, locals>>

AddLinks ==
    /\ op = "link"
    /\ link' = [link EXCEPT ![tmp] = node, ![node] = head]
    /\ order' = Append(order, node)
    /\ op' = "idle"
    /\ UNCHANGED <<object, live, data, locals>>

-----------------------------------------------------------------------------
(* next, called on a list that holds a node                                *)

\* Mutation of Advance: the cursor skips a node.
AdvanceTwice ==
    /\ op = "idle" /\ head # Null
    /\ current' = link[link[current]]
    /\ UNCHANGED <<head, memory, op, locals, order>>

Advance ==
    /\ op = "idle" /\ head # Null
    /\ current' = link[current]
    /\ UNCHANGED <<head, memory, op, locals, order>>

-----------------------------------------------------------------------------
(* deleteAll: the node before the head goes, until the head goes itself    *)

DeleteBegins ==
    /\ op = "idle"
    /\ op' = "delete"
    /\ UNCHANGED <<object, memory, locals, order>>

DeleteSeeks ==
    /\ op = "delete" /\ head # Null /\ link[head] # head
    /\ current' = Null
    /\ tmp' = head
    /\ op' = "seek"
    /\ UNCHANGED <<head, memory, node, aux, count, order>>

DeleteWalks ==
    /\ op = "seek"
    /\ aux' = tmp
    /\ tmp' = link[tmp]
    /\ op' = IF link[tmp'] # head THEN "seek" ELSE "cut"
    /\ UNCHANGED <<object, memory, node, count, order>>

\* Mutation of DeleteCuts: the node is unlinked and not deleted.
DeleteCutsOnly ==
    /\ op = "cut"
    /\ link' = [link EXCEPT ![aux] = head, ![tmp] = Null]
    /\ order' = SubSeq(order, 1, Len(order) - 1)
    /\ op' = "delete"
    /\ UNCHANGED <<object, live, data, locals>>

DeleteCuts ==
    /\ op = "cut"
    /\ link' = [link EXCEPT ![aux] = head, ![tmp] = Null]
    /\ Free(tmp)
    /\ order' = SubSeq(order, 1, Len(order) - 1)
    /\ op' = "delete"
    /\ UNCHANGED <<object, locals>>

DeleteLast ==
    /\ op = "delete" /\ head # Null /\ link[head] = head
    /\ link' = [link EXCEPT ![head] = Null]
    /\ Free(head)
    /\ head' = Null /\ current' = Null
    /\ order' = <<>>
    /\ UNCHANGED <<op, locals>>

DeleteEnds ==
    /\ op = "delete" /\ head = Null
    /\ op' = "idle"
    /\ UNCHANGED <<object, memory, locals, order>>

-----------------------------------------------------------------------------
(* getLength                                                               *)

CountBegins ==
    /\ op = "idle"
    /\ count' = 0 /\ tmp' = head
    /\ op' = IF head = Null THEN "counted" ELSE "count"
    /\ UNCHANGED <<object, memory, node, aux, order>>

\* Mutation of Counts: the loop tests before it counts.
CountsShort ==
    /\ op = "count"
    /\ tmp' = link[tmp]
    /\ op' = IF tmp' # head THEN "count" ELSE "counted"
    /\ count' = IF tmp' # head THEN count + 1 ELSE count
    /\ UNCHANGED <<object, memory, node, aux, order>>

Counts ==
    /\ op = "count"
    /\ count' = count + 1
    /\ tmp' = link[tmp]
    /\ op' = IF tmp' # head THEN "count" ELSE "counted"
    /\ UNCHANGED <<object, memory, node, aux, order>>

CountEnds ==
    /\ op = "counted"
    /\ op' = "idle"
    /\ UNCHANGED <<object, memory, locals, order>>

-----------------------------------------------------------------------------

\* What a running call does next.
Proceed ==
    \/ AddWalks \/ AddLinks
    \/ DeleteSeeks \/ DeleteWalks \/ DeleteCuts \/ DeleteLast \/ DeleteEnds
    \/ Counts \/ CountEnds

\* The objects in the list are the caller's news: no two nodes share one.
Call ==
    \/ \E a \in Addresses : \E d \in Data :
         /\ \A b \in live : data[b] # d
         /\ AddFirst(a, d) \/ AddBegins(a, d)
    \/ Advance \/ DeleteBegins \/ CountBegins

Next == Call \/ Proceed

Spec == Init /\ [][Next]_vars

\* A call that has begun is run.
FairSpec == Spec /\ WF_vars(Proceed)

-----------------------------------------------------------------------------

Deleting == op \in {"delete", "seek", "cut"}

\* The address of the node after the i-th.
After(i) == IF i = Len(order) THEN order[1] ELSE order[i + 1]

TypeOK ==
    /\ head \in Addresses \cup {Null} /\ current \in Addresses \cup {Null}
    /\ live \subseteq Addresses
    /\ data \in [Addresses -> Data \cup {Null}]
    /\ link \in [Addresses -> Addresses \cup {Null}]
    /\ op \in {"idle", "add", "link", "delete", "seek", "cut", "count", "counted"}
    /\ node \in Addresses \cup {Null}
    /\ tmp \in Addresses \cup {Null}
    /\ aux \in Addresses \cup {Null}
    /\ count \in Nat
    /\ order \in Seq(Addresses)

(***************************************************************************)
(* Between the steps of every call the links run through all the nodes     *)
(* added and not deleted, in the order they were added, and back to the    *)
(* head: no do-while loop of CircularList.cpp can miss its end.            *)
(***************************************************************************)
Circular ==
    /\ head = IF order = <<>> THEN Null ELSE order[1]
    /\ \A i, j \in 1 .. Len(order) : order[i] = order[j] => i = j
    /\ \A i \in 1 .. Len(order) : link[order[i]] = After(i)

(***************************************************************************)
(* No node leaks and none dangles: what is allocated is what the links     *)
(* reach, and the node addNode is about to link.                           *)
(***************************************************************************)
NodesOwned ==
    live = Nodes \cup (IF op \in {"add", "link"} THEN {node} ELSE {})

(***************************************************************************)
(* getLength counts every node once, whatever the cursor points at.        *)
(***************************************************************************)
LengthIsCount == op = "counted" => count = Len(order)

(***************************************************************************)
(* Every call ends: the loops test for the head, and the head is ahead.    *)
(***************************************************************************)
CallsEnd == op # "idle" ~> op = "idle"

\* The loops' own invariants, and the cursor's.
LoopsOnTrack ==
    /\ op \in {"add", "link"} => node \in Addresses \ Nodes /\ data[node] \in Data
    /\ op \in {"add", "link", "seek", "cut", "count"} => order # <<>>
    /\ op = "add" => tmp \in Nodes
    /\ op = "link" => tmp = order[Len(order)]
    /\ op = "seek" => \E k \in 1 .. Len(order) - 1 : tmp = order[k]
    /\ op = "cut" => /\ Len(order) > 1
                     /\ tmp = order[Len(order)] /\ aux = order[Len(order) - 1]
    /\ op = "count" => count + 1 \in 1 .. Len(order) /\ tmp = order[count + 1]
    /\ order = <<>> => current = Null
    /\ ~Deleting /\ order # <<>> => current \in Nodes

IInv == TypeOK /\ Circular /\ NodesOwned /\ LengthIsCount /\ LoopsOnTrack

-----------------------------------------------------------------------------
(* The list implements the ring.  deleteAll takes effect when it is called *)
(* and addNode when it links.                                              *)

Items == IF Deleting THEN <<>> ELSE [i \in 1 .. Len(order) |-> data[order[i]]]

Position ==
    IF Deleting \/ order = <<>> THEN 0
    ELSE CHOOSE i \in 1 .. Len(order) : order[i] = current

R == INSTANCE Ring WITH items <- Items, pos <- Position

(***************************************************************************)
(* Every call has the effect that Ring says, on the items and the cursor:  *)
(* the order of the sensors in main's loop is the order of main's addNode  *)
(* calls, round after round.                                               *)
(***************************************************************************)
ImplementsRing == R!Spec

=============================================================================
