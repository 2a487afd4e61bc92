------------------------------ MODULE ListMap -------------------------------
(***************************************************************************)
(* listmap, the container of the postoffice's _callbacks: a hash map whose *)
(* elements (Quadrille) are linked both ways in order of insertion.        *)
(*                                                                         *)
(* An element lives in a cell of memory.  Erasing it frees the cell, with  *)
(* whatever other elements still point to it, and the next insertion may   *)
(* be given the same cell.  Iterators compare the values they stand for    *)
(* and not the cells, which erase() relies on to recognise the head.       *)
(*                                                                         *)
(* The postoffice inserts, and erases by key, between its passes only; the *)
(* container is modelled as it would bear it during a pass, too.           *)
(***************************************************************************)
EXTENDS Integers, FiniteSets, Sequences

CONSTANTS
    Keys,     \* keys of sessions
    Values,   \* the pointers that are registered
    Cells,    \* where the elements may lie
    NoKey,    \* no key
    NULL      \* the pointer that is no cell

ASSUME ListMapAssumption ==
    /\ IsFiniteSet(Keys) /\ IsFiniteSet(Cells)
    /\ Cardinality(Keys) <= Cardinality(Cells)
    /\ NULL \notin Cells
    /\ NoKey \notin Keys

VARIABLES
    head,      \* _head
    tail,      \* _tail
    quad,      \* the fields of each cell, those of free cells included
    map,       \* _map_elements: the cell of each key
    cursor     \* the iterator of the loop over the elements

vars == <<head, tail, quad, map, cursor>>

Live == {map[k] : k \in Keys} \ {NULL}
Size == Cardinality(Live)
KeyAt(c) == CHOOSE k \in Keys : map[k] = c
ValuesIn == {quad[c].data : c \in Live}

Init ==
    /\ head = NULL /\ tail = NULL /\ cursor = NULL
    /\ quad = [c \in Cells |-> [prev |-> NULL, next |-> NULL, data |-> NULL]]
    /\ map = [k \in Keys |-> NULL]

(***************************************************************************)
(* operator[] followed by the assignment to what it returns.  Only a new   *)
(* key is linked, behind the tail.                                         *)
(***************************************************************************)
\* a mutant: a new element is linked in front of the others
LinkBeforeHead(c, v) ==
    /\ quad' = [quad EXCEPT ![c] = [prev |-> NULL, next |-> head, data |-> v]]
    /\ head' = c

LinkBehindTail(c, v) ==
    IF Size = 0
    THEN /\ quad' = [quad EXCEPT ![c] = [prev |-> NULL, next |-> NULL, data |-> v]]
         /\ head' = c
    ELSE /\ quad' = [quad EXCEPT ![tail].next = c,
                                 ![c] = [prev |-> tail, next |-> NULL, data |-> v]]
         /\ UNCHANGED head

Put(k, v) ==
    /\ \/ /\ map[k] = NULL
          /\ v \notin ValuesIn
          /\ \E c \in Cells \ Live :
                /\ LinkBehindTail(c, v)
                /\ tail' = c
                /\ map' = [map EXCEPT ![k] = c]
       \/ /\ map[k] # NULL
          /\ v \notin ValuesIn \ {quad[map[k]].data}
          /\ quad' = [quad EXCEPT ![map[k]].data = v]
          /\ UNCHANGED <<head, tail, map>>
    /\ UNCHANGED cursor

(***************************************************************************)
(* erase(position).  The head goes by moving _head, and leaves the _prev   *)
(* of the new head pointing to the freed cell.                             *)
(***************************************************************************)
SamePosition(c, d) ==
    IF c = NULL \/ d = NULL THEN c = d ELSE quad[c].data = quad[d].data

EraseHead ==
    /\ head' = quad[head].next
    /\ tail' = IF quad[head].next = NULL THEN NULL ELSE tail
    /\ map' = [map EXCEPT ![KeyAt(head)] = NULL]
    /\ UNCHANGED quad

Relinked(c) ==
    LET before == [quad EXCEPT ![quad[c].prev].next = quad[c].next]
    IN IF quad[c].next = NULL THEN before
       ELSE [before EXCEPT ![quad[c].next].prev = quad[c].prev]

\* a mutant: the tail is not moved when the last element goes
UnlinkKeepsTail(c) ==
    /\ quad' = Relinked(c)
    /\ map' = [map EXCEPT ![KeyAt(c)] = NULL]
    /\ UNCHANGED <<head, tail>>

Unlink(c) ==
    /\ quad' = Relinked(c)
    /\ tail' = IF quad[c].next = NULL THEN quad[c].prev ELSE tail
    /\ map' = [map EXCEPT ![KeyAt(c)] = NULL]
    /\ UNCHANGED head

EraseAt(c) == IF SamePosition(c, head) THEN EraseHead ELSE Unlink(c)

\* deregister_callback: find and erase.  Nobody erases by key what the loop
\* stands on.
Erase(k) ==
    /\ map[k] # NULL
    /\ cursor # map[k]
    /\ EraseAt(map[k])
    /\ UNCHANGED cursor

Clear ==
    /\ cursor = NULL
    /\ map' = [k \in Keys |-> NULL]
    /\ head' = NULL /\ tail' = NULL
    /\ UNCHANGED <<quad, cursor>>

(***************************************************************************)
(* The loop of send_packets_to_wire.                                       *)
(***************************************************************************)
Begin ==
    /\ cursor = NULL /\ Size > 0
    /\ cursor' = head
    /\ UNCHANGED <<head, tail, quad, map>>

Advance ==
    /\ ~SamePosition(cursor, NULL)
    /\ cursor' = quad[cursor].next
    /\ UNCHANGED <<head, tail, quad, map>>

\* the pass ends early
Stop ==
    /\ ~SamePosition(cursor, NULL)
    /\ cursor' = NULL
    /\ UNCHANGED <<head, tail, quad, map>>

\* a mutant: erase(ite), and the increment afterwards
EraseThenAdvance ==
    /\ ~SamePosition(cursor, NULL)
    /\ EraseAt(cursor)
    /\ UNCHANGED cursor

\* erase(ite++)
EraseAndAdvance ==
    /\ ~SamePosition(cursor, NULL)
    /\ cursor' = quad[cursor].next
    /\ EraseAt(cursor)

Next ==
    \/ \E k \in Keys, v \in Values : Put(k, v)
    \/ \E k \in Keys : Erase(k)
    \/ Clear \/ Begin \/ Advance \/ Stop \/ EraseAndAdvance

Spec == Init /\ [][Next]_vars

(***************************************************************************)
(* The chain of cells from the head, as far as there are elements.         *)
(***************************************************************************)
Nth[i \in 1 .. Cardinality(Cells)] ==
    IF i = 1 THEN head
    ELSE IF Nth[i - 1] = NULL THEN NULL ELSE quad[Nth[i - 1]].next

Chain == [i \in 1 .. Size |-> Nth[i]]

TypeOK ==
    /\ {head, tail, cursor} \subseteq Cells \cup {NULL}
    /\ quad \in [Cells -> [prev : Cells \cup {NULL}, next : Cells \cup {NULL},
                           data : Values \cup {NULL}]]
    /\ map \in [Keys -> Cells \cup {NULL}]

\* The links of the list and the hash map agree: following _next from the
\* head visits each element of the map once and ends at the tail, and _prev
\* leads back from every element but the head, whose _prev may point to a
\* freed cell and is never followed (listmap.h, erase).
Linked ==
    /\ TypeOK
    /\ {Chain[i] : i \in 1 .. Size} = Live
    /\ Size = 0 => head = NULL /\ tail = NULL
    /\ Size > 0 => tail = Chain[Size] /\ quad[tail].next = NULL
    /\ \A i \in 2 .. Size : quad[Chain[i]].prev = Chain[i - 1]

\* The loop never stands on a freed element, whatever is registered and
\* erased between its steps (postoffice.cpp, send_packets_to_wire).
CursorLive == cursor \in Live \cup {NULL}

(***************************************************************************)
(* What makes these inductive: a sequence of cells that are linked as they *)
(* should be and are those of the map, each once; keys have cells of their *)
(* own, and so have values, or erase() would take another element for the  *)
(* head.                                                                   *)
(***************************************************************************)
LinkedAs(c) ==
    /\ {c[i] : i \in 1 .. Len(c)} = Live
    /\ \A i, j \in 1 .. Len(c) : c[i] = c[j] => i = j
    /\ head = IF c = <<>> THEN NULL ELSE c[1]
    /\ tail = IF c = <<>> THEN NULL ELSE c[Len(c)]
    /\ \A i \in 1 .. Len(c) :
          quad[c[i]].next = IF i = Len(c) THEN NULL ELSE c[i + 1]
    /\ \A i \in 2 .. Len(c) : quad[c[i]].prev = c[i - 1]

OneKeyEach == \A k, l \in Keys : map[k] = map[l] /\ map[k] # NULL => k = l

OneValueEach == \A c, d \in Live : quad[c].data = quad[d].data => c = d

ListMapInv == TypeOK /\ CursorLive /\ OneKeyEach /\ OneValueEach /\ LinkedAs(Chain)

\* listmap implements the map in order of insertion.
KeysInOrder == [i \in 1 .. Size |-> KeyAt(Chain[i])]
ValueOfKey == [k \in {key \in Keys : map[key] # NULL} |-> quad[map[k]].data]
KeyReached == IF cursor = NULL THEN NoKey ELSE KeyAt(cursor)

Abstract == INSTANCE OrderedMap WITH
    order <- KeysInOrder, value <- ValueOfKey, at <- KeyReached

ImplementsOrderedMap == Abstract!Spec
=============================================================================
