----------------------------- MODULE OrderedMap -----------------------------
(***************************************************************************)
(* What listmap promises its user, the postoffice: a map whose elements    *)
(* are visited in the order in which their keys were first inserted, and   *)
(* a visit that goes on while elements come and go.                        *)
(***************************************************************************)
EXTENDS Integers, Sequences, SequencesExt

CONSTANTS Keys, Values, NoKey

VARIABLES
    order,    \* the keys in the map, first inserted first
    value,    \* the value of each of them
    at        \* the key the visit has reached, NoKey when there is no visit

ovars == <<order, value, at>>

Present == Range(order)

PlaceOf(k) == CHOOSE i \in DOMAIN order : order[i] = k
Without(k) == RemoveAt(order, PlaceOf(k))
ValuesWithout(k) == [other \in Present \ {k} |-> value[other]]

\* the key after k, or NoKey
After(k) == IF PlaceOf(k) = Len(order) THEN NoKey ELSE order[PlaceOf(k) + 1]

Init == order = <<>> /\ value = <<>> /\ at = NoKey

Put(k, v) ==
    /\ order' = IF k \in Present THEN order ELSE Append(order, k)
    /\ value' = [other \in Present \cup {k} |-> IF other = k THEN v ELSE value[other]]
    /\ UNCHANGED at

Erase(k) ==
    /\ k \in Present /\ k # at
    /\ order' = Without(k)
    /\ value' = ValuesWithout(k)
    /\ UNCHANGED at

Clear == order' = <<>> /\ value' = <<>> /\ at = NoKey /\ UNCHANGED at

Begin == at = NoKey /\ order # <<>> /\ at' = Head(order) /\ UNCHANGED <<order, value>>

Advance == at # NoKey /\ at' = After(at) /\ UNCHANGED <<order, value>>

Stop == at # NoKey /\ at' = NoKey /\ UNCHANGED <<order, value>>

EraseAndAdvance ==
    /\ at # NoKey
    /\ at' = After(at)
    /\ order' = Without(at)
    /\ value' = ValuesWithout(at)

Next ==
    \/ \E k \in Keys, v \in Values : Put(k, v)
    \/ \E k \in Keys : Erase(k)
    \/ Clear \/ Begin \/ Advance \/ Stop \/ EraseAndAdvance

Spec == Init /\ [][Next]_ovars
=============================================================================
