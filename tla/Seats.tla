--------------------------------- MODULE Seats ---------------------------------
(***************************************************************************)
(* What the enrollment services promise of the seats of a school: a seat   *)
(* is booked in one step, and only where one is free.                      *)
(***************************************************************************)
EXTENDS Integers, FiniteSets

CONSTANTS Rooms, Pupils, InitialCapacity, Capacities, Nobody

VARIABLES capacity,     \* seats of each room
          seat          \* the room where a pupil has a seat, or Nobody

Taken(c) == {p \in Pupils : seat[p] = c}

Init == /\ capacity = [c \in Rooms |-> InitialCapacity]
        /\ seat = [p \in Pupils |-> Nobody]

Book(p, c) ==
    /\ seat[p] = Nobody
    /\ Cardinality(Taken(c)) < capacity[c]
    /\ seat' = [seat EXCEPT ![p] = c]
    /\ UNCHANGED capacity

Leave(p) ==
    /\ seat[p] # Nobody
    /\ seat' = [seat EXCEPT ![p] = Nobody]
    /\ UNCHANGED capacity

Resize(c, n) ==
    /\ n >= Cardinality(Taken(c))
    /\ capacity' = [capacity EXCEPT ![c] = n]
    /\ UNCHANGED seat

Next == \/ \E p \in Pupils, c \in Rooms : Book(p, c)
        \/ \E p \in Pupils : Leave(p)
        \/ \E c \in Rooms, n \in Capacities : Resize(c, n)

vars == <<capacity, seat>>
Spec == Init /\ [][Next]_vars
=============================================================================
