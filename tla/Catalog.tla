------------------------------ MODULE Catalog ------------------------------
(***************************************************************************)
(* What the home page promises: rows are appended, never moved or removed; *)
(* they follow the order of the listing; and an application is left out    *)
(* only if the service refused it.                                         *)
(***************************************************************************)
EXTENDS Integers, FiniteSets

CONSTANT Apps      \* positions in the listing, numbers

VARIABLES
    rows,      \* the rows on the page: records of a row and a position
    refused    \* positions the service refused

vars == <<rows, refused>>

Listed == {r.index : r \in rows}

Init == rows = {} /\ refused = {}

\* The service refuses an application that is not shown.
Refuse ==
    \E i \in Apps \ (Listed \cup refused) :
        /\ refused' = refused \cup {i}
        /\ UNCHANGED rows

\* The next part of the listing is appended, all but what was refused.
Extend ==
    \E new \in SUBSET (Apps \ (Listed \cup refused)) :
      /\ new # {}
      /\ \A i \in new, j \in Apps : j < i => j \in Listed \cup new \cup refused
      /\ \A i \in new, j \in Listed : j < i
      /\ rows' = rows \cup
           {[row |-> Cardinality(rows) + Cardinality({j \in new : j < i}), index |-> i] :
               i \in new}
      /\ UNCHANGED refused

Next == Refuse \/ Extend

Spec == Init /\ [][Next]_vars
=============================================================================
