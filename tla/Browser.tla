------------------------------ MODULE Browser ------------------------------
(***************************************************************************)
(* What the pages of the store promise a user: opening one goes to it, and *)
(* Back returns to exactly what was shown before, down to the home page.   *)
(***************************************************************************)
EXTENDS Naturals, Sequences, SequencesExt

CONSTANTS
    Views,   \* what can be shown
    Home     \* the one of them shown first

VARIABLE trail   \* the views gone through, the last one is shown

Init == trail = <<Home>>

Open == /\ Last(trail') \in Views \ {Last(trail)}
        /\ trail' = Append(trail, Last(trail'))

Back == Len(trail) > 1 /\ trail' = Front(trail)

Next == Open \/ Back

Spec == Init /\ [][Next]_trail
=============================================================================
