-------------------------------- MODULE Escrow --------------------------------
(***************************************************************************)
(* What one distributor promises the owners of its tokens, whatever the    *)
(* claims look like: tokens leave the pot as counted payments under a cap  *)
(* fixed at the opening, or all at once when the escrow is swept or closed.*)
(* A swept escrow pays nothing more.                                       *)
(***************************************************************************)
EXTENDS Naturals

VARIABLES
    phase,   \* "absent", "open" or "swept"
    pot,     \* tokens held
    paid,    \* tokens paid since the opening
    cap      \* the most that can be paid

escrow == <<phase, pot, paid, cap>>

Init == phase = "absent" /\ pot = 0 /\ paid = 0 /\ cap = 0

Open ==
    /\ phase = "absent"
    /\ phase' = "open"
    /\ paid' = 0
    /\ cap' \in Nat
    /\ UNCHANGED pot

Receive ==
    /\ pot' > pot
    /\ UNCHANGED <<phase, paid, cap>>

\* The payment is taken from the pot and added to the count.
Pay ==
    /\ phase = "open"
    /\ pot' < pot
    /\ pot' + paid' = pot + paid
    /\ paid' <= cap
    /\ UNCHANGED <<phase, cap>>

\* A sweep whose receiver is the pot itself leaves the tokens where they are.
Sweep ==
    /\ phase = "open"
    /\ phase' = "swept"
    /\ pot' \in {0, pot}
    /\ UNCHANGED <<paid, cap>>

Close ==
    /\ phase # "absent"
    /\ phase' = "absent"
    /\ pot' \in {0, pot}
    /\ paid' = 0
    /\ cap' = 0

Next == Open \/ Receive \/ Pay \/ Sweep \/ Close

Spec == Init /\ [][Next]_escrow
================================================================================
