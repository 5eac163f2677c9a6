----------------------------- MODULE TableStore -----------------------------
(***************************************************************************)
(* What a disk promises to whoever reads its partition table after a power *)
(* loss: the table that was there, or one that some command set out to     *)
(* write, or damage - and never again a disk that looks blank or foreign.  *)
(***************************************************************************)
CONSTANTS Table, Damaged, Blank, Foreign

VARIABLES
    stored,   \* what a probe of the durable contents reports
    intents   \* the tables there may be: the first one, and each one planned

Init ==
    /\ stored \in Table \cup {Blank, Foreign}
    /\ intents = {stored} \cap Table

Intend(t) ==
    /\ intents' = intents \cup {t}
    /\ UNCHANGED stored

Settle(s) ==
    /\ stored' = s
    /\ UNCHANGED intents

Next ==
    \/ \E t \in Table : Intend(t)
    \/ \E s \in intents \cup {Damaged} : Settle(s)

Spec == Init /\ [][Next]_<<stored, intents>>
=============================================================================
