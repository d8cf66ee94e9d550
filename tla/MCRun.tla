------------------------------- MODULE MCRun -------------------------------
(***************************************************************************)
(* TLC instance of MempolRun for runs after an earlier one.                *)
(***************************************************************************)
EXTENDS MempolRun

\* One core at a time has a command, an interrupt and an overflow left over; the
\* ready signal and the go flag are left over together.
OneLeftoverInit ==
    \E c \in Cores, w \in H!Words, p \in BOOLEAN, l \in BOOLEAN, r \in BOOLEAN :
        InitWith([d \in Cores |-> IF d = c THEN w ELSE "zero"], AllFalse,
                 [AllFalse EXCEPT ![c] = p], [AllFalse EXCEPT ![c] = l], r, r)

FairOneLeftoverSpec == OneLeftoverInit /\ [][Next]_allVars /\ Fairness
=============================================================================
