---------------------------- MODULE CoreThrottle ----------------------------
(***************************************************************************)
(* What bandwidth policing promises about each application core, without   *)
(* counters, interrupts or handlers: a core is either running or paused;   *)
(* the policing unit gives it one order at a time, alternately "pause" and *)
(* "resume"; the core obeys every order exactly once, and while it is      *)
(* paused its program does not move, so it continues where it stopped.     *)
(***************************************************************************)
CONSTANTS
    Cores,      \* the policed cores
    Positions   \* the points of a core's own program

VARIABLES
    mode,    \* mode[c]: is core c running or paused
    order,   \* order[c]: the order core c has not obeyed yet
    pos      \* pos[c]: where core c's own program is

vars == <<mode, order, pos>>

TypeOK ==
    /\ mode \in [Cores -> {"running", "paused"}]
    /\ order \in [Cores -> {"none", "pause", "resume"}]
    /\ pos \in [Cores -> Positions]

Init ==
    /\ mode = [c \in Cores |-> "running"]
    /\ order = [c \in Cores |-> "none"]
    /\ pos \in [Cores -> Positions]

\* A running core executes its own program, also while an order is on its way.
Work(c) ==
    /\ mode[c] = "running"
    /\ \E p \in Positions : pos' = [pos EXCEPT ![c] = p]
    /\ UNCHANGED <<mode, order>>

\* A running core that overdraws its budget is told to pause.
OrderPause(c) ==
    /\ mode[c] = "running"
    /\ order[c] = "none"
    /\ order' = [order EXCEPT ![c] = "pause"]
    /\ UNCHANGED <<mode, pos>>

\* A paused core whose budget has been refilled is told to resume.
OrderResume(c) ==
    /\ mode[c] = "paused"
    /\ order[c] = "none"
    /\ order' = [order EXCEPT ![c] = "resume"]
    /\ UNCHANGED <<mode, pos>>

\* The core obeys, and its program stays where it is.
Obey(c) ==
    /\ order[c] # "none"
    /\ mode' = [mode EXCEPT ![c] = IF order[c] = "pause" THEN "paused" ELSE "running"]
    /\ order' = [order EXCEPT ![c] = "none"]
    /\ UNCHANGED pos

Next == \E c \in Cores : Work(c) \/ OrderPause(c) \/ OrderResume(c) \/ Obey(c)

Spec == Init /\ [][Next]_vars

\* Every order is obeyed, and no core stays paused for ever.
FairSpec ==
    /\ Spec
    /\ \A c \in Cores : WF_vars(Obey(c)) /\ WF_vars(OrderResume(c))
=============================================================================
