----------------------------- MODULE MCMetering -----------------------------
(***************************************************************************)
(* TLC instances of TrafficMeter: constants that a .cfg cannot write.      *)
(***************************************************************************)
EXTENDS TrafficMeter

\* weights of different sizes, one of them 0 as in the code
MCWeight == <<3, 0, 2, 4>>
MCCountMax == <<1, 1, 1, 1>>

\* memory writes of core 0, LLC reads of core 1: the last and the first group
MCKinds == {<<4, 0>>, <<1, 1>>}

\* the memory writes of core 2
MCWritesOfTwo == {<<4, 2>>}
=============================================================================
