---------------------------- MODULE MC_WlanSession --------------------------
(***************************************************************************)
(* WlanSession for TLC.                                                    *)
(***************************************************************************)
EXTENDS WlanSession, TLC

CONSTANTS t1, t2

MCTwo == {t1, t2}

\* The sessions in which the counter comes around within the calls of the
\* run; the others are those of a handle opened anew.
MCInit == Init /\ nextId >= Modulus - 2

MCFairSpec == MCInit /\ [][Next]_vars /\ \A t \in Threads : WF_vars(Step(t))
=============================================================================
