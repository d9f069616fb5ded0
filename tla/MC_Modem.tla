------------------------------ MODULE MC_Modem ------------------------------
(***************************************************************************)
(* The 4G modem component for TLC: ModemAt, the AT channel, and ModemWake, *)
(* which sees a command of it by its length and its result.  A behaviour   *)
(* explores one of them while the other rests.                             *)
(***************************************************************************)
EXTENDS ModemAt, ModemWake

WakeRests == WakeInit /\ ~hasPmu /\ ~net /\ ~refused

ModemStart == AtInit /\ WakeInit /\ (WakeRests \/ ~port)

ModemNext ==
    \/ WakeRests /\ AtNext /\ UNCHANGED wakeVars
    \/ AtInit /\ ~port /\ WakeNext /\ UNCHANGED atVars

\* The threads of the AT channel are scheduled; ModemWake owes nothing.
ModemSpec ==
    /\ ModemStart
    /\ [][ModemNext]_<<atVars, wakeVars>>
    /\ AtFairness
=============================================================================
