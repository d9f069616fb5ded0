----------------------------- MODULE HalTimers ------------------------------
(***************************************************************************)
(* The timer drivers (rtsmart_hal/drivers/timer): drv_hardtimer.c, whose   *)
(* timers signal the process with a signal of their own each, and          *)
(* drv_soft_timer.c, of which one may exist and which uses SIGALRM.  The   *)
(* value of a signal is the address of the instance.  Each pointer is used *)
(* by one thread; nothing is locked.                                       *)
(*                                                                         *)
(* A create over an old instance is its destruction and a create.  Calls   *)
(* that a check or the kernel refuses change nothing and are left out, as  *)
(* are the callbacks and the settings: a timer that fires goes on or stops.*)
(* The kernel is external: the last close of a device stops the timer.     *)
(***************************************************************************)
EXTENDS Integers, FiniteSets

CONSTANTS
    Owners,     \* the timer pointers of the application
    TimerIds,   \* the hardware timers
    NoTimer,
    MaxSignals  \* bound: the timer signals on their way

HardInstance == [id : TimerIds, started : BOOLEAN]
SoftInstance == [made : BOOLEAN, started : BOOLEAN]

ASSUME TimersAssumption ==
    /\ NoTimer \notin Owners \cup HardInstance \cup SoftInstance
    /\ MaxSignals \in Nat

VARIABLES
    hard,       \* owner -> its hard timer instance, or NoTimer
    inUse,      \* id -> timer_in_use
    running,    \* id -> the timer counts
    irqOf,      \* id -> the owner whose instance the kernel signals, or NoTimer
    hardHandler,\* id -> drv_timer_sig_handler is installed for its signal
    hardSignals,\* the signals <<id, owner>> on their way
    soft,       \* owner -> its soft timer instance, or NoTimer
    checked,    \* the owners whose create has seen soft_timer_in_used = 0
    softInUse,  \* soft_timer_in_used
    alrmHandler,\* soft_timer_sig_handler is installed
    ticking,    \* the owners whose POSIX timer counts
    alarms,     \* the owners with a SIGALRM on its way
    slips       \* history: "shared" id, "kept" interrupt, "late" signal,
                \*   "leftover" of a failed create, "two" creates at once

hardVars == <<hard, inUse, running, irqOf, hardHandler, hardSignals>>
softVars == <<soft, checked, softInUse, alrmHandler, ticking, alarms>>
timerVars == <<hard, inUse, running, irqOf, hardHandler, hardSignals, soft,
               checked, softInUse, alrmHandler, ticking, alarms, slips>>

TimerInit ==
    /\ hard = [o \in Owners |-> NoTimer]
    /\ inUse = [i \in TimerIds |-> FALSE]
    /\ running = [i \in TimerIds |-> FALSE]
    /\ irqOf = [i \in TimerIds |-> NoTimer]
    /\ hardHandler = [i \in TimerIds |-> FALSE]
    /\ hardSignals = {}
    /\ soft = [o \in Owners |-> NoTimer]
    /\ checked = {}
    /\ softInUse = FALSE
    /\ alrmHandler = FALSE
    /\ ticking = {}
    /\ alarms = {}
    /\ slips = {}

Note(cond, what) == slips' = IF cond THEN slips \cup {what} ELSE slips

-----------------------------------------------------------------------------
(* Hard timers.                                                            *)

OfId(i) == {o \in Owners : hard[o] # NoTimer /\ hard[o].id = i}
SignalsOf(i) == {m \in hardSignals : m[1] = i}

\* drv_hard_timer_inst_create; a timer in use is only warned about.
HardCreate(o, i) ==
    /\ hard[o] = NoTimer
    /\ hard' = [hard EXCEPT ![o] = [id |-> i, started |-> FALSE]]
    /\ inUse' = [inUse EXCEPT ![i] = TRUE]
    /\ Note(OfId(i) # {}, "shared")
    /\ UNCHANGED <<running, irqOf, hardHandler, hardSignals, softVars>>

\* drv_hard_timer_start, of a started timer too.
HardStart(o) ==
    /\ hard[o] # NoTimer
    /\ hard' = [hard EXCEPT ![o].started = TRUE]
    /\ running' = [running EXCEPT ![hard[o].id] = TRUE]
    /\ UNCHANGED <<inUse, irqOf, hardHandler, hardSignals, softVars, slips>>

\* drv_hard_timer_stop
HardStop(o) ==
    /\ hard[o] # NoTimer
    /\ hard' = [hard EXCEPT ![o].started = FALSE]
    /\ running' = [running EXCEPT ![hard[o].id] = FALSE]
    /\ UNCHANGED <<inUse, irqOf, hardHandler, hardSignals, softVars, slips>>

\* drv_hard_timer_register_irq; when IRQ_SET fails the handler is dropped.
HardRegister(o, done) ==
    /\ hard[o] # NoTimer /\ ~hard[o].started
    /\ hardHandler' = [hardHandler EXCEPT ![hard[o].id] = done]
    /\ irqOf' = IF done THEN [irqOf EXCEPT ![hard[o].id] = o] ELSE irqOf
    /\ Note(~done /\ irqOf[hard[o].id] # NoTimer, "kept")
    /\ UNCHANGED <<hard, inUse, running, hardSignals, softVars>>

\* IRQ_SET with enable 0 and the default action for the signal, as at the end of
\* drv_hard_timer_unregister_irq.
Detach(i) ==
    /\ irqOf' = [irqOf EXCEPT ![i] = NoTimer]
    /\ hardHandler' = [hardHandler EXCEPT ![i] = FALSE]
    /\ Note(SignalsOf(i) # {}, "late")

HardUnregister(o) ==
    /\ hard[o] # NoTimer /\ ~hard[o].started
    /\ Detach(hard[o].id)
    /\ UNCHANGED <<hard, inUse, running, hardSignals, softVars>>

\* The device is closed and the instance freed.
HardRelease(o, stopped) ==
    LET i == hard[o].id
    IN  /\ hard' = [hard EXCEPT ![o] = NoTimer]
        /\ inUse' = [inUse EXCEPT ![i] = FALSE]
        /\ running' = [running EXCEPT ![i] = @ /\ ~stopped /\ OfId(i) # {o}]

\* Fault: unregister comes before stop, and is refused.
HardDestroyUnstopped(o) ==
    /\ hard[o] # NoTimer
    /\ IF hard[o].started THEN UNCHANGED <<irqOf, hardHandler, slips>>
       ELSE Detach(hard[o].id)
    /\ HardRelease(o, TRUE)
    /\ UNCHANGED <<hardSignals, softVars>>

\* drv_hard_timer_inst_destroy: stop, unregister, close.
HardDestroy(o) ==
    /\ hard[o] # NoTimer
    /\ Detach(hard[o].id)
    /\ HardRelease(o, TRUE)
    /\ UNCHANGED <<hardSignals, softVars>>

\* The same when stop or unregister fails: the interrupt stays set.
HardDestroyFails(o, stopped) ==
    /\ hard[o] # NoTimer
    /\ HardRelease(o, stopped)
    /\ Note(irqOf[hard[o].id] # NoTimer \/ SignalsOf(hard[o].id) # {}, "kept")
    /\ UNCHANGED <<irqOf, hardHandler, hardSignals, softVars>>

HardFire(i, goesOn) ==
    /\ running[i] /\ irqOf[i] # NoTimer
    /\ Cardinality(hardSignals) < MaxSignals
    /\ hardSignals' = hardSignals \cup {<<i, irqOf[i]>>}
    /\ running' = [running EXCEPT ![i] = goesOn]
    /\ UNCHANGED <<hard, inUse, irqOf, hardHandler, softVars, slips>>

\* drv_timer_sig_handler
HardDeliver(m) ==
    /\ m \in hardSignals
    /\ hardSignals' = hardSignals \ {m}
    /\ UNCHANGED <<hard, inUse, running, irqOf, hardHandler, softVars, slips>>

-----------------------------------------------------------------------------
(* The soft timer.                                                         *)

\* drv_soft_timer_create sees that there is none ...
SoftCheck(o) ==
    /\ soft[o] = NoTimer /\ o \notin checked
    /\ ~softInUse
    /\ checked' = checked \cup {o}
    /\ UNCHANGED <<hardVars, soft, softInUse, alrmHandler, ticking, alarms, slips>>

\* ... and makes one.  If timer_create fails the instance stays, and is not in
\* use.
SoftCreate(o, done) ==
    /\ o \in checked
    /\ checked' = checked \ {o}
    /\ soft' = [soft EXCEPT ![o] = [made |-> done, started |-> FALSE]]
    /\ alrmHandler' = TRUE
    /\ softInUse' = (softInUse \/ done)
    /\ slips' = slips \cup (IF done THEN {} ELSE {"leftover"})
                      \cup (IF softInUse THEN {"two"} ELSE {})
    /\ UNCHANGED <<hardVars, ticking, alarms>>

\* drv_soft_timer_start
SoftStart(o) ==
    /\ soft[o] # NoTimer /\ soft[o].made /\ ~soft[o].started
    /\ soft' = [soft EXCEPT ![o].started = TRUE]
    /\ ticking' = ticking \cup {o}
    /\ UNCHANGED <<hardVars, checked, softInUse, alrmHandler, alarms, slips>>

\* drv_soft_timer_stop
SoftStop(o) ==
    /\ soft[o] # NoTimer /\ soft[o].started
    /\ soft' = [soft EXCEPT ![o].started = FALSE]
    /\ ticking' = ticking \ {o}
    /\ UNCHANGED <<hardVars, checked, softInUse, alrmHandler, alarms, slips>>

\* Fault: the timer is not deleted.
SoftDestroyUndeleted(o) ==
    /\ soft[o] # NoTimer
    /\ soft' = [soft EXCEPT ![o] = NoTimer]
    /\ UNCHANGED ticking
    /\ alrmHandler' = FALSE
    /\ softInUse' = FALSE
    /\ Note(alarms # {}, "late")
    /\ UNCHANGED <<hardVars, checked, alarms>>

\* drv_soft_timer_destroy: timer_delete stops it, whether or not stop did, and
\* SIGALRM gets its default action back.
SoftDestroy(o) ==
    /\ soft[o] # NoTimer
    /\ soft' = [soft EXCEPT ![o] = NoTimer]
    /\ ticking' = ticking \ {o}
    /\ alrmHandler' = FALSE
    /\ softInUse' = FALSE
    /\ Note(alarms # {}, "late")
    /\ UNCHANGED <<hardVars, checked, alarms>>

SoftFire(o, goesOn) ==
    /\ o \in ticking
    /\ Cardinality(alarms) < MaxSignals
    /\ alarms' = alarms \cup {o}
    /\ ticking' = IF goesOn THEN ticking ELSE ticking \ {o}
    /\ UNCHANGED <<hardVars, soft, checked, softInUse, alrmHandler, slips>>

\* soft_timer_sig_handler
SoftDeliver(o) ==
    /\ o \in alarms
    /\ alarms' = alarms \ {o}
    /\ UNCHANGED <<hardVars, soft, checked, softInUse, alrmHandler, ticking, slips>>

-----------------------------------------------------------------------------
HardStep ==
    \/ \E o \in Owners :
        \/ HardStart(o) \/ HardStop(o) \/ HardUnregister(o)
        \/ HardDestroy(o)
        \/ \E i \in TimerIds : HardCreate(o, i)
        \/ \E b \in BOOLEAN : HardDestroyFails(o, b) \/ HardRegister(o, b)
    \/ \E i \in TimerIds, b \in BOOLEAN : HardFire(i, b)
    \/ \E m \in hardSignals : HardDeliver(m)

SoftStep ==
    \E o \in Owners :
        \/ SoftCheck(o) \/ SoftStart(o) \/ SoftStop(o) \/ SoftDestroy(o)
        \/ SoftDeliver(o)
        \/ \E b \in BOOLEAN : SoftCreate(o, b) \/ SoftFire(o, b)

TimerNext == HardStep \/ SoftStep

TimerSpec == TimerInit /\ [][TimerNext]_timerVars

-----------------------------------------------------------------------------
(* Properties.                                                             *)

\* A signal of a hard timer finds drv_timer_sig_handler installed and the
\* instance it names alive, whatever the order of start, stop, register and
\* destroy, unless two instances share the timer, a call of a destruction or a
\* registration failed, or the signal was on its way when its handler went.
TimerSignalsFindInstance ==
    \A m \in hardSignals :
        \/ hardHandler[m[1]] /\ hard[m[2]] # NoTimer
        \/ slips \cap {"shared", "kept", "late"} # {}

\* The soft timer is one: while it exists soft_timer_in_used keeps others out,
\* and its SIGALRM finds the handler installed and the instance alive, unless
\* a create failed half-way or two overlapped, or the signal was late.
SoftTimerIsOne ==
    \/ slips \cap {"leftover", "two"} # {}
    \/ /\ \A o, p \in Owners : soft[o] # NoTimer /\ soft[p] # NoTimer => o = p
       /\ \A o \in Owners : soft[o] # NoTimer => softInUse /\ alrmHandler
       /\ \A o \in alarms \cup ticking : soft[o] # NoTimer \/ "late" \in slips
=============================================================================
