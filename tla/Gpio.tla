-------------------------------- MODULE Gpio --------------------------------
(***************************************************************************)
(* The GPIO driver (rtsmart_hal/drivers/gpio/drv_gpio.c).  All instances   *)
(* share one descriptor with a count; an instance remembers the level and  *)
(* the drive mode of its pin and skips calls that would not change them;   *)
(* interrupts come as signals whose numbers are dealt out in turn and whose*)
(* value is the address of the instance.                                   *)
(*                                                                         *)
(* Each application pointer (handle) is used by one thread, any number of  *)
(* them for one pin.  A step is one critical section of gpio_lock with the *)
(* assignments that follow it.  The pins, their interrupts and the signals *)
(* belong to the kernel: a write sets the output latch in any mode, a read *)
(* returns the latch of an output and anything for an input, SET_IRQ       *)
(* replaces what was set for the pin.                                      *)
(***************************************************************************)
EXTENDS Integers, FiniteSets

CONSTANTS
    Handles,    \* the drv_gpio_inst_t pointers of the application
    Pins,
    NULL,
    NSignals,   \* 8, the signals the driver deals out
    MaxRegs,    \* bound: the registrations of the process
    MaxPending  \* bound: the signals on their way

Unset == -1                 \* curr_val before the first call
DmMax == "max"              \* curr_mode before the first call: GPIO_DM_MAX
Modes == {"in", "out"}
Signos == 0..NSignals-1

Instance == [pin : Pins, val : {Unset, 0, 1}, mode : {DmMax} \cup Modes,
             irq : BOOLEAN, signo : Signos]
Interrupt == [of : Handles, sig : Signos, on : BOOLEAN]

ASSUME HandlesAssumption ==
    IsFiniteSet(Handles) /\ NULL \notin Pins \cup Instance \cup Interrupt
ASSUME SignalsAssumption == NSignals \in Nat \ {0} /\ MaxRegs \in Nat

VARIABLES
    fd,         \* gpio_fd is open
    refCnt,     \* gpio_ref_cnt
    inst,       \* handle -> the instance it points to, or NULL
    goal,       \* handle -> the pin a create that has opened is for, or NULL
    pc,         \* handle -> "idle", "opened" and "closing" in create and destroy,
                \*   "unregistered", "counting" and "signal" in register
    registerCnt,\* register_cnt
    seenCnt,    \* handle -> the register_cnt its register has read, else 0
    handler,    \* signal -> drv_gpio_sig_handler is installed (else SIG_DFL:
                \*   sa_handler and sa_sigaction share their storage)
    latch, kmode, kirq,     \* pin -> its output level, its mode, and the
                            \*   signal and the instance of its interrupt
    pending,    \* the signals sent and not delivered
    doubt,      \* history: handle -> what it remembers and may be wrong about
    lapses      \* history: "destroyed" an instance with its interrupt set,
                \*   "late" signal on its way at unregister, "raced" register_cnt

descriptor == <<fd, refCnt>>
signals == <<registerCnt, seenCnt, handler, kirq, pending, lapses>>
levels == <<latch, kmode, doubt>>
vars == <<fd, refCnt, inst, goal, pc, registerCnt, seenCnt, handler, latch,
          kmode, kirq, pending, doubt, lapses>>

Init ==
    /\ fd = FALSE
    /\ refCnt = 0
    /\ inst = [h \in Handles |-> NULL]
    /\ goal = [h \in Handles |-> NULL]
    /\ pc = [h \in Handles |-> "idle"]
    /\ registerCnt = 0
    /\ seenCnt = [h \in Handles |-> 0]
    /\ handler = [s \in Signos |-> FALSE]
    /\ latch \in [Pins -> {0, 1}]
    /\ kmode = [p \in Pins |-> "in"]
    /\ kirq = [p \in Pins |-> NULL]
    /\ pending = {}
    /\ doubt = [h \in Handles |-> {}]
    /\ lapses = {}

Live == {h \in Handles : inst[h] # NULL}
Creating == {h \in Handles : goal[h] # NULL}
Others(h) == {g \in Live : g # h /\ inst[g].pin = inst[h].pin}

\* The history after h made sure of what, and the other instances of the pin
\* were not told.
Doubts(h, what) ==
    [g \in Handles |-> CASE g = h -> doubt[g] \ {what}
                         [] g \in Others(h) -> doubt[g] \cup {what}
                         [] OTHER -> doubt[g]]

-----------------------------------------------------------------------------
(* Creation and destruction.                                               *)

\* drv_gpio_inst_create up to drv_gpio_open, which opens the device for the
\* first instance.  A pin that is invalid or not a GPIO, and a device that
\* cannot be opened, change nothing.
CreateOpens(h, p) ==
    /\ pc[h] = "idle"
    /\ fd' = TRUE
    /\ refCnt' = refCnt + 1
    /\ goal' = [goal EXCEPT ![h] = p]
    /\ pc' = [pc EXCEPT ![h] = "opened"]
    /\ UNCHANGED <<inst, signals, levels>>

\* The part of drv_gpio_mode_set after the comparison, if the kernel agrees.
KernelSetsMode(h, m) ==
    /\ fd
    /\ inst' = [inst EXCEPT ![h].mode = m]
    /\ kmode' = [kmode EXCEPT ![inst[h].pin] = m]
    /\ doubt' = Doubts(h, "mode")

\* drv_gpio_inst_destroy, on its own or for the instance a create replaces:
\* the pin becomes an input, if the kernel agrees.  The interrupt stays.
DestroyBegins(h) ==
    /\ pc[h] \in {"idle", "opened"}
    /\ inst[h] # NULL
    /\ \/ inst[h].mode # "in" /\ KernelSetsMode(h, "in")
       \/ UNCHANGED <<inst, kmode, doubt>>
    /\ lapses' = IF inst[h].irq THEN lapses \cup {"destroyed"} ELSE lapses
    /\ pc' = [pc EXCEPT ![h] = "closing"]
    /\ UNCHANGED <<descriptor, goal, latch, registerCnt, seenCnt, handler, kirq,
                   pending>>

\* drv_gpio_close
Release ==
    IF fd /\ refCnt > 0
    THEN refCnt' = refCnt - 1 /\ fd' = (refCnt' > 0)
    ELSE UNCHANGED descriptor

\* The rest of the destruction; a create goes on.
DestroyCloses(h) ==
    /\ pc[h] = "closing"
    /\ Release
    /\ inst' = [inst EXCEPT ![h] = NULL]
    /\ pc' = [pc EXCEPT ![h] = IF goal[h] = NULL THEN "idle" ELSE "opened"]
    /\ UNCHANGED <<goal, signals, levels>>

Fresh(p) == [pin |-> p, val |-> Unset, mode |-> DmMax, irq |-> FALSE, signo |-> 0]

\* The rest of drv_gpio_inst_create: there is memory ...
CreateDone(h) ==
    /\ pc[h] = "opened" /\ inst[h] = NULL
    /\ inst' = [inst EXCEPT ![h] = Fresh(goal[h])]
    /\ goal' = [goal EXCEPT ![h] = NULL]
    /\ pc' = [pc EXCEPT ![h] = "idle"]
    /\ doubt' = [doubt EXCEPT ![h] = {}]
    /\ UNCHANGED <<descriptor, signals, latch, kmode>>

\* Fault: the descriptor is not given back.
CreateFailsHolding(h) ==
    /\ pc[h] = "opened" /\ inst[h] = NULL
    /\ goal' = [goal EXCEPT ![h] = NULL]
    /\ pc' = [pc EXCEPT ![h] = "idle"]
    /\ UNCHANGED <<descriptor, inst, signals, levels>>

\* ... or there is none.
CreateFails(h) ==
    /\ pc[h] = "opened" /\ inst[h] = NULL
    /\ Release
    /\ goal' = [goal EXCEPT ![h] = NULL]
    /\ pc' = [pc EXCEPT ![h] = "idle"]
    /\ UNCHANGED <<inst, signals, levels>>

-----------------------------------------------------------------------------
(* Levels and modes.                                                       *)

Ready(h) == pc[h] = "idle" /\ inst[h] # NULL

\* Fault: the level is remembered although the write failed.
RememberAnyway(h, v) ==
    /\ \/ latch' = [latch EXCEPT ![inst[h].pin] = v]
       \/ UNCHANGED latch
    /\ inst' = [inst EXCEPT ![h].val = v]
    /\ doubt' = Doubts(h, "level")

\* lseek and write succeed, and the level is remembered.
KernelWrites(h, v) ==
    /\ latch' = [latch EXCEPT ![inst[h].pin] = v]
    /\ inst' = [inst EXCEPT ![h].val = v]
    /\ doubt' = Doubts(h, "level")

\* drv_gpio_value_set: the remembered level is not written again; a write
\* that fails changes nothing.
ValueSet(h, v) ==
    /\ Ready(h)
    /\ fd
    /\ inst[h].val # v
    /\ KernelWrites(h, v)
    /\ UNCHANGED <<descriptor, goal, pc, signals, kmode>>

\* drv_gpio_toggle of an instance that remembers no level takes it for 0; if
\* the write fails, that stays.
ToggleFails(h) ==
    /\ Ready(h)
    /\ inst[h].val = Unset
    /\ inst' = [inst EXCEPT ![h].val = 0]
    /\ doubt' = [doubt EXCEPT ![h] = @ \cup {"level"}]
    /\ UNCHANGED <<descriptor, goal, pc, signals, latch, kmode>>

Toggle(h) == ValueSet(h, IF inst[h].val = Unset THEN 1 ELSE 1 - inst[h].val)

\* drv_gpio_value_get remembers what it reads, also from an input.
ValueGet(h, v) ==
    /\ Ready(h)
    /\ fd
    /\ kmode[inst[h].pin] = "out" => v = latch[inst[h].pin]
    /\ inst' = [inst EXCEPT ![h].val = v]
    /\ doubt' = [doubt EXCEPT ![h] = IF kmode[inst[h].pin] = "out"
                                     THEN @ \ {"level"} ELSE @ \cup {"level"}]
    /\ UNCHANGED <<descriptor, goal, pc, signals, latch, kmode>>

\* drv_gpio_mode_set: the remembered mode is not set again.
ModeSet(h, m) ==
    /\ Ready(h)
    /\ inst[h].mode # m
    /\ KernelSetsMode(h, m)
    /\ UNCHANGED <<descriptor, goal, pc, signals, latch>>

ModeGet(h) ==
    /\ Ready(h)
    /\ fd
    /\ inst' = [inst EXCEPT ![h].mode = kmode[inst[h].pin]]
    /\ doubt' = [doubt EXCEPT ![h] = @ \ {"mode"}]
    /\ UNCHANGED <<descriptor, goal, pc, signals, latch, kmode>>

-----------------------------------------------------------------------------
(* Interrupts.                                                             *)

\* drv_gpio_set_irq: CTRL_IRQ switches the interrupt of the pin, whoever set it.
SetIrq(h, on) ==
    /\ Ready(h)
    /\ fd /\ kirq[inst[h].pin] # NULL
    /\ kirq' = [kirq EXCEPT ![inst[h].pin].on = on]
    /\ UNCHANGED <<descriptor, inst, goal, pc, levels, registerCnt, seenCnt,
                   handler, pending, lapses>>

\* sigaction with sa_handler = SIG_IGN and then sa_sigaction = NULL, which is
\* the same word: the default action.
DropHandler(s) == handler' = [handler EXCEPT ![s] = FALSE]

\* Fault: CTRL_IRQ without bit 7.
OnlyDisable(p) == kirq' = [kirq EXCEPT ![p].on = FALSE]

\* CTRL_IRQ with bit 7 set.
DetachIrq(p) == kirq' = [kirq EXCEPT ![p] = NULL]

\* drv_gpio_unregister_irq, on its own or for the registration a register
\* replaces: whatever interrupt the pin has is detached.  If the kernel
\* refuses, nothing changes.
Unregister(h, next) ==
    /\ Ready(h)
    /\ fd /\ inst[h].irq
    /\ next = "idle" \/ registerCnt < MaxRegs
    /\ DetachIrq(inst[h].pin)
    /\ inst' = [inst EXCEPT ![h].irq = FALSE]
    /\ DropHandler(inst[h].signo)
    /\ lapses' = IF \E m \in pending : m.sig = inst[h].signo
                 THEN lapses \cup {"late"} ELSE lapses
    /\ doubt' = Doubts(h, "irq")
    /\ pc' = [pc EXCEPT ![h] = next]
    /\ UNCHANGED <<descriptor, goal, latch, kmode, registerCnt, seenCnt, pending>>

\* drv_gpio_register_irq of an instance without a registration, or rid of it:
\* register_cnt is read ...
RegisterBegins(h) ==
    /\ \/ Ready(h) /\ ~inst[h].irq /\ registerCnt < MaxRegs
       \/ pc[h] = "unregistered"
    /\ pc' = [pc EXCEPT ![h] = "counting"]
    /\ seenCnt' = [seenCnt EXCEPT ![h] = registerCnt]
    /\ UNCHANGED <<descriptor, inst, goal, levels, registerCnt, handler, kirq,
                   pending, lapses>>

\* Fault: register_cnt is not counted up.
RegisterReusesSignal(h) ==
    /\ pc[h] = "counting"
    /\ inst' = [inst EXCEPT ![h].signo = seenCnt[h] % NSignals]
    /\ handler' = [handler EXCEPT ![seenCnt[h] % NSignals] = TRUE]
    /\ pc' = [pc EXCEPT ![h] = "signal"]
    /\ seenCnt' = [seenCnt EXCEPT ![h] = 0]
    /\ UNCHANGED <<descriptor, goal, levels, registerCnt, kirq, pending, lapses>>

\* ... and written back, no lock held; the signal is the instance's, and the
\* handler is installed for it.
RegisterTakesSignal(h) ==
    /\ pc[h] = "counting"
    /\ registerCnt' = seenCnt[h] + 1
    /\ lapses' = IF registerCnt # seenCnt[h] THEN lapses \cup {"raced"} ELSE lapses
    /\ inst' = [inst EXCEPT ![h].signo = seenCnt[h] % NSignals]
    /\ handler' = [handler EXCEPT ![seenCnt[h] % NSignals] = TRUE]
    /\ pc' = [pc EXCEPT ![h] = "signal"]
    /\ seenCnt' = [seenCnt EXCEPT ![h] = 0]
    /\ UNCHANGED <<descriptor, goal, levels, kirq, pending>>

\* SET_IRQ: the kernel takes the interrupt for the pin ...
RegisterDone(h) ==
    /\ pc[h] = "signal"
    /\ fd
    /\ kirq' = [kirq EXCEPT ![inst[h].pin] =
                   [of |-> h, sig |-> inst[h].signo, on |-> FALSE]]
    /\ inst' = [inst EXCEPT ![h].irq = TRUE]
    /\ doubt' = Doubts(h, "irq")
    /\ pc' = [pc EXCEPT ![h] = "idle"]
    /\ UNCHANGED <<descriptor, goal, latch, kmode, registerCnt, seenCnt, handler,
                   pending, lapses>>

\* ... or refuses.
RegisterFails(h) ==
    /\ pc[h] = "signal"
    /\ DropHandler(inst[h].signo)
    /\ pc' = [pc EXCEPT ![h] = "idle"]
    /\ UNCHANGED <<descriptor, inst, goal, levels, registerCnt, seenCnt, kirq,
                   pending, lapses>>

\* The interrupt of a pin sends its signal.
RaiseIrq(p) ==
    /\ kirq[p] # NULL /\ kirq[p].on
    /\ Cardinality(pending) < MaxPending
    /\ pending' = pending \cup {[sig |-> kirq[p].sig, of |-> kirq[p].of]}
    /\ UNCHANGED <<descriptor, inst, goal, pc, levels, registerCnt, seenCnt,
                   handler, kirq, lapses>>

\* A signal is delivered: drv_gpio_sig_handler looks into the instance and, if
\* the signal is still its, calls the callback.
Deliver(m) ==
    /\ m \in pending
    /\ pending' = pending \ {m}
    /\ UNCHANGED <<descriptor, inst, goal, pc, levels, registerCnt, seenCnt,
                   handler, kirq, lapses>>

-----------------------------------------------------------------------------
Operate(h) ==
    \/ CreateDone(h) \/ CreateFails(h) \/ DestroyBegins(h) \/ DestroyCloses(h)
    \/ ToggleFails(h) \/ Toggle(h) \/ ModeGet(h)
    \/ RegisterBegins(h) \/ RegisterTakesSignal(h) \/ RegisterDone(h)
    \/ RegisterFails(h)
    \/ \E next \in {"idle", "unregistered"} : Unregister(h, next)
    \/ \E p \in Pins : CreateOpens(h, p)
    \/ \E v \in {0, 1} : ValueSet(h, v) \/ ValueGet(h, v)
    \/ \E m \in Modes : ModeSet(h, m)
    \/ \E on \in BOOLEAN : SetIrq(h, on)

Next ==
    \/ \E h \in Handles : Operate(h)
    \/ \E p \in Pins : RaiseIrq(p)
    \/ \E m \in pending : Deliver(m)

Spec == Init /\ [][Next]_vars

-----------------------------------------------------------------------------
TypeOK ==
    /\ fd \in BOOLEAN /\ refCnt \in Nat
    /\ inst \in [Handles -> Instance \cup {NULL}]
    /\ goal \in [Handles -> Pins \cup {NULL}]
    /\ pc \in [Handles -> {"idle", "opened", "closing", "unregistered",
                           "counting", "signal"}]
    /\ registerCnt \in Nat /\ seenCnt \in [Handles -> Nat]
    /\ handler \in [Signos -> BOOLEAN]
    /\ latch \in [Pins -> {0, 1}] /\ kmode \in [Pins -> Modes]
    /\ kirq \in [Pins -> Interrupt \cup {NULL}]
    /\ pending \subseteq [sig : Signos, of : Handles]
    /\ doubt \in [Handles -> SUBSET {"level", "mode", "irq"}]
    /\ lapses \subseteq {"destroyed", "late", "raced"}

\* drv_gpio_open and drv_gpio_close keep one descriptor for all instances:
\* whatever creates and destroys interleave or fail, the count is the number of
\* instances and of creates under way, and the device is open exactly while
\* there is one, so that no operation of a live instance finds it closed.
CountIsHolders ==
    /\ refCnt = Cardinality(Live) + Cardinality(Creating)
    /\ fd <=> refCnt > 0

\* curr_val and curr_mode suppress writes and SET_MODE: they agree with the
\* pin unless another instance of the pin changed it since, the level was read
\* from an input, or a first toggle failed.
CachesExplained ==
    \A h \in Live :
        /\ inst[h].val # Unset /\ "level" \notin doubt[h]
              => inst[h].val = latch[inst[h].pin]
        /\ inst[h].mode # DmMax /\ "mode" \notin doubt[h]
              => inst[h].mode = kmode[inst[h].pin]

\* What takes the signal of one registration for another's: more registrations
\* than signals, or two that read register_cnt together.
SignalsReused == registerCnt > NSignals \/ "raced" \in lapses

\* A registered instance stays armed (the interrupt of its pin is its own, and
\* the handler of its signal is installed) unless another instance of the pin
\* registered or unregistered, or signals were dealt out twice.
StaysArmed ==
    \A h \in Live :
        inst[h].irq /\ "irq" \notin doubt[h] /\ ~SignalsReused
          => /\ kirq[inst[h].pin] # NULL
             /\ kirq[inst[h].pin].of = h
             /\ kirq[inst[h].pin].sig = inst[h].signo
             /\ handler[inst[h].signo]

\* A signal finds drv_gpio_sig_handler installed and its instance alive, unless
\* the application destroyed an instance it had not unregistered, unregistered
\* with a signal on its way (whose default action then ends the process), or
\* signals were dealt out twice.
SignalsFindInstance ==
    \A m \in pending :
        \/ handler[m.sig] /\ m.of \in Live
        \/ lapses # {} \/ SignalsReused
=============================================================================
