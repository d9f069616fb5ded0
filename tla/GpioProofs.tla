----------------------------- MODULE GpioProofs -----------------------------
(***************************************************************************)
(* The four safety properties of the GPIO driver for any number of handles *)
(* and pins: the shared descriptor is counted right, the caches are right  *)
(* unless something is known to have made them stale, a registration stays *)
(* armed, and a signal finds its instance.  They rest on one inductive     *)
(* invariant, GpioInv, which adds where a handle may be in its calls and   *)
(* which signals have an owner.                                            *)
(***************************************************************************)
EXTENDS Gpio, FiniteSetTheorems, TLAPS

\* Where a handle may be in its calls.
CallsFit ==
    \A h \in Handles :
        /\ goal[h] = NULL => pc[h] # "opened"
        /\ goal[h] # NULL => pc[h] \in {"opened", "closing"}
        /\ pc[h] \notin {"idle", "opened"} => inst[h] # NULL
        /\ pc[h] \in {"unregistered", "counting", "signal"} => ~inst[h].irq

\* The handles whose registration owns a signal.
Assigned(h) == inst[h] # NULL /\ (inst[h].irq \/ pc[h] = "signal")

\* As long as signals are dealt out once: the owned ones are below register_cnt,
\* owned once, and have their handler.
SignalsDealt ==
    ~SignalsReused =>
        \A h \in Handles : Assigned(h) =>
            /\ inst[h].signo < registerCnt
            /\ handler[inst[h].signo]
            /\ \A g \in Handles : Assigned(g) /\ inst[g].signo = inst[h].signo => g = h

\* h is registered for pin p with signal s.
ServesIrq(h, p, s) ==
    inst[h] # NULL /\ inst[h].irq /\ inst[h].pin = p /\ inst[h].signo = s

\* The interrupt of pin p is of an instance registered for it.
IrqServed(p) == kirq[p] # NULL => ServesIrq(kirq[p].of, p, kirq[p].sig)

\* As long as the application is careful too: an interrupt and a signal on its
\* way are of an instance that is registered for them.
IrqsServed ==
    lapses = {} /\ ~SignalsReused =>
        /\ \A h \in Handles : pc[h] = "closing" => ~inst[h].irq
        /\ \A p \in Pins : IrqServed(p)
        /\ \A m \in pending : \E p \in Pins : ServesIrq(m.of, p, m.sig)

GpioInv ==
    /\ TypeOK /\ CallsFit /\ CountIsHolders /\ CachesExplained
    /\ SignalsDealt /\ StaysArmed /\ IrqsServed

-----------------------------------------------------------------------------
\* Steps that leave alone what an instance is.
KeepsRole ==
    \A g \in Handles :
        /\ inst'[g] = NULL <=> inst[g] = NULL
        /\ inst[g] # NULL =>
            /\ inst'[g].pin = inst[g].pin /\ inst'[g].signo = inst[g].signo
            /\ inst'[g].irq <=> inst[g].irq

\* What an instance remembers of level and mode stays.
KeepsMemory ==
    \A g \in Handles :
        /\ inst'[g] = NULL <=> inst[g] = NULL
        /\ inst[g] # NULL =>
            /\ inst'[g].pin = inst[g].pin /\ inst'[g].val = inst[g].val
            /\ inst'[g].mode = inst[g].mode

\* While instances stay and the descriptor is left alone, the count is right.
LEMMA CountKept ==
    ASSUME CountIsHolders, UNCHANGED <<fd, refCnt, goal>>,
           \A g \in Handles : inst'[g] = NULL <=> inst[g] = NULL
    PROVE  CountIsHolders'
<1>1. Live' = Live /\ Creating' = Creating BY DEF Live, Creating
<1> QED BY <1>1 DEF CountIsHolders

\* While what is remembered and what is true stay, or grow in doubt, it is explained.
LEMMA CachesKept ==
    ASSUME TypeOK, CachesExplained, KeepsMemory, UNCHANGED <<latch, kmode>>,
           \A g \in Handles : /\ "level" \in doubt[g] => "level" \in doubt'[g]
                              /\ "mode" \in doubt[g] => "mode" \in doubt'[g]
    PROVE  CachesExplained'
BY DEF CachesExplained, KeepsMemory, Live

\* While registrations and interrupts stay, what is known of them stays.
LEMMA RoleKept ==
    ASSUME GpioInv, KeepsRole, UNCHANGED <<registerCnt, handler, kirq, pending>>,
           lapses \subseteq lapses',
           \A g \in Handles :
              /\ pc'[g] = "signal" <=> pc[g] = "signal"
              /\ pc'[g] = "closing" /\ lapses' = {} => pc[g] = "closing" \/ ~inst[g].irq
              /\ "irq" \in doubt[g] => "irq" \in doubt'[g]
    PROVE  SignalsDealt' /\ StaysArmed' /\ IrqsServed'
<1> USE DEF GpioInv
<1>1. ~SignalsReused' => ~SignalsReused BY DEF SignalsReused
<1>2. \A g \in Handles : Assigned(g)' <=> Assigned(g)
  BY DEF KeepsRole, Assigned
<1>3. SignalsDealt'
  BY <1>1, <1>2 DEF SignalsDealt, KeepsRole, Assigned
<1>4. StaysArmed'
  BY <1>1 DEF StaysArmed, KeepsRole, Live
<1>5. \A g \in Handles : \A p, s : ServesIrq(g, p, s)' <=> ServesIrq(g, p, s)
  BY DEF ServesIrq, KeepsRole
<1>6. IrqsServed'
  <2> SUFFICES ASSUME lapses' = {}, ~SignalsReused' PROVE IrqsServed'
    BY DEF IrqsServed, IrqServed
  <2>1. lapses = {} /\ ~SignalsReused BY <1>1
  <2>2. \A p \in Pins : kirq[p] # NULL => kirq[p].of \in Handles BY DEF TypeOK, Interrupt
  <2>3. \A m \in pending : m.of \in Handles BY DEF TypeOK
  <2>4. \A g \in Handles : pc'[g] = "closing" => ~inst'[g].irq
    BY <2>1 DEF IrqsServed, IrqServed, KeepsRole, CallsFit
  <2> QED BY <1>5, <2>1, <2>2, <2>3, <2>4 DEF IrqsServed, IrqServed
<1> QED BY <1>3, <1>4, <1>6

-----------------------------------------------------------------------------
\* Writing a pin settles the matter for the writer, and puts in doubt every other
\* instance of the pin.
LEMMA DoubtsAre ==
    ASSUME TypeOK, NEW h \in Handles, NEW what \in {"level", "mode", "irq"},
           inst[h] # NULL, doubt' = Doubts(h, what)
    PROVE  /\ doubt' \in [Handles -> SUBSET {"level", "mode", "irq"}]
           /\ doubt'[h] = doubt[h] \ {what}
           /\ \A g \in Handles \ {h} :
                /\ doubt[g] \subseteq doubt'[g]
                /\ doubt'[g] \subseteq doubt[g] \cup {what}
                /\ inst[g] # NULL /\ inst[g].pin = inst[h].pin => what \in doubt'[g]
BY DEF TypeOK, Doubts, Others, Live

\* A step of an instance that leaves its registration and explains its cache keeps
\* the invariant.
LEMMA LevelKeeps ==
    ASSUME GpioInv, NEW h \in Handles, inst[h] # NULL,
           NEW y \in Instance, inst' = [inst EXCEPT ![h] = y],
           y.pin = inst[h].pin, y.signo = inst[h].signo, y.irq <=> inst[h].irq,
           UNCHANGED <<fd, refCnt, goal, registerCnt, seenCnt, handler, kirq, pending>>,
           lapses \subseteq lapses', lapses' \subseteq {"destroyed", "late", "raced"},
           UNCHANGED pc \/ (pc' = [pc EXCEPT ![h] = "closing"] /\ pc[h] \in {"idle", "opened"}
                            /\ (lapses' = {} => ~inst[h].irq)),
           latch' \in [Pins -> {0, 1}], kmode' \in [Pins -> Modes],
           doubt' \in [Handles -> SUBSET {"level", "mode", "irq"}],
           \A g \in Handles : "irq" \in doubt[g] => "irq" \in doubt'[g],
           CachesExplained'
    PROVE  GpioInv'
<1> USE HandlesAssumption DEF HandlesAssumption, GpioInv
<1>1. KeepsRole BY DEF KeepsRole, TypeOK
<1>2. TypeOK' BY DEF TypeOK
<1>3. CallsFit' BY <1>1 DEF CallsFit, KeepsRole, TypeOK
<1>4. CountIsHolders' BY <1>1, CountKept DEF KeepsRole
<1>5. SignalsDealt' /\ StaysArmed' /\ IrqsServed'
  <2>1. \A g \in Handles :
              /\ pc'[g] = "signal" <=> pc[g] = "signal"
              /\ pc'[g] = "closing" /\ lapses' = {} => pc[g] = "closing" \/ ~inst[g].irq
    BY DEF TypeOK
  <2> QED BY <1>1, <2>1, RoleKept
<1> QED BY <1>2, <1>3, <1>4, <1>5

\* Setting and reading a level.
LEMMA ValueKeeps ==
    ASSUME GpioInv, NEW h \in Handles, NEW v \in {0, 1}, ValueSet(h, v) \/ ValueGet(h, v)
    PROVE  GpioInv'
<1> USE DEF GpioInv
<1>1. /\ inst[h] \in Instance /\ inst[h] # NULL
      /\ inst' = [inst EXCEPT ![h] = [inst[h] EXCEPT !.val = v]]
      /\ UNCHANGED <<fd, refCnt, goal, registerCnt, seenCnt, handler, kirq, pending, lapses, pc, kmode>>
  BY DEF ValueSet, ValueGet, KernelWrites, Ready, descriptor, signals, TypeOK
<1> DEFINE y == [inst[h] EXCEPT !.val = v]
<1>2. /\ y \in Instance /\ y.pin = inst[h].pin /\ y.signo = inst[h].signo
      /\ y.irq = inst[h].irq /\ y.val = v /\ y.mode = inst[h].mode
  BY <1>1 DEF Instance
<1>3. inst' = [inst EXCEPT ![h] = y] BY <1>1
<1> HIDE DEF y
<1>4. /\ latch' \in [Pins -> {0, 1}] /\ doubt' \in [Handles -> SUBSET {"level", "mode", "irq"}]
      /\ \A g \in Handles : /\ "irq" \in doubt[g] => "irq" \in doubt'[g]
                            /\ "mode" \in doubt[g] => "mode" \in doubt'[g]
      /\ CachesExplained'
  <2>1. inst[h].pin \in Pins BY <1>1 DEF Instance
  <2>2. \A g \in Handles : inst'[g] = IF g = h THEN y ELSE inst[g]
    BY <1>3 DEF TypeOK
  <2>3. CASE ValueSet(h, v)
    <3>1. latch' = [latch EXCEPT ![inst[h].pin] = v] /\ doubt' = Doubts(h, "level")
      BY <2>3 DEF ValueSet, KernelWrites
    <3>2. /\ doubt' \in [Handles -> SUBSET {"level", "mode", "irq"}]
          /\ doubt'[h] = doubt[h] \ {"level"}
          /\ \A g \in Handles \ {h} :
                /\ doubt[g] \subseteq doubt'[g]
                /\ inst[g] # NULL /\ inst[g].pin = inst[h].pin => "level" \in doubt'[g]
      BY <1>1, <3>1, DoubtsAre
    <3>3. ASSUME NEW g \in Live' PROVE
               /\ inst'[g].val # Unset /\ "level" \notin doubt'[g] => inst'[g].val = latch'[inst'[g].pin]
               /\ inst'[g].mode # DmMax /\ "mode" \notin doubt'[g] => inst'[g].mode = kmode'[inst'[g].pin]
      BY <1>1, <1>2, <2>1, <2>2, <3>1, <3>2 DEF Live, CachesExplained, TypeOK
    <3> QED BY <2>1, <3>1, <3>2, <3>3 DEF TypeOK, CachesExplained
  <2>4. CASE ValueGet(h, v)
    <3>1. /\ latch' = latch
          /\ doubt' = [doubt EXCEPT ![h] = IF kmode[inst[h].pin] = "out"
                                     THEN @ \ {"level"} ELSE @ \cup {"level"}]
          /\ kmode[inst[h].pin] = "out" => v = latch[inst[h].pin]
      BY <2>4 DEF ValueGet
    <3>2. /\ doubt' \in [Handles -> SUBSET {"level", "mode", "irq"}]
          /\ "level" \notin doubt'[h] => v = latch[inst[h].pin]
          /\ \A g \in Handles : \A d \in {"irq", "mode"} : d \in doubt[g] <=> d \in doubt'[g]
          /\ \A g \in Handles \ {h} : doubt'[g] = doubt[g]
      BY <3>1 DEF TypeOK
    <3>3. ASSUME NEW g \in Live' PROVE
               /\ inst'[g].val # Unset /\ "level" \notin doubt'[g] => inst'[g].val = latch'[inst'[g].pin]
               /\ inst'[g].mode # DmMax /\ "mode" \notin doubt'[g] => inst'[g].mode = kmode'[inst'[g].pin]
      BY <1>1, <1>2, <2>1, <2>2, <3>1, <3>2 DEF Live, CachesExplained
    <3> QED BY <3>1, <3>2, <3>3 DEF TypeOK, CachesExplained
  <2> QED BY <2>3, <2>4, <1>1
<1>5. y.irq <=> inst[h].irq BY <1>2
<1>6. kmode' \in [Pins -> Modes] /\ lapses' \subseteq {"destroyed", "late", "raced"} /\ lapses \subseteq lapses'
  BY <1>1 DEF TypeOK
<1> HIDE DEF GpioInv
<1> QED BY <1>1, <1>2, <1>3, <1>4, <1>5, <1>6, LevelKeeps

\* A toggle writes what it computes from the remembered level; one that fails has
\* changed that level already.
LEMMA ToggleKeeps ==
    ASSUME GpioInv, NEW h \in Handles, ToggleFails(h) \/ Toggle(h)
    PROVE  GpioInv'
<1>1. inst[h] \in Instance /\ inst[h] # NULL
  BY DEF ToggleFails, Toggle, ValueSet, Ready, GpioInv, TypeOK
<1>2. CASE Toggle(h)
  <2>1. (IF inst[h].val = Unset THEN 1 ELSE 1 - inst[h].val) \in {0, 1}
    BY <1>1 DEF Instance, Unset
  <2> QED BY <1>2, <2>1, ValueKeeps DEF Toggle
<1>3. CASE ToggleFails(h)
  <2> USE DEF GpioInv
  <2> DEFINE y == [inst[h] EXCEPT !.val = 0]
  <2>1. /\ y \in Instance /\ y.pin = inst[h].pin /\ y.signo = inst[h].signo
        /\ y.irq <=> inst[h].irq
        /\ y.mode = inst[h].mode
    BY <1>1 DEF Instance
  <2>2. inst' = [inst EXCEPT ![h] = y] BY <1>3 DEF ToggleFails, TypeOK
  <2> HIDE DEF y
  <2>3. /\ doubt' = [doubt EXCEPT ![h] = @ \cup {"level"}]
        /\ UNCHANGED <<fd, refCnt, goal, registerCnt, seenCnt, handler, kirq, pending, lapses, pc, latch, kmode>>
    BY <1>3 DEF ToggleFails, descriptor, signals
  <2>4. /\ doubt' \in [Handles -> SUBSET {"level", "mode", "irq"}]
        /\ "level" \in doubt'[h]
        /\ \A g \in Handles : \A d \in {"mode", "irq"} : d \in doubt[g] <=> d \in doubt'[g]
        /\ \A g \in Handles \ {h} : doubt'[g] = doubt[g]
    BY <2>3 DEF TypeOK
  <2>5. \A g \in Handles : inst'[g] = IF g = h THEN y ELSE inst[g]
    BY <2>2 DEF TypeOK
  <2>6. CachesExplained'
    BY <1>1, <2>1, <2>3, <2>4, <2>5 DEF CachesExplained, Live
  <2>7. /\ kmode' \in [Pins -> Modes] /\ lapses' \subseteq {"destroyed", "late", "raced"}
        /\ lapses \subseteq lapses' /\ latch' \in [Pins -> {0, 1}]
    BY <2>3 DEF TypeOK
  <2> HIDE DEF GpioInv
  <2> QED BY <1>1, <2>1, <2>2, <2>3, <2>4, <2>6, <2>7, LevelKeeps
<1> QED BY <1>2, <1>3

\* SET_MODE and GET_MODE settle the mode of the instance; the rest of a step
\* that does it may be the beginning of a destruction.
LEMMA ModeSettled ==
    ASSUME GpioInv, NEW h \in Handles, inst[h] # NULL, NEW m \in Modes,
           inst' = [inst EXCEPT ![h].mode = m],
           \/ kmode' = [kmode EXCEPT ![inst[h].pin] = m] /\ doubt' = Doubts(h, "mode")
           \/ kmode' = kmode /\ m = kmode[inst[h].pin] /\ doubt' = [doubt EXCEPT ![h] = @ \ {"mode"}],
           UNCHANGED <<fd, refCnt, goal, registerCnt, seenCnt, handler, kirq, pending, latch>>,
           lapses \subseteq lapses', lapses' \subseteq {"destroyed", "late", "raced"},
           UNCHANGED pc \/ (pc' = [pc EXCEPT ![h] = "closing"] /\ pc[h] \in {"idle", "opened"}
                            /\ (lapses' = {} => ~inst[h].irq))
    PROVE  GpioInv'
<1> USE DEF GpioInv
<1> DEFINE y == [inst[h] EXCEPT !.mode = m]
<1>1. inst[h] \in Instance /\ inst[h].pin \in Pins BY DEF TypeOK, Instance
<1>2. /\ y \in Instance /\ y.pin = inst[h].pin /\ y.signo = inst[h].signo
      /\ y.irq <=> inst[h].irq
      /\ y.val = inst[h].val /\ y.mode = m
  BY <1>1 DEF Instance
<1>3. inst' = [inst EXCEPT ![h] = y] BY DEF TypeOK
<1> HIDE DEF y
<1>4. /\ doubt' \in [Handles -> SUBSET {"level", "mode", "irq"}]
      /\ kmode' \in [Pins -> Modes] /\ kmode'[inst[h].pin] = m
      /\ \A g \in Handles : \A d \in {"level", "irq"} : d \in doubt[g] => d \in doubt'[g]
      /\ \A g \in Handles \ {h} :
           "mode" \notin doubt'[g] /\ inst[g] # NULL =>
                "mode" \notin doubt[g] /\ kmode'[inst[g].pin] = kmode[inst[g].pin]
  <2>1. CASE kmode' = kmode /\ m = kmode[inst[h].pin] /\ doubt' = [doubt EXCEPT ![h] = @ \ {"mode"}]
    BY <1>1, <2>1 DEF TypeOK
  <2>2. CASE kmode' = [kmode EXCEPT ![inst[h].pin] = m] /\ doubt' = Doubts(h, "mode")
    <3>1. /\ doubt' \in [Handles -> SUBSET {"level", "mode", "irq"}]
           /\ doubt'[h] = doubt[h] \ {"mode"}
           /\ \A g \in Handles \ {h} :
                /\ doubt[g] \subseteq doubt'[g]
                /\ inst[g] # NULL /\ inst[g].pin = inst[h].pin => "mode" \in doubt'[g]
      BY <2>2, DoubtsAre
    <3>2. \A g \in Handles : inst[g] # NULL => inst[g].pin \in Pins BY DEF TypeOK, Instance
    <3> QED BY <1>1, <2>2, <3>1, <3>2 DEF TypeOK
  <2> QED BY <2>1, <2>2
<1>5. \A g \in Handles : inst'[g] = IF g = h THEN y ELSE inst[g]
  BY <1>3 DEF TypeOK
<1>6. CachesExplained'
  BY <1>2, <1>4, <1>5 DEF CachesExplained, Live
<1>7. latch' \in [Pins -> {0, 1}] BY DEF TypeOK
<1>8. \A g \in Handles : "irq" \in doubt[g] => "irq" \in doubt'[g] BY <1>4
<1> HIDE DEF GpioInv
<1>9. /\ GpioInv /\ inst[h] # NULL
      /\ UNCHANGED <<fd, refCnt, goal, registerCnt, seenCnt, handler, kirq, pending>>
      /\ lapses \subseteq lapses' /\ lapses' \subseteq {"destroyed", "late", "raced"}
  OBVIOUS
<1>10. UNCHANGED pc \/ (pc' = [pc EXCEPT ![h] = "closing"] /\ pc[h] \in {"idle", "opened"}
                       /\ (lapses' = {} => ~inst[h].irq))
  OBVIOUS
<1> QED BY ONLY h \in Handles, <1>2, <1>3, <1>4, <1>6, <1>7, <1>8, <1>9, <1>10, LevelKeeps

\* Setting and reading a mode.
LEMMA ModeKeeps ==
    ASSUME GpioInv, NEW h \in Handles, ModeGet(h) \/ \E m \in Modes : ModeSet(h, m)
    PROVE  GpioInv'
<1>1. /\ inst[h] # NULL
      /\ UNCHANGED <<fd, refCnt, goal, registerCnt, seenCnt, handler, kirq, pending, latch, pc, lapses>>
  BY DEF ModeGet, ModeSet, Ready, descriptor, signals
<1>2. lapses \subseteq lapses' /\ lapses' \subseteq {"destroyed", "late", "raced"}
  BY <1>1 DEF GpioInv, TypeOK
<1>3. CASE ModeGet(h)
  <2>1. kmode[inst[h].pin] \in Modes
    <3>1. inst[h].pin \in Pins BY <1>1 DEF GpioInv, TypeOK, Instance
    <3> QED BY <3>1 DEF GpioInv, TypeOK
  <2>2. PICK m \in Modes : m = kmode[inst[h].pin] BY <2>1
  <2>3. /\ inst' = [inst EXCEPT ![h].mode = m] /\ kmode' = kmode
        /\ doubt' = [doubt EXCEPT ![h] = @ \ {"mode"}]
    BY <1>3, <2>2 DEF ModeGet
  <2> HIDE DEF GpioInv
  <2> QED BY <1>1, <1>2, <2>2, <2>3, ModeSettled
<1>4. ASSUME NEW m \in Modes, ModeSet(h, m) PROVE GpioInv'
  BY <1>1, <1>2, <1>4, ModeSettled DEF ModeSet, KernelSetsMode
<1> QED BY <1>3, <1>4

\* A destruction makes the pin an input first.
LEMMA DestroyBeginsKeeps ==
    ASSUME GpioInv, NEW h \in Handles, DestroyBegins(h)
    PROVE  GpioInv'
<1>1. /\ inst[h] # NULL
      /\ UNCHANGED <<fd, refCnt, goal, registerCnt, seenCnt, handler, kirq, pending, latch>>
      /\ pc' = [pc EXCEPT ![h] = "closing"] /\ pc[h] \in {"idle", "opened"}
      /\ lapses' = {} => ~inst[h].irq
      /\ lapses \subseteq lapses'
  BY DEF DestroyBegins, descriptor
<1>2. lapses' \subseteq {"destroyed", "late", "raced"}
  BY DEF GpioInv, TypeOK, DestroyBegins
<1>3. CASE KernelSetsMode(h, "in")
  BY <1>1, <1>2, <1>3, ModeSettled DEF KernelSetsMode, Modes
<1>4. CASE UNCHANGED <<inst, kmode, doubt>>
  <2>1. inst[h] \in Instance BY <1>1 DEF GpioInv, TypeOK
  <2>2. inst' = [inst EXCEPT ![h] = inst[h]] BY <1>4 DEF GpioInv, TypeOK
  <2>3. CachesExplained' BY <1>1, <1>4 DEF GpioInv, CachesExplained, Live
  <2>4. /\ latch' \in [Pins -> {0, 1}] /\ kmode' \in [Pins -> Modes]
        /\ doubt' \in [Handles -> SUBSET {"level", "mode", "irq"}]
    BY <1>1, <1>4 DEF GpioInv, TypeOK
  <2> QED BY <1>1, <1>2, <1>4, <2>1, <2>2, <2>3, <2>4, LevelKeeps
<1> QED BY <1>3, <1>4 DEF DestroyBegins

-----------------------------------------------------------------------------
\* The holders of the descriptor can be counted.
LEMMA LiveFinite ==
    /\ IsFiniteSet(Live) /\ IsFiniteSet(Creating)
    /\ Cardinality(Live) \in Nat /\ Cardinality(Creating) \in Nat
<1>1. Live \subseteq Handles /\ Creating \subseteq Handles BY DEF Live, Creating
<1>2. IsFiniteSet(Live) /\ IsFiniteSet(Creating)
  BY <1>1, HandlesAssumption, FS_Subset DEF HandlesAssumption
<1> QED BY <1>2, FS_CardinalityType

\* drv_gpio_close counts down, and closes the descriptor at zero.
LEMMA ReleaseDoes ==
    ASSUME CountIsHolders, refCnt > 0, Release
    PROVE  fd /\ refCnt' = refCnt - 1 /\ fd' \in BOOLEAN /\ (fd' <=> refCnt' > 0)
<1>1. fd /\ refCnt' = refCnt - 1 /\ fd' = (refCnt' > 0)
  BY DEF CountIsHolders, Release
<1>2. (refCnt' > 0) \in BOOLEAN OBVIOUS
<1>3. fd' \in BOOLEAN BY <1>1, <1>2
<1>4. fd' <=> refCnt' > 0 BY <1>1
<1> QED BY <1>1, <1>3, <1>4

\* The rest of the invariant, when a handle without an interrupt or a signal
\* of its own changes.
LEMMA OutsiderKeeps ==
    ASSUME GpioInv, NEW h \in Handles, ~Assigned(h), ~Assigned(h)',
           \A g \in Handles \ {h} : inst'[g] = inst[g] /\ pc'[g] = pc[g] /\ doubt'[g] = doubt[g],
           pc'[h] # "closing",
           UNCHANGED <<registerCnt, handler, kirq, pending, lapses>>
    PROVE  SignalsDealt' /\ StaysArmed' /\ IrqsServed'
<1> USE DEF GpioInv
<1>1. SignalsReused' <=> SignalsReused BY DEF SignalsReused
<1>2. \A g \in Handles \ {h} : Assigned(g)' <=> Assigned(g) BY DEF Assigned
<1>3. SignalsDealt' BY <1>1, <1>2 DEF SignalsDealt
<1>4. StaysArmed' BY <1>1 DEF StaysArmed, Assigned, Live
<1>5. IrqsServed'
  <2> SUFFICES ASSUME lapses = {}, ~SignalsReused PROVE IrqsServed'
    BY <1>1 DEF IrqsServed, IrqServed
  <2>1. \A g \in Handles : \A p, s : ServesIrq(g, p, s) => ServesIrq(g, p, s)'
    BY DEF ServesIrq, Assigned
  <2>2. \A p \in Pins : kirq[p] # NULL => kirq[p].of \in Handles BY DEF TypeOK, Interrupt
  <2>3. \A m \in pending : m.of \in Handles BY DEF TypeOK
  <2> QED BY <2>1, <2>2, <2>3 DEF IrqsServed, IrqServed
<1> QED BY <1>3, <1>4, <1>5

\* A create counts itself in before there is an instance, and out when it fails.
LEMMA CreateKeeps ==
    ASSUME GpioInv, NEW h \in Handles,
           CreateDone(h) \/ CreateFails(h) \/ \E p \in Pins : CreateOpens(h, p)
    PROVE  GpioInv'
<1> USE HandlesAssumption DEF HandlesAssumption, GpioInv
<1>1. ASSUME NEW p \in Pins, CreateOpens(h, p) PROVE GpioInv'
  <2>1. /\ pc[h] = "idle" /\ fd' = TRUE /\ refCnt' = refCnt + 1
        /\ goal' = [goal EXCEPT ![h] = p] /\ pc' = [pc EXCEPT ![h] = "opened"]
        /\ UNCHANGED <<inst, registerCnt, seenCnt, handler, kirq, pending, lapses, latch, kmode, doubt>>
    BY <1>1 DEF CreateOpens, signals, levels
  <2>2. TypeOK' BY <2>1 DEF TypeOK
  <2>3. CallsFit' BY <2>1 DEF CallsFit, TypeOK
  <2>4. CountIsHolders'
    <3>1. Live' = Live /\ h \notin Creating /\ Creating' = Creating \cup {h}
      BY <2>1 DEF Live, Creating, CallsFit, TypeOK
    <3>2. Cardinality(Creating') = Cardinality(Creating) + 1
      BY <3>1, LiveFinite, FS_AddElement
    <3> QED BY <2>1, <3>1, <3>2, LiveFinite DEF CountIsHolders, TypeOK
  <2>5. CachesExplained' BY <2>1 DEF CachesExplained, Live
  <2>6. SignalsDealt' /\ StaysArmed' /\ IrqsServed'
    BY <2>1, RoleKept DEF KeepsRole, TypeOK
  <2> QED BY <2>2, <2>3, <2>4, <2>5, <2>6
<1>2. CASE CreateFails(h)
  <2>1. /\ pc[h] = "opened" /\ inst[h] = NULL
        /\ goal' = [goal EXCEPT ![h] = NULL] /\ pc' = [pc EXCEPT ![h] = "idle"]
        /\ UNCHANGED <<inst, registerCnt, seenCnt, handler, kirq, pending, lapses, latch, kmode, doubt>>
    BY <1>2 DEF CreateFails, signals, levels
  <2>2. h \in Creating /\ Live' = Live /\ Creating' = Creating \ {h}
    BY <2>1 DEF Live, Creating, CallsFit, TypeOK
  <2>3. Cardinality(Creating') = Cardinality(Creating) - 1
    BY <2>2, LiveFinite, FS_RemoveElement
  <2>4. refCnt > 0
    BY <2>2, <2>3, LiveFinite, FS_EmptySet DEF CountIsHolders
  <2>5. fd /\ refCnt' = refCnt - 1 /\ fd' \in BOOLEAN /\ (fd' <=> refCnt' > 0)
    BY <1>2, <2>4, ReleaseDoes DEF CreateFails
  <2>6. TypeOK' BY <2>1, <2>4, <2>5 DEF TypeOK
  <2>7. CallsFit' BY <2>1 DEF CallsFit, TypeOK
  <2>8. CountIsHolders' BY <2>2, <2>3, <2>5, LiveFinite DEF CountIsHolders
  <2>9. CachesExplained' BY <2>1 DEF CachesExplained, Live
  <2>10. SignalsDealt' /\ StaysArmed' /\ IrqsServed'
    BY <2>1, RoleKept DEF KeepsRole, TypeOK
  <2> QED BY <2>6, <2>7, <2>8, <2>9, <2>10
<1>3. CASE CreateDone(h)
  <2>1. /\ pc[h] = "opened" /\ inst[h] = NULL
        /\ inst' = [inst EXCEPT ![h] = Fresh(goal[h])]
        /\ goal' = [goal EXCEPT ![h] = NULL] /\ pc' = [pc EXCEPT ![h] = "idle"]
        /\ doubt' = [doubt EXCEPT ![h] = {}]
        /\ UNCHANGED <<fd, refCnt, registerCnt, seenCnt, handler, kirq, pending, lapses, latch, kmode>>
    BY <1>3 DEF CreateDone, signals, descriptor
  <2>2. /\ Fresh(goal[h]) \in Instance /\ ~Fresh(goal[h]).irq
        /\ Fresh(goal[h]).val = Unset /\ Fresh(goal[h]).mode = DmMax
    <3>1. goal[h] \in Pins BY <2>1 DEF CallsFit, TypeOK
    <3> QED BY <3>1, SignalsAssumption DEF Fresh, Instance, SignalsAssumption, Signos
  <2>3. Fresh(goal[h]) # NULL BY <2>2
  <2> DEFINE y == Fresh(goal[h])
  <2>4. \A g \in Handles : inst'[g] = IF g = h THEN y ELSE inst[g]
    BY <2>1 DEF TypeOK
  <2> HIDE DEF y
  <2>5. y \in Instance /\ ~y.irq /\ y.val = Unset /\ y.mode = DmMax /\ y # NULL
    BY <2>2, <2>3 DEF y
  <2>6. TypeOK' BY <2>1, <2>2 DEF TypeOK
  <2>7. CallsFit' BY <2>1, <2>4, <2>5 DEF CallsFit, TypeOK
  <2>8. CountIsHolders'
    <3>1. /\ h \in Creating /\ Creating' = Creating \ {h}
          /\ h \notin Live /\ Live' = Live \cup {h}
      BY <2>1, <2>4, <2>5 DEF Live, Creating, CallsFit, TypeOK
    <3>2. Cardinality(Creating') = Cardinality(Creating) - 1
      BY <3>1, LiveFinite, FS_RemoveElement
    <3>3. Cardinality(Live') = Cardinality(Live) + 1
      BY <3>1, LiveFinite, FS_AddElement
    <3> QED BY <2>1, <3>2, <3>3, LiveFinite DEF CountIsHolders
  <2>9. CachesExplained'
    <3>1. \A g \in Handles \ {h} : inst'[g] = inst[g] /\ doubt'[g] = doubt[g]
      BY <2>1, <2>4 DEF TypeOK
    <3>2. inst'[h].val = Unset /\ inst'[h].mode = DmMax
      BY <2>4, <2>5
    <3> QED BY <2>1, <3>1, <3>2 DEF CachesExplained, Live
  <2>10. SignalsDealt' /\ StaysArmed' /\ IrqsServed'
    <3>1. ~Assigned(h) BY <2>1 DEF Assigned
    <3>2. ~Assigned(h)' BY <2>1, <2>4, <2>5 DEF Assigned, TypeOK
    <3>3. /\ \A g \in Handles \ {h} : inst'[g] = inst[g] /\ pc'[g] = pc[g] /\ doubt'[g] = doubt[g]
          /\ pc'[h] # "closing"
      BY <2>1, <2>4 DEF TypeOK
    <3> QED BY <2>1, <3>1, <3>2, <3>3, OutsiderKeeps
  <2> QED BY <2>6, <2>7, <2>8, <2>9, <2>10
<1> QED BY <1>1, <1>2, <1>3

\* A destruction frees the instance and counts it out.
LEMMA DestroyClosesKeeps ==
    ASSUME GpioInv, NEW h \in Handles, DestroyCloses(h)
    PROVE  GpioInv'
<1> USE DEF GpioInv
<1>1. /\ pc[h] = "closing" /\ inst[h] # NULL
      /\ inst' = [inst EXCEPT ![h] = NULL]
      /\ pc' = [pc EXCEPT ![h] = IF goal[h] = NULL THEN "idle" ELSE "opened"]
      /\ UNCHANGED <<goal, registerCnt, seenCnt, handler, kirq, pending, lapses, latch, kmode, doubt>>
  BY DEF DestroyCloses, signals, levels, CallsFit
<1>2. Creating' = Creating /\ h \in Live /\ Live' = Live \ {h}
  BY <1>1 DEF Creating, Live, TypeOK
<1>3. Cardinality(Live') = Cardinality(Live) - 1
  BY <1>2, LiveFinite, FS_RemoveElement
<1>4. refCnt > 0
  BY <1>2, <1>3, LiveFinite, FS_EmptySet DEF CountIsHolders
<1>5. fd /\ refCnt' = refCnt - 1 /\ fd' \in BOOLEAN /\ (fd' <=> refCnt' > 0)
  BY <1>4, ReleaseDoes DEF DestroyCloses
<1>6. TypeOK' BY <1>1, <1>4, <1>5 DEF TypeOK
<1>7. CallsFit' BY <1>1 DEF CallsFit, TypeOK
<1>8. CountIsHolders' BY <1>2, <1>3, <1>5, LiveFinite DEF CountIsHolders
<1>9. /\ \A g \in Handles \ {h} : inst'[g] = inst[g] /\ pc'[g] = pc[g]
      /\ inst'[h] = NULL /\ pc'[h] # "closing"
  BY <1>1 DEF TypeOK
<1>10. CachesExplained' BY <1>1, <1>9 DEF CachesExplained, Live
<1>11. SignalsReused' <=> SignalsReused BY <1>1 DEF SignalsReused
<1>12. /\ ~Assigned(h)'
       /\ \A g \in Handles \ {h} : Assigned(g)' <=> Assigned(g)
  BY <1>9 DEF Assigned
<1>13. SignalsDealt' BY <1>1, <1>9, <1>11, <1>12 DEF SignalsDealt
<1>14. StaysArmed' BY <1>1, <1>9, <1>11 DEF StaysArmed, Live
<1>15. IrqsServed'
  <2>1. CASE inst[h].irq
    BY <1>1, <1>11, <2>1 DEF IrqsServed, IrqServed
  <2>2. CASE ~inst[h].irq
    <3>1. ~Assigned(h) BY <1>1, <2>2 DEF Assigned
    <3> QED BY <1>1, <1>9, <1>12, <3>1, OutsiderKeeps
  <2> QED BY <2>1, <2>2
<1> QED BY <1>6, <1>7, <1>8, <1>10, <1>13, <1>14, <1>15

-----------------------------------------------------------------------------
\* A step about interrupts leaves count and caches alone.
LEMMA IrqStepKeeps ==
    ASSUME GpioInv, TypeOK', CallsFit', KeepsMemory,
           UNCHANGED <<fd, refCnt, goal, latch, kmode>>,
           \A g \in Handles : \A d \in {"level", "mode"} : d \in doubt[g] => d \in doubt'[g],
           SignalsDealt', StaysArmed', IrqsServed'
    PROVE  GpioInv'
BY CountKept, CachesKept DEF GpioInv, KeepsMemory

\* Enabling and disabling an interrupt.
LEMMA SetIrqKeeps ==
    ASSUME GpioInv, NEW h \in Handles, NEW on \in BOOLEAN, SetIrq(h, on)
    PROVE  GpioInv'
<1> USE HandlesAssumption DEF HandlesAssumption, GpioInv
<1> DEFINE p == inst[h].pin
<1> DEFINE k == [kirq[p] EXCEPT !.on = on]
<1>1. /\ inst[h] # NULL /\ p \in Pins /\ kirq[p] \in Interrupt /\ kirq[p] # NULL
      /\ UNCHANGED <<fd, refCnt, inst, goal, pc, latch, kmode, doubt, registerCnt, seenCnt,
                     handler, pending, lapses>>
  BY DEF SetIrq, Ready, descriptor, levels, TypeOK, Instance
<1>2. kirq' = [kirq EXCEPT ![p] = k]
  BY <1>1 DEF SetIrq, TypeOK
<1>3. k \in Interrupt /\ k.of = kirq[p].of /\ k.sig = kirq[p].sig
  BY <1>1 DEF Interrupt
<1> HIDE DEF p, k
<1>4. \A q \in Pins : /\ kirq'[q] # NULL <=> kirq[q] # NULL
                      /\ kirq[q] # NULL => kirq'[q].of = kirq[q].of /\ kirq'[q].sig = kirq[q].sig
  BY <1>1, <1>2, <1>3 DEF TypeOK
<1>5. TypeOK' BY <1>1, <1>2, <1>3 DEF TypeOK
<1>6. CallsFit' BY <1>1 DEF CallsFit
<1>7. SignalsReused' <=> SignalsReused BY <1>1 DEF SignalsReused
<1>8. SignalsDealt' BY <1>1, <1>7 DEF SignalsDealt, Assigned
<1>9. StaysArmed'
  <2>1. \A g \in Live : inst[g].pin \in Pins BY DEF Live, TypeOK, Instance
  <2> QED BY <1>1, <1>4, <1>7, <2>1 DEF StaysArmed, Live
<1>10. IrqsServed' BY <1>1, <1>4, <1>7 DEF IrqsServed, IrqServed, ServesIrq
<1>11. KeepsMemory BY <1>1 DEF KeepsMemory
<1> HIDE DEF GpioInv
<1> QED BY <1>1, <1>5, <1>6, <1>8, <1>9, <1>10, <1>11, IrqStepKeeps

\* An interrupt raises its signal, and a signal is delivered.
LEMMA SignalKeeps ==
    ASSUME GpioInv, (\E p \in Pins : RaiseIrq(p)) \/ \E m \in pending : Deliver(m)
    PROVE  GpioInv'
<1> USE DEF GpioInv
<1>1. UNCHANGED <<fd, refCnt, inst, goal, pc, latch, kmode, doubt, registerCnt, seenCnt,
                  handler, kirq, lapses>>
  BY DEF RaiseIrq, Deliver, descriptor, levels
<1>2. /\ pending' \subseteq [sig : Signos, of : Handles]
      /\ \A m \in pending' : m \in pending \/
            \E p \in Pins : kirq[p] # NULL /\ m.sig = kirq[p].sig /\ m.of = kirq[p].of
  <2>1. ASSUME NEW m \in pending, Deliver(m) PROVE <1>2!:
    BY <2>1 DEF Deliver, TypeOK
  <2>2. ASSUME NEW p \in Pins, RaiseIrq(p) PROVE <1>2!:
    <3>1. kirq[p] \in Interrupt /\ kirq[p] # NULL BY <2>2 DEF RaiseIrq, TypeOK
    <3> QED BY <2>2, <3>1 DEF RaiseIrq, Interrupt, TypeOK
  <2> QED BY <2>1, <2>2
<1>3. TypeOK' BY <1>1, <1>2 DEF TypeOK
<1>4. CallsFit' BY <1>1 DEF CallsFit
<1>5. SignalsReused' <=> SignalsReused BY <1>1 DEF SignalsReused
<1>6. SignalsDealt' BY <1>1, <1>5 DEF SignalsDealt, Assigned
<1>7. StaysArmed' BY <1>1, <1>5 DEF StaysArmed, Live
<1>8. IrqsServed' BY <1>1, <1>2, <1>5 DEF IrqsServed, IrqServed, ServesIrq
<1>9. KeepsMemory BY <1>1 DEF KeepsMemory
<1> HIDE DEF GpioInv
<1> QED BY <1>1, <1>3, <1>4, <1>6, <1>7, <1>8, <1>9, IrqStepKeeps

\* A registration reads register_cnt.
LEMMA RegisterBeginsKeeps ==
    ASSUME GpioInv, NEW h \in Handles, RegisterBegins(h)
    PROVE  GpioInv'
<1> USE DEF GpioInv
<1>1. /\ inst[h] # NULL /\ ~inst[h].irq /\ pc[h] \in {"idle", "unregistered"} /\ goal[h] = NULL
      /\ pc' = [pc EXCEPT ![h] = "counting"]
      /\ seenCnt' = [seenCnt EXCEPT ![h] = registerCnt]
      /\ UNCHANGED <<fd, refCnt, inst, goal, latch, kmode, doubt, registerCnt,
                     handler, kirq, pending, lapses>>
  BY DEF RegisterBegins, Ready, descriptor, levels, CallsFit
<1>2. TypeOK' BY <1>1 DEF TypeOK
<1>3. CallsFit' BY <1>1 DEF CallsFit, TypeOK
<1>4. SignalsDealt' /\ StaysArmed' /\ IrqsServed'
  BY <1>1, RoleKept DEF KeepsRole, TypeOK
<1>5. KeepsMemory BY <1>1 DEF KeepsMemory
<1> HIDE DEF GpioInv
<1> QED BY <1>1, <1>2, <1>3, <1>4, <1>5, IrqStepKeeps

\* The signal of a handle that owned one, and no longer does, is nobody's: its
\* handler may go.
LEMMA HandlerMayGo ==
    ASSUME GpioInv, NEW h \in Handles, Assigned(h), ~Assigned(h)',
           handler' = [handler EXCEPT ![inst[h].signo] = FALSE],
           ~SignalsReused' => ~SignalsReused, registerCnt' = registerCnt,
           \A g \in Handles \ {h} : (Assigned(g)' <=> Assigned(g)) /\ inst'[g] = inst[g]
    PROVE  SignalsDealt'
<1> USE DEF GpioInv
<1> SUFFICES ASSUME ~SignalsReused' PROVE SignalsDealt'
  BY DEF SignalsDealt
<1>1. \A g \in Handles : Assigned(g) => inst[g].signo \in Signos
  BY DEF Assigned, TypeOK, Instance
<1>2. \A g \in Handles \ {h} : Assigned(g) => handler'[inst[g].signo] = handler[inst[g].signo]
  BY <1>1 DEF SignalsDealt, TypeOK
<1> QED BY <1>2 DEF SignalsDealt

\* An unregistration takes away interrupt and handler.
LEMMA UnregisterKeeps ==
    ASSUME GpioInv, NEW h \in Handles, NEW next \in {"idle", "unregistered"}, Unregister(h, next)
    PROVE  GpioInv'
<1> USE HandlesAssumption DEF HandlesAssumption, GpioInv
<1> DEFINE y == [inst[h] EXCEPT !.irq = FALSE]
<1>1. /\ inst[h] \in Instance /\ inst[h] # NULL /\ inst[h].irq /\ pc[h] = "idle" /\ goal[h] = NULL
      /\ inst[h].pin \in Pins /\ inst[h].signo \in Signos
  BY DEF Unregister, Ready, TypeOK, CallsFit, Instance
<1>2. /\ y \in Instance /\ ~y.irq /\ y.pin = inst[h].pin /\ y.signo = inst[h].signo
      /\ y.val = inst[h].val /\ y.mode = inst[h].mode
  BY <1>1 DEF Instance
<1>3. inst' = [inst EXCEPT ![h] = y] BY DEF Unregister, TypeOK
<1> HIDE DEF y
<1>4. /\ kirq' = [kirq EXCEPT ![inst[h].pin] = NULL]
      /\ handler' = [handler EXCEPT ![inst[h].signo] = FALSE]
      /\ lapses \subseteq lapses'
      /\ (\E m \in pending : m.sig = inst[h].signo) => lapses' # {}
      /\ doubt' = Doubts(h, "irq") /\ pc' = [pc EXCEPT ![h] = next]
      /\ UNCHANGED <<fd, refCnt, goal, latch, kmode, registerCnt, seenCnt, pending>>
  BY DEF Unregister, DetachIrq, DropHandler, descriptor
<1>5. lapses' \subseteq {"destroyed", "late", "raced"}
  BY DEF Unregister, TypeOK
<1>6. /\ doubt' \in [Handles -> SUBSET {"level", "mode", "irq"}]
      /\ \A g \in Handles : \A d \in {"level", "mode"} : d \in doubt[g] => d \in doubt'[g]
      /\ \A g \in Handles \ {h} :
            /\ doubt[g] \subseteq doubt'[g]
            /\ inst[g] # NULL /\ inst[g].pin = inst[h].pin => "irq" \in doubt'[g]
  BY <1>1, <1>4, DoubtsAre
<1>7. /\ inst'[h] = y /\ y # NULL /\ pc'[h] = next
      /\ \A g \in Handles \ {h} : inst'[g] = inst[g] /\ pc'[g] = pc[g]
  BY <1>2, <1>3, <1>4 DEF TypeOK
<1>8. TypeOK' BY <1>2, <1>3, <1>4, <1>5, <1>6 DEF TypeOK
<1>9. CallsFit' BY <1>1, <1>2, <1>4, <1>7 DEF CallsFit
<1>10. KeepsMemory BY <1>1, <1>2, <1>7 DEF KeepsMemory
<1>11. ~SignalsReused' => ~SignalsReused BY <1>4 DEF SignalsReused
<1>12. SignalsDealt'
  <2>1. Assigned(h) BY <1>1 DEF Assigned
  <2>2. ~Assigned(h)' BY <1>2, <1>7 DEF Assigned
  <2>3. \A g \in Handles \ {h} : Assigned(g)' <=> Assigned(g) BY <1>7 DEF Assigned
  <2> QED BY <1>4, <1>7, <1>11, <2>1, <2>2, <2>3, HandlerMayGo
<1>13. StaysArmed'
  <2> SUFFICES ASSUME NEW g \in Live', inst'[g].irq, "irq" \notin doubt'[g], ~SignalsReused'
               PROVE  /\ kirq'[inst'[g].pin] # NULL
                      /\ kirq'[inst'[g].pin].of = g
                      /\ kirq'[inst'[g].pin].sig = inst'[g].signo
                      /\ handler'[inst'[g].signo]
    BY DEF StaysArmed
  <2>1. g \in Handles \ {h} /\ inst[g] # NULL /\ inst'[g] = inst[g]
    BY <1>2, <1>7 DEF Live
  <2>2. "irq" \notin doubt[g] /\ inst[g].pin # inst[h].pin
    BY <1>6, <2>1
  <2>3. inst[g].pin \in Pins BY <2>1 DEF TypeOK, Instance
  <2>4. kirq'[inst[g].pin] = kirq[inst[g].pin]
    BY <1>4, <2>2, <2>3 DEF TypeOK
  <2>5. handler'[inst'[g].signo]
    BY <1>12, <2>1 DEF SignalsDealt, Assigned
  <2> QED BY <1>11, <2>1, <2>2, <2>4, <2>5 DEF StaysArmed, Live
<1>14. IrqsServed'
  <2> SUFFICES ASSUME lapses' = {}, ~SignalsReused' PROVE IrqsServed'
    BY DEF IrqsServed, IrqServed
  <2>1. lapses = {} /\ ~SignalsReused BY <1>4, <1>11
  <2>2. \A g \in Handles \ {h} : \A q, s : ServesIrq(g, q, s) => ServesIrq(g, q, s)'
    BY <1>7 DEF ServesIrq
  <2>3. ASSUME NEW q \in Pins, kirq'[q] # NULL PROVE IrqServed(q)'
    <3>1. q # inst[h].pin /\ kirq'[q] = kirq[q] BY <1>1, <1>4, <2>3 DEF TypeOK
    <3>2. kirq[q].of \in Handles BY <2>3, <3>1 DEF TypeOK, Interrupt
    <3>3. ServesIrq(kirq[q].of, q, kirq[q].sig)
      BY <2>1, <2>3, <3>1 DEF IrqsServed, IrqServed
    <3>4. kirq[q].of # h BY <3>1, <3>3 DEF ServesIrq
    <3> QED BY <2>2, <3>1, <3>2, <3>3, <3>4 DEF IrqServed
  <2>4. ASSUME NEW m \in pending PROVE \E q \in Pins : ServesIrq(m.of, q, m.sig)'
    <3>1. PICK q \in Pins : ServesIrq(m.of, q, m.sig) BY <2>1 DEF IrqsServed, IrqServed
    <3>2. m.of \in Handles BY DEF TypeOK
    <3>3. m.of # h BY <1>4, <3>1 DEF ServesIrq
    <3> QED BY <2>2, <3>1, <3>2, <3>3
  <2>5. \A g \in Handles : pc'[g] = "closing" => ~inst'[g].irq
    BY <1>7, <2>1 DEF IrqsServed, IrqServed
  <2> QED BY <1>4, <2>3, <2>4, <2>5 DEF IrqsServed, IrqServed
<1> HIDE DEF GpioInv
<1> QED BY <1>4, <1>6, <1>8, <1>9, <1>10, <1>12, <1>13, <1>14, IrqStepKeeps

\* A registration the kernel refuses takes its handler away again.
LEMMA RegisterFailsKeeps ==
    ASSUME GpioInv, NEW h \in Handles, RegisterFails(h)
    PROVE  GpioInv'
<1> USE DEF GpioInv
<1>1. /\ pc[h] = "signal" /\ inst[h] # NULL /\ ~inst[h].irq /\ goal[h] = NULL
      /\ handler' = [handler EXCEPT ![inst[h].signo] = FALSE]
      /\ pc' = [pc EXCEPT ![h] = "idle"]
      /\ UNCHANGED <<fd, refCnt, inst, goal, latch, kmode, doubt, registerCnt, seenCnt, kirq,
                     pending, lapses>>
  BY DEF RegisterFails, DropHandler, descriptor, levels, CallsFit
<1>2. pc'[h] = "idle" /\ \A g \in Handles \ {h} : pc'[g] = pc[g] BY <1>1 DEF TypeOK
<1>3. TypeOK' BY <1>1 DEF TypeOK
<1>4. CallsFit' BY <1>1, <1>2 DEF CallsFit
<1>5. KeepsMemory BY <1>1 DEF KeepsMemory
<1>6. SignalsReused' <=> SignalsReused BY <1>1 DEF SignalsReused
<1>7. SignalsDealt'
  <2>1. Assigned(h) BY <1>1 DEF Assigned
  <2>2. ~Assigned(h)' BY <1>1, <1>2 DEF Assigned
  <2>3. \A g \in Handles \ {h} : Assigned(g)' <=> Assigned(g) BY <1>1, <1>2 DEF Assigned
  <2> QED BY <1>1, <1>6, <2>1, <2>2, <2>3, HandlerMayGo
<1>8. StaysArmed'
  <2>1. \A g \in Live' : g \in Live /\ (inst'[g].irq => Assigned(g)')
    BY <1>1 DEF Live, Assigned
  <2> QED BY <1>1, <1>6, <1>7, <2>1 DEF StaysArmed, SignalsDealt, Live
<1>9. IrqsServed' BY <1>1, <1>2, <1>6 DEF IrqsServed, IrqServed, ServesIrq
<1> HIDE DEF GpioInv
<1> QED BY <1>1, <1>3, <1>4, <1>5, <1>7, <1>8, <1>9, IrqStepKeeps

\* The kernel sets the interrupt for the instance that asked.
LEMMA RegisterDoneKeeps ==
    ASSUME GpioInv, NEW h \in Handles, RegisterDone(h)
    PROVE  GpioInv'
<1> USE HandlesAssumption DEF HandlesAssumption, GpioInv
<1> DEFINE y == [inst[h] EXCEPT !.irq = TRUE]
<1> DEFINE k == [of |-> h, sig |-> inst[h].signo, on |-> FALSE]
<1>1. /\ inst[h] \in Instance /\ inst[h] # NULL /\ ~inst[h].irq /\ pc[h] = "signal" /\ goal[h] = NULL
      /\ inst[h].pin \in Pins /\ inst[h].signo \in Signos
  BY DEF RegisterDone, TypeOK, CallsFit, Instance
<1>2. /\ y \in Instance /\ y.irq /\ y.pin = inst[h].pin /\ y.signo = inst[h].signo
      /\ y.val = inst[h].val /\ y.mode = inst[h].mode
      /\ k \in Interrupt /\ k.of = h /\ k.sig = inst[h].signo
  BY <1>1 DEF Instance, Interrupt
<1>3. inst' = [inst EXCEPT ![h] = y] /\ kirq' = [kirq EXCEPT ![inst[h].pin] = k]
  BY DEF RegisterDone, TypeOK
<1> HIDE DEF y, k
<1>4. /\ doubt' = Doubts(h, "irq") /\ pc' = [pc EXCEPT ![h] = "idle"]
      /\ UNCHANGED <<fd, refCnt, goal, latch, kmode, registerCnt, seenCnt, handler, pending, lapses>>
  BY DEF RegisterDone, descriptor
<1>5. /\ doubt' \in [Handles -> SUBSET {"level", "mode", "irq"}]
      /\ \A g \in Handles : \A d \in {"level", "mode"} : d \in doubt[g] => d \in doubt'[g]
      /\ \A g \in Handles \ {h} :
            /\ doubt[g] \subseteq doubt'[g]
            /\ inst[g] # NULL /\ inst[g].pin = inst[h].pin => "irq" \in doubt'[g]
  BY <1>1, <1>4, DoubtsAre
<1>6. /\ inst'[h] = y /\ y # NULL /\ pc'[h] = "idle"
      /\ \A g \in Handles \ {h} : inst'[g] = inst[g] /\ pc'[g] = pc[g]
      /\ kirq'[inst[h].pin] = k /\ k # NULL
      /\ \A q \in Pins \ {inst[h].pin} : kirq'[q] = kirq[q]
  BY <1>1, <1>2, <1>3, <1>4 DEF TypeOK
<1>7. TypeOK' BY <1>1, <1>2, <1>3, <1>4, <1>5 DEF TypeOK
<1>8. CallsFit' BY <1>1, <1>2, <1>4, <1>6 DEF CallsFit
<1>9. KeepsMemory BY <1>1, <1>2, <1>6 DEF KeepsMemory
<1>10. SignalsReused' <=> SignalsReused BY <1>4 DEF SignalsReused
<1>11. SignalsDealt'
  <2>1. \A g \in Handles : (Assigned(g)' <=> Assigned(g)) /\ (Assigned(g) => inst'[g].signo = inst[g].signo)
    BY <1>1, <1>2, <1>6 DEF Assigned
  <2> QED BY <1>4, <1>10, <2>1 DEF SignalsDealt
<1>12. StaysArmed'
  <2> SUFFICES ASSUME NEW g \in Live', inst'[g].irq, "irq" \notin doubt'[g], ~SignalsReused'
               PROVE  /\ kirq'[inst'[g].pin] # NULL
                      /\ kirq'[inst'[g].pin].of = g
                      /\ kirq'[inst'[g].pin].sig = inst'[g].signo
                      /\ handler'[inst'[g].signo]
    BY DEF StaysArmed
  <2>1. g \in Handles /\ Assigned(g)' BY DEF Live, Assigned
  <2>2. handler'[inst'[g].signo] BY <1>11, <2>1 DEF SignalsDealt
  <2>3. CASE g = h BY <1>2, <1>6, <2>2, <2>3
  <2>4. CASE g # h
    <3>1. inst[g] # NULL /\ inst'[g] = inst[g] BY <1>6, <2>1, <2>4 DEF Live
    <3>2. "irq" \notin doubt[g] /\ inst[g].pin # inst[h].pin BY <1>5, <2>1, <2>4, <3>1
    <3>3. inst[g].pin \in Pins BY <2>1, <3>1 DEF TypeOK, Instance
    <3> QED BY <1>4, <1>6, <1>10, <2>1, <2>4, <3>1, <3>2, <3>3 DEF StaysArmed, Live
  <2> QED BY <2>3, <2>4
<1>13. IrqsServed'
  <2> SUFFICES ASSUME lapses = {}, ~SignalsReused PROVE IrqsServed'
    BY <1>4, <1>10 DEF IrqsServed, IrqServed
  <2>1. \A g \in Handles : \A q, s : ServesIrq(g, q, s) => ServesIrq(g, q, s)'
    BY <1>1, <1>6 DEF ServesIrq
  <2>2. \A q \in Pins : kirq[q] # NULL => kirq[q].of \in Handles BY DEF TypeOK, Interrupt
  <2>3. ServesIrq(h, inst[h].pin, inst[h].signo)'
    BY <1>2, <1>6 DEF ServesIrq
  <2>4. \A q \in Pins : IrqServed(q)'
    BY <1>2, <1>6, <2>1, <2>2, <2>3 DEF IrqsServed, IrqServed
  <2>5. \A m \in pending : m.of \in Handles BY DEF TypeOK
  <2>6. \A g \in Handles : pc'[g] = "closing" => ~inst'[g].irq
    BY <1>6 DEF IrqsServed, IrqServed
  <2> QED BY <1>4, <2>1, <2>4, <2>5, <2>6 DEF IrqsServed, IrqServed
<1> HIDE DEF GpioInv
<1> QED BY <1>4, <1>5, <1>7, <1>8, <1>9, <1>11, <1>12, <1>13, IrqStepKeeps

\* A registration deals itself the signal of the count it read: a fresh one, unless
\* the count has come round or another registration read it too.
LEMMA TakesSignalKeeps ==
    ASSUME GpioInv, NEW h \in Handles, RegisterTakesSignal(h)
    PROVE  GpioInv'
<1> USE HandlesAssumption, SignalsAssumption DEF HandlesAssumption, SignalsAssumption, GpioInv
<1> DEFINE s == seenCnt[h] % NSignals
<1> DEFINE y == [inst[h] EXCEPT !.signo = s]
<1>1. /\ inst[h] \in Instance /\ inst[h] # NULL /\ ~inst[h].irq /\ pc[h] = "counting" /\ goal[h] = NULL
      /\ seenCnt[h] \in Nat
  BY DEF RegisterTakesSignal, TypeOK, CallsFit
<1>2. s \in Signos /\ (seenCnt[h] < NSignals => s = seenCnt[h])
  BY <1>1 DEF Signos
<1> HIDE DEF s
<1>3. /\ y \in Instance /\ ~y.irq /\ y.pin = inst[h].pin /\ y.signo = s
      /\ y.val = inst[h].val /\ y.mode = inst[h].mode
  BY <1>1, <1>2 DEF Instance
<1>4. inst' = [inst EXCEPT ![h] = y] /\ handler' = [handler EXCEPT ![s] = TRUE]
  BY DEF RegisterTakesSignal, TypeOK, s
<1> HIDE DEF y
<1>5. /\ registerCnt' = seenCnt[h] + 1
      /\ lapses \subseteq lapses' /\ (registerCnt # seenCnt[h] => "raced" \in lapses')
      /\ pc' = [pc EXCEPT ![h] = "signal"]
      /\ seenCnt' = [seenCnt EXCEPT ![h] = 0]
      /\ UNCHANGED <<fd, refCnt, goal, latch, kmode, doubt, kirq, pending>>
  BY DEF RegisterTakesSignal, descriptor, levels
<1>6. lapses' \subseteq {"destroyed", "late", "raced"}
  BY DEF RegisterTakesSignal, TypeOK
<1>7. /\ inst'[h] = y /\ y # NULL /\ pc'[h] = "signal"
      /\ \A g \in Handles \ {h} : inst'[g] = inst[g] /\ pc'[g] = pc[g]
  BY <1>3, <1>4, <1>5 DEF TypeOK
<1>8. TypeOK' BY <1>1, <1>2, <1>3, <1>4, <1>5, <1>6 DEF TypeOK
<1>9. CallsFit' BY <1>1, <1>3, <1>5, <1>7 DEF CallsFit
<1>10. KeepsMemory BY <1>1, <1>3, <1>7 DEF KeepsMemory
<1>11. ~SignalsReused' => /\ ~SignalsReused
                          /\ registerCnt = seenCnt[h] /\ registerCnt' = registerCnt + 1
                          /\ s = registerCnt
  BY <1>1, <1>2, <1>5 DEF SignalsReused, TypeOK
<1>12. \A g \in Handles \ {h} : (Assigned(g)' <=> Assigned(g)) /\ (Assigned(g) => inst[g].signo \in Signos)
  BY <1>7 DEF Assigned, TypeOK, Instance
<1>13. SignalsDealt'
  <2> SUFFICES ASSUME ~SignalsReused' PROVE SignalsDealt'
    BY DEF SignalsDealt
  <2>1. \A g \in Handles \ {h} : Assigned(g) =>
            /\ inst[g].signo < registerCnt /\ inst[g].signo \in Nat
            /\ handler'[inst[g].signo]
    <3>1. \A g \in Handles \ {h} : Assigned(g) => inst[g].signo < registerCnt /\ handler[inst[g].signo]
      BY <1>11 DEF SignalsDealt
    <3> QED BY <1>4, <1>12, <3>1 DEF Signos, TypeOK
  <2>2. inst'[h].signo = registerCnt /\ handler'[inst'[h].signo]
    BY <1>2, <1>3, <1>4, <1>7, <1>11 DEF TypeOK
  <2>3. ASSUME NEW f \in Handles, NEW g \in Handles, Assigned(f)', Assigned(g)',
               inst'[f].signo = inst'[g].signo
        PROVE  f = g
    <3>1. CASE f # h /\ g # h
      BY <1>7, <1>11, <1>12, <2>3, <3>1 DEF SignalsDealt
    <3>2. CASE f = h \/ g = h
      BY <1>7, <1>12, <2>1, <2>2, <2>3, <3>2 DEF TypeOK
    <3> QED BY <3>1, <3>2
  <2>4. ASSUME NEW g \in Handles, Assigned(g)'
        PROVE  inst'[g].signo < registerCnt' /\ handler'[inst'[g].signo]
    <3>1. registerCnt \in Nat BY DEF TypeOK
    <3> QED BY <1>7, <1>11, <1>12, <2>1, <2>2, <2>4, <3>1
  <2> QED BY <2>3, <2>4 DEF SignalsDealt
<1>14. StaysArmed'
  <2> SUFFICES ASSUME NEW g \in Live', inst'[g].irq, "irq" \notin doubt'[g], ~SignalsReused'
               PROVE  /\ kirq'[inst'[g].pin] # NULL
                      /\ kirq'[inst'[g].pin].of = g
                      /\ kirq'[inst'[g].pin].sig = inst'[g].signo
                      /\ handler'[inst'[g].signo]
    BY DEF StaysArmed
  <2>1. g \in Handles \ {h} /\ inst[g] # NULL /\ inst'[g] = inst[g]
    BY <1>3, <1>7 DEF Live
  <2>2. handler'[inst'[g].signo] BY <1>13, <2>1 DEF SignalsDealt, Assigned
  <2> QED BY <1>5, <1>11, <2>1, <2>2 DEF StaysArmed, Live
<1>15. IrqsServed'
  <2> SUFFICES ASSUME lapses' = {}, ~SignalsReused' PROVE IrqsServed'
    BY DEF IrqsServed
  <2>1. lapses = {} /\ ~SignalsReused BY <1>5, <1>11
  <2>2. \A g \in Handles : \A q, t : ServesIrq(g, q, t) => ServesIrq(g, q, t)'
    BY <1>1, <1>7 DEF ServesIrq
  <2>3. \A q \in Pins : kirq[q] # NULL => kirq[q].of \in Handles BY DEF TypeOK, Interrupt
  <2>4. \A q \in Pins : IrqServed(q)'
    BY <1>5, <2>1, <2>2, <2>3 DEF IrqsServed, IrqServed
  <2>5. \A m \in pending : m.of \in Handles BY DEF TypeOK
  <2>6. \A g \in Handles : pc'[g] = "closing" => ~inst'[g].irq
    BY <1>7, <2>1 DEF IrqsServed
  <2> QED BY <1>5, <2>1, <2>2, <2>4, <2>5, <2>6 DEF IrqsServed
<1> HIDE DEF GpioInv
<1> QED BY <1>5, <1>8, <1>9, <1>10, <1>13, <1>14, <1>15, IrqStepKeeps

-----------------------------------------------------------------------------
\* Before the first create there is no descriptor and no instance.
LEMMA GpioStarts == Init => GpioInv
<1> SUFFICES ASSUME Init PROVE GpioInv OBVIOUS
<1> USE DEF Init
<1>1. TypeOK BY DEF TypeOK, Modes
<1>2. CallsFit BY DEF CallsFit
<1>3. CountIsHolders
  <2>1. Live = {} /\ Creating = {} BY DEF Live, Creating
  <2> QED BY <2>1, FS_EmptySet DEF CountIsHolders
<1>4. CachesExplained BY DEF CachesExplained, Live
<1>5. SignalsDealt BY DEF SignalsDealt, Assigned
<1>6. StaysArmed BY DEF StaysArmed, Live
<1>7. IrqsServed BY DEF IrqsServed, IrqServed
<1> QED BY <1>1, <1>2, <1>3, <1>4, <1>5, <1>6, <1>7 DEF GpioInv

\* A step of somebody else keeps the invariant.
LEMMA GpioStutters == ASSUME GpioInv, UNCHANGED vars PROVE GpioInv'
<1> USE DEF GpioInv, vars
<1>1. TypeOK' /\ CallsFit' BY DEF TypeOK, CallsFit
<1>2. CountIsHolders' /\ CachesExplained'
  BY DEF CountIsHolders, CachesExplained, Live, Creating
<1>3. SignalsDealt' /\ StaysArmed' /\ IrqsServed'
  BY RoleKept DEF KeepsRole
<1> QED BY <1>1, <1>2, <1>3

\* The invariant of the GPIO driver holds throughout.
LEMMA GpioAlways == Spec => []GpioInv
<1>1. ASSUME GpioInv, Next PROVE GpioInv'
  BY <1>1, ValueKeeps, ToggleKeeps, ModeKeeps, DestroyBeginsKeeps, CreateKeeps,
     DestroyClosesKeeps,
     SetIrqKeeps, SignalKeeps, RegisterBeginsKeeps, TakesSignalKeeps, RegisterDoneKeeps,
     RegisterFailsKeeps, UnregisterKeeps DEF Next, Operate
<1> QED BY <1>1, GpioStarts, GpioStutters, PTL DEF Spec

\* gpio_ref_cnt is the number of instances and of creates under way, and the
\* descriptor is open exactly while there is one: for any number of handles.
THEOREM DescriptorCounted == Spec => []CountIsHolders
BY GpioAlways, PTL DEF GpioInv

\* What an instance remembers of the level and the mode of its pin is true, unless
\* another instance of the pin, a failed toggle or an input has put it in doubt.
THEOREM CachesRight == Spec => []CachesExplained
BY GpioAlways, PTL DEF GpioInv

\* A registered instance keeps the interrupt it asked for, unless signals were dealt
\* out twice or another instance of the pin took it.
THEOREM ArmedStays == Spec => []StaysArmed
BY GpioAlways, PTL DEF GpioInv

\* A signal finds drv_gpio_sig_handler installed and its instance alive, for any
\* number of handles, unless an instance was destroyed while registered or
\* unregistered with a signal on its way, or signals were dealt out twice.
THEOREM GpioSignalsServed == Spec => []SignalsFindInstance
<1>1. ASSUME GpioInv PROVE SignalsFindInstance
  <2> SUFFICES ASSUME NEW m \in pending, lapses = {}, ~SignalsReused
               PROVE  handler[m.sig] /\ m.of \in Live
    BY DEF SignalsFindInstance
  <2>1. PICK p \in Pins : ServesIrq(m.of, p, m.sig) BY <1>1 DEF GpioInv, IrqsServed
  <2>2. m.of \in Handles BY <1>1 DEF GpioInv, TypeOK
  <2> QED BY <1>1, <2>1, <2>2 DEF GpioInv, ServesIrq, SignalsDealt, Assigned, Live
<1> QED BY <1>1, GpioAlways, PTL
=============================================================================
