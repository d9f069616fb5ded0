-------------------------- MODULE HalDriversProofs --------------------------
(***************************************************************************)
(* Drivers and the modem of the hardware abstraction layer, for any number *)
(* of handles, timers, signals and slots.  SpiBus: a transfer runs under   *)
(* the settings of its own handle, and cs_status tells the level of the    *)
(* chip select.  HalTimers: a signal finds its instance, and there is one  *)
(* software timer.  PmuKey: a press of the key is kept and the signal mask *)
(* restored.  ModemWake: a wake is bounded.  ModemAt: the AT channel stays *)
(* within its buffers and leaves nothing behind.  InputDevice: the buttons *)
(* are those of the present device.  The parts share no state; each has    *)
(* its own inductive invariant.                                            *)
(***************************************************************************)
EXTENDS SpiBus, HalTimers, PmuKey, ModemWake, ModemAt, InputDevice, TLAPS

Numbered(h) == spi[h] # NONE /\ spiPc[h] # "numbering"
Settled(h) == spi[h] # NONE /\ spiPc[h] \in {"idle", "unlocked"}

\* A handle in the middle of a call has its instance.
Alive == \A h \in SpiHandles : spiPc[h] # "idle" => spi[h] # NONE

\* handle_id tells handles apart as long as creates do not race.
IdsApart ==
    ~raced =>
        \A h \in SpiHandles : Numbered(h) =>
            /\ spi[h].id < idx
            /\ \A g \in SpiHandles : Numbered(g) /\ g # h => spi[g].id # spi[h].id

\* A create that is about to record the bus still has it.
ConfiguredServes ==
    ~raced =>
        \A h \in SpiHandles : spiPc[h] = "configured" =>
            Serves(h, spi[h]) /\ Unrecorded(h) = {}

\* g_handle_id is right: the handle it names finds its own settings, unless a
\* create has just replaced them.
OwnerServes ==
    ~raced =>
        \A h \in SpiHandles :
            Settled(h) /\ owner = spi[h].id /\ Unrecorded(h) = {}
              => Serves(h, spi[h])

SpiInv ==
    /\ SpiTypeOK /\ Alive
    /\ IdsApart /\ ConfiguredServes /\ OwnerServes
    /\ RunsUnderOwnSettings

\* One step of any handle keeps the invariant: the create that records the bus
\* still has it, and no other handle answers to the number it records.
LEMMA SpiStep ==
    ASSUME SpiInv, [SpiNext]_spiVars
    PROVE  SpiInv'
<1> USE SpiAssumption DEF SpiAssumption
<1> USE DEF SpiInv, SpiTypeOK, Alive, Numbered, Settled, Unrecorded
<1>1. ASSUME NEW h \in SpiHandles, CreateNumbers(h)
      PROVE  SpiInv'
  <2>1. SpiTypeOK'
    BY <1>1 DEF CreateNumbers, pins, SpiInstance
  <2>2. Alive'
    BY <1>1, <2>1 DEF CreateNumbers, pins, SpiInstance
  <2>3. IdsApart'
    <3> SUFFICES ASSUME ~raced' PROVE IdsApart'
      BY DEF IdsApart
    <3>1. ~raced /\ idx = seen[h] /\ idx' = idx + 1
      BY <1>1 DEF CreateNumbers
    <3>2. spi'[h] # NONE => spi'[h].id = idx
      BY <1>1, <3>1, <2>1 DEF CreateNumbers, SpiInstance
    <3>3. ASSUME NEW g \in SpiHandles, g # h, Numbered(g)'
          PROVE  Numbered(g) /\ spi'[g] = spi[g] /\ spi[g].id < idx /\ spi[g].id \in Nat
      BY <1>1, <3>1, <3>3 DEF CreateNumbers, IdsApart, SpiInstance
    <3>4. ASSUME NEW f \in SpiHandles, NEW g \in SpiHandles,
                 f # g, Numbered(f)', Numbered(g)'
          PROVE  spi'[f].id # spi'[g].id
      BY <3>1, <3>2, <3>3, <3>4 DEF IdsApart
    <3>5. ASSUME NEW g \in SpiHandles, Numbered(g)'
          PROVE  spi'[g].id < idx'
      BY <3>1, <3>2, <3>3, <3>5
    <3> QED BY <3>4, <3>5 DEF IdsApart
  <2>4. ConfiguredServes'
    BY <1>1, <2>1 DEF CreateNumbers, pins, ConfiguredServes, Serves, SpiInstance
  <2>5. OwnerServes'
    BY <1>1, <2>1 DEF CreateNumbers, pins, OwnerServes, Serves, SpiInstance
  <2>6. RunsUnderOwnSettings'
    BY <1>1, <2>1 DEF CreateNumbers, pins, RunsUnderOwnSettings, Serves, SpiInstance
  <2> QED BY <2>1, <2>2, <2>3, <2>4, <2>5, <2>6
<1>2. ASSUME NEW h \in SpiHandles, CreateConfigures(h)
      PROVE  SpiInv'
  <2>1. SpiTypeOK'
    BY <1>2 DEF CreateConfigures, Configure, Config, pins, SpiInstance
  <2>2. Alive'
    BY <1>2, <2>1 DEF CreateConfigures, Configure, Config, pins, SpiInstance
  <2>3. IdsApart'
    BY <1>2, <2>1 DEF CreateConfigures, Configure, Config, pins, IdsApart,
           SpiInstance
  <2>4. ConfiguredServes'
    <3> SUFFICES ASSUME ~raced' PROVE ConfiguredServes'
      BY DEF ConfiguredServes
    <3>1. \A g \in SpiHandles \ {h} : spiPc[g] # "configured" /\ spiPc'[g] # "configured"
      BY <1>2 DEF CreateConfigures, Configure
    <3>2. Serves(h, spi[h])'
      BY <1>2 DEF CreateConfigures, Configure, Config, Serves
    <3> QED BY <3>1, <3>2 DEF ConfiguredServes
  <2>5. OwnerServes'
    BY <1>2, <2>1 DEF CreateConfigures, Configure, Config, pins, OwnerServes,
           Serves, SpiInstance
  <2>6. RunsUnderOwnSettings'
    BY <1>2, <2>1 DEF CreateConfigures, Configure, Config, pins,
           RunsUnderOwnSettings, Serves, SpiInstance
  <2> QED BY <2>1, <2>2, <2>3, <2>4, <2>5, <2>6
<1>3. ASSUME NEW h \in SpiHandles, SpiCreateFails(h)
      PROVE  SpiInv'
  <2>1. SpiTypeOK'
    BY <1>3 DEF SpiCreateFails, bus, pins, SpiInstance
  <2>2. Alive'
    BY <1>3, <2>1 DEF SpiCreateFails, bus, pins, SpiInstance
  <2>3. IdsApart'
    BY <1>3, <2>1 DEF SpiCreateFails, bus, pins, IdsApart, SpiInstance
  <2>4. ConfiguredServes'
    BY <1>3, <2>1 DEF SpiCreateFails, bus, pins, ConfiguredServes, Serves,
           SpiInstance
  <2>5. OwnerServes'
    BY <1>3, <2>1 DEF SpiCreateFails, bus, pins, OwnerServes, Serves, SpiInstance
  <2>6. RunsUnderOwnSettings'
    BY <1>3, <2>1 DEF SpiCreateFails, bus, pins, RunsUnderOwnSettings, Serves,
           SpiInstance
  <2> QED BY <2>1, <2>2, <2>3, <2>4, <2>5, <2>6
<1>4. ASSUME NEW h \in SpiHandles, CreateRecords(h)
      PROVE  SpiInv'
  <2>1. SpiTypeOK'
    BY <1>4 DEF CreateRecords, pins, SpiInstance
  <2>2. Alive'
    BY <1>4, <2>1 DEF CreateRecords, pins, SpiInstance
  <2>3. IdsApart'
    BY <1>4, <2>1 DEF CreateRecords, pins, IdsApart, SpiInstance
  <2>4. ConfiguredServes'
    BY <1>4, <2>1 DEF CreateRecords, pins, ConfiguredServes, Serves, SpiInstance
  <2>5. OwnerServes'
    <3> SUFFICES ASSUME ~raced', NEW g \in SpiHandles, Settled(g)',
                        owner' = spi'[g].id
                 PROVE  Serves(g, spi[g])'
      BY DEF OwnerServes
    <3>1. /\ ~raced /\ owner' = spi[h].id /\ spi'[g].id = spi[g].id
          /\ Numbered(g) /\ Numbered(h)
      BY <1>4, <2>1 DEF CreateRecords, SpiInstance
    <3>2. g = h
      BY <3>1 DEF IdsApart
    <3> QED BY <1>4, <3>1, <3>2 DEF CreateRecords, ConfiguredServes, Serves
  <2>6. RunsUnderOwnSettings'
    BY <1>4, <2>1 DEF CreateRecords, pins, RunsUnderOwnSettings, Serves, SpiInstance
  <2> QED BY <2>1, <2>2, <2>3, <2>4, <2>5, <2>6
<1>5. ASSUME NEW h \in SpiHandles, Destroy(h)
      PROVE  SpiInv'
  <2>1. SpiTypeOK'
    BY <1>5 DEF Destroy, SpiReady, bus, SpiInstance
  <2>2. Alive'
    BY <1>5, <2>1 DEF Destroy, SpiReady, bus, SpiInstance
  <2>3. IdsApart'
    BY <1>5, <2>1 DEF Destroy, SpiReady, bus, IdsApart, SpiInstance
  <2>4. ConfiguredServes'
    BY <1>5, <2>1 DEF Destroy, SpiReady, bus, ConfiguredServes, Serves, SpiInstance
  <2>5. OwnerServes'
    BY <1>5, <2>1 DEF Destroy, SpiReady, bus, OwnerServes, Serves, SpiInstance
  <2>6. RunsUnderOwnSettings'
    BY <1>5, <2>1 DEF Destroy, SpiReady, bus, RunsUnderOwnSettings, Serves,
           SpiInstance
  <2> QED BY <2>1, <2>2, <2>3, <2>4, <2>5, <2>6
<1>6. ASSUME NEW h \in SpiHandles, NEW b \in BOOLEAN, SetCsPolarityFails(h, b)
      PROVE  SpiInv'
  <2>1. SpiTypeOK'
    BY <1>6 DEF SetCsPolarityFails, SpiReady, bus, SpiInstance
  <2>2. Alive'
    BY <1>6, <2>1 DEF SetCsPolarityFails, SpiReady, bus, SpiInstance
  <2>3. IdsApart'
    BY <1>6, <2>1 DEF SetCsPolarityFails, SpiReady, bus, IdsApart, SpiInstance
  <2>4. ConfiguredServes'
    BY <1>6, <2>1 DEF SetCsPolarityFails, SpiReady, bus, ConfiguredServes, Serves,
           SpiInstance
  <2>5. OwnerServes'
    BY <1>6, <2>1 DEF SetCsPolarityFails, SpiReady, bus, OwnerServes, Serves,
           SpiInstance
  <2>6. RunsUnderOwnSettings'
    BY <1>6, <2>1 DEF SetCsPolarityFails, SpiReady, bus, RunsUnderOwnSettings,
           Serves, SpiInstance
  <2> QED BY <2>1, <2>2, <2>3, <2>4, <2>5, <2>6
<1>7. ASSUME NEW h \in SpiHandles, NEW s \in Settings, NEW hi \in BOOLEAN,
             NEW has \in BOOLEAN, CreateBegins(h, s, hi, has)
      PROVE  SpiInv'
  <2>1. SpiTypeOK'
    BY <1>7 DEF CreateBegins, SpiInstance
  <2>2. Alive'
    <3>1. [id |-> 0, set |-> s, hi |-> hi, pin |-> has, hw |-> has, cs |-> FALSE]
            \in SpiInstance
      BY DEF SpiInstance
    <3> QED BY <1>7, <3>1 DEF CreateBegins
  <2>3. IdsApart'
    BY <1>7, <2>1 DEF CreateBegins, IdsApart, SpiInstance
  <2>4. ConfiguredServes'
    BY <1>7, <2>1 DEF CreateBegins, ConfiguredServes, Serves, SpiInstance
  <2>5. OwnerServes'
    BY <1>7, <2>1 DEF CreateBegins, OwnerServes, Serves, SpiInstance
  <2>6. RunsUnderOwnSettings'
    BY <1>7, <2>1 DEF CreateBegins, RunsUnderOwnSettings, Serves, SpiInstance
  <2> QED BY <2>1, <2>2, <2>3, <2>4, <2>5, <2>6
<1>8. ASSUME NEW h \in SpiHandles, NEW r \in Requests, TransferLocks(h, r)
      PROVE  SpiInv'
  <2>1. SpiTypeOK'
    <3>1. spi[h].id \in Nat
      BY <1>8 DEF TransferLocks, SpiReady, SpiInstance
    <3>2. raced' \in BOOLEAN /\ overtaken' \subseteq SpiHandles
      BY <1>8, Zenon DEF TransferLocks, Configure
    <3> QED BY <1>8, <3>1, <3>2 DEF TransferLocks
  <2>2. Alive'
    BY <1>8, <2>1 DEF TransferLocks, Configure, Config, SpiReady, pins, SpiInstance
  <2>3. IdsApart'
    BY <1>8, <2>1 DEF TransferLocks, Configure, Config, SpiReady, pins, IdsApart,
           SpiInstance
  <2>4. ConfiguredServes'
    BY <1>8, <2>1 DEF TransferLocks, Configure, Config, SpiReady, pins,
           ConfiguredServes, Serves, SpiInstance
  <2>5. OwnerServes'
    <3>1. CASE owner # spi[h].id
      BY <1>8, <3>1, <2>1 DEF TransferLocks, Configure, Config, SpiReady,
             OwnerServes, IdsApart, Serves
    <3>2. CASE owner = spi[h].id
      BY <1>8, <3>2, <2>1 DEF TransferLocks, SpiReady, OwnerServes, Serves
    <3> QED BY <3>1, <3>2
  <2>6. RunsUnderOwnSettings'
    <3>1. CASE owner # spi[h].id
      BY <1>8, <3>1, <2>1 DEF TransferLocks, Configure, Config, SpiReady,
             RunsUnderOwnSettings, Serves
    <3>2. CASE owner = spi[h].id
      BY <1>8, <3>2, <2>1 DEF TransferLocks, SpiReady, RunsUnderOwnSettings,
             OwnerServes, Serves
    <3> QED BY <3>1, <3>2
  <2> QED BY <2>1, <2>2, <2>3, <2>4, <2>5, <2>6
<1>9. ASSUME NEW h \in SpiHandles, NEW done \in BOOLEAN, TransferRuns(h, done)
      PROVE  SpiInv'
  <2>1. SpiTypeOK'
    <3>1. spi[h] \in SpiInstance
      BY <1>9 DEF TransferRuns
    <3>2. CsStatus(h) \in BOOLEAN
      BY <3>1, Zenon DEF CsStatus, SpiInstance
    <3>3. [spi[h] EXCEPT !.cs = CsStatus(h)] \in SpiInstance
      BY <3>1, <3>2 DEF SpiInstance
    <3> QED BY <1>9, <3>3 DEF TransferRuns, bus
  <2>2. Alive'
    BY <1>9, <2>1 DEF TransferRuns, CsStatus, bus, SpiInstance
  <2>3. IdsApart'
    BY <1>9, <2>1 DEF TransferRuns, CsStatus, bus, IdsApart, SpiInstance
  <2>4. ConfiguredServes'
    BY <1>9, <2>1 DEF TransferRuns, CsStatus, bus, ConfiguredServes, Serves,
           SpiInstance
  <2>5. OwnerServes'
    BY <1>9, <2>1 DEF TransferRuns, CsStatus, bus, OwnerServes, Serves, SpiInstance
  <2>6. RunsUnderOwnSettings'
    BY <1>9, <2>1 DEF TransferRuns, CsStatus, bus, RunsUnderOwnSettings, Serves,
           SpiInstance
  <2> QED BY <2>1, <2>2, <2>3, <2>4, <2>5, <2>6
<1>10. ASSUME NEW h \in SpiHandles, NEW s \in Settings, SetSettings(h, s)
      PROVE  SpiInv'
  <2>1. SpiTypeOK'
    BY <1>10 DEF SetSettings, Update, Configure, UpdateConfig, SpiReady, pins,
           SpiInstance
  <2>2. Alive'
    BY <1>10, <2>1 DEF SetSettings, Update, Configure, UpdateConfig, SpiReady, pins,
           SpiInstance
  <2>3. IdsApart'
    BY <1>10, <2>1 DEF SetSettings, Update, Configure, UpdateConfig, SpiReady, pins,
           IdsApart, SpiInstance
  <2>4. ConfiguredServes'
    BY <1>10, <2>1 DEF SetSettings, Update, Configure, UpdateConfig, SpiReady, pins,
           ConfiguredServes, Serves, SpiInstance
  <2>5. OwnerServes'
    <3> SUFFICES ASSUME ~raced', NEW g \in SpiHandles, Settled(g)',
                        owner' = spi'[g].id
                 PROVE  Serves(g, spi[g])'
      BY DEF OwnerServes
    <3>1. /\ ~raced /\ owner' = spi[h].id /\ spi'[g].id = spi[g].id
          /\ Numbered(g) /\ Numbered(h)
      BY <1>10, <2>1 DEF SetSettings, Update, Configure, UpdateConfig, SpiReady,
             SpiInstance
    <3>2. g = h
      BY <3>1 DEF IdsApart
    <3> QED BY <1>10, <3>1, <3>2 DEF SetSettings, Update, Configure, UpdateConfig,
           SpiReady, Serves, SpiInstance
  <2>6. RunsUnderOwnSettings'
    BY <1>10, <2>1 DEF SetSettings, Update, Configure, UpdateConfig, SpiReady, pins,
           RunsUnderOwnSettings, Serves, SpiInstance
  <2> QED BY <2>1, <2>2, <2>3, <2>4, <2>5, <2>6
<1>11. ASSUME NEW h \in SpiHandles, NEW b \in BOOLEAN, SetCsMode(h, b)
      PROVE  SpiInv'
  <2>1. SpiTypeOK'
    BY <1>11 DEF SetCsMode, Update, Configure, UpdateConfig, SpiReady, pins,
           SpiInstance
  <2>2. Alive'
    BY <1>11, <2>1 DEF SetCsMode, Update, Configure, UpdateConfig, SpiReady, pins,
           SpiInstance
  <2>3. IdsApart'
    BY <1>11, <2>1 DEF SetCsMode, Update, Configure, UpdateConfig, SpiReady, pins,
           IdsApart, SpiInstance
  <2>4. ConfiguredServes'
    BY <1>11, <2>1 DEF SetCsMode, Update, Configure, UpdateConfig, SpiReady, pins,
           ConfiguredServes, Serves, SpiInstance
  <2>5. OwnerServes'
    <3> SUFFICES ASSUME ~raced', NEW g \in SpiHandles, Settled(g)',
                        owner' = spi'[g].id
                 PROVE  Serves(g, spi[g])'
      BY DEF OwnerServes
    <3>1. /\ ~raced /\ owner' = spi[h].id /\ spi'[g].id = spi[g].id
          /\ Numbered(g) /\ Numbered(h)
      BY <1>11, <2>1 DEF SetCsMode, Update, Configure, UpdateConfig, SpiReady,
             SpiInstance
    <3>2. g = h
      BY <3>1 DEF IdsApart
    <3> QED BY <1>11, <3>1, <3>2 DEF SetCsMode, Update, Configure, UpdateConfig,
           SpiReady, Serves, SpiInstance
  <2>6. RunsUnderOwnSettings'
    BY <1>11, <2>1 DEF SetCsMode, Update, Configure, UpdateConfig, SpiReady, pins,
           RunsUnderOwnSettings, Serves, SpiInstance
  <2> QED BY <2>1, <2>2, <2>3, <2>4, <2>5, <2>6
<1>12. ASSUME NEW h \in SpiHandles, NEW b \in BOOLEAN, SetCsPolarity(h, b)
      PROVE  SpiInv'
  <2>1. SpiTypeOK'
    BY <1>12 DEF SetCsPolarity, Update, Configure, UpdateConfig, SpiReady,
           SpiInstance
  <2>2. Alive'
    BY <1>12, <2>1 DEF SetCsPolarity, Update, Configure, UpdateConfig, SpiReady,
           SpiInstance
  <2>3. IdsApart'
    BY <1>12, <2>1 DEF SetCsPolarity, Update, Configure, UpdateConfig, SpiReady,
           IdsApart, SpiInstance
  <2>4. ConfiguredServes'
    BY <1>12, <2>1 DEF SetCsPolarity, Update, Configure, UpdateConfig, SpiReady,
           ConfiguredServes, Serves, SpiInstance
  <2>5. OwnerServes'
    <3> SUFFICES ASSUME ~raced', NEW g \in SpiHandles, Settled(g)',
                        owner' = spi'[g].id
                 PROVE  Serves(g, spi[g])'
      BY DEF OwnerServes
    <3>1. /\ ~raced /\ owner' = spi[h].id /\ spi'[g].id = spi[g].id
          /\ Numbered(g) /\ Numbered(h)
      BY <1>12, <2>1 DEF SetCsPolarity, Update, Configure, UpdateConfig, SpiReady,
             SpiInstance
    <3>2. g = h
      BY <3>1 DEF IdsApart
    <3> QED BY <1>12, <3>1, <3>2 DEF SetCsPolarity, Update, Configure, UpdateConfig,
           SpiReady, Serves, SpiInstance
  <2>6. RunsUnderOwnSettings'
    BY <1>12, <2>1 DEF SetCsPolarity, Update, Configure, UpdateConfig, SpiReady,
           RunsUnderOwnSettings, Serves, SpiInstance
  <2> QED BY <2>1, <2>2, <2>3, <2>4, <2>5, <2>6
<1>13. CASE UNCHANGED spiVars
  BY <1>13 DEF spiVars, IdsApart, ConfiguredServes, OwnerServes,
         RunsUnderOwnSettings, Serves
<1> QED
  BY <1>1, <1>2, <1>3, <1>4, <1>5, <1>6, <1>7, <1>8, <1>9, <1>10, <1>11, <1>12,
         <1>13 DEF SpiNext, SpiOperate

\* The driver starts with no instance and nobody's bus.
LEMMA SpiStart == SpiInit => SpiInv
<1> USE SpiAssumption DEF SpiAssumption
<1> SUFFICES ASSUME SpiInit PROVE SpiInv
  OBVIOUS
<1>1. SpiTypeOK
  BY DEF SpiInit, SpiTypeOK
<1>2. Alive /\ IdsApart /\ ConfiguredServes /\ OwnerServes /\ RunsUnderOwnSettings
  BY DEF SpiInit, Alive, IdsApart, ConfiguredServes, OwnerServes,
         RunsUnderOwnSettings, Numbered, Settled
<1> QED BY <1>1, <1>2 DEF SpiInv

\* g_handle_id is right whenever creates did not race, with the invariants
\* that keep it so.
THEOREM SpiInvariance == SpiSpec => []SpiInv
BY SpiStart, SpiStep, PTL DEF SpiSpec

\* A transfer runs under the settings of its own handle, for any number of
\* handles and any settings, unless it was overtaken or creates raced.
THEOREM OwnSettings == SpiSpec => []RunsUnderOwnSettings
<1>1. SpiInv => RunsUnderOwnSettings
  BY DEF SpiInv
<1> QED
  BY <1>1, SpiInvariance, PTL

-----------------------------------------------------------------------------
\* What cs_status is about: the lines, what gpio_cs remembers and the request
\* of a transfer.
CsTypeOK ==
    /\ line \in [SpiHandles -> {0, 1}]
    /\ curr_val \in [SpiHandles -> {-1, 0, 1}]
    /\ req \in [SpiHandles -> Requests]
    /\ kcfg.hi \in BOOLEAN

\* What cs_status says, in the middle of a call too.
CsKnown(h) ==
    spi[h] # NONE /\ spi[h].pin /\ h \notin csDoubt
      => (spi[h].cs <=> line[h] = Active(spi[h].hi))

\* gpio_cs remembers nothing at first and then the inactive level, so that a change
\* of polarity writes.
RemembersInactive(h) ==
    /\ spi[h] = NONE => curr_val[h] = -1
    /\ spi[h] # NONE /\ spi[h].pin /\ h \notin csDoubt
         => curr_val[h] = Inactive(spi[h].hi)

\* A transfer takes the chip select exactly if it is not selected.
TakesUnselected(h) ==
    spiPc[h] = "unlocked" /\ ~req[h].message
      => (req[h].take <=> spi[h].pin /\ ~spi[h].cs)

CsInv ==
    /\ CsTypeOK
    /\ \A h \in SpiHandles : CsKnown(h) /\ RemembersInactive(h) /\ TakesUnselected(h)

\* The two levels of a chip select differ.
LEMMA Levels ==
    \A hi \in BOOLEAN :
        Active(hi) # Inactive(hi) /\ {Active(hi), Inactive(hi)} \subseteq {0, 1}
BY DEF Active, Inactive

\* What an instance of the SPI driver holds.
LEMMA SpiInstances ==
    \A x \in SpiInstance : x # NONE /\ x.hi \in BOOLEAN /\ x.pin \in BOOLEAN /\ x.cs \in BOOLEAN
BY SpiAssumption DEF SpiAssumption, SpiInstance

\* A handle whose instance, line, memory, request and standing stay.
Untouched(g) ==
    /\ spi'[g] = spi[g] /\ line'[g] = line[g] /\ curr_val'[g] = curr_val[g]
    /\ req'[g] = req[g] /\ spiPc'[g] = spiPc[g] /\ (g \in csDoubt => g \in csDoubt')

\* A handle that a step leaves alone keeps what is known of its chip select.
LEMMA UntouchedKeeps ==
    ASSUME CsInv, NEW g \in SpiHandles, Untouched(g)
    PROVE  CsKnown(g)' /\ RemembersInactive(g)' /\ TakesUnselected(g)'
BY DEF CsInv, Untouched, CsKnown, RemembersInactive, TakesUnselected

\* What drv_gpio_value_set makes of a pin.
LEMMA ValueSet ==
    ASSUME NEW l \in {0, 1}, NEW c \in {-1, 0, 1}, NEW v \in {0, 1},
           NEW p \in GpioValueSet(l, c, v)
    PROVE  p = <<l, c>> \/ p = <<v, v>>
BY DEF GpioValueSet

\* After the level v was asked for, a chip select that is not in doubt has it
\* remembered, and is at it while cs_status is inactive or was not touched.
LEMMA PinLeftKeeps ==
    ASSUME CsTypeOK, NEW h \in SpiHandles, NEW l \in {0, 1}, NEW c \in {-1, 0, 1},
           NEW v \in {0, 1}, NEW selected \in BOOLEAN, PinLeft(h, <<l, c>>, v, selected)
    PROVE  /\ line' \in [SpiHandles -> {0, 1}]
           /\ curr_val' \in [SpiHandles -> {-1, 0, 1}]
           /\ \A g \in SpiHandles \ {h} :
                /\ line'[g] = line[g] /\ curr_val'[g] = curr_val[g]
                /\ g \in csDoubt => g \in csDoubt'
           /\ h \notin csDoubt' =>
                /\ curr_val'[h] = v
                /\ \/ ~selected /\ line'[h] = v
                   \/ h \notin csDoubt /\ curr_val[h] = v /\ line'[h] = line[h]
<1>1. /\ line' = [line EXCEPT ![h] = l] /\ curr_val' = [curr_val EXCEPT ![h] = c]
  BY DEF PinLeft
<1>2. \/ l = v /\ c = v /\ ~selected /\ csDoubt' = csDoubt \ {h}
      \/ l = line[h] /\ c = v /\ curr_val[h] = v /\ csDoubt' = csDoubt
      \/ csDoubt' = csDoubt \cup {h}
  BY DEF PinLeft
<1> QED BY <1>1, <1>2 DEF CsTypeOK

\* Steps that change what does not concern the chip select: everything but the
\* number, the settings and use_hw_cs of h stays.
LEMMA AsideKeeps ==
    ASSUME SpiInv, CsInv, NEW h \in SpiHandles, UNCHANGED <<line, curr_val, csDoubt, req>>,
           \A g \in SpiHandles \ {h} : spi'[g] = spi[g] /\ spiPc'[g] = spiPc[g],
           spiPc'[h] # "unlocked",
           spi[h] # NONE, spi'[h] # NONE, spi'[h].hi = spi[h].hi,
           spi'[h].pin = spi[h].pin, spi'[h].cs = spi[h].cs,
           kcfg'.hi \in BOOLEAN
    PROVE  CsInv'
<1>1. \A g \in SpiHandles \ {h} : Untouched(g) BY DEF Untouched
<1>2. CsTypeOK' BY DEF CsInv, CsTypeOK
<1>3. CsKnown(h)' /\ RemembersInactive(h)' /\ TakesUnselected(h)'
  BY DEF CsInv, CsKnown, RemembersInactive, TakesUnselected
<1> QED BY <1>1, <1>2, <1>3, UntouchedKeeps DEF CsInv

\* One step of any handle keeps what is known of every chip select: a transfer
\* moves the line the kernel was configured with, which is its own or is in doubt
\* afterwards.
LEMMA CsStep ==
    ASSUME SpiInv, CsInv, SpiNext
    PROVE  CsInv'
<1> USE SpiAssumption DEF SpiAssumption, SpiInv, SpiTypeOK
<1>1. \A g \in SpiHandles : spi[g] # NONE => spi[g] \in SpiInstance
  OBVIOUS
<1>2. kcfg.hi \in BOOLEAN BY DEF CsInv, CsTypeOK
<1>3. ASSUME NEW h \in SpiHandles, CreateNumbers(h) PROVE CsInv'
  <2> DEFINE y == [spi[h] EXCEPT !.id = seen[h]]
  <2>1. spi[h] \in SpiInstance /\ spi[h] # NONE BY <1>3 DEF CreateNumbers, Alive
  <2>2. y # NONE /\ y.hi = spi[h].hi /\ y.pin = spi[h].pin /\ y.cs = spi[h].cs
    <3>1. y \in SpiInstance BY <2>1 DEF SpiInstance
    <3> QED BY <2>1, <3>1, SpiInstances DEF SpiInstance
  <2>3. spi' = [spi EXCEPT ![h] = y] BY <1>3 DEF CreateNumbers
  <2> HIDE DEF y
  <2> QED BY <1>3, <1>2, <2>1, <2>2, <2>3, AsideKeeps DEF CreateNumbers, pins
<1>4. ASSUME NEW h \in SpiHandles, CreateConfigures(h) \/ CreateRecords(h) PROVE CsInv'
  <2>1. spi[h] \in SpiInstance /\ spi[h] # NONE
    BY <1>4 DEF CreateConfigures, CreateRecords, Alive
  <2>2. kcfg'.hi \in BOOLEAN
    BY <1>4, <1>2, <2>1, SpiInstances DEF CreateConfigures, CreateRecords, Configure, Config
  <2> QED BY <1>4, <2>1, <2>2, AsideKeeps DEF CreateConfigures, CreateRecords, pins
<1>5. ASSUME NEW h \in SpiHandles, Destroy(h) \/ SpiCreateFails(h) PROVE CsInv'
  <2>1. /\ curr_val' = [curr_val EXCEPT ![h] = -1] /\ csDoubt' = csDoubt \ {h}
        /\ UNCHANGED <<line, req, kcfg>> /\ spi' = [spi EXCEPT ![h] = NONE]
        /\ spiPc'[h] = "idle" /\ \A g \in SpiHandles \ {h} : spiPc'[g] = spiPc[g]
    BY <1>5 DEF Destroy, SpiCreateFails, PinReleased, SpiReady
  <2>2. \A g \in SpiHandles \ {h} : Untouched(g) BY <2>1 DEF CsInv, CsTypeOK, Untouched
  <2>3. CsTypeOK' BY <2>1 DEF CsInv, CsTypeOK
  <2>4. CsKnown(h)' /\ RemembersInactive(h)' /\ TakesUnselected(h)'
    BY <2>1 DEF CsInv, CsTypeOK, CsKnown, RemembersInactive, TakesUnselected
  <2> QED BY <2>2, <2>3, <2>4, UntouchedKeeps DEF CsInv
<1>7. ASSUME NEW h \in SpiHandles, NEW b \in BOOLEAN, SetCsPolarityFails(h, b) PROVE CsInv'
  <2>1. /\ spi[h].hi \in BOOLEAN /\ spi[h].cs \in BOOLEAN /\ spi[h] # NONE
        /\ spi' = spi /\ spiPc[h] = "idle" /\ UNCHANGED <<spiPc, req, kcfg>>
    BY <1>1, <1>7, SpiInstances DEF SetCsPolarityFails, SpiReady
  <2> DEFINE v == Inactive(spi[h].hi)
  <2>2. v \in {0, 1} /\ v # Active(spi[h].hi) /\ Inactive(b) \in {0, 1} BY <2>1, Levels
  <2>3. PICK p \in GpioValueSet(line[h], curr_val[h], Inactive(b)) :
             \E q \in GpioValueSet(p[1], p[2], v) : PinLeft(h, q, v, spi[h].cs)
    BY <1>7 DEF SetCsPolarityFails
  <2>4. PICK q \in GpioValueSet(p[1], p[2], v) : PinLeft(h, q, v, spi[h].cs) BY <2>3
  <2>5. CsTypeOK /\ line[h] \in {0, 1} /\ curr_val[h] \in {-1, 0, 1} BY DEF CsInv, CsTypeOK
  <2> HIDE DEF v
  <2>6. p[1] \in {0, 1} /\ p[2] \in {-1, 0, 1} BY <2>2, <2>3, <2>5, ValueSet
  <2>7. PICK l \in {0, 1}, c \in {-1, 0, 1} : q = <<l, c>> BY <2>2, <2>4, <2>6, ValueSet
  <2>8. /\ line' \in [SpiHandles -> {0, 1}] /\ curr_val' \in [SpiHandles -> {-1, 0, 1}]
        /\ \A g \in SpiHandles \ {h} :
             /\ line'[g] = line[g] /\ curr_val'[g] = curr_val[g]
             /\ g \in csDoubt => g \in csDoubt'
        /\ h \notin csDoubt' =>
             /\ curr_val'[h] = v
             /\ \/ ~spi[h].cs /\ line'[h] = v
                \/ h \notin csDoubt /\ curr_val[h] = v /\ line'[h] = line[h]
    BY <2>1, <2>2, <2>4, <2>5, <2>7, PinLeftKeeps
  <2>9. \A g \in SpiHandles \ {h} : Untouched(g) BY <2>1, <2>8 DEF Untouched
  <2>10. CsTypeOK' BY <2>1, <2>5, <2>8 DEF CsTypeOK
  <2>11. CsKnown(h)' /\ RemembersInactive(h)' /\ TakesUnselected(h)'
    BY <2>1, <2>2, <2>8 DEF v, CsInv, CsKnown, RemembersInactive, TakesUnselected
  <2> QED BY <2>9, <2>10, <2>11, UntouchedKeeps DEF CsInv
<1>8. ASSUME NEW h \in SpiHandles, NEW s \in Settings, NEW hi \in BOOLEAN,
             NEW has \in BOOLEAN, CreateBegins(h, s, hi, has)
      PROVE  CsInv'
  <2>1. /\ spi'[h].cs = FALSE /\ spi'[h].hi = hi /\ spi'[h].pin = has /\ spiPc'[h] = "numbering"
        /\ \A g \in SpiHandles \ {h} : spi'[g] = spi[g] /\ spiPc'[g] = spiPc[g]
        /\ UNCHANGED <<req, kcfg>> /\ spi[h] = NONE /\ spi'[h] # NONE
    <3> DEFINE x == [id |-> 0, set |-> s, hi |-> hi, pin |-> has, hw |-> has, cs |-> FALSE]
    <3>1. x \in SpiInstance BY DEF SpiInstance
    <3>2. x # NONE /\ x.cs = FALSE /\ x.hi = hi /\ x.pin = has BY <3>1, SpiInstances
    <3>3. spi' = [spi EXCEPT ![h] = x] BY <1>8 DEF CreateBegins
    <3> HIDE DEF x
    <3> QED BY <1>8, <3>2, <3>3 DEF CreateBegins
  <2>2. CsTypeOK /\ line[h] \in {0, 1} /\ curr_val[h] \in {-1, 0, 1} BY DEF CsInv, CsTypeOK
  <2>3. Inactive(hi) \in {0, 1} /\ Inactive(hi) # Active(hi) BY Levels
  <2>4. CASE has
    <3>1. PICK p \in GpioValueSet(line[h], curr_val[h], Inactive(hi)) :
               PinLeft(h, p, Inactive(hi), FALSE)
      BY <1>8, <2>4 DEF CreateBegins
    <3>2. PICK l \in {0, 1}, c \in {-1, 0, 1} : p = <<l, c>> BY <2>2, <2>3, <3>1, ValueSet
    <3>3. /\ line' \in [SpiHandles -> {0, 1}] /\ curr_val' \in [SpiHandles -> {-1, 0, 1}]
          /\ \A g \in SpiHandles \ {h} :
               /\ line'[g] = line[g] /\ curr_val'[g] = curr_val[g]
               /\ g \in csDoubt => g \in csDoubt'
          /\ h \notin csDoubt' =>
               /\ curr_val'[h] = Inactive(hi)
               /\ \/ line'[h] = Inactive(hi)
                  \/ h \notin csDoubt /\ curr_val[h] = Inactive(hi) /\ line'[h] = line[h]
      <4>1. PinLeft(h, <<l, c>>, Inactive(hi), FALSE) BY <3>1, <3>2
      <4>2. PICK no \in BOOLEAN : no = FALSE /\ PinLeft(h, <<l, c>>, Inactive(hi), no) BY <4>1
      <4> QED BY <2>2, <2>3, <4>2, PinLeftKeeps
    <3>4. curr_val[h] = -1 /\ curr_val[h] # Inactive(hi)
      BY <2>1, <2>3 DEF CsInv, RemembersInactive
    <3>5. \A g \in SpiHandles \ {h} : Untouched(g) BY <2>1, <3>3 DEF Untouched
    <3>6. CsTypeOK' BY <2>1, <2>2, <3>3 DEF CsTypeOK
    <3>7. CsKnown(h)' /\ RemembersInactive(h)' /\ TakesUnselected(h)'
      BY <2>1, <2>3, <3>3, <3>4 DEF CsKnown, RemembersInactive, TakesUnselected
    <3> QED BY <3>5, <3>6, <3>7, UntouchedKeeps DEF CsInv
  <2>5. CASE ~has
    <3>1. UNCHANGED <<line, curr_val, csDoubt>> BY <1>8, <2>5 DEF CreateBegins, pins
    <3>2. \A g \in SpiHandles \ {h} : Untouched(g) BY <2>1, <3>1 DEF Untouched
    <3>3. CsTypeOK' BY <2>1, <2>2, <3>1 DEF CsTypeOK
    <3>4. CsKnown(h)' /\ RemembersInactive(h)' /\ TakesUnselected(h)'
      BY <2>1, <2>5 DEF CsKnown, RemembersInactive, TakesUnselected
    <3> QED BY <3>2, <3>3, <3>4, UntouchedKeeps DEF CsInv
  <2> QED BY <2>4, <2>5
<1>9. ASSUME NEW h \in SpiHandles, NEW r \in Requests, TransferLocks(h, r) PROVE CsInv'
  <2>1. spi[h].hi \in BOOLEAN /\ spi[h] # NONE
    BY <1>1, <1>9, SpiInstances DEF TransferLocks, SpiReady
  <2>2. \A g \in SpiHandles \ {h} : Untouched(g)
    BY <1>9 DEF TransferLocks, pins, Untouched, CsInv, CsTypeOK
  <2>3. /\ UNCHANGED <<spi, line, curr_val, csDoubt>> /\ req'[h] = r
        /\ ~r.message => (r.take <=> spi[h].pin /\ ~spi[h].cs)
    BY <1>9 DEF TransferLocks, pins, CsInv, CsTypeOK
  <2>4. kcfg'.hi \in BOOLEAN
    BY <1>9, <1>2, <2>1 DEF TransferLocks, Configure, Config
  <2>5. CsTypeOK'
    BY <1>9, <2>3, <2>4 DEF CsInv, CsTypeOK, TransferLocks
  <2>6. CsKnown(h)' /\ RemembersInactive(h)' /\ TakesUnselected(h)'
    BY <2>3 DEF CsInv, CsKnown, RemembersInactive, TakesUnselected
  <2> QED BY <2>2, <2>5, <2>6, UntouchedKeeps DEF CsInv
<1>10. ASSUME NEW h \in SpiHandles, NEW s \in Settings, SetSettings(h, s) PROVE CsInv'
  <2> DEFINE y == [spi[h] EXCEPT !.set = s]
  <2>1. spi[h] \in SpiInstance /\ spi[h] # NONE BY <1>10 DEF SetSettings, SpiReady
  <2>2. /\ y # NONE /\ y.hi = spi[h].hi /\ y.pin = spi[h].pin /\ y.cs = spi[h].cs
        /\ y.hi \in BOOLEAN
    <3>1. y \in SpiInstance BY <2>1 DEF SpiInstance
    <3> QED BY <2>1, <3>1, SpiInstances DEF SpiInstance
  <2>3. spi' = [spi EXCEPT ![h] = y] /\ kcfg' = UpdateConfig(h, y)
    BY <1>10 DEF SetSettings, Update, Configure
  <2> HIDE DEF y
  <2>4. kcfg'.hi \in BOOLEAN BY <2>2, <2>3 DEF UpdateConfig
  <2> QED BY <1>10, <2>1, <2>2, <2>3, <2>4, AsideKeeps DEF SetSettings, SpiReady, pins
<1>11. ASSUME NEW h \in SpiHandles, NEW b \in BOOLEAN, SetCsMode(h, b) PROVE CsInv'
  <2> DEFINE y == [spi[h] EXCEPT !.hw = b]
  <2>1. spi[h] \in SpiInstance /\ spi[h] # NONE BY <1>11 DEF SetCsMode, SpiReady
  <2>2. /\ y # NONE /\ y.hi = spi[h].hi /\ y.pin = spi[h].pin /\ y.cs = spi[h].cs
        /\ y.hi \in BOOLEAN
    <3>1. y \in SpiInstance BY <2>1 DEF SpiInstance
    <3> QED BY <2>1, <3>1, SpiInstances DEF SpiInstance
  <2>3. spi' = [spi EXCEPT ![h] = y] /\ kcfg' = UpdateConfig(h, y)
    BY <1>11 DEF SetCsMode, Update, Configure
  <2> HIDE DEF y
  <2>4. kcfg'.hi \in BOOLEAN BY <2>2, <2>3 DEF UpdateConfig
  <2> QED BY <1>11, <2>1, <2>2, <2>3, <2>4, AsideKeeps DEF SetCsMode, SpiReady, pins
<1>12. ASSUME NEW h \in SpiHandles, NEW b \in BOOLEAN, SetCsPolarity(h, b) PROVE CsInv'
  <2> DEFINE y == [spi[h] EXCEPT !.hi = b]
  <2>1. spi[h] \in SpiInstance /\ spi[h] # NONE BY <1>12 DEF SetCsPolarity, SpiReady
  <2>2. y.hi = b /\ y.pin = spi[h].pin /\ y.cs = spi[h].cs
    BY <2>1 DEF SpiInstance
  <2>3. spi' = [spi EXCEPT ![h] = y] /\ kcfg' = UpdateConfig(h, y)
    BY <1>12 DEF SetCsPolarity, Update, Configure
  <2> HIDE DEF y
  <2>4. kcfg'.hi \in BOOLEAN BY <2>2, <2>3 DEF UpdateConfig
  <2>5. /\ spi'[h] = y /\ spiPc[h] = "idle" /\ UNCHANGED <<spiPc, req>>
        /\ \A g \in SpiHandles \ {h} : spi'[g] = spi[g]
    BY <1>12, <2>3 DEF SetCsPolarity, SpiReady
  <2>6. PICK p \in GpioValueSet(line[h], curr_val[h], Inactive(b)) :
             PinLeft(h, p, Inactive(b), spi[h].cs)
    BY <1>12 DEF SetCsPolarity
  <2>7. CsTypeOK /\ line[h] \in {0, 1} /\ curr_val[h] \in {-1, 0, 1} BY DEF CsInv, CsTypeOK
  <2>8. /\ Inactive(b) \in {0, 1} /\ Inactive(b) # Active(b)
        /\ spi[h].hi \in BOOLEAN /\ spi[h].cs \in BOOLEAN
    BY <2>1, SpiInstances, Levels
  <2>9. PICK l \in {0, 1}, c \in {-1, 0, 1} : p = <<l, c>> BY <2>6, <2>7, <2>8, ValueSet
  <2>10. /\ line' \in [SpiHandles -> {0, 1}] /\ curr_val' \in [SpiHandles -> {-1, 0, 1}]
         /\ \A g \in SpiHandles \ {h} :
              /\ line'[g] = line[g] /\ curr_val'[g] = curr_val[g]
              /\ g \in csDoubt => g \in csDoubt'
         /\ h \notin csDoubt' =>
              /\ curr_val'[h] = Inactive(b)
              /\ \/ ~spi[h].cs /\ line'[h] = Inactive(b)
                 \/ h \notin csDoubt /\ curr_val[h] = Inactive(b) /\ line'[h] = line[h]
    BY <2>6, <2>7, <2>8, <2>9, PinLeftKeeps
  <2>11. \A g \in SpiHandles \ {h} : Untouched(g) BY <2>5, <2>10 DEF Untouched
  <2>12. CsTypeOK' BY <2>4, <2>5, <2>7, <2>10 DEF CsTypeOK
  <2>13. CsKnown(h)'
    <3> SUFFICES ASSUME spi[h].pin, h \notin csDoubt'
                 PROVE  spi[h].cs <=> line'[h] = Active(b)
      BY <2>2, <2>5 DEF CsKnown
    <3>1. CASE ~spi[h].cs /\ line'[h] = Inactive(b) BY <2>8, <3>1
    <3>2. CASE h \notin csDoubt /\ curr_val[h] = Inactive(b) /\ line'[h] = line[h]
      <4>1. curr_val[h] = Inactive(spi[h].hi) /\ CsKnown(h)
        BY <2>1, <3>2 DEF CsInv, RemembersInactive
      <4>2. b = spi[h].hi BY <2>8, <3>2, <4>1 DEF Inactive
      <4> QED BY <2>1, <3>2, <4>1, <4>2 DEF CsKnown
    <3> QED BY <2>10, <3>1, <3>2
  <2>14. RemembersInactive(h)' /\ TakesUnselected(h)'
    <3>1. y # NONE BY <2>1, SpiInstances DEF y, SpiInstance
    <3> QED BY <2>2, <2>5, <2>10, <3>1 DEF RemembersInactive, TakesUnselected
  <2> QED BY <2>11, <2>12, <2>13, <2>14, UntouchedKeeps DEF CsInv
<1>13. ASSUME NEW h \in SpiHandles, NEW done \in BOOLEAN, TransferRuns(h, done) PROVE CsInv'
  <2> DEFINE c == kcfg.cs
  <2> DEFINE y == [spi[h] EXCEPT !.cs = CsStatus(h)]
  <2> DEFINE asserted == IF req[h].take THEN [line EXCEPT ![c] = Active(kcfg.hi)] ELSE line
  <2> DEFINE released == IF req[h].release THEN [asserted EXCEPT ![c] = Inactive(kcfg.hi)]
                         ELSE asserted
  <2>1. spi[h] \in SpiInstance /\ spi[h] # NONE BY <1>13 DEF TransferRuns, Alive
  <2>2. y # NONE /\ y.hi = spi[h].hi /\ y.pin = spi[h].pin /\ y.cs = CsStatus(h)
    <3>1. CsStatus(h) \in BOOLEAN
      <4>1. spi[h].cs \in BOOLEAN /\ spi[h].pin \in BOOLEAN BY <2>1, SpiInstances
      <4> QED BY <4>1, Zenon DEF CsStatus
    <3>2. y \in SpiInstance BY <2>1, <3>1 DEF SpiInstance
    <3> QED BY <2>1, <3>2, SpiInstances DEF SpiInstance
  <2>3. spi' = [spi EXCEPT ![h] = y]
    BY <1>13 DEF TransferRuns
  <2> HIDE DEF y
  <2>4. line' = IF c = NONE THEN line ELSE IF done THEN released ELSE asserted
    BY <1>13 DEF TransferRuns
  <2>5. /\ spiPc[h] = "unlocked" /\ spiPc' = [spiPc EXCEPT ![h] = "idle"]
        /\ req' = [req EXCEPT ![h] = NoReq]
        /\ UNCHANGED <<kcfg, curr_val>>
        /\ csDoubt \subseteq csDoubt'
        /\ h \notin csDoubt' => c = h /\ kcfg.hi = spi[h].hi /\ ~req[h].message /\ done
        /\ c \in SpiHandles \ {h} => c \in csDoubt'
    BY <1>13 DEF TransferRuns
  <2>6. /\ line' \in [SpiHandles -> {0, 1}]
        /\ \A g \in SpiHandles : g # c => line'[g] = line[g]
    BY <2>4, <1>2, Levels DEF CsInv, CsTypeOK
  <2>7. CsTypeOK'
    BY <2>5, <2>6 DEF CsInv, CsTypeOK, NoReq, Requests
  <2>8. ASSUME NEW g \in SpiHandles \ {h}
        PROVE  CsKnown(g)' /\ RemembersInactive(g)' /\ TakesUnselected(g)'
    <3>1. CASE g = c
      BY <2>3, <2>5, <2>8, <3>1
         DEF CsInv, CsTypeOK, CsKnown, RemembersInactive, TakesUnselected
    <3>2. CASE g # c
      BY <2>3, <2>5, <2>6, <2>8, <3>2, UntouchedKeeps DEF Untouched, CsInv, CsTypeOK
    <3> QED BY <3>1, <3>2
  <2>9. CsKnown(h)'
    <3> SUFFICES ASSUME spi[h].pin, h \notin csDoubt'
                 PROVE  CsStatus(h) <=> line'[h] = Active(spi[h].hi)
      BY <2>1, <2>2, <2>3 DEF CsKnown
    <3>1. c = h /\ kcfg.hi = spi[h].hi /\ ~req[h].message /\ done /\ h # NONE /\ h \notin csDoubt
      BY <2>5
    <3>2. spi[h].cs <=> line[h] = Active(spi[h].hi)
      BY <2>1, <3>1 DEF CsInv, CsKnown
    <3>3. req[h].take <=> ~spi[h].cs
      BY <2>5, <3>1 DEF CsInv, TakesUnselected
    <3>4. CsStatus(h) <=> ~req[h].release
      BY <3>1 DEF CsStatus
    <3>5. line'[h] = IF req[h].release THEN Inactive(spi[h].hi)
                     ELSE IF req[h].take THEN Active(spi[h].hi) ELSE line[h]
      BY <2>4, <3>1 DEF CsInv, CsTypeOK
    <3>6. Active(spi[h].hi) # Inactive(spi[h].hi) BY <2>1, SpiInstances, Levels
    <3> QED BY <3>2, <3>3, <3>4, <3>5, <3>6
  <2>10. RemembersInactive(h)' /\ TakesUnselected(h)'
    BY <2>1, <2>2, <2>3, <2>5 DEF CsInv, RemembersInactive, TakesUnselected
  <2> QED BY <2>7, <2>8, <2>9, <2>10 DEF CsInv
<1> QED
  BY <1>3, <1>4, <1>5, <1>7, <1>8, <1>9, <1>10, <1>11, <1>12, <1>13
     DEF SpiNext, SpiOperate

\* cs_status of an instance says whether its chip select is at the active level, for
\* any number of handles and whatever they do in between, unless a transfer failed,
\* a message or another handle drove the pin, the bus was not configured for it, a
\* write of the pin failed in a create or a change of polarity, or one deselected the
\* chip while cs_status was active; a later write that succeeds while cs_status is
\* inactive makes it right again.
THEOREM ChipSelectKnown == SpiSpec => []CsStatusTrue
<1>1. SpiInit => CsInv
  BY DEF SpiInit, CsInv, CsTypeOK, CsKnown, RemembersInactive, TakesUnselected, NoReq,
     Requests
<1>2. ASSUME CsInv, UNCHANGED spiVars PROVE CsInv'
  BY <1>2 DEF spiVars, CsInv, CsTypeOK, CsKnown, RemembersInactive, TakesUnselected
<1>3. ASSUME SpiInv, CsInv, [SpiNext]_spiVars PROVE CsInv'
  BY <1>2, <1>3, CsStep
<1>4. CsInv => CsStatusTrue
  BY DEF CsInv, CsKnown, CsStatusTrue, SpiLive
<1> QED BY <1>1, <1>3, <1>4, SpiInvariance, PTL DEF SpiSpec

-----------------------------------------------------------------------------
\* The types of what the two timer drivers and the kernel keep.
TimerTypeOK ==
    /\ hard \in [Owners -> HardInstance \cup {NoTimer}]
    /\ running \in [TimerIds -> BOOLEAN]
    /\ irqOf \in [TimerIds -> Owners \cup {NoTimer}]
    /\ hardHandler \in [TimerIds -> BOOLEAN]
    /\ hardSignals \subseteq TimerIds \X Owners
    /\ soft \in [Owners -> SoftInstance \cup {NoTimer}]
    /\ checked \subseteq Owners
    /\ softInUse \in BOOLEAN
    /\ alrmHandler \in BOOLEAN
    /\ ticking \subseteq Owners
    /\ alarms \subseteq Owners

\* As long as nothing was shared, kept or late: a timer has one instance, the
\* interrupt of a timer is set for its instance and has its handler, and a
\* signal on its way is of the interrupt that is set.
HardClean == slips \cap {"shared", "kept", "late"} = {}
OneInstance ==
    \A o, p \in Owners :
        hard[o] # NoTimer /\ hard[p] # NoTimer /\ hard[o].id = hard[p].id => o = p
IrqServed ==
    \A i \in TimerIds : irqOf[i] # NoTimer =>
        /\ hard[irqOf[i]] # NoTimer
        /\ hard[irqOf[i]].id = i
        /\ hardHandler[i]
SignalsOfIrq == \A m \in hardSignals : irqOf[m[1]] = m[2]
HardInv == HardClean => OneInstance /\ IrqServed /\ SignalsOfIrq

TimerInv == TimerTypeOK /\ HardInv /\ SoftTimerIsOne

\* A signal is of an interrupt that is set, and that one has instance and handler.
LEMMA HardInvGives == ASSUME TimerTypeOK, HardInv PROVE TimerSignalsFindInstance
BY TimersAssumption
   DEF TimersAssumption, TimerTypeOK, HardInv, HardClean, IrqServed, SignalsOfIrq,
       TimerSignalsFindInstance

\* What an instance of the hardware timer driver holds, and that starting and
\* stopping it leave its number.
LEMMA HardInstances ==
    /\ \A x \in HardInstance : x # NoTimer /\ x.id \in TimerIds
    /\ \A x \in HardInstance, b \in BOOLEAN :
        /\ [x EXCEPT !.started = b] \in HardInstance
        /\ [x EXCEPT !.started = b].id = x.id
    /\ \A i \in TimerIds :
        /\ [id |-> i, started |-> FALSE] \in HardInstance
        /\ [id |-> i, started |-> FALSE].id = i
BY TimersAssumption DEF TimersAssumption, HardInstance

\* What an instance of the software timer driver holds.
LEMMA SoftInstances ==
    /\ \A x \in SoftInstance, b \in BOOLEAN :
        x # NoTimer /\ [x EXCEPT !.started = b] \in SoftInstance
    /\ \A d, b \in BOOLEAN : [made |-> d, started |-> b] \in SoftInstance
BY TimersAssumption DEF TimersAssumption, SoftInstance

\* Every operation of a hardware timer, the timer and its signal keep the invariant.
LEMMA HardStepKeeps ==
    ASSUME TimerInv, HardStep
    PROVE  TimerInv'
<1> USE TimersAssumption, HardInstances DEF TimersAssumption, TimerInv, TimerTypeOK, Note, softVars
<1>1. ASSUME UNCHANGED softVars, slips \subseteq slips',
             slips' \subseteq slips \cup {"shared", "kept", "late"}
      PROVE  SoftTimerIsOne'
  BY <1>1 DEF SoftTimerIsOne
<1> USE DEF HardInv, HardClean, OneInstance, IrqServed, SignalsOfIrq
<1>2. ASSUME NEW o \in Owners, NEW i \in TimerIds, HardCreate(o, i) PROVE TimerInv'
  <2>1. /\ hard' \in [Owners -> HardInstance \cup {NoTimer}]
        /\ hard[o] = NoTimer /\ hard'[o] # NoTimer /\ hard'[o].id = i
        /\ \A p \in Owners \ {o} : hard'[p] = hard[p]
    BY <1>2 DEF HardCreate
  <2>2. HardClean' => HardClean /\ \A p \in Owners : hard[p] # NoTimer => hard[p].id # i
    BY <1>2 DEF HardCreate, OfId
  <2>3. TimerTypeOK' BY <1>2, <2>1 DEF HardCreate
  <2>4. HardInv'
    <3>1. UNCHANGED <<irqOf, hardHandler, hardSignals>> BY <1>2 DEF HardCreate
    <3>2. HardClean' => OneInstance' BY <2>1, <2>2
    <3>3. HardClean' => IrqServed' BY <2>1, <2>2, <3>1
    <3> QED BY <2>2, <3>1, <3>2, <3>3
  <2> QED BY <1>1, <1>2, <2>3, <2>4 DEF HardCreate
<1>3. ASSUME NEW o \in Owners, NEW b \in BOOLEAN, hard[o] # NoTimer,
             hard' = [hard EXCEPT ![o].started = b],
             running' = [running EXCEPT ![hard[o].id] = b],
             UNCHANGED <<inUse, irqOf, hardHandler, hardSignals, softVars, slips>>
      PROVE TimerInv'
  <2>1. /\ hard' \in [Owners -> HardInstance \cup {NoTimer}]
        /\ \A p \in Owners : /\ (hard'[p] = NoTimer) <=> (hard[p] = NoTimer)
                             /\ hard[p] # NoTimer => hard'[p].id = hard[p].id
    BY <1>3
  <2>2. TimerTypeOK' BY <1>3, <2>1
  <2>3. HardInv' BY <1>3, <2>1
  <2> QED BY <1>1, <1>3, <2>2, <2>3
<1>4. ASSUME NEW o \in Owners, HardStart(o) \/ HardStop(o) PROVE TimerInv'
  BY <1>3, <1>4 DEF HardStart, HardStop
<1>5. ASSUME NEW o \in Owners, NEW done \in BOOLEAN, HardRegister(o, done) PROVE TimerInv'
  <2>1. TimerTypeOK' BY <1>5 DEF HardRegister
  <2>2. HardInv'
    <3> SUFFICES ASSUME HardClean' PROVE OneInstance' /\ IrqServed' /\ SignalsOfIrq'
      OBVIOUS
    <3>1. /\ HardClean /\ UNCHANGED <<hard, hardSignals>>
          /\ ~done => irqOf[hard[o].id] = NoTimer
      BY <1>5 DEF HardRegister
    <3>2. hard[o] # NoTimer /\ hard[o].id \in TimerIds
      BY <1>5 DEF HardRegister
    <3>3. irqOf[hard[o].id] # NoTimer => irqOf[hard[o].id] = o
      BY <3>1, <3>2
    <3>4. \A i \in TimerIds \ {hard[o].id} :
            irqOf'[i] = irqOf[i] /\ hardHandler'[i] = hardHandler[i]
      BY <1>5, <3>2 DEF HardRegister
    <3>5. irqOf'[hard[o].id] = (IF done THEN o ELSE NoTimer) /\ hardHandler'[hard[o].id] = done
      BY <1>5, <3>1, <3>2 DEF HardRegister
    <3>6. IrqServed' BY <3>1, <3>2, <3>4, <3>5
    <3>7. SignalsOfIrq'
      <4> SUFFICES ASSUME NEW m \in hardSignals PROVE irqOf'[m[1]] = m[2]
        BY <3>1
      <4>1. m[1] \in TimerIds /\ m[2] \in Owners /\ irqOf[m[1]] = m[2] /\ m[2] # NoTimer
        BY <3>1
      <4> QED BY <4>1, <3>1, <3>3, <3>4, <3>5
    <3> QED BY <3>1, <3>6, <3>7
  <2> QED BY <1>1, <1>5, <2>1, <2>2 DEF HardRegister
<1>6. ASSUME NEW o \in Owners, HardUnregister(o) PROVE TimerInv'
  <2>1. TimerTypeOK' BY <1>6 DEF HardUnregister, Detach
  <2>2. HardInv'
    <3> SUFFICES ASSUME HardClean' PROVE OneInstance' /\ IrqServed' /\ SignalsOfIrq'
      OBVIOUS
    <3>1. /\ HardClean /\ UNCHANGED hardSignals
          /\ \A m \in hardSignals : m[1] # hard[o].id
      BY <1>6 DEF HardUnregister, Detach, SignalsOf
    <3>2. hard[o] # NoTimer /\ hard[o].id \in TimerIds
      BY <1>6 DEF HardUnregister, Detach
    <3>3. /\ irqOf' = [irqOf EXCEPT ![hard[o].id] = NoTimer]
          /\ hardHandler' = [hardHandler EXCEPT ![hard[o].id] = FALSE]
      BY <1>6 DEF HardUnregister, Detach
    <3>4. \A p \in Owners : hard'[p] = hard[p]
      BY <1>6 DEF HardUnregister
    <3>5. OneInstance' BY <3>1, <3>4
    <3>6. IrqServed'
      <4> SUFFICES ASSUME NEW i \in TimerIds, irqOf'[i] # NoTimer
                   PROVE  hard'[irqOf'[i]] # NoTimer /\ hard'[irqOf'[i]].id = i /\ hardHandler'[i]
        OBVIOUS
      <4>1. i # hard[o].id /\ irqOf'[i] = irqOf[i] /\ hardHandler'[i] = hardHandler[i]
        BY <3>2, <3>3
      <4>2. irqOf[i] \in Owners /\ irqOf[i] # o BY <3>1, <4>1
      <4> QED BY <3>1, <3>4, <4>1, <4>2
    <3>7. SignalsOfIrq' BY <3>1, <3>3
    <3> QED BY <3>5, <3>6, <3>7
  <2> QED BY <1>1, <1>6, <2>1, <2>2 DEF HardUnregister, Detach
<1>7. ASSUME NEW o \in Owners, HardDestroy(o) PROVE TimerInv'
  <2>1. TimerTypeOK' BY <1>7 DEF HardDestroy, Detach, HardRelease
  <2>2. HardInv'
    <3> SUFFICES ASSUME HardClean' PROVE OneInstance' /\ IrqServed' /\ SignalsOfIrq'
      OBVIOUS
    <3>1. /\ HardClean /\ UNCHANGED hardSignals
          /\ \A m \in hardSignals : m[1] # hard[o].id
      BY <1>7 DEF HardDestroy, Detach, HardRelease, SignalsOf
    <3>2. hard[o] # NoTimer /\ hard[o].id \in TimerIds
      BY <1>7 DEF HardDestroy, Detach, HardRelease
    <3>3. /\ irqOf' = [irqOf EXCEPT ![hard[o].id] = NoTimer]
          /\ hardHandler' = [hardHandler EXCEPT ![hard[o].id] = FALSE]
      BY <1>7 DEF HardDestroy, Detach, HardRelease
    <3>4. \A p \in Owners : hard'[p] = IF p = o THEN NoTimer ELSE hard[p]
      BY <1>7 DEF HardDestroy, HardRelease
    <3>5. OneInstance' BY <3>1, <3>4
    <3>6. IrqServed'
      <4> SUFFICES ASSUME NEW i \in TimerIds, irqOf'[i] # NoTimer
                   PROVE  hard'[irqOf'[i]] # NoTimer /\ hard'[irqOf'[i]].id = i /\ hardHandler'[i]
        OBVIOUS
      <4>1. i # hard[o].id /\ irqOf'[i] = irqOf[i] /\ hardHandler'[i] = hardHandler[i]
        BY <3>2, <3>3
      <4>2. irqOf[i] \in Owners /\ irqOf[i] # o BY <3>1, <4>1
      <4> QED BY <3>1, <3>4, <4>1, <4>2
    <3>7. SignalsOfIrq' BY <3>1, <3>3
    <3> QED BY <3>5, <3>6, <3>7
  <2> QED BY <1>1, <1>7, <2>1, <2>2 DEF HardDestroy, Detach
<1>8. ASSUME NEW o \in Owners, NEW stopped \in BOOLEAN, HardDestroyFails(o, stopped)
      PROVE  TimerInv'
  <2>1. TimerTypeOK' BY <1>8 DEF HardDestroyFails, HardRelease
  <2>2. HardInv'
    <3> SUFFICES ASSUME HardClean' PROVE OneInstance' /\ IrqServed' /\ SignalsOfIrq'
      OBVIOUS
    <3>1. /\ HardClean /\ UNCHANGED <<irqOf, hardHandler, hardSignals>>
          /\ irqOf[hard[o].id] = NoTimer
      BY <1>8 DEF HardDestroyFails
    <3>2. hard[o] # NoTimer /\ \A p \in Owners : hard'[p] = IF p = o THEN NoTimer ELSE hard[p]
      BY <1>8 DEF HardDestroyFails, HardRelease
    <3>3. OneInstance' BY <3>1, <3>2
    <3>4. IrqServed' BY <3>1, <3>2
    <3> QED BY <3>1, <3>3, <3>4
  <2> QED BY <1>1, <1>8, <2>1, <2>2 DEF HardDestroyFails
<1>9. ASSUME NEW i \in TimerIds, NEW goesOn \in BOOLEAN, HardFire(i, goesOn) PROVE TimerInv'
  <2>1. TimerTypeOK' BY <1>9 DEF HardFire
  <2>2. HardInv' BY <1>9, <2>1 DEF HardFire
  <2> QED BY <1>1, <1>9, <2>1, <2>2 DEF HardFire
<1>10. ASSUME NEW m \in hardSignals, HardDeliver(m) PROVE TimerInv'
  <2>1. TimerTypeOK' BY <1>10 DEF HardDeliver
  <2>2. HardInv' BY <1>10, <2>1 DEF HardDeliver
  <2> QED BY <1>1, <1>10, <2>1, <2>2 DEF HardDeliver
<1> QED BY <1>2, <1>4, <1>5, <1>6, <1>7, <1>8, <1>9, <1>10 DEF HardStep

\* Every operation of the software timer and its signal keep the invariant.
LEMMA SoftStepKeeps ==
    ASSUME TimerInv, SoftStep
    PROVE  TimerInv'
<1> USE TimersAssumption, SoftInstances DEF TimersAssumption, TimerInv, TimerTypeOK, Note, hardVars
<1>1. ASSUME UNCHANGED hardVars, slips \subseteq slips'
      PROVE  HardInv'
  BY <1>1 DEF HardInv, HardClean, OneInstance, IrqServed, SignalsOfIrq
<1>2. ASSUME NEW o \in Owners, SoftCheck(o) PROVE TimerInv'
  <2>1. TimerTypeOK' BY <1>2 DEF SoftCheck
  <2>2. SoftTimerIsOne' BY <1>2, <2>1 DEF SoftCheck, SoftTimerIsOne
  <2> QED BY <1>1, <1>2, <2>1, <2>2 DEF SoftCheck
<1>3. ASSUME NEW o \in Owners, NEW done \in BOOLEAN, SoftCreate(o, done) PROVE TimerInv'
  <2>1. TimerTypeOK' BY <1>3 DEF SoftCreate
  <2>2. SoftTimerIsOne' BY <1>3, <2>1 DEF SoftCreate, SoftTimerIsOne
  <2> QED BY <1>1, <1>3, <2>1, <2>2 DEF SoftCreate
<1>4. ASSUME NEW o \in Owners, SoftStart(o) PROVE TimerInv'
  <2>1. TimerTypeOK' BY <1>4 DEF SoftStart
  <2>2. SoftTimerIsOne'
    <3>1. \A p \in Owners : soft'[p] = NoTimer <=> soft[p] = NoTimer
      BY <1>4 DEF SoftStart
    <3>2. /\ ticking' \subseteq ticking \cup {o} /\ soft[o] # NoTimer
          /\ UNCHANGED <<softInUse, alrmHandler, alarms, slips>>
      BY <1>4 DEF SoftStart
    <3> QED BY <3>1, <3>2 DEF SoftTimerIsOne
  <2> QED BY <1>1, <1>4, <2>1, <2>2 DEF SoftStart
<1>5. ASSUME NEW o \in Owners, SoftStop(o) PROVE TimerInv'
  <2>1. TimerTypeOK' BY <1>5 DEF SoftStop
  <2>2. SoftTimerIsOne'
    <3>1. \A p \in Owners : soft'[p] = NoTimer <=> soft[p] = NoTimer
      BY <1>5 DEF SoftStop
    <3>2. /\ ticking' \subseteq ticking \cup {o} /\ soft[o] # NoTimer
          /\ UNCHANGED <<softInUse, alrmHandler, alarms, slips>>
      BY <1>5 DEF SoftStop
    <3> QED BY <3>1, <3>2 DEF SoftTimerIsOne
  <2> QED BY <1>1, <1>5, <2>1, <2>2 DEF SoftStop
<1>6. ASSUME NEW o \in Owners, SoftDestroy(o) PROVE TimerInv'
  <2>1. TimerTypeOK' BY <1>6 DEF SoftDestroy
  <2>2. SoftTimerIsOne' BY <1>6, <2>1 DEF SoftDestroy, SoftTimerIsOne
  <2> QED BY <1>1, <1>6, <2>1, <2>2 DEF SoftDestroy
<1>7. ASSUME NEW o \in Owners, NEW goesOn \in BOOLEAN, SoftFire(o, goesOn) PROVE TimerInv'
  <2>1. TimerTypeOK' BY <1>7 DEF SoftFire
  <2>2. SoftTimerIsOne' BY <1>7, <2>1 DEF SoftFire, SoftTimerIsOne
  <2> QED BY <1>1, <1>7, <2>1, <2>2 DEF SoftFire
<1>8. ASSUME NEW o \in Owners, SoftDeliver(o) PROVE TimerInv'
  <2>1. TimerTypeOK' BY <1>8 DEF SoftDeliver
  <2>2. SoftTimerIsOne' BY <1>8, <2>1 DEF SoftDeliver, SoftTimerIsOne
  <2> QED BY <1>1, <1>8, <2>1, <2>2 DEF SoftDeliver
<1> QED BY <1>2, <1>3, <1>4, <1>5, <1>6, <1>7, <1>8 DEF SoftStep

\* Before the first call nothing is set.
LEMMA TimerStarts == TimerInit => TimerInv
BY TimersAssumption
   DEF TimersAssumption, TimerInit, TimerInv, TimerTypeOK, HardInv, HardClean, OneInstance,
       IrqServed, SignalsOfIrq, SoftTimerIsOne

\* The invariant of the two timer drivers holds throughout.
LEMMA TimerAlways == TimerSpec => []TimerInv
<1>1. ASSUME TimerInv, UNCHANGED timerVars PROVE TimerInv'
  BY <1>1 DEF timerVars, TimerInv, TimerTypeOK, HardInv, HardClean, OneInstance,
       IrqServed, SignalsOfIrq, SoftTimerIsOne
<1>2. ASSUME TimerInv, [TimerNext]_timerVars PROVE TimerInv'
  BY <1>1, <1>2, HardStepKeeps, SoftStepKeeps DEF TimerNext
<1> QED BY TimerStarts, <1>2, PTL DEF TimerSpec

\* A signal of a hard timer finds drv_timer_sig_handler installed and the instance
\* it names alive, for any number of owners and timers, unless two instances share
\* the timer, a call failed half-way or the signal was on its way when its handler
\* went.
THEOREM HardSignalsServed == TimerSpec => []TimerSignalsFindInstance
BY TimerAlways, HardInvGives, PTL DEF TimerInv

\* The soft timer is one, soft_timer_in_used keeps others out, and its SIGALRM finds
\* handler and instance, unless a create failed half-way, two overlapped or the
\* signal was late: for any number of owners.
THEOREM OneSoftTimer == TimerSpec => []SoftTimerIsOne
BY TimerAlways, PTL DEF TimerInv

-----------------------------------------------------------------------------
\* The types of what the PMU driver and the kernel keep.
PmuTypeOK ==
    /\ pmu \in [PmuHandles -> PmuInstance \cup {NoPmu}]
    /\ pmuPc \in {"idle", "blocked", "unregistering", "destroying", "taken"}
    /\ mask \subseteq KeySignals /\ mask0 \subseteq KeySignals
    /\ notify \in [PmuHandles -> KeySignals \cup {NoPmu}]
    /\ keySignals \subseteq KeySignals
    /\ told \subseteq PmuHandles

\* The instance has its callback registered.
IsRegistered(i) == pmu[i] # NoPmu /\ pmu[i].registered

\* An instance holds its signal from the blocking to the unblocking.
Holds(i) == IsRegistered(i) \/ (pmuPc = "blocked" /\ pmuAt = i)

\* Which instance the call under way is for.
CallFits ==
    /\ pmuPc # "idle" => pmuAt \in PmuHandles /\ pmu[pmuAt] # NoPmu
    /\ pmuPc = "blocked" => ~IsRegistered(pmuAt)
    /\ pmuPc \in {"unregistering", "taken"} => IsRegistered(pmuAt)
    /\ \A i \in PmuHandles : Holds(i) => pmu[i].signo \in KeySignals

\* Without sharing, a signal is held once, was is what the thread came with, and
\* what is blocked is that and what is held.
MaskFits ==
    "shared" \notin mishaps =>
        /\ \A i, j \in PmuHandles :
            Holds(i) /\ Holds(j) /\ pmu[i].signo = pmu[j].signo => i = j
        /\ \A i \in PmuHandles : Holds(i) => (pmu[i].was <=> pmu[i].signo \in mask0)
        /\ \A s \in KeySignals :
            s \in mask <=> s \in mask0 \/ \E i \in PmuHandles : Holds(i) /\ pmu[i].signo = s

\* The kernel signals for the instances that are registered and not about to
\* leave, and for others only if it refused to stop.
NotifyFits ==
    \A i \in PmuHandles : notify[i] # NoPmu =>
        /\ IsRegistered(i) => notify[i] = pmu[i].signo
        /\ (IsRegistered(i) /\ ~Leaving(i)) \/ "kept" \in mishaps

\* An instance that a press is still to reach is registered, and the signal that
\* brings it the press is on its way or taken.
ToldFits ==
    \A i \in told :
        /\ IsRegistered(i) /\ ~Leaving(i)
        /\ \/ "shared" \in mishaps
           \/ pmu[i].signo \in keySignals
           \/ pmuPc = "taken" /\ pmuAt = i
           \/ "unread" \in mishaps

\* A signal on its way is blocked, so that it waits and does not strike.
SignalsBlocked ==
    "shared" \notin mishaps => keySignals \subseteq mask \/ mishaps \cap {"late", "kept"} # {}

PmuInv ==
    /\ PmuTypeOK /\ CallFits /\ MaskFits
    /\ NotifyFits /\ ToldFits /\ SignalsBlocked

\* What an instance of the PMU driver holds, before and after its registration.
LEMMA PmuInstances ==
    /\ \A x \in PmuInstance :
        x # NoPmu /\ x.registered \in BOOLEAN /\ x.was \in BOOLEAN
        /\ x.signo \in KeySignals \cup {NoPmu}
    /\ \A x \in PmuInstance :
        LET y == [x EXCEPT !.registered = TRUE]
        IN  y \in PmuInstance /\ y.signo = x.signo /\ y.was = x.was /\ y.registered
    /\ Unregistered \in PmuInstance /\ ~Unregistered.registered
BY PmuAssumption DEF PmuAssumption, PmuInstance, Unregistered

\* The registered instances, one by one.
LEMMA RegisteredAre ==
    \A i : i \in Registered <=> i \in PmuHandles /\ IsRegistered(i)
BY DEF Registered, PmuOpen, IsRegistered

\* The invariant says that a press is kept.
LEMMA PmuGives == ASSUME PmuInv PROVE PressIsKept
<1> SUFFICES ASSUME "shared" \notin mishaps PROVE PressIsKept
  BY DEF PressIsKept
<1>1. ASSUME NEW i \in PmuHandles, IsRegistered(i) PROVE pmu[i].signo \in mask
  <2>1. Holds(i) BY <1>1 DEF Holds
  <2> QED BY <2>1 DEF PmuInv, CallFits, MaskFits
<1>2. ASSUME pmuPc = "idle", Registered = {} PROVE mask = mask0
  <2>1. \A i \in PmuHandles : ~Holds(i)
    BY <1>2, RegisteredAre DEF Holds
  <2> QED BY <2>1 DEF PmuInv, PmuTypeOK, MaskFits
<1> QED BY <1>1, <1>2, RegisteredAre DEF PmuInv, ToldFits, SignalsBlocked, PressIsKept

\* A new instance holds no signal.
LEMMA CreateKeeps ==
    ASSUME PmuInv, NEW i \in PmuHandles, PmuCreate(i) PROVE PmuInv'
<1> USE DEF PmuInv
<1>1. /\ pmu' = [pmu EXCEPT ![i] = Unregistered] /\ pmu[i] = NoPmu
      /\ pmuPc = "idle"
      /\ UNCHANGED <<pmuPc, pmuAt, mask, mask0, notify, keySignals, told, mishaps>>
  BY DEF PmuCreate, kernelKey
<1>2. PmuTypeOK' BY <1>1, PmuInstances DEF PmuTypeOK
<1>3. \A j \in PmuHandles :
         /\ IsRegistered(j)' <=> IsRegistered(j)
         /\ IsRegistered(j) => pmu'[j] = pmu[j]
  BY <1>1, PmuInstances DEF IsRegistered, PmuTypeOK
<1>4. \A j \in PmuHandles : Holds(j)' <=> Holds(j) /\ IsRegistered(j)
  BY <1>1, <1>3 DEF Holds
<1>5. CallFits' BY <1>1, <1>3, <1>4 DEF CallFits
<1>6. MaskFits' BY <1>1, <1>3, <1>4 DEF MaskFits, Holds
<1>7. NotifyFits' BY <1>1, <1>3 DEF NotifyFits, Leaving
<1>8. ToldFits' BY <1>1, <1>3 DEF ToldFits, Leaving, PmuTypeOK
<1>9. SignalsBlocked' BY <1>1 DEF SignalsBlocked
<1> QED BY <1>2, <1>5, <1>6, <1>7, <1>8, <1>9

\* Blocking a signal remembers whether the thread had it blocked; without sharing
\* that is what the thread came with.
LEMMA BlockKeeps ==
    ASSUME PmuInv, NEW i \in PmuHandles, NEW s \in KeySignals, BlockSignal(i, s) PROVE PmuInv'
<1> USE DEF PmuInv
<1>1. pmu[i] \in PmuInstance /\ pmu[i] # NoPmu /\ ~IsRegistered(i)
  BY RegisteredAre DEF BlockSignal, PmuTypeOK, PmuOpen
<1>2. /\ pmu' = [pmu EXCEPT ![i] = [pmu[i] EXCEPT !.signo = s, !.was = (s \in mask)]]
      /\ pmuPc = "idle" /\ pmuPc' = "blocked" /\ pmuAt' = i
      /\ mask' = mask \cup {s} /\ mishaps \subseteq mishaps'
      /\ "kept" \in mishaps' <=> "kept" \in mishaps
      /\ UNCHANGED <<mask0, notify, keySignals, told>>
  BY DEF BlockSignal, kernelKey, Goto, Mishap, PmuTypeOK
<1>3. PICK b \in BOOLEAN : b = (s \in mask)
  <2>1. (s \in mask) \in BOOLEAN OBVIOUS
  <2> QED BY <2>1, Zenon
<1>4. pmu'[i] = [pmu[i] EXCEPT !.signo = s, !.was = b]
  BY <1>2, <1>3 DEF PmuTypeOK
<1>5. pmu'[i] \in PmuInstance /\ pmu'[i].signo = s /\ pmu'[i].was = b
       /\ pmu'[i].registered = pmu[i].registered
  BY <1>1, <1>4 DEF PmuInstance
<1>6. /\ pmu'[i] \in PmuInstance /\ pmu'[i] # NoPmu
      /\ pmu'[i].signo = s /\ (pmu'[i].was <=> (s \in mask))
  BY <1>3, <1>5, PmuInstances
<1>7. ~IsRegistered(i)'
  BY <1>1, <1>5 DEF IsRegistered
<1>8. \A j \in PmuHandles \ {i} : pmu'[j] = pmu[j] /\ (IsRegistered(j)' <=> IsRegistered(j))
  BY <1>2 DEF PmuTypeOK, IsRegistered
<1>9. \A j \in PmuHandles :
        (Holds(j)' <=> IsRegistered(j) \/ j = i) /\ (Holds(j) <=> IsRegistered(j))
  BY <1>1, <1>2, <1>7, <1>8 DEF Holds
<1>10. PmuTypeOK'
  <2>1. pmu' \in [PmuHandles -> PmuInstance \cup {NoPmu}]
    BY <1>2, <1>6 DEF PmuTypeOK
  <2> QED BY <1>2, <2>1 DEF PmuTypeOK
<1>11. CallFits' BY <1>1, <1>2, <1>6, <1>7, <1>8, <1>9 DEF CallFits
<1>12. MaskFits'
  <2> SUFFICES ASSUME "shared" \notin mishaps' PROVE MaskFits'
    BY DEF MaskFits
  <2>1. "shared" \notin mishaps /\ \A j \in PmuHandles : IsRegistered(j) => pmu[j].signo # s
    BY RegisteredAre DEF BlockSignal, Mishap
  <2>2. s \in mask <=> s \in mask0
    BY <1>9, <2>1 DEF MaskFits
  <2>3. ASSUME NEW j \in PmuHandles, NEW k \in PmuHandles,
               Holds(j)', Holds(k)', pmu'[j].signo = pmu'[k].signo
        PROVE  j = k
    BY <1>1, <1>6, <1>8, <1>9, <2>1, <2>3 DEF MaskFits
  <2>4. ASSUME NEW j \in PmuHandles, Holds(j)'
        PROVE  pmu'[j].was <=> pmu'[j].signo \in mask0
    BY <1>1, <1>6, <1>8, <1>9, <2>1, <2>2, <2>4 DEF MaskFits
  <2>5. ASSUME NEW t \in KeySignals
        PROVE  t \in mask' <=> t \in mask0 \/ \E j \in PmuHandles : Holds(j)' /\ pmu'[j].signo = t
    BY <1>1, <1>2, <1>6, <1>8, <1>9, <2>1 DEF MaskFits
  <2> QED BY <1>2, <2>3, <2>4, <2>5 DEF MaskFits
<1>13. NotifyFits' BY <1>1, <1>2, <1>7, <1>8 DEF NotifyFits, Leaving
<1>14. ToldFits' BY <1>1, <1>2, <1>8 DEF ToldFits, Leaving, PmuTypeOK
<1>15. SignalsBlocked' BY <1>2 DEF SignalsBlocked
<1> QED BY <1>10, <1>11, <1>12, <1>13, <1>14, <1>15

\* The kernel is told the signal that was just blocked.
LEMMA RegisterKeeps ==
    ASSUME PmuInv, NEW i \in PmuHandles, RegisterNotify(i) PROVE PmuInv'
<1> USE DEF PmuInv
<1>1. pmu[i] \in PmuInstance /\ pmu[i] # NoPmu /\ ~IsRegistered(i) /\ pmu[i].signo \in KeySignals
  BY DEF RegisterNotify, PmuTypeOK, CallFits, Holds
<1>2. /\ pmu' = [pmu EXCEPT ![i] = [pmu[i] EXCEPT !.registered = TRUE]]
      /\ pmuPc = "blocked" /\ pmuAt = i /\ pmuPc' = "idle"
      /\ notify' = [notify EXCEPT ![i] = pmu[i].signo]
      /\ UNCHANGED <<mask, mask0, keySignals, told, mishaps>>
  BY DEF RegisterNotify, Goto, PmuTypeOK
<1>3. /\ pmu'[i] \in PmuInstance /\ pmu'[i] # NoPmu
      /\ pmu'[i].signo = pmu[i].signo /\ pmu'[i].was = pmu[i].was
  BY <1>1, <1>2, PmuInstances DEF PmuTypeOK
<1>4. IsRegistered(i)'
  BY <1>1, <1>2, PmuInstances DEF PmuTypeOK, IsRegistered
<1>5. \A j \in PmuHandles \ {i} : pmu'[j] = pmu[j] /\ (IsRegistered(j)' <=> IsRegistered(j))
  BY <1>2 DEF PmuTypeOK, IsRegistered
<1>6. \A j \in PmuHandles :
        /\ Holds(j)' <=> Holds(j)
        /\ pmu'[j].signo = pmu[j].signo /\ pmu'[j].was = pmu[j].was
  BY <1>2, <1>3, <1>4, <1>5 DEF Holds
<1>7. PmuTypeOK'
  <2>1. pmu' \in [PmuHandles -> PmuInstance \cup {NoPmu}]
    BY <1>2, <1>3 DEF PmuTypeOK
  <2> QED BY <1>1, <1>2, <2>1 DEF PmuTypeOK
<1>8. CallFits' BY <1>2, <1>6 DEF CallFits
<1>9. MaskFits' BY <1>2, <1>6 DEF MaskFits
<1>10. NotifyFits' BY <1>2, <1>3, <1>4, <1>5 DEF NotifyFits, Leaving, PmuTypeOK
<1>11. ToldFits' BY <1>1, <1>2, <1>5, <1>6 DEF ToldFits, Leaving, PmuTypeOK
<1>12. SignalsBlocked' BY <1>2 DEF SignalsBlocked
<1> QED BY <1>7, <1>8, <1>9, <1>10, <1>11, <1>12

\* drv_pmu_unblock_signal gives the mask back, whoever calls it.
LEMMA UnblockKeeps ==
    ASSUME PmuInv, NEW i \in PmuHandles, Holds(i), UnblockSignal(i), i \notin told,
           notify[i] = NoPmu \/ "kept" \in mishaps, pmuAt = i,
           \/ pmuPc = "destroying" /\ UNCHANGED <<pmuPc, pmuAt>>
           \/ pmuPc \in {"blocked", "unregistering"} /\ pmuPc' = "idle",
           UNCHANGED <<mask0, notify, keySignals, told>>
    PROVE  PmuInv'
<1> USE DEF PmuInv
<1>1. pmu[i] \in PmuInstance /\ pmu[i].signo \in KeySignals
  BY DEF PmuTypeOK, CallFits
<1>2. /\ pmu' = [pmu EXCEPT ![i] = Unregistered]
       /\ Unregistered \in PmuInstance /\ ~Unregistered.registered
       /\ Unregistered # NoPmu
  BY PmuInstances DEF UnblockSignal
<1>3. /\ pmu' = [pmu EXCEPT ![i] = Unregistered]
      /\ mask' = IF pmu[i].was THEN mask ELSE mask \ {pmu[i].signo}
      /\ mishaps \subseteq mishaps' /\ mishaps' \subseteq mishaps \cup {"late"}
      /\ pmu[i].signo \in keySignals => "late" \in mishaps'
  BY DEF UnblockSignal, Mishap
<1>4. pmu'[i] \in PmuInstance /\ pmu'[i] # NoPmu
  BY <1>2 DEF PmuTypeOK
<1>5. ~IsRegistered(i)'
  BY <1>2 DEF PmuTypeOK, IsRegistered
<1>6. \A j \in PmuHandles \ {i} : pmu'[j] = pmu[j] /\ (IsRegistered(j)' <=> IsRegistered(j))
  BY <1>3 DEF PmuTypeOK, IsRegistered
<1>7. \A j \in PmuHandles : Holds(j)' <=> Holds(j) /\ j # i
  BY <1>5, <1>6 DEF Holds
<1>8. PmuTypeOK'
  <2>1. pmu' \in [PmuHandles -> PmuInstance \cup {NoPmu}]
    BY <1>3, <1>4 DEF PmuTypeOK
  <2> QED BY <1>1, <1>3, <2>1 DEF PmuTypeOK
<1>9. CallFits' BY <1>4, <1>6, <1>7 DEF CallFits
<1>10. MaskFits'
  <2> SUFFICES ASSUME "shared" \notin mishaps' PROVE MaskFits'
    BY DEF MaskFits
  <2>1. "shared" \notin mishaps
    BY <1>3
  <2>2. ASSUME NEW t \in KeySignals
        PROVE  t \in mask' <=> t \in mask0 \/ \E j \in PmuHandles : Holds(j)' /\ pmu'[j].signo = t
    <3>1. CASE t = pmu[i].signo
      <4>1. \A j \in PmuHandles : Holds(j)' => pmu'[j].signo # t
        BY <1>6, <1>7, <2>1, <3>1 DEF MaskFits
      <4>2. (pmu[i].was <=> t \in mask0) /\ t \in mask
        BY <2>1, <3>1 DEF MaskFits
      <4> QED BY <1>3, <3>1, <4>1, <4>2
    <3>2. CASE t # pmu[i].signo
      <4>1. t \in mask' <=> t \in mask BY <1>3, <3>2
      <4>2. \A j \in PmuHandles : Holds(j)' /\ pmu'[j].signo = t <=> Holds(j) /\ pmu[j].signo = t
        BY <1>6, <1>7, <3>2
      <4> QED BY <2>1, <4>1, <4>2 DEF MaskFits
    <3> QED BY <3>1, <3>2
  <2> QED BY <1>6, <1>7, <2>1, <2>2 DEF MaskFits
<1>11. NotifyFits' BY <1>3, <1>5, <1>6 DEF NotifyFits, Leaving
<1>12. ToldFits' BY <1>3, <1>6 DEF ToldFits, Leaving, PmuTypeOK
<1>13. SignalsBlocked' BY <1>3 DEF SignalsBlocked
<1> QED BY <1>8, <1>9, <1>10, <1>11, <1>12, <1>13

\* A refused registration and an ended one give the signal back.
LEMMA EndsKeep ==
    ASSUME PmuInv, NEW i \in PmuHandles, RegisterRefused(i) \/ UnregisterEnds(i) PROVE PmuInv'
<1> USE DEF PmuInv
<1>1. CASE RegisterRefused(i)
  <2>1. pmuPc = "blocked" /\ pmuAt = i /\ Holds(i) /\ ~IsRegistered(i)
    BY <1>1 DEF RegisterRefused, CallFits, Holds
  <2>2. i \notin told /\ (notify[i] = NoPmu \/ "kept" \in mishaps)
    BY <2>1 DEF ToldFits, NotifyFits
  <2> QED BY <1>1, <2>1, <2>2, UnblockKeeps DEF RegisterRefused, kernelKey, Goto
<1>2. CASE UnregisterEnds(i)
  <2>1. Leaving(i) /\ Holds(i)
    BY <1>2, RegisteredAre DEF UnregisterEnds, Holds, Leaving
  <2>2. i \notin told /\ (notify[i] = NoPmu \/ "kept" \in mishaps)
    BY <2>1 DEF ToldFits, NotifyFits
  <2> QED BY <1>2, <2>1, <2>2, UnblockKeeps DEF UnregisterEnds, kernelKey, Goto, Leaving
<1> QED BY <1>1, <1>2

\* An unregistration begins: the kernel stops signalling or refuses.
LEMMA UnregisterKeeps ==
    ASSUME PmuInv, NEW i \in PmuHandles, NEW done \in BOOLEAN,
           NEW label \in {"unregistering", "destroying"}, UnregisterNotify(i, done, label)
    PROVE  PmuInv'
<1> USE DEF PmuInv
<1>1. /\ pmuPc = "idle" /\ pmuPc' = label /\ pmuAt' = i
      /\ told' = told \ {i}
      /\ UNCHANGED <<pmu, mask, mask0, keySignals>>
      /\ mishaps \subseteq mishaps' /\ mishaps' \subseteq mishaps \cup {"kept"}
      /\ notify' = [notify EXCEPT ![i] = NoPmu] \/ (notify' = notify /\ "kept" \in mishaps')
  BY DEF UnregisterNotify, Goto, Mishap
<1>2. pmu[i] # NoPmu /\ IsRegistered(i)
  BY RegisteredAre DEF UnregisterNotify, IsRegistered
<1>3. \A j \in PmuHandles : (IsRegistered(j)' <=> IsRegistered(j)) /\ (Holds(j)' <=> Holds(j))
  BY <1>1 DEF Holds, IsRegistered
<1>4. PmuTypeOK' BY <1>1 DEF PmuTypeOK
<1>5. CallFits' BY <1>1, <1>2, <1>3 DEF CallFits
<1>6. MaskFits' BY <1>1, <1>3 DEF MaskFits
<1>7. NotifyFits' BY <1>1, <1>3 DEF NotifyFits, Leaving, PmuTypeOK
<1>8. ToldFits' BY <1>1, <1>3 DEF ToldFits, Leaving, PmuTypeOK
<1>9. SignalsBlocked' BY <1>1 DEF SignalsBlocked
<1> QED BY <1>4, <1>5, <1>6, <1>7, <1>8, <1>9

\* An instance that holds no signal is closed.
LEMMA CloseKeeps ==
    ASSUME PmuInv, NEW i \in PmuHandles, PmuCloses(i) PROVE PmuInv'
<1> USE DEF PmuInv
<1>1. /\ pmu' = [pmu EXCEPT ![i] = NoPmu]
      /\ notify' = [notify EXCEPT ![i] = NoPmu]
      /\ pmuPc' = "idle" /\ pmuPc # "taken" /\ pmuPc # "blocked"
      /\ pmuPc # "idle" => pmuAt = i
      /\ UNCHANGED <<mask, mask0, keySignals, told, mishaps>>
  BY DEF PmuCloses, Goto
<1>2. ~IsRegistered(i) /\ ~IsRegistered(i)'
  BY <1>1, RegisteredAre DEF PmuCloses, IsRegistered, PmuTypeOK
<1>3. \A j \in PmuHandles \ {i} : pmu'[j] = pmu[j] /\ (IsRegistered(j)' <=> IsRegistered(j))
  BY <1>1 DEF IsRegistered, PmuTypeOK
<1>4. \A j \in PmuHandles : (Holds(j)' <=> IsRegistered(j)) /\ (Holds(j) <=> IsRegistered(j))
  BY <1>1, <1>2, <1>3 DEF Holds
<1>5. PmuTypeOK' BY <1>1 DEF PmuTypeOK
<1>6. CallFits' BY <1>1, <1>2, <1>3, <1>4 DEF CallFits
<1>7. MaskFits' BY <1>1, <1>2, <1>3, <1>4 DEF MaskFits
<1>8. NotifyFits' BY <1>1, <1>3 DEF NotifyFits, Leaving, PmuTypeOK
<1>9. ToldFits' BY <1>1, <1>2, <1>3 DEF ToldFits, Leaving, PmuTypeOK
<1>10. SignalsBlocked' BY <1>1 DEF SignalsBlocked
<1> QED BY <1>5, <1>6, <1>7, <1>8, <1>9, <1>10

\* drv_pmu_key_wait_shutdown takes the signal and reads the request.
LEMMA WaitKeeps ==
    ASSUME PmuInv, (\E i \in PmuHandles : WaitSignal(i)) \/ ReadRequest \/ ReadRequestFails
    PROVE  PmuInv'
<1> USE DEF PmuInv
<1>1. /\ UNCHANGED <<pmu, mask, mask0, notify>>
      /\ keySignals' \subseteq keySignals /\ told' \subseteq told
      /\ mishaps \subseteq mishaps' /\ mishaps' \subseteq mishaps \cup {"unread"}
      /\ {pmuPc, pmuPc'} = {"idle", "taken"}
  BY DEF WaitSignal, ReadRequest, ReadRequestFails, Goto, kernelKey, Mishap
<1>2. pmuPc' = "taken" => pmuAt' \in PmuHandles /\ IsRegistered(pmuAt')
  BY RegisteredAre DEF WaitSignal, ReadRequest, ReadRequestFails, Goto
<1>3. \A j : (IsRegistered(j)' <=> IsRegistered(j)) /\ (Holds(j)' <=> Holds(j))
             /\ ~Leaving(j) /\ ~Leaving(j)'
  BY <1>1 DEF Holds, IsRegistered, Leaving
<1>4. PmuTypeOK' BY <1>1 DEF PmuTypeOK
<1>5. CallFits' BY <1>1, <1>2, <1>3 DEF CallFits, IsRegistered
<1>6. MaskFits' BY <1>1, <1>3 DEF MaskFits
<1>7. NotifyFits' BY <1>1, <1>3 DEF NotifyFits
<1>8. ToldFits'
  <2>1. ASSUME NEW i \in PmuHandles, WaitSignal(i) PROVE ToldFits'
    <3>1. /\ pmuPc' = "taken" /\ pmuAt' = i /\ pmuPc = "idle" /\ IsRegistered(i)
          /\ keySignals' = keySignals \ {pmu[i].signo} /\ UNCHANGED <<told, mishaps>>
      BY <2>1, RegisteredAre DEF WaitSignal, Goto
    <3>2. ASSUME NEW j \in told, j # i, "shared" \notin mishaps
          PROVE  pmu[j].signo # pmu[i].signo
      <4>1. Holds(i) /\ Holds(j) BY <3>1 DEF Holds, ToldFits
      <4> QED BY <3>2, <4>1 DEF MaskFits, PmuTypeOK
    <3> QED BY <1>1, <1>3, <3>1, <3>2 DEF ToldFits
  <2>2. ASSUME ReadRequest PROVE ToldFits'
    BY <2>2 DEF ReadRequest, ToldFits
  <2>3. ASSUME ReadRequestFails PROVE ToldFits'
    BY <1>1, <1>3, <2>3 DEF ReadRequestFails, Mishap, ToldFits
  <2> QED BY <2>1, <2>2, <2>3
<1>9. SignalsBlocked' BY <1>1 DEF SignalsBlocked
<1> QED BY <1>4, <1>5, <1>6, <1>7, <1>8, <1>9

\* The key is pressed, or a signal that nobody blocks strikes.
LEMMA KernelKeeps ==
    ASSUME PmuInv, Press \/ \E s \in KeySignals : KeyStrikes(s)
    PROVE  PmuInv'
<1> USE DEF PmuInv
<1>1. UNCHANGED <<pmu, pmuPc, pmuAt, mask, mask0, notify, mishaps>>
  BY DEF Press, KeyStrikes
<1>2. \A j : (IsRegistered(j)' <=> IsRegistered(j)) /\ (Holds(j)' <=> Holds(j))
             /\ (Leaving(j)' <=> Leaving(j))
  BY <1>1 DEF Holds, IsRegistered, Leaving
<1>3. CallFits' BY <1>1, <1>2 DEF CallFits
<1>4. MaskFits' BY <1>1, <1>2 DEF MaskFits
<1>5. NotifyFits' BY <1>1, <1>2 DEF NotifyFits
<1>6. \A i \in PmuHandles : IsRegistered(i) /\ "shared" \notin mishaps => pmu[i].signo \in mask
  BY DEF CallFits, MaskFits, Holds
<1>7. CASE Press
  <2>1. \A s : s \in keySignals' <=> s \in keySignals
              \/ \E i \in PmuHandles : notify[i] # NoPmu /\ notify[i] = s
    BY <1>7 DEF Press
  <2>2. \A i : i \in told' <=> i \in PmuHandles /\ notify[i] # NoPmu
                               /\ IsRegistered(i) /\ ~Leaving(i)
    BY <1>7, RegisteredAre DEF Press
  <2>3. PmuTypeOK' BY <1>1, <2>1, <2>2 DEF PmuTypeOK
  <2>4. ToldFits' BY <1>1, <1>2, <2>1, <2>2 DEF ToldFits, NotifyFits
  <2>5. SignalsBlocked' BY <1>1, <1>6, <2>1 DEF SignalsBlocked, NotifyFits
  <2> QED BY <1>3, <1>4, <1>5, <2>3, <2>4, <2>5
<1>8. ASSUME NEW s \in KeySignals, KeyStrikes(s) PROVE PmuInv'
  <2>1. s \notin mask /\ keySignals' = keySignals \ {s} /\ told' = told
    BY <1>8 DEF KeyStrikes
  <2>2. PmuTypeOK' BY <1>1, <2>1 DEF PmuTypeOK
  <2>3. ToldFits' BY <1>1, <1>2, <1>6, <2>1 DEF ToldFits, PmuTypeOK
  <2>4. SignalsBlocked' BY <1>1, <2>1 DEF SignalsBlocked
  <2> QED BY <1>3, <1>4, <1>5, <2>2, <2>3, <2>4
<1> QED BY <1>7, <1>8

\* The signal of the power key is neither lost nor let loose, and the thread gets
\* back the mask it came with, for any number of instances and signals: as long as
\* no two instances share a signal, with the exceptions that PressIsKept names.
THEOREM PressKept == PmuSpec => []PressIsKept
<1>1. ASSUME PmuInit PROVE PmuInv
  <2>1. \A i \in PmuHandles : pmu[i] = NoPmu /\ notify[i] = NoPmu /\ ~Holds(i)
    BY <1>1 DEF PmuInit, Holds, IsRegistered
  <2> QED
    BY <1>1, <2>1
       DEF PmuInit, PmuInv, PmuTypeOK, CallFits, MaskFits, NotifyFits, ToldFits, SignalsBlocked
<1>2. ASSUME PmuInv, PmuNext PROVE PmuInv'
  BY <1>2, CreateKeeps, BlockKeeps, RegisterKeeps, EndsKeep, UnregisterKeeps, CloseKeeps,
     WaitKeeps,
     KernelKeeps DEF PmuNext
<1>3. ASSUME PmuInv, UNCHANGED pmuVars PROVE PmuInv'
  <2>1. \A j : (IsRegistered(j)' <=> IsRegistered(j)) /\ (Holds(j)' <=> Holds(j))
             /\ (Leaving(j)' <=> Leaving(j))
    BY <1>3 DEF pmuVars, Holds, IsRegistered, Leaving
  <2> QED BY <1>3, <2>1
      DEF pmuVars, PmuInv, PmuTypeOK, CallFits, MaskFits, NotifyFits, ToldFits, SignalsBlocked
<1> QED BY <1>1, <1>2, <1>3, PmuGives, PTL DEF PmuSpec

-----------------------------------------------------------------------------
(* ModemWake: for every budget, poll interval and length of the commands.  *)

\* The inductive invariant: WakeBounded alone is lost at the first test,
\* because it does not say how late a test can start: a wait lets at most
\* its own last test pass the deadline.
WakeInv ==
    /\ WakeTypeOK
    /\ WakeBounded
    /\ wakePc \in {"test", "sleep"} => deadline = Budget
    /\ wakePc = "sleep" => elapsed < Budget
    /\ wakePc = "test" /\ phase = "at" => elapsed <= Budget - 1 + Poll
    /\ wakePc = "test" /\ phase = "dial" => elapsed <= Budget - 1 + Poll + ProbeMax

\* What req_ready_set leaves, and where.
LEMMA PinWritten ==
    ASSUME NEW high \in BOOLEAN, SetPin(high), pin \in BOOLEAN
    PROVE  /\ pin' \in BOOLEAN /\ refused' \in BOOLEAN
           /\ ~refused' => pin' = high
BY DEF SetPin

\* Every step of modem_wake and modem_enter_edrx keeps the bound on the time
\* a test starts at.
THEOREM WakeInvariance == WakeSpec => []WakeInv
<1> USE TimesAssumption DEF TimesAssumption
<1>0. 0 <= Budget - 1 + Poll + ProbeMax + DialMax /\ 0 <= Budget - 1 + Poll
  OBVIOUS
<1>1. WakeInit => WakeInv
  <2> SUFFICES ASSUME WakeInit PROVE WakeInv
    OBVIOUS
  <2>1. /\ pin \in BOOLEAN /\ refused \in BOOLEAN
        /\ power \in BOOLEAN /\ renewed \in BOOLEAN
    BY DEF WakeInit
  <2> QED
    BY <1>0, <2>1 DEF WakeInit, WakeInv, WakeTypeOK, WakeBounded, LongestWake
<1>2. WakeInv /\ [WakeNext]_wakeVars => WakeInv'
  <2> SUFFICES ASSUME WakeInv, [WakeNext]_wakeVars PROVE WakeInv'
    OBVIOUS
  <2> USE DEF WakeInv, WakeTypeOK, WakeBounded, LongestWake
  <2>1. CASE Wake
    BY <1>0, <2>1, PinWritten DEF Wake
  <2>2. ASSUME NEW ok \in BOOLEAN, NEW d \in 0..ProbeMax, TestAt(d, ok)
        PROVE  WakeInv'
    <3>1. CASE ok
      BY <2>2, <3>1 DEF TestAt, Met, NextDeadline, board
    <3>2. CASE ~ok
      BY <2>2, <3>2 DEF TestAt, Unmet, Over, board
    <3> QED BY <3>1, <3>2
  <2>3. ASSUME NEW ok \in BOOLEAN, NEW d \in 0..DialMax, TestDial(d, ok)
        PROVE  WakeInv'
    <3>1. CASE ok \/ net
      BY <2>3, <3>1 DEF TestDial, Met, NextDeadline, board
    <3>2. CASE ~(ok \/ net)
      BY <2>3, <3>2 DEF TestDial, Unmet, Over, board
    <3> QED BY <3>1, <3>2
  <2>4. CASE TestNet
    <3>1. CASE Online
      BY <2>4, <3>1 DEF TestNet, board
    <3>2. CASE ~Online
      BY <2>4, <3>2 DEF TestNet, Unmet, Over, board
    <3> QED BY <3>1, <3>2
  <2>5. CASE Sleep
    BY <2>5 DEF Sleep, board
  <2>6. CASE EnterEdrx
    BY <2>6, PinWritten DEF EnterEdrx
  <2>7. CASE ShutdownNow
    BY <2>7 DEF ShutdownNow
  <2>8. CASE NetChanges
    BY <2>8 DEF NetChanges, board
  <2>9. CASE PowerUp
    BY <1>0, <2>9 DEF PowerUp
  <2>10. CASE UNCHANGED wakeVars
    BY <2>10 DEF wakeVars
  <2> QED
    BY <2>1, <2>2, <2>3, <2>4, <2>5, <2>6, <2>7, <2>8, <2>9, <2>10 DEF WakeNext
<1> QED
  BY <1>1, <1>2, PTL DEF WakeSpec

\* modem_wake takes no longer than the budget, one poll interval, one probe
\* and one dial, for every value of the timeouts.
THEOREM WakeIsBounded == WakeSpec => []WakeBounded
<1>1. WakeInv => WakeBounded
  BY DEF WakeInv
<1> QED
  BY <1>1, WakeInvariance, PTL

\* The variables keep their types, the deadline is the one modem_wake set.
THEOREM WakeTypes == WakeSpec => []WakeTypeOK
<1>1. WakeInv => WakeTypeOK
  BY DEF WakeInv
<1> QED
  BY <1>1, WakeInvariance, PTL

\* The power is never cut under a REQ_READY that is high, unless the write that
\* lowers it failed: modem_enter_edrx lowers it first, and nothing raises it before
\* the power goes.
THEOREM DarkBoard == WakeSpec => []DarkBoardAsksNothing
<1> DEFINE PinInv == DarkBoardAsksNothing /\ (wakePc = "cut" /\ ~refused => ~pin)
<1>1. WakeInit => PinInv
  BY DEF WakeInit, DarkBoardAsksNothing
<1>2. PinInv /\ [WakeNext]_wakeVars => PinInv'
  <2> SUFFICES ASSUME PinInv, [WakeNext]_wakeVars PROVE PinInv'
    OBVIOUS
  <2> USE DEF DarkBoardAsksNothing
  <2>1. CASE Wake
    BY <2>1 DEF Wake, SetPin
  <2>2. ASSUME NEW ok \in BOOLEAN, NEW d \in 0..ProbeMax, TestAt(d, ok)
        PROVE  PinInv'
    BY <2>2 DEF TestAt, Met, Unmet, board
  <2>3. ASSUME NEW ok \in BOOLEAN, NEW d \in 0..DialMax, TestDial(d, ok)
        PROVE  PinInv'
    BY <2>3 DEF TestDial, Met, Unmet, board
  <2>4. CASE TestNet
    BY <2>4 DEF TestNet, Unmet, board
  <2>5. CASE Sleep
    BY <2>5 DEF Sleep, board
  <2>6. CASE EnterEdrx
    BY <2>6 DEF EnterEdrx, SetPin
  <2>7. CASE ShutdownNow
    BY <2>7 DEF ShutdownNow
  <2>8. CASE NetChanges
    BY <2>8 DEF NetChanges, board
  <2>9. CASE PowerUp
    BY <2>9 DEF PowerUp
  <2>10. CASE UNCHANGED wakeVars
    BY <2>10 DEF wakeVars
  <2> QED
    BY <2>1, <2>2, <2>3, <2>4, <2>5, <2>6, <2>7, <2>8, <2>9, <2>10 DEF WakeNext
<1>3. PinInv => DarkBoardAsksNothing
  OBVIOUS
<1> QED
  BY <1>1, <1>2, <1>3, PTL DEF WakeSpec

-----------------------------------------------------------------------------
(* ModemAt.                                                                *)

\* Tokens, at most n.
Held(q, n) == q \in Seq(Tokens) /\ Len(q) <= n

\* An empty buffer.
LEMMA NothingHeld == ASSUME NEW n \in Nat PROVE Held(<<>>, n)
<1>1. <<>> \in Seq(Tokens) /\ Len(<<>>) = 0 OBVIOUS
<1> QED BY <1>1 DEF Held

\* Tokens are added where there is room.
LEMMA MoreHeld ==
    ASSUME NEW n \in Nat, NEW q, Held(q, n), NEW r \in Seq(Tokens), Len(q \o r) <= n
    PROVE  Held(q \o r, n)
BY DEF Held

\* One token is added.
LEMMA OneHeld ==
    ASSUME NEW n \in Nat, NEW q, Held(q, n), Len(q) < n, NEW e \in Tokens
    PROVE  Held(Append(q, e), n)
<1>1. q \in Seq(Tokens) /\ Len(q) \in Nat BY DEF Held
<1>2. Append(q, e) \in Seq(Tokens) /\ Len(Append(q, e)) = Len(q) + 1 BY <1>1
<1>3. Len(q) + 1 <= n BY <1>1
<1> QED BY <1>2, <1>3 DEF Held

\* A read takes the first tokens and leaves the others.
LEMMA CutHeld ==
    ASSUME NEW n \in Nat, NEW q, Held(q, n), NEW k \in 1..Len(q)
    PROVE  Held(SubSeq(q, 1, k), n) /\ Held(SubSeq(q, k + 1, Len(q)), n)
<1>1. q \in Seq(Tokens) /\ Len(q) \in Nat /\ Len(q) <= n BY DEF Held
<1>2. SubSeq(q, 1, k) \in Seq(Tokens) /\ Len(SubSeq(q, 1, k)) = k BY <1>1
<1>3. /\ SubSeq(q, k + 1, Len(q)) \in Seq(Tokens)
      /\ Len(SubSeq(q, k + 1, Len(q))) = Len(q) - k
  BY <1>1
<1>4. k <= n /\ Len(q) - k <= n BY <1>1
<1> QED BY <1>2, <1>3, <1>4 DEF Held

\* A sequence from its k-th token on.
LEMMA LastHeld ==
    ASSUME NEW q \in Seq(Tokens), NEW k \in 1..(Len(q) + 1)
    PROVE  SubSeq(q, k, Len(q)) \in Seq(Tokens) /\ Len(SubSeq(q, k, Len(q))) = Len(q) - k + 1
<1>1. Len(q) \in Nat OBVIOUS
<1> QED BY <1>1

\* at_capture stays within at_buf, whatever the sizes of the chunk and of the buffer: the
\* old part gives way, and of a chunk that is larger than the buffer the end is kept.
LEMMA CaptureFits ==
    ASSUME Held(buf, AtBuf), chunk \in Seq(Tokens)
    PROVE  Held(RoomFor(KeptTail(chunk)) \o KeptTail(chunk), AtBuf)
<1>1. PICK a : a = AtBuf OBVIOUS
<1>2. a \in Nat /\ a > 0 BY <1>1, AtBufAssumption DEF AtBufAssumption
<1>3. PICK data : data = KeptTail(chunk) OBVIOUS
<1>4. Len(chunk) \in Nat OBVIOUS
<1>5. data \in Seq(Tokens) /\ Len(data) \in Nat /\ Len(data) <= a
  <2>1. CASE Len(chunk) > a
    <3>1. Len(chunk) - a + 1 \in 1..(Len(chunk) + 1) BY <1>2, <1>4, <2>1
    <3>2. data = SubSeq(chunk, Len(chunk) - a + 1, Len(chunk)) BY <1>1, <1>3, <2>1 DEF KeptTail
    <3>3. data \in Seq(Tokens) /\ Len(data) = Len(chunk) - (Len(chunk) - a + 1) + 1
      BY <3>1, <3>2, LastHeld
    <3> QED BY <1>2, <1>4, <3>3
  <2>2. CASE ~(Len(chunk) > a)
    <3>1. 1 \in 1..(Len(chunk) + 1) BY <1>4
    <3>2. data = SubSeq(chunk, 1, Len(chunk)) BY <1>1, <1>3, <2>2 DEF KeptTail
    <3>3. data \in Seq(Tokens) /\ Len(data) = Len(chunk) - 1 + 1 BY <3>1, <3>2, LastHeld
    <3> QED BY <1>2, <1>4, <2>2, <3>3
  <2> QED BY <2>1, <2>2
<1>6. buf \in Seq(Tokens) /\ Len(buf) \in Nat /\ Len(buf) <= a BY <1>1 DEF Held
<1>7. PICK old : old = RoomFor(data) OBVIOUS
<1>8. old \in Seq(Tokens) /\ Len(old) \in Nat /\ Len(old) + Len(data) <= a
  <2>1. PICK drop \in Int : drop = Len(buf) + Len(data) - a
    <3>1. Len(buf) + Len(data) - a \in Int BY <1>2, <1>5, <1>6
    <3> QED BY <3>1
  <2>2. CASE drop > 0
    <3>1. drop + 1 \in 1..(Len(buf) + 1) BY <1>2, <1>5, <1>6, <2>1, <2>2
    <3>2. old = SubSeq(buf, drop + 1, Len(buf)) BY <1>1, <1>7, <2>1, <2>2 DEF RoomFor
    <3>3. old \in Seq(Tokens) /\ Len(old) = Len(buf) - (drop + 1) + 1
      BY <1>6, <3>1, <3>2, LastHeld
    <3>4. Len(buf) - (drop + 1) + 1 = a - Len(data) BY <1>2, <1>5, <1>6, <2>1
    <3> QED BY <1>2, <1>5, <3>3, <3>4
  <2>3. CASE ~(drop > 0)
    <3>1. old = buf BY <1>1, <1>7, <2>1, <2>3 DEF RoomFor
    <3>2. Len(buf) + Len(data) <= a BY <1>2, <1>5, <1>6, <2>1, <2>3
    <3> QED BY <1>6, <3>1, <3>2
  <2> QED BY <2>2, <2>3
<1>9. old \o data \in Seq(Tokens) /\ Len(old \o data) = Len(old) + Len(data) BY <1>5, <1>8
<1> QED BY <1>1, <1>3, <1>7, <1>8, <1>9 DEF Held

\* The types of what is not a sequence ...
AtFlags ==
    /\ inited \in BOOLEAN /\ gpio \in BOOLEAN /\ modemPmu \in BOOLEAN
    /\ atFd \in BOOLEAN /\ atReopen \in BOOLEAN
    /\ atRun \in BOOLEAN /\ atStarted \in BOOLEAN
    /\ atReader \in {"none", "top", "clear", "open", "read", "capture", "done"}
    /\ capturing \in BOOLEAN
    /\ caller \in {"idle", "write", "wait", "finish", "join"}
    /\ rc \in {-1, 0, 1}
    /\ imei \in BOOLEAN
    /\ port \in BOOLEAN

\* ... and what the buffers hold.
AtData ==
    /\ Held(chunk, MaxRx) /\ Held(buf, AtBuf) /\ Held(rxq, MaxRx)
    /\ cmd \in Cmds /\ sent \in 0..MaxCmds /\ inbox \in Seq(Cmds)

\* Flags and buffers make up the type invariant.
LEMMA AtTypesAre == AtTypeOK <=> AtFlags /\ AtData
BY DEF AtTypeOK, AtFlags, AtData, Held

\* What the lifecycle of the component makes of the reader, the port and the capture.
AtLife ==
    /\ atStarted <=> atReader # "none"
    /\ atReader \in {"none", "done"} => ~atFd
    /\ atReader = "done" => ~atRun
    /\ capturing <=> caller \in {"write", "wait", "finish"}
    /\ caller = "join" => inited
    /\ inited /\ atStarted /\ caller # "join" => atRun
    /\ ~inited => ~gpio /\ ~modemPmu /\ caller = "idle" /\ ~atStarted

\* Every step keeps the flags ...
LEMMA FlagsStep == AtFlags /\ [AtNext]_atVars => AtFlags'
<1> SUFFICES ASSUME AtFlags, [AtNext]_atVars PROVE AtFlags' OBVIOUS
<1> USE DEF AtFlags, lifecycle, channel, callerVars
<1>1. ASSUME NEW p \in BOOLEAN, NEW t \in BOOLEAN, ModemInit(p, t) PROVE AtFlags'
  BY <1>1 DEF ModemInit
<1>2. CASE ModemInitFails BY <1>2 DEF ModemInitFails
<1>3. CASE DeinitBegin BY <1>3 DEF DeinitBegin
<1>4. CASE DeinitEnd BY <1>4 DEF DeinitEnd
<1>5. CASE ReaderStep
  <2>1. CASE ReaderTop BY <2>1 DEF ReaderTop
  <2>2. ASSUME UNCHANGED <<inited, gpio, modemPmu, atRun, atStarted, capturing, caller, rc,
                          imei, port>>,
               atReader' \in {"top", "open", "read", "capture"},
               atFd' \in BOOLEAN, atReopen' \in BOOLEAN
        PROVE  AtFlags'
    BY <2>2
  <2>3. CASE ReaderClear
    <3>1. atReader' \in {"open", "read"} BY <2>3 DEF ReaderClear
    <3> QED BY <2>2, <2>3, <3>1 DEF ReaderClear
  <2>4. CASE ReaderOpen
    <3>1. atReader' \in {"top", "read"} /\ atFd' \in BOOLEAN BY <2>4 DEF ReaderOpen
    <3> QED BY <2>2, <2>4, <3>1 DEF ReaderOpen
  <2>5. CASE ReaderRead
    <3>1. atReader' \in {"top", "capture"} /\ atFd' \in BOOLEAN BY <2>5 DEF ReaderRead
    <3> QED BY <2>2, <2>5, <3>1 DEF ReaderRead
  <2>6. CASE ReaderCapture BY <2>6 DEF ReaderCapture
  <2> QED BY <1>5, <2>1, <2>3, <2>4, <2>6, <2>5 DEF ReaderStep
<1>6. ASSUME NEW k \in CmdKinds, CmdNotReady(k) \/ CmdBegin(k) PROVE AtFlags'
  <2>1. CASE CmdNotReady(k)
    <3>1. atReopen' \in BOOLEAN BY <2>1 DEF CmdNotReady
    <3> QED BY <2>1, <3>1 DEF CmdNotReady
  <2>2. CASE CmdBegin(k) BY <2>2 DEF CmdBegin
  <2> QED BY <1>6, <2>1, <2>2
<1>7. CASE CmdStep
  <2>1. CASE CmdWrite BY <2>1 DEF CmdWrite
  <2>2. CASE CmdWriteFails BY <2>2 DEF CmdWriteFails
  <2>3. CASE CmdAnswered BY <2>3 DEF CmdAnswered
  <2>4. CASE CmdTimeout BY <2>4 DEF CmdTimeout
  <2>5. CASE CmdFinish BY <2>5 DEF CmdFinish, Conclude
  <2> QED BY <1>7, <2>1, <2>2, <2>3, <2>4, <2>5 DEF CmdStep
<1>8. CASE Answer BY <1>8 DEF Answer
<1>9. CASE Urc BY <1>9 DEF Urc
<1>10. CASE PortChanges BY <1>10 DEF PortChanges
<1>11. CASE UNCHANGED atVars BY <1>11 DEF atVars
<1> QED BY <1>1, <1>2, <1>3, <1>4, <1>5, <1>6, <1>7, <1>8, <1>9, <1>10, <1>11 DEF AtNext

\* ... the lifecycle ...
LEMMA LifeStep == AtFlags /\ AtLife /\ [AtNext]_atVars => AtLife'
<1> SUFFICES ASSUME AtFlags, AtLife, [AtNext]_atVars PROVE AtLife' OBVIOUS
<1> USE DEF AtFlags, AtLife, lifecycle, channel, callerVars
<1>1. ASSUME NEW p \in BOOLEAN, NEW t \in BOOLEAN, ModemInit(p, t) PROVE AtLife'
  BY <1>1 DEF ModemInit
<1>2. CASE ModemInitFails BY <1>2 DEF ModemInitFails
<1>3. CASE DeinitBegin BY <1>3 DEF DeinitBegin
<1>4. CASE DeinitEnd BY <1>4 DEF DeinitEnd, Joined
<1>5. CASE ReaderStep
  <2>1. CASE ReaderTop BY <2>1 DEF ReaderTop
  <2>2. CASE ReaderClear BY <2>2 DEF ReaderClear
  <2>3. CASE ReaderOpen BY <2>3 DEF ReaderOpen
  <2>4. CASE ReaderRead BY <2>4 DEF ReaderRead
  <2>5. CASE ReaderCapture BY <2>5 DEF ReaderCapture
  <2> QED BY <1>5, <2>1, <2>2, <2>3, <2>4, <2>5 DEF ReaderStep
<1>6. ASSUME NEW k \in CmdKinds, CmdNotReady(k) \/ CmdBegin(k) PROVE AtLife'
  BY <1>6 DEF CmdNotReady, CmdBegin
<1>7. CASE CmdStep
  BY <1>7 DEF CmdStep, CmdWrite, CmdWriteFails, CmdAnswered, CmdTimeout, CmdFinish, Conclude
<1>8. CASE Answer \/ Urc \/ PortChanges BY <1>8 DEF Answer, Urc, PortChanges
<1>9. CASE UNCHANGED atVars BY <1>9 DEF atVars
<1> QED BY <1>1, <1>2, <1>3, <1>4, <1>5, <1>6, <1>7, <1>8, <1>9 DEF AtNext

\* ... and the buffers.
LEMMA DataStep == AtData /\ [AtNext]_atVars => AtData'
<1> SUFFICES ASSUME AtData, [AtNext]_atVars PROVE AtData' OBVIOUS
<1>1. MaxRx \in Nat /\ AtBuf \in Nat /\ MaxCmds \in Nat BY AtBufAssumption DEF AtBufAssumption
<1>2. Held(<<>>, MaxRx) /\ Held(<<>>, AtBuf) BY <1>1, NothingHeld
<1> USE DEF AtData, lifecycle, channel, callerVars
<1>3. ASSUME NEW p, NEW t, ModemInit(p, t) PROVE AtData' BY <1>2, <1>3 DEF ModemInit
<1>4. CASE ModemInitFails \/ DeinitBegin \/ DeinitEnd
  BY <1>2, <1>4 DEF ModemInitFails, DeinitBegin, DeinitEnd
<1>5. CASE ReaderTop \/ ReaderClear BY <1>5 DEF ReaderTop, ReaderClear
<1>6. CASE ReaderOpen BY <1>2, <1>6 DEF ReaderOpen
<1>7. CASE ReaderRead
  <2>1. UNCHANGED <<buf, cmd, sent, inbox>> BY <1>7 DEF ReaderRead
  <2>2. CASE UNCHANGED <<chunk, rxq>> BY <2>1, <2>2
  <2>3. ASSUME NEW n \in 1..Len(rxq), chunk' = SubSeq(rxq, 1, n),
               rxq' = SubSeq(rxq, n + 1, Len(rxq))
        PROVE  AtData'
    BY <1>1, <2>1, <2>3, CutHeld
  <2> QED BY <1>7, <2>2, <2>3 DEF ReaderRead
<1>8. CASE ReaderCapture
  <2>1. /\ buf' = IF capturing THEN RoomFor(KeptTail(chunk)) \o KeptTail(chunk) ELSE buf
        /\ chunk' = <<>> /\ UNCHANGED <<cmd, sent, inbox, rxq>>
    BY <1>8 DEF ReaderCapture
  <2>2. Held(RoomFor(KeptTail(chunk)) \o KeptTail(chunk), AtBuf) BY CaptureFits DEF Held
  <2> QED BY <1>2, <2>1, <2>2
<1>9. ASSUME NEW k \in CmdKinds, CmdNotReady(k) \/ CmdBegin(k) PROVE AtData'
  <2>1. CASE CmdNotReady(k) BY <2>1 DEF CmdNotReady
  <2>2. CASE CmdBegin(k)
    <3>1. /\ sent < MaxCmds /\ sent' = sent + 1 /\ cmd' = [kind |-> k, id |-> sent + 1]
          /\ buf' = <<>> /\ UNCHANGED <<chunk, rxq, inbox>>
      BY <2>2 DEF CmdBegin
    <3>2. sent + 1 \in 0..MaxCmds BY <1>1, <3>1
    <3>3. cmd' \in Cmds BY <3>1, <3>2 DEF Cmds
    <3> QED BY <1>2, <3>1, <3>2, <3>3
  <2> QED BY <1>9, <2>1, <2>2
<1>10. CASE CmdWrite
  <2>1. Append(inbox, cmd) \in Seq(Cmds) OBVIOUS
  <2> QED BY <1>10, <2>1 DEF CmdWrite
<1>11. CASE CmdWriteFails \/ CmdAnswered \/ CmdTimeout \/ CmdFinish
  BY <1>11 DEF CmdWriteFails, CmdAnswered, CmdTimeout, CmdFinish
<1>12. CASE Answer
  <2>1. PICK c : c = Head(inbox) OBVIOUS
  <2>2. inbox # <<>> /\ inbox' = Tail(inbox) /\ UNCHANGED <<chunk, buf, cmd, sent>>
    BY <1>12 DEF Answer
  <2>3. inbox' \in Seq(Cmds) /\ c \in Cmds BY <2>1, <2>2
  <2>4. c.id \in 0..MaxCmds BY <2>3 DEF Cmds
  <2>5. \A x \in {"OK", "ERROR", "IMEI"} : [text |-> x, id |-> c.id] \in Tokens
    BY <2>4 DEF Tokens
  <2>6. PICK ok : ok = (IF c.kind = "imei" THEN <<[text |-> "IMEI", id |-> c.id]>> ELSE <<>>)
                         \o <<[text |-> "OK", id |-> c.id]>>
    OBVIOUS
  <2>7. ok \in Seq(Tokens)
    <3>1. <<[text |-> "IMEI", id |-> c.id]>> \in Seq(Tokens) BY <2>5
    <3>2. <<[text |-> "OK", id |-> c.id]>> \in Seq(Tokens) BY <2>5
    <3>3. <<>> \in Seq(Tokens) OBVIOUS
    <3> QED BY <2>6, <3>1, <3>2, <3>3
  <2>8. \/ Len(rxq \o ok) <= MaxRx /\ rxq' = rxq \o ok
        \/ Len(rxq) < MaxRx /\ rxq' = Append(rxq, [text |-> "ERROR", id |-> c.id])
        \/ UNCHANGED rxq
    BY <1>12, <2>1, <2>6 DEF Answer
  <2>9. Held(rxq', MaxRx) BY <1>1, <2>5, <2>7, <2>8, MoreHeld, OneHeld
  <2> QED BY <2>2, <2>3, <2>9
<1>13. CASE Urc
  <2>1. [text |-> "URC", id |-> 0] \in Tokens BY <1>1 DEF Tokens
  <2>2. Held(rxq', MaxRx) BY <1>1, <1>13, <2>1, OneHeld DEF Urc
  <2> QED BY <1>13, <2>2 DEF Urc
<1>14. CASE PortChanges
  <2>1. <<>> \in Seq(Cmds) OBVIOUS
  <2> QED BY <1>2, <1>14, <2>1 DEF PortChanges
<1>15. CASE UNCHANGED atVars BY <1>15 DEF atVars
<1> QED BY <1>3, <1>4, <1>5, <1>6, <1>7, <1>8, <1>9, <1>10, <1>11, <1>12, <1>13, <1>14, <1>15
        DEF AtNext, ReaderStep, CmdStep

\* The invariant of the AT channel holds throughout.
LEMMA AtAlways == AtSpec => [](AtFlags /\ AtData /\ AtLife)
<1>1. AtInit => AtFlags /\ AtData /\ AtLife
  <2> SUFFICES ASSUME AtInit PROVE AtFlags /\ AtData /\ AtLife OBVIOUS
  <2>1. AtFlags /\ AtLife BY DEF AtInit, AtFlags, AtLife
  <2>2. MaxRx \in Nat /\ AtBuf \in Nat /\ MaxCmds \in Nat BY AtBufAssumption DEF AtBufAssumption
  <2>3. Held(<<>>, MaxRx) /\ Held(<<>>, AtBuf) /\ <<>> \in Seq(Cmds) BY <2>2, NothingHeld
  <2>4. NoCmd \in Cmds /\ 0 \in 0..MaxCmds BY <2>2 DEF NoCmd, Cmds, CmdKinds
  <2> QED BY <2>1, <2>3, <2>4 DEF AtInit, AtData
<1> QED BY <1>1, FlagsStep, LifeStep, DataStep, PTL DEF AtSpec

\* at_buf, the chunk of the reader and the tty never hold more than they can, for every
\* size of them, any number of commands and whatever the modem sends.
THEOREM AtTypes == AtSpec => []AtTypeOK
BY AtAlways, AtTypesAre, PTL

\* After modem_deinit, and before modem_init, there is no reader thread, no open port, no
\* handle and no capture.  Until then a reader that was started stays in its loop, so that
\* the tty is read.
DeinitReleases ==
    /\ ~inited => atReader = "none" /\ ~atFd /\ ~capturing /\ ~gpio /\ ~modemPmu
    /\ inited /\ atStarted /\ caller # "join" => atReader \notin {"none", "done"}

\* modem_deinit leaves nothing behind, in whatever state it finds the port, and the
\* reader runs as long as the component is in use.
THEOREM NothingLeftBehind == AtSpec => []DeinitReleases
<1>1. AtFlags /\ AtLife => DeinitReleases BY DEF AtFlags, AtLife, DeinitReleases
<1> QED BY <1>1, AtAlways, PTL

-----------------------------------------------------------------------------
(* InputDevice.                                                            *)

\* The types of the variables.
InputTypes ==
    /\ queue \in [Slots -> Seq(Events)]
    /\ fd \in Slots \cup {NoInput}
    /\ buttons \in BOOLEAN /\ heard \in BOOLEAN /\ kept \in BOOLEAN /\ lost \in BOOLEAN
    /\ pc \in {"idle", "poll", "frame", "look", "open"}
    /\ frame \in Seq(Events)
    /\ reader \in {"pointer", "raw"}

\* Where a call may be: events are collected in a frame only, a search for a device
\* has none connected.
Phases ==
    /\ pc \in {"idle", "poll"} => frame = <<>>
    /\ pc \in {"poll", "frame"} => Connected
    /\ pc \in {"look", "open"} => ~Connected
    /\ pc = "open" => found.slot \in Slots

\* The buttons are what was heard of the device in the slot, or kept of one that was
\* there, but for the events in the frame.
Follows == Connected /\ ~lost => (heard \/ kept <=> Pressed(buttons, frame))

\* The inductive invariant: ButtonsFollowDevice, also in the middle of a call.
InputInv == InputTypes /\ Phases /\ Follows

\* No event changes nothing.
LEMMA PressedNothing == ASSUME NEW b \in BOOLEAN PROVE Pressed(b, <<>>) <=> b
BY DEF Pressed

\* button_state is a flag.
LEMMA PressedIsBool == \A b, es : Pressed(b, es) \in BOOLEAN BY DEF Pressed

\* What one event does.
LEMMA PressedOne ==
    ASSUME NEW b \in BOOLEAN, NEW e \in Events
    PROVE  /\ e \in Keys => (Pressed(b, <<e>>) <=> e = "press")
           /\ e \notin Keys => (Pressed(b, <<e>>) <=> b)
<1>1. Len(<<e>>) = 1 /\ <<e>>[1] = e OBVIOUS
<1>2. 1..1 = {1} /\ \A j \in (1+1)..1 : FALSE OBVIOUS
<1> QED BY <1>1, <1>2 DEF Pressed, Keys

\* The event that comes last decides, if it is one of a button.
LEMMA PressedMore ==
    ASSUME NEW b \in BOOLEAN, NEW es \in Seq(Events), NEW e \in Events
    PROVE  /\ e \in Keys => (Pressed(b, Append(es, e)) <=> e = "press")
           /\ e \notin Keys => (Pressed(b, Append(es, e)) <=> Pressed(b, es))
<1> DEFINE fs == Append(es, e)
           n == Len(es)
<1>1. /\ n \in Nat /\ Len(fs) = n + 1 /\ fs[n + 1] = e
      /\ \A i \in 1..n : fs[i] = es[i]
  OBVIOUS
<1> HIDE DEF fs, n
<1>2. /\ \A i \in 1..(n + 1) : i \in 1..n \/ i = n + 1
      /\ \A i \in 1..n : i \in 1..(n + 1) /\ n + 1 \in (i + 1)..(n + 1)
      /\ n + 1 \in 1..(n + 1)
      /\ \A j \in (n + 1 + 1)..(n + 1) : FALSE
  BY <1>1
<1>3. Pressed(b, fs) <=> \/ b /\ \A i \in 1..(n + 1) : fs[i] \notin Keys
                         \/ \E i \in 1..(n + 1) :
                              /\ fs[i] = "press"
                              /\ \A j \in (i + 1)..(n + 1) : fs[j] \notin Keys
  BY <1>1 DEF Pressed
<1>4. ASSUME e \in Keys PROVE Pressed(b, fs) <=> e = "press"
  BY <1>1, <1>2, <1>3, <1>4
<1>5. ASSUME e \notin Keys PROVE Pressed(b, fs) <=> Pressed(b, es)
  <2>1. Pressed(b, es) <=> \/ b /\ \A i \in 1..n : es[i] \notin Keys
                           \/ \E i \in 1..n :
                                es[i] = "press" /\ \A j \in (i + 1)..n : es[j] \notin Keys
    BY DEF Pressed, n
  <2>2. (\A i \in 1..(n + 1) : fs[i] \notin Keys) <=> (\A i \in 1..n : es[i] \notin Keys)
    BY <1>1, <1>2, <1>5
  <2>3. ASSUME NEW i \in 1..n
        PROVE  (\A j \in (i + 1)..(n + 1) : fs[j] \notin Keys) <=>
                 (\A j \in (i + 1)..n : es[j] \notin Keys)
    <3>1. \A j \in (i + 1)..(n + 1) : (j \in 1..n /\ j \in (i + 1)..n) \/ j = n + 1 BY <1>1
    <3>2. \A j \in (i + 1)..n : j \in 1..n /\ j \in (i + 1)..(n + 1) BY <1>1
    <3> QED BY <1>1, <1>5, <3>1, <3>2
  <2>4. fs[n + 1] # "press" BY <1>1, <1>5 DEF Keys
  <2>5. (\E i \in 1..(n + 1) : fs[i] = "press" /\ \A j \in (i + 1)..(n + 1) : fs[j] \notin Keys)
          <=> (\E i \in 1..n : es[i] = "press" /\ \A j \in (i + 1)..n : es[j] \notin Keys)
    BY <1>1, <1>2, <2>3, <2>4
  <2> QED BY <1>3, <2>1, <2>2, <2>5
<1> QED BY <1>4, <1>5 DEF fs

\* Events of no button change nothing.
LEMMA PressedNone ==
    ASSUME NEW b \in BOOLEAN, NEW es, \A i \in 1..Len(es) : es[i] \notin Keys
    PROVE  Pressed(b, es) <=> b
BY DEF Pressed, Keys


\* Reading an event takes it from its slot.
LEMMA TailsFit ==
    ASSUME InputTypes, Connected, queue[fd] # <<>>
    PROVE  /\ fd \in Slots /\ Head(queue[fd]) \in Events
           /\ [queue EXCEPT ![fd] = Tail(@)] \in [Slots -> Seq(Events)]
<1>1. fd \in Slots BY DEF InputTypes, Connected
<1>2. queue[fd] \in Seq(Events) BY <1>1 DEF InputTypes
<1>3. Head(queue[fd]) \in Events /\ Tail(queue[fd]) \in Seq(Events) BY <1>2
<1> QED BY <1>1, <1>3 DEF InputTypes

\* Devices come, go and emit events without a trace in the instance.
LEMMA DevicesKeep ==
    ASSUME InputInv, NEW s \in Slots,
           \/ Unplug(s)
           \/ \E d \in Devices : Plug(s, d)
           \/ \E e \in Events : Emit(s, e)
    PROVE  InputInv'
<1>1. UNCHANGED driver BY DEF Unplug, Plug, Emit
<1>2. queue' \in [Slots -> Seq(Events)]
  <2>1. queue \in [Slots -> Seq(Events)] BY DEF InputInv, InputTypes
  <2>2. CASE Unplug(s)
    <3>1. <<>> \in Seq(Events) OBVIOUS
    <3> QED BY <2>1, <2>2, <3>1 DEF Unplug
  <2>3. ASSUME NEW d \in Devices, Plug(s, d) PROVE queue' \in [Slots -> Seq(Events)]
    BY <2>1, <2>3 DEF Plug
  <2>4. ASSUME NEW e \in Events, Emit(s, e) PROVE queue' \in [Slots -> Seq(Events)]
    <3>1. Append(queue[s], e) \in Seq(Events) BY <2>1
    <3> QED BY <2>1, <2>4, <3>1 DEF Emit
  <2> QED BY <2>2, <2>3, <2>4
<1>3. heard' \in BOOLEAN /\ kept' \in BOOLEAN /\ (heard' \/ kept' <=> heard \/ kept)
  <2>1. heard \in BOOLEAN /\ kept \in BOOLEAN BY DEF InputInv, InputTypes
  <2>2. CASE Unplug(s)
    <3>1. heard' = (heard /\ s # fd) /\ kept' = (kept \/ (heard /\ s = fd)) BY <2>2 DEF Unplug
    <3> QED BY <2>1, <3>1
  <2>3. CASE UNCHANGED <<heard, kept>> BY <2>1, <2>3
  <2> QED BY <2>2, <2>3 DEF Plug, Emit
<1>4. InputTypes' BY <1>1, <1>2, <1>3 DEF InputInv, InputTypes, driver
<1>5. Phases' BY <1>1 DEF InputInv, Phases, driver, Connected
<1>6. Follows' BY <1>1, <1>3 DEF InputInv, Follows, driver, Connected, Pressed
<1> QED BY <1>4, <1>5, <1>6 DEF InputInv

\* A call that ends with what was heard in button_state.
LEMMA ReturnKeeps ==
    ASSUME InputInv, Return, queue' \in [Slots -> Seq(Events)],
           fd' \in Slots \cup {NoInput},
           buttons' \in BOOLEAN, heard' \in BOOLEAN, kept' \in BOOLEAN, lost' \in BOOLEAN,
           Connected' /\ ~lost' => (heard' \/ kept' <=> buttons')
    PROVE  InputInv'
<1>1. /\ pc' = "idle" /\ frame' = <<>> /\ reader' = "raw"
  BY DEF Return
<1>2. <<>> \in Seq(Events) OBVIOUS
<1>3. InputTypes' BY <1>1, <1>2 DEF InputTypes
<1>4. Phases' BY <1>1 DEF Phases
<1>5. Follows'
  <2>1. Pressed(buttons, frame)' <=> buttons' BY <1>1, PressedNothing DEF Pressed
  <2> QED BY <2>1 DEF Follows
<1> QED BY <1>3, <1>4, <1>5 DEF InputInv

\* The buttons of the old device are forgotten.
LEMMA MarkKeeps ==
    ASSUME InputInv, MarkDisconnected, queue' \in [Slots -> Seq(Events)],
           \/ pc' = "look" /\ UNCHANGED <<frame, reader>>
           \/ pc' = "idle" /\ frame' = <<>> /\ reader' \in {"pointer", "raw"}
    PROVE  InputInv'
<1>1. /\ fd' = NoInput /\ buttons' = FALSE
      /\ heard' = FALSE /\ kept' = FALSE /\ lost' = FALSE
  BY DEF MarkDisconnected
<1>2. buttons' \in BOOLEAN /\ heard' \in BOOLEAN /\ kept' \in BOOLEAN /\ lost' \in BOOLEAN
  BY <1>1
<1>3. frame' \in Seq(Events) /\ reader' \in {"pointer", "raw"} /\ pc' \in {"idle", "look"}
  <2>1. frame \in Seq(Events) /\ reader \in {"pointer", "raw"} BY DEF InputInv, InputTypes
  <2>2. <<>> \in Seq(Events) OBVIOUS
  <2>3. CASE pc' = "look" /\ UNCHANGED <<frame, reader>> BY <2>1, <2>3
  <2>4. CASE pc' = "idle" /\ frame' = <<>> /\ reader' \in {"pointer", "raw"} BY <2>2, <2>4
  <2> QED BY <2>3, <2>4
<1>4. InputTypes' BY <1>1, <1>2, <1>3 DEF InputTypes
<1>5. Phases' BY <1>1 DEF Phases, Connected
<1>6. Follows' BY <1>1 DEF Follows, Connected
<1> QED BY <1>4, <1>5, <1>6 DEF InputInv

\* drv_input_handle_disconnect, whether it looks for another device or not.
LEMMA DisconnectKeeps ==
    ASSUME InputInv, NEW b, HandleDisconnect(b), UNCHANGED device PROVE InputInv'
<1>1. queue' \in [Slots -> Seq(Events)] BY DEF device, InputInv, InputTypes
<1>2. CASE Return BY <1>1, <1>2, MarkKeeps DEF HandleDisconnect, Return
<1>3. CASE pc' = "look" /\ UNCHANGED <<frame, reader, found>>
  BY <1>1, <1>3, MarkKeeps DEF HandleDisconnect
<1> QED BY <1>2, <1>3 DEF HandleDisconnect

\* The calls that begin, or do not get far.
LEMMA CallKeeps == ASSUME InputInv, Call PROVE InputInv'
<1> USE DEF InputInv
<1>1. ASSUME NEW s \in Slots, Create(s) PROVE InputInv'
  <2>1. /\ UNCHANGED <<queue, pc, frame, reader, mid>> /\ pc = "idle"
        /\ fd' \in Slots \cup {NoInput}
        /\ buttons' = FALSE /\ heard' = FALSE /\ kept' = FALSE /\ lost' = FALSE
    BY <1>1 DEF Create, device
  <2>2. buttons' \in BOOLEAN /\ heard' \in BOOLEAN /\ kept' \in BOOLEAN /\ lost' \in BOOLEAN
    BY <2>1
  <2>3. InputTypes' BY <2>1, <2>2 DEF InputTypes
  <2>4. Phases' BY <2>1 DEF Phases
  <2>5. Pressed(buttons, frame)' <=> buttons' BY <2>1, PressedNothing DEF Pressed, Phases
  <2> QED BY <2>1, <2>3, <2>4, <2>5 DEF Follows
<1>2. ASSUME InstDestroy \/ MarkByUser PROVE InputInv'
  <2>1. /\ UNCHANGED <<queue, pc, frame, reader, mid>> /\ pc = "idle"
        /\ fd' = NoInput
        /\ buttons' = FALSE /\ heard' = FALSE /\ kept' = FALSE /\ lost' = FALSE
    BY <1>2 DEF InstDestroy, MarkByUser, MarkDisconnected, device
  <2>2. buttons' \in BOOLEAN /\ heard' \in BOOLEAN /\ kept' \in BOOLEAN /\ lost' \in BOOLEAN
    BY <2>1
  <2>3. InputTypes' BY <2>1, <2>2 DEF InputTypes
  <2>4. Phases' BY <2>1 DEF Phases
  <2> QED BY <2>1, <2>3, <2>4 DEF Follows, Connected
<1>3. ASSUME /\ UNCHANGED <<queue, fd, buttons, frame, mid, heard, kept, lost>> /\ pc = "idle"
             /\ reader' = reader \/ reader' \in {"pointer", "raw"}
             /\ \/ pc' = "idle" \/ (pc' = "look" /\ ~Connected)
                \/ (pc' \in {"poll", "frame"} /\ Connected)
      PROVE  InputInv'
  <2>1. InputTypes' BY <1>3 DEF InputTypes
  <2>2. Phases' BY <1>3 DEF Phases, Connected
  <2>3. Follows' BY <1>3 DEF Follows, Connected, Pressed
  <2> QED BY <2>1, <2>2, <2>3
<1>4. ASSUME TryReconnect \/ GetInfo PROVE InputInv'
  BY <1>3, <1>4 DEF TryReconnect, GetInfo, device
<1>5. ASSUME NEW k, SetAutoReconnect(k) PROVE InputInv'
  BY <1>3, <1>5 DEF SetAutoReconnect, device
<1>6. ASSUME NEW t, PollFor(t) PROVE InputInv' BY <1>3, <1>6 DEF PollFor, device
<1>7. ASSUME NEW r \in {"pointer", "raw"}, ReadFrame(r) PROVE InputInv'
  BY <1>3, <1>7 DEF ReadFrame, device
<1>8. ASSUME ReadEvent PROVE InputInv'
  <2>1. /\ Connected /\ queue[fd] # <<>> /\ queue' = [queue EXCEPT ![fd] = Tail(@)]
        /\ lost' = (lost \/ Head(queue[fd]) \in Keys)
        /\ UNCHANGED <<fd, buttons, frame, reader, mid, heard, kept, pc>>
    BY <1>8 DEF ReadEvent
  <2>2. queue' \in [Slots -> Seq(Events)] BY <2>1, TailsFit
  <2>3. lost' \in BOOLEAN /\ (~lost' => ~lost) BY <2>1 DEF InputTypes
  <2>4. InputTypes' BY <2>1, <2>2, <2>3 DEF InputTypes
  <2>5. Phases' BY <1>8, <2>1 DEF Phases, Connected, ReadEvent
  <2>6. Follows' BY <2>1, <2>3 DEF Follows, Connected, Pressed
  <2> QED BY <2>4, <2>5, <2>6
<1>9. ASSUME ReadEventHangsUp PROVE InputInv'
  <2>1. HandleDisconnect(FALSE) /\ UNCHANGED device BY <1>9 DEF ReadEventHangsUp
  <2> HIDE DEF InputInv
  <2> QED BY <2>1, DisconnectKeeps
<1> QED BY <1>1, <1>2, <1>4, <1>5, <1>6, <1>7, <1>8, <1>9 DEF Call

\* The search for a device and its end.
LEMMA SearchKeeps == ASSUME InputInv, Find \/ NotFound \/ Reopen PROVE InputInv'
<1> USE DEF InputInv
<1>1. CASE Find
  <2>1. /\ UNCHANGED <<queue, fd, buttons, frame, reader, mid, heard, kept, lost>>
        /\ pc = "look" /\ pc' = "open"
        /\ found'.slot \in Slots
    BY <1>1 DEF Find, Matching, device
  <2>2. InputTypes' BY <2>1 DEF InputTypes
  <2>3. Phases' BY <2>1 DEF Phases, Connected
  <2>4. Follows' BY <2>1 DEF Follows, Connected, Phases
  <2> QED BY <2>2, <2>3, <2>4
<1>2. CASE NotFound
  <2>1. /\ Return /\ UNCHANGED <<queue, fd, buttons, heard, kept, lost>> /\ ~Connected
    BY <1>2 DEF NotFound, device, Phases
  <2> QED BY <2>1, ReturnKeeps DEF InputTypes, Connected
<1>3. CASE Reopen
  <2>1. /\ Return /\ queue' = queue /\ fd' = found.slot
        /\ heard' = FALSE /\ kept' = FALSE
        /\ buttons' = IF mid /\ reader = "pointer" THEN Pressed(FALSE, frame) ELSE FALSE
        /\ lost' = (mid /\ reader = "pointer" /\ frame # <<>>)
        /\ pc = "open"
    BY <1>3 DEF Reopen, device
  <2>2. fd' \in Slots BY <2>1 DEF Phases
  <2>3. heard' \in BOOLEAN /\ kept' \in BOOLEAN BY <2>1
  <2>4. lost' \in BOOLEAN BY <2>1
  <2>5. buttons' \in BOOLEAN BY <2>1, PressedIsBool
  <2>6. ~lost' => ~buttons'
    <3>1. CASE mid /\ reader = "pointer" BY <2>1, <3>1, PressedNothing
    <3>2. CASE ~(mid /\ reader = "pointer") BY <2>1, <3>2
    <3> QED BY <3>1, <3>2
  <2>7. Connected' /\ ~lost' => (heard' \/ kept' <=> buttons') BY <2>1, <2>6
  <2>8. queue' \in [Slots -> Seq(Events)] BY <2>1 DEF InputTypes
  <2> HIDE DEF InputInv
  <2> QED BY <2>1, <2>2, <2>3, <2>4, <2>5, <2>7, <2>8, ReturnKeeps
<1> QED BY <1>1, <1>2, <1>3

\* Every end of drv_input_poll, and a quiet slice.
LEMMA PollKeeps ==
    ASSUME InputInv, PollWakes \/ PollHangsUp \/ PollQuiet \/ PollInterrupted
    PROVE  InputInv'
<1> USE DEF InputInv
<1>1. pc = "poll" /\ queue' = queue
  BY DEF PollWakes, PollHangsUp, PollQuiet, PollInterrupted, PollReturns, device
<1>2. Connected /\ frame = <<>> BY <1>1 DEF Phases
<1>3. ~lost => (heard \/ kept <=> buttons) BY <1>2, PressedNothing DEF Follows, InputTypes
<1>4. ASSUME Return, UNCHANGED <<fd, info, buttons, heard, kept, lost>> PROVE InputInv'
  <2>1. Connected' BY <1>2, <1>4 DEF Connected
  <2> QED BY <1>1, <1>3, <1>4, ReturnKeeps DEF InputTypes
<1>5. ASSUME HandleDisconnect(FALSE), UNCHANGED device PROVE InputInv'
  <2> HIDE DEF InputInv
  <2> QED BY <1>5, DisconnectKeeps
<1>6. ASSUME left' = SlicesLeft, UNCHANGED <<pc, frame, reader, mid, found>>,
             UNCHANGED <<fd, info, buttons, heard, kept, lost>>
      PROVE  InputInv'
  <2>1. InputTypes' BY <1>1, <1>6 DEF InputTypes
  <2>2. Phases' BY <1>1, <1>6 DEF Phases, Connected
  <2>3. Follows' BY <1>6 DEF Follows, Connected, Pressed
  <2> QED BY <2>1, <2>2, <2>3
<1>7. CASE PollWakes \/ PollInterrupted
  BY <1>4, <1>7 DEF PollWakes, PollInterrupted, PollReturns
<1>8. CASE PollHangsUp BY <1>4, <1>5, <1>8 DEF PollHangsUp
<1>9. CASE PollQuiet
  <2>1. ~PathRebound => (kept /\ ~Misled <=> kept) BY DEF PathRebound, Misled
  <2>2. ~PathRebound /\ kept' = (kept /\ ~Misled) => kept' = kept BY <2>1 DEF InputTypes
  <2> QED BY <1>4, <1>5, <1>6, <1>9, <2>2 DEF PollQuiet
<1> QED BY <1>7, <1>8, <1>9

\* A frame that ends with the events es, when heard and kept count them all.
LEMMA EndKeeps ==
    ASSUME InputInv, NEW es \in Seq(Events), NEW c, FrameEnds(es, c),
           queue' \in [Slots -> Seq(Events)], fd' = fd,
           heard' \in BOOLEAN, kept' \in BOOLEAN,
           ~lost => (heard' \/ kept' <=> Pressed(buttons, es))
    PROVE  InputInv'
<1>1. /\ Return
      /\ buttons' = IF reader = "pointer" THEN Pressed(buttons, es) ELSE buttons
      /\ lost' = (lost \/ (reader = "raw" /\ \E i \in 1..Len(es) : es[i] \in Keys))
  BY DEF FrameEnds, Apply
<1>2. buttons \in BOOLEAN /\ reader \in {"pointer", "raw"} /\ lost \in BOOLEAN
  BY DEF InputInv, InputTypes
<1>3. buttons' \in BOOLEAN BY <1>1, <1>2, PressedIsBool
<1>4. lost' \in BOOLEAN BY <1>1, <1>2
<1>5. ~lost' => (heard' \/ kept' <=> buttons')
  <2>1. CASE reader = "pointer" BY <1>1, <2>1
  <2>2. CASE reader = "raw"
    <3>1. ~lost' => ~lost /\ \A i \in 1..Len(es) : es[i] \notin Keys BY <1>1, <2>2
    <3>2. ~lost' => (Pressed(buttons, es) <=> buttons) BY <1>2, <3>1, PressedNone
    <3>3. buttons' = buttons BY <1>1, <2>2
    <3> QED BY <3>1, <3>2, <3>3
  <2> QED BY <1>2, <2>1, <2>2
<1>6. fd' \in Slots \cup {NoInput} BY DEF InputInv, InputTypes
<1> QED BY <1>1, <1>3, <1>4, <1>5, <1>6, ReturnKeeps

\* An event of a frame is heard when it is read, and applied when the frame ends.
LEMMA FrameReadsKeeps == ASSUME InputInv, FrameReads PROVE InputInv'
<1> DEFINE e == Head(queue[fd])
           es == Append(frame, e)
<1>1. /\ pc = "frame" /\ queue[fd] # <<>> /\ fd' = fd
      /\ queue' = [queue EXCEPT ![fd] = Tail(@)]
      /\ heard' = Pressed(heard, <<e>>) /\ kept' = (kept /\ e \notin Keys)
      /\ \/ e = "sync" /\ FrameEnds(frame, TRUE)
         \/ e # "sync" /\ FrameEnds(es, FALSE)
         \/ e # "sync" /\ frame' = es /\ UNCHANGED <<buttons, lost, pc, left, reader, mid, found>>
  BY DEF FrameReads
<1>2. InputTypes /\ Connected /\ (~lost => (heard \/ kept <=> Pressed(buttons, frame)))
  BY <1>1 DEF InputInv, Phases, Follows
<1>3. e \in Events /\ queue' \in [Slots -> Seq(Events)] BY <1>1, <1>2, TailsFit
<1>4. /\ frame \in Seq(Events)
      /\ heard \in BOOLEAN /\ kept \in BOOLEAN /\ buttons \in BOOLEAN
  BY <1>2 DEF InputTypes
<1>5. es \in Seq(Events) BY <1>3, <1>4
<1>6. heard' \in BOOLEAN /\ kept' \in BOOLEAN BY <1>1, <1>4, PressedIsBool
<1>7. ~lost => (heard' \/ kept' <=> Pressed(buttons, es))
  <2>1. e \in Keys => (heard' <=> e = "press") /\ ~kept' BY <1>1, <1>3, <1>4, PressedOne
  <2>2. e \notin Keys => (heard' <=> heard) /\ kept' = kept BY <1>1, <1>3, <1>4, PressedOne
  <2>3. /\ e \in Keys => (Pressed(buttons, es) <=> e = "press")
        /\ e \notin Keys => (Pressed(buttons, es) <=> Pressed(buttons, frame))
    BY <1>3, <1>4, PressedMore
  <2> HIDE DEF e, es
  <2> QED BY <1>2, <2>1, <2>2, <2>3
<1>8. e = "sync" => (~lost => (heard' \/ kept' <=> Pressed(buttons, frame)))
  <2>1. e = "sync" => e \notin Keys BY DEF Keys
  <2> QED BY <1>1, <1>2, <1>3, <1>4, <2>1, PressedOne
<1> HIDE DEF e, es
<1>9. CASE e = "sync" /\ FrameEnds(frame, TRUE)
  BY <1>1, <1>3, <1>4, <1>6, <1>8, <1>9, EndKeeps
<1>10. CASE e # "sync" /\ FrameEnds(es, FALSE)
  BY <1>1, <1>3, <1>5, <1>6, <1>7, <1>10, EndKeeps
<1>11. CASE frame' = es /\ UNCHANGED <<buttons, lost, pc, left, reader, mid, found>>
  <2>1. InputTypes' BY <1>1, <1>2, <1>3, <1>5, <1>6, <1>11 DEF InputTypes
  <2>2. Phases' BY <1>1, <1>2, <1>11 DEF Phases, Connected
  <2>3. Follows'
    <3>1. Pressed(buttons, frame)' <=> Pressed(buttons, es) BY <1>11 DEF Pressed
    <3> QED BY <1>7, <1>11, <3>1 DEF Follows
  <2> QED BY <2>1, <2>2, <2>3 DEF InputInv
<1> QED BY <1>1, <1>9, <1>10, <1>11

\* A frame that ends for another reason than its last event.
LEMMA FrameStopsKeeps ==
    ASSUME InputInv, FrameStops \/ FrameHangsUp \/ FrameFails PROVE InputInv'
<1>1. pc = "frame" /\ queue' = queue BY DEF FrameStops, FrameHangsUp, FrameFails, device
<1>2. InputTypes /\ Connected /\ (~lost => (heard \/ kept <=> Pressed(buttons, frame)))
  BY <1>1 DEF InputInv, Phases, Follows
<1>3. /\ frame \in Seq(Events) /\ queue' \in [Slots -> Seq(Events)]
      /\ heard \in BOOLEAN /\ kept \in BOOLEAN /\ buttons \in BOOLEAN /\ lost \in BOOLEAN
      /\ fd \in Slots \cup {NoInput}
  BY <1>1, <1>2 DEF InputTypes
<1>4. CASE FrameStops
  <2>1. FrameEnds(frame, FALSE) /\ fd' = fd /\ UNCHANGED <<heard, kept>> BY <1>4 DEF FrameStops
  <2> QED BY <1>2, <1>3, <2>1, EndKeeps
<1>5. CASE FrameHangsUp
  <2>1. HandleDisconnect(TRUE) /\ UNCHANGED device BY <1>5 DEF FrameHangsUp
  <2> QED BY <2>1, DisconnectKeeps
<1>6. CASE FrameFails
  <2>1. /\ Return /\ UNCHANGED <<fd, buttons, heard, kept>>
        /\ lost' = (lost \/ \E i \in 1..Len(frame) : frame[i] \in Keys)
    BY <1>6 DEF FrameFails
  <2>2. lost' \in BOOLEAN BY <1>3, <2>1
  <2>3. ~lost' => ~lost /\ \A i \in 1..Len(frame) : frame[i] \notin Keys BY <2>1
  <2>4. ~lost' => (heard' \/ kept' <=> buttons') BY <1>2, <1>3, <2>1, <2>3, PressedNone
  <2> QED BY <1>3, <2>1, <2>2, <2>4, ReturnKeeps
<1> QED BY <1>4, <1>5, <1>6

\* The invariant holds initially.
LEMMA InputStarts == Init => InputInv
<1> SUFFICES ASSUME Init PROVE InputInv OBVIOUS
<1>1. <<>> \in Seq(Events) OBVIOUS
<1>2. buttons \in BOOLEAN /\ heard \in BOOLEAN /\ kept \in BOOLEAN /\ lost \in BOOLEAN
  BY DEF Init
<1>3. InputTypes BY <1>1, <1>2 DEF Init, InputTypes
<1>4. Phases BY DEF Init, Phases, Connected
<1>5. Follows BY DEF Init, Follows, Connected
<1> QED BY <1>3, <1>4, <1>5 DEF InputInv

\* Every step keeps the invariant.
LEMMA InputStep == InputInv /\ [Next]_vars => InputInv'
<1>1. ASSUME InputInv, UNCHANGED vars PROVE InputInv'
  BY <1>1 DEF vars, InputInv, InputTypes, Phases, Follows, Connected, Pressed
<1> QED
  BY <1>1, CallKeeps, SearchKeeps, PollKeeps, FrameReadsKeeps, FrameStopsKeeps, DevicesKeep
     DEF Next, Step

\* button_state is what the events read from the device that is in the slot now say,
\* whenever a device is replaced and however its events are cut into frames: for any
\* number of slots and devices and any size of the frame buffer.  Excepted are button
\* events that were read by other means or dropped by a read error, frames that
\* straddle a reconnection, and a device that left the slot with the button held, until
\* an event of the button, a disconnection, or a quiet slice that can tell the devices
\* apart.
THEOREM ButtonsAreDevices == Spec => []ButtonsFollowDevice
<1>1. InputInv => ButtonsFollowDevice
  <2> SUFFICES ASSUME InputInv, pc = "idle", Connected, ~lost, ~kept
      PROVE  buttons = heard
    BY DEF ButtonsFollowDevice
  <2>1. frame = <<>> /\ (heard \/ kept <=> Pressed(buttons, frame))
    BY DEF InputInv, Phases, Follows
  <2>2. buttons \in BOOLEAN /\ heard \in BOOLEAN BY DEF InputInv, InputTypes
  <2>3. heard <=> buttons BY <2>1, <2>2, PressedNothing
  <2> QED BY <2>2, <2>3
<1> QED BY <1>1, InputStarts, InputStep, PTL DEF Spec
=============================================================================
