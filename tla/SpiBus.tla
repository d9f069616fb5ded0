------------------------------- MODULE SpiBus -------------------------------
(***************************************************************************)
(* The SPI driver (rtsmart_hal/drivers/spi/drv_spi.c), the handles of one  *)
(* controller.  The controller is configured through CONFIG and keeps one  *)
(* configuration; g_handle_id names the handle it is meant to belong to, so*)
(* that a transfer of another handle configures it first.  The lock covers *)
(* that choice, not the transfer, and not the CONFIG of a create.          *)
(*                                                                         *)
(* Each handle is used by one thread.  A step is a critical section of the *)
(* lock, or one ioctl outside it.  The settings of a handle (mode, rate,   *)
(* word size, lines) are one value; the polarity of its chip select, the   *)
(* level of that pin and the level the GPIO driver remembers are apart.    *)
(* The kernel is external: a CONFIG it refuses changes nothing, nor does a *)
(* write of a pin that fails, RW drives the chip select of the             *)
(* configuration it has.                                                   *)
(***************************************************************************)
EXTENDS Integers, FiniteSets

CONSTANTS
    SpiHandles, \* the drv_spi_inst_t pointers of the application
    Settings,
    NONE,
    MaxIds      \* bound: the creates of the process

\* What the model keeps of an instance: handle_id, the settings, the polarity,
\* cs_pin and use_hw_cs, and cs_status.
SpiInstance == [id : Nat, set : Settings, hi : BOOLEAN, pin : BOOLEAN,
                hw : BOOLEAN, cs : BOOLEAN]

ASSUME SpiAssumption ==
    MaxIds \in Nat /\ NONE \notin SpiHandles /\ NONE \notin SpiInstance

VARIABLES
    idx,        \* idx of drv_spi_inst_create
    owner,      \* g_handle_id
    spi,       \* handle -> its instance, or NONE
    spiPc,         \* handle -> "idle", "numbering", "numbered", "configured" in
                \*   create, "unlocked" in a transfer
    seen,       \* handle -> the idx its create has read, else 0
    req,        \* handle -> what its transfer is to do
    kcfg,       \* the configuration of the controller; cs: the handle whose
                \*   pin is soft_cs
    line,       \* handle -> the output level of its chip select
    curr_val,   \* handle -> the level gpio_cs remembers, or -1
    raced,      \* history: creates interleaved over idx, or a CONFIG fell
                \*   between a create's CONFIG and its recording
    overtaken,  \* history: transfers whose bus another handle configured
    csDoubt     \* history: handles whose cs_status may be wrong

bus == <<idx, owner, seen, raced>>
pins == <<line, curr_val, csDoubt>>
spiVars == <<idx, owner, spi, spiPc, seen, req, kcfg, line, curr_val, raced,
          overtaken, csDoubt>>

NoReq == [message |-> FALSE, take |-> FALSE, release |-> FALSE]

SpiInit ==
    /\ idx = 0
    /\ owner = 0
    /\ spi = [h \in SpiHandles |-> NONE]
    /\ spiPc = [h \in SpiHandles |-> "idle"]
    /\ seen = [h \in SpiHandles |-> 0]
    /\ req = [h \in SpiHandles |-> NoReq]
    /\ kcfg = [set |-> NONE, hi |-> FALSE, cs |-> NONE]
    /\ line = [h \in SpiHandles |-> 0]
    /\ curr_val = [h \in SpiHandles |-> -1]
    /\ raced = FALSE
    /\ overtaken = {}
    /\ csDoubt = {}

SpiLive == {h \in SpiHandles : spi[h] # NONE}
SpiReady(h) == spiPc[h] = "idle" /\ spi[h] # NONE

\* The levels of a chip select.
Inactive(hi) == IF hi THEN 0 ELSE 1
Active(hi) == IF hi THEN 1 ELSE 0

\* Creates whose CONFIG is done and not recorded.
Unrecorded(h) == {g \in SpiHandles \ {h} : spiPc[g] = "configured"}

-----------------------------------------------------------------------------
(* CONFIG.                                                                 *)

\* The configuration a create and a transfer ask for, which looks at cs_pin
\* only, and that of drv_spi_update_config, which looks at use_hw_cs too.
Config(h, i) == [set |-> i.set, hi |-> i.hi, cs |-> IF i.pin THEN h ELSE NONE]
UpdateConfig(h, i) ==
    [set |-> i.set, hi |-> i.hi, cs |-> IF i.pin /\ i.hw THEN h ELSE NONE]

\* The controller takes the configuration c from h.
Configure(h, c) ==
    /\ kcfg' = c
    /\ raced' = (raced \/ Unrecorded(h) # {})
    /\ overtaken' = overtaken \cup {g \in SpiHandles \ {h} : spiPc[g] = "unlocked"}

-----------------------------------------------------------------------------
(* The chip select as a GPIO.                                              *)

\* drv_gpio_value_set of a pin at level l that remembers c: what l and c may be
\* then.  A remembered level is not written; a write may fail, and nobody who
\* calls it here looks at the result.
GpioValueSet(l, c, v) == IF c = v THEN {<<l, c>>} ELSE {<<v, v>>, <<l, c>>}

\* The pin of h is left at p, when level v was asked for.  A level that was written
\* while cs_status says inactive is right, whatever was before; else, unless
\* nothing was to be written, cs_status may be wrong now.
PinLeft(h, p, v, selected) ==
    /\ line' = [line EXCEPT ![h] = p[1]]
    /\ curr_val' = [curr_val EXCEPT ![h] = p[2]]
    /\ csDoubt' = CASE p = <<v, v>> /\ ~selected -> csDoubt \ {h}
                     [] p = <<line[h], v>> /\ curr_val[h] = v -> csDoubt
                     [] OTHER -> csDoubt \cup {h}

\* gpio_cs is gone; the level stays.
PinReleased(h) ==
    /\ curr_val' = [curr_val EXCEPT ![h] = -1]
    /\ csDoubt' = csDoubt \ {h}
    /\ UNCHANGED line

-----------------------------------------------------------------------------
(* drv_spi_inst_create and drv_spi_inst_destroy.                           *)

\* Up to the reading of idx: the chip select, if there is one, is an output
\* that was asked to be inactive, and use_hw_cs is set.  Where a check, the memory
\* or the pin fails, nothing stays; a device that cannot be opened is in
\* SpiCreateFails.
CreateBegins(h, s, hi, pin) ==
    /\ spi[h] = NONE /\ spiPc[h] = "idle"
    /\ idx < MaxIds
    /\ hi => pin
    /\ spi' = [spi EXCEPT ![h] = [id |-> 0, set |-> s, hi |-> hi, pin |-> pin,
                                    hw |-> pin, cs |-> FALSE]]
    /\ IF pin
       THEN \E p \in GpioValueSet(line[h], curr_val[h], Inactive(hi)) :
                PinLeft(h, p, Inactive(hi), FALSE)
       ELSE UNCHANGED pins
    /\ seen' = [seen EXCEPT ![h] = idx]
    /\ spiPc' = [spiPc EXCEPT ![h] = "numbering"]
    /\ UNCHANGED <<idx, owner, req, kcfg, raced, overtaken>>

\* handle_id is idx, which is counted up without a lock.
CreateNumbers(h) ==
    /\ spiPc[h] = "numbering"
    /\ idx' = seen[h] + 1
    /\ spi' = [spi EXCEPT ![h].id = seen[h]]
    /\ seen' = [seen EXCEPT ![h] = 0]
    /\ raced' = (raced \/ idx # seen[h])
    /\ spiPc' = [spiPc EXCEPT ![h] = "numbered"]
    /\ UNCHANGED <<owner, req, kcfg, pins, overtaken>>

\* The CONFIG of a create: the lock is not held.
CreateConfigures(h) ==
    /\ spiPc[h] = "numbered"
    /\ Configure(h, Config(h, spi[h]))
    /\ spiPc' = [spiPc EXCEPT ![h] = "configured"]
    /\ UNCHANGED <<idx, owner, spi, seen, req, pins>>

\* The device cannot be opened, or CONFIG is refused: the level of the pin stays.
SpiCreateFails(h) ==
    /\ spiPc[h] \in {"numbering", "numbered"}
    /\ spi' = [spi EXCEPT ![h] = NONE]
    /\ seen' = [seen EXCEPT ![h] = 0]
    /\ spiPc' = [spiPc EXCEPT ![h] = "idle"]
    /\ PinReleased(h)
    /\ UNCHANGED <<idx, owner, raced, req, kcfg, overtaken>>

\* The bus is recorded as the new handle's, under the lock.
CreateRecords(h) ==
    /\ spiPc[h] = "configured"
    /\ owner' = spi[h].id
    /\ spiPc' = [spiPc EXCEPT ![h] = "idle"]
    /\ UNCHANGED <<idx, spi, seen, req, kcfg, pins, raced, overtaken>>

\* drv_spi_inst_destroy: the controller keeps the configuration.
Destroy(h) ==
    /\ SpiReady(h)
    /\ spi' = [spi EXCEPT ![h] = NONE]
    /\ PinReleased(h)
    /\ UNCHANGED <<bus, spiPc, req, kcfg, overtaken>>

-----------------------------------------------------------------------------
(* drv_spi_transfer (read, write) and drv_spi_transfer_message.            *)

\* The critical section of a transfer: the bus is configured unless it is
\* recorded as the handle's.  If the CONFIG fails, nothing changes.  A
\* transfer takes the chip select unless it holds it; a message says itself
\* what becomes of it.
TransferLocks(h, r) ==
    /\ SpiReady(h)
    /\ ~r.message => r.take = (spi[h].pin /\ ~spi[h].cs)
                     /\ (r.release => spi[h].pin)
    /\ req' = [req EXCEPT ![h] = r]
    /\ spiPc' = [spiPc EXCEPT ![h] = "unlocked"]
    /\ \/ /\ owner # spi[h].id
          /\ Configure(h, Config(h, spi[h]))
          /\ owner' = spi[h].id
       \/ /\ owner = spi[h].id
          /\ overtaken' = IF Unrecorded(h) = {} THEN overtaken ELSE overtaken \cup {h}
          /\ UNCHANGED <<owner, kcfg, raced>>
    /\ UNCHANGED <<idx, spi, seen, pins>>

\* Fault: cs_status stays CS_ACTIVE when the chip select is released.
ForgetRelease(h) == spi[h].pin

\* cs_status of h after its transfer; a message does not touch it.
CsStatus(h) ==
    IF req[h].message THEN spi[h].cs ELSE spi[h].pin /\ ~req[h].release

\* RW, which drives the chip select of the configuration, in full or, when it
\* fails, no further than it got; cs_status was set before.
TransferRuns(h, done) ==
    LET c == kcfg.cs
        asserted == IF req[h].take THEN [line EXCEPT ![c] = Active(kcfg.hi)] ELSE line
        released == IF req[h].release THEN [asserted EXCEPT ![c] = Inactive(kcfg.hi)]
                    ELSE asserted
        foreign == c # h \/ kcfg.hi # spi[h].hi
    IN  /\ spiPc[h] = "unlocked"
        /\ line' = IF c = NONE THEN line
                   ELSE IF done THEN released ELSE asserted
        /\ csDoubt' = csDoubt
                        \cup (IF foreign \/ req[h].message \/ ~done THEN {h} ELSE {})
                        \cup (IF c \in SpiHandles \ {h} THEN {c} ELSE {})
        /\ spi' = [spi EXCEPT ![h].cs = CsStatus(h)]
        /\ req' = [req EXCEPT ![h] = NoReq]
        /\ overtaken' = overtaken \ {h}
        /\ spiPc' = [spiPc EXCEPT ![h] = "idle"]
        /\ UNCHANGED <<bus, kcfg, curr_val>>

-----------------------------------------------------------------------------
(* drv_spi_set_*, under the lock.  A refused CONFIG restores the instance. *)

\* Fault: the bus is not recorded as the handle's.
UpdateUnrecorded(h, i) ==
    /\ Configure(h, UpdateConfig(h, i))
    /\ spi' = [spi EXCEPT ![h] = i]
    /\ UNCHANGED owner

\* drv_spi_update_config accepted.
Update(h, i) ==
    /\ Configure(h, UpdateConfig(h, i))
    /\ spi' = [spi EXCEPT ![h] = i]
    /\ owner' = spi[h].id

\* drv_spi_set_baudrate, drv_spi_set_datamode, drv_spi_set_data_bits
SetSettings(h, s) ==
    /\ SpiReady(h)
    /\ Update(h, [spi[h] EXCEPT !.set = s])
    /\ UNCHANGED <<idx, spiPc, seen, req, pins>>

\* drv_spi_set_cs_mode
SetCsMode(h, hw) ==
    /\ SpiReady(h)
    /\ hw => spi[h].pin
    /\ Update(h, [spi[h] EXCEPT !.hw = hw])
    /\ UNCHANGED <<idx, spiPc, seen, req, pins>>

\* drv_spi_set_cs_polarity: the pin goes to its inactive level, also when
\* cs_status says that the chip is selected; CONFIG follows if that failed, too.
SetCsPolarity(h, hi) ==
    /\ SpiReady(h)
    /\ spi[h].pin
    /\ \E p \in GpioValueSet(line[h], curr_val[h], Inactive(hi)) :
            PinLeft(h, p, Inactive(hi), spi[h].cs)
    /\ Update(h, [spi[h] EXCEPT !.hi = hi])
    /\ UNCHANGED <<idx, spiPc, seen, req>>

\* The same, when CONFIG is refused: the old inactive level is written behind the
\* new one.
SetCsPolarityFails(h, hi) ==
    /\ SpiReady(h)
    /\ spi[h].pin
    /\ \E p \in GpioValueSet(line[h], curr_val[h], Inactive(hi)) :
         \E q \in GpioValueSet(p[1], p[2], Inactive(spi[h].hi)) :
            PinLeft(h, q, Inactive(spi[h].hi), spi[h].cs)
    /\ UNCHANGED <<bus, spi, spiPc, req, kcfg, overtaken>>

-----------------------------------------------------------------------------
Requests == [message : BOOLEAN, take : BOOLEAN, release : BOOLEAN]

SpiOperate(h) ==
    \/ CreateNumbers(h) \/ CreateConfigures(h) \/ SpiCreateFails(h) \/ CreateRecords(h)
    \/ Destroy(h)
    \/ \E s \in Settings, hi, pin \in BOOLEAN : CreateBegins(h, s, hi, pin)
    \/ \E r \in Requests : TransferLocks(h, r)
    \/ \E done \in BOOLEAN : TransferRuns(h, done)
    \/ \E s \in Settings : SetSettings(h, s)
    \/ \E b \in BOOLEAN : SetCsMode(h, b) \/ SetCsPolarity(h, b) \/ SetCsPolarityFails(h, b)

SpiNext == \E h \in SpiHandles : SpiOperate(h)

SpiSpec == SpiInit /\ [][SpiNext]_spiVars

-----------------------------------------------------------------------------
(* Properties.                                                             *)

SpiTypeOK ==
    /\ idx \in Nat
    /\ owner \in Nat
    /\ spi \in [SpiHandles -> SpiInstance \cup {NONE}]
    /\ spiPc \in [SpiHandles -> {"idle", "numbering", "numbered", "configured", "unlocked"}]
    /\ seen \in [SpiHandles -> Nat]
    /\ raced \in BOOLEAN /\ overtaken \subseteq SpiHandles

\* The controller has the settings of the instance i, and drives its pin.
Serves(h, i) ==
    /\ kcfg.set = i.set
    /\ kcfg.hi = i.hi
    /\ i.pin /\ i.hw => kcfg.cs = h

\* A transfer that has left the lock runs under the settings of its own
\* handle, whatever the other handles of the controller did before and
\* however their creates failed, unless another handle configured the bus
\* after the unlock or a create did so without the lock.
RunsUnderOwnSettings ==
    \A h \in SpiHandles :
        spiPc[h] = "unlocked" /\ h \notin overtaken /\ ~raced => Serves(h, spi[h])

\* cs_status, by which drv_spi_transfer decides whether to take the chip
\* select, says whether the pin is at its active level, unless a transfer
\* failed, a message or another handle drove the pin, the bus was not
\* configured for it, a write of the pin failed in a create or a change of
\* polarity, or one deselected the chip while cs_status was active.  A write that
\* succeeds while cs_status is inactive ends every such doubt.
CsStatusTrue ==
    \A h \in SpiLive :
        /\ spiPc[h] = "idle" /\ spi[h].pin /\ h \notin csDoubt
        => (spi[h].cs <=> line[h] = Active(spi[h].hi))
=============================================================================
