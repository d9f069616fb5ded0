----------------------------- MODULE MC_Drivers -----------------------------
(***************************************************************************)
(* The drivers of the hardware abstraction layer that keep state beside    *)
(* the kernel's, Gpio, HalTimers, SpiBus and PmuKey, for TLC.  They have   *)
(* no state in common: a behaviour explores one of them while the others   *)
(* rest.                                                                   *)
(***************************************************************************)
EXTENDS Gpio, HalTimers, SpiBus, PmuKey, TLC

CONSTANTS h1, h2, p1, p2, s1, s2

\* The pointers of the application, whatever they point to, the pins, and the
\* settings of an SPI handle.
MCHandles == {h1, h2}
MCPins == {p1, p2}
MCSettings == {s1, s2}
MCSymmetry ==
    Permutations(MCHandles) \cup Permutations(MCPins) \cup Permutations(MCSettings)

\* Levels and interrupts of a pin are apart too, and so are the two kinds of
\* timer.
LevelsOrIrqs ==
    \/ registerCnt = 0 /\ \A h \in Handles : pc[h] # "counting"
    \/ /\ \A h \in Live : inst[h].val = Unset /\ inst[h].mode = DmMax
       /\ \A p \in Pins : latch[p] = 0 /\ kmode[p] = "in"
HardOrSoft ==
    \/ \A o \in Owners : soft[o] = NoTimer /\ o \notin checked
    \/ \A o \in Owners : hard[o] = NoTimer

\* After two lapses, or once signals were dealt out twice, nothing is promised
\* of the interrupts; after a race over the SPI bus, or when nobody's chip
\* select is known, nothing of that; one transfer overtaken, or one chip select
\* in doubt, is what SPI is explored with: other states are checked and not left.
Bound ==
    /\ LevelsOrIrqs /\ Cardinality(lapses) < 2 /\ ~SignalsReused
    /\ HardOrSoft /\ Cardinality(slips) < 2
    /\ ~raced /\ Cardinality(csDoubt) < 2 /\ (csDoubt = {} \/ overtaken = {})

GpioRests == Init /\ \A p \in Pins : latch[p] = 0
PmuRests == PmuInit /\ mask = {}
OthersRest == TimerInit /\ SpiInit

DriversInit == Init /\ PmuInit /\ OthersRest /\ (GpioRests \/ PmuRests)

GpioRun == OthersRest /\ PmuRests /\ Next /\ UNCHANGED <<timerVars, spiVars, pmuVars>>
TimerRun ==
    /\ GpioRests /\ PmuRests /\ SpiInit
    /\ TimerNext /\ UNCHANGED <<vars, spiVars, pmuVars>>
SpiRun ==
    /\ GpioRests /\ PmuRests /\ TimerInit
    /\ SpiNext /\ UNCHANGED <<vars, timerVars, pmuVars>>
PmuRun == GpioRests /\ OthersRest /\ PmuNext /\ UNCHANGED <<vars, timerVars, spiVars>>

DriversSpec ==
    DriversInit /\ [][GpioRun \/ TimerRun \/ SpiRun \/ PmuRun]_<<vars, timerVars, spiVars, pmuVars>>
=============================================================================
