------------------------------ MODULE ModemWake -----------------------------
(***************************************************************************)
(* The operations of the 4G modem component that drive it through time     *)
(* (rtsmart_hal/components/modem/hal_modem.c): modem_wake, which raises    *)
(* REQ_READY and waits for the AT channel, for a dial the modem accepts    *)
(* and for the network, in that order and against one deadline; and        *)
(* modem_enter_edrx, which lowers the pin and cuts the power, until the    *)
(* wake-up pin powers the board again and the program starts over.         *)
(*                                                                         *)
(* at_cmd (module ModemAt) appears by its duration and its result: it may  *)
(* take no time (no port), or up to its timeout and one second for the     *)
(* write.  Time is counted in ticks.                                       *)
(***************************************************************************)
EXTENDS Integers

CONSTANTS
    Budget,     \* cfg.wake_timeout_ms
    ProbeMax,   \* the longest at_cmd of at_ready
    DialMax,    \* the longest at_cmd of modem_dial
    Poll        \* MODEM_POLL_MS

ASSUME TimesAssumption ==
    /\ Budget \in Nat \ {0} /\ Poll \in Nat \ {0}
    /\ ProbeMax \in Nat /\ DialMax \in Nat

VARIABLES
    wakePc,         \* "idle"; in a wait_until: "test" of its predicate or "sleep";
                \*   in modem_enter_edrx: "cut"
    phase,      \* the wait_until that modem_wake is in: "at", "dial" or "net"
    elapsed,    \* the time since modem_wake was called
    deadline,   \* its deadline, counted from there
    ret,        \* what the last operation returned, 1 before any has
    pin,        \* REQ_READY is high
    refused,    \* history: the last write of it failed, which nobody looks at
    power,      \* the board is on
    hasPmu,        \* g_modem.pmu is a handle
    net,        \* the default network device is the modem's
    renewed     \* this wake has asked for a DHCP lease

board == <<pin, refused, power, hasPmu>>
wakeVars == <<wakePc, phase, elapsed, deadline, ret, pin, refused, power,
              hasPmu, net, renewed>>

WakeTypeOK ==
    /\ wakePc \in {"idle", "test", "sleep", "cut"}
    /\ phase \in {"at", "dial", "net"}
    /\ elapsed \in Nat
    /\ deadline \in {0, Budget}
    /\ ret \in {-1, 0, 1}
    /\ pin \in BOOLEAN /\ refused \in BOOLEAN
    /\ power \in BOOLEAN /\ hasPmu \in BOOLEAN
    /\ net \in BOOLEAN /\ renewed \in BOOLEAN

\* After modem_init: the pin is low, or what it was; the PMU may be missing.
WakeInit ==
    /\ wakePc = "idle" /\ phase = "at" /\ elapsed = 0 /\ deadline = 0 /\ ret = 1
    /\ refused \in BOOLEAN
    /\ pin \in (IF refused THEN BOOLEAN ELSE {FALSE})
    /\ power = TRUE /\ hasPmu \in BOOLEAN
    /\ net \in BOOLEAN /\ renewed = FALSE

-----------------------------------------------------------------------------
(* modem_wake.                                                             *)

\* req_ready_set: the write may fail, and the pin keeps its level.
SetPin(high) ==
    /\ refused' \in BOOLEAN
    /\ pin' = IF refused' THEN pin ELSE high

Wake ==
    /\ wakePc = "idle"
    /\ power
    /\ elapsed' = 0
    /\ deadline' = Budget
    /\ SetPin(TRUE)
    /\ wakePc' = "test"
    /\ phase' = "at"
    /\ renewed' = FALSE
    /\ UNCHANGED <<ret, power, hasPmu, net>>

\* Fault: every wait is given the whole budget.
DeadlineOfItsOwn == elapsed + Budget

\* The deadline of the next wait: the same.
NextDeadline == deadline

Over(t) == t >= deadline

\* The predicate of a wait_until was false after d ticks: give up or sleep.
Unmet(d) ==
    /\ elapsed' = elapsed + d
    /\ \/ /\ Over(elapsed + d)
          /\ ret' = -1
          /\ wakePc' = "idle"
       \/ /\ ~Over(elapsed + d)
          /\ wakePc' = "sleep"
          /\ UNCHANGED ret
    /\ UNCHANGED <<phase, deadline, renewed, net, board>>

\* It was true: the wait is over, also behind the deadline.
Met(d, next) ==
    /\ elapsed' = elapsed + d
    /\ phase' = next
    /\ deadline' = NextDeadline
    /\ renewed' = (next = "net")
    /\ UNCHANGED <<wakePc, ret, net, board>>

\* wait_until(at_ready)
TestAt(d, ok) ==
    /\ wakePc = "test" /\ phase = "at"
    /\ IF ok THEN Met(d, "dial") ELSE Unmet(d)

\* wait_until(dial_ready), and the renewal of the lease that follows it.
TestDial(d, accepted) ==
    /\ wakePc = "test" /\ phase = "dial"
    /\ IF accepted \/ net THEN Met(d, "net") ELSE Unmet(d)

\* net_is_online
Online == net

\* wait_until(net_is_online)
TestNet ==
    /\ wakePc = "test" /\ phase = "net"
    /\ IF Online
       THEN /\ ret' = 0
            /\ wakePc' = "idle"
            /\ UNCHANGED <<phase, elapsed, deadline, renewed, net, board>>
       ELSE Unmet(0)

Sleep ==
    /\ wakePc = "sleep"
    /\ elapsed' = elapsed + Poll
    /\ wakePc' = "test"
    /\ UNCHANGED <<phase, deadline, ret, renewed, net, board>>

-----------------------------------------------------------------------------
(* modem_enter_edrx.                                                       *)

\* The pin goes low; without a PMU that is all.
EnterEdrx ==
    /\ wakePc = "idle"
    /\ power
    /\ SetPin(FALSE)
    /\ wakePc' = IF hasPmu THEN "cut" ELSE "idle"
    /\ ret' = IF hasPmu THEN ret ELSE -1
    /\ UNCHANGED <<phase, elapsed, deadline, power, hasPmu, net, renewed>>

\* The power goes, or the call comes back, which is a failure.
ShutdownNow ==
    /\ wakePc = "cut"
    /\ \/ power' = FALSE /\ UNCHANGED ret
       \/ ret' = -1 /\ UNCHANGED power
    /\ wakePc' = "idle"
    /\ UNCHANGED <<phase, elapsed, deadline, pin, refused, hasPmu, net, renewed>>

\* A wake-up source powers the board; the program starts with modem_init.
PowerUp ==
    /\ ~power
    /\ power' = TRUE
    /\ wakePc' = "idle" /\ phase' = "at" /\ elapsed' = 0 /\ deadline' = 0 /\ ret' = 1
    /\ refused' \in BOOLEAN
    /\ pin' \in (IF refused' THEN BOOLEAN ELSE {FALSE})
    /\ hasPmu' \in BOOLEAN
    /\ net' \in BOOLEAN /\ renewed' = FALSE

\* The network comes and goes by itself.
NetChanges ==
    /\ power
    /\ net' = ~net
    /\ UNCHANGED <<wakePc, phase, elapsed, deadline, ret, renewed, board>>

WakeNext ==
    \/ Wake
    \/ \E ok \in BOOLEAN : \E d \in 0..ProbeMax : TestAt(d, ok)
    \/ \E ok \in BOOLEAN : \E d \in 0..DialMax : TestDial(d, ok)
    \/ TestNet
    \/ Sleep
    \/ EnterEdrx
    \/ ShutdownNow
    \/ PowerUp
    \/ NetChanges

WakeSpec == WakeInit /\ [][WakeNext]_wakeVars

-----------------------------------------------------------------------------
(* Properties.                                                             *)

\* What modem_wake may take: wait_until looks at the deadline only after its
\* predicate failed, so the last sleep, one probe and one dial come on top.
LongestWake == Budget - 1 + Poll + ProbeMax + DialMax

\* modem_wake is bounded, however the modem answers: the three waits share
\* one deadline and none starts over.
WakeBounded == elapsed <= LongestWake

\* The board is never without power while REQ_READY asks the modem to stay
\* awake: the pin goes low before the power goes, whatever the modem was
\* asked before.  The exception is a write of the pin that failed:
\* modem_enter_edrx goes on without its result.
DarkBoardAsksNothing == ~power /\ ~refused => ~pin
=============================================================================
