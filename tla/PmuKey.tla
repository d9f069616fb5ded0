------------------------------- MODULE PmuKey -------------------------------
(***************************************************************************)
(* The power key of the PMU driver (rtsmart_hal/drivers/pmu/drv_pmu.c).    *)
(* An instance that is registered has its signal blocked in the calling    *)
(* thread and fetches it with sigwait, then asks the kernel whether a      *)
(* shutdown is requested.  What the mask was before is restored.           *)
(*                                                                         *)
(* One thread uses all instances and changes its mask through the driver   *)
(* only.  A step is one system call.  A registration or a create over an   *)
(* old one is the end of that and a new one.  The other calls are one      *)
(* ioctl each and are left out.  The kernel is external: a press signals   *)
(* all registered descriptors, and a signal that is not blocked is         *)
(* delivered, by default to the end of the process.                        *)
(***************************************************************************)
EXTENDS Naturals

CONSTANTS
    PmuHandles, \* the drv_pmu_inst_t pointers of the application
    KeySignals,
    NoPmu

PmuInstance == [registered : BOOLEAN, signo : KeySignals \cup {NoPmu}, was : BOOLEAN]

ASSUME PmuAssumption == NoPmu \notin KeySignals /\ NoPmu \notin PmuInstance

VARIABLES
    pmu,        \* handle -> its instance, or NoPmu
    pmuPc,      \* "idle", "blocked", "unregistering", "destroying" or "taken"
    pmuAt,      \* the handle of the call under way
    mask,       \* the signals the thread blocks
    mask0,      \* the ones it blocked in the beginning
    notify,     \* handle -> the signal the kernel sends for it, or NoPmu
    keySignals, \* the signals on their way
    told,       \* history: the handles signalled for a request not fetched yet
    mishaps     \* history: "shared" signal, UNREGISTER failed and "kept" it,
                \*   "late" signal at the unblocking, request "unread"

kernelKey == <<notify, keySignals>>
pmuVars == <<pmu, pmuPc, pmuAt, mask, mask0, notify, keySignals, told, mishaps>>

PmuInit ==
    /\ pmu = [i \in PmuHandles |-> NoPmu]
    /\ pmuPc = "idle" /\ pmuAt = NoPmu
    /\ mask \in SUBSET KeySignals /\ mask0 = mask
    /\ notify = [i \in PmuHandles |-> NoPmu]
    /\ keySignals = {}
    /\ told = {} /\ mishaps = {}

Unregistered == [registered |-> FALSE, signo |-> NoPmu, was |-> FALSE]
PmuOpen == {i \in PmuHandles : pmu[i] # NoPmu}
Registered == {i \in PmuOpen : pmu[i].registered}

Goto(label, i) == pmuPc' = label /\ pmuAt' = i
Mishap(cond, what) == mishaps' = IF cond THEN mishaps \cup {what} ELSE mishaps

-----------------------------------------------------------------------------
\* drv_pmu_inst_create
PmuCreate(i) ==
    /\ pmuPc = "idle" /\ pmu[i] = NoPmu
    /\ pmu' = [pmu EXCEPT ![i] = Unregistered]
    /\ UNCHANGED <<pmuPc, pmuAt, mask, mask0, kernelKey, told, mishaps>>

\* drv_pmu_key_register_notify: drv_pmu_block_signal ...
BlockSignal(i, s) ==
    /\ pmuPc = "idle"
    /\ i \in PmuOpen \ Registered
    /\ mask' = mask \cup {s}
    /\ pmu' = [pmu EXCEPT ![i].signo = s, ![i].was = s \in mask]
    /\ Goto("blocked", i)
    /\ Mishap(\E j \in Registered : pmu[j].signo = s, "shared")
    /\ UNCHANGED <<mask0, kernelKey, told>>

\* ... and REGISTER_NOTIFY.
RegisterNotify(i) ==
    /\ pmuPc = "blocked" /\ pmuAt = i
    /\ notify' = [notify EXCEPT ![i] = pmu[i].signo]
    /\ pmu' = [pmu EXCEPT ![i].registered = TRUE]
    /\ Goto("idle", NoPmu)
    /\ UNCHANGED <<mask, mask0, keySignals, told, mishaps>>

\* Fault: the signal is unblocked although it was blocked before.
UnblockAlways(i) ==
    /\ mask' = mask \ {pmu[i].signo}
    /\ Mishap(pmu[i].signo \in keySignals, "late")
    /\ pmu' = [pmu EXCEPT ![i] = Unregistered]

\* drv_pmu_unblock_signal
UnblockSignal(i) ==
    /\ mask' = IF pmu[i].was THEN mask ELSE mask \ {pmu[i].signo}
    /\ Mishap(pmu[i].signo \in keySignals, "late")
    /\ pmu' = [pmu EXCEPT ![i] = Unregistered]

\* REGISTER_NOTIFY is refused.
RegisterRefused(i) ==
    /\ pmuPc = "blocked" /\ pmuAt = i
    /\ UnblockSignal(i)
    /\ Goto("idle", NoPmu)
    /\ UNCHANGED <<mask0, kernelKey, told>>

\* drv_pmu_key_unregister_notify, alone or at the start of the destruction:
\* UNREGISTER_NOTIFY, after which the call goes on even if it failed ...
UnregisterNotify(i, done, label) ==
    /\ pmuPc = "idle"
    /\ i \in Registered
    /\ notify' = IF done THEN [notify EXCEPT ![i] = NoPmu] ELSE notify
    /\ Mishap(~done, "kept")
    /\ told' = told \ {i}
    /\ Goto(label, i)
    /\ UNCHANGED <<pmu, mask, mask0, keySignals>>

\* ... and the mask is restored.
UnregisterEnds(i) ==
    /\ pmuPc \in {"unregistering", "destroying"} /\ pmuAt = i /\ i \in Registered
    /\ UnblockSignal(i)
    /\ IF pmuPc = "destroying" THEN UNCHANGED <<pmuPc, pmuAt>> ELSE Goto("idle", NoPmu)
    /\ UNCHANGED <<mask0, kernelKey, told>>

\* The rest of drv_pmu_inst_destroy, or all of it for an instance that was not
\* registered: the descriptor is closed.
PmuCloses(i) ==
    /\ \/ pmuPc = "idle" /\ i \in PmuOpen \ Registered
       \/ pmuPc = "destroying" /\ pmuAt = i /\ ~pmu[i].registered
    /\ pmu' = [pmu EXCEPT ![i] = NoPmu]
    /\ notify' = [notify EXCEPT ![i] = NoPmu]
    /\ Goto("idle", NoPmu)
    /\ UNCHANGED <<mask, mask0, keySignals, told, mishaps>>

-----------------------------------------------------------------------------
\* drv_pmu_key_wait_shutdown: the signal is fetched ...
WaitSignal(i) ==
    /\ pmuPc = "idle"
    /\ i \in Registered /\ pmu[i].signo \in keySignals
    /\ keySignals' = keySignals \ {pmu[i].signo}
    /\ Goto("taken", i)
    /\ UNCHANGED <<pmu, mask, mask0, notify, told, mishaps>>

\* ... and the kernel tells the request.
ReadRequest ==
    /\ pmuPc = "taken"
    /\ told' = {}
    /\ Goto("idle", NoPmu)
    /\ UNCHANGED <<pmu, mask, mask0, kernelKey, mishaps>>

ReadRequestFails ==
    /\ pmuPc = "taken"
    /\ Mishap(TRUE, "unread")
    /\ Goto("idle", NoPmu)
    /\ UNCHANGED <<pmu, mask, mask0, kernelKey, told>>

\* A long press of the power key.
Leaving(i) == pmuPc \in {"unregistering", "destroying"} /\ pmuAt = i

Press ==
    LET notified == {i \in PmuHandles : notify[i] # NoPmu}
    IN  /\ keySignals' = keySignals \cup {notify[i] : i \in notified}
        /\ told' = {i \in notified \cap Registered : ~Leaving(i)}
        /\ UNCHANGED <<pmu, pmuPc, pmuAt, mask, mask0, notify, mishaps>>

\* A signal that is not blocked is delivered.
KeyStrikes(s) ==
    /\ s \in keySignals \ mask
    /\ keySignals' = keySignals \ {s}
    /\ UNCHANGED <<pmu, pmuPc, pmuAt, mask, mask0, notify, told, mishaps>>

-----------------------------------------------------------------------------
PmuNext ==
    \/ \E i \in PmuHandles :
        \/ PmuCreate(i) \/ RegisterNotify(i) \/ RegisterRefused(i)
        \/ UnregisterEnds(i) \/ PmuCloses(i) \/ WaitSignal(i)
        \/ \E s \in KeySignals : BlockSignal(i, s)
        \/ \E done \in BOOLEAN, label \in {"unregistering", "destroying"} :
            UnregisterNotify(i, done, label)
    \/ ReadRequest \/ ReadRequestFails
    \/ Press \/ \E s \in KeySignals : KeyStrikes(s)

PmuSpec == PmuInit /\ [][PmuNext]_pmuVars

-----------------------------------------------------------------------------
\* The signal of the power key is neither lost nor let loose: it is blocked
\* while an instance is registered, a press the instance was told of is still
\* to be fetched or being read, unless a read failed after the signal was
\* fetched, and no signal meets the thread unblocked, unless it was on its way
\* when the mask was restored or UNREGISTER_NOTIFY failed.  Between calls,
\* with nothing registered, the mask is the one the thread came with.  That is
\* for instances that do not share a signal.
PressIsKept ==
    "shared" \notin mishaps =>
        /\ \A i \in Registered : pmu[i].signo \in mask
        /\ \A i \in told :
            \/ pmu[i].signo \in keySignals
            \/ pmuPc = "taken" /\ pmuAt = i
            \/ "unread" \in mishaps
        /\ keySignals \subseteq mask \/ mishaps \cap {"late", "kept"} # {}
        /\ pmuPc = "idle" /\ Registered = {} => mask = mask0
=============================================================================
