----------------------------- MODULE InputDevice ----------------------------
(***************************************************************************)
(* The input driver (rtsmart_hal/drivers/input/drv_input.c): one instance, *)
(* used by one thread, of a device that may be unplugged and replaced at   *)
(* any moment.  A descriptor stays bound to its slot /dev/input/event<n>;  *)
(* what the slot holds is compared with the remembered info when a poll is *)
(* quiet.  An instance with a preferred kind looks for another device when *)
(* its own goes.                                                           *)
(*                                                                         *)
(* A step is one system call of the driver with what follows it.  A device *)
(* is what GET_INFO tells of it; Keys stands for all buttons.  The kernel  *)
(* is external: unplugging drops the events nobody has read, a descriptor  *)
(* of an empty slot reads an error or nothing.                             *)
(***************************************************************************)
EXTENDS Integers, Sequences

CONSTANTS
    NSlots,     \* 32, the slots that are searched
    Devices,    \* what GET_INFO may tell
    Kind(_),    \* the kind of a device
    NoInput,    \* no slot, no info, no kind
    MaxFrame,   \* DRV_INPUT_MAX_FRAME_EVENTS
    MaxSlices,  \* bound: the slices of a timeout
    MaxQueue,   \* bound: the events a slot holds
    MaxEvents   \* bound: the events of all devices

ASSUME InputAssumption == NSlots \in Nat /\ MaxFrame \in Nat \ {0} /\ MaxSlices \in Nat

Slots == 0..NSlots-1
Kinds == {Kind(d) : d \in Devices}
Keys == {"press", "release"}
Events == Keys \cup {"sync"}

VARIABLES
    dev,        \* slot -> the device in it, or NoInput
    queue,      \* slot -> the events of it nobody has read
    emitted,    \* their number, in all
    live,       \* the instance exists
    fd,         \* the slot of its descriptor, or NoInput
    info,       \* its cached info, or NoInput (kind unknown)
    preferred,  \* preferred_kind, NoInput if there is no auto_reconnect
    buttons,    \* button_state
    pc,         \* "idle", "poll", "frame", "look", "open"
    left,       \* of a poll: -1 for ever, 0 at once, else the slices left
    frame,      \* the events of the frame being read
    reader,     \* "pointer", or "raw" (read_frame, read_keyboard_frame)
    mid,        \* the search for a device is for a frame being read
    found,      \* the slot and the info found
    heard,      \* history: the buttons by the events read from the device that
                \*   is in the slot of this fd now
    kept,       \* history: a button that a device held when it left this slot,
                \*   and of which the driver has not been told better since
    lost        \* history: button events went past button_state, or those
                \*   of a device that is gone went into it

device == <<dev, queue, emitted>>
settings == <<live, preferred>>
vars == <<dev, queue, emitted, live, fd, info, preferred, buttons, pc, left,
          frame, reader, mid, found, heard, kept, lost>>

Init ==
    /\ dev \in [Slots -> Devices \cup {NoInput}]
    /\ queue = [s \in Slots |-> <<>>]
    /\ emitted = 0
    /\ live = FALSE
    /\ fd = NoInput /\ info = NoInput /\ preferred = NoInput
    /\ buttons = FALSE
    /\ pc = "idle" /\ left = 0
    /\ frame = <<>> /\ reader = "raw"
    /\ mid = FALSE /\ found = NoInput
    /\ heard = FALSE /\ kept = FALSE /\ lost = FALSE

-----------------------------------------------------------------------------
(* The devices.                                                            *)

driver == <<live, fd, info, preferred, buttons, pc, left, frame, reader, mid,
            found, lost>>

Plug(s, d) ==
    /\ dev[s] = NoInput
    /\ dev' = [dev EXCEPT ![s] = d]
    /\ UNCHANGED <<queue, emitted, driver, heard, kept>>

\* The instance is not told; it keeps the buttons of a device in its slot.
Unplug(s) ==
    /\ dev[s] # NoInput
    /\ dev' = [dev EXCEPT ![s] = NoInput]
    /\ queue' = [queue EXCEPT ![s] = <<>>]
    /\ heard' = (heard /\ s # fd)
    /\ kept' = (kept \/ (heard /\ s = fd))
    /\ UNCHANGED <<emitted, driver>>

Emit(s, e) ==
    /\ dev[s] # NoInput
    /\ Len(queue[s]) < MaxQueue /\ emitted < MaxEvents
    /\ queue' = [queue EXCEPT ![s] = Append(@, e)]
    /\ emitted' = emitted + 1
    /\ UNCHANGED <<dev, driver, heard, kept>>

-----------------------------------------------------------------------------
(* Connecting.                                                             *)

\* drv_input_open_path, for an instance or a path: the old instance is gone
\* even if the new one cannot be opened.
Create(s) ==
    /\ pc = "idle"
    /\ live' = (dev[s] # NoInput)
    /\ fd' = IF live' THEN s ELSE NoInput
    /\ info' = NoInput /\ preferred' = NoInput
    /\ buttons' = FALSE /\ heard' = FALSE /\ kept' = FALSE /\ lost' = FALSE
    /\ UNCHANGED <<device, pc, left, frame, reader, mid, found>>

\* drv_input_inst_destroy
InstDestroy ==
    /\ pc = "idle" /\ live
    /\ live' = FALSE
    /\ fd' = NoInput /\ info' = NoInput /\ preferred' = NoInput
    /\ buttons' = FALSE /\ heard' = FALSE /\ kept' = FALSE /\ lost' = FALSE
    /\ UNCHANGED <<device, pc, left, frame, reader, mid, found>>

Connected == fd # NoInput
Gone == dev[fd] = NoInput

\* A call returns.
Return ==
    /\ pc' = "idle" /\ left' = 0
    /\ frame' = <<>> /\ reader' = "raw" /\ mid' = FALSE /\ found' = NoInput

\* drv_input_inst_mark_disconnected
MarkDisconnected ==
    /\ fd' = NoInput
    /\ info' = NoInput
    /\ buttons' = FALSE
    /\ heard' = FALSE /\ kept' = FALSE /\ lost' = FALSE

\* drv_input_handle_disconnect, inside a frame or not.
HandleDisconnect(inFrame) ==
    /\ MarkDisconnected
    /\ IF preferred = NoInput THEN Return
       ELSE /\ pc' = "look" /\ mid' = inFrame
            /\ left' = 0
            /\ UNCHANGED <<frame, reader, found>>

\* drv_input_inst_mark_disconnected, called by the application.
MarkByUser ==
    /\ pc = "idle" /\ live
    /\ MarkDisconnected
    /\ UNCHANGED <<device, settings, pc, left, frame, reader, mid, found>>

\* drv_input_inst_set_auto_reconnect
SetAutoReconnect(k) ==
    /\ pc = "idle" /\ live
    /\ preferred' = k
    /\ UNCHANGED <<device, live, fd, info, buttons, pc, left, frame, reader, mid,
                   found, heard, kept, lost>>

\* drv_input_inst_try_reconnect of an instance that is not connected, called
\* by the application or at the start of poll, read_event and the frames.
TryReconnect ==
    /\ pc = "idle" /\ live
    /\ ~Connected /\ preferred # NoInput
    /\ pc' = "look"
    /\ UNCHANGED <<device, settings, fd, info, buttons, left, frame, reader, mid,
                   found, heard, kept, lost>>

\* drv_input_find_first_by_type: the first slot whose device is of the kind.
Matching == {s \in Slots : dev[s] # NoInput /\ Kind(dev[s]) = preferred}

Find ==
    /\ pc = "look"
    /\ \E s \in Matching :
        /\ \A t \in Matching : s <= t
        /\ found' = [slot |-> s, info |-> dev[s]]
    /\ pc' = "open"
    /\ UNCHANGED <<device, settings, fd, info, buttons, left, frame, reader, mid,
                   heard, kept, lost>>

\* There is none, or it cannot be opened any more: the call fails, and the
\* events of a frame being read are dropped with it.
NotFound ==
    /\ \/ pc = "look" /\ Matching = {}
       \/ pc = "open" /\ dev[found.slot] = NoInput
    /\ Return
    /\ UNCHANGED <<device, settings, fd, info, buttons, heard, kept, lost>>

\* button_state after the events es: the last one of a button decides.
Pressed(b, es) ==
    \/ b /\ \A i \in 1..Len(es) : es[i] \notin Keys
    \/ \E i \in 1..Len(es) :
          es[i] = "press" /\ \A j \in (i + 1)..Len(es) : es[j] \notin Keys

\* The slot found is opened.  A frame being read ends here, with the events of
\* the device that is gone.
Reopen ==
    /\ pc = "open"
    /\ dev[found.slot] # NoInput
    /\ fd' = found.slot
    /\ info' = found.info
    /\ heard' = FALSE /\ kept' = FALSE
    /\ buttons' = IF mid /\ reader = "pointer" THEN Pressed(FALSE, frame) ELSE FALSE
    /\ lost' = (mid /\ reader = "pointer" /\ frame # <<>>)
    /\ Return
    /\ UNCHANGED <<device, settings>>

\* drv_input_get_info
GetInfo ==
    /\ pc = "idle" /\ Connected
    /\ ~Gone
    /\ info' = dev[fd]
    /\ UNCHANGED <<device, settings, fd, buttons, pc, left, frame, reader, mid,
                   found, heard, kept, lost>>

-----------------------------------------------------------------------------
(* drv_input_poll.                                                         *)

PollFor(t) ==
    /\ pc = "idle" /\ Connected
    /\ pc' = "poll" /\ left' = t
    /\ UNCHANGED <<device, settings, fd, info, buttons, frame, reader, mid, found,
                   heard, kept, lost>>

\* Events are there, or poll is interrupted.
PollReturns ==
    /\ pc = "poll"
    /\ Return
    /\ UNCHANGED <<device, settings, fd, info, buttons, heard, kept, lost>>

PollWakes == pc = "poll" /\ queue[fd] # <<>> /\ PollReturns
PollInterrupted == PollReturns

\* poll reports an error or a hang-up.  With timeout 0 that is returned as it
\* is.
PollHangsUp ==
    /\ pc = "poll" /\ Gone
    /\ IF left = 0
       THEN Return /\ UNCHANGED <<fd, info, buttons, heard, kept, lost>>
       ELSE HandleDisconnect(FALSE)
    /\ UNCHANGED <<device, settings>>

\* Fault: only the kinds are compared.
KindChanged == info # NoInput /\ (Gone \/ Kind(dev[fd]) # Kind(info))

\* drv_input_path_rebound: the slot does not hold what is remembered.
PathRebound == info # NoInput /\ dev[fd] # info

\* The slices left after one.
SlicesLeft == IF left > 0 THEN left - 1 ELSE left

\* The device is not the one that the instance remembers.
Misled == Connected /\ info # NoInput /\ dev[fd] # info

\* A slice passes and nothing happens.  The driver can see now if it is misled.
PollQuiet ==
    /\ pc = "poll" /\ queue[fd] = <<>>
    /\ \/ PathRebound /\ HandleDisconnect(FALSE)
       \/ /\ ~PathRebound
          /\ IF SlicesLeft = 0 THEN Return
             ELSE left' = SlicesLeft /\ UNCHANGED <<pc, frame, reader, mid, found>>
          /\ kept' = (kept /\ ~Misled)
          /\ UNCHANGED <<fd, info, buttons, heard, lost>>
    /\ UNCHANGED <<device, settings>>

-----------------------------------------------------------------------------
(* Reading.                                                                *)

\* drv_input_read_event
ReadEvent ==
    /\ pc = "idle" /\ Connected
    /\ queue[fd] # <<>>
    /\ queue' = [queue EXCEPT ![fd] = Tail(@)]
    /\ lost' = (lost \/ Head(queue[fd]) \in Keys)
    /\ UNCHANGED <<dev, emitted, settings, fd, info, buttons, pc, left, frame,
                   reader, mid, found, heard, kept>>

ReadEventHangsUp ==
    /\ pc = "idle" /\ Connected /\ Gone
    /\ HandleDisconnect(FALSE)
    /\ UNCHANGED <<device, settings>>

\* drv_input_read_frame, alone or for read_keyboard_frame ("raw") and
\* read_pointer_frame.
ReadFrame(r) ==
    /\ pc = "idle" /\ Connected
    /\ pc' = "frame" /\ reader' = r
    /\ UNCHANGED <<device, settings, fd, info, buttons, left, frame, mid, found,
                   heard, kept, lost>>

\* Fault: the events of an incomplete frame are dropped.
OnlyIfComplete(es, complete) ==
    buttons' = IF reader = "pointer" /\ complete THEN Pressed(buttons, es) ELSE buttons

\* What read_pointer_frame does with the events es of a frame.
Apply(es, complete) ==
    buttons' = IF reader = "pointer" THEN Pressed(buttons, es) ELSE buttons

\* The frame ends with the events es, complete or not.
FrameEnds(es, complete) ==
    /\ Apply(es, complete)
    /\ lost' = (lost \/ (reader = "raw" /\ \E i \in 1..Len(es) : es[i] \in Keys))
    /\ Return

\* An event is read: the last of the frame, or of what a frame has room for.
FrameReads ==
    LET e == Head(queue[fd])
        es == Append(frame, e)
    IN  /\ pc = "frame" /\ queue[fd] # <<>>
        /\ queue' = [queue EXCEPT ![fd] = Tail(@)]
        /\ heard' = Pressed(heard, <<e>>)
        /\ kept' = (kept /\ e \notin Keys)
        /\ \/ /\ e = "sync"
              /\ FrameEnds(frame, TRUE)
           \/ /\ e # "sync" /\ Len(es) = MaxFrame
              /\ FrameEnds(es, FALSE)
           \/ /\ e # "sync" /\ Len(es) < MaxFrame
              /\ frame' = es
              /\ UNCHANGED <<buttons, lost, pc, left, reader, mid, found>>
        /\ UNCHANGED <<dev, emitted, settings, fd, info>>

\* There are no more events: the frame ends here.
FrameStops ==
    /\ pc = "frame" /\ ~Gone /\ queue[fd] = <<>>
    /\ FrameEnds(frame, FALSE)
    /\ UNCHANGED <<device, settings, fd, info, heard, kept>>

\* The device is gone.
FrameHangsUp ==
    /\ pc = "frame" /\ Gone
    /\ HandleDisconnect(TRUE)
    /\ UNCHANGED <<device, settings>>

\* read fails for another reason: the events read so far are dropped.
FrameFails ==
    /\ pc = "frame"
    /\ lost' = (lost \/ \E i \in 1..Len(frame) : frame[i] \in Keys)
    /\ Return
    /\ UNCHANGED <<device, settings, fd, info, buttons, heard, kept>>

-----------------------------------------------------------------------------
\* The calls of the application.
Call ==
    \/ InstDestroy \/ MarkByUser \/ TryReconnect \/ GetInfo
    \/ ReadEvent \/ ReadEventHangsUp
    \/ \E s \in Slots : Create(s)
    \/ \E k \in Kinds \cup {NoInput} : SetAutoReconnect(k)
    \/ \E t \in -1..MaxSlices : PollFor(t)
    \/ \E r \in {"pointer", "raw"} : ReadFrame(r)

\* The steps of a call under way.
Step ==
    \/ Find \/ NotFound \/ Reopen
    \/ PollWakes \/ PollHangsUp \/ PollQuiet
    \/ FrameReads \/ FrameStops \/ FrameHangsUp

Next ==
    \/ Call \/ Step \/ PollInterrupted \/ FrameFails
    \/ \E s \in Slots : \/ Unplug(s)
                        \/ \E d \in Devices : Plug(s, d)
                        \/ \E e \in Events : Emit(s, e)

Spec == Init /\ [][Next]_vars

\* A call under way goes on: a slice of time passes, an interrupted call is
\* not interrupted for ever.  The application keeps polling and reading.
Fairness ==
    /\ WF_vars(Step) /\ SF_vars(PollQuiet)
    /\ SF_vars(\E t \in -1..MaxSlices : PollFor(t))
    /\ SF_vars(ReadFrame("pointer")) /\ SF_vars(FrameReads)

FairSpec == Spec /\ Fairness

-----------------------------------------------------------------------------
(* Properties.                                                             *)

\* Between calls button_state, which read_pointer_frame reports, is what the
\* events read from the device that is in the slot now say: a disconnection
\* forgets the buttons of the old device, a frame cut short or too long for one
\* buffer loses none.  The exceptions are events read by other means or dropped
\* by a read error, a frame that straddles a reconnection, and a device that left
\* the slot with the button held: it stays pressed until an event of the button
\* or a quiet slice with another device than the remembered one in the slot, so
\* as long as the same one, or one the instance does not know, is in its place.
ButtonsFollowDevice ==
    pc = "idle" /\ Connected /\ ~lost /\ ~kept => buttons = heard

\* An instance that knows its device and finds another one, or none, in the
\* slot does not stay bound to it: a poll that gets a quiet slice notices.
ReplacedIsNoticed == Misled ~> ~Misled
=============================================================================
