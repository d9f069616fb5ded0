----------------------------- MODULE HidKeypad ------------------------------
(***************************************************************************)
(* The keyboard of LVGL (3rd-party/lvgl/port/lv_k230_input_hid.c): key     *)
(* codes come from the input driver in frames, are translated with the     *)
(* state of shift and caps lock, wait in a queue of key_events and are     *)
(* handed to LVGL one by one.                                              *)
(*                                                                         *)
(* The keyboard is external: it sends presses, repetitions and releases,   *)
(* and is pulled out and replaced at any time, which the driver heals      *)
(* without telling.  How many events make a frame is known when the frame  *)
(* is read.  What a code is translated to matters only as far as two       *)
(* translations differ, so a key is the code and whether it is the shifted *)
(* one.                                                                    *)
(***************************************************************************)
EXTENDS Integers, Sequences

CONSTANTS
    Shifts,             \* KEY_LEFTSHIFT, KEY_RIGHTSHIFT
    CapsLock,           \* KEY_CAPSLOCK
    Letters,            \* codes that shift and caps lock change
    Specials,           \* codes that shift alone changes (KEY_TAB)
    KeyQueueSize,       \* LV_K230_HID_KEY_QUEUE_SIZE
    MaxReadBatch,       \* LV_K230_HID_MAX_READ_BATCH
    MaxFrameEvents,     \* DRV_INPUT_MAX_FRAME_EVENTS
    MaxUnread,          \* bound: events that wait in the kernel
    NoKey               \* 0

Keys == Letters \cup Specials
Codes == Keys \cup Shifts \cup {CapsLock}
Values == {"released", "pressed", "repeated"}

ASSUME KeypadAssumption ==
    /\ Letters \cap Specials = {} /\ Keys \cap (Shifts \cup {CapsLock}) = {}
    /\ CapsLock \notin Shifts
    /\ NoKey \notin Keys \X BOOLEAN
    /\ {KeyQueueSize, MaxReadBatch, MaxFrameEvents, MaxUnread} \subseteq Nat \ {0}

VARIABLES
    down,       \* the codes held on the keyboard
    unread,     \* the events that were sent and not looked at yet
    inFrame,    \* how many of these are in the frame that was read last
    shift,      \* shift_pressed
    caps,       \* caps_lock_enabled
    translated, \* translated_keys
    keyEvents,  \* key_events
    released,   \* active_key_state: LVGL was told of a release last; the key,
                \*   told again with it, is not looked at
    reads,      \* frames read by the call under way, -1 for none
    seen,       \* history: code -> the key LVGL was last told is pressed, if it
                \*   was not told of a release since
    missed,     \* history: codes whose press fell out of the queue
    torn        \* history: a keyboard went with keys held or events unread, and
                \*   nothing was typed since

modifiers == <<shift, caps>>
told == <<released, seen>>
hidVars == <<down, unread, inFrame, shift, caps, translated, keyEvents,
             released, reads, seen, missed, torn>>

-----------------------------------------------------------------------------
(* The keyboard.                                                           *)

\* What the keyboard can send next.
Sendable(e) == IF e.value = "pressed" THEN e.code \notin down ELSE e.code \in down

Emit(e) ==
    /\ Sendable(e)
    /\ Len(unread) < MaxUnread
    /\ unread' = Append(unread, e)
    /\ down' = IF e.value = "released" THEN down \ {e.code} ELSE down \cup {e.code}
    /\ UNCHANGED <<inFrame, modifiers, translated, keyEvents, told, reads,
                   missed, torn>>

\* The keyboard goes, with its keys and what was not read of it.  What comes next,
\* if anything does, comes from the one the driver opens in its place.
Replace ==
    /\ torn' = (torn \/ down \cap Keys # {} \/ Len(unread) > inFrame)
    /\ down' = {} /\ unread' = SubSeq(unread, 1, inFrame)
    /\ UNCHANGED <<inFrame, modifiers, translated, keyEvents, told, reads, missed>>

-----------------------------------------------------------------------------
(* lv_k230_hid_collect_key_events.                                         *)

\* lv_k230_hid_translate_keycode
Translate(code) ==
    CASE code \in Specials -> <<code, shift>>
      [] code \in Letters -> <<code, shift # caps>>
      [] OTHER -> NoKey

\* Fault: a full queue keeps what it has.
EnqueueIfRoom(q, k) == IF Len(q) < KeyQueueSize THEN Append(q, k) ELSE q

\* lv_k230_hid_enqueue_key_event: a full queue loses its oldest event.
Enqueue(q, k) == Append(IF Len(q) < KeyQueueSize THEN q ELSE Tail(q), k)

\* The press that this event loses.
Dropped(q) == IF Len(q) < KeyQueueSize \/ Head(q).released THEN {} ELSE {Head(q).code}

\* Fault: a release is translated like a press.
KeyNow(e) == Translate(e.code)

\* A release is of the key the code was pressed as.
KeyOf(e) ==
    IF e.value = "released" /\ translated[e.code] # NoKey
    THEN translated[e.code]
    ELSE Translate(e.code)

\* A frame of n events is read.
CollectFrame(n) ==
    /\ reads \in 0..(MaxReadBatch - 1) /\ inFrame = 0
    /\ n <= Len(unread) /\ Len(keyEvents) < KeyQueueSize
    /\ inFrame' = n
    /\ reads' = reads + 1
    /\ torn' = (torn /\ \A i \in 1..n : unread[i].code \notin Keys)
    /\ UNCHANGED <<down, unread, modifiers, translated, keyEvents, told, missed>>

\* The next event of the frame is looked at.
NextEvent ==
    /\ inFrame > 0
    /\ inFrame' = inFrame - 1
    /\ unread' = Tail(unread)

CollectShift ==
    /\ NextEvent /\ Head(unread).code \in Shifts
    /\ shift' = (Head(unread).value # "released")
    /\ UNCHANGED <<down, caps, translated, keyEvents, told, reads, missed, torn>>

IsCapsPress(e) == e.code = CapsLock /\ e.value = "pressed"

CollectCaps ==
    /\ NextEvent /\ IsCapsPress(Head(unread))
    /\ caps' = ~caps
    /\ UNCHANGED <<down, shift, translated, keyEvents, told, reads, missed, torn>>

CollectKey ==
    /\ NextEvent
    /\ LET e == Head(unread)
           key == KeyOf(e)
       IN  /\ e.code \notin Shifts /\ ~IsCapsPress(e)
           /\ translated' = [translated EXCEPT ![e.code] =
                               IF e.value = "released" THEN NoKey ELSE key]
           /\ \/ /\ key = NoKey
                 /\ UNCHANGED <<keyEvents, missed>>
              \/ /\ key # NoKey
                 /\ keyEvents' = Enqueue(keyEvents, [key |-> key, code |-> e.code,
                                                    released |-> e.value = "released"])
                 /\ missed' = missed \cup Dropped(keyEvents)
    /\ UNCHANGED <<down, modifiers, told, reads, torn>>

-----------------------------------------------------------------------------
(* lv_k230_hid_keypad_read_cb.                                             *)

\* LVGL is told of the first event of the queue, or once more of the last one.
Delivered ==
    IF keyEvents = <<>> THEN UNCHANGED <<keyEvents, told, missed>>
    ELSE LET k == Head(keyEvents)
         IN  /\ released' = k.released
             /\ keyEvents' = Tail(keyEvents)
             /\ seen' = [seen EXCEPT ![k.code] = IF k.released THEN NoKey ELSE k.key]
             /\ missed' = missed \ {k.code}

\* With an empty queue, frames are read first.
ReadBegins ==
    /\ reads = -1 /\ keyEvents = <<>>
    /\ reads' = 0
    /\ UNCHANGED <<down, unread, inFrame, modifiers, translated, keyEvents, told,
                   missed, torn>>

\* Else, and when the reading ends (no frame, one without keys, an error, a full
\* queue, a full batch), one event is delivered.
ReadReturns ==
    /\ reads >= 0 \/ keyEvents # <<>>
    /\ inFrame = 0
    /\ Delivered
    /\ reads' = -1
    /\ UNCHANGED <<down, unread, inFrame, modifiers, translated, torn>>

-----------------------------------------------------------------------------
HidInit ==
    /\ down = {} /\ unread = <<>> /\ inFrame = 0
    /\ shift = FALSE /\ caps = FALSE
    /\ translated = [c \in Codes |-> NoKey] /\ keyEvents = <<>>
    /\ released = TRUE /\ reads = -1
    /\ seen = [c \in Codes |-> NoKey] /\ missed = {} /\ torn = FALSE

HidNext ==
    \/ \E e \in [code : Codes, value : Values] : Emit(e)
    \/ Replace
    \/ \E n \in 1..MaxFrameEvents : CollectFrame(n)
    \/ CollectShift \/ CollectCaps \/ CollectKey
    \/ ReadBegins \/ ReadReturns

HidSpec == HidInit /\ [][HidNext]_hidVars

-----------------------------------------------------------------------------
(* Properties.                                                             *)

\* Once every key is up and everything was read and handed on, LVGL sees no
\* pressed key, even if the queue ran over (lv_k230_hid_enqueue_key_event).
\* Excepted is a keyboard that went with keys held, until the next one is
\* typed on: the state of the context is kept.
QuietIsReleased ==
    /\ down \cap Keys = {} /\ unread = <<>> /\ keyEvents = <<>>
    /\ ~torn
    => released

\* LVGL is told of the release of a key as the key it saw pressed, whatever
\* shift and caps lock did in between (translated_keys), unless the press fell
\* out of the queue.
ReleasedAsPressed ==
    keyEvents # <<>> =>
        LET k == Head(keyEvents)
        IN  k.released /\ k.code \notin missed => k.key = seen[k.code]
=============================================================================
