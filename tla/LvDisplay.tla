------------------------------ MODULE LvDisplay -----------------------------
(***************************************************************************)
(* The LVGL display of the K230 (3rd-party/lvgl/port/lv_k230_display.c):   *)
(* three frame buffers between LVGL, which renders the changed rows of a   *)
(* frame, and the video output VO, which shows one frame and keeps one     *)
(* more until the next refresh of the panel.                               *)
(*                                                                         *)
(* Everything but VO runs in the thread of LVGL.  A step is an event LVGL  *)
(* sends, the drawing and flushing of one area, the end of a wait, or a    *)
(* refresh of the panel.  What a pixel holds matters only as far as it is  *)
(* what was rendered last, so a buffer is the set of its current rows.  The*)
(* fields y1 and y2 of a range of rows are the set of these rows, {} for   *)
(* an invalid one.  LVGL and VO are external: VO may refuse a call, gives  *)
(* its frames back when its layer is disabled, and says EBUSY of a frame   *)
(* that it holds or while it does something else.                          *)
(***************************************************************************)
EXTENDS Integers, FiniteSets

CONSTANTS
    Height,     \* the rows of the screen
    Formats,    \* colour formats LVGL may be asked for
    PixelOf,    \* colour format -> pixel format of VO, BUTT for none
    BUTT,       \* PIXEL_FORMAT_BUTT
    NONE,
    MaxAreas    \* bound: the areas LVGL keeps apart

Rows == 0..(Height - 1)
Buf == 0..2     \* displayed, pending, drawing
Pools == {0, 1} \* a pool's number is used again once it is destroyed

ASSUME LvAssumption ==
    /\ Height \in Nat \ {0}
    /\ MaxAreas \in Nat \ {0}
    /\ BUTT \notin Formats /\ NONE \notin Buf /\ NONE \notin Pools \X Buf

VARIABLES
    pool,       \* buffer_pool_id, NONE before create and after delete
    fmt,        \* color_format; osd_layer_attr.pixel_format is PixelOf[fmt]
    cached,     \* buffer_cached
    last,       \* last_buffer
    failed,     \* reconfigure_failed
    dirty,      \* rows dirty_y1..dirty_y2
    sync,       \* buffer -> rows sync_y1..sync_y2
    timer,      \* the refresh timer runs
    invalid,    \* areas to be rendered
    phase,      \* of the thread: "idle", "waiting" in prepare_draw_buffer,
                \*   "drawing", "aborted"
    draw,       \* the buffer it waits for or draws into
    current,    \* buffer -> its rows that hold what was rendered last
    unwritten,  \* buffer -> rows in the CPU's cache or the GPU's queue only
    vo,         \* the layer: on, its pixel format, the frame shown and the
                \*   frame that follows
    drawn,      \* history: rows rendered for the frame at hand
    lost        \* history: rows rendered for a frame that was dropped, and
                \*   not since

content == <<current, unwritten>>
lvgl == <<timer, invalid>>
lvVars == <<pool, fmt, cached, last, failed, dirty, sync, timer, invalid,
            phase, draw, current, unwritten, vo, drawn, lost>>

-----------------------------------------------------------------------------
(* VO.                                                                     *)

Frame(b) == <<pool, b>>
Held == {vo.shown, vo.pending} \ {NONE}

\* kd_display_layer_push_frame: a frame that waits is dropped.
Push(v, f) == [v EXCEPT !.pending = f]

\* kd_display_layer_disable.
Disabled(v) == [v EXCEPT !.on = FALSE, !.shown = NONE, !.pending = NONE]

\* What k230_display_configure_osd makes of the layer v, by the step that
\* fails.
ConfigureFailures(v, pix) == {v, Disabled(v), [Disabled(v) EXCEPT !.pix = pix]}

\* The layer when no step fails.
Configured(v, pix) == [Disabled(v) EXCEPT !.pix = pix, !.on = TRUE]

\* The panel is refreshed.
Refresh ==
    /\ vo.on /\ vo.pending # NONE
    /\ vo' = [vo EXCEPT !.shown = vo.pending, !.pending = NONE]
    /\ UNCHANGED <<pool, fmt, cached, last, failed, dirty, sync, lvgl,
                   phase, draw, content, drawn, lost>>

-----------------------------------------------------------------------------
(* Rows.                                                                   *)

\* The rows from the first to the last of S.
Span(S) == {r \in Rows : \E a, b \in S : a <= r /\ r <= b}
Areas == {Span(S) : S \in (SUBSET Rows) \ {{}}}

\* mark_dirty_rows
Marked(a) == Span(dirty \cup a)

-----------------------------------------------------------------------------
(* LV_EVENT_RENDER_START: prepare_draw_buffer.                             *)

\* The rest of prepare_draw_buffer, for the buffer b: it gets the rows it has
\* missed from the last one and is handed to LVGL.
Prepared(b) ==
    LET copy == IF last = NONE THEN {} ELSE sync[b]
    IN  /\ phase' = "drawing"
        /\ draw' = b
        /\ drawn' = {}
        /\ sync' = [sync EXCEPT ![b] = @ \ copy]
        /\ current' = [current EXCEPT ![b] =
                          (@ \ copy) \cup {r \in copy : r \in current[last]}]
        /\ unwritten' = [unwritten EXCEPT ![b] = @ \ copy]

\* Fault: VO is not asked.
FreeUnasked(busy) == Buf \ {last}

\* The buffers that are not the last one and that VO says it released.
Free(busy) == Buf \ (busy \cup {last})

\* The buffer to wait for when VO released none.
Await == IF last = 0 THEN 1 ELSE 0

\* LVGL stops its timer and sends the event; VO says EBUSY of the buffers busy.
\* The first free buffer is taken, else the thread waits.
RenderStart(busy) ==
    /\ phase = "idle" /\ timer /\ invalid # {}
    /\ \A b \in Buf : Frame(b) \in Held => b \in busy
    /\ timer' = FALSE
    /\ \/ \E b \in Free(busy) : (\A c \in Free(busy) : b <= c) /\ Prepared(b)
       \/ /\ Free(busy) = {}
          /\ phase' = "waiting" /\ draw' = Await
          /\ UNCHANGED <<sync, content, drawn>>
    /\ UNCHANGED <<pool, fmt, cached, last, failed, dirty, invalid, vo, lost>>

\* Fault: the wait is for all the buffers.
AllReleased == Held = {}

\* What the wait is for.
Released == Frame(draw) \notin Held

\* kd_mpi_vo_wait_frame_release without a timeout; EINTR is asked again.
WaitReturns ==
    /\ phase = "waiting" /\ Released
    /\ Prepared(draw)
    /\ UNCHANGED <<pool, fmt, cached, last, failed, dirty, lvgl, vo, lost>>

WaitFails ==
    /\ phase = "waiting"
    /\ phase' = "aborted"
    /\ UNCHANGED <<pool, fmt, cached, last, failed, dirty, sync, lvgl, draw,
                   content, vo, drawn, lost>>

-----------------------------------------------------------------------------
(* LVGL draws an area; flush_cb.                                           *)

\* The area a is drawn into the buffer at hand, by the CPU through its cache
\* or by the GPU.
DrawnWith(a) ==
    [b \in Buf |-> IF b = draw THEN current[b] \cup a ELSE current[b] \ a]
QueuedWith(a) == [unwritten EXCEPT ![draw] = @ \cup a]

\* An area that is not the frame's last.
FlushArea(a) ==
    /\ phase = "drawing" /\ a \in invalid /\ invalid # {a}
    /\ invalid' = invalid \ {a}
    /\ current' = DrawnWith(a)
    /\ unwritten' = QueuedWith(a)
    /\ drawn' = drawn \cup a
    /\ dirty' = Marked(a)
    /\ UNCHANGED <<pool, fmt, cached, last, failed, sync, timer, phase, draw,
                   vo, lost>>

\* The rows in the CPU's cache after flush_dirty_rows.
FlushedWith(a) ==
    IF cached THEN [QueuedWith(a) EXCEPT ![draw] = @ \ Marked(a)] ELSE QueuedWith(a)

\* The last area, when lv_k230_vglite_wait_idle fails: the frame is dropped.
FlushDropped(a) ==
    /\ phase = "drawing" /\ invalid = {a}
    /\ invalid' = {}
    /\ current' = DrawnWith(a)
    /\ unwritten' = FlushedWith(a)
    /\ dirty' = Marked(a)
    /\ lost' = lost \cup drawn \cup a
    /\ drawn' = {}
    /\ phase' = "idle" /\ draw' = NONE
    /\ UNCHANGED <<pool, fmt, cached, last, failed, sync, timer, vo>>

\* Fault: the other buffers remember the rows of this frame only.
SyncReplaced(a) == [b \in Buf |-> IF b = draw THEN sync[b] ELSE Marked(a)]

\* The rows every other buffer has missed.
SyncWith(a) ==
    [b \in Buf |-> IF b = draw THEN sync[b] ELSE Span(sync[b] \cup Marked(a))]

\* The last area: the frame is pushed, though VO may refuse it, and the other
\* buffers remember what they missed.
FlushLast(a, pushed) ==
    /\ phase = "drawing" /\ invalid = {a}
    /\ invalid' = {}
    /\ current' = DrawnWith(a)
    /\ unwritten' = IF cached THEN FlushedWith(a) ELSE [b \in Buf |-> {}]
    /\ vo' = IF pushed THEN Push(vo, Frame(draw)) ELSE vo
    /\ sync' = SyncWith(a)
    /\ last' = draw
    /\ dirty' = {}
    /\ lost' = lost \ (drawn \cup a)
    /\ drawn' = {}
    /\ phase' = "idle" /\ draw' = NONE
    /\ UNCHANGED <<pool, fmt, cached, failed, timer>>

-----------------------------------------------------------------------------
(* LV_EVENT_REFR_REQUEST.                                                  *)

\* Fault: the event is not handled.
TimerStarted == TRUE

\* LVGL starts its timer; event_cb stops it again while there is no layer.
TimerRequested == ~failed

\* LVGL notes an area that is to be rendered.
Invalidate(a) ==
    /\ phase = "idle" /\ pool # NONE
    /\ a \notin invalid /\ Cardinality(invalid) < MaxAreas
    /\ invalid' = invalid \cup {a}
    /\ timer' = TimerRequested
    /\ UNCHANGED <<pool, fmt, cached, last, failed, dirty, sync, phase, draw,
                   content, vo, drawn, lost>>

-----------------------------------------------------------------------------
(* lv_k230_display_create, LV_EVENT_COLOR_FORMAT_CHANGED, LV_EVENT_DELETE. *)
(* An unsupported format, and one a reconfiguration fails for, is set back *)
(* in LVGL, which sends the event once more for the format there was.      *)

\* A replacement r in the place of the old buffers: nothing is drawn in it,
\* VO has no frame of it, the whole screen is to be rendered.
Replaced(r, f) ==
    /\ pool' = r
    /\ fmt' = f
    /\ cached' \in BOOLEAN
    /\ last' = NONE
    /\ failed' = FALSE
    /\ dirty' = {}
    /\ sync' = [b \in Buf |-> {}]
    /\ timer' = TRUE
    /\ invalid' = {Rows}
    /\ current' = [b \in Buf |-> {}]
    /\ unwritten' = [b \in Buf |-> {}]
    /\ vo' = Configured(vo, PixelOf[f])
    /\ lost' = {}
    /\ UNCHANGED <<phase, draw, drawn>>

\* What is left of a display that was not created or was deleted.
Absent ==
    /\ pool' = NONE
    /\ fmt' = NONE
    /\ cached' = FALSE
    /\ last' = NONE
    /\ failed' = FALSE
    /\ dirty' = {}
    /\ sync' = [b \in Buf |-> {}]
    /\ timer' = FALSE
    /\ invalid' = {}
    /\ current' = [b \in Buf |-> {}]
    /\ unwritten' = [b \in Buf |-> {}]
    /\ lost' = {}
    /\ UNCHANGED <<phase, draw, drawn>>

Create(r, f) ==
    /\ pool = NONE /\ r # pool /\ PixelOf[f] # BUTT
    /\ Replaced(r, f)

\* The layer was refused (there is nothing to go back to), or configured and
\* then found to have no notification of released frames.
CreateFails(f) ==
    /\ pool = NONE /\ PixelOf[f] # BUTT
    /\ vo' \in ConfigureFailures(vo, PixelOf[f])
                 \cup {Configured(vo, PixelOf[f]), Disabled(Configured(vo, PixelOf[f]))}
    /\ Absent

\* ARGB8888 and XRGB8888 are one pixel format.
FormatOnly(f) ==
    /\ phase = "idle" /\ pool # NONE /\ f # fmt
    /\ PixelOf[f] = PixelOf[fmt] /\ ~failed
    /\ fmt' = f
    /\ UNCHANGED <<pool, cached, last, failed, dirty, sync, lvgl, phase, draw,
                   content, vo, drawn, lost>>

\* k230_display_reconfigure is called.  Where it finds no memory for a second
\* set of buffers it frees what it has got, and nothing changes.
MayReconfigure(f) ==
    /\ phase = "idle" /\ pool # NONE /\ f # fmt
    /\ PixelOf[f] # BUTT /\ (PixelOf[f] # PixelOf[fmt] \/ failed)

Reconfigure(r, f) ==
    /\ MayReconfigure(f) /\ r # pool
    /\ Replaced(r, f)

\* A timer that was paused runs again.
TimerResumed == timer \/ failed

\* VO refuses the candidate and takes the old configuration back; the last
\* frame is pushed again.
RolledBack(f, pushed) ==
    /\ MayReconfigure(f)
    /\ \E v \in ConfigureFailures(vo, PixelOf[f]) :
         LET restored == Configured(v, PixelOf[fmt])
         IN  vo' = IF last # NONE /\ pushed THEN Push(restored, Frame(last)) ELSE restored
    /\ timer' = TimerResumed
    /\ failed' = FALSE
    /\ UNCHANGED <<pool, fmt, cached, last, dirty, sync, invalid, phase, draw,
                   content, drawn, lost>>

\* VO refuses that as well: the refresh is paused.
RollbackFails(f) ==
    /\ MayReconfigure(f)
    /\ \E v \in ConfigureFailures(vo, PixelOf[f]) :
         vo' \in ConfigureFailures(v, PixelOf[fmt])
    /\ failed' = TRUE
    /\ timer' = FALSE
    /\ UNCHANGED <<pool, fmt, cached, last, dirty, sync, invalid, phase, draw,
                   content, drawn, lost>>

\* The result of kd_display_layer_disable is not looked at.
Delete ==
    /\ phase = "idle" /\ pool # NONE
    /\ vo' \in {vo, Disabled(vo)}
    /\ Absent

-----------------------------------------------------------------------------
LvInit ==
    /\ pool = NONE
    /\ fmt = NONE
    /\ cached = FALSE
    /\ last = NONE
    /\ failed = FALSE
    /\ dirty = {}
    /\ sync = [b \in Buf |-> {}]
    /\ timer = FALSE
    /\ invalid = {}
    /\ phase = "idle"
    /\ draw = NONE
    /\ current = [b \in Buf |-> {}]
    /\ unwritten = [b \in Buf |-> {}]
    /\ vo = [on |-> FALSE, pix |-> BUTT, shown |-> NONE, pending |-> NONE]
    /\ drawn = {}
    /\ lost = {}

FormatStep(f) ==
    \/ \E r \in Pools : Create(r, f) \/ Reconfigure(r, f)
    \/ \E pushed \in BOOLEAN : RolledBack(f, pushed)
    \/ CreateFails(f) \/ FormatOnly(f) \/ RollbackFails(f)

AreaStep(a) ==
    \/ Invalidate(a) \/ FlushArea(a) \/ FlushDropped(a)
    \/ \E pushed \in BOOLEAN : FlushLast(a, pushed)

LvNext ==
    \/ \E f \in Formats : FormatStep(f)
    \/ \E busy \in SUBSET Buf : RenderStart(busy)
    \/ \E a \in Areas : AreaStep(a)
    \/ WaitReturns \/ WaitFails \/ Refresh \/ Delete

\* The panel is refreshed as long as it has a frame to take, and a wait ends
\* when VO has released its frame.
LvSpec == LvInit /\ [][LvNext]_lvVars /\ WF_lvVars(Refresh) /\ WF_lvVars(WaitReturns)

-----------------------------------------------------------------------------
(* Properties.                                                             *)

\* The buffers VO shows or is about to show are left alone: LVGL never draws into
\* one (prepare_draw_buffer), whatever was pushed, dropped, refused or restored,
\* and while the display exists none is freed, however a change of the format
\* ends (k230_display_reconfigure keeps the old buffers until VO has accepted the
\* new ones).
HeldIsLeftAlone ==
    /\ phase = "drawing" => Frame(draw) \notin Held
    /\ pool # NONE => Held \subseteq {pool} \X Buf

\* The frame pushed last holds, in memory, what was rendered last in every row
\* of the screen, though each buffer sees only some of the frames: sync_y1..
\* sync_y2 brings a buffer up to date before it is drawn into.  Rows of a frame
\* dropped in flush_cb are excepted until they are rendered again.
FramesAreCurrent ==
    phase = "idle" /\ last # NONE =>
        Rows \ lost \subseteq current[last] /\ unwritten[last] = {}

\* The refresh follows the layer: frames are rendered only while it is on and
\* has the pixel format of the buffers (a failed rollback pauses the refresh, also
\* when LVGL starts it), and what LVGL was told to render, before or during a
\* pause, is on its way once the layer is configured again.
RefreshFollowsLayer ==
    /\ phase \in {"waiting", "drawing"} => vo.on /\ vo.pix = PixelOf[fmt]
    /\ phase = "idle" /\ invalid # {} /\ ~failed => timer

\* A render that waits for a buffer gets one, if the last frame went to VO.
RenderProceeds ==
    (phase = "waiting" /\ (last = NONE \/ Frame(last) \in Held)) ~> (phase # "waiting")

\* A render that waits for a buffer gets one: with three buffers, displayed,
\* pending and drawing (the comment on buffer[3]), one is always released.
EveryRenderProceeds == (phase = "waiting") ~> (phase # "waiting")
=============================================================================
