-------------------------- MODULE LvDisplayProofs ---------------------------
(***************************************************************************)
(* What LvDisplay promises, for every height of the screen and every set   *)
(* of colour formats.                                                      *)
(*                                                                         *)
(* The frame pushed last is current because every other buffer knows what  *)
(* it has missed: the inductive invariant says of each buffer, not only of *)
(* the last, that a row which is not current in it is among the rows it    *)
(* will be given, was rendered for the frame at hand, or was lost.         *)
(***************************************************************************)
EXTENDS LvDisplay, TLAPS

RowSets == [Buf -> SUBSET Rows]
Frames == Pools \X Buf
Pixels == {PixelOf[f] : f \in Formats} \cup {BUTT}
Layers == [on : BOOLEAN, pix : Pixels, shown : Frames \cup {NONE},
           pending : Frames \cup {NONE}]
HeldBy(v) == {v.shown, v.pending} \ {NONE}

LvTypes ==
    /\ pool \in Pools \cup {NONE}
    /\ last \in Buf \cup {NONE}
    /\ cached \in BOOLEAN /\ failed \in BOOLEAN /\ timer \in BOOLEAN
    /\ dirty \subseteq Rows /\ drawn \subseteq Rows /\ lost \subseteq Rows
    /\ invalid \subseteq SUBSET Rows
    /\ sync \in RowSets /\ current \in RowSets /\ unwritten \in RowSets
    /\ phase \in {"idle", "waiting", "drawing", "aborted"}
    /\ vo \in Layers

\* Where the thread is, and what it has then.
PhaseOK ==
    /\ phase # "idle" => pool # NONE
    /\ phase \in {"waiting", "drawing"} => draw \in Buf /\ draw # last /\ ~failed
    /\ phase # "drawing" => drawn = {}

\* The layer and the frames it holds.
LayerOK ==
    /\ pool # NONE => fmt \in Formats
    /\ pool # NONE => Held \subseteq {pool} \X Buf
    /\ pool # NONE /\ ~failed => vo.on /\ vo.pix = PixelOf[fmt]
    /\ phase = "drawing" => Frame(draw) \notin Held

\* The refresh timer.
TimerOK ==
    /\ timer => ~failed /\ pool # NONE
    /\ pool = NONE => invalid = {}
    /\ phase = "idle" /\ invalid # {} /\ ~failed => timer

\* The rows that need not be current in the buffer b.
Missed(b) ==
    lost \cup (IF b = last THEN {} ELSE sync[b])
         \cup (IF phase = "drawing" /\ b = draw THEN {} ELSE drawn)

\* What the buffers hold.
ContentOK ==
    /\ last # NONE => \A b \in Buf : Rows \ Missed(b) \subseteq current[b]
    /\ last = NONE =>
         /\ \A b \in Buf : sync[b] = {}
         /\ pool # NONE => Rows \subseteq lost \cup drawn \cup UNION invalid
    /\ phase = "drawing" =>
         drawn \subseteq dirty /\ drawn \subseteq current[draw] /\ sync[draw] = {}

\* What has not reached the memory.
CacheOK ==
    /\ cached =>
         \A b \in Buf : unwritten[b] \subseteq IF phase = "drawing" /\ b = draw THEN dirty ELSE {}
    /\ last # NONE => unwritten[last] = {}

LvInv == LvTypes /\ PhaseOK /\ LayerOK /\ TimerOK /\ ContentOK /\ CacheOK

-----------------------------------------------------------------------------
(* Ranges of rows, and VO.                                                 *)

\* A range holds what it was made of (mark_dirty_rows, and the rows that
\* flush_cb notes for the other buffers).
LEMMA SpanHolds ==
    ASSUME NEW S \in SUBSET Rows
    PROVE  S \subseteq Span(S) /\ Span(S) \in SUBSET Rows
BY LvAssumption DEF LvAssumption, Span, Rows

\* An area LVGL draws is a set of rows.
LEMMA AreasAreRows ==
    ASSUME NEW a \in Areas
    PROVE  a \in SUBSET Rows
BY DEF Areas, Span

\* The frame of a buffer is a frame, and no other buffer's.
LEMMA FrameIs ==
    ASSUME pool \in Pools, NEW b \in Buf
    PROVE  /\ Frame(b) \in Frames /\ Frame(b) \in {pool} \X Buf
           /\ Frame(b) # NONE
BY LvAssumption DEF LvAssumption, Frame, Frames

\* A disabled layer holds no frame (kd_display_layer_disable).
LEMMA DisabledHolds ==
    ASSUME NEW v \in Layers
    PROVE  Disabled(v) \in Layers /\ HeldBy(Disabled(v)) = {}
BY DEF Disabled, Layers, HeldBy

\* A configured layer is on, has the pixel format and holds no frame
\* (k230_display_configure_osd).
LEMMA ConfiguredHolds ==
    ASSUME NEW v \in Layers, NEW x \in Pixels
    PROVE  /\ Configured(v, x) \in Layers
           /\ Configured(v, x).on /\ Configured(v, x).pix = x
           /\ HeldBy(Configured(v, x)) = {}
BY DEF Configured, Disabled, Layers, HeldBy

\* A layer that was not configured holds no frame it did not hold.
LEMMA FailureHolds ==
    ASSUME NEW v \in Layers, NEW x \in Pixels,
           NEW w \in ConfigureFailures(v, x)
    PROVE  w \in Layers /\ HeldBy(w) \subseteq HeldBy(v)
BY DEF ConfigureFailures, Disabled, Layers, HeldBy

\* A pushed frame is the only one that comes in.
LEMMA PushHolds ==
    ASSUME NEW v \in Layers, NEW f \in Frames
    PROVE  /\ Push(v, f) \in Layers
           /\ HeldBy(Push(v, f)) \subseteq HeldBy(v) \cup {f}
           /\ Push(v, f).on = v.on /\ Push(v, f).pix = v.pix
BY DEF Push, Layers, HeldBy

-----------------------------------------------------------------------------
(* The steps.                                                              *)

\* The panel takes the frame that waits.
LEMMA RefreshStep ==
    ASSUME LvInv, Refresh
    PROVE  LvInv'
<1> USE DEF LvInv, Refresh, lvgl, content
<1>1. vo' \in Layers /\ Held' \subseteq Held
  BY DEF LvTypes, Layers, Held
<1>2. vo'.on = vo.on /\ vo'.pix = vo.pix
  BY DEF LvTypes, Layers
<1>3. LvTypes'
  BY <1>1 DEF LvTypes
<1>4. PhaseOK' /\ TimerOK'
  BY DEF PhaseOK, TimerOK
<1>5. LayerOK'
  BY <1>1, <1>2 DEF LayerOK, Frame
<1>6. ContentOK' /\ CacheOK'
  BY DEF ContentOK, CacheOK, Missed
<1> QED BY <1>3, <1>4, <1>5, <1>6

\* A free buffer gets the rows it has missed and is drawn into.
LEMMA PreparedStep ==
    ASSUME LvInv, NEW b \in Buf, b # last, Frame(b) \notin Held,
           phase \in {"idle", "waiting"}, pool # NONE, ~failed,
           Prepared(b), timer' \in BOOLEAN, timer' => timer,
           UNCHANGED <<pool, fmt, cached, last, failed, dirty, invalid, vo, lost>>
    PROVE  LvInv'
<1> USE DEF LvInv
<1> DEFINE copy == IF last = NONE THEN {} ELSE sync[b]
<1>1. copy \in SUBSET Rows /\ drawn = {} /\ drawn' = {}
  BY DEF LvTypes, RowSets, PhaseOK, Prepared
<1>2. /\ phase' = "drawing" /\ draw' = b
      /\ sync' = [sync EXCEPT ![b] = @ \ copy]
      /\ current' = [current EXCEPT ![b] = (@ \ copy) \cup {r \in copy : r \in current[last]}]
      /\ unwritten' = [unwritten EXCEPT ![b] = @ \ copy]
  BY DEF Prepared
<1>3. sync[b] = copy
  BY DEF ContentOK
<1> HIDE DEF copy
<1>4. LvTypes'
  BY <1>1, <1>2 DEF LvTypes, RowSets
<1>5. PhaseOK'
  BY <1>1, <1>2 DEF PhaseOK
<1>6. LayerOK'
  BY <1>2 DEF LayerOK, Frame, Held
<1>7. TimerOK'
  BY <1>2 DEF TimerOK
<1>8. sync'[b] = {}
  BY <1>2, <1>3 DEF LvTypes, RowSets
<1>9. ContentOK'
  <2>1. ASSUME last # NONE, NEW c \in Buf, NEW r \in Rows, r \notin Missed(c)'
        PROVE  r \in current'[c]
    <3>1. r \notin lost /\ r \in current[last]
      BY <1>1, <2>1 DEF Missed, ContentOK, LvTypes
    <3>2. CASE c = b
      <4>1. r \in copy \/ r \in current[b]
        BY <1>1, <1>3, <2>1, <3>1 DEF Missed, ContentOK
      <4> QED BY <1>2, <3>1, <3>2, <4>1 DEF LvTypes, RowSets
    <3>3. CASE c # b
      <4>1. sync'[c] = sync[c] /\ current'[c] = current[c]
        BY <1>2, <3>3 DEF LvTypes, RowSets
      <4>2. r \notin Missed(c)
        BY <1>1, <2>1, <4>1 DEF Missed
      <4> QED BY <2>1, <4>1, <4>2 DEF ContentOK
    <3> QED BY <3>2, <3>3
  <2>2. ASSUME last = NONE
        PROVE  /\ \A c \in Buf : sync'[c] = {}
               /\ Rows \subseteq lost' \cup drawn' \cup UNION invalid'
    BY <1>1, <1>2, <1>8, <2>2 DEF ContentOK, LvTypes, RowSets
  <2> QED BY <1>1, <1>2, <1>8, <2>1, <2>2 DEF ContentOK
<1>10. CacheOK'
  BY <1>1, <1>2 DEF CacheOK, LvTypes, RowSets
<1> QED BY <1>4, <1>5, <1>6, <1>7, <1>9, <1>10

\* LVGL starts a frame: a free buffer is taken, or the thread waits.
LEMMA RenderStartStep ==
    ASSUME LvInv, NEW busy \in SUBSET Buf, RenderStart(busy)
    PROVE  LvInv'
<1> USE DEF LvInv, RenderStart
<1>1. pool # NONE /\ ~failed /\ timer' = FALSE /\ phase = "idle"
  BY DEF TimerOK
<1>2. CASE \E b \in Free(busy) : Prepared(b)
  <2>1. PICK b \in Free(busy) : Prepared(b)
    BY <1>2
  <2>2. b \in Buf /\ b # last /\ Frame(b) \notin Held
    BY DEF Free
  <2> QED BY <1>1, <2>1, <2>2, PreparedStep
<1>3. CASE phase' = "waiting" /\ draw' = Await /\ UNCHANGED <<sync, content, drawn>>
  <2>1. Await \in Buf /\ Await # last
    BY LvAssumption DEF Await, Buf, LvAssumption
  <2>2. LvTypes' /\ PhaseOK'
    BY <1>1, <1>3, <2>1 DEF LvTypes, PhaseOK, content
  <2>3. LayerOK' /\ TimerOK'
    BY <1>1, <1>3 DEF LayerOK, TimerOK, Frame, Held
  <2>4. ContentOK' /\ CacheOK'
    BY <1>1, <1>3 DEF ContentOK, CacheOK, Missed, content
  <2> QED BY <2>2, <2>3, <2>4
<1> QED BY <1>2, <1>3

\* The wait is over.
LEMMA WaitReturnsStep ==
    ASSUME LvInv, WaitReturns
    PROVE  LvInv'
<1>1. draw \in Buf /\ draw # last /\ Frame(draw) \notin Held /\ pool # NONE /\ ~failed
  BY DEF LvInv, PhaseOK, WaitReturns, Released
<1>2. timer' = timer /\ timer \in BOOLEAN /\ UNCHANGED invalid
  BY DEF WaitReturns, lvgl, LvInv, LvTypes
<1> QED BY <1>1, <1>2, PreparedStep DEF WaitReturns

\* The wait fails, and the thread ends.
LEMMA WaitFailsStep ==
    ASSUME LvInv, WaitFails
    PROVE  LvInv'
<1> USE DEF LvInv, WaitFails, lvgl, content
<1>1. LvTypes' /\ PhaseOK' /\ TimerOK'
  BY DEF LvTypes, PhaseOK, TimerOK
<1>2. LayerOK'
  BY DEF LayerOK, Frame, Held
<1>3. ContentOK' /\ CacheOK'
  BY DEF ContentOK, CacheOK, Missed
<1> QED BY <1>1, <1>2, <1>3

\* What an area drawn into the buffer at hand changes.
LEMMA DrawingIs ==
    ASSUME LvInv, NEW a \in SUBSET Rows, phase = "drawing"
    PROVE  /\ draw \in Buf /\ draw # last /\ pool \in Pools \ {NONE} /\ ~failed
           /\ Marked(a) \in SUBSET Rows /\ dirty \cup a \subseteq Marked(a)
           /\ DrawnWith(a) \in RowSets /\ QueuedWith(a) \in RowSets
           /\ DrawnWith(a)[draw] = current[draw] \cup a
           /\ \A b \in Buf \ {draw} : DrawnWith(a)[b] = current[b] \ a
           /\ QueuedWith(a)[draw] = unwritten[draw] \cup a
           /\ \A b \in Buf \ {draw} : QueuedWith(a)[b] = unwritten[b]
<1>1. draw \in Buf /\ draw # last /\ pool \in Pools \ {NONE} /\ ~failed
  BY DEF LvInv, LvTypes, PhaseOK
<1>2. Marked(a) \in SUBSET Rows /\ dirty \cup a \subseteq Marked(a)
  BY SpanHolds DEF Marked, LvInv, LvTypes
<1>3. DrawnWith(a) \in RowSets /\ QueuedWith(a) \in RowSets
  BY DEF DrawnWith, QueuedWith, RowSets, LvInv, LvTypes
<1>4. /\ DrawnWith(a)[draw] = current[draw] \cup a
      /\ \A b \in Buf \ {draw} : DrawnWith(a)[b] = current[b] \ a
  BY <1>1 DEF DrawnWith
<1>5. /\ QueuedWith(a)[draw] = unwritten[draw] \cup a
      /\ \A b \in Buf \ {draw} : QueuedWith(a)[b] = unwritten[b]
  BY <1>1 DEF QueuedWith, LvInv, LvTypes, RowSets
<1> QED BY <1>1, <1>2, <1>3, <1>4, <1>5

\* An area is drawn and noted.
LEMMA FlushAreaStep ==
    ASSUME LvInv, NEW a \in Areas, FlushArea(a)
    PROVE  LvInv'
<1> USE DEF LvInv, FlushArea
<1>1. a \in SUBSET Rows
  BY AreasAreRows
<1>2. /\ draw \in Buf /\ draw # last /\ pool \in Pools \ {NONE} /\ ~failed
      /\ dirty' \in SUBSET Rows /\ dirty \cup a \subseteq dirty'
      /\ current' \in RowSets /\ unwritten' \in RowSets
      /\ current'[draw] = current[draw] \cup a
      /\ \A b \in Buf \ {draw} : current'[b] = current[b] \ a
      /\ unwritten'[draw] = unwritten[draw] \cup a
      /\ \A b \in Buf \ {draw} : unwritten'[b] = unwritten[b]
  BY <1>1, DrawingIs
<1>3. LvTypes' /\ PhaseOK' /\ TimerOK'
  BY <1>1, <1>2 DEF LvTypes, PhaseOK, TimerOK
<1>4. LayerOK'
  BY DEF LayerOK, Frame, Held
<1>5. ASSUME last # NONE, NEW b \in Buf
      PROVE  Rows \ Missed(b)' \subseteq current'[b]
  BY <1>1, <1>2, <1>5 DEF ContentOK, Missed
<1>6. ASSUME last = NONE
      PROVE  Rows \subseteq lost' \cup drawn' \cup UNION invalid'
  BY <1>2, <1>6 DEF ContentOK, LvTypes
<1>7. ContentOK'
  BY <1>2, <1>5, <1>6 DEF ContentOK
<1>8. CacheOK'
  BY <1>1, <1>2 DEF CacheOK, LvTypes
<1> QED BY <1>3, <1>4, <1>7, <1>8

\* What flush_dirty_rows leaves in the CPU's cache of a cached buffer: nothing.
LEMMA FlushedIs ==
    ASSUME LvInv, NEW a \in SUBSET Rows, phase = "drawing"
    PROVE  /\ FlushedWith(a) \in RowSets
           /\ cached => \A b \in Buf : FlushedWith(a)[b] = {}
           /\ \A b \in Buf \ {draw} : FlushedWith(a)[b] = unwritten[b]
<1>1. FlushedWith(a) \in RowSets
  BY DrawingIs DEF FlushedWith, RowSets
<1>2. ASSUME NEW b \in Buf \ {draw} PROVE FlushedWith(a)[b] = unwritten[b]
  BY DrawingIs DEF FlushedWith, RowSets
<1>3. ASSUME cached, NEW b \in Buf PROVE FlushedWith(a)[b] = {}
  <2>1. CASE b = draw
    <3>1. FlushedWith(a)[draw] = (unwritten[draw] \cup a) \ Marked(a)
      BY <1>3, DrawingIs DEF FlushedWith, RowSets
    <3> QED BY <1>3, <2>1, <3>1, DrawingIs DEF LvInv, CacheOK
  <2>2. CASE b # draw
    BY <1>2, <1>3, <2>2 DEF LvInv, CacheOK
  <2> QED BY <2>1, <2>2
<1> QED BY <1>1, <1>2, <1>3

\* The frame is dropped: its rows are lost, and the last frame stays what it
\* was.
LEMMA FlushDroppedStep ==
    ASSUME LvInv, NEW a \in Areas, FlushDropped(a)
    PROVE  LvInv'
<1> USE DEF LvInv, FlushDropped
<1>1. a \in SUBSET Rows
  BY AreasAreRows
<1>2. /\ draw \in Buf /\ draw # last /\ pool \in Pools \ {NONE} /\ ~failed
      /\ dirty' \in SUBSET Rows
      /\ current' \in RowSets
      /\ current'[draw] = current[draw] \cup a
      /\ \A b \in Buf \ {draw} : current'[b] = current[b] \ a
  BY <1>1, DrawingIs
<1>3. /\ unwritten' \in RowSets
      /\ cached => \A b \in Buf : unwritten'[b] = {}
      /\ \A b \in Buf \ {draw} : unwritten'[b] = unwritten[b]
  BY <1>1, FlushedIs
<1>4. LvTypes' /\ PhaseOK' /\ TimerOK'
  BY <1>1, <1>2, <1>3 DEF LvTypes, PhaseOK, TimerOK
<1>5. LayerOK'
  BY DEF LayerOK, Held
<1>6. ASSUME last # NONE, NEW b \in Buf
      PROVE  Rows \ Missed(b)' \subseteq current'[b]
  BY <1>1, <1>2, <1>6 DEF ContentOK, Missed
<1>7. ASSUME last = NONE
      PROVE  Rows \subseteq lost' \cup drawn' \cup UNION invalid'
  BY <1>1, <1>2, <1>7 DEF ContentOK
<1>8. ContentOK'
  BY <1>2, <1>6, <1>7 DEF ContentOK
<1>9. CacheOK'
  BY <1>2, <1>3 DEF CacheOK, LvTypes
<1> QED BY <1>4, <1>5, <1>8, <1>9

\* The frame is pushed: it is current, and the others know what they missed.
LEMMA FlushLastStep ==
    ASSUME LvInv, NEW a \in Areas, NEW pushed \in BOOLEAN, FlushLast(a, pushed)
    PROVE  LvInv'
<1> USE DEF LvInv, FlushLast
<1>1. a \in SUBSET Rows
  BY AreasAreRows
<1>2. /\ draw \in Buf /\ draw # last /\ pool \in Pools \ {NONE} /\ ~failed
      /\ dirty \cup a \subseteq Marked(a) /\ Marked(a) \in SUBSET Rows
      /\ current' \in RowSets
      /\ current'[draw] = current[draw] \cup a
      /\ \A b \in Buf \ {draw} : current'[b] = current[b] \ a
  BY <1>1, DrawingIs
<1>3. unwritten' \in RowSets /\ \A b \in Buf : unwritten'[b] = {}
  BY <1>1, FlushedIs DEF RowSets
<1>4. /\ sync' \in RowSets
      /\ \A b \in Buf \ {draw} : sync[b] \cup dirty \cup a \subseteq sync'[b]
  BY <1>1, <1>2, SpanHolds DEF SyncWith, LvTypes, RowSets
<1>5. /\ vo' \in Layers /\ Held' \subseteq Held \cup {Frame(draw)}
      /\ vo'.on = vo.on /\ vo'.pix = vo.pix
  BY <1>2, FrameIs, PushHolds DEF LvTypes, Held, HeldBy
<1>6. LvTypes' /\ PhaseOK' /\ TimerOK'
  BY <1>1, <1>2, <1>3, <1>4, <1>5 DEF LvTypes, PhaseOK, TimerOK
<1>7. LayerOK'
  BY <1>2, <1>5, FrameIs DEF LayerOK
<1>8. ASSUME NEW b \in Buf, NEW r \in Rows, r \notin Missed(b)'
      PROVE  r \in current'[b]
  <2>1. last' = draw /\ drawn' = {} /\ lost' = lost \ (drawn \cup a)
    OBVIOUS
  <2>2. drawn \subseteq dirty /\ drawn \subseteq current[draw] /\ sync[draw] = {}
    BY DEF ContentOK
  <2>3. r \in drawn \/ r \in a \/ r \notin lost
    BY <1>8, <2>1 DEF Missed
  <2>4. r \notin lost /\ last = NONE => r \in drawn \cup a
    BY <1>2 DEF ContentOK
  <2>5. CASE b = draw
    <3>1. r \notin lost /\ r \notin drawn /\ last # NONE => r \in current[draw]
      BY <1>2, <2>2 DEF ContentOK, Missed
    <3> QED BY <1>2, <2>2, <2>3, <2>4, <2>5, <3>1
  <2>6. CASE b # draw
    <3>1. r \notin sync'[b] /\ r \notin drawn /\ r \notin a /\ r \notin sync[b]
      BY <1>4, <1>8, <2>1, <2>2, <2>6 DEF Missed
    <3>2. r \in current[b]
      BY <2>3, <2>4, <2>6, <3>1 DEF ContentOK, Missed
    <3> QED BY <1>2, <2>6, <3>1, <3>2
  <2> QED BY <2>5, <2>6
<1>9. ContentOK'
  BY <1>2, <1>8, LvAssumption DEF ContentOK, LvAssumption
<1>10. CacheOK'
  BY <1>2, <1>3 DEF CacheOK
<1> QED BY <1>6, <1>7, <1>9, <1>10

\* An area is to be rendered.
LEMMA InvalidateStep ==
    ASSUME LvInv, NEW a \in Areas, Invalidate(a)
    PROVE  LvInv'
<1> USE DEF LvInv, Invalidate, content
<1>1. a \in SUBSET Rows
  BY AreasAreRows
<1>2. LvTypes' /\ PhaseOK' /\ TimerOK'
  BY <1>1 DEF LvTypes, PhaseOK, TimerOK, TimerRequested
<1>3. LayerOK'
  BY DEF LayerOK, Frame, Held
<1>4. ContentOK' /\ CacheOK'
  BY DEF ContentOK, CacheOK, Missed
<1> QED BY <1>2, <1>3, <1>4

\* New buffers take the place of the old ones.
LEMMA ReplacedStep ==
    ASSUME LvInv, phase = "idle", NEW r \in Pools, NEW f \in Formats, Replaced(r, f)
    PROVE  LvInv'
<1> USE DEF LvInv, Replaced
<1>1. /\ vo' \in Layers /\ vo'.on /\ vo'.pix = PixelOf[f] /\ Held' = {}
  BY ConfiguredHolds DEF LvTypes, Pixels, Held, HeldBy
<1>2. drawn' = {} /\ phase' = "idle"
  BY DEF PhaseOK
<1>3. LvTypes'
  BY <1>1, <1>2 DEF LvTypes, RowSets
<1>4. PhaseOK'
  BY <1>2 DEF PhaseOK
<1>5. LayerOK'
  BY <1>1, <1>2 DEF LayerOK
<1>6. TimerOK'
  BY LvAssumption DEF TimerOK, LvAssumption, Pools, Buf
<1>7. ContentOK' /\ CacheOK'
  BY <1>2 DEF ContentOK, CacheOK
<1> QED BY <1>3, <1>4, <1>5, <1>6, <1>7

\* A display is created, or not, or deleted.
LEMMA CreateStep ==
    ASSUME LvInv, NEW r \in Pools, NEW f \in Formats, Create(r, f)
    PROVE  LvInv'
<1>1. phase = "idle" /\ Replaced(r, f)
  BY DEF LvInv, PhaseOK, Create
<1> QED BY <1>1, ReplacedStep

LEMMA AbsentStep ==
    ASSUME LvInv, phase = "idle", vo' \in Layers, Absent
    PROVE  LvInv'
<1> USE DEF LvInv, Absent
<1>1. drawn' = {} /\ phase' = "idle"
  BY DEF PhaseOK
<1>2. LvTypes'
  BY <1>1 DEF LvTypes, RowSets
<1>3. PhaseOK' /\ LayerOK' /\ TimerOK'
  BY <1>1 DEF PhaseOK, LayerOK, TimerOK
<1>4. ContentOK' /\ CacheOK'
  BY <1>1 DEF ContentOK, CacheOK
<1> QED BY <1>2, <1>3, <1>4

LEMMA CreateFailsStep ==
    ASSUME LvInv, NEW f \in Formats, CreateFails(f)
    PROVE  LvInv'
<1>1. vo \in Layers /\ PixelOf[f] \in Pixels /\ phase = "idle"
  BY DEF LvInv, LvTypes, PhaseOK, CreateFails, Pixels
<1>2. vo' \in Layers
  BY <1>1, FailureHolds, ConfiguredHolds, DisabledHolds DEF CreateFails
<1> QED BY <1>1, <1>2, AbsentStep DEF CreateFails

LEMMA DeleteStep ==
    ASSUME LvInv, Delete
    PROVE  LvInv'
<1>1. vo' \in Layers
  BY DisabledHolds DEF LvInv, LvTypes, Delete
<1> QED BY <1>1, AbsentStep DEF Delete

\* Another colour format of the same pixel format.
LEMMA FormatOnlyStep ==
    ASSUME LvInv, NEW f \in Formats, FormatOnly(f)
    PROVE  LvInv'
<1> USE DEF LvInv, FormatOnly, lvgl, content
<1>1. LvTypes' /\ PhaseOK' /\ TimerOK'
  BY DEF LvTypes, PhaseOK, TimerOK
<1>2. LayerOK'
  BY DEF LayerOK, Frame, Held
<1>3. ContentOK' /\ CacheOK'
  BY DEF ContentOK, CacheOK, Missed
<1> QED BY <1>1, <1>2, <1>3

\* VO takes the old configuration back: it holds the last frame, or none.
LEMMA RolledBackStep ==
    ASSUME LvInv, NEW f \in Formats, NEW pushed \in BOOLEAN, RolledBack(f, pushed)
    PROVE  LvInv'
<1> USE DEF LvInv, RolledBack, MayReconfigure, content
<1>1. /\ pool \in Pools \ {NONE} /\ phase = "idle" /\ drawn = {}
      /\ PixelOf[f] \in Pixels /\ PixelOf[fmt] \in Pixels
  BY DEF LvTypes, PhaseOK, LayerOK, Pixels
<1>2. PICK v \in ConfigureFailures(vo, PixelOf[f]) :
        vo' = IF last # NONE /\ pushed THEN Push(Configured(v, PixelOf[fmt]), Frame(last))
                                      ELSE Configured(v, PixelOf[fmt])
  OBVIOUS
<1> DEFINE restored == Configured(v, PixelOf[fmt])
<1>3. /\ restored \in Layers /\ restored.on /\ restored.pix = PixelOf[fmt]
      /\ HeldBy(restored) = {}
  BY <1>1, FailureHolds, ConfiguredHolds DEF LvTypes
<1> HIDE DEF restored
<1>4. last # NONE => Frame(last) \in Frames /\ Frame(last) \in {pool} \X Buf
  BY <1>1, FrameIs DEF LvTypes
<1>5. /\ vo' \in Layers /\ vo'.on /\ vo'.pix = PixelOf[fmt]
      /\ HeldBy(vo') \subseteq {pool} \X Buf
  <2>1. CASE last # NONE /\ pushed
    <3>1. vo' = Push(restored, Frame(last))
      BY <1>2, <2>1 DEF restored
    <3> QED BY <1>3, <1>4, <2>1, <3>1, PushHolds
  <2>2. CASE ~(last # NONE /\ pushed)
    BY <1>2, <1>3, <2>2 DEF restored
  <2> QED BY <2>1, <2>2
<1>6. timer' \in BOOLEAN
  BY DEF TimerResumed, LvTypes
<1>7. LvTypes' /\ PhaseOK'
  BY <1>5, <1>6 DEF LvTypes, PhaseOK
<1>8. TimerOK'
  BY <1>1 DEF TimerOK, TimerResumed
<1>9. LayerOK'
  BY <1>1, <1>5 DEF LayerOK, Held, HeldBy
<1>10. ContentOK' /\ CacheOK'
  BY DEF ContentOK, CacheOK, Missed
<1> QED BY <1>7, <1>8, <1>9, <1>10

\* VO does not: the refresh is paused.
LEMMA RollbackFailsStep ==
    ASSUME LvInv, NEW f \in Formats, RollbackFails(f)
    PROVE  LvInv'
<1> USE DEF LvInv, RollbackFails, MayReconfigure, content
<1>1. /\ pool # NONE /\ phase = "idle"
      /\ PixelOf[f] \in Pixels /\ PixelOf[fmt] \in Pixels
  BY DEF LvTypes, LayerOK, Pixels
<1>2. PICK v \in ConfigureFailures(vo, PixelOf[f]) :
        vo' \in ConfigureFailures(v, PixelOf[fmt])
  OBVIOUS
<1>3. v \in Layers /\ HeldBy(v) \subseteq HeldBy(vo)
  BY <1>1, FailureHolds DEF LvTypes
<1>4. vo' \in Layers /\ HeldBy(vo') \subseteq HeldBy(vo)
  BY <1>1, <1>2, <1>3, FailureHolds
<1>5. LvTypes' /\ PhaseOK' /\ TimerOK'
  BY <1>1, <1>4 DEF LvTypes, PhaseOK, TimerOK
<1>6. LayerOK'
  BY <1>1, <1>4 DEF LayerOK, Held, HeldBy
<1>7. ContentOK' /\ CacheOK'
  BY DEF ContentOK, CacheOK, Missed
<1> QED BY <1>5, <1>6, <1>7

-----------------------------------------------------------------------------
(* The theorems.                                                           *)

LEMMA InitHolds ==
    ASSUME LvInit
    PROVE  LvInv
<1> USE DEF LvInit, LvInv
<1>1. LvTypes
  BY DEF LvTypes, RowSets, Layers, Pixels
<1>2. PhaseOK /\ LayerOK /\ TimerOK
  BY DEF PhaseOK, LayerOK, TimerOK
<1>3. ContentOK /\ CacheOK
  BY DEF ContentOK, CacheOK
<1> QED BY <1>1, <1>2, <1>3

LEMMA NextHolds ==
    ASSUME LvInv, [LvNext]_lvVars
    PROVE  LvInv'
<1>1. ASSUME NEW f \in Formats, FormatStep(f)
      PROVE  LvInv'
  <2>1. ASSUME NEW r \in Pools, Reconfigure(r, f)
        PROVE  LvInv'
    BY <2>1, ReplacedStep DEF Reconfigure, MayReconfigure
  <2> QED BY <1>1, <2>1, CreateStep, RolledBackStep, CreateFailsStep,
             FormatOnlyStep, RollbackFailsStep DEF FormatStep
<1>2. ASSUME NEW a \in Areas, AreaStep(a)
      PROVE  LvInv'
  BY <1>2, InvalidateStep, FlushAreaStep, FlushDroppedStep, FlushLastStep DEF AreaStep
<1>3. ASSUME UNCHANGED lvVars
      PROVE  LvInv'
  <2> USE <1>3 DEF LvInv, lvVars
  <2>1. LvTypes' /\ PhaseOK' /\ TimerOK'
    BY DEF LvTypes, PhaseOK, TimerOK
  <2>2. LayerOK'
    BY DEF LayerOK, Frame, Held
  <2>3. ContentOK' /\ CacheOK'
    BY DEF ContentOK, CacheOK, Missed
  <2> QED BY <2>1, <2>2, <2>3
<1> QED BY <1>1, <1>2, <1>3, RenderStartStep, WaitReturnsStep, WaitFailsStep,
           RefreshStep, DeleteStep DEF LvNext

\* Every buffer knows what it has missed, the layer is what the buffers are
\* made for, and the timer runs when there is something to render.
THEOREM DisplayInvariance == LvSpec => []LvInv
<1>1. LvInit => LvInv
  BY InitHolds
<1>2. LvInv /\ [LvNext]_lvVars => LvInv'
  BY NextHolds
<1> QED BY <1>1, <1>2, PTL DEF LvSpec

\* The frame pushed last is what was rendered last in every row of a screen of
\* any height, through skipped, refused and restored frames (flush_cb,
\* prepare_draw_buffer).
THEOREM PushedIsCurrent == LvSpec => []FramesAreCurrent
<1>1. LvInv => FramesAreCurrent
  BY DEF LvInv, LvTypes, RowSets, PhaseOK, ContentOK, CacheOK, Missed, FramesAreCurrent
<1> QED BY <1>1, DisplayInvariance, PTL

\* The buffers VO holds are neither drawn into (prepare_draw_buffer) nor freed
\* (k230_display_reconfigure).
THEOREM HeldIsSafe == LvSpec => []HeldIsLeftAlone
<1>1. LvInv => HeldIsLeftAlone
  BY DEF LvInv, LayerOK, HeldIsLeftAlone
<1> QED BY <1>1, DisplayInvariance, PTL

\* Nothing is rendered for a layer that is off or of another pixel format, and
\* nothing that was asked for is forgotten by the pause (event_cb).
THEOREM RefreshIsRight == LvSpec => []RefreshFollowsLayer
<1>1. LvInv => RefreshFollowsLayer
  BY DEF LvInv, PhaseOK, LayerOK, TimerOK, RefreshFollowsLayer
<1> QED BY <1>1, DisplayInvariance, PTL
=============================================================================
