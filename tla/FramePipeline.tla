----------------------------- MODULE FramePipeline -----------------------------
(***************************************************************************)
(* The frames of one camera from its RTSP stream to cam_queue              *)
(* (gstreamer_threading.py): on_new_sample runs in the streaming thread of *)
(* the first pipeline and keeps a pre-roll while the camera does not feed; *)
(* on_new_sample_decode runs in the streaming thread of the decoder and    *)
(* labels what it delivers; feed_detecting, extend_timer and stop_feeding  *)
(* come from other threads at any moment. detecting_lock protects the      *)
(* pre-roll and the reset of feeding_count, metadata_lock the frame times; *)
(* is_feeding, detecting_txn and the increment of feeding_count for a live *)
(* frame are under no lock.                                                *)
(*                                                                         *)
(* A frame is its number, which is also its pts and its time: one frame    *)
(* per tick. Every Gop-th frame is a keyframe. What the cam_queue then     *)
(* does is in Detector, who may call the three methods in StreamCapture.   *)
(***************************************************************************)
EXTENDS Naturals, FiniteSets, Sequences, SequencesExt

CONSTANTS MaxFrame,  (* bound: frames the camera sends                       *)
          MaxTxn,    (* bound: sessions                                      *)
          MaxStops,  (* bound: calls of stop_feeding at a time               *)
          Gop,       (* distance of keyframes                                *)
          Window,    (* PRE_DETECTING_SEC in frames                          *)
          Budget,    (* framerate * TIMER_DETECT                             *)
          StoreMax   (* entries metadata_store keeps (200)                   *)

ASSUME FrameAssumption ==
  /\ MaxFrame \in Nat /\ MaxTxn \in Nat /\ MaxStops \in Nat /\ Budget \in Nat
  /\ Gop \in Nat \ {0}
  /\ Window \in Nat /\ StoreMax \in Nat /\ StoreMax > Window + 1

Frames == 1..MaxFrame
Txns == 0..MaxTxn          (* 0 is the transaction None                      *)
IsKey(f) == f % Gop = 1 % Gop

VARIABLES
  is_feeding, detecting_txn, running, (* running = framerate * running_seconds *)
  clearing,          (* calls of stop_feeding yet to clear metadata_store    *)
  feeding_count,
  detecting_buffer,  (* the pre-roll                                         *)
  metadata_store,    (* the frames whose time is known                       *)
  now,               (* the last frame sampled                               *)
  pc, counted,       (* on_new_sample: its position; the count it read       *)
  decoder,           (* frames pushed to decode_appsrc, not decoded yet      *)
  dpc, decoded,      (* on_new_sample_decode: its position and frame         *)
  cam_queue,         (* entries put so far, [frame, txn]                     *)
  fed,               (* history: the session each frame was pushed in, or 0  *)
  pushed,            (* history: frames pushed since the last reset          *)
  last,              (* history: the frame pushed last                       *)
  raced,             (* history: the last reset came while a live frame was
                        between its test of is_feeding and its count         *)
  lowered,           (* history: a second opening reset the limit of a live
                        frame that had passed it                             *)
  late,              (* history: frames on their way when their session ended
                        or a second one was opened over it                   *)
  lost,              (* history: pre-roll frames whose time a stop erased    *)
  broken             (* history: pushed frames were skipped, up to a keyframe *)

session == <<is_feeding, detecting_txn, running, clearing>>
sampler == <<now, pc, counted>>
delivery == <<dpc, decoded, cam_queue>>
history == <<fed, pushed, last, raced, lowered, late, lost, broken>>
vars == <<session, feeding_count, detecting_buffer, metadata_store, sampler,
          decoder, delivery, history>>

Init ==
  /\ is_feeding = FALSE /\ detecting_txn = 0 /\ running = 0 /\ clearing = 0
  /\ feeding_count = 0 /\ detecting_buffer = <<>> /\ metadata_store = {}
  /\ now = 0 /\ pc = "idle" /\ counted = 0
  /\ decoder = <<>> /\ dpc = "idle" /\ decoded = 0 /\ cam_queue = {}
  /\ fed = [f \in Frames |-> 0] /\ pushed = 0 /\ last = 0
  /\ raced = FALSE /\ lowered = FALSE /\ late = {} /\ lost = {} /\ broken = FALSE

\* The streaming thread works on a live frame of a session.
Live == pc \in {"preroll", "test", "caption", "push", "count", "store"}

--------------------------------------------------------------------------------
(* The session's methods, in other threads. *)

\* The frames pushed to the decoder and not put yet.
OnTheirWay == ToSet(decoder) \union (IF dpc = "idle" THEN {} ELSE {decoded})

\* feed_detecting, under detecting_lock. Its test of is_feeding came before, outside the
\* lock: another caller may have opened a session since, and a stop_feeding may not have
\* cleared metadata_store yet.
Begin ==
  /\ detecting_txn < MaxTxn
  /\ is_feeding' = TRUE
  /\ detecting_txn' = detecting_txn + 1
  /\ running' = Budget
  /\ late' = late \union (IF is_feeding \/ clearing > 0 THEN OnTheirWay ELSE {})
  /\ lowered' = (lowered \/ (is_feeding /\ pc \in {"caption", "push"}))
  /\ UNCHANGED <<clearing, feeding_count, detecting_buffer, metadata_store,
                 sampler, decoder, delivery, fed, pushed, last, raced, lost, broken>>

\* extend_timer, under detecting_lock: the frames of the time gone by, and as many
\* as a new session gets. The session whose is_feeding was tested before may be over.
Extend ==
  /\ detecting_txn > 0
  /\ running' = feeding_count + Budget
  /\ UNCHANGED <<is_feeding, detecting_txn, clearing, feeding_count,
                 detecting_buffer, metadata_store, sampler, decoder, delivery, history>>

\* Mutant: the frame count is left to the next session.
StopKeepsCount ==
  /\ clearing < MaxStops
  /\ is_feeding' = FALSE
  /\ clearing' = clearing + 1
  /\ pushed' = 0 /\ raced' = Live
  /\ late' = late \union (IF Live THEN {now} ELSE {})
                  \union (IF dpc = "idle" THEN {} ELSE {decoded})
  /\ UNCHANGED <<detecting_txn, running, feeding_count, detecting_buffer,
                 metadata_store, sampler, decoder, delivery, fed, last, lowered, lost, broken>>

\* stop_feeding under detecting_lock, with a session or without: the output loop calls
\* it for a message of a session that is over. It may come beside the timer's.
Stop ==
  /\ clearing < MaxStops
  /\ is_feeding' = FALSE
  /\ clearing' = clearing + 1
  /\ feeding_count' = 0
  /\ pushed' = 0 /\ raced' = Live
  /\ late' = late \union (IF Live THEN {now} ELSE {})
                  \union (IF dpc = "idle" THEN {} ELSE {decoded})
  /\ UNCHANGED <<detecting_txn, running, detecting_buffer, metadata_store,
                 sampler, decoder, delivery, fed, last, lowered, lost, broken>>

\* Mutant: the times of the session's frames stay.
ClearNothing ==
  /\ clearing > 0
  /\ clearing' = clearing - 1
  /\ UNCHANGED <<is_feeding, detecting_txn, running, feeding_count, detecting_buffer,
                 metadata_store, sampler, decoder, delivery, history>>

\* Its end: metadata_store.clear(), with the times of a pre-roll that has begun.
ClearMetadata ==
  /\ clearing > 0
  /\ clearing' = clearing - 1
  /\ metadata_store' = {}
  /\ lost' = lost \union ToSet(detecting_buffer) \union (IF pc = "append" THEN {now} ELSE {})
  /\ UNCHANGED <<is_feeding, detecting_txn, running, feeding_count, detecting_buffer,
                 sampler, decoder, delivery, fed, pushed, last, raced, lowered, late, broken>>

--------------------------------------------------------------------------------
(* on_new_sample. *)

Goto(l) == pc' = l

\* A frame arrives, and is_feeding is tested.
Sample ==
  /\ pc = "idle" /\ now < MaxFrame
  /\ now' = now + 1
  /\ Goto(IF is_feeding THEN "preroll" ELSE "describe")
  /\ UNCHANGED <<session, feeding_count, detecting_buffer, metadata_store, counted,
                 decoder, delivery, history>>

\* Mutant: the newest entry makes room.
StoreForgetsNewest(f) ==
  metadata_store' =
    IF Cardinality(metadata_store \union {f}) > StoreMax THEN metadata_store
    ELSE metadata_store \union {f}

\* edit_sample_caption: the frame's time is stored, the oldest entry makes room.
edit_sample_caption(f) ==
  LET all == metadata_store \union {f} IN
  \/ Cardinality(all) <= StoreMax /\ metadata_store' = all
  \/ /\ Cardinality(all) > StoreMax
     /\ \E oldest \in all :
          /\ \A g \in all : oldest <= g
          /\ metadata_store' = all \ {oldest}

\* Not feeding: the frame joins the pre-roll, ...
Describe ==
  /\ pc = "describe"
  /\ edit_sample_caption(now)
  /\ Goto("append")
  /\ UNCHANGED <<session, feeding_count, detecting_buffer, now, counted, decoder,
                 delivery, history>>

\* The sequence s without its first k - 1 elements.
From(s, k) == SubSeq(s, k, Len(s))

\* ... which keeps the last Window ticks (add_detecting_frame, under detecting_lock).
add_detecting_frame ==
  /\ pc = "append"
  /\ LET all == Append(detecting_buffer, now) IN
     \E k \in 1..Len(all) :
       /\ \A i \in 1..(k - 1) : now - all[i] > Window
       /\ now - all[k] <= Window
       /\ detecting_buffer' = From(all, k)
  /\ Goto("idle")
  /\ UNCHANGED <<session, feeding_count, metadata_store, now, counted, decoder,
                 delivery, history>>

\* The pre-roll's first keyframe, or its end if it has none.
FirstKey(k) ==
  /\ \A i \in 1..(k - 1) : ~IsKey(detecting_buffer[i])
  /\ k <= Len(detecting_buffer) => IsKey(detecting_buffer[k])

\* What a push of `frames' does to the decoder and to the histories.
Push(frames) ==
  /\ decoder' = decoder \o frames
  /\ fed' = [f \in Frames |-> IF f \in ToSet(frames) THEN detecting_txn ELSE fed[f]]
  /\ pushed' = pushed + Len(frames)
  /\ last' = IF frames = <<>> THEN last ELSE frames[Len(frames)]

\* Mutant: the pre-roll is pushed from its first frame.
PushWholePreRoll ==
  /\ pc = "preroll"
  /\ Push(detecting_buffer)
  /\ feeding_count' = feeding_count + Len(detecting_buffer)
  /\ broken' = (broken /\ detecting_buffer = <<>>)
  /\ detecting_buffer' = <<>>
  /\ Goto("test")
  /\ UNCHANGED <<session, metadata_store, now, counted, delivery, raced, lowered, late, lost>>

\* Feeding: the pre-roll goes first, all of it under detecting_lock.
push_detecting_buffer ==
  /\ pc = "preroll"
  /\ \E k \in 1..(Len(detecting_buffer) + 1) :
       LET frames == From(detecting_buffer, k) IN
       /\ FirstKey(k)
       /\ Push(frames)
       /\ feeding_count' = feeding_count + Len(frames)
       /\ broken' = (frames = <<>> /\ (broken \/ detecting_buffer # <<>>))
  /\ detecting_buffer' = <<>>
  /\ Goto("test")
  /\ UNCHANGED <<session, metadata_store, now, counted, delivery, raced, lowered, late, lost>>

\* Mutant: the pre-roll alone is limited.
TestNothing ==
  /\ pc = "test"
  /\ Goto("caption")
  /\ UNCHANGED <<session, feeding_count, detecting_buffer, metadata_store, now,
                 counted, decoder, delivery, history>>

\* The frame is dropped when the session has had its frames.
TestBudget ==
  /\ pc = "test"
  /\ \/ feeding_count <= running /\ Goto("caption") /\ UNCHANGED broken
     \/ feeding_count > running /\ Goto("idle") /\ broken' = TRUE
  /\ UNCHANGED <<session, feeding_count, detecting_buffer, metadata_store, now, counted,
                 decoder, delivery, fed, pushed, last, raced, lowered, late, lost>>

Caption ==
  /\ pc = "caption"
  /\ edit_sample_caption(now)
  /\ Goto("push")
  /\ UNCHANGED <<session, feeding_count, detecting_buffer, now, counted, decoder,
                 delivery, history>>

PushFrame ==
  /\ pc = "push"
  /\ Push(<<now>>)
  /\ broken' = (broken /\ ~IsKey(now))
  /\ lowered' = FALSE
  /\ Goto("count")
  /\ UNCHANGED <<session, feeding_count, detecting_buffer, metadata_store, now, counted,
                 delivery, raced, late, lost>>

\* self.feeding_count += 1 under no lock: a read, ...
ReadCount ==
  /\ pc = "count"
  /\ counted' = feeding_count
  /\ Goto("store")
  /\ UNCHANGED <<session, feeding_count, detecting_buffer, metadata_store, now, decoder,
                 delivery, history>>

\* ... and a write.
WriteCount ==
  /\ pc = "store"
  /\ feeding_count' = counted + 1
  /\ Goto("idle")
  /\ UNCHANGED <<session, detecting_buffer, metadata_store, now, counted, decoder,
                 delivery, history>>

--------------------------------------------------------------------------------
(* on_new_sample_decode. *)

\* The decoder, or videorate behind it, drops a frame.
DropDecoded ==
  /\ decoder # <<>>
  /\ decoder' = Tail(decoder)
  /\ UNCHANGED <<session, feeding_count, detecting_buffer, metadata_store, sampler,
                 delivery, history>>

\* A decoded frame; is_feeding is tested.
Decode ==
  /\ dpc = "idle" /\ decoder # <<>>
  /\ decoder' = Tail(decoder)
  /\ \/ is_feeding /\ dpc' = "lookup" /\ decoded' = Head(decoder)
     \/ ~is_feeding /\ UNCHANGED <<dpc, decoded>>
  /\ UNCHANGED <<session, feeding_count, detecting_buffer, metadata_store, sampler,
                 cam_queue, history>>

\* Its time is taken out of metadata_store, under metadata_lock. Without one it is
\* not delivered.
Lookup ==
  /\ dpc = "lookup"
  /\ metadata_store' = metadata_store \ {decoded}
  /\ dpc' = IF decoded \in metadata_store THEN "deliver" ELSE "idle"
  /\ UNCHANGED <<session, feeding_count, detecting_buffer, sampler, decoder, decoded,
                 cam_queue, history>>

\* It is put with the transaction of this moment, or dropped with the queue full.
Deliver ==
  /\ dpc = "deliver"
  /\ cam_queue' \in {cam_queue, cam_queue \union {[frame |-> decoded, txn |-> detecting_txn]}}
  /\ dpc' = "idle"
  /\ UNCHANGED <<session, feeding_count, detecting_buffer, metadata_store, sampler,
                 decoder, decoded, history>>

--------------------------------------------------------------------------------
on_new_sample ==
  \/ Sample \/ Describe \/ add_detecting_frame \/ push_detecting_buffer
  \/ TestBudget \/ Caption \/ PushFrame \/ ReadCount \/ WriteCount

on_new_sample_decode == Decode \/ Lookup \/ Deliver

Next ==
  \/ Begin \/ Extend \/ Stop \/ ClearMetadata
  \/ on_new_sample
  \/ DropDecoded \/ on_new_sample_decode

Spec == Init /\ [][Next]_vars

--------------------------------------------------------------------------------
(* Properties. *)

\* Type correctness of the capture's buffers (StreamCapture.__init__); metadata_store
\* keeps its bound and the pre-roll its window.
Entries == [frame : Frames, txn : Txns]

TypeOK ==
  /\ is_feeding \in BOOLEAN /\ detecting_txn \in Txns /\ running \in Nat
  /\ clearing \in Nat
  /\ feeding_count \in Nat /\ counted \in Nat /\ pushed \in Nat
  /\ detecting_buffer \in Seq(Frames) /\ Len(detecting_buffer) <= Window + 1
  /\ metadata_store \subseteq Frames /\ Cardinality(metadata_store) <= StoreMax
  /\ now \in 0..MaxFrame
  /\ Live \/ pc \in {"idle", "describe", "append"}
  /\ decoder \in Seq(Frames)
  /\ dpc \in {"idle", "lookup", "deliver"} /\ decoded \in 0..MaxFrame
  /\ cam_queue \subseteq Entries
  /\ fed \in [Frames -> Txns] /\ last \in 0..MaxFrame
  /\ raced \in BOOLEAN /\ lowered \in BOOLEAN /\ broken \in BOOLEAN
  /\ late \subseteq Frames /\ lost \subseteq Frames

\* The limit of on_new_sample counts the session's own frames: unless the last
\* stop_feeding reset feeding_count while a live frame was on its way, the count is
\* what was pushed since. A race leaves the next session short of frames, up to all
\* of them.
FrameBudget == ~raced /\ pc \notin {"count", "store"} => feeding_count = pushed

\* No frame is pushed to the decoder beyond the session's limit, but for the pre-roll,
\* the one frame that `>' lets through, and a frame past its test when a second
\* feed_detecting opens a session over the one it was tested in.
Larger(a, b) == IF a > b THEN a ELSE b
WithinBudget ==
  [][ is_feeding /\ ~raced /\ ~lowered /\ pushed' > pushed
        => pushed' <= Larger(running + 1, Window + 1) ]_vars

\* A frame that a session fed to its decoder is never delivered as a frame of a later
\* one, where it would open other locks: stop_feeding erases its time. The exceptions
\* are frames already past a test when the session ended, and the frames on their way
\* when a session begins before stop_feeding is through or, with two callers past the
\* test of is_feeding, without any stop_feeding.
OwnSession ==
  \A e \in cam_queue : fed[e.frame] = e.txn \/ e.frame \in late

\* A pre-roll frame keeps its time until it is decoded, so that it can be delivered:
\* neither the bound of metadata_store nor the frames of the session before take it,
\* only the end of a stop_feeding does, be it one that was not through when the pre-roll
\* began or one of a camera that does not feed.
PreRollHasTime == \A f \in ToSet(detecting_buffer) : f \in metadata_store \union lost

\* The decoder sees each frame once, in order, and can decode it: it follows the frame
\* pushed before, or a keyframe starts anew. Only a pre-roll without a keyframe, and an
\* extension of a session that had used up its frames, make it start in the middle.
DecoderOrder ==
  [][ \A i \in (Len(decoder) + 1)..Len(decoder') :
        LET f == decoder'[i]
            before == IF i = Len(decoder) + 1 THEN last ELSE decoder'[i - 1]
        IN  f > before /\ (f = before + 1 \/ IsKey(f) \/ broken) ]_vars
================================================================================
