-------------------------------- MODULE Recording --------------------------------
(***************************************************************************)
(* The recordings of one camera: handle_notification and set_recording_time *)
(* of py_handler.py, start_recording, stop_recording, save_frames_as_video  *)
(* and the recording buffer of gstreamer_threading.py. Notifications come   *)
(* on threads of the HTTP server, recordings are stopped by timers, frames  *)
(* are added by the streaming thread, and the capture may be replaced by    *)
(* another one at any moment (CameraLifecycle).                             *)
(*                                                                          *)
(* recording_lock protects the buffer, one access at a time; what is        *)
(* decided about a recording spans several. A recording is known by the     *)
(* time of its notification, which is a key of recordings, the name of its  *)
(* file and here also of its timer: one timer is made per recording begun.  *)
(***************************************************************************)
EXTENDS Naturals, FiniteSets

CONSTANTS Utcs,        (* notifications, one time each                        *)
          MaxFrame,    (* bound: frames sampled                               *)
          Window,      (* PRE_RECORDING_SEC in frames                         *)
          MaxCapture   (* bound: captures the camera has one after the other  *)

NoTimer == "no timer"

ASSUME RecordingAssumption ==
  /\ MaxFrame \in Nat /\ Window \in Nat /\ MaxCapture \in Nat \ {0}
  /\ NoTimer \notin Utcs

Frames == 1..MaxFrame
Captures == 1..MaxCapture
None == 0

VARIABLES
  capture, made,     (* thread_gstreamers[cam_ip]; captures made so far      *)
  is_recording,      (* by capture                                           *)
  recordings,        (* by capture: the keys                                 *)
  recording_buffer,  (* by capture: a set of frames                          *)
  now,               (* the last frame sampled                               *)
  npc, on,           (* the threads in handle_notification, by notification:
                        position, and the capture each works on              *)
  recording_timer,   (* recording_timers[cam_ip]                             *)
  timer,             (* by notification: its timer's state                   *)
  stops,             (* the capture whose stop_recording the timer calls     *)
  cancelled,         (* timers that were cancelled                           *)
  spc,               (* the threads in stop_recording, by timer              *)
  saved,             (* by notification: the frames save_task was given      *)
  began,             (* history: the frame at which start_recording began    *)
  cut,               (* history: recordings during whose stop a frame came,
                        or whose frames another stop took                    *)
  overlapped,        (* history: a notification or a stop came while another
                        was at work                                          *)
  strayed            (* history: a new capture came while a notification was
                        at work                                              *)

captures == <<capture, made, is_recording, recordings, recording_buffer>>
timers == <<recording_timer, timer, stops, cancelled>>
history == <<began, cut, overlapped, strayed>>
vars == <<captures, now, npc, on, timers, spc, saved, history>>

Init ==
  /\ capture = 1 /\ made = 1
  /\ is_recording = [c \in Captures |-> FALSE]
  /\ recordings = [c \in Captures |-> {}]
  /\ recording_buffer = [c \in Captures |-> {}]
  /\ now = 0
  /\ npc = [u \in Utcs |-> "new"] /\ on = [u \in Utcs |-> 1]
  /\ recording_timer = NoTimer
  /\ timer = [u \in Utcs |-> "none"] /\ stops = [u \in Utcs |-> 1] /\ cancelled = {}
  /\ spc = [u \in Utcs |-> "idle"]
  /\ saved = [u \in Utcs |-> {}]
  /\ began = [u \in Utcs |-> 0] /\ cut = {} /\ overlapped = FALSE /\ strayed = FALSE

Notifying(u) == npc[u] \notin {"new", "done"}
Stopping(u) == spc[u] \notin {"idle", "done", "failed", "raised"}
Busy == \E u \in Utcs : Notifying(u) \/ Stopping(u)

\* Timers that are running, or will as soon as they are started.
Armed == {u \in Utcs : timer[u] = "started" /\ u \notin cancelled}

Goto(u, l) == npc' = [npc EXCEPT ![u] = l]
StopGoto(u, l) == spc' = [spc EXCEPT ![u] = l]

--------------------------------------------------------------------------------
(* The streaming thread and the capture. *)

\* Mutant: frames are dropped when something is recorded, too.
TrimAlways ==
  /\ capture # None
  /\ now < MaxFrame
  /\ now' = now + 1
  /\ recording_buffer' =
       [recording_buffer EXCEPT ![capture] = {f \in @ \union {now + 1} : now + 1 - f <= Window}]
  /\ cut' = cut \union (IF is_recording[capture] THEN {} ELSE recordings[capture])
  /\ UNCHANGED <<capture, made, is_recording, recordings, npc, on, timers, spc, saved,
                 began, overlapped, strayed>>

\* add_recording_frame, under recording_lock: frames are only dropped when nothing
\* is recorded. A stop that has not copied the buffer yet loses what is dropped.
add_recording_frame ==
  /\ capture # None
  /\ now < MaxFrame
  /\ now' = now + 1
  /\ LET frames == recording_buffer[capture] \union {now + 1}
         kept == IF is_recording[capture] THEN frames ELSE {f \in frames : now + 1 - f <= Window}
     IN  recording_buffer' = [recording_buffer EXCEPT ![capture] = kept]
  /\ cut' = cut \union (IF is_recording[capture] THEN {} ELSE recordings[capture])
  /\ UNCHANGED <<capture, made, is_recording, recordings, npc, on, timers, spc, saved,
                 began, overlapped, strayed>>

\* The capture is stopped, and its streaming ends, ...
StopCapture ==
  /\ capture # None
  /\ capture' = None
  /\ strayed' = (strayed \/ \E u \in Utcs : Notifying(u))
  /\ UNCHANGED <<made, is_recording, recordings, recording_buffer, now, npc, on, timers,
                 spc, saved, began, cut, overlapped>>

\* ... and a new one takes its place.
StartCapture ==
  /\ capture = None /\ made < MaxCapture
  /\ capture' = made + 1 /\ made' = made + 1
  /\ UNCHANGED <<is_recording, recordings, recording_buffer, now, npc, on, timers,
                 spc, saved, history>>

--------------------------------------------------------------------------------
(* handle_notification, its recording part. *)

\* Mutant: the timer is cancelled before start_recording is asked.
NotifyCancels(u) ==
  /\ npc[u] = "new"
  /\ capture # None
  /\ on' = [on EXCEPT ![u] = capture]
  /\ cancelled' = cancelled \union ({recording_timer} \ {NoTimer})
  /\ Goto(u, "test")
  /\ overlapped' = (overlapped \/ Busy)
  /\ UNCHANGED <<captures, now, recording_timer, timer, stops, spc, saved, began, cut,
                 strayed>>

\* A motion notification of a camera that records: its capture is read, and must be
\* there and playing.
Notify(u) ==
  /\ npc[u] = "new"
  /\ capture # None
  /\ on' = [on EXCEPT ![u] = capture]
  /\ Goto(u, "test")
  /\ overlapped' = (overlapped \/ Busy)
  /\ UNCHANGED <<captures, now, timers, spc, saved, began, cut, strayed>>

\* start_recording tests is_recording under no lock.
TestRecording(u) ==
  /\ npc[u] = "test"
  /\ Goto(u, IF is_recording[on[u]] THEN "done" ELSE "begin")
  /\ UNCHANGED <<captures, now, on, timers, spc, saved, history>>

BeginRecording(u) ==
  /\ npc[u] = "begin"
  /\ is_recording' = [is_recording EXCEPT ![on[u]] = TRUE]
  /\ recordings' = [recordings EXCEPT ![on[u]] = @ \union {u}]
  /\ began' = [began EXCEPT ![u] = now]
  /\ Goto(u, "cancel")
  /\ UNCHANGED <<capture, made, recording_buffer, now, on, timers, spc, saved, cut, overlapped, strayed>>

\* set_recording_time: the camera's last timer is cancelled, fired or not.
CancelTimer(u) ==
  /\ npc[u] = "cancel"
  /\ cancelled' = cancelled \union ({recording_timer} \ {NoTimer})
  /\ Goto(u, "arm")
  /\ UNCHANGED <<captures, now, on, recording_timer, timer, stops, spc, saved, history>>

\* A timer for the capture the camera has now; with none, an AttributeError ends
\* the notification.
NewTimer(u) ==
  /\ npc[u] = "arm"
  /\ \/ /\ capture # None
        /\ timer' = [timer EXCEPT ![u] = "created"]
        /\ stops' = [stops EXCEPT ![u] = capture]
        /\ Goto(u, "assign")
     \/ capture = None /\ Goto(u, "done") /\ UNCHANGED <<timer, stops>>
  /\ UNCHANGED <<captures, now, on, recording_timer, cancelled, spc, saved, history>>

\* It becomes the camera's.
AssignTimer(u) ==
  /\ npc[u] = "assign"
  /\ recording_timer' = u
  /\ Goto(u, "start")
  /\ UNCHANGED <<captures, now, on, timer, stops, cancelled, spc, saved, history>>

\* recording_timers[cam_ip].start(): of whichever timer is there. A timer can be
\* started once.
StartTimer(u) ==
  /\ npc[u] = "start"
  /\ Goto(u, "done")
  /\ timer' = IF timer[recording_timer] = "created"
              THEN [timer EXCEPT ![recording_timer] = "started"] ELSE timer
  /\ UNCHANGED <<captures, now, on, recording_timer, stops, cancelled, spc, saved, history>>

--------------------------------------------------------------------------------
(* stop_recording, in the thread of a timer. *)

\* The timer fires, and is_recording is tested.
Fire(u) ==
  /\ u \in Armed
  /\ timer' = [timer EXCEPT ![u] = "fired"]
  /\ StopGoto(u, IF is_recording[stops[u]] THEN "unset" ELSE "done")
  /\ overlapped' = (overlapped \/ Busy)
  /\ UNCHANGED <<captures, now, npc, on, recording_timer, stops, cancelled, saved,
                 began, cut, strayed>>

Unset(u) ==
  /\ spc[u] = "unset"
  /\ is_recording' = [is_recording EXCEPT ![stops[u]] = FALSE]
  /\ StopGoto(u, "copy")
  /\ UNCHANGED <<capture, made, recordings, recording_buffer, now, npc, on, timers, saved,
                 history>>

\* save_frames_as_video(self.recordings[utc_time]): KeyError if there is no such
\* recording on this capture, else the buffer's frames go to save_task.
CopyFrames(u) ==
  /\ spc[u] = "copy"
  /\ \/ /\ u \in recordings[stops[u]]
        /\ saved' = [saved EXCEPT ![u] = recording_buffer[stops[u]]]
        /\ cut' = cut \union (recordings[stops[u]] \ {u})
        /\ StopGoto(u, "clear")
     \/ /\ u \notin recordings[stops[u]]
        /\ StopGoto(u, "failed")
        /\ UNCHANGED <<saved, cut>>
  /\ UNCHANGED <<captures, now, npc, on, timers, began, overlapped, strayed>>

\* The directory cannot be made, or save_task's thread not be started: the method ends
\* with nothing saved, the frames still in the buffer and the entry in recordings.
SaveRaises(u) ==
  /\ spc[u] = "copy"
  /\ u \in recordings[stops[u]]
  /\ StopGoto(u, "raised")
  /\ UNCHANGED <<captures, now, npc, on, timers, saved, history>>

\* Mutant: the buffer keeps what was saved.
ClearNothing(u) ==
  /\ spc[u] = "clear"
  /\ StopGoto(u, "forget")
  /\ UNCHANGED <<captures, now, npc, on, timers, saved, history>>

\* clear_all_frames: those that came since the copy are lost.
ClearFrames(u) ==
  /\ spc[u] = "clear"
  /\ recording_buffer' = [recording_buffer EXCEPT ![stops[u]] = {}]
  /\ cut' = cut \union (recordings[stops[u]] \ {u})
  /\ StopGoto(u, "forget")
  /\ UNCHANGED <<capture, made, is_recording, recordings, now, npc, on, timers, saved,
                 began, overlapped, strayed>>

\* Mutant: the entry stays.
ForgetNothing(u) ==
  /\ spc[u] = "forget"
  /\ StopGoto(u, "done")
  /\ UNCHANGED <<captures, now, npc, on, timers, saved, history>>

\* del self.recordings[utc_time].
Forget(u) ==
  /\ spc[u] = "forget"
  /\ recordings' = [recordings EXCEPT ![stops[u]] = @ \ {u}]
  /\ StopGoto(u, "done")
  /\ UNCHANGED <<capture, made, is_recording, recording_buffer, now, npc, on, timers, saved,
                 history>>

--------------------------------------------------------------------------------
handle_notification(u) ==
  Notify(u) \/ TestRecording(u) \/ BeginRecording(u) \/ CancelTimer(u) \/ NewTimer(u)
  \/ AssignTimer(u) \/ StartTimer(u)

stop_recording(u) ==
  Unset(u) \/ CopyFrames(u) \/ SaveRaises(u) \/ ClearFrames(u) \/ Forget(u)

Next ==
  \/ add_recording_frame \/ StopCapture \/ StartCapture
  \/ \E u \in Utcs : handle_notification(u) \/ Fire(u) \/ stop_recording(u)

Spec == Init /\ [][Next]_vars

\* Threads that have begun get on, and timers that were started fire.
FairSpec ==
  /\ Spec
  /\ \A u \in Utcs : /\ WF_vars(npc[u] # "new" /\ handle_notification(u))
                     /\ WF_vars(Fire(u))
                     /\ WF_vars(stop_recording(u))

--------------------------------------------------------------------------------
(* Properties. *)

\* Type correctness of the capture's recording state and of recording_timers.
TypeOK ==
  /\ capture \in Captures \union {None} /\ made \in Captures
  /\ is_recording \in [Captures -> BOOLEAN]
  /\ recordings \in [Captures -> SUBSET Utcs]
  /\ recording_buffer \in [Captures -> SUBSET Frames]
  /\ now \in 0..MaxFrame
  /\ npc \in [Utcs -> {"new", "test", "begin", "cancel", "arm", "assign", "start", "done"}]
  /\ on \in [Utcs -> Captures] /\ stops \in [Utcs -> Captures]
  /\ recording_timer \in Utcs \union {NoTimer}
  /\ timer \in [Utcs -> {"none", "created", "started", "fired"}]
  /\ cancelled \subseteq Utcs
  /\ spc \in [Utcs -> {"idle", "unset", "copy", "clear", "forget", "done", "failed", "raised"}]
  /\ saved \in [Utcs -> SUBSET Frames]
  /\ began \in [Utcs -> 0..MaxFrame] /\ cut \subseteq Utcs /\ overlapped \in BOOLEAN
  /\ strayed \in BOOLEAN

\* The frames of a recording reach its file: what save_task is given holds every
\* frame sampled since the recording began, and the pre-roll before it, unless a
\* frame came in the middle of the stop (the buffer is trimmed as soon as is_recording
\* is unset) or another recording's stop took them.
ClipComplete ==
  [][ \A u \in Utcs :
        spc[u] = "copy" /\ spc'[u] = "clear" /\ on[u] = capture /\ u \notin cut
          => {f \in Frames : began[u] < f /\ f <= now} \subseteq saved'[u] ]_vars

\* A frame is in one clip at most, as long as the calls do not overlap: each clip starts
\* behind the one before.
ClipsDisjoint ==
  ~overlapped => \A u, v \in Utcs : u # v => saved[u] \intersect saved[v] = {}

\* A recording in progress has somebody who ends it: a timer that will stop this
\* capture is armed, or a call that arms or stops is at work. Two notifications that
\* overlap leave one timer that runs, whichever of them starts it; it may be the one
\* for a capture that was replaced only if that came while one of them was at work.
Guarded ==
  ~strayed /\ capture # None /\ is_recording[capture]
    => Busy \/ \E u \in Armed : stops[u] = capture

\* As long as the calls do not overlap, what was begun is the recording that is
\* stopped: none is left in recordings, none fails. A stop that could not save leaves
\* its own.
NoOrphan ==
  ~overlapped /\ (\A u \in Utcs : spc[u] # "raised") =>
    /\ \A u \in Utcs : spc[u] # "failed"
    /\ ~Busy /\ capture # None => recordings[capture] = {u \in Armed : is_recording[capture]}

\* A recording ends, however notifications and timers overlap, unless its capture is
\* replaced or was begun while a notification was at work: no buffer grows for ever.
RecordingEnds ==
  \A c \in Captures :
    [](is_recording[c] => <>(~is_recording[c] \/ capture # c \/ strayed))
================================================================================
