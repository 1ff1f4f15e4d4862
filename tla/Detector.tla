-------------------------------- MODULE Detector --------------------------------
(***************************************************************************)
(* The path of frames and session ends to the face detector: every         *)
(* camera's on_new_sample_decode and stop_feeding put entries into the one *)
(* cam_queue (gstreamer_threading.py), FaceRecognitionBase.run takes them  *)
(* (face_recognition_base.py), on_match reports a face (match_handler.py), *)
(* and monitor_detector restarts a detector that died (py_handler.py).     *)
(*                                                                         *)
(* A streaming thread tests is_feeding, converts the frame and puts it     *)
(* with the transaction of that later moment: two steps. stop_feeding puts *)
(* SESSION_END and clears is_feeding afterwards: two steps. What the       *)
(* detector does with one entry is one step, for nobody else touches its   *)
(* history. Faces are a choice: recognised or not, or an exception.        *)
(***************************************************************************)
EXTENDS Naturals, FiniteSets, Sequences, Functions

CONSTANTS Cams,      (* cameras                                              *)
          Txns,      (* transactions uuid.uuid4() returns, each once         *)
          None,      (* Python's None                                        *)
          QueueMax   (* maxsize of cam_queue (500)                           *)

ASSUME DetectorAssumption ==
  /\ None \notin Txns
  /\ QueueMax \in Nat \ {0}

VARIABLES
  is_feeding, detecting_txn,  (* per camera, of its StreamCapture            *)
  issued,                     (* history: the transactions drawn             *)
  ending,                     (* cameras inside stop_feeding, past the put   *)
  grabbed,                    (* cameras whose streaming thread holds a frame *)
  cam_queue,                  (* entries [cmd, cam, txn]                     *)
  detector,                   (* "up", "draining" after an exception, "down" *)
  cam_detection_his,          (* per camera: the session last seen           *)
  found,                      (* history: messages per session, up to 2      *)
  ended                       (* history: sessions whose SESSION_END was taken,
                                 or whose history died with the detector     *)

camera == <<is_feeding, detecting_txn, issued, ending, grabbed>>
history == <<found, ended>>
vars == <<camera, cam_queue, detector, cam_detection_his, history>>

Init ==
  /\ is_feeding = [c \in Cams |-> FALSE]
  /\ detecting_txn = [c \in Cams |-> None]
  /\ issued = {} /\ ending = {} /\ grabbed = {}
  /\ cam_queue = <<>>
  /\ detector = "up"
  /\ cam_detection_his = [c \in {} |-> [txn |-> None, identified |-> FALSE]]
  /\ found = [t \in Txns |-> 0]
  /\ ended = {}

--------------------------------------------------------------------------------
(* The cameras. *)

Full == Len(cam_queue) >= QueueMax
Put(cmd, c) == cam_queue' = Append(cam_queue, [cmd |-> cmd, cam |-> c, txn |-> detecting_txn[c]])

DetectorRests == UNCHANGED <<detector, cam_detection_his, history>>

\* feed_detecting.
FeedDetecting(c) ==
  /\ ~is_feeding[c]
  /\ \E t \in Txns \ issued :
       /\ detecting_txn' = [detecting_txn EXCEPT ![c] = t]
       /\ issued' = issued \union {t}
  /\ is_feeding' = [is_feeding EXCEPT ![c] = TRUE]
  /\ UNCHANGED <<ending, grabbed, cam_queue>>
  /\ DetectorRests

\* stop_feeding up to SESSION_END: by the timer, the output queue loop or
\* handle_occupancy_false, of a running session or once more of the last one. With
\* the queue full it raises and has no effect.
SignalEnd(c) ==
  /\ c \notin ending
  /\ detecting_txn[c] # None
  /\ ~Full
  /\ Put("SESSION_END", c)
  /\ ending' = ending \union {c}
  /\ UNCHANGED <<is_feeding, detecting_txn, issued, grabbed>>
  /\ DetectorRests

\* The rest of stop_feeding.
ClearFeeding(c) ==
  /\ c \in ending
  /\ ending' = ending \ {c}
  /\ is_feeding' = [is_feeding EXCEPT ![c] = FALSE]
  /\ UNCHANGED <<detecting_txn, issued, grabbed, cam_queue>>
  /\ DetectorRests

\* on_new_sample_decode finds the camera feeding.
GrabFrame(c) ==
  /\ is_feeding[c]
  /\ c \notin grabbed
  /\ grabbed' = grabbed \union {c}
  /\ UNCHANGED <<is_feeding, detecting_txn, issued, ending, cam_queue>>
  /\ DetectorRests

\* It puts the frame, or drops it: the queue is full, or the frame's time is no
\* longer in metadata_store.
PutFrame(c) ==
  /\ c \in grabbed
  /\ grabbed' = grabbed \ {c}
  /\ \/ ~Full /\ Put("FRAME", c)
     \/ UNCHANGED cam_queue
  /\ UNCHANGED <<is_feeding, detecting_txn, issued, ending>>
  /\ DetectorRests

--------------------------------------------------------------------------------
(* The detector. *)

CamerasRun == UNCHANGED camera

\* The history entry of camera c, with h in its place.
SetHistory(c, h) ==
  cam_detection_his' = [x \in DOMAIN cam_detection_his \union {c} |->
                          IF x = c THEN h ELSE cam_detection_his[x]]

Knows(c, t) == c \in DOMAIN cam_detection_his /\ cam_detection_his[c].txn = t
Identified(c, t) == Knows(c, t) /\ cam_detection_his[c].identified

Take(cmd, e) ==
  /\ detector = "up"
  /\ cam_queue # <<>>
  /\ e = Head(cam_queue)
  /\ e.cmd = cmd
  /\ cam_queue' = Tail(cam_queue)

\* SESSION_END erases the camera's history, whichever transaction that is of.
TakeEnd(e) ==
  /\ Take("SESSION_END", e)
  /\ \/ /\ e.cam \in DOMAIN cam_detection_his
        /\ cam_detection_his' = Restrict(cam_detection_his, DOMAIN cam_detection_his \ {e.cam})
     \/ /\ e.cam \notin DOMAIN cam_detection_his
        /\ UNCHANGED cam_detection_his
  /\ ended' = ended \union {e.txn}
  /\ UNCHANGED <<detector, found>>
  /\ CamerasRun

\* A frame of a session already identified, or one that is too old, or without
\* a known face: the history follows the frame's transaction.
SkipFrame(e) ==
  /\ Take("FRAME", e)
  /\ IF Knows(e.cam, e.txn) THEN UNCHANGED cam_detection_his
     ELSE SetHistory(e.cam, [txn |-> e.txn, identified |-> FALSE])
  /\ UNCHANGED <<detector, history>>
  /\ CamerasRun

\* What recognising a face does: one member_detected message, unless
\* scanner_output_queue is full or nobody seen is ACTIVE or STAFF, behind any alerts of
\* UC5. (As a mutant of MatchFrame: an identified session is matched again.)
MatchAgain(e) ==
  /\ Take("FRAME", e)
  /\ SetHistory(e.cam, [txn |-> e.txn, identified |-> TRUE])
  /\ \/ found' = [found EXCEPT ![e.txn] = IF @ = 2 THEN 2 ELSE @ + 1]
     \/ UNCHANGED found
  /\ UNCHANGED <<detector, ended>>
  /\ CamerasRun

\* A face is recognised in a session that has not been identified yet.
MatchFrame(e) ==
  /\ ~Identified(e.cam, e.txn)
  /\ MatchAgain(e)

\* An exception while a frame is processed ends the loop.
FailOnFrame(e) ==
  /\ Take("FRAME", e)
  /\ ~Identified(e.cam, e.txn)
  /\ \E b \in BOOLEAN : SetHistory(e.cam, [txn |-> e.txn, identified |-> b])
  /\ detector' = "draining"
  /\ UNCHANGED history
  /\ CamerasRun

\* run throws away what is in the queue.
Drain ==
  /\ detector = "draining"
  /\ \/ cam_queue # <<>> /\ cam_queue' = Tail(cam_queue) /\ UNCHANGED detector
     \/ cam_queue = <<>> /\ detector' = "down" /\ UNCHANGED cam_queue
  /\ UNCHANGED <<cam_detection_his, history>>
  /\ CamerasRun

\* Mutant: monitor_detector finds the old thread still alive and gives up.
GiveUp == FALSE

\* monitor_detector starts a new detector, with no history.
Restart ==
  /\ detector = "down"
  /\ detector' = "up"
  /\ cam_detection_his' = [c \in {} |-> [txn |-> None, identified |-> FALSE]]
  /\ ended' = ended \union {cam_detection_his[c].txn : c \in DOMAIN cam_detection_his}
  /\ UNCHANGED <<cam_queue, found>>
  /\ CamerasRun

--------------------------------------------------------------------------------
CameraStep(c) ==
  FeedDetecting(c) \/ SignalEnd(c) \/ ClearFeeding(c) \/ GrabFrame(c) \/ PutFrame(c)

Entries == [cmd : {"FRAME", "SESSION_END"}, cam : Cams, txn : Txns]

TakeEntry == \E e \in Entries : TakeEnd(e) \/ SkipFrame(e) \/ MatchFrame(e) \/ FailOnFrame(e)

Next ==
  \/ \E c \in Cams : CameraStep(c)
  \/ TakeEntry
  \/ Drain
  \/ Restart

Spec == Init /\ [][Next]_vars

\* The detector's thread keeps running and its monitor restarts it.
FairSpec == Spec /\ WF_vars(TakeEntry) /\ WF_vars(Drain) /\ WF_vars(Restart)

--------------------------------------------------------------------------------
(* Properties. *)

\* Type correctness of cam_queue and the detector's history.
TypeOK ==
  /\ is_feeding \in [Cams -> BOOLEAN]
  /\ detecting_txn \in [Cams -> Txns \union {None}]
  /\ issued \subseteq Txns
  /\ ending \subseteq Cams /\ grabbed \subseteq Cams
  /\ cam_queue \in Seq(Entries) /\ Len(cam_queue) <= QueueMax
  /\ detector \in {"up", "draining", "down"}
  /\ DOMAIN cam_detection_his \subseteq Cams
  /\ cam_detection_his \in [DOMAIN cam_detection_his -> [txn : issued, identified : BOOLEAN]]
  /\ found \in [Txns -> 0..2]
  /\ ended \subseteq issued

\* A recognised session is answered once, however the frames of the cameras mix in
\* the queue: a second member_detected message needs the end of the session, or the
\* death of the detector, to have erased its history (the identified flag of run).
AnsweredOnce == \A t \in Txns : found[t] > 1 => t \in ended

\* The queue does not stay full: stop_feeding, which a full queue makes fail, can
\* succeed when it is tried again.
RoomAgain == Full ~> ~Full
================================================================================
