------------------------------ MODULE MatchRouting ------------------------------
(***************************************************************************)
(* From the faces of a frame to the messages of scanner_output_queue       *)
(* (match_handler.py, with the part of face_recognition_base.run that      *)
(* calls it and get_uc_toggles of py_handler.py). The detector thread      *)
(* calls on_match, on_no_match and on_session_end; the state of a session  *)
(* is kept by transaction, its history by camera. camera_items is replaced *)
(* at any moment by the thread of init_cameras. Whoever puts a message     *)
(* tests full() first and puts without waiting: the thread that saves a    *)
(* recording (save_task of gstreamer_threading.py) may take the last place *)
(* in between, and queue.Full ends the detector, which is replaced.        *)
(*                                                                         *)
(* One camera; its frames and ends come in any order the queue before the  *)
(* detector can give them (Detector): a frame may be of an older session,  *)
(* an end may come twice. Only the Hailo back end gives other members than *)
(* ACTIVE ones and unmatched faces.                                        *)
(***************************************************************************)
EXTENDS Naturals, FiniteSets, Sequences, SequencesExt

CONSTANTS Members,    (* members a face may match                            *)
          Category,   (* their categories                                    *)
          Items,      (* camera items: [locks, enable_uc1, enable_uc3,
                         enable_uc5 : BOOLEAN]                               *)
          Backends,   (* possible values of FACE_BACKEND                     *)
          Overrides,  (* use cases an environment variable enables           *)
          MaxFaces,   (* bound: faces matched in one frame                   *)
          MaxTxn,     (* bound: sessions                                     *)
          QueueMax,   (* maxsize of scanner_output_queue                     *)
          MaxClips    (* bound: recordings saved                             *)

UseCases == {"uc1", "uc3", "uc5"}

ASSUME RoutingAssumption ==
  /\ Category \in [Members -> {"ACTIVE", "STAFF", "INACTIVE", "BLOCKLIST"}]
  /\ Items \subseteq [locks : BOOLEAN, enable_uc1 : BOOLEAN, enable_uc3 : BOOLEAN,
                      enable_uc5 : BOOLEAN]
  /\ Backends \subseteq {"insightface", "hailo"}
  /\ Overrides \subseteq {"uc1", "uc5"}
  /\ MaxFaces \in Nat /\ MaxTxn \in Nat /\ MaxClips \in Nat
  /\ QueueMax \in Nat \ {0}

Txns == 1..MaxTxn
None == 0
Nothing == <<>>

VARIABLES
  FACE_BACKEND, camera_item,  (* its entry in camera_items: at most one item  *)
  his,              (* cam_detection_his of the camera: a function on <<>> or
                       {"txn", "identified"}                                  *)
  sessions,         (* the sessions that have an entry in _session_states     *)
  pc, event,        (* the detector's position and the frame it answers       *)
  uc,               (* the toggles on_match has read                          *)
  rest, authorized, (* faces to route; authorized_faces                       *)
  msg,              (* the message about to be put                            *)
  queued,           (* messages in scanner_output_queue                       *)
  saving, clips,    (* save_task is past its test of full(); recordings saved *)
  offered,          (* history: messages of this event that were put or met
                       a full queue                                           *)
  crossed,          (* history: a place was taken between test and put        *)
  ended,            (* history: sessions whose end was handled                *)
  mixed             (* history: sessions answered after their end, or whose
                       history was gone or another session's before it        *)

environment == <<FACE_BACKEND, camera_item>>
routing == <<uc, rest, authorized, msg>>
clipping == <<saving, clips>>
vars == <<environment, his, sessions, pc, event, routing, queued,
          clipping, offered, crossed, ended, mixed>>

Full == queued >= QueueMax
Message(type, members) == [type |-> type, txn |-> event.txn, members |-> members]
NoEvent == [txn |-> None, faces |-> <<>>, unmatched |-> FALSE]

Init ==
  /\ FACE_BACKEND \in Backends
  /\ camera_item \in {{item} : item \in Items}
  /\ his = <<>> /\ sessions = {}
  /\ pc = "idle" /\ event = NoEvent
  /\ uc = {} /\ rest = <<>> /\ authorized = <<>> /\ msg = Nothing
  /\ queued = 0
  /\ saving = FALSE /\ clips = 0
  /\ offered = {} /\ crossed = FALSE /\ ended = {} /\ mixed = {}

--------------------------------------------------------------------------------
(* The use cases of a camera. *)

\* get_uc_toggles: UC1 needs locks; insightface has UC1 alone.
get_uc_toggles(item) ==
  { u \in UseCases :
      CASE u = "uc1" -> item.locks /\ item.enable_uc1
        [] u = "uc3" -> FACE_BACKEND = "hailo" /\ item.enable_uc3
        [] u = "uc5" -> FACE_BACKEND = "hailo" /\ item.enable_uc5 }

\* _is_uc_enabled: of a camera that is not in camera_items every use case is on.
Enabled(u) == u \in Overrides \/ (\A item \in camera_item : u \in get_uc_toggles(item))

--------------------------------------------------------------------------------
(* The environment. *)

\* fetch_camera_items: the camera's item changes, or it is gone.
FetchCameraItems ==
  /\ camera_item' \in ({{item} : item \in Items} \union {{}}) \ {camera_item}
  /\ UNCHANGED <<FACE_BACKEND, his, sessions, pc, event, routing,
                 queued, clipping, offered, crossed, ended, mixed>>

\* fetch_scanner_output_queue takes a message.
TakeMessage ==
  /\ queued > 0
  /\ queued' = queued - 1
  /\ UNCHANGED <<environment, his, sessions, pc, event, routing, clipping, offered,
                 crossed, ended, mixed>>

\* save_task: video_clipped, if the queue is not full, ...
TestClip ==
  /\ ~saving /\ clips < MaxClips /\ ~Full
  /\ saving' = TRUE
  /\ UNCHANGED <<environment, his, sessions, pc, event, routing, queued,
                 clips, offered, crossed, ended, mixed>>

\* Mutant: the queue has no maxsize.
PutClipAnyway ==
  /\ saving
  /\ saving' = FALSE /\ clips' = clips + 1
  /\ queued' = queued + 1
  /\ crossed' = (crossed \/ pc = "put")
  /\ UNCHANGED <<environment, his, sessions, pc, event, routing, offered, ended, mixed>>

\* ... is put; its queue.Full only ends its own thread.
PutClip ==
  /\ saving
  /\ saving' = FALSE /\ clips' = clips + 1
  /\ \/ Full /\ UNCHANGED <<queued, crossed>>
     \/ /\ ~Full
        /\ queued' = queued + 1
        /\ crossed' = (crossed \/ pc = "put")
  /\ UNCHANGED <<environment, his, sessions, pc, event, routing, offered, ended, mixed>>

--------------------------------------------------------------------------------
(* The detector: face_recognition_base.run. *)

\* get_session_state: the session's state, made if there is none.
get_session_state(t) == sessions' = sessions \union {t}

\* Mutant: it clears nothing.
ClearNone(t) == UNCHANGED sessions

clear_session_state(t) == sessions' = sessions \ {t}

Knows(t) == his # <<>> /\ his.txn = t

\* SESSION_END of a session, now or again. With a history of the camera, whichever
\* session it is about, on_session_end runs (it gets the signal's session, and makes
\* it if need be, only to clear it) and the history is deleted.
EndSession(t) ==
  /\ pc = "idle"
  /\ ended' = ended \union {t}
  /\ \/ his = <<>> /\ UNCHANGED <<his, sessions, mixed>>
     \/ /\ his # <<>>
        /\ clear_session_state(t)
        /\ his' = <<>>
        /\ mixed' = mixed \union ({his.txn} \ {t})
  /\ UNCHANGED <<environment, pc, event, routing, queued, clipping,
                 offered, crossed>>

\* Another session's history is overwritten.
Remember(t, identified) ==
  /\ his' = [txn |-> t, identified |-> identified]
  /\ mixed' = mixed \union (IF his = <<>> THEN {} ELSE {his.txn} \ {t})
                    \union (ended \intersect IF identified THEN {t} ELSE {})

\* A frame that is too old, or shows no face, is remembered all the same.
IdleFrame(t) ==
  /\ pc = "idle"
  /\ ~Knows(t)
  /\ Remember(t, FALSE)
  /\ UNCHANGED <<environment, sessions, pc, event, routing, queued,
                 clipping, offered, crossed, ended>>

\* What process_frame may find: insightface has ACTIVE members only, and reports no
\* unmatched faces.
Gives(faces, unmatched) ==
  FACE_BACKEND = "insightface" =>
    ~unmatched /\ \A m \in ToSet(faces) : Category[m] = "ACTIVE"

\* A frame with faces, of a session not answered yet. on_match begins with the
\* session's state, on_no_match with the unknown faces.
AnswerFrame(t, faces, unmatched) ==
  /\ pc = "idle"
  /\ ~(Knows(t) /\ his.identified)
  /\ Gives(faces, unmatched)
  /\ Remember(t, TRUE)
  /\ event' = [txn |-> t, faces |-> faces, unmatched |-> unmatched]
  /\ uc' = {} /\ rest' = faces /\ authorized' = <<>> /\ msg' = Nothing
  /\ offered' = {} /\ crossed' = FALSE
  /\ \/ faces # <<>> /\ get_session_state(t) /\ pc' = "uc1"
     \/ faces = <<>> /\ unmatched /\ UNCHANGED sessions /\ pc' = "unknown"
  /\ UNCHANGED <<environment, queued, clipping, ended>>

\* The toggles are read one after the other.
ReadToggle ==
  /\ pc \in UseCases
  /\ uc' = IF Enabled(pc) THEN uc \union {pc} ELSE uc
  /\ pc' = CASE pc = "uc1" -> "uc3" [] pc = "uc3" -> "uc5" [] pc = "uc5" -> "faces"
  /\ UNCHANGED <<environment, his, sessions, event, rest, authorized, msg,
                 queued, clipping, offered, crossed, ended, mixed>>

--------------------------------------------------------------------------------
(* SecurityHandlerChain.on_match, face by face. *)

\* Offer a message next: `if not full(): put(block=False)'.
Offer(type, members) == msg' = Message(type, members) /\ pc' = "test"

\* UC5 for a BLOCKLIST member, and no more of the face. What the state keeps of it
\* (block_further_unlocks) is read nowhere, as is what it keeps of the other faces.
Blocklisted(m) ==
  /\ Category[m] = "BLOCKLIST"
  /\ UNCHANGED authorized
  /\ IF "uc5" \in uc THEN Offer("blocklist_alert", <<m>>) ELSE UNCHANGED <<msg, pc>>

\* An ACTIVE or STAFF member: UC1 writes the state and the log, member_detected comes
\* of it with or without UC1.
Authorized(m) ==
  /\ Category[m] \in {"ACTIVE", "STAFF"}
  /\ authorized' = Append(authorized, m)
  /\ UNCHANGED <<msg, pc>>

\* UC5 for a past guest.
Inactive(m) ==
  /\ Category[m] = "INACTIVE"
  /\ UNCHANGED authorized
  /\ IF "uc5" \in uc THEN Offer("non_active_alert", <<m>>) ELSE UNCHANGED <<msg, pc>>

\* Mutant: a BLOCKLIST face goes on to UC1 when its alert is off.
RouteBlocklisted ==
  /\ pc = "faces" /\ rest # <<>>
  /\ rest' = Tail(rest)
  /\ LET m == Head(rest)
     IN  IF Category[m] = "BLOCKLIST" /\ "uc5" \notin uc
         THEN authorized' = Append(authorized, m) /\ UNCHANGED <<msg, pc>>
         ELSE Blocklisted(m) \/ Authorized(m) \/ Inactive(m)
  /\ UNCHANGED <<environment, his, sessions, event, uc, queued, clipping, offered,
                 crossed, ended, mixed>>

RouteFace ==
  /\ pc = "faces" /\ rest # <<>>
  /\ rest' = Tail(rest)
  /\ LET m == Head(rest) IN Blocklisted(m) \/ Authorized(m) \/ Inactive(m)
  /\ UNCHANGED <<environment, his, sessions, event, uc, queued, clipping, offered,
                 crossed, ended, mixed>>

\* UC3 behind the faces, or alone in on_no_match, where its toggle is not read.
RouteUnknown ==
  /\ \/ pc = "faces" /\ rest = <<>>
     \/ pc = "unknown"
  /\ IF event.unmatched /\ (pc = "unknown" \/ "uc3" \in uc)
     THEN Offer("unknown_face", <<>>)
     ELSE pc' = "default" /\ UNCHANGED msg
  /\ UNCHANGED <<environment, his, sessions, event, uc, rest, authorized,
                 queued, clipping, offered, crossed, ended, mixed>>

\* DefaultMatchHandler.on_match: one member_detected for all authorized faces.
RouteAuthorized ==
  /\ pc = "default"
  /\ IF authorized # <<>> THEN Offer("member_detected", authorized)
     ELSE pc' = "idle" /\ UNCHANGED msg
  /\ UNCHANGED <<environment, his, sessions, event, uc, rest, authorized,
                 queued, clipping, offered, crossed, ended, mixed>>

\* Where the handler goes on once its message was put or dropped.
Continue ==
  pc' = CASE msg.type = "member_detected" -> "idle"
          [] msg.type = "unknown_face" -> "default"
          [] OTHER -> "faces"

\* Mutant: full() is not asked.
PutUntested ==
  /\ pc = "test"
  /\ pc' = "put"
  /\ UNCHANGED <<environment, his, sessions, event, routing, queued,
                 clipping, offered, crossed, ended, mixed>>

\* full() is asked; a message that meets a full queue is dropped.
TestRoom ==
  /\ pc = "test"
  /\ \/ ~Full /\ pc' = "put" /\ UNCHANGED offered
     \/ Full /\ Continue /\ offered' = offered \union {msg}
  /\ UNCHANGED <<environment, his, sessions, event, routing, queued,
                 clipping, crossed, ended, mixed>>

\* put(block=False): with the last place taken in between it raises queue.Full,
\* which ends the detector.
PutMessage ==
  /\ pc = "put"
  /\ \/ /\ ~Full
        /\ queued' = queued + 1
        /\ offered' = offered \union {msg}
        /\ Continue
     \/ /\ Full
        /\ pc' = "dead"
        /\ UNCHANGED <<queued, offered>>
  /\ UNCHANGED <<environment, his, sessions, event, routing, clipping, crossed,
                 ended, mixed>>

\* monitor_detector puts a new detector in its place, without a history.
Restart ==
  /\ pc = "dead"
  /\ pc' = "idle"
  /\ mixed' = mixed \union {his.txn}
  /\ his' = <<>> /\ event' = NoEvent /\ offered' = {}
  /\ uc' = {} /\ rest' = <<>> /\ authorized' = <<>> /\ msg' = Nothing
  /\ UNCHANGED <<environment, sessions, queued, clipping, crossed, ended>>

--------------------------------------------------------------------------------
Faces == UNION { [1..n -> Members] : n \in 0..MaxFaces }

Detect ==
  \/ \E t \in Txns :
       \/ EndSession(t) \/ IdleFrame(t)
       \/ \E faces \in Faces, unmatched \in BOOLEAN : AnswerFrame(t, faces, unmatched)
  \/ ReadToggle \/ RouteFace \/ RouteUnknown \/ RouteAuthorized
  \/ TestRoom \/ PutMessage \/ Restart

Next == FetchCameraItems \/ TakeMessage \/ TestClip \/ PutClip \/ Detect

Spec == Init /\ [][Next]_vars

--------------------------------------------------------------------------------
(* Properties. *)

Types == {"member_detected", "blocklist_alert", "non_active_alert", "unknown_face"}
Messages(F) == [type : Types, txn : Txns, members : F]

\* Type correctness of the router's state (match_handler.py, cam_detection_his); the
\* queue keeps its maxsize.
TypeOK ==
  /\ FACE_BACKEND \in Backends /\ camera_item \in {{}} \union {{item} : item \in Items}
  /\ his = <<>> \/ his \in [txn : Txns, identified : BOOLEAN]
  /\ sessions \subseteq Txns
  /\ pc \in UseCases \union {"idle", "faces", "unknown", "default", "test", "put", "dead"}
  /\ event = NoEvent \/ event \in [txn : Txns, faces : Faces, unmatched : BOOLEAN]
  /\ uc \subseteq UseCases /\ rest \in Faces /\ authorized \in Faces
  /\ msg = Nothing \/ msg \in Messages(Faces)
  /\ queued \in 0..QueueMax
  /\ saving \in BOOLEAN /\ clips \in 0..MaxClips
  /\ offered \subseteq Messages(Faces) /\ crossed \in BOOLEAN
  /\ ended \subseteq Txns /\ mixed \subseteq Txns

\* Members who may enter: guests and staff.
MayEnter(m) == Category[m] \in {"ACTIVE", "STAFF"}

\* The elements of s at some of its positions, in their order.
Selected(s, at) ==
  LET nth(k) == CHOOSE i \in at : Cardinality({j \in at : j <= i}) = k
  IN  [k \in 1..Cardinality(at) |-> s[nth(k)]]

Alert(e, m) ==
  [type |-> IF Category[m] = "BLOCKLIST" THEN "blocklist_alert" ELSE "non_active_alert",
   txn |-> e.txn, members |-> <<m>>]

\* What the faces of an event call for, under the use cases `on': the routing table
\* of the class comment. Members who may enter are announced in one message, whether
\* or not UC1 is on; a BLOCKLIST member and a past guest each by an alert, never as
\* a member; unknown faces beside matched ones only with UC3.
Announcements(e, on) ==
  LET at == {i \in DOMAIN e.faces : MayEnter(e.faces[i])}
  IN  (IF at = {} THEN {}
       ELSE {[type |-> "member_detected", txn |-> e.txn, members |-> Selected(e.faces, at)]})
      \union (IF "uc5" \in on THEN {Alert(e, e.faces[i]) : i \in DOMAIN e.faces \ at} ELSE {})
      \union (IF e.unmatched /\ (e.faces = <<>> \/ "uc3" \in on)
              THEN {[type |-> "unknown_face", txn |-> e.txn, members |-> <<>>]} ELSE {})

\* Events for which the code makes a member_detected that the documents do not want:
\* UC_TOGGLE_SHADOW_EXAMPLE.md has no recognition and no unlock without UC1, and
\* SECURITY_USE_CASES.md, with on_match's "blocks unlock", no unlock for anybody beside
\* a BLOCKLIST member.
Disputed(e, on) ==
  "uc1" \notin on \/ \E i \in DOMAIN e.faces : Category[e.faces[i]] = "BLOCKLIST"

Required(e, on) ==
  {m \in Announcements(e, on) : Disputed(e, on) => m.type # "member_detected"}

\* An event is announced: once the detector is through with a frame, every message its
\* faces call for was put or met a full queue, and no other was made, however the toggles
\* and the queue changed under it. The session is marked identified and is not asked
\* again, so a message forgotten here never comes. Where the documents want nobody let in
\* and the code announces the members all the same, the message is not required.
Announced ==
  pc = "idle" => Required(event, uc) \subseteq offered /\ offered \subseteq Announcements(event, uc)

\* The detector dies of its own queue only if another thread took the last place
\* between its full() and its put().
DiesOfRace == pc = "dead" => crossed

\* A session's state is gone once its SESSION_END was handled, unless it was answered
\* after that, or the camera's history was another session's or lost before it: no
\* other session's end clears it, and every other state leaks for ever.
StateCleared == sessions \intersect ended \subseteq mixed

================================================================================
