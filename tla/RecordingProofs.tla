----------------------------- MODULE RecordingProofs -----------------------------
(***************************************************************************)
(* Proofs about Recording for any number of notifications, frames and      *)
(* captures and any pre-roll, under every interleaving of notifications,   *)
(* timers, the streaming thread and the replacement of captures; and about *)
(* ClipUpload, where its clips go, for any number of clips, any maxsize of *)
(* the queue and any number of credentials.                                *)
(***************************************************************************)
EXTENDS Recording, ClipUpload, FiniteSetTheorems, TLAPS

--------------------------------------------------------------------------------
(***************************************************************************)
(* Types, and the captures made so far: the last one is the present one,   *)
(* unless it was stopped, and nobody knows one that was not made.          *)
(***************************************************************************)
Made ==
  /\ capture \in {made, None}
  /\ \A u \in Utcs : on[u] <= made /\ stops[u] <= made
  /\ \A c \in Captures : c > made =>
       ~is_recording[c] /\ recordings[c] = {} /\ recording_buffer[c] = {}
  /\ \A c \in Captures : recording_buffer[c] \subseteq 1..now

Base == TypeOK /\ Made

LEMMA BaseInit == Init => Base
<1> SUFFICES ASSUME Init PROVE Base
  OBVIOUS
<1>1. 1 \in Captures /\ 0 \in 0..MaxFrame
  BY RecordingAssumption DEF Captures
<1>2. TypeOK
  BY <1>1 DEF Init, TypeOK
<1>3. Made
  BY DEF Init, Made
<1>4. QED
  BY <1>2, <1>3 DEF Base

LEMMA BaseNext == Base /\ [Next]_vars => Base'
<1> SUFFICES ASSUME Base, [Next]_vars PROVE Base'
  OBVIOUS
<1> USE RecordingAssumption DEF captures, timers, history, Base
<1>1. CASE add_recording_frame
  <2> DEFINE frames == recording_buffer[capture] \union {now + 1}
             trimmed == IF is_recording[capture] THEN frames ELSE {f \in frames : now + 1 - f <= Window}
  <2>1. /\ capture \in Captures /\ capture = made /\ now \in Nat /\ now + 1 \in Frames
        /\ now' = now + 1 /\ recording_buffer' = [recording_buffer EXCEPT ![capture] = trimmed]
    BY <1>1 DEF add_recording_frame, TypeOK, Made, Frames
  <2>2. trimmed \subseteq Frames /\ trimmed \subseteq 1..now'
    <3>1. frames \subseteq Frames /\ frames \subseteq 1..now'
      BY <2>1 DEF TypeOK, Made, Frames
    <3>2. trimmed \subseteq frames
      OBVIOUS
    <3>3. QED
      BY <3>1, <3>2
  <2>3. recording_buffer' \in [Captures -> SUBSET Frames]
    BY <2>1, <2>2 DEF TypeOK
  <2>4. TypeOK'
    <3>1. cut' \subseteq Utcs
      BY <1>1, <2>1 DEF add_recording_frame, TypeOK
    <3>2. now' \in 0..MaxFrame
      BY <2>1 DEF Frames
    <3>3. QED
      BY <1>1, <2>3, <3>1, <3>2 DEF add_recording_frame, TypeOK
  <2>5. Made'
    <3>1. \A c \in Captures : recording_buffer'[c] \subseteq 1..now'
      BY <2>1, <2>2 DEF TypeOK, Made
    <3>2. \A c \in Captures : c > made => recording_buffer'[c] = {}
      BY <2>1 DEF TypeOK, Made, Captures
    <3>3. QED
      BY <1>1, <3>1, <3>2 DEF add_recording_frame, Made
  <2>6. QED
    BY <2>4, <2>5
<1>2. CASE StopCapture
  <2>1. strayed' \in BOOLEAN
    BY <1>2, Zenon DEF StopCapture
  <2>2. QED
    BY <1>2, <2>1 DEF StopCapture, TypeOK, Made
<1>3. CASE StartCapture
  <2>1. made + 1 \in Captures /\ made \in Nat
    BY <1>3 DEF StartCapture, TypeOK, Captures
  <2>2. TypeOK'
    BY <1>3, <2>1 DEF StartCapture, TypeOK
  <2>3. Made'
    BY <1>3, <2>1 DEF StartCapture, TypeOK, Made, Captures
  <2>4. QED
    BY <2>2, <2>3
<1>4. ASSUME NEW u \in Utcs, handle_notification(u) PROVE Base'
  <2>1. CASE Notify(u)
    <3>1. overlapped' \in BOOLEAN
      BY <2>1, Zenon DEF Notify
    <3>2. capture \in Captures
      BY <2>1 DEF Notify, TypeOK
    <3>3. TypeOK'
      BY <2>1, <3>1, <3>2 DEF Notify, Goto, TypeOK
    <3>4. Made'
      BY <2>1, <3>2 DEF Notify, TypeOK, Made, Captures
    <3>5. QED
      BY <3>3, <3>4
  <2>2. CASE TestRecording(u)
    BY <2>2 DEF TestRecording, Goto, TypeOK, Made
  <2>3. CASE BeginRecording(u)
    <3>1. on[u] \in Captures /\ ~(on[u] > made)
      BY DEF TypeOK, Made, Captures
    <3>2. TypeOK'
      BY <2>3, <3>1 DEF BeginRecording, Goto, TypeOK
    <3>3. Made'
      BY <2>3, <3>1 DEF BeginRecording, TypeOK, Made
    <3>4. QED
      BY <3>2, <3>3
  <2>4. CASE CancelTimer(u)
    BY <2>4 DEF CancelTimer, Goto, TypeOK, Made
  <2>5. CASE NewTimer(u)
    <3>1. CASE capture # None
      <4>1. capture \in Captures /\ capture = made /\ made <= made
        BY <3>1 DEF TypeOK, Made, Captures
      <4>2. /\ timer' = [timer EXCEPT ![u] = "created"]
            /\ stops' = [stops EXCEPT ![u] = capture]
            /\ npc' = [npc EXCEPT ![u] = "assign"]
            /\ UNCHANGED <<captures, now, on, recording_timer, cancelled, spc, saved, history>>
        BY <2>5, <3>1 DEF NewTimer, Goto
      <4>3. TypeOK'
        BY <4>1, <4>2 DEF TypeOK
      <4>4. Made'
        BY <4>1, <4>2 DEF TypeOK, Made
      <4>5. QED
        BY <4>3, <4>4
    <3>2. CASE capture = None
      <4>1. /\ npc' = [npc EXCEPT ![u] = "done"]
            /\ UNCHANGED <<captures, now, on, timers, spc, saved, history>>
        BY <2>5, <3>2 DEF NewTimer, Goto
      <4>2. QED
        BY <4>1 DEF TypeOK, Made
    <3>3. QED
      BY <3>1, <3>2
  <2>6. CASE AssignTimer(u)
    BY <2>6 DEF AssignTimer, Goto, TypeOK, Made
  <2>7. CASE StartTimer(u)
    <3>1. timer' \in [Utcs -> {"none", "created", "started", "fired"}]
      BY <2>7 DEF StartTimer, TypeOK
    <3>2. QED
      BY <2>7, <3>1 DEF StartTimer, Goto, TypeOK, Made
  <2>8. QED
    BY <1>4, <2>1, <2>2, <2>3, <2>4, <2>5, <2>6, <2>7 DEF handle_notification
<1>5. ASSUME NEW u \in Utcs, Fire(u) PROVE Base'
  <2>1. overlapped' \in BOOLEAN
    BY <1>5, Zenon DEF Fire
  <2>2. QED
    BY <1>5, <2>1 DEF Fire, StopGoto, TypeOK, Made
<1>6. ASSUME NEW u \in Utcs, stop_recording(u) PROVE Base'
  <2>1. stops[u] \in Captures
    BY DEF TypeOK
  <2>2. CASE Unset(u)
    BY <2>1, <2>2 DEF Unset, StopGoto, TypeOK, Made
  <2>3. CASE CopyFrames(u)
    BY <2>1, <2>3 DEF CopyFrames, StopGoto, TypeOK, Made
  <2>4. CASE ClearFrames(u)
    <3>1. TypeOK'
      BY <2>1, <2>4 DEF ClearFrames, StopGoto, TypeOK
    <3>2. Made'
      BY <2>1, <2>4 DEF ClearFrames, TypeOK, Made
    <3>3. QED
      BY <3>1, <3>2
  <2>5. CASE Forget(u)
    <3>1. TypeOK'
      BY <2>1, <2>5 DEF Forget, StopGoto, TypeOK
    <3>2. Made'
      BY <2>1, <2>5 DEF Forget, TypeOK, Made
    <3>3. QED
      BY <3>1, <3>2
  <2>6. CASE SaveRaises(u)
    BY <2>1, <2>6 DEF SaveRaises, StopGoto, TypeOK, Made
  <2>7. QED
    BY <1>6, <2>2, <2>3, <2>4, <2>5, <2>6 DEF stop_recording
<1>7. CASE UNCHANGED vars
  BY <1>7 DEF vars, TypeOK, Made
<1>8. QED
  BY <1>1, <1>2, <1>3, <1>4, <1>5, <1>6, <1>7 DEF Next

LEMMA BaseAlways == Spec => []Base
BY BaseInit, BaseNext, PTL DEF Spec

\* TypeOK, for any parameters: the buffers hold frames sampled, the entries of the
\* dictionaries are notifications.
THEOREM TypesHold == Spec => []TypeOK
<1>1. Base => TypeOK
  BY DEF Base
<1>2. QED
  BY <1>1, BaseAlways, PTL

--------------------------------------------------------------------------------
(***************************************************************************)
(* Who ends a recording. While the capture of the notifications at work    *)
(* has not been replaced, they are all at the present one; the last of     *)
(* them leaves its timer, or starts the one that was left.                 *)
(***************************************************************************)
Arming(u) == npc[u] \in {"cancel", "arm", "assign"}

\* The camera's timer will stop the present capture.
TimerSet ==
  /\ recording_timer \in Utcs \ cancelled
  /\ stops[recording_timer] = capture
  /\ \/ timer[recording_timer] = "created" /\ \E u \in Utcs : npc[u] = "start"
     \/ timer[recording_timer] = "started"
     \/ timer[recording_timer] = "fired" /\ spc[recording_timer] = "unset"

GuardInv ==
  /\ ~strayed => \A u \in Utcs : Notifying(u) => capture # None /\ on[u] = capture
  /\ \A u \in Utcs :
       /\ npc[u] \in {"new", "test", "begin"} \/ Arming(u) =>
            u \notin cancelled /\ recording_timer # u /\ timer[u] \in {"none", "created"}
       /\ npc[u] = "assign" => timer[u] = "created"
       /\ npc[u] = "assign" /\ ~strayed => stops[u] = capture
       /\ spc[u] = "unset" => timer[u] = "fired"
  /\ ~strayed /\ capture # None /\ is_recording[capture] =>
       (\E u \in Utcs : Arming(u)) \/ TimerSet

LEMMA GuardInit == Init => GuardInv
<1> SUFFICES ASSUME Init PROVE GuardInv
  OBVIOUS
<1>1. /\ \A u \in Utcs : npc[u] = "new" /\ timer[u] = "none" /\ spc[u] = "idle"
      /\ ~is_recording[1] /\ capture = 1 /\ cancelled = {}
  BY RecordingAssumption DEF Init, Captures
<1>2. \A u \in Utcs : recording_timer # u
  BY RecordingAssumption DEF Init
<1>3. QED
  BY <1>1, <1>2 DEF GuardInv, Notifying, Arming

LEMMA GuardNext == Base /\ GuardInv /\ [Next]_vars => GuardInv'
<1> SUFFICES ASSUME Base, GuardInv, [Next]_vars PROVE GuardInv'
  OBVIOUS
<1> USE RecordingAssumption DEF captures, timers, history, Base
<1>1. CASE add_recording_frame
  BY <1>1 DEF add_recording_frame, GuardInv, Notifying, Arming, TimerSet
<1>2. CASE StopCapture
  <2>1. /\ capture' = None /\ (strayed' <=> strayed \/ \E u \in Utcs : Notifying(u))
        /\ UNCHANGED <<npc, on, timers, spc>>
    BY <1>2 DEF StopCapture
  <2>2. ~strayed' => ~strayed /\ \A u \in Utcs : ~Notifying(u)
    BY <2>1
  <2>3. \A u \in Utcs : Notifying(u)' = Notifying(u) /\ Arming(u)' = Arming(u)
    BY <2>1 DEF Notifying, Arming
  <2>4. \A u \in Utcs : npc[u] = "assign" => Notifying(u)
    BY DEF Notifying
  <2>5. QED
    BY <2>1, <2>2, <2>3, <2>4 DEF GuardInv
<1>3. CASE StartCapture
  <2>1. /\ capture = None /\ capture' = made + 1 /\ made + 1 \in Captures /\ made \in Nat
        /\ UNCHANGED <<is_recording, npc, on, timers, spc, strayed>>
    BY <1>3 DEF StartCapture, TypeOK, Captures
  <2>2. ~is_recording'[capture']
    BY <2>1 DEF Made
  <2>3. ~strayed => \A u \in Utcs : ~Notifying(u)
    BY <2>1 DEF GuardInv
  <2>4. \A u \in Utcs : Notifying(u)' = Notifying(u) /\ Arming(u)' = Arming(u)
    BY <2>1 DEF Notifying, Arming
  <2>5. \A u \in Utcs : npc[u] = "assign" => Notifying(u)
    BY DEF Notifying
  <2>6. QED
    BY <2>1, <2>2, <2>3, <2>4, <2>5 DEF GuardInv
<1>4. ASSUME NEW u \in Utcs, handle_notification(u) PROVE GuardInv'
  <2>1. CASE Notify(u)
    <3>1. /\ capture # None /\ npc[u] = "new"
          /\ npc' = [npc EXCEPT ![u] = "test"] /\ on' = [on EXCEPT ![u] = capture]
          /\ UNCHANGED <<captures, timers, spc, strayed>>
      BY <2>1 DEF Notify, Goto
    <3>2. QED
      BY <3>1 DEF TypeOK, GuardInv, Notifying, Arming, TimerSet
  <2>2. CASE TestRecording(u)
    <3>1. /\ npc[u] = "test" /\ npc' \in {[npc EXCEPT ![u] = "done"], [npc EXCEPT ![u] = "begin"]}
          /\ UNCHANGED <<captures, on, timers, spc, strayed>>
      BY <2>2 DEF TestRecording, Goto
    <3>2. QED
      BY <3>1 DEF TypeOK, GuardInv, Notifying, Arming, TimerSet
  <2>3. CASE BeginRecording(u)
    <3>1. /\ npc[u] = "begin" /\ npc' = [npc EXCEPT ![u] = "cancel"]
          /\ UNCHANGED <<capture, on, timers, spc, strayed>>
      BY <2>3 DEF BeginRecording, Goto
    <3>2. Arming(u)'
      BY <3>1 DEF Arming, TypeOK
    <3>3. QED
      BY <3>1, <3>2 DEF TypeOK, GuardInv, Notifying, Arming
  <2>4. CASE CancelTimer(u)
    <3>1. /\ npc[u] = "cancel" /\ npc' = [npc EXCEPT ![u] = "arm"]
          /\ cancelled' = cancelled \union ({recording_timer} \ {NoTimer})
          /\ UNCHANGED <<captures, on, recording_timer, timer, stops, spc, strayed>>
      BY <2>4 DEF CancelTimer, Goto
    <3>2. Arming(u)'
      BY <3>1 DEF Arming, TypeOK
    <3>3. QED
      BY <3>1, <3>2 DEF TypeOK, GuardInv, Notifying, Arming
  <2>5. CASE NewTimer(u)
    <3>0. npc[u] = "arm" /\ Notifying(u)
      BY <2>5 DEF NewTimer, Notifying
    <3>1. CASE capture # None
      <4>1. /\ timer' = [timer EXCEPT ![u] = "created"]
            /\ stops' = [stops EXCEPT ![u] = capture]
            /\ npc' = [npc EXCEPT ![u] = "assign"]
            /\ UNCHANGED <<captures, on, recording_timer, cancelled, spc, strayed>>
        BY <2>5, <3>1 DEF NewTimer, Goto
      <4>2. Arming(u)'
        BY <4>1 DEF Arming, TypeOK
      <4>3. QED
        BY <3>0, <4>1, <4>2 DEF TypeOK, GuardInv, Notifying, Arming
    <3>2. CASE capture = None
      <4>1. /\ npc' = [npc EXCEPT ![u] = "done"]
            /\ UNCHANGED <<captures, on, timers, spc, strayed>>
        BY <2>5, <3>2 DEF NewTimer, Goto
      <4>2. QED
        BY <3>2, <4>1 DEF TypeOK, GuardInv, Notifying, Arming
    <3>3. QED
      BY <3>1, <3>2
  <2>6. CASE AssignTimer(u)
    <3>1. /\ npc[u] = "assign" /\ npc' = [npc EXCEPT ![u] = "start"]
          /\ recording_timer' = u
          /\ UNCHANGED <<captures, on, timer, stops, cancelled, spc, strayed>>
      BY <2>6 DEF AssignTimer, Goto
    <3>2. timer[u] = "created" /\ u \notin cancelled /\ npc'[u] = "start"
      BY <3>1 DEF TypeOK, GuardInv, Arming
    <3>3. ~strayed => TimerSet'
      BY <3>1, <3>2 DEF GuardInv, TimerSet
    <3>4. QED
      BY <3>1, <3>3 DEF TypeOK, GuardInv, Notifying, Arming
  <2>7. CASE StartTimer(u)
    <3>1. /\ npc[u] = "start" /\ npc' = [npc EXCEPT ![u] = "done"]
          /\ timer' = (IF timer[recording_timer] = "created"
                       THEN [timer EXCEPT ![recording_timer] = "started"] ELSE timer)
          /\ UNCHANGED <<captures, on, recording_timer, stops, cancelled, spc, strayed>>
      BY <2>7 DEF StartTimer, Goto
    <3>2. TimerSet => TimerSet'
      BY <3>1 DEF TimerSet, TypeOK
    <3>3. \A v \in Utcs : v # recording_timer => timer'[v] = timer[v]
      BY <3>1 DEF TypeOK
    <3>4. \A v \in Utcs : timer[v] = "fired" => timer'[v] = "fired"
      BY <3>1 DEF TypeOK
    <3>5. \A v \in Utcs : npc'[v] = IF v = u THEN "done" ELSE npc[v]
      BY <3>1 DEF TypeOK
    <3>6. \A v \in Utcs : Arming(v)' = Arming(v) /\ (Notifying(v)' => Notifying(v))
      BY <3>1, <3>5 DEF Arming, Notifying
    <3>7. \A v \in Utcs : npc'[v] \in {"new", "test", "begin"} \/ Arming(v)' =>
            /\ v \notin cancelled' /\ recording_timer' # v
            /\ timer'[v] \in {"none", "created"} /\ timer'[v] = timer[v]
      BY <3>1, <3>3, <3>5, <3>6 DEF GuardInv
    <3>8. \A v \in Utcs : npc'[v] = "assign" => npc[v] = "assign" /\ Arming(v)'
      BY <3>5, <3>6 DEF Arming
    <3>9. QED
      BY <3>1, <3>2, <3>4, <3>6, <3>7, <3>8 DEF GuardInv
  <2>8. QED
    BY <1>4, <2>1, <2>2, <2>3, <2>4, <2>5, <2>6, <2>7 DEF handle_notification
<1>5. ASSUME NEW u \in Utcs, Fire(u) PROVE GuardInv'
  <2>1. /\ timer[u] = "started" /\ u \notin cancelled
        /\ timer' = [timer EXCEPT ![u] = "fired"]
        /\ spc' = [spc EXCEPT ![u] = IF is_recording[stops[u]] THEN "unset" ELSE "done"]
        /\ UNCHANGED <<captures, npc, on, recording_timer, stops, cancelled, strayed>>
    BY <1>5 DEF Fire, Armed, StopGoto
  <2>2. TimerSet /\ is_recording[capture] => TimerSet'
    BY <2>1 DEF TimerSet, TypeOK
  <2>3. QED
    BY <2>1, <2>2 DEF TypeOK, GuardInv, Notifying, Arming
<1>6. ASSUME NEW u \in Utcs, stop_recording(u) PROVE GuardInv'
  <2>1. CASE Unset(u)
    <3>1. /\ spc[u] = "unset" /\ spc' = [spc EXCEPT ![u] = "copy"]
          /\ is_recording' = [is_recording EXCEPT ![stops[u]] = FALSE]
          /\ UNCHANGED <<capture, npc, on, timers, strayed>>
      BY <2>1 DEF Unset, StopGoto
    <3>2. capture # None /\ is_recording'[capture] => is_recording[capture] /\ stops[u] # capture
      BY <3>1 DEF TypeOK
    <3>3. capture # None /\ is_recording'[capture] /\ TimerSet => TimerSet'
      BY <3>1, <3>2 DEF TimerSet, TypeOK
    <3>4. QED
      BY <3>1, <3>2, <3>3 DEF TypeOK, GuardInv, Notifying, Arming
  <2>2. CASE CopyFrames(u) \/ SaveRaises(u) \/ ClearFrames(u) \/ Forget(u)
    <3>1. /\ spc[u] # "unset"
          /\ \A v \in Utcs : v # u => spc'[v] = spc[v]
          /\ spc'[u] # "unset"
          /\ UNCHANGED <<capture, is_recording, npc, on, timers, strayed>>
      BY <2>2 DEF CopyFrames, SaveRaises, ClearFrames, Forget, StopGoto, TypeOK
    <3>2. TimerSet => TimerSet'
      BY <3>1 DEF TimerSet
    <3>3. QED
      BY <3>1, <3>2 DEF GuardInv, Notifying, Arming
  <2>3. QED
    BY <1>6, <2>1, <2>2 DEF stop_recording
<1>7. CASE UNCHANGED vars
  BY <1>7 DEF vars, GuardInv, Notifying, Arming, TimerSet
<1>8. QED
  BY <1>1, <1>2, <1>3, <1>4, <1>5, <1>6, <1>7 DEF Next

\* Guarded, for any parameters: however notifications and timers overlap, a recording of
\* the present capture has somebody who ends it.
THEOREM RecordingsAreGuarded == Spec => []Guarded
<1>1. Base /\ GuardInv => Guarded
  <2> SUFFICES ASSUME Base, GuardInv, ~strayed, capture # None, is_recording[capture], ~Busy
               PROVE  \E u \in Armed : stops[u] = capture
    BY DEF Guarded
  <2>1. \A u \in Utcs : ~Notifying(u) /\ ~Stopping(u)
    BY DEF Busy
  <2>2. \A u \in Utcs : ~Arming(u) /\ npc[u] # "start" /\ spc[u] # "unset"
    BY <2>1 DEF Notifying, Stopping, Arming
  <2>3. TimerSet
    BY <2>2 DEF GuardInv
  <2>4. QED
    BY <2>2, <2>3 DEF TimerSet, Armed
<1>2. QED
  BY <1>1, BaseAlways, GuardInit, GuardNext, PTL DEF Spec

--------------------------------------------------------------------------------
(***************************************************************************)
(* Clips. A frame is in one buffer, and when the calls do not overlap it   *)
(* is in a clip and a buffer only between the copy and the clearing.       *)
(***************************************************************************)
AtWork(u) == Notifying(u) \/ Stopping(u)

ClipsInv ==
  /\ \A c, d \in Captures : c # d => recording_buffer[c] \intersect recording_buffer[d] = {}
  /\ ~overlapped =>
       /\ ClipsDisjoint
       /\ \A u \in Utcs : saved[u] \subseteq 1..now
       /\ \A u \in Utcs, c \in Captures :
            (spc[u] = "clear" /\ stops[u] = c) \/ saved[u] \intersect recording_buffer[c] = {}
       /\ \A u, v \in Utcs : AtWork(u) /\ AtWork(v) => u = v
       /\ \A u \in Utcs : ~(Notifying(u) /\ Stopping(u))

LEMMA ClipsInit == Init => ClipsInv
BY DEF Init, ClipsInv, ClipsDisjoint, AtWork, Notifying, Stopping

\* The first step of a notification or of a stop.
LEMMA ClipsBegin ==
  ASSUME Base, ClipsInv, NEW u \in Utcs, ~overlapped' => ~Busy /\ ~overlapped,
         UNCHANGED <<recording_buffer, saved, now>>,
         \A v \in Utcs \ {u} : /\ Notifying(v)' = Notifying(v) /\ Stopping(v)' = Stopping(v)
                               /\ spc'[v] = spc[v] /\ stops'[v] = stops[v],
         ~(Notifying(u)' /\ Stopping(u)'), spc'[u] # "clear"
  PROVE  ClipsInv'
<1>1. ~overlapped' => \A v \in Utcs : ~Notifying(v) /\ ~Stopping(v) /\ spc[v] # "clear"
  BY DEF Busy, Stopping
<1>2. ~overlapped' => ClipsDisjoint'
  BY DEF ClipsInv, ClipsDisjoint
<1>3. ~overlapped' => \A v, w \in Utcs : AtWork(v)' /\ AtWork(w)' => v = w
  BY <1>1 DEF AtWork
<1>4. QED
  BY <1>1, <1>2, <1>3 DEF ClipsInv

\* A later one.
LEMMA ClipsGoOn ==
  ASSUME Base, ClipsInv, UNCHANGED <<recording_buffer, saved, now, overlapped>>,
         \A v \in Utcs : /\ Notifying(v)' => Notifying(v)
                         /\ Stopping(v)' => Stopping(v)
                         /\ spc[v] = "clear" => spc'[v] = "clear" /\ stops'[v] = stops[v]
  PROVE  ClipsInv'
BY DEF ClipsInv, ClipsDisjoint, AtWork

LEMMA ClipsNext == Base /\ ClipsInv /\ [Next]_vars => ClipsInv'
<1> SUFFICES ASSUME Base, ClipsInv, [Next]_vars PROVE ClipsInv'
  OBVIOUS
<1> USE DEF captures, timers, history
<1>1. CASE add_recording_frame
  <2>1. /\ now \in Nat /\ now' = now + 1 /\ capture \in Captures
        /\ \A c \in Captures : recording_buffer[c] \subseteq 1..now
        /\ \A c \in Captures \ {capture} : recording_buffer'[c] = recording_buffer[c]
        /\ recording_buffer'[capture] \subseteq recording_buffer[capture] \union {now + 1}
        /\ UNCHANGED <<saved, npc, spc, stops, overlapped>>
    BY <1>1 DEF add_recording_frame, Base, TypeOK, Made
  <2>2. \A c, d \in Captures : c # d => recording_buffer'[c] \intersect recording_buffer'[d] = {}
    <3>1. \A c \in Captures : now + 1 \notin recording_buffer[c]
      BY <2>1
    <3>2. QED
      BY <2>1, <3>1 DEF ClipsInv
  <2>3. ASSUME ~overlapped, NEW u \in Utcs
        PROVE  /\ saved[u] \subseteq 1..(now + 1)
               /\ \A c \in Captures : (spc[u] = "clear" /\ stops[u] = c)
                                        \/ saved[u] \intersect recording_buffer'[c] = {}
    <3>1. saved[u] \subseteq 1..now /\ now + 1 \notin saved[u]
      BY <2>1, <2>3 DEF ClipsInv
    <3>2. ASSUME NEW c \in Captures, ~(spc[u] = "clear" /\ stops[u] = c)
          PROVE  saved[u] \intersect recording_buffer'[c] = {}
      <4>1. saved[u] \intersect recording_buffer[c] = {}
        BY <2>3, <3>2 DEF ClipsInv
      <4>2. recording_buffer'[c] \subseteq recording_buffer[c] \union {now + 1}
        BY <2>1
      <4>3. QED
        BY <3>1, <4>1, <4>2
    <3>3. QED
      BY <2>1, <3>1, <3>2
  <2>4. \A u \in Utcs : Notifying(u)' = Notifying(u) /\ Stopping(u)' = Stopping(u)
    BY <2>1 DEF Notifying, Stopping
  <2>5. QED
    BY <2>1, <2>2, <2>3, <2>4 DEF ClipsInv, ClipsDisjoint, AtWork
<1>2. CASE StopCapture \/ StartCapture
  BY <1>2, ClipsGoOn DEF StopCapture, StartCapture, Notifying, Stopping
<1>3. ASSUME NEW u \in Utcs, Notify(u) PROVE ClipsInv'
  <2>1. /\ npc' = [npc EXCEPT ![u] = "test"]
        /\ (overlapped' <=> overlapped \/ Busy)
        /\ UNCHANGED <<recording_buffer, saved, now, spc, stops>>
    BY <1>3 DEF Notify, Goto
  <2>2. \A v \in Utcs \ {u} : Notifying(v)' = Notifying(v) /\ Stopping(v)' = Stopping(v)
    BY <2>1 DEF Notifying, Stopping, Base, TypeOK
  <2>3. CASE overlapped'
    BY <2>1, <2>3 DEF ClipsInv
  <2>4. CASE ~overlapped'
    <3>1. ~Stopping(u)' /\ spc'[u] # "clear"
      BY <2>1, <2>4 DEF Busy, Stopping
    <3>2. QED
      BY <2>1, <2>2, <3>1, ClipsBegin
  <2>5. QED
    BY <2>3, <2>4
<1>4. ASSUME NEW u \in Utcs, handle_notification(u), ~Notify(u) PROVE ClipsInv'
  <2>1. /\ npc[u] \notin {"new", "done"} /\ (\A v \in Utcs \ {u} : npc'[v] = npc[v])
        /\ UNCHANGED <<recording_buffer, saved, now, overlapped, spc>>
        /\ \A v \in Utcs \ {u} : stops'[v] = stops[v]
        /\ spc[u] = "clear" => stops'[u] = stops[u] \/ npc[u] = "arm"
    BY <1>4 DEF handle_notification, TestRecording, BeginRecording, CancelTimer, NewTimer,
                AssignTimer, StartTimer, Goto, Base, TypeOK
  <2>2. \A v \in Utcs : (Notifying(v)' => Notifying(v)) /\ Stopping(v)' = Stopping(v)
    BY <2>1 DEF Notifying, Stopping
  <2>3. CASE overlapped
    BY <2>1, <2>3 DEF ClipsInv
  <2>4. CASE ~overlapped
    <3>1. spc[u] # "clear"
      BY <2>1, <2>4 DEF ClipsInv, Notifying, Stopping
    <3>2. QED
      BY <2>1, <2>2, <3>1, ClipsGoOn
  <2>5. QED
    BY <2>3, <2>4
<1>5. ASSUME NEW u \in Utcs, Fire(u) PROVE ClipsInv'
  <2>1. /\ spc' = [spc EXCEPT ![u] = IF is_recording[stops[u]] THEN "unset" ELSE "done"]
        /\ (overlapped' <=> overlapped \/ Busy)
        /\ UNCHANGED <<recording_buffer, saved, now, npc, stops>>
    BY <1>5 DEF Fire, StopGoto
  <2>2. \A v \in Utcs \ {u} : Notifying(v)' = Notifying(v) /\ Stopping(v)' = Stopping(v)
                              /\ spc'[v] = spc[v]
    BY <2>1 DEF Notifying, Stopping, Base, TypeOK
  <2>3. CASE overlapped'
    BY <2>1, <2>3 DEF ClipsInv
  <2>4. CASE ~overlapped'
    <3>1. ~Notifying(u)' /\ spc'[u] # "clear"
      BY <2>1, <2>4 DEF Busy, Notifying, Base, TypeOK
    <3>2. QED
      BY <2>1, <2>2, <2>4, <3>1, ClipsBegin
  <2>5. QED
    BY <2>3, <2>4
<1>6. ASSUME NEW u \in Utcs, Unset(u) \/ SaveRaises(u) \/ Forget(u) PROVE ClipsInv'
  <2>1. /\ spc[u] \notin {"idle", "done", "failed", "raised", "clear"} /\ spc'[u] # "clear"
        /\ (\A v \in Utcs \ {u} : spc'[v] = spc[v])
        /\ UNCHANGED <<recording_buffer, saved, now, overlapped, npc, stops>>
    BY <1>6 DEF Unset, SaveRaises, Forget, StopGoto, Base, TypeOK
  <2>2. QED
    BY <2>1, ClipsGoOn DEF Notifying, Stopping
<1>7. ASSUME NEW u \in Utcs, CopyFrames(u) PROVE ClipsInv'
  <2>1. /\ spc[u] = "copy" /\ stops[u] \in Captures
        /\ (\A v \in Utcs \ {u} : spc'[v] = spc[v] /\ saved'[v] = saved[v])
        /\ UNCHANGED <<recording_buffer, now, overlapped, npc, stops>>
        /\ \/ saved'[u] = recording_buffer[stops[u]] /\ spc'[u] = "clear"
           \/ saved' = saved /\ spc'[u] = "failed"
    BY <1>7 DEF CopyFrames, StopGoto, Base, TypeOK
  <2>2. CASE saved' = saved /\ spc'[u] = "failed"
    BY <2>1, <2>2, ClipsGoOn DEF Notifying, Stopping
  <2>3. CASE overlapped
    BY <2>1, <2>3 DEF ClipsInv
  <2>4. CASE ~overlapped /\ saved'[u] = recording_buffer[stops[u]] /\ spc'[u] = "clear"
    <3>1. AtWork(u) /\ \A v \in Utcs \ {u} : spc[v] # "clear"
      BY <2>1, <2>4 DEF ClipsInv, AtWork, Stopping
    <3>2. \A v \in Utcs \ {u} : saved[v] \intersect recording_buffer[stops[u]] = {}
      BY <2>1, <2>4, <3>1 DEF ClipsInv
    <3>3. ClipsDisjoint'
      BY <2>1, <2>4, <3>2 DEF ClipsInv, ClipsDisjoint
    <3>4. \A v \in Utcs : saved'[v] \subseteq 1..now
      BY <2>1, <2>4 DEF ClipsInv, Base, Made
    <3>5. \A v \in Utcs, c \in Captures :
            (spc'[v] = "clear" /\ stops[v] = c) \/ saved'[v] \intersect recording_buffer[c] = {}
      BY <2>1, <2>4, <3>1 DEF ClipsInv
    <3>6. \A v \in Utcs : Notifying(v)' = Notifying(v) /\ Stopping(v)' = Stopping(v)
      BY <2>1, <2>4 DEF Notifying, Stopping
    <3>7. QED
      BY <2>1, <2>4, <3>3, <3>4, <3>5, <3>6 DEF ClipsInv, AtWork
  <2>5. QED
    BY <2>1, <2>2, <2>3, <2>4
<1>8. ASSUME NEW u \in Utcs, ClearFrames(u) PROVE ClipsInv'
  <2>1. /\ spc[u] = "clear" /\ stops[u] \in Captures
        /\ (\A v \in Utcs \ {u} : spc'[v] = spc[v]) /\ spc'[u] = "forget"
        /\ recording_buffer'[stops[u]] = {}
        /\ \A c \in Captures \ {stops[u]} : recording_buffer'[c] = recording_buffer[c]
        /\ UNCHANGED <<saved, now, overlapped, npc, stops>>
    BY <1>8 DEF ClearFrames, StopGoto, Base, TypeOK
  <2>2. \A v \in Utcs : Notifying(v)' = Notifying(v) /\ Stopping(v)' = Stopping(v)
    BY <2>1 DEF Notifying, Stopping
  <2>3. QED
    BY <2>1, <2>2 DEF ClipsInv, ClipsDisjoint, AtWork
<1>9. CASE UNCHANGED vars
  BY <1>9, ClipsGoOn DEF vars, Notifying, Stopping
<1>10. QED
  BY <1>1, <1>2, <1>3, <1>4, <1>5, <1>6, <1>7, <1>8, <1>9 DEF Next, stop_recording

\* ClipsDisjoint, for any parameters: as long as the calls do not overlap no frame is in
\* two clips.
THEOREM ClipsAreDisjoint == Spec => []ClipsDisjoint
<1>1. ClipsInv => ClipsDisjoint
  BY DEF ClipsInv, ClipsDisjoint
<1>2. QED
  BY <1>1, BaseAlways, ClipsInit, ClipsNext, PTL DEF Spec

--------------------------------------------------------------------------------
(***************************************************************************)
(* A clip is complete. As long as nothing was trimmed or taken, the buffer *)
(* of a recording's capture holds every frame sampled since it began.      *)
(***************************************************************************)
Since(u) == {f \in Frames : began[u] < f /\ f <= now}

CompleteInv ==
  \A u \in Utcs :
    /\ \A c \in Captures : u \in recordings[c] => c = on[u]
    /\ npc[u] \in {"new", "test", "begin"} => \A c \in Captures : u \notin recordings[c]
    /\ capture = on[u] /\ u \in recordings[on[u]] /\ u \notin cut /\ spc[u] # "forget" =>
         Since(u) \subseteq recording_buffer[on[u]]

\* A timer fires once, and stops what its notification began or fails.
StopInv ==
  \A u \in Utcs :
    /\ spc[u] # "idle" => timer[u] = "fired"
    /\ spc[u] \in {"clear", "forget"} => stops[u] = on[u]

LEMMA StopNext == Base /\ GuardInv /\ StopInv /\ CompleteInv /\ [Next]_vars => StopInv'
<1> SUFFICES ASSUME Base, GuardInv, StopInv, CompleteInv, [Next]_vars PROVE StopInv'
  OBVIOUS
<1> USE DEF captures, timers, history
<1>1. CASE add_recording_frame \/ StopCapture \/ StartCapture
  BY <1>1 DEF add_recording_frame, StopCapture, StartCapture, StopInv
<1>2. ASSUME NEW u \in Utcs, handle_notification(u) PROVE StopInv'
  <2>1. npc[u] \in {"new", "arm"} => spc[u] = "idle"
    BY DEF StopInv, GuardInv, Arming
  <2>2. /\ UNCHANGED spc
        /\ \A v \in Utcs \ {u} : on'[v] = on[v] /\ stops'[v] = stops[v]
        /\ npc[u] \notin {"new", "arm"} => on'[u] = on[u] /\ stops'[u] = stops[u]
    BY <1>2 DEF handle_notification, Notify, TestRecording, BeginRecording, CancelTimer, NewTimer,
                AssignTimer, StartTimer, Base, TypeOK
  <2>3. \A v \in Utcs : timer[v] = "fired" => timer'[v] = "fired"
    <3>1. npc[u] = "arm" => timer[u] # "fired"
      BY DEF GuardInv, Arming
    <3>2. QED
      BY <1>2, <3>1 DEF handle_notification, Notify, TestRecording, BeginRecording, CancelTimer,
                        NewTimer, AssignTimer, StartTimer, Base, TypeOK
  <2>4. QED
    BY <2>1, <2>2, <2>3 DEF StopInv
<1>3. ASSUME NEW u \in Utcs, Fire(u) PROVE StopInv'
  BY <1>3 DEF Fire, StopGoto, Base, TypeOK, StopInv
<1>4. ASSUME NEW u \in Utcs, stop_recording(u) PROVE StopInv'
  <2>1. /\ spc[u] # "idle" /\ (\A v \in Utcs \ {u} : spc'[v] = spc[v])
        /\ UNCHANGED <<timer, stops, on>>
        /\ spc'[u] = "clear" => u \in recordings[stops[u]]
        /\ spc'[u] = "forget" => spc[u] = "clear"
    BY <1>4 DEF stop_recording, Unset, CopyFrames, SaveRaises, ClearFrames, Forget, StopGoto, Base, TypeOK
  <2>2. spc'[u] \in {"clear", "forget"} => stops[u] = on[u]
    BY <2>1 DEF StopInv, CompleteInv, Base, TypeOK
  <2>3. QED
    BY <2>1, <2>2 DEF StopInv
<1>5. CASE UNCHANGED vars
  BY <1>5 DEF vars, StopInv
<1>6. QED
  BY <1>1, <1>2, <1>3, <1>4, <1>5 DEF Next

\* A step that leaves the recordings and the buffers alone.
LEMMA CompleteRests ==
  ASSUME Base, [Next]_vars, CompleteInv, UNCHANGED <<recordings, recording_buffer, now, began>>, cut \subseteq cut',
         \A u \in Utcs :
           /\ npc'[u] \in {"new", "test", "begin"} => npc[u] \in {"new", "test", "begin"}
           /\ on'[u] = on[u] \/ npc[u] = "new"
           /\ capture' = on[u] => capture = on[u]
           /\ spc[u] = "forget" => spc'[u] = "forget"
  PROVE  CompleteInv'
<1>1. \A u \in Utcs : Since(u)' = Since(u)
  BY DEF Since
<1>2. ASSUME NEW u \in Utcs, NEW c \in Captures, u \in recordings[c] PROVE on'[u] = on[u] /\ c = on[u]
  BY <1>2 DEF CompleteInv
<1>3. \A u \in Utcs : npc'[u] \in {"new", "test", "begin"} => \A c \in Captures : u \notin recordings[c]
  BY DEF CompleteInv
<1>4. ASSUME NEW u \in Utcs, capture' = on'[u], u \in recordings[on'[u]], on'[u] \in Captures,
             u \notin cut', spc'[u] # "forget"
      PROVE  Since(u) \subseteq recording_buffer[on'[u]]
  BY <1>2, <1>4 DEF CompleteInv
<1>5. \A u \in Utcs : on'[u] \in Captures
  BY BaseNext DEF Base, TypeOK
<1>6. QED
  BY <1>1, <1>2, <1>3, <1>4, <1>5 DEF CompleteInv

LEMMA CompleteNext == Base /\ StopInv /\ CompleteInv /\ [Next]_vars => CompleteInv'
<1> SUFFICES ASSUME Base, StopInv, CompleteInv, [Next]_vars PROVE CompleteInv'
  OBVIOUS
<1> USE DEF captures, timers, history
<1>0. /\ now \in Nat /\ made \in Captures
      /\ \A u \in Utcs : on[u] \in Captures /\ stops[u] \in Captures
  BY DEF Base, TypeOK
<1>1. CASE add_recording_frame
  <2>1. /\ capture \in Captures /\ now' = now + 1
        /\ \A c \in Captures \ {capture} : recording_buffer'[c] = recording_buffer[c]
        /\ is_recording[capture] =>
             recording_buffer'[capture] = recording_buffer[capture] \union {now + 1}
        /\ cut' = cut \union (IF is_recording[capture] THEN {} ELSE recordings[capture])
        /\ UNCHANGED <<capture, recordings, npc, on, spc, began>>
    BY <1>1 DEF add_recording_frame, Base, TypeOK
  <2>2. ASSUME NEW u \in Utcs, capture = on[u], u \in recordings[on[u]], u \notin cut', spc[u] # "forget"
        PROVE  Since(u)' \subseteq recording_buffer'[on[u]]
    <3>1. is_recording[capture] /\ u \notin cut
      BY <2>1, <2>2
    <3>2. Since(u) \subseteq recording_buffer[capture]
      BY <2>2, <3>1 DEF CompleteInv
    <3>3. Since(u)' \subseteq Since(u) \union {now + 1}
      BY <1>0, <2>1 DEF Since, Frames
    <3>4. QED
      BY <2>1, <2>2, <3>1, <3>2, <3>3
  <2>3. QED
    BY <2>1, <2>2 DEF CompleteInv
<1>2. CASE StopCapture
  <2>1. \A u \in Utcs : on[u] # None
    BY <1>0 DEF Captures, None
  <2>2. QED
    BY <1>2, <2>1, CompleteRests DEF StopCapture
<1>3. CASE StartCapture
  <2>1. \A u \in Utcs : on[u] # made + 1
    BY <1>0 DEF Base, Made, Captures
  <2>2. QED
    BY <1>3, <2>1, CompleteRests DEF StartCapture
<1>4. ASSUME NEW u \in Utcs, handle_notification(u), ~BeginRecording(u) PROVE CompleteInv'
  <2>1. /\ UNCHANGED <<recordings, recording_buffer, now, began, cut, capture, spc>>
        /\ \A v \in Utcs \ {u} : npc'[v] = npc[v] /\ on'[v] = on[v]
        /\ on'[u] = on[u] \/ npc[u] = "new"
        /\ npc'[u] \in {"new", "test", "begin"} => npc[u] \in {"new", "test", "begin"}
    BY <1>4 DEF handle_notification, Notify, TestRecording, CancelTimer, NewTimer,
                AssignTimer, StartTimer, Goto, Base, TypeOK
  <2>2. QED
    BY <2>1, CompleteRests
<1>5. ASSUME NEW u \in Utcs, BeginRecording(u) PROVE CompleteInv'
  <2>1. /\ npc[u] = "begin" /\ npc'[u] = "cancel" /\ (\A v \in Utcs \ {u} : npc'[v] = npc[v])
        /\ recordings'[on[u]] = recordings[on[u]] \union {u}
        /\ \A c \in Captures \ {on[u]} : recordings'[c] = recordings[c]
        /\ began'[u] = now /\ (\A v \in Utcs \ {u} : began'[v] = began[v])
        /\ UNCHANGED <<capture, recording_buffer, now, on, spc, cut>>
    BY <1>0, <1>5 DEF BeginRecording, Goto, Base, TypeOK
  <2>2. Since(u)' = {} /\ \A v \in Utcs \ {u} : Since(v)' = Since(v)
    BY <1>0, <2>1 DEF Since, Frames
  <2>3. \A v \in Utcs \ {u}, c \in Captures : v \in recordings'[c] <=> v \in recordings[c]
    BY <1>0, <2>1
  <2>4. \A c \in Captures : u \in recordings'[c] => c = on[u]
    BY <2>1 DEF CompleteInv
  <2>5. ASSUME NEW v \in Utcs
        PROVE  /\ \A c \in Captures : v \in recordings'[c] => c = on'[v]
               /\ npc'[v] \in {"new", "test", "begin"} => \A c \in Captures : v \notin recordings'[c]
               /\ capture' = on'[v] /\ v \in recordings'[on'[v]] /\ v \notin cut' /\ spc'[v] # "forget"
                    => Since(v)' \subseteq recording_buffer'[on'[v]]
    <3>1. CASE v = u
      BY <2>1, <2>2, <2>4, <3>1
    <3>2. CASE v # u
      BY <1>0, <2>1, <2>2, <2>3, <3>2 DEF CompleteInv
    <3>3. QED
      BY <3>1, <3>2
  <2>6. QED
    BY <2>5 DEF CompleteInv
<1>6. ASSUME NEW u \in Utcs, Fire(u) \/ Unset(u) \/ CopyFrames(u) \/ SaveRaises(u)
      PROVE  CompleteInv'
  <2>1. /\ UNCHANGED <<recordings, recording_buffer, now, began, npc, on, capture>>
        /\ cut \subseteq cut'
        /\ spc[u] # "forget" /\ (\A v \in Utcs \ {u} : spc'[v] = spc[v])
    BY <1>6 DEF Fire, Armed, Unset, CopyFrames, SaveRaises, StopGoto, Base, TypeOK, StopInv
  <2>2. QED
    BY <2>1, CompleteRests
<1>7. ASSUME NEW u \in Utcs, ClearFrames(u) PROVE CompleteInv'
  <2>1. /\ spc'[u] = "forget" /\ (\A v \in Utcs \ {u} : spc'[v] = spc[v])
        /\ \A c \in Captures \ {stops[u]} : recording_buffer'[c] = recording_buffer[c]
        /\ cut' = cut \union (recordings[stops[u]] \ {u})
        /\ UNCHANGED <<capture, recordings, now, npc, on, began>>
    BY <1>7 DEF ClearFrames, StopGoto, Base, TypeOK
  <2>2. \A v \in Utcs : Since(v)' = Since(v)
    BY <2>1 DEF Since
  <2>3. QED
    BY <1>0, <2>1, <2>2 DEF CompleteInv
<1>8. ASSUME NEW u \in Utcs, Forget(u) PROVE CompleteInv'
  <2>1. /\ (\A v \in Utcs \ {u} : spc'[v] = spc[v])
        /\ \A c \in Captures : recordings'[c] \subseteq recordings[c]
        /\ u \notin recordings'[on[u]]
        /\ UNCHANGED <<capture, recording_buffer, now, npc, on, cut, began>>
    BY <1>0, <1>8 DEF Forget, StopGoto, Base, TypeOK, StopInv
  <2>2. \A v \in Utcs : Since(v)' = Since(v)
    BY <2>1 DEF Since
  <2>3. QED
    BY <1>0, <2>1, <2>2 DEF CompleteInv
<1>9. CASE UNCHANGED vars
  BY <1>9, CompleteRests DEF vars
<1>10. QED
  BY <1>1, <1>2, <1>3, <1>4, <1>5, <1>6, <1>7, <1>8, <1>9 DEF Next, stop_recording

\* ClipComplete, for any parameters: the frames of a recording reach its file, but for
\* the two cases that its comment names.
THEOREM ClipsAreComplete == Spec => ClipComplete
<1>1. Init => StopInv /\ CompleteInv
  BY RecordingAssumption DEF Init, StopInv, CompleteInv, Captures
<1>2. Spec => [](Base /\ StopInv /\ CompleteInv)
  BY <1>1, BaseAlways, GuardInit, GuardNext, StopNext, CompleteNext, PTL DEF Spec
<1>3. ASSUME Base, StopInv, CompleteInv, [Next]_vars, NEW u \in Utcs,
             spc[u] = "copy", spc'[u] = "clear", on[u] = capture, u \notin cut
      PROVE  {f \in Frames : began[u] < f /\ f <= now} \subseteq saved'[u]
  <2>1. CopyFrames(u)
    <3>1. ASSUME NEW v \in Utcs, Fire(v) \/ stop_recording(v), ~CopyFrames(u) PROVE FALSE
      BY <1>3, <3>1 DEF stop_recording, Fire, Unset, CopyFrames, SaveRaises, ClearFrames, Forget, StopGoto,
                        Base, TypeOK
    <3>2. ~UNCHANGED spc
      BY <1>3
    <3>3. QED
      BY <1>3, <3>1, <3>2
         DEF Next, vars, add_recording_frame, StopCapture, StartCapture, handle_notification,
             Notify, TestRecording, BeginRecording, CancelTimer, NewTimer, AssignTimer, StartTimer
  <2>2. u \in recordings[stops[u]] /\ saved'[u] = recording_buffer[stops[u]] /\ stops[u] \in Captures
    BY <1>3, <2>1 DEF CopyFrames, StopGoto, Base, TypeOK
  <2>3. stops[u] = on[u]
    BY <1>3, <2>2 DEF CompleteInv
  <2>4. Since(u) \subseteq recording_buffer[on[u]]
    BY <1>3, <2>2, <2>3 DEF CompleteInv
  <2>5. QED
    BY <2>2, <2>3, <2>4 DEF Since
<1>4. Base /\ StopInv /\ CompleteInv /\ [Next]_vars
        => [\A u \in Utcs :
              spc[u] = "copy" /\ spc'[u] = "clear" /\ on[u] = capture /\ u \notin cut
                => {f \in Frames : began[u] < f /\ f <= now} \subseteq saved'[u]]_vars
  BY <1>3
<1>5. QED
  BY <1>2, <1>4, PTL DEF Spec, ClipComplete

--------------------------------------------------------------------------------
(***************************************************************************)
(* As long as the calls do not overlap, the capture may still be replaced  *)
(* under any of them: then a timer stops the new capture while the old one *)
(* keeps its entry, and nobody but the next notification may record on the *)
(* new one.                                                                *)
(***************************************************************************)
Begun(u) == npc[u] \in {"cancel", "arm", "assign", "start"}

\* At most the camera's timer is armed, and not even that one while another is made.
OneTimer ==
  /\ Armed \subseteq {recording_timer}
  /\ \A u \in Utcs :
       /\ npc[u] \in {"arm", "assign", "start"} => Armed = {}
       /\ npc[u] = "start" =>
            recording_timer = u /\ timer[u] = "created" /\ u \notin cancelled

\* A capture has one entry while it records or is being stopped, else none.
OneEntry ==
  \A c \in Captures :
    /\ \A u, v \in recordings[c] : u = v
    /\ \/ is_recording[c]
       \/ recordings[c] = {}
       \/ \E u \in Utcs : spc[u] \in {"copy", "clear", "forget"} /\ stops[u] = c

\* What a timer stops, now or when it fires, is its own recording; the one of a
\* notification that is about to cancel it excepted.
StopsOwn ==
  /\ \A u \in Utcs : spc[u] # "failed" /\ (Stopping(u) => u \in recordings[stops[u]])
  /\ \A u \in Armed :
       \/ is_recording[stops[u]] => u \in recordings[stops[u]]
       \/ \E v \in Utcs : npc[v] = "cancel"

\* What a notification finds: no capture that came after its own records anything.
Finds ==
  \A u \in Utcs :
    /\ Notifying(u) => \A c \in Captures : c > on[u] => ~is_recording[c]
    /\ npc[u] = "begin" => ~is_recording[on[u]]
    /\ Begun(u) => u \in recordings[on[u]]
    /\ npc[u] \in {"assign", "start"} => on[u] <= stops[u]

\* Who ends the recording of the present capture, once its capture may have been
\* replaced under a notification.
Ends ==
  capture # None /\ is_recording[capture] =>
    \/ \E u \in Utcs : Begun(u) /\ on[u] = capture
                       /\ (npc[u] \in {"assign", "start"} => stops[u] = capture)
    \/ \E u \in Utcs : spc[u] = "unset" /\ stops[u] = capture
    \/ recording_timer \in Armed /\ stops[recording_timer] = capture

\* Every clip was handed to a writer.
Saved == \A u \in Utcs : spc[u] # "raised"

OrphanInv == ~overlapped /\ Saved => OneTimer /\ OneEntry /\ StopsOwn /\ Finds /\ Ends

LEMMA OrphanInit == Init => OrphanInv
<1> SUFFICES ASSUME Init PROVE OneTimer /\ OneEntry /\ StopsOwn /\ Finds /\ Ends
  BY DEF OrphanInv
<1>1. /\ \A u \in Utcs : npc[u] = "new" /\ spc[u] = "idle" /\ timer[u] = "none"
      /\ \A c \in Captures : ~is_recording[c] /\ recordings[c] = {}
      /\ capture \in Captures
  BY RecordingAssumption DEF Init, Captures
<1>2. Armed = {}
  BY <1>1 DEF Armed
<1>3. OneTimer /\ OneEntry /\ StopsOwn /\ Ends
  BY <1>1, <1>2 DEF OneTimer, OneEntry, StopsOwn, Ends, Stopping
<1>4. Finds
  BY <1>1 DEF Finds, Notifying, Begun
<1>5. QED
  BY <1>3, <1>4

\* Whoever is at work is alone.
LEMMA Alone ==
  ASSUME Base, ClipsInv, ~overlapped, NEW u \in Utcs, AtWork(u)
  PROVE  /\ \A v \in Utcs \ {u} :
              npc[v] \in {"new", "done"} /\ spc[v] \in {"idle", "done", "failed", "raised"}
         /\ Notifying(u) => spc[u] \in {"idle", "done", "failed", "raised"}
         /\ Stopping(u) => npc[u] \in {"new", "done"}
BY DEF Base, TypeOK, ClipsInv, AtWork, Notifying, Stopping

\* The streaming thread, and the capture.
LEMMA CaptureOrphan ==
  ASSUME Base, OrphanInv, add_recording_frame \/ StopCapture \/ StartCapture
  PROVE  OrphanInv'
<1> SUFFICES ASSUME ~overlapped', Saved'
             PROVE  (OneTimer /\ OneEntry /\ StopsOwn /\ Finds /\ Ends)'
  BY DEF OrphanInv
<1>1. /\ UNCHANGED <<is_recording, recordings, npc, on, timers, spc, overlapped>>
      /\ \/ UNCHANGED capture
         \/ capture' = None
         \/ capture' = made + 1 /\ made + 1 \in Captures
  BY RecordingAssumption
     DEF add_recording_frame, StopCapture, StartCapture, history, Base, TypeOK, Captures
<1>2. OneTimer /\ OneEntry /\ StopsOwn /\ Finds /\ Ends
  BY <1>1 DEF OrphanInv, Saved
<1>3. OneTimer' /\ OneEntry' /\ StopsOwn' /\ Finds'
  BY <1>1, <1>2 DEF timers, OneTimer, OneEntry, StopsOwn, Finds, Armed, Notifying, Stopping, Begun
<1>4. capture' = made + 1 /\ made + 1 \in Captures => ~is_recording[capture']
  BY DEF Base, TypeOK, Made, Captures
<1>5. Ends'
  BY <1>1, <1>2, <1>4 DEF timers, Ends, Armed, Begun
<1>6. QED
  BY <1>3, <1>5

\* A notification begins when nobody is at work, or the overlap is noted.
LEMMA NotifyOrphan ==
  ASSUME Base, OrphanInv, NEW u \in Utcs, Notify(u)
  PROVE  OrphanInv'
<1> SUFFICES ASSUME ~overlapped', Saved'
             PROVE  (OneTimer /\ OneEntry /\ StopsOwn /\ Finds /\ Ends)'
  BY DEF OrphanInv
<1>1. /\ capture \in Captures /\ npc[u] = "new" /\ npc'[u] = "test" /\ on'[u] = capture
      /\ \A v \in Utcs \ {u} : npc'[v] = npc[v] /\ on'[v] = on[v]
      /\ UNCHANGED <<capture, is_recording, recordings, timers, spc>>
      /\ ~overlapped /\ ~Busy
  BY DEF Notify, Goto, captures, Base, TypeOK
<1>2. OneTimer /\ OneEntry /\ StopsOwn /\ Finds /\ Ends
  BY <1>1 DEF OrphanInv, Saved
<1>3. \A v \in Utcs : npc[v] \in {"new", "done"} /\ spc[v] \in {"idle", "done", "failed", "raised"}
  BY <1>1 DEF Busy, Notifying, Stopping, Base, TypeOK
<1>4. \A v \in Utcs : npc'[v] \in {"new", "done", "test"}
  BY <1>1, <1>3
<1>5. OneTimer' /\ OneEntry'
  BY <1>1, <1>2, <1>4 DEF timers, OneTimer, OneEntry, Armed
<1>6. StopsOwn'
  BY <1>1, <1>2, <1>3 DEF timers, StopsOwn, Armed, Stopping
<1>7. Finds'
  <2>1. \A c \in Captures : c > capture => ~is_recording[c]
    BY <1>1 DEF Base, Made, Captures, None
  <2>2. QED
    BY <1>1, <1>3, <1>4, <2>1 DEF Finds, Notifying, Begun
<1>8. Ends'
  BY <1>1, <1>2, <1>3 DEF timers, Ends, Armed, Begun
<1>9. QED
  BY <1>5, <1>6, <1>7, <1>8

LEMMA BeginOrphan ==
  ASSUME Base, ClipsInv, OrphanInv, NEW u \in Utcs, TestRecording(u) \/ BeginRecording(u)
  PROVE  OrphanInv'
<1> SUFFICES ASSUME ~overlapped', Saved'
             PROVE  (OneTimer /\ OneEntry /\ StopsOwn /\ Finds /\ Ends)'
  BY DEF OrphanInv
<1>1. /\ npc[u] \in {"test", "begin"} /\ Notifying(u) /\ ~overlapped
      /\ \A v \in Utcs \ {u} : npc'[v] = npc[v]
      /\ UNCHANGED <<capture, on, timers, spc>>
  BY DEF TestRecording, BeginRecording, Goto, captures, history, Notifying, Base, TypeOK
<1>2. OneTimer /\ OneEntry /\ StopsOwn /\ Finds /\ Ends
  BY <1>1 DEF OrphanInv, Saved
<1>3. /\ \A v \in Utcs \ {u} : npc[v] \in {"new", "done"}
      /\ \A v \in Utcs : spc[v] \in {"idle", "done", "failed", "raised"}
  BY <1>1, Alone DEF AtWork
<1>4. on[u] \in Captures
  BY DEF Base, TypeOK
<1>5. CASE TestRecording(u)
  <2>1. /\ npc'[u] \in {"begin", "done"}
        /\ npc'[u] = "begin" => ~is_recording[on[u]]
        /\ npc[u] = "test" /\ UNCHANGED <<is_recording, recordings>>
    BY <1>5 DEF TestRecording, Goto, captures, Base, TypeOK
  <2>2. OneTimer' /\ OneEntry'
    BY <1>1, <1>2, <1>3, <2>1 DEF timers, OneTimer, OneEntry, Armed
  <2>3. StopsOwn'
    BY <1>1, <1>2, <1>3, <2>1 DEF timers, StopsOwn, Armed, Stopping
  <2>4. Finds'
    BY <1>1, <1>2, <1>3, <2>1 DEF Finds, Notifying, Begun
  <2>5. Ends'
    BY <1>1, <1>2, <1>3, <2>1 DEF timers, Ends, Armed, Begun
  <2>6. QED
    BY <2>2, <2>3, <2>4, <2>5
<1>6. CASE BeginRecording(u)
  <2>1. /\ npc[u] = "begin" /\ npc'[u] = "cancel"
        /\ is_recording'[on[u]] /\ recordings'[on[u]] = recordings[on[u]] \union {u}
        /\ \A c \in Captures \ {on[u]} :
             is_recording'[c] = is_recording[c] /\ recordings'[c] = recordings[c]
    BY <1>4, <1>6 DEF BeginRecording, Goto, Base, TypeOK
  <2>2. ~is_recording[on[u]] /\ recordings[on[u]] = {}
    BY <1>2, <1>3, <1>4, <2>1 DEF Finds, OneEntry
  <2>3. OneTimer'
    BY <1>1, <1>2, <1>3, <2>1 DEF timers, OneTimer, Armed
  <2>4. OneEntry'
    BY <1>1, <1>2, <1>3, <1>4, <2>1, <2>2 DEF OneEntry
  <2>5. StopsOwn'
    BY <1>1, <1>2, <1>3, <2>1 DEF timers, StopsOwn, Armed, Stopping
  <2>6. Finds'
    <3>1. \A c \in Captures : c > on[u] => c # on[u]
      BY <1>4 DEF Captures
    <3>2. QED
      BY <1>1, <1>2, <1>3, <1>4, <2>1, <3>1 DEF Finds, Notifying, Begun
  <2>7. Ends'
    BY <1>1, <1>2, <1>3, <1>4, <2>1 DEF timers, Ends, Armed, Begun, Base, TypeOK
  <2>8. QED
    BY <2>3, <2>4, <2>5, <2>6, <2>7
<1>7. QED
  BY <1>5, <1>6

\* The timer steps of a notification.
LEMMA TimerOrphan ==
  ASSUME Base, ClipsInv, GuardInv, OrphanInv, NEW u \in Utcs,
         CancelTimer(u) \/ NewTimer(u) \/ AssignTimer(u) \/ StartTimer(u)
  PROVE  OrphanInv'
<1> SUFFICES ASSUME ~overlapped', Saved'
             PROVE  (OneTimer /\ OneEntry /\ StopsOwn /\ Finds /\ Ends)'
  BY DEF OrphanInv
<1>1. /\ npc[u] \in {"cancel", "arm", "assign", "start"} /\ Notifying(u) /\ ~overlapped
      /\ \A v \in Utcs \ {u} : npc'[v] = npc[v]
      /\ UNCHANGED <<capture, is_recording, recordings, on, spc>>
  BY DEF CancelTimer, NewTimer, AssignTimer, StartTimer, Goto, captures, history, Notifying,
         Base, TypeOK
<1>2. OneTimer /\ OneEntry /\ StopsOwn /\ Finds /\ Ends
  BY <1>1 DEF OrphanInv, Saved
<1>3. /\ \A v \in Utcs \ {u} : npc[v] \in {"new", "done"}
      /\ \A v \in Utcs : spc[v] \in {"idle", "done", "failed", "raised"}
  BY <1>1, Alone DEF AtWork
<1>4. /\ on[u] \in Captures /\ u \in recordings[on[u]]
      /\ \A c \in Captures : c > on[u] => ~is_recording[c]
  BY <1>1, <1>2 DEF Base, TypeOK, Finds, Begun
<1>5. OneEntry'
  BY <1>1, <1>2, <1>3 DEF OneEntry
<1>6. capture \in Captures => on[u] <= capture
  BY DEF Base, Made, TypeOK, Captures, None
<1>7. CASE CancelTimer(u)
  <2>1. /\ npc[u] = "cancel" /\ npc'[u] = "arm"
        /\ cancelled' = cancelled \union ({recording_timer} \ {NoTimer})
        /\ UNCHANGED <<recording_timer, timer, stops>>
    BY <1>7 DEF CancelTimer, Goto, Base, TypeOK
  <2>2. Armed' = {}
    BY <1>2, <2>1, RecordingAssumption DEF OneTimer, Armed
  <2>3. OneTimer'
    BY <1>1, <1>3, <2>1, <2>2 DEF OneTimer
  <2>4. StopsOwn'
    BY <1>1, <1>2, <1>3, <2>1, <2>2 DEF StopsOwn, Stopping
  <2>5. Finds'
    BY <1>1, <1>2, <1>3, <1>4, <2>1 DEF Finds, Notifying, Begun
  <2>6. Ends'
    <3>1. capture # None /\ is_recording[capture] => on[u] = capture
      BY <1>4, <1>6 DEF Base, TypeOK, Captures
    <3>2. QED
      BY <1>1, <2>1, <3>1 DEF Ends, Begun
  <2>7. QED
    BY <1>5, <2>3, <2>4, <2>5, <2>6
<1>8. CASE NewTimer(u)
  <2>1. /\ npc[u] = "arm" /\ UNCHANGED <<recording_timer, cancelled>>
        /\ \A v \in Utcs \ {u} : timer'[v] = timer[v] /\ stops'[v] = stops[v]
        /\ \/ /\ capture \in Captures /\ npc'[u] = "assign"
              /\ timer'[u] = "created" /\ stops'[u] = capture
           \/ /\ capture = None /\ npc'[u] = "done" /\ UNCHANGED <<timer, stops>>
    BY <1>8 DEF NewTimer, Goto, Base, TypeOK
  <2>2. Armed = {} /\ Armed' = {}
    <3>1. Armed = {}
      BY <1>2, <2>1 DEF OneTimer
    <3>2. QED
      BY <2>1, <3>1 DEF Armed
  <2>3. OneTimer'
    BY <1>1, <1>3, <2>1, <2>2 DEF OneTimer
  <2>4. StopsOwn'
    BY <1>1, <1>2, <1>3, <2>1, <2>2 DEF StopsOwn, Stopping
  <2>5. Finds'
    BY <1>1, <1>2, <1>3, <1>4, <1>6, <2>1 DEF Finds, Notifying, Begun
  <2>6. Ends'
    <3>1. capture # None /\ is_recording[capture] => on[u] = capture
      BY <1>4, <1>6 DEF Base, TypeOK, Captures
    <3>2. QED
      BY <1>1, <2>1, <3>1 DEF Ends, Begun
  <2>7. QED
    BY <1>5, <2>3, <2>4, <2>5, <2>6
<1>9. CASE AssignTimer(u)
  <2>1. /\ npc[u] = "assign" /\ npc'[u] = "start" /\ recording_timer' = u
        /\ UNCHANGED <<timer, stops, cancelled>>
    BY <1>9 DEF AssignTimer, Goto, Base, TypeOK
  <2>2. Armed = {} /\ Armed' = {}
    BY <1>2, <2>1 DEF OneTimer, Armed
  <2>3. timer[u] = "created" /\ u \notin cancelled
    BY <2>1 DEF GuardInv, Arming
  <2>4. OneTimer'
    BY <1>1, <1>3, <2>1, <2>2, <2>3 DEF OneTimer
  <2>5. StopsOwn'
    BY <1>1, <1>2, <1>3, <2>1, <2>2 DEF StopsOwn, Stopping
  <2>6. Finds'
    BY <1>1, <1>2, <1>3, <1>4, <2>1 DEF Finds, Notifying, Begun
  <2>7. Ends'
    BY <1>1, <1>2, <1>3, <2>1, <2>2 DEF Ends, Begun
  <2>8. QED
    BY <1>5, <2>4, <2>5, <2>6, <2>7
<1>10. CASE StartTimer(u)
  <2>1. recording_timer = u /\ timer[u] = "created" /\ u \notin cancelled /\ Armed = {}
    BY <1>2, <1>10 DEF StartTimer, OneTimer
  <2>2. /\ npc[u] = "start" /\ npc'[u] = "done"
        /\ timer'[u] = "started" /\ \A v \in Utcs \ {u} : timer'[v] = timer[v]
        /\ UNCHANGED <<recording_timer, stops, cancelled>>
    BY <1>10, <2>1 DEF StartTimer, Goto, Base, TypeOK
  <2>3. Armed' = {u}
    BY <2>1, <2>2 DEF Armed
  <2>4. OneTimer'
    BY <1>1, <1>3, <2>1, <2>2, <2>3 DEF OneTimer
  <2>5. on[u] <= stops[u] /\ stops[u] \in Captures
    BY <1>2, <2>2 DEF Finds, Base, TypeOK
  <2>6. is_recording[stops[u]] => u \in recordings[stops[u]]
    <3>1. is_recording[stops[u]] => stops[u] = on[u]
      BY <1>4, <2>5 DEF Captures
    <3>2. QED
      BY <1>4, <3>1
  <2>7. StopsOwn'
    BY <1>1, <1>2, <1>3, <2>2, <2>3, <2>6 DEF StopsOwn, Stopping
  <2>8. Finds'
    BY <1>1, <1>2, <1>3, <2>2 DEF Finds, Notifying, Begun
  <2>9. Ends'
    BY <1>1, <1>2, <1>3, <2>1, <2>2, <2>3 DEF Ends, Begun
  <2>10. QED
    BY <1>5, <2>4, <2>7, <2>8, <2>9
<1>11. QED
  BY <1>7, <1>8, <1>9, <1>10

\* A timer fires when nobody is at work, or the overlap is noted.
LEMMA FireOrphan ==
  ASSUME Base, StopInv, OrphanInv, NEW u \in Utcs, Fire(u)
  PROVE  OrphanInv'
<1> SUFFICES ASSUME ~overlapped', Saved'
             PROVE  (OneTimer /\ OneEntry /\ StopsOwn /\ Finds /\ Ends)'
  BY DEF OrphanInv
<1>1. /\ u \in Armed /\ timer'[u] = "fired" /\ \A v \in Utcs \ {u} : timer'[v] = timer[v]
      /\ spc'[u] = (IF is_recording[stops[u]] THEN "unset" ELSE "done")
      /\ \A v \in Utcs \ {u} : spc'[v] = spc[v]
      /\ UNCHANGED <<capture, is_recording, recordings, npc, on, recording_timer, stops, cancelled>>
      /\ ~overlapped /\ ~Busy
  BY DEF Fire, StopGoto, captures, Base, TypeOK
<1>2. OneTimer /\ OneEntry /\ StopsOwn /\ Finds /\ Ends
  BY <1>1 DEF OrphanInv, Saved, StopInv, Armed
<1>3. \A v \in Utcs : npc[v] \in {"new", "done"} /\ spc[v] \in {"idle", "done", "failed", "raised"}
  BY <1>1 DEF Busy, Notifying, Stopping, Base, TypeOK
<1>4. Armed' = Armed \ {u}
  BY <1>1 DEF Armed
<1>5. is_recording[stops[u]] => u \in recordings[stops[u]]
  BY <1>1, <1>2, <1>3 DEF StopsOwn
<1>6. OneTimer' /\ OneEntry'
  BY <1>1, <1>2, <1>3, <1>4 DEF OneTimer, OneEntry
<1>7. StopsOwn'
  BY <1>1, <1>2, <1>3, <1>4, <1>5 DEF StopsOwn, Stopping
<1>8. Finds'
  BY <1>1, <1>2, <1>3 DEF Finds, Notifying, Begun
<1>9. Ends'
  BY <1>1, <1>2, <1>3, <1>4 DEF Ends, Begun
<1>10. QED
  BY <1>6, <1>7, <1>8, <1>9

LEMMA StopOrphan ==
  ASSUME Base, ClipsInv, StopInv, OrphanInv, NEW u \in Utcs, stop_recording(u)
  PROVE  OrphanInv'
<1> SUFFICES ASSUME ~overlapped', Saved'
             PROVE  (OneTimer /\ OneEntry /\ StopsOwn /\ Finds /\ Ends)'
  BY DEF OrphanInv
<1>1. /\ Stopping(u) /\ ~overlapped
      /\ \A v \in Utcs \ {u} : spc'[v] = spc[v]
      /\ UNCHANGED <<capture, npc, on, timers>>
  BY DEF stop_recording, Unset, CopyFrames, SaveRaises, ClearFrames, Forget, StopGoto, captures, history,
         Stopping, Base, TypeOK
<1>2. OneTimer /\ OneEntry /\ StopsOwn /\ Finds /\ Ends
  BY <1>1 DEF OrphanInv, Saved, Stopping
<1>3. /\ \A v \in Utcs : npc[v] \in {"new", "done"}
      /\ \A v \in Utcs \ {u} : spc[v] \in {"idle", "done", "failed", "raised"}
  BY <1>1, Alone DEF AtWork
<1>4. stops[u] \in Captures /\ u \in recordings[stops[u]]
  BY <1>1, <1>2 DEF Base, TypeOK, StopsOwn
<1>5. u \notin Armed /\ UNCHANGED Armed
  BY <1>1 DEF StopInv, Armed, Stopping, timers
<1>6. OneTimer'
  BY <1>1, <1>2, <1>5 DEF timers, OneTimer
<1>7. Finds'
  BY <1>1, <1>3 DEF Finds, Notifying, Begun
<1>8. CASE Unset(u)
  <2>1. /\ spc[u] = "unset" /\ spc'[u] = "copy" /\ ~is_recording'[stops[u]]
        /\ \A c \in Captures \ {stops[u]} : is_recording'[c] = is_recording[c]
        /\ UNCHANGED recordings
    BY <1>4, <1>8 DEF Unset, StopGoto, Base, TypeOK
  <2>2. OneEntry'
    BY <1>1, <1>2, <1>3, <2>1 DEF timers, OneEntry
  <2>3. \A v \in Utcs : stops[v] \in Captures
    BY DEF Base, TypeOK
  <2>4. StopsOwn'
    <3>1. ASSUME NEW v \in Armed, is_recording'[stops[v]]
          PROVE  v \in recordings[stops[v]]
      <4>1. v \in Utcs /\ stops[v] # stops[u]
        BY <2>1, <3>1 DEF Armed
      <4>2. is_recording[stops[v]]
        BY <2>1, <2>3, <3>1, <4>1
      <4>3. QED
        BY <1>2, <1>3, <3>1, <4>2 DEF StopsOwn
    <3>2. \A v \in Utcs : spc'[v] # "failed" /\ (Stopping(v)' => v \in recordings'[stops'[v]])
      BY <1>1, <1>2, <1>3, <1>4, <2>1 DEF timers, StopsOwn, Stopping
    <3>3. QED
      BY <1>1, <1>5, <2>1, <3>1, <3>2 DEF timers, StopsOwn
  <2>5. Ends'
    BY <1>1, <1>2, <1>3, <1>5, <2>1 DEF timers, Ends, Begun, Base, TypeOK
  <2>6. QED
    BY <1>6, <1>7, <2>2, <2>4, <2>5
<1>9. CASE CopyFrames(u) \/ ClearFrames(u)
  <2>1. /\ spc[u] \in {"copy", "clear"} /\ spc'[u] \in {"clear", "forget"}
        /\ UNCHANGED <<is_recording, recordings>>
    BY <1>4, <1>9 DEF CopyFrames, ClearFrames, StopGoto, captures, Base, TypeOK
  <2>2. OneEntry'
    BY <1>1, <1>2, <1>3, <2>1 DEF timers, OneEntry
  <2>3. StopsOwn'
    BY <1>1, <1>2, <1>3, <1>4, <1>5, <2>1 DEF timers, StopsOwn, Stopping
  <2>4. Ends'
    BY <1>1, <1>2, <1>3, <1>5, <2>1 DEF timers, Ends, Begun
  <2>5. QED
    BY <1>6, <1>7, <2>2, <2>3, <2>4
<1>10. CASE Forget(u)
  <2>1. /\ spc[u] = "forget" /\ spc'[u] = "done" /\ UNCHANGED is_recording
        /\ recordings'[stops[u]] = recordings[stops[u]] \ {u}
        /\ \A c \in Captures \ {stops[u]} : recordings'[c] = recordings[c]
    BY <1>4, <1>10 DEF Forget, StopGoto, Base, TypeOK
  <2>2. recordings'[stops[u]] = {}
    BY <1>2, <1>4, <2>1 DEF OneEntry
  <2>3. OneEntry'
    BY <1>1, <1>2, <1>3, <2>1, <2>2 DEF timers, OneEntry
  <2>4. ASSUME NEW v \in Armed
        PROVE  is_recording[stops[v]] => v \in recordings'[stops[v]]
    <3>1. v \in Utcs /\ v # u /\ stops[v] \in Captures
      BY <1>5 DEF Armed, Base, TypeOK
    <3>2. is_recording[stops[v]] => v \in recordings[stops[v]]
      BY <1>2, <1>3 DEF StopsOwn
    <3>3. QED
      BY <2>1, <3>1, <3>2
  <2>5. StopsOwn'
    BY <1>1, <1>2, <1>3, <1>5, <2>1, <2>4 DEF timers, StopsOwn, Stopping
  <2>6. Ends'
    BY <1>1, <1>2, <1>3, <1>5, <2>1 DEF timers, Ends, Begun
  <2>7. QED
    BY <1>6, <1>7, <2>3, <2>5, <2>6
<1>11. ~SaveRaises(u)
  BY DEF SaveRaises, StopGoto, Saved, Base, TypeOK
<1>12. QED
  BY <1>8, <1>9, <1>10, <1>11 DEF stop_recording

LEMMA OrphanNext ==
  ASSUME Base, ClipsInv, GuardInv, StopInv, OrphanInv, [Next]_vars
  PROVE  OrphanInv'
<1>1. CASE add_recording_frame \/ StopCapture \/ StartCapture
  BY <1>1, CaptureOrphan
<1>2. ASSUME NEW u \in Utcs, handle_notification(u) \/ Fire(u) \/ stop_recording(u)
      PROVE  OrphanInv'
  BY <1>2, NotifyOrphan, BeginOrphan, TimerOrphan, FireOrphan, StopOrphan
     DEF handle_notification
<1>3. CASE UNCHANGED vars
  BY <1>3 DEF vars, captures, timers, history, OrphanInv, Saved, OneTimer, OneEntry, StopsOwn, Finds,
              Ends, Armed, Notifying, Stopping, Begun
<1>4. QED
  BY <1>1, <1>2, <1>3 DEF Next

\* NoOrphan, for any parameters: as long as the calls do not overlap no stop fails, and
\* the capture has the entry its timer will stop, or none (start_recording,
\* stop_recording, set_recording_time).
THEOREM NoRecordingIsOrphaned == Spec => []NoOrphan
<1>1. Init => StopInv /\ CompleteInv
  BY RecordingAssumption DEF Init, StopInv, CompleteInv, Captures
<1>2. Base /\ ClipsInv /\ OrphanInv => NoOrphan
  <2> SUFFICES ASSUME Base, OrphanInv, ~overlapped, Saved
               PROVE  /\ \A u \in Utcs : spc[u] # "failed"
                      /\ ~Busy /\ capture # None =>
                           recordings[capture] = {u \in Armed : is_recording[capture]}
    BY DEF NoOrphan, Saved
  <2>1. OneTimer /\ OneEntry /\ StopsOwn /\ Finds /\ Ends
    BY DEF OrphanInv
  <2>2. ASSUME ~Busy, capture # None
        PROVE  recordings[capture] = {u \in Armed : is_recording[capture]}
    <3>1. capture \in Captures
      BY <2>2 DEF Base, TypeOK
    <3>2. \A u \in Utcs : npc[u] \in {"new", "done"} /\ spc[u] \in {"idle", "done", "failed", "raised"}
      BY <2>2 DEF Busy, Notifying, Stopping, Base, TypeOK
    <3>3. CASE ~is_recording[capture]
      BY <2>1, <3>1, <3>2, <3>3 DEF OneEntry
    <3>4. CASE is_recording[capture]
      <4>1. recording_timer \in Armed /\ stops[recording_timer] = capture
        BY <2>1, <2>2, <3>2, <3>4 DEF Ends, Begun
      <4>2. recording_timer \in recordings[capture]
        BY <2>1, <3>2, <3>4, <4>1 DEF StopsOwn
      <4>3. recordings[capture] = {recording_timer} /\ Armed = {recording_timer}
        BY <2>1, <3>1, <4>1, <4>2 DEF OneEntry, OneTimer
      <4>4. QED
        BY <3>4, <4>3
    <3>5. QED
      BY <3>3, <3>4
  <2>3. QED
    BY <2>1, <2>2 DEF StopsOwn
<1>3. Base /\ ClipsInv /\ GuardInv /\ StopInv /\ OrphanInv /\ [Next]_vars => OrphanInv'
  BY OrphanNext
<1>4. QED
  BY <1>1, <1>2, <1>3, BaseAlways, ClipsInit, ClipsNext, GuardInit, GuardNext, StopNext,
     CompleteNext, OrphanInit, PTL DEF Spec

--------------------------------------------------------------------------------
(***************************************************************************)
(* The upload. The queue holds finitely many clips, so that it has a size. *)
(***************************************************************************)
TypeInv == UploadTypeOK /\ IsFiniteSet(scanner_output_queue)

\* A clip that moves on keeps the positions typed.
LEMMA GotoType ==
  ASSUME UploadTypeOK, NEW c \in Clips, NEW l \in Positions, UploadGoto(c, l)
  PROVE  pc' \in [Clips -> Positions]
BY DEF UploadTypeOK, UploadGoto

\* Only the uploads of clips use the credentials.
LEMMA UsingType == Using \subseteq Clips
BY DEF Using

LEMMA TypeInit == UploadInit => TypeInv
<1>1. Cardinality({}) = 0 /\ IsFiniteSet({})
  BY FS_EmptySet
<1>2. ASSUME UploadInit
      PROVE  /\ uploader_app \in BOOLEAN
             /\ credentials \in Creds /\ given \in Creds /\ credentials <= given
             /\ signed \in [Clips -> Creds]
  <2>1. uploader_app \in BOOLEAN
    BY <1>2, Zenon DEF UploadInit
  <2>2. credentials = given /\ given \in {0, 1}
    BY <1>2 DEF UploadInit, NoCred
  <2>3. {0, 1} \subseteq Creds
    BY UploadAssumption DEF Creds
  <2>4. signed \in [Clips -> Creds]
    BY <1>2, <2>3 DEF UploadInit, NoCred
  <2>5. QED
    BY <2>1, <2>2, <2>3, <2>4
<1>3. ASSUME UploadInit
      PROVE  /\ scanner_output_queue \subseteq Clips
             /\ Cardinality(scanner_output_queue) <= QueueMax
             /\ IsFiniteSet(scanner_output_queue)
  BY <1>1, <1>3, UploadAssumption DEF UploadInit
<1>4. QED
  BY <1>2, <1>3 DEF UploadInit, TypeInv, UploadTypeOK, Positions

\* Adding a clip to a queue that is not full, and taking one out, keep its bound.
LEMMA QueueType ==
  ASSUME TypeInv, NEW c \in Clips,
         \/ /\ Cardinality(scanner_output_queue) < QueueMax
            /\ scanner_output_queue' = scanner_output_queue \union {c}
         \/ scanner_output_queue' = scanner_output_queue \ {c}
         \/ UNCHANGED scanner_output_queue
  PROVE  /\ scanner_output_queue' \subseteq Clips
         /\ Cardinality(scanner_output_queue') <= QueueMax
         /\ IsFiniteSet(scanner_output_queue')
<1> DEFINE Q == scanner_output_queue
<1>1. IsFiniteSet(Q) /\ Cardinality(Q) \in Nat /\ Cardinality(Q) <= QueueMax /\ Q \subseteq Clips
  BY FS_CardinalityType DEF TypeInv, UploadTypeOK
<1>2. CASE Cardinality(Q) < QueueMax /\ Q' = Q \union {c}
  <2>1. IsFiniteSet(Q \union {c}) /\ Cardinality(Q \union {c}) \in {Cardinality(Q), Cardinality(Q) + 1}
    BY <1>1, FS_AddElement
  <2>2. QED
    BY <1>1, <1>2, <2>1, UploadAssumption
<1>3. CASE Q' = Q \ {c}
  <2>1. IsFiniteSet(Q \ {c}) /\ Cardinality(Q \ {c}) \in {Cardinality(Q), Cardinality(Q) - 1}
    BY <1>1, FS_RemoveElement
  <2>2. QED
    BY <1>1, <1>3, <2>1, UploadAssumption
<1>4. CASE UNCHANGED Q
  BY <1>1, <1>4
<1>5. QED
  BY <1>2, <1>3, <1>4

LEMMA TypeNext == TypeInv /\ [UploadNext]_upload_vars => TypeInv'
<1> SUFFICES ASSUME TypeInv, [UploadNext]_upload_vars PROVE TypeInv'
  OBVIOUS
<1> USE UploadAssumption DEF Creds, NoCred
<1>1. CASE GrowOld
  BY <1>1 DEF TypeInv, UploadTypeOK, GrowOld, result, upload_history
<1>2. CASE Expire
  BY <1>2 DEF TypeInv, UploadTypeOK, Expire, result, upload_history
<1>3. ASSUME NEW c \in Clips, SaveTask(c) PROVE TypeInv'
  <2>1. pc' \in [Clips -> Positions]
    BY <1>3, GotoType DEF SaveTask, TypeInv, Positions
  <2>2. /\ scanner_output_queue' \subseteq Clips
        /\ Cardinality(scanner_output_queue') <= QueueMax
        /\ IsFiniteSet(scanner_output_queue')
    BY <1>3, QueueType DEF SaveTask
  <2>3. QED
    BY <1>3, <2>1, <2>2 DEF TypeInv, UploadTypeOK, SaveTask, provider
<1>4. ASSUME NEW c \in Clips, TakeClip(c) PROVE TypeInv'
  <2>1. pc' \in [Clips -> Positions]
    BY <1>4, GotoType DEF TakeClip, TypeInv, Positions
  <2>2. /\ scanner_output_queue' \subseteq Clips
        /\ Cardinality(scanner_output_queue') <= QueueMax
        /\ IsFiniteSet(scanner_output_queue')
    BY <1>4, QueueType DEF TakeClip
  <2>3. QED
    BY <1>4, <2>1, <2>2 DEF TypeInv, UploadTypeOK, TakeClip, provider, result, upload_history
<1>5. ASSUME NEW c \in Clips, TestCredentials(c) PROVE TypeInv'
  <2>1. pc' \in [Clips -> Positions]
    BY <1>5, GotoType DEF TestCredentials, TypeInv, Positions
  <2>2. QED
    BY <1>5, <2>1 DEF TypeInv, UploadTypeOK, TestCredentials, provider, result, upload_history
<1>6. ASSUME NEW c \in Clips, ReadExpiration(c) PROVE TypeInv'
  <2>1. pc' \in [Clips -> Positions]
    BY <1>6, GotoType DEF ReadExpiration, Fail, TypeInv, Positions
  <2>2. QED
    BY <1>6, <2>1 DEF TypeInv, UploadTypeOK, ReadExpiration, provider, result, upload_history
<1>7. ASSUME NEW c \in Clips, DropCredentials(c) PROVE TypeInv'
  <2>1. pc' \in [Clips -> Positions]
    BY <1>7, GotoType DEF DropCredentials, TypeInv, Positions
  <2>2. QED
    BY <1>7, <2>1, UsingType DEF TypeInv, UploadTypeOK, DropCredentials, result
<1>8. ASSUME NEW c \in Clips, FetchCredentials(c) PROVE TypeInv'
  <2>1. pc' \in [Clips -> Positions]
    BY <1>8, GotoType DEF FetchCredentials, Fail, TypeInv, Positions
  <2>2. given' \in Creds /\ credentials' \in Creds /\ credentials' <= given' /\ given <= given'
    BY <1>8 DEF TypeInv, UploadTypeOK, FetchCredentials
  <2>3. raced' \subseteq Clips /\ failed' \subseteq Clips
    BY <1>8, UsingType DEF TypeInv, UploadTypeOK, FetchCredentials
  <2>4. QED
    BY <1>8, <2>1, <2>2, <2>3 DEF TypeInv, UploadTypeOK, FetchCredentials, result
<1>9. ASSUME NEW c \in Clips, ReadAccessKey(c) \/ ReadSecretKey(c) \/ ReadToken(c) PROVE TypeInv'
  <2>1. pc' \in [Clips -> Positions]
    BY <1>9, GotoType DEF ReadAccessKey, ReadSecretKey, ReadToken, ReadField, Fail, TypeInv, Positions
  <2>2. signed' \in [Clips -> Creds]
    BY <1>9 DEF TypeInv, UploadTypeOK, ReadAccessKey, ReadSecretKey, ReadToken, ReadField, Creds, NoCred
  <2>3. failed' \subseteq Clips
    BY <1>9 DEF TypeInv, UploadTypeOK, ReadAccessKey, ReadSecretKey, ReadToken, ReadField, upload_history
  <2>4. QED
    BY <1>9, <2>1, <2>2, <2>3 DEF TypeInv, UploadTypeOK, ReadAccessKey, ReadSecretKey, ReadToken, ReadField,
                                  provider, result, upload_history
<1>10. ASSUME NEW c \in Clips, Request(c) \/ Answer(c) \/ Remove(c) PROVE TypeInv'
  <2>1. pc' \in [Clips -> Positions]
    BY <1>10, GotoType DEF Request, Answer, Remove, FailStored, Fail, TypeInv, Positions
  <2>2. failed' \subseteq Clips /\ kept' \subseteq Clips /\ stored' \subseteq Clips /\ files' \subseteq Clips
    BY <1>10 DEF TypeInv, UploadTypeOK, Request, Answer, Remove, FailStored, result
  <2>3. signed' \in [Clips -> Creds]
    BY <1>10 DEF TypeInv, UploadTypeOK, Request, Answer, Remove, FailStored, result
  <2>4. QED
    BY <1>10, <2>1, <2>2, <2>3 DEF TypeInv, UploadTypeOK, Request, Answer, Remove, FailStored, provider, result
<1>11. ASSUME NEW c \in Clips, Publish(c) PROVE TypeInv'
  <2>1. pc' \in [Clips -> Positions]
    BY <1>11, GotoType DEF Publish, TypeInv, Positions
  <2>2. published' \subseteq [clip : Clips, sized : BOOLEAN]
    <3>1. (pc[c] = "sized") \in BOOLEAN
      OBVIOUS
    <3>2. [clip |-> c, sized |-> pc[c] = "sized"] \in [clip : Clips, sized : BOOLEAN]
      BY <3>1, Zenon
    <3>3. QED
      BY <1>11, <3>2 DEF TypeInv, UploadTypeOK, Publish
  <2>3. QED
    BY <1>11, <2>1, <2>2 DEF TypeInv, UploadTypeOK, Publish, provider
<1>12. CASE UNCHANGED upload_vars
  BY <1>12 DEF TypeInv, UploadTypeOK, upload_vars, provider, result, upload_history
<1>13. QED
  BY <1>1, <1>2, <1>3, <1>4, <1>5, <1>6, <1>7, <1>8, <1>9, <1>10, <1>11, <1>12
     DEF UploadNext, upload_video_clip, put_object

\* TypeOK, for any clips: every field of the uploader and of its uploads keeps its type
\* and scanner_output_queue its maxsize.
THEOREM UploadTypesHold == UploadSpec => []UploadTypeOK
<1>1. TypeInv => UploadTypeOK
  BY DEF TypeInv
<1>2. QED
  BY <1>1, TypeInit, TypeNext, PTL DEF UploadSpec

(***************************************************************************)
(* Whose credentials an upload holds. An upload that is past its test of   *)
(* the credentials finds some, and has read its keys from those that are   *)
(* there, unless another upload changed them since: then it is in raced.   *)
(***************************************************************************)
HoldsCredentials(c) ==
  /\ pc[c] \in {"expiration", "key"} => credentials # NoCred \/ c \in raced
  /\ pc[c] \in {"secret", "token"} => c \in raced \/ (credentials # NoCred /\ signed[c] = credentials)
  /\ pc[c] = "put" => c \in raced \/ signed[c] # NoCred
  /\ pc[c] = "unsized" => c \in failed \union raced

RaceInv == UploadTypeOK /\ \A c \in Clips : HoldsCredentials(c)

\* The steps of one upload leave what the others hold as it is, as long as they leave
\* the credentials.
LEMMA OthersHold ==
  ASSUME RaceInv, NEW c \in Clips, NEW l, UploadGoto(c, l), UNCHANGED credentials,
         failed \subseteq failed', raced \subseteq raced',
         \A d \in Clips \ {c} : signed'[d] = signed[d]
  PROVE  \A d \in Clips \ {c} : HoldsCredentials(d)'
BY DEF RaceInv, HoldsCredentials, UploadGoto, UploadTypeOK

LEMMA RaceNext == RaceInv /\ UploadTypeOK' /\ [UploadNext]_upload_vars => RaceInv'
<1> SUFFICES ASSUME RaceInv, UploadTypeOK', [UploadNext]_upload_vars
             PROVE  \A d \in Clips : HoldsCredentials(d)'
  BY DEF RaceInv
<1> USE DEF NoCred
<1>1. CASE GrowOld \/ Expire
  BY <1>1 DEF RaceInv, HoldsCredentials, GrowOld, Expire, result, upload_history
<1>2. ASSUME NEW c \in Clips, SaveTask(c) \/ TakeClip(c) \/ TestCredentials(c) \/ Publish(c)
      PROVE  \A d \in Clips : HoldsCredentials(d)'
  <2>1. \A d \in Clips \ {c} : HoldsCredentials(d)'
    BY <1>2, OthersHold DEF SaveTask, TakeClip, TestCredentials, Publish, provider, upload_history
  <2>2. HoldsCredentials(c)'
    BY <1>2 DEF RaceInv, UploadTypeOK, HoldsCredentials, SaveTask, TakeClip, TestCredentials, Publish,
                UploadGoto, provider, upload_history
  <2>3. QED
    BY <2>1, <2>2
<1>3. ASSUME NEW c \in Clips, ReadExpiration(c) \/ ReadAccessKey(c) \/ ReadSecretKey(c) \/ ReadToken(c)
      PROVE  \A d \in Clips : HoldsCredentials(d)'
  <2>1. \A d \in Clips \ {c} : HoldsCredentials(d)'
    BY <1>3, OthersHold DEF ReadExpiration, ReadAccessKey, ReadSecretKey, ReadToken, ReadField, Fail, provider,
                            upload_history, RaceInv, UploadTypeOK
  <2>2. HoldsCredentials(c)'
    BY <1>3 DEF RaceInv, UploadTypeOK, HoldsCredentials, ReadExpiration, ReadAccessKey, ReadSecretKey,
                ReadToken, ReadField, Fail, UploadGoto, provider, upload_history
  <2>3. QED
    BY <2>1, <2>2
<1>4. ASSUME NEW c \in Clips, DropCredentials(c)
      PROVE  \A d \in Clips : HoldsCredentials(d)'
  BY <1>4 DEF RaceInv, UploadTypeOK, HoldsCredentials, DropCredentials, UploadGoto, Using, result
<1>5. ASSUME NEW c \in Clips, FetchCredentials(c)
      PROVE  \A d \in Clips : HoldsCredentials(d)'
  <2>1. CASE /\ given < MaxCred
             /\ given' = given + 1 /\ credentials' = given + 1
             /\ raced' = raced \union (Using \ {c})
             /\ UploadGoto(c, "key")
             /\ UNCHANGED failed
    BY <1>5, <2>1 DEF RaceInv, UploadTypeOK, HoldsCredentials, FetchCredentials, UploadGoto, Using,
                      Creds, result
  <2>2. CASE failed' = failed \union {c} /\ Fail(c) /\ UNCHANGED <<given, credentials, raced>>
    BY <1>5, <2>2 DEF RaceInv, UploadTypeOK, HoldsCredentials, FetchCredentials, Fail, UploadGoto
  <2>3. QED
    BY <1>5, <2>1, <2>2 DEF FetchCredentials
<1>6. ASSUME NEW c \in Clips, Request(c) \/ Answer(c) \/ Remove(c)
      PROVE  \A d \in Clips : HoldsCredentials(d)'
  <2>1. \A d \in Clips \ {c} : HoldsCredentials(d)'
    <3>1. \A d \in Clips \ {c} : signed'[d] = signed[d]
      BY <1>6 DEF RaceInv, UploadTypeOK, Request, Answer, Remove, FailStored, result
    <3>2. QED
      BY <1>6, <3>1, OthersHold DEF Request, Answer, Remove, FailStored, Fail, provider
  <2>2. HoldsCredentials(c)'
    BY <1>6 DEF RaceInv, UploadTypeOK, HoldsCredentials, Request, Answer, Remove, FailStored, Fail,
                UploadGoto, provider
  <2>3. QED
    BY <2>1, <2>2
<1>7. CASE UNCHANGED upload_vars
  BY <1>7 DEF RaceInv, HoldsCredentials, upload_vars, provider, result, upload_history
<1>8. QED
  BY <1>1, <1>2, <1>3, <1>4, <1>5, <1>6, <1>7 DEF UploadNext, upload_video_clip, put_object

\* FailsOfRace, for any number of uploads: what get_temporary_credentials lets through
\* fails only of the provider, of S3 or of another upload.
THEOREM OnlyRacesFail == UploadSpec => []FailsOfRace
<1>1. UploadInit => RaceInv
  BY TypeInit DEF UploadInit, RaceInv, TypeInv, HoldsCredentials
<1>2. RaceInv => FailsOfRace
  BY DEF RaceInv, HoldsCredentials, FailsOfRace
<1>3. QED
  BY <1>1, <1>2, RaceNext, UploadTypesHold, PTL DEF UploadSpec

(***************************************************************************)
(* Where a clip is. ClipKept speaks of clips on the disk and in S3; why it *)
(* holds is how far each one's upload is.                                  *)
(***************************************************************************)
Placed(c) ==
  /\ pc[c] # "save" => c \in files \union stored
  /\ pc[c] = "save" => c \notin files
  /\ c \in stored => pc[c] \notin {"save", "queued", "test", "expiration", "renew", "fetch", "key", "secret",
                                  "token", "put"}
  /\ pc[c] \in {"answer", "remove"} => c \in files /\ c \in stored
  /\ pc[c] = "sized" => c \in stored /\ c \notin files
  /\ pc[c] = "unsized" => c \in files
  /\ c \in files /\ c \in stored => pc[c] \in {"answer", "remove"} \/ c \in kept

KeptInv ==
  /\ UploadTypeOK
  /\ \A c \in Clips : Placed(c)
  /\ \A p \in published : /\ pc[p.clip] = "done"
                          /\ p.sized => p.clip \in stored \ files
                          /\ ~p.sized => p.clip \in files

\* A step of one clip that stores nothing leaves the others' places and announcements.
LEMMA OthersPlaced ==
  ASSUME KeptInv, NEW c \in Clips, NEW l, UploadGoto(c, l), pc[c] # "done", Placed(c)',
         UNCHANGED published, kept \subseteq kept',
         \A d \in Clips \ {c} : (d \in files' <=> d \in files) /\ (d \in stored' <=> d \in stored)
  PROVE  /\ \A d \in Clips : Placed(d)'
         /\ \A p \in published' : /\ pc'[p.clip] = "done"
                                  /\ p.sized => p.clip \in stored' \ files'
                                  /\ ~p.sized => p.clip \in files'
<1>1. \A d \in Clips \ {c} : pc'[d] = pc[d]
  BY DEF UploadGoto, KeptInv, UploadTypeOK
<1>2. \A d \in Clips \ {c} : Placed(d)'
  BY <1>1 DEF KeptInv, Placed
<1>3. \A p \in published : p.clip \in Clips \ {c}
  BY DEF KeptInv, UploadTypeOK
<1>4. QED
  BY <1>1, <1>2, <1>3 DEF KeptInv

LEMMA KeptNext == KeptInv /\ UploadTypeOK' /\ [UploadNext]_upload_vars => KeptInv'
<1> SUFFICES ASSUME KeptInv, UploadTypeOK', [UploadNext]_upload_vars PROVE KeptInv'
  OBVIOUS
<1>1. CASE GrowOld \/ Expire \/ UNCHANGED upload_vars
  BY <1>1 DEF KeptInv, Placed, GrowOld, Expire, upload_vars, provider, result, upload_history
<1>2. ASSUME NEW c \in Clips, SaveTask(c) \/ TakeClip(c) \/ put_object(c) PROVE KeptInv'
  <2>1. PICK l \in Positions : UploadGoto(c, l)
    BY <1>2 DEF SaveTask, TakeClip, put_object, TestCredentials, ReadExpiration, DropCredentials,
                FetchCredentials, ReadAccessKey, ReadSecretKey, ReadToken, ReadField, Request, Answer, Remove,
                FailStored, Fail, Positions
  <2>2. pc[c] # "done" /\ UNCHANGED published /\ kept \subseteq kept'
    BY <1>2 DEF SaveTask, TakeClip, put_object, TestCredentials, ReadExpiration, DropCredentials,
                FetchCredentials, ReadAccessKey, ReadSecretKey, ReadToken, ReadField, Request, Answer, Remove,
                FailStored, result, upload_history
  <2>3. \A d \in Clips \ {c} : (d \in files' <=> d \in files) /\ (d \in stored' <=> d \in stored)
    BY <1>2 DEF SaveTask, TakeClip, put_object, TestCredentials, ReadExpiration, DropCredentials,
                FetchCredentials, ReadAccessKey, ReadSecretKey, ReadToken, ReadField, Request, Answer, Remove,
                FailStored, result, upload_history
  <2>4. Placed(c)'
    <3>1. CASE SaveTask(c)
      BY <3>1 DEF KeptInv, UploadTypeOK, Placed, SaveTask, UploadGoto
    <3>2. CASE TakeClip(c)
      BY <3>2 DEF KeptInv, UploadTypeOK, Placed, TakeClip, UploadGoto, result
    <3>3. CASE TestCredentials(c) \/ ReadExpiration(c) \/ DropCredentials(c)
      BY <3>3 DEF KeptInv, UploadTypeOK, Placed, TestCredentials, ReadExpiration, DropCredentials, Fail,
                  UploadGoto, result
    <3>4. CASE FetchCredentials(c) \/ ReadAccessKey(c) \/ ReadSecretKey(c) \/ ReadToken(c)
      BY <3>4 DEF KeptInv, UploadTypeOK, Placed, FetchCredentials, ReadAccessKey, ReadSecretKey, ReadToken,
                  ReadField, Fail, UploadGoto, result, upload_history
    <3>5. CASE Request(c) \/ Answer(c) \/ Remove(c)
      BY <3>5 DEF KeptInv, UploadTypeOK, Placed, Request, Answer, Remove, FailStored, Fail, UploadGoto, result
    <3>6. QED
      BY <1>2, <3>1, <3>2, <3>3, <3>4, <3>5 DEF put_object
  <2>5. QED
    BY <2>1, <2>2, <2>3, <2>4, OthersPlaced DEF KeptInv
<1>3. ASSUME NEW c \in Clips, Publish(c) PROVE KeptInv'
  BY <1>3 DEF KeptInv, UploadTypeOK, Placed, Publish, UploadGoto
<1>4. QED
  BY <1>1, <1>2, <1>3 DEF UploadNext, upload_video_clip

\* ClipKept, for any number of clips: a clip's file leaves the disk only when S3 has it,
\* it stays in both places only where an answer was lost or os.remove failed, and it is
\* announced with a size exactly if its file is gone.
THEOREM ClipsAreKept == UploadSpec => []ClipKept
<1>1. UploadInit => KeptInv
  BY TypeInit DEF UploadInit, KeptInv, TypeInv, Placed
<1>2. KeptInv => ClipKept
  BY DEF KeptInv, Placed, ClipKept
<1>3. QED
  BY <1>1, <1>2, KeptNext, UploadTypesHold, PTL DEF UploadSpec
================================================================================
