---------------------------- MODULE CameraLifecycle ----------------------------
(***************************************************************************)
(* Starting, stopping and restarting the StreamCapture thread of one       *)
(* camera (py_handler.py): init_cameras and init_gst_app, run by a Timer   *)
(* thread every TIMER_CAM_RENEW seconds and by the Lambda thread on        *)
(* reset_camera; a monitor_stop_event thread per capture; and the capture  *)
(* threads themselves (StreamCapture.run and stop). They meet in the       *)
(* dictionaries thread_gstreamers and thread_monitors, without a lock.     *)
(*                                                                         *)
(* A step is a stretch of code up to the next statement that reads an entry *)
(* of a dictionary another thread writes (the code looks up                *)
(* thread_gstreamers[cam_ip] anew in each), or up to a call that blocks:   *)
(* the constructor of StreamCapture, start, join, the 3 s of sleep.        *)
(* subscribe_onvif touches none of this state.                             *)
(***************************************************************************)
EXTENDS Naturals, FiniteSets

CONSTANTS Inits,     (* threads that run init_cameras                        *)
          Captures,  (* StreamCapture objects, each constructed once         *)
          Monitors,  (* monitor_stop_event threads, each started once        *)
          None       (* no entry, or an entry that is None                   *)

Threads == Inits \union Monitors

ASSUME LifecycleAssumption ==
  /\ Inits \intersect Monitors = {}
  /\ None \notin Captures \union Threads
  /\ IsFiniteSet(Captures) /\ IsFiniteSet(Threads)

VARIABLES
  wanted,             (* camera_items has the camera, detecting or recording *)
  thread_gstreamers,  (* the camera's entry: a capture or None               *)
  thread_monitors,    (* the camera's entry: a monitor or None               *)
  life,               (* of each capture: "free", "new", "alive", "dead"     *)
  stop_event, force_stop,  (* captures whose events are set                  *)
  pc,                 (* where each thread is                                *)
  removing,           (* init threads that only stop the camera              *)
  mine,               (* the capture each thread holds; a monitor's own      *)
  joined              (* the monitor an init thread joins                    *)

entries == <<thread_gstreamers, thread_monitors>>
captures == <<life, stop_event, force_stop>>
vars == <<wanted, entries, captures, pc, removing, mine, joined>>

Init ==
  /\ wanted = FALSE
  /\ thread_gstreamers = None /\ thread_monitors = None
  /\ life = [c \in Captures |-> "free"]
  /\ stop_event = {} /\ force_stop = {}
  /\ pc = [t \in Threads |-> IF t \in Inits THEN "idle" ELSE "free"]
  /\ removing = {}
  /\ mine = [t \in Threads |-> None]
  /\ joined = [i \in Inits |-> None]

Goto(t, l) == pc' = [pc EXCEPT ![t] = l]
Hold(t, c) == mine' = [mine EXCEPT ![t] = c]

\* The thread's call ends; an exception ends it the same way, for init_cameras
\* catches it and a monitor thread dies of it.
Return(t) ==
  /\ Goto(t, IF t \in Inits THEN "idle" ELSE "done")
  /\ Hold(t, None)

Running == thread_gstreamers # None /\ life[thread_gstreamers] = "alive"
Startable == thread_gstreamers # None /\ life[thread_gstreamers] = "new"
MonitorAlive(m) == m # None /\ pc[m] \notin {"free", "new", "done"}
Busy(t) == pc[t] \notin {"idle", "free", "new", "wait", "done"}

--------------------------------------------------------------------------------
(* init_cameras, init_gst_app, stop_gstreamer_thread. *)

\* fetch_camera_items finds the camera new or its configuration changed.
Update(i) ==
  /\ pc[i] = "idle"
  /\ wanted' \in BOOLEAN
  /\ removing' = removing \ {i}
  /\ Goto(i, "stop")
  /\ UNCHANGED <<entries, captures, mine, joined>>

\* It finds the camera gone from the database.
Remove(i) ==
  /\ pc[i] = "idle"
  /\ wanted' = FALSE
  /\ removing' = removing \union {i}
  /\ Goto(i, "stop")
  /\ UNCHANGED <<entries, captures, mine, joined>>

\* stop(force=True).
Stop(i) ==
  /\ pc[i] = "stop"
  /\ \/ /\ thread_gstreamers = None
        /\ \/ i \in removing /\ Goto(i, "idle")
           \/ i \notin removing /\ Goto(i, "check")
        /\ UNCHANGED captures
     \/ /\ thread_gstreamers # None
        /\ stop_event' = stop_event \union {thread_gstreamers}
        /\ force_stop' = force_stop \union {thread_gstreamers}
        /\ Goto(i, "join")
        /\ UNCHANGED life
  /\ UNCHANGED <<wanted, entries, removing, mine, joined>>

\* join raises on an entry that became None and on a thread not started yet.
Join(i) ==
  /\ pc[i] = "join"
  /\ IF thread_gstreamers = None \/ Startable
     THEN Return(i)
     ELSE Goto(i, "joining") /\ Hold(i, thread_gstreamers)
  /\ UNCHANGED <<wanted, entries, captures, removing, joined>>

Joined(i) ==
  /\ pc[i] = "joining"
  /\ life[mine[i]] = "dead"
  /\ thread_gstreamers' = None
  /\ \/ i \in removing /\ Return(i)
     \/ i \notin removing /\ Goto(i, "check") /\ Hold(i, None)
  /\ UNCHANGED <<wanted, thread_monitors, captures, removing, joined>>

\* `if cam_ip not in thread_monitors'.
CheckMonitor(i) ==
  /\ pc[i] = "check"
  /\ \/ thread_monitors = None /\ Goto(i, "start")
     \/ thread_monitors # None /\ Goto(i, "idle")
  /\ UNCHANGED <<wanted, entries, captures, removing, mine, joined>>

--------------------------------------------------------------------------------
(* start_gstreamer_thread, by an init thread or by a monitor. *)

Starting == {"create", "run", "register", "result", "watch", "joinMonitor", "keep", "test", "spawn"}

FreeCaptures == {c \in Captures : life[c] = "free"}
FreeMonitors == {m \in Monitors : pc[m] = "free"}

\* Bounds: a thread starts a capture only while a capture and a monitor are left
\* for it and for every thread already starting one.
Room ==
  /\ Cardinality(FreeCaptures) > Cardinality({t \in Threads : pc[t] = "create"})
  /\ Cardinality(FreeMonitors) > Cardinality({t \in Threads : pc[t] \in Starting})

\* A capture runs already: an init thread has nothing more to do, a monitor is given
\* the entry.
ReturnRunning(t) ==
  /\ Running
  /\ \/ t \in Inits /\ Return(t)
     \/ t \in Monitors /\ Goto(t, "result") /\ UNCHANGED mine

\* Mutant: a capture is constructed for a camera that neither detects nor records.
StartUnwanted(t) ==
  /\ pc[t] = "start"
  /\ Room
  /\ \/ ReturnRunning(t)
     \/ ~Running /\ Goto(t, "create") /\ UNCHANGED mine
  /\ UNCHANGED <<wanted, entries, captures, removing, joined>>

\* A thread starts a capture unless the camera is not wanted or one runs already.
Start(t) ==
  /\ pc[t] = "start"
  /\ \/ ~wanted /\ Return(t)
     \/ wanted /\ Room /\ ReturnRunning(t)
     \/ wanted /\ Room /\ ~Running /\ Goto(t, "create") /\ UNCHANGED mine
  /\ UNCHANGED <<wanted, entries, captures, removing, joined>>

\* The new StreamCapture becomes the entry.
Create(t) ==
  /\ pc[t] = "create"
  /\ \E c \in Captures :
       /\ life[c] = "free"
       /\ life' = [life EXCEPT ![c] = "new"]
       /\ thread_gstreamers' = c
  /\ Goto(t, "run")
  /\ UNCHANGED <<wanted, thread_monitors, stop_event, force_stop, removing, mine, joined>>

\* `thread_gstreamers[cam_ip].start()' starts whichever capture is there by now,
\* and raises when it is None or was started before.
Run(t) ==
  /\ pc[t] = "run"
  /\ \/ /\ Startable
        /\ life' = [life EXCEPT ![thread_gstreamers] = "alive"]
        /\ Goto(t, "register")
        /\ UNCHANGED mine
     \/ /\ ~Startable
        /\ Return(t)
        /\ UNCHANGED life
  /\ UNCHANGED <<wanted, entries, stop_event, force_stop, removing, joined>>

\* timer_expiry_handler is set on the capture that is there after the start, which
\* raises when it is None.
Register(t) ==
  /\ pc[t] = "register"
  /\ \/ thread_gstreamers # None /\ Goto(t, "result") /\ UNCHANGED mine
     \/ thread_gstreamers = None /\ Return(t)
  /\ UNCHANGED <<wanted, entries, captures, removing, joined>>

\* The entry is returned: the capture that was started, another one, started or not, or
\* None, for which there is nothing more to do.
Result(t) ==
  /\ pc[t] = "result"
  /\ \/ /\ thread_gstreamers # None
        /\ Hold(t, thread_gstreamers)
        /\ Goto(t, IF t \in Inits THEN "watch" ELSE "keep")
     \/ /\ thread_gstreamers = None
        /\ Return(t)
  /\ UNCHANGED <<wanted, entries, captures, removing, joined>>

--------------------------------------------------------------------------------
(* The rest of init_gst_app: a monitor for the capture. *)

Watch(i) ==
  /\ pc[i] = "watch"
  /\ \/ /\ thread_monitors # None
        /\ joined' = [joined EXCEPT ![i] = thread_monitors]
        /\ Goto(i, "joinMonitor")
     \/ /\ thread_monitors = None
        /\ Goto(i, "spawn")
        /\ UNCHANGED joined
  /\ UNCHANGED <<wanted, entries, captures, removing, mine>>

\* join raises on a monitor not started yet.
JoinMonitor(i) ==
  /\ pc[i] = "joinMonitor"
  /\ ~MonitorAlive(joined[i])
  /\ \/ pc[joined[i]] = "new" /\ Return(i) /\ UNCHANGED thread_monitors
     \/ pc[joined[i]] # "new" /\ Goto(i, "spawn") /\ thread_monitors' = None /\ UNCHANGED mine
  /\ joined' = [joined EXCEPT ![i] = None]
  /\ UNCHANGED <<wanted, thread_gstreamers, captures, removing>>

\* The entry becomes a new monitor: for the capture in hand, or, by a monitor, for the
\* one that is the entry by now.
Spawn(t) ==
  /\ pc[t] = "spawn"
  /\ \E m \in Monitors :
       /\ pc[m] = "free"
       /\ pc' = [pc EXCEPT ![m] = "new", ![t] = "launch"]
       /\ mine' = [mine EXCEPT ![m] = IF t \in Inits THEN mine[t] ELSE thread_gstreamers,
                               ![t] = None]
       /\ thread_monitors' = m
  /\ UNCHANGED <<wanted, thread_gstreamers, captures, removing, joined>>

\* `thread_monitors[cam_ip].start()', whichever monitor is there by now; it raises when
\* there is none, or it was started before.
Launch(t) ==
  /\ pc[t] = "launch"
  /\ pc' = [u \in Threads |->
              IF u = t THEN (IF t \in Inits THEN "idle" ELSE "done")
              ELSE IF u = thread_monitors /\ pc[u] = "new" THEN "wait" ELSE pc[u]]
  /\ UNCHANGED <<wanted, entries, captures, removing, mine, joined>>

--------------------------------------------------------------------------------
(* monitor_stop_event. *)

\* stop_event is set and the capture's thread has been joined, which raises on one that
\* was not started yet; a monitor without a capture raises at once.
Wake(m) ==
  /\ pc[m] = "wait"
  /\ \/ /\ mine[m] \in stop_event /\ life[mine[m]] = "dead"
        /\ Goto(m, "woken") /\ UNCHANGED mine
     \/ /\ mine[m] = None \/ (mine[m] \in stop_event /\ life[mine[m]] = "new")
        /\ Return(m)
  /\ UNCHANGED <<wanted, entries, captures, removing, joined>>

\* Mutants: the monitor leaves after every stop; it leaves its entry behind.
LeaveAlways(m) ==
  /\ pc[m] = "woken"
  /\ thread_monitors' = None
  /\ Return(m)
  /\ UNCHANGED <<wanted, thread_gstreamers, captures, removing, joined>>

LeaveEntry(m) ==
  /\ pc[m] = "woken"
  /\ \/ mine[m] \in force_stop /\ Return(m)
     \/ mine[m] \notin force_stop /\ Goto(m, "clear") /\ UNCHANGED mine
  /\ UNCHANGED <<wanted, entries, captures, removing, joined>>

\* After a forced stop the monitor leaves.
CheckForce(m) ==
  /\ pc[m] = "woken"
  /\ \/ mine[m] \in force_stop /\ thread_monitors' = None /\ Return(m)
     \/ mine[m] \notin force_stop /\ Goto(m, "clear") /\ UNCHANGED <<thread_monitors, mine>>
  /\ UNCHANGED <<wanted, thread_gstreamers, captures, removing, joined>>

\* Mutant: the monitor's own entry stays.
ClearCaptureOnly(m) ==
  /\ pc[m] = "clear"
  /\ ~Running
  /\ thread_gstreamers' = None
  /\ Goto(m, "start")
  /\ Hold(m, None)
  /\ UNCHANGED <<wanted, thread_monitors, captures, removing, joined>>

\* A new capture may run already; else both entries are cleared, and 3 s pass.
Clear(m) ==
  /\ pc[m] = "clear"
  /\ \/ /\ Running
        /\ Return(m)
        /\ UNCHANGED entries
     \/ /\ ~Running
        /\ thread_gstreamers' = None /\ thread_monitors' = None
        /\ Goto(m, "start")
        /\ Hold(m, None)
  /\ UNCHANGED <<wanted, captures, removing, joined>>

\* The capture returned becomes the entry (again).
Keep(m) ==
  /\ pc[m] = "keep"
  /\ thread_gstreamers' = mine[m]
  /\ Goto(m, "test")
  /\ Hold(m, None)
  /\ UNCHANGED <<wanted, thread_monitors, captures, removing, joined>>

\* No second monitor beside one that is alive.
TestMonitor(m) ==
  /\ pc[m] = "test"
  /\ \/ MonitorAlive(thread_monitors) /\ Return(m)
     \/ ~MonitorAlive(thread_monitors) /\ Goto(m, "spawn") /\ UNCHANGED mine
  /\ UNCHANGED <<wanted, entries, captures, removing, joined>>

--------------------------------------------------------------------------------
(* StreamCapture.run: an error or the end of the stream ends its loop, as a set
   stop_event does; the thread ends after its cleanup. *)

Fail(c) ==
  /\ life[c] = "alive" /\ c \notin stop_event
  /\ stop_event' = stop_event \union {c}
  /\ UNCHANGED <<wanted, entries, life, force_stop, pc, removing, mine, joined>>

\* Mutant: the cleanup does not set stop_event.
FinishUnset(c) ==
  /\ life[c] = "alive"
  /\ life' = [life EXCEPT ![c] = "dead"]
  /\ UNCHANGED <<wanted, entries, stop_event, force_stop, pc, removing, mine, joined>>

\* Mutant: only an error ends the loop of run.
FinishFailed(c) ==
  /\ life[c] = "alive" /\ c \in stop_event \ force_stop
  /\ life' = [life EXCEPT ![c] = "dead"]
  /\ UNCHANGED <<wanted, entries, stop_event, force_stop, pc, removing, mine, joined>>

Finish(c) ==
  /\ life[c] = "alive" /\ c \in stop_event
  /\ life' = [life EXCEPT ![c] = "dead"]
  /\ UNCHANGED <<wanted, entries, stop_event, force_stop, pc, removing, mine, joined>>

--------------------------------------------------------------------------------
StartStep(t) ==
  Start(t) \/ Create(t) \/ Run(t) \/ Register(t) \/ Result(t) \/ Spawn(t) \/ Launch(t)

InitStep(i) ==
  \/ Stop(i) \/ Join(i) \/ Joined(i) \/ CheckMonitor(i) \/ StartStep(i)
  \/ Watch(i) \/ JoinMonitor(i)

MonitorStep(m) ==
  Wake(m) \/ CheckForce(m) \/ Clear(m) \/ StartStep(m) \/ Keep(m) \/ TestMonitor(m)

Next ==
  \/ \E i \in Inits : Update(i) \/ Remove(i) \/ InitStep(i)
  \/ \E m \in Monitors : MonitorStep(m)
  \/ \E c \in Captures : Fail(c) \/ Finish(c)

\* Threads keep running and a stopped capture's thread ends. The configuration need
\* not change, and a capture need not fail.
Fairness ==
  /\ \A i \in Inits : WF_vars(InitStep(i))
  /\ \A m \in Monitors : WF_vars(MonitorStep(m))
  /\ \A c \in Captures : WF_vars(Finish(c))

Spec == Init /\ [][Next]_vars

\* A monitor that goes on to restart its capture, the 3 s of sleep included.
Restarting(m) == pc[m] \in {"clear", "launch"} \union Starting \union {"start"}

\* The same threads when no init thread works while another one does, or while a
\* monitor restarts its capture. A monitor may still wake at any moment.
OneAtATime ==
  /\ \A i, j \in Inits : Busy(i) /\ Busy(j) => i = j
  /\ \A i \in Inits, m \in Monitors : ~(Busy(i) /\ Restarting(m))

SerialSpec == Init /\ [][Next /\ OneAtATime']_vars

FairSpec == Spec /\ Fairness

FairSerialSpec ==
  /\ SerialSpec
  /\ \A i \in Inits : WF_vars(InitStep(i) /\ OneAtATime')
  /\ \A m \in Monitors : WF_vars(MonitorStep(m) /\ OneAtATime')
  /\ \A c \in Captures : WF_vars(Finish(c))

--------------------------------------------------------------------------------
(* Properties. *)

\* Type correctness of the two dictionaries, the captures and the threads.
TypeOK ==
  /\ wanted \in BOOLEAN
  /\ thread_gstreamers \in Captures \union {None}
  /\ thread_monitors \in Monitors \union {None}
  /\ life \in [Captures -> {"free", "new", "alive", "dead"}]
  /\ force_stop \subseteq stop_event /\ stop_event \subseteq Captures
  /\ \A i \in Inits : pc[i] \in {"idle", "stop", "join", "joining", "check", "start",
                                 "create", "run", "register", "result", "watch",
                                 "joinMonitor", "spawn", "launch"}
  /\ \A m \in Monitors : pc[m] \in {"free", "new", "wait", "woken", "clear", "start",
                                    "create", "run", "register", "result", "keep",
                                    "test", "spawn", "launch", "done"}
  /\ DOMAIN pc = Threads
  /\ removing \subseteq Inits
  /\ mine \in [Threads -> Captures \union {None}]
  /\ joined \in [Inits -> Monitors \union {None}]

Live(c) == life[c] = "alive" /\ c \notin stop_event

\* Nobody starts, stops or restarts a capture.
Settled == \A t \in Threads : ~Busy(t)

Streams == thread_gstreamers # None /\ Live(thread_gstreamers)

\* The monitor restarts a capture that fails: every live capture is watched.
Watched ==
  Settled => \A c \in Captures : Live(c) => \E m \in Monitors : pc[m] = "wait" /\ mine[m] = c

\* A camera that was removed, or set to neither detect nor record, does not stream.
UnwantedStops == Settled /\ ~wanted => \A c \in Captures : ~Live(c)

\* init_gst_app starts no capture while thread_monitors has an entry: none is left
\* behind by a monitor that ended.
NoStaleMonitor == Settled => thread_monitors = None \/ MonitorAlive(thread_monitors)

\* A capture that fails is replaced by one that runs, unless an update of the camera
\* stops it first, the camera is not wanted any more, or the bounds are reached.
Failing(c) == life[c] = "alive" /\ c \in stop_event /\ c \notin force_stop

CrashRecovered ==
  \A c \in Captures : Failing(c) ~> Streams \/ ~wanted \/ c \in force_stop \/ ~Room

\* A monitor waits for a capture that was constructed and replaced in thread_gstreamers
\* before it was started, which may never happen.
AwaitsStart(m) ==
  pc[m] = "wait" /\ mine[m] \in Captures /\ life[mine[m]] = "new" /\ mine[m] \notin stop_event

\* The joins of init_cameras and of the monitors never wait for each other: an
\* update of a camera ends, unless it waits for a capture that goes on streaming, or for
\* the monitor of one that nobody has started (or the bounds stop it or that monitor).
WaitsForLive(i) ==
  \/ pc[i] = "joining" /\ Live(mine[i])
  \/ /\ pc[i] = "joinMonitor" /\ pc[joined[i]] = "wait" /\ mine[joined[i]] # None
     /\ Live(mine[joined[i]]) \/ AwaitsStart(joined[i])

OutOfRoom(t) == pc[t] = "start" /\ ~Room

UpdateEnds ==
  \A i \in Inits :
    Busy(i) ~> \/ ~Busy(i) \/ WaitsForLive(i) \/ OutOfRoom(i)
               \/ pc[i] = "joinMonitor" /\ OutOfRoom(joined[i])

\* The capture of a join, or of a monitor, has not ended.
AwaitsCapture(t) ==
  pc[t] \in {"joining", "wait"} /\ mine[t] \in Captures /\ life[mine[t]] = "alive"

AwaitsMonitor(t) == pc[t] = "joinMonitor" /\ MonitorAlive(joined[t])

\* The thread's next step can be taken: what it joined has ended with its stop_event
\* set, and a new capture or monitor can be made.
Goes(t) ==
  /\ pc[t] = "joining" => mine[t] \in stop_event /\ life[mine[t]] = "dead"
  /\ pc[t] = "wait" => mine[t] = None \/ (mine[t] \in stop_event /\ life[mine[t]] # "alive")
  /\ ~AwaitsMonitor(t)
  /\ pc[t] = "start" => Room \/ ~wanted
  /\ pc[t] = "create" => FreeCaptures # {}
  /\ pc[t] = "spawn" => FreeMonitors # {}

\* At any moment and for any overlap every thread goes on, or waits for a capture's
\* thread, or for a monitor that does one of the two (or the bounds are reached). Nobody
\* waits for who waits for him, or for a stop_event that the thread has ended without;
\* for a capture that was not started only a monitor waits, and only when an overlap has
\* replaced the capture its maker had just started.
NoCircle ==
  \A t \in Threads :
    \/ Goes(t) \/ AwaitsCapture(t)
    \/ OutOfRoom(t)
    \/ AwaitsMonitor(t) /\ joined[t] \in Monitors /\ ~AwaitsMonitor(joined[t])
    \/ t \in Monitors /\ AwaitsStart(t)
================================================================================
