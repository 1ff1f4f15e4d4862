-------------------------- MODULE CameraLifecycleProofs --------------------------
(***************************************************************************)
(* Proofs about CameraLifecycle for any number of threads, captures and    *)
(* monitors: its types under every interleaving, and that no threads wait  *)
(* for each other; and when updates and restarts do not overlap, that live *)
(* captures are watched, unwanted cameras do not stream and no monitor     *)
(* entry is stale. And about StreamPipeline for any number of threads in   *)
(* stop: what a capture has open when it has ended, and that it is the     *)
(* CaptureThread that CameraLifecycle's captures are, too.                 *)
(***************************************************************************)
EXTENDS CameraLifecycle, StreamPipeline, FiniteSetTheorems, TLAPS

--------------------------------------------------------------------------------
(* Types. *)

InitPlaces == {"idle", "stop", "join", "joining", "check", "start",
               "create", "run", "register", "result", "watch", "joinMonitor", "spawn", "launch"}
MonitorPlaces == {"free", "new", "wait", "woken", "clear", "start", "create", "run", "register",
                  "result", "keep", "test", "spawn", "launch", "done"}

\* A thread that goes on, or ends, is where it may be.
LEMMA GotoType ==
  ASSUME TypeOK, NEW t \in Threads, NEW l, pc' = [pc EXCEPT ![t] = l],
         t \in Inits => l \in InitPlaces, t \in Monitors => l \in MonitorPlaces
  PROVE  /\ DOMAIN pc' = Threads
         /\ \A i \in Inits : pc'[i] \in InitPlaces
         /\ \A m \in Monitors : pc'[m] \in MonitorPlaces
BY DEF TypeOK, Threads, InitPlaces, MonitorPlaces

LEMMA SpawnType ==
  ASSUME TypeOK, NEW t \in Threads, Spawn(t)
  PROVE  TypeOK'
<1>1. PICK m \in Monitors :
        /\ pc' = [pc EXCEPT ![m] = "new", ![t] = "launch"]
        /\ mine' = [mine EXCEPT ![m] = IF t \in Inits THEN mine[t] ELSE thread_gstreamers,
                                ![t] = None]
        /\ thread_monitors' = m
  BY DEF Spawn
<1>2. /\ DOMAIN pc' = Threads
      /\ \A i \in Inits : pc'[i] \in InitPlaces
      /\ \A n \in Monitors : pc'[n] \in MonitorPlaces
  BY <1>1, LifecycleAssumption DEF TypeOK, Threads, InitPlaces, MonitorPlaces
<1>3. mine' \in [Threads -> Captures \union {None}]
  BY <1>1 DEF TypeOK
<1>4. QED
  BY <1>1, <1>2, <1>3 DEF Spawn, TypeOK, InitPlaces, MonitorPlaces, captures

LEMMA LaunchType ==
  ASSUME TypeOK, NEW t \in Threads, Launch(t)
  PROVE  TypeOK'
<1>1. /\ DOMAIN pc' = Threads
      /\ \A i \in Inits : pc'[i] \in InitPlaces
      /\ \A n \in Monitors : pc'[n] \in MonitorPlaces
  BY LifecycleAssumption DEF Launch, TypeOK, Threads, InitPlaces, MonitorPlaces
<1>2. QED
  BY <1>1 DEF Launch, TypeOK, InitPlaces, MonitorPlaces, entries, captures

\* The steps both kinds of threads have.
LEMMA StartType == ASSUME TypeOK, NEW t \in Threads, StartStep(t) PROVE TypeOK'
<1> USE DEF entries, captures, Goto, Hold, Return
<1>1. t \in Inits => t \notin Monitors
  BY LifecycleAssumption
<1>2. ASSUME NEW l, pc' = [pc EXCEPT ![t] = l],
             t \in Inits => l \in InitPlaces, t \in Monitors => l \in MonitorPlaces,
             NEW c \in Captures \union {None}, mine' = [mine EXCEPT ![t] = c] \/ UNCHANGED mine,
             life' \in [Captures -> {"free", "new", "alive", "dead"}],
             thread_gstreamers' \in Captures \union {None},
             UNCHANGED <<wanted, thread_monitors, stop_event, force_stop, removing, joined>>
      PROVE  TypeOK'
  <2>1. /\ DOMAIN pc' = Threads /\ \A i \in Inits : pc'[i] \in InitPlaces
        /\ \A m \in Monitors : pc'[m] \in MonitorPlaces
    BY <1>2, GotoType
  <2>2. QED
    BY <1>2, <2>1 DEF TypeOK, InitPlaces, MonitorPlaces
<1>3. ASSUME Return(t), UNCHANGED <<wanted, entries, captures, removing, joined>>
      PROVE  TypeOK'
  <2>1. pc' = [pc EXCEPT ![t] = IF t \in Inits THEN "idle" ELSE "done"]
        /\ mine' = [mine EXCEPT ![t] = None]
    BY <1>3
  <2>2. /\ t \in Inits => (IF t \in Inits THEN "idle" ELSE "done") \in InitPlaces
        /\ t \in Monitors => (IF t \in Inits THEN "idle" ELSE "done") \in MonitorPlaces
    BY <1>1 DEF InitPlaces, MonitorPlaces
  <2>3. QED
    BY <1>2, <1>3, <2>1, <2>2 DEF TypeOK
<1>4. CASE Start(t)
  <2>1. CASE Return(t)
    BY <1>3, <1>4, <2>1 DEF Start
  <2>2. ASSUME NEW l \in {"create", "result"}, Goto(t, l), UNCHANGED mine,
               l = "result" => t \in Monitors
        PROVE  TypeOK'
    <3>1. /\ t \in Inits => l \in InitPlaces
          /\ t \in Monitors => l \in MonitorPlaces
      BY <2>2 DEF InitPlaces, MonitorPlaces
    <3>2. UNCHANGED <<wanted, entries, captures, removing, joined>>
      BY <1>4 DEF Start
    <3>3. QED
      BY <1>2, <2>2, <3>1, <3>2 DEF TypeOK
  <2>3. QED
    BY <1>4, <2>1, <2>2 DEF Start, ReturnRunning
<1>5. CASE Create(t)
  <2>1. "run" \in InitPlaces /\ "run" \in MonitorPlaces
    BY DEF InitPlaces, MonitorPlaces
  <2>2. QED
    BY <1>2, <1>5, <2>1 DEF Create, TypeOK
<1>6. CASE Run(t)
  <2>1. "register" \in InitPlaces /\ "register" \in MonitorPlaces
    BY DEF InitPlaces, MonitorPlaces
  <2>2. CASE Startable
    BY <1>2, <1>6, <2>1, <2>2 DEF Run, TypeOK
  <2>3. CASE ~Startable
    BY <1>3, <1>6, <2>3 DEF Run
  <2>4. QED
    BY <2>2, <2>3
<1>7. CASE Register(t)
  <2>1. "result" \in InitPlaces /\ "result" \in MonitorPlaces
    BY DEF InitPlaces, MonitorPlaces
  <2>2. QED
    BY <1>2, <1>3, <1>7, <2>1 DEF Register, TypeOK
<1>8. CASE Result(t)
  <2>1. "watch" \in InitPlaces /\ "keep" \in MonitorPlaces
    BY DEF InitPlaces, MonitorPlaces
  <2>2. CASE thread_gstreamers # None
    <3>1. /\ pc' = [pc EXCEPT ![t] = IF t \in Inits THEN "watch" ELSE "keep"]
          /\ mine' = [mine EXCEPT ![t] = thread_gstreamers]
          /\ UNCHANGED <<wanted, entries, captures, removing, joined>>
      BY <1>8, <2>2 DEF Result
    <3>2. /\ t \in Inits => (IF t \in Inits THEN "watch" ELSE "keep") \in InitPlaces
          /\ t \in Monitors => (IF t \in Inits THEN "watch" ELSE "keep") \in MonitorPlaces
      BY <1>1, <2>1
    <3>3. QED
      BY <1>2, <3>1, <3>2 DEF TypeOK
  <2>3. CASE thread_gstreamers = None
    BY <1>3, <1>8, <2>3 DEF Result
  <2>4. QED
    BY <2>2, <2>3
<1>9. QED
  BY <1>4, <1>5, <1>6, <1>7, <1>8, SpawnType, LaunchType DEF StartStep

LEMMA TypeInit == Init => TypeOK
BY LifecycleAssumption DEF Init, TypeOK, Threads

LEMMA TypeNext == TypeOK /\ [Next]_vars => TypeOK'
<1> SUFFICES ASSUME TypeOK, [Next]_vars PROVE TypeOK'
  OBVIOUS
<1> USE DEF entries, captures, Goto, Hold, Return
<1>1. ASSUME NEW i \in Inits, Update(i) \/ Remove(i) \/ InitStep(i) PROVE TypeOK'
  <2>1. i \in Threads /\ i \notin Monitors
    BY LifecycleAssumption DEF Threads
  <2>2. ASSUME NEW l \in InitPlaces, pc' = [pc EXCEPT ![i] = l],
               wanted' \in BOOLEAN, removing' \subseteq Inits,
               thread_gstreamers' \in Captures \union {None},
               thread_monitors' \in Monitors \union {None},
               force_stop' \subseteq stop_event', stop_event' \subseteq Captures,
               mine' \in [Threads -> Captures \union {None}],
               joined' \in [Inits -> Monitors \union {None}], UNCHANGED life
        PROVE  TypeOK'
    <3>1. /\ DOMAIN pc' = Threads /\ \A j \in Inits : pc'[j] \in InitPlaces
          /\ \A m \in Monitors : pc'[m] \in MonitorPlaces
      BY <2>1, <2>2, GotoType
    <3>2. QED
      BY <2>2, <3>1 DEF TypeOK, InitPlaces, MonitorPlaces
  <2>3. CASE Update(i) \/ Remove(i)
    <3>1. pc' = [pc EXCEPT ![i] = "stop"] /\ "stop" \in InitPlaces
      BY <2>3 DEF Update, Remove, InitPlaces
    <3>2. wanted' \in BOOLEAN /\ removing' \subseteq Inits
          /\ UNCHANGED <<entries, captures, mine, joined>>
      BY <2>3 DEF Update, Remove, TypeOK
    <3>3. QED
      BY <2>2, <3>1, <3>2 DEF TypeOK
  <2>4. CASE Stop(i)
    <3>1. \E l \in InitPlaces : pc' = [pc EXCEPT ![i] = l]
      BY <2>4 DEF Stop, InitPlaces
    <3>2. /\ force_stop' \subseteq stop_event' /\ stop_event' \subseteq Captures
          /\ UNCHANGED <<wanted, entries, removing, mine, joined, life>>
      BY <2>4 DEF Stop, TypeOK
    <3>3. QED
      BY <2>2, <3>1, <3>2 DEF TypeOK
  <2>5. CASE Join(i)
    <3>1. \E l \in InitPlaces : pc' = [pc EXCEPT ![i] = l]
      BY <2>5 DEF Join, InitPlaces
    <3>2. /\ mine' \in [Threads -> Captures \union {None}]
          /\ UNCHANGED <<wanted, entries, captures, removing, joined>>
      BY <2>5 DEF Join, TypeOK
    <3>3. QED
      BY <2>2, <3>1, <3>2 DEF TypeOK
  <2>6. CASE Joined(i)
    <3>1. \E l \in InitPlaces : pc' = [pc EXCEPT ![i] = l]
      BY <2>6 DEF Joined, InitPlaces
    <3>2. /\ mine' \in [Threads -> Captures \union {None}] /\ thread_gstreamers' = None
          /\ UNCHANGED <<wanted, thread_monitors, captures, removing, joined>>
      BY <2>6 DEF Joined, TypeOK
    <3>3. QED
      BY <2>2, <3>1, <3>2 DEF TypeOK
  <2>7. CASE CheckMonitor(i)
    <3>1. \E l \in InitPlaces : pc' = [pc EXCEPT ![i] = l]
      BY <2>7 DEF CheckMonitor, InitPlaces
    <3>2. UNCHANGED <<wanted, entries, captures, removing, mine, joined>>
      BY <2>7 DEF CheckMonitor
    <3>3. QED
      BY <2>2, <3>1, <3>2 DEF TypeOK
  <2>8. CASE Watch(i)
    <3>1. \E l \in InitPlaces : pc' = [pc EXCEPT ![i] = l]
      BY <2>8 DEF Watch, InitPlaces
    <3>2. /\ joined' \in [Inits -> Monitors \union {None}]
          /\ UNCHANGED <<wanted, entries, captures, removing, mine>>
      BY <2>8 DEF Watch, TypeOK
    <3>3. QED
      BY <2>2, <3>1, <3>2 DEF TypeOK
  <2>9. CASE JoinMonitor(i)
    <3>1. \E l \in InitPlaces : pc' = [pc EXCEPT ![i] = l]
      BY <2>9 DEF JoinMonitor, InitPlaces
    <3>2. /\ joined' \in [Inits -> Monitors \union {None}]
          /\ thread_monitors' \in {thread_monitors, None}
          /\ mine' \in [Threads -> Captures \union {None}]
          /\ UNCHANGED <<wanted, thread_gstreamers, captures, removing>>
      BY <2>9 DEF JoinMonitor, TypeOK
    <3>3. QED
      BY <2>2, <3>1, <3>2 DEF TypeOK
  <2>10. QED
    BY <1>1, <2>1, <2>3, <2>4, <2>5, <2>6, <2>7, <2>8, <2>9, StartType DEF InitStep
<1>2. ASSUME NEW m \in Monitors, MonitorStep(m) PROVE TypeOK'
  <2>1. m \in Threads /\ m \notin Inits
    BY LifecycleAssumption DEF Threads
  <2>2. ASSUME Wake(m) \/ CheckForce(m) \/ Clear(m) \/ Keep(m) \/ TestMonitor(m)
        PROVE  TypeOK'
    <3>1. \E l \in MonitorPlaces : pc' = [pc EXCEPT ![m] = l]
      BY <2>1, <2>2 DEF Wake, CheckForce, Clear, Keep, TestMonitor, MonitorPlaces
    <3>2. /\ DOMAIN pc' = Threads /\ \A j \in Inits : pc'[j] \in InitPlaces
          /\ \A n \in Monitors : pc'[n] \in MonitorPlaces
      BY <2>1, <3>1, GotoType
    <3>3. /\ mine' \in [Threads -> Captures \union {None}]
          /\ thread_gstreamers' \in Captures \union {None}
          /\ thread_monitors' \in Monitors \union {None}
          /\ UNCHANGED <<wanted, captures, removing, joined>>
      <4> USE <2>1 DEF TypeOK
      <4>1. CASE Wake(m)
        BY <4>1 DEF Wake
      <4>2. CASE CheckForce(m)
        BY <4>2 DEF CheckForce
      <4>3. CASE Clear(m)
        BY <4>3 DEF Clear
      <4>4. CASE Keep(m)
        BY <4>4 DEF Keep
      <4>5. CASE TestMonitor(m)
        BY <4>5 DEF TestMonitor
      <4>6. QED
        BY <2>2, <4>1, <4>2, <4>3, <4>4, <4>5
    <3>4. QED
      BY <3>2, <3>3 DEF TypeOK, InitPlaces, MonitorPlaces
  <2>3. QED
    BY <1>2, <2>1, <2>2, StartType DEF MonitorStep
<1>3. ASSUME NEW c \in Captures, Fail(c) \/ Finish(c) PROVE TypeOK'
  BY <1>3 DEF Fail, Finish, TypeOK
<1>4. CASE UNCHANGED vars
  BY <1>4 DEF vars, TypeOK
<1>5. QED
  BY <1>1, <1>2, <1>3, <1>4 DEF Next

\* TypeOK, for any parameters and under every interleaving: the dictionaries hold what
\* they should, and only stopped captures are stopped by force.
THEOREM TypesHold == Spec => []TypeOK
BY TypeInit, TypeNext, PTL DEF Spec

--------------------------------------------------------------------------------
(***************************************************************************)
(* The camera's entries when updates and restarts do not overlap: at most  *)
(* one monitor is at work, and its entry is there until it restarts; at    *)
(* most one capture is alive, the one of the entry.                        *)
(***************************************************************************)
Active(m) == pc[m] \notin {"free", "new", "done"}
Watching(m) == pc[m] \in {"wait", "woken", "clear"}

\* What the positions of a thread say of the camera's capture.
CaptureAt(t) ==
  /\ pc[t] \in {"start", "create", "check"} => thread_gstreamers = None
  /\ pc[t] = "run" => thread_gstreamers # None /\ life[thread_gstreamers] = "new"
  /\ pc[t] \in {"register", "result", "test", "watch", "spawn", "keep", "clear", "launch"} =>
       thread_gstreamers # None /\ life[thread_gstreamers] \in {"alive", "dead"}
  /\ pc[t] \in {"watch", "keep", "clear"} \/ (pc[t] = "spawn" /\ t \in Inits) =>
       thread_gstreamers = mine[t]
  /\ pc[t] = "launch" =>
       /\ thread_monitors # None /\ pc[thread_monitors] = "new"
       /\ mine[thread_monitors] = thread_gstreamers
  /\ pc[t] \in {"join", "joining"} =>
       /\ thread_gstreamers # None /\ thread_gstreamers \in force_stop
       /\ life[thread_gstreamers] \in {"alive", "dead"}
       /\ pc[t] = "joining" => thread_gstreamers = mine[t]

Monitored ==
  /\ \A m, n \in Monitors : Active(m) /\ Active(n) => m = n
  /\ thread_monitors # None =>
       \/ Watching(thread_monitors)
       \/ pc[thread_monitors] = "new" /\ \E t \in Threads : pc[t] = "launch"
  /\ \A m \in Monitors :
       /\ Watching(m) =>
            /\ thread_monitors = m /\ mine[m] # None
            /\ life[mine[m]] \in {"alive", "dead"}
            /\ thread_gstreamers = mine[m] \/ (thread_gstreamers = None /\ mine[m] \in force_stop)
       /\ pc[m] \in {"woken", "clear"} => life[mine[m]] = "dead"
  /\ \A i \in Inits :
       /\ pc[i] # "joinMonitor"
       /\ pc[i] \in {"start", "create", "run", "register", "result", "watch", "spawn", "launch"} =>
            \A m \in Monitors : ~Active(m)

\* The entry's capture is watched, or somebody who watches or stops it is at work.
Covered ==
  thread_gstreamers # None =>
    /\ life[thread_gstreamers] # "free"
    /\ thread_gstreamers \in force_stop => \E i \in Inits : pc[i] \in {"join", "joining"}
    /\ \/ \E m \in Monitors : Watching(m) /\ mine[m] = thread_gstreamers
       \/ \E t \in Threads : pc[t] \in {"run", "register", "result", "keep", "test", "watch",
                                        "spawn", "launch"}
       \/ thread_gstreamers \in force_stop

OneLive ==
  \A c \in Captures :
    /\ life[c] = "alive" => c = thread_gstreamers
    /\ life[c] = "new" => c = thread_gstreamers /\ \E t \in Threads : pc[t] = "run"
    /\ life[c] \in {"free", "new"} => c \notin stop_event

Unwanted ==
  ~wanted =>
    /\ \A t \in Threads : pc[t] \notin {"create", "run"}
    /\ (\E i \in Inits : pc[i] = "stop") \/ \A c \in Captures : ~Live(c)

SerialInv ==
  /\ OneAtATime
  /\ \A t \in Threads : CaptureAt(t)
  /\ Monitored /\ Covered /\ OneLive /\ Unwanted

--------------------------------------------------------------------------------
(* SerialInv holds at the start and is kept by every step. *)

\* Starting a capture: nobody else works, and the entry is the capture just made.
LEMMA SerialStart ==
  ASSUME TypeOK, TypeOK', SerialInv, OneAtATime', NEW t \in Threads, StartStep(t)
  PROVE  SerialInv'
<1> USE LifecycleAssumption
        DEF SerialInv, TypeOK, OneAtATime, Threads, Busy, Restarting, Starting, Active, Watching,
            CaptureAt, Monitored, Covered, OneLive, Unwanted, Live, Goto, Hold, entries, captures
<1>1. CASE Start(t)
  <2>1. \A u \in Threads : CaptureAt(u)'
    BY <1>1 DEF Start, Return, ReturnRunning, Running
  <2>2. Monitored'
    BY <1>1 DEF Start, Return, ReturnRunning, Running
  <2>3. Covered'
    BY <1>1 DEF Start, Return, ReturnRunning, Running
  <2>4. OneLive'
    BY <1>1 DEF Start, Return, ReturnRunning, Running
  <2>5. Unwanted'
    BY <1>1 DEF Start, Return, ReturnRunning, Running
  <2>6. QED
    BY <2>1, <2>2, <2>3, <2>4, <2>5
<1>2. CASE Create(t)
  <2>1. \A u \in Threads : CaptureAt(u)'
    BY <1>2 DEF Create
  <2>2. Monitored'
    BY <1>2 DEF Create
  <2>3. Covered'
    BY <1>2 DEF Create
  <2>4. OneLive'
    BY <1>2 DEF Create
  <2>5. Unwanted'
    BY <1>2 DEF Create
  <2>6. QED
    BY <2>1, <2>2, <2>3, <2>4, <2>5
<1>3. CASE Run(t)
  <2>1. \A u \in Threads : CaptureAt(u)'
    BY <1>3 DEF Run, Return, Startable
  <2>2. Monitored'
    BY <1>3 DEF Run, Return, Startable
  <2>3. Covered'
    BY <1>3 DEF Run, Return, Startable
  <2>4. OneLive'
    BY <1>3 DEF Run, Return, Startable
  <2>5. Unwanted'
    BY <1>3 DEF Run, Return, Startable
  <2>6. QED
    BY <2>1, <2>2, <2>3, <2>4, <2>5
<1>4. CASE Register(t)
  <2>1. \A u \in Threads : CaptureAt(u)'
    BY <1>4 DEF Register, Return
  <2>2. Monitored'
    BY <1>4 DEF Register, Return
  <2>3. Covered'
    BY <1>4 DEF Register, Return
  <2>4. OneLive'
    BY <1>4 DEF Register, Return
  <2>5. Unwanted'
    BY <1>4 DEF Register, Return
  <2>6. QED
    BY <2>1, <2>2, <2>3, <2>4, <2>5
<1>5. CASE Result(t)
  <2>1. \A u \in Threads : CaptureAt(u)'
    BY <1>5 DEF Result, Return
  <2>2. Monitored'
    BY <1>5 DEF Result, Return
  <2>3. Covered'
    BY <1>5 DEF Result, Return
  <2>4. OneLive'
    BY <1>5 DEF Result, Return
  <2>5. Unwanted'
    BY <1>5 DEF Result, Return
  <2>6. QED
    BY <2>1, <2>2, <2>3, <2>4, <2>5
<1>6. CASE Spawn(t)
  <2>1. \A u \in Threads : CaptureAt(u)'
    BY <1>6 DEF Spawn
  <2>2. Monitored'
    BY <1>6 DEF Spawn
  <2>3. Covered'
    BY <1>6 DEF Spawn
  <2>4. OneLive'
    BY <1>6 DEF Spawn
  <2>5. Unwanted'
    BY <1>6 DEF Spawn
  <2>6. QED
    BY <2>1, <2>2, <2>3, <2>4, <2>5
<1>7. CASE Launch(t)
  <2>1. \A u \in Threads : CaptureAt(u)'
    BY <1>7 DEF Launch
  <2>2. Monitored'
    BY <1>7 DEF Launch
  <2>3. Covered'
    BY <1>7 DEF Launch
  <2>4. OneLive'
    BY <1>7 DEF Launch
  <2>5. Unwanted'
    BY <1>7 DEF Launch
  <2>6. QED
    BY <2>1, <2>2, <2>3, <2>4, <2>5
<1>8. QED
  BY <1>1, <1>2, <1>3, <1>4, <1>5, <1>6, <1>7 DEF StartStep

\* An init thread: it never finds the entry of a monitor that is gone, so it joins none.
LEMMA SerialInit ==
  ASSUME TypeOK, TypeOK', SerialInv, OneAtATime', NEW i \in Inits, Update(i) \/ Remove(i) \/ InitStep(i)
  PROVE  SerialInv'
<1> USE LifecycleAssumption
        DEF SerialInv, TypeOK, OneAtATime, Threads, Busy, Restarting, Starting, Active, Watching,
            CaptureAt, Monitored, Covered, OneLive, Unwanted, Live, Goto, Hold, entries, captures
<1>1. CASE Update(i)
  <2>1. \A t \in Threads : CaptureAt(t)'
    BY <1>1 DEF Update
  <2>2. Monitored'
    BY <1>1 DEF Update
  <2>3. Covered'
    BY <1>1 DEF Update
  <2>4. OneLive'
    BY <1>1 DEF Update
  <2>5. Unwanted'
    BY <1>1 DEF Update
  <2>6. QED
    BY <2>1, <2>2, <2>3, <2>4, <2>5
<1>2. CASE Remove(i)
  <2>1. \A t \in Threads : CaptureAt(t)'
    BY <1>2 DEF Remove
  <2>2. Monitored'
    BY <1>2 DEF Remove
  <2>3. Covered'
    BY <1>2 DEF Remove
  <2>4. OneLive'
    BY <1>2 DEF Remove
  <2>5. Unwanted'
    BY <1>2 DEF Remove
  <2>6. QED
    BY <2>1, <2>2, <2>3, <2>4, <2>5
<1>3. CASE Stop(i)
  <2>1. \A t \in Threads : CaptureAt(t)'
    BY <1>3 DEF Stop
  <2>2. Monitored'
    BY <1>3 DEF Stop
  <2>3. Covered'
    BY <1>3 DEF Stop
  <2>4. OneLive'
    BY <1>3 DEF Stop
  <2>5. Unwanted'
    BY <1>3 DEF Stop
  <2>6. QED
    BY <2>1, <2>2, <2>3, <2>4, <2>5
<1>4. CASE Join(i)
  <2>1. \A t \in Threads : CaptureAt(t)'
    BY <1>4 DEF Join, Startable, Return
  <2>2. Monitored'
    BY <1>4 DEF Join, Startable, Return
  <2>3. Covered'
    BY <1>4 DEF Join, Startable, Return
  <2>4. OneLive'
    BY <1>4 DEF Join, Startable, Return
  <2>5. Unwanted'
    BY <1>4 DEF Join, Startable, Return
  <2>6. QED
    BY <2>1, <2>2, <2>3, <2>4, <2>5
<1>5. CASE Joined(i)
  <2>1. \A t \in Threads : CaptureAt(t)'
    BY <1>5 DEF Joined, Return
  <2>2. Monitored'
    BY <1>5 DEF Joined, Return
  <2>3. Covered'
    BY <1>5 DEF Joined, Return
  <2>4. OneLive'
    BY <1>5 DEF Joined, Return
  <2>5. Unwanted'
    BY <1>5 DEF Joined, Return
  <2>6. QED
    BY <2>1, <2>2, <2>3, <2>4, <2>5
<1>6. CASE CheckMonitor(i)
  <2>1. \A t \in Threads : CaptureAt(t)'
    BY <1>6 DEF CheckMonitor
  <2>2. Monitored'
    BY <1>6 DEF CheckMonitor
  <2>3. Covered'
    BY <1>6 DEF CheckMonitor
  <2>4. OneLive'
    BY <1>6 DEF CheckMonitor
  <2>5. Unwanted'
    BY <1>6 DEF CheckMonitor
  <2>6. QED
    BY <2>1, <2>2, <2>3, <2>4, <2>5
<1>7. CASE Watch(i)
  <2>1. \A t \in Threads : CaptureAt(t)'
    BY <1>7 DEF Watch
  <2>2. Monitored'
    BY <1>7 DEF Watch
  <2>3. Covered'
    BY <1>7 DEF Watch
  <2>4. OneLive'
    BY <1>7 DEF Watch
  <2>5. Unwanted'
    BY <1>7 DEF Watch
  <2>6. QED
    BY <2>1, <2>2, <2>3, <2>4, <2>5
<1>8. CASE JoinMonitor(i)
  BY <1>8 DEF JoinMonitor
<1>9. QED
  BY <1>1, <1>2, <1>3, <1>4, <1>5, <1>6, <1>7, <1>8, SerialStart DEF InitStep

\* A monitor: it wakes for the capture of the entry, or for one an init thread has joined.
LEMMA SerialMonitor ==
  ASSUME TypeOK, TypeOK', SerialInv, OneAtATime', NEW m \in Monitors, MonitorStep(m)
  PROVE  SerialInv'
<1> USE LifecycleAssumption
        DEF SerialInv, TypeOK, OneAtATime, Threads, Busy, Restarting, Starting, Active, Watching,
            CaptureAt, Monitored, Covered, OneLive, Unwanted, Live, Goto, Hold, entries, captures
<1>1. CASE Wake(m)
  <2>1. \A t \in Threads : CaptureAt(t)'
    BY <1>1 DEF Wake, Return
  <2>2. Monitored'
    BY <1>1 DEF Wake, Return
  <2>3. Covered'
    BY <1>1 DEF Wake, Return
  <2>4. OneLive'
    BY <1>1 DEF Wake, Return
  <2>5. Unwanted'
    BY <1>1 DEF Wake, Return
  <2>6. QED
    BY <2>1, <2>2, <2>3, <2>4, <2>5
<1>2. CASE CheckForce(m)
  <2>1. \A t \in Threads : CaptureAt(t)'
    BY <1>2 DEF CheckForce, Return
  <2>2. Monitored'
    BY <1>2 DEF CheckForce, Return
  <2>3. Covered'
    BY <1>2 DEF CheckForce, Return
  <2>4. OneLive'
    BY <1>2 DEF CheckForce, Return
  <2>5. Unwanted'
    BY <1>2 DEF CheckForce, Return
  <2>6. QED
    BY <2>1, <2>2, <2>3, <2>4, <2>5
<1>3. CASE Clear(m)
  <2>1. \A t \in Threads : CaptureAt(t)'
    BY <1>3 DEF Clear, Return, Running
  <2>2. Monitored'
    BY <1>3 DEF Clear, Return, Running
  <2>3. Covered'
    BY <1>3 DEF Clear, Return, Running
  <2>4. OneLive'
    BY <1>3 DEF Clear, Return, Running
  <2>5. Unwanted'
    BY <1>3 DEF Clear, Return, Running
  <2>6. QED
    BY <2>1, <2>2, <2>3, <2>4, <2>5
<1>4. CASE Keep(m)
  <2>1. \A t \in Threads : CaptureAt(t)'
    BY <1>4 DEF Keep
  <2>2. Monitored'
    BY <1>4 DEF Keep
  <2>3. Covered'
    BY <1>4 DEF Keep
  <2>4. OneLive'
    BY <1>4 DEF Keep
  <2>5. Unwanted'
    BY <1>4 DEF Keep
  <2>6. QED
    BY <2>1, <2>2, <2>3, <2>4, <2>5
<1>5. CASE TestMonitor(m)
  <2>1. \A t \in Threads : CaptureAt(t)'
    BY <1>5 DEF TestMonitor, Return, MonitorAlive
  <2>2. Monitored'
    BY <1>5 DEF TestMonitor, Return, MonitorAlive
  <2>3. Covered'
    BY <1>5 DEF TestMonitor, Return, MonitorAlive
  <2>4. OneLive'
    BY <1>5 DEF TestMonitor, Return, MonitorAlive
  <2>5. Unwanted'
    BY <1>5 DEF TestMonitor, Return, MonitorAlive
  <2>6. QED
    BY <2>1, <2>2, <2>3, <2>4, <2>5
<1>6. QED
  BY <1>1, <1>2, <1>3, <1>4, <1>5, SerialStart DEF MonitorStep

\* A capture that fails or ends is the one of the entry.
LEMMA SerialCapture ==
  ASSUME TypeOK, TypeOK', SerialInv, OneAtATime', NEW c \in Captures, Fail(c) \/ Finish(c)
  PROVE  SerialInv'
<1> USE LifecycleAssumption
        DEF SerialInv, TypeOK, OneAtATime, Threads, Busy, Restarting, Starting, Active, Watching,
            CaptureAt, Monitored, Covered, OneLive, Unwanted, Live, Goto, Hold, entries, captures
<1>1. CASE Fail(c)
  <2>1. \A t \in Threads : CaptureAt(t)'
    BY <1>1 DEF Fail
  <2>2. Monitored'
    BY <1>1 DEF Fail
  <2>3. Covered'
    BY <1>1 DEF Fail
  <2>4. OneLive'
    BY <1>1 DEF Fail
  <2>5. Unwanted'
    BY <1>1 DEF Fail
  <2>6. QED
    BY <2>1, <2>2, <2>3, <2>4, <2>5
<1>2. CASE Finish(c)
  <2>1. \A t \in Threads : CaptureAt(t)'
    BY <1>2 DEF Finish
  <2>2. Monitored'
    BY <1>2 DEF Finish
  <2>3. Covered'
    BY <1>2 DEF Finish
  <2>4. OneLive'
    BY <1>2 DEF Finish
  <2>5. Unwanted'
    BY <1>2 DEF Finish
  <2>6. QED
    BY <2>1, <2>2, <2>3, <2>4, <2>5
<1>3. QED
  BY <1>1, <1>2

LEMMA SerialAtStart == Init => SerialInv
BY LifecycleAssumption
   DEF Init, SerialInv, OneAtATime, Threads, Busy, Restarting, Starting, Active, Watching,
       CaptureAt, Monitored, Covered, OneLive, Unwanted, Live

LEMMA SerialNext == TypeOK /\ SerialInv /\ [Next /\ OneAtATime']_vars => SerialInv'
<1> SUFFICES ASSUME TypeOK, SerialInv, [Next /\ OneAtATime']_vars PROVE SerialInv'
  OBVIOUS
<1>1. TypeOK'
  BY TypeNext
<1>2. CASE Next /\ OneAtATime'
  <2>1. ASSUME NEW i \in Inits, Update(i) \/ Remove(i) \/ InitStep(i) PROVE SerialInv'
    BY <1>1, <1>2, <2>1, SerialInit
  <2>2. ASSUME NEW m \in Monitors, MonitorStep(m) PROVE SerialInv'
    BY <1>1, <1>2, <2>2, SerialMonitor
  <2>3. ASSUME NEW c \in Captures, Fail(c) \/ Finish(c) PROVE SerialInv'
    BY <1>1, <1>2, <2>3, SerialCapture
  <2>4. QED
    BY <1>2, <2>1, <2>2, <2>3 DEF Next
<1>3. CASE UNCHANGED vars
  BY <1>3 DEF vars, entries, captures, SerialInv, OneAtATime, Busy, Restarting, Starting, Active, Watching,
              CaptureAt, Monitored, Covered, OneLive, Unwanted, Live
<1>4. QED
  BY <1>2, <1>3

LEMMA SerialHolds == SerialSpec => [](TypeOK /\ SerialInv)
<1>1. TypeOK /\ SerialInv /\ [Next /\ OneAtATime']_vars => TypeOK' /\ SerialInv'
  BY TypeNext, SerialNext
<1>2. QED
  BY <1>1, TypeInit, SerialAtStart, PTL DEF SerialSpec

--------------------------------------------------------------------------------
(* The properties, which are what SerialInv says of threads at rest. *)

\* Watched: as long as updates and restarts do not overlap, a live capture has a
\* monitor that will restart it, for any number of threads, captures and monitors.
THEOREM LiveIsWatched == SerialSpec => []Watched
<1>1. TypeOK /\ SerialInv => Watched
  BY LifecycleAssumption
     DEF TypeOK, SerialInv, Watched, Settled, Threads, Busy, Live, Watching, Monitored, Covered, OneLive
<1>2. QED
  BY <1>1, SerialHolds, PTL

\* UnwantedStops: at rest, a camera that was removed, or set to neither detect nor
\* record, does not stream.
THEOREM UnwantedIsStopped == SerialSpec => []UnwantedStops
<1>1. TypeOK /\ SerialInv => UnwantedStops
  BY LifecycleAssumption DEF TypeOK, SerialInv, UnwantedStops, Settled, Threads, Busy, Unwanted
<1>2. QED
  BY <1>1, SerialHolds, PTL

\* NoStaleMonitor: at rest, thread_monitors has no monitor that has ended, so that
\* the next init_gst_app starts a capture.
THEOREM MonitorsLeaveNoEntry == SerialSpec => []NoStaleMonitor
<1>1. TypeOK /\ SerialInv => NoStaleMonitor
  BY LifecycleAssumption DEF TypeOK, SerialInv, NoStaleMonitor, Settled, Busy, Threads, MonitorAlive, Monitored, Watching
<1>2. QED
  BY <1>1, SerialHolds, PTL
--------------------------------------------------------------------------------
(***************************************************************************)
(* Who waits for whom, under every interleaving. WaitInv says that what a  *)
(* thread holds on to was constructed, and what it joins was started;      *)
(* RoomInv that the captures and monitors the running threads will make    *)
(* are there: a bound stops nobody in the middle of his work.              *)
(***************************************************************************)
Made(c) == c \in Captures /\ life[c] # "free"
Started(c) == c \in Captures /\ life[c] \in {"alive", "dead"}

WaitInv ==
  /\ \A c \in Captures : life[c] = "dead" => c \in stop_event
  /\ thread_gstreamers # None => Made(thread_gstreamers)
  /\ thread_monitors # None => pc[thread_monitors] # "free"
  /\ \A t \in Threads :
       /\ pc[t] = "joining" => Started(mine[t])
       /\ pc[t] \in {"watch", "joinMonitor", "keep"} => Made(mine[t])
       /\ pc[t] \in {"new", "wait", "test", "spawn"} => mine[t] = None \/ Made(mine[t])
  /\ \A i \in Inits : pc[i] = "joinMonitor" => joined[i] \in Monitors

Creating == {t \in Threads : pc[t] = "create"}
Beginning == {t \in Threads : pc[t] \in Starting}

RoomInv ==
  /\ Cardinality(Creating) <= Cardinality(FreeCaptures)
  /\ Cardinality(Beginning) <= Cardinality(FreeMonitors)

LEMMA WaitInit == Init => WaitInv
BY LifecycleAssumption DEF Init, WaitInv, Threads

LEMMA WaitNext == TypeOK /\ WaitInv /\ [Next]_vars => WaitInv'
<1> SUFFICES ASSUME TypeOK, WaitInv, [Next]_vars PROVE WaitInv'
  OBVIOUS
<1> USE LifecycleAssumption
        DEF entries, captures, Goto, Hold, Return, TypeOK, WaitInv, Made, Started, Threads
<1>1. ASSUME NEW t \in Threads, StartStep(t) PROVE WaitInv'
  <2>1. CASE Start(t)
    BY <2>1 DEF Start, ReturnRunning, Running
  <2>2. CASE Create(t)
    BY <2>2 DEF Create
  <2>3. CASE Run(t)
    BY <2>3 DEF Run, Startable
  <2>4. CASE Register(t) \/ Result(t)
    BY <2>4 DEF Register, Result
  <2>5. CASE Spawn(t)
    BY <2>5 DEF Spawn
  <2>6. CASE Launch(t)
    BY <2>6 DEF Launch
  <2>7. QED
    BY <1>1, <2>1, <2>2, <2>3, <2>4, <2>5, <2>6 DEF StartStep
<1>2. ASSUME NEW i \in Inits, Update(i) \/ Remove(i) \/ Stop(i) \/ Join(i) PROVE WaitInv'
  <2>1. CASE Update(i) \/ Remove(i)
    BY <2>1 DEF Update, Remove
  <2>2. CASE Stop(i)
    BY <2>2 DEF Stop
  <2>3. CASE Join(i)
    BY <2>3 DEF Join, Startable
  <2>4. QED
    BY <1>2, <2>1, <2>2, <2>3
<1>3. ASSUME NEW i \in Inits, Joined(i) \/ CheckMonitor(i) PROVE WaitInv'
  BY <1>3 DEF Joined, CheckMonitor
<1>4. ASSUME NEW i \in Inits, Watch(i) \/ JoinMonitor(i) PROVE WaitInv'
  BY <1>4 DEF Watch, JoinMonitor
<1>5. ASSUME NEW m \in Monitors, Wake(m) \/ CheckForce(m) \/ Clear(m) PROVE WaitInv'
  BY <1>5 DEF Wake, CheckForce, Clear
<1>6. ASSUME NEW m \in Monitors, Keep(m) \/ TestMonitor(m) PROVE WaitInv'
  BY <1>6 DEF Keep, TestMonitor
<1>7. ASSUME NEW c \in Captures, Fail(c) \/ Finish(c) PROVE WaitInv'
  BY <1>7 DEF Fail, Finish
<1>8. CASE UNCHANGED vars
  BY <1>8 DEF vars
<1>9. QED
  BY <1>1, <1>2, <1>3, <1>4, <1>5, <1>6, <1>7, <1>8 DEF Next, InitStep, MonitorStep

LEMMA RoomFinite ==
  /\ IsFiniteSet(Creating) /\ IsFiniteSet(Beginning)
  /\ IsFiniteSet(FreeCaptures) /\ IsFiniteSet(FreeMonitors)
<1>1. IsFiniteSet(Monitors)
  BY LifecycleAssumption, FS_Subset DEF Threads
<1>2. QED
  BY <1>1, LifecycleAssumption, FS_Subset DEF Creating, Beginning, FreeCaptures, FreeMonitors

\* A smaller set beside a larger one: what is needed does not outgrow what is there.
LEMMA StillRoom ==
  ASSUME NEW S, NEW A, NEW S1, NEW A1, IsFiniteSet(S), IsFiniteSet(A), IsFiniteSet(A1),
         Cardinality(S) <= Cardinality(A), S1 \subseteq S, A \subseteq A1
  PROVE  Cardinality(S1) <= Cardinality(A1)
<1>1. Cardinality(S1) <= Cardinality(S) /\ Cardinality(A) <= Cardinality(A1)
  BY FS_Subset
<1>2. IsFiniteSet(S1)
  BY FS_Subset
<1>3. QED
  BY <1>1, <1>2, FS_CardinalityType

\* One thread more begins where there is room for it.
LEMMA OneBegins ==
  ASSUME NEW S, NEW A, NEW S1, NEW x, IsFiniteSet(S), IsFiniteSet(A),
         Cardinality(S) < Cardinality(A), S1 \subseteq S \union {x}
  PROVE  Cardinality(S1) <= Cardinality(A)
<1>1. IsFiniteSet(S \union {x}) /\ Cardinality(S \union {x}) <= Cardinality(S) + 1
  <2>1. Cardinality(S) \in Nat
    BY FS_CardinalityType
  <2>2. /\ IsFiniteSet(S \union {x})
        /\ Cardinality(S \union {x}) = IF x \in S THEN Cardinality(S) ELSE Cardinality(S) + 1
    BY FS_AddElement
  <2>3. QED
    BY <2>1, <2>2
<1>2. IsFiniteSet(S1) /\ Cardinality(S1) <= Cardinality(S \union {x})
  BY <1>1, FS_Subset
<1>3. QED
  BY <1>1, <1>2, FS_CardinalityType

\* A thread takes what was there for it.
LEMMA OneTakes ==
  ASSUME NEW S, NEW A, NEW S1, NEW x \in S, NEW y \in A, IsFiniteSet(S), IsFiniteSet(A),
         Cardinality(S) <= Cardinality(A), S1 \subseteq S \ {x}
  PROVE  Cardinality(S1) <= Cardinality(A \ {y})
<1>1. IsFiniteSet(S \ {x}) /\ Cardinality(S \ {x}) = Cardinality(S) - 1
      /\ IsFiniteSet(A \ {y}) /\ Cardinality(A \ {y}) = Cardinality(A) - 1
  BY FS_RemoveElement
<1>2. IsFiniteSet(S1) /\ Cardinality(S1) <= Cardinality(S \ {x})
  BY <1>1, FS_Subset
<1>3. QED
  BY <1>1, <1>2, FS_CardinalityType

LEMMA RoomInit == Init => RoomInv
<1> SUFFICES ASSUME Init PROVE RoomInv
  OBVIOUS
<1>1. Creating = {} /\ Beginning = {}
  BY DEF Init, Creating, Beginning, Starting
<1>2. QED
  BY <1>1, RoomFinite, FS_EmptySet, FS_CardinalityType DEF RoomInv

LEMMA RoomNext == TypeOK /\ RoomInv /\ [Next]_vars => RoomInv'
<1> SUFFICES ASSUME TypeOK, RoomInv, [Next]_vars PROVE RoomInv'
  OBVIOUS
<1> USE DEF entries, captures, Goto, Hold, Return
<1>1. IsFiniteSet(FreeCaptures') /\ IsFiniteSet(FreeMonitors')
  <2>1. IsFiniteSet(Monitors)
    BY LifecycleAssumption, FS_Subset DEF Threads
  <2>2. QED
    BY <2>1, LifecycleAssumption, FS_Subset DEF FreeCaptures, FreeMonitors
<1>2. ASSUME Creating' \subseteq Creating, Beginning' \subseteq Beginning,
             FreeCaptures \subseteq FreeCaptures', FreeMonitors \subseteq FreeMonitors'
      PROVE  RoomInv'
  BY <1>1, <1>2, RoomFinite, StillRoom DEF RoomInv
<1>3. ASSUME NEW t \in Threads, NEW l, Goto(t, l), pc[t] # "free",
             l \in Starting => pc[t] \in Starting, l # "create", UNCHANGED life
      PROVE  RoomInv'
  BY <1>2, <1>3 DEF TypeOK, Creating, Beginning, FreeCaptures, FreeMonitors
<1>4. ASSUME NEW t \in Threads, Start(t) PROVE RoomInv'
  <2>1. CASE Goto(t, "create") \/ Goto(t, "result")
    <3>1. Room
      BY <1>4, <2>1, LifecycleAssumption DEF Start, ReturnRunning, TypeOK, Threads
    <3>2. Creating' \subseteq Creating \union {t} /\ Beginning' \subseteq Beginning \union {t}
      BY <2>1 DEF TypeOK, Creating, Beginning
    <3>3. FreeCaptures' = FreeCaptures /\ FreeMonitors' = FreeMonitors
      <4>1. UNCHANGED life /\ pc[t] = "start"
        BY <1>4 DEF Start
      <4>2. \A m \in Monitors : pc'[m] = "free" <=> pc[m] = "free"
        BY <2>1, <4>1 DEF TypeOK, Threads
      <4>3. QED
        BY <4>1, <4>2 DEF FreeCaptures, FreeMonitors
    <3>4. Cardinality(Creating) < Cardinality(FreeCaptures)
          /\ Cardinality(Beginning) < Cardinality(FreeMonitors)
      BY <3>1, RoomFinite, FS_CardinalityType DEF Room, Creating, Beginning
    <3>5. QED
      BY <3>2, <3>3, <3>4, RoomFinite, OneBegins DEF RoomInv
  <2>2. CASE Return(t)
    BY <1>3, <1>4, <2>2 DEF Start, Starting
  <2>3. QED
    BY <1>4, <2>1, <2>2 DEF Start, ReturnRunning
<1>5. ASSUME NEW t \in Threads, Create(t) PROVE RoomInv'
  <2>1. PICK c \in Captures : life[c] = "free" /\ life' = [life EXCEPT ![c] = "new"]
    BY <1>5 DEF Create
  <2>2. t \in Creating /\ Creating' \subseteq Creating \ {t}
    BY <1>5 DEF Create, TypeOK, Creating
  <2>3. c \in FreeCaptures /\ FreeCaptures' = FreeCaptures \ {c}
    BY <2>1 DEF TypeOK, FreeCaptures
  <2>4. Beginning' \subseteq Beginning /\ FreeMonitors \subseteq FreeMonitors'
    BY <1>5 DEF Create, TypeOK, Beginning, FreeMonitors, Starting
  <2>5. Cardinality(Creating') <= Cardinality(FreeCaptures')
    BY <2>2, <2>3, RoomFinite, OneTakes DEF RoomInv
  <2>6. Cardinality(Beginning') <= Cardinality(FreeMonitors')
    BY <1>1, <2>4, RoomFinite, StillRoom DEF RoomInv
  <2>7. QED
    BY <2>5, <2>6 DEF RoomInv
<1>6. ASSUME NEW t \in Threads, Run(t) PROVE RoomInv'
  <2>1. Creating' \subseteq Creating /\ Beginning' \subseteq Beginning
    BY <1>6 DEF Run, TypeOK, Creating, Beginning, Starting
  <2>2. FreeCaptures' = FreeCaptures
    BY <1>6 DEF Run, Startable, TypeOK, FreeCaptures
  <2>3. FreeMonitors \subseteq FreeMonitors'
    <3>1. pc[t] = "run" /\ \E l : pc' = [pc EXCEPT ![t] = l]
      BY <1>6 DEF Run
    <3>2. QED
      BY <3>1 DEF TypeOK, FreeMonitors
  <2>4. QED
    BY <1>2, <2>1, <2>2, <2>3
<1>7. ASSUME NEW t \in Threads, Spawn(t) PROVE RoomInv'
  <2>1. PICK m \in Monitors :
          pc[m] = "free" /\ pc' = [pc EXCEPT ![m] = "new", ![t] = "launch"]
    BY <1>7 DEF Spawn
  <2>2. t \in Beginning /\ Beginning' \subseteq Beginning \ {t}
    BY <1>7, <2>1 DEF Spawn, TypeOK, Beginning, Starting
  <2>3. m \in FreeMonitors /\ FreeMonitors' = FreeMonitors \ {m}
    BY <1>7, <2>1 DEF Spawn, TypeOK, FreeMonitors, Threads
  <2>4. Creating' \subseteq Creating /\ FreeCaptures' = FreeCaptures
    BY <1>7, <2>1 DEF Spawn, TypeOK, Creating, FreeCaptures
  <2>5. Cardinality(Beginning') <= Cardinality(FreeMonitors')
    BY <2>2, <2>3, RoomFinite, OneTakes DEF RoomInv
  <2>6. Cardinality(Creating') <= Cardinality(FreeCaptures')
    BY <1>1, <2>4, RoomFinite, StillRoom DEF RoomInv
  <2>7. QED
    BY <2>5, <2>6 DEF RoomInv
<1>8. ASSUME NEW t \in Threads, StartStep(t) PROVE RoomInv'
  <2>1. CASE Register(t) \/ Result(t)
    BY <1>3, <2>1 DEF Register, Result, Starting
  <2>2. CASE Launch(t)
    <3>1. Creating' \subseteq Creating /\ Beginning' \subseteq Beginning
      BY <2>2 DEF Launch, TypeOK, Creating, Beginning, Starting
    <3>2. FreeCaptures' = FreeCaptures /\ FreeMonitors \subseteq FreeMonitors'
      BY <2>2 DEF Launch, TypeOK, FreeCaptures, FreeMonitors, Threads
    <3>3. QED
      BY <1>2, <3>1, <3>2
  <2>3. QED
    BY <1>4, <1>5, <1>6, <1>7, <1>8, <2>1, <2>2 DEF StartStep
<1>9. ASSUME NEW i \in Inits, Update(i) \/ Remove(i) \/ InitStep(i) PROVE RoomInv'
  <2>1. i \in Threads
    BY DEF Threads
  <2>2. CASE Update(i) \/ Remove(i) \/ Stop(i) \/ Join(i) \/ Joined(i) \/ CheckMonitor(i)
    BY <1>3, <2>1, <2>2 DEF Update, Remove, Stop, Join, Joined, CheckMonitor, Starting
  <2>3. CASE Watch(i) \/ JoinMonitor(i)
    BY <1>3, <2>1, <2>3 DEF Watch, JoinMonitor, Starting
  <2>4. QED
    BY <1>8, <1>9, <2>1, <2>2, <2>3 DEF InitStep
<1>13. ASSUME NEW m \in Monitors, MonitorStep(m) PROVE RoomInv'
  <2>1. m \in Threads
    BY DEF Threads
  <2>2. CASE Wake(m) \/ CheckForce(m) \/ Clear(m) \/ Keep(m) \/ TestMonitor(m)
    BY <1>3, <2>1, <2>2 DEF Wake, CheckForce, Clear, Keep, TestMonitor, Starting
  <2>3. QED
    BY <1>8, <1>13, <2>1, <2>2 DEF MonitorStep
<1>10. ASSUME NEW c \in Captures, Fail(c) \/ Finish(c) PROVE RoomInv'
  <2>1. FreeCaptures' = FreeCaptures
    BY <1>10 DEF Fail, Finish, TypeOK, FreeCaptures
  <2>2. UNCHANGED <<Creating, Beginning, FreeMonitors>>
    BY <1>10 DEF Fail, Finish, Creating, Beginning, FreeMonitors
  <2>3. QED
    BY <1>2, <2>1, <2>2
<1>11. CASE UNCHANGED vars
  BY <1>2, <1>11 DEF vars, Creating, Beginning, FreeCaptures, FreeMonitors
<1>12. QED
  BY <1>9, <1>10, <1>11, <1>13 DEF Next

\* NoCircle, for any threads, captures and monitors and under every interleaving: the
\* joins of init_gst_app, stop_gstreamer_thread and monitor_stop_event end as soon as
\* the captures do that were stopped or failed.
THEOREM ThreadsNeverCircle == Spec => []NoCircle
<1>1. Spec => [](TypeOK /\ WaitInv /\ RoomInv)
  BY TypeInit, TypeNext, WaitInit, WaitNext, RoomInit, RoomNext, PTL DEF Spec
<1>2. TypeOK /\ WaitInv /\ RoomInv => NoCircle
  <2> SUFFICES ASSUME TypeOK, WaitInv, RoomInv, NEW t \in Threads,
                      ~AwaitsCapture(t), ~OutOfRoom(t), ~(t \in Monitors /\ AwaitsStart(t))
               PROVE  \/ Goes(t)
                      \/ AwaitsMonitor(t) /\ joined[t] \in Monitors /\ ~AwaitsMonitor(joined[t])
    BY DEF NoCircle
  <2>1. /\ pc[t] = "joining" => mine[t] \in stop_event /\ life[mine[t]] = "dead"
        /\ pc[t] = "wait" => mine[t] = None \/ (mine[t] \in stop_event /\ life[mine[t]] # "alive")
    <3>1. pc[t] = "wait" => t \in Monitors
      BY DEF TypeOK, Threads
    <3>2. \A c \in Captures : life[c] \in {"free", "new", "alive", "dead"}
      BY DEF TypeOK
    <3>3. QED
      BY <3>1, <3>2 DEF WaitInv, Started, Made, AwaitsCapture, AwaitsStart
  <2>2. pc[t] = "create" => FreeCaptures # {}
    <3> SUFFICES ASSUME t \in Creating, FreeCaptures = {} PROVE FALSE
      BY DEF Creating
    <3>1. Cardinality(Creating) <= 0
      BY FS_EmptySet DEF RoomInv
    <3>2. QED
      BY <3>1, RoomFinite, FS_EmptySet, FS_CardinalityType
  <2>3. pc[t] = "spawn" => FreeMonitors # {}
    <3> SUFFICES ASSUME t \in Beginning, FreeMonitors = {} PROVE FALSE
      BY DEF Beginning, Starting
    <3>1. Cardinality(Beginning) <= 0
      BY FS_EmptySet DEF RoomInv
    <3>2. QED
      BY <3>1, RoomFinite, FS_EmptySet, FS_CardinalityType
  <2>4. AwaitsMonitor(t) => joined[t] \in Monitors /\ ~AwaitsMonitor(joined[t])
    BY LifecycleAssumption DEF WaitInv, TypeOK, AwaitsMonitor, Threads
  <2>5. QED
    BY <2>1, <2>2, <2>3, <2>4 DEF Goes, OutOfRoom
<1>3. QED
  BY <1>1, <1>2, PTL
--------------------------------------------------------------------------------
(***************************************************************************)
(* What the captures are: the thread that CaptureThread promises. Those of *)
(* CameraLifecycle behave like it, and so does StreamCapture.run, step by  *)
(* step with its pipelines and the threads in stop (StreamPipeline).       *)
(***************************************************************************)
Thread(c) ==
  INSTANCE CaptureThread WITH
    life <- IF life[c] = "free" THEN "new" ELSE life[c],
    stop_event <- c \in stop_event

\* A capture starts once, and its thread ends only when its stop_event is set: each
\* capture of the updates and monitors is a CaptureThread.
THEOREM CapturesAreThreads == \A c \in Captures : Spec => Thread(c)!Safety
<1> TAKE c \in Captures
<1> USE DEF entries, captures, Thread!vars
<1>1. Init => Thread(c)!Init
  BY DEF Init, Thread!Init
<1>2. ASSUME TypeOK, [Next]_vars
      PROVE  [Thread(c)!Next]_(Thread(c)!vars)
  <2>1. CASE UNCHANGED captures
    BY <2>1
  <2>2. ASSUME NEW x \in Captures, stop_event' = stop_event \union {x}, UNCHANGED life
        PROVE  [Thread(c)!Next]_(Thread(c)!vars)
    <3>1. CASE x = c /\ c \notin stop_event
      BY <2>2, <3>1 DEF Thread!Next, Thread!Stop
    <3>2. CASE x # c \/ c \in stop_event
      <4>1. c \in stop_event' <=> c \in stop_event
        BY <2>2, <3>2
      <4>2. QED
        BY <2>2, <4>1
    <3>3. QED
      BY <3>1, <3>2
  <2>3. ASSUME NEW t \in Threads, Create(t)
        PROVE  [Thread(c)!Next]_(Thread(c)!vars)
    BY <1>2, <2>3 DEF Create, TypeOK
  <2>4. ASSUME NEW t \in Threads, Run(t)
        PROVE  [Thread(c)!Next]_(Thread(c)!vars)
    BY <1>2, <2>4 DEF Run, Startable, TypeOK, Thread!Next, Thread!Start
  <2>5. ASSUME NEW x \in Captures, Finish(x)
        PROVE  [Thread(c)!Next]_(Thread(c)!vars)
    BY <1>2, <2>5 DEF Finish, TypeOK, Thread!Next, Thread!Finish
  <2>6. ASSUME NEW i \in Inits, Stop(i)
        PROVE  [Thread(c)!Next]_(Thread(c)!vars)
    BY <1>2, <2>1, <2>2, <2>6 DEF Stop, TypeOK
  <2>7. ASSUME NEW x \in Captures, Fail(x)
        PROVE  [Thread(c)!Next]_(Thread(c)!vars)
    BY <2>2, <2>7 DEF Fail
  <2>8. CASE UNCHANGED vars
    BY <2>1, <2>8 DEF vars
  <2>9. QED
    BY <1>2, <2>1, <2>3, <2>4, <2>5, <2>6, <2>7, <2>8
       DEF Next, InitStep, MonitorStep, StartStep, Threads, Update, Remove, Join, Joined,
           CheckMonitor, Start, Register, Result, Watch, JoinMonitor, Spawn, Launch, Wake,
           CheckForce, Clear, Keep, TestMonitor
<1>3. QED
  BY <1>1, <1>2, TypesHold, PTL DEF Spec, Thread!Safety

\* Where the cleanup has what stopped, and that it comes after stop_event.
PipeInv ==
  /\ playing \subseteq Pipelines /\ run_stop_event \in BOOLEAN
  /\ run_pc \in {"timer", "cancel", "forget", "decode", "main", "unreference", "dead"}
       => run_stop_event = TRUE
  /\ run_pc = "main" => "decode" \notin playing
  /\ run_pc = "unreference" => playing = {}
  /\ Released

LEMMA PipeInit == PipelineInit => PipeInv
BY DEF PipelineInit, PipeInv, Released

LEMMA PipeNext == PipeInv /\ [PipelineNext]_pipeline_vars => PipeInv'
<1> SUFFICES ASSUME PipeInv, [PipelineNext]_pipeline_vars PROVE PipeInv'
  OBVIOUS
<1> USE DEF PipeInv, Released, Pipelines, capture, run, GotoRun
<1>1. CASE StartRun \/ StartPlaying \/ GiveUp \/ PlayDecode \/ NotStarted
  BY <1>1 DEF StartRun, StartPlaying, GiveUp, PlayDecode, NotStarted
<1>2. CASE Loop \/ on_message \/ on_message_decode \/ Feeding
  <2>1. UNCHANGED <<playing, run_stop_event>>
    BY <1>2 DEF Loop, on_message, on_message_decode, Feeding
  <2>2. \/ run_pc' \in {"loop", "message", "messageDecode", "cleanup"}
        \/ UNCHANGED <<run_pc, tripped, is_playing>>
    BY <1>2 DEF Loop, on_message, on_message_decode, Feeding
  <2>3. QED
    BY <2>1, <2>2
<1>3. CASE Cleanup \/ TestTimer \/ CancelTimer \/ ForgetTimer
  BY <1>3 DEF Cleanup, TestTimer, CancelTimer, ForgetTimer
<1>4. CASE NullDecode \/ NullMain \/ Unreference
  BY <1>4 DEF NullDecode, NullMain, Unreference
<1>5. ASSUME NEW s \in Stoppers, BeginStop(s) \/ StopStep(s)
      PROVE  PipeInv'
  <2>1. /\ UNCHANGED <<run_pc, tripped, is_playing>> /\ playing' \subseteq playing
        /\ run_stop_event' = run_stop_event \/ run_stop_event' = TRUE
    BY <1>5 DEF BeginStop, StopStep, StopTestTimer, StopCancelTimer,
       StopForgetTimer, StopPipeline, StopTest, StopNull
  <2>2. QED
    BY <2>1
<1>6. CASE UNCHANGED pipeline_vars
  BY <1>6 DEF pipeline_vars
<1>7. QED
  BY <1>1, <1>2, <1>3, <1>4, <1>5, <1>6 DEF PipelineNext, RunStep

LEMMA PipeAlways == PipelineSpec => []PipeInv
BY PipeInit, PipeNext, PTL DEF PipelineSpec

\* However many threads stop a capture and whenever they do, one that has ended holds no
\* stream open and accepts no trigger, unless its cleanup ended at the timer (run and
\* stop of StreamCapture).
THEOREM StreamsAreReleased == PipelineSpec => []Released
<1>1. PipeInv => Released
  BY DEF PipeInv
<1>2. QED
  BY <1>1, PipeAlways, PTL

\* run implements CaptureThread, but for the fairness that LifeSpec adds: it ends with
\* stop_event set and not before, whether start_playing fails, a message raises or a
\* stop comes in the middle.
THEOREM RunIsCaptureThread == PipelineSpec => RunThread!Safety
<1> USE DEF RunThread!vars, run_life, capture, run, GotoRun
<1>1. PipelineInit => RunThread!Init
  BY DEF PipelineInit, RunThread!Init
<1>2. ASSUME PipeInv, [PipelineNext]_pipeline_vars
      PROVE  [RunThread!Next]_(RunThread!vars)
  <2>1. CASE StartRun
    BY <2>1 DEF StartRun, RunThread!Next, RunThread!Start
  <2>2. CASE StartPlaying \/ GiveUp \/ PlayDecode \/ Loop
             \/ on_message \/ on_message_decode \/ TestTimer
             \/ ForgetTimer \/ NullDecode \/ NullMain
    BY <2>2 DEF StartPlaying, GiveUp, PlayDecode, Loop, on_message,
       on_message_decode, TestTimer, ForgetTimer, NullDecode, NullMain
  <2>3. ASSUME run_stop_event' = TRUE, UNCHANGED run_life
        PROVE  [RunThread!Next]_(RunThread!vars)
    BY <1>2, <2>3 DEF PipeInv, RunThread!Next, RunThread!Stop
  <2>4. CASE NotStarted \/ Cleanup
    BY <2>3, <2>4 DEF NotStarted, Cleanup
  <2>5. CASE CancelTimer \/ Unreference
    BY <1>2, <2>5 DEF PipeInv, CancelTimer, Unreference, RunThread!Next,
       RunThread!Finish
  <2>6. CASE Feeding \/ UNCHANGED pipeline_vars
    BY <2>6 DEF Feeding, pipeline_vars
  <2>7. ASSUME NEW s \in Stoppers, BeginStop(s) \/ StopStep(s)
        PROVE  [RunThread!Next]_(RunThread!vars)
    <3>1. UNCHANGED run_pc /\ (run_stop_event' = TRUE \/ UNCHANGED run_stop_event)
      BY <2>7 DEF BeginStop, StopStep, StopTestTimer, StopCancelTimer,
         StopForgetTimer, StopPipeline, StopTest, StopNull
    <3>2. QED
      BY <2>3, <3>1
  <2>8. QED
    BY <1>2, <2>1, <2>2, <2>4, <2>5, <2>6, <2>7 DEF PipelineNext, RunStep
<1>3. QED
  BY <1>1, <1>2, PipeAlways, PTL DEF PipelineSpec, RunThread!Safety
================================================================================
