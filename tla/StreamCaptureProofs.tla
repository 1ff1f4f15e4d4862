-------------------------- MODULE StreamCaptureProofs --------------------------
(***************************************************************************)
(* Proofs about StreamCapture for any number of threads, timers and        *)
(* transactions and any capacity of cam_queue.                             *)
(***************************************************************************)
EXTENDS StreamCapture, TLAPS

\* Every thread is a caller or a timer, and none is both.
LEMMA TwoKindsOfThreads ==
  /\ Callers \subseteq Threads
  /\ Timers \subseteq Threads
  /\ \A p \in Threads : p \in Callers <=> p \notin Timers
BY ThreadsAssumption DEF Threads

\* A thread that moves to a position of its kind keeps the positions typed.
LEMMA GotoType ==
  ASSUME PositionsOK, NEW p \in Threads, NEW l, Goto(p, l),
         p \in Callers => l \in CallerPcs,
         p \in Timers => l \in TimerPcs
  PROVE  PositionsOK'
<1> USE TwoKindsOfThreads DEF PositionsOK
<1>1. l \in CallerPcs \union TimerPcs
  OBVIOUS
<1>2. /\ pc' \in [Threads -> CallerPcs \union TimerPcs]
      /\ pc'[p] = l
      /\ \A q \in Threads : q # p => pc'[q] = pc[q]
  BY <1>1 DEF Goto
<1>3. QED
  BY <1>2

\* The positions a method may return to or continue at are positions of the
\* thread's kind.
LEMMA NextPositions ==
  ASSUME TypeOK, NEW p \in Threads
  PROVE  /\ p \in Callers => Rest(p) \in CallerPcs
         /\ p \in Timers => Rest(p) \in TimerPcs
         /\ p \in Callers => AfterTimer(p) \in CallerPcs
         /\ p \in Timers => AfterTimer(p) \in TimerPcs
BY TwoKindsOfThreads DEF TypeOK, Ops, Rest, AfterTimer, CallerPcs, TimerPcs
\* The fields of a StreamCapture and the positions of its threads keep their types.
THEOREM TypeCorrect == Spec => []TypeOK
<1>1. Init => TypeOK
  <2> SUFFICES ASSUME Init PROVE TypeOK
    OBVIOUS
  <2>1. pc \in [Threads -> CallerPcs \union TimerPcs]
    BY DEF Init, CallerPcs, TimerPcs
  <2>2. \A p \in Threads : pc[p] = IF p \in Timers THEN "new" ELSE "idle"
    BY DEF Init
  <2>3. PositionsOK
    BY <2>1, <2>2, TwoKindsOfThreads DEF PositionsOK, CallerPcs, TimerPcs
  <2>4. op \in [Threads -> Ops] /\ \A t \in Timers : op[t] = "stop"
    BY TwoKindsOfThreads DEF Init, Ops
  <2>5. /\ detecting_txn \in Txns \union {None} /\ feeding_timer \in Timers \union {None}
        /\ cancelled \subseteq Timers /\ issued \subseteq Txns
        /\ queued \in 0..QueueMax
    BY QueueAssumption DEF Init
  <2>6. /\ is_feeding \in BOOLEAN /\ stopping \in BOOLEAN
        /\ overflow \in BOOLEAN
    BY DEF Init
  <2>7. QED
    BY <2>3, <2>4, <2>5, <2>6 DEF TypeOK
<1>2. TypeOK /\ [Next]_vars => TypeOK'
  <2> SUFFICES ASSUME TypeOK, [Next]_vars
               PROVE  TypeOK'
    OBVIOUS
  <2> USE QueueAssumption, TwoKindsOfThreads
  <2>0. PositionsOK
    BY DEF TypeOK
  <2>1. ASSUME NEW c \in Callers, Call(c)
        PROVE  TypeOK'
    <3>1. ASSUME NEW o \in Ops, NEW l \in {"test", "signal"}, Enter(c, o, l),
                 stopping' \in BOOLEAN
          PROVE  TypeOK'
      <4>1. PositionsOK'
        BY <3>1, <2>0, GotoType DEF Enter, CallerPcs, TimerPcs
      <4>2. op' \in [Threads -> Ops] /\ \A t \in Timers : op'[t] = "stop"
        BY <3>1 DEF Enter, TypeOK
      <4>3. QED
        BY <3>1, <4>1, <4>2 DEF Enter, TypeOK
    <3>2. CASE CallFeed(c)
      BY <3>1, <3>2 DEF CallFeed, Ops, TypeOK
    <3>3. CASE CallExtend(c)
      BY <3>1, <3>3 DEF CallExtend, Ops, TypeOK
    <3>4. CASE CallStop(c)
      BY <3>1, <3>4 DEF CallStop, Ops, TypeOK
    <3>5. CASE CallShutdown(c)
      BY <3>1, <3>5 DEF CallShutdown, Ops
    <3>6. QED
      BY <2>1, <3>2, <3>3, <3>4, <3>5 DEF Call
  <2>2. ASSUME NEW p \in Threads, Signal(p)
        PROVE  TypeOK'
    <3>1. Goto(p, "test") \/ Goto(p, Rest(p))
      BY <2>2 DEF Signal, Return
    <3>2. PositionsOK'
      BY <3>1, <2>0, GotoType, NextPositions DEF CallerPcs, TimerPcs
    <3>3. queued' \in 0..QueueMax
      BY <2>2 DEF Signal, TypeOK
    <3>4. overflow' \in BOOLEAN
      BY <2>2 DEF Signal, TypeOK
    <3>5. QED
      BY <2>2, <3>2, <3>3, <3>4 DEF Signal, TypeOK
  <2>3. ASSUME NEW p \in Threads, TestTimer(p)
        PROVE  TypeOK'
    <3>1. Goto(p, "cancel") \/ Goto(p, AfterTimer(p))
      BY <2>3 DEF TestTimer
    <3>2. PositionsOK'
      BY <3>1, <2>0, GotoType, NextPositions DEF CallerPcs, TimerPcs
    <3>3. QED
      BY <2>3, <3>2 DEF TestTimer, TypeOK
  <2>4. ASSUME NEW p \in Threads, CancelTimer(p)
        PROVE  TypeOK'
    <3>1. Goto(p, "null") \/ Goto(p, Rest(p))
      BY <2>4 DEF CancelTimer, Return
    <3>2. PositionsOK'
      BY <3>1, <2>0, GotoType, NextPositions DEF CallerPcs, TimerPcs
    <3>3. QED
      BY <2>4, <3>2 DEF CancelTimer, TypeOK
  <2>5. ASSUME NEW p \in Threads, ForgetTimer(p)
        PROVE  TypeOK'
    <3>1. PositionsOK'
      BY <2>5, <2>0, GotoType, NextPositions DEF ForgetTimer
    <3>2. QED
      BY <2>5, <3>1 DEF ForgetTimer, TypeOK
  <2>6. ASSUME NEW p \in Threads, ClearFeeding(p)
        PROVE  TypeOK'
    <3>1. PositionsOK'
      BY <2>6, <2>0, GotoType, NextPositions DEF ClearFeeding, Return
    <3>2. QED
      BY <2>6, <3>1 DEF ClearFeeding, TypeOK
  <2>7. ASSUME NEW c \in Callers, BeginSession(c)
        PROVE  TypeOK'
    <3>1. PositionsOK'
      BY <2>7, <2>0, GotoType DEF BeginSession, CallerPcs
    <3>2. QED
      BY <2>7, <3>1 DEF BeginSession, TypeOK
  <2>8. ASSUME NEW c \in Callers, NewTimer(c)
        PROVE  TypeOK'
    <3>1. PICK t \in Timers : /\ feeding_timer' = t
                              /\ pc' = [pc EXCEPT ![c] = "start", ![t] = "created"]
      BY <2>8 DEF NewTimer
    <3>2. PositionsOK'
      BY <3>1, <2>0 DEF PositionsOK, CallerPcs, TimerPcs
    <3>3. QED
      BY <2>8, <3>1, <3>2 DEF NewTimer, TypeOK
  <2>9. ASSUME NEW c \in Callers, StartTimer(c)
        PROVE  TypeOK'
    <3>1. CASE Startable
      <4>1. feeding_timer \in Timers
        BY <3>1 DEF Startable, TypeOK
      <4>2. pc' = [pc EXCEPT ![c] = "idle", ![feeding_timer] = "waiting"]
                \/ Goto(c, "idle")
        BY <2>9 DEF StartTimer
      <4>3. CASE Goto(c, "idle")
        BY <4>3, <2>0, GotoType, <2>9 DEF StartTimer, TypeOK, CallerPcs
      <4>4. CASE pc' = [pc EXCEPT ![c] = "idle", ![feeding_timer] = "waiting"]
        <5>1. PositionsOK'
          BY <4>1, <4>4, <2>0 DEF PositionsOK, CallerPcs, TimerPcs
        <5>2. QED
          BY <5>1, <2>9 DEF StartTimer, TypeOK
      <4>5. QED
        BY <4>2, <4>3, <4>4
    <3>2. CASE ~Startable
      <4>1. PositionsOK'
        BY <2>9, <3>2, <2>0, GotoType DEF StartTimer, CallerPcs
      <4>2. QED
        BY <2>9, <4>1 DEF StartTimer, TypeOK
    <3>3. QED
      BY <3>1, <3>2
  <2>10. ASSUME NEW t \in Timers, Fire(t)
         PROVE  TypeOK'
    <3>1. PositionsOK'
      BY <2>10, <2>0, GotoType DEF Fire, TimerPcs
    <3>2. QED
      BY <2>10, <3>1 DEF Fire, TypeOK
  <2>11. ASSUME on_new_sample_decode \/ DetectorTakes
         PROVE  TypeOK'
    BY <2>11 DEF on_new_sample_decode, DetectorTakes, QueueOnly, TypeOK, PositionsOK
  <2>12. CASE UNCHANGED vars
    BY <2>12 DEF vars, TypeOK, PositionsOK
  <2>13. QED
    BY <2>1, <2>2, <2>3, <2>4, <2>5, <2>6, <2>7, <2>8, <2>9, <2>10, <2>11, <2>12
       DEF Next, CallerStep, TimerStep, Step
<1>3. QED
  BY <1>1, <1>2, PTL DEF Spec

--------------------------------------------------------------------------------
\* One thread moves, the others stay where they are.
LEMMA GotoFrame ==
  ASSUME TypeOK, NEW p \in Threads, NEW l, Goto(p, l)
  PROVE  /\ pc'[p] = l
         /\ \A q \in Threads : q # p => pc'[q] = pc[q]
BY DEF TypeOK, PositionsOK, Goto

LEMMA GuardInit == Init => GuardInv
<1> SUFFICES ASSUME Init PROVE GuardInv
  OBVIOUS
<1>1. /\ feeding_timer = None /\ cancelled = {} /\ is_feeding = FALSE
      /\ \A c \in Callers : op[c] = "stop"
  BY TwoKindsOfThreads DEF Init
<1>2. \A t \in Timers : t # None
  BY ThreadsAssumption DEF Threads
<1>3. QED
  BY <1>1, <1>2 DEF GuardInv, NewTimersUntouched, ShutdownMarked, CreatedHasStarter,
     CancelledIsForgotten, FinishedIsGone, NoTimerIsTransient

\* No step of any thread breaks GuardInv.
LEMMA GuardStep ==
  ASSUME TypeOK, GuardInv, [Next]_vars
  PROVE  GuardInv'
<1> USE TwoKindsOfThreads
<1> USE DEF GuardInv, NewTimersUntouched, ShutdownMarked, CreatedHasStarter,
            CancelledIsForgotten, FinishedIsGone, NoTimerIsTransient
<1>0. None \notin Timers /\ PositionsOK
  BY ThreadsAssumption DEF Threads, TypeOK
<1>1. ASSUME NEW c \in Callers, Call(c)
      PROVE  GuardInv'
  <2>1. PICK o \in Ops, l \in {"test", "signal"} :
          Enter(c, o, l) /\ (o = "shutdown" => stopping') /\ (stopping => stopping')
    BY <1>1 DEF Call, CallFeed, CallExtend, CallStop, CallShutdown, Ops
  <2>2. /\ pc[c] = "idle" /\ pc'[c] = l
        /\ \A q \in Threads : q # c => pc'[q] = pc[q] /\ op'[q] = op[q]
        /\ op'[c] = o
    BY <2>1, GotoFrame DEF Enter, TypeOK
  <2>3. UNCHANGED <<is_feeding, feeding_timer, cancelled, overflow>>
    BY <2>1 DEF Enter
  <2>4. NewTimersUntouched' /\ ShutdownMarked'
    BY <2>1, <2>2, <2>3
  <2>5. CreatedHasStarter'
    BY <2>2, <2>3
  <2>6. CancelledIsForgotten' /\ FinishedIsGone'
    BY <2>2, <2>3
  <2>7. NoTimerIsTransient'
    BY <2>1, <2>2, <2>3
  <2>8. QED
    BY <2>4, <2>5, <2>6, <2>7
<1>2. ASSUME NEW p \in Threads, Signal(p)
      PROVE  GuardInv'
  <2>1. UNCHANGED <<is_feeding, feeding_timer, cancelled, op, stopping>>
    BY <1>2 DEF Signal
  <2>2. /\ overflow => overflow'
        /\ Goto(p, "test") \/ (Goto(p, Rest(p)) /\ overflow')
        /\ pc[p] = "signal"
    BY <1>2 DEF Signal, Return
  <2>3. /\ \A q \in Threads : q # p => pc'[q] = pc[q]
        /\ pc'[p] = "test" \/ (pc'[p] \in {"done", "idle"} /\ overflow')
    BY <2>2, GotoFrame DEF Rest
  <2>4. NewTimersUntouched' /\ ShutdownMarked' /\ FinishedIsGone'
    BY <2>1, <2>2, <2>3
  <2>5. CreatedHasStarter' /\ CancelledIsForgotten'
    BY <2>1, <2>2, <2>3
  <2>6. NoTimerIsTransient'
    BY <2>1, <2>2, <2>3
  <2>7. QED
    BY <2>4, <2>5, <2>6
<1>3. ASSUME NEW p \in Threads, TestTimer(p)
      PROVE  GuardInv'
  <2>1. UNCHANGED <<is_feeding, feeding_timer, cancelled, op, stopping, overflow>>
    BY <1>3 DEF TestTimer
  <2>2. /\ pc[p] = "test"
        /\ \A q \in Threads : q # p => pc'[q] = pc[q]
        /\ pc'[p] = IF feeding_timer # None THEN "cancel" ELSE AfterTimer(p)
    BY <1>3, GotoFrame DEF TestTimer
  <2>3. pc'[p] \notin {"new", "created", "null"}
    BY <2>2 DEF AfterTimer, Rest
  <2>4. NewTimersUntouched' /\ ShutdownMarked' /\ CreatedHasStarter' /\ CancelledIsForgotten'
    BY <2>1, <2>2, <2>3
  <2>5. FinishedIsGone'
    BY <1>0, <2>1, <2>2
  <2>6. NoTimerIsTransient'
    BY <2>1, <2>2
  <2>7. QED
    BY <2>4, <2>5, <2>6
<1>4. ASSUME NEW p \in Threads, CancelTimer(p)
      PROVE  GuardInv'
  <2>1. UNCHANGED <<is_feeding, feeding_timer, op, stopping, overflow>> /\ pc[p] = "cancel"
    BY <1>4 DEF CancelTimer
  <2>2. CASE feeding_timer # None
    <3>1. /\ \A q \in Threads : q # p => pc'[q] = pc[q]
          /\ pc'[p] = "null"
          /\ cancelled' = cancelled \union {feeding_timer}
      BY <1>4, <2>2, GotoFrame DEF CancelTimer
    <3>2. QED
      BY <2>1, <2>2, <3>1
  <2>3. CASE feeding_timer = None
    <3>1. /\ \A q \in Threads : q # p => pc'[q] = pc[q]
          /\ pc'[p] \in {"done", "idle"}
          /\ cancelled' = cancelled
      BY <1>4, <2>3, GotoFrame DEF CancelTimer, Return, Rest
    <3>2. NewTimersUntouched' /\ ShutdownMarked' /\ CreatedHasStarter' /\ FinishedIsGone'
      BY <1>0, <2>1, <2>3, <3>1
    <3>3. CancelledIsForgotten' /\ NoTimerIsTransient'
      BY <2>1, <3>1
    <3>4. QED
      BY <3>2, <3>3
  <2>4. QED
    BY <2>2, <2>3
<1>5. ASSUME NEW p \in Threads, ForgetTimer(p)
      PROVE  GuardInv'
  <2>1. UNCHANGED <<is_feeding, cancelled, op, stopping, overflow>> /\ pc[p] = "null"
        /\ feeding_timer' = None
    BY <1>5 DEF ForgetTimer
  <2>2. /\ \A q \in Threads : q # p => pc'[q] = pc[q]
        /\ pc'[p] = AfterTimer(p)
    BY <1>5, GotoFrame DEF ForgetTimer
  <2>3. pc'[p] \in {"begin", "timer", "clear"} \/ stopping
    BY <2>2 DEF AfterTimer, Ops, TypeOK
  <2>4. NewTimersUntouched' /\ ShutdownMarked' /\ CreatedHasStarter' /\ FinishedIsGone'
    BY <1>0, <2>1, <2>2 DEF AfterTimer, Rest
  <2>5. None \notin cancelled
    BY <1>0 DEF TypeOK
  <2>6. CancelledIsForgotten' /\ NoTimerIsTransient'
    BY <2>1, <2>3, <2>5
  <2>7. QED
    BY <2>4, <2>6
<1>6. ASSUME NEW p \in Threads, ClearFeeding(p)
      PROVE  GuardInv'
  <2>1. UNCHANGED <<feeding_timer, cancelled, op, stopping, overflow>> /\ pc[p] = "clear"
        /\ is_feeding' = FALSE
    BY <1>6 DEF ClearFeeding
  <2>2. /\ \A q \in Threads : q # p => pc'[q] = pc[q]
        /\ pc'[p] \in {"done", "idle"}
    BY <1>6, GotoFrame DEF ClearFeeding, Return, Rest
  <2>3. QED
    BY <2>1, <2>2
<1>7. ASSUME NEW c \in Callers, BeginSession(c)
      PROVE  GuardInv'
  <2>1. UNCHANGED <<feeding_timer, cancelled, op, stopping, overflow>> /\ pc[c] = "begin"
    BY <1>7 DEF BeginSession
  <2>2. /\ \A q \in Threads : q # c => pc'[q] = pc[q]
        /\ pc'[c] = "timer"
    BY <1>7, GotoFrame DEF BeginSession
  <2>3. QED
    BY <2>1, <2>2
<1>8. ASSUME NEW c \in Callers, NewTimer(c)
      PROVE  GuardInv'
  <2>1. UNCHANGED <<is_feeding, cancelled, op, stopping, overflow>> /\ pc[c] = "timer"
    BY <1>8 DEF NewTimer
  <2>2. PICK t \in Timers : /\ pc[t] = "new"
                            /\ feeding_timer' = t
                            /\ pc' = [pc EXCEPT ![c] = "start", ![t] = "created"]
    BY <1>8 DEF NewTimer
  <2>3. /\ pc'[c] = "start" /\ pc'[t] = "created"
        /\ \A q \in Threads : q # c /\ q # t => pc'[q] = pc[q]
    BY <1>0, <2>2 DEF PositionsOK
  <2>4. NewTimersUntouched' /\ ShutdownMarked' /\ CreatedHasStarter' /\ FinishedIsGone'
    BY <2>1, <2>2, <2>3
  <2>5. CancelledIsForgotten' /\ NoTimerIsTransient'
    BY <1>0, <2>1, <2>2
  <2>6. QED
    BY <2>4, <2>5
<1>9. ASSUME NEW c \in Callers, StartTimer(c)
      PROVE  GuardInv'
  <2>1. UNCHANGED <<is_feeding, feeding_timer, cancelled, op, stopping, overflow>> /\ pc[c] = "start"
    BY <1>9 DEF StartTimer
  <2>2. CASE Startable /\ pc' = [pc EXCEPT ![c] = "idle", ![feeding_timer] = "waiting"]
    <3>1. feeding_timer \in Timers /\ pc[feeding_timer] = "created"
      BY <2>2 DEF Startable, TypeOK
    <3>2. /\ pc'[c] = "idle" /\ pc'[feeding_timer] = "waiting"
          /\ \A q \in Threads : q # c /\ q # feeding_timer => pc'[q] = pc[q]
      BY <1>0, <2>2, <3>1 DEF PositionsOK
    <3>3. NewTimersUntouched' /\ ShutdownMarked' /\ CreatedHasStarter' /\ FinishedIsGone'
      BY <2>1, <3>1, <3>2
    <3>4. CancelledIsForgotten' /\ NoTimerIsTransient'
      BY <1>0, <2>1, <3>1, <3>2
    <3>5. QED
      BY <3>3, <3>4
  <2>3. CASE ~Startable /\ Goto(c, "idle")
    <3>1. /\ pc'[c] = "idle"
          /\ \A q \in Threads : q # c => pc'[q] = pc[q]
      BY <2>3, GotoFrame
    <3>2. CreatedHasStarter'
      BY <1>0, <2>1, <2>3, <3>1 DEF Startable
    <3>3. NewTimersUntouched' /\ ShutdownMarked' /\ FinishedIsGone'
      BY <2>1, <3>1
    <3>4. CancelledIsForgotten' /\ NoTimerIsTransient'
      BY <2>1, <3>1
    <3>5. QED
      BY <3>2, <3>3, <3>4
  <2>4. QED
    BY <1>9, <2>2, <2>3 DEF StartTimer
<1>10. ASSUME NEW t \in Timers, Fire(t)
       PROVE  GuardInv'
  <2>1. UNCHANGED <<is_feeding, feeding_timer, cancelled, op, stopping, overflow>> /\ pc[t] = "waiting"
    BY <1>10 DEF Fire
  <2>2. /\ \A q \in Threads : q # t => pc'[q] = pc[q]
        /\ pc'[t] = IF t \in cancelled THEN "done" ELSE "signal"
    BY <1>10, GotoFrame DEF Fire
  <2>3. QED
    BY <2>1, <2>2
<1>11. CASE on_new_sample_decode \/ DetectorTakes
  BY <1>11 DEF on_new_sample_decode, DetectorTakes, QueueOnly
<1>12. CASE UNCHANGED vars
  BY <1>12 DEF vars
<1>13. QED
  BY <1>1, <1>2, <1>3, <1>4, <1>5, <1>6, <1>7, <1>8, <1>9, <1>10, <1>11, <1>12
     DEF Next, CallerStep, TimerStep, Step

\* What feeding_timer refers to decides who will stop the camera, at any time.
THEOREM GuardAlways == Spec => [](TypeOK /\ GuardInv)
<1>1. Init => GuardInv
  BY GuardInit
<1>2. TypeOK /\ GuardInv /\ [Next]_vars => GuardInv'
  BY GuardStep
<1>3. QED
  BY <1>1, <1>2, TypeCorrect, PTL DEF Spec

\* A camera that feeds while no thread is inside a method has an armed timer,
\* for any number of threads and any interleaving of their accesses.
THEOREM Guarded == Spec => []SessionGuarded
<1>1. TypeOK /\ GuardInv => SessionGuarded
  <2> SUFFICES ASSUME TypeOK, GuardInv, is_feeding, ~stopping, ~overflow,
                      \A p \in Threads : ~MidCall(p)
               PROVE  \E t \in Timers : Armed(t)
    BY DEF SessionGuarded
  <2> USE TwoKindsOfThreads
  <2>1. \A p \in Threads : pc[p] \notin {"begin", "timer", "clear", "null", "start"}
    BY DEF MidCall
  <2>2. feeding_timer \in Timers
    BY <2>1 DEF GuardInv, NoTimerIsTransient, TypeOK
  <2>3. feeding_timer \notin cancelled
    BY <2>1 DEF GuardInv, CancelledIsForgotten
  <2>4. pc[feeding_timer] \notin {"new", "created", "clear", "done"}
    BY <2>1, <2>2, <2>3 DEF GuardInv, NewTimersUntouched, CreatedHasStarter, FinishedIsGone
  <2>5. pc[feeding_timer] = "waiting"
    BY <2>2, <2>4 DEF MidCall, TypeOK, PositionsOK, TimerPcs
  <2>6. QED
    BY <2>2, <2>3, <2>5 DEF Armed
<1>2. QED
  BY <1>1, GuardAlways, PTL

--------------------------------------------------------------------------------
\* Every step of a thread is a step of FeedingSession or leaves the session alone.
LEMMA SessionStep ==
  ASSUME TypeOK, [Next]_vars
  PROVE  [Session!Next]_(Session!sessionVars)
<1> USE DEF Session!Next, Session!sessionVars
<1>1. ASSUME NEW c \in Callers, Call(c)
      PROVE  [Session!Next]_(Session!sessionVars)
  <2>1. UNCHANGED <<is_feeding, detecting_txn, issued, overflow>>
    BY <1>1 DEF Call, CallFeed, CallExtend, CallStop, CallShutdown, Enter
  <2>2. CASE stopping' = stopping
    BY <2>1, <2>2
  <2>3. CASE stopping' = TRUE
    BY <2>1, <2>3 DEF Session!Wedge
  <2>4. QED
    BY <1>1, <2>2, <2>3 DEF Call, CallFeed, CallExtend, CallStop, CallShutdown
<1>2. ASSUME NEW p \in Threads, Signal(p)
      PROVE  [Session!Next]_(Session!sessionVars)
  <2>1. UNCHANGED <<is_feeding, detecting_txn, issued, stopping>>
    BY <1>2 DEF Signal
  <2>2. CASE overflow' = overflow
    BY <2>1, <2>2
  <2>3. CASE overflow' = TRUE
    BY <2>1, <2>3 DEF Session!Wedge
  <2>4. QED
    BY <1>2, <2>2, <2>3 DEF Signal
<1>3. ASSUME NEW p \in Threads, TestTimer(p) \/ CancelTimer(p) \/ ForgetTimer(p)
      PROVE  [Session!Next]_(Session!sessionVars)
  BY <1>3 DEF TestTimer, CancelTimer, ForgetTimer
<1>4. ASSUME NEW p \in Threads, ClearFeeding(p)
      PROVE  [Session!Next]_(Session!sessionVars)
  <2>1. UNCHANGED <<detecting_txn, issued, overflow, stopping>> /\ is_feeding' = FALSE
    BY <1>4 DEF ClearFeeding
  <2>2. CASE is_feeding
    BY <2>1, <2>2 DEF Session!Close
  <2>3. CASE ~is_feeding
    BY <2>1, <2>3 DEF TypeOK
  <2>4. QED
    BY <2>2, <2>3
<1>5. ASSUME NEW c \in Callers, BeginSession(c)
      PROVE  [Session!Next]_(Session!sessionVars)
  <2>1. PICK t \in Txns \ issued : detecting_txn' = t /\ issued' = issued \union {t}
    BY <1>5 DEF BeginSession
  <2>2. is_feeding' = TRUE /\ UNCHANGED <<overflow, stopping>>
    BY <1>5 DEF BeginSession
  <2>3. Session!Open(t)
    BY <2>1, <2>2 DEF Session!Open
  <2>4. QED
    BY <2>3
<1>6. ASSUME NEW c \in Callers, NewTimer(c) \/ StartTimer(c)
      PROVE  [Session!Next]_(Session!sessionVars)
  BY <1>6 DEF NewTimer, StartTimer
<1>7. ASSUME NEW t \in Timers, Fire(t)
      PROVE  [Session!Next]_(Session!sessionVars)
  BY <1>7 DEF Fire
<1>8. CASE on_new_sample_decode \/ DetectorTakes
  BY <1>8 DEF on_new_sample_decode, DetectorTakes, QueueOnly
<1>9. CASE UNCHANGED vars
  BY <1>9 DEF vars
<1>10. QED
  BY <1>1, <1>2, <1>3, <1>4, <1>5, <1>6, <1>7, <1>8, <1>9, TwoKindsOfThreads
     DEF Next, CallerStep, TimerStep, Step

\* StreamCapture implements the safety part of FeedingSession: a session opens
\* under a transaction no session had before, and only an opening changes it.
THEOREM Implements == Spec => SessionSafety
<1>1. Init => Session!Init
  BY DEF Init, Session!Init
<1>2. TypeOK /\ [Next]_vars => [Session!Next]_(Session!sessionVars)
  BY SessionStep
<1>3. QED
  BY <1>1, <1>2, TypeCorrect, PTL DEF Spec, SessionSafety, Session!Safety
================================================================================
