----------------------------- MODULE StreamCapture -----------------------------
(***************************************************************************)
(* The feeding control of one camera's StreamCapture                       *)
(* (gstreamer_threading.py): feed_detecting, extend_timer, stop_feeding    *)
(* and stop, executed by any number of threads without a common lock.      *)
(* Callers are the threads that enter from outside (ONVIF notification     *)
(* threads, the Lambda handler, the output queue loop, the camera's        *)
(* monitor); every threading.Timer is a thread of its own that runs        *)
(* stop_feeding when it expires. One step is one access of a field another *)
(* thread may change: the test of feeding_timer, the cancel() and the      *)
(* assignment of None are three reads or writes in the source and three    *)
(* steps here, so an exception on a None that a concurrent thread left     *)
(* behind is reachable.                                                    *)
(* cam_queue, which all cameras share, is kept as the number of its        *)
(* entries. The frame counters and buffers are not part of this module.    *)
(***************************************************************************)
EXTENDS Naturals, FiniteSets

CONSTANTS Callers,   (* threads that call the methods                        *)
          Timers,    (* threading.Timer objects, each used once              *)
          Txns,      (* values uuid.uuid4() may return, each drawn once      *)
          None,      (* Python's None                                        *)
          QueueMax   (* maxsize of cam_queue (500 in py_handler.py)          *)

Threads == Callers \union Timers

ASSUME ThreadsAssumption ==
  /\ Callers \intersect Timers = {}
  /\ None \notin Threads \union Txns
ASSUME QueueAssumption == QueueMax \in Nat \ {0}

VARIABLES
  is_feeding,     (* StreamCapture.is_feeding                                *)
  detecting_txn,  (* StreamCapture.detecting_txn                             *)
  feeding_timer,  (* StreamCapture.feeding_timer: a timer or None            *)
  stopping,       (* StreamCapture.stop_event                                *)
  queued,         (* entries in cam_queue                                    *)
  cancelled,      (* timers on which cancel() was called                     *)
  pc,             (* where each thread is                                    *)
  op,             (* the method each thread executes                         *)
  issued,         (* history: the transactions drawn                         *)
  overflow        (* history: stop_feeding raised queue.Full                 *)

vars == <<is_feeding, detecting_txn, feeding_timer, stopping, queued,
          cancelled, pc, op, issued, overflow>>

Ops == {"feed", "extend", "stop", "shutdown"}

\* "test", "cancel", "null" are the three steps of
\*   if self.feeding_timer is not None: self.feeding_timer.cancel(); self.feeding_timer = None
CallerPcs == {"idle", "signal", "test", "cancel", "null", "begin", "timer",
              "start", "clear"}
TimerPcs == {"new", "created", "waiting", "signal", "test", "cancel", "null",
             "clear", "done"}

\* A timer that will run stop_feeding when its time has come.
Armed(t) == pc[t] = "waiting" /\ t \notin cancelled

Rest(p) == IF p \in Timers THEN "done" ELSE "idle"

Goto(p, l) == pc' = [pc EXCEPT ![p] = l]
Return(p) == Goto(p, Rest(p))

\* Mutant: extend_timer cancels the timer without starting another one.
AfterTimerNoExtension(p) ==
  CASE op[p] = "feed"   -> "begin"
    [] op[p] = "stop"   -> "clear"
    [] OTHER            -> Rest(p)

\* Where a method goes on once it holds no timer any more.
AfterTimer(p) ==
  CASE op[p] = "feed"   -> "begin"
    [] op[p] = "extend" -> "timer"
    [] op[p] = "stop"   -> "clear"
    [] OTHER            -> Rest(p)

Init ==
  /\ is_feeding = FALSE
  /\ detecting_txn = None
  /\ feeding_timer = None
  /\ stopping = FALSE
  /\ queued = 0
  /\ cancelled = {}
  /\ pc = [p \in Threads |-> IF p \in Timers THEN "new" ELSE "idle"]
  /\ op = [p \in Threads |-> "stop"]
  /\ issued = {}
  /\ overflow = FALSE

--------------------------------------------------------------------------------
(* Calls from outside. *)

Enter(c, o, l) ==
  /\ pc[c] = "idle"
  /\ Goto(c, l)
  /\ op' = [op EXCEPT ![c] = o]
  /\ UNCHANGED <<is_feeding, detecting_txn, feeding_timer, queued, cancelled,
                 issued, overflow>>

Inside(o) == {c \in Callers : op[c] \in o /\ pc[c] \in {"test", "cancel", "null", "begin", "timer"}}

\* Bounds: a thread enters feed_detecting or extend_timer only while a timer is
\* left for it and for every thread already inside, and feed_detecting only
\* while a transaction is left.
TimerBound == Cardinality({t \in Timers : pc[t] = "new"}) > Cardinality(Inside({"feed", "extend"}))
TxnBound == Cardinality(Txns \ issued) > Cardinality(Inside({"feed"}))

\* `if self.is_feeding: return' of feed_detecting; the return leaves no trace.
CallFeed(c) ==
  /\ ~is_feeding
  /\ TimerBound /\ TxnBound
  /\ Enter(c, "feed", "test")
  /\ UNCHANGED stopping

\* `if not self.is_feeding: return' of extend_timer.
CallExtend(c) ==
  /\ is_feeding
  /\ TimerBound
  /\ Enter(c, "extend", "test")
  /\ UNCHANGED stopping

\* stop_feeding, called by handle_occupancy_false or by the output queue loop. The
\* latter may come late, when the camera was restarted and has not fed yet.
CallStop(c) == Enter(c, "stop", "signal") /\ UNCHANGED stopping

\* stop, and the end of run: the camera is being taken down.
CallShutdown(c) ==
  /\ Enter(c, "shutdown", "test")
  /\ stopping' = TRUE

--------------------------------------------------------------------------------
(* The steps of the methods. *)

\* cam_queue.put(SESSION_END, block=False), skipped before the first session.
\* A full queue raises queue.Full, which ends the method here.
Signal(p) ==
  /\ pc[p] = "signal"
  /\ \/ /\ detecting_txn = None
        /\ Goto(p, "test")
        /\ UNCHANGED <<queued, overflow>>
     \/ /\ detecting_txn # None
        /\ queued < QueueMax
        /\ queued' = queued + 1
        /\ Goto(p, "test")
        /\ UNCHANGED overflow
     \/ /\ detecting_txn # None
        /\ queued >= QueueMax
        /\ overflow' = TRUE
        /\ Return(p)
        /\ UNCHANGED queued
  /\ UNCHANGED <<is_feeding, detecting_txn, feeding_timer, stopping, cancelled,
                 op, issued>>

TestTimer(p) ==
  /\ pc[p] = "test"
  /\ Goto(p, IF feeding_timer # None THEN "cancel" ELSE AfterTimer(p))
  /\ UNCHANGED <<is_feeding, detecting_txn, feeding_timer, stopping, queued,
                 cancelled, op, issued, overflow>>

\* None.cancel() raises AttributeError when another thread got in between.
CancelTimer(p) ==
  /\ pc[p] = "cancel"
  /\ \/ /\ feeding_timer # None
        /\ cancelled' = cancelled \union {feeding_timer}
        /\ Goto(p, "null")
     \/ /\ feeding_timer = None
        /\ Return(p)
        /\ UNCHANGED cancelled
  /\ UNCHANGED <<is_feeding, detecting_txn, feeding_timer, stopping, queued,
                 op, issued, overflow>>

ForgetTimer(p) ==
  /\ pc[p] = "null"
  /\ feeding_timer' = None
  /\ Goto(p, AfterTimer(p))
  /\ UNCHANGED <<is_feeding, detecting_txn, stopping, queued, cancelled, op,
                 issued, overflow>>

\* The block of feed_detecting under detecting_lock.
BeginSession(c) ==
  /\ pc[c] = "begin"
  /\ \E t \in Txns \ issued :
       /\ detecting_txn' = t
       /\ issued' = issued \union {t}
  /\ is_feeding' = TRUE
  /\ Goto(c, "timer")
  /\ UNCHANGED <<feeding_timer, stopping, queued, cancelled, op, overflow>>

\* self.feeding_timer = threading.Timer(running_seconds, self.stop_feeding)
NewTimer(c) ==
  /\ pc[c] = "timer"
  /\ \E t \in Timers :
       /\ pc[t] = "new"
       /\ feeding_timer' = t
       /\ pc' = [pc EXCEPT ![c] = "start", ![t] = "created"]
  /\ UNCHANGED <<is_feeding, detecting_txn, stopping, queued, cancelled, op,
                 issued, overflow>>

Startable == feeding_timer # None /\ pc[feeding_timer] = "created"

\* Mutant: the timer is not started.
StartNothing(c) ==
  /\ pc[c] = "start"
  /\ Goto(c, "idle")
  /\ UNCHANGED <<is_feeding, detecting_txn, feeding_timer, stopping, queued,
                 cancelled, op, issued, overflow>>

\* self.feeding_timer.start() starts whichever timer is there by now. On None it
\* raises AttributeError, on a timer started before it raises RuntimeError.
StartTimer(c) ==
  /\ pc[c] = "start"
  /\ \/ /\ Startable
        /\ pc' = [pc EXCEPT ![c] = "idle", ![feeding_timer] = "waiting"]
     \/ ~Startable /\ Goto(c, "idle")
  /\ UNCHANGED <<is_feeding, detecting_txn, feeding_timer, stopping, queued,
                 cancelled, op, issued, overflow>>

\* Mutant: stop_feeding leaves is_feeding to the caller.
ClearNothing(p) ==
  /\ pc[p] = "clear"
  /\ Return(p)
  /\ UNCHANGED <<is_feeding, detecting_txn, feeding_timer, stopping, queued,
                 cancelled, op, issued, overflow>>

\* The end of stop_feeding, under detecting_lock.
ClearFeeding(p) ==
  /\ pc[p] = "clear"
  /\ is_feeding' = FALSE
  /\ Return(p)
  /\ UNCHANGED <<detecting_txn, feeding_timer, stopping, queued, cancelled, op,
                 issued, overflow>>

\* A timer's thread runs stop_feeding when its time has come, and ends without
\* it when the timer was cancelled before.
Fire(t) ==
  /\ pc[t] = "waiting"
  /\ Goto(t, IF t \in cancelled THEN "done" ELSE "signal")
  /\ UNCHANGED <<is_feeding, detecting_txn, feeding_timer, stopping, queued,
                 cancelled, op, issued, overflow>>

--------------------------------------------------------------------------------
(* The other users of cam_queue. *)

QueueOnly ==
  UNCHANGED <<is_feeding, detecting_txn, feeding_timer, stopping, cancelled, pc,
              op, issued, overflow>>

\* on_new_sample_decode of this camera, or of another one: frames are dropped
\* when the queue is full.
on_new_sample_decode == queued < QueueMax /\ queued' = queued + 1 /\ QueueOnly

\* The detector takes an entry.
DetectorTakes == queued > 0 /\ queued' = queued - 1 /\ QueueOnly

--------------------------------------------------------------------------------
Step(p) ==
  \/ Signal(p) \/ TestTimer(p) \/ CancelTimer(p) \/ ForgetTimer(p) \/ ClearFeeding(p)

CallerStep(c) == Step(c) \/ BeginSession(c) \/ NewTimer(c) \/ StartTimer(c)
TimerStep(t) == Step(t) \/ Fire(t)

Call(c) == CallFeed(c) \/ CallExtend(c) \/ CallStop(c) \/ CallShutdown(c)

Next ==
  \/ \E c \in Callers : Call(c) \/ CallerStep(c)
  \/ \E t \in Timers : TimerStep(t)
  \/ on_new_sample_decode
  \/ DetectorTakes

Spec == Init /\ [][Next]_vars

\* Threads that run keep running and a started timer expires; nobody has to
\* call, no frame has to come, and the detector may be dead.
FairSpec ==
  /\ Spec
  /\ \A c \in Callers : WF_vars(CallerStep(c))
  /\ \A t \in Timers : WF_vars(TimerStep(t))

--------------------------------------------------------------------------------
(* Properties. *)

\* Type correctness of the capture's fields and of its threads' positions
\* (gstreamer_threading.py, StreamCapture.__init__ and the methods above).
PositionsOK ==
  /\ pc \in [Threads -> CallerPcs \union TimerPcs]
  /\ \A c \in Callers : pc[c] \in CallerPcs
  /\ \A t \in Timers : pc[t] \in TimerPcs

TypeOK ==
  /\ PositionsOK
  /\ is_feeding \in BOOLEAN
  /\ detecting_txn \in Txns \union {None}
  /\ feeding_timer \in Timers \union {None}
  /\ stopping \in BOOLEAN
  /\ queued \in 0..QueueMax
  /\ cancelled \subseteq Timers
  /\ op \in [Threads -> Ops]
  /\ \A t \in Timers : op[t] = "stop"
  /\ issued \subseteq Txns
  /\ overflow \in BOOLEAN

MidCall(p) == pc[p] \notin {"idle", "new", "created", "waiting", "done"}

\* A camera never feeds without a watchdog: once no thread is inside a method,
\* a feeding camera has a timer that will stop it, whatever the calls to
\* feed_detecting, extend_timer and stop_feeding did to each other and whichever
\* of them died of an exception. Two things end the promise: a stop lost to a
\* full queue, and the shutdown of the camera.
SessionGuarded ==
  (is_feeding /\ ~stopping /\ ~overflow /\ \A p \in Threads : ~MidCall(p))
    => \E t \in Timers : Armed(t)

\* Why SessionGuarded holds. What feeding_timer refers to decides who is going to
\* stop the camera: a created timer has a thread about to start it, a cancelled
\* one a thread about to forget it, and with no timer at all some thread is about
\* to make one or to clear is_feeding.
NewTimersUntouched ==
  \A t \in Timers : pc[t] = "new" => t \notin cancelled /\ t # feeding_timer
ShutdownMarked ==
  \A c \in Callers : op[c] = "shutdown" => stopping
CreatedHasStarter ==
  \A t \in Timers : feeding_timer = t /\ pc[t] = "created" => \E c \in Callers : pc[c] = "start"
CancelledIsForgotten ==
  feeding_timer \in cancelled => \E p \in Threads : pc[p] = "null"
FinishedIsGone ==
  \A t \in Timers : feeding_timer = t /\ pc[t] \in {"clear", "done"} => t \in cancelled \/ overflow
NoTimerIsTransient ==
  feeding_timer = None /\ is_feeding
    => stopping \/ \E p \in Threads : pc[p] \in {"begin", "timer", "clear"}

GuardInv ==
  /\ NewTimersUntouched /\ ShutdownMarked /\ CreatedHasStarter
  /\ CancelledIsForgotten /\ FinishedIsGone /\ NoTimerIsTransient

\* The capture implements FeedingSession: every session opens under a fresh
\* transaction, nothing but a session opening changes the transaction, and a session
\* ends unless the stop was lost to a full queue or the camera is shut down. Its end may
\* be the expiry of the timer, with somebody present as well: handle_timer_expiry answers
\* False for the insightface back end ("never extend", py_handler.py). The document
\* src/design/INSIGHTFACE_EXECUTION_FLOWS.md says otherwise (lines 11-12, 36-41): the
\* timer is extended and stop_feeding blocked as long as active_occupancy is non-empty.
\* The property is of the code, and would not hold of the document's sessions, which end
\* only when the guest is reported to have left.
Session == INSTANCE FeedingSession
             WITH feeding <- is_feeding, txn <- detecting_txn, used <- issued,
                  wedged <- overflow \/ stopping, NoTxn <- None

SessionSpec == Session!Spec
SessionSafety == Session!Safety
================================================================================
