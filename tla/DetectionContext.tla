---------------------------- MODULE DetectionContext ----------------------------
(***************************************************************************)
(* Which locks a recognised face may open (py_handler.py), for one camera: *)
(* trigger_face_detection, handle_occupancy_false and the member_detected  *)
(* branch of fetch_scanner_output_queue, over trigger_lock_context and     *)
(* context_snapshots. ONVIF notifications run in threads of their own, all *)
(* Lambda messages (clicks, occupancy:false, force_detect) in one thread,  *)
(* the output queue loop in another; no lock is shared. The camera's       *)
(* StreamCapture appears as what it is proved to promise, FeedingSession.  *)
(*                                                                         *)
(* A step is a stretch of code up to the next read of a field another      *)
(* thread writes in between, or up to a call that blocks. Guards on the    *)
(* camera (found, detecting, alive, playing) that return at once and leave *)
(* no trace are calls that do not happen.                                  *)
(***************************************************************************)
EXTENDS Naturals, FiniteSets, Sequences, Functions

CONSTANTS Onvif,     (* threads that run handle_notification                 *)
          Lambda,    (* the thread that runs function_handler                *)
          Locks,     (* lock asset ids                                       *)
          Contexts,  (* context dictionaries; one is free when nothing refers to it *)
          Txns,      (* transactions uuid.uuid4() returns, each once         *)
          None,      (* Python's None; the camera has no entry               *)
          QueueMax   (* maxsize of scanner_output_queue                      *)

Handlers == Onvif \union {Lambda}

\* A message, and the locks that are offered with it.
Offers == [txn : Txns, locks : SUBSET Locks]

ASSUME QueueAssumption == QueueMax \in Nat \ {0}
ASSUME NoneAssumption == None \notin Locks \union Contexts \union Txns \union Offers

VARIABLES
  is_feeding, detecting_txn,   (* of the camera's StreamCapture              *)
  issued,                      (* history: the transactions drawn            *)
  wedged,                      (* history: a stop_feeding raised queue.Full, or
                                  the camera had no capture                  *)
  context,                     (* the locks in each dictionary: specific_locks
                                  and active_occupancy change only together  *)
  trigger_lock_context,        (* the camera's entry: a dictionary or None   *)
  context_snapshots,           (* the locks of each transaction that has an entry *)
  scanner_output_queue,        (* member_detected messages: their transactions *)
  pc, arg, mine,               (* each handler's position, its lock_asset_id
                                  and its local variable `context'           *)
  taken,                       (* the message the output loop works on       *)
  pressed,                     (* history: locks whose last event was a click *)
  due,                         (* history: the clicks the session is owed to *)
  matched,                     (* history: transactions with a recognised face *)
  answered                     (* history: transactions whose members were
                                  published, or dropped at an exception of the
                                  output loop                                *)

capture == <<is_feeding, detecting_txn, issued, wedged>>
handlers == <<pc, arg, mine>>
history == <<pressed, matched, answered>>
vars == <<capture, context, trigger_lock_context, context_snapshots,
          scanner_output_queue, handlers, taken, due, history>>

Capture == INSTANCE FeedingSession
  WITH feeding <- is_feeding, txn <- detecting_txn, used <- issued,
       wedged <- wedged, NoTxn <- None

Goto(h, l) == pc' = [pc EXCEPT ![h] = l]

\* The handler returns; its local variables are gone.
Return(h) ==
  /\ Goto(h, "idle")
  /\ arg' = [arg EXCEPT ![h] = None]
  /\ mine' = [mine EXCEPT ![h] = None]

Idle(h) == pc[h] = "idle"

\* context_snapshots[(cam_ip, t)] = locks
Store(t, locks) ==
  context_snapshots' = [x \in DOMAIN context_snapshots \union {t} |->
                          IF x = t THEN locks ELSE context_snapshots[x]]

\* The locks stored for t, none when it has no entry.
Snapshot(t) == IF t \in DOMAIN context_snapshots THEN context_snapshots[t] ELSE {}

Init ==
  /\ Capture!Init
  /\ context = [c \in Contexts |-> {}]
  /\ trigger_lock_context = None
  /\ context_snapshots = [t \in {} |-> {}]
  /\ scanner_output_queue = <<>>
  /\ pc = [h \in Handlers |-> "idle"]
  /\ arg = [h \in Handlers |-> None]
  /\ mine = [h \in Handlers |-> None]
  /\ taken = None
  /\ pressed = {} /\ due = {} /\ matched = {} /\ answered = {}

--------------------------------------------------------------------------------
(* What the handlers do to the capture. *)

\* Clicks on their way to a session of their own: they survive the end of the
\* session that runs now.
OnTheWay == {arg[h] : h \in {g \in Handlers : pc[g] \in {"merge", "feed", "open"}}} \ {None}

\* The session ends, if one runs.
EndSession == IF is_feeding THEN Capture!Close ELSE UNCHANGED capture

\* stop_feeding.
Stopped == EndSession /\ due' = OnTheWay

\* The handlers inside extend_timer or feed_detecting, which may have taken the timer
\* away from another thread between its test and its cancel.
Feeders == {h \in Handlers : pc[h] \in {"update", "open", "start"}}

\* stop_feeding raises: SESSION_END finds cam_queue full, or the camera has no capture at
\* the moment; or one of Feeders has taken the timer. The session goes on. (A stop that
\* loses the timer to another stop ends with it, and the session with the other.)
StopRaises ==
  /\ Capture!Wedge \/ (Feeders # {} /\ UNCHANGED capture)
  /\ UNCHANGED due

--------------------------------------------------------------------------------
(* trigger_face_detection. *)

Free == Contexts \ ({trigger_lock_context} \union {mine[h] : h \in Handlers})

\* The entry: a context whose session is over is stale and replaced, a missing
\* one is created. lock is None for an ONVIF event or a forced detection.
Trigger(h, lock) ==
  /\ Idle(h)
  /\ Goto(h, "merge")
  /\ arg' = [arg EXCEPT ![h] = lock]
  /\ \/ /\ trigger_lock_context # None /\ is_feeding
        /\ mine' = [mine EXCEPT ![h] = trigger_lock_context]
        /\ UNCHANGED <<context, trigger_lock_context>>
     \/ /\ trigger_lock_context = None \/ ~is_feeding
        /\ \E c \in Free :
             /\ context' = [context EXCEPT ![c] = {}]
             /\ trigger_lock_context' = c
             /\ mine' = [mine EXCEPT ![h] = c]
  /\ pressed' = pressed \union ({lock} \ {None})
  /\ due' = due \union ({lock} \ {None})
  /\ UNCHANGED <<capture, context_snapshots, scanner_output_queue, taken,
                 matched, answered>>

\* Mutant: a click in a running session leaves the snapshot alone.
MergeOnly(h) ==
  /\ pc[h] = "merge"
  /\ context' = [context EXCEPT ![mine[h]] = @ \union ({arg[h]} \ {None})]
  /\ \/ ~is_feeding /\ Goto(h, "feed") /\ UNCHANGED <<arg, mine>>
     \/ is_feeding /\ Return(h)
  /\ UNCHANGED <<capture, trigger_lock_context, context_snapshots,
                 scanner_output_queue, taken, due, history>>

\* The lock is merged into the context, and the session tested once more. Only a
\* click has anything to do in a running session; extend_timer does not concern
\* the context.
Merge(h) ==
  /\ pc[h] = "merge"
  /\ context' = [context EXCEPT ![mine[h]] = @ \union ({arg[h]} \ {None})]
  /\ \/ ~is_feeding /\ Goto(h, "feed") /\ UNCHANGED <<arg, mine>>
     \/ is_feeding /\ arg[h] # None /\ Goto(h, "update") /\ UNCHANGED <<arg, mine>>
     \/ is_feeding /\ arg[h] = None /\ Return(h)
  /\ UNCHANGED <<capture, trigger_lock_context, context_snapshots,
                 scanner_output_queue, taken, due, history>>

\* The click's lock joins the snapshot of the session that runs by now.
UpdateSnapshot(h) ==
  /\ pc[h] = "update"
  /\ Store(detecting_txn, context[mine[h]])
  /\ Return(h)
  /\ UNCHANGED <<capture, context, trigger_lock_context, scanner_output_queue,
                 taken, due, history>>

\* fetch_members, a query to the database; then feed_detecting returns at once
\* when the camera feeds by now. Bound: a handler goes on only if a transaction
\* is left for it and for those that already passed the test.
FetchMembers(h) ==
  /\ pc[h] = "feed"
  /\ \/ is_feeding /\ Goto(h, "snap")
     \/ /\ ~is_feeding
        /\ Cardinality(Txns \ issued) > Cardinality({g \in Handlers : pc[g] = "open"})
        /\ Goto(h, "open")
  /\ UNCHANGED <<capture, context, trigger_lock_context, context_snapshots,
                 scanner_output_queue, arg, mine, taken, due, history>>

\* The query fails, or there is no detector: no session, the context stays.
FetchFails(h) ==
  /\ pc[h] = "feed"
  /\ Return(h)
  /\ due' = due \ {arg[h]}
  /\ UNCHANGED <<capture, context, trigger_lock_context, context_snapshots,
                 scanner_output_queue, taken, history>>

\* The rest of feed_detecting.
FeedDetecting(h) ==
  /\ pc[h] = "open"
  /\ \E t \in Txns : Capture!Open(t)
  /\ Goto(h, "start")
  /\ UNCHANGED <<context, trigger_lock_context, context_snapshots,
                 scanner_output_queue, arg, mine, taken, due, history>>

\* feed_detecting, before or after it has opened the session, or extend_timer loses the
\* timer and raises, and with it the handler: to another of Feeders, or to a stop_feeding,
\* which ends the session.
FeederRaises(h) ==
  /\ h \in Feeders
  /\ \/ Feeders # {h} /\ UNCHANGED capture /\ due' = due \ {arg[h]}
     \/ detecting_txn # None /\ EndSession /\ due' = OnTheWay \ {arg[h]}
  /\ Return(h)
  /\ UNCHANGED <<context, trigger_lock_context, context_snapshots,
                 scanner_output_queue, taken, history>>

\* Mutant: no snapshot is stored for a session without locks.
StoreIfLocks(h) ==
  /\ pc[h] \in {"start", "snap"}
  /\ \/ context[mine[h]] = {} /\ UNCHANGED context_snapshots
     \/ context[mine[h]] # {} /\ Store(detecting_txn, context[mine[h]])
  /\ Return(h)
  /\ UNCHANGED <<capture, context, trigger_lock_context, scanner_output_queue,
                 taken, due, history>>

\* The context is stored for the capture's transaction.
StoreSnapshot(h) ==
  /\ pc[h] \in {"start", "snap"}
  /\ Store(detecting_txn, context[mine[h]])
  /\ Return(h)
  /\ UNCHANGED <<capture, context, trigger_lock_context, scanner_output_queue,
                 taken, due, history>>

--------------------------------------------------------------------------------
(* handle_occupancy_false. *)

\* Without a context the release is forgotten.
Release(h, lock) ==
  /\ Idle(h)
  /\ \/ /\ trigger_lock_context = None
        /\ UNCHANGED <<context, handlers>>
     \/ /\ trigger_lock_context # None
        /\ context' = [context EXCEPT ![trigger_lock_context] = @ \ {lock}]
        /\ Goto(h, "shrink")
        /\ arg' = [arg EXCEPT ![h] = lock]
        /\ mine' = [mine EXCEPT ![h] = trigger_lock_context]
  /\ pressed' = pressed \ {lock}
  /\ due' = due \ {lock}
  /\ UNCHANGED <<capture, trigger_lock_context, context_snapshots,
                 scanner_output_queue, taken, matched, answered>>

\* Mutant: the snapshot keeps the lock.
KeepSnapshot(h) ==
  /\ pc[h] = "shrink"
  /\ Goto(h, "quit")
  /\ UNCHANGED <<capture, context, trigger_lock_context, context_snapshots,
                 scanner_output_queue, arg, mine, taken, due, history>>

\* Only the snapshot of the capture's last transaction follows.
ShrinkSnapshot(h) ==
  /\ pc[h] = "shrink"
  /\ \/ /\ detecting_txn \in DOMAIN context_snapshots
        /\ Store(detecting_txn, context[mine[h]])
     \/ /\ detecting_txn \notin DOMAIN context_snapshots
        /\ UNCHANGED context_snapshots
  /\ Goto(h, "quit")
  /\ UNCHANGED <<capture, context, trigger_lock_context, scanner_output_queue,
                 arg, mine, taken, due, history>>

Nobody(h) == is_feeding /\ context[mine[h]] = {}

\* With nobody at a lock any more the session is stopped.
StopEarly(h) ==
  /\ pc[h] = "quit"
  /\ \/ Nobody(h) /\ Stopped /\ Goto(h, "delete") /\ UNCHANGED <<arg, mine>>
     \/ Nobody(h) /\ (StopRaises \/ Stopped) /\ Return(h)
     \/ ~Nobody(h) /\ Return(h) /\ UNCHANGED <<capture, due>>
  /\ UNCHANGED <<context, trigger_lock_context, context_snapshots,
                 scanner_output_queue, taken, history>>

\* `del trigger_lock_context[cam_ip]', whichever context is there by now.
DeleteContext(h) ==
  /\ pc[h] = "delete"
  /\ trigger_lock_context' = None
  /\ Return(h)
  /\ UNCHANGED <<capture, context, context_snapshots, scanner_output_queue,
                 taken, due, history>>

--------------------------------------------------------------------------------
(* fetch_scanner_output_queue, member_detected. *)

\* The locks offered to the members recognised in t: those of its own session's
\* snapshot, else those of whatever context the camera has by now.
Offered(t) ==
  IF t \in DOMAIN context_snapshots THEN context_snapshots[t]
  ELSE IF trigger_lock_context # None THEN context[trigger_lock_context]
  ELSE {}

TakeMessage ==
  /\ taken = None
  /\ scanner_output_queue # <<>>
  /\ LET t == Head(scanner_output_queue)
     IN  /\ taken' = [txn |-> t, locks |-> Offered(t)]
         /\ context_snapshots' = Restrict(context_snapshots, DOMAIN context_snapshots \ {t})
  /\ scanner_output_queue' = Tail(scanner_output_queue)
  /\ trigger_lock_context' = None
  /\ UNCHANGED <<capture, context, handlers, due, history>>

\* Mutants: the loop does not stop the camera; it drops the message of a session
\* that is over.
PublishOnly ==
  /\ taken # None
  /\ answered' = answered \union {taken.txn}
  /\ taken' = None
  /\ UNCHANGED <<capture, context, trigger_lock_context, context_snapshots, due,
                 scanner_output_queue, handlers, pressed, matched>>

PublishIfFeeding ==
  /\ taken # None
  /\ Stopped
  /\ answered' = IF is_feeding THEN answered \union {taken.txn} ELSE answered
  /\ taken' = None
  /\ UNCHANGED <<context, trigger_lock_context, context_snapshots,
                 scanner_output_queue, handlers, pressed, matched>>

\* stop_feeding; then the snapshot is uploaded and the members are published. An
\* exception of stop_feeding, or of what follows it, drops the message.
PublishMembers ==
  /\ taken # None
  /\ Stopped \/ StopRaises
  /\ answered' = answered \union {taken.txn}
  /\ taken' = None
  /\ UNCHANGED <<context, trigger_lock_context, context_snapshots,
                 scanner_output_queue, handlers, pressed, matched>>

--------------------------------------------------------------------------------
(* The environment. *)

\* The feeding timer runs stop_feeding.
TimerExpires ==
  /\ is_feeding
  /\ Stopped \/ StopRaises
  /\ UNCHANGED <<context, trigger_lock_context, context_snapshots,
                 scanner_output_queue, handlers, taken, history>>

\* The detector recognises a face in a frame of session t, which may be over by now: a
\* member_detected message, a second one when the detector has lost its history of t.
Match(t) ==
  /\ t \in issued
  /\ Len(scanner_output_queue) < QueueMax
  /\ matched' = matched \union {t}
  /\ scanner_output_queue' = Append(scanner_output_queue, t)
  /\ UNCHANGED <<capture, context, trigger_lock_context, context_snapshots,
                 handlers, taken, due, pressed, answered>>

--------------------------------------------------------------------------------
Call ==
  \/ \E h \in Handlers : Trigger(h, None)
  \/ \E l \in Locks : Trigger(Lambda, l) \/ Release(Lambda, l)

HandlerStep(h) ==
  \/ Merge(h) \/ UpdateSnapshot(h) \/ FetchMembers(h) \/ FetchFails(h)
  \/ FeedDetecting(h) \/ StoreSnapshot(h) \/ FeederRaises(h)
  \/ ShrinkSnapshot(h) \/ StopEarly(h) \/ DeleteContext(h)

LoopStep == TakeMessage \/ PublishMembers

Next ==
  \/ Call
  \/ \E h \in Handlers : HandlerStep(h)
  \/ LoopStep
  \/ TimerExpires
  \/ \E t \in Txns : Match(t)

Spec == Init /\ [][Next]_vars

\* Nobody is inside a handler or the output loop's branch.
Quiet == taken = None /\ \A h \in Handlers : Idle(h)

\* No two handlers, and no handler and the output loop, are at work at the same time;
\* the timer and the detector still come at any moment.
OneAtATime ==
  /\ \A g, h \in Handlers : Idle(g) \/ Idle(h) \/ g = h
  /\ taken # None => \A h \in Handlers : Idle(h)

--------------------------------------------------------------------------------
(* Properties. *)

\* Type correctness of the dictionaries of py_handler.py and of the handlers.
Positions == {"idle", "merge", "update", "feed", "open", "start", "snap", "shrink", "quit", "delete"}

HandlersOK ==
  /\ pc \in [Handlers -> Positions]
  /\ arg \in [Handlers -> Locks \union {None}]
  /\ mine \in [Handlers -> Contexts \union {None}]
  /\ \A h \in Handlers : mine[h] = None <=> Idle(h)

TypeOK ==
  /\ is_feeding \in BOOLEAN
  /\ detecting_txn \in Txns \union {None}
  /\ issued \subseteq Txns
  /\ wedged \in BOOLEAN
  /\ context \in [Contexts -> SUBSET Locks]
  /\ trigger_lock_context \in Contexts \union {None}
  /\ DOMAIN context_snapshots \subseteq Txns
  /\ context_snapshots \in [DOMAIN context_snapshots -> SUBSET Locks]
  /\ scanner_output_queue \in Seq(Txns) /\ Len(scanner_output_queue) <= QueueMax
  /\ HandlersOK
  /\ taken \in Offers \union {None}
  /\ pressed \subseteq Locks /\ due \subseteq Locks
  /\ matched \subseteq issued /\ answered \subseteq Txns

Settled == Quiet /\ is_feeding /\ ~wedged

\* A session that runs undisturbed has a snapshot of its own, so that a face
\* recognised in it is answered from the locks of that session and not from the
\* context another session left behind.
SnapshotStored == Settled => detecting_txn \in DOMAIN context_snapshots

\* Why SnapshotStored holds: a session without a snapshot has a handler about to
\* store it, or the output loop about to stop it. Of several handlers that take the timer
\* from each other, one gets through. A session, and a handler about to write a snapshot,
\* have a transaction.
SnapshotInv ==
  /\ is_feeding /\ ~wedged =>
       \/ detecting_txn \in DOMAIN context_snapshots
       \/ \E h \in Handlers : h \in Feeders \/ pc[h] = "snap"
       \/ taken # None
  /\ is_feeding \/ (\E h \in Handlers : pc[h] \in {"start", "snap", "update"}) => detecting_txn # None

\* `A subsequent clicked event merges into the running session and upgrades to
\* unlock mode' (trigger_face_detection): every lock clicked for the session that
\* runs, and not released since, is in the session's snapshot.
ClickCovered == Settled => due \subseteq Snapshot(detecting_txn)

\* handle_occupancy_false removes the lock: the session that runs will not offer a
\* lock whose last event was occupancy:false.
ReleasedGone == Settled => Snapshot(detecting_txn) \subseteq pressed

\* The output loop takes a message.
Taking == taken = None /\ taken' # None

\* `Face detected!' means `member_detected': when the queue is empty and the loop has
\* nothing in hand, every session with a recognised face has been published, unless the
\* loop itself raised on the way (a handler that has taken the timer away may be the
\* cause). In no other way do the handlers, or the timer, which may end a session before
\* its message is taken, or the next session lose one.
NothingLost ==
  scanner_output_queue = <<>> /\ taken = None => matched \subseteq answered

\* Why NothingLost holds: the message of a session with a recognised face is in the
\* queue or in the loop's hand until it is published or dropped.
Pending(t) ==
  \/ \E i \in 1..Len(scanner_output_queue) : scanner_output_queue[i] = t
  \/ taken # None /\ taken.txn = t

PendingInv == \A t \in matched : t \in answered \/ Pending(t)
================================================================================
