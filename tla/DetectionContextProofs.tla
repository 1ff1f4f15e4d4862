------------------------- MODULE DetectionContextProofs -------------------------
(***************************************************************************)
(* Proofs about DetectionContext for any number of ONVIF threads, locks,   *)
(* dictionaries and transactions: what holds under every interleaving, and *)
(* what holds until two handlers overlap, or one and the output loop.      *)
(***************************************************************************)
EXTENDS MCDetectionContext, TLAPS

IInv == TypeOK /\ SnapshotInv

\* The steps of the capture keep its fields typed.
LEMMA CaptureType ==
  ASSUME TypeOK,
         Stopped \/ StopRaises \/ EndSession \/ (\E t \in Txns : Capture!Open(t)) \/ UNCHANGED capture
  PROVE  /\ is_feeding' \in BOOLEAN /\ wedged' \in BOOLEAN
         /\ detecting_txn' \in Txns \union {None}
         /\ issued' \subseteq Txns /\ issued \subseteq issued'
BY DEF TypeOK, Stopped, StopRaises, EndSession, capture, Capture!Open, Capture!Close, Capture!Wedge

\* The clicks on their way are locks.
LEMMA OnTheWayType == TypeOK => OnTheWay \subseteq Locks
BY DEF TypeOK, HandlersOK, OnTheWay

\* A handler that moves on keeps the handlers typed.
LEMMA GotoType ==
  ASSUME TypeOK, NEW h \in Handlers, ~Idle(h),
         NEW l \in Positions \ {"idle"}, Goto(h, l), UNCHANGED <<arg, mine>>
  PROVE  HandlersOK'
BY DEF TypeOK, HandlersOK, Goto, Idle

\* A handler that enters keeps the handlers typed.
LEMMA EnterType ==
  ASSUME TypeOK, NEW h \in Handlers, NEW l \in Positions \ {"idle"}, Goto(h, l),
         NEW lock \in Locks \union {None}, arg' = [arg EXCEPT ![h] = lock],
         NEW c \in Contexts, mine' = [mine EXCEPT ![h] = c]
  PROVE  HandlersOK'
<1>1. c # None
  BY NoneAssumption
<1>2. QED
  BY <1>1 DEF TypeOK, HandlersOK, Goto, Idle

\* A handler that returns keeps the handlers typed.
LEMMA ReturnType ==
  ASSUME TypeOK, NEW h \in Handlers, Return(h)
  PROVE  HandlersOK'
BY DEF TypeOK, HandlersOK, Return, Goto, Idle, Positions

\* A handler inside a method refers to a dictionary.
LEMMA MineIsContext ==
  ASSUME TypeOK, NEW h \in Handlers, ~Idle(h)
  PROVE  mine[h] \in Contexts /\ context[mine[h]] \subseteq Locks
BY DEF TypeOK, HandlersOK

\* Storing locks for a transaction keeps the snapshots typed.
LEMMA StoreType ==
  ASSUME TypeOK, NEW t \in Txns, NEW locks \in SUBSET Locks, Store(t, locks)
  PROVE  /\ DOMAIN context_snapshots' = DOMAIN context_snapshots \union {t}
         /\ DOMAIN context_snapshots' \subseteq Txns
         /\ context_snapshots' \in [DOMAIN context_snapshots' -> SUBSET Locks]
<1>1. \A x \in DOMAIN context_snapshots : context_snapshots[x] \in SUBSET Locks
  BY DEF TypeOK
<1>2. DOMAIN context_snapshots \union {t} \subseteq Txns
  BY DEF TypeOK
<1>3. context_snapshots' \in [DOMAIN context_snapshots \union {t} -> SUBSET Locks]
  BY <1>1 DEF Store
<1>4. QED
  BY <1>2, <1>3

\* What is offered for a transaction is a set of locks.
LEMMA OfferedType ==
  ASSUME TypeOK, NEW t
  PROVE  Offered(t) \subseteq Locks /\ Snapshot(t) \subseteq Locks
BY DEF TypeOK, Offered, Snapshot

--------------------------------------------------------------------------------
\* Every step keeps the types.
LEMMA TypeStep ==
  ASSUME IInv, [Next]_vars
  PROVE  TypeOK'
<1> USE DEF IInv
<1>0. TypeOK
  OBVIOUS
<1>1. ASSUME NEW h \in Handlers, NEW lock \in Locks \union {None}, Trigger(h, lock)
      PROVE  TypeOK'
  <2>1. pressed' \subseteq Locks /\ due' \subseteq Locks
    BY <1>0, <1>1 DEF Trigger, TypeOK
  <2>2. \E c \in Contexts :
          /\ mine' = [mine EXCEPT ![h] = c]
          /\ trigger_lock_context' = c
          /\ context' \in [Contexts -> SUBSET Locks]
    BY <1>0, <1>1 DEF Trigger, Free, TypeOK
  <2>3. HandlersOK'
    BY <1>0, <1>1, <2>2, EnterType DEF Trigger, Positions
  <2>4. QED
    BY <1>0, <1>1, <2>1, <2>2, <2>3 DEF Trigger, TypeOK, capture
<1>2. ASSUME NEW h \in Handlers, NEW lock \in Locks, Release(h, lock)
      PROVE  TypeOK'
  <2>1. pressed' \subseteq Locks /\ due' \subseteq Locks
    BY <1>0, <1>2 DEF Release, TypeOK
  <2>2. context' \in [Contexts -> SUBSET Locks]
    BY <1>0, <1>2 DEF Release, TypeOK
  <2>3. HandlersOK'
    <3>1. CASE trigger_lock_context = None
      BY <1>0, <1>2, <3>1 DEF Release, TypeOK, HandlersOK, handlers, Idle
    <3>2. CASE trigger_lock_context # None
      <4>1. trigger_lock_context \in Contexts
        BY <1>0, <3>2 DEF TypeOK
      <4>2. QED
        BY <1>0, <1>2, <3>2, <4>1, EnterType DEF Release, Positions
    <3>3. QED
      BY <3>1, <3>2
  <2>4. QED
    BY <1>0, <1>2, <2>1, <2>2, <2>3 DEF Release, TypeOK, capture
<1>3. ASSUME NEW h \in Handlers, Merge(h)
      PROVE  TypeOK'
  <2>1. ~Idle(h)
    BY <1>3 DEF Merge, Idle
  <2>2. context' \in [Contexts -> SUBSET Locks]
    BY <1>0, <1>3, <2>1, MineIsContext DEF Merge, TypeOK, HandlersOK
  <2>3. HandlersOK'
    BY <1>0, <1>3, <2>1, GotoType, ReturnType DEF Merge, Positions
  <2>4. QED
    BY <1>0, <1>3, <2>2, <2>3 DEF Merge, TypeOK, capture, history
<1>4. ASSUME NEW h \in Handlers, UpdateSnapshot(h) \/ StoreSnapshot(h)
      PROVE  TypeOK'
  <2>1. ~Idle(h) /\ pc[h] \in {"start", "snap", "update"}
    BY <1>4 DEF UpdateSnapshot, StoreSnapshot, Idle
  <2>2. detecting_txn \in Txns
    BY <1>0, <2>1 DEF SnapshotInv, TypeOK
  <2>3. /\ DOMAIN context_snapshots' \subseteq Txns
        /\ context_snapshots' \in [DOMAIN context_snapshots' -> SUBSET Locks]
    BY <1>0, <1>4, <2>1, <2>2, MineIsContext, StoreType DEF UpdateSnapshot, StoreSnapshot
  <2>4. HandlersOK'
    BY <1>0, <1>4, ReturnType DEF UpdateSnapshot, StoreSnapshot
  <2>5. QED
    BY <1>0, <1>4, <2>3, <2>4 DEF UpdateSnapshot, StoreSnapshot, TypeOK, capture, history
<1>5. ASSUME NEW h \in Handlers, FetchMembers(h)
      PROVE  TypeOK'
  <2>1. HandlersOK'
    BY <1>0, <1>5, GotoType DEF FetchMembers, Idle, Positions
  <2>2. QED
    BY <1>0, <1>5, <2>1 DEF FetchMembers, TypeOK, capture, history
<1>6. ASSUME NEW h \in Handlers, FetchFails(h)
      PROVE  TypeOK'
  <2>1. HandlersOK'
    BY <1>0, <1>6, ReturnType DEF FetchFails
  <2>2. QED
    BY <1>0, <1>6, <2>1 DEF FetchFails, TypeOK, capture, history
<1>7. ASSUME NEW h \in Handlers, FeedDetecting(h)
      PROVE  TypeOK'
  <2>1. HandlersOK'
    BY <1>0, <1>7, GotoType DEF FeedDetecting, Idle, Positions
  <2>2. QED
    BY <1>0, <1>7, <2>1, CaptureType DEF FeedDetecting, TypeOK, history
<1>8. ASSUME NEW h \in Handlers, ShrinkSnapshot(h)
      PROVE  TypeOK'
  <2>1. ~Idle(h)
    BY <1>8 DEF ShrinkSnapshot, Idle
  <2>2. /\ DOMAIN context_snapshots' \subseteq Txns
        /\ context_snapshots' \in [DOMAIN context_snapshots' -> SUBSET Locks]
    <3>1. CASE detecting_txn \in DOMAIN context_snapshots /\ Store(detecting_txn, context[mine[h]])
      <4>1. detecting_txn \in Txns
        BY <1>0, <3>1 DEF TypeOK
      <4>2. QED
        BY <1>0, <2>1, <3>1, <4>1, MineIsContext, StoreType
    <3>2. CASE UNCHANGED context_snapshots
      BY <1>0, <3>2 DEF TypeOK
    <3>3. QED
      BY <1>8, <3>1, <3>2 DEF ShrinkSnapshot
  <2>3. HandlersOK'
    BY <1>0, <1>8, <2>1, GotoType DEF ShrinkSnapshot, Positions
  <2>4. QED
    BY <1>0, <1>8, <2>2, <2>3 DEF ShrinkSnapshot, TypeOK, capture, history
<1>9. ASSUME NEW h \in Handlers, StopEarly(h)
      PROVE  TypeOK'
  <2>1. HandlersOK'
    BY <1>0, <1>9, GotoType, ReturnType DEF StopEarly, Idle, Positions
  <2>2. due' \subseteq Locks
    BY <1>0, <1>9, OnTheWayType DEF StopEarly, Stopped, StopRaises, TypeOK
  <2>3. QED
    BY <1>0, <1>9, <2>1, <2>2, CaptureType DEF StopEarly, TypeOK, history
<1>10. ASSUME NEW h \in Handlers, DeleteContext(h)
       PROVE  TypeOK'
  <2>1. HandlersOK'
    BY <1>0, <1>10, ReturnType DEF DeleteContext
  <2>2. QED
    BY <1>0, <1>10, <2>1 DEF DeleteContext, TypeOK, capture, history
<1>11. ASSUME TakeMessage
       PROVE  TypeOK'
  <2>1. /\ Head(scanner_output_queue) \in Txns /\ scanner_output_queue' \in Seq(Txns)
        /\ Len(scanner_output_queue') <= QueueMax
    BY <1>0, <1>11, QueueAssumption DEF TakeMessage, TypeOK
  <2>2. taken' \in Offers
    BY <1>0, <1>11, <2>1, OfferedType DEF TakeMessage, Offers
  <2>3. /\ DOMAIN context_snapshots' \subseteq Txns
        /\ context_snapshots' \in [DOMAIN context_snapshots' -> SUBSET Locks]
    BY <1>0, <1>11 DEF TakeMessage, Restrict, TypeOK
  <2>4. HandlersOK'
    BY <1>0, <1>11 DEF TakeMessage, TypeOK, HandlersOK, handlers, Idle
  <2>5. QED
    BY <1>0, <1>11, <2>1, <2>2, <2>3, <2>4 DEF TakeMessage, TypeOK, capture, history
<1>12. ASSUME PublishMembers
       PROVE  TypeOK'
  <2>1. HandlersOK'
    BY <1>0, <1>12 DEF PublishMembers, TypeOK, HandlersOK, handlers, Idle
  <2>2. answered' \subseteq Txns
    BY <1>0, <1>12, NoneAssumption DEF PublishMembers, TypeOK, Offers
  <2>3. due' \subseteq Locks
    BY <1>0, <1>12, OnTheWayType DEF PublishMembers, Stopped, StopRaises, TypeOK
  <2>4. QED
    BY <1>0, <1>12, <2>1, <2>2, <2>3, CaptureType DEF PublishMembers, TypeOK
<1>13. ASSUME TimerExpires
       PROVE  TypeOK'
  <2>1. HandlersOK'
    BY <1>0, <1>13 DEF TimerExpires, TypeOK, HandlersOK, handlers, Idle
  <2>2. due' \subseteq Locks
    BY <1>0, <1>13, OnTheWayType DEF TimerExpires, Stopped, StopRaises, TypeOK
  <2>3. QED
    BY <1>0, <1>13, <2>1, <2>2, CaptureType DEF TimerExpires, TypeOK, history
<1>14. ASSUME NEW t \in Txns, Match(t)
       PROVE  TypeOK'
  <2>1. HandlersOK'
    BY <1>0, <1>14 DEF Match, TypeOK, HandlersOK, handlers, Idle
  <2>3. scanner_output_queue' \in Seq(Txns) /\ Len(scanner_output_queue') <= QueueMax
    BY <1>0, <1>14, QueueAssumption DEF Match, TypeOK
  <2>4. QED
    BY <1>0, <1>14, <2>1, <2>3 DEF Match, TypeOK, capture
<1>15. CASE UNCHANGED vars
  BY <1>0, <1>15 DEF vars, capture, handlers, history, TypeOK, HandlersOK, Idle
<1>16. ASSUME NEW h \in Handlers, FeederRaises(h)
       PROVE  TypeOK'
  <2>1. HandlersOK'
    BY <1>0, <1>16, ReturnType DEF FeederRaises
  <2>2. due' \subseteq Locks
    BY <1>0, <1>16, OnTheWayType DEF FeederRaises, TypeOK
  <2>3. QED
    BY <1>0, <1>16, <2>1, <2>2, CaptureType DEF FeederRaises, TypeOK, history
<1>17. QED
  <2>1. Lambda \in Handlers
    BY DEF Handlers
  <2>2. QED
    BY <2>1, <1>1, <1>2, <1>3, <1>4, <1>5, <1>6, <1>7, <1>8, <1>9, <1>10, <1>11,
       <1>12, <1>13, <1>14, <1>15, <1>16 DEF Next, Call, HandlerStep, LoopStep

--------------------------------------------------------------------------------
\* The initial states satisfy the invariant.
LEMMA InitInv == Init => IInv
<1> SUFFICES ASSUME Init PROVE IInv
  OBVIOUS
<1>1. HandlersOK
  BY NoneAssumption DEF Init, HandlersOK, Positions, Idle
<1>2. DOMAIN context_snapshots = {} /\ context_snapshots \in [{} -> SUBSET Locks]
  BY DEF Init
<1>3. scanner_output_queue \in Seq(Txns) /\ Len(scanner_output_queue) <= QueueMax
  BY QueueAssumption DEF Init
<1>4. context \in [Contexts -> SUBSET Locks]
  BY DEF Init
<1>5. TypeOK
  BY <1>1, <1>2, <1>3, <1>4, QueueAssumption DEF Init, TypeOK, Capture!Init
<1>6. SnapshotInv
  <2>1. ~is_feeding /\ \A h \in Handlers : pc[h] = "idle"
    BY DEF Init, Capture!Init
  <2>2. QED
    BY <2>1 DEF SnapshotInv
<1>7. QED
  BY <1>5, <1>6 DEF IInv

\* stop_feeding opens no session, forgets no transaction, and cannot fail
\* without a trace.
LEMMA StopEffect ==
  ASSUME TypeOK, Stopped \/ StopRaises
  PROVE  /\ ~is_feeding' \/ wedged' \/ Feeders # {}
         /\ is_feeding' => is_feeding
         /\ wedged => wedged'
         /\ detecting_txn' = detecting_txn
BY DEF TypeOK, Stopped, StopRaises, EndSession, capture, Capture!Close, Capture!Wedge

\* A handler is about to store a snapshot.
Storer(h) == h \in Feeders \/ pc[h] = "snap"

\* A step that leaves the capture, the snapshots and the loop alone, and in which no
\* handler gives up a store, or is to write one without a session, keeps the invariant.
LEMMA QuietStep ==
  ASSUME IInv, NEW h \in Handlers,
         NEW l, Goto(h, l) \/ (Return(h) /\ l = "idle") \/ (UNCHANGED pc /\ l = pc[h]),
         Storer(h) => l \in {"update", "open", "start", "snap"},
         DOMAIN context_snapshots \subseteq DOMAIN context_snapshots',
         UNCHANGED <<capture, taken>>,
         l \in {"start", "snap", "update"} => is_feeding \/ pc[h] \in {"start", "snap", "update"}
  PROVE  SnapshotInv'
<1>1. pc'[h] = l /\ \A g \in Handlers : g # h => pc'[g] = pc[g]
  BY DEF IInv, TypeOK, HandlersOK, Goto, Return
<1>2. (\E g \in Handlers : Storer(g)) => (\E g \in Handlers : Storer(g)')
  BY <1>1 DEF Storer, Feeders
<1>3. (\E g \in Handlers : pc'[g] \in {"start", "snap", "update"})
        => is_feeding \/ (\E g \in Handlers : pc[g] \in {"start", "snap", "update"})
  BY <1>1
<1>4. QED
  BY <1>2, <1>3 DEF IInv, SnapshotInv, capture, Storer

\* Every step keeps the invariant.
LEMMA SnapshotStep ==
  ASSUME IInv, [Next]_vars
  PROVE  SnapshotInv'
<1>0. TypeOK /\ SnapshotInv
  BY DEF IInv
<1>1. ASSUME NEW h \in Handlers, NEW lock \in Locks \union {None}, Trigger(h, lock)
      PROVE  SnapshotInv'
  BY <1>1, QuietStep DEF Trigger, Idle, Storer, Feeders
<1>2. ASSUME NEW h \in Handlers, NEW lock \in Locks, Release(h, lock)
      PROVE  SnapshotInv'
  <2>1. Goto(h, "shrink") \/ UNCHANGED pc
    BY <1>2 DEF Release, handlers
  <2>2. QED
    BY <1>2, <2>1, QuietStep DEF Release, Idle, Storer, Feeders
<1>3. ASSUME NEW h \in Handlers, Merge(h)
      PROVE  SnapshotInv'
  <2>1. CASE Goto(h, "feed") \/ Return(h)
    BY <1>3, <2>1, QuietStep DEF Merge, Storer, Feeders
  <2>2. CASE is_feeding /\ Goto(h, "update")
    BY <1>3, <2>2, QuietStep DEF Merge, Storer, Feeders
  <2>3. QED
    BY <1>3, <2>1, <2>2 DEF Merge
<1>4. ASSUME NEW h \in Handlers, UpdateSnapshot(h) \/ StoreSnapshot(h)
      PROVE  SnapshotInv'
  <2>1. detecting_txn' = detecting_txn /\ is_feeding' = is_feeding
    BY <1>4 DEF UpdateSnapshot, StoreSnapshot, capture
  <2>2. detecting_txn \in DOMAIN context_snapshots'
    BY <1>4 DEF UpdateSnapshot, StoreSnapshot, Store
  <2>3. detecting_txn # None
    BY <1>0, <1>4 DEF SnapshotInv, UpdateSnapshot, StoreSnapshot
  <2>4. QED
    BY <2>1, <2>2, <2>3 DEF SnapshotInv
<1>5. ASSUME NEW h \in Handlers, FetchMembers(h)
      PROVE  SnapshotInv'
  <2>1. CASE is_feeding /\ Goto(h, "snap")
    BY <1>5, <2>1, QuietStep DEF FetchMembers, Storer, Feeders
  <2>2. CASE Goto(h, "open")
    BY <1>5, <2>2, QuietStep DEF FetchMembers, Storer, Feeders
  <2>3. QED
    BY <1>5, <2>1, <2>2 DEF FetchMembers
<1>6. ASSUME NEW h \in Handlers, FetchFails(h)
      PROVE  SnapshotInv'
  BY <1>6, QuietStep DEF FetchFails, Storer, Feeders
<1>7. ASSUME NEW h \in Handlers, FeedDetecting(h)
      PROVE  SnapshotInv'
  <2>1. h \in Feeders'
    BY <1>0, <1>7 DEF FeedDetecting, Goto, TypeOK, HandlersOK, Feeders
  <2>2. detecting_txn' # None
    BY <1>7, NoneAssumption DEF FeedDetecting, Capture!Open
  <2>3. QED
    BY <2>1, <2>2 DEF SnapshotInv
<1>8. ASSUME NEW h \in Handlers, ShrinkSnapshot(h)
      PROVE  SnapshotInv'
  <2>1. DOMAIN context_snapshots \subseteq DOMAIN context_snapshots'
    BY <1>8 DEF ShrinkSnapshot, Store
  <2>2. QED
    BY <1>8, <2>1, QuietStep DEF ShrinkSnapshot, Storer, Feeders
<1>9. ASSUME NEW h \in Handlers, StopEarly(h)
      PROVE  SnapshotInv'
  <2>1. CASE Stopped \/ StopRaises
    <3>1. \A g \in Handlers : pc'[g] \in {"start", "snap", "update"} => pc[g] \in {"start", "snap", "update"}
      BY <1>0, <1>9 DEF StopEarly, Goto, Return, TypeOK, HandlersOK
    <3>2. \A g \in Handlers : g \in Feeders => g \in Feeders'
      BY <1>0, <1>9 DEF StopEarly, Goto, Return, TypeOK, HandlersOK, Feeders
    <3>3. Feeders \subseteq Handlers
      BY DEF Feeders
    <3>4. QED
      BY <1>0, <2>1, <3>1, <3>2, <3>3, StopEffect DEF SnapshotInv
  <2>2. CASE UNCHANGED capture /\ Return(h)
    BY <1>9, <2>2, QuietStep DEF StopEarly, Storer, Feeders
  <2>3. QED
    BY <1>9, <2>1, <2>2 DEF StopEarly
<1>10. ASSUME NEW h \in Handlers, DeleteContext(h)
       PROVE  SnapshotInv'
  BY <1>10, QuietStep DEF DeleteContext, Storer, Feeders
<1>11. ASSUME TakeMessage
       PROVE  SnapshotInv'
  <2>1. taken' # None
    <3>1. taken' \in Offers
      <4>1. Head(scanner_output_queue) \in Txns
        BY <1>0, <1>11 DEF TakeMessage, TypeOK
      <4>2. QED
        BY <1>0, <1>11, <4>1, OfferedType DEF TakeMessage, Offers
    <3>2. QED
      BY <3>1, NoneAssumption
  <2>2. QED
    BY <1>0, <1>11, <2>1 DEF TakeMessage, SnapshotInv, capture, handlers, Feeders
<1>12. ASSUME PublishMembers \/ TimerExpires
       PROVE  SnapshotInv'
  <2>1. UNCHANGED Feeders /\ Feeders \subseteq Handlers
    BY <1>12 DEF PublishMembers, TimerExpires, handlers, Feeders
  <2>2. QED
    BY <1>0, <1>12, <2>1, StopEffect DEF PublishMembers, TimerExpires, SnapshotInv, handlers
<1>13. ASSUME NEW t \in Txns, Match(t)
       PROVE  SnapshotInv'
  BY <1>0, <1>13 DEF Match, SnapshotInv, capture, handlers, Feeders
<1>14. CASE UNCHANGED vars
  BY <1>0, <1>14 DEF vars, capture, handlers, SnapshotInv, Feeders
<1>15. ASSUME NEW h \in Handlers, FeederRaises(h)
       PROVE  SnapshotInv'
  <2>1. \A g \in Handlers : g # h => pc'[g] = pc[g]
    BY <1>0, <1>15 DEF FeederRaises, Return, Goto, TypeOK, HandlersOK
  <2>2. /\ UNCHANGED <<context_snapshots, taken>> /\ pc'[h] = "idle"
        /\ detecting_txn' = detecting_txn
    BY <1>0, <1>15 DEF FeederRaises, EndSession, capture, Capture!Close, Return, Goto, TypeOK, HandlersOK
  <2>3. CASE Feeders # {h} /\ UNCHANGED capture
    <3>1. PICK g \in Feeders : g # h
      BY <1>15, <2>3 DEF FeederRaises
    <3>2. g \in Feeders'
      BY <2>1, <3>1 DEF Feeders
    <3>3. (\E x \in Handlers : pc'[x] \in {"start", "snap", "update"})
            => (\E x \in Handlers : pc[x] \in {"start", "snap", "update"})
      BY <2>1, <2>2
    <3>4. g \in Handlers
      BY <3>1 DEF Feeders
    <3>5. QED
      BY <1>0, <2>3, <3>2, <3>3, <3>4 DEF SnapshotInv, capture
  <2>4. CASE detecting_txn # None /\ EndSession
    BY <1>0, <2>2, <2>4 DEF SnapshotInv, EndSession, capture, Capture!Close
  <2>5. QED
    BY <1>15, <2>3, <2>4 DEF FeederRaises
<1>16. QED
  <2>1. Lambda \in Handlers
    BY DEF Handlers
  <2>2. QED
    BY <2>1, <1>1, <1>2, <1>3, <1>4, <1>5, <1>6, <1>7, <1>8, <1>9, <1>10, <1>11,
       <1>12, <1>13, <1>14, <1>15 DEF Next, Call, HandlerStep, LoopStep

\* The invariant holds throughout.
THEOREM InvariantHolds == Spec => []IInv
<1>1. IInv /\ [Next]_vars => IInv'
  BY TypeStep, SnapshotStep DEF IInv
<1>2. QED
  BY InitInv, <1>1, PTL DEF Spec

\* The dictionaries of py_handler.py and the handlers' locals keep their types.
THEOREM TypesHold == Spec => []TypeOK
<1>1. IInv => TypeOK
  BY DEF IInv
<1>2. QED
  BY InvariantHolds, <1>1, PTL

\* Unless a stop_feeding met a full queue or a camera without a capture, whenever the camera feeds the snapshot of its
\* transaction is stored, or somebody is about to store it or to stop the session (trigger_face_detection,
\* fetch_scanner_output_queue).
THEOREM SnapshotsAreUnderWay == Spec => []SnapshotInv
<1>1. IInv => SnapshotInv
  BY DEF IInv
<1>2. QED
  BY InvariantHolds, <1>1, PTL

\* However many ONVIF threads trigger, click, release and publish at the same time, a
\* session that runs while no handler does has the snapshot that a face recognised
\* in it will be answered from (trigger_face_detection, fetch_scanner_output_queue).
THEOREM SnapshotsStored == Spec => []SnapshotStored
<1>1. IInv => SnapshotStored
  <2> SUFFICES ASSUME IInv, Settled
               PROVE  detecting_txn \in DOMAIN context_snapshots
    BY DEF SnapshotStored
  <2>1. taken = None /\ ~ \E h \in Handlers : h \in Feeders \/ pc[h] = "snap"
    BY DEF Settled, Quiet, Idle, Feeders
  <2>2. QED
    BY <2>1 DEF IInv, SnapshotInv, Settled
<1>2. QED
  BY InvariantHolds, <1>1, PTL

--------------------------------------------------------------------------------
\* A step that touches neither the queue nor the loop's hand, and withdraws no answer,
\* keeps every pending message.
LEMMA PendingKept ==
  ASSUME PendingInv,
         matched' = matched, answered \subseteq answered',
         UNCHANGED <<scanner_output_queue, taken>>
  PROVE  PendingInv'
BY DEF PendingInv, Pending

\* Every step keeps a message pending until the loop has published or dropped it.
LEMMA PendingStep ==
  ASSUME TypeOK, PendingInv, [Next]_vars
  PROVE  PendingInv'
<1>0. TypeOK /\ PendingInv
  OBVIOUS
<1>1. CASE Call
  <2>1. UNCHANGED <<matched, answered, scanner_output_queue, taken>>
    BY <1>1 DEF Call, Trigger, Release
  <2>2. QED
    BY <1>0, <2>1, PendingKept
<1>2. ASSUME NEW h \in Handlers, HandlerStep(h)
      PROVE  PendingInv'
  <2>1. UNCHANGED <<matched, answered, scanner_output_queue, taken>>
    BY <1>2 DEF HandlerStep, Merge, UpdateSnapshot, FetchMembers, FetchFails,
       FeedDetecting, StoreSnapshot, FeederRaises, ShrinkSnapshot, StopEarly, DeleteContext, history
  <2>2. QED
    BY <1>0, <2>1, PendingKept
<1>3. CASE TakeMessage
  <2> DEFINE q == scanner_output_queue
  <2>1. /\ q \in Seq(Txns) /\ q # <<>>
        /\ q' = Tail(q) /\ taken = None
        /\ taken' = [txn |-> Head(q), locks |-> Offered(Head(q))]
        /\ UNCHANGED <<matched, answered>>
    BY <1>0, <1>3 DEF TakeMessage, TypeOK, history
  <2>2. taken' # None
    <3>1. taken' \in Offers
      BY <1>0, <2>1, OfferedType DEF Offers
    <3>2. QED
      BY <3>1, NoneAssumption
  <2>3. ASSUME NEW t \in matched, Pending(t)
        PROVE  Pending(t)'
    <3>1. PICK i \in 1..Len(q) : q[i] = t
      BY <2>1, <2>3 DEF Pending
    <3>2. CASE i = 1
      BY <2>1, <2>2, <3>1, <3>2 DEF Pending
    <3>3. CASE i # 1
      <4>1. i - 1 \in 1..Len(q') /\ q'[i - 1] = t
        BY <2>1, <3>1, <3>3
      <4>2. QED
        BY <4>1 DEF Pending
    <3>4. QED
      BY <3>2, <3>3
  <2>4. QED
    BY <1>0, <2>1, <2>3 DEF PendingInv
<1>4. CASE PublishMembers
  BY <1>0, <1>4 DEF PublishMembers, PendingInv, Pending
<1>5. CASE TimerExpires
  BY <1>0, <1>5, PendingKept DEF TimerExpires, history
<1>6. ASSUME NEW t \in Txns, Match(t)
      PROVE  PendingInv'
  <2> DEFINE q == scanner_output_queue
  <2>1. /\ q \in Seq(Txns) /\ q' = Append(q, t)
        /\ matched' = matched \union {t}
        /\ UNCHANGED <<answered, taken>>
    BY <1>0, <1>6 DEF Match, TypeOK
  <2>2. q'[Len(q')] = t /\ Len(q') \in 1..Len(q')
    BY <2>1
  <2>3. \A i \in 1..Len(q) : i \in 1..Len(q') /\ q'[i] = q[i]
    BY <2>1
  <2>4. \A x \in matched' : x = t \/ x \in matched
    BY <2>1
  <2>5. Pending(t)'
    BY <2>2 DEF Pending
  <2>6. \A x : Pending(x) => Pending(x)'
    BY <2>1, <2>3 DEF Pending
  <2>7. QED
    BY <1>0, <2>1, <2>4, <2>5, <2>6 DEF PendingInv
<1>7. CASE UNCHANGED vars
  BY <1>0, <1>7, PendingKept DEF vars, history
<1>8. QED
  BY <1>1, <1>2, <1>3, <1>4, <1>5, <1>6, <1>7 DEF Next, LoopStep

\* However handlers, timer and detector interleave, the output loop publishes every
\* session in which a face was recognised, unless an exception on its own way drops the
\* message: of its stop_feeding, the upload or the publication (the member_detected
\* branch of fetch_scanner_output_queue).
THEOREM NothingIsLost == Spec => []NothingLost
<1>1. Init => PendingInv
  BY DEF Init, PendingInv
<1>2. TypeOK /\ PendingInv /\ [Next]_vars => PendingInv'
  BY PendingStep
<1>3. TypeOK /\ PendingInv => NothingLost
  <2> SUFFICES ASSUME PendingInv, scanner_output_queue = <<>>, taken = None
               PROVE  matched \subseteq answered
    BY DEF NothingLost
  <2>1. \A t : ~Pending(t)
    BY DEF Pending
  <2>2. QED
    BY <2>1 DEF PendingInv
<1>4. QED
  BY <1>1, <1>2, <1>3, TypesHold, PTL DEF Spec

(***************************************************************************)
(* What the camera offers while no two handlers overlap, and no handler    *)
(* and the output loop (MCDetectionContext). The timer and the detector    *)
(* still come at any moment, in the middle of a handler too.               *)
(***************************************************************************)

\* The one handler at work holds the camera's context. Its click has been pressed, and
\* is in the context once it is merged; a handler on its way to feed_detecting has
\* found no session, and none begins but its own.
AtWork(h) ==
  /\ mine[h] = trigger_lock_context
  /\ pc[h] \in {"feed", "open", "delete"} => ~is_feeding
  /\ pc[h] \in {"merge", "update", "feed", "open", "start", "snap"} => {arg[h]} \ {None} \subseteq pressed
  /\ pc[h] \in {"update", "feed", "open", "start", "snap"} => {arg[h]} \ {None} \subseteq context[mine[h]]

Working == \A h \in Handlers : Idle(h) \/ AtWork(h)

\* A context has no lock that was released, and without a session only clicks on their
\* way are owed an answer.
Pressed == trigger_lock_context # None => context[trigger_lock_context] \subseteq pressed

Owed == is_feeding \/ due \subseteq OnTheWay

\* While a session runs the camera has a context with every click that is not on its
\* way, and the session's snapshot is the context but for the moments in which a
\* handler is about to store it.
Storing == \E h \in Handlers : pc[h] \in {"update", "start", "snap", "shrink"}

Snaps(h) == pc[h] \in {"start", "snap"}

Running ==
  is_feeding /\ ~wedged /\ taken = None =>
    /\ trigger_lock_context # None
    /\ due \ OnTheWay \subseteq context[trigger_lock_context]
    /\ detecting_txn \in DOMAIN context_snapshots \/ \E h \in Handlers : Snaps(h)
    /\ ~Storing => Snapshot(detecting_txn) = context[trigger_lock_context]

\* A session has a snapshot until its first message is taken, but for the moment between
\* feed_detecting and the store.
Stored(t) ==
  \/ t \in DOMAIN context_snapshots
  \/ t \in answered
  \/ taken # None /\ taken.txn = t
  \/ t = detecting_txn /\ \E h \in Handlers : Snaps(h)

Locking == Working /\ Pressed /\ Owed /\ Running

Messages ==
  /\ \A i \in 1..Len(scanner_output_queue) : scanner_output_queue[i] \in issued
  /\ \A t \in issued : Stored(t)

SerialInv == OneAtATime /\ Locking /\ Messages

Clicks(h) == {arg[h]} \ {None}

\* The clicks on their way are those of the one handler at work.
LEMMA WayOfOne ==
  ASSUME NEW p, NEW a, NEW h \in Handlers, \A g \in Handlers : g = h \/ p[g] = "idle"
  PROVE  {a[g] : g \in {x \in Handlers : p[x] \in {"merge", "feed", "open"}}} \ {None}
           = IF p[h] \in {"merge", "feed", "open"} THEN {a[h]} \ {None} ELSE {}
OBVIOUS

\* With all handlers idle no click is on its way.
LEMMA WayOfNone ==
  ASSUME \A g \in Handlers : Idle(g)
  PROVE  OnTheWay = {}
BY DEF OnTheWay, Idle

\* A handler at work is alone.
LEMMA Alone ==
  ASSUME OneAtATime, NEW h \in Handlers, ~Idle(h)
  PROVE  /\ taken = None
         /\ \A g \in Handlers : g = h \/ Idle(g)
         /\ OnTheWay = IF pc[h] \in {"merge", "feed", "open"} THEN Clicks(h) ELSE {}
<1>1. taken = None /\ \A g \in Handlers : g = h \/ Idle(g)
  BY DEF OneAtATime
<1>2. \A g \in Handlers : g = h \/ pc[g] = "idle"
  BY <1>1 DEF Idle
<1>3. QED
  BY <1>1, <1>2, WayOfOne DEF OnTheWay, Clicks

\* It stays alone as it goes on.
LEMMA GoesOn ==
  ASSUME TypeOK, OneAtATime, NEW h \in Handlers, ~Idle(h),
         NEW l, Goto(h, l), UNCHANGED <<arg, mine>>
  PROVE  /\ pc'[h] = l
         /\ \A g \in Handlers : g = h \/ Idle(g)'
         /\ OnTheWay' = IF l \in {"merge", "feed", "open"} THEN Clicks(h) ELSE {}
<1>1. pc'[h] = l /\ \A g \in Handlers : g = h \/ pc'[g] = "idle"
  BY Alone DEF TypeOK, HandlersOK, Goto, Idle
<1>2. OnTheWay' = IF pc'[h] \in {"merge", "feed", "open"} THEN {arg'[h]} \ {None} ELSE {}
  BY <1>1, WayOfOne DEF OnTheWay
<1>3. QED
  BY <1>1, <1>2 DEF Idle, Clicks

\* When it returns nobody is left.
LEMMA NobodyLeft ==
  ASSUME TypeOK, OneAtATime, NEW h \in Handlers, ~Idle(h), Return(h)
  PROVE  (\A g \in Handlers : Idle(g)') /\ OnTheWay' = {}
<1>1. \A g \in Handlers : Idle(g)'
  BY Alone DEF TypeOK, HandlersOK, Return, Goto, Idle
<1>2. QED
  BY <1>1 DEF OnTheWay, Idle

\* A handler enters when nobody is at work.
LEMMA Enters ==
  ASSUME TypeOK, OneAtATime', NEW h \in Handlers, Idle(h), NEW l, l # "idle", Goto(h, l),
         UNCHANGED taken
  PROVE  /\ pc'[h] = l /\ taken = None
         /\ \A g \in Handlers : Idle(g) /\ (g = h \/ Idle(g)')
         /\ OnTheWay = {}
         /\ OnTheWay' = IF l \in {"merge", "feed", "open"} THEN Clicks(h)' ELSE {}
<1>1. pc'[h] = l /\ \A g \in Handlers : g = h \/ pc'[g] = pc[g]
  BY DEF TypeOK, HandlersOK, Goto
<1>2. taken' = None /\ \A g \in Handlers : g = h \/ Idle(g)'
  BY <1>1 DEF OneAtATime, Idle
<1>3. \A g \in Handlers : Idle(g)
  BY <1>1, <1>2 DEF Idle
<1>4. OnTheWay' = IF pc'[h] \in {"merge", "feed", "open"} THEN {arg'[h]} \ {None} ELSE {}
  BY <1>2, WayOfOne DEF OnTheWay, Idle
<1>5. QED
  BY <1>1, <1>2, <1>3, <1>4, WayOfNone DEF Clicks

\* What is stored for the capture's transaction is its snapshot.
LEMMA StoreEffect ==
  ASSUME NEW locks, Store(detecting_txn, locks), UNCHANGED detecting_txn
  PROVE  /\ detecting_txn' \in DOMAIN context_snapshots'
         /\ Snapshot(detecting_txn)' = locks
BY DEF Store, Snapshot

--------------------------------------------------------------------------------
(* Each step keeps Locking. *)

LEMMA TriggerLocking ==
  ASSUME TypeOK, TypeOK', Locking, OneAtATime', NEW h \in Handlers,
         NEW lock \in Locks \union {None}, Trigger(h, lock)
  PROVE  Locking'
<1>1. /\ pc'[h] = "merge" /\ taken = None /\ UNCHANGED taken
      /\ \A g \in Handlers : Idle(g) /\ (g = h \/ Idle(g)')
      /\ OnTheWay = {} /\ OnTheWay' = Clicks(h)'
  BY Enters DEF Trigger
<1>2. Clicks(h)' = {lock} \ {None}
  BY DEF Trigger, Clicks, TypeOK, HandlersOK
<1>3. /\ pressed' = pressed \union Clicks(h)' /\ due' = due \union Clicks(h)'
      /\ UNCHANGED <<is_feeding, wedged, detecting_txn, context_snapshots>>
  BY <1>2 DEF Trigger, capture
<1>4. CASE /\ trigger_lock_context # None /\ is_feeding
           /\ mine'[h] = trigger_lock_context
           /\ UNCHANGED <<context, trigger_lock_context>>
  <2>1. Working'
    BY <1>1, <1>3, <1>4 DEF Working, AtWork, Clicks
  <2>2. Pressed'
    BY <1>3, <1>4 DEF Locking, Pressed
  <2>3. Owed'
    BY <1>3, <1>4 DEF Owed
  <2>4. Running'
    BY <1>1, <1>3, <1>4 DEF Locking, Running, Storing, Snaps, Idle, Snapshot
  <2>6. QED
    BY <2>1, <2>2, <2>3, <2>4 DEF Locking
<1>5. CASE /\ trigger_lock_context = None \/ ~is_feeding
           /\ trigger_lock_context' \in Contexts
           /\ context'[trigger_lock_context'] = {}
           /\ mine'[h] = trigger_lock_context'
  <2>1. Working'
    BY <1>1, <1>3, <1>5 DEF Working, AtWork, Clicks
  <2>2. Pressed'
    BY <1>5 DEF Pressed
  <2>3. Owed'
    BY <1>1, <1>3 DEF Locking, Owed
  <2>4. Running'
    BY <1>1, <1>3, <1>5 DEF Locking, Running
  <2>5. QED
    BY <2>1, <2>2, <2>3, <2>4 DEF Locking
<1>6. QED
  BY <1>4, <1>5 DEF Trigger, Free, TypeOK, HandlersOK

\* A handler at work has the camera's context in its hand.
LEMMA InHand ==
  ASSUME TypeOK, Working, NEW h \in Handlers, ~Idle(h)
  PROVE  /\ AtWork(h) /\ mine[h] = trigger_lock_context
         /\ trigger_lock_context \in Contexts /\ trigger_lock_context # None
BY NoneAssumption DEF TypeOK, HandlersOK, Working, AtWork

LEMMA ReleaseLocking ==
  ASSUME TypeOK, TypeOK', Locking, OneAtATime', NEW h \in Handlers,
         NEW lock \in Locks, Release(h, lock)
  PROVE  Locking'
<1>1. /\ pressed' = pressed \ {lock} /\ due' = due \ {lock}
      /\ UNCHANGED <<is_feeding, wedged, detecting_txn, context_snapshots,
                     trigger_lock_context, taken>>
  BY DEF Release, capture
<1>2. CASE trigger_lock_context = None /\ UNCHANGED <<context, handlers>>
  <2>1. \A g \in Handlers : Idle(g) /\ Idle(g)'
    BY <1>2, InHand DEF Locking, Idle, handlers
  <2>2. UNCHANGED OnTheWay
    BY <1>2 DEF OnTheWay, handlers
  <2>3. Working' /\ Pressed'
    BY <1>1, <1>2, <2>1 DEF Working, Pressed
  <2>4. Owed'
    BY <1>1, <2>2 DEF Locking, Owed
  <2>5. Running'
    BY <1>1, <1>2 DEF Locking, Running
  <2>6. QED
    BY <2>3, <2>4, <2>5 DEF Locking
<1>3. CASE /\ trigger_lock_context # None
           /\ context' = [context EXCEPT ![trigger_lock_context] = @ \ {lock}]
           /\ Goto(h, "shrink")
           /\ mine' = [mine EXCEPT ![h] = trigger_lock_context]
  <2>1. /\ pc'[h] = "shrink" /\ taken = None
        /\ \A g \in Handlers : Idle(g) /\ (g = h \/ Idle(g)')
        /\ OnTheWay = {} /\ OnTheWay' = {}
    BY <1>1, <1>3, Enters DEF Release
  <2>2. context'[trigger_lock_context'] = context[trigger_lock_context] \ {lock}
    BY <1>1, <1>3 DEF TypeOK
  <2>3. mine'[h] = trigger_lock_context'
    BY <1>1, <1>3 DEF TypeOK, HandlersOK
  <2>4. Working'
    BY <2>1, <2>3 DEF Working, AtWork
  <2>5. Pressed'
    BY <1>1, <1>3, <2>2 DEF Locking, Pressed
  <2>6. Owed'
    BY <1>1, <2>1 DEF Locking, Owed
  <2>7. Running'
    <3>1. Storing' /\ ~\E g \in Handlers : Snaps(g)
      BY <2>1 DEF Storing, Snaps, Idle
    <3>2. QED
      BY <1>1, <1>3, <2>1, <2>2, <3>1 DEF Locking, Running
  <2>8. QED
    BY <2>4, <2>5, <2>6, <2>7 DEF Locking
<1>4. QED
  BY <1>2, <1>3 DEF Release

LEMMA MergeLocking ==
  ASSUME TypeOK, Locking, OneAtATime, NEW h \in Handlers, Merge(h)
  PROVE  Locking'
<1>1. /\ pc[h] = "merge" /\ ~Idle(h)
      /\ UNCHANGED <<is_feeding, wedged, detecting_txn, context_snapshots,
                     trigger_lock_context, taken, pressed, due>>
  BY DEF Merge, Idle, capture, history
<1>2. /\ taken = None /\ \A g \in Handlers : g = h \/ Idle(g)
      /\ OnTheWay = Clicks(h)
  BY <1>1, Alone
<1>3. /\ AtWork(h) /\ mine[h] = trigger_lock_context
      /\ trigger_lock_context \in Contexts /\ trigger_lock_context # None
  BY <1>1, InHand DEF Locking
<1>4. /\ Clicks(h) \subseteq pressed
      /\ context'[trigger_lock_context] = context[trigger_lock_context] \union Clicks(h)
  BY <1>1, <1>3 DEF Merge, AtWork, Clicks, TypeOK
<1>5. Pressed'
  BY <1>1, <1>3, <1>4 DEF Locking, Pressed
<1>6. ~Storing /\ ~\E g \in Handlers : Snaps(g)
  BY <1>1, <1>2 DEF Storing, Snaps, Idle
<1>7. CASE ~is_feeding /\ Goto(h, "feed") /\ UNCHANGED <<arg, mine>>
  <2>1. /\ pc'[h] = "feed" /\ \A g \in Handlers : g = h \/ Idle(g)'
        /\ OnTheWay' = Clicks(h)
    BY <1>1, <1>7, GoesOn
  <2>2. Working'
    BY <1>1, <1>3, <1>4, <1>7, <2>1 DEF Working, AtWork, Clicks
  <2>3. Owed' /\ Running'
    BY <1>1, <1>2, <1>7, <2>1 DEF Locking, Owed, Running
  <2>4. QED
    BY <1>5, <2>2, <2>3 DEF Locking
<1>8. CASE is_feeding /\ Goto(h, "update") /\ UNCHANGED <<arg, mine>>
  <2>1. /\ pc'[h] = "update" /\ \A g \in Handlers : g = h \/ Idle(g)'
        /\ OnTheWay' = {}
    BY <1>1, <1>8, GoesOn
  <2>2. Working'
    BY <1>1, <1>3, <1>4, <1>8, <2>1 DEF Working, AtWork, Clicks
  <2>3. Owed'
    BY <1>1, <1>8 DEF Owed
  <2>4. Storing'
    BY <2>1 DEF Storing
  <2>5. Running'
    BY <1>1, <1>2, <1>3, <1>4, <1>6, <2>1, <2>4 DEF Locking, Running
  <2>6. QED
    BY <1>5, <2>2, <2>3, <2>5 DEF Locking
<1>9. CASE is_feeding /\ arg[h] = None /\ Return(h)
  <2>1. (\A g \in Handlers : Idle(g)') /\ OnTheWay' = {}
    BY <1>1, <1>9, NobodyLeft
  <2>2. Clicks(h) = {}
    BY <1>9 DEF Clicks
  <2>3. Working' /\ Owed'
    BY <1>1, <1>9, <2>1 DEF Working, Owed
  <2>4. Running'
    BY <1>1, <1>2, <1>4, <1>6, <2>1, <2>2 DEF Locking, Running, Snapshot
  <2>5. QED
    BY <1>5, <2>3, <2>4 DEF Locking
<1>10. QED
  BY <1>7, <1>8, <1>9 DEF Merge

LEMMA StoreLocking ==
  ASSUME TypeOK, Locking, OneAtATime, NEW h \in Handlers,
         UpdateSnapshot(h) \/ StoreSnapshot(h)
  PROVE  Locking'
<1>1. /\ pc[h] \in {"update", "start", "snap"} /\ ~Idle(h) /\ Return(h)
      /\ Store(detecting_txn, context[mine[h]])
      /\ UNCHANGED <<is_feeding, wedged, detecting_txn, context,
                     trigger_lock_context, taken, pressed, due>>
  BY DEF UpdateSnapshot, StoreSnapshot, Idle, capture, history
<1>2. taken = None /\ OnTheWay = {}
  BY <1>1, Alone
<1>3. mine[h] = trigger_lock_context
  BY <1>1, InHand DEF Locking
<1>4. (\A g \in Handlers : Idle(g)') /\ OnTheWay' = {}
  BY <1>1, NobodyLeft
<1>5. Working' /\ Pressed' /\ Owed'
  BY <1>1, <1>2, <1>4 DEF Locking, Working, Pressed, Owed
<1>6. /\ detecting_txn' \in DOMAIN context_snapshots'
      /\ Snapshot(detecting_txn)' = context[trigger_lock_context]
  BY <1>1, <1>3, StoreEffect
<1>7. Running'
  BY <1>1, <1>2, <1>4, <1>6 DEF Locking, Running
<1>8. QED
  BY <1>5, <1>7 DEF Locking

LEMMA FetchLocking ==
  ASSUME TypeOK, Locking, OneAtATime, NEW h \in Handlers, FetchMembers(h) \/ FetchFails(h)
  PROVE  Locking'
<1>1. /\ pc[h] = "feed" /\ ~Idle(h)
      /\ UNCHANGED <<is_feeding, context, trigger_lock_context, taken, pressed>>
  BY DEF FetchMembers, FetchFails, Idle, capture, history
<1>2. OnTheWay = Clicks(h)
  BY <1>1, Alone
<1>3. AtWork(h) /\ ~is_feeding
  BY <1>1, InHand DEF Locking, AtWork
<1>4. Pressed' /\ Running'
  BY <1>1, <1>3 DEF Locking, Pressed, Running
<1>5. CASE FetchMembers(h)
  <2>1. Goto(h, "open") /\ UNCHANGED <<arg, mine, due>>
    BY <1>3, <1>5 DEF FetchMembers
  <2>2. /\ pc'[h] = "open" /\ \A g \in Handlers : g = h \/ Idle(g)'
        /\ OnTheWay' = Clicks(h)
    BY <1>1, <2>1, GoesOn
  <2>3. Working'
    BY <1>1, <1>3, <2>1, <2>2 DEF Working, AtWork
  <2>4. Owed'
    BY <1>1, <1>2, <1>3, <2>1, <2>2 DEF Locking, Owed
  <2>5. QED
    BY <1>4, <2>3, <2>4 DEF Locking
<1>6. CASE FetchFails(h)
  <2>1. Return(h) /\ due' = due \ {arg[h]}
    BY <1>6 DEF FetchFails
  <2>2. (\A g \in Handlers : Idle(g)') /\ OnTheWay' = {}
    BY <1>1, <2>1, NobodyLeft
  <2>3. due' = {}
    BY <1>2, <1>3, <2>1 DEF Locking, Owed, Clicks
  <2>4. Working' /\ Owed'
    BY <2>2, <2>3 DEF Working, Owed
  <2>5. QED
    BY <1>4, <2>4 DEF Locking
<1>7. QED
  BY <1>5, <1>6

LEMMA FeedLocking ==
  ASSUME TypeOK, Locking, OneAtATime, NEW h \in Handlers, FeedDetecting(h)
  PROVE  Locking'
<1>1. /\ pc[h] = "open" /\ ~Idle(h) /\ is_feeding'
      /\ Goto(h, "start") /\ UNCHANGED <<arg, mine>>
      /\ UNCHANGED <<context, trigger_lock_context, taken, pressed, due>>
  BY DEF FeedDetecting, Idle, Capture!Open, history
<1>2. OnTheWay = Clicks(h)
  BY <1>1, Alone
<1>3. /\ AtWork(h) /\ ~is_feeding /\ mine[h] = trigger_lock_context
      /\ trigger_lock_context # None /\ Clicks(h) \subseteq context[trigger_lock_context]
  BY <1>1, InHand DEF Locking, AtWork, Clicks
<1>4. /\ pc'[h] = "start" /\ \A g \in Handlers : g = h \/ Idle(g)'
  BY <1>1, GoesOn
<1>5. Working'
  BY <1>1, <1>3, <1>4 DEF Working, AtWork
<1>6. Pressed' /\ Owed'
  BY <1>1 DEF Locking, Pressed, Owed
<1>7. Storing'
  BY <1>4 DEF Storing
<1>8. Running'
  BY <1>1, <1>2, <1>3, <1>4, <1>7 DEF Locking, Owed, Running, Snaps
<1>9. QED
  BY <1>5, <1>6, <1>8 DEF Locking

LEMMA ShrinkLocking ==
  ASSUME TypeOK, Locking, OneAtATime, NEW h \in Handlers, ShrinkSnapshot(h)
  PROVE  Locking'
<1>1. /\ pc[h] = "shrink" /\ ~Idle(h)
      /\ Goto(h, "quit") /\ UNCHANGED <<arg, mine>>
      /\ UNCHANGED <<is_feeding, wedged, detecting_txn, context, trigger_lock_context,
                     taken, pressed, due>>
  BY DEF ShrinkSnapshot, Idle, capture, history
<1>2. (\A g \in Handlers : g = h \/ Idle(g)) /\ OnTheWay = {}
  BY <1>1, Alone
<1>3. AtWork(h) /\ mine[h] = trigger_lock_context
  BY <1>1, InHand DEF Locking
<1>4. /\ pc'[h] = "quit" /\ OnTheWay' = {}
      /\ \A g \in Handlers : g = h \/ Idle(g)'
  BY <1>1, GoesOn
<1>5. Working'
  BY <1>1, <1>3, <1>4 DEF Working, AtWork
<1>6. Pressed' /\ Owed'
  BY <1>1, <1>2, <1>4 DEF Locking, Pressed, Owed
<1>7. CASE Store(detecting_txn, context[mine[h]])
  <2>1. /\ detecting_txn' \in DOMAIN context_snapshots'
        /\ Snapshot(detecting_txn)' = context[trigger_lock_context]
    BY <1>1, <1>3, <1>7, StoreEffect
  <2>2. Running'
    BY <1>1, <1>2, <1>4, <2>1 DEF Locking, Running
  <2>3. QED
    BY <1>5, <1>6, <2>2 DEF Locking
<1>8. CASE detecting_txn \notin DOMAIN context_snapshots
  <2>1. ~\E g \in Handlers : Snaps(g)
    BY <1>1, <1>2 DEF Snaps, Idle
  <2>2. Running'
    BY <1>1, <1>8, <2>1 DEF Locking, Running
  <2>3. QED
    BY <1>5, <1>6, <2>2 DEF Locking
<1>9. QED
  BY <1>7, <1>8 DEF ShrinkSnapshot

\* What a stop leaves: no session and only clicks on their way, or a session that cannot
\* end, or everything as it was.
LEMMA Stops ==
  ASSUME TypeOK, Stopped \/ StopRaises
  PROVE  /\ \/ ~is_feeding' /\ due' = OnTheWay
            \/ wedged' /\ UNCHANGED <<is_feeding, due>>
            \/ Feeders # {} /\ UNCHANGED <<capture, due>>
         /\ UNCHANGED <<issued, detecting_txn>>
BY DEF Stopped, StopRaises, EndSession, TypeOK, capture, Capture!Close, Capture!Wedge

LEMMA StopEarlyLocking ==
  ASSUME TypeOK, Locking, OneAtATime, NEW h \in Handlers, StopEarly(h)
  PROVE  Locking'
<1>1. /\ pc[h] = "quit" /\ ~Idle(h)
      /\ UNCHANGED <<context, trigger_lock_context, context_snapshots, taken, pressed>>
  BY DEF StopEarly, Idle, history
<1>2. (\A g \in Handlers : g = h \/ Idle(g)) /\ OnTheWay = {}
  BY <1>1, Alone
<1>3. AtWork(h)
  BY <1>1, InHand DEF Locking
<1>4. Pressed'
  BY <1>1 DEF Locking, Pressed
<1>5. CASE Stopped /\ Goto(h, "delete") /\ UNCHANGED <<arg, mine>>
  <2>1. ~is_feeding' /\ due' = {}
    BY <1>2, <1>5 DEF Stopped, EndSession, TypeOK, capture, Capture!Close
  <2>2. pc'[h] = "delete" /\ \A g \in Handlers : g = h \/ Idle(g)'
    BY <1>1, <1>5, GoesOn
  <2>3. Working'
    BY <1>1, <1>3, <1>5, <2>1, <2>2 DEF Working, AtWork
  <2>4. Owed' /\ Running'
    BY <2>1 DEF Owed, Running
  <2>5. QED
    BY <1>4, <2>3, <2>4 DEF Locking
<1>6. CASE (StopRaises \/ Stopped) /\ Return(h)
  <2>0. Feeders = {}
    BY <1>1, <1>2 DEF Feeders, Idle
  <2>1. \/ ~is_feeding' /\ due' = {}
        \/ wedged' /\ UNCHANGED <<is_feeding, due>>
    BY <1>2, <1>6, <2>0, Stops
  <2>2. (\A g \in Handlers : Idle(g)') /\ OnTheWay' = {}
    BY <1>1, <1>6, NobodyLeft
  <2>3. Working' /\ Owed' /\ Running'
    BY <1>2, <2>1, <2>2 DEF Locking, Working, Owed, Running
  <2>4. QED
    BY <1>4, <2>3 DEF Locking
<1>7. CASE Return(h) /\ UNCHANGED <<capture, due>>
  <2>1. (\A g \in Handlers : Idle(g)') /\ OnTheWay' = {}
    BY <1>1, <1>7, NobodyLeft
  <2>2. Working' /\ Owed'
    BY <1>2, <1>7, <2>1 DEF Locking, Working, Owed, capture
  <2>3. ~Storing /\ ~\E g \in Handlers : Snaps(g)
    BY <1>1, <1>2 DEF Storing, Snaps, Idle
  <2>4. Running'
    BY <1>1, <1>2, <1>7, <2>1, <2>3 DEF Locking, Running, Snapshot, capture
  <2>5. QED
    BY <1>4, <2>2, <2>4 DEF Locking
<1>8. QED
  BY <1>5, <1>6, <1>7 DEF StopEarly

LEMMA DeleteLocking ==
  ASSUME TypeOK, Locking, OneAtATime, NEW h \in Handlers, DeleteContext(h)
  PROVE  Locking'
<1>1. /\ pc[h] = "delete" /\ ~Idle(h) /\ Return(h) /\ trigger_lock_context' = None
      /\ UNCHANGED <<is_feeding, due>>
  BY DEF DeleteContext, Idle, capture
<1>2. OnTheWay = {}
  BY <1>1, Alone
<1>3. ~is_feeding
  BY <1>1, InHand DEF Locking, AtWork
<1>4. (\A g \in Handlers : Idle(g)') /\ OnTheWay' = {}
  BY <1>1, NobodyLeft
<1>5. QED
  BY <1>1, <1>2, <1>3, <1>4 DEF Locking, Working, Pressed, Owed, Running

\* The loop's message is at hand when it has taken one.
LEMMA Taken ==
  ASSUME TypeOK, TakeMessage
  PROVE  taken' # None
<1>1. Head(scanner_output_queue) \in Txns
  BY DEF TakeMessage, TypeOK
<1>2. taken' \in Offers
  BY <1>1, OfferedType DEF TakeMessage, Offers
<1>3. QED
  BY <1>2, NoneAssumption

\* The loop and the timer.
LEMMA LoopLocking ==
  ASSUME TypeOK, Locking, OneAtATime, OneAtATime',
         TakeMessage \/ PublishMembers \/ TimerExpires
  PROVE  Locking'
<1>1. CASE TakeMessage
  <2>1. /\ taken' # None /\ trigger_lock_context' = None
        /\ UNCHANGED <<is_feeding, due, pc, arg>>
    BY <1>1, Taken DEF TakeMessage, capture, handlers
  <2>2. \A g \in Handlers : Idle(g)'
    BY <2>1 DEF OneAtATime
  <2>3. UNCHANGED OnTheWay
    BY <2>1 DEF OnTheWay
  <2>4. QED
    BY <2>1, <2>2, <2>3 DEF Locking, Working, Pressed, Owed, Running
<1>2. CASE PublishMembers \/ TimerExpires
  <2>1. /\ Stopped \/ StopRaises
        /\ UNCHANGED <<context, trigger_lock_context, pc, arg, mine, pressed>>
    BY <1>2 DEF PublishMembers, TimerExpires, handlers, history
  <2>2. UNCHANGED OnTheWay
    BY <2>1 DEF OnTheWay
  <2>3. \/ ~is_feeding' /\ due' = OnTheWay
        \/ wedged' /\ UNCHANGED <<is_feeding, due>>
        \/ Feeders # {} /\ UNCHANGED <<capture, due>>
    BY <2>1, Stops
  <2>4. Pressed' /\ Owed'
    BY <2>1, <2>2, <2>3 DEF Locking, Pressed, Owed, capture
  <2>8. Running'
    <3>1. CASE ~is_feeding' \/ wedged'
      BY <3>1 DEF Running
    <3>2. CASE Feeders # {} /\ UNCHANGED <<capture, due>>
      <4>1. PICK h \in Handlers : ~Idle(h)
        BY <3>2 DEF Feeders, Idle
      <4>2. taken = None
        BY <4>1, Alone
      <4>3. UNCHANGED <<context_snapshots, taken>>
        BY <1>2, <4>2 DEF PublishMembers, TimerExpires
      <4>4. UNCHANGED <<OnTheWay, Storing>> /\ Snapshot(detecting_txn)' = Snapshot(detecting_txn)
        BY <2>1, <2>2, <3>2, <4>3 DEF Storing, Snapshot, capture
      <4>5. QED
        BY <2>1, <3>2, <4>3, <4>4 DEF Locking, Running, Snaps, capture
    <3>3. QED
      BY <2>3, <3>1, <3>2
  <2>5. ~is_feeding => ~is_feeding'
    BY <2>1, StopEffect
  <2>6. Working'
    BY <2>1, <2>5 DEF Locking, Working, AtWork, Idle
  <2>7. QED
    BY <2>4, <2>6, <2>8 DEF Locking
<1>3. QED
  BY <1>1, <1>2

\* Each step that leaves the handlers alone one at a time, and raises in none of them,
\* keeps Locking.
LEMMA LockingStep ==
  ASSUME TypeOK, TypeOK', Locking, OneAtATime, OneAtATime', [Next]_vars,
         ~\E h \in Handlers : FeederRaises(h)
  PROVE  Locking'
<1>1. CASE Call
  <2>1. Lambda \in Handlers
    BY DEF Handlers
  <2>2. QED
    BY <1>1, <2>1, TriggerLocking, ReleaseLocking DEF Call
<1>2. ASSUME NEW h \in Handlers, HandlerStep(h)
      PROVE  Locking'
  BY <1>2, MergeLocking, StoreLocking, FetchLocking, FeedLocking, ShrinkLocking,
     StopEarlyLocking, DeleteLocking DEF HandlerStep
<1>3. CASE LoopStep \/ TimerExpires
  BY <1>3, LoopLocking DEF LoopStep
<1>4. CASE (\E t \in Txns : Match(t)) \/ UNCHANGED vars
  <2>1. UNCHANGED <<is_feeding, detecting_txn, wedged, context, trigger_lock_context,
                    context_snapshots, pc, arg, mine, taken, due, pressed>>
    BY <1>4 DEF Match, vars, capture, handlers, history
  <2>2. UNCHANGED <<OnTheWay, Storing>> /\ Snapshot(detecting_txn)' = Snapshot(detecting_txn)
    BY <2>1 DEF OnTheWay, Storing, Snapshot
  <2>3. QED
    BY <2>1, <2>2 DEF Locking, Working, AtWork, Idle, Pressed, Owed, Running, Snaps
<1>5. QED
  BY <1>1, <1>2, <1>3, <1>4 DEF Next

--------------------------------------------------------------------------------
(* Each step keeps Messages. *)

\* A step that takes no snapshot and no answer away and leaves the queue, the loop and the
\* sessions alone, and after which a handler that was about to store a snapshot still is.
LEMMA MessagesKept ==
  ASSUME Messages, UNCHANGED <<scanner_output_queue, taken, answered, issued, detecting_txn>>,
         DOMAIN context_snapshots \subseteq DOMAIN context_snapshots',
         (\E h \in Handlers : Snaps(h)) =>
           (\E h \in Handlers : Snaps(h)') \/ detecting_txn \in DOMAIN context_snapshots'
  PROVE  Messages'
BY DEF Messages, Stored

LEMMA CallMessages ==
  ASSUME TypeOK, Messages, Call
  PROVE  Messages'
<1>1. PICK h \in Handlers : Idle(h) /\ \A g \in Handlers : g # h => pc'[g] = pc[g]
  BY DEF Call, Trigger, Release, Handlers, Goto, handlers, TypeOK, HandlersOK
<1>2. UNCHANGED <<scanner_output_queue, taken, answered, issued, detecting_txn, context_snapshots>>
  BY DEF Call, Trigger, Release, capture
<1>3. (\E g \in Handlers : Snaps(g)) => \E g \in Handlers : Snaps(g)'
  BY <1>1 DEF Idle, Snaps
<1>4. QED
  BY <1>2, <1>3, MessagesKept

LEMMA HandlerMessages ==
  ASSUME TypeOK, Messages, OneAtATime, NEW h \in Handlers, HandlerStep(h), ~FeederRaises(h)
  PROVE  Messages'
<1>1. UNCHANGED <<scanner_output_queue, taken, answered>>
  BY DEF HandlerStep, Merge, UpdateSnapshot, FetchMembers, FetchFails, FeedDetecting,
     StoreSnapshot, ShrinkSnapshot, StopEarly, DeleteContext, history
<1>2. ~Idle(h)
  BY DEF HandlerStep, Merge, UpdateSnapshot, FetchMembers, FetchFails, FeedDetecting,
     StoreSnapshot, ShrinkSnapshot, StopEarly, DeleteContext, Idle
<1>3. ~Snaps(h) => ~\E g \in Handlers : Snaps(g)
  BY <1>2, Alone DEF Idle, Snaps
<1>4. CASE UpdateSnapshot(h) \/ StoreSnapshot(h)
  <2>1. /\ DOMAIN context_snapshots \subseteq DOMAIN context_snapshots'
        /\ detecting_txn \in DOMAIN context_snapshots'
    BY <1>4 DEF UpdateSnapshot, StoreSnapshot, Store
  <2>2. UNCHANGED <<issued, detecting_txn>>
    BY <1>4 DEF UpdateSnapshot, StoreSnapshot, capture
  <2>3. QED
    BY <1>1, <2>1, <2>2, MessagesKept
<1>5. CASE FeedDetecting(h)
  <2>1. ~Snaps(h) /\ Snaps(h)' /\ UNCHANGED context_snapshots
    BY <1>5 DEF FeedDetecting, Goto, TypeOK, HandlersOK, Snaps
  <2>2. issued' = issued \union {detecting_txn'}
    BY <1>5 DEF FeedDetecting, Capture!Open
  <2>3. QED
    BY <1>1, <1>3, <2>1, <2>2 DEF Messages, Stored
<1>6. CASE Merge(h) \/ FetchMembers(h) \/ FetchFails(h) \/ ShrinkSnapshot(h)
             \/ StopEarly(h) \/ DeleteContext(h)
  <2>1. ~Snaps(h) /\ DOMAIN context_snapshots \subseteq DOMAIN context_snapshots'
    BY <1>6 DEF Merge, FetchMembers, FetchFails, ShrinkSnapshot, StopEarly,
       DeleteContext, Store, Snaps
  <2>2. UNCHANGED <<issued, detecting_txn>>
    BY <1>6, Stops DEF Merge, FetchMembers, FetchFails, ShrinkSnapshot, StopEarly,
       DeleteContext, capture
  <2>3. QED
    BY <1>1, <1>3, <2>1, <2>2, MessagesKept
<1>7. QED
  BY <1>4, <1>5, <1>6 DEF HandlerStep

\* The loop has the message in hand whose snapshot it takes away.
LEMMA TakeMessages ==
  ASSUME TypeOK, Messages, OneAtATime', TakeMessage
  PROVE  Messages'
<1> DEFINE q == scanner_output_queue
           t == Head(q)
<1>1. /\ q \in Seq(Txns) /\ q # <<>> /\ q' = Tail(q)
      /\ taken = None /\ UNCHANGED <<answered, issued, detecting_txn, pc>>
  BY DEF TakeMessage, TypeOK, capture, handlers, history
<1>2. DOMAIN context_snapshots' = DOMAIN context_snapshots \ {t} /\ taken'.txn = t
  BY DEF TakeMessage, Restrict
<1>3. taken' # None /\ \A g \in Handlers : ~Snaps(g)
  BY <1>1, Taken DEF OneAtATime, Idle, Snaps
<1>4. \A i \in 1..Len(q') : i + 1 \in 1..Len(q) /\ q'[i] = q[i + 1]
  BY <1>1
<1>5. ASSUME NEW x \in issued'
      PROVE  Stored(x)'
  <2>1. x \in DOMAIN context_snapshots \/ x \in answered
    BY <1>1, <1>3, <1>5 DEF Messages, Stored
  <2>2. QED
    BY <1>1, <1>2, <1>3, <2>1 DEF Stored
<1>6. \A i \in 1..Len(q') : q'[i] \in issued'
  BY <1>1, <1>4 DEF Messages
<1>7. QED
  BY <1>5, <1>6 DEF Messages

\* The message it has published or dropped is answered.
LEMMA PublishMessages ==
  ASSUME TypeOK, Messages, PublishMembers
  PROVE  Messages'
<1>1. /\ UNCHANGED <<scanner_output_queue, issued, detecting_txn, context_snapshots, pc>>
      /\ answered' = answered \union {taken.txn}
  BY Stops DEF PublishMembers, handlers
<1>2. \A x : Stored(x) => Stored(x)'
  BY <1>1 DEF Stored, Snaps
<1>3. QED
  BY <1>1, <1>2 DEF Messages

\* A new message is of a session that has been opened.
LEMMA MatchMessages ==
  ASSUME TypeOK, Messages, NEW t \in Txns, Match(t)
  PROVE  Messages'
<1> DEFINE q == scanner_output_queue
<1>1. /\ q \in Seq(Txns) /\ q' = Append(q, t) /\ t \in issued
      /\ UNCHANGED <<issued, detecting_txn, pc, context_snapshots, taken, answered>>
  BY DEF Match, TypeOK, capture, handlers
<1>2. \A i \in 1..Len(q') : (i \in 1..Len(q) /\ q'[i] = q[i]) \/ q'[i] = t
  BY <1>1
<1>3. \A i \in 1..Len(q') : q'[i] \in issued'
  BY <1>1, <1>2 DEF Messages
<1>4. \A x : Stored(x) => Stored(x)'
  BY <1>1 DEF Stored, Snaps
<1>5. QED
  BY <1>1, <1>3, <1>4 DEF Messages

LEMMA MessagesStep ==
  ASSUME TypeOK, Messages, OneAtATime, OneAtATime', [Next]_vars,
         ~\E h \in Handlers : FeederRaises(h)
  PROVE  Messages'
<1>1. CASE Call \/ TakeMessage \/ PublishMembers \/ \E t \in Txns : Match(t)
  BY <1>1, CallMessages, TakeMessages, PublishMessages, MatchMessages
<1>2. ASSUME NEW h \in Handlers, HandlerStep(h)
      PROVE  Messages'
  BY <1>2, HandlerMessages
<1>3. CASE TimerExpires \/ UNCHANGED vars
  <2>1. UNCHANGED <<scanner_output_queue, taken, answered, issued, detecting_txn,
                    context_snapshots, pc>>
    BY <1>3, Stops DEF TimerExpires, vars, handlers, history, capture
  <2>2. QED
    BY <2>1, MessagesKept DEF Snaps
<1>4. QED
  BY <1>1, <1>2, <1>3 DEF Next, LoopStep

--------------------------------------------------------------------------------
\* Nothing is offered, owed or in the queue at the start.
LEMMA InitSerial == MCInit => SerialInv
<1> SUFFICES ASSUME MCInit PROVE SerialInv
  OBVIOUS
<1>1. \A h \in Handlers : Idle(h)
  BY DEF MCInit, Init, Idle
<1>2. /\ ~is_feeding /\ issued = {} /\ trigger_lock_context = None /\ taken = None
      /\ due = {} /\ scanner_output_queue = <<>>
  BY DEF MCInit, Init, Capture!Init
<1>3. OneAtATime /\ Locking
  BY <1>1, <1>2 DEF OneAtATime, Locking, Working, Pressed, Owed, Running
<1>4. Messages
  BY <1>2 DEF Messages
<1>5. QED
  BY <1>3, <1>4 DEF SerialInv

\* Noting overlaps restricts nobody.
LEMMA SerialBehaviours == MCSpec => Spec
<1>1. MCInit => Init
  BY DEF MCInit
<1>2. [MCNext]_<<vars, overlapped>> => [Next]_vars
  BY DEF MCNext
<1>3. QED
  BY <1>1, <1>2, PTL DEF MCSpec, Spec

\* A handler that raises is seen to return.
LEMMA NeverStays ==
  ASSUME TypeOK, UNCHANGED pc
  PROVE  ~\E h \in Handlers : FeederRaises(h)
BY DEF TypeOK, HandlersOK, FeederRaises, Feeders, Return, Goto

\* Until two handlers overlap, or one and the output loop, or a handler loses the timer,
\* the camera's context, the snapshot of the running session and the clicks agree.
THEOREM SerialHolds == MCSpec => [](overlapped \/ SerialInv)
<1>1. ASSUME TypeOK, TypeOK', overlapped \/ SerialInv, [MCNext]_<<vars, overlapped>>
      PROVE  (overlapped \/ SerialInv)'
  <2> SUFFICES ASSUME ~overlapped' PROVE SerialInv'
    OBVIOUS
  <2>1. ~overlapped /\ SerialInv
    <3>1. CASE MCNext
      BY <1>1, <3>1, Zenon DEF MCNext
    <3>2. CASE UNCHANGED <<vars, overlapped>>
      BY <1>1, <3>2
    <3>3. QED
      BY <1>1, <3>1, <3>2
  <2>2. [Next]_vars
    BY <1>1 DEF MCNext
  <2>3. OneAtATime'
    <3>1. CASE MCNext
      BY <3>1 DEF MCNext
    <3>2. CASE UNCHANGED <<vars, overlapped>>
      BY <2>1, <3>2 DEF SerialInv, OneAtATime, Idle, vars, handlers
    <3>3. QED
      BY <1>1, <3>1, <3>2
  <2>6. ~\E h \in Handlers : FeederRaises(h)
    <3>1. CASE MCNext
      BY <3>1 DEF MCNext
    <3>2. CASE UNCHANGED <<vars, overlapped>>
      BY <1>1, <3>2, NeverStays DEF vars, handlers
    <3>3. QED
      BY <1>1, <3>1, <3>2
  <2>4. Locking' /\ Messages'
    BY <1>1, <2>1, <2>2, <2>3, <2>6, LockingStep, MessagesStep DEF SerialInv
  <2>5. QED
    BY <2>3, <2>4 DEF SerialInv
<1>2. MCInit => overlapped \/ SerialInv
  BY InitSerial
<1>3. QED
  BY <1>1, <1>2, SerialBehaviours, TypesHold, PTL DEF MCSpec

\* A running session at rest has the camera's context as its snapshot.
LEMMA AtRest ==
  ASSUME SerialInv, Settled
  PROVE  /\ trigger_lock_context # None
         /\ Snapshot(detecting_txn) = context[trigger_lock_context]
         /\ due \subseteq context[trigger_lock_context]
<1>1. OnTheWay = {} /\ ~Storing
  BY WayOfNone DEF Settled, Quiet, Storing, Idle
<1>2. Running
  BY DEF SerialInv, Locking
<1>3. QED
  BY <1>1, <1>2 DEF Running, Settled, Quiet

\* As long as no two handlers overlap, every lock clicked for the session that runs and
\* not released since is in the session's snapshot (trigger_face_detection).
THEOREM SerialClicksCovered == MCSpec => []SerialClickCovered
<1>1. overlapped \/ SerialInv => SerialClickCovered
  BY AtRest DEF SerialClickCovered, ClickCovered
<1>2. QED
  BY <1>1, SerialHolds, PTL

\* As long as no two handlers overlap, the session that runs offers no lock whose last
\* event was occupancy:false (handle_occupancy_false).
THEOREM SerialReleasesGone == MCSpec => []SerialReleasedGone
<1>1. overlapped \/ SerialInv => SerialReleasedGone
  BY AtRest DEF SerialReleasedGone, ReleasedGone, SerialInv, Locking, Pressed
<1>2. QED
  BY <1>1, SerialHolds, PTL

\* As long as no two handlers overlap, the output loop answers the first message of a
\* session from the session's own snapshot, never from the context the camera has by then
\* (fetch_scanner_output_queue).
THEOREM SerialNeverFallsBack == MCSpec => SerialNoFallback
<1> DEFINE Own == \/ overlapped'
                  \/ Taking => \/ taken'.txn \in DOMAIN context_snapshots
                               \/ taken'.txn \in answered
<1>1. ASSUME TypeOK, overlapped \/ SerialInv, MCNext
      PROVE  Own
  <2> SUFFICES ASSUME ~overlapped', Taking
               PROVE  taken'.txn \in DOMAIN context_snapshots \/ taken'.txn \in answered
    OBVIOUS
  <2>1. SerialInv /\ OneAtATime'
    BY <1>1 DEF MCNext
  <2>2. TakeMessage
    BY <1>1, NoneAssumption DEF Taking, MCNext, Next, Call, Trigger, Release, HandlerStep,
       Merge, UpdateSnapshot, FetchMembers, FetchFails, FeedDetecting, StoreSnapshot,
       FeederRaises, ShrinkSnapshot, StopEarly, DeleteContext, LoopStep, PublishMembers,
       TimerExpires, Match
  <2> DEFINE t == Head(scanner_output_queue)
  <2>3. taken'.txn = t /\ taken = None
    BY <2>2 DEF TakeMessage
  <2>4. t \in issued
    <3>1. 1 \in 1..Len(scanner_output_queue) /\ scanner_output_queue[1] = t
      BY <1>1, <2>2 DEF TakeMessage, TypeOK
    <3>2. QED
      BY <2>1, <3>1 DEF SerialInv, Messages
  <2>5. \A h \in Handlers : ~Snaps(h)
    BY <1>1, <2>1, <2>2, Taken DEF OneAtATime, Idle, TakeMessage, handlers, Snaps
  <2>6. Stored(t)
    BY <2>1, <2>4 DEF SerialInv, Messages
  <2>7. QED
    BY <2>3, <2>5, <2>6 DEF Stored
<1>2. ASSUME TypeOK, overlapped \/ SerialInv, [MCNext]_<<vars, overlapped>>
      PROVE  [Own]_<<vars, overlapped>>
  BY <1>1, <1>2
<1>3. QED
  BY <1>2, SerialBehaviours, TypesHold, SerialHolds, PTL DEF MCSpec, SerialNoFallback
================================================================================
