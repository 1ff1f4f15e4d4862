----------------------------- MODULE DetectorProofs -----------------------------
(***************************************************************************)
(* Proofs about Detector for any number of cameras and transactions and a  *)
(* cam_queue of any size: its types, and that a session is answered once.  *)
(***************************************************************************)
EXTENDS Detector, TLAPS

--------------------------------------------------------------------------------
(* Types. *)

History(S) == [txn : S, identified : BOOLEAN]

\* The entries and the cameras name transactions that were drawn.
Drawn ==
  /\ \A i \in 1..Len(cam_queue) : cam_queue[i].txn \in issued
  /\ \A c \in Cams : detecting_txn[c] \in issued \union {None}

Base == TypeOK /\ Drawn

\* A put: one entry more at the end.
LEMMA PutFacts ==
  ASSUME Base, NEW c \in Cams, NEW cmd \in {"FRAME", "SESSION_END"},
         detecting_txn[c] # None, ~Full, Put(cmd, c)
  PROVE  /\ cam_queue' \in Seq(Entries) /\ Len(cam_queue') <= QueueMax
         /\ Len(cam_queue) \in Nat /\ Len(cam_queue') = Len(cam_queue) + 1
         /\ \A i \in 1..Len(cam_queue) : cam_queue'[i] = cam_queue[i]
         /\ cam_queue'[Len(cam_queue) + 1] = [cmd |-> cmd, cam |-> c, txn |-> detecting_txn[c]]
         /\ detecting_txn[c] \in issued
<1> DEFINE e == [cmd |-> cmd, cam |-> c, txn |-> detecting_txn[c]]
<1>1. /\ cam_queue \in Seq(Entries) /\ Len(cam_queue) \in Nat /\ QueueMax \in Nat
      /\ detecting_txn[c] \in issued /\ detecting_txn[c] \in Txns
  BY DetectorAssumption DEF Base, TypeOK, Drawn
<1>2. e \in Entries /\ cam_queue' = Append(cam_queue, e)
  BY <1>1 DEF Put, Entries
<1>3. QED
  BY <1>1, <1>2 DEF Full

LEMMA PutTyped ==
  ASSUME Base, NEW c \in Cams, NEW cmd \in {"FRAME", "SESSION_END"},
         detecting_txn[c] # None, ~Full, Put(cmd, c)
  PROVE  /\ cam_queue' \in Seq(Entries) /\ Len(cam_queue') <= QueueMax
         /\ \A i \in 1..Len(cam_queue') : cam_queue'[i].txn \in issued
<1>1. /\ cam_queue' \in Seq(Entries) /\ Len(cam_queue') <= QueueMax
      /\ Len(cam_queue) \in Nat /\ Len(cam_queue') = Len(cam_queue) + 1
      /\ \A i \in 1..Len(cam_queue) : cam_queue'[i] = cam_queue[i]
      /\ cam_queue'[Len(cam_queue) + 1] = [cmd |-> cmd, cam |-> c, txn |-> detecting_txn[c]]
      /\ detecting_txn[c] \in issued
  BY PutFacts
<1>2. \A i \in 1..Len(cam_queue') : i \in 1..Len(cam_queue) \/ i = Len(cam_queue) + 1
  BY <1>1
<1>3. QED
  BY <1>1, <1>2 DEF Base, Drawn

\* A take: the entry is the first, the others move up.
LEMMA TailFacts ==
  ASSUME Base, cam_queue # <<>>, cam_queue' = Tail(cam_queue)
  PROVE  /\ cam_queue' \in Seq(Entries) /\ Len(cam_queue') <= QueueMax
         /\ Len(cam_queue) \in Nat \ {0} /\ Len(cam_queue') = Len(cam_queue) - 1
         /\ \A i \in 1..Len(cam_queue') :
              cam_queue'[i] = cam_queue[i + 1] /\ i + 1 \in 1..Len(cam_queue)
         /\ Head(cam_queue) = cam_queue[1] /\ 1 \in 1..Len(cam_queue)
         /\ Head(cam_queue) \in Entries /\ Head(cam_queue).txn \in issued
<1>1. /\ cam_queue \in Seq(Entries) /\ QueueMax \in Nat /\ Len(cam_queue) <= QueueMax
      /\ Len(cam_queue) \in Nat \ {0}
  BY DetectorAssumption DEF Base, TypeOK
<1>2. /\ cam_queue' \in Seq(Entries) /\ Len(cam_queue') = Len(cam_queue) - 1
      /\ Head(cam_queue) = cam_queue[1] /\ 1 \in 1..Len(cam_queue)
      /\ Head(cam_queue) \in Entries
  BY <1>1
<1>3. \A i \in 1..Len(cam_queue') :
        cam_queue'[i] = cam_queue[i + 1] /\ i + 1 \in 1..Len(cam_queue)
  BY <1>1, <1>2
<1>4. QED
  BY <1>1, <1>2, <1>3 DEF Base, Drawn

\* A camera that is feeding, ending or holding a frame has a transaction.
Named ==
  \A c \in Cams : is_feeding[c] \/ c \in ending \/ c \in grabbed => detecting_txn[c] # None

\* What the detector writes to its history.
LEMMA SetFacts ==
  ASSUME Base, NEW c \in Cams, NEW t \in issued, NEW b \in BOOLEAN,
         SetHistory(c, [txn |-> t, identified |-> b])
  PROVE  /\ DOMAIN cam_detection_his' = DOMAIN cam_detection_his \union {c}
         /\ DOMAIN cam_detection_his' \subseteq Cams
         /\ cam_detection_his' \in [DOMAIN cam_detection_his' -> History(issued)]
         /\ cam_detection_his'[c] = [txn |-> t, identified |-> b]
         /\ \A d \in DOMAIN cam_detection_his \ {c} :
              cam_detection_his'[d] = cam_detection_his[d]
<1>1. [txn |-> t, identified |-> b] \in History(issued)
  BY DEF History
<1>2. \A d \in DOMAIN cam_detection_his : cam_detection_his[d] \in History(issued)
  BY DEF Base, TypeOK, History
<1>3. DOMAIN cam_detection_his' = DOMAIN cam_detection_his \union {c}
  BY DEF SetHistory
<1>4. QED
  BY <1>1, <1>2, <1>3 DEF SetHistory, Base, TypeOK

\* The steps of the detector: the types they keep.
TakenFrame(e) == SkipFrame(e) \/ MatchFrame(e) \/ FailOnFrame(e)

LEMMA FrameWrites ==
  ASSUME Base, NEW e \in Entries, TakenFrame(e)
  PROVE  /\ cam_queue # <<>> /\ cam_queue' = Tail(cam_queue) /\ e = Head(cam_queue)
         /\ \/ UNCHANGED cam_detection_his /\ Knows(e.cam, e.txn)
            \/ \E b \in BOOLEAN : SetHistory(e.cam, [txn |-> e.txn, identified |-> b])
         /\ UNCHANGED <<camera, ended>>
<1>1. CASE SkipFrame(e)
  BY <1>1 DEF SkipFrame, Take, CamerasRun, history
<1>2. CASE MatchFrame(e)
  BY <1>2 DEF MatchFrame, MatchAgain, Take, CamerasRun
<1>3. CASE FailOnFrame(e)
  BY <1>3 DEF FailOnFrame, Take, CamerasRun, history
<1>4. QED
  BY <1>1, <1>2, <1>3 DEF TakenFrame

LEMMA BaseInit == Init => Base /\ Named
<1> SUFFICES ASSUME Init PROVE Base /\ Named
  OBVIOUS
<1>1. cam_queue \in Seq(Entries) /\ Len(cam_queue) = 0
  BY DEF Init
<1>2. /\ DOMAIN cam_detection_his \subseteq Cams
      /\ cam_detection_his \in [DOMAIN cam_detection_his -> [txn : issued, identified : BOOLEAN]]
  BY DEF Init
<1>3. TypeOK
  BY <1>1, <1>2, DetectorAssumption DEF Init, TypeOK
<1>4. QED
  BY <1>1, <1>3 DEF Init, Base, Drawn, Named

LEMMA BaseNext == Base /\ Named /\ [Next]_vars => Base' /\ Named'
<1> SUFFICES ASSUME Base, Named, [Next]_vars PROVE Base' /\ Named'
  OBVIOUS
<1> USE DEF camera, history, History
<1>1. ASSUME NEW c \in Cams, CameraStep(c) PROVE Base' /\ Named'
  <2> USE DEF DetectorRests
  <2>1. CASE FeedDetecting(c)
    <3>1. PICK t \in Txns \ issued :
            /\ detecting_txn' = [detecting_txn EXCEPT ![c] = t]
            /\ issued' = issued \union {t}
      BY <2>1 DEF FeedDetecting
    <3>2. /\ is_feeding' = [is_feeding EXCEPT ![c] = TRUE]
          /\ UNCHANGED <<ending, grabbed, cam_queue, detector, cam_detection_his, found, ended>>
      BY <2>1 DEF FeedDetecting
    <3>3. TypeOK'
      <4>1. /\ is_feeding' \in [Cams -> BOOLEAN] /\ detecting_txn' \in [Cams -> Txns \union {None}]
            /\ issued' \subseteq Txns /\ ended' \subseteq issued'
        BY <3>1, <3>2 DEF Base, TypeOK
      <4>2. cam_detection_his' \in [DOMAIN cam_detection_his' -> [txn : issued', identified : BOOLEAN]]
        BY <3>1, <3>2 DEF Base, TypeOK
      <4>3. QED
        BY <3>1, <3>2, <4>1, <4>2 DEF Base, TypeOK
    <3>4. Drawn'
      BY <3>1, <3>2 DEF Base, TypeOK, Drawn
    <3>5. Named'
      BY <3>1, <3>2, DetectorAssumption DEF Base, TypeOK, Named
    <3>6. QED
      BY <3>3, <3>4, <3>5 DEF Base
  <2>2. CASE SignalEnd(c)
    <3>1. /\ Put("SESSION_END", c) /\ ~Full /\ detecting_txn[c] # None
          /\ ending' = ending \union {c}
          /\ UNCHANGED <<is_feeding, detecting_txn, issued, grabbed, detector, cam_detection_his,
                         found, ended>>
      BY <2>2 DEF SignalEnd
    <3>2. /\ cam_queue' \in Seq(Entries) /\ Len(cam_queue') <= QueueMax
          /\ \A i \in 1..Len(cam_queue') : cam_queue'[i].txn \in issued
      BY <3>1, PutTyped
    <3>3. TypeOK' /\ Drawn'
      BY <3>1, <3>2 DEF Base, TypeOK, Drawn
    <3>4. QED
      BY <3>1, <3>3 DEF Base, Named
  <2>3. CASE ClearFeeding(c)
    BY <2>3 DEF ClearFeeding, Base, TypeOK, Drawn, Named
  <2>4. CASE GrabFrame(c)
    BY <2>4 DEF GrabFrame, Base, TypeOK, Drawn, Named
  <2>5. CASE PutFrame(c)
    <3>1. /\ c \in grabbed /\ grabbed' = grabbed \ {c}
          /\ UNCHANGED <<is_feeding, detecting_txn, issued, ending, detector, cam_detection_his,
                         found, ended>>
          /\ (Put("FRAME", c) /\ ~Full) \/ UNCHANGED cam_queue
      BY <2>5 DEF PutFrame
    <3>2. CASE Put("FRAME", c) /\ ~Full
      <4>1. detecting_txn[c] # None
        BY <3>1 DEF Named
      <4>2. /\ cam_queue' \in Seq(Entries) /\ Len(cam_queue') <= QueueMax
            /\ \A i \in 1..Len(cam_queue') : cam_queue'[i].txn \in issued
        BY <3>2, <4>1, PutTyped
      <4>3. TypeOK' /\ Drawn'
        BY <3>1, <4>2 DEF Base, TypeOK, Drawn
      <4>4. QED
        BY <3>1, <4>3 DEF Base, Named
    <3>3. CASE UNCHANGED cam_queue
      BY <3>1, <3>3 DEF Base, TypeOK, Drawn, Named
    <3>4. QED
      BY <3>1, <3>2, <3>3
  <2>6. QED
    BY <1>1, <2>1, <2>2, <2>3, <2>4, <2>5 DEF CameraStep
<1>2. ASSUME cam_queue # <<>>, cam_queue' = Tail(cam_queue), UNCHANGED <<camera, ended>>,
             detector' \in {"up", "draining", "down"}, found' \in [Txns -> 0..2],
             DOMAIN cam_detection_his' \subseteq Cams,
             cam_detection_his' \in [DOMAIN cam_detection_his' -> History(issued)]
      PROVE  Base' /\ Named'
  <2>1. TypeOK' /\ Drawn'
    BY <1>2, TailFacts DEF Base, TypeOK, Drawn
  <2>2. QED
    BY <1>2, <2>1 DEF Base, Named
<1>3. ASSUME NEW e \in Entries, TakenFrame(e) PROVE Base' /\ Named'
  <2>1. /\ cam_queue # <<>> /\ cam_queue' = Tail(cam_queue) /\ e = Head(cam_queue)
        /\ UNCHANGED <<camera, ended>>
    BY <1>3, FrameWrites
  <2>2. e.cam \in Cams /\ e.txn \in issued /\ e.txn \in Txns
    BY <2>1, TailFacts DEF Entries
  <2>3. /\ DOMAIN cam_detection_his' \subseteq Cams
        /\ cam_detection_his' \in [DOMAIN cam_detection_his' -> History(issued)]
    <3>1. CASE UNCHANGED cam_detection_his
      BY <3>1 DEF Base, TypeOK
    <3>2. CASE \E b \in BOOLEAN : SetHistory(e.cam, [txn |-> e.txn, identified |-> b])
      BY <2>2, <3>2, SetFacts
    <3>3. QED
      BY <1>3, <3>1, <3>2, FrameWrites
  <2>4. detector' \in {"up", "draining", "down"}
    BY <1>3 DEF TakenFrame, SkipFrame, MatchFrame, MatchAgain, FailOnFrame, Base, TypeOK
  <2>5. found' \in [Txns -> 0..2]
    BY <1>3, <2>2 DEF TakenFrame, SkipFrame, MatchFrame, MatchAgain, FailOnFrame, Base, TypeOK
  <2>6. QED
    BY <1>2, <2>1, <2>3, <2>4, <2>5
<1>4. ASSUME NEW e \in Entries, TakeEnd(e) PROVE Base' /\ Named'
  <2>1. /\ cam_queue # <<>> /\ cam_queue' = Tail(cam_queue) /\ e = Head(cam_queue)
        /\ ended' = ended \union {e.txn} /\ UNCHANGED <<camera, detector, found>>
    BY <1>4 DEF TakeEnd, Take, CamerasRun
  <2>2. /\ DOMAIN cam_detection_his' \subseteq Cams
        /\ cam_detection_his' \in [DOMAIN cam_detection_his' -> History(issued)]
    BY <1>4 DEF TakeEnd, Restrict, Base, TypeOK
  <2>3. TypeOK' /\ Drawn'
    BY <2>1, <2>2, TailFacts DEF Base, TypeOK, Drawn
  <2>4. QED
    BY <2>1, <2>3 DEF Base, Named
<1>5. CASE Drain
  <2>1. CASE cam_queue # <<>> /\ cam_queue' = Tail(cam_queue)
    <3>1. UNCHANGED <<camera, ended, detector, found, cam_detection_his>>
      BY <1>5, <2>1 DEF Drain, CamerasRun
    <3>2. QED
      BY <1>2, <2>1, <3>1 DEF Base, TypeOK
  <2>2. CASE UNCHANGED cam_queue
    BY <1>5, <2>2 DEF Drain, CamerasRun, Base, TypeOK, Drawn, Named
  <2>3. QED
    BY <1>5, <2>1, <2>2 DEF Drain
<1>6. CASE Restart
  <2>1. /\ DOMAIN cam_detection_his' \subseteq Cams
        /\ cam_detection_his' \in [DOMAIN cam_detection_his' -> History(issued)]
    BY <1>6 DEF Restart
  <2>2. ended' \subseteq issued
    BY <1>6 DEF Restart, Base, TypeOK
  <2>3. QED
    BY <1>6, <2>1, <2>2 DEF Restart, CamerasRun, Base, TypeOK, Drawn, Named
<1>7. CASE UNCHANGED vars
  BY <1>7 DEF vars, Base, TypeOK, Drawn, Named
<1>8. QED
  BY <1>1, <1>3, <1>4, <1>5, <1>6, <1>7 DEF Next, TakeEntry, TakenFrame

LEMMA BaseAlways == Spec => []Base
BY BaseInit, BaseNext, PTL DEF Spec

\* TypeOK, for any parameters: cam_queue keeps its bound and the history its shape.
THEOREM TypesHold == Spec => []TypeOK
<1>1. Base => TypeOK
  BY DEF Base
<1>2. QED
  BY <1>1, BaseAlways, PTL

--------------------------------------------------------------------------------
(***************************************************************************)
(* The order of the sessions. What a camera's history, its entries in the  *)
(* queue and detecting_txn name, in this order, are its sessions in the    *)
(* order they began: one that was left behind does not come back. And no   *)
(* two cameras name the same transaction.                                  *)
(***************************************************************************)
Positions == 1..Len(cam_queue)
Cam(i) == cam_queue[i].cam
Txn(i) == cam_queue[i].txn

InLine ==
  /\ \A i, j, k \in Positions :
       i < j /\ j < k /\ Cam(i) = Cam(k) /\ Cam(j) = Cam(k) /\ Txn(i) = Txn(k)
         => Txn(j) = Txn(k)
  /\ \A i, j \in Positions :
       i < j /\ Cam(i) = Cam(j) /\ Txn(i) = detecting_txn[Cam(i)] => Txn(j) = Txn(i)
  /\ \A c \in DOMAIN cam_detection_his : \A i, j \in Positions :
       i < j /\ Cam(i) = c /\ Cam(j) = c /\ Txn(j) = cam_detection_his[c].txn
         => Txn(i) = cam_detection_his[c].txn
  /\ \A c \in DOMAIN cam_detection_his : cam_detection_his[c].txn = detecting_txn[c] =>
       \A i \in Positions : Cam(i) = c => Txn(i) = cam_detection_his[c].txn

Owned ==
  /\ \A i, j \in Positions : Txn(i) = Txn(j) => Cam(i) = Cam(j)
  /\ \A i \in Positions, c \in Cams : detecting_txn[c] = Txn(i) => Cam(i) = c
  /\ \A c \in DOMAIN cam_detection_his, i \in Positions :
       cam_detection_his[c].txn = Txn(i) => Cam(i) = c
  /\ \A c, d \in Cams : detecting_txn[c] = detecting_txn[d] /\ detecting_txn[c] # None => c = d
  /\ \A c \in DOMAIN cam_detection_his, d \in Cams :
       cam_detection_his[c].txn = detecting_txn[d] => c = d

\* Session t will not be seen again.
Gone(t) ==
  /\ t \in issued
  /\ \A i \in Positions : Txn(i) # t
  /\ \A c \in Cams : detecting_txn[c] # t

\* What was answered is known to the detector, ended, or gone.
Remembered ==
  \A t \in Txns :
    /\ found[t] > 1 => t \in ended
    /\ found[t] > 0 /\ t \notin ended => Gone(t) \/ \E c \in Cams : Identified(c, t)

Answered == InLine /\ Owned /\ Remembered

LEMMA AnsweredInit == Init => Answered
<1> SUFFICES ASSUME Init PROVE Answered
  OBVIOUS
<1>1. Positions = {} /\ DOMAIN cam_detection_his = {} /\ \A c \in Cams : detecting_txn[c] = None
  BY DEF Init, Positions
<1>2. InLine /\ Owned
  BY <1>1 DEF InLine, Owned
<1>3. Remembered
  BY DEF Init, Remembered
<1>4. QED
  BY <1>2, <1>3 DEF Answered

\* A new session of camera c.
LEMMA AnsweredFeed ==
  ASSUME Base, Answered, NEW c \in Cams, FeedDetecting(c) PROVE Answered'
<1>1. PICK t \in Txns \ issued :
        /\ detecting_txn' = [detecting_txn EXCEPT ![c] = t]
        /\ issued' = issued \union {t}
  BY DEF FeedDetecting
<1>2. UNCHANGED <<cam_queue, cam_detection_his, found, ended>>
  BY DEF FeedDetecting, DetectorRests, history
<1>3. /\ \A d \in Cams : detecting_txn'[d] = IF d = c THEN t ELSE detecting_txn[d]
      /\ \A d \in Cams : detecting_txn[d] # t
      /\ \A i \in Positions : Txn(i) # t /\ Cam(i) \in Cams
      /\ \A d \in DOMAIN cam_detection_his : cam_detection_his[d].txn # t /\ d \in Cams
  <2>1. \A i \in Positions : cam_queue[i] \in Entries
    BY DEF Base, TypeOK, Positions
  <2>2. \A d \in DOMAIN cam_detection_his : cam_detection_his[d].txn \in issued
    BY DEF Base, TypeOK
  <2>3. QED
    BY <1>1, <2>1, <2>2, DetectorAssumption
       DEF Base, TypeOK, Drawn, Positions, Txn, Cam, Entries
<1>4. Positions' = Positions /\ \A i \in Positions : Txn(i)' = Txn(i) /\ Cam(i)' = Cam(i)
  BY <1>2 DEF Positions, Txn, Cam
<1>5. InLine'
  BY <1>2, <1>3, <1>4 DEF Answered, InLine
<1>6. Owned'
  BY <1>2, <1>3, <1>4 DEF Answered, Owned
<1>7. \A u : Gone(u) => Gone(u)'
  BY <1>1, <1>3, <1>4 DEF Gone
<1>8. \A d, u : Identified(d, u)' = Identified(d, u)
  BY <1>2 DEF Identified, Knows
<1>9. Remembered'
  BY <1>2, <1>7, <1>8 DEF Answered, Remembered
<1>10. QED
  BY <1>5, <1>6, <1>9 DEF Answered

\* An entry more of camera c.
LEMMA AnsweredPut ==
  ASSUME Base, Answered, NEW c \in Cams, NEW cmd \in {"FRAME", "SESSION_END"},
         detecting_txn[c] # None, ~Full, Put(cmd, c),
         UNCHANGED <<detecting_txn, issued, cam_detection_his, found, ended>>
  PROVE  Answered'
<1>0. PICK n \in Nat : n = Len(cam_queue)
  BY DEF Base, TypeOK
<1>1. /\ Positions' = Positions \union {n + 1} /\ Positions = 1..n
      /\ \A i \in Positions : Txn(i)' = Txn(i) /\ Cam(i)' = Cam(i) /\ Cam(i) \in Cams
      /\ Txn(n + 1)' = detecting_txn[c] /\ Cam(n + 1)' = c
  <2>1. /\ Len(cam_queue') = n + 1
        /\ \A i \in 1..n : cam_queue'[i] = cam_queue[i]
        /\ cam_queue'[n + 1] = [cmd |-> cmd, cam |-> c, txn |-> detecting_txn[c]]
    BY <1>0, PutFacts
  <2>2. \A i \in 1..n : cam_queue[i] \in Entries
    BY <1>0 DEF Base, TypeOK
  <2>3. 1..(n + 1) = (1..n) \union {n + 1}
    OBVIOUS
  <2>4. QED
    BY <1>0, <2>1, <2>2, <2>3 DEF Positions, Txn, Cam, Entries
<1>2. \A i \in Positions : i < n + 1 /\ ~(n + 1 < i)
  BY <1>1
<1>3. InLine'
  <2>1. \A i, j, k \in Positions' :
          i < j /\ j < k /\ Cam(i)' = Cam(k)' /\ Cam(j)' = Cam(k)' /\ Txn(i)' = Txn(k)'
            => Txn(j)' = Txn(k)'
    <3> SUFFICES ASSUME NEW i \in Positions', NEW j \in Positions', NEW k \in Positions',
                        i < j, j < k, Cam(i)' = Cam(k)', Cam(j)' = Cam(k)', Txn(i)' = Txn(k)'
                 PROVE  Txn(j)' = Txn(k)'
      OBVIOUS
    <3>1. i \in Positions /\ j \in Positions
      BY <1>1
    <3>2. CASE k \in Positions
      BY <1>1, <3>1, <3>2 DEF Answered, InLine
    <3>3. CASE k = n + 1
      BY <1>1, <3>1, <3>3 DEF Answered, InLine
    <3>4. QED
      BY <1>1, <3>2, <3>3
  <2>2. \A i, j \in Positions' :
          i < j /\ Cam(i)' = Cam(j)' /\ Txn(i)' = detecting_txn[Cam(i)'] => Txn(j)' = Txn(i)'
    BY <1>1, <1>2 DEF Answered, InLine
  <2>3. \A d \in DOMAIN cam_detection_his : \A i, j \in Positions' :
          i < j /\ Cam(i)' = d /\ Cam(j)' = d /\ Txn(j)' = cam_detection_his[d].txn
            => Txn(i)' = cam_detection_his[d].txn
    BY <1>1, <1>2 DEF Answered, InLine
  <2>4. \A d \in DOMAIN cam_detection_his : cam_detection_his[d].txn = detecting_txn[d] =>
          \A i \in Positions' : Cam(i)' = d => Txn(i)' = cam_detection_his[d].txn
    BY <1>1 DEF Answered, InLine
  <2>5. QED
    BY <2>1, <2>2, <2>3, <2>4 DEF InLine
<1>4. Owned'
  BY <1>1 DEF Answered, Owned
<1>5. \A u : Gone(u) => Gone(u)'
  BY <1>1 DEF Gone
<1>6. \A d, u : Identified(d, u)' = Identified(d, u)
  BY DEF Identified, Knows
<1>7. Remembered'
  BY <1>5, <1>6 DEF Answered, Remembered
<1>8. QED
  BY <1>3, <1>4, <1>7 DEF Answered

\* The first entry is taken, and the history of its camera, if it is still there,
\* names it.
LEMMA AnsweredTail ==
  ASSUME Base, Answered, cam_queue # <<>>, cam_queue' = Tail(cam_queue),
         UNCHANGED <<detecting_txn, issued>>,
         DOMAIN cam_detection_his' \subseteq Cams,
         \A d \in DOMAIN cam_detection_his' :
           \/ d \in DOMAIN cam_detection_his /\ cam_detection_his'[d].txn = cam_detection_his[d].txn
           \/ d = Head(cam_queue).cam /\ cam_detection_his'[d].txn = Head(cam_queue).txn
  PROVE  /\ InLine' /\ Owned'
         /\ \A u : Gone(u) => Gone(u)'
         /\ \A u : Knows(Head(cam_queue).cam, u) /\ u # Head(cam_queue).txn => Gone(u)'
<1> DEFINE c == Head(cam_queue).cam
           t == Head(cam_queue).txn
<1>1. /\ 1 \in Positions /\ c = Cam(1) /\ t = Txn(1) /\ c \in Cams
      /\ \A i \in Positions' : i + 1 \in Positions /\ 1 < i + 1
      /\ \A i \in Positions' : Txn(i)' = Txn(i + 1) /\ Cam(i)' = Cam(i + 1)
      /\ \A i, j \in Positions' : i < j => i + 1 < j + 1
  BY TailFacts DEF Positions, Txn, Cam, Entries
<1>2. InLine'
  <2>1. \A i, j, k \in Positions' :
          i < j /\ j < k /\ Cam(i)' = Cam(k)' /\ Cam(j)' = Cam(k)' /\ Txn(i)' = Txn(k)'
            => Txn(j)' = Txn(k)'
    BY <1>1 DEF Answered, InLine
  <2>2. \A i, j \in Positions' :
          i < j /\ Cam(i)' = Cam(j)' /\ Txn(i)' = detecting_txn'[Cam(i)'] => Txn(j)' = Txn(i)'
    BY <1>1 DEF Answered, InLine
  <2>3. \A d \in DOMAIN cam_detection_his' : \A i, j \in Positions' :
          i < j /\ Cam(i)' = d /\ Cam(j)' = d /\ Txn(j)' = cam_detection_his'[d].txn
            => Txn(i)' = cam_detection_his'[d].txn
    BY <1>1 DEF Answered, InLine
  <2>4. \A d \in DOMAIN cam_detection_his' : cam_detection_his'[d].txn = detecting_txn'[d] =>
          \A i \in Positions' : Cam(i)' = d => Txn(i)' = cam_detection_his'[d].txn
    BY <1>1 DEF Answered, InLine
  <2>5. QED
    BY <2>1, <2>2, <2>3, <2>4 DEF InLine
<1>3. Owned'
  BY <1>1 DEF Answered, Owned
<1>4. \A u : Gone(u) => Gone(u)'
  BY <1>1 DEF Gone
<1>5. ASSUME NEW u, Knows(c, u), u # t PROVE Gone(u)'
  <2>1. u \in issued /\ c \in DOMAIN cam_detection_his /\ cam_detection_his[c].txn = u
    BY <1>5 DEF Base, TypeOK, Knows
  <2>2. \A i \in Positions' : Txn(i)' # u
    BY <1>1, <1>5, <2>1 DEF Answered, InLine, Owned
  <2>3. \A d \in Cams : detecting_txn[d] # u
    BY <1>1, <1>5, <2>1 DEF Answered, InLine, Owned
  <2>4. QED
    BY <2>1, <2>2, <2>3 DEF Gone
<1>6. QED
  BY <1>2, <1>3, <1>4, <1>5

LEMMA AnsweredFrame ==
  ASSUME Base, Answered, NEW e \in Entries, TakenFrame(e) PROVE Answered'
<1> DEFINE c == e.cam
           t == e.txn
<1>1. /\ cam_queue # <<>> /\ cam_queue' = Tail(cam_queue) /\ e = Head(cam_queue)
      /\ UNCHANGED <<detecting_txn, issued, ended>>
  BY FrameWrites DEF camera
<1>2. /\ c \in Cams /\ t \in issued /\ t \in Txns /\ 1 \in Positions /\ Cam(1) = c /\ Txn(1) = t
  BY <1>1, TailFacts DEF Entries, Positions, Cam, Txn
<1>3. /\ DOMAIN cam_detection_his' = DOMAIN cam_detection_his \union {c}
      /\ DOMAIN cam_detection_his' \subseteq Cams
      /\ cam_detection_his'[c].txn = t
      /\ \A d \in DOMAIN cam_detection_his \ {c} : cam_detection_his'[d] = cam_detection_his[d]
  <2>1. CASE UNCHANGED cam_detection_his /\ Knows(c, t)
    BY <2>1 DEF Knows, Base, TypeOK
  <2>2. CASE \E b \in BOOLEAN : SetHistory(c, [txn |-> t, identified |-> b])
    <3>1. PICK b \in BOOLEAN : SetHistory(c, [txn |-> t, identified |-> b])
      BY <2>2
    <3>2. /\ DOMAIN cam_detection_his' = DOMAIN cam_detection_his \union {c}
          /\ DOMAIN cam_detection_his' \subseteq Cams
          /\ cam_detection_his'[c] = [txn |-> t, identified |-> b]
          /\ \A d \in DOMAIN cam_detection_his \ {c} :
               cam_detection_his'[d] = cam_detection_his[d]
      BY <1>2, <3>1, SetFacts
    <3>3. QED
      BY <3>2
  <2>3. QED
    BY <2>1, <2>2, FrameWrites
<1>4. /\ InLine' /\ Owned'
      /\ \A u : Gone(u) => Gone(u)'
      /\ \A u : Knows(c, u) /\ u # t => Gone(u)'
  BY <1>1, <1>3, AnsweredTail
<1>5. ASSUME NEW u \in Txns \ {t}
      PROVE  Gone(u) \/ (\E d \in Cams : Identified(d, u))
               => Gone(u)' \/ (\E d \in Cams : Identified(d, u)')
  <2>1. CASE Gone(u)
    BY <1>4, <2>1
  <2>2. ASSUME NEW d \in Cams, Identified(d, u) PROVE Gone(u)' \/ Identified(d, u)'
    <3>1. d \in DOMAIN cam_detection_his /\ cam_detection_his[d].txn = u
          /\ cam_detection_his[d].identified
      BY <2>2 DEF Identified, Knows
    <3>2. CASE d = c
      BY <1>4, <3>1, <3>2 DEF Knows
    <3>3. CASE d # c
      BY <1>3, <3>1, <3>3 DEF Identified, Knows
    <3>4. QED
      BY <3>2, <3>3
  <2>3. QED
    BY <2>1, <2>2
\* Session t itself: identified, or not answered yet.
<1>6. found[t] > 0 /\ t \notin ended => Identified(c, t)
  <2>1. ~Gone(t)
    BY <1>2 DEF Gone
  <2>2. \A d \in Cams : Identified(d, t) => d = c
    BY <1>2 DEF Answered, Owned, Identified, Knows
  <2>3. QED
    BY <1>2, <2>1, <2>2 DEF Answered, Remembered
<1>7. CASE SkipFrame(e)
  <2>1. found' = found /\ (Knows(c, t) => UNCHANGED cam_detection_his)
    BY <1>7 DEF SkipFrame, history
  <2>2. Identified(c, t) => Identified(c, t)'
    BY <2>1 DEF Identified, Knows
  <2>3. Remembered'
    BY <1>1, <1>2, <1>5, <1>6, <2>1, <2>2 DEF Answered, Remembered
  <2>4. QED
    BY <1>4, <2>3 DEF Answered
<1>8. CASE MatchFrame(e)
  <2>1. ~Identified(c, t) /\ found \in [Txns -> 0..2]
        /\ (found' = [found EXCEPT ![t] = IF @ = 2 THEN 2 ELSE @ + 1] \/ found' = found)
        /\ SetHistory(c, [txn |-> t, identified |-> TRUE])
    BY <1>8 DEF MatchFrame, MatchAgain, Base, TypeOK
  <2>2. Identified(c, t)'
    <3>1. /\ DOMAIN cam_detection_his' = DOMAIN cam_detection_his \union {c}
          /\ cam_detection_his'[c] = [txn |-> t, identified |-> TRUE]
      BY <1>2, <2>1, SetFacts
    <3>2. QED
      BY <3>1 DEF Identified, Knows
  <2>3. t \notin ended => found[t] = 0 /\ found'[t] \in {0, 1}
    BY <1>2, <1>6, <2>1
  <2>4. \A u \in Txns \ {t} : found'[u] = found[u]
    BY <2>1
  <2>5. Remembered'
    BY <1>1, <1>2, <1>5, <2>2, <2>3, <2>4 DEF Answered, Remembered
  <2>6. QED
    BY <1>4, <2>5 DEF Answered
<1>9. CASE FailOnFrame(e)
  <2>1. found' = found /\ ~Identified(c, t)
    BY <1>9 DEF FailOnFrame, history
  <2>2. Remembered'
    BY <1>1, <1>2, <1>5, <1>6, <2>1 DEF Answered, Remembered
  <2>3. QED
    BY <1>4, <2>2 DEF Answered
<1>10. QED
  BY <1>7, <1>8, <1>9 DEF TakenFrame

LEMMA AnsweredEnd ==
  ASSUME Base, Answered, NEW e \in Entries, TakeEnd(e) PROVE Answered'
<1> DEFINE c == e.cam
           t == e.txn
<1>1. /\ cam_queue # <<>> /\ cam_queue' = Tail(cam_queue) /\ e = Head(cam_queue)
      /\ UNCHANGED <<detecting_txn, issued, found>> /\ ended' = ended \union {t}
  BY DEF TakeEnd, Take, CamerasRun, camera
<1>2. /\ DOMAIN cam_detection_his' = DOMAIN cam_detection_his \ {c}
      /\ \A d \in DOMAIN cam_detection_his \ {c} : cam_detection_his'[d] = cam_detection_his[d]
      /\ DOMAIN cam_detection_his' \subseteq Cams
  BY DEF TakeEnd, Restrict, Base, TypeOK
<1>3. /\ InLine' /\ Owned'
      /\ \A u : Gone(u) => Gone(u)'
      /\ \A u : Knows(c, u) /\ u # t => Gone(u)'
  BY <1>1, <1>2, AnsweredTail
<1>4. ASSUME NEW u \in Txns \ {t}, NEW d \in Cams, Identified(d, u)
      PROVE  Gone(u)' \/ Identified(d, u)'
  <2>1. d \in DOMAIN cam_detection_his /\ cam_detection_his[d].txn = u
    BY <1>4 DEF Identified, Knows
  <2>2. CASE d = c
    BY <1>3, <2>1, <2>2 DEF Knows
  <2>3. CASE d # c
    BY <1>2, <1>4, <2>1, <2>3 DEF Identified, Knows
  <2>4. QED
    BY <2>2, <2>3
<1>5. Remembered'
  BY <1>1, <1>3, <1>4 DEF Answered, Remembered
<1>6. QED
  BY <1>3, <1>5 DEF Answered

LEMMA AnsweredNext == Base /\ Named /\ Answered /\ [Next]_vars => Answered'
<1> SUFFICES ASSUME Base, Named, Answered, [Next]_vars PROVE Answered'
  OBVIOUS
<1> USE DEF camera, history
<1>1. ASSUME UNCHANGED <<detecting_txn, issued, cam_queue, cam_detection_his, found, ended>>
      PROVE  Answered'
  BY <1>1 DEF Answered, InLine, Owned, Remembered, Gone, Identified, Knows, Positions, Cam, Txn
<1>2. ASSUME NEW c \in Cams, CameraStep(c) PROVE Answered'
  <2>1. CASE FeedDetecting(c)
    BY <2>1, AnsweredFeed
  <2>2. CASE SignalEnd(c)
    <3>1. /\ Put("SESSION_END", c) /\ ~Full /\ detecting_txn[c] # None
          /\ UNCHANGED <<detecting_txn, issued, cam_detection_his, found, ended>>
      BY <2>2 DEF SignalEnd, DetectorRests
    <3>2. QED
      BY <3>1, AnsweredPut
  <2>3. CASE ClearFeeding(c) \/ GrabFrame(c)
    BY <1>1, <2>3 DEF ClearFeeding, GrabFrame, DetectorRests
  <2>4. CASE PutFrame(c)
    <3>1. /\ c \in grabbed
          /\ UNCHANGED <<detecting_txn, issued, cam_detection_his, found, ended>>
          /\ (Put("FRAME", c) /\ ~Full) \/ UNCHANGED cam_queue
      BY <2>4 DEF PutFrame, DetectorRests
    <3>2. detecting_txn[c] # None
      BY <3>1 DEF Named
    <3>3. QED
      BY <1>1, <3>1, <3>2, AnsweredPut
  <2>5. QED
    BY <1>2, <2>1, <2>2, <2>3, <2>4 DEF CameraStep
<1>3. CASE Drain
  <2>1. UNCHANGED <<detecting_txn, issued, cam_detection_his, found, ended>>
    BY <1>3 DEF Drain, CamerasRun
  <2>2. CASE cam_queue # <<>> /\ cam_queue' = Tail(cam_queue)
    <3>1. InLine' /\ Owned' /\ \A u : Gone(u) => Gone(u)'
      BY <2>1, <2>2, AnsweredTail DEF Base, TypeOK
    <3>2. \A d, u : Identified(d, u)' = Identified(d, u)
      BY <2>1 DEF Identified, Knows
    <3>3. QED
      BY <2>1, <3>1, <3>2 DEF Answered, Remembered
  <2>3. QED
    BY <1>1, <1>3, <2>1, <2>2 DEF Drain
<1>4. CASE Restart
  <2>1. /\ UNCHANGED <<detecting_txn, issued, cam_queue, found>>
        /\ DOMAIN cam_detection_his' = {}
        /\ ended' = ended \union {cam_detection_his[c].txn : c \in DOMAIN cam_detection_his}
    BY <1>4 DEF Restart, CamerasRun
  <2>2. InLine' /\ Owned'
    BY <2>1 DEF Answered, InLine, Owned, Positions, Cam, Txn
  <2>3. Remembered'
    BY <2>1 DEF Answered, Remembered, Gone, Identified, Knows, Positions, Txn
  <2>4. QED
    BY <2>2, <2>3 DEF Answered
<1>5. CASE UNCHANGED vars
  BY <1>1, <1>5 DEF vars
<1>6. QED
  BY <1>2, <1>3, <1>4, <1>5, AnsweredFrame, AnsweredEnd DEF Next, TakeEntry, TakenFrame

\* AnsweredOnce, for any parameters: a second member_detected message for a session needs
\* its end, or the death of the detector, in between.
THEOREM SessionsAreAnsweredOnce == Spec => []AnsweredOnce
<1>1. Answered => AnsweredOnce
  BY DEF Answered, Remembered, AnsweredOnce
<1>2. QED
  BY <1>1, BaseInit, BaseNext, AnsweredInit, AnsweredNext, PTL DEF Spec

================================================================================
