--------------------------- MODULE MatchProofs ---------------------------
(***************************************************************************)
(* Proofs about what a face is matched with and what becomes of a match:   *)
(* MatchRouting for any members, categories, camera items and sessions,    *)
(* any maxsize of the queue and any frames, under every interleaving of    *)
(* the detector, the output loop, save_task and init_cameras; MemberMatch  *)
(* for any fetching threads and members, under every interleaving of the   *)
(* fetches, the detector and its replacement.                              *)
(***************************************************************************)
EXTENDS MatchRouting, MCMemberMatch, FiniteSetTheorems, TLAPS

Histories == [txn : Txns, identified : BOOLEAN]

\* The part of TypeOK that the proofs need: not what the faces are.
RoutingType ==
  /\ his = <<>> \/ his \in Histories
  /\ queued \in 0..QueueMax
  /\ pc = "idle" \/ his # <<>>

\* A history that was written is not the empty one.
LEMMA HistoryNotEmpty ==
  ASSUME NEW t \in Txns, NEW b \in BOOLEAN
  PROVE  [txn |-> t, identified |-> b] # <<>>
<1>1. DOMAIN [txn |-> t, identified |-> b] = {"txn", "identified"}
  OBVIOUS
<1>2. DOMAIN <<>> = {}
  OBVIOUS
<1>3. QED
  BY <1>1, <1>2

\* Remember writes the history of the session.
LEMMA RememberType ==
  ASSUME NEW t \in Txns, NEW b \in BOOLEAN, Remember(t, b)
  PROVE  his' \in Histories /\ his' # <<>> /\ his'.txn = t
BY HistoryNotEmpty DEF Remember, Histories

\* The steps that only route: from the toggles to the next message.
Route == ReadToggle \/ RouteFace \/ RouteUnknown \/ RouteAuthorized \/ TestRoom

\* Routing leaves histories, states and the queue alone.
LEMMA RouteUnchanged ==
  Route => UNCHANGED <<his, sessions, queued, crossed, ended, mixed>> /\ pc # "idle"
BY DEF Route, ReadToggle, RouteFace, RouteUnknown, RouteAuthorized, TestRoom, UseCases

LEMMA RoutingInit == Init => RoutingType
BY RoutingAssumption DEF Init, RoutingType

LEMMA RoutingNext == RoutingType /\ [Next]_vars => RoutingType'
<1> SUFFICES ASSUME RoutingType, [Next]_vars PROVE RoutingType'
  OBVIOUS
<1>1. CASE FetchCameraItems \/ TakeMessage \/ TestClip \/ PutClip
  BY <1>1, RoutingAssumption DEF RoutingType, FetchCameraItems, TakeMessage, TestClip, PutClip, Full
<1>2. ASSUME NEW t \in Txns, EndSession(t) PROVE RoutingType'
  BY <1>2 DEF RoutingType, EndSession
<1>3. ASSUME NEW t \in Txns, IdleFrame(t) PROVE RoutingType'
  BY <1>3, RememberType DEF RoutingType, IdleFrame
<1>4. ASSUME NEW t \in Txns, NEW faces \in Faces, NEW unmatched \in BOOLEAN,
             AnswerFrame(t, faces, unmatched)
      PROVE  RoutingType'
  BY <1>4, RememberType DEF RoutingType, AnswerFrame
<1>5. CASE Route
  BY <1>5, RouteUnchanged DEF RoutingType
<1>6. CASE PutMessage
  BY <1>6, RoutingAssumption DEF RoutingType, PutMessage, Full
<1>7. CASE Restart
  BY <1>7 DEF RoutingType, Restart
<1>8. CASE UNCHANGED vars
  BY <1>8 DEF RoutingType, vars
<1>9. QED
  BY <1>1, <1>2, <1>3, <1>4, <1>5, <1>6, <1>7, <1>8 DEF Next, Detect, Route

LEMMA RoutingTyped == Spec => []RoutingType
BY RoutingInit, RoutingNext, PTL DEF Spec

(***************************************************************************)
(* What ends the detector. At its put the queue has room, unless another   *)
(* thread has put since its full().                                        *)
(***************************************************************************)
PutInv == (pc = "put" /\ Full) \/ pc = "dead" => crossed

LEMMA PutNext == RoutingType /\ PutInv /\ [Next]_vars => PutInv'
<1> SUFFICES ASSUME RoutingType, PutInv, [Next]_vars PROVE PutInv'
  OBVIOUS
<1>1. CASE FetchCameraItems \/ TakeMessage \/ TestClip \/ PutClip
  <2>1. CASE FetchCameraItems \/ TestClip
    BY <2>1 DEF PutInv, FetchCameraItems, TestClip, Full
  <2>2. CASE TakeMessage
    <3>1. Full' => Full
      BY <2>2, RoutingAssumption DEF RoutingType, TakeMessage, Full
    <3>2. QED
      BY <2>2, <3>1 DEF PutInv, TakeMessage
  <2>3. CASE PutClip
    <3>1. CASE Full /\ UNCHANGED <<queued, crossed>>
      BY <2>3, <3>1 DEF PutInv, PutClip, Full
    <3>2. CASE crossed' = (crossed \/ pc = "put")
      BY <2>3, <3>2, Zenon DEF PutInv, PutClip
    <3>3. QED
      BY <2>3, <3>1, <3>2 DEF PutClip
  <2>4. QED
    BY <1>1, <2>1, <2>2, <2>3
<1>2. CASE \E t \in Txns :
             \/ EndSession(t) \/ IdleFrame(t)
             \/ \E faces \in Faces, unmatched \in BOOLEAN : AnswerFrame(t, faces, unmatched)
  BY <1>2 DEF PutInv, EndSession, IdleFrame, AnswerFrame
<1>3. CASE ReadToggle \/ RouteFace \/ RouteUnknown \/ RouteAuthorized
  BY <1>3 DEF PutInv, ReadToggle, RouteFace, RouteUnknown, RouteAuthorized, Blocklisted, Authorized,
              Inactive, Offer, UseCases
<1>4. CASE TestRoom
  BY <1>4 DEF PutInv, TestRoom, Continue, Full
<1>5. CASE PutMessage
  BY <1>5 DEF PutInv, PutMessage, Continue, Full
<1>6. CASE Restart
  BY <1>6 DEF PutInv, Restart
<1>7. CASE UNCHANGED vars
  BY <1>7 DEF PutInv, vars, Full
<1>8. QED
  BY <1>1, <1>2, <1>3, <1>4, <1>5, <1>6, <1>7 DEF Next, Detect

\* DiesOfRace, for any queue: queue.Full ends the detector only if another thread put
\* a message between its full() and its put().
THEOREM DiesOnlyOfRace == Spec => []DiesOfRace
<1>1. Init => PutInv
  BY DEF Init, PutInv
<1>2. PutInv => DiesOfRace
  BY DEF PutInv, DiesOfRace
<1>3. QED
  BY <1>1, <1>2, PutNext, RoutingTyped, PTL DEF Spec

(***************************************************************************)
(* Whose state is kept. StateCleared is about sessions that have ended;    *)
(* what makes it inductive is about those that have not: a state without a *)
(* mishap belongs to the session the camera's history is about, so that    *)
(* the SESSION_END of this session finds a history.                        *)
(***************************************************************************)
StateInv == \A s \in sessions \ mixed : Knows(s) /\ s \notin ended

LEMMA StateNext == RoutingType /\ StateInv /\ [Next]_vars => StateInv'
<1> SUFFICES ASSUME RoutingType, StateInv, [Next]_vars PROVE StateInv'
  OBVIOUS
<1>1. CASE FetchCameraItems \/ TakeMessage \/ TestClip \/ PutClip \/ PutMessage
  BY <1>1 DEF StateInv, Knows, FetchCameraItems, TakeMessage, TestClip, PutClip, PutMessage
<1>2. ASSUME NEW t \in Txns, EndSession(t) PROVE StateInv'
  BY <1>2 DEF StateInv, Knows, EndSession, clear_session_state
<1>3. ASSUME NEW t \in Txns, IdleFrame(t) PROVE StateInv'
  <2>1. his' # <<>> /\ his'.txn = t
    BY <1>3, RememberType DEF IdleFrame
  <2>2. QED
    BY <1>3, <2>1 DEF StateInv, Knows, IdleFrame, Remember
<1>4. ASSUME NEW t \in Txns, NEW faces \in Faces, NEW unmatched \in BOOLEAN,
             AnswerFrame(t, faces, unmatched)
      PROVE  StateInv'
  <2>1. his' # <<>> /\ his'.txn = t
    BY <1>4, RememberType DEF AnswerFrame
  <2>2. sessions' \subseteq sessions \union {t}
    BY <1>4 DEF AnswerFrame, get_session_state
  <2>3. UNCHANGED ended /\ Remember(t, TRUE)
    BY <1>4 DEF AnswerFrame
  <2>4. t \in ended' => t \in mixed'
    BY <2>3 DEF Remember
  <2>5. \A s \in sessions \ {t} : s \in mixed'
    BY <2>3 DEF StateInv, Knows, Remember
  <2>6. QED
    BY <2>1, <2>2, <2>4, <2>5 DEF StateInv, Knows
<1>5. CASE Route
  BY <1>5, RouteUnchanged DEF StateInv, Knows
<1>6. CASE Restart
  BY <1>6 DEF RoutingType, StateInv, Knows, Restart
<1>7. CASE UNCHANGED vars
  BY <1>7 DEF StateInv, Knows, vars
<1>8. QED
  BY <1>1, <1>2, <1>3, <1>4, <1>5, <1>6, <1>7 DEF Next, Detect, Route

\* StateCleared, for any sessions and any order of frames and ends: a state outlives
\* its session's end only if the session was answered after it, or its history was
\* overwritten or lost.
THEOREM StatesAreCleared == Spec => []StateCleared
<1>1. Init => StateInv
  BY DEF Init, StateInv
<1>2. StateInv => StateCleared
  BY DEF StateInv, StateCleared
<1>3. QED
  BY <1>1, <1>2, StateNext, RoutingTyped, PTL DEF Spec

--------------------------------------------------------------------------------
(* Types of the frame that is routed. *)

Events == [txn : Txns, faces : Faces, unmatched : BOOLEAN]

\* While a frame is routed it names a session, and the authorized faces are some of
\* those that were routed.
FrameType ==
  /\ FACE_BACKEND \in Backends /\ camera_item \in {{}} \union {{item} : item \in Items}
  /\ sessions \subseteq Txns /\ ended \subseteq Txns /\ mixed \subseteq Txns
  /\ pc \in UseCases \union {"idle", "faces", "unknown", "default", "test", "put", "dead"}
  /\ event \in Events \/ (event = NoEvent /\ pc = "idle")
  /\ uc \subseteq UseCases
  /\ rest \in Seq(Members) /\ authorized \in Seq(Members)
  /\ Len(rest) + Len(authorized) <= MaxFaces
  /\ msg \in Messages(Faces) \/ (msg = Nothing /\ pc \notin {"test", "put"})
  /\ saving \in BOOLEAN /\ clips \in 0..MaxClips /\ (saving => clips < MaxClips)
  /\ offered \subseteq Messages(Faces) /\ crossed \in BOOLEAN

LEMMA FacesFacts ==
  \A s : s \in Faces <=> s \in Seq(Members) /\ Len(s) <= MaxFaces
<1>1. ASSUME NEW s, s \in Faces PROVE s \in Seq(Members) /\ Len(s) <= MaxFaces
  <2>1. PICK n \in 0..MaxFaces : s \in [1..n -> Members]
    BY <1>1 DEF Faces
  <2>2. QED
    BY <2>1, RoutingAssumption
<1>2. ASSUME NEW s \in Seq(Members), Len(s) <= MaxFaces PROVE s \in Faces
  <2>1. Len(s) \in 0..MaxFaces /\ s \in [1..Len(s) -> Members]
    BY <1>2, RoutingAssumption
  <2>2. QED
    BY <2>1 DEF Faces
<1>3. QED
  BY <1>1, <1>2

LEMMA FrameTypes == RoutingType /\ FrameType => TypeOK
<1> SUFFICES ASSUME RoutingType, FrameType PROVE TypeOK
  OBVIOUS
<1>1. rest \in Faces /\ authorized \in Faces
  BY FacesFacts, RoutingAssumption DEF FrameType
<1>2. QED
  BY <1>1 DEF RoutingType, FrameType, TypeOK, Histories, Events

LEMMA FrameInit == Init => FrameType
<1> SUFFICES ASSUME Init PROVE FrameType
  OBVIOUS
<1>1. <<>> \in Seq(Members) /\ Len(<<>>) = 0
  OBVIOUS
<1>2. camera_item \in {{item} : item \in Items} /\ FACE_BACKEND \in Backends
  BY DEF Init
<1>3. Len(rest) + Len(authorized) <= MaxFaces /\ clips \in 0..MaxClips
  BY <1>1, RoutingAssumption DEF Init
<1>4. QED
  BY <1>1, <1>2, <1>3 DEF Init, FrameType

\* The part of FrameType that the environment disturbs.
LEMMA EnvironmentTyped ==
  ASSUME FrameType, FetchCameraItems \/ TakeMessage \/ TestClip \/ PutClip
  PROVE  FrameType'
<1>1. CASE FetchCameraItems \/ TakeMessage
  BY <1>1 DEF FrameType, FetchCameraItems, TakeMessage, environment, routing, clipping
<1>2. CASE TestClip
  BY <1>2 DEF FrameType, TestClip, environment, routing
<1>3. CASE PutClip
  <2>1. (crossed \/ pc = "put") \in BOOLEAN
    OBVIOUS
  <2>2. crossed' \in BOOLEAN
    BY <1>3, <2>1, Zenon DEF PutClip, FrameType
  <2>3. clips' \in 0..MaxClips
    BY <1>3, RoutingAssumption DEF PutClip, FrameType
  <2>4. QED
    BY <1>3, <2>2, <2>3 DEF FrameType, PutClip, environment, routing
<1>4. QED
  BY <1>1, <1>2, <1>3

\* A message about the frame at hand.
LEMMA MessageTyped ==
  ASSUME event \in Events, NEW type \in Types, NEW members \in Faces
  PROVE  Message(type, members) \in Messages(Faces)
BY DEF Events, Message, Messages

LEMMA RouteFaceTyped ==
  ASSUME FrameType, RouteFace
  PROVE  FrameType'
<1> DEFINE m == Head(rest)
<1>1. /\ rest \in Seq(Members) /\ rest # <<>> /\ rest' = Tail(rest)
      /\ authorized \in Seq(Members) /\ Len(rest) + Len(authorized) <= MaxFaces
  BY DEF FrameType, RouteFace
<1>2. /\ m \in Members /\ rest' \in Seq(Members) /\ Len(rest') = Len(rest) - 1
      /\ Len(rest) \in Nat \ {0} /\ Len(authorized) \in Nat /\ MaxFaces \in Nat
  BY <1>1, RoutingAssumption
<1>3. /\ authorized' \in Seq(Members) /\ Len(authorized') \in {Len(authorized), Len(authorized) + 1}
  <2>1. authorized' = authorized \/ authorized' = Append(authorized, m)
    BY DEF RouteFace, Blocklisted, Authorized, Inactive
  <2>2. Append(authorized, m) \in Seq(Members) /\ Len(Append(authorized, m)) = Len(authorized) + 1
    BY <1>1, <1>2
  <2>3. QED
    BY <1>1, <2>1, <2>2
<1>4. Len(rest') + Len(authorized') <= MaxFaces
  BY <1>1, <1>2, <1>3
<1>5. <<m>> \in Faces
  <2>1. <<m>> \in Seq(Members) /\ Len(<<m>>) = 1
    BY <1>2
  <2>2. MaxFaces >= 1
    BY <1>1, <1>2
  <2>3. QED
    BY <1>2, <2>1, <2>2, FacesFacts
<1>6. event \in Events /\ pc = "faces"
  BY DEF FrameType, RouteFace
<1>7. \/ msg' \in Messages(Faces) /\ pc' = "test"
      \/ UNCHANGED <<msg, pc>>
  BY <1>5, <1>6, MessageTyped DEF RouteFace, Blocklisted, Authorized, Inactive, Offer, Types
<1>8. UNCHANGED <<environment, sessions, event, uc, clipping, offered, crossed, ended, mixed>>
  BY DEF RouteFace
<1>9. QED
  BY <1>2, <1>3, <1>4, <1>6, <1>7, <1>8 DEF FrameType, environment, clipping

LEMMA RouteTyped ==
  ASSUME FrameType, Route
  PROVE  FrameType'
<1>1. CASE RouteFace
  BY <1>1, RouteFaceTyped
<1>2. CASE ReadToggle
  BY <1>2 DEF FrameType, ReadToggle, UseCases, environment, clipping
<1>3. CASE RouteUnknown
  <2>1. event \in Events
    BY <1>3 DEF FrameType, RouteUnknown
  <2>2. <<>> \in Faces
    <3>1. <<>> \in Seq(Members) /\ Len(<<>>) = 0
      OBVIOUS
    <3>2. 0 <= MaxFaces
      BY RoutingAssumption
    <3>3. Len(<<>>) <= MaxFaces
      BY <3>1, <3>2
    <3>4. QED
      BY <3>1, <3>3, FacesFacts, Zenon
  <2>3. \/ msg' \in Messages(Faces) /\ pc' = "test"
        \/ pc' = "default" /\ UNCHANGED msg
    BY <1>3, <2>1, <2>2, MessageTyped DEF RouteUnknown, Offer, Types
  <2>4. QED
    BY <1>3, <2>1, <2>3 DEF FrameType, RouteUnknown, environment, clipping
<1>4. CASE RouteAuthorized
  <2>1. event \in Events
    BY <1>4 DEF FrameType, RouteAuthorized
  <2>2. authorized \in Faces
    BY FacesFacts, RoutingAssumption DEF FrameType
  <2>3. \/ msg' \in Messages(Faces) /\ pc' = "test"
        \/ pc' = "idle" /\ UNCHANGED msg
    BY <1>4, <2>1, <2>2, MessageTyped DEF RouteAuthorized, Offer, Types
  <2>4. QED
    BY <1>4, <2>1, <2>3 DEF FrameType, RouteAuthorized, environment, clipping
<1>5. CASE TestRoom
  <2>1. event \in Events /\ msg \in Messages(Faces)
    BY <1>5 DEF FrameType, TestRoom
  <2>2. pc' \in {"put", "idle", "default", "faces"} /\ offered' \subseteq Messages(Faces)
    BY <1>5, <2>1 DEF FrameType, TestRoom, Continue
  <2>3. QED
    BY <1>5, <2>1, <2>2 DEF FrameType, TestRoom, environment, routing, clipping
<1>6. QED
  BY <1>1, <1>2, <1>3, <1>4, <1>5 DEF Route

LEMMA RememberMixed ==
  ASSUME RoutingType, NEW t \in Txns, NEW b, Remember(t, b), ended \subseteq Txns, mixed \subseteq Txns
  PROVE  mixed' \subseteq Txns
BY DEF RoutingType, Histories, Remember

LEMMA FrameNext == RoutingType /\ FrameType /\ [Next]_vars => FrameType'
<1> SUFFICES ASSUME RoutingType, FrameType, [Next]_vars PROVE FrameType'
  OBVIOUS
<1>1. CASE FetchCameraItems \/ TakeMessage \/ TestClip \/ PutClip
  BY <1>1, EnvironmentTyped
<1>2. ASSUME NEW t \in Txns, EndSession(t) PROVE FrameType'
  <2>1. ended' \subseteq Txns /\ sessions' \subseteq Txns /\ mixed' \subseteq Txns
    BY <1>2 DEF FrameType, RoutingType, Histories, EndSession, clear_session_state
  <2>2. QED
    BY <1>2, <2>1 DEF FrameType, EndSession, environment, routing, clipping
<1>3. ASSUME NEW t \in Txns, IdleFrame(t) PROVE FrameType'
  <2>1. mixed' \subseteq Txns
    BY <1>3, RememberMixed DEF FrameType, IdleFrame
  <2>2. QED
    BY <1>3, <2>1 DEF FrameType, IdleFrame, environment, routing, clipping
<1>4. ASSUME NEW t \in Txns, NEW faces \in Faces, NEW unmatched \in BOOLEAN,
             AnswerFrame(t, faces, unmatched)
      PROVE  FrameType'
  <2>1. mixed' \subseteq Txns
    BY <1>4, RememberMixed DEF FrameType, AnswerFrame
  <2>2. event' \in Events
    BY <1>4 DEF AnswerFrame, Events
  <2>3. /\ rest' \in Seq(Members) /\ authorized' \in Seq(Members)
        /\ Len(rest') + Len(authorized') <= MaxFaces
    <3>1. rest' = faces /\ authorized' = <<>> /\ faces \in Seq(Members) /\ Len(faces) <= MaxFaces
      BY <1>4, FacesFacts DEF AnswerFrame
    <3>2. QED
      BY <3>1
  <2>4. pc' \in {"uc1", "unknown"} /\ sessions' \subseteq Txns
    BY <1>4 DEF FrameType, AnswerFrame, get_session_state
  <2>5. QED
    BY <1>4, <2>1, <2>2, <2>3, <2>4 DEF FrameType, AnswerFrame, UseCases, environment, clipping
<1>5. CASE Route
  BY <1>5, RouteTyped
<1>6. CASE PutMessage
  <2>1. event \in Events /\ msg \in Messages(Faces)
    BY <1>6 DEF FrameType, PutMessage
  <2>2. pc' \in {"dead", "idle", "default", "faces"} /\ offered' \subseteq Messages(Faces)
    BY <1>6, <2>1 DEF FrameType, PutMessage, Continue
  <2>3. QED
    BY <1>6, <2>1, <2>2 DEF FrameType, PutMessage, environment, routing, clipping
<1>7. CASE Restart
  <2>1. mixed' \subseteq Txns
    BY <1>7 DEF FrameType, RoutingType, Histories, Restart
  <2>2. /\ rest' \in Seq(Members) /\ authorized' \in Seq(Members)
        /\ Len(rest') + Len(authorized') <= MaxFaces
    BY <1>7, RoutingAssumption DEF Restart
  <2>3. QED
    BY <1>7, <2>1, <2>2 DEF FrameType, Restart, environment, clipping
<1>8. CASE UNCHANGED vars
  BY <1>8 DEF FrameType, vars, environment, routing, clipping
<1>9. QED
  BY <1>1, <1>2, <1>3, <1>4, <1>5, <1>6, <1>7, <1>8 DEF Next, Detect, Route

LEMMA FrameTyped == Spec => []FrameType
BY FrameInit, FrameNext, RoutingTyped, PTL DEF Spec

\* TypeOK, for any faces, categories and sizes: scanner_output_queue keeps its maxsize,
\* and every message is about the session of the frame and its members.
THEOREM TypesHold == Spec => []TypeOK
BY FrameTypes, FrameTyped, RoutingTyped, PTL

--------------------------------------------------------------------------------
(***************************************************************************)
(* What is announced. Selected grows by one when a face that may enter is  *)
(* routed; AnnounceInv says of every place of the routing which messages   *)
(* were made by then, and Announced is what it says at the end.            *)
(***************************************************************************)
Rank(at, i) == Cardinality({j \in at : j <= i})
Nth(at, k) == CHOOSE i \in at : Rank(at, i) = k

LEMMA SelectedIs ==
  \A s, at : Selected(s, at) = [k \in 1..Cardinality(at) |-> s[Nth(at, k)]]
BY Zenon DEF Selected, Nth, Rank

\* A position behind all others is the last one, and leaves the others their rank.
LEMMA RankLast ==
  ASSUME NEW n \in Nat, NEW at \in SUBSET (1..n)
  PROVE  LET more == at \union {n + 1}
         IN  /\ Cardinality(at) \in Nat /\ Cardinality(more) = Cardinality(at) + 1
             /\ Rank(more, n + 1) = Cardinality(at) + 1
             /\ \A i \in at : Rank(more, i) = Rank(at, i) /\ Rank(at, i) <= Cardinality(at)
<1> DEFINE more == at \union {n + 1}
<1>1. IsFiniteSet(at) /\ Cardinality(at) \in Nat
  <2>1. IsFiniteSet(1..n)
    BY FS_Interval
  <2>2. QED
    BY <2>1, FS_Subset, FS_CardinalityType
<1>2. Cardinality(more) = Cardinality(at) + 1
  BY <1>1, FS_AddElement
<1>3. {j \in more : j <= n + 1} = more
  <2>1. \A j \in more : j <= n + 1
    OBVIOUS
  <2>2. QED
    BY <2>1
<1>4. ASSUME NEW i \in at
      PROVE  Rank(more, i) = Rank(at, i) /\ Rank(at, i) <= Cardinality(at)
  <2>1. {j \in more : j <= i} = {j \in at : j <= i}
    OBVIOUS
  <2>2. {j \in at : j <= i} \subseteq at
    OBVIOUS
  <2>3. QED
    BY <1>1, <2>1, <2>2, FS_Subset DEF Rank
<1>5. Rank(more, n + 1) = Cardinality(at) + 1
  BY <1>2, <1>3 DEF Rank
<1>6. QED
  BY <1>1, <1>2, <1>4, <1>5

LEMMA SelectedAppend ==
  ASSUME NEW s, NEW n \in Nat, NEW at \in SUBSET (1..n)
  PROVE  Selected(s, at \union {n + 1}) = Append(Selected(s, at), s[n + 1])
<1> DEFINE more == at \union {n + 1}
           c == Cardinality(at)
<1>1. /\ c \in Nat /\ Cardinality(more) = c + 1 /\ Rank(more, n + 1) = c + 1
      /\ \A i \in at : Rank(more, i) = Rank(at, i) /\ Rank(at, i) <= c
  BY RankLast
<1>2. ASSUME NEW k \in 1..c PROVE Nth(more, k) = Nth(at, k)
  <2>1. \A i : (i \in more /\ Rank(more, i) = k) <=> (i \in at /\ Rank(at, i) = k)
    <3>1. \A i \in at : Rank(more, i) = Rank(at, i)
      BY <1>1
    <3>2. Rank(more, n + 1) # k
      <4> HIDE DEF c, more
      <4>1. QED
        BY <1>1
    <3>3. QED
      BY <3>1, <3>2, Zenon
  <2>2. QED
    BY <2>1, Zenon DEF Nth
<1>3. Nth(more, c + 1) = n + 1
  <2>1. \A i \in at : Rank(more, i) # c + 1
    BY <1>1
  <2>2. n + 1 \in more /\ \A i \in more : Rank(more, i) = c + 1 <=> i = n + 1
    BY <1>1, <2>1
  <2>3. QED
    BY <2>2, Zenon DEF Nth
<1> DEFINE f == [k \in 1..c |-> s[Nth(at, k)]]
<1>4. Selected(s, more) = [k \in 1..(c + 1) |-> s[Nth(more, k)]] /\ Selected(s, at) = f
  BY <1>1, SelectedIs, Zenon
<1>5. f \in Seq({f[k] : k \in 1..c}) /\ Len(f) = c
  BY <1>1
<1>6. [k \in 1..(c + 1) |-> s[Nth(more, k)]]
      = [k \in 1..(c + 1) |-> IF k = c + 1 THEN s[n + 1] ELSE f[k]]
  <2>1. ASSUME NEW k \in 1..(c + 1)
        PROVE  s[Nth(more, k)] = IF k = c + 1 THEN s[n + 1] ELSE f[k]
    <3>1. CASE k = c + 1
      BY <1>3, <3>1
    <3>2. CASE k # c + 1
      <4>1. k \in 1..c
        BY <1>1, <3>2
      <4>2. QED
        BY <1>2, <3>2, <4>1
    <3>3. QED
      BY <3>1, <3>2
  <2> HIDE DEF f
  <2>2. QED
    BY <2>1
<1>7. Append(f, s[n + 1]) = [k \in 1..(c + 1) |-> IF k = c + 1 THEN s[n + 1] ELSE f[k]]
  <2> DEFINE S == {f[k] : k \in 1..c} \union {s[n + 1]}
  <2>1. f \in Seq(S) /\ s[n + 1] \in S
    BY <1>1
  <2> HIDE DEF f
  <2>2. Append(f, s[n + 1]) \in Seq(S) /\ Len(Append(f, s[n + 1])) = c + 1
        /\ \A k \in 1..(c + 1) : Append(f, s[n + 1])[k] = IF k = c + 1 THEN s[n + 1] ELSE f[k]
    BY <1>1, <1>5, <2>1
  <2>3. QED
    BY <1>1, <2>2
<1>8. QED
  BY <1>4, <1>6, <1>7

LEMMA SelectedNone ==
  ASSUME NEW s, NEW at, IsFiniteSet(at)
  PROVE  Selected(s, at) = <<>> <=> at = {}
<1>1. Cardinality(at) \in Nat /\ (Cardinality(at) = 0 <=> at = {})
  BY FS_CardinalityType, FS_EmptySet
<1> DEFINE f == [k \in 1..Cardinality(at) |-> s[Nth(at, k)]]
<1>2. f = <<>> <=> Cardinality(at) = 0
  BY <1>1
<1>3. Selected(s, at) = f
  BY SelectedIs
<1>4. QED
  BY <1>1, <1>2, <1>3

\* Where the detector is in its frame: with a message to put, where it goes on after that.
Place ==
  IF pc \notin {"test", "put"} THEN pc
  ELSE CASE msg.type = "member_detected" -> "idle"
         [] msg.type = "unknown_face" -> "default"
         [] OTHER -> "faces"

\* The messages of the frame so far, the one about to be put among them.
Made == IF pc \in {"test", "put"} THEN offered \union {msg} ELSE offered

\* The number of faces routed so far.
Routed == Len(event.faces) - Len(rest)

\* The first n faces of a frame: those who may enter, and what the others call for.
Entering(e, n) == {i \in 1..n : MayEnter(e.faces[i])}
Alerts(e, on, n) ==
  IF "uc5" \in on THEN {Alert(e, e.faces[i]) : i \in 1..n \ Entering(e, n)} ELSE {}

\* What the unknown faces of a frame call for.
Unknown(e, on) ==
  IF e.unmatched /\ (e.faces = <<>> \/ "uc3" \in on)
  THEN {[type |-> "unknown_face", txn |-> e.txn, members |-> <<>>]} ELSE {}

\* At each place the messages made are what the faces routed by then call for.
AnnounceInv ==
  /\ Place \in UseCases => rest = event.faces /\ rest # <<>> /\ authorized = <<>> /\ Made = {}
  /\ Place = "faces" =>
       /\ event.faces # <<>> /\ Routed \in Nat
       /\ \A k \in 1..Len(rest) : rest[k] = event.faces[Routed + k]
       /\ authorized = Selected(event.faces, Entering(event, Routed))
       /\ Made = Alerts(event, uc, Routed)
  /\ Place = "unknown" =>
       event.faces = <<>> /\ event.unmatched /\ authorized = <<>> /\ Made = {}
  /\ Place = "default" =>
       /\ authorized = Selected(event.faces, Entering(event, Len(event.faces)))
       /\ Made = Alerts(event, uc, Len(event.faces)) \union Unknown(event, uc)
  /\ Place = "idle" => Made = Announcements(event, uc)

LEMMA EnteringFinite ==
  ASSUME NEW e, NEW n \in Nat
  PROVE  IsFiniteSet(Entering(e, n))
<1>1. IsFiniteSet(1..n) /\ Entering(e, n) \subseteq 1..n
  BY FS_Interval DEF Entering
<1>2. QED
  BY <1>1, FS_Subset

\* No face was routed.
LEMMA NoneRouted ==
  \A e, on : Selected(e.faces, Entering(e, 0)) = <<>> /\ Alerts(e, on, 0) = {}
<1> TAKE e, on
<1>1. Entering(e, 0) = {} /\ 1..0 = {}
  BY DEF Entering
<1>2. Selected(e.faces, {}) = <<>>
  BY FS_EmptySet, SelectedNone
<1>3. QED
  BY <1>1, <1>2 DEF Alerts

\* One face more was routed.
LEMMA OneMore ==
  ASSUME NEW e, NEW on, NEW n \in Nat
  PROVE  LET m == e.faces[n + 1]
         IN  /\ MayEnter(m) =>
                  /\ Selected(e.faces, Entering(e, n + 1))
                     = Append(Selected(e.faces, Entering(e, n)), m)
                  /\ Alerts(e, on, n + 1) = Alerts(e, on, n)
             /\ ~MayEnter(m) =>
                  /\ Selected(e.faces, Entering(e, n + 1)) = Selected(e.faces, Entering(e, n))
                  /\ Alerts(e, on, n + 1) =
                       IF "uc5" \in on THEN Alerts(e, on, n) \union {Alert(e, m)} ELSE {}
<1> DEFINE m == e.faces[n + 1]
<1>1. 1..(n + 1) = 1..n \union {n + 1} /\ n + 1 \notin 1..n /\ Entering(e, n) \subseteq 1..n
  BY DEF Entering
<1>2. CASE MayEnter(m)
  <2>1. Entering(e, n + 1) = Entering(e, n) \union {n + 1}
    BY <1>1, <1>2 DEF Entering
  <2>2. 1..(n + 1) \ Entering(e, n + 1) = 1..n \ Entering(e, n)
    BY <1>1, <2>1
  <2>3. QED
    BY <1>1, <1>2, <2>1, <2>2, SelectedAppend DEF Alerts
<1>3. CASE ~MayEnter(m)
  <2>1. Entering(e, n + 1) = Entering(e, n)
    BY <1>1, <1>3 DEF Entering
  <2>2. 1..(n + 1) \ Entering(e, n + 1) = (1..n \ Entering(e, n)) \union {n + 1}
    BY <1>1, <2>1
  <2>3. QED
    BY <1>3, <2>1, <2>2 DEF Alerts
<1>4. QED
  BY <1>2, <1>3

\* The messages of a frame that has been routed to its end.
LEMMA AnnouncementsAre ==
  ASSUME NEW e, NEW on, e.faces \in Seq(Members)
  PROVE  LET at == Entering(e, Len(e.faces))
         IN  /\ Announcements(e, on) =
                  (IF at = {} THEN {}
                   ELSE {[type |-> "member_detected", txn |-> e.txn,
                          members |-> Selected(e.faces, at)]})
                  \union Alerts(e, on, Len(e.faces)) \union Unknown(e, on)
             /\ IsFiniteSet(at)
<1>1. DOMAIN e.faces = 1..Len(e.faces) /\ Len(e.faces) \in Nat
  OBVIOUS
<1>2. {i \in DOMAIN e.faces : MayEnter(e.faces[i])} = Entering(e, Len(e.faces))
  BY <1>1 DEF Entering
<1>3. QED
  BY <1>1, <1>2, EnteringFinite, Zenon DEF Announcements, Alerts, Unknown

\* There is nothing to announce before the first frame.
LEMMA NothingAnnounced == Announcements(NoEvent, {}) = {}
<1>1. NoEvent.faces = <<>> /\ NoEvent.unmatched = FALSE
  BY DEF NoEvent
<1>2. DOMAIN NoEvent.faces = {}
  BY <1>1
<1>3. {i \in DOMAIN NoEvent.faces : MayEnter(NoEvent.faces[i])} = {}
  BY <1>2, Zenon
<1>4. QED
  BY <1>1, <1>3, Zenon DEF Announcements

LEMMA AnnounceInit == Init => AnnounceInv
<1> SUFFICES ASSUME Init PROVE AnnounceInv
  OBVIOUS
<1>1. Place = "idle" /\ Made = {}
  BY DEF Init, Place, Made
<1>2. QED
  BY <1>1, NothingAnnounced DEF AnnounceInv, Init, UseCases

\* A step that moves nothing of the frame, or puts the message, or drops it.
LEMMA AnnounceStays ==
  ASSUME AnnounceInv, Place' = Place, Made' = Made, UNCHANGED <<event, uc, rest, authorized>>
  PROVE  AnnounceInv'
BY DEF AnnounceInv, Routed

LEMMA AnswerAnnounced ==
  ASSUME NEW t \in Txns, NEW faces \in Faces, NEW unmatched \in BOOLEAN,
         AnswerFrame(t, faces, unmatched)
  PROVE  AnnounceInv'
<1>1. /\ event'.faces = faces /\ event'.unmatched = unmatched
      /\ rest' = faces /\ authorized' = <<>> /\ offered' = {}
  BY DEF AnswerFrame
<1>2. \/ pc' = "uc1" /\ faces # <<>>
      \/ pc' = "unknown" /\ faces = <<>> /\ unmatched
  BY DEF AnswerFrame
<1>3. Place' = pc' /\ Made' = {}
  BY <1>1, <1>2 DEF Place, Made
<1>4. QED
  BY <1>1, <1>2, <1>3 DEF AnnounceInv, UseCases

LEMMA ToggleAnnounced ==
  ASSUME FrameType, AnnounceInv, ReadToggle
  PROVE  AnnounceInv'
<1>1. /\ pc \in UseCases /\ pc' \in {"uc3", "uc5", "faces"}
      /\ UNCHANGED <<event, rest, authorized, offered>>
  BY DEF ReadToggle, UseCases
<1>2. Place = pc /\ Made = offered /\ Place' = pc' /\ Made' = offered
  BY <1>1 DEF Place, Made, UseCases
<1>3. rest = event.faces /\ rest # <<>> /\ authorized = <<>> /\ offered = {}
  BY <1>1, <1>2 DEF AnnounceInv
<1>4. rest \in Seq(Members) /\ Len(rest) \in Nat
  BY DEF FrameType
<1>5. Routed' = 0 /\ \A k \in 1..Len(rest) : rest[k] = event.faces[0 + k]
  BY <1>1, <1>3, <1>4 DEF Routed
<1>6. /\ Selected(event'.faces, Entering(event', 0)) = <<>>
      /\ Alerts(event', uc', 0) = {}
  BY NoneRouted
<1>7. QED
  BY <1>1, <1>2, <1>3, <1>5, <1>6 DEF AnnounceInv, UseCases

LEMMA FaceAnnounced ==
  ASSUME FrameType, AnnounceInv, RouteFace
  PROVE  AnnounceInv'
<1> DEFINE n == Routed
           m == event.faces[n + 1]
<1>1. /\ pc = "faces" /\ rest # <<>> /\ rest' = Tail(rest) /\ UNCHANGED <<event, uc, offered>>
      /\ Blocklisted(Head(rest)) \/ Authorized(Head(rest)) \/ Inactive(Head(rest))
  BY DEF RouteFace
<1>2. Place = "faces" /\ Made = offered
  BY <1>1 DEF Place, Made
<1>3. /\ event.faces # <<>> /\ n \in Nat
      /\ \A k \in 1..Len(rest) : rest[k] = event.faces[n + k]
      /\ authorized = Selected(event.faces, Entering(event, n))
      /\ offered = Alerts(event, uc, n)
  BY <1>2 DEF AnnounceInv
<1>4. /\ rest \in Seq(Members) /\ Len(rest) \in Nat \ {0} /\ event \in Events
  BY <1>1 DEF FrameType
<1>5. event.faces \in Seq(Members) /\ Len(event.faces) \in Nat
  BY <1>4, FacesFacts DEF Events
<1>6. Head(rest) = m
  BY <1>3, <1>4
<1>7. Len(rest') = Len(rest) - 1 /\ \A k \in 1..Len(rest') : rest'[k] = rest[k + 1]
  BY <1>1, <1>4
<1>8. Routed' = n + 1
  BY <1>1, <1>4, <1>5, <1>7 DEF Routed
<1>9. \A k \in 1..Len(rest') : rest'[k] = event.faces[n + 1 + k]
  <2> HIDE DEF n
  <2>1. QED
    BY <1>3, <1>4, <1>7
<1>10. SUFFICES /\ Place' = "faces"
                /\ authorized' = Selected(event.faces, Entering(event, n + 1))
                /\ Made' = Alerts(event, uc, n + 1)
  <2> HIDE DEF n
  <2>1. n + 1 \in Nat
    BY <1>3
  <2>2. QED
    BY <1>1, <1>3, <1>8, <1>9, <1>10, <2>1 DEF AnnounceInv, UseCases
<1>11. /\ MayEnter(m) =>
            /\ Selected(event.faces, Entering(event, n + 1))
               = Append(Selected(event.faces, Entering(event, n)), m)
            /\ Alerts(event, uc, n + 1) = Alerts(event, uc, n)
       /\ ~MayEnter(m) =>
            /\ Selected(event.faces, Entering(event, n + 1))
               = Selected(event.faces, Entering(event, n))
            /\ Alerts(event, uc, n + 1) =
                 IF "uc5" \in uc THEN Alerts(event, uc, n) \union {Alert(event, m)} ELSE {}
  <2> HIDE DEF n
  <2>1. QED
    BY <1>3, OneMore
<1>12. "uc5" \notin uc => Alerts(event, uc, n) = {}
  BY DEF Alerts
<1> HIDE DEF n, m
<1>13. CASE Authorized(m)
  <2>1. MayEnter(m) /\ authorized' = Append(authorized, m) /\ pc' = "faces"
    BY <1>1, <1>13 DEF Authorized, MayEnter
  <2>2. Place' = "faces" /\ Made' = offered
    BY <1>1, <2>1 DEF Place, Made
  <2>3. QED
    BY <1>3, <1>11, <2>1, <2>2
<1>14. CASE Blocklisted(m) \/ Inactive(m)
  <2>1. ~MayEnter(m) /\ authorized' = authorized
    BY <1>14 DEF Blocklisted, Inactive, MayEnter
  <2>2. CASE "uc5" \in uc
    <3>1. msg' = Alert(event, m) /\ pc' = "test"
      BY <1>14, <2>2 DEF Blocklisted, Inactive, Offer, Message, Alert
    <3>2. Place' = "faces" /\ Made' = offered \union {Alert(event, m)}
      BY <1>1, <3>1 DEF Place, Made, Alert
    <3>3. QED
      BY <1>3, <1>11, <2>1, <2>2, <3>2
  <2>3. CASE "uc5" \notin uc
    <3>1. pc' = "faces"
      BY <1>1, <1>14, <2>3 DEF Blocklisted, Inactive
    <3>2. Place' = "faces" /\ Made' = offered
      BY <1>1, <3>1 DEF Place, Made
    <3>3. QED
      BY <1>3, <1>11, <1>12, <2>1, <2>3, <3>2
  <2>4. QED
    BY <2>2, <2>3
<1>15. QED
  BY <1>1, <1>6, <1>13, <1>14

LEMMA UnknownAnnounced ==
  ASSUME FrameType, AnnounceInv, RouteUnknown
  PROVE  AnnounceInv'
<1> DEFINE n == Len(event.faces)
           face == [type |-> "unknown_face", txn |-> event.txn, members |-> <<>>]
<1>1. /\ (pc = "faces" /\ rest = <<>>) \/ pc = "unknown"
      /\ Place = pc /\ Made = offered
      /\ UNCHANGED <<event, uc, rest, authorized, offered>>
  BY DEF RouteUnknown, Place, Made
<1>2. event \in Events /\ event.faces \in Seq(Members) /\ n \in Nat
  BY <1>1, FacesFacts DEF FrameType, Events
<1>3. /\ authorized = Selected(event.faces, Entering(event, n))
      /\ offered = Alerts(event, uc, n)
  <2>1. CASE pc = "faces"
    <3>1. Routed = n
      BY <1>1, <1>2, <2>1 DEF Routed
    <3>2. QED
      BY <1>1, <2>1, <3>1 DEF AnnounceInv
  <2>2. CASE pc = "unknown"
    <3>1. event.faces = <<>> /\ n = 0 /\ authorized = <<>> /\ offered = {}
      BY <1>1, <2>2 DEF AnnounceInv
    <3>2. QED
      BY <3>1, NoneRouted
  <2>3. QED
    BY <1>1, <2>1, <2>2
<1>4. Unknown(event, uc) = IF event.unmatched /\ (pc = "unknown" \/ "uc3" \in uc) THEN {face} ELSE {}
  BY <1>1 DEF AnnounceInv, Unknown
<1>5. SUFFICES Place' = "default" /\ Made' = offered \union Unknown(event, uc)
  BY <1>1, <1>3, <1>5 DEF AnnounceInv, UseCases
<1>6. CASE event.unmatched /\ (pc = "unknown" \/ "uc3" \in uc)
  <2>1. msg' = face /\ pc' = "test"
    BY <1>6 DEF RouteUnknown, Offer, Message
  <2>2. QED
    BY <1>1, <1>4, <1>6, <2>1 DEF Place, Made
<1>7. CASE ~(event.unmatched /\ (pc = "unknown" \/ "uc3" \in uc))
  <2>1. pc' = "default"
    BY <1>7 DEF RouteUnknown
  <2>2. QED
    BY <1>1, <1>4, <1>7, <2>1 DEF Place, Made
<1>8. QED
  BY <1>6, <1>7

LEMMA AuthorizedAnnounced ==
  ASSUME FrameType, AnnounceInv, RouteAuthorized
  PROVE  AnnounceInv'
<1> DEFINE n == Len(event.faces)
           at == Entering(event, n)
<1>1. /\ pc = "default" /\ Place = pc /\ Made = offered
      /\ UNCHANGED <<event, uc, rest, authorized, offered>>
  BY DEF RouteAuthorized, Place, Made
<1>2. event.faces \in Seq(Members)
  BY <1>1, FacesFacts DEF FrameType, Events
<1>3. /\ authorized = Selected(event.faces, at)
      /\ offered = Alerts(event, uc, n) \union Unknown(event, uc)
  BY <1>1 DEF AnnounceInv
<1>4. /\ Announcements(event, uc) =
           (IF at = {} THEN {}
            ELSE {[type |-> "member_detected", txn |-> event.txn, members |-> authorized]})
           \union offered
      /\ authorized = <<>> <=> at = {}
  <2>1. /\ Announcements(event, uc) =
             (IF at = {} THEN {}
              ELSE {[type |-> "member_detected", txn |-> event.txn,
                     members |-> Selected(event.faces, at)]})
             \union Alerts(event, uc, n) \union Unknown(event, uc)
        /\ IsFiniteSet(at)
    BY <1>2, AnnouncementsAre
  <2>2. QED
    BY <1>3, <2>1, SelectedNone
<1> HIDE DEF at
<1>5. SUFFICES Place' = "idle" /\ Made' = Announcements(event, uc)
  BY <1>1, <1>5 DEF AnnounceInv, UseCases
<1>6. CASE authorized # <<>>
  <2>1. msg' = [type |-> "member_detected", txn |-> event.txn, members |-> authorized]
        /\ pc' = "test"
    BY <1>6 DEF RouteAuthorized, Offer, Message
  <2>2. QED
    BY <1>1, <1>4, <1>6, <2>1 DEF Place, Made
<1>7. CASE authorized = <<>>
  <2>1. pc' = "idle"
    BY <1>7 DEF RouteAuthorized
  <2>2. QED
    BY <1>1, <1>4, <1>7, <2>1 DEF Place, Made
<1>8. QED
  BY <1>6, <1>7

\* The message is put or dropped, and the detector goes on; or it dies.
LEMMA PutAnnounced ==
  ASSUME AnnounceInv, TestRoom \/ PutMessage
  PROVE  AnnounceInv'
<1>1. pc \in {"test", "put"} /\ UNCHANGED <<event, uc, rest, authorized, msg>>
  BY DEF TestRoom, PutMessage, routing
<1>2. CASE pc' = "put" /\ UNCHANGED offered
  <2>1. Place' = Place /\ Made' = Made
    BY <1>1, <1>2 DEF Place, Made
  <2>2. QED
    BY <1>1, <2>1, AnnounceStays
<1>3. CASE Continue /\ offered' = offered \union {msg}
  <2>1. Place' = Place /\ Made' = Made
    BY <1>1, <1>3 DEF Continue, Place, Made
  <2>2. QED
    BY <1>1, <2>1, AnnounceStays
<1>4. CASE pc' = "dead"
  BY <1>4 DEF AnnounceInv, Place, UseCases
<1>5. QED
  BY <1>2, <1>3, <1>4 DEF TestRoom, PutMessage

LEMMA AnnounceNext == FrameType /\ AnnounceInv /\ [Next]_vars => AnnounceInv'
<1> SUFFICES ASSUME FrameType, AnnounceInv, [Next]_vars PROVE AnnounceInv'
  OBVIOUS
<1>1. CASE UNCHANGED <<pc, event, routing, offered>>
  <2>1. Place' = Place /\ Made' = Made /\ UNCHANGED <<event, uc, rest, authorized>>
    BY <1>1 DEF Place, Made, routing
  <2>2. QED
    BY <2>1, AnnounceStays
<1>2. CASE FetchCameraItems \/ TakeMessage \/ TestClip \/ PutClip
  BY <1>1, <1>2 DEF FetchCameraItems, TakeMessage, TestClip, PutClip
<1>3. ASSUME NEW t \in Txns, EndSession(t) \/ IdleFrame(t) PROVE AnnounceInv'
  BY <1>1, <1>3 DEF EndSession, IdleFrame
<1>4. ASSUME NEW t \in Txns, NEW faces \in Faces, NEW unmatched \in BOOLEAN,
             AnswerFrame(t, faces, unmatched)
      PROVE  AnnounceInv'
  BY <1>4, AnswerAnnounced
<1>5. CASE Restart
  <2>1. Place' = "idle" /\ Made' = {} /\ event' = NoEvent /\ uc' = {}
    BY <1>5 DEF Restart, Place, Made
  <2>2. QED
    BY <2>1, NothingAnnounced DEF AnnounceInv, UseCases
<1>6. CASE UNCHANGED vars
  BY <1>1, <1>6 DEF vars
<1>7. QED
  BY <1>2, <1>3, <1>4, <1>5, <1>6, ToggleAnnounced, FaceAnnounced, UnknownAnnounced,
     AuthorizedAnnounced, PutAnnounced DEF Next, Detect

\* Announced, for any members, categories, camera items, toggles and frames: once the
\* detector is through with a frame, no messages but those its faces call for were put or
\* met a full queue, and of those none that the documents want is missing
\* (SecurityHandlerChain.on_match, DefaultMatchHandler.on_match).
THEOREM FramesAreAnnounced == Spec => []Announced
<1>1. AnnounceInv => (pc = "idle" => offered = Announcements(event, uc))
  BY DEF AnnounceInv, Place, Made
<1>2. AnnounceInv => Announced
  BY <1>1 DEF Announced, Required
<1>3. QED
  BY <1>2, AnnounceInit, AnnounceNext, FrameTyped, PTL DEF Spec

--------------------------------------------------------------------------------
(***************************************************************************)
(* The members that faces are compared with. Base types the lists;         *)
(* SerialInv says what each step of a fetch has made of the detector so    *)
(* far, as long as fetches do not overlap; MatchInv that list and matrix   *)
(* go together while a face is compared, as long as nothing races.         *)
(***************************************************************************)
Positions == {"idle", "query", "assign", "compare", "list", "build", "rows", "norms"}

\* The detector is between one face and the next, or has found a row.
FoundType == found = NoRow \/ (found \in [face : Guests, index : Nat \ {0}] /\ alive = "up")

\* The matrix is the list's, in whatever order.
Coherent == ToSet(member_embeddings) = ToSet(own) /\ Len(member_norms) = Len(member_embeddings)

Current == Coherent /\ ToSet(own) = ToSet(active_members)

\* What a fetch has made of the detector at each position, when it is the only one.
Fetched(t) ==
  /\ fetch_pc[t] = "query" => Current
  /\ fetch_pc[t] \in {"assign", "compare", "list"} => Coherent
  /\ fetch_pc[t] \in {"compare", "list", "rows", "norms"} => value[t] = active_members
  /\ fetch_pc[t] = "list" => (differs[t] <=> ToSet(own) # ToSet(value[t]))
  /\ fetch_pc[t] \in {"build", "rows", "norms"} => own = active_members
  /\ fetch_pc[t] = "norms" => member_embeddings = own

SerialInv ==
  /\ OneAtATime
  /\ Quiet => Current
  /\ \A t \in Fetchers : Fetched(t)

\* A setter is in the middle of its work.
Setting == \E t \in Fetchers : fetch_pc[t] \in {"build", "rows", "norms"}

\* Without a race list and matrix have the same order, but in the middle of a setter,
\* when no face is being compared.
MatchInv ==
  /\ ~overlapped
  /\ ~Setting => member_embeddings = own /\ Len(member_norms) = Len(member_embeddings)
  /\ found # NoRow =>
       ~Setting /\ found.index \in DOMAIN own /\ own[found.index] = found.face
  /\ RightMember

--------------------------------------------------------------------------------
(* Lists of members. *)

LEMMA ListFacts ==
  ASSUME NEW s \in Lists
  PROVE  s \in Seq(Guests) /\ Len(s) \in Nat /\ DOMAIN s = 1..Len(s)
<1>1. PICK S \in SUBSET Guests : s \in [1..Cardinality(S) -> S]
  BY DEF Lists, SetToAllKPermutations, SetToSeqs
<1>2. Cardinality(S) \in Nat
  BY MembersAssumption, FS_Subset, FS_CardinalityType
<1>3. s \in Seq(S)
  BY <1>1, <1>2
<1>4. QED
  BY <1>3

LEMMA AnswerIsList ==
  ASSUME NEW S, S \subseteq Guests
  PROVE  SetToSeqs(S) \subseteq Lists
BY DEF Lists, SetToAllKPermutations

LEMMA EmptyList == <<>> \in Lists
<1>1. Cardinality({}) = 0
  BY FS_EmptySet
<1>2. <<>> \in [1..0 -> {}]
  OBVIOUS
<1>3. <<>> \in SetToSeqs({})
  BY <1>1, <1>2 DEF SetToSeqs
<1>4. QED
  BY <1>3, AnswerIsList

--------------------------------------------------------------------------------
(* Types. *)

Base == MemberTypeOK /\ FoundType

LEMMA BaseInit == MemberInit => Base
<1> SUFFICES ASSUME MemberInit PROVE Base
  OBVIOUS
<1>1. active_members \in Lists
  BY AnswerIsList DEF MemberInit
<1>2. QED
  BY <1>1, EmptyList DEF MemberInit, Base, MemberTypeOK, FoundType, NoRow

\* The steps of a fetch type its variables.
LEMMA FetchTyped ==
  ASSUME Base, NEW t \in Fetchers, FetchStep(t) \/ \E forced \in BOOLEAN : FetchMembers(t, forced)
  PROVE  Base'
<1> USE DEF Base
<1>1. CASE \E forced \in BOOLEAN : FetchMembers(t, forced)
  BY <1>1 DEF FetchMembers, Goto, MemberTypeOK, FoundType, detector
<1>2. CASE Query(t)
  <2>1. active_members' \in Lists
    BY <1>2, AnswerIsList DEF Query, MemberTypeOK
  <2>2. QED
    BY <1>2, <2>1 DEF Query, Goto, MemberTypeOK, FoundType, detector
<1>3. CASE QueryFails(t)
  BY <1>3, EmptyList DEF QueryFails, Return, Goto, MemberTypeOK, FoundType, detector
<1>4. CASE Assign(t)
  <2>1. CASE value' = [value EXCEPT ![t] = active_members] /\ Goto(t, "compare") /\ UNCHANGED differs
    BY <1>4, <2>1 DEF Assign, Goto, MemberTypeOK, FoundType, detector
  <2>2. CASE Return(t)
    BY <1>4, <2>2, EmptyList DEF Assign, Return, Goto, MemberTypeOK, FoundType, detector
  <2>3. QED
    BY <1>4, <2>1, <2>2 DEF Assign
<1>5. CASE Compare(t)
  <2>1. (ToSet(own) # ToSet(value[t])) \in BOOLEAN
    OBVIOUS
  <2>2. QED
    BY <1>5, <2>1 DEF Compare, Goto, MemberTypeOK, FoundType, detector
<1>6. CASE SetList(t)
  <2>1. own' \in Lists
    BY <1>6 DEF SetList, MemberTypeOK
  <2>2. CASE Goto(t, "build") /\ UNCHANGED <<value, differs>>
    BY <1>6, <2>1, <2>2 DEF SetList, Goto, MemberTypeOK, FoundType
  <2>3. CASE Return(t)
    BY <1>6, <2>1, <2>3, EmptyList DEF SetList, Return, Goto, MemberTypeOK, FoundType
  <2>4. QED
    BY <1>6, <2>2, <2>3 DEF SetList
<1>7. CASE Build(t)
  BY <1>7 DEF Build, Goto, MemberTypeOK, FoundType, detector
<1>8. CASE SetRows(t)
  BY <1>8 DEF SetRows, Goto, MemberTypeOK, FoundType
<1>9. CASE SetNorms(t)
  BY <1>9, EmptyList DEF SetNorms, Return, Goto, MemberTypeOK, FoundType
<1>10. QED
  BY <1>1, <1>2, <1>3, <1>4, <1>5, <1>6, <1>7, <1>8, <1>9 DEF FetchStep

\* The row of a face is a row of the matrix or of the norms.
LEMMA IndexTyped ==
  ASSUME MemberTypeOK, NEW face, NEW i \in Indices(face)
  PROVE  i \in Nat \ {0}
<1>1. /\ DOMAIN member_embeddings \subseteq Nat \ {0}
      /\ DOMAIN member_norms \subseteq Nat \ {0}
  BY ListFacts DEF MemberTypeOK
<1>2. i \in DOMAIN member_embeddings \union DOMAIN member_norms
  BY DEF Indices
<1>3. QED
  BY <1>1, <1>2

LEMMA BaseNext == Base /\ [MemberNext]_member_vars => Base'
<1> SUFFICES ASSUME Base, [MemberNext]_member_vars PROVE Base'
  OBVIOUS
<1> USE DEF Base
<1>1. CASE Reserve \/ NewDay \/ Replace
  BY <1>1 DEF Reserve, NewDay, Replace, MemberTypeOK, FoundType, detector, fetchers
<1>2. ASSUME NEW t \in Fetchers, FetchStep(t) \/ \E forced \in BOOLEAN : FetchMembers(t, forced)
      PROVE  Base'
  BY <1>2, FetchTyped
<1>3. ASSUME NEW f \in Guests, FindMatch(f) PROVE Base'
  <2>1. \/ \E i \in Nat \ {0} : found' = [face |-> f, index |-> i] /\ UNCHANGED alive
        \/ alive' = "dead" /\ UNCHANGED found
    BY <1>3, IndexTyped DEF FindMatch
  <2>2. QED
    BY <1>3, <2>1 DEF FindMatch, Rest, MemberTypeOK, FoundType, detector, fetchers, NoRow
<1>4. CASE ReturnMember
  <2>1. found.face \in Guests /\ found.index \in Nat \ {0}
    BY <1>4 DEF ReturnMember, FoundType
  <2>2. found.index <= Len(own) => own[found.index] \in Guests
    BY <2>1, ListFacts DEF MemberTypeOK
  <2>3. identified' \in [face : Guests \union {NoMember}, member : Guests \union {NoMember}]
    BY <1>4, <2>1, <2>2 DEF ReturnMember, MemberTypeOK
  <2>4. QED
    BY <1>4, <2>3 DEF ReturnMember, Rest, MemberTypeOK, FoundType, detector, fetchers, NoRow
<1>5. CASE Die
  BY <1>5 DEF Die, Rest, MemberTypeOK, FoundType, detector, fetchers
<1>6. CASE Discard
  <2>1. /\ fetch_pc' \in [Fetchers -> {"idle", "query", "assign", "compare", "list", "build", "rows", "norms"}]
        /\ value' \in [Fetchers -> Lists]
    BY <1>6, EmptyList DEF Discard, LeaveSetters, MemberTypeOK
  <2>2. differs' \in [Fetchers -> BOOLEAN]
    <3>1. \A t \in Fetchers : (differs[t] /\ ~InSetter(t)) \in BOOLEAN
      OBVIOUS
    <3>2. differs' = [t \in Fetchers |-> differs[t] /\ ~InSetter(t)]
      BY <1>6 DEF Discard, LeaveSetters
    <3>3. QED
      BY <3>1, <3>2, Zenon
  <2>3. QED
    BY <1>6, <2>1, <2>2 DEF Discard, MemberTypeOK, FoundType
<1>7. CASE UNCHANGED member_vars
  BY <1>7 DEF member_vars, MemberTypeOK, FoundType, detector, fetchers
<1>8. QED
  BY <1>1, <1>2, <1>3, <1>4, <1>5, <1>6, <1>7 DEF MemberNext, DetectorStep

\* MCSpec is Spec with its history variables.
LEMMA BaseAlways == MCSpec => []Base
<1>1. MCInit => Base
  BY BaseInit DEF MCInit
<1>2. Base /\ [MCNext]_<<member_vars, overlapped, raced>> => Base'
  BY BaseNext DEF MCNext
<1>3. QED
  BY <1>1, <1>2, PTL DEF MCSpec

\* Type correctness, for any fetchers and members.
THEOREM MemberTypesHold == MCSpec => []MemberTypeOK
<1>1. Base => MemberTypeOK
  BY DEF Base
<1>2. QED
  BY <1>1, BaseAlways, PTL

--------------------------------------------------------------------------------
(* One fetch at a time. *)

\* What a step of a fetch does to the positions.
LEMMA OthersStay ==
  ASSUME Base, NEW t \in Fetchers, FetchStep(t) \/ \E forced \in BOOLEAN : FetchMembers(t, forced)
  PROVE  \A u \in Fetchers \ {t} : fetch_pc'[u] = fetch_pc[u] /\ value'[u] = value[u] /\ differs'[u] = differs[u]
BY DEF Base, MemberTypeOK, FetchStep, FetchMembers, Query, QueryFails, Assign, Compare, SetList, Build,
       SetRows, SetNorms, Return, Goto, fetchers

\* The only fetch at work, the others at rest.
LEMMA OnlyOne ==
  ASSUME Base, SerialInv, NEW t \in Fetchers, Fetching(t)
  PROVE  alive # "new" /\ \A u \in Fetchers \ {t} : fetch_pc[u] = "idle"
BY DEF SerialInv, OneAtATime, Fetching

\* The invariant of the present fetch is all that a step of it has to keep.
LEMMA SerialOf ==
  ASSUME OneAtATime', NEW t \in Fetchers, Fetched(t)', ~Fetching(t)' => Current',
         \A u \in Fetchers \ {t} : fetch_pc'[u] = "idle"
  PROVE  SerialInv'
BY DEF SerialInv, Fetched, Quiet, Fetching

LEMMA SerialFetch ==
  ASSUME Base, SerialInv, OneAtATime', NEW t \in Fetchers, FetchStep(t)
  PROVE  SerialInv'
<1>1. /\ Fetching(t)
      /\ fetch_pc[t] \in {"query", "assign", "compare", "list", "build", "rows", "norms"}
  BY DEF FetchStep, Query, QueryFails, Assign, Compare, SetList, Build, SetRows, SetNorms, Fetching
<1>2. Fetched(t) /\ alive # "new" /\ \A u \in Fetchers \ {t} : fetch_pc'[u] = "idle"
  BY <1>1, OnlyOne, OthersStay DEF SerialInv
<1>3. fetch_pc \in [Fetchers -> Positions] /\ value \in [Fetchers -> Lists] /\ differs \in [Fetchers -> BOOLEAN]
  BY DEF Base, MemberTypeOK, Positions
<1>4. SUFFICES Fetched(t)' /\ (fetch_pc'[t] = "idle" => Current')
  BY <1>2, SerialOf DEF Fetching
<1>5. CASE Query(t)
  BY <1>2, <1>3, <1>5 DEF Query, Goto, Fetched, Current, Coherent, detector
<1>6. CASE QueryFails(t)
  BY <1>2, <1>3, <1>6 DEF QueryFails, Return, Goto, Fetched, Current, Coherent, detector
<1>7. CASE Assign(t)
  BY <1>2, <1>3, <1>7 DEF Assign, Goto, Fetched, Coherent, detector
<1>8. CASE Compare(t)
  <2>1. fetch_pc'[t] = "list" /\ differs'[t] = (ToSet(own) # ToSet(value[t]))
    BY <1>3, <1>8 DEF Compare, Goto
  <2>2. QED
    BY <1>2, <1>8, <2>1 DEF Compare, Fetched, Coherent, detector
<1>9. CASE SetList(t)
  <2>1. fetch_pc[t] = "list" /\ own' = active_members /\ ToSet(member_embeddings) = ToSet(own)
        /\ Len(member_norms) = Len(member_embeddings)
        /\ UNCHANGED <<active_members, member_embeddings, member_norms>>
    BY <1>2, <1>9 DEF SetList, Fetched, Coherent
  <2>2. CASE differs[t]
    BY <1>3, <1>9, <2>1, <2>2 DEF SetList, Goto, Fetched
  <2>3. CASE ~differs[t]
    <3>1. ToSet(own) = ToSet(active_members) /\ fetch_pc'[t] = "idle"
      BY <1>2, <1>3, <1>9, <2>1, <2>3 DEF SetList, Return, Goto, Fetched
    <3>2. QED
      BY <2>1, <3>1 DEF Fetched, Current, Coherent
  <2>4. QED
    BY <2>2, <2>3
<1>10. CASE Build(t)
  BY <1>2, <1>3, <1>10 DEF Build, Goto, Fetched, detector
<1>11. CASE SetRows(t)
  BY <1>2, <1>3, <1>11 DEF SetRows, Goto, Fetched
<1>12. CASE SetNorms(t)
  <2>1. /\ fetch_pc'[t] = "idle" /\ UNCHANGED <<own, active_members, member_embeddings>>
        /\ own = active_members /\ member_embeddings = own /\ value[t] = own
        /\ member_norms' = IF value[t] = <<>> THEN <<>> ELSE member_embeddings
    BY <1>2, <1>3, <1>12 DEF SetNorms, Return, Goto, Fetched
  <2>2. member_norms' = member_embeddings
    BY <2>1
  <2>3. QED
    BY <2>1, <2>2 DEF Fetched, Current, Coherent
<1>13. QED
  BY <1>5, <1>6, <1>7, <1>8, <1>9, <1>10, <1>11, <1>12 DEF FetchStep

LEMMA SerialNext ==
  ASSUME Base, SerialInv, OneAtATime', MemberNext
  PROVE  SerialInv'
<1>1. CASE Reserve \/ NewDay \/ Die \/ DetectorStep \/ Replace
  <2>1. UNCHANGED <<active_members, detector, fetchers>>
    BY <1>1 DEF Reserve, NewDay, Die, DetectorStep, FindMatch, ReturnMember, Rest, Replace
  <2>2. QED
    BY <2>1 DEF SerialInv, Quiet, Fetching, Fetched, Current, Coherent, detector, fetchers
<1>2. ASSUME NEW t \in Fetchers, NEW forced \in BOOLEAN, FetchMembers(t, forced) PROVE SerialInv'
  <2>1. fetch_pc'[t] = "query" /\ UNCHANGED <<active_members, detector>>
    BY <1>2 DEF FetchMembers, Goto, Base, MemberTypeOK
  <2>2. \A u \in Fetchers \ {t} : fetch_pc'[u] = "idle" /\ fetch_pc[u] = "idle"
    BY <1>2, <2>1, OthersStay DEF OneAtATime, Fetching
  <2>3. Current
    BY <1>2, <2>2 DEF FetchMembers, SerialInv, Quiet, Fetching
  <2>4. Fetched(t)' /\ ~(~Fetching(t))'
    BY <2>1, <2>3 DEF Fetched, Current, Coherent, detector, Fetching
  <2>5. QED
    BY <2>2, <2>4, SerialOf DEF Fetching
<1>3. ASSUME NEW t \in Fetchers, FetchStep(t) PROVE SerialInv'
  BY <1>3, SerialFetch
<1>4. CASE Discard
  <2>1. alive' = "new"
    BY <1>4 DEF Discard
  <2>2. \A t \in Fetchers : fetch_pc'[t] = "idle"
    BY <2>1 DEF OneAtATime, Fetching
  <2>3. Current'
    BY <1>4 DEF Discard, Current, Coherent
  <2>4. QED
    BY <2>2, <2>3 DEF SerialInv, Fetched
<1>5. QED
  BY <1>1, <1>2, <1>3, <1>4 DEF MemberNext

LEMMA SerialInit == MCInit => SerialInv
BY DEF MCInit, MemberInit, SerialInv, OneAtATime, Fetching, Current, Coherent, Fetched

LEMMA SerialStep ==
  ASSUME Base, overlapped \/ SerialInv, [MCNext]_<<member_vars, overlapped, raced>>
  PROVE  overlapped' \/ SerialInv'
<1>1. CASE MCNext
  <2>1. overlapped' = (overlapped \/ ~OneAtATime')
    BY <1>1 DEF MCNext
  <2>2. overlapped' \/ (~overlapped /\ OneAtATime')
    BY <2>1, Zenon
  <2>3. MemberNext
    BY <1>1 DEF MCNext
  <2>4. QED
    BY <2>2, <2>3, SerialNext
<1>2. CASE UNCHANGED <<member_vars, overlapped, raced>>
  BY <1>2 DEF member_vars, detector, fetchers, SerialInv, OneAtATime, Quiet, Fetching, Fetched, Current,
              Coherent
<1>3. QED
  BY <1>1, <1>2

\* SerialMatrixCurrent, for any fetchers and members: as long as no two fetches overlap,
\* nor a fetch and a restart, the detector at rest compares with the members of the
\* last fetch.
THEOREM SerialIsCurrent == MCSpec => []SerialMatrixCurrent
<1>1. MCInit => overlapped \/ SerialInv
  BY SerialInit
<1>2. Base /\ (overlapped \/ SerialInv) /\ [MCNext]_<<member_vars, overlapped, raced>>
        => (overlapped \/ SerialInv)'
  BY SerialStep
<1>3. (overlapped \/ SerialInv) => SerialMatrixCurrent
  BY DEF SerialMatrixCurrent, MatrixCurrent, SerialInv, Current, Coherent
<1>4. QED
  BY <1>1, <1>2, <1>3, BaseAlways, PTL DEF MCSpec

--------------------------------------------------------------------------------
(* The right member. *)

LEMMA MatchFetch ==
  ASSUME Base, SerialInv, MatchInv, ~overlapped', ~Disturbed', ~Reordered,
         NEW t \in Fetchers, FetchStep(t)
  PROVE  MatchInv'
<1>1. Fetching(t)
  BY DEF FetchStep, Query, QueryFails, Assign, Compare, SetList, Build, SetRows, SetNorms, Fetching
<1>2. Fetched(t) /\ \A u \in Fetchers \ {t} : fetch_pc[u] = "idle" /\ fetch_pc'[u] = "idle"
  BY <1>1, OnlyOne, OthersStay DEF SerialInv
<1>3. /\ Setting <=> fetch_pc[t] \in {"build", "rows", "norms"}
      /\ Setting' <=> fetch_pc'[t] \in {"build", "rows", "norms"}
  BY <1>2 DEF Setting
<1>4. fetch_pc \in [Fetchers -> Positions]
  BY DEF Base, MemberTypeOK, Positions
<1>5. UNCHANGED <<found, identified>>
  BY DEF FetchStep, Query, QueryFails, Assign, Compare, SetList, Build, SetRows, SetNorms
<1>6. Setting' => found = NoRow
  BY <1>5 DEF Disturbed, Setting, NoRow
<1>7. CASE Query(t) \/ QueryFails(t) \/ Assign(t) \/ Compare(t)
  <2>1. UNCHANGED detector
    BY <1>7 DEF Query, QueryFails, Assign, Compare
  <2>2. ~Setting /\ ~Setting'
    BY <1>3, <1>4, <1>7 DEF Query, QueryFails, Assign, Compare, Return, Goto
  <2>3. QED
    BY <1>5, <2>1, <2>2 DEF MatchInv, detector, RightMember, NoRow
<1>8. CASE SetList(t)
  <2>1. /\ ~Setting /\ own' = value[t] /\ UNCHANGED <<member_embeddings, member_norms>>
        /\ differs[t] <=> ToSet(own) # ToSet(value[t])
    BY <1>2, <1>3, <1>8 DEF SetList, Fetched
  <2>2. CASE differs[t]
    <3>1. Setting'
      BY <1>3, <1>4, <1>8, <2>2 DEF SetList, Goto
    <3>2. QED
      BY <1>5, <1>6, <3>1 DEF MatchInv, RightMember, NoRow
  <2>3. CASE ~differs[t]
    <3>1. own' = own
      BY <2>1, <2>3 DEF Reordered
    <3>2. ~Setting'
      BY <1>3, <1>4, <1>8, <2>3 DEF SetList, Return, Goto
    <3>3. QED
      BY <1>5, <2>1, <3>1, <3>2 DEF MatchInv, RightMember, NoRow
  <2>4. QED
    BY <2>2, <2>3
<1>9. CASE Build(t) \/ SetRows(t)
  <2>1. Setting'
    BY <1>3, <1>4, <1>9 DEF Build, SetRows, Goto
  <2>2. QED
    BY <1>5, <1>6, <2>1 DEF MatchInv, RightMember, NoRow
<1>10. CASE SetNorms(t)
  <2>1. found = NoRow
    BY <1>3, <1>10 DEF MatchInv, SetNorms
  <2>2. /\ UNCHANGED <<own, member_embeddings>>
        /\ member_embeddings = own /\ value[t] = own
        /\ member_norms' = IF value[t] = <<>> THEN <<>> ELSE member_embeddings
    BY <1>2, <1>10 DEF SetNorms, Fetched
  <2>3. member_norms' = member_embeddings
    BY <2>2
  <2>4. QED
    BY <1>5, <2>1, <2>2, <2>3 DEF MatchInv, RightMember, NoRow
<1>11. QED
  BY <1>7, <1>8, <1>9, <1>10 DEF FetchStep

\* A face is compared between two setters, where the row that is its own is the place
\* of its member in the list.
LEMMA MatchFound ==
  ASSUME Base, MatchInv, ~overlapped', ~Disturbed', NEW f \in Guests, FindMatch(f)
  PROVE  MatchInv'
<1>1. UNCHANGED <<detector, fetchers, identified>> /\ found = NoRow
  BY DEF FindMatch, Rest
<1>2. Setting' <=> Setting
  BY <1>1 DEF Setting, fetchers
<1>3. CASE found' = NoRow
  BY <1>1, <1>2, <1>3 DEF MatchInv, detector, RightMember, NoRow
<1>4. CASE found' # NoRow
  <2>1. PICK i \in Indices(f) : found' = [face |-> f, index |-> i]
    BY <1>1, <1>4 DEF FindMatch
  <2>2. ~Setting'
    BY <1>4 DEF Disturbed, Setting, NoRow
  <2>3. member_embeddings = own /\ Len(member_norms) = Len(member_embeddings)
    BY <1>2, <2>2 DEF MatchInv
  <2>4. i \in DOMAIN own /\ own[i] = f
    BY <2>1, <2>3 DEF Indices
  <2>5. QED
    BY <1>1, <1>2, <2>1, <2>2, <2>3, <2>4 DEF MatchInv, detector, RightMember
<1>5. QED
  BY <1>3, <1>4

LEMMA MatchNext ==
  ASSUME Base, SerialInv, OneAtATime', MatchInv, ~overlapped', ~Disturbed', ~Reordered, MemberNext
  PROVE  MatchInv'
<1>1. CASE Reserve \/ NewDay \/ Die \/ Replace
  <2>1. UNCHANGED <<detector, fetchers, found, identified>>
    BY <1>1 DEF Reserve, NewDay, Die, Rest, Replace
  <2>2. QED
    BY <2>1 DEF MatchInv, Setting, RightMember, detector, fetchers, NoRow
<1>2. ASSUME NEW t \in Fetchers, NEW forced \in BOOLEAN, FetchMembers(t, forced) PROVE MatchInv'
  <2>1. UNCHANGED <<detector, found, identified>>
    BY <1>2 DEF FetchMembers
  <2>2. fetch_pc[t] = "idle" /\ fetch_pc'[t] = "query"
    BY <1>2 DEF FetchMembers, Goto, Base, MemberTypeOK
  <2>3. Setting' <=> Setting
    BY <1>2, <2>2, OthersStay DEF Setting
  <2>4. QED
    BY <2>1, <2>3 DEF MatchInv, RightMember, detector, NoRow
<1>3. ASSUME NEW t \in Fetchers, FetchStep(t) PROVE MatchInv'
  BY <1>3, MatchFetch
<1>4. ASSUME NEW f \in Guests, FindMatch(f) PROVE MatchInv'
  BY <1>4, MatchFound
<1>5. CASE ReturnMember
  <2>1. /\ UNCHANGED <<detector, fetchers>> /\ found' = NoRow
        /\ own[found.index] = found.face
    BY <1>5 DEF ReturnMember, Rest, MatchInv
  <2>2. RightMember'
    BY <1>5, <2>1 DEF ReturnMember, RightMember, MatchInv
  <2>3. Setting' <=> Setting
    BY <2>1 DEF Setting, fetchers
  <2>4. QED
    BY <2>1, <2>2, <2>3 DEF MatchInv, detector, NoRow
<1>6. CASE Discard
  <2>1. found' = NoRow
    BY <1>6 DEF Discard, Base, FoundType
  <2>2. QED
    BY <1>6, <2>1 DEF Discard, MatchInv, RightMember, NoRow
<1>7. QED
  BY <1>1, <1>2, <1>3, <1>4, <1>5, <1>6 DEF MemberNext, DetectorStep

\* WrongOnlyOfRace, for any fetchers and members: a face is answered with another guest's
\* record only after fetches that overlapped, a comparison in the middle of a setter, or
\* an answer of the database in another order.
THEOREM MatchesAreRight == MCSpec => []WrongOnlyOfRace
<1> DEFINE I == (overlapped \/ SerialInv) /\ (raced \/ MatchInv)
<1>1. MCInit => I
  BY SerialInit DEF MCInit, MemberInit, MatchInv, Setting, RightMember, NoRow
<1>2. Base /\ I /\ [MCNext]_<<member_vars, overlapped, raced>> => I'
  <2> SUFFICES ASSUME Base, I, [MCNext]_<<member_vars, overlapped, raced>>
               PROVE  I'
    OBVIOUS
  <2>1. overlapped' \/ SerialInv'
    BY SerialStep
  <2>2. CASE MCNext
    <3>1. /\ overlapped' = (overlapped \/ ~OneAtATime')
          /\ raced' = (raced \/ overlapped' \/ Disturbed' \/ Reordered)
      BY <2>2 DEF MCNext
    <3>2. raced' \/ (~raced /\ ~overlapped' /\ ~Disturbed' /\ ~Reordered)
      BY <3>1, Zenon
    <3>3. overlapped' \/ (~overlapped /\ OneAtATime')
      BY <3>1, Zenon
    <3>4. MemberNext
      BY <2>2 DEF MCNext
    <3>5. raced' \/ MatchInv'
      BY <3>2, <3>3, <3>4, MatchNext
    <3>6. QED
      BY <2>1, <3>5
  <2>3. CASE UNCHANGED <<member_vars, overlapped, raced>>
    <3>1. raced' \/ MatchInv'
      BY <2>3 DEF member_vars, detector, fetchers, MatchInv, Setting, RightMember, NoRow
    <3>2. QED
      BY <2>1, <3>1
  <2>4. QED
    BY <2>2, <2>3
<1>3. I => WrongOnlyOfRace
  BY DEF WrongOnlyOfRace, MatchInv
<1>4. QED
  BY <1>1, <1>2, <1>3, BaseAlways, PTL DEF MCSpec
================================================================================
