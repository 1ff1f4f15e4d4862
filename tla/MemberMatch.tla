------------------------------ MODULE MemberMatch ------------------------------
(***************************************************************************)
(* The member list and the embeddings matrix that faces are compared with: *)
(* fetch_members and get_active_members (py_handler.py), run by the        *)
(* threads that start a detection and, forced, by a timer 10 s after       *)
(* /recognise; the active_members setter, _build_member_embeddings and     *)
(* find_match of the detector (face_recognition_base.py), which works in a *)
(* thread of its own; and monitor_detector, which replaces a dead          *)
(* detector. Nothing is locked: a step is one read or write of a field     *)
(* that another thread uses.                                               *)
(*                                                                         *)
(* A member stands for the record with its embedding, and for the guest    *)
(* whose face it is: a face is similar to its own embedding only. (Names   *)
(* that MatchRouting has as well are here those of members and fetches.)   *)
(***************************************************************************)
EXTENDS Naturals, Sequences, SequencesExt

CONSTANTS Fetchers,  (* threads that run fetch_members                       *)
          Guests,    (* members with a face embedding                        *)
          NoMember

ASSUME MembersAssumption == IsFiniteSet(Guests) /\ NoMember \notin Guests

\* DynamoDB promises no order.
Lists == SetToAllKPermutations(Guests)

VARIABLES
  database,          (* the members of the active reservations               *)
  fetched_today,     (* last_fetch_time is the current date                  *)
  active_members,    (* the global list                                      *)
  alive,             (* "up", "dead", or "new" while thread_detector is None *)
  own,               (* the detector's _active_members                       *)
  member_embeddings, (* its matrix: whose embedding each row is              *)
  member_norms,      (* its norms, likewise                                  *)
  fetch_pc, value, differs, (* of each fetcher: its list, old_hash # new_hash    *)
  found,             (* of the detector: the face it compares and the index  *)
  identified         (* the last match: the face and the member returned     *)

detector == <<own, member_embeddings, member_norms>>
fetchers == <<fetch_pc, value, differs>>
member_vars == <<database, fetched_today, active_members, alive, detector, fetchers,
                 found, identified>>

NoRow == [face |-> NoMember, index |-> 0]

MemberInit ==
  /\ database \in SUBSET Guests
  /\ active_members \in SetToSeqs(database)
  /\ own = active_members /\ member_embeddings = own /\ member_norms = own
  /\ fetched_today = TRUE
  /\ alive = "up"
  /\ fetch_pc = [t \in Fetchers |-> "idle"]
  /\ value = [t \in Fetchers |-> <<>>]
  /\ differs = [t \in Fetchers |-> FALSE]
  /\ found = NoRow
  /\ identified = [face |-> NoMember, member |-> NoMember]

Goto(t, l) == fetch_pc' = [fetch_pc EXCEPT ![t] = l]

\* fetch_members returns; its local variables are gone.
Return(t) ==
  /\ Goto(t, "idle")
  /\ value' = [value EXCEPT ![t] = <<>>]
  /\ differs' = [differs EXCEPT ![t] = FALSE]

\* Guests register a face or check out; a new day begins.
Reserve ==
  /\ database' \in SUBSET Guests
  /\ UNCHANGED <<fetched_today, active_members, alive, detector, fetchers, found, identified>>

NewDay ==
  /\ fetched_today' = FALSE
  /\ UNCHANGED <<database, active_members, alive, detector, fetchers, found, identified>>

--------------------------------------------------------------------------------
(* fetch_members. *)

\* needs_fetch; without it the call has no effect.
FetchMembers(t, forced) ==
  /\ fetch_pc[t] = "idle"
  /\ forced \/ active_members = <<>> \/ ~fetched_today
  /\ Goto(t, "query")
  /\ UNCHANGED <<database, fetched_today, active_members, alive, detector, value,
                 differs, found, identified>>

\* get_active_members.
Query(t) ==
  /\ fetch_pc[t] = "query"
  /\ active_members' \in SetToSeqs(database)
  /\ fetched_today' = TRUE
  /\ Goto(t, "assign")
  /\ UNCHANGED <<database, alive, detector, value, differs, found, identified>>

\* The query raises: the call ends here.
QueryFails(t) ==
  /\ fetch_pc[t] = "query"
  /\ Return(t)
  /\ UNCHANGED <<database, fetched_today, active_members, alive, detector, found,
                 identified>>

\* `if thread_detector is not None: thread_detector.active_members = active_members':
\* the setter is called with the global list of this moment.
Assign(t) ==
  /\ fetch_pc[t] = "assign"
  /\ \/ /\ alive # "new"
        /\ value' = [value EXCEPT ![t] = active_members]
        /\ Goto(t, "compare")
        /\ UNCHANGED differs
     \/ /\ alive = "new"
        /\ Return(t)
  /\ UNCHANGED <<database, fetched_today, active_members, alive, detector, found,
                 identified>>

--------------------------------------------------------------------------------
(* The active_members setter. *)

\* Mutant: the numbers of members are compared.
CompareLength(t) ==
  /\ fetch_pc[t] = "compare"
  /\ differs' = [differs EXCEPT ![t] = Len(own) # Len(value[t])]
  /\ Goto(t, "list")
  /\ UNCHANGED <<database, fetched_today, active_members, alive, detector, value,
                 found, identified>>

\* old_hash and new_hash are sets.
Compare(t) ==
  /\ fetch_pc[t] = "compare"
  /\ differs' = [differs EXCEPT ![t] = ToSet(own) # ToSet(value[t])]
  /\ Goto(t, "list")
  /\ UNCHANGED <<database, fetched_today, active_members, alive, detector, value,
                 found, identified>>

SetList(t) ==
  /\ fetch_pc[t] = "list"
  /\ own' = value[t]
  /\ \/ differs[t] /\ Goto(t, "build") /\ UNCHANGED <<value, differs>>
     \/ ~differs[t] /\ Return(t)
  /\ UNCHANGED <<database, fetched_today, active_members, alive, member_embeddings,
                 member_norms, found, identified>>

\* _build_member_embeddings goes through the list of this moment.
Build(t) ==
  /\ fetch_pc[t] = "build"
  /\ value' = [value EXCEPT ![t] = own]
  /\ Goto(t, "rows")
  /\ UNCHANGED <<database, fetched_today, active_members, alive, detector, differs,
                 found, identified>>

SetRows(t) ==
  /\ fetch_pc[t] = "rows"
  /\ member_embeddings' = value[t]
  /\ Goto(t, "norms")
  /\ UNCHANGED <<database, fetched_today, active_members, alive, own, member_norms,
                 value, differs, found, identified>>

SetNorms(t) ==
  /\ fetch_pc[t] = "norms"
  /\ member_norms' = IF value[t] = <<>> THEN <<>> ELSE member_embeddings
  /\ Return(t)
  /\ UNCHANGED <<database, fetched_today, active_members, alive, own,
                 member_embeddings, found, identified>>

--------------------------------------------------------------------------------
(* find_match, by the detector's thread. *)

Rest == UNCHANGED <<database, fetched_today, active_members, detector, fetchers>>

\* The index that numpy finds for a face: its row, with a norm for every row. One row
\* or one norm is broadcast, and any index may win.
Indices(face) ==
  IF Len(member_embeddings) = Len(member_norms)
  THEN {i \in DOMAIN member_embeddings : member_embeddings[i] = face}
  ELSE IF Len(member_embeddings) = 1 \/ Len(member_norms) = 1
  THEN DOMAIN member_embeddings \union DOMAIN member_norms
  ELSE {}

\* The shapes of the matrix and the norms do not fit: numpy raises.
Misfit ==
  /\ Len(member_embeddings) # Len(member_norms)
  /\ Len(member_embeddings) > 1 /\ Len(member_norms) # 1

\* A face below the threshold leaves no trace. (A list without members is not
\* searched, nor is a matrix without rows.)
FindMatch(face) ==
  /\ alive = "up" /\ found = NoRow
  /\ own # <<>> /\ member_embeddings # <<>>
  /\ \/ \E i \in Indices(face) : found' = [face |-> face, index |-> i] /\ UNCHANGED alive
     \/ Misfit /\ alive' = "dead" /\ UNCHANGED found
  /\ UNCHANGED identified
  /\ Rest

\* active_members[max_idx]: an IndexError kills the detector.
ReturnMember ==
  /\ found # NoRow
  /\ \/ /\ found.index <= Len(own)
        /\ identified' = [face |-> found.face, member |-> own[found.index]]
        /\ UNCHANGED alive
     \/ /\ found.index > Len(own)
        /\ alive' = "dead"
        /\ UNCHANGED identified
  /\ found' = NoRow
  /\ Rest

\* Any other exception in run.
Die ==
  /\ alive = "up" /\ found = NoRow
  /\ alive' = "dead"
  /\ UNCHANGED <<found, identified>>
  /\ Rest

--------------------------------------------------------------------------------
(* monitor_detector: thread_detector is None while the new detector is constructed
   with the global list of this moment. What a setter still does to the old
   detector matters to nobody. *)

InSetter(t) == fetch_pc[t] \in {"compare", "list", "build", "rows", "norms"}

LeaveSetters ==
  /\ fetch_pc' = [t \in Fetchers |-> IF InSetter(t) THEN "idle" ELSE fetch_pc[t]]
  /\ value' = [t \in Fetchers |-> IF InSetter(t) THEN <<>> ELSE value[t]]
  /\ differs' = [t \in Fetchers |-> differs[t] /\ ~InSetter(t)]

Discard ==
  /\ alive = "dead"
  /\ alive' = "new"
  /\ own' = active_members /\ member_embeddings' = own' /\ member_norms' = own'
  /\ LeaveSetters
  /\ UNCHANGED <<database, fetched_today, active_members, found, identified>>

Replace ==
  /\ alive = "new"
  /\ alive' = "up"
  /\ UNCHANGED <<database, fetched_today, active_members, detector, fetchers, found, identified>>

--------------------------------------------------------------------------------
FetchStep(t) ==
  \/ Query(t) \/ QueryFails(t) \/ Assign(t) \/ Compare(t) \/ SetList(t) \/ Build(t)
  \/ SetRows(t) \/ SetNorms(t)

DetectorStep == (\E f \in Guests : FindMatch(f)) \/ ReturnMember

MemberNext ==
  \/ Reserve \/ NewDay
  \/ \E t \in Fetchers : (\E forced \in BOOLEAN : FetchMembers(t, forced)) \/ FetchStep(t)
  \/ DetectorStep \/ Die
  \/ Discard \/ Replace

MemberSpec == MemberInit /\ [][MemberNext]_member_vars

Fetching(t) == fetch_pc[t] # "idle"

\* No two fetch at once, and none while the detector is being replaced; the detector
\* goes on comparing faces.
OneAtATime ==
  /\ \A s, t \in Fetchers : Fetching(s) /\ Fetching(t) => s = t
  /\ alive = "new" => \A t \in Fetchers : ~Fetching(t)

--------------------------------------------------------------------------------
(* Properties. *)

\* Type correctness of the lists and of the fetchers' positions.
MemberTypeOK ==
  /\ database \subseteq Guests
  /\ fetched_today \in BOOLEAN
  /\ active_members \in Lists
  /\ alive \in {"up", "dead", "new"}
  /\ own \in Lists /\ member_embeddings \in Lists /\ member_norms \in Lists
  /\ fetch_pc \in [Fetchers -> {"idle", "query", "assign", "compare", "list", "build", "rows",
                               "norms"}]
  /\ value \in [Fetchers -> Lists]
  /\ differs \in [Fetchers -> BOOLEAN]
  /\ found \in [face : Guests \union {NoMember}, index : Nat]
  /\ identified \in [face : Guests \union {NoMember}, member : Guests \union {NoMember}]

Quiet == \A t \in Fetchers : ~Fetching(t)

\* When no fetch is under way the detector compares faces with the members of the
\* global list, no more and no fewer: no guest who left matches (the phantom matches
\* of bug_stale_embeddings_matrix.md), and no new guest is missed.
MatrixCurrent ==
  Quiet /\ alive = "up" =>
    /\ ToSet(own) = ToSet(active_members)
    /\ ToSet(member_embeddings) = ToSet(active_members)
    /\ Len(member_norms) = Len(member_embeddings)

\* `find best matching member': the member returned for a face is the one whose face
\* it is.
RightMember == identified.member = identified.face
================================================================================
