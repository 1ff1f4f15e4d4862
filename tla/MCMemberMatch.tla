---------------------------- MODULE MCMemberMatch ----------------------------
(* Instances of MemberMatch for TLC. *)
EXTENDS MemberMatch, TLC

VARIABLES
  overlapped,   (* history: two fetches, or a fetch and a restart, overlapped *)
  raced         (* history: that, or one of the other causes of a wrong match *)

\* Fetchers and members are interchangeable (safety only).
Symmetry == Permutations(Fetchers) \union Permutations(Guests)

MCInit == MemberInit /\ overlapped = FALSE /\ raced = FALSE

\* A face is compared in the middle of a setter that replaces the members.
Disturbed == found # NoRow /\ \E t \in Fetchers : fetch_pc[t] \in {"build", "rows", "norms"}

\* The list takes another order, the matrix stays.
Reordered ==
  /\ own' # own /\ ToSet(own') = ToSet(own)
  /\ UNCHANGED member_embeddings

MCNext ==
  /\ MemberNext
  /\ overlapped' = (overlapped \/ ~OneAtATime')
  /\ raced' = (raced \/ overlapped' \/ Disturbed' \/ Reordered)

MCSpec == MCInit /\ [][MCNext]_<<member_vars, overlapped, raced>>

\* MatrixCurrent as long as no two fetches overlap, and none overlaps a restart of the
\* detector: whatever the database does in between, each fetch brings the detector up
\* to date.
SerialMatrixCurrent == overlapped \/ MatrixCurrent

\* `find best matching member' (find_match): a face is answered with another guest's
\* record only of three causes: fetches that overlap, a comparison in the middle of a
\* setter, and a database that gives the same members in another order. Each of them
\* alone is enough.
WrongOnlyOfRace == raced \/ RightMember
================================================================================
