--------------------------- MODULE MCDetectionContext ---------------------------
(* Instances of DetectionContext for TLC. *)
EXTENDS DetectionContext, TLC

VARIABLE overlapped   (* history: two handlers, or one and the output loop, overlapped,
                         or one lost the timer to a stop_feeding and raised    *)

\* Threads, locks, dictionaries and transactions are interchangeable (safety only).
Symmetry ==
  Permutations(Onvif) \union Permutations(Locks) \union Permutations(Contexts)
    \union Permutations(Txns)

MCInit == Init /\ overlapped = FALSE

MCNext == Next /\ overlapped' = (overlapped \/ ~OneAtATime' \/ \E h \in Handlers : FeederRaises(h))

MCSpec == MCInit /\ [][MCNext]_<<vars, overlapped>>

\* ClickCovered as long as no two handlers overlap: every lock clicked for the
\* session that runs, and not released since, is in the session's snapshot.
SerialClickCovered == overlapped \/ ClickCovered

\* ReleasedGone as long as no two handlers overlap: the session that runs offers no
\* lock whose last event was occupancy:false.
SerialReleasedGone == overlapped \/ ReleasedGone

\* NoFallback as long as no two handlers overlap: fetch_scanner_output_queue answers the
\* first message of a session from the session's own snapshot. The first one takes the
\* snapshot away: a second one falls back on the camera's present context.
SerialNoFallback ==
  [][\/ overlapped'
     \/ Taking => \/ taken'.txn \in DOMAIN context_snapshots
                  \/ taken'.txn \in answered]_<<vars, overlapped>>
================================================================================
