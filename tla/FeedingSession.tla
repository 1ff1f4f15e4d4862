---------------------------- MODULE FeedingSession ----------------------------
(***************************************************************************)
(* What one camera's StreamCapture promises to the code that starts and    *)
(* stops face detection on it: sessions open under a transaction that no   *)
(* earlier session had, keep it until another one opens, and close again.  *)
(* The promise to close ends when the camera is shut down, and when the    *)
(* queue of the detector overflows at the moment a session is being        *)
(* closed: the camera is then wedged.                                      *)
(***************************************************************************)
CONSTANTS Txns,    (* transaction identifiers (uuid4 strings)               *)
          NoTxn    (* the transaction of a camera that never fed (None)     *)

VARIABLES feeding, (* whether frames are fed to the detector                *)
          txn,     (* the transaction of the last session                   *)
          used,    (* every transaction given out so far                    *)
          wedged   (* the camera was shut down or lost a stop to a full queue *)

sessionVars == <<feeding, txn, used, wedged>>

Init ==
  /\ feeding = FALSE
  /\ txn = NoTxn
  /\ used = {}
  /\ wedged = FALSE

\* A session opens. Two threads that both found the camera idle open one each,
\* so this may also replace a session that has just been opened.
Open(t) ==
  /\ t \in Txns \ used
  /\ feeding' = TRUE
  /\ txn' = t
  /\ used' = used \union {t}
  /\ UNCHANGED wedged

\* The session ends: its timer expired, a member was identified, the guest left.
Close ==
  /\ feeding
  /\ feeding' = FALSE
  /\ UNCHANGED <<txn, used, wedged>>

\* The camera is shut down, or a stop is lost.
Wedge ==
  /\ wedged' = TRUE
  /\ UNCHANGED <<feeding, txn, used>>

Next == (\E t \in Txns : Open(t)) \/ Close \/ Wedge

Safety == Init /\ [][Next]_sessionVars

\* Sessions close unless the camera wedges.
Spec == Safety /\ WF_sessionVars(feeding /\ ~wedged /\ (Close \/ Wedge))
===============================================================================
