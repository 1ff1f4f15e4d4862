----------------------------- MODULE CaptureThread -----------------------------
(***************************************************************************)
(* What the thread of a capture promises to those who start, stop and join *)
(* it (CameraLifecycle): it ends only when its stop_event is set, and once *)
(* that is set it ends.                                                    *)
(***************************************************************************)
VARIABLES life,        \* "new", "alive", "dead"
          stop_event

vars == <<life, stop_event>>

Init == life = "new" /\ stop_event = FALSE

Start == life = "new" /\ life' = "alive" /\ UNCHANGED stop_event

\* By stop, or by the thread itself when the stream failed.
Stop == ~stop_event /\ stop_event' = TRUE /\ UNCHANGED life

Finish == life = "alive" /\ stop_event /\ life' = "dead" /\ UNCHANGED stop_event

Next == Start \/ Stop \/ Finish

Safety == Init /\ [][Next]_vars

Spec == Safety /\ WF_vars(Finish)
================================================================================
