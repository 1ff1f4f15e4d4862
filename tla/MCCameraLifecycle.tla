--------------------------- MODULE MCCameraLifecycle ---------------------------
(* An instance of CameraLifecycle for TLC in which updates overlap. *)
EXTENDS CameraLifecycle

VARIABLE called   (* history: the calls of init_cameras made *)

\* The next of a set of values that are all alike: one choice stands for all.
NextOf(S) == CHOOSE x \in S : TRUE

\* Calls, captures and monitors are interchangeable, so they are used in a fixed order
\* (which, unlike a SYMMETRY of the configuration, is sound for liveness).
InOrder ==
  /\ \A c \in FreeCaptures \ FreeCaptures' : c = NextOf(FreeCaptures)
  /\ \A m \in FreeMonitors \ FreeMonitors' : m = NextOf(FreeMonitors)

\* Bounds: each element of Inits is one call of init_cameras, and no second
\* capture fails while one that has failed was not stopped by force.
Calls == {i \in Inits : pc[i] = "idle" /\ pc'[i] # "idle"}

Bounded ==
  /\ \A i \in Calls : i \notin called /\ i = NextOf(Inits \ called)
  /\ called' = called \union Calls
  /\ Cardinality(stop_event' \ force_stop') <= 1

MCFairSpec ==
  /\ Init /\ called = {}
  /\ [][Next /\ InOrder /\ Bounded]_<<vars, called>>
  /\ Fairness
================================================================================
