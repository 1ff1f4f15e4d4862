-------------------------- MODULE MCOnvifSubscription --------------------------
(* OnvifSubscription for TLC: two passwords, one way to be disabled. *)
EXTENDS OnvifSubscription

CONSTANTS p1, p2

MCConfigs ==
  [enabled : {TRUE}, cred : {p1, p2, NoPort}] \union {[enabled |-> FALSE, cred |-> p1]}

================================================================================
