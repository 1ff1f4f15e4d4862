--------------------------- MODULE OnvifSubscription ---------------------------
(***************************************************************************)
(* The cameras' items and their ONVIF subscriptions (py_handler.py:        *)
(* init_cameras, fetch_camera_items, subscribe_onvif; onvif_process.py).   *)
(* init_cameras runs in a Timer thread, which it sets up anew at its end,  *)
(* and in the Lambda thread (reset_camera, change_var). Each run takes     *)
(* over the configurations of the database, starts the captures of the     *)
(* changed cameras, unsubscribes the removed ones and renews the rest.     *)
(* The monitor of a capture that it restarts subscribes as well. None of   *)
(* them takes a lock.                                                      *)
(*                                                                         *)
(* Starting and stopping a capture is CameraLifecycle's; here it takes     *)
(* time, and may raise. A camera drops a subscription that nobody renews.  *)
(***************************************************************************)
EXTENDS Naturals, FiniteSets, Functions

CONSTANTS Cams,
          Renewers,    (* threads of Timers that run init_cameras            *)
          Lambda,      (* the thread of function_handler, which runs it too  *)
          Passwords,   (* username and password of a camera                  *)
          NoPort,      (* an item without onvif port: OnvifConnector raises  *)
          Configs,     (* configurations of a camera                         *)
          None,
          MaxAddress,  (* bound: subscriptions the cameras give              *)
          MaxEvents    (* bound: changes of the database, requests and calls
                          that fail, captures restarted by their monitor     *)

Inits == Renewers \union {Lambda}
Threads == Inits \union Cams   \* the monitor of a camera goes by the camera's name

Addresses == 1..MaxAddress

\* A camera to be subscribed. (enabled: isSubscription, and detecting or recording.)
Subscribable(config) == config.enabled /\ config.cred \in Passwords

ASSUME OnvifAssumption ==
  /\ IsFiniteSet(Renewers) /\ IsFiniteSet(Cams)
  /\ Inits \intersect Cams = {} /\ Lambda \notin Renewers
  /\ NoPort \notin Passwords
  /\ None \notin Cams \union Passwords \union Addresses
  /\ Configs \subseteq [enabled : BOOLEAN, cred : Passwords \union {NoPort}]
  /\ \E config \in Configs : Subscribable(config)
  /\ MaxAddress \in Nat /\ MaxEvents \in Nat

VARIABLES
  database,         (* [camera -> configuration], a partial function         *)
  password,         (* [camera -> what it accepts]                           *)
  events,           (* changes, failures and restarts so far                 *)
  camera_items,     (* [camera -> [config, address]], partial; address is
                       onvifSubAddress                                       *)
  onvif_connectors, (* [camera -> its credentials, or None], partial         *)
  alive,            (* [camera -> addresses it notifies us for]              *)
  given,            (* the last address a camera gave                        *)
  timers,           (* Timer threads of init_cameras that wait               *)
  pc, local,        (* by thread                                             *)
  lost,             (* history: addresses forgotten because a request or call
                       failed or two threads wrote the same item             *)
  broken            (* history: an exception ended init_cameras              *)

world == <<database, password>>
camera == <<alive, given>>
items == <<camera_items, onvif_connectors>>
vars == <<world, events, items, camera, timers, pc, local, lost, broken>>

\* What a thread has read: the answer of the database, the cameras to update and to
\* remove, those whose renewal it has begun and how many there were, and in
\* subscribe_onvif the camera, its item's address and whether that item is still the
\* one in camera_items, its connector, and where the thread goes on.
Nothing == [snapshot |-> None, update |-> {}, remove |-> {}, seen |-> {}, size |-> 0,
            cam |-> None, address |-> None, held |-> FALSE,
            connector |-> None, back |-> "idle"]

\* The process starts with cameras to be subscribed, whose password is one of many.
Init ==
  /\ database = [c \in Cams |-> CHOOSE config \in Configs : Subscribable(config)]
  /\ password = [c \in Cams |-> database[c].cred]
  /\ events = 0
  /\ camera_items = << >> /\ onvif_connectors = << >>
  /\ alive = [c \in Cams |-> {}] /\ given = 0
  /\ timers = 1
  /\ pc = [t \in Threads |-> "idle"]
  /\ local = [t \in Threads |-> Nothing]
  /\ lost = {} /\ broken = FALSE

Goto(t, l) == pc' = [pc EXCEPT ![t] = l]
Keep(t, r) == local' = [local EXCEPT ![t] = r]
Without(f, c) == Restrict(f, DOMAIN f \ {c})
With(f, c, v) == [d \in DOMAIN f \union {c} |-> IF d = c THEN v ELSE f[d]]
Forget(A) == lost' = lost \union (A \ {None})
Event == events < MaxEvents /\ events' = events + 1

--------------------------------------------------------------------------------
(* The database, the cameras, and what starts the threads. *)

\* A camera is configured anew, its password with it, added or removed.
Change(c) ==
  /\ Event
  /\ \/ /\ c \in DOMAIN database
        /\ database' = Without(database, c)
        /\ UNCHANGED password
     \/ \E g \in Configs :
          /\ c \in DOMAIN database => database[c] # g
          /\ database' = With(database, c, g)
          /\ password' = IF g.cred = NoPort THEN password
                         ELSE [password EXCEPT ![c] = g.cred]
  /\ UNCHANGED <<items, camera, timers, pc, local, lost, broken>>

\* The termination time of a subscription passes, or the camera restarts.
Lapse(c) ==
  \E a \in alive[c] :
    /\ alive' = [alive EXCEPT ![c] = @ \ {a}]
    /\ UNCHANGED <<world, events, items, given, timers, pc, local, lost, broken>>

\* Mutant: init_cameras cancels no timer.
BeginOnly(t) ==
  /\ pc[t] = "idle"
  /\ Goto(t, "query")
  /\ UNCHANGED <<world, events, items, camera, timers, local, lost, broken>>

\* init_cameras begins, in the thread of a Timer or called by function_handler; it
\* cancels the timers that still wait.
Begin(t) ==
  /\ pc[t] = "idle"
  /\ timers' = 0
  /\ Goto(t, "query")
  /\ UNCHANGED <<world, events, items, camera, local, lost, broken>>

Fire(t) == timers > 0 /\ Begin(t)
function_handler == Begin(Lambda)

\* start_gstreamer_thread fetches an item that is gone.
Fetched(c) ==
  IF c \in DOMAIN database \ DOMAIN camera_items
  THEN With(camera_items, c, [config |-> database[c], address |-> None])
  ELSE camera_items

\* The monitor of c restarts its capture: start_gstreamer_thread fetches an item that
\* is gone, and raises if the database does not have it either.
Restart(c) ==
  /\ pc[c] = "idle" /\ Event
  /\ c \in DOMAIN camera_items \union DOMAIN database
  /\ camera_items' = Fetched(c)
  /\ Goto(c, "item")
  /\ Keep(c, [Nothing EXCEPT !.cam = c])
  /\ UNCHANGED <<world, onvif_connectors, camera, timers,
                 lost, broken>>

--------------------------------------------------------------------------------
(* fetch_camera_items and fetch_lock_items. *)

Query(t) ==
  /\ pc[t] = "query"
  /\ \/ Keep(t, [Nothing EXCEPT !.snapshot = database]) /\ UNCHANGED events
     \/ Event /\ Keep(t, Nothing)
  /\ Goto(t, "fetch")
  /\ UNCHANGED <<world, items, camera, timers, lost, broken>>

ConfigsOf(f) == [c \in DOMAIN f |-> f[c].config]

\* has_config_changed, or a camera not seen before.
Changed(snapshot) ==
  {c \in DOMAIN snapshot : c \notin DOMAIN camera_items \/ camera_items[c].config # snapshot[c]}

\* Mutant: the new item takes no address over from the old one.
TakeOverNothing(snapshot) ==
  [c \in DOMAIN snapshot |->
     IF c \notin Changed(snapshot) THEN camera_items[c]
     ELSE [config |-> snapshot[c], address |-> None]]

\* camera_items afterwards: a changed item keeps its subscription.
TakeOver(snapshot) ==
  [c \in DOMAIN snapshot |->
     IF c \notin Changed(snapshot) THEN camera_items[c]
     ELSE [config |-> snapshot[c],
           address |-> IF c \in DOMAIN camera_items THEN camera_items[c].address ELSE None]]

\* Without an answer nothing is updated or removed. The items that are replaced or
\* deleted are no longer those another thread may hold. An exception of
\* fetch_lock_items ends init_cameras: what was to be updated or removed is not seen
\* to be any more, and the removed are not unsubscribed.
FetchItems(t) ==
  LET snapshot == IF local[t].snapshot = None THEN ConfigsOf(camera_items) ELSE local[t].snapshot
      gone == DOMAIN camera_items \ DOMAIN snapshot
      remove == {[cam |-> c, address |-> camera_items[c].address] : c \in gone}
      next(r) == [u \in Threads |->
        IF u = t THEN r
        ELSE [local[u] EXCEPT !.held = @ /\ local[u].cam \notin Changed(snapshot) \union gone]]
  IN
  /\ pc[t] = "fetch"
  /\ camera_items' = TakeOver(snapshot)
  /\ \/ /\ local' = next([Nothing EXCEPT !.update = Changed(snapshot), !.remove = remove])
        /\ Goto(t, "update")
        /\ UNCHANGED <<events, lost, broken>>
     \/ /\ Event
        /\ broken' = TRUE
        /\ Forget({r.address : r \in remove})
        /\ local' = next(Nothing)
        /\ Goto(t, "idle")
  /\ UNCHANGED <<world, onvif_connectors, camera, timers>>

--------------------------------------------------------------------------------
(* The three loops of init_cameras. *)

\* init_gst_app of a camera: it raises, or goes on to subscribe_onvif. It finds an
\* item that another thread deleted by now in the database, if anywhere.
UpdateNext(t) ==
  /\ pc[t] = "update" /\ local[t].update # local[t].seen
  /\ \E c \in local[t].update \ local[t].seen :
       \/ /\ Event
          /\ Keep(t, [local[t] EXCEPT !.seen = @ \union {c}])
          /\ UNCHANGED <<camera_items, pc>>
       \/ /\ camera_items' = Fetched(c)
          /\ IF c \in DOMAIN camera_items \union DOMAIN database
             THEN Goto(t, "item") /\ Keep(t, [local[t] EXCEPT !.seen = @ \union {c}, !.cam = c,
                                                         !.back = "update"])
             ELSE Keep(t, [local[t] EXCEPT !.seen = @ \union {c}]) /\ UNCHANGED pc
          /\ UNCHANGED events
  /\ UNCHANGED <<world, onvif_connectors, camera, timers, lost, broken>>

\* What becomes of the subscription a when we ask the camera to end it: nothing, if
\* the credentials are wrong or the request fails. The addresses A are lost with it.
AskUnsubscribe(c, a, cred, A) ==
  \/ /\ cred = password[c]
     /\ alive' = [alive EXCEPT ![c] = @ \ {a}]
     /\ Forget(A)
     /\ UNCHANGED events
  \/ /\ cred # password[c] \/ events < MaxEvents
     /\ events' = IF cred # password[c] THEN events ELSE events + 1
     /\ Forget(A \union {a})
     /\ UNCHANGED alive

\* Mutant: a removed camera's connector goes, its subscription stays.
RemoveSilently(t) ==
  /\ pc[t] = "update" /\ local[t].update = local[t].seen
  /\ \E r \in local[t].remove :
       /\ Keep(t, [local[t] EXCEPT !.remove = @ \ {r}])
       /\ onvif_connectors' = Without(onvif_connectors, r.cam)
  /\ UNCHANGED <<world, events, camera_items, camera, timers, pc, lost, broken>>

\* A removed camera is unsubscribed and loses its connector, unless stopping its
\* capture raises or the connector is None, which has no unsubscribe.
RemoveNext(t) ==
  /\ pc[t] = "update" /\ local[t].update = local[t].seen
  /\ \E r \in local[t].remove :
       /\ Keep(t, [local[t] EXCEPT !.remove = @ \ {r}])
       /\ \/ /\ r.cam \in DOMAIN onvif_connectors /\ onvif_connectors[r.cam] # None
             /\ onvif_connectors' = Without(onvif_connectors, r.cam)
             /\ \/ r.address = None /\ UNCHANGED <<alive, events, lost>>
                \/ r.address # None /\ AskUnsubscribe(r.cam, r.address, onvif_connectors[r.cam], {})
          \/ /\ r.cam \in DOMAIN onvif_connectors => onvif_connectors[r.cam] = None
             /\ Forget({r.address})
             /\ UNCHANGED <<onvif_connectors, alive, events>>
          \/ /\ Event
             /\ Forget({r.address})
             /\ UNCHANGED <<onvif_connectors, alive>>
  /\ UNCHANGED <<world, camera_items, given, timers, pc, broken>>

RemoveEnd(t) ==
  /\ pc[t] = "update" /\ local[t].update = local[t].seen /\ local[t].remove = {}
  /\ Goto(t, "renew")
  /\ Keep(t, [local[t] EXCEPT !.seen = local[t].update, !.size = Cardinality(DOMAIN camera_items)])
  /\ UNCHANGED <<world, events, items, camera, timers, lost, broken>>

\* `for cam_ip in camera_items', without those just updated.
RenewNext(t) ==
  /\ pc[t] = "renew" /\ Cardinality(DOMAIN camera_items) = local[t].size
  /\ \E c \in DOMAIN camera_items \ local[t].seen :
       Keep(t, [local[t] EXCEPT !.seen = @ \union {c}, !.cam = c, !.back = "renew"])
  /\ Goto(t, "item")
  /\ UNCHANGED <<world, events, items, camera, timers, lost, broken>>

\* RuntimeError: another thread added or deleted an item in the meantime.
RenewRaise(t) ==
  /\ pc[t] = "renew" /\ Cardinality(DOMAIN camera_items) # local[t].size
  /\ broken' = TRUE
  /\ Goto(t, "idle")
  /\ Keep(t, Nothing)
  /\ UNCHANGED <<world, events, items, camera, timers, lost>>

\* Mutant: the old timers are cancelled once the new one waits.
EndAndCancel(t) ==
  /\ pc[t] = "renew" /\ Cardinality(DOMAIN camera_items) = local[t].size
  /\ DOMAIN camera_items \subseteq local[t].seen
  /\ timers' = 0
  /\ Goto(t, "idle")
  /\ Keep(t, Nothing)
  /\ UNCHANGED <<world, events, items, camera, lost, broken>>

\* The next run of init_cameras is armed.
End(t) ==
  /\ pc[t] = "renew" /\ Cardinality(DOMAIN camera_items) = local[t].size
  /\ DOMAIN camera_items \subseteq local[t].seen
  /\ timers' = timers + 1
  /\ Goto(t, "idle")
  /\ Keep(t, Nothing)
  /\ UNCHANGED <<world, events, items, camera, lost, broken>>

--------------------------------------------------------------------------------
(* subscribe_onvif and OnvifConnector.subscribe, in any of the threads. *)

Return(t) ==
  /\ Goto(t, local[t].back)
  /\ Keep(t, IF local[t].back = "idle" THEN Nothing
             ELSE [local[t] EXCEPT !.cam = None, !.address = None, !.held = FALSE,
                                   !.connector = None, !.back = "idle"])

\* The connector of the camera, constructed now unless there is one (or None).
Connector(c) ==
  IF c \in DOMAIN onvif_connectors THEN onvif_connectors[c]
  ELSE IF camera_items[c].config.cred = NoPort THEN None ELSE camera_items[c].config.cred

\* Up to the first request: the item, the connector, and what to ask for.
ReadItem(t) ==
  LET c == local[t].cam
      item == camera_items[c]
      ask(l) == Goto(t, l) /\ Keep(t, [local[t] EXCEPT !.address = item.address, !.held = TRUE,
                                                       !.connector = Connector(c)])
  IN
  /\ pc[t] = "item"
  /\ \/ c \notin DOMAIN camera_items /\ Return(t) /\ UNCHANGED onvif_connectors
     \/ /\ c \in DOMAIN camera_items
        /\ onvif_connectors' = IF Connector(c) # None /\ ~item.config.enabled /\ item.address = None
                               THEN Without(onvif_connectors, c)
                               ELSE With(onvif_connectors, c, Connector(c))
        /\ IF Connector(c) = None \/ (~item.config.enabled /\ item.address = None) THEN Return(t)
           ELSE ask(IF ~item.config.enabled THEN "unsubscribe"
                    ELSE IF item.address = None THEN "subscribe" ELSE "renewal")
  /\ UNCHANGED <<world, events, camera_items, camera, timers, lost, broken>>

\* The thread writes address a into the item it holds; the addresses that are not
\* known any more after that, though nobody failed.
Write(t, a) ==
  camera_items' = IF local[t].held THEN [camera_items EXCEPT ![local[t].cam].address = a]
                  ELSE camera_items

Raced(t, a) ==
  LET c == local[t].cam IN
  IF local[t].held THEN {camera_items[c].address} \ {a, local[t].address}
  ELSE {a} \ (IF c \in DOMAIN camera_items THEN {camera_items[c].address} ELSE {})

\* Mutant: a renewal that fails ends subscribe.
RenewOrGiveUp(t) ==
  LET c == local[t].cam
      a == local[t].address
      known == local[t].connector = password[c] /\ a \in alive[c]
  IN
  /\ pc[t] = "renewal"
  /\ \/ /\ known
        /\ Write(t, a)
        /\ Forget(Raced(t, a))
        /\ UNCHANGED events
     \/ /\ ~known \/ events < MaxEvents
        /\ events' = IF known THEN events + 1 ELSE events
        /\ Write(t, a)
        /\ Forget(Raced(t, a))
  /\ Return(t)
  /\ UNCHANGED <<world, onvif_connectors, camera, timers, broken>>

\* _renew: a failure, or an address that lapsed, leads to _subscribe.
Renew(t) ==
  LET c == local[t].cam
      a == local[t].address
      known == local[t].connector = password[c] /\ a \in alive[c]
  IN
  /\ pc[t] = "renewal"
  /\ \/ /\ known
        /\ Write(t, a)
        /\ Forget(Raced(t, a))
        /\ Return(t)
        /\ UNCHANGED events
     \/ /\ ~known \/ events < MaxEvents
        /\ events' = IF known THEN events + 1 ELSE events
        /\ Forget({a})
        /\ Goto(t, "subscribe")
        /\ UNCHANGED <<camera_items, local>>
  /\ UNCHANGED <<world, onvif_connectors, camera, timers, broken>>

\* _subscribe: an address, or None when the request or its answer is lost.
Subscribe(t) ==
  LET c == local[t].cam
      new == given + 1
      granted == local[t].connector = password[c] /\ given < MaxAddress
  IN
  /\ pc[t] = "subscribe"
  /\ \/ /\ granted
        /\ given' = new /\ alive' = [alive EXCEPT ![c] = @ \union {new}]
        /\ \/ Write(t, new) /\ Forget(Raced(t, new)) /\ UNCHANGED events
           \/ Event /\ Write(t, None) /\ Forget(Raced(t, None) \union {new})
     \/ /\ ~granted \/ events < MaxEvents
        /\ events' = IF granted THEN events + 1 ELSE events
        /\ Write(t, None)
        /\ Forget(Raced(t, None))
        /\ UNCHANGED camera
  /\ Return(t)
  /\ UNCHANGED <<world, onvif_connectors, timers, broken>>

\* A camera whose subscription is not wanted any more; its connector goes too.
Unsubscribe(t) ==
  LET c == local[t].cam IN
  /\ pc[t] = "unsubscribe"
  /\ AskUnsubscribe(c, local[t].address, local[t].connector, Raced(t, None))
  /\ Write(t, None)
  /\ onvif_connectors' = Without(onvif_connectors, c)
  /\ Return(t)
  /\ UNCHANGED <<world, given, timers, broken>>

--------------------------------------------------------------------------------
subscribe_onvif(t) == ReadItem(t) \/ Renew(t) \/ Subscribe(t) \/ Unsubscribe(t)

init_cameras(t) ==
  \/ Query(t) \/ FetchItems(t) \/ UpdateNext(t)
  \/ RemoveNext(t) \/ RemoveEnd(t) \/ RenewNext(t) \/ RenewRaise(t) \/ End(t)
  \/ subscribe_onvif(t)

Next ==
  \/ function_handler
  \/ \E t \in Renewers : Fire(t)
  \/ \E t \in Inits : init_cameras(t)
  \/ \E c \in Cams : Change(c) \/ Lapse(c) \/ Restart(c) \/ subscribe_onvif(c)

Spec == Init /\ [][Next]_vars

\* A Timer that waits fires, and a thread gets on. Nobody need call init_cameras
\* besides.
FairSpec ==
  /\ Spec
  /\ WF_vars(\E t \in Renewers : Fire(t))
  /\ \A t \in Inits : WF_vars(init_cameras(t))
  /\ \A c \in Cams : WF_vars(subscribe_onvif(c))

--------------------------------------------------------------------------------
(* Properties. *)

Positions == {"idle", "query", "fetch", "update", "renew", "item",
              "renewal", "subscribe", "unsubscribe"}

\* A dictionary by camera.
Partial(S) == UNION {[D -> S] : D \in SUBSET Cams}

Locals ==
  [snapshot : Partial(Configs) \union {None}, update : SUBSET Cams,
   remove : SUBSET [cam : Cams, address : Addresses \union {None}],
   seen : SUBSET Cams, size : Nat,
   cam : Cams \union {None}, address : Addresses \union {None}, held : BOOLEAN,
   connector : Passwords \union {None}, back : {"idle", "update", "renew"}]

\* Every field keeps its type; init_cameras leaves at most a timer for each thread
\* that ran it, however the runs overlap.
TypeOK ==
  /\ database \in Partial(Configs) /\ password \in [Cams -> Passwords]
  /\ events \in 0..MaxEvents
  /\ camera_items \in Partial([config : Configs, address : Addresses \union {None}])
  /\ onvif_connectors \in Partial(Passwords \union {None})
  /\ alive \in [Cams -> SUBSET (1..given)] /\ given \in 0..MaxAddress
  /\ timers \in 0..Cardinality(Inits)
  /\ pc \in [Threads -> Positions] /\ local \in [Threads -> Locals]
  /\ \A t \in Threads : local[t].held => local[t].cam \in DOMAIN camera_items
  /\ lost \subseteq Addresses /\ broken \in BOOLEAN

\* The renewals go on: whenever init_cameras has been left, a timer waits that will
\* run it again. Only fetch_lock_items, or an item added or deleted by another
\* thread during the last loop, can end that.
TimerArmed == (\A t \in Inits : pc[t] = "idle") => timers > 0 \/ broken

\* No camera notifies twice, and none that we do not know of: at rest a camera holds
\* no subscription but the one in its item, except those of which a request or a
\* call failed and those of which two threads wrote the same item.
OneSubscription ==
  (\A t \in Threads : pc[t] = "idle") =>
    \A c \in Cams : \A a \in alive[c] \ lost :
      c \in DOMAIN camera_items /\ a = camera_items[c].address

Wanted(c) == c \in DOMAIN database /\ Subscribable(database[c])

\* A connector that was None once, or that has an earlier password, is kept.
Stuck(c) == c \in DOMAIN onvif_connectors /\ onvif_connectors[c] # password[c]

\* Every camera to be subscribed is, by and by, whatever lapsed, failed or raced in
\* between; but for a connector that is never replaced, and for an init_cameras that
\* raised (or when the addresses of the bound are used up).
Subscribed(c) ==
  c \in DOMAIN camera_items /\ camera_items[c].address \in alive[c]

EventuallySubscribed ==
  \A c \in Cams : []<>(Wanted(c) => Subscribed(c) \/ Stuck(c) \/ broken \/ given = MaxAddress)

================================================================================
