------------------------ MODULE OnvifSubscriptionProofs ------------------------
(***************************************************************************)
(* Proofs about OnvifSubscription for any cameras, Timer threads,          *)
(* passwords and configurations, and any number of subscriptions, changes  *)
(* and failures: its types, the chain of init_cameras' timers, and that no *)
(* subscription is forgotten but by a failure or a race.                   *)
(***************************************************************************)
EXTENDS OnvifSubscription, FiniteSetTheorems, TLAPS

MaybeAddress == Addresses \union {None}
Item == [config : Configs, address : MaybeAddress]
Removed == [cam : Cams, address : MaybeAddress]

\* The positions in subscribe_onvif.
Subscribing == {"item", "renewal", "subscribe", "unsubscribe"}

Busy == {t \in Inits : pc[t] # "idle"}

\* Where subscribe_onvif returns to: a loop of init_cameras, or the end of a monitor's
\* restart.
ReturnTo(t) == IF t \in Inits THEN {"update", "renew"} ELSE {"idle"}

\* What the threads share.
SharedType ==
  /\ database \in Partial(Configs) /\ password \in [Cams -> Passwords]
  /\ events \in 0..MaxEvents
  /\ camera_items \in Partial(Item) /\ onvif_connectors \in Partial(Passwords \union {None})
  /\ alive \in [Cams -> SUBSET (1..given)] /\ given \in 0..MaxAddress
  /\ lost \subseteq Addresses /\ broken \in BOOLEAN

\* What they have read, and where: the camera that a thread subscribes, whose item it
\* may still hold.
ThreadType ==
  /\ pc \in [Threads -> Positions] /\ local \in [Threads -> Locals]
  /\ \A t \in Threads :
       pc[t] \in Subscribing => local[t].cam \in Cams /\ local[t].back \in ReturnTo(t)

HeldType == \A t \in Threads : local[t].held => local[t].cam \in DOMAIN camera_items

\* The timers leave room for those that the running threads will arm.
TimerType == timers \in Nat /\ timers + Cardinality(Busy) <= Cardinality(Inits)

Base == SharedType /\ ThreadType /\ HeldType /\ TimerType

\* Somebody knows of the subscription a of camera c: its item, or a thread that is
\* about to unsubscribe the removed camera.
Known(c, a) ==
  \/ c \in DOMAIN camera_items /\ camera_items[c].address = a
  \/ \E t \in Threads : [cam |-> c, address |-> a] \in local[t].remove

\* Cameras to be removed wait only in the first loops, or in subscribe_onvif called
\* from there; and who asks for a new subscription has none, or has given it up.
Held(t) ==
  /\ local[t].remove # {} =>
       pc[t] = "update" \/ (pc[t] \in Subscribing /\ local[t].back = "update")
  /\ pc[t] = "subscribe" => local[t].address = None \/ local[t].address \in lost

KnownAll == \A c \in Cams, a \in Addresses : a \in alive[c] \ lost => Known(c, a)

SubscriptionInv == KnownAll /\ \A t \in Threads : Held(t)

--------------------------------------------------------------------------------
(* Dictionaries by camera. *)

LEMMA PartialFacts ==
  ASSUME NEW S, NEW f \in Partial(S)
  PROVE  DOMAIN f \subseteq Cams /\ f \in [DOMAIN f -> S]
BY DEF Partial

LEMMA PartialMade ==
  ASSUME NEW S, NEW D, D \subseteq Cams, NEW f \in [D -> S]
  PROVE  f \in Partial(S)
BY DEF Partial

\* An entry is deleted.
LEMMA WithoutPartial ==
  ASSUME NEW S, NEW f \in Partial(S), NEW c
  PROVE  Without(f, c) \in Partial(S)
<1>1. DOMAIN f \subseteq Cams /\ f \in [DOMAIN f -> S]
  BY PartialFacts
<1>2. Without(f, c) \in [DOMAIN f \ {c} -> S]
  BY <1>1 DEF Without, Restrict
<1>3. QED
  BY <1>1, <1>2, PartialMade

\* An entry is written.
LEMMA WithPartial ==
  ASSUME NEW S, NEW f \in Partial(S), NEW c \in Cams, NEW v \in S
  PROVE  With(f, c, v) \in Partial(S)
<1>1. DOMAIN f \subseteq Cams /\ f \in [DOMAIN f -> S]
  BY PartialFacts
<1>2. With(f, c, v) \in [DOMAIN f \union {c} -> S]
  BY <1>1 DEF With
<1>3. QED
  BY <1>1, <1>2, PartialMade

\* An item that is fetched joins the others, which stay.
LEMMA FetchedFacts ==
  ASSUME database \in Partial(Configs), camera_items \in Partial(Item), NEW c \in Cams
  PROVE  /\ Fetched(c) \in Partial(Item)
         /\ DOMAIN camera_items \subseteq DOMAIN Fetched(c)
         /\ \A d \in DOMAIN camera_items : Fetched(c)[d] = camera_items[d]
<1>1. CASE c \in DOMAIN database \ DOMAIN camera_items
  <2>1. database[c] \in Configs
    BY <1>1, PartialFacts
  <2>2. [config |-> database[c], address |-> None] \in Item
    BY <2>1 DEF Item, MaybeAddress
  <2>3. Fetched(c) = With(camera_items, c, [config |-> database[c], address |-> None])
    BY <1>1 DEF Fetched
  <2>4. QED
    BY <1>1, <2>2, <2>3, WithPartial DEF With
<1>2. CASE c \notin DOMAIN database \ DOMAIN camera_items
  BY <1>2 DEF Fetched
<1>3. QED
  BY <1>1, <1>2

--------------------------------------------------------------------------------
(* Types. *)

LEMMA InitsFinite ==
  /\ IsFiniteSet(Inits) /\ Cardinality(Inits) \in Nat
  /\ \A S : S \subseteq Inits => /\ IsFiniteSet(S) /\ Cardinality(S) \in Nat
                                /\ Cardinality(S) <= Cardinality(Inits)
BY OnvifAssumption, FS_AddElement, FS_Subset, FS_CardinalityType DEF Inits

LEMMA BaseTypes == Base => TypeOK
<1> SUFFICES ASSUME Base PROVE TypeOK
  OBVIOUS
<1>1. Cardinality(Busy) \in Nat
  BY InitsFinite DEF Busy
<1>2. timers \in 0..Cardinality(Inits)
  BY <1>1, InitsFinite DEF Base, TimerType
<1>3. QED
  BY <1>2 DEF Base, SharedType, ThreadType, HeldType, TypeOK, Item, MaybeAddress

\* A thread's variables start from Nothing.
LEMMA NothingTyped ==
  /\ Nothing \in Locals /\ ~Nothing.held /\ Nothing.remove = {}
  /\ \A f \in Partial(Configs) : [Nothing EXCEPT !.snapshot = f] \in Locals
  /\ \A c \in Cams : [Nothing EXCEPT !.cam = c] \in Locals
  /\ \A U \in SUBSET Cams, R \in SUBSET Removed :
       [Nothing EXCEPT !.update = U, !.remove = R] \in Locals
BY DEF Nothing, Locals, Removed, MaybeAddress

LEMMA BaseInit == Init => Base
<1> SUFFICES ASSUME Init PROVE Base
  OBVIOUS
<1> DEFINE first == CHOOSE config \in Configs : Subscribable(config)
<1>1. first \in Configs /\ first.cred \in Passwords
  BY OnvifAssumption DEF Subscribable
<1>2. database \in [Cams -> Configs] /\ password \in [Cams -> Passwords]
  BY <1>1 DEF Init
<1>3. << >> \in Partial(Item) /\ << >> \in Partial(Passwords \union {None})
  <2>1. \A S : << >> \in [{} -> S]
    OBVIOUS
  <2>2. QED
    BY <2>1, PartialMade
<1>4. SharedType
  <2>1. database \in Partial(Configs)
    BY <1>2, PartialMade
  <2>2. alive \in [Cams -> SUBSET (1..given)] /\ given \in 0..MaxAddress /\ events \in 0..MaxEvents
    BY OnvifAssumption DEF Init
  <2>3. QED
    BY <1>2, <1>3, <2>1, <2>2 DEF Init, SharedType
<1>5. ThreadType /\ HeldType
  BY NothingTyped DEF Init, ThreadType, HeldType, Positions, Subscribing
<1>6. Busy = {}
  BY DEF Init, Busy, Threads
<1>7. TimerType
  <2>1. Lambda \in Inits /\ Inits # {}
    BY DEF Inits
  <2>2. Cardinality(Inits) # 0
    BY <2>1, InitsFinite, FS_EmptySet
  <2>3. QED
    BY <1>6, <2>2, InitsFinite, FS_EmptySet DEF Init, TimerType
<1>8. QED
  BY <1>4, <1>5, <1>7 DEF Base

--------------------------------------------------------------------------------
(* Each kind of write keeps its type. *)

LEMMA LocalFacts ==
  ASSUME ThreadType, NEW t \in Threads
  PROVE  /\ local[t] \in Locals
         /\ local[t].snapshot \in Partial(Configs) \union {None}
         /\ local[t].update \subseteq Cams /\ local[t].seen \subseteq Cams
         /\ local[t].remove \subseteq Removed
         /\ local[t].address \in MaybeAddress /\ local[t].held \in BOOLEAN
         /\ local[t].connector \in Passwords \union {None}
         /\ local[t].back \in {"idle", "update", "renew"}
         /\ pc[t] \in Subscribing => local[t].cam \in Cams /\ local[t].back \in ReturnTo(t)
BY DEF ThreadType, Locals, Removed, MaybeAddress

LEMMA ItemFacts ==
  ASSUME SharedType, NEW c \in DOMAIN camera_items
  PROVE  /\ c \in Cams /\ camera_items[c] \in Item
         /\ camera_items[c].config \in Configs /\ camera_items[c].address \in MaybeAddress
<1>1. DOMAIN camera_items \subseteq Cams /\ camera_items \in [DOMAIN camera_items -> Item]
  BY PartialFacts DEF SharedType
<1>2. QED
  BY <1>1 DEF Item

LEMMA ForgetTyped ==
  ASSUME SharedType, NEW A, A \subseteq MaybeAddress, Forget(A)
  PROVE  lost' \subseteq Addresses /\ lost \subseteq lost' /\ A \subseteq lost' \union {None}
BY DEF SharedType, MaybeAddress, Forget

\* An address is written into the item that a thread holds, or into none.
LEMMA WriteFacts ==
  ASSUME SharedType, ThreadType, HeldType, NEW t \in Threads, NEW a \in MaybeAddress, Write(t, a)
  PROVE  /\ camera_items' \in Partial(Item) /\ DOMAIN camera_items' = DOMAIN camera_items
         /\ local[t].held => camera_items'[local[t].cam].address = a
         /\ \A d \in DOMAIN camera_items :
              ~local[t].held \/ d # local[t].cam => camera_items'[d] = camera_items[d]
<1> DEFINE c == local[t].cam
<1>1. DOMAIN camera_items \subseteq Cams /\ camera_items \in [DOMAIN camera_items -> Item]
  BY PartialFacts DEF SharedType
<1>2. CASE local[t].held
  <2>1. c \in DOMAIN camera_items /\ camera_items[c] \in Item
    BY <1>1, <1>2 DEF HeldType
  <2>2. camera_items' = [camera_items EXCEPT ![c].address = a]
    BY <1>2 DEF Write
  <2>3. [camera_items[c] EXCEPT !.address = a] \in Item
    BY <2>1 DEF Item
  <2>4. [camera_items[c] EXCEPT !.address = a].address = a
    BY <2>1 DEF Item
  <2>5. camera_items' \in [DOMAIN camera_items -> Item]
    BY <1>1, <2>1, <2>2, <2>3
  <2>6. camera_items' \in Partial(Item)
    BY <1>1, <2>5, PartialMade
  <2>7. camera_items'[c] = [camera_items[c] EXCEPT !.address = a]
    BY <2>1, <2>2
  <2>8. \A d \in DOMAIN camera_items : d # c => camera_items'[d] = camera_items[d]
    BY <2>2
  <2>9. DOMAIN camera_items' = DOMAIN camera_items
    BY <1>1, <2>5
  <2>10. QED
    BY <1>2, <2>4, <2>6, <2>7, <2>8, <2>9
<1>3. CASE ~local[t].held
  BY <1>3 DEF Write, SharedType
<1>4. QED
  BY <1>2, <1>3

LEMMA RacedTyped ==
  ASSUME SharedType, HeldType, NEW t \in Threads, NEW a \in MaybeAddress
  PROVE  Raced(t, a) \subseteq MaybeAddress
BY ItemFacts DEF Raced, HeldType

\* fetch_camera_items: the items become those of the snapshot, with the addresses they
\* had.
LEMMA TakeOverFacts ==
  ASSUME SharedType, NEW f \in Partial(Configs)
  PROVE  /\ TakeOver(f) \in Partial(Item) /\ DOMAIN TakeOver(f) = DOMAIN f
         /\ \A c \in DOMAIN f \intersect DOMAIN camera_items :
              TakeOver(f)[c].address = camera_items[c].address
<1>1. DOMAIN f \subseteq Cams /\ f \in [DOMAIN f -> Configs]
  BY PartialFacts
<1>2. ASSUME NEW c \in DOMAIN f
      PROVE  /\ TakeOver(f)[c] \in Item
             /\ c \in DOMAIN camera_items => TakeOver(f)[c].address = camera_items[c].address
  <2>1. f[c] \in Configs
    BY <1>1
  <2>2. CASE c \notin Changed(f)
    <3>1. c \in DOMAIN camera_items /\ TakeOver(f)[c] = camera_items[c]
      BY <2>2 DEF Changed, TakeOver
    <3>2. QED
      BY <3>1, ItemFacts
  <2>3. CASE c \in Changed(f) /\ c \in DOMAIN camera_items
    <3>1. TakeOver(f)[c] = [config |-> f[c], address |-> camera_items[c].address]
      BY <2>3 DEF TakeOver
    <3>2. QED
      BY <2>1, <2>3, <3>1, ItemFacts DEF Item
  <2>4. CASE c \in Changed(f) /\ c \notin DOMAIN camera_items
    <3>1. TakeOver(f)[c] = [config |-> f[c], address |-> None]
      BY <2>4 DEF TakeOver
    <3>2. QED
      BY <2>1, <2>4, <3>1 DEF Item, MaybeAddress
  <2>5. QED
    BY <2>2, <2>3, <2>4
<1>3. TakeOver(f) \in [DOMAIN f -> Item]
  BY <1>2 DEF TakeOver
<1>4. QED
  BY <1>1, <1>2, <1>3, PartialMade

\* What FetchItems works on: the answer of the database, or the configurations there
\* are.
Snapshot(t) == IF local[t].snapshot = None THEN ConfigsOf(camera_items) ELSE local[t].snapshot

LEMMA SnapshotTyped ==
  ASSUME SharedType, ThreadType, NEW t \in Threads
  PROVE  Snapshot(t) \in Partial(Configs)
<1>1. DOMAIN camera_items \subseteq Cams
  BY PartialFacts DEF SharedType
<1>2. ConfigsOf(camera_items) \in [DOMAIN camera_items -> Configs]
  BY ItemFacts DEF ConfigsOf
<1>3. QED
  BY <1>1, <1>2, LocalFacts, PartialMade DEF Snapshot

\* The steps that write nothing the threads share.
Internal(t) == Begin(t) \/ RemoveEnd(t) \/ RenewNext(t) \/ End(t)

LEMMA EventTyped ==
  ASSUME SharedType, Event
  PROVE  events' \in 0..MaxEvents
BY OnvifAssumption DEF SharedType, Event

LEMMA FailTyped ==
  ASSUME SharedType, NEW P,
         P \/ events < MaxEvents, events' = (IF P THEN events ELSE events + 1)
  PROVE  events' \in 0..MaxEvents
BY OnvifAssumption DEF SharedType

LEMMA AskTyped ==
  ASSUME SharedType, NEW c \in Cams, NEW a \in MaybeAddress, NEW cred, NEW A,
         A \subseteq MaybeAddress, AskUnsubscribe(c, a, cred, A)
  PROVE  /\ alive' \in [Cams -> SUBSET (1..given)] /\ lost' \subseteq Addresses
         /\ events' \in 0..MaxEvents
<1>1. CASE cred = password[c] /\ alive' = [alive EXCEPT ![c] = @ \ {a}] /\ Forget(A)
           /\ UNCHANGED events
  BY <1>1, ForgetTyped DEF SharedType
<1>2. CASE /\ cred # password[c] \/ events < MaxEvents
           /\ events' = IF cred # password[c] THEN events ELSE events + 1
           /\ Forget(A \union {a}) /\ UNCHANGED alive
  BY <1>2, ForgetTyped, FailTyped DEF SharedType
<1>3. QED
  BY <1>1, <1>2 DEF AskUnsubscribe

LEMMA ChangeTyped ==
  ASSUME SharedType, NEW c \in Cams, Change(c)
  PROVE  SharedType'
<1>1. events' \in 0..MaxEvents
  BY EventTyped DEF Change
<1>2. database' \in Partial(Configs) /\ password' \in [Cams -> Passwords]
  <2>1. CASE database' = Without(database, c) /\ UNCHANGED password
    BY <2>1, WithoutPartial DEF SharedType
  <2>2. ASSUME NEW g \in Configs, database' = With(database, c, g),
               password' = IF g.cred = NoPort THEN password ELSE [password EXCEPT ![c] = g.cred]
        PROVE  database' \in Partial(Configs) /\ password' \in [Cams -> Passwords]
    <3>1. g.cred \in Passwords \union {NoPort}
      BY OnvifAssumption
    <3>2. QED
      BY <2>2, <3>1, WithPartial DEF SharedType
  <2>3. QED
    BY <2>1, <2>2 DEF Change
<1>3. QED
  BY <1>1, <1>2 DEF SharedType, Change, items, camera

LEMMA FetchTyped ==
  ASSUME SharedType, ThreadType, NEW t \in Inits, FetchItems(t)
  PROVE  SharedType'
<1> DEFINE gone == DOMAIN camera_items \ DOMAIN Snapshot(t)
           remove == {[cam |-> c, address |-> camera_items[c].address] : c \in gone}
<1>1. t \in Threads /\ Snapshot(t) \in Partial(Configs)
  BY SnapshotTyped DEF Threads
<1>2. camera_items' \in Partial(Item)
  BY <1>1, TakeOverFacts DEF FetchItems, Snapshot
<1>3. {r.address : r \in remove} \subseteq MaybeAddress
  BY ItemFacts
<1>4. CASE UNCHANGED <<events, lost, broken>>
  BY <1>2, <1>4 DEF SharedType, FetchItems, world, camera
<1>5. CASE Event /\ broken' = TRUE /\ Forget({r.address : r \in remove})
  BY <1>2, <1>3, <1>5, EventTyped, ForgetTyped DEF SharedType, FetchItems, world, camera
<1>6. QED
  BY <1>4, <1>5 DEF FetchItems, Snapshot

LEMMA RemoveTyped ==
  ASSUME SharedType, ThreadType, NEW t \in Inits, RemoveNext(t)
  PROVE  SharedType'
<1>1. PICK r \in local[t].remove :
        \/ /\ r.cam \in DOMAIN onvif_connectors /\ onvif_connectors[r.cam] # None
           /\ onvif_connectors' = Without(onvif_connectors, r.cam)
           /\ \/ r.address = None /\ UNCHANGED <<alive, events, lost>>
              \/ r.address # None /\ AskUnsubscribe(r.cam, r.address, onvif_connectors[r.cam], {})
        \/ /\ r.cam \in DOMAIN onvif_connectors => onvif_connectors[r.cam] = None
           /\ Forget({r.address})
           /\ UNCHANGED <<onvif_connectors, alive, events>>
        \/ /\ Event
           /\ Forget({r.address})
           /\ UNCHANGED <<onvif_connectors, alive>>
  BY DEF RemoveNext
<1>2. r.cam \in Cams /\ r.address \in MaybeAddress
  BY LocalFacts DEF Threads, Removed
<1>3. Without(onvif_connectors, r.cam) \in Partial(Passwords \union {None})
  BY WithoutPartial DEF SharedType
<1>4. UNCHANGED <<world, camera_items, given, broken>>
  BY DEF RemoveNext
<1>5. /\ onvif_connectors' \in Partial(Passwords \union {None})
      /\ alive' \in [Cams -> SUBSET (1..given)] /\ lost' \subseteq Addresses
      /\ events' \in 0..MaxEvents
  BY <1>1, <1>2, <1>3, AskTyped, ForgetTyped, EventTyped DEF SharedType
<1>6. QED
  BY <1>4, <1>5 DEF SharedType, world

LEMMA ReadItemTyped ==
  ASSUME SharedType, ThreadType, NEW t \in Threads, ReadItem(t)
  PROVE  SharedType'
<1> DEFINE c == local[t].cam
<1>1. c \in Cams
  BY LocalFacts DEF ReadItem, Subscribing
<1>2. c \in DOMAIN camera_items => Connector(c) \in Passwords \union {None}
  <2> SUFFICES ASSUME c \in DOMAIN camera_items
               PROVE  Connector(c) \in Passwords \union {None}
    OBVIOUS
  <2>1. c \in DOMAIN onvif_connectors => onvif_connectors[c] \in Passwords \union {None}
    BY PartialFacts DEF SharedType
  <2>2. camera_items[c].config.cred \in Passwords \union {NoPort}
    BY ItemFacts, OnvifAssumption
  <2>3. QED
    BY <2>1, <2>2 DEF Connector
<1>3. onvif_connectors' \in Partial(Passwords \union {None})
  BY <1>1, <1>2, WithPartial, WithoutPartial DEF ReadItem, SharedType
<1>4. QED
  BY <1>3 DEF ReadItem, SharedType, world, camera

LEMMA RenewTyped ==
  ASSUME SharedType, ThreadType, HeldType, NEW t \in Threads, Renew(t)
  PROVE  SharedType'
<1> DEFINE c == local[t].cam
           a == local[t].address
           known == local[t].connector = password[c] /\ a \in alive[c]
<1>1. a \in MaybeAddress /\ Raced(t, a) \subseteq MaybeAddress
  BY LocalFacts, RacedTyped
<1>2. UNCHANGED <<world, onvif_connectors, camera, broken>>
  BY DEF Renew
<1>3. CASE Write(t, a) /\ Forget(Raced(t, a)) /\ UNCHANGED events
  BY <1>1, <1>2, <1>3, WriteFacts, ForgetTyped DEF SharedType, world, camera
<1>4. CASE /\ ~known \/ events < MaxEvents
           /\ events' = (IF known THEN events + 1 ELSE events)
           /\ Forget({a}) /\ UNCHANGED camera_items
  <2>1. events' = IF ~known THEN events ELSE events + 1
    BY <1>4
  <2>2. events' \in 0..MaxEvents
    BY <1>4, <2>1, FailTyped
  <2>3. QED
    BY <1>1, <1>2, <1>4, <2>2, ForgetTyped DEF SharedType, world, camera
<1>5. QED
  BY <1>3, <1>4 DEF Renew

\* A camera that grants a subscription gives it the next address.
LEMMA GrantFacts ==
  ASSUME SharedType, NEW c \in Cams, given < MaxAddress, given' = given + 1,
         alive' = [alive EXCEPT ![c] = @ \union {given + 1}]
  PROVE  /\ given + 1 \in Addresses /\ given' \in 0..MaxAddress
         /\ alive' \in [Cams -> SUBSET (1..given')]
         /\ alive'[c] = alive[c] \union {given + 1}
         /\ \A d \in Cams \ {c} : alive'[d] = alive[d]
<1>1. 1..given \subseteq 1..given' /\ given + 1 \in 1..given'
  BY OnvifAssumption DEF SharedType
<1>2. QED
  BY <1>1, OnvifAssumption DEF SharedType, Addresses

LEMMA SubscribeTyped ==
  ASSUME SharedType, ThreadType, HeldType, NEW t \in Threads, Subscribe(t)
  PROVE  SharedType'
<1> DEFINE c == local[t].cam
           new == given + 1
           granted == local[t].connector = password[c] /\ given < MaxAddress
<1>1. c \in Cams
  BY LocalFacts DEF Subscribe, Subscribing
<1>2. UNCHANGED <<world, onvif_connectors, broken>>
  BY DEF Subscribe
<1>3. None \in MaybeAddress /\ \A a \in MaybeAddress : Raced(t, a) \subseteq MaybeAddress
  BY RacedTyped DEF MaybeAddress
<1>4. CASE granted /\ given' = new /\ alive' = [alive EXCEPT ![c] = @ \union {new}]
           /\ Write(t, new) /\ Forget(Raced(t, new)) /\ UNCHANGED events
  <2>1. /\ new \in Addresses /\ given' \in 0..MaxAddress
        /\ alive' \in [Cams -> SUBSET (1..given')]
    BY <1>1, <1>4, GrantFacts
  <2>2. QED
    BY <1>2, <1>3, <1>4, <2>1, WriteFacts, ForgetTyped DEF SharedType, world, MaybeAddress
<1>5. CASE granted /\ given' = new /\ alive' = [alive EXCEPT ![c] = @ \union {new}]
           /\ Event /\ Write(t, None) /\ Forget(Raced(t, None) \union {new})
  <2>1. /\ new \in Addresses /\ given' \in 0..MaxAddress
        /\ alive' \in [Cams -> SUBSET (1..given')]
    BY <1>1, <1>5, GrantFacts
  <2>2. Raced(t, None) \union {new} \subseteq MaybeAddress
    BY <1>3, <2>1 DEF MaybeAddress
  <2>3. QED
    BY <1>2, <1>3, <1>5, <2>1, <2>2, WriteFacts, ForgetTyped, EventTyped DEF SharedType, world
<1>6. CASE /\ ~granted \/ events < MaxEvents
           /\ events' = (IF granted THEN events + 1 ELSE events)
           /\ Write(t, None) /\ Forget(Raced(t, None)) /\ UNCHANGED camera
  <2>1. events' = IF ~granted THEN events ELSE events + 1
    BY <1>6
  <2>2. events' \in 0..MaxEvents
    BY <1>6, <2>1, FailTyped
  <2>3. QED
    BY <1>2, <1>3, <1>6, <2>2, WriteFacts, ForgetTyped DEF SharedType, world, camera
<1>7. QED
  BY <1>4, <1>5, <1>6 DEF Subscribe

LEMMA UnsubscribeTyped ==
  ASSUME SharedType, ThreadType, HeldType, NEW t \in Threads, Unsubscribe(t)
  PROVE  SharedType'
<1>1. local[t].cam \in Cams /\ local[t].address \in MaybeAddress
  BY LocalFacts DEF Unsubscribe, Subscribing
<1>2. None \in MaybeAddress /\ Raced(t, None) \subseteq MaybeAddress
  BY RacedTyped DEF MaybeAddress
<1>3. /\ alive' \in [Cams -> SUBSET (1..given)] /\ lost' \subseteq Addresses
      /\ events' \in 0..MaxEvents
  BY <1>1, <1>2, AskTyped DEF Unsubscribe
<1>4. camera_items' \in Partial(Item)
  BY <1>2, WriteFacts DEF Unsubscribe
<1>5. onvif_connectors' \in Partial(Passwords \union {None})
  BY WithoutPartial DEF Unsubscribe, SharedType
<1>6. QED
  BY <1>3, <1>4, <1>5 DEF Unsubscribe, SharedType, world

LEMMA SharedNext == Base /\ [Next]_vars => SharedType'
<1> SUFFICES ASSUME Base, [Next]_vars PROVE SharedType'
  OBVIOUS
<1> USE DEF Base
<1>1. ASSUME NEW t \in Inits, Internal(t) PROVE SharedType'
  BY <1>1 DEF Internal, Begin, RemoveEnd, RenewNext, End, SharedType, world, items, camera
<1>2. ASSUME NEW t \in Inits, Query(t) PROVE SharedType'
  BY <1>2, EventTyped DEF Query, SharedType, world, items, camera
<1>3. ASSUME NEW t \in Inits, FetchItems(t) PROVE SharedType'
  BY <1>3, FetchTyped
<1>4. ASSUME NEW t \in Inits, UpdateNext(t) PROVE SharedType'
  <2>1. local[t].update \subseteq Cams
    BY LocalFacts DEF Threads
  <2>2. PICK c \in local[t].update \ local[t].seen :
          \/ Event /\ UNCHANGED <<camera_items, pc>>
          \/ camera_items' = Fetched(c) /\ UNCHANGED events
    BY <1>4, Zenon DEF UpdateNext
  <2>3. camera_items' \in Partial(Item) /\ events' \in 0..MaxEvents
    BY <2>1, <2>2, FetchedFacts, EventTyped DEF SharedType
  <2>4. QED
    BY <1>4, <2>3 DEF UpdateNext, SharedType, world, camera
<1>5. ASSUME NEW t \in Inits, RemoveNext(t) PROVE SharedType'
  BY <1>5, RemoveTyped
<1>6. ASSUME NEW t \in Inits, RenewRaise(t) PROVE SharedType'
  BY <1>6 DEF RenewRaise, SharedType, world, items, camera
<1>7. ASSUME NEW t \in Threads, subscribe_onvif(t) PROVE SharedType'
  BY <1>7, ReadItemTyped, RenewTyped, SubscribeTyped, UnsubscribeTyped DEF subscribe_onvif
<1>8. ASSUME NEW c \in Cams, Change(c) PROVE SharedType'
  BY <1>8, ChangeTyped
<1>9. ASSUME NEW c \in Cams, Lapse(c) PROVE SharedType'
  BY <1>9 DEF Lapse, SharedType, world, items
<1>10. ASSUME NEW c \in Cams, Restart(c) PROVE SharedType'
  <2>1. camera_items' \in Partial(Item) /\ events' \in 0..MaxEvents
    BY <1>10, FetchedFacts, EventTyped DEF Restart, SharedType
  <2>2. QED
    BY <1>10, <2>1 DEF Restart, SharedType, world, camera
<1>11. CASE UNCHANGED vars
  BY <1>11 DEF vars, SharedType, world, items, camera
<1>12. QED
  BY <1>1, <1>2, <1>3, <1>4, <1>5, <1>6, <1>7, <1>8, <1>9, <1>10, <1>11
     DEF Next, function_handler, Fire, init_cameras, Internal, Inits, Threads

--------------------------------------------------------------------------------
(* Where the threads are, and what they hold. *)

\* A thread goes to position l with the variables r.
Moves(t, l, r) == pc' = [pc EXCEPT ![t] = l] /\ local' = [local EXCEPT ![t] = r]

LEMMA MovesTyped ==
  ASSUME ThreadType, HeldType, NEW t \in Threads, NEW l \in Positions, NEW r \in Locals,
         l \in Subscribing => r.cam \in Cams /\ r.back \in ReturnTo(t),
         DOMAIN camera_items \subseteq DOMAIN camera_items',
         r.held => r.cam \in DOMAIN camera_items',
         Moves(t, l, r)
  PROVE  ThreadType' /\ HeldType'
<1>1. /\ pc'[t] = l /\ local'[t] = r
      /\ \A u \in Threads \ {t} : pc'[u] = pc[u] /\ local'[u] = local[u]
  BY DEF Moves, ThreadType
<1>2. pc' \in [Threads -> Positions] /\ local' \in [Threads -> Locals]
  BY DEF Moves, ThreadType
<1>3. QED
  BY <1>1, <1>2 DEF ThreadType, HeldType, ReturnTo, Inits

\* A thread that keeps its position or its variables.
LEMMA StayFacts ==
  ASSUME ThreadType, NEW t \in Threads
  PROVE  /\ UNCHANGED pc => pc' = [pc EXCEPT ![t] = pc[t]]
         /\ UNCHANGED local => local' = [local EXCEPT ![t] = local[t]]
BY DEF ThreadType

\* The variables with which subscribe_onvif returns.
Returned(t) ==
  IF local[t].back = "idle" THEN Nothing
  ELSE [local[t] EXCEPT !.cam = None, !.address = None, !.held = FALSE,
                        !.connector = None, !.back = "idle"]

LEMMA ReturnFacts ==
  ASSUME ThreadType, NEW t \in Threads, pc[t] \in Subscribing, Return(t)
  PROVE  /\ Moves(t, local[t].back, Returned(t))
         /\ Returned(t) \in Locals /\ ~Returned(t).held
         /\ local[t].back \in ReturnTo(t) /\ local[t].back \in Positions \ Subscribing
         /\ Returned(t).remove = IF local[t].back = "idle" THEN {} ELSE local[t].remove
<1>1. local[t] \in Locals /\ local[t].back \in {"idle", "update", "renew"}
      /\ local[t].back \in ReturnTo(t)
  BY LocalFacts
<1>2. Moves(t, local[t].back, Returned(t))
  BY DEF Return, Moves, Goto, Keep, Returned
<1>3. /\ Returned(t) \in Locals /\ ~Returned(t).held
      /\ Returned(t).remove = IF local[t].back = "idle" THEN {} ELSE local[t].remove
  <2>1. CASE local[t].back = "idle"
    BY <2>1, NothingTyped DEF Returned
  <2>2. CASE local[t].back # "idle"
    <3>1. Returned(t) = [local[t] EXCEPT !.cam = None, !.address = None, !.held = FALSE,
                                         !.connector = None, !.back = "idle"]
      BY <2>2 DEF Returned
    <3>2. Returned(t) \in Locals
      BY <1>1, <3>1 DEF Locals
    <3>3. ~Returned(t).held /\ Returned(t).remove = local[t].remove
      BY <1>1, <3>1 DEF Locals
    <3>4. QED
      BY <2>2, <3>2, <3>3
  <2>3. QED
    BY <2>1, <2>2
<1>4. QED
  BY <1>1, <1>2, <1>3 DEF Positions, Subscribing

LEMMA ReturnTyped ==
  ASSUME ThreadType, HeldType, NEW t \in Threads, pc[t] \in Subscribing, Return(t),
         DOMAIN camera_items \subseteq DOMAIN camera_items'
  PROVE  ThreadType' /\ HeldType'
BY ReturnFacts, MovesTyped

\* The steps of init_cameras that start over.
LEMMA NothingStep ==
  ASSUME ThreadType, HeldType, NEW t \in Threads, NEW l \in Positions \ Subscribing,
         NEW r \in Locals, ~r.held,
         DOMAIN camera_items \subseteq DOMAIN camera_items', Moves(t, l, r)
  PROVE  ThreadType' /\ HeldType'
BY MovesTyped

\* UpdateNext takes a camera of the list.
LEMMA UpdateNextFacts ==
  ASSUME SharedType, ThreadType, NEW t \in Inits, UpdateNext(t)
  PROVE  \E c \in Cams, l \in {"update", "item"}, r \in Locals :
           /\ Moves(t, l, r) /\ r.remove = local[t].remove /\ r.held = local[t].held
           /\ l = "update" => r.cam = local[t].cam
           /\ l = "item" => r.cam = c /\ r.back = "update" /\ c \in DOMAIN camera_items'
           /\ \/ UNCHANGED camera_items
              \/ camera_items' = Fetched(c)
<1>1. t \in Threads /\ pc[t] = "update" /\ local[t] \in Locals /\ local[t].update \subseteq Cams
      /\ local[t].seen \subseteq Cams
  BY LocalFacts DEF UpdateNext, Threads
<1>2. PICK c \in local[t].update \ local[t].seen :
       \/ /\ Event
          /\ Keep(t, [local[t] EXCEPT !.seen = @ \union {c}])
          /\ UNCHANGED <<camera_items, pc>>
       \/ /\ camera_items' = Fetched(c)
          /\ IF c \in DOMAIN camera_items \union DOMAIN database
             THEN Goto(t, "item") /\ Keep(t, [local[t] EXCEPT !.seen = @ \union {c}, !.cam = c,
                                                         !.back = "update"])
             ELSE Keep(t, [local[t] EXCEPT !.seen = @ \union {c}]) /\ UNCHANGED pc
          /\ UNCHANGED events
  BY Zenon DEF UpdateNext
<1> DEFINE r1 == [local[t] EXCEPT !.seen = @ \union {c}]
           r2 == [local[t] EXCEPT !.seen = @ \union {c}, !.cam = c, !.back = "update"]
<1>3. c \in Cams
  BY <1>1
<1>4. /\ r1 \in Locals /\ r1.remove = local[t].remove /\ r1.held = local[t].held
      /\ r1.cam = local[t].cam
  BY <1>1, <1>3 DEF Locals
<1>5. /\ r2 \in Locals /\ r2.remove = local[t].remove /\ r2.held = local[t].held
      /\ r2.cam = c /\ r2.back = "update"
  BY <1>1, <1>3 DEF Locals
<1>6. CASE Keep(t, r1) /\ UNCHANGED pc /\ (camera_items' = camera_items \/ camera_items' = Fetched(c))
  <2>1. Moves(t, "update", r1)
    BY <1>1, <1>6, StayFacts DEF Moves, Keep
  <2>2. QED
    BY <1>3, <1>4, <1>6, <2>1
<1>7. CASE /\ camera_items' = Fetched(c) /\ c \in DOMAIN camera_items \union DOMAIN database
           /\ Goto(t, "item") /\ Keep(t, r2)
  <2>1. Moves(t, "item", r2)
    BY <1>7 DEF Moves, Goto, Keep
  <2>2. c \in DOMAIN camera_items'
    BY <1>7 DEF Fetched, With
  <2>3. QED
    BY <1>3, <1>5, <1>7, <2>1, <2>2
<1>8. QED
  BY <1>2, <1>6, <1>7

\* FetchItems: the thread starts its loops or ends, and an item that is replaced or
\* deleted is held by nobody any more.
Fetch(t, u, r) ==
  IF u = t THEN r
  ELSE [local[u] EXCEPT !.held =
          @ /\ local[u].cam \notin
                Changed(Snapshot(t)) \union (DOMAIN camera_items \ DOMAIN Snapshot(t))]

Gone(t) == DOMAIN camera_items \ DOMAIN Snapshot(t)
ToRemove(t) == {[cam |-> c, address |-> camera_items[c].address] : c \in Gone(t)}

LEMMA FetchFacts ==
  ASSUME SharedType, ThreadType, NEW t \in Inits, FetchItems(t)
  PROVE  \E l \in {"update", "idle"}, r \in Locals :
           /\ pc[t] = "fetch" /\ pc' = [pc EXCEPT ![t] = l]
           /\ local' = [u \in Threads |-> Fetch(t, u, r)]
           /\ ~r.held
           /\ \/ l = "update" /\ r.remove = ToRemove(t) /\ UNCHANGED <<lost, broken>>
              \/ /\ l = "idle" /\ r.remove = {} /\ broken'
                 /\ Forget({q.address : q \in ToRemove(t)})
<1> DEFINE r1 == [Nothing EXCEPT !.update = Changed(Snapshot(t)), !.remove = ToRemove(t)]
<1>1. t \in Threads /\ Snapshot(t) \in Partial(Configs) /\ pc[t] = "fetch"
  BY SnapshotTyped DEF Threads, FetchItems
<1>2. Changed(Snapshot(t)) \subseteq Cams /\ ToRemove(t) \subseteq Removed
  BY <1>1, PartialFacts, ItemFacts DEF Changed, ToRemove, Gone, Removed
<1>3. r1 \in Locals
  BY <1>2, NothingTyped
<1>4. r1.remove = ToRemove(t) /\ ~r1.held
  BY DEF Nothing
<1>5. CASE /\ local' = [u \in Threads |-> Fetch(t, u, r1)]
           /\ Goto(t, "update") /\ UNCHANGED <<events, lost, broken>>
  BY <1>1, <1>3, <1>4, <1>5 DEF Goto
<1>6. CASE /\ broken' = TRUE /\ Forget({q.address : q \in ToRemove(t)})
           /\ local' = [u \in Threads |-> Fetch(t, u, Nothing)] /\ Goto(t, "idle")
  BY <1>1, <1>6, NothingTyped DEF Goto
<1>7. QED
  BY <1>5, <1>6 DEF FetchItems, Fetch, Snapshot, ToRemove, Gone

LEMMA FetchThread ==
  ASSUME SharedType, ThreadType, HeldType, NEW t \in Inits, FetchItems(t)
  PROVE  ThreadType' /\ HeldType'
<1>1. PICK l \in {"update", "idle"}, r \in Locals :
        /\ pc[t] = "fetch" /\ pc' = [pc EXCEPT ![t] = l]
        /\ local' = [u \in Threads |-> Fetch(t, u, r)] /\ ~r.held
  BY FetchFacts
<1>2. t \in Threads /\ DOMAIN camera_items' = DOMAIN Snapshot(t)
  BY SnapshotTyped, TakeOverFacts DEF Threads, FetchItems, Snapshot
<1>3. ASSUME NEW u \in Threads \ {t}
      PROVE  /\ local'[u] \in Locals /\ local'[u].cam = local[u].cam
             /\ local'[u].back = local[u].back
             /\ local'[u].held => local[u].held /\ local[u].cam \notin Gone(t)
  <2> DEFINE h == local[u].held /\ local[u].cam \notin Changed(Snapshot(t)) \union Gone(t)
  <2>1. local[u] \in Locals
    BY LocalFacts
  <2>2. local'[u] = [local[u] EXCEPT !.held = h]
    BY <1>1, <2>1 DEF Fetch, Gone, Locals
  <2>3. h \in BOOLEAN
    OBVIOUS
  <2>4. h => local[u].held /\ local[u].cam \notin Gone(t)
    OBVIOUS
  <2> HIDE DEF h
  <2>5. QED
    BY <2>1, <2>2, <2>3, <2>4 DEF Locals
<1>4. local' \in [Threads -> Locals] /\ local'[t] = r
  <2>1. \A u \in Threads : Fetch(t, u, r) \in Locals
    BY <1>1, <1>3, <1>2 DEF Fetch
  <2>2. QED
    BY <1>1, <1>2, <2>1 DEF Fetch
<1>5. pc' \in [Threads -> Positions] /\ pc'[t] = l /\ \A u \in Threads \ {t} : pc'[u] = pc[u]
  BY <1>1, <1>2 DEF ThreadType, Positions
<1>6. ThreadType'
  BY <1>3, <1>4, <1>5 DEF ThreadType, ReturnTo, Inits, Subscribing
<1>7. HeldType'
  BY <1>1, <1>2, <1>3, <1>4 DEF HeldType, Gone
<1>8. QED
  BY <1>6, <1>7

\* The steps of init_cameras that leave camera_items alone.
LEMMA LoopThread ==
  ASSUME SharedType, ThreadType, HeldType, NEW t \in Inits,
         Begin(t) \/ Query(t) \/ RemoveNext(t) \/ RemoveEnd(t) \/ RenewNext(t) \/ RenewRaise(t)
           \/ End(t)
  PROVE  /\ UNCHANGED camera_items /\ pc[t] \in Positions \ Subscribing
         /\ \E l \in {"query", "fetch", "update", "renew", "item", "idle"}, r \in Locals :
              /\ Moves(t, l, r)
              /\ l = "item" => r.cam \in DOMAIN camera_items /\ r.back = "renew"
              /\ r.held => local[t].held /\ (l = "item" \/ r.cam = local[t].cam)
              /\ r.remove \subseteq local[t].remove
              /\ pc[t] = "idle" => Begin(t)
              /\ l = "idle" => RenewRaise(t) \/ End(t)
              /\ r.remove = local[t].remove \/ RemoveNext(t) \/ pc[t] \in {"query", "renew"}
              /\ l = "update" <=> RemoveNext(t)
<1>1. t \in Threads /\ local[t] \in Locals /\ local[t].seen \subseteq Cams
      /\ local[t].remove \subseteq Removed
  BY LocalFacts DEF Threads
<1>2. CASE Begin(t)
  <2>1. Moves(t, "query", local[t])
    BY <1>1, <1>2, StayFacts DEF Begin, Moves, Goto
  <2>2. QED
    BY <1>1, <1>2, <2>1 DEF Begin, items, Positions, Subscribing, RemoveNext
<1>3. CASE Query(t)
  <2> DEFINE r == [Nothing EXCEPT !.snapshot = database]
  <2>1. r \in Locals /\ ~r.held /\ r.remove = {} /\ Nothing \in Locals /\ ~Nothing.held
        /\ Nothing.remove = {}
    BY NothingTyped DEF SharedType, Nothing
  <2>2. Moves(t, "fetch", r) \/ Moves(t, "fetch", Nothing)
    BY <1>3 DEF Query, Moves, Goto, Keep
  <2>3. UNCHANGED camera_items /\ pc[t] = "query"
    BY <1>3 DEF Query, items
  <2>4. ~RemoveNext(t)
    BY <2>3 DEF RemoveNext
  <2>5. QED
    BY <2>1, <2>2, <2>3, <2>4 DEF Positions, Subscribing
<1>4. CASE RemoveNext(t)
  <2>1. PICK q \in local[t].remove : Keep(t, [local[t] EXCEPT !.remove = @ \ {q}])
    BY <1>4 DEF RemoveNext
  <2> DEFINE r == [local[t] EXCEPT !.remove = @ \ {q}]
  <2>2. /\ r \in Locals /\ r.held = local[t].held /\ r.cam = local[t].cam
        /\ r.remove \subseteq local[t].remove
    BY <1>1 DEF Locals
  <2>3. UNCHANGED <<camera_items, pc>> /\ pc[t] = "update"
    BY <1>4 DEF RemoveNext
  <2>4. Moves(t, "update", r)
    BY <1>1, <2>1, <2>3, StayFacts DEF Moves, Keep
  <2>5. QED
    BY <1>4, <2>2, <2>3, <2>4 DEF Positions, Subscribing
<1>5. CASE RemoveEnd(t)
  <2> DEFINE n == Cardinality(DOMAIN camera_items)
             r == [local[t] EXCEPT !.seen = local[t].update, !.size = n]
  <2>1. n \in Nat
    <3>1. DOMAIN camera_items \subseteq Cams
      BY PartialFacts DEF SharedType
    <3>2. QED
      BY <3>1, OnvifAssumption, FS_Subset, FS_CardinalityType
  <2>2. /\ r \in Locals /\ r.held = local[t].held /\ r.cam = local[t].cam
        /\ r.remove = local[t].remove
    <3> HIDE DEF n
    <3>1. QED
      BY <1>1, <2>1 DEF Locals
  <2>3. UNCHANGED camera_items /\ pc[t] = "update" /\ Moves(t, "renew", r) /\ local[t].remove = {}
    BY <1>5 DEF RemoveEnd, items, Moves, Goto, Keep
  <2>4. ~RemoveNext(t)
    BY <2>3 DEF RemoveNext
  <2>5. QED
    BY <2>2, <2>3, <2>4 DEF Positions, Subscribing
<1>6. CASE RenewNext(t)
  <2>1. PICK c \in DOMAIN camera_items \ local[t].seen :
          Keep(t, [local[t] EXCEPT !.seen = @ \union {c}, !.cam = c, !.back = "renew"])
    BY <1>6 DEF RenewNext
  <2> DEFINE r == [local[t] EXCEPT !.seen = @ \union {c}, !.cam = c, !.back = "renew"]
  <2>2. c \in Cams
    BY ItemFacts
  <2>3. /\ r \in Locals /\ r.held = local[t].held /\ r.cam = c /\ r.back = "renew"
        /\ r.remove = local[t].remove
    BY <1>1, <2>2 DEF Locals
  <2>4. UNCHANGED camera_items /\ pc[t] = "renew" /\ Moves(t, "item", r)
    BY <1>6, <2>1 DEF RenewNext, items, Moves, Goto, Keep
  <2>5. ~RemoveNext(t)
    BY <2>4 DEF RemoveNext
  <2>6. QED
    BY <2>3, <2>4, <2>5 DEF Positions, Subscribing
<1>7. CASE RenewRaise(t) \/ End(t)
  <2>1. UNCHANGED camera_items /\ pc[t] = "renew" /\ Moves(t, "idle", Nothing)
    BY <1>7 DEF RenewRaise, End, items, Moves, Goto, Keep
  <2>2. ~RemoveNext(t)
    BY <2>1 DEF RemoveNext
  <2>3. QED
    BY <1>7, <2>1, <2>2, NothingTyped DEF Positions, Subscribing
<1>8. QED
  BY <1>2, <1>3, <1>4, <1>5, <1>6, <1>7

LEMMA LoopTyped ==
  ASSUME SharedType, ThreadType, HeldType, NEW t \in Inits,
         Begin(t) \/ Query(t) \/ RemoveNext(t) \/ RemoveEnd(t) \/ RenewNext(t) \/ RenewRaise(t)
           \/ End(t)
  PROVE  ThreadType' /\ HeldType'
<1>1. UNCHANGED camera_items /\ t \in Threads
  BY LoopThread DEF Threads
<1>2. PICK l \in {"query", "fetch", "update", "renew", "item", "idle"}, r \in Locals :
        /\ Moves(t, l, r)
        /\ l = "item" => r.cam \in DOMAIN camera_items /\ r.back = "renew"
        /\ r.held => local[t].held /\ (l = "item" \/ r.cam = local[t].cam)
  BY LoopThread
<1>3. r.held => r.cam \in DOMAIN camera_items'
  BY <1>1, <1>2 DEF HeldType
<1>4. l \in Subscribing => r.cam \in Cams /\ r.back \in ReturnTo(t)
  BY <1>2, ItemFacts DEF Subscribing, ReturnTo
<1>5. QED
  BY <1>1, <1>2, <1>3, <1>4, MovesTyped DEF Positions

\* The first step of subscribe_onvif: it returns, or asks the camera for something.
LEMMA ReadItemFacts ==
  ASSUME SharedType, ThreadType, NEW t \in Threads, ReadItem(t)
  PROVE  /\ pc[t] = "item" /\ UNCHANGED camera_items
         /\ \/ Return(t)
            \/ \E l \in {"renewal", "subscribe", "unsubscribe"}, r \in Locals :
                 /\ Moves(t, l, r)
                 /\ r.cam = local[t].cam /\ r.back = local[t].back /\ r.remove = local[t].remove
                 /\ r.cam \in DOMAIN camera_items
                 /\ l = "subscribe" => r.address = None
<1> DEFINE c == local[t].cam
           a == camera_items[c].address
           r == [local[t] EXCEPT !.address = a, !.held = TRUE, !.connector = Connector(c)]
<1>1. pc[t] = "item" /\ UNCHANGED camera_items
  BY DEF ReadItem
<1>2. CASE Return(t)
  BY <1>1, <1>2
<1>3. CASE ~Return(t)
  <2>1. c \in DOMAIN camera_items
    BY <1>3 DEF ReadItem
  <2>2. PICK l \in {"renewal", "subscribe", "unsubscribe"} :
          Goto(t, l) /\ Keep(t, r) /\ (l = "subscribe" => a = None)
    BY <1>3 DEF ReadItem
  <2>3. Connector(c) \in Passwords \union {None}
    <3>1. c \in DOMAIN onvif_connectors => onvif_connectors[c] \in Passwords \union {None}
      BY PartialFacts DEF SharedType
    <3>2. camera_items[c].config.cred \in Passwords \union {NoPort}
      BY <2>1, ItemFacts, OnvifAssumption
    <3>3. QED
      BY <3>1, <3>2 DEF Connector
  <2>4. local[t] \in Locals /\ a \in MaybeAddress
    BY <2>1, LocalFacts, ItemFacts
  <2>5. /\ r \in Locals /\ r.cam = c /\ r.back = local[t].back /\ r.remove = local[t].remove
        /\ r.address = a
    <3> DEFINE k == Connector(c)
    <3> HIDE DEF a, k
    <3>1. QED
      BY <2>3, <2>4 DEF Locals, MaybeAddress, k
  <2>6. Moves(t, l, r)
    BY <2>2 DEF Moves, Goto, Keep
  <2>7. QED
    BY <1>1, <2>1, <2>2, <2>5, <2>6
<1>4. QED
  BY <1>2, <1>3

LEMMA SubscribeThread ==
  ASSUME SharedType, ThreadType, HeldType, NEW t \in Threads, subscribe_onvif(t)
  PROVE  /\ ThreadType' /\ HeldType'
         /\ pc[t] \in Subscribing
         /\ \E l \in Subscribing \union ReturnTo(t) : pc' = [pc EXCEPT ![t] = l]
<1>1. pc[t] \in Subscribing
  BY DEF subscribe_onvif, ReadItem, Renew, Subscribe, Unsubscribe, Subscribing
<1>2. DOMAIN camera_items \subseteq DOMAIN camera_items'
  <2>1. local[t].address \in MaybeAddress /\ None \in MaybeAddress
    BY LocalFacts DEF MaybeAddress
  <2>2. given < MaxAddress => given + 1 \in MaybeAddress
    BY OnvifAssumption DEF SharedType, MaybeAddress, Addresses
  <2>3. \/ UNCHANGED camera_items
        \/ \E a \in MaybeAddress : Write(t, a)
    BY <2>1, <2>2 DEF subscribe_onvif, ReadItem, Renew, Subscribe, Unsubscribe
  <2>4. QED
    BY <2>3, WriteFacts
<1>3. CASE Return(t)
  BY <1>1, <1>2, <1>3, ReturnFacts, ReturnTyped DEF Moves
<1>4. CASE ReadItem(t) /\ ~Return(t)
  <2>1. PICK l \in {"renewal", "subscribe", "unsubscribe"}, r \in Locals :
          /\ Moves(t, l, r)
          /\ r.cam = local[t].cam /\ r.back = local[t].back /\ r.cam \in DOMAIN camera_items
    BY <1>4, ReadItemFacts
  <2>2. r.cam \in Cams /\ r.back \in ReturnTo(t) /\ r.cam \in DOMAIN camera_items'
    BY <1>1, <1>2, <2>1, LocalFacts
  <2>3. QED
    BY <1>1, <1>2, <2>1, <2>2, MovesTyped DEF Positions, Subscribing, Moves
<1>5. CASE Goto(t, "subscribe") /\ UNCHANGED local
  <2>1. Moves(t, "subscribe", local[t]) /\ local[t] \in Locals
    BY <1>5, StayFacts, LocalFacts DEF Moves, Goto
  <2>2. local[t].held => local[t].cam \in DOMAIN camera_items'
    BY <1>2 DEF HeldType
  <2>3. QED
    BY <1>1, <1>2, <2>1, <2>2, LocalFacts, MovesTyped DEF Positions, Subscribing, Moves
<1>6. QED
  BY <1>3, <1>4, <1>5 DEF subscribe_onvif, Renew, Subscribe, Unsubscribe

\* A monitor restarts a capture.
LEMMA RestartThread ==
  ASSUME SharedType, ThreadType, HeldType, NEW c \in Cams, Restart(c)
  PROVE  /\ ThreadType' /\ HeldType' /\ c \in Threads \ Inits
         /\ Moves(c, "item", [Nothing EXCEPT !.cam = c])
<1> DEFINE r == [Nothing EXCEPT !.cam = c]
<1>1. c \in Threads \ Inits
  BY OnvifAssumption DEF Threads
<1>2. r \in Locals /\ r.cam = c /\ r.back = "idle" /\ ~r.held
  BY NothingTyped DEF Nothing
<1>3. Moves(c, "item", r)
  BY DEF Restart, Moves, Goto, Keep
<1>4. DOMAIN camera_items \subseteq DOMAIN camera_items'
  BY FetchedFacts DEF Restart, SharedType
<1>5. ThreadType' /\ HeldType'
  <2> HIDE DEF r
  <2>1. "item" \in Positions /\ r.back \in ReturnTo(c)
    BY <1>1, <1>2 DEF Positions, ReturnTo
  <2>2. QED
    BY <1>1, <1>2, <1>3, <1>4, <2>1, MovesTyped
<1>6. QED
  BY <1>1, <1>3, <1>5

LEMMA ThreadNext == Base /\ [Next]_vars => ThreadType' /\ HeldType'
<1> SUFFICES ASSUME Base, [Next]_vars PROVE ThreadType' /\ HeldType'
  OBVIOUS
<1> USE DEF Base
<1>1. ASSUME NEW t \in Inits,
             Begin(t) \/ Query(t) \/ RemoveNext(t) \/ RemoveEnd(t) \/ RenewNext(t) \/ RenewRaise(t)
               \/ End(t)
      PROVE  ThreadType' /\ HeldType'
  BY <1>1, LoopTyped
<1>2. ASSUME NEW t \in Inits, FetchItems(t) PROVE ThreadType' /\ HeldType'
  BY <1>2, FetchThread
<1>3. ASSUME NEW t \in Inits, UpdateNext(t) PROVE ThreadType' /\ HeldType'
  <2>1. PICK c \in Cams, l \in {"update", "item"}, r \in Locals :
           /\ Moves(t, l, r) /\ r.remove = local[t].remove /\ r.held = local[t].held
           /\ l = "update" => r.cam = local[t].cam
           /\ l = "item" => r.cam = c /\ r.back = "update" /\ c \in DOMAIN camera_items'
           /\ \/ UNCHANGED camera_items
              \/ camera_items' = Fetched(c)
    BY <1>3, UpdateNextFacts
  <2>2. DOMAIN camera_items \subseteq DOMAIN camera_items' /\ t \in Threads
    BY <2>1, FetchedFacts DEF SharedType, Threads
  <2>3. r.held => r.cam \in DOMAIN camera_items'
    BY <2>1, <2>2 DEF HeldType
  <2>4. QED
    BY <2>1, <2>2, <2>3, MovesTyped DEF Positions, Subscribing, ReturnTo
<1>4. ASSUME NEW t \in Threads, subscribe_onvif(t) PROVE ThreadType' /\ HeldType'
  BY <1>4, SubscribeThread
<1>5. ASSUME NEW c \in Cams, Restart(c) PROVE ThreadType' /\ HeldType'
  BY <1>5, RestartThread
<1>6. CASE UNCHANGED <<camera_items, pc, local>>
  BY <1>6 DEF ThreadType, HeldType, ReturnTo
<1>7. QED
  BY <1>1, <1>2, <1>3, <1>4, <1>5, <1>6
     DEF Next, function_handler, Fire, init_cameras, Inits, Threads, Change, Lapse, vars, items

--------------------------------------------------------------------------------
(* The timers. *)

\* Threads that come to rest without arming a timer leave more room than there was.
LEMMA BusySubset ==
  ASSUME TimerType, Busy' \subseteq Busy, UNCHANGED timers
  PROVE  TimerType'
<1>1. IsFiniteSet(Busy) /\ Cardinality(Busy) \in Nat /\ Cardinality(Busy') \in Nat
      /\ Cardinality(Inits) \in Nat
  BY InitsFinite DEF Busy
<1>2. Cardinality(Busy') <= Cardinality(Busy)
  BY <1>1, FS_Subset
<1>3. QED
  BY <1>1, <1>2 DEF TimerType

LEMMA TimerNext == Base /\ [Next]_vars => TimerType'
<1> SUFFICES ASSUME Base, [Next]_vars PROVE TimerType'
  OBVIOUS
<1> USE DEF Base
<1>1. ASSUME NEW t \in Inits, Begin(t) PROVE TimerType'
  <2>1. timers' = 0 /\ Cardinality(Busy') \in Nat /\ Cardinality(Busy') <= Cardinality(Inits)
    BY <1>1, InitsFinite DEF Begin, Busy
  <2>2. QED
    BY <2>1 DEF TimerType
<1>2. ASSUME NEW t \in Inits, End(t) PROVE TimerType'
  <2>1. Busy' = Busy \ {t} /\ t \in Busy
    BY <1>2 DEF End, Goto, Busy, ThreadType, Threads
  <2>2. IsFiniteSet(Busy) /\ Cardinality(Busy) \in Nat
    BY InitsFinite DEF Busy
  <2>3. Cardinality(Busy') = Cardinality(Busy) - 1
    BY <2>1, <2>2, FS_RemoveElement
  <2>4. QED
    BY <1>2, <2>2, <2>3, InitsFinite DEF End, TimerType
<1>3. ASSUME NEW t \in Inits, ~Begin(t), ~End(t), init_cameras(t) PROVE TimerType'
  <2>1. UNCHANGED timers
    BY <1>3 DEF init_cameras, Query, FetchItems, UpdateNext, RemoveNext, RemoveEnd, RenewNext,
                RenewRaise, subscribe_onvif, ReadItem, Renew, Subscribe, Unsubscribe
  <2>2. pc[t] # "idle"
    BY <1>3 DEF init_cameras, Query, FetchItems, UpdateNext, RemoveNext, RemoveEnd, RenewNext,
                RenewRaise, subscribe_onvif, ReadItem, Renew, Subscribe, Unsubscribe
  <2>3. \A u \in Threads \ {t} : pc'[u] = pc[u]
    BY <1>3 DEF init_cameras, Query, FetchItems, UpdateNext, RemoveNext, RemoveEnd, RenewNext,
                RenewRaise, subscribe_onvif, ReadItem, Renew, Subscribe, Unsubscribe, Return, Goto,
                ThreadType
  <2>4. Busy' \subseteq Busy
    BY <2>2, <2>3 DEF Busy, Threads
  <2>5. QED
    BY <2>1, <2>4, BusySubset
<1>4. ASSUME NEW c \in Cams, Restart(c) \/ subscribe_onvif(c) PROVE TimerType'
  <2>1. UNCHANGED timers
    BY <1>4 DEF Restart, subscribe_onvif, ReadItem, Renew, Subscribe, Unsubscribe
  <2>2. \A u \in Threads \ {c} : pc'[u] = pc[u]
    BY <1>4 DEF Restart, subscribe_onvif, ReadItem, Renew, Subscribe, Unsubscribe, Return, Goto,
                ThreadType
  <2>3. Busy' \subseteq Busy
    BY <2>2, OnvifAssumption DEF Busy, Threads
  <2>4. QED
    BY <2>1, <2>3, BusySubset
<1>5. CASE UNCHANGED <<timers, pc>>
  BY <1>5 DEF TimerType, Busy
<1>6. QED
  BY <1>1, <1>2, <1>3, <1>4, <1>5
     DEF Next, function_handler, Fire, Inits, Change, Lapse, vars

LEMMA BaseAlways == Spec => []Base
<1>1. Base /\ [Next]_vars => Base'
  BY SharedNext, ThreadNext, TimerNext DEF Base
<1>2. QED
  BY <1>1, BaseInit, PTL DEF Spec

\* TypeOK, for any cameras and threads: camera_items and onvif_connectors keep their
\* shape under every interleaving of init_cameras and the monitors, nobody writes into
\* an item it thinks it holds and that is gone, and init_cameras never leaves more
\* timers than threads that ran it.
THEOREM TypesHold == Spec => []TypeOK
BY BaseAlways, BaseTypes, PTL

\* TimerArmed, for any threads of Timers: however often init_cameras runs at once, when
\* all have left a timer waits, unless one was left by an exception.
THEOREM TimerIsArmed == Spec => []TimerArmed
<1>1. Init => TimerArmed
  BY DEF Init, TimerArmed
<1>2. Base /\ TimerArmed /\ [Next]_vars => TimerArmed'
  <2> SUFFICES ASSUME Base, TimerArmed, [Next]_vars, \A t \in Inits : pc'[t] = "idle"
               PROVE  timers' > 0 \/ broken'
    BY DEF TimerArmed
  <2> USE DEF Base
  <2>1. ASSUME NEW t \in Inits, Begin(t) PROVE FALSE
    BY <2>1 DEF Begin, Goto, ThreadType, Threads
  <2>2. ASSUME NEW t \in Inits, End(t) PROVE timers' > 0
    BY <2>2 DEF End, TimerType
  <2>3. ASSUME NEW t \in Inits, RenewRaise(t) PROVE broken'
    BY <2>3 DEF RenewRaise
  <2>4. ASSUME NEW t \in Inits, FetchItems(t) PROVE broken'
    <3>1. PICK l \in {"update", "idle"} :
            pc' = [pc EXCEPT ![t] = l] /\ (l = "idle" => broken')
      BY <2>4, FetchFacts
    <3>2. QED
      BY <3>1 DEF ThreadType, Threads
  <2>5. ASSUME NEW t \in Inits, UpdateNext(t) PROVE FALSE
    <3>1. PICK l \in {"update", "item"} : pc' = [pc EXCEPT ![t] = l]
      BY <2>5, UpdateNextFacts DEF Moves
    <3>2. QED
      BY <3>1 DEF ThreadType, Threads
  <2>6. ASSUME NEW t \in Inits, Query(t) \/ RemoveNext(t) \/ RemoveEnd(t) \/ RenewNext(t)
        PROVE  FALSE
    BY <2>6 DEF Query, RemoveNext, RemoveEnd, RenewNext, Goto, ThreadType, Threads
  <2>7. ASSUME NEW t \in Inits, subscribe_onvif(t) PROVE FALSE
    <3>1. PICK l \in Subscribing \union ReturnTo(t) : pc' = [pc EXCEPT ![t] = l]
      BY <2>7, SubscribeThread DEF Threads
    <3>2. QED
      BY <3>1 DEF ThreadType, Threads, Subscribing, ReturnTo
  <2>8. ASSUME NEW c \in Cams, Restart(c) \/ subscribe_onvif(c)
        PROVE  timers' > 0 \/ broken'
    <3>1. UNCHANGED <<timers, broken>>
      BY <2>8 DEF Restart, subscribe_onvif, ReadItem, Renew, Subscribe, Unsubscribe
    <3>2. \A u \in Threads \ {c} : pc'[u] = pc[u]
      BY <2>8 DEF Restart, subscribe_onvif, ReadItem, Renew, Subscribe, Unsubscribe, Return, Goto,
                  ThreadType
    <3>3. \A t \in Inits : pc[t] = "idle"
      BY <3>2, OnvifAssumption DEF Threads
    <3>4. QED
      BY <3>1, <3>3 DEF TimerArmed
  <2>9. CASE UNCHANGED <<timers, broken, pc>>
    BY <2>9 DEF TimerArmed
  <2>10. QED
    BY <2>1, <2>2, <2>3, <2>4, <2>5, <2>6, <2>7, <2>8, <2>9
       DEF Next, function_handler, Fire, init_cameras, Inits, Change, Lapse, vars
<1>3. QED
  BY <1>1, <1>2, BaseAlways, PTL DEF Spec

--------------------------------------------------------------------------------
(* Who knows of a subscription. *)

\* No step of the loops takes a camera off the list of those to remove but RemoveNext,
\* and no thread leaves the loops with one on it.
LEMMA RemoveKept ==
  ASSUME Base, \A u \in Threads : Held(u), NEW t \in Threads,
         \/ /\ t \in Inits
            /\ \/ Begin(t) \/ Query(t) \/ UpdateNext(t) \/ RemoveEnd(t) \/ RenewNext(t)
               \/ RenewRaise(t) \/ End(t)
         \/ subscribe_onvif(t)
         \/ t \in Cams /\ Restart(t)
  PROVE  \A u \in Threads : local'[u].remove = local[u].remove
<1> USE DEF Base
<1>1. SUFFICES \E l \in Positions, r \in Locals :
                 Moves(t, l, r) /\ r.remove = local[t].remove
  BY DEF Moves, ThreadType
<1>2. pc[t] \notin Subscribing \union {"update"} => local[t].remove = {}
  BY DEF Held
<1>3. CASE t \in Inits /\ (Begin(t) \/ Query(t) \/ RemoveEnd(t) \/ RenewNext(t) \/ RenewRaise(t) \/ End(t))
  <2>1. PICK l \in {"query", "fetch", "update", "renew", "item", "idle"}, r \in Locals :
          /\ Moves(t, l, r) /\ r.remove \subseteq local[t].remove
          /\ r.remove = local[t].remove \/ RemoveNext(t) \/ pc[t] \in {"query", "renew"}
          /\ l = "update" <=> RemoveNext(t)
    BY <1>3, LoopThread
  <2>2. RemoveNext(t) => local[t].remove # {} /\ pc[t] = "update"
    BY DEF RemoveNext
  <2>3. RemoveEnd(t) => local[t].remove = {}
    BY DEF RemoveEnd
  <2>4. RemoveEnd(t) \/ pc[t] # "update"
    BY <1>3 DEF Begin, Query, RenewNext, RenewRaise, End
  <2>5. ~RemoveNext(t)
    BY <2>2, <2>3, <2>4
  <2>6. pc[t] \in {"query", "renew"} => local[t].remove = {}
    BY <1>2 DEF Subscribing
  <2>7. QED
    BY <2>1, <2>5, <2>6 DEF Positions
<1>4. CASE t \in Inits /\ UpdateNext(t)
  BY <1>4, UpdateNextFacts DEF Positions
<1>5. CASE subscribe_onvif(t)
  <2>1. pc[t] \in Subscribing
    BY <1>5, SubscribeThread
  <2>2. CASE Return(t)
    <3>1. local[t].back = "idle" => local[t].remove = {}
      BY <2>1, <1>2 DEF Held, Subscribing
    <3>2. QED
      BY <2>1, <2>2, <3>1, ReturnFacts
  <2>3. CASE ReadItem(t) /\ ~Return(t)
    BY <2>3, ReadItemFacts DEF Positions
  <2>4. CASE Goto(t, "subscribe") /\ UNCHANGED local
    <3>1. Moves(t, "subscribe", local[t]) /\ local[t] \in Locals
      BY <2>4, StayFacts, LocalFacts DEF Moves, Goto
    <3>2. QED
      BY <3>1 DEF Positions
  <2>5. QED
    BY <1>5, <2>2, <2>3, <2>4 DEF subscribe_onvif, Renew, Subscribe, Unsubscribe
<1>6. CASE t \in Cams /\ Restart(t)
  <2> DEFINE r == [Nothing EXCEPT !.cam = t]
  <2>1. Moves(t, "item", r) /\ r \in Locals /\ r.remove = {}
    BY <1>6, RestartThread, NothingTyped DEF Nothing
  <2>2. local[t].remove = {}
    BY <1>2, <1>6 DEF Restart, Subscribing
  <2>3. QED
    BY <2>1, <2>2 DEF Positions
<1>7. QED
  BY <1>3, <1>4, <1>5, <1>6

LEMMA LostGrows ==
  ASSUME [Next]_vars
  PROVE  lost \subseteq lost'
BY DEF Next, function_handler, Fire, Begin, init_cameras, Query, FetchItems, UpdateNext, RemoveNext,
       RemoveEnd, RenewNext, RenewRaise, End, subscribe_onvif, ReadItem, Renew, Subscribe,
       Unsubscribe, Change, Lapse, Restart, AskUnsubscribe, Forget, vars

\* What Held asks of a thread that moves; the others keep theirs, as lost only grows.
HeldAt(l, r) ==
  /\ r.remove # {} => l = "update" \/ (l \in Subscribing /\ r.back = "update")
  /\ l = "subscribe" => r.address = None \/ r.address \in lost'

LEMMA HeldMoves ==
  ASSUME Base, \A u \in Threads : Held(u), lost \subseteq lost',
         NEW t \in Threads, NEW l, NEW r, HeldAt(l, r), Moves(t, l, r)
  PROVE  \A u \in Threads : Held(u)'
<1>1. /\ pc'[t] = l /\ local'[t] = r
      /\ \A u \in Threads \ {t} : pc'[u] = pc[u] /\ local'[u] = local[u]
  BY DEF Moves, Base, ThreadType
<1>2. QED
  BY <1>1 DEF Held, HeldAt

LEMMA HeldNext ==
  ASSUME Base, \A u \in Threads : Held(u), [Next]_vars
  PROVE  \A u \in Threads : Held(u)'
<1> USE DEF Base
<1>1. lost \subseteq lost'
  BY LostGrows
<1>2. ASSUME NEW t \in Inits,
             Begin(t) \/ Query(t) \/ RemoveNext(t) \/ RemoveEnd(t) \/ RenewNext(t) \/ RenewRaise(t)
               \/ End(t)
      PROVE  \A u \in Threads : Held(u)'
  <2>1. PICK l \in {"query", "fetch", "update", "renew", "item", "idle"}, r \in Locals :
          /\ Moves(t, l, r) /\ r.remove \subseteq local[t].remove
          /\ l = "update" <=> RemoveNext(t)
    BY <1>2, LoopThread
  <2>2. l # "update" => r.remove = {}
    <3>1. RemoveEnd(t) => local[t].remove = {}
      BY DEF RemoveEnd
    <3>2. ~RemoveEnd(t) /\ ~RemoveNext(t) => pc[t] \in {"idle", "query", "renew"}
      BY <1>2 DEF Begin, Query, RenewNext, RenewRaise, End
    <3>3. pc[t] \in {"idle", "query", "renew"} => local[t].remove = {}
      BY DEF Held, Threads, Subscribing
    <3>4. QED
      BY <2>1, <3>1, <3>2, <3>3
  <2>3. HeldAt(l, r)
    BY <2>1, <2>2 DEF HeldAt
  <2>4. QED
    BY <1>1, <2>1, <2>3, HeldMoves DEF Threads
<1>3. ASSUME NEW t \in Inits, UpdateNext(t) PROVE \A u \in Threads : Held(u)'
  <2>1. PICK c \in Cams, l \in {"update", "item"}, r \in Locals :
          Moves(t, l, r) /\ (l = "item" => r.back = "update")
    BY <1>3, UpdateNextFacts
  <2>2. HeldAt(l, r)
    BY <2>1 DEF HeldAt, Subscribing
  <2>3. QED
    BY <1>1, <2>1, <2>2, HeldMoves DEF Threads
<1>4. ASSUME NEW t \in Inits, FetchItems(t) PROVE \A u \in Threads : Held(u)'
  <2>1. PICK l \in {"update", "idle"}, r \in Locals :
          /\ pc' = [pc EXCEPT ![t] = l] /\ local' = [u \in Threads |-> Fetch(t, u, r)]
          /\ l = "idle" => r.remove = {}
    BY <1>4, FetchFacts
  <2>2. \A u \in Threads \ {t} : /\ pc'[u] = pc[u] /\ local'[u].remove = local[u].remove
                                 /\ local'[u].back = local[u].back
                                 /\ local'[u].address = local[u].address
    BY <2>1, LocalFacts DEF Fetch, Locals, ThreadType
  <2>3. pc'[t] = l /\ local'[t].remove = r.remove
    BY <2>1 DEF Fetch, ThreadType, Threads
  <2>4. QED
    BY <1>1, <2>1, <2>2, <2>3 DEF Held
<1>5. ASSUME NEW t \in Threads, subscribe_onvif(t) PROVE \A u \in Threads : Held(u)'
  <2>1. pc[t] \in Subscribing /\ local[t].back \in ReturnTo(t)
        /\ (local[t].remove # {} => local[t].back = "update")
    BY <1>5, SubscribeThread, LocalFacts DEF Held, Subscribing
  <2>2. CASE Return(t)
    <3>1. Moves(t, local[t].back, Returned(t)) /\ HeldAt(local[t].back, Returned(t))
      BY <2>1, <2>2, ReturnFacts DEF HeldAt, Subscribing
    <3>2. QED
      BY <1>1, <3>1, HeldMoves
  <2>3. CASE ReadItem(t) /\ ~Return(t)
    <3>1. PICK l \in {"renewal", "subscribe", "unsubscribe"}, r \in Locals :
            /\ Moves(t, l, r) /\ r.back = local[t].back /\ r.remove = local[t].remove
            /\ l = "subscribe" => r.address = None
      BY <2>3, ReadItemFacts
    <3>2. HeldAt(l, r)
      BY <2>1, <3>1 DEF HeldAt, Subscribing
    <3>3. QED
      BY <1>1, <3>1, <3>2, HeldMoves
  <2>4. CASE Goto(t, "subscribe") /\ UNCHANGED local /\ Forget({local[t].address})
    <3>1. Moves(t, "subscribe", local[t])
      BY <2>4, StayFacts DEF Moves, Goto
    <3>2. HeldAt("subscribe", local[t])
      BY <2>1, <2>4 DEF HeldAt, Subscribing, Forget
    <3>3. QED
      BY <1>1, <3>1, <3>2, HeldMoves
  <2>5. QED
    BY <1>5, <2>2, <2>3, <2>4 DEF subscribe_onvif, Renew, Subscribe, Unsubscribe
<1>6. ASSUME NEW c \in Cams, Restart(c) PROVE \A u \in Threads : Held(u)'
  <2> DEFINE r == [Nothing EXCEPT !.cam = c]
  <2>1. Moves(c, "item", r) /\ r.remove = {} /\ c \in Threads
    BY <1>6, RestartThread DEF Nothing
  <2>2. HeldAt("item", r)
    BY <2>1 DEF HeldAt
  <2>3. QED
    BY <1>1, <2>1, <2>2, HeldMoves
<1>7. CASE UNCHANGED <<pc, local>>
  BY <1>1, <1>7 DEF Held
<1>8. QED
  BY <1>2, <1>3, <1>4, <1>5, <1>6, <1>7
     DEF Next, function_handler, Fire, init_cameras, Inits, Threads, Change, Lapse, vars

\* A subscription that was known stays so if its item keeps its address and nobody
\* strikes its camera off his list.
LEMMA KnownKept ==
  ASSUME NEW c, NEW a, Known(c, a),
         /\ c \in DOMAIN camera_items /\ camera_items[c].address = a
           => c \in DOMAIN camera_items' /\ camera_items'[c].address = a,
         \A u \in Threads : local[u].remove \subseteq local'[u].remove
  PROVE  Known(c, a)'
BY DEF Known

\* An address written into an item replaces one that is given up, or the one that the
\* thread was asked to renew or end.
LEMMA WriteKeeps ==
  ASSUME Base, NEW t \in Threads, NEW b \in MaybeAddress, NEW A,
         Write(t, b), Forget(Raced(t, b) \union A),
         \A u \in Threads : local'[u].remove = local[u].remove,
         NEW c \in Cams, NEW a \in Addresses, Known(c, a), a \notin lost'
  PROVE  Known(c, a)' \/ (c = local[t].cam /\ a = local[t].address /\ a # b)
<1> USE DEF Base
<1>1. /\ DOMAIN camera_items' = DOMAIN camera_items
      /\ local[t].held => camera_items'[local[t].cam].address = b
      /\ \A d \in DOMAIN camera_items :
           ~local[t].held \/ d # local[t].cam => camera_items'[d] = camera_items[d]
  BY WriteFacts
<1>2. CASE local[t].held /\ c = local[t].cam /\ camera_items[c].address = a /\ a # b
  <2>1. a \in {b, local[t].address} \/ a \in Raced(t, b)
    BY <1>2 DEF Raced
  <2>2. a # None
    BY OnvifAssumption
  <2>3. QED
    BY <1>2, <2>1, <2>2 DEF Forget
<1>3. CASE ~(local[t].held /\ c = local[t].cam /\ camera_items[c].address = a /\ a # b)
  BY <1>1, <1>3, KnownKept
<1>4. QED
  BY <1>2, <1>3

\* A new subscription is written into the item, or given up.
LEMMA WriteKnows ==
  ASSUME Base, NEW t \in Threads, NEW c \in Cams, c = local[t].cam, NEW b \in Addresses,
         Write(t, b), Forget(Raced(t, b)), b \notin lost'
  PROVE  Known(c, b)'
<1>1. b # None /\ b \in MaybeAddress
  BY OnvifAssumption DEF MaybeAddress
<1>2. CASE local[t].held
  <2>1. c \in DOMAIN camera_items' /\ camera_items'[c].address = b
    BY <1>1, <1>2, WriteFacts DEF Base, HeldType
  <2>2. QED
    BY <2>1 DEF Known
<1>3. CASE ~local[t].held
  <2>1. c \in DOMAIN camera_items /\ camera_items[c].address = b /\ UNCHANGED camera_items
    BY <1>1, <1>3 DEF Write, Raced, Forget
  <2>2. QED
    BY <2>1 DEF Known
<1>4. QED
  BY <1>2, <1>3

LEMMA KnownLoops ==
  ASSUME Base, SubscriptionInv, lost \subseteq lost', NEW t \in Threads,
         \/ /\ t \in Inits
            /\ \/ Begin(t) \/ Query(t) \/ UpdateNext(t) \/ RemoveEnd(t) \/ RenewNext(t)
               \/ RenewRaise(t) \/ End(t)
         \/ ReadItem(t)
         \/ t \in Cams /\ Restart(t)
  PROVE  KnownAll'
<1>1. \A u \in Threads : local'[u].remove = local[u].remove
  BY RemoveKept DEF SubscriptionInv, subscribe_onvif
<1>2. UNCHANGED alive
  BY DEF Begin, Query, UpdateNext, RemoveEnd, RenewNext, RenewRaise, End, ReadItem, Restart, camera
<1>3. \/ UNCHANGED camera_items
      \/ \E c \in Cams : camera_items' = Fetched(c)
  <2>1. CASE t \in Inits /\ UpdateNext(t)
    BY <2>1, UpdateNextFacts DEF Base
  <2>2. CASE ~(t \in Inits /\ UpdateNext(t))
    BY <2>2 DEF Begin, Query, RemoveEnd, RenewNext, RenewRaise, End, ReadItem, Restart, items
  <2>3. QED
    BY <2>1, <2>2
<1>4. \A c \in DOMAIN camera_items :
        c \in DOMAIN camera_items' /\ camera_items'[c] = camera_items[c]
  BY <1>3, FetchedFacts DEF Base, SharedType
<1>5. ASSUME NEW c \in Cams, NEW a \in Addresses, a \in alive'[c] \ lost' PROVE Known(c, a)'
  <2>1. Known(c, a)
    BY <1>2, <1>5 DEF SubscriptionInv, KnownAll
  <2>2. QED
    BY <1>1, <1>4, <2>1, KnownKept
<1>6. QED
  BY <1>5 DEF KnownAll

\* RemoveNext asks the camera to end the subscription, or gives it up.
LEMMA KnownRemove ==
  ASSUME Base, SubscriptionInv, lost \subseteq lost', NEW t \in Inits, RemoveNext(t)
  PROVE  KnownAll'
<1>1. PICK r \in local[t].remove :
        /\ Keep(t, [local[t] EXCEPT !.remove = @ \ {r}])
        /\ \/ /\ r.cam \in DOMAIN onvif_connectors /\ onvif_connectors[r.cam] # None
              /\ onvif_connectors' = Without(onvif_connectors, r.cam)
              /\ \/ r.address = None /\ UNCHANGED <<alive, events, lost>>
                 \/ r.address # None /\ AskUnsubscribe(r.cam, r.address, onvif_connectors[r.cam], {})
           \/ /\ r.cam \in DOMAIN onvif_connectors => onvif_connectors[r.cam] = None
              /\ Forget({r.address})
              /\ UNCHANGED <<onvif_connectors, alive, events>>
           \/ /\ Event
              /\ Forget({r.address})
              /\ UNCHANGED <<onvif_connectors, alive>>
  BY DEF RemoveNext
<1>2. /\ t \in Threads /\ local[t] \in Locals /\ r \in Removed
      /\ r = [cam |-> r.cam, address |-> r.address] /\ r.cam \in Cams
  BY LocalFacts DEF Base, Threads, Removed
<1>3. /\ local'[t].remove = local[t].remove \ {r}
      /\ \A u \in Threads \ {t} : local'[u] = local[u]
  BY <1>1, <1>2 DEF Keep, Base, ThreadType, Locals
<1>4. UNCHANGED camera_items
  BY DEF RemoveNext
<1>5. /\ \A c \in Cams : alive'[c] \subseteq alive[c]
      /\ r.address # None => r.address \notin alive'[r.cam] \/ r.address \in lost'
  BY <1>1, <1>2 DEF AskUnsubscribe, Forget, Base, SharedType
<1>6. ASSUME NEW c \in Cams, NEW a \in Addresses, a \in alive'[c] \ lost' PROVE Known(c, a)'
  <2>1. Known(c, a)
    BY <1>5, <1>6 DEF SubscriptionInv, KnownAll
  <2>2. [cam |-> c, address |-> a] # r
    BY <1>5, <1>6, OnvifAssumption
  <2>3. \A u \in Threads : [cam |-> c, address |-> a] \in local[u].remove
                            => [cam |-> c, address |-> a] \in local'[u].remove
    BY <1>3, <2>2
  <2>4. QED
    BY <1>4, <2>1, <2>3 DEF Known
<1>7. QED
  BY <1>6 DEF KnownAll

\* fetch_camera_items: an item that goes leaves its address to the thread, which will
\* unsubscribe it, or in lost.
LEMMA KnownFetch ==
  ASSUME Base, SubscriptionInv, lost \subseteq lost', NEW t \in Inits, FetchItems(t)
  PROVE  KnownAll'
<1>1. PICK l \in {"update", "idle"}, r \in Locals :
        /\ pc[t] = "fetch" /\ local' = [u \in Threads |-> Fetch(t, u, r)]
        /\ \/ l = "update" /\ r.remove = ToRemove(t) /\ UNCHANGED <<lost, broken>>
           \/ /\ l = "idle" /\ r.remove = {} /\ broken'
              /\ Forget({q.address : q \in ToRemove(t)})
  BY FetchFacts DEF Base
<1>2. UNCHANGED alive /\ camera_items' = TakeOver(Snapshot(t)) /\ t \in Threads
  BY DEF FetchItems, camera, Snapshot, Threads
<1>3. /\ DOMAIN camera_items' = DOMAIN Snapshot(t)
      /\ \A c \in DOMAIN Snapshot(t) \intersect DOMAIN camera_items :
           camera_items'[c].address = camera_items[c].address
  BY <1>2, SnapshotTyped, TakeOverFacts DEF Base
<1>4. local'[t].remove = r.remove /\ local[t].remove = {}
  BY <1>1, <1>2 DEF Fetch, SubscriptionInv, Held, Subscribing
<1>5. \A u \in Threads \ {t} : local'[u].remove = local[u].remove
  BY <1>1, LocalFacts DEF Fetch, Locals, Base
<1>6. ASSUME NEW c \in Cams, NEW a \in Addresses, a \in alive'[c] \ lost' PROVE Known(c, a)'
  <2>1. Known(c, a)
    BY <1>2, <1>6 DEF SubscriptionInv, KnownAll
  <2>2. CASE \E u \in Threads : [cam |-> c, address |-> a] \in local[u].remove
    BY <1>4, <1>5, <2>2 DEF Known
  <2>3. CASE c \in DOMAIN camera_items /\ camera_items[c].address = a
    <3>1. CASE c \in DOMAIN Snapshot(t)
      BY <1>3, <2>3, <3>1 DEF Known
    <3>2. CASE c \notin DOMAIN Snapshot(t)
      <4>1. [cam |-> c, address |-> a] \in ToRemove(t)
        BY <2>3, <3>2 DEF ToRemove, Gone
      <4>2. a # None
        BY OnvifAssumption
      <4>3. a \in {q.address : q \in ToRemove(t)}
        BY <4>1
      <4>4. r.remove = ToRemove(t)
        BY <1>1, <1>6, <4>2, <4>3 DEF Forget
      <4>5. QED
        BY <1>2, <1>4, <4>1, <4>4 DEF Known
    <3>3. QED
      BY <3>1, <3>2
  <2>4. QED
    BY <2>1, <2>2, <2>3 DEF Known
<1>7. QED
  BY <1>6 DEF KnownAll

LEMMA KnownRenew ==
  ASSUME Base, SubscriptionInv, lost \subseteq lost', NEW t \in Threads, Renew(t)
  PROVE  KnownAll'
<1> DEFINE b == local[t].address
<1>1. /\ \A u \in Threads : local'[u].remove = local[u].remove
      /\ UNCHANGED alive
  BY RemoveKept DEF SubscriptionInv, subscribe_onvif, Renew, camera
<1>2. CASE Write(t, b) /\ Forget(Raced(t, b))
  <2>1. b \in MaybeAddress /\ Forget(Raced(t, b) \union {})
    BY <1>2, LocalFacts DEF Base
  <2>2. ASSUME NEW c \in Cams, NEW a \in Addresses, a \in alive'[c] \ lost' PROVE Known(c, a)'
    <3>1. Known(c, a)
      BY <1>1, <2>2 DEF SubscriptionInv, KnownAll
    <3>2. QED
      BY <1>1, <1>2, <2>1, <2>2, <3>1, WriteKeeps
  <2>3. QED
    BY <2>2 DEF KnownAll
<1>3. CASE UNCHANGED camera_items
  <2>1. ASSUME NEW c \in Cams, NEW a \in Addresses, a \in alive'[c] \ lost' PROVE Known(c, a)'
    <3>1. Known(c, a)
      BY <1>1, <2>1 DEF SubscriptionInv, KnownAll
    <3>2. QED
      BY <1>1, <1>3, <3>1, KnownKept
  <2>2. QED
    BY <2>1 DEF KnownAll
<1>4. QED
  BY <1>2, <1>3 DEF Renew

\* A new subscription overwrites one that is given up: that is what the thread had
\* before it asked.
LEMMA KnownSubscribe ==
  ASSUME Base, SubscriptionInv, lost \subseteq lost', NEW t \in Threads, Subscribe(t)
  PROVE  KnownAll'
<1> DEFINE d == local[t].cam
           new == given + 1
<1>1. /\ \A u \in Threads : local'[u].remove = local[u].remove
      /\ pc[t] = "subscribe" /\ d \in Cams
      /\ local[t].address = None \/ local[t].address \in lost
  <2>1. pc[t] = "subscribe"
    BY DEF Subscribe
  <2>2. QED
    BY <2>1, RemoveKept, LocalFacts DEF SubscriptionInv, Held, subscribe_onvif, Base, Subscribing
<1>2. PICK b \in {None, new}, A \in {{}, {new}} :
        /\ Write(t, b) /\ Forget(Raced(t, b) \union A)
        /\ \/ /\ given < MaxAddress /\ given' = new
              /\ alive' = [alive EXCEPT ![d] = @ \union {new}] /\ (b = new <=> A = {})
           \/ UNCHANGED alive /\ b = None
  <2> DEFINE give == /\ given < MaxAddress /\ given' = new
                     /\ alive' = [alive EXCEPT ![d] = @ \union {new}]
  <2>1. \A X : X \union {} = X
    OBVIOUS
  <2>2. new # None \/ ~(given < MaxAddress)
    BY OnvifAssumption DEF Base, SharedType, Addresses
  <2>3. CASE give /\ Write(t, new) /\ Forget(Raced(t, new))
    BY <2>1, <2>3
  <2>4. CASE give /\ Write(t, None) /\ Forget(Raced(t, None) \union {new})
    BY <2>2, <2>4
  <2>5. CASE UNCHANGED camera /\ Write(t, None) /\ Forget(Raced(t, None))
    BY <2>1, <2>5 DEF camera
  <2>6. QED
    BY <2>3, <2>4, <2>5 DEF Subscribe
<1>3. b \in MaybeAddress
  BY <1>2, OnvifAssumption DEF MaybeAddress, Addresses, Base, SharedType
<1>4. ASSUME NEW c \in Cams, NEW a \in Addresses, a \in alive'[c] \ lost' PROVE Known(c, a)'
  <2>1. CASE a \in alive[c]
    <3>1. Known(c, a) /\ a # local[t].address
      BY <1>1, <1>4, <2>1, OnvifAssumption DEF SubscriptionInv, KnownAll
    <3>2. QED
      BY <1>1, <1>2, <1>3, <1>4, <3>1, WriteKeeps
  <2>2. CASE a \notin alive[c]
    <3>1. /\ given < MaxAddress /\ c = d /\ a = new
          /\ alive' = [alive EXCEPT ![d] = @ \union {new}] /\ (b = new <=> A = {})
      BY <1>1, <1>2, <1>4, <2>2 DEF Base, SharedType
    <3>2. new # None
      BY <3>1, OnvifAssumption
    <3>3. new \notin A
      BY <1>4, <3>1, <3>2, <1>2 DEF Forget
    <3>4. b = new /\ Forget(Raced(t, b))
      BY <1>2, <3>1, <3>3
    <3>5. QED
      BY <1>1, <1>2, <1>4, <3>1, <3>4, WriteKnows
  <2>3. QED
    BY <2>1, <2>2
<1>5. QED
  BY <1>4 DEF KnownAll

LEMMA KnownUnsubscribe ==
  ASSUME Base, SubscriptionInv, lost \subseteq lost', NEW t \in Threads, Unsubscribe(t)
  PROVE  KnownAll'
<1> DEFINE d == local[t].cam
           b == local[t].address
<1>1. /\ \A u \in Threads : local'[u].remove = local[u].remove
      /\ d \in Cams /\ Write(t, None) /\ None \in MaybeAddress
  BY RemoveKept, LocalFacts
     DEF SubscriptionInv, subscribe_onvif, Base, Unsubscribe, Subscribing, MaybeAddress
<1>2. PICK A \in {{}, {b}} :
        /\ Forget(Raced(t, None) \union A)
        /\ \A c \in Cams : alive'[c] \subseteq alive[c]
        /\ A = {} => b \notin alive'[d]
  <2>1. Raced(t, None) \union {} = Raced(t, None)
    OBVIOUS
  <2>2. QED
    BY <1>1, <2>1 DEF Unsubscribe, AskUnsubscribe, Base, SharedType
<1>3. ASSUME NEW c \in Cams, NEW a \in Addresses, a \in alive'[c] \ lost' PROVE Known(c, a)'
  <2>1. Known(c, a)
    BY <1>2, <1>3 DEF SubscriptionInv, KnownAll
  <2>2. a # None
    BY OnvifAssumption
  <2>3. ~(c = d /\ a = b)
    BY <1>2, <1>3, <2>2 DEF Forget
  <2>4. QED
    BY <1>1, <1>2, <1>3, <2>1, <2>3, WriteKeeps
<1>4. QED
  BY <1>3 DEF KnownAll

LEMMA SubscriptionNext == Base /\ SubscriptionInv /\ [Next]_vars => SubscriptionInv'
<1> SUFFICES ASSUME Base, SubscriptionInv, [Next]_vars PROVE SubscriptionInv'
  OBVIOUS
<1>1. lost \subseteq lost'
  BY LostGrows
<1>2. \A u \in Threads : Held(u)'
  BY HeldNext DEF SubscriptionInv
<1>3. KnownAll'
  <2>1. ASSUME NEW t \in Inits, Begin(t) \/ init_cameras(t) PROVE KnownAll'
    BY <1>1, <2>1, KnownLoops, KnownRemove, KnownFetch, KnownRenew, KnownSubscribe, KnownUnsubscribe
       DEF init_cameras, subscribe_onvif, Threads
  <2>2. ASSUME NEW c \in Cams, Restart(c) \/ subscribe_onvif(c) PROVE KnownAll'
    BY <1>1, <2>2, KnownLoops, KnownRenew, KnownSubscribe, KnownUnsubscribe
       DEF subscribe_onvif, Threads
  <2>3. CASE /\ UNCHANGED <<camera_items, local, lost>>
             /\ \A c \in Cams : alive'[c] \subseteq alive[c]
    BY <2>3 DEF SubscriptionInv, KnownAll, Known
  <2>4. ASSUME NEW c \in Cams, Change(c) \/ Lapse(c)
        PROVE  /\ UNCHANGED <<camera_items, local, lost>>
               /\ \A d \in Cams : alive'[d] \subseteq alive[d]
    BY <2>4 DEF Change, Lapse, items, camera, Base, SharedType
  <2>5. CASE UNCHANGED vars
    BY <2>3, <2>5 DEF vars, items, camera
  <2>6. QED
    BY <2>1, <2>2, <2>3, <2>4, <2>5 DEF Next, function_handler, Fire, Inits
<1>4. QED
  BY <1>2, <1>3 DEF SubscriptionInv

\* OneSubscription, for any cameras and threads: at rest no camera holds a subscription
\* that is not in its item, whatever was added, removed, renewed and restarted at once,
\* but for those that a failure or a write to the same item made forgotten.
THEOREM SubscriptionsAreKnown == Spec => []OneSubscription
<1>1. Init => SubscriptionInv
  BY NothingTyped DEF Init, SubscriptionInv, KnownAll, Held, Subscribing
<1>2. Base /\ SubscriptionInv => OneSubscription
  <2> SUFFICES ASSUME Base, SubscriptionInv, \A t \in Threads : pc[t] = "idle",
                      NEW c \in Cams, NEW a \in alive[c] \ lost
               PROVE  c \in DOMAIN camera_items /\ a = camera_items[c].address
    BY DEF OneSubscription
  <2>1. a \in Addresses
    <3>1. alive[c] \subseteq 1..given /\ given \in 0..MaxAddress
      BY DEF Base, SharedType
    <3>2. QED
      BY <3>1, OnvifAssumption DEF Addresses
  <2>2. \A t \in Threads : local[t].remove = {}
    BY DEF SubscriptionInv, Held, Subscribing
  <2>3. QED
    BY <2>1, <2>2 DEF SubscriptionInv, KnownAll, Known
<1>3. QED
  BY <1>1, <1>2, SubscriptionNext, BaseAlways, PTL DEF Spec

================================================================================
