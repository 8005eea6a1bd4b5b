---------------------------- MODULE PanelRuntime ----------------------------
(***************************************************************************)
(* Who runs a panel: the leases of PanelRuntimeCoordinator, the sockets of *)
(* the RPC server that they admit, and the CDP bridge, which lets          *)
(* automation attach to a panel on the host that holds its lease and pins  *)
(* the panel's slot while somebody is attached.                            *)
(*                                                                         *)
(* All three live on one thread.  The coordinator calls the bridge at      *)
(* every change of a lease, and the bridge calls back to unpin: an action  *)
(* is the whole of it.  What takes time is the grace that a lost           *)
(* connection is given, the closing of a socket, and the registration of a *)
(* CDP target, which waits for the panel's metadata after it has looked at *)
(* the lease.                                                              *)
(***************************************************************************)
EXTENDS Integers, FiniteSets

CONSTANTS
  Entity,      \* runtime entities of panels
  Slot,        \* positions in the panel tree
  SlotOf,      \* the slot of an entity; a slot has several over time
  Host,        \* client sessions, which are also their host connection ids
  Headless,    \* those without a user interface
  Mobile,      \* those without CDP
  Loads,       \* those that load what they are assigned
  MaxConn,     \* bounds the connection ids that are given out
  None

ASSUME PanelTypes ==
  /\ SlotOf \in [Entity -> Slot]
  /\ Headless \subseteq Host /\ Mobile \subseteq Host /\ Loads \subseteq Host
  /\ MaxConn \in Nat /\ None \notin Host \cup Slot

VARIABLES
  leases,       \* by entity: the host, its connection, keepLoaded, and whether
                \* the connection is lost (expiresAt)
  clients,      \* the registered hosts
  timers,       \* expiryTimers: the connection that the timer was set for
  marks,        \* defaultCdpLeaseConnections
  kept,         \* keptLoadedSlots
  conns,        \* how many connection ids were given out
  sockets,      \* of the connections: none, open, or closed by the server
  providers,    \* hosts with an open provider connection to the bridge
  registry,     \* targetRegistry: the host that serves a slot's target
  registering,  \* the target whose registration a provider's queue works on
  attached,     \* clientConnections: the host that served the target when the
                \* first of the clients attached that are attached now
  retired       \* the entities whose lease the last step gave up with the
                \* reason "retired" in its change event: what was asked for

bridge == <<providers, registry, registering, attached>>
vars == <<leases, clients, timers, marks, kept, conns, sockets, bridge, retired>>

Conn == 1..MaxConn
Lease == [host : Host, conn : Conn, kept : BOOLEAN, expires : BOOLEAN]

ASSUME NoLease == None \notin Lease

Held(e) == leases[e] # None
InSlot(s) == {e \in Entity : SlotOf[e] = s}
HeldBy(h, s) == \E e \in InSlot(s) : Held(e) /\ leases[e].host = h

-----------------------------------------------------------------------------
(* Pins, and what the bridge does when it hears of a lease.                *)

\* restampSlotKeepLoaded
Restamp(L, S, pinned) ==
  [e \in Entity |-> IF L[e] # None /\ SlotOf[e] \in S THEN [L[e] EXCEPT !.kept = pinned] ELSE L[e]]

\* dropTargetClients, for the slots S: the clients go, then the pin.
Automated(S) == {s \in S : attached[s] # None}
DropTargetClients(S) ==
  /\ attached' = [s \in Slot |-> IF s \in S THEN None ELSE attached[s]]
  /\ kept' = kept \ Automated(S)

\* handleRuntimeLeaseChanged, after the leases of S have left the host "gone" or
\* come to another: the target is detached and its clients are closed.
LeaseMoved(L, S, gone) ==
  /\ DropTargetClients(S)
  /\ registry' = [s \in Slot |-> IF s \in S /\ registry[s] = gone THEN None ELSE registry[s]]
  /\ leases' = Restamp(L, Automated(S), FALSE)
  /\ UNCHANGED <<providers, registering>>

\* The lease stays with its host: the bridge returns at once.
LeaseStays(L) == leases' = L /\ UNCHANGED <<kept, bridge>>

-----------------------------------------------------------------------------
(* Writing and dropping leases.                                            *)

ConnsOf(E) == {leases[e].conn : e \in {x \in E : Held(x)}}
Without(E) == [e \in Entity |-> IF e \in E THEN None ELSE leases[e]]
ClearExpiry(E) == timers' = [e \in Entity |-> IF e \in E THEN None ELSE timers[e]]
Close(C) == sockets' = [c \in Conn |-> IF c \in C /\ sockets[c] = "open" THEN "closing" ELSE sockets[c]]

\* Faulty: the mark of a default lease outlives it.
StillMarked(E) == marks
Unmarked(E) == marks \ ConnsOf(E)

\* Faulty: a lease of a pinned slot is written without the pin.
UnstampedLease(e, h, c) == [host |-> h, conn |-> c, kept |-> FALSE, expires |-> FALSE]
NewLease(e, h, c) == [host |-> h, conn |-> c, kept |-> SlotOf[e] \in kept, expires |-> FALSE]

\* writeLease with a new connection id.
WriteLease(e, h, isDefault) ==
  LET c == conns + 1
      L == [leases EXCEPT ![e] = NewLease(e, h, c)]
  IN  /\ c \in Conn /\ conns' = c
      /\ ClearExpiry({e})
      /\ marks' = Unmarked({e}) \cup (IF isDefault THEN {c} ELSE {})
      /\ IF Held(e) /\ leases[e].host = h THEN LeaseStays(L)
         ELSE LeaseMoved(L, {SlotOf[e]}, IF Held(e) THEN leases[e].host ELSE None)

\* getDefaultCdpHostClient: any that loads what it is assigned, a headless one
\* first.
Eligible(C) == (C \cap Loads) \ Mobile
DefaultHosts(C) ==
  IF Eligible(C) \cap Headless # {} THEN Eligible(C) \cap Headless ELSE Eligible(C)

\* Drops the leases of E, all of one host, and assigns those of R again, if there
\* is a host to assign them to (shouldReassignDefaultCdpLease and
\* assignDefaultCdpHost).  "among" are the hosts that are left.
Reassigned(E) == {e \in E : leases[e].conn \in marks /\ leases[e].host \notin Headless}

DropLeases(E, R, among) ==
  LET S == {SlotOf[e] : e \in E}
      gone == CHOOSE h \in Host : \A e \in E : leases[e].host = h
      rank(e) == Cardinality({x \in R : leases[x].conn < leases[e].conn}) + 1
  IN  /\ ClearExpiry(E)
      /\ IF R = {} \/ DefaultHosts(among) = {}
         THEN LeaseMoved(Without(E), S, gone) /\ marks' = Unmarked(E) /\ UNCHANGED conns
         ELSE /\ conns + Cardinality(R) \in Conn /\ conns' = conns + Cardinality(R)
              /\ marks' = Unmarked(E) \cup (conns + 1)..conns'
              /\ \E d \in DefaultHosts(among) :
                   LeaseMoved([e \in Entity |-> IF e \in R THEN NewLease(e, d, conns + rank(e))
                                                ELSE Without(E)[e]], S, gone)

-----------------------------------------------------------------------------
(* The coordinator's operations.                                           *)

RegisterClient(h) ==
  /\ clients' = clients \cup {h}
  /\ UNCHANGED <<leases, timers, marks, kept, conns, sockets, bridge>>

LeasesOf(h) == {e \in Entity : Held(e) /\ leases[e].host = h}

\* Faulty: the host that goes may be chosen again.
UnregisterLast(h) ==
  /\ h \in clients /\ clients' = clients \ {h}
  /\ LeasesOf(h) # {} /\ Close(ConnsOf(LeasesOf(h)))
  /\ DropLeases(LeasesOf(h), Reassigned(LeasesOf(h)), clients)

\* Its leases are dropped even where they are pinned.
UnregisterClient(h) ==
  LET E == LeasesOf(h)
  IN  /\ h \in clients /\ clients' = clients \ {h}
      /\ Close(ConnsOf(E))
      /\ IF E = {} THEN UNCHANGED <<leases, timers, marks, kept, conns, bridge>>
         ELSE DropLeases(E, Reassigned(E), clients')

\* ensureDefaultCdpHostForSlot; the bridge knows which hosts are reachable.
EnsureDefaultCdpHost(e) ==
  /\ \A x \in InSlot(SlotOf[e]) : ~Held(x)
  /\ \E d \in DefaultHosts(clients \cap providers) : WriteLease(e, d, TRUE)
  /\ UNCHANGED <<clients, sockets>>

Acquire(e, h) ==
  /\ h \in clients /\ (Held(e) => leases[e].host = h)
  /\ WriteLease(e, h, FALSE)
  /\ UNCHANGED <<clients, sockets>>

\* acquire or takeOver again, with the connection that holds the lease: the lease
\* is written anew, and the timer and the mark go.
Reacquire(e) ==
  /\ Held(e) /\ leases[e].host \in clients
  /\ LeaseStays([leases EXCEPT ![e] = NewLease(e, leases[e].host, leases[e].conn)])
  /\ ClearExpiry({e}) /\ marks' = Unmarked({e})
  /\ UNCHANGED <<clients, conns, sockets>>

\* The old connection is closed and the bridge told before writeLease looks for
\* the new host, and throws when it is not registered.
TakeOver(e, h) ==
  /\ Close(ConnsOf({e})) /\ UNCHANGED clients
  /\ IF h \notin clients
     THEN Held(e) /\ LeaseMoved(leases, {SlotOf[e]}, leases[e].host)
          /\ UNCHANGED <<timers, marks, conns>>
     ELSE LET c == conns + 1 IN
            /\ c \in Conn /\ conns' = c /\ ClearExpiry({e})
            /\ marks' = Unmarked({e})
            /\ LeaseMoved([leases EXCEPT ![e] = NewLease(e, h, c)], {SlotOf[e]},
                          IF Held(e) THEN leases[e].host ELSE None)

\* What release does once it is for the connection that holds the lease.  A
\* pinned lease stays, and its timer goes.
ReleaseHeld(e) ==
  IF SlotOf[e] \in kept
  THEN ClearExpiry({e}) /\ UNCHANGED <<leases, marks, kept, conns, bridge>>
  ELSE DropLeases({e}, Reassigned({e}), clients)

Release(e) == Held(e) /\ ReleaseHeld(e) /\ UNCHANGED <<clients, sockets>>

\* The timer of markDisconnected: for the connection that it was set for.
Expire(e) ==
  /\ timers[e] # None
  /\ IF Held(e) /\ leases[e].conn = timers[e] THEN ReleaseHeld(e)
     ELSE ClearExpiry({e}) /\ UNCHANGED <<leases, marks, kept, conns, bridge>>
  /\ UNCHANGED <<clients, sockets>>

\* Faulty: an explicit unload wins over the pin.
UnloadThoughPinned(s) ==
  /\ \E e \in InSlot(s) : Held(e) /\ Close(ConnsOf({e})) /\ DropLeases({e}, {}, clients)
  /\ UNCHANGED clients

\* Only the first lease of the slot.
UnloadSlot(s) ==
  /\ s \notin kept
  /\ \E e \in InSlot(s) : Held(e) /\ Close(ConnsOf({e})) /\ DropLeases({e}, {}, clients)
  /\ UNCHANGED clients

\* The pin is not asked.
RetireRuntimeEntity(e) ==
  /\ Held(e) /\ Close(ConnsOf({e})) /\ DropLeases({e}, {}, clients)
  /\ retired' = {e} /\ UNCHANGED clients

-----------------------------------------------------------------------------
(* Connections of panels to the RPC server.                                *)

\* Faulty: the timer runs on after the panel is back.
MarkConnectedOnly(e) ==
  leases' = [leases EXCEPT ![e].expires = FALSE] /\ UNCHANGED timers

MarkConnected(e) == leases' = [leases EXCEPT ![e].expires = FALSE] /\ ClearExpiry({e})

\* authorizePanelConnection, then markConnected.  A socket of the same
\* connection is replaced, and its late close is ignored.
Connect(e) ==
  /\ Held(e) /\ MarkConnected(e)
  /\ sockets' = [sockets EXCEPT ![leases[e].conn] = "open"]
  /\ UNCHANGED <<clients, marks, kept, conns, bridge>>

\* handleClose, then markDisconnected for the lease of this connection.
MarkDisconnected(c) ==
  LET E == {e \in Entity : Held(e) /\ leases[e].conn = c}
  IN  /\ leases' = [e \in Entity |-> IF e \in E THEN [leases[e] EXCEPT !.expires = TRUE] ELSE leases[e]]
      /\ timers' = [e \in Entity |-> IF e \in E THEN c ELSE timers[e]]

SocketCloses(c) ==
  /\ sockets[c] # "none" /\ sockets' = [sockets EXCEPT ![c] = "none"]
  /\ MarkDisconnected(c)
  /\ UNCHANGED <<clients, marks, kept, conns, bridge>>

-----------------------------------------------------------------------------
(* The CDP bridge.                                                         *)

Coordinator == <<leases, clients, timers, marks, kept, conns, sockets>>
Served(h) == {s \in Slot : registry[s] = h}

\* flushProvider
Flush(h) ==
  /\ DropTargetClients(Served(h))
  /\ leases' = Restamp(leases, Automated(Served(h)), FALSE)
  /\ UNCHANGED <<clients, timers, marks, conns, sockets>>

\* A second connection of the same host replaces the first.  A phone makes none.
ProviderConnects(h) ==
  /\ h \in clients \ Mobile /\ providers' = providers \cup {h}
  /\ IF h \in providers THEN Flush(h) ELSE UNCHANGED <<Coordinator, attached>>
  /\ UNCHANGED <<registry, registering>>

ProviderCloses(h) ==
  /\ h \in providers /\ providers' = providers \ {h}
  /\ Flush(h)
  /\ registry' = [s \in Slot |-> IF registry[s] = h THEN None ELSE registry[s]]
  /\ UNCHANGED registering

\* cdp:register: the lease is looked at, then the metadata is waited for, ...
CdpRegister(h, s) ==
  /\ h \in providers /\ registering[h] = None
  /\ h \notin Mobile /\ HeldBy(h, s)
  /\ registering' = [registering EXCEPT ![h] = s]
  /\ UNCHANGED <<Coordinator, providers, registry, attached>>

\* Faulty: the target is registered under its own id.
RegisteredAsSlot(h) ==
  /\ registering[h] # None
  /\ registry' = [registry EXCEPT ![registering[h]] = registering[h]]
  /\ registering' = [registering EXCEPT ![h] = None]
  /\ UNCHANGED <<Coordinator, providers, attached>>

\* ... and the target is registered.
CdpRegistered(h) ==
  /\ registering[h] # None
  /\ registry' = [registry EXCEPT ![registering[h]] = h]
  /\ registering' = [registering EXCEPT ![h] = None]
  /\ UNCHANGED <<Coordinator, providers, attached>>

\* cdp:unregister closes the clients itself, not with dropTargetClients.
CdpUnregister(h, s) ==
  /\ h \in providers /\ registering[h] = None /\ registry[s] = h
  /\ registry' = [registry EXCEPT ![s] = None] /\ attached' = [attached EXCEPT ![s] = None]
  /\ UNCHANGED <<Coordinator, providers, registering>>

\* providerForTarget: the registered host, if it holds the lease now.
ProviderForTarget(s) == {h \in providers : registry[s] = h /\ h \notin Mobile /\ HeldBy(h, s)}

\* handleClientConnection: the first client pins the slot.
CdpAttach(s) ==
  /\ attached[s] = None
  /\ \E h \in ProviderForTarget(s) : attached' = [attached EXCEPT ![s] = h]
  /\ kept' = kept \cup {s} /\ leases' = Restamp(leases, {s}, TRUE)
  /\ UNCHANGED <<clients, timers, marks, conns, sockets, providers, registry, registering>>

\* The last client closes its connection.
CdpDetach(s) ==
  /\ attached[s] # None /\ DropTargetClients({s}) /\ leases' = Restamp(leases, {s}, FALSE)
  /\ UNCHANGED <<clients, timers, marks, conns, sockets, providers, registry, registering>>

-----------------------------------------------------------------------------
Init ==
  /\ leases = [e \in Entity |-> None] /\ clients = {} /\ timers = [e \in Entity |-> None]
  /\ marks = {} /\ kept = {} /\ conns = 0 /\ sockets = [c \in Conn |-> "none"]
  /\ providers = {} /\ registry = [s \in Slot |-> None]
  /\ registering = [h \in Host |-> None] /\ attached = [s \in Slot |-> None]
  /\ retired = {}

Retires == \E e \in Entity : RetireRuntimeEntity(e)
Others ==
  \/ \E h \in Host : \/ RegisterClient(h) \/ UnregisterClient(h)
                     \/ ProviderConnects(h) \/ ProviderCloses(h) \/ CdpRegistered(h)
                     \/ \E s \in Slot : CdpRegister(h, s) \/ CdpUnregister(h, s)
                     \/ \E e \in Entity : Acquire(e, h) \/ TakeOver(e, h)
  \/ \E e \in Entity : \/ EnsureDefaultCdpHost(e) \/ Reacquire(e) \/ Release(e) \/ Expire(e)
                       \/ Connect(e)
  \/ \E s \in Slot : UnloadSlot(s) \/ CdpAttach(s) \/ CdpDetach(s)
  \/ \E c \in Conn : SocketCloses(c)

Next == Retires \/ (Others /\ retired' = {})

Spec == Init /\ [][Next]_vars

-----------------------------------------------------------------------------
(* Properties.                                                             *)

TypeOK ==
  /\ leases \in [Entity -> Lease \cup {None}] /\ clients \subseteq Host
  /\ timers \in [Entity -> Conn \cup {None}] /\ marks \subseteq Conn /\ kept \subseteq Slot
  /\ conns \in 0..MaxConn /\ sockets \in [Conn -> {"none", "open", "closing"}]
  /\ providers \subseteq Host /\ registry \in [Slot -> Host \cup {None}]
  /\ registering \in [Host -> Slot \cup {None}] /\ attached \in [Slot -> Host \cup {None}]
  /\ retired \subseteq Entity

\* No lease outlives its host's registration, however it came to it, so that
\* routing never leads to a host that has left.
HoldersAreRegistered == \A e \in Entity : Held(e) => leases[e].host \in clients

\* A connection id is marked as a default lease only while it holds one: a lease
\* that a user has taken over is never handed to a headless host.
MarksAreLeases == marks \subseteq ConnsOf(Entity)

\* A grace timer runs only for a lease whose own connection is lost: a panel that
\* is connected again, or another host that has taken over, is never expired by it.
TimersAreForTheLost ==
  \A e \in Entity : timers[e] # None =>
    Held(e) /\ leases[e].conn = timers[e] /\ leases[e].expires /\ sockets[timers[e]] # "open"

\* CDP clients are attached to a host that holds a lease of the slot, and the
\* leases of the slot say that it must stay loaded.
AutomationIsKept ==
  \A s \in Slot : attached[s] # None =>
    /\ HeldBy(attached[s], s) /\ s \in kept
    /\ \A e \in InSlot(s) : Held(e) => leases[e].kept

\* "Leases for a pinned slot ... are refused for release/unload/expiry so
\* mid-automation operations can't yank the page": under automation a lease that
\* was not asked to be retired goes only with its host, or to another lease.
PinnedIsNotYanked ==
  [][\A e \in Entity : Held(e) /\ SlotOf[e] \in kept /\ leases[e].host \in clients'
       => leases'[e] # None \/ e \in retired']_vars
=============================================================================
