------------------------- MODULE PanelRuntime_proofs -------------------------
(* Proofs about panel leases, for any number of entities, slots, hosts and *)
(* connections.                                                            *)
EXTENDS PanelRuntime, FiniteSetTheorems, TLAPS

\* Counting: numbering the elements of a finite set by how many come before
\* them in an order without ties gives 1..n, each number once.
LEMMA Numbering ==
  ASSUME NEW R, IsFiniteSet(R), NEW f \in [R -> Nat], \A x, y \in R : f[x] = f[y] => x = y,
         NEW rank, rank = [x \in R |-> Cardinality({y \in R : f[y] < f[x]}) + 1]
  PROVE  /\ rank \in [R -> 1..Cardinality(R)]
         /\ \A x, y \in R : rank[x] = rank[y] => x = y
         /\ \A m \in 1..Cardinality(R) : \E x \in R : rank[x] = m
<1> DEFINE below(x) == {y \in R : f[y] < f[x]}
           n == Cardinality(R)
<1>0. rank = [x \in R |-> Cardinality(below(x)) + 1]
  OBVIOUS
<1>1. n \in Nat /\ \A x \in R : IsFiniteSet(below(x)) /\ Cardinality(below(x)) \in Nat
  BY FS_Subset, FS_CardinalityType
<1>2. \A x \in R : Cardinality(below(x)) < n
  <2>1. SUFFICES ASSUME NEW x \in R PROVE Cardinality(below(x)) < n
    OBVIOUS
  <2>2. below(x) \in SUBSET R /\ x \notin below(x)
    OBVIOUS
  <2>3. Cardinality(below(x)) <= n /\ Cardinality(below(x)) # n
    BY <2>1, <2>2, FS_Subset
  <2> HIDE DEF below, n
  <2>4. QED
    BY <1>1, <2>3
<1>3. ASSUME NEW x \in R, NEW y \in R, f[x] < f[y]
      PROVE  Cardinality(below(x)) < Cardinality(below(y))
  <2>1. \A z \in R : f[z] < f[x] => f[z] < f[y]
    BY <1>3
  <2>2. below(x) \in SUBSET below(y) /\ x \in below(y) /\ x \notin below(x)
    BY <1>3, <2>1
  <2>3. Cardinality(below(x)) <= Cardinality(below(y)) /\ Cardinality(below(x)) # Cardinality(below(y))
    BY <1>1, <2>2, FS_Subset
  <2>4. QED
    BY <1>1, <2>3
<1>4. rank \in [R -> 1..n]
  <2>1. \A m \in Nat : m < n => m + 1 \in 1..n
    BY <1>1
  <2>2. \A x \in R : Cardinality(below(x)) + 1 \in 1..n
    BY <1>1, <1>2, <2>1
  <2> HIDE DEF below, n
  <2>3. QED
    BY <1>0, <2>2
<1>5. ASSUME NEW x \in R, NEW y \in R, x # y PROVE rank[x] # rank[y]
  <2>1. f[x] < f[y] \/ f[y] < f[x]
    BY <1>5
  <2>a. Cardinality(below(x)) < Cardinality(below(y)) \/ Cardinality(below(y)) < Cardinality(below(x))
    BY <1>3, <2>1
  <2>b. \A i, j \in Nat : i < j \/ j < i => i + 1 # j + 1
    OBVIOUS
  <2>2. Cardinality(below(x)) + 1 # Cardinality(below(y)) + 1
    BY <1>1, <2>a, <2>b
  <2> HIDE DEF below
  <2>3. QED
    BY <1>0, <2>2
<1>6. rank \in Injection(R, 1..n)
  BY <1>4, <1>5 DEF Injection, IsInjective
<1>7. rank \in Surjection(R, 1..n)
  <2>1. IsFiniteSet(1..n) /\ Cardinality(1..n) = n
    BY <1>1, FS_Interval
  <2>2. QED
    BY <1>6, <2>1, FS_Injection
<1>8. \A m \in 1..n : \E x \in R : rank[x] = m
  BY <1>7 DEF Surjection
<1>9. QED
  BY <1>4, <1>5, <1>8

-----------------------------------------------------------------------------
\* The strengthening: a connection id is given out once, so that it names one
\* lease.
ConnsDistinct ==
  \A e, x \in Entity : Held(e) /\ Held(x) /\ leases[e].conn = leases[x].conn => e = x
ConnsGivenOut == \A e \in Entity : Held(e) => leases[e].conn <= conns

LeaseTable == [Entity -> Lease \cup {None}]

\* The inductive invariant: the coordinator's part, and that of the bridge with
\* the pins.
CoordinatorInv ==
  /\ leases \in LeaseTable /\ clients \subseteq Host /\ timers \in [Entity -> Conn \cup {None}]
  /\ marks \subseteq Conn /\ conns \in 0..MaxConn
  /\ sockets \in [Conn -> {"none", "open", "closing"}]
  /\ HoldersAreRegistered /\ ConnsDistinct /\ ConnsGivenOut
  /\ MarksAreLeases /\ TimersAreForTheLost
BridgeInv ==
  /\ kept \subseteq Slot /\ providers \subseteq Host
  /\ registry \in [Slot -> Host \cup {None}] /\ registering \in [Host -> Slot \cup {None}]
  /\ attached \in [Slot -> Host \cup {None}]
  /\ AutomationIsKept
PanelInv == CoordinatorInv /\ BridgeInv

\* Two tables with the same leases, but for their pins.
SameLeases(T, L) ==
  /\ \A e \in Entity : T[e] = None <=> L[e] = None
  /\ \A e \in Entity : L[e] # None =>
       T[e].host = L[e].host /\ T[e].conn = L[e].conn /\ T[e].expires = L[e].expires

\* restampSlotKeepLoaded changes nothing but the pin.
LEMMA RestampKeeps ==
  ASSUME NEW L \in LeaseTable, NEW S, NEW T,
         T = Restamp(L, S, TRUE) \/ T = Restamp(L, S, FALSE)
  PROVE  T \in LeaseTable /\ SameLeases(T, L)
<1>1. ASSUME NEW e \in Entity, L[e] # None
      PROVE  /\ T[e] \in Lease
             /\ T[e].host = L[e].host /\ T[e].conn = L[e].conn /\ T[e].expires = L[e].expires
  <2>1. L[e] \in Lease
    BY <1>1 DEF LeaseTable
  <2>2. QED
    BY <1>1, <2>1 DEF Restamp, Lease
<1>2. ASSUME NEW e \in Entity, L[e] = None PROVE T[e] = None
  BY <1>2 DEF Restamp
<1>3. \A e \in Entity : T[e] = None <=> L[e] = None
  BY <1>1, <1>2, NoLease
<1>4. T \in LeaseTable
  <2>1. \A e \in Entity : T[e] \in Lease \cup {None}
    BY <1>1, <1>2
  <2>2. QED
    BY <2>1 DEF Restamp, LeaseTable
<1>5. QED
  BY <1>1, <1>3, <1>4 DEF SameLeases

\* A lease that is held is a lease.
LEMMA HeldIsLease ==
  ASSUME PanelInv, NEW e \in Entity, Held(e)
  PROVE  /\ leases[e] \in Lease /\ leases[e].host \in Host
         /\ leases[e].conn \in Conn /\ leases[e].conn \in Nat
BY PanelTypes DEF PanelInv, CoordinatorInv, LeaseTable, Held, Lease, Conn

\* When the clients of the slots S are dropped and their pins taken from the
\* leases (dropTargetClients), automation stays on kept slots, whatever becomes
\* of the leases of S.
LEMMA DroppedKeeps ==
  ASSUME PanelInv, NEW L \in LeaseTable, NEW S \in SUBSET Slot,
         DropTargetClients(S), leases' = Restamp(L, Automated(S), FALSE),
         \A e \in Entity : SlotOf[e] \notin S => L[e] = leases[e],
         providers' \subseteq Host, registry' \in [Slot -> Host \cup {None}],
         registering' \in [Host -> Slot \cup {None}]
  PROVE  leases' \in LeaseTable /\ SameLeases(leases', L) /\ BridgeInv'
<1>1. leases' = Restamp(L, Automated(S), FALSE)
  OBVIOUS
<1>2. leases' \in LeaseTable /\ SameLeases(leases', L)
  BY <1>1, RestampKeeps
<1>3. /\ attached' = [s \in Slot |-> IF s \in S THEN None ELSE attached[s]]
      /\ kept' = kept \ Automated(S)
  BY DEF DropTargetClients
<1>4. kept' \subseteq Slot /\ attached' \in [Slot -> Host \cup {None}]
  BY <1>3 DEF PanelInv, BridgeInv
<1>5. ASSUME NEW s \in Slot, attached'[s] # None
      PROVE  /\ \E e \in InSlot(s) : leases'[e] # None /\ leases'[e].host = attached'[s]
             /\ s \in kept'
             /\ \A e \in InSlot(s) : leases'[e] # None => leases'[e].kept
  <2>1. s \notin S /\ attached'[s] = attached[s] /\ attached[s] # None
    BY <1>3, <1>5
  <2>2. /\ HeldBy(attached[s], s) /\ s \in kept
        /\ \A e \in InSlot(s) : Held(e) => leases[e].kept
    BY <2>1 DEF PanelInv, BridgeInv, AutomationIsKept
  <2>3. \A e \in InSlot(s) : leases'[e] = leases[e]
    <3>1. \A e \in InSlot(s) : SlotOf[e] \notin Automated(S) /\ e \in Entity /\ L[e] = leases[e]
      BY <2>1 DEF InSlot, Automated
    <3>2. QED
      BY <1>1, <3>1 DEF Restamp
  <2>4. s \in kept'
    BY <1>3, <2>1, <2>2 DEF Automated
  <2>5. \E e \in InSlot(s) : leases'[e] # None /\ leases'[e].host = attached'[s]
    BY <2>1, <2>2, <2>3 DEF HeldBy, Held
  <2>6. QED
    BY <2>2, <2>3, <2>4, <2>5 DEF Held
<1>6. AutomationIsKept'
  BY <1>5 DEF AutomationIsKept, HeldBy, InSlot, Held
<1>7. QED
  BY <1>2, <1>4, <1>6 DEF BridgeInv

\* The same of what the bridge does at a change of leases
\* (handleRuntimeLeaseChanged).
LEMMA MovedKeeps ==
  ASSUME PanelInv, NEW L \in LeaseTable, NEW S \in SUBSET Slot, NEW gone,
         LeaseMoved(L, S, gone), \A e \in Entity : SlotOf[e] \notin S => L[e] = leases[e]
  PROVE  leases' \in LeaseTable /\ SameLeases(leases', L) /\ BridgeInv'
<1>1. /\ DropTargetClients(S) /\ leases' = Restamp(L, Automated(S), FALSE)
      /\ registry' = [s \in Slot |-> IF s \in S /\ registry[s] = gone THEN None ELSE registry[s]]
      /\ providers' = providers /\ registering' = registering
  BY DEF LeaseMoved
<1>2. providers' \subseteq Host /\ registry' \in [Slot -> Host \cup {None}]
      /\ registering' \in [Host -> Slot \cup {None}]
  BY <1>1 DEF PanelInv, BridgeInv
<1>3. QED
  BY <1>1, <1>2, DroppedKeeps

\* A step that writes the leases of W, with new connections or their own, or
\* drops them; the others keep their host, connection and grace, and no socket
\* opens.
Written(W) ==
  /\ leases' \in LeaseTable /\ clients' \subseteq Host
  /\ \A e \in Entity \ W : leases'[e] = None <=> leases[e] = None
  /\ \A e \in Entity \ W : Held(e) =>
       /\ leases'[e].host = leases[e].host /\ leases'[e].conn = leases[e].conn
       /\ leases'[e].expires = leases[e].expires /\ leases[e].host \in clients'
  /\ \A e \in W : leases'[e] # None =>
       /\ leases'[e].host \in clients'
       /\ \/ conns < leases'[e].conn /\ leases'[e].conn <= conns'
          \/ Held(e) /\ leases'[e].conn = leases[e].conn
  /\ \A e, x \in W : leases'[e] # None /\ leases'[x] # None
       /\ leases'[e].conn = leases'[x].conn => e = x
  /\ conns' \in 0..MaxConn /\ conns <= conns'
  /\ timers' = [e \in Entity |-> IF e \in W THEN None ELSE timers[e]]
  /\ \A m \in marks' : (m \in marks /\ m \notin ConnsOf(W))
       \/ \E e \in W : leases'[e] # None /\ leases'[e].conn = m
  /\ sockets' \in [Conn -> {"none", "open", "closing"}]
  /\ \A c \in Conn : sockets'[c] = "open" => sockets[c] = "open"

\* After such a step hosts, connection ids, marks and timers agree with the
\* leases as before.
LEMMA WrittenKeeps ==
  ASSUME PanelInv, NEW W \in SUBSET Entity, Written(W)
  PROVE  CoordinatorInv'
<1> USE DEF Written
<1>1. conns \in Nat /\ conns' \in Nat
  BY PanelTypes DEF PanelInv, CoordinatorInv
<1>2. \A e \in Entity : leases'[e] # None => leases'[e].conn \in Nat /\ leases'[e].conn \in Conn
  BY PanelTypes DEF LeaseTable, Lease, Conn
<1>3. \A e \in Entity : Held(e) => leases[e].conn \in Nat /\ leases[e].conn <= conns
  BY HeldIsLease DEF PanelInv, CoordinatorInv, ConnsGivenOut
<1>4. HoldersAreRegistered'
  BY DEF HoldersAreRegistered, Held
<1>5. ConnsGivenOut'
  <2>1. SUFFICES ASSUME NEW e \in Entity, leases'[e] # None PROVE leases'[e].conn <= conns'
    BY DEF ConnsGivenOut, Held
  <2>2. CASE e \in W
    BY <1>1, <1>2, <1>3, <2>1, <2>2
  <2>3. CASE e \notin W
    BY <1>1, <1>2, <1>3, <2>1, <2>3 DEF Held
  <2>4. QED
    BY <2>2, <2>3
<1>6. ConnsDistinct'
  <2>1. SUFFICES ASSUME NEW e \in Entity, NEW x \in Entity, leases'[e] # None, leases'[x] # None,
                        leases'[e].conn = leases'[x].conn
                 PROVE  e = x
    BY DEF ConnsDistinct, Held
  <2>2. \A y, z \in Entity : Held(y) /\ Held(z) /\ leases[y].conn = leases[z].conn => y = z
    BY DEF PanelInv, CoordinatorInv, ConnsDistinct
  <2>3. CASE e \in W /\ x \in W
    BY <2>1, <2>3
  <2>4. CASE e \notin W /\ x \notin W
    BY <2>1, <2>2, <2>4 DEF Held
  <2>5. CASE e \in W /\ x \notin W
    <3>1. Held(x) /\ leases'[x].conn = leases[x].conn
      BY <2>1, <2>5 DEF Held
    <3>2. ~(conns < leases'[e].conn)
      BY <1>1, <1>2, <1>3, <2>1, <3>1
    <3>3. QED
      BY <2>1, <2>2, <2>5, <3>1, <3>2
  <2>6. CASE e \notin W /\ x \in W
    <3>1. Held(e) /\ leases'[e].conn = leases[e].conn
      BY <2>1, <2>6 DEF Held
    <3>2. ~(conns < leases'[x].conn)
      BY <1>1, <1>2, <1>3, <2>1, <3>1
    <3>3. QED
      BY <2>1, <2>2, <2>6, <3>1, <3>2
  <2>7. QED
    BY <2>3, <2>4, <2>5, <2>6
<1>7. \A m \in marks' : \E e \in Entity : leases'[e] # None /\ leases'[e].conn = m
  <2>1. SUFFICES ASSUME NEW m \in marks', m \in marks, m \notin ConnsOf(W)
                 PROVE  \E e \in Entity : leases'[e] # None /\ leases'[e].conn = m
    OBVIOUS
  <2>2. PICK e \in Entity : Held(e) /\ leases[e].conn = m
    BY <2>1 DEF PanelInv, CoordinatorInv, MarksAreLeases, ConnsOf
  <2>3. e \notin W
    BY <2>1, <2>2 DEF ConnsOf
  <2>4. QED
    BY <2>2, <2>3 DEF Held
<1>8. MarksAreLeases' /\ marks' \subseteq Conn
  BY <1>2, <1>7 DEF MarksAreLeases, ConnsOf, Held
<1>9. TimersAreForTheLost'
  <2>1. SUFFICES ASSUME NEW e \in Entity, timers'[e] # None
                 PROVE  /\ leases'[e] # None /\ leases'[e].conn = timers'[e]
                        /\ leases'[e].expires /\ sockets'[timers'[e]] # "open"
    BY DEF TimersAreForTheLost, Held
  <2>2. e \notin W /\ timers'[e] = timers[e]
    BY <2>1
  <2>3. Held(e) /\ leases[e].conn = timers[e] /\ leases[e].expires /\ sockets[timers[e]] # "open"
    BY <2>1, <2>2 DEF PanelInv, CoordinatorInv, TimersAreForTheLost
  <2>4. timers[e] \in Conn
    BY <2>3, HeldIsLease
  <2>5. QED
    BY <2>2, <2>3, <2>4 DEF Held
<1>10. timers' \in [Entity -> Conn \cup {None}]
  BY DEF PanelInv, CoordinatorInv
<1>11. QED
  BY <1>4, <1>5, <1>6, <1>8, <1>9, <1>10 DEF CoordinatorInv

\* A new lease is a lease.
LEMMA NewLeaseType ==
  ASSUME NEW e \in Entity, NEW h \in Host, NEW c \in Conn
  PROVE  /\ NewLease(e, h, c) \in Lease
         /\ NewLease(e, h, c).host = h /\ NewLease(e, h, c).conn = c
         /\ NewLease(e, h, c).kept = (SlotOf[e] \in kept)
BY DEF NewLease, Lease

\* A table in which only the lease of e is other than before, held by the same
\* host as before and stamped with the pin, keeps automation on kept slots.
LEMMA StaysKeeps ==
  ASSUME PanelInv, NEW e \in Entity, Held(e), leases' \in LeaseTable, leases'[e] # None,
         leases'[e].host = leases[e].host, SlotOf[e] \in kept => leases'[e].kept,
         \A x \in Entity \ {e} : leases'[x] = leases[x], UNCHANGED <<kept, bridge>>
  PROVE  BridgeInv'
<1>1. AutomationIsKept'
  <2>1. SUFFICES ASSUME NEW s \in Slot, attached[s] # None
                 PROVE  /\ \E x \in InSlot(s) : leases'[x] # None /\ leases'[x].host = attached[s]
                        /\ s \in kept
                        /\ \A x \in InSlot(s) : leases'[x] # None => leases'[x].kept
    BY DEF AutomationIsKept, HeldBy, Held, InSlot, bridge
  <2>2. /\ HeldBy(attached[s], s) /\ s \in kept
        /\ \A x \in InSlot(s) : Held(x) => leases[x].kept
    BY <2>1 DEF PanelInv, BridgeInv, AutomationIsKept
  <2>3. \E x \in InSlot(s) : leases'[x] # None /\ leases'[x].host = attached[s]
    BY <2>2 DEF HeldBy, Held, InSlot
  <2>4. \A x \in InSlot(s) : leases'[x] # None => leases'[x].kept
    BY <2>2 DEF Held, InSlot
  <2>5. QED
    BY <2>2, <2>3, <2>4
<1>2. QED
  BY <1>1 DEF PanelInv, BridgeInv, bridge

\* Writing a lease with a new connection keeps the invariant, whether the bridge
\* returns at once or hears of a move.
LEMMA NewLeaseKeeps ==
  ASSUME PanelInv, NEW e \in Entity, NEW h \in clients, NEW gone, UNCHANGED clients,
         conns + 1 \in Conn, conns' = conns + 1, ClearExpiry({e}),
         \A m \in marks' : (m \in marks /\ m \notin ConnsOf({e})) \/ m = conns + 1,
         \/ /\ Held(e) /\ leases[e].host = h
            /\ LeaseStays([leases EXCEPT ![e] = NewLease(e, h, conns + 1)])
         \/ LeaseMoved([leases EXCEPT ![e] = NewLease(e, h, conns + 1)], {SlotOf[e]}, gone),
         sockets' \in [Conn -> {"none", "open", "closing"}],
         \A d \in Conn : sockets'[d] = "open" => sockets[d] = "open"
  PROVE  PanelInv'
<1> DEFINE c == conns + 1
           L == [leases EXCEPT ![e] = NewLease(e, h, c)]
<1>1. c \in Conn /\ conns' = c
  OBVIOUS
<1>2. h \in Host /\ NewLease(e, h, c) \in Lease /\ NewLease(e, h, c).host = h
      /\ NewLease(e, h, c).conn = c /\ NewLease(e, h, c).kept = (SlotOf[e] \in kept)
  BY <1>1, NewLeaseType DEF PanelInv, CoordinatorInv
<1>3. /\ L \in LeaseTable /\ L[e] = NewLease(e, h, c) /\ L[e] # None
      /\ \A x \in Entity \ {e} : L[x] = leases[x]
  BY <1>2, NoLease DEF PanelInv, CoordinatorInv, LeaseTable
<1> HIDE DEF L
<1>4. leases' \in LeaseTable /\ SameLeases(leases', L) /\ BridgeInv'
  <2>1. CASE Held(e) /\ leases[e].host = h /\ LeaseStays(L)
    <3>1. leases' = L /\ UNCHANGED <<kept, bridge>>
      BY <2>1 DEF LeaseStays
    <3>2. BridgeInv'
      BY <1>2, <1>3, <2>1, <3>1, StaysKeeps
    <3>3. QED
      BY <1>3, <3>1, <3>2 DEF SameLeases
  <2>2. CASE LeaseMoved(L, {SlotOf[e]}, gone)
    <3>1. {SlotOf[e]} \in SUBSET Slot
      BY PanelTypes
    <3>2. \A x \in Entity : SlotOf[x] \notin {SlotOf[e]} => L[x] = leases[x]
      BY <1>3
    <3>3. QED
      BY <1>3, <2>2, <3>1, <3>2, MovedKeeps
  <2>3. QED
    BY <2>1, <2>2 DEF L
<1>5. Written({e})
  <2>1. conns \in Nat /\ MaxConn \in Nat /\ conns' \in 0..MaxConn /\ conns < c /\ conns <= conns'
    BY <1>1, PanelTypes DEF PanelInv, CoordinatorInv, Conn
  <2>2. \A x \in Entity \ {e} : leases'[x] = None <=> leases[x] = None
    BY <1>3, <1>4 DEF SameLeases
  <2>3. \A x \in Entity \ {e} : Held(x) =>
          /\ leases'[x].host = leases[x].host /\ leases'[x].conn = leases[x].conn
          /\ leases'[x].expires = leases[x].expires /\ leases[x].host \in clients'
    BY <1>3, <1>4 DEF SameLeases, Held, PanelInv, CoordinatorInv, HoldersAreRegistered
  <2>4. leases'[e] # None /\ leases'[e].host \in clients' /\ leases'[e].conn = c
    BY <1>2, <1>3, <1>4 DEF SameLeases
  <2>5. timers' = [x \in Entity |-> IF x \in {e} THEN None ELSE timers[x]]
    BY DEF ClearExpiry
  <2>6. \A m \in marks' : (m \in marks /\ m \notin ConnsOf({e})) \/ m = c
    OBVIOUS
  <2>7. clients' \subseteq Host /\ sockets' \in [Conn -> {"none", "open", "closing"}]
        /\ \A d \in Conn : sockets'[d] = "open" => sockets[d] = "open"
    BY DEF PanelInv, CoordinatorInv
  <2>8. c <= conns'
    BY <1>1, <2>1
  <2> HIDE DEF c
  <2>9. QED
    BY <1>4, <2>1, <2>2, <2>3, <2>4, <2>5, <2>6, <2>7, <2>8 DEF Written
<1>6. QED
  BY <1>4, <1>5, WrittenKeeps DEF PanelInv

\* writeLease, for acquire and for the default host.
LEMMA WriteLeaseKeeps ==
  ASSUME PanelInv, NEW e \in Entity, NEW h \in clients, NEW isDefault,
         WriteLease(e, h, isDefault), UNCHANGED <<clients, sockets>>
  PROVE  PanelInv'
<1> DEFINE gone == IF Held(e) THEN leases[e].host ELSE None
<1>1. /\ conns + 1 \in Conn /\ conns' = conns + 1 /\ ClearExpiry({e})
      /\ marks' = Unmarked({e}) \cup (IF isDefault THEN {conns + 1} ELSE {})
      /\ \/ /\ Held(e) /\ leases[e].host = h
            /\ LeaseStays([leases EXCEPT ![e] = NewLease(e, h, conns + 1)])
         \/ LeaseMoved([leases EXCEPT ![e] = NewLease(e, h, conns + 1)], {SlotOf[e]}, gone)
  BY DEF WriteLease
<1>2. \A m \in marks' : (m \in marks /\ m \notin ConnsOf({e})) \/ m = conns + 1
  BY <1>1 DEF Unmarked
<1>3. sockets' \in [Conn -> {"none", "open", "closing"}]
      /\ \A d \in Conn : sockets'[d] = "open" => sockets[d] = "open"
  BY DEF PanelInv, CoordinatorInv
<1> HIDE DEF gone
<1>4. QED
  BY <1>1, <1>2, <1>3, NewLeaseKeeps

\* Leases that are held have connections of their own: there are finitely many,
\* and ranking a set R of them by connection numbers R from 1.
LEMMA LeaseRanks ==
  ASSUME PanelInv, NEW R \in SUBSET Entity, \A e \in R : Held(e)
  PROVE  /\ Cardinality(R) \in Nat
         /\ \A e \in R : Cardinality({x \in R : leases[x].conn < leases[e].conn}) + 1 \in 1..Cardinality(R)
         /\ \A e, x \in R : Cardinality({y \in R : leases[y].conn < leases[e].conn}) + 1
                             = Cardinality({y \in R : leases[y].conn < leases[x].conn}) + 1 => e = x
         /\ \A m \in 1..Cardinality(R) :
              \E e \in R : Cardinality({x \in R : leases[x].conn < leases[e].conn}) + 1 = m
<1> DEFINE f == [e \in R |-> leases[e].conn]
           rank == [e \in R |-> Cardinality({x \in R : f[x] < f[e]}) + 1]
<1>1. \A e \in R : leases[e].conn \in Conn /\ leases[e].conn \in Nat
  BY HeldIsLease
<1>2. f \in [R -> Nat] /\ f \in [R -> 1..MaxConn]
  BY <1>1 DEF Conn
<1>3. \A x, y \in R : f[x] = f[y] => x = y
  BY DEF PanelInv, CoordinatorInv, ConnsDistinct
<1>4. IsFiniteSet(R)
  <2>1. f \in Injection(R, 1..MaxConn)
    BY <1>2, <1>3 DEF Injection, IsInjective
  <2>2. IsFiniteSet(1..MaxConn)
    BY PanelTypes, FS_Interval
  <2>3. QED
    BY <2>1, <2>2, FS_Injection
<1>5. \A e \in R : rank[e] = Cardinality({x \in R : leases[x].conn < leases[e].conn}) + 1
  <2>1. \A e \in R : {x \in R : f[x] < f[e]} = {x \in R : leases[x].conn < leases[e].conn}
    OBVIOUS
  <2> HIDE DEF f
  <2>2. QED
    BY <2>1
<1> HIDE DEF f
<1>6. /\ rank \in [R -> 1..Cardinality(R)]
      /\ \A x, y \in R : rank[x] = rank[y] => x = y
      /\ \A m \in 1..Cardinality(R) : \E x \in R : rank[x] = m
  <2>1. rank = [e \in R |-> Cardinality({x \in R : f[x] < f[e]}) + 1]
    OBVIOUS
  <2> HIDE DEF rank
  <2>2. QED
    BY <1>2, <1>3, <1>4, <2>1, Numbering
<1> HIDE DEF rank
<1>7. Cardinality(R) \in Nat
  BY <1>4, FS_CardinalityType
<1>8. QED
  BY <1>5, <1>6, <1>7

\* Dropping the leases of one host, some of which are assigned to a default host
\* again, keeps the invariant: for release, expiry, unload, retirement and the
\* host's own departure.
LEMMA DropLeasesKeeps ==
  ASSUME PanelInv, NEW E \in SUBSET Entity, \A e \in E : Held(e), NEW R \in SUBSET E,
         NEW among, among \subseteq clients', clients' \subseteq Host,
         \A e \in Entity \ E : Held(e) => leases[e].host \in clients',
         DropLeases(E, R, among), sockets' \in [Conn -> {"none", "open", "closing"}],
         \A c \in Conn : sockets'[c] = "open" => sockets[c] = "open"
  PROVE  /\ PanelInv'
         /\ \A e \in Entity \ E : leases'[e] = None <=> leases[e] = None
<1> DEFINE S == {SlotOf[e] : e \in E}
           n == Cardinality(R)
           rank(e) == Cardinality({x \in R : leases[x].conn < leases[e].conn}) + 1
<1>1. S \in SUBSET Slot
  BY PanelTypes
<1>2. conns \in Nat /\ conns <= MaxConn /\ MaxConn \in Nat
  BY PanelTypes DEF PanelInv, CoordinatorInv
<1>3. /\ n \in Nat
      /\ \A e \in R : rank(e) \in 1..n
      /\ \A e, x \in R : rank(e) = rank(x) => e = x
      /\ \A m \in 1..n : \E e \in R : rank(e) = m
  BY LeaseRanks
<1>4. timers' = [e \in Entity |-> IF e \in E THEN None ELSE timers[e]]
  BY DEF DropLeases, ClearExpiry
<1> HIDE DEF rank, n
<1>5. \E L \in LeaseTable :
        /\ \E gone : LeaseMoved(L, S, gone)
        /\ \A x \in Entity \ E : L[x] = leases[x]
        /\ \A e \in E : L[e] # None =>
             /\ L[e].host \in clients' /\ conns < L[e].conn /\ L[e].conn <= conns'
        /\ \A e, x \in E : L[e] # None /\ L[x] # None /\ L[e].conn = L[x].conn => e = x
        /\ \A m \in marks' : (m \in marks /\ m \notin ConnsOf(E))
             \/ \E e \in E : L[e] # None /\ L[e].conn = m
        /\ conns' \in 0..MaxConn /\ conns <= conns'
  <2>1. CASE R = {} \/ DefaultHosts(among) = {}
    <3>1. /\ \E gone : LeaseMoved(Without(E), S, gone)
          /\ marks' = Unmarked(E) /\ conns' = conns
      BY <2>1 DEF DropLeases
    <3>2. Without(E) \in LeaseTable /\ (\A x \in Entity \ E : Without(E)[x] = leases[x])
          /\ \A e \in E : Without(E)[e] = None
      BY DEF Without, PanelInv, CoordinatorInv, LeaseTable
    <3>3. \A m \in marks' : m \in marks /\ m \notin ConnsOf(E)
      BY <3>1 DEF Unmarked
    <3>4. conns' \in 0..MaxConn /\ conns <= conns'
      BY <1>2, <3>1
    <3>5. QED
      BY <3>1, <3>2, <3>3, <3>4
  <2>2. CASE ~(R = {} \/ DefaultHosts(among) = {})
    <3> DEFINE L(d) == [e \in Entity |-> IF e \in R THEN NewLease(e, d, conns + rank(e))
                                         ELSE Without(E)[e]]
    <3>1. /\ conns + n \in Conn /\ conns' = conns + n
          /\ marks' = Unmarked(E) \cup (conns + 1)..conns'
          /\ \E d \in DefaultHosts(among) : \E gone : LeaseMoved(L(d), S, gone)
      BY <2>2 DEF DropLeases, rank, n
    <3>2. PICK d \in DefaultHosts(among) : \E gone : LeaseMoved(L(d), S, gone)
      BY <3>1
    <3>3. d \in clients' /\ d \in Host
      BY DEF DefaultHosts, Eligible
    <3>4. \A e \in R : conns + rank(e) \in Conn /\ conns < conns + rank(e) /\ conns + rank(e) <= conns'
      BY <1>2, <1>3, <3>1 DEF Conn
    <3>5. \A e \in R : /\ L(d)[e] \in Lease /\ L(d)[e].host = d
                       /\ L(d)[e].conn = conns + rank(e)
      BY <3>3, <3>4, NewLeaseType
    <3>6. \A e \in E \ R : L(d)[e] = None
      BY DEF Without
    <3>7. \A x \in Entity \ E : L(d)[x] = leases[x]
      BY DEF Without
    <3>8. L(d) \in LeaseTable
      <4>1. \A x \in Entity : L(d)[x] \in Lease \cup {None}
        BY <3>5, <3>6, <3>7 DEF PanelInv, CoordinatorInv, LeaseTable
      <4>2. QED
        BY <4>1 DEF LeaseTable
    <3> HIDE DEF L
    <3>9. \A e \in E : L(d)[e] # None => e \in R
      BY <3>6
    <3>10. \A e \in R : L(d)[e] # None
      BY <3>5, NoLease
    <3>11. \A e, x \in R : conns + rank(e) = conns + rank(x) => e = x
      <4>1. \A e \in R : rank(e) \in Nat
        BY <1>3
      <4>2. \A i, j \in Nat : conns + i = conns + j => i = j
        BY <1>2
      <4>3. QED
        BY <1>3, <4>1, <4>2
    <3>12. \A m \in (conns + 1)..conns' : \E e \in R : conns + rank(e) = m
      <4>1. SUFFICES ASSUME NEW m \in (conns + 1)..conns' PROVE \E e \in R : conns + rank(e) = m
        OBVIOUS
      <4>2. m - conns \in 1..n
        BY <1>2, <1>3, <3>1
      <4>3. PICK e \in R : rank(e) = m - conns
        BY <1>3, <4>2
      <4>4. QED
        BY <1>2, <4>3
    <3>13. \A m \in marks' : (m \in marks /\ m \notin ConnsOf(E))
             \/ \E e \in E : L(d)[e] # None /\ L(d)[e].conn = m
      <4>1. SUFFICES ASSUME NEW m \in (conns + 1)..conns'
                     PROVE  \E e \in E : L(d)[e] # None /\ L(d)[e].conn = m
        BY <3>1 DEF Unmarked
      <4>2. QED
        BY <3>5, <3>10, <3>12
    <3>14. conns' \in 0..MaxConn /\ conns <= conns'
      BY <1>2, <1>3, <3>1 DEF Conn
    <3>15. \A e, x \in E : L(d)[e] # None /\ L(d)[x] # None /\ L(d)[e].conn = L(d)[x].conn => e = x
      BY <3>5, <3>9, <3>11
    <3>16. \A e \in E : L(d)[e] # None =>
             /\ L(d)[e].host \in clients' /\ conns < L(d)[e].conn /\ L(d)[e].conn <= conns'
      BY <3>3, <3>4, <3>5, <3>9
    <3>17. QED
      BY <3>2, <3>7, <3>8, <3>13, <3>14, <3>15, <3>16
  <2>3. QED
    BY <2>1, <2>2
<1>6. PICK L \in LeaseTable :
        /\ \E gone : LeaseMoved(L, S, gone)
        /\ \A x \in Entity \ E : L[x] = leases[x]
        /\ \A e \in E : L[e] # None =>
             /\ L[e].host \in clients' /\ conns < L[e].conn /\ L[e].conn <= conns'
        /\ \A e, x \in E : L[e] # None /\ L[x] # None /\ L[e].conn = L[x].conn => e = x
        /\ \A m \in marks' : (m \in marks /\ m \notin ConnsOf(E))
             \/ \E e \in E : L[e] # None /\ L[e].conn = m
        /\ conns' \in 0..MaxConn /\ conns <= conns'
  BY <1>5
<1>7. leases' \in LeaseTable /\ SameLeases(leases', L) /\ BridgeInv'
  <2>1. \A x \in Entity : SlotOf[x] \notin S => L[x] = leases[x]
    BY <1>6
  <2> HIDE DEF S
  <2>2. QED
    BY <1>1, <1>6, <2>1, MovedKeeps
<1>8. /\ \A x \in Entity \ E : leases'[x] = None <=> leases[x] = None
      /\ \A x \in Entity \ E : Held(x) =>
           /\ leases'[x].host = leases[x].host /\ leases'[x].conn = leases[x].conn
           /\ leases'[x].expires = leases[x].expires /\ leases[x].host \in clients'
  BY <1>6, <1>7 DEF SameLeases, Held
<1>9. Written(E)
  <2>1. \A e \in E : leases'[e] # None =>
          leases'[e].host \in clients' /\ conns < leases'[e].conn /\ leases'[e].conn <= conns'
    BY <1>6, <1>7 DEF SameLeases
  <2>2. \A e, x \in E : leases'[e] # None /\ leases'[x] # None
          /\ leases'[e].conn = leases'[x].conn => e = x
    BY <1>6, <1>7 DEF SameLeases
  <2>3. \A m \in marks' : (m \in marks /\ m \notin ConnsOf(E))
          \/ \E e \in E : leases'[e] # None /\ leases'[e].conn = m
    BY <1>6, <1>7 DEF SameLeases
  <2>4. QED
    BY <1>4, <1>6, <1>7, <1>8, <2>1, <2>2, <2>3 DEF Written
<1>10. QED
  BY <1>7, <1>8, <1>9, WrittenKeeps DEF PanelInv

\* Closing sockets opens none.
LEMMA CloseKeeps ==
  ASSUME PanelInv, NEW C, Close(C)
  PROVE  /\ sockets' \in [Conn -> {"none", "open", "closing"}]
         /\ \A c \in Conn : sockets'[c] = "open" => sockets[c] = "open"
BY DEF Close, PanelInv, CoordinatorInv

\* A step that at most restamps pins keeps the coordinator's part.
LEMMA RestampedKeeps ==
  ASSUME PanelInv, leases' \in LeaseTable, SameLeases(leases', leases),
         UNCHANGED <<clients, timers, marks, conns>>,
         sockets' \in [Conn -> {"none", "open", "closing"}],
         \A c \in Conn : sockets'[c] = "open" => sockets[c] = "open"
  PROVE  CoordinatorInv'
<1>1. conns' \in 0..MaxConn /\ conns <= conns' /\ clients' \subseteq Host
  BY PanelTypes DEF PanelInv, CoordinatorInv
<1>2. timers' = [e \in Entity |-> IF e \in {} THEN None ELSE timers[e]]
  BY DEF PanelInv, CoordinatorInv
<1>3. \A m \in marks' : m \in marks /\ m \notin ConnsOf({})
  BY DEF ConnsOf
<1>4. /\ \A e \in Entity : leases'[e] = None <=> leases[e] = None
      /\ \A e \in Entity : Held(e) =>
           /\ leases'[e].host = leases[e].host /\ leases'[e].conn = leases[e].conn
           /\ leases'[e].expires = leases[e].expires /\ leases[e].host \in clients'
  BY DEF SameLeases, Held, PanelInv, CoordinatorInv, HoldersAreRegistered
<1>5. Written({})
  BY <1>1, <1>2, <1>3, <1>4 DEF Written
<1>6. QED
  BY <1>5, WrittenKeeps

\* A step that changes the bridge and no lease, client, timer or pin keeps the
\* coordinator's part.
LEMMA CoordinatorKeeps ==
  ASSUME PanelInv, UNCHANGED <<leases, clients, timers, marks, conns, sockets>>
  PROVE  CoordinatorInv'
<1>1. leases' \in LeaseTable /\ SameLeases(leases', leases)
      /\ sockets' \in [Conn -> {"none", "open", "closing"}]
      /\ \A c \in Conn : sockets'[c] = "open" => sockets[c] = "open"
  BY DEF PanelInv, CoordinatorInv, SameLeases
<1>2. QED
  BY <1>1, RestampedKeeps

\* A step of the coordinator that leaves leases, pins and the bridge alone keeps
\* the bridge's part.
LEMMA BridgeKeeps ==
  ASSUME PanelInv, UNCHANGED <<leases, kept, bridge>>
  PROVE  BridgeInv'
BY DEF PanelInv, BridgeInv, AutomationIsKept, HeldBy, Held, InSlot, bridge

\* Clearing a timer keeps the invariant.
LEMMA ClearKeeps ==
  ASSUME PanelInv, NEW e \in Entity, ClearExpiry({e}),
         UNCHANGED <<leases, clients, marks, kept, conns, sockets, bridge>>
  PROVE  PanelInv'
<1>1. BridgeInv'
  BY BridgeKeeps
<1>2. /\ timers' \in [Entity -> Conn \cup {None}]
      /\ \A x \in Entity : timers'[x] # None => timers'[x] = timers[x]
  BY DEF ClearExpiry, PanelInv, CoordinatorInv
<1>3. TimersAreForTheLost'
  BY <1>2 DEF PanelInv, CoordinatorInv, TimersAreForTheLost, Held
<1>4. CoordinatorInv'
  BY <1>2, <1>3 DEF PanelInv, CoordinatorInv, HoldersAreRegistered, ConnsDistinct, ConnsGivenOut,
                    MarksAreLeases, ConnsOf, Held
<1>5. QED
  BY <1>1, <1>4 DEF PanelInv

\* Dropping the lease of one entity, with or without a new default host.
LEMMA DropOneKeeps ==
  ASSUME PanelInv, NEW e \in Entity, Held(e), NEW R \in SUBSET {e}, DropLeases({e}, R, clients),
         UNCHANGED clients, sockets' \in [Conn -> {"none", "open", "closing"}],
         \A c \in Conn : sockets'[c] = "open" => sockets[c] = "open"
  PROVE  /\ PanelInv'
         /\ \A x \in Entity \ {e} : leases'[x] = None <=> leases[x] = None
<1>1. clients \subseteq clients' /\ clients' \subseteq Host
      /\ \A x \in Entity \ {e} : Held(x) => leases[x].host \in clients'
  BY DEF PanelInv, CoordinatorInv, HoldersAreRegistered
<1>2. QED
  BY <1>1, DropLeasesKeeps

\* release, once it is for the connection that holds the lease.
LEMMA ReleaseHeldKeeps ==
  ASSUME PanelInv, NEW e \in Entity, Held(e), ReleaseHeld(e), UNCHANGED <<clients, sockets>>
  PROVE  PanelInv'
<1>1. CASE SlotOf[e] \in kept
  BY <1>1, ClearKeeps DEF ReleaseHeld
<1>2. CASE SlotOf[e] \notin kept
  <2>1. DropLeases({e}, Reassigned({e}), clients)
    BY <1>2 DEF ReleaseHeld
  <2>2. Reassigned({e}) \in SUBSET {e}
    BY DEF Reassigned
  <2>3. sockets' \in [Conn -> {"none", "open", "closing"}]
        /\ \A c \in Conn : sockets'[c] = "open" => sockets[c] = "open"
    BY DEF PanelInv, CoordinatorInv
  <2>4. QED
    BY <2>1, <2>2, <2>3, DropOneKeeps
<1>3. QED
  BY <1>1, <1>2

-----------------------------------------------------------------------------
\* The operations of the coordinator keep the invariant.
LEMMA CoordinatorSteps ==
  ASSUME PanelInv
  PROVE  /\ \A h \in Host : RegisterClient(h) \/ UnregisterClient(h) => PanelInv'
         /\ \A e \in Entity, h \in Host : Acquire(e, h) \/ TakeOver(e, h) => PanelInv'
         /\ \A e \in Entity : EnsureDefaultCdpHost(e) \/ Reacquire(e) \/ Release(e) \/ Expire(e)
              \/ RetireRuntimeEntity(e) => PanelInv'
         /\ \A s \in Slot : UnloadSlot(s) => PanelInv'
<1>0. sockets' = sockets => /\ sockets' \in [Conn -> {"none", "open", "closing"}]
                            /\ \A c \in Conn : sockets'[c] = "open" => sockets[c] = "open"
  BY DEF PanelInv, CoordinatorInv
<1>1. ASSUME NEW h \in Host, RegisterClient(h) PROVE PanelInv'
  <2>1. BridgeInv'
    BY <1>1, BridgeKeeps DEF RegisterClient
  <2>2. CoordinatorInv'
    BY <1>1 DEF RegisterClient, PanelInv, CoordinatorInv, HoldersAreRegistered, ConnsDistinct,
                ConnsGivenOut, MarksAreLeases, ConnsOf, TimersAreForTheLost, Held
  <2>3. QED
    BY <2>1, <2>2 DEF PanelInv
<1>2. ASSUME NEW h \in Host, UnregisterClient(h) PROVE PanelInv'
  <2> DEFINE E == LeasesOf(h)
  <2>1. clients' = clients \ {h} /\ Close(ConnsOf(E))
    BY <1>2 DEF UnregisterClient
  <2>2. /\ E \in SUBSET Entity /\ (\A e \in E : Held(e)) /\ clients' \subseteq Host
        /\ \A e \in Entity \ E : Held(e) => leases[e].host \in clients'
    BY <2>1 DEF LeasesOf, PanelInv, CoordinatorInv, HoldersAreRegistered
  <2>3. /\ sockets' \in [Conn -> {"none", "open", "closing"}]
        /\ \A c \in Conn : sockets'[c] = "open" => sockets[c] = "open"
    BY <2>1, CloseKeeps
  <2>4. CASE E = {}
    <3>1. UNCHANGED <<leases, timers, marks, kept, conns, bridge>>
      BY <1>2, <2>4 DEF UnregisterClient
    <3>2. BridgeInv'
      BY <3>1, BridgeKeeps
    <3>3. HoldersAreRegistered'
      BY <2>2, <2>4, <3>1 DEF HoldersAreRegistered, Held
    <3>4. TimersAreForTheLost'
      <4>1. SUFFICES ASSUME NEW e \in Entity, timers[e] # None
                     PROVE  Held(e) /\ leases[e].conn = timers[e] /\ leases[e].expires
                            /\ sockets'[timers[e]] # "open"
        BY <3>1 DEF TimersAreForTheLost, Held
      <4>2. Held(e) /\ leases[e].conn = timers[e] /\ leases[e].expires
            /\ sockets[timers[e]] # "open"
        BY <4>1 DEF PanelInv, CoordinatorInv, TimersAreForTheLost
      <4>3. timers[e] \in Conn
        BY <4>2, HeldIsLease
      <4>4. QED
        BY <2>3, <4>2, <4>3
    <3>5. CoordinatorInv'
      BY <2>2, <2>3, <3>1, <3>3, <3>4
         DEF PanelInv, CoordinatorInv, ConnsDistinct, ConnsGivenOut, MarksAreLeases, ConnsOf, Held
    <3>6. QED
      BY <3>2, <3>5 DEF PanelInv
  <2>5. CASE E # {}
    <3>1. DropLeases(E, Reassigned(E), clients')
      BY <1>2, <2>5 DEF UnregisterClient
    <3>2. Reassigned(E) \in SUBSET E /\ clients' \subseteq clients'
      BY DEF Reassigned
    <3> HIDE DEF E
    <3>3. QED
      BY <2>2, <2>3, <3>1, <3>2, DropLeasesKeeps
  <2>6. QED
    BY <2>4, <2>5
<1>3. ASSUME NEW e \in Entity, NEW h \in Host, Acquire(e, h) PROVE PanelInv'
  BY <1>3, WriteLeaseKeeps DEF Acquire
<1>4. ASSUME NEW e \in Entity, NEW h \in Host, TakeOver(e, h) PROVE PanelInv'
  <2>1. /\ UNCHANGED clients
        /\ sockets' \in [Conn -> {"none", "open", "closing"}]
        /\ \A c \in Conn : sockets'[c] = "open" => sockets[c] = "open"
    BY <1>4, CloseKeeps DEF TakeOver
  <2>2. CASE h \notin clients
    <3>1. LeaseMoved(leases, {SlotOf[e]}, leases[e].host) /\ UNCHANGED <<timers, marks, conns>>
      BY <1>4, <2>2 DEF TakeOver
    <3>2. leases \in LeaseTable /\ {SlotOf[e]} \in SUBSET Slot
      BY PanelTypes DEF PanelInv, CoordinatorInv
    <3>3. leases' \in LeaseTable /\ SameLeases(leases', leases) /\ BridgeInv'
      BY <3>1, <3>2, MovedKeeps
    <3>4. QED
      BY <2>1, <3>1, <3>3, RestampedKeeps DEF PanelInv
  <2>3. CASE h \in clients
    <3> DEFINE gone == IF Held(e) THEN leases[e].host ELSE None
    <3>1. /\ conns + 1 \in Conn /\ conns' = conns + 1 /\ ClearExpiry({e})
          /\ marks' = Unmarked({e})
          /\ LeaseMoved([leases EXCEPT ![e] = NewLease(e, h, conns + 1)], {SlotOf[e]}, gone)
      BY <1>4, <2>3 DEF TakeOver
    <3>2. \A m \in marks' : (m \in marks /\ m \notin ConnsOf({e})) \/ m = conns + 1
      BY <3>1 DEF Unmarked
    <3> HIDE DEF gone
    <3>3. QED
      BY <2>1, <2>3, <3>1, <3>2, NewLeaseKeeps
  <2>4. QED
    BY <2>2, <2>3
<1>5. ASSUME NEW e \in Entity, EnsureDefaultCdpHost(e) PROVE PanelInv'
  <2>1. PICK d \in DefaultHosts(clients \cap providers) : WriteLease(e, d, TRUE)
    BY <1>5 DEF EnsureDefaultCdpHost
  <2>2. d \in clients /\ UNCHANGED <<clients, sockets>>
    BY <1>5 DEF DefaultHosts, Eligible, EnsureDefaultCdpHost
  <2>3. QED
    BY <2>1, <2>2, WriteLeaseKeeps
<1>6. ASSUME NEW e \in Entity, Reacquire(e) PROVE PanelInv'
  <2> DEFINE lease == NewLease(e, leases[e].host, leases[e].conn)
  <2>1. /\ Held(e) /\ leases[e].host \in clients /\ ClearExpiry({e}) /\ marks' = Unmarked({e})
        /\ leases' = [leases EXCEPT ![e] = lease] /\ UNCHANGED <<kept, bridge, clients, conns, sockets>>
    BY <1>6 DEF Reacquire, LeaseStays
  <2>2. /\ lease \in Lease /\ lease.host = leases[e].host /\ lease.conn = leases[e].conn
        /\ lease.kept = (SlotOf[e] \in kept)
    BY <2>1, HeldIsLease, NewLeaseType
  <2> HIDE DEF lease
  <2>3. /\ leases' \in LeaseTable /\ leases'[e] = lease /\ leases'[e] # None
        /\ \A x \in Entity \ {e} : leases'[x] = leases[x]
    BY <2>1, <2>2, NoLease DEF PanelInv, CoordinatorInv, LeaseTable
  <2>4. BridgeInv'
    BY <2>1, <2>2, <2>3, StaysKeeps
  <2>5. Written({e})
    <3>1. conns' \in 0..MaxConn /\ conns <= conns' /\ clients' \subseteq Host
      BY <2>1, PanelTypes DEF PanelInv, CoordinatorInv
    <3>2. timers' = [x \in Entity |-> IF x \in {e} THEN None ELSE timers[x]]
      BY <2>1 DEF ClearExpiry
    <3>3. \A m \in marks' : m \in marks /\ m \notin ConnsOf({e})
      BY <2>1 DEF Unmarked
    <3>4. \A x \in Entity \ {e} : Held(x) => leases[x].host \in clients'
      BY <2>1 DEF PanelInv, CoordinatorInv, HoldersAreRegistered
    <3>5. Held(e) /\ leases'[e].host \in clients' /\ leases'[e].conn = leases[e].conn
      BY <2>1, <2>2, <2>3
    <3>6. /\ sockets' \in [Conn -> {"none", "open", "closing"}]
          /\ \A c \in Conn : sockets'[c] = "open" => sockets[c] = "open"
      BY <1>0, <2>1
    <3>7. QED
      BY <2>3, <3>1, <3>2, <3>3, <3>4, <3>5, <3>6 DEF Written, Held
  <2>6. QED
    BY <2>4, <2>5, WrittenKeeps DEF PanelInv
<1>7. ASSUME NEW e \in Entity, Release(e) PROVE PanelInv'
  BY <1>7, ReleaseHeldKeeps DEF Release
<1>8. ASSUME NEW e \in Entity, Expire(e) PROVE PanelInv'
  BY <1>8, ReleaseHeldKeeps, ClearKeeps DEF Expire
<1>9. ASSUME NEW e \in Entity, RetireRuntimeEntity(e) PROVE PanelInv'
  <2>1. /\ Held(e) /\ DropLeases({e}, {}, clients) /\ UNCHANGED clients
        /\ sockets' \in [Conn -> {"none", "open", "closing"}]
        /\ \A c \in Conn : sockets'[c] = "open" => sockets[c] = "open"
    BY <1>9, CloseKeeps DEF RetireRuntimeEntity
  <2>2. QED
    BY <2>1, DropOneKeeps
<1>10. ASSUME NEW s \in Slot, UnloadSlot(s) PROVE PanelInv'
  <2>1. PICK e \in InSlot(s) : Held(e) /\ Close(ConnsOf({e})) /\ DropLeases({e}, {}, clients)
    BY <1>10 DEF UnloadSlot
  <2>2. /\ e \in Entity /\ UNCHANGED clients
        /\ sockets' \in [Conn -> {"none", "open", "closing"}]
        /\ \A c \in Conn : sockets'[c] = "open" => sockets[c] = "open"
    BY <1>10, <2>1, CloseKeeps DEF UnloadSlot, InSlot
  <2>3. QED
    BY <2>1, <2>2, DropOneKeeps
<1>11. QED
  BY <1>1, <1>2, <1>3, <1>4, <1>5, <1>6, <1>7, <1>8, <1>9, <1>10

\* Connections of panels keep the invariant: a socket that opens takes the timer
\* of its own lease with it, and of no other, because connections are distinct.
LEMMA ConnectionSteps ==
  ASSUME PanelInv
  PROVE  /\ \A e \in Entity : Connect(e) => PanelInv'
         /\ \A c \in Conn : SocketCloses(c) => PanelInv'
<1>1. ASSUME leases' \in LeaseTable, UNCHANGED <<clients, marks, kept, conns, bridge>>,
             \A e \in Entity : leases'[e] = None <=> leases[e] = None,
             \A e \in Entity : Held(e) => /\ leases'[e].host = leases[e].host
                                          /\ leases'[e].conn = leases[e].conn
                                          /\ leases'[e].kept = leases[e].kept,
             TimersAreForTheLost', timers' \in [Entity -> Conn \cup {None}],
             sockets' \in [Conn -> {"none", "open", "closing"}]
      PROVE  PanelInv'
  <2>1. HoldersAreRegistered' /\ ConnsDistinct' /\ ConnsGivenOut'
    BY <1>1 DEF PanelInv, CoordinatorInv, HoldersAreRegistered, ConnsDistinct, ConnsGivenOut, Held
  <2>2. MarksAreLeases'
    <3>1. \A m \in marks : \E e \in Entity : leases[e] # None /\ leases[e].conn = m
      BY DEF PanelInv, CoordinatorInv, MarksAreLeases, ConnsOf, Held
    <3>2. \A m \in marks' : \E e \in Entity : leases'[e] # None /\ leases'[e].conn = m
      BY <1>1, <3>1 DEF Held
    <3>3. QED
      BY <3>2 DEF MarksAreLeases, ConnsOf, Held
  <2>3. AutomationIsKept'
    <3>1. SUFFICES ASSUME NEW s \in Slot, attached[s] # None
                   PROVE  /\ \E x \in InSlot(s) : leases'[x] # None /\ leases'[x].host = attached[s]
                          /\ s \in kept
                          /\ \A x \in InSlot(s) : leases'[x] # None => leases'[x].kept
      BY <1>1 DEF AutomationIsKept, HeldBy, Held, InSlot, bridge
    <3>2. /\ HeldBy(attached[s], s) /\ s \in kept
          /\ \A x \in InSlot(s) : Held(x) => leases[x].kept
      BY <3>1 DEF PanelInv, BridgeInv, AutomationIsKept
    <3>3. \A x \in InSlot(s) : x \in Entity
      BY DEF InSlot
    <3>4. QED
      BY <1>1, <3>2, <3>3 DEF HeldBy, Held
  <2>4. QED
    BY <1>1, <2>1, <2>2, <2>3 DEF PanelInv, CoordinatorInv, BridgeInv, bridge
<1>2. ASSUME NEW e \in Entity, Connect(e) PROVE PanelInv'
  <2>1. /\ Held(e) /\ leases' = [leases EXCEPT ![e].expires = FALSE]
        /\ timers' = [x \in Entity |-> IF x \in {e} THEN None ELSE timers[x]]
        /\ sockets' = [sockets EXCEPT ![leases[e].conn] = "open"]
        /\ UNCHANGED <<clients, marks, kept, conns, bridge>>
    BY <1>2 DEF Connect, MarkConnected, ClearExpiry
  <2>2. leases[e] \in Lease /\ leases[e].conn \in Conn
    BY <2>1, HeldIsLease
  <2>3. leases'[e] = [leases[e] EXCEPT !.expires = FALSE] /\ \A x \in Entity \ {e} : leases'[x] = leases[x]
    BY <2>1 DEF PanelInv, CoordinatorInv, LeaseTable
  <2>4. /\ leases'[e] \in Lease /\ leases'[e].host = leases[e].host
        /\ leases'[e].conn = leases[e].conn /\ leases'[e].kept = leases[e].kept
    BY <2>2, <2>3 DEF Lease
  <2>5. leases' \in LeaseTable
    BY <2>1, <2>3, <2>4 DEF PanelInv, CoordinatorInv, LeaseTable
  <2>6. TimersAreForTheLost'
    <3>1. SUFFICES ASSUME NEW x \in Entity, timers'[x] # None
                   PROVE  /\ leases'[x] # None /\ leases'[x].conn = timers'[x]
                          /\ leases'[x].expires /\ sockets'[timers'[x]] # "open"
      BY DEF TimersAreForTheLost, Held
    <3>2. x # e /\ timers'[x] = timers[x] /\ leases'[x] = leases[x]
      BY <2>1, <2>3, <3>1
    <3>3. Held(x) /\ leases[x].conn = timers[x] /\ leases[x].expires /\ sockets[timers[x]] # "open"
      BY <3>1, <3>2 DEF PanelInv, CoordinatorInv, TimersAreForTheLost
    <3>4. leases[x].conn # leases[e].conn
      BY <2>1, <3>2, <3>3 DEF PanelInv, CoordinatorInv, ConnsDistinct
    <3>5. sockets'[timers[x]] = sockets[timers[x]]
      BY <2>1, <3>3, <3>4, HeldIsLease DEF PanelInv, CoordinatorInv
    <3>6. QED
      BY <3>2, <3>3, <3>5 DEF Held
  <2>7. timers' \in [Entity -> Conn \cup {None}]
        /\ sockets' \in [Conn -> {"none", "open", "closing"}]
    BY <2>1, <2>2 DEF PanelInv, CoordinatorInv
  <2>8. \A x \in Entity : leases'[x] = None <=> leases[x] = None
    BY <2>1, <2>3, <2>4, NoLease DEF Held
  <2>9. QED
    BY <1>1, <2>1, <2>3, <2>4, <2>5, <2>6, <2>7, <2>8
<1>3. ASSUME NEW c \in Conn, SocketCloses(c) PROVE PanelInv'
  <2> DEFINE E == {e \in Entity : Held(e) /\ leases[e].conn = c}
  <2>1. /\ leases' = [e \in Entity |-> IF e \in E THEN [leases[e] EXCEPT !.expires = TRUE] ELSE leases[e]]
        /\ timers' = [e \in Entity |-> IF e \in E THEN c ELSE timers[e]]
        /\ sockets' = [sockets EXCEPT ![c] = "none"]
        /\ UNCHANGED <<clients, marks, kept, conns, bridge>>
    BY <1>3 DEF SocketCloses, MarkDisconnected
  <2>2. \A e \in E : Held(e) /\ leases[e].conn = c /\ leases[e] \in Lease
    BY HeldIsLease
  <2>3. \A e \in E : /\ leases'[e] \in Lease /\ leases'[e].host = leases[e].host
                     /\ leases'[e].conn = leases[e].conn /\ leases'[e].kept = leases[e].kept
                     /\ leases'[e].expires
    BY <2>1, <2>2 DEF Lease
  <2>4. \A e \in Entity \ E : leases'[e] = leases[e]
    BY <2>1
  <2>5. leases' \in LeaseTable
    <3>1. \A e \in Entity : leases'[e] \in Lease \cup {None}
      BY <2>3, <2>4 DEF PanelInv, CoordinatorInv, LeaseTable
    <3>2. QED
      BY <2>1, <3>1 DEF LeaseTable
  <2>6. \A e \in Entity : leases'[e] = None <=> leases[e] = None
    BY <2>2, <2>3, <2>4, NoLease DEF Held
  <2>7. TimersAreForTheLost'
    <3>1. SUFFICES ASSUME NEW x \in Entity, timers'[x] # None
                   PROVE  /\ leases'[x] # None /\ leases'[x].conn = timers'[x]
                          /\ leases'[x].expires /\ sockets'[timers'[x]] # "open"
      BY DEF TimersAreForTheLost, Held
    <3>2. sockets'[c] # "open" /\ \A d \in Conn \ {c} : sockets'[d] = sockets[d]
      BY <2>1 DEF PanelInv, CoordinatorInv
    <3>3. CASE x \in E
      BY <2>1, <2>2, <2>3, <2>6, <3>2, <3>3 DEF Held
    <3>4. CASE x \notin E
      <4>1. timers'[x] = timers[x] /\ leases'[x] = leases[x]
        BY <2>1, <2>4, <3>4
      <4>2. Held(x) /\ leases[x].conn = timers[x] /\ leases[x].expires /\ sockets[timers[x]] # "open"
        BY <3>1, <4>1 DEF PanelInv, CoordinatorInv, TimersAreForTheLost
      <4>3. timers[x] \in Conn
        BY <4>2, HeldIsLease
      <4>4. QED
        BY <3>2, <4>1, <4>2, <4>3 DEF Held
    <3>5. QED
      BY <3>3, <3>4
  <2>8. timers' \in [Entity -> Conn \cup {None}]
        /\ sockets' \in [Conn -> {"none", "open", "closing"}]
    BY <2>1 DEF PanelInv, CoordinatorInv
  <2>9. \A x \in Entity : Held(x) => /\ leases'[x].host = leases[x].host
                                     /\ leases'[x].conn = leases[x].conn
                                     /\ leases'[x].kept = leases[x].kept
    BY <2>3, <2>4
  <2> HIDE DEF E
  <2>10. QED
    BY <1>1, <2>1, <2>5, <2>6, <2>7, <2>8, <2>9
<1>4. QED
  BY <1>2, <1>3

\* The operations of the CDP bridge keep the invariant.
LEMMA BridgeSteps ==
  ASSUME PanelInv
  PROVE  /\ \A h \in Host : ProviderConnects(h) \/ ProviderCloses(h) \/ CdpRegistered(h) => PanelInv'
         /\ \A h \in Host, s \in Slot : CdpRegister(h, s) \/ CdpUnregister(h, s) => PanelInv'
         /\ \A s \in Slot : CdpAttach(s) \/ CdpDetach(s) => PanelInv'
<1> USE DEF bridge, Coordinator
<1>0. leases \in LeaseTable
  BY DEF PanelInv, CoordinatorInv
<1>a. UNCHANGED sockets => /\ sockets' \in [Conn -> {"none", "open", "closing"}]
                           /\ \A c \in Conn : sockets'[c] = "open" => sockets[c] = "open"
  BY DEF PanelInv, CoordinatorInv
<1>1. ASSUME NEW h \in Host, Flush(h), providers' \subseteq Host,
             registry' \in [Slot -> Host \cup {None}], UNCHANGED registering
      PROVE  PanelInv'
  <2>1. /\ DropTargetClients(Served(h)) /\ leases' = Restamp(leases, Automated(Served(h)), FALSE)
        /\ UNCHANGED <<clients, timers, marks, conns, sockets>>
    BY <1>1 DEF Flush
  <2>2. Served(h) \in SUBSET Slot /\ registering' \in [Host -> Slot \cup {None}]
    BY <1>1 DEF Served, PanelInv, BridgeInv
  <2>3. leases' \in LeaseTable /\ SameLeases(leases', leases) /\ BridgeInv'
    BY <1>0, <1>1, <2>1, <2>2, DroppedKeeps
  <2>4. QED
    BY <1>a, <2>1, <2>3, RestampedKeeps DEF PanelInv
<1>2. ASSUME NEW h \in Host, ProviderConnects(h) PROVE PanelInv'
  <2>1. /\ providers' \subseteq Host /\ registry' \in [Slot -> Host \cup {None}]
        /\ UNCHANGED <<registry, registering>>
    BY <1>2 DEF ProviderConnects, PanelInv, BridgeInv
  <2>2. CASE h \in providers
    BY <1>1, <1>2, <2>1, <2>2 DEF ProviderConnects
  <2>3. CASE h \notin providers
    <3>1. UNCHANGED <<Coordinator, attached>>
      BY <1>2, <2>3 DEF ProviderConnects
    <3>2. BridgeInv'
      BY <2>1, <3>1 DEF PanelInv, BridgeInv, AutomationIsKept, HeldBy, Held, InSlot
    <3>3. QED
      BY <3>1, <3>2, CoordinatorKeeps DEF PanelInv
  <2>4. QED
    BY <2>2, <2>3
<1>3. ASSUME NEW h \in Host, ProviderCloses(h) PROVE PanelInv'
  <2>1. /\ Flush(h) /\ UNCHANGED registering /\ providers' \subseteq Host
        /\ registry' \in [Slot -> Host \cup {None}]
    BY <1>3 DEF ProviderCloses, PanelInv, BridgeInv
  <2>2. QED
    BY <1>1, <2>1
<1>4. ASSUME NEW h \in Host, CdpRegistered(h) PROVE PanelInv'
  <2>1. BridgeInv'
    BY <1>4 DEF CdpRegistered, PanelInv, BridgeInv, AutomationIsKept, HeldBy, Held, InSlot
  <2>2. QED
    BY <1>4, <2>1, CoordinatorKeeps DEF CdpRegistered, PanelInv
<1>5. ASSUME NEW h \in Host, NEW s \in Slot, CdpRegister(h, s) PROVE PanelInv'
  <2>1. BridgeInv'
    BY <1>5 DEF CdpRegister, PanelInv, BridgeInv, AutomationIsKept, HeldBy, Held, InSlot
  <2>2. QED
    BY <1>5, <2>1, CoordinatorKeeps DEF CdpRegister, PanelInv
<1>6. ASSUME NEW h \in Host, NEW s \in Slot, CdpUnregister(h, s) PROVE PanelInv'
  <2>1. /\ attached' \in [Slot -> Host \cup {None}]
        /\ \A x \in Slot : attached'[x] # None => attached'[x] = attached[x]
        /\ registry' \in [Slot -> Host \cup {None}]
        /\ UNCHANGED <<Coordinator, providers, registering>>
    BY <1>6 DEF CdpUnregister, PanelInv, BridgeInv
  <2>2. BridgeInv'
    BY <2>1 DEF PanelInv, BridgeInv, AutomationIsKept, HeldBy, Held, InSlot
  <2>3. QED
    BY <2>1, <2>2, CoordinatorKeeps DEF PanelInv
<1>7. ASSUME NEW s \in Slot, CdpAttach(s) PROVE PanelInv'
  <2>1. PICK h \in ProviderForTarget(s) : attached' = [attached EXCEPT ![s] = h]
    BY <1>7 DEF CdpAttach
  <2>2. h \in Host /\ HeldBy(h, s)
    BY DEF ProviderForTarget, PanelInv, BridgeInv
  <2>3. /\ kept' = kept \cup {s} /\ leases' = Restamp(leases, {s}, TRUE)
        /\ UNCHANGED <<clients, timers, marks, conns, sockets, providers, registry, registering>>
    BY <1>7 DEF CdpAttach
  <2>4. leases' \in LeaseTable /\ SameLeases(leases', leases)
    BY <1>0, <2>3, RestampKeeps
  <2>5. /\ attached' \in [Slot -> Host \cup {None}] /\ attached'[s] = h
        /\ \A t \in Slot \ {s} : attached'[t] = attached[t]
    BY <2>1, <2>2 DEF PanelInv, BridgeInv
  <2>6. \A e \in Entity : SlotOf[e] # s => leases'[e] = leases[e]
    BY <2>3 DEF Restamp
  <2>7. \A e \in InSlot(s) : leases'[e] # None => leases'[e].kept
    <3>1. SUFFICES ASSUME NEW e \in Entity, SlotOf[e] = s, leases'[e] # None PROVE leases'[e].kept
      BY DEF InSlot
    <3>2. leases[e] # None /\ leases[e] \in Lease
      BY <2>4, <3>1, HeldIsLease DEF SameLeases, Held
    <3>3. leases'[e] = [leases[e] EXCEPT !.kept = TRUE]
      BY <2>3, <3>1, <3>2 DEF Restamp
    <3>4. QED
      BY <3>2, <3>3 DEF Lease
  <2>8. \E e \in InSlot(s) : leases'[e] # None /\ leases'[e].host = h
    BY <2>2, <2>4 DEF HeldBy, Held, InSlot, SameLeases
  <2>9. AutomationIsKept'
    <3>1. SUFFICES ASSUME NEW t \in Slot, attached'[t] # None
                   PROVE  /\ \E x \in InSlot(t) : leases'[x] # None /\ leases'[x].host = attached'[t]
                          /\ t \in kept'
                          /\ \A x \in InSlot(t) : leases'[x] # None => leases'[x].kept
      BY DEF AutomationIsKept, HeldBy, Held, InSlot
    <3>2. CASE t = s
      BY <2>3, <2>5, <2>7, <2>8, <3>2
    <3>3. CASE t # s
      <4>1. \A x \in InSlot(t) : leases'[x] = leases[x]
        BY <2>6, <3>3 DEF InSlot
      <4>2. /\ HeldBy(attached[t], t) /\ t \in kept
            /\ \A x \in InSlot(t) : Held(x) => leases[x].kept
        BY <2>5, <3>1, <3>3 DEF PanelInv, BridgeInv, AutomationIsKept
      <4>3. QED
        BY <2>3, <2>5, <3>3, <4>1, <4>2 DEF HeldBy, Held
    <3>4. QED
      BY <3>2, <3>3
  <2>10. BridgeInv'
    BY <2>3, <2>5, <2>9 DEF PanelInv, BridgeInv
  <2>11. QED
    BY <1>a, <2>3, <2>4, <2>10, RestampedKeeps DEF PanelInv
<1>8. ASSUME NEW s \in Slot, CdpDetach(s) PROVE PanelInv'
  <2>1. /\ attached[s] # None /\ DropTargetClients({s}) /\ leases' = Restamp(leases, {s}, FALSE)
        /\ UNCHANGED <<clients, timers, marks, conns, sockets, providers, registry, registering>>
    BY <1>8 DEF CdpDetach
  <2>2. Automated({s}) = {s}
    BY <2>1 DEF Automated
  <2>3. /\ {s} \in SUBSET Slot /\ providers' \subseteq Host
        /\ registry' \in [Slot -> Host \cup {None}] /\ registering' \in [Host -> Slot \cup {None}]
    BY <2>1 DEF PanelInv, BridgeInv
  <2>4. leases' \in LeaseTable /\ SameLeases(leases', leases) /\ BridgeInv'
    BY <1>0, <2>1, <2>2, <2>3, DroppedKeeps
  <2>5. QED
    BY <1>a, <2>1, <2>4, RestampedKeeps DEF PanelInv
<1>9. QED
  BY <1>2, <1>3, <1>4, <1>5, <1>6, <1>7, <1>8

-----------------------------------------------------------------------------
\* The invariant holds of every reachable state.
LEMMA PanelInvariant == Spec => []PanelInv
<1>1. Init => PanelInv
  <2> SUFFICES ASSUME Init PROVE PanelInv
    OBVIOUS
  <2>1. CoordinatorInv
    BY PanelTypes DEF Init, CoordinatorInv, LeaseTable, HoldersAreRegistered, ConnsDistinct,
                      ConnsGivenOut, MarksAreLeases, TimersAreForTheLost, Held
  <2>2. BridgeInv
    BY DEF Init, BridgeInv, AutomationIsKept
  <2>3. QED
    BY <2>1, <2>2 DEF PanelInv
<1>2. PanelInv /\ [Next]_vars => PanelInv'
  <2> SUFFICES ASSUME PanelInv, [Next]_vars PROVE PanelInv'
    OBVIOUS
  <2>1. CASE UNCHANGED vars
    BY <2>1, CoordinatorKeeps, BridgeKeeps DEF vars, PanelInv
  <2>2. CASE Next
    BY <2>2, CoordinatorSteps, ConnectionSteps, BridgeSteps DEF Next, Retires, Others
  <2>3. QED
    BY <2>1, <2>2
<1>3. QED
  BY <1>1, <1>2, PTL DEF Spec

\* Leases, timers, marks, sockets and the bridge's maps keep their types: the
\* connection ids of a reassignment are counted within what was given out.
THEOREM PanelTypeOK == Spec => []TypeOK
<1> DEFINE Asked == retired \subseteq Entity
<1>1. PanelInv /\ Asked => TypeOK
  BY DEF PanelInv, CoordinatorInv, BridgeInv, LeaseTable, TypeOK
<1>2. Init => Asked
  BY DEF Init
<1>3. Asked /\ [Next]_vars => Asked'
  <2>1. ASSUME NEW e \in Entity, RetireRuntimeEntity(e) PROVE retired' \subseteq Entity
    BY <2>1 DEF RetireRuntimeEntity
  <2>2. QED
    BY <2>1 DEF Next, Retires, vars
<1> HIDE DEF Asked
<1>4. QED
  BY <1>1, <1>2, <1>3, PanelInvariant, PTL DEF Spec

\* Every lease is of a host that is registered now, whichever way it came to it:
\* acquired, taken over, assigned as default, or reassigned when its host left.
THEOREM PanelHoldersAreRegistered == Spec => []HoldersAreRegistered
<1>1. PanelInv => HoldersAreRegistered
  BY DEF PanelInv, CoordinatorInv
<1>2. QED
  BY <1>1, PanelInvariant, PTL

\* defaultCdpLeaseConnections holds connections of current leases only.
THEOREM PanelMarksAreLeases == Spec => []MarksAreLeases
<1>1. PanelInv => MarksAreLeases
  BY DEF PanelInv, CoordinatorInv
<1>2. QED
  BY <1>1, PanelInvariant, PTL

\* A grace timer is always for the lease's own connection, which is lost: it
\* never expires a panel that is back, nor a host that took over.
THEOREM PanelTimersAreForTheLost == Spec => []TimersAreForTheLost
<1>1. PanelInv => TimersAreForTheLost
  BY DEF PanelInv, CoordinatorInv
<1>2. QED
  BY <1>1, PanelInvariant, PTL

\* CDP clients are attached to a host that holds the slot, which is pinned, and
\* all leases of the slot say so.
THEOREM PanelAutomationIsKept == Spec => []AutomationIsKept
<1>1. PanelInv => AutomationIsKept
  BY DEF PanelInv, BridgeInv
<1>2. QED
  BY <1>1, PanelInvariant, PTL

\* A step that writes leases or restamps them makes none disappear.
LEMMA NoneDisappears ==
  ASSUME PanelInv, NEW L \in LeaseTable, NEW S, leases' = Restamp(L, S, FALSE) \/ leases' = L,
         NEW e \in Entity, L[e] # None
  PROVE  leases'[e] # None
<1>1. CASE leases' = L
  BY <1>1
<1>2. CASE leases' = Restamp(L, S, FALSE)
  <2>1. SameLeases(leases', L)
    BY <1>2, RestampKeeps
  <2>2. QED
    BY <2>1 DEF SameLeases
<1>3. QED
  BY <1>1, <1>2

\* release, unloadSlot and the expiry of a grace period never take the lease of a
\* pinned slot: it goes only with its host, or in a retirement that was asked for.
THEOREM PanelPinnedIsNotYanked == Spec => PinnedIsNotYanked
<1> DEFINE Kept == \A e \in Entity : Held(e) /\ SlotOf[e] \in kept /\ leases[e].host \in clients'
                     => leases'[e] # None \/ e \in retired'
<1>1. ASSUME PanelInv, Next PROVE Kept
  <2>1. SUFFICES ASSUME NEW e \in Entity, Held(e), SlotOf[e] \in kept, leases'[e] = None,
                        leases[e].host \in clients'
                 PROVE  e \in retired'
    OBVIOUS
  <2>0. leases \in LeaseTable /\ leases[e].host \in Host
    BY <1>1, <2>1, HeldIsLease DEF PanelInv, CoordinatorInv
  <2>a. \A x \in Entity : \A R \in SUBSET {x} : Held(x) /\ DropLeases({x}, R, clients) /\ UNCHANGED clients
          /\ (UNCHANGED sockets \/ Close(ConnsOf({x}))) => x = e
    <3>1. SUFFICES ASSUME NEW x \in Entity, NEW R \in SUBSET {x}, Held(x), DropLeases({x}, R, clients),
                          UNCHANGED clients, UNCHANGED sockets \/ Close(ConnsOf({x})), x # e
                   PROVE  FALSE
      OBVIOUS
    <3>2. /\ sockets' \in [Conn -> {"none", "open", "closing"}]
          /\ \A c \in Conn : sockets'[c] = "open" => sockets[c] = "open"
      BY <1>1, <3>1, CloseKeeps DEF PanelInv, CoordinatorInv
    <3>3. leases'[e] = None <=> leases[e] = None
      BY <1>1, <3>1, <3>2, DropOneKeeps
    <3>4. QED
      BY <2>1, <3>3 DEF Held
  <2>b. ASSUME NEW x \in Entity, Held(x), ReleaseHeld(x), UNCHANGED <<clients, sockets>> PROVE FALSE
    <3>1. CASE SlotOf[x] \in kept
      BY <2>1, <2>b, <3>1 DEF ReleaseHeld, Held
    <3>2. CASE SlotOf[x] \notin kept
      <4>1. DropLeases({x}, Reassigned({x}), clients) /\ Reassigned({x}) \in SUBSET {x}
        BY <2>b, <3>2 DEF ReleaseHeld, Reassigned
      <4>2. x = e
        BY <2>a, <2>b, <4>1
      <4>3. QED
        BY <2>1, <3>2, <4>2
    <3>3. QED
      BY <3>1, <3>2
  <2>c. ASSUME NEW x \in Entity, NEW h \in Host, NEW c \in Conn, NEW S,
               \/ leases' = [leases EXCEPT ![x] = NewLease(x, h, c)]
               \/ leases' = Restamp([leases EXCEPT ![x] = NewLease(x, h, c)], S, FALSE)
        PROVE  FALSE
    <3> DEFINE L == [leases EXCEPT ![x] = NewLease(x, h, c)]
    <3>1. NewLease(x, h, c) \in Lease
      BY <2>c, NewLeaseType
    <3>2. L \in LeaseTable /\ L[e] # None
      BY <2>0, <2>1, <3>1, NoLease DEF LeaseTable, Held
    <3>3. leases' = Restamp(L, S, FALSE) \/ leases' = L
      BY <2>c
    <3> HIDE DEF L
    <3>4. QED
      BY <1>1, <2>1, <3>2, <3>3, NoneDisappears
  <2>d. ASSUME NEW S, \/ leases' = Restamp(leases, S, FALSE) \/ leases' = leases
                      \/ leases' = Restamp(leases, S, TRUE)
        PROVE  FALSE
    BY <2>0, <2>1, <2>d, RestampKeeps DEF SameLeases, Held
  <2>e. ASSUME NEW x \in Entity, NEW h \in clients, NEW isDefault, WriteLease(x, h, isDefault) PROVE FALSE
    BY <1>1, <2>c, <2>e DEF WriteLease, LeaseStays, LeaseMoved, PanelInv, CoordinatorInv
  <2>2. ASSUME NEW h \in Host, RegisterClient(h) PROVE FALSE
    BY <2>2, <2>d DEF RegisterClient
  <2>3. ASSUME NEW h \in Host, UnregisterClient(h) PROVE FALSE
    <3> DEFINE E == LeasesOf(h)
    <3>1. clients' = clients \ {h} /\ Close(ConnsOf(E))
      BY <2>3 DEF UnregisterClient
    <3>2. /\ E \in SUBSET Entity /\ (\A x \in E : Held(x)) /\ clients' \subseteq Host /\ e \notin E
          /\ \A x \in Entity \ E : Held(x) => leases[x].host \in clients'
      BY <1>1, <2>1, <3>1 DEF LeasesOf, PanelInv, CoordinatorInv, HoldersAreRegistered
    <3>3. CASE E = {}
      BY <2>3, <2>d, <3>3 DEF UnregisterClient
    <3>4. CASE E # {}
      <4>1. /\ DropLeases(E, Reassigned(E), clients') /\ Reassigned(E) \in SUBSET E
            /\ clients' \subseteq clients'
        BY <2>3, <3>4 DEF UnregisterClient, Reassigned
      <4>2. /\ sockets' \in [Conn -> {"none", "open", "closing"}]
            /\ \A c \in Conn : sockets'[c] = "open" => sockets[c] = "open"
        BY <1>1, <3>1, CloseKeeps
      <4> HIDE DEF E
      <4>3. \A x \in Entity \ E : leases'[x] = None <=> leases[x] = None
        BY <1>1, <3>2, <4>1, <4>2, DropLeasesKeeps
      <4>4. QED
        BY <2>1, <3>2, <4>3 DEF Held
    <3>5. QED
      BY <3>3, <3>4
  <2>4. ASSUME NEW x \in Entity, NEW h \in Host, Acquire(x, h) PROVE FALSE
    BY <2>4, <2>e DEF Acquire
  <2>5. ASSUME NEW x \in Entity, NEW h \in Host, TakeOver(x, h) PROVE FALSE
    BY <2>5, <2>c, <2>d DEF TakeOver, LeaseMoved
  <2>6. ASSUME NEW x \in Entity, EnsureDefaultCdpHost(x) PROVE FALSE
    BY <2>6, <2>e DEF EnsureDefaultCdpHost, DefaultHosts, Eligible
  <2>7. ASSUME NEW x \in Entity, Reacquire(x) PROVE FALSE
    <3>1. leases[x].host \in Host /\ leases[x].conn \in Conn
      BY <1>1, <2>7, HeldIsLease DEF Reacquire
    <3>2. QED
      BY <2>7, <2>c, <3>1 DEF Reacquire, LeaseStays
  <2>8. ASSUME NEW x \in Entity, Release(x) PROVE FALSE
    BY <2>8, <2>b DEF Release
  <2>9. ASSUME NEW x \in Entity, Expire(x) PROVE FALSE
    BY <2>9, <2>b, <2>d DEF Expire
  <2>10. ASSUME NEW x \in Entity, RetireRuntimeEntity(x) PROVE e \in retired'
    <3>1. x = e
      BY <2>10, <2>a DEF RetireRuntimeEntity
    <3>2. QED
      BY <2>10, <3>1 DEF RetireRuntimeEntity
  <2>11. ASSUME NEW s \in Slot, UnloadSlot(s) PROVE FALSE
    <3>1. PICK x \in InSlot(s) : Held(x) /\ Close(ConnsOf({x})) /\ DropLeases({x}, {}, clients)
      BY <2>11 DEF UnloadSlot
    <3>2. x = e
      BY <2>11, <2>a, <3>1 DEF UnloadSlot, InSlot
    <3>3. QED
      BY <2>1, <2>11, <3>2 DEF UnloadSlot, InSlot
  <2>12. ASSUME NEW x \in Entity, Connect(x) PROVE FALSE
    <3>1. leases[x] \in Lease /\ leases' = [leases EXCEPT ![x].expires = FALSE]
      BY <1>1, <2>12, HeldIsLease DEF Connect, MarkConnected
    <3>2. leases'[e] = leases[e] \/ (e = x /\ leases'[e] \in Lease)
      BY <2>0, <3>1 DEF LeaseTable, Lease
    <3>3. QED
      BY <2>1, <3>2, NoLease DEF Held
  <2>13. ASSUME NEW c \in Conn, SocketCloses(c) PROVE FALSE
    <3>1. leases'[e] = leases[e] \/ leases'[e] = [leases[e] EXCEPT !.expires = TRUE]
      BY <2>13 DEF SocketCloses, MarkDisconnected
    <3>2. leases[e] \in Lease
      BY <1>1, <2>1, HeldIsLease
    <3>3. [leases[e] EXCEPT !.expires = TRUE] \in Lease
      BY <3>2 DEF Lease
    <3>4. QED
      BY <2>1, <3>1, <3>3, NoLease DEF Held
  <2>14. ASSUME NEW h \in Host, ProviderConnects(h) \/ ProviderCloses(h) \/ CdpRegistered(h) PROVE FALSE
    BY <2>14, <2>d DEF ProviderConnects, ProviderCloses, CdpRegistered, Flush, Coordinator
  <2>15. ASSUME NEW h \in Host, NEW s \in Slot, CdpRegister(h, s) \/ CdpUnregister(h, s) PROVE FALSE
    BY <2>15, <2>d DEF CdpRegister, CdpUnregister, Coordinator
  <2>16. ASSUME NEW s \in Slot, CdpAttach(s) \/ CdpDetach(s) PROVE FALSE
    BY <2>16, <2>d DEF CdpAttach, CdpDetach
  <2>17. QED
    BY <1>1, <2>2, <2>3, <2>4, <2>5, <2>6, <2>7, <2>8, <2>9, <2>10, <2>11, <2>12, <2>13, <2>14,
       <2>15, <2>16 DEF Next, Retires, Others
<1>2. PanelInv /\ [Next]_vars => [Kept]_vars
  BY <1>1
<1>3. QED
  BY <1>2, PanelInvariant, PTL DEF Spec, PinnedIsNotYanked
=============================================================================
