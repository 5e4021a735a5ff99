-------------------------- MODULE GattServerProofs --------------------------
(***************************************************************************)
(* Proofs about the connection bookkeeping of the GATT server: the peer   *)
(* table stays in step with the stack's connections, the stack database   *)
(* is never reset while a peer is connected, and the last disconnect with *)
(* a change pending always rebuilds.  They hold for every number of slots *)
(* and every set of connection handles.                                   *)
(***************************************************************************)
EXTENDS GattServer, FiniteSetTheorems, TLAPS

USE ConstAssumption

(***************************************************************************)
(* Lemmas about the peer-table loops of the GAP handler.                   *)
(***************************************************************************)

\* A table with a free slot has a first free slot (the connect loop breaks
\* at a slot).
LEMMA FirstFreeExists ==
    ASSUME NEW p \in [Slots -> ConnIds \cup {NONE}],
           \E i \in Slots : p[i] = NONE
    PROVE  \E i \in Slots : FirstFree(p, i)
<1> DEFINE T == {i \in Slots : p[i] = NONE}
<1>1. T \subseteq Nat /\ T # {}
  BY DEF Slots
<1>2. \E x \in T : \A y \in T : ~(<<y, x>> \in OpToRel(<, Nat))
  BY <1>1, NatLessThanWellFounded, WFMin
<1>3. PICK x \in T : \A y \in T : ~(<<y, x>> \in OpToRel(<, Nat))
  BY <1>2
<1>4. \A j \in 1 .. x - 1 : p[j] # NONE
  <2> SUFFICES ASSUME NEW j \in 1 .. x - 1, p[j] = NONE
               PROVE  FALSE
    OBVIOUS
  <2>1. x \in Slots /\ j \in Slots
    BY DEF Slots
  <2>2. j \in T /\ <<j, x>> \in OpToRel(<, Nat)
    BY <2>1 DEF OpToRel, Slots
  <2>. QED
    BY <2>2, <1>3
<1>. QED
  BY <1>3, <1>4 DEF FirstFree

\* The first free slot is unique.
LEMMA FirstFreeUnique ==
    ASSUME NEW p, NEW i \in Slots, NEW k \in Slots,
           FirstFree(p, i), FirstFree(p, k)
    PROVE  i = k
BY DEF FirstFree, Slots

\* With the handle in one slot only, the disconnect loop frees exactly that slot.
LEMMA ClearSlotOne ==
    ASSUME NEW p \in [Slots -> ConnIds \cup {NONE}], NEW h \in ConnIds,
           NEW i \in Slots, p[i] = h,
           \A a, b \in Slots : p[a] = p[b] /\ a # b => p[a] = NONE
    PROVE  ClearSlot(p, h) = [p EXCEPT ![i] = NONE]
<1>1. h # NONE
  OBVIOUS
<1>2. \A k \in Slots : p[k] = h => k = i
  BY <1>1
<1>3. \A j \in 1 .. i - 1 : p[j] # h
  BY <1>2 DEF Slots
<1>. QED
  BY <1>2, <1>3, ZenonT(20) DEF ClearSlot

\* A full table that holds each connection once holds MaxConn connections.
LEMMA FullTable ==
    ASSUME NEW p \in [Slots -> ConnIds \cup {NONE}], NEW C \in SUBSET ConnIds,
           {p[i] : i \in Slots} \ {NONE} = C,
           \A a, b \in Slots : p[a] = p[b] /\ a # b => p[a] = NONE,
           \A i \in Slots : p[i] # NONE
    PROVE  Cardinality(C) >= MaxConn
<1>1. p \in Injection(Slots, C)
  BY DEF Injection, IsInjective
<1>2. IsFiniteSet(C)
  BY FS_Subset
<1>3. Cardinality(Slots) <= Cardinality(C)
  BY <1>1, <1>2, FS_Injection
<1>4. Cardinality(Slots) = MaxConn
  BY FS_Interval DEF Slots
<1>. QED
  BY <1>3, <1>4
(***************************************************************************)
(* The inductive invariant.  PeerTableMatchesConns alone is not inductive: *)
(* the connect step needs the types of the table, and the reset-guard     *)
(* argument needs that a connection or advertising implies a started      *)
(* server, so that BLEServer::start (which rewrites the database) only    *)
(* runs with nobody connected.                                            *)
(***************************************************************************)
ConnTypeOK ==
    /\ conns \subseteq ConnIds
    /\ peers \in [Slots -> ConnIds \cup {NONE}]
    /\ gattsStarted \in BOOLEAN
    /\ adv \in BOOLEAN
    /\ svcChanged \in BOOLEAN

IInv ==
    /\ ConnTypeOK
    /\ PeerTableMatchesConns
    /\ conns # {} => gattsStarted
    /\ adv => gattsStarted

\* What every step guarantees: the invariant, no change of the registered
\* database while a connection remains, and a rebuild on the last
\* disconnect with a change pending.
StepOK ==
    /\ IInv'
    /\ db' # db => conns' = {}
    /\ (conns # {} /\ conns' = {} /\ svcChanged) => (db' = <<>> /\ ~gattsStarted')

\* Steps that leave the connection bookkeeping and the database alone.
LEMMA QuietStep ==
    ASSUME IInv, UNCHANGED <<conns, peers, adv, gattsStarted, db>>, svcChanged' \in BOOLEAN
    PROVE  StepOK
BY DEF StepOK, IInv, ConnTypeOK, PeerTableMatchesConns

\* A step that starts advertising, and the server first if it is not started.
LEMMA AdvStep ==
    ASSUME IInv, StartAdv, UNCHANGED <<conns, peers>>
    PROVE  StepOK
<1>1. adv' = TRUE /\ gattsStarted' = TRUE /\ svcChanged' \in BOOLEAN
  BY DEF StartAdv, ServerStart, IInv, ConnTypeOK
<1>2. db' # db => ~gattsStarted
  BY DEF StartAdv
<1>3. ~gattsStarted => conns = {}
  BY DEF IInv, ConnTypeOK
<1>. QED
  BY <1>1, <1>2, <1>3, SMTT(15) DEF StepOK, IInv, ConnTypeOK, PeerTableMatchesConns

LEMMA ConnectStep ==
    ASSUME IInv, NEW h \in ConnIds, Connect(h)
    PROVE  StepOK
<1> USE DEF IInv, ConnTypeOK
<1>1. \E i \in Slots : peers[i] = NONE
  <2> SUFFICES ASSUME \A i \in Slots : peers[i] # NONE PROVE FALSE
    OBVIOUS
  <2>1. Cardinality(conns) >= MaxConn
    BY FullTable DEF PeerTableMatchesConns
  <2>2. Cardinality(conns) < MaxConn
    BY DEF Connect
  <2>3. Cardinality(conns) \in Nat
    BY FS_Subset, FS_CardinalityType
  <2>. QED
    BY <2>1, <2>2, <2>3
<1>2. PICK x \in Slots : FirstFree(peers, x)
  BY <1>1, FirstFreeExists
<1>3. peers' = [peers EXCEPT ![x] = h]
  BY <1>2, FirstFreeUnique DEF Connect, AddPeer
<1>4. conns' = conns \cup {h} /\ h \notin conns /\ adv' = FALSE
      /\ UNCHANGED <<gattsStarted, svcChanged>>
  BY DEF Connect
<1>5. peers[x] = NONE
  BY <1>2 DEF FirstFree
<1>6. PeerTableMatchesConns'
  BY <1>3, <1>4, <1>5 DEF PeerTableMatchesConns
<1>7. gattsStarted
  BY DEF Connect
<1>8. UNCHANGED db
  BY DEF Connect, stack
<1>. QED
  BY <1>3, <1>4, <1>6, <1>7, <1>8 DEF StepOK

LEMMA DisconnectStep ==
    ASSUME IInv, NEW h \in ConnIds, Disconnect(h)
    PROVE  StepOK
<1> USE DEF IInv, ConnTypeOK
<1>1. PICK x \in Slots : peers[x] = h
  BY DEF Disconnect, PeerTableMatchesConns
<1>2. peers' = [peers EXCEPT ![x] = NONE]
  BY <1>1, ClearSlotOne DEF Disconnect, PeerTableMatchesConns
<1>3. conns' = conns \ {h} /\ UNCHANGED svcChanged
  BY DEF Disconnect
<1>4. PeerTableMatchesConns'
  BY <1>1, <1>2, <1>3 DEF PeerTableMatchesConns
<1>5. conns' = {} <=> ~HasPeers(peers')
  BY <1>2, <1>4 DEF PeerTableMatchesConns, HasPeers
<1>6. CASE svcChanged /\ ~HasPeers(peers')
  <2>1. adv' = FALSE /\ gattsStarted' = FALSE /\ db' = <<>>
    BY <1>6 DEF Disconnect, ResetGATT, Rebuild
  <2>. QED
    BY <1>2, <1>3, <1>4, <1>5, <1>6, <2>1 DEF StepOK
<1>7. CASE ~(svcChanged /\ ~HasPeers(peers'))
  <2>1. UNCHANGED <<adv, gattsStarted, db>>
    BY <1>7 DEF Disconnect, ResetGATT
  <2>. QED
    BY <1>2, <1>3, <1>4, <1>5, <1>7, <2>1 DEF StepOK
<1>. QED
  BY <1>6, <1>7
\* Every step of the specification, and every stutter, satisfies StepOK.
LEMMA NextStep ==
    ASSUME IInv, [Next]_vars
    PROVE  StepOK
<1> USE DEF IInv, ConnTypeOK
<1>1. ASSUME NEW s \in Svcs,
             \/ CreateService(s) \/ ConstructService(s) \/ AddService(s)
             \/ ServiceStart(s) \/ \E del \in BOOLEAN : RemoveService(s, del)
      PROVE  StepOK
  <2>1. UNCHANGED <<conns, peers, adv, gattsStarted, db>> /\ svcChanged' \in BOOLEAN
    BY <1>1 DEF CreateService, ConstructService, AddService, ServiceStart,
                RemoveService, ServiceChanged, stack, conn
  <2>. QED
    BY <2>1, QuietStep
<1>2. ASSUME NEW c \in Chrs,
             \/ CreateCharacteristic(c) \/ AddCharacteristic(c)
             \/ \E del \in BOOLEAN : RemoveCharacteristic(c, del)
      PROVE  StepOK
  <2>1. UNCHANGED <<conns, peers, adv, gattsStarted, db>> /\ svcChanged' \in BOOLEAN
    BY <1>2 DEF CreateCharacteristic, AddCharacteristic, RemoveCharacteristic,
                ServiceChanged, stack, conn
  <2>. QED
    BY <2>1, QuietStep
<1>3. CASE StartAdvertising
  BY <1>3, AdvStep DEF StartAdvertising
<1>4. CASE StopAdvertising
  <2>1. adv' = FALSE /\ UNCHANGED <<conns, peers, gattsStarted, svcChanged, db>>
    BY <1>4 DEF StopAdvertising, stack
  <2>. QED
    BY <2>1 DEF StepOK, PeerTableMatchesConns
<1>5. CASE AdvertiseOnDisconnect
  <2>1. CASE adv
    <3>1. UNCHANGED <<conns, peers, adv, gattsStarted, db, svcChanged>>
      BY <1>5, <2>1 DEF AdvertiseOnDisconnect
    <3>. QED
      BY <3>1, QuietStep
  <2>2. CASE ~adv
    BY <1>5, <2>2, AdvStep DEF AdvertiseOnDisconnect
  <2>. QED
    BY <2>1, <2>2
<1>6. ASSUME NEW h \in ConnIds, Connect(h) \/ Disconnect(h)
      PROVE  StepOK
  BY <1>6, ConnectStep, DisconnectStep
<1>7. ASSUME NEW h \in VisibleHandles, GattAccess(h) \/ Subscribe(h) \/ NotifyTx(h)
      PROVE  StepOK
  <2>1. UNCHANGED <<conns, peers, adv, gattsStarted, db, svcChanged>>
    BY <1>7 DEF GattAccess, Subscribe, NotifyTx, stack
  <2>. QED
    BY <2>1, QuietStep
<1>8. CASE UNCHANGED vars
  <2>1. UNCHANGED <<conns, peers, adv, gattsStarted, db, svcChanged>>
    BY <1>8 DEF vars, stack, conn
  <2>. QED
    BY <2>1, QuietStep
<1>. QED
  BY <1>1, <1>2, <1>3, <1>4, <1>5, <1>6, <1>7, <1>8 DEF Next

\* The initial state satisfies the invariant.
LEMMA InitInv == Init => IInv
<1> SUFFICES ASSUME Init PROVE IInv
  OBVIOUS
<1>1. peers = [i \in Slots |-> NONE] /\ conns = {}
  BY DEF Init
<1>2. {peers[i] : i \in Slots} \ {NONE} = {}
  BY <1>1
<1>3. ConnTypeOK
  BY <1>1 DEF Init, ConnTypeOK
<1>. QED
  BY <1>1, <1>2, <1>3 DEF Init, IInv, PeerTableMatchesConns

(***************************************************************************)
(* Theorems.                                                              *)
(***************************************************************************)

\* The connect and disconnect handlers keep m_connectedPeers equal to the
\* stack's connections, each in one slot, for every table size.
THEOREM PeerTableCorrect == Spec => []PeerTableMatchesConns
<1>1. Init => IInv
  BY InitInv
<1>2. IInv /\ [Next]_vars => IInv'
  BY NextStep DEF StepOK
<1>3. IInv => PeerTableMatchesConns
  BY DEF IInv
<1>. QED
  BY <1>1, <1>2, <1>3, PTL DEF Spec

\* resetGATT, and BLEServer::start, never change the registered database
\* while a peer is connected.
THEOREM ResetOnlyWhenIdleHolds == Spec => ResetOnlyWhenIdle
<1>1. IInv /\ [Next]_vars => [db' # db => conns' = {}]_vars
  BY NextStep DEF StepOK
<1>2. Spec => []IInv
  BY InitInv, NextStep, PTL DEF Spec, StepOK
<1>. QED
  BY <1>1, <1>2, PTL DEF Spec, ResetOnlyWhenIdle

\* The disconnect that takes the last connection with a change pending
\* always resets the stack database for the rebuild.
THEOREM LastDisconnectRebuildsHolds == Spec => LastDisconnectRebuilds
<1>1. IInv /\ [Next]_vars =>
        [(conns # {} /\ conns' = {} /\ svcChanged) => (db' = <<>> /\ ~gattsStarted')]_vars
  BY NextStep DEF StepOK
<1>2. Spec => []IInv
  BY InitInv, NextStep, PTL DEF Spec, StepOK
<1>. QED
  BY <1>1, <1>2, PTL DEF Spec, LastDisconnectRebuilds
=============================================================================
