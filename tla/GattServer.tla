----------------------------- MODULE GattServer -----------------------------
(***************************************************************************)
(* The GATT server of the NimBLE C++ wrapper (BLEServer, BLEService and    *)
(* the characteristic bookkeeping of BLECharacteristic): the attribute     *)
(* tree the application builds and mutates, the registration records a    *)
(* service compiles for the host stack, the stack's attribute database,   *)
(* the connected-peer table, the deferred removal protocol (removed = 1   *)
(* hide, 2 delete) and the reset-and-rebuild done on the last disconnect. *)
(*                                                                         *)
(* Objects are model values with a lifecycle unborn -> alive -> freed, so *)
(* that a use after `delete' is a visible state.  An attribute handle is  *)
(* the pair <<service index, characteristic index>> in the stack database *)
(* (index 0 stands for the service itself, <<0, 0>> for "no handle").    *)
(***************************************************************************)
EXTENDS Naturals, Sequences, FiniteSets, SequencesExt

CONSTANTS
    Svcs,            \* service objects the application may create
    Chrs,            \* characteristic objects the application may create
    SvcOf,           \* the service each characteristic is created in
    ConnIds,         \* connection handles the stack may hand out
    NONE,            \* BLE_HS_CONN_HANDLE_NONE
    MaxConn,         \* CONFIG_BT_NIMBLE_MAX_CONNECTIONS: table size and stack limit
    MaxQueued,       \* bound on service records queued in the stack (model bound)
    AdvOnDisconnect  \* m_advertiseOnDisconnect

ASSUME ConstAssumption ==
    /\ SvcOf \in [Chrs -> Svcs]
    /\ NONE \notin ConnIds
    /\ IsFiniteSet(ConnIds)
    /\ MaxConn \in Nat \ {0}
    /\ MaxQueued \in Nat
    /\ AdvOnDisconnect \in BOOLEAN

VARIABLES
    svcObj, chrObj,        \* lifecycle of each object: "unborn", "alive", "freed"
    svcVec,                \* BLEServer::m_svcVec
    svcRemoved,            \* BLEService::m_removed (0, 1 = HIDE, 2 = DELETE)
    vChars,                \* BLEService::m_vChars
    chrRemoved,            \* BLECharacteristic::m_removed
    svcDef,                \* m_pSvcDef: characteristics pointer and what it lists
    pending,               \* records handed to ble_gatts_add_svcs, not yet started
    db,                    \* the stack's registered services, in handle order
    hidden,                \* indices of db services with visibility 0
    svcHandle, chrHandle,  \* BLEService::m_handle, BLECharacteristic::m_handle
    gattsStarted,          \* BLEServer::m_gattsStarted
    svcChanged,            \* BLEServer::m_svcChanged
    adv,                   \* the stack is advertising
    conns,                 \* connections the stack holds
    peers,                 \* BLEServer::m_connectedPeers
    advPending,            \* host task still has startAdvertising of a disconnect to run
    lastEvt                \* the last callback dispatched to characteristic objects

tree  == <<svcObj, chrObj, svcVec, svcRemoved, vChars, chrRemoved, svcDef>>
stack == <<pending, db, hidden, svcHandle, chrHandle>>
conn  == <<gattsStarted, svcChanged, adv, conns, peers, advPending, lastEvt>>
vars  == <<tree, stack, conn>>

Slots == 1 .. MaxConn
NoHandle == <<0, 0>>
Handles == (0 .. MaxQueued) \X (0 .. Cardinality(Chrs))
Lifecycle == {"unborn", "alive", "freed"}
Record == [ptr : {"null", "live", "freed"}, list : Seq(Chrs)]
Event == [op : {"none", "access", "subscribe", "status"},
          h : Handles, to : SUBSET Chrs]

-----------------------------------------------------------------------------
(* Helpers of the code and of the stack boundary.                          *)

\* BLEServer::serviceChanged: the flag is only raised once the server started.
ServiceChanged == svcChanged' = (svcChanged \/ gattsStarted)

\* getConnectedCount() > 0
HasPeers(p) == \E i \in Slots : p[i] # NONE

\* The registered, visible characteristic handles: the only ones the stack
\* raises access, subscribe or notify-complete events for.
VisibleHandles ==
    UNION {{<<i, j>> : j \in 1 .. Len(db[i].chrs)} : i \in (1 .. Len(db)) \ hidden}

\* The `arg' the stack passes for the attribute at a registered handle.
ChrAt(h) == db[h[1]].chrs[h[2]]

\* The characteristics of the tree in the order the GAP handler visits them
\* (m_svcVec, then each service's m_vChars), as positions <<k, j>>.
TreePos == UNION {{<<k, j>> : j \in 1 .. Len(vChars[svcVec[k]])} : k \in 1 .. Len(svcVec)}
TreeChr(p) == vChars[svcVec[p[1]]][p[2]]

\* Deleting a service object: ~BLEService deletes every characteristic in m_vChars.
FreedBySvcDelete(D) ==
    [c \in Chrs |-> IF \E s \in D : c \in ToSet(vChars[s]) THEN "freed" ELSE chrObj[c]]

\* BLEService::start's compilation of m_pSvcDef.  A characteristic array is
\* built only when some characteristic is live; otherwise the old array is
\* deleted but the pointer is left as it was (dangling if it was set).
Compile(s) ==
    LET L == SelectSeq(vChars[s], LAMBDA c : chrRemoved[c] = 0)
    IN  IF L # <<>> THEN [ptr |-> "live", list |-> L]
        ELSE [ptr |-> IF svcDef[s].ptr = "null" THEN "null" ELSE "freed",
              list |-> svcDef[s].list]

\* ble_gatts_add_svcs succeeds only while the stack is mutable: no
\* connection and no advertising.
Mutable == conns = {} /\ ~adv

-----------------------------------------------------------------------------
Init ==
    /\ svcObj = [s \in Svcs |-> "unborn"]
    /\ chrObj = [c \in Chrs |-> "unborn"]
    /\ svcVec = <<>>
    /\ svcRemoved = [s \in Svcs |-> 0]
    /\ vChars = [s \in Svcs |-> <<>>]
    /\ chrRemoved = [c \in Chrs |-> 0]
    /\ svcDef = [s \in Svcs |-> [ptr |-> "null", list |-> <<>>]]
    /\ pending = <<>>
    /\ db = <<>>
    /\ hidden = {}
    /\ svcHandle = [s \in Svcs |-> NoHandle]
    /\ chrHandle = [c \in Chrs |-> NoHandle]
    /\ gattsStarted = FALSE
    /\ svcChanged = FALSE
    /\ adv = FALSE
    /\ conns = {}
    /\ peers = [i \in Slots |-> NONE]
    /\ advPending = FALSE
    /\ lastEvt = [op |-> "none", h |-> NoHandle, to |-> {}]
-----------------------------------------------------------------------------
(* BLEServer::start: ble_gatts_start registers the queued records as they  *)
(* are now, writing each characteristic's handle through val_handle (the   *)
(* last registration wins); ble_gatts_find_svc then refreshes the handle   *)
(* of every service of m_svcVec that is not removed (the first match);     *)
(* a pending change is announced and the flag cleared.                     *)
ServerStart ==
    LET new == [i \in 1 .. Len(pending) |->
                   [svc |-> pending[i], chrs |-> svcDef[pending[i]].list]]
        At(c) == {p \in Handles : /\ p[1] \in 1 .. Len(new)
                                  /\ p[2] \in 1 .. Len(new[p[1]].chrs)
                                  /\ new[p[1]].chrs[p[2]] = c}
        Found(s) == {i \in 1 .. Len(new) : new[i].svc = s}
    IN  /\ db' = new
        /\ pending' = <<>>
        /\ chrHandle' = [c \in Chrs |->
                           IF At(c) = {} THEN chrHandle[c]
                           ELSE CHOOSE p \in At(c) : \A q \in At(c) : q[1] <= p[1]]
        /\ svcHandle' = [s \in Svcs |->
                           IF svcRemoved[s] = 0 /\ s \in ToSet(svcVec) /\ Found(s) # {}
                           THEN <<CHOOSE i \in Found(s) : \A k \in Found(s) : i <= k, 0>>
                           ELSE svcHandle[s]]
        /\ svcChanged' = FALSE
        /\ gattsStarted' = TRUE

\* BLEAdvertising::start: starts the GATT server first if it is not started.
StartAdv ==
    /\ adv' = TRUE
    /\ IF gattsStarted
       THEN UNCHANGED <<pending, db, svcHandle, chrHandle, svcChanged, gattsStarted>>
       ELSE ServerStart

-----------------------------------------------------------------------------
(* Application-task operations on the tree.                                *)

\* BLEServer::createService: push_back and serviceChanged.
CreateService(s) ==
    /\ svcObj[s] = "unborn"
    /\ svcObj' = [svcObj EXCEPT ![s] = "alive"]
    /\ svcVec' = Append(svcVec, s)
    /\ ServiceChanged
    /\ UNCHANGED <<chrObj, svcRemoved, vChars, chrRemoved, svcDef, stack,
                   gattsStarted, adv, conns, peers, advPending, lastEvt>>

\* `new BLEService(uuid)' by the application, outside the server.
ConstructService(s) ==
    /\ svcObj[s] = "unborn"
    /\ svcObj' = [svcObj EXCEPT ![s] = "alive"]
    /\ UNCHANGED <<chrObj, svcVec, svcRemoved, vChars, chrRemoved, svcDef, stack, conn>>

\* BLEServer::addService: a service never removed is pushed and the call
\* returns; a removed one is marked live again and serviceChanged is called.
AddService(s) ==
    /\ svcObj[s] = "alive"
    /\ \/ /\ svcRemoved[s] = 0
          /\ s \notin ToSet(svcVec)
          /\ svcVec' = Append(svcVec, s)
          /\ UNCHANGED <<svcRemoved, svcChanged>>
       \/ /\ svcRemoved[s] > 0
          /\ svcRemoved' = [svcRemoved EXCEPT ![s] = 0]
          /\ ServiceChanged
          /\ UNCHANGED svcVec
    /\ UNCHANGED <<svcObj, chrObj, vChars, chrRemoved, svcDef, stack,
                   gattsStarted, adv, conns, peers, advPending, lastEvt>>

\* BLEServer::removeService: a removed service is deleted (with its
\* characteristics) and erased when deleteSvc; otherwise the stack is asked
\* to hide the service at m_handle, and only if it finds one is the service
\* marked HIDE or DELETE and serviceChanged called.
RemoveService(s, del) ==
    /\ svcObj[s] = "alive"
    /\ \/ /\ svcRemoved[s] > 0
          /\ del
          /\ svcObj' = [svcObj EXCEPT ![s] = "freed"]
          /\ chrObj' = FreedBySvcDelete({s})
          /\ svcVec' = Remove(svcVec, s)
          /\ UNCHANGED <<svcRemoved, hidden, svcChanged>>
       \/ /\ svcRemoved[s] = 0
          /\ svcHandle[s][1] \in 1 .. Len(db)
          /\ hidden' = hidden \cup {svcHandle[s][1]}
          /\ svcRemoved' = [svcRemoved EXCEPT ![s] = IF del THEN 2 ELSE 1]
          /\ ServiceChanged
          /\ UNCHANGED <<svcObj, chrObj, svcVec>>
    /\ UNCHANGED <<vChars, chrRemoved, svcDef, pending, db, svcHandle, chrHandle,
                   gattsStarted, adv, conns, peers, advPending, lastEvt>>

\* BLEService::createCharacteristic and the push_back path of addCharacteristic.
CreateCharacteristic(c) ==
    /\ chrObj[c] = "unborn"
    /\ svcObj[SvcOf[c]] = "alive"
    /\ chrObj' = [chrObj EXCEPT ![c] = "alive"]
    /\ vChars' = [vChars EXCEPT ![SvcOf[c]] = Append(@, c)]
    /\ ServiceChanged
    /\ UNCHANGED <<svcObj, svcVec, svcRemoved, chrRemoved, svcDef, stack,
                   gattsStarted, adv, conns, peers, advPending, lastEvt>>

\* BLEService::addCharacteristic of a removed characteristic: it is marked
\* live, then found in m_vChars, and the call returns before serviceChanged.
AddCharacteristic(c) ==
    /\ chrObj[c] = "alive"
    /\ chrRemoved[c] > 0
    /\ chrRemoved' = [chrRemoved EXCEPT ![c] = 0]
    /\ UNCHANGED <<svcObj, chrObj, svcVec, svcRemoved, vChars, svcDef, stack, conn>>

\* BLEService::removeCharacteristic: a removed characteristic is deleted and
\* erased when deleteChr; otherwise it is marked and serviceChanged called.
\* The stack is not told.
RemoveCharacteristic(c, del) ==
    /\ chrObj[c] = "alive"
    /\ \/ /\ chrRemoved[c] > 0
          /\ del
          /\ chrObj' = [chrObj EXCEPT ![c] = "freed"]
          /\ vChars' = [vChars EXCEPT ![SvcOf[c]] = Remove(@, c)]
          /\ UNCHANGED <<chrRemoved, svcChanged>>
       \/ /\ chrRemoved[c] = 0
          /\ chrRemoved' = [chrRemoved EXCEPT ![c] = IF del THEN 2 ELSE 1]
          /\ ServiceChanged
          /\ UNCHANGED <<chrObj, vChars>>
    /\ UNCHANGED <<svcObj, svcVec, svcRemoved, svcDef, stack,
                   gattsStarted, adv, conns, peers, advPending, lastEvt>>

\* BLEService::start past its fast path (a record exists and no change is
\* pending): recompile, then ble_gatts_count_cfg and ble_gatts_add_svcs.
ServiceStart(s) ==
    /\ svcObj[s] = "alive"
    /\ ~(svcDef[s].ptr # "null" /\ ~svcChanged)
    /\ Mutable => Len(pending) < MaxQueued
    /\ svcDef' = [svcDef EXCEPT ![s] = Compile(s)]
    /\ pending' = IF Mutable THEN Append(pending, s) ELSE pending
    /\ UNCHANGED <<svcObj, chrObj, svcVec, svcRemoved, vChars, chrRemoved,
                   db, hidden, svcHandle, chrHandle, conn>>

\* BLEServer::startAdvertising / BLEDevice::startAdvertising by the application.
StartAdvertising ==
    /\ ~adv
    /\ StartAdv
    /\ UNCHANGED <<tree, hidden, conns, peers, advPending, lastEvt>>

\* BLEServer::stopAdvertising.
StopAdvertising ==
    /\ adv
    /\ adv' = FALSE
    /\ UNCHANGED <<tree, stack, gattsStarted, svcChanged, conns, peers, advPending, lastEvt>>
-----------------------------------------------------------------------------
(* Host-task events (BLEServer::handleGapEvent, handleGattEvent).  The     *)
(* host task runs one handler at a time, so none starts while a disconnect *)
(* handler still has its startAdvertising to run.                          *)

\* The first free slot of the peer table.
FirstFree(p, i) == p[i] = NONE /\ \A j \in 1 .. i - 1 : p[j] # NONE

\* Mutant: the connect loop without its break fills every free slot.
AddPeerNoBreak(p, h) == [i \in Slots |-> IF p[i] = NONE THEN h ELSE p[i]]

\* The connect handler's loop: the first free slot takes the handle, then break.
AddPeer(p, h) == [i \in Slots |-> IF FirstFree(p, i) THEN h ELSE p[i]]

\* Mutant: the disconnect loop writes 0 instead of BLE_HS_CONN_HANDLE_NONE.
ClearSlotZero(p, h) ==
    [i \in Slots |-> IF p[i] = h /\ \A j \in 1 .. i - 1 : p[j] # h THEN 0 ELSE p[i]]

\* The disconnect handler's loop: the first slot holding the handle is freed.
ClearSlot(p, h) ==
    [i \in Slots |-> IF p[i] = h /\ \A j \in 1 .. i - 1 : p[j] # h THEN NONE ELSE p[i]]

\* The body of BLEServer::resetGATT past its guard: advertising stops, the
\* stack database is reset, DELETE services are deleted and erased, HIDE
\* ones skipped, and every live service restarted (with the change flag set
\* the fast path is never taken, and the stack is mutable, so each record is
\* queued).  The change flag is left set for BLEServer::start to clear.
Rebuild ==
    LET del  == {s \in ToSet(svcVec) : svcRemoved[s] = 2}
        kept == SelectSeq(svcVec, LAMBDA s : svcRemoved[s] # 2)
        live == SelectSeq(kept, LAMBDA s : svcRemoved[s] = 0)
    IN  /\ adv' = FALSE
        /\ svcObj' = [s \in Svcs |-> IF s \in del THEN "freed" ELSE svcObj[s]]
        /\ chrObj' = FreedBySvcDelete(del)
        /\ svcVec' = kept
        /\ svcDef' = [s \in Svcs |-> IF s \in ToSet(live) THEN Compile(s) ELSE svcDef[s]]
        /\ pending' = live
        /\ db' = <<>>
        /\ hidden' = {}
        /\ gattsStarted' = FALSE

\* Mutant: resetGATT without its getConnectedCount() check.
ResetGATTUnguarded(p) == Rebuild

\* BLEServer::resetGATT with the peer table p: refused while a peer is in it.
ResetGATT(p) ==
    IF HasPeers(p)
    THEN UNCHANGED <<svcObj, chrObj, svcVec, svcDef, pending, db, hidden, adv, gattsStarted>>
    ELSE Rebuild

\* BLE_GAP_EVENT_CONNECT with status 0.  The stack stops legacy advertising
\* on a connection and never holds more than MaxConn of them.
Connect(h) ==
    /\ ~advPending
    /\ adv
    /\ h \in ConnIds \ conns
    /\ Cardinality(conns) < MaxConn
    /\ conns' = conns \cup {h}
    /\ adv' = FALSE
    /\ peers' = AddPeer(peers, h)
    /\ UNCHANGED <<tree, stack, gattsStarted, svcChanged, advPending, lastEvt>>

\* Mutant: the disconnect handler calls resetGATT before freeing the slot.
DisconnectCountFirst(h) ==
    /\ ~advPending
    /\ h \in conns
    /\ conns' = conns \ {h}
    /\ peers' = ClearSlot(peers, h)
    /\ IF svcChanged
       THEN ResetGATT(peers)
       ELSE UNCHANGED <<svcObj, chrObj, svcVec, svcDef, pending, db, hidden, adv, gattsStarted>>
    /\ advPending' = AdvOnDisconnect
    /\ UNCHANGED <<svcRemoved, vChars, chrRemoved, svcHandle, chrHandle, svcChanged, lastEvt>>

\* BLE_GAP_EVENT_DISCONNECT: free the slot, resetGATT if services changed,
\* then (m_advertiseOnDisconnect) startAdvertising, run as a later step.
Disconnect(h) ==
    /\ ~advPending
    /\ h \in conns
    /\ conns' = conns \ {h}
    /\ peers' = ClearSlot(peers, h)
    /\ IF svcChanged
       THEN ResetGATT(peers')
       ELSE UNCHANGED <<svcObj, chrObj, svcVec, svcDef, pending, db, hidden, adv, gattsStarted>>
    /\ advPending' = AdvOnDisconnect
    /\ UNCHANGED <<svcRemoved, vChars, chrRemoved, svcHandle, chrHandle, svcChanged, lastEvt>>

\* The tail of the disconnect handler: pServer->startAdvertising().
AdvertiseOnDisconnect ==
    /\ advPending
    /\ advPending' = FALSE
    /\ IF adv THEN UNCHANGED <<adv, pending, db, svcHandle, chrHandle, svcChanged, gattsStarted>>
       ELSE StartAdv
    /\ UNCHANGED <<tree, hidden, conns, peers, lastEvt>>

\* handleGattEvent: a peer reads or writes the attribute at a visible handle;
\* the stack passes the object recorded in the registration as `arg'.
GattAccess(h) ==
    /\ ~advPending
    /\ conns # {}
    /\ h \in VisibleHandles
    /\ lastEvt' = [op |-> "access", h |-> h, to |-> {ChrAt(h)}]
    /\ UNCHANGED <<tree, stack, gattsStarted, svcChanged, adv, conns, peers, advPending>>

\* BLE_GAP_EVENT_SUBSCRIBE: onSubscribe for every characteristic of the tree
\* whose m_handle equals the attribute handle.
Subscribe(h) ==
    /\ ~advPending
    /\ conns # {}
    /\ h \in VisibleHandles
    /\ lastEvt' = [op |-> "subscribe", h |-> h,
                   to |-> {TreeChr(p) : p \in {q \in TreePos : chrHandle[TreeChr(q)] = h}}]
    /\ UNCHANGED <<tree, stack, gattsStarted, svcChanged, adv, conns, peers, advPending>>

\* BLE_GAP_EVENT_NOTIFY_TX: the last characteristic of the tree with that
\* handle gets onStatus (nothing if none matches, nor for an indication
\* sent but not yet acknowledged, which leave the state as it is).
NotifyTx(h) ==
    LET M == {q \in TreePos : chrHandle[TreeChr(q)] = h}
        last == CHOOSE p \in M : \A q \in M : q[1] < p[1] \/ (q[1] = p[1] /\ q[2] <= p[2])
    IN  /\ ~advPending
        /\ conns # {}
        /\ h \in VisibleHandles
        /\ M # {}
        /\ lastEvt' = [op |-> "status", h |-> h, to |-> {TreeChr(last)}]
        /\ UNCHANGED <<tree, stack, gattsStarted, svcChanged, adv, conns, peers, advPending>>

-----------------------------------------------------------------------------
Next ==
    \/ \E s \in Svcs : \/ CreateService(s) \/ ConstructService(s) \/ AddService(s)
                       \/ ServiceStart(s)
                       \/ \E del \in BOOLEAN : RemoveService(s, del)
    \/ \E c \in Chrs : \/ CreateCharacteristic(c) \/ AddCharacteristic(c)
                       \/ \E del \in BOOLEAN : RemoveCharacteristic(c, del)
    \/ StartAdvertising \/ StopAdvertising \/ AdvertiseOnDisconnect
    \/ \E h \in ConnIds : Connect(h) \/ Disconnect(h)
    \/ \E h \in VisibleHandles : GattAccess(h) \/ Subscribe(h) \/ NotifyTx(h)

Spec == Init /\ [][Next]_vars
-----------------------------------------------------------------------------
(* Properties.                                                             *)

\* Every variable holds a value of its type.
TypeOK ==
    /\ svcObj \in [Svcs -> Lifecycle]
    /\ chrObj \in [Chrs -> Lifecycle]
    /\ svcVec \in Seq(Svcs)
    /\ svcRemoved \in [Svcs -> 0 .. 2]
    /\ vChars \in [Svcs -> Seq(Chrs)]
    /\ chrRemoved \in [Chrs -> 0 .. 2]
    /\ svcDef \in [Svcs -> Record]
    /\ pending \in Seq(Svcs)
    /\ db \in Seq([svc : Svcs, chrs : Seq(Chrs)])
    /\ hidden \subseteq 1 .. Len(db)
    /\ svcHandle \in [Svcs -> Handles]
    /\ chrHandle \in [Chrs -> Handles]
    /\ gattsStarted \in BOOLEAN
    /\ svcChanged \in BOOLEAN
    /\ adv \in BOOLEAN
    /\ conns \subseteq ConnIds
    /\ peers \in [Slots -> ConnIds \cup {NONE}]
    /\ advPending \in BOOLEAN
    /\ lastEvt \in Event

\* The peer table the connect and disconnect handlers keep (first free slot
\* on connect, first matching slot on disconnect) holds exactly the
\* connections the stack has, each in one slot.  resetGATT trusts this
\* table through getConnectedCount to decide that nobody is connected.
PeerTableMatchesConns ==
    /\ {peers[i] : i \in Slots} \ {NONE} = conns
    /\ \A i, j \in Slots : peers[i] = peers[j] /\ i # j => peers[i] = NONE

\* resetGATT never resets the stack database while a peer is connected: a
\* step that changes the registered database leaves no connection open.
ResetOnlyWhenIdle == [][db' # db => conns' = {}]_vars

\* A change made after the server started is never dropped on the last
\* disconnect: when the last connection goes with the change flag set,
\* resetGATT runs (stack database reset, server to be restarted).
LastDisconnectRebuilds ==
    [][(conns # {} /\ conns' = {} /\ svcChanged) => (db' = <<>> /\ ~gattsStarted')]_vars
\* Deleting is deferred while the stack can still reach an object (spec,
\* data model): every characteristic the stack serves at a visible handle,
\* and would hand to handleGattEvent as `arg', is a live object.
\* removeCharacteristic(c, true) on an already removed characteristic
\* deletes it at once although the stack still serves it.
ServedObjectsAlive == \A h \in VisibleHandles : chrObj[ChrAt(h)] = "alive"

\* BLEService::start never leaves m_pSvcDef->characteristics dangling: a
\* live service's record pointer is null or points at a live array (it is
\* read by ble_gatts_count_cfg, the fast path and ~BLEService).
NoDanglingRecord == \A s \in Svcs : svcObj[s] = "alive" => svcDef[s].ptr # "freed"

\* Starting a service twice with no structural change between does not
\* register it twice (spec property 2): no service is in the stack
\* database twice.
ServiceRegisteredOnce ==
    \A i, k \in 1 .. Len(db) : i # k => db[i].svc # db[k].svc

\* The subscribe and notify-complete handlers call back only the
\* characteristic the stack registered at the event's attribute handle.
DispatchReachesOwner ==
    [][(lastEvt'.op \in {"subscribe", "status"} /\ lastEvt' # lastEvt)
         => lastEvt'.to \subseteq {ChrAt(lastEvt'.h)}]_vars

\* removeService hides the service being removed and no other: a service
\* whose visibility is turned off is one whose removed flag this step set.
HideTargetsRemoved ==
    [][\A i \in hidden' \ hidden : svcRemoved'[db[i].svc] # svcRemoved[db[i].svc]]_vars
\* No stale m_handle is acted on: a handle kept from an older database
\* neither routes a subscribe / notify-complete event to the wrong
\* characteristic nor hides another service (both handlers trust the
\* m_handle of an object that the last start() did not register).
StaleHandlesUnused == DispatchReachesOwner /\ HideTargetsRemoved

\* BLEService::start handles a service with no live characteristic: it
\* leaves no m_pSvcDef->characteristics pointer to a deleted array, and a
\* second start() with nothing changed does not queue the service again.
ServiceStartSound == NoDanglingRecord /\ ServiceRegisteredOnce
=============================================================================
