# TLA+ models of the NimBLE C++ BLE wrapper (arduino-esp32 `BLE` / `NimBLE` libraries)

This directory holds TLA+ models of the GATT server side of the BLE wrapper:
- the attribute tree, as the application builds and changes it;
- the registration records that tree compiles for the NimBLE host stack;
- the connected-peer table;
- the reset-and-rebuild done after the last disconnect;
- the value buffer behind every local attribute;

and of the GATT client's connection and service discovery (`BLEClient`).

There are TLC configurations for small instances and TLAPS proofs of the connection bookkeeping.

## The system

Two tasks run on the device:

* The **application task** (the Arduino `loop` and `setup`) builds the tree. It calls:
  - `BLEServer::createService`, `addService`, `removeService` and `start`;
  - `BLEService::createCharacteristic`, `addCharacteristic`, `removeCharacteristic` and `start`;
  - `BLECharacteristic::setValue`;
  - `startAdvertising` and `stopAdvertising`.
* The **host task** (NimBLE) delivers events:
  - `BLEServer::handleGapEvent`: CONNECT, DISCONNECT, SUBSCRIBE, NOTIFY_TX;
  - `BLEServer::handleGattEvent`: reads and writes of an attribute, with the object registered for it as `arg`.

The two tasks meet in shared objects that no lock protects. Only `BLEAttValue` uses a critical section, and only around part of its work.

A service that has been removed is not deleted at once: `m_removed` is set to 1 (hide) or 2 (delete). The next `resetGATT`, run by the DISCONNECT handler when `m_svcChanged` is set and no peer remains, resets the stack database and rebuilds it from the tree.

`BLEService::start` compiles `m_pSvcDef` (a C array of characteristic definitions whose `arg` is the object pointer) and queues it with `ble_gatts_add_svcs`. `BLEServer::start` (`ble_gatts_start`) then registers the queued records and looks up the handles.

## Modules

| Module | Models | Source |
|---|---|---|
| `GattServer` | tree, records, stack database, peer table, advertising, GAP/GATT dispatch | `BLEServer.cpp`, `NimBLEService.cpp` |
| `GattServerProofs` | TLAPS proofs about `GattServer` | |
| `AttValueProofs` | TLAPS proofs about `AttValue` | |
| `ClientProofs`, `ClientTypeProofs` | TLAPS proofs about `Client` | |
| `ClientConn` | what `BLEClient` promises about `m_connHandle`: the abstract spec `Client` refines | `NimBLEClient.cpp` (CONNECT and DISCONNECT cases) |
| `ClientConnProofs` | TLAPS proof that `Client` implements `ClientConn`, and of `ConnSafe` | |
| `AttValue` | `BLEAttValue` with both tasks and the heap | `src/unnamed/part_004`, `BLEServer.cpp` (GATT read), `part_012` (`writeEvent`) |
| `Client` | `BLEClient`: connect, timeout and cancel, disconnect, self-delete, service discovery, the client's GAP handler | `NimBLEClient.cpp`, `BLEUtils.h` (`BLETaskData`) |
| `MC_GattServer`, `MC_AttValue`, `MC_Client` | model values and constant definitions for TLC | |

### GattServer

**State.**
- *The tree.* Objects are model values with a lifecycle `unborn`, `alive` or `freed`, so a use after `delete` shows up as a state. The tree itself is `svcVec`, `vChars`, `svcRemoved`, `chrRemoved`, and `svcDef` (each service's compiled record: its pointer is null, live or freed, and its list of characteristics).
- *The stack.* `pending` holds the records that `ble_gatts_add_svcs` accepted. `db` is the registered database, `hidden` the services hidden by `set_visibility`, and `svcHandle` and `chrHandle` the handles (`m_handle`). A handle is the pair <<service index, characteristic index>> in `db`.
- *Connections.* `peers` is `m_connectedPeers`, `conns` the stack's connections, and `adv` the advertising state. `gattsStarted` and `svcChanged` are the server's two flags.

**Actions.** There is one action per handler or call, each modelling the whole function:
- application calls: `CreateService`, `ConstructService`, `AddService`, `RemoveService(s, del)`, `CreateCharacteristic`, `AddCharacteristic`, `RemoveCharacteristic(c, del)`, `ServiceStart`, `StartAdvertising`, `StopAdvertising`;
- host-task events: `Connect`, `Disconnect` (which includes `resetGATT`), `AdvertiseOnDisconnect` (the handler's tail, `startAdvertising`), `GattAccess`, `Subscribe`, `NotifyTx`.

**NimBLE behaviour taken from the spec.** NimBLE itself is not under `src/`, so four of its behaviours are taken from the spec and marked `spec_modelled` in the map:
- `ble_gatts_add_svcs` fails unless the stack is idle (`Mutable`);
- `ble_gatts_start` registers the queued records as they are at that moment (`ServerStart`);
- `set_visibility` and the access `arg` follow the registration (`VisibleHandles`, `ChrAt`);
- `BLEAdvertising::start` starts the server if it is not started (`StartAdv`).

**Simplifications.**
- Each application call is one atomic step.
- The application never adds a service that is already in `m_svcVec`. The code would push it twice.

### AttValue

**State.**
- The fields `val` (`m_attr_value`), `len` (`m_attr_len`) and `cap` (`m_capacity`).
- A heap of `NBlocks` blocks, each unused, alive or freed, holding bytes.
- Each task's place in `setValue`/`append`, with append's locals `new_len` and `res`.

**Steps.** `setValue` is split at the points where the other task can run:
1. `SetValueClear`: `m_attr_len = 0`, outside any lock.
2. `AppendPrepare`: the early returns, `new_len`, and the realloc (`Realloc`). The realloc extends the block in place, moves it and frees the old one, or fails. `m_capacity` is set in every case.
3. `AppendCommit`: the critical section. It does the `memcpy` at the *current* `m_attr_len`, then sets the pointer and the length, then stores the terminator.

`GattRead` is the host task's `os_mbuf_append` of `data()`/`size()` inside the critical section. The host task writes only through `writeEvent`, which calls `setValue`.

**Abstractions.**
- A byte is abstracted to the task that wrote it (`"init"` for the constructor's value, `"junk"` for uninitialised bytes), so a torn or mixed value is visible.
- A write past a block's end, or into a freed block, is recorded in `faults`.
- Two history variables hold what the specification says of the value. `expect` is the value the last call should leave: a call that fails leaves the value as it was (spec sections 3 and 8). `commits` is every value a reader may legitimately see: the initial value, each value a call left on return, and the value a fitting `setValue` is storing, from the moment it is called.

### Client

`BLEClient` is shared by three actors:
- the **application task**, which blocks in `connect()` or `retrieveServices()` on a `BLETaskData`. That object lives in the caller's stack frame, and `connect()` publishes it in `m_pTaskData`;
- the **NimBLE host task**, which runs `handleGapEvent` and `serviceDiscoveredCB`;
- the **controller and the peer**, which establish, fail and drop the link and answer the MTU exchange and the discovery.

**State.**
- *The client object.* `client` is `alive` or `freed` (by `BLEDevice::deleteClient`). The module also holds `connHandle` (`m_connHandle`), `config` (`m_config`: async, exchangeMTU and the two self-delete flags), `pTaskData`, `termFails` (`m_terminateFailCount`) and `svcs` (`m_svcVec`, as its length).
- *The stack frames.* `frame` holds the application's `BLETaskData` objects, one per call. Each is unused, live or popped, and holds its `m_flags` and whether it was notified.
- *The tasks.* `app` is where the application task is. `host` is the event `handleGapEvent` is handling, with its copy of `m_pTaskData`.
- *NimBLE.* `gap` is NimBLE's view of the link: idle, connecting, cancelling, conn, closing, or waiting for a host reset. It also holds the handle, a pending MTU exchange and a pending discovery. `evq` holds the callbacks still to be made for the current controller event, and `synced` is `BLEDevice::m_synced`.
- *Faults.* `faults` records every access to a deleted client (`client_uaf`) and every `taskRelease` into a popped frame (`stale_frame`).

**Actions.**
- *Application calls:*
  - `SetSelfDelete`;
  - `Connect`, with all of its early returns and `EALREADY` (which still stores the new `m_config` flags, lines 191-192);
  - the end of `connect()`'s wait, which is one of `ConnectWake` (notified) or `ConnectTimeout`;
  - `ConnectPost` (lines 249-264), which deletes the client on failure when `deleteOnConnectFail` is set;
  - `Disconnect` and `CancelConnect`;
  - `Discover` (`getServices(true)` → `retrieveServices`) and `DiscoverWake`.
- *Host task.*
  - `HostBegin` is the first line of `handleGapEvent`, which copies `m_pTaskData` "in case client is deleted".
  - One action per event case does the rest, up to the `taskRelease` of the copy at the end: `OnConnect`, `OnDisconnect`, `OnMtu` and `OnTermFailure`.
  - `HostFreed` is a handler that runs on a client already deleted.
  - `DiscoveredCB` is `serviceDiscoveredCB`.
- *Link layer:* `Establish`, `EstablishFail`, `CancelDone`, `LinkLoss`, `TermFail`, `MtuDone`, `DiscFound`, `DiscDone` and `Sync`.

**Serialisation.** The host task handles one controller event at a time. The link layer changes `gap` and queues that event's callbacks in `evq`, and takes its next step only once the host task is idle and `evq` is empty (`Ready`). This is NimBLE's single host task. It also keeps a DISCONNECT from an old connection from being applied to a new connection that reuses the handle.

**NimBLE behaviour taken from the spec.** NimBLE and `BLEDevice::deleteClient` are not under `src/`. These behaviours are therefore `spec_modelled` in the map:
- `deleteClient` disconnects a connected client and marks it `deleteOnDisconnect`; any other client is deleted at once;
- `ble_gap_conn_cancel` ends an attempt with a CONNECT failure, unless the controller connected first;
- a broken link fails a pending discovery with `ENOTCONN` and reports DISCONNECT, in either order;
- `ble_hs_sched_reset` drops the link, and `onSync` sets `m_synced` again;
- `taskRelease` stores the code in the frame and wakes its task.

**Simplifications.**
- A peer address is abstracted away: there is one peer.
- Only CONNECT, DISCONNECT, MTU and TERM_FAILURE are modelled among the GAP events.
- `connect`'s `BLE_HS_EBUSY` loop (stopping a scan) is left out.

### ClientConn: the abstract connection

`ClientConn` says what the client promises about its handle, with no tasks, frames or events. It has three variables:
- `link`: the connection NimBLE holds, or `NONE`;
- `handle`: `m_connHandle`;
- `alive`: FALSE once the object is deleted.

Its steps:
- the controller's `LinkUp(h)` (only when there is no link and the client holds no handle) and `LinkDown`;
- `Adopt`: the CONNECT case takes the handle of the live link (lines 928-938);
- `Forget`: the DISCONNECT case lets go of the handle of a link already gone, and `deleteOnDisconnect` may delete the client (lines 903-923);
- `Delete`: a client holding no handle is deleted. This covers `deleteOnConnectFail` (lines 948-955 and `connect()`'s lines 249-262) and `deleteClient` of an idle client.

`Delete` does not require `link = NONE`. A timed-out `connect()` with `deleteOnConnectFail` deletes the client while the controller has already connected: that is the `client_freed_memory` finding. A version of `Delete` that demanded no link is not implemented. Its proof fails at `ConnectPost`'s delete and at the handlers' `deleteOnConnectFail` delete.

`Client` instantiates it as `Conn` with this mapping:
- `handle <- connHandle`;
- `link <- ConnLink`, which is `gap.h` while NimBLE holds the link (`Linked`) and `NONE` otherwise;
- `alive <- (client = "alive")`.

The client's own steps map as follows:
- `Establish` is `LinkUp`, and `LinkLoss` is `LinkDown`;
- the OK branch of `OnConnect` is `Adopt`;
- `OnDisconnect` is `Forget` when the client holds a handle, and `Delete` or a stutter otherwise;
- `ConnectPost`'s delete is `Delete`;
- every other step is a stutter.

`ImplementsConn == Conn!ConnSpec` is checked by `client_conn` and proved in `ClientConnProofs`. Its mutant `OnDisconnectDeleteFirst` deletes on disconnect without clearing `m_connHandle`.

## Runs

Each row gives the run's cfg, what it expects, and what it checks. The runs marked "violation" are each a disagreement with the spec or the code's intent; PROJECT.json lists them as findings.

| Run | cfg | Expect | Checks |
|---|---|---|---|
| gatt_conn | `MC_GattServer.cfg` | pass | `TypeOK`, `PeerTableMatchesConns`, `[]ResetOnlyWhenIdle`, `[]LastDisconnectRebuilds` |
| gatt_served_freed | `_served` | violation | `ServedObjectsAlive`: remove(c), then remove(c, true), frees an object a queued record serves |
| gatt_stale_handle | `_stale` | violation | `StaleHandlesUnused` (see below) |
| gatt_start_nochars | `_start` | violation | `ServiceStartSound` (see below) |
| att_sequential | `MC_AttValue.cfg` | pass | `NoOverflow` with one writer, empty, fitting and oversized values, and no allocation failure |
| att_race | `_race` | pass | `TypeOK` with two writers, reads and allocation failures: a task reaches the commit only with a block from `realloc`, never its nullptr |
| att_allocfail | `_allocfail` | violation | `NoOverflow`: the capacity is raised before the realloc failure is seen |
| att_setvalue | `_setvalue` | violation | `SetValueAtomic` (see below) |
| att_read_uaf | `_readuaf` | violation | `NoUseAfterFree`: between append's realloc and its commit, a GATT read, or a GATT write racing the append, touches the freed block |
| client_conn | `MC_Client.cfg` | pass | `TypeOK`, `KnownConnectionIsLive`, `DiscoveryReturns`, `TerminateCompletes`, `ImplementsConn` |
| client_freed_memory | `_uaf` | violation | `NoAccessToFreedMemory`: a timed-out connect with `deleteOnConnectFail` deletes the client; the controller had already connected, and the late CONNECT runs `handleGapEvent` on the deleted client |
| client_connect_false | `_connfail` | violation | `ConnectFailureLeavesNoConnection`: a CONNECT after the timeout, before `m_pTaskData = nullptr`, is accepted; with `exchangeMTU` `connect()` returns false while connected |

**Runs on a conjunction.** Three violation runs check a conjunction of two properties that fail for one cause. TLC reports the first conjunct it finds violated; the trace shows the cause.
* `StaleHandlesUnused` = `DispatchReachesOwner /\ HideTargetsRemoved`: an attribute hidden or re-added keeps its `m_handle` from an older database.
  - On the two-service instance of `_stale`, TLC reports `HideTargetsRemoved`: `removeService` hides another service.
  - On a one-service instance with two characteristics (`Svcs <- OneSvc`, `SvcOf <- BothInS1`), it reports `DispatchReachesOwner`: SUBSCRIBE reaches the wrong characteristic.
* `ServiceStartSound` = `NoDanglingRecord /\ ServiceRegisteredOnce`: `BLEService::start` with no live characteristic.
  - TLC reports the service registered twice.
  - The dangling pointer to the deleted array is found by checking `NoDanglingRecord` alone on the same cfg.
* `SetValueAtomic` = `ValueMatchesLastWrite /\ ReadSeesWrittenValue`: `setValue` empties the value first.
  - TLC reports a four-state trace: `setValue` of one byte is called, clears `m_attr_len`, and a GATT read then sends the empty value. The empty value is neither the old value nor the one being stored, so the replacement is not atomic for readers.
  - Checking `ValueMatchesLastWrite` alone on the same cfg gives a four-state trace: a `setValue` of 4 bytes (over the 3-byte maximum) fails and leaves the value empty.

**What client_conn shows.** These hold under every interleaving of the application task (connect in both modes, timeout, cancel, disconnect, discovery, self-delete), the host task and the link layer (link loss for an establishment failure or another reason, up to three termination failures, and the host reset that follows):
* `KnownConnectionIsLive`: while the client believes it is connected, the link layer holds that connection, or its DISCONNECT is on its way.
* `DiscoveryReturns`: a discovery wait with no timeout always returns.
* `TerminateCompletes`: a termination always ends with the client disconnected.
* `ImplementsConn`: every step is a step of `ClientConn` or leaves its variables unchanged.

**What the two client violations show.** Both come from the window between `taskWait` timing out (line 237) and `m_pTaskData = nullptr` (line 250). A late CONNECT is still treated as awaited, and the client may already be deleted.

The same `NoAccessToFreedMemory` covers two more paths, which TLC reaches with other self-delete settings:
- with no self-delete, a CONNECT(`EAPP`) whose handler copied `m_pTaskData` before `connect()` returned releases a popped frame;
- with `deleteOnDisconnect`, a link loss during the MTU wait deletes the client under `connect()`.

### Bounds and why they are enough

**GattServer.** The passing run uses one service, one characteristic, two connection handles, a table of two slots and two queued records (about 150,000 states).
- This reaches every case of the peer table: empty, one slot, full, the first slot freed and reused. It also reaches every path of `resetGATT`: refused with a peer, rebuilding with hidden, deleted and live services.
- The two handles are symmetric model values.
- `MaxQueued` bounds only `BLEService::start`'s queueing; `resetGATT` queues every live service at once. So `TypeOK`, whose handle range is `0 .. MaxQueued`, needs `MaxQueued` to be at least the number of services. With two services and `MaxQueued = 1`, TLC finds `TypeOK` violated: a service handle of 2. All runs keep `MaxQueued` at 2.
- The violation runs use two characteristics, or two services, where the defect needs a second object for a handle to be confused with.

**AttValue.** The runs use a 3-byte maximum, values of 0, 1, 2 and 4 bytes, and up to 4 calls per task. This covers:
- an append that fits without a realloc, one that reallocs, one that is refused for its length, and zero-length calls;
- realloc in place, moved (up to 3 blocks) and failing.

Two tasks are the code's whole concurrency.

**Client.** The instance has one connection handle, both disconnect reasons, three application calls, one service per discovery, and every `setSelfDelete` setting (about 400,000 states in under a minute). This covers:
- each ending of a blocking connect: notified, timed out before the controller answers, and timed out while it connects;
- a second connect while one is pending (`EALREADY`);
- a discovery interrupted by a link loss, with the two callbacks in either order;
- the TERM_FAILURE retries up to the host reset, which needs three failures.

The calls bound the run. With one handle, every reconnection reuses it, which is the harder case for the handler's lookup by handle. `KnownConnectionIsLive` shows that the serialised host task keeps an old connection's events from acting on the new one. The two client violations need only two or three calls.

### Fairness

* **GattServer and AttValue.** No fairness is assumed, and no liveness property is checked. The host task's handling of an event is one step: NimBLE runs a single host task that handles one event at a time.
* **Client.** `Fairness` assumes weak fairness of:
  - the host task's steps (`HostStep`): NimBLE's host task runs whenever it has an event;
  - the blocked application's return from a wait (`AppStep`): `taskWait` returns when notified or when its timeout expires;
  - the peer's end of a discovery (`DiscDone`);
  - the controller's end of a termination it was asked for (`Closing`): the link drops or the termination fails. After three failures the handler schedules a host reset, which the controller carries out.

  No application call and no connection is assumed to happen. `DiscoveryReturns` and `TerminateCompletes` are about what the client does once a wait or a termination has started. A discovery is not assumed to end while the link holds: that is the peer's doing, and it is fair only because the link may drop instead. The mutant that filters on the connection handle before the `ENOTCONN` test shows that the property depends on that order in `serviceDiscoveredCB`.

## Proofs (TLAPS)

Five modules hold the proofs. Each proves its invariants for every value of the constants that satisfies the model's `ASSUME`. Each safety theorem has the same shape:
- an inductive invariant, first checked by TLC as an invariant of a run;
- a proof of `Init => IInv`, `IInv /\ [Next]_vars => IInv'` and `IInv => P`;
- a final `PTL` step.

The step proof has one lemma per action or group of actions.

### `GattServerProofs`

The proofs assume only `ConstAssumption`:
- `MaxConn` is a positive natural number;
- `ConnIds` is finite and does not contain `NONE`;
- the other constants are typed.

They establish, for every table size and every set of handles:

* `PeerTableCorrect`: `Spec => []PeerTableMatchesConns`. The peer table holds exactly the stack's connections, with no handle in two slots.
* `ResetOnlyWhenIdleHolds`: `Spec => [][db' # db => conns' = {}]_vars`.
* `LastDisconnectRebuildsHolds`: a last disconnect with a pending change always resets the database and clears `gattsStarted`.

`PeerTableMatchesConns` is not inductive alone. The inductive invariant `IInv` adds to it:
- the types of the connection variables;
- `conns # {} => gattsStarted` and `adv => gattsStarted`. These are needed because a step that starts advertising may start the server, and `ResetOnlyWhenIdle` needs it never to be started while connected.

The lemmas:
- `FirstFreeExists` and `FirstFreeUnique`: a free slot has a least index, found by well-founded induction on Nat.
- `ClearSlotOne`: the disconnect loop frees exactly the slot of the handle.
- `FullTable`: by pigeonhole, a table with fewer connections than slots has a free slot (FiniteSetTheorems).

### `ClientProofs`: the connection handle

* `ConnHandleTracksLink`: `Spec => []KnownConnectionIsLive`, from `ClientAssumption` alone.

`KnownConnectionIsLive` is not inductive. A successful CONNECT may be queued or being handled while the client still has no handle. When it is handled, the handle must be the connection NimBLE holds. The inductive invariant therefore adds `ConnectEventsLinked`: every successful CONNECT, queued or in the host task, is for the connection NimBLE holds. This holds because the link layer takes no step until the host task has handled the event (`Ready`).

Proving this exposed a flaw in the first model. `Codes` lacked the local-termination reason `"OTHER"`, so a DISCONNECT after a termination carried a code outside the type. `"OTHER"` was added.

### `ClientTypeProofs`: `Client`'s type, and the service vector

* `ClientTypeCorrect`: `Spec => []TypeOK`.

`TypeOK` gives `svcs` its type only. The code's `getService(uuid)` appends to `m_svcVec` without clearing it, so the vector has no bound in general. On the path the model covers, the vector is bounded, and the proof shows it as part of the inductive invariant: `svcs \in 0 .. MaxSvcs`. The reason:
- `getServices(true)` empties `m_svcVec` before each discovery;
- `serviceDiscoveredCB` appends one service per peer report.

The bound therefore needs every appended service to belong to the discovery that was last cleared for. The inductive invariant is `IInv /\ TInv`, where `TInv` adds two parts to `TypeOK`. The run's mutant for `TypeOK`, `OnConnectFailZero`, writes the valid handle 0 instead of `BLE_HS_CONN_HANDLE_NONE` when a CONNECT fails.

`FramesIssued`:
- every frame index in use (`gap.disc`, `host.copy`, `m_pTaskData`, the events' frames) was handed out by an earlier call;
- `m_pTaskData` is null unless a blocking `connect` waits.

`DiscoveryInv`:
- a found service is only ever alone in `evq`, and only while a discovery runs;
- while a discovery runs:
  - the services counted so far plus the one pending are at most those the peer reported;
  - the application waits on the discovery's own frame, which is not yet notified;
  - `handleGapEvent`'s copy of `m_pTaskData` is not that frame;
  - every event for that frame is a found service.

Together these say that nothing but the discovery's last callback can wake `retrieveServices`. `handleGapEvent`'s stale copy of `m_pTaskData` in particular cannot. So the application cannot start a new discovery, clearing `m_svcVec`, while a service of the old one is still queued.

### `ClientConnProofs`: `Client` implements `ClientConn`

* `ClientImplementsConn`: `Spec => ImplementsConn`, from `ClientAssumption` alone.
* `ConnSpecSafe`: `Conn!ConnSpec => []Conn!ConnSafe`. In the abstract spec, a handle is never that of a connection other than the one NimBLE holds, and a deleted client holds no handle. `ConnSafe` is inductive there.
* `ClientConnSafe`: `Spec => []Conn!ConnSafe`, from the two theorems above by `PTL`.

The proof follows the usual shape of a refinement proof:
- `Init => RInv` and `RInv /\ [Next]_vars => RInv'`;
- `Init => Conn!ConnInit` and `RInv /\ [Next]_vars => [Conn!ConnNext]_Conn!connVars`;
- a final `PTL` step.

The step lemmas have one lemma per group of actions: application steps, link steps, the host task's begin, CONNECT, DISCONNECT, and the rest.

`RInv` is `IInv` (from `ClientProofs`) and four conjuncts. TLC checked it first as an invariant, on two handles with every self-delete setting. Each conjunct discharges one abstract guard:
- `FreedHoldsNoHandle`: a deleted client holds no handle. So a handler that runs on a deleted client, which changes no mapped variable, keeps `ConnSafe`, and every delete is an abstract `Delete`.
- `AttemptHoldsNoHandle`: while NimBLE connects or cancels, `m_connHandle` is `NONE`. `LinkUp` needs it.
- `DisconnectsUnlinked`: while a DISCONNECT is queued or being handled, NimBLE holds no link. So clearing the handle is `Forget`, whose guard is `link = NONE`.
- `LinkHasHandle`: a held link has a handle in `Handles`. So `ConnLink` is never `NONE` while linked.

The CONNECT case uses `IInv`'s `ConnectEventsLinked`: the handle adopted is that of the live link.

### `AttValueProofs`: `BLEAttValue`

`AttAssumption` gives `HardMax`, `MaxLenArg` and `InitLen` the range of the `uint16_t` parameters (`0 .. U16Max`). The proofs show:

* `TypeCorrect`: `Spec => []TypeOK`, for any number of writers and with allocation failures. `TypeOK` includes `len` and `cap` within `uint16_t`. Its inductive invariant `TypeInv` adds that a commit's `new_len` fits `BLE_ATT_ATTR_MAX_LEN` and that its `res` is a block.
`NoOverflow` is not proved. It holds only with one writer and a `realloc` that never fails:
- the `att_allocfail` run shows the overflow after a failed `realloc`;
- with two writers, another `setValue` may change `m_attr_len` between the capacity check and the commit's `memcpy`.

A theorem under both hypotheses would state what `att_sequential` already checks, for a case the code does not guarantee. For the same reason the value properties are left to the `att_setvalue` counterexample.

The large `uint16_t` range is the named constant `U16Max`, kept opaque in the proofs.

### What stays with TLC, and why

- **Liveness** (`DiscoveryReturns`, `TerminateCompletes`). These need fairness and `ENABLED`, which the provers do not handle. `ImplementsConn` is a safety property with no fairness, so it is proved.
- **`GattServer`'s `TypeOK` and the invariants over the tree.** The tree is edited with `SelectSeq`: `Remove` in the two remove calls, and the filters of `Compile` and `resetGATT`. tlapm passes `SelectSeq` to its backends as an uninterpreted builtin, so not even `SelectSeq(s, T) \in Seq(S)` can be proved. A filter of our own would be a recursive function. Its defining equation needs `NatInductiveDef`, whose operator parameter the provers cannot instantiate (nor can they instantiate `NatInduction`'s).
- **The properties of the violation runs.** They are false by design; each finding is a TLC counterexample.

## Not modelled, and why

* **Descriptors** (`BLEDescriptor`, `BLE2901`). They follow the same removed-flag protocol one level down. They are planned as an extension of `GattServer`.
* **The rest of the GATT client.** `Client` leaves out:
  - `secureConnection`;
  - connection-parameter, PHY, passkey and notification events;
  - the remote attribute classes (`BLERemoteService`, `BLERemoteCharacteristic` and `BLERemoteDescriptor`: their discovery, read and write).

  The remote classes use the same `BLETaskData` wait as `retrieveServices`, with a timeout, so they share the timeout race `client_freed_memory` shows. They would be a second instance of the same frame model.
* **`BLEDevice`** init, deinit and `deleteClient`. Their bodies are not under `src/`. `deleteClient`, the host reset and sync are taken from the spec as they affect the client. A host reset would also clear the server's stack database under the tree.
* **Long reads.** The `om_pkthdr_len` test and the chunked `onRead` are left out.
* **Notify and indicate sending**, and the server's MTU, PHY, connection-parameter and security calls.
* **The purge of characteristics marked DELETE.** `resetGATT` never frees them (a leak). This is listed as a hazard, but no run checks it yet.
* **Less common paths:** a failed connection (`status != 0`), and `ble_gatts_start` failing.
* **Pure conversions and formatting:** advertisement payloads, UUID, address, beacon and HID helpers. They have no concurrent state.

## Plan for later work

1. Split `resetGATT` into steps against concurrent application calls (the unlocked tree).
2. Add descriptors, and `sendValue` with `NOTIFY_TX`.
3. Extend `Client` with the remote characteristic read and write (their timeout), and `secureConnection`.
4. Compose the host reset with `GattServer`: one reset drops the client's link and clears the server's database.
5. Model `BLEAttValue` move and deep copy.
6. Extend `ClientConn` with the connect call's result, and prove that `connect()` returns true only with a live handle. This fails today; see `client_connect_false`.
