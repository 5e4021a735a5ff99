------------------------------- MODULE Client -------------------------------
(***************************************************************************)
(* BLEClient (NimBLEClient.cpp): connect, disconnect, service discovery,   *)
(* self-delete and the client's GAP event handler.                         *)
(*                                                                         *)
(* Three actors share one client object:                                   *)
(*  - the application task, blocked in connect() or retrieveServices() on  *)
(*    a BLETaskData that lives in its stack frame;                         *)
(*  - the NimBLE host task, which runs handleGapEvent and                  *)
(*    serviceDiscoveredCB for one controller event at a time: it updates  *)
(*    NimBLE's view of the link (gap) and then makes the callbacks in evq; *)
(*  - the controller and the peer, which establish, fail and drop the     *)
(*    connection and answer the MTU exchange and the discovery.            *)
(* handleGapEvent first copies m_pTaskData ("in case client is deleted")   *)
(* and uses the copy at its end, so it is two steps: HostBegin, then the handler.   *)
(***************************************************************************)
EXTENDS Naturals, Sequences

CONSTANTS
    Handles,    \* connection handles the link layer may assign
    NONE,       \* BLE_HS_CONN_HANDLE_NONE
    Reasons,    \* disconnect reasons the link layer may report
    MaxCalls,   \* bound on the application's blocking and async calls
    MaxSvcs,    \* bound on the services one discovery reports
    SelfDeletes \* the setSelfDelete arguments the application uses

ASSUME ClientAssumption ==
    /\ NONE \notin Handles
    /\ Reasons \subseteq {"ESTAB", "OTHER"}
    /\ MaxCalls \in Nat /\ MaxSvcs \in Nat
    /\ SelfDeletes \subseteq BOOLEAN \X BOOLEAN

VARIABLES
    client,      \* the BLEClient object: "alive" or "freed" (deleteClient)
    connHandle,  \* m_connHandle
    config,      \* m_config: asyncConnect, exchangeMTU, the two self-deletes
    pTaskData,   \* m_pTaskData: a frame of the application, or 0 (nullptr)
    frame,       \* the BLETaskData objects on the application's stack
    termFails,   \* m_terminateFailCount
    synced,      \* BLEDevice::m_synced
    svcs,        \* m_svcVec, as its length
    app,         \* the application task: where it is, and its frame
    result,      \* what the last connect() returned
    host,        \* the host task inside handleGapEvent: the event, the copy
    gap,         \* NimBLE's view of the connection and its GATT procedures
    evq,         \* callbacks the host task has still to make for the event
    calls,       \* number of application calls made (frames used)
    faults       \* accesses to a deleted client or a popped frame

vars == <<client, connHandle, config, pTaskData, frame, termFails, synced,
          svcs, app, result, host, gap, evq, calls, faults>>

Frames == 1..MaxCalls
Codes == {"OK", "ETIMEOUT", "EAPP", "EFAIL", "ENOTCONN", "EDONE", "RESET",
          "ESTAB", "OTHER"}
Ev(t, h, st, f) == [t |-> t, h |-> h, st |-> st, f |-> f]
NoEvent == Ev("none", NONE, "OK", 0)
Unused == [st |-> "unused", flags |-> "OK", notified |-> FALSE]

(* The client is read or written: a fault if it has been deleted.          *)
Touch == IF client = "freed" THEN {"client_uaf"} ELSE {}

(* BLEUtils::taskRelease: store the code in the waiter's BLETaskData and   *)
(* wake its task. The frame may already have been popped.                  *)
Released(fr, f, rc) ==
    IF f = 0 THEN fr ELSE [fr EXCEPT ![f].flags = rc, ![f].notified = TRUE]
Stale(f) == IF f # 0 /\ frame[f].st = "popped" THEN {"stale_frame"} ELSE {}

(* ble_gap_terminate(h): the link layer starts closing that connection.    *)
Terminate(g, h) ==
    IF g.st = "conn" /\ g.h = h THEN [g EXCEPT !.st = "closing"] ELSE g

(* NimBLE holds a connection (being closed, or waiting for a host reset).  *)
Linked == gap.st \in {"conn", "closing", "reset"}

(* ble_gap_conn_cancel: asks the controller to cancel an attempt; it      *)
(* answers with a CONNECT failure, unless the connection was made first.   *)
Cancel(g) == IF g.st = "connecting" THEN [g EXCEPT !.st = "cancelling"] ELSE g

Init ==
    /\ client = "alive"
    /\ connHandle = NONE
    /\ config = [async |-> FALSE, mtu |-> FALSE, delDisc |-> FALSE,
                 delFail |-> FALSE]
    /\ pTaskData = 0
    /\ frame = [f \in Frames |-> Unused]
    /\ termFails = 0
    /\ synced = TRUE
    /\ svcs = 0
    /\ app = [pc |-> "idle", f |-> 0]
    /\ result = "none"
    /\ host = [pc |-> "idle", ev |-> NoEvent, copy |-> 0]
    /\ gap = [st |-> "idle", h |-> NONE, mtu |-> FALSE, disc |-> 0, found |-> 0]
    /\ evq = <<>>
    /\ calls = 0
    /\ faults = {}

(* An application call starts only on a live client, from an idle task.    *)
AppReady == client = "alive" /\ app.pc = "idle" /\ calls < MaxCalls

(* BLEDevice::deleteClient: a connected client is marked deleteOnDisconnect *)
(* and disconnected; any other is deleted at once.                         *)
DeleteClient ==
    IF connHandle # NONE
    THEN /\ config' = [config EXCEPT !.delDisc = TRUE]
         /\ gap' = Terminate(gap, connHandle)
         /\ UNCHANGED client
    ELSE /\ client' = "freed"
         /\ UNCHANGED <<config, gap>>

(* setSelfDelete(deleteOnDisconnect, deleteOnConnectFail).                 *)
SetSelfDelete(dd, df) ==
    /\ client = "alive" /\ app.pc = "idle"
    /\ config' = [config EXCEPT !.delDisc = dd, !.delFail = df]
    /\ UNCHANGED <<client, connHandle, pTaskData, frame, termFails, synced,
                   svcs, app, result, host, gap, evq, calls, faults>>

(* connect(address, deleteAttributes, asyncConnect, exchangeMTU): the      *)
(* early returns, deleteServices, ble_gap_connect, and for a blocking      *)
(* connect the BLETaskData published in m_pTaskData before taskWait.       *)
ConnectRefused ==
    \/ ~synced
    \/ connHandle # NONE
    \/ Linked   \* ble_gap_conn_find_by_addr finds a connection

\* connect's lines 191-192: m_config.asyncConnect, m_config.exchangeMTU.
ConnectConfig(async, mtu) == [config EXCEPT !.async = async, !.mtu = mtu]

Connect(async, mtu) ==
    /\ AppReady
    /\ calls' = calls + 1
    /\ IF ConnectRefused
       THEN /\ result' = "refused"
            /\ UNCHANGED <<config, pTaskData, frame, svcs, app, gap>>
       ELSE /\ svcs' = 0
            /\ config' = ConnectConfig(async, mtu)
            /\ IF gap.st \in {"connecting", "cancelling"}   \* BLE_HS_EALREADY
               THEN /\ result' = "busy"
                    /\ UNCHANGED <<pTaskData, frame, app, gap>>
               ELSE /\ gap' = [gap EXCEPT !.st = "connecting"]
                    /\ IF async
                       THEN /\ result' = "true"
                            /\ UNCHANGED <<pTaskData, frame, app>>
                       ELSE /\ pTaskData' = calls + 1
                            /\ frame' = [frame EXCEPT ![calls + 1] =
                                           [st |-> "live", flags |-> "OK",
                                            notified |-> FALSE]]
                            /\ app' = [pc |-> "connWait", f |-> calls + 1]
                            /\ UNCHANGED result
    /\ UNCHANGED <<client, connHandle, termFails, synced, host, evq, faults>>

(* taskWait returns true: a handler released the frame.                    *)
ConnectWake ==
    /\ app.pc = "connWait" /\ frame[app.f].notified
    /\ app' = [app EXCEPT !.pc = "connPost"]
    /\ UNCHANGED <<client, connHandle, config, pTaskData, frame, termFails,
                   synced, svcs, result, host, gap, evq, calls, faults>>

(* taskWait times out: proceed if connected, else cancel the attempt.      *)
ConnectTimeout ==
    /\ app.pc = "connWait" /\ ~frame[app.f].notified
    /\ app' = [app EXCEPT !.pc = "connPost"]
    /\ faults' = faults \cup Touch
    /\ IF connHandle # NONE
       THEN /\ frame' = [frame EXCEPT ![app.f].flags = "OK"]
            /\ UNCHANGED <<gap, evq>>
       ELSE /\ frame' = [frame EXCEPT ![app.f].flags = "ETIMEOUT"]
            /\ gap' = Cancel(gap)
    /\ UNCHANGED <<client, connHandle, config, pTaskData, termFails, synced,
                   svcs, result, host, evq, calls>>

(* After the wait: clear m_pTaskData, read the code, pop the frame; on a   *)
(* failure delete the client if deleteOnConnectFail, else return whether  *)
(* the client is connected.                                                *)
ConnectPost ==
    LET rc == frame[app.f].flags IN
    /\ app.pc = "connPost"
    /\ pTaskData' = 0
    /\ frame' = [frame EXCEPT ![app.f].st = "popped"]
    /\ app' = [pc |-> "idle", f |-> 0]
    /\ faults' = faults \cup Touch
    /\ IF rc # "OK"
       THEN /\ result' = "false"
            /\ IF config.delFail THEN DeleteClient
               ELSE UNCHANGED <<client, config, gap>>
       ELSE /\ result' = IF connHandle # NONE THEN "true" ELSE "false"
            /\ UNCHANGED <<client, config, gap>>
    /\ UNCHANGED <<connHandle, termFails, synced, svcs, host, evq, calls>>

(* disconnect(): ble_gap_terminate(m_connHandle).                          *)
Disconnect ==
    /\ AppReady
    /\ gap' = Terminate(gap, connHandle)
    /\ UNCHANGED <<client, connHandle, config, pTaskData, frame, termFails,
                   synced, svcs, app, result, host, evq, calls, faults>>

(* cancelConnect(): ble_gap_conn_cancel().                                 *)
CancelConnect ==
    /\ AppReady
    /\ gap' = Cancel(gap)
    /\ UNCHANGED <<client, connHandle, config, pTaskData, frame, termFails,
                   synced, svcs, app, result, host, evq, calls, faults>>

(* getServices(true): deleteServices, then retrieveServices: refused when  *)
(* not connected or when ble_gattc_disc_all_svcs fails, else it waits on   *)
(* a BLETaskData of its own, with no timeout, for serviceDiscoveredCB.     *)
Discover ==
    /\ AppReady
    /\ calls' = calls + 1
    /\ svcs' = 0
    /\ IF connHandle # NONE /\ Linked /\ gap.h = connHandle
       THEN /\ frame' = [frame EXCEPT ![calls + 1] =
                           [st |-> "live", flags |-> "OK", notified |-> FALSE]]
            /\ gap' = [gap EXCEPT !.disc = calls + 1, !.found = 0]
            /\ app' = [pc |-> "discWait", f |-> calls + 1]
       ELSE UNCHANGED <<frame, gap, app>>
    /\ UNCHANGED <<client, connHandle, config, pTaskData, termFails, synced,
                   result, host, evq, faults>>

(* taskWait returns; on a code other than 0 or EDONE, m_lastErr is set.    *)
DiscoverWake ==
    LET rc == frame[app.f].flags IN
    /\ app.pc = "discWait" /\ frame[app.f].notified
    /\ frame' = [frame EXCEPT ![app.f].st = "popped"]
    /\ app' = [pc |-> "idle", f |-> 0]
    /\ faults' = faults \cup (IF rc \in {"OK", "EDONE"} THEN {} ELSE Touch)
    /\ UNCHANGED <<client, connHandle, config, pTaskData, termFails, synced,
                   svcs, result, host, gap, evq, calls>>

(***************************************************************************)
(* The link layer (NimBLE's GAP and GATT client procedures).               *)
(***************************************************************************)
Gone == [st |-> "idle", h |-> NONE, mtu |-> FALSE, disc |-> 0, found |-> 0]
(* The host task takes the next controller event once it has made every  *)
(* callback of the last one.                                               *)
Ready == host.pc = "idle" /\ evq = <<>>

(* A broken connection fails the pending discovery with ENOTCONN and is    *)
(* reported by DISCONNECT; the order of the two is left open.              *)
LossEvents(g, r) ==
    LET d == IF g.disc # 0 THEN <<Ev("disc", g.h, "ENOTCONN", g.disc)>>
             ELSE <<>>
        x == <<Ev("disconnect", g.h, r, 0)>>
    IN  {d \o x, x \o d}

LinkOnly == <<client, connHandle, config, pTaskData, frame, termFails, synced,
              svcs, app, result, host, calls, faults>>

Establish(h) ==
    /\ gap.st \in {"connecting", "cancelling"} /\ Ready
    /\ gap' = [Gone EXCEPT !.st = "conn", !.h = h]
    /\ evq' = <<Ev("connect", h, "OK", 0)>>
    /\ UNCHANGED LinkOnly

EstablishFail ==
    /\ gap.st = "connecting" /\ Ready
    /\ gap' = Gone
    /\ evq' = <<Ev("connect", NONE, "EFAIL", 0)>>
    /\ UNCHANGED LinkOnly

CancelDone ==
    /\ gap.st = "cancelling" /\ Ready
    /\ gap' = Gone
    /\ evq' = <<Ev("connect", NONE, "EAPP", 0)>>
    /\ UNCHANGED LinkOnly

(* The connection drops; one being terminated drops for a local reason,    *)
(* and a host reset drops it with BLE_HS_ECONTROLLER.                      *)
LossReason(r) ==
    CASE gap.st = "closing" -> "OTHER"
      [] gap.st = "reset"   -> "RESET"
      [] OTHER              -> r

LinkLoss(r) ==
    /\ Linked /\ Ready
    /\ gap' = Gone
    /\ \E es \in LossEvents(gap, LossReason(r)) : evq' = es
    /\ UNCHANGED LinkOnly

(* The termination fails: the connection stays up.                         *)
TermFail ==
    /\ gap.st = "closing" /\ Ready
    /\ gap' = [gap EXCEPT !.st = "conn"]
    /\ evq' = <<Ev("term_failure", gap.h, "EFAIL", 0)>>
    /\ UNCHANGED LinkOnly

MtuDone ==
    /\ Linked /\ gap.mtu /\ Ready
    /\ gap' = [gap EXCEPT !.mtu = FALSE]
    /\ evq' = <<Ev("mtu", gap.h, "OK", 0)>>
    /\ UNCHANGED LinkOnly

DiscFound ==
    /\ Linked /\ gap.disc # 0 /\ gap.found < MaxSvcs /\ Ready
    /\ gap' = [gap EXCEPT !.found = @ + 1]
    /\ evq' = <<Ev("disc", gap.h, "OK", gap.disc)>>
    /\ UNCHANGED LinkOnly

DiscDone ==
    /\ Linked /\ gap.disc # 0 /\ Ready
    /\ gap' = [gap EXCEPT !.disc = 0]
    /\ evq' = <<Ev("disc", gap.h, "EDONE", gap.disc)>>
    /\ UNCHANGED LinkOnly

(* The host re-synchronises after a reset (BLEDevice::onSync).             *)
Sync ==
    /\ ~synced
    /\ synced' = TRUE
    /\ UNCHANGED <<client, connHandle, config, pTaskData, frame, termFails,
                   svcs, app, result, host, gap, evq, calls, faults>>

(***************************************************************************)
(* The host task: handleGapEvent and serviceDiscoveredCB.                  *)
(***************************************************************************)
Idle == [pc |-> "idle", ev |-> NoEvent, copy |-> 0]

(* taskRelease(pTaskData, rc) at the end of handleGapEvent.                *)
Release(f, rc) ==
    /\ frame' = Released(frame, f, rc)
    /\ faults' = faults \cup Stale(f)

(* handleGapEvent's first line: pTaskData = pClient->m_pTaskData.          *)
HostBegin ==
    /\ host.pc = "idle" /\ evq # <<>> /\ Head(evq).t # "disc"
    /\ host' = [pc |-> "busy", ev |-> Head(evq), copy |-> pTaskData]
    /\ evq' = Tail(evq)
    /\ faults' = faults \cup Touch
    /\ UNCHANGED <<client, connHandle, config, pTaskData, frame, termFails,
                   synced, svcs, app, result, gap, calls>>

(* The rest of the handler runs on a deleted client.                       *)
HostFreed ==
    /\ host.pc = "busy" /\ client = "freed"
    /\ host' = Idle
    /\ faults' = faults \cup {"client_uaf"}
    /\ UNCHANGED <<client, connHandle, config, pTaskData, frame, termFails,
                   synced, svcs, app, result, gap, evq, calls>>

Handling(t) == host.pc = "busy" /\ host.ev.t = t /\ client = "alive"

(* Mutant: the failed-CONNECT branch writes 0, a valid connection handle, *)
(* instead of BLE_HS_CONN_HANDLE_NONE.                                     *)
OnConnectFailZero ==
    LET e == host.ev
        c == host.copy IN
    /\ Handling("connect")
    /\ host' = Idle
    /\ IF connHandle # NONE \/ (~config.async /\ pTaskData = 0)
       THEN /\ gap' = Terminate(gap, e.h)
            /\ UNCHANGED <<client, connHandle, frame, faults>>
       ELSE IF e.st = "OK"
       THEN /\ connHandle' = e.h
            /\ UNCHANGED client
            /\ IF config.mtu /\ Linked /\ gap.h = e.h
               THEN /\ gap' = [gap EXCEPT !.mtu = TRUE]
                    /\ UNCHANGED <<frame, faults>>
               ELSE /\ Release(c, IF config.mtu THEN "ENOTCONN" ELSE "OK")
                    /\ UNCHANGED gap
       ELSE /\ connHandle' = 0
            /\ client' = IF config.async /\ config.delFail THEN "freed"
                         ELSE client
            /\ Release(c, e.st)
            /\ UNCHANGED gap
    /\ UNCHANGED <<config, pTaskData, termFails, synced, svcs, app, result,
                   evq, calls>>

(* BLE_GAP_EVENT_CONNECT: drop a connection nobody waits for; on success   *)
(* take the handle and start the MTU exchange (the waiter is released by   *)
(* the MTU event), else release with the status; an async failure may     *)
(* delete the client.                                                      *)
OnConnect ==
    LET e == host.ev
        c == host.copy IN
    /\ Handling("connect")
    /\ host' = Idle
    /\ IF connHandle # NONE \/ (~config.async /\ pTaskData = 0)
       THEN /\ gap' = Terminate(gap, e.h)
            /\ UNCHANGED <<client, connHandle, frame, faults>>
       ELSE IF e.st = "OK"
       THEN /\ connHandle' = e.h
            /\ UNCHANGED client
            /\ IF config.mtu /\ Linked /\ gap.h = e.h
               THEN /\ gap' = [gap EXCEPT !.mtu = TRUE]
                    /\ UNCHANGED <<frame, faults>>
               ELSE /\ Release(c, IF config.mtu THEN "ENOTCONN" ELSE "OK")
                    /\ UNCHANGED gap
       ELSE /\ connHandle' = NONE
            /\ client' = IF config.async /\ config.delFail THEN "freed"
                         ELSE client
            /\ Release(c, e.st)
            /\ UNCHANGED gap
    /\ UNCHANGED <<config, pTaskData, termFails, synced, svcs, app, result,
                   evq, calls>>
(* Mutant: the DISCONNECT handler forgets m_connHandle = NONE.             *)
OnDisconnectKeepsHandle ==
    LET e == host.ev
        c == host.copy IN
    /\ Handling("disconnect")
    /\ host' = Idle
    /\ IF connHandle # e.h
       THEN UNCHANGED <<client, config, frame, termFails, synced, faults>>
       ELSE /\ synced' = (synced /\ e.st # "RESET")
            /\ termFails' = 0
            /\ IF config.delDisc /\ c # 0 /\ e.st = "ESTAB"
               THEN /\ config' = [config EXCEPT !.delFail = TRUE]
                    /\ UNCHANGED client
               ELSE /\ client' = IF config.delDisc THEN "freed" ELSE client
                    /\ UNCHANGED config
            /\ Release(c, e.st)
    /\ UNCHANGED <<connHandle, pTaskData, svcs, app, result, gap, evq, calls>>

(* Mutant: deleteOnDisconnect deletes the client before m_connHandle is    *)
(* cleared, so a deleted client keeps its handle.                          *)
OnDisconnectDeleteFirst ==
    LET e == host.ev
        c == host.copy IN
    /\ Handling("disconnect")
    /\ host' = Idle
    /\ IF connHandle # e.h
       THEN UNCHANGED <<client, connHandle, config, frame, termFails, synced,
                        faults>>
       ELSE /\ synced' = (synced /\ e.st # "RESET")
            /\ termFails' = 0
            /\ IF config.delDisc /\ c # 0 /\ e.st = "ESTAB"
               THEN /\ config' = [config EXCEPT !.delFail = TRUE]
                    /\ connHandle' = NONE
                    /\ UNCHANGED client
               ELSE /\ client' = IF config.delDisc THEN "freed" ELSE client
                    /\ connHandle' = IF config.delDisc THEN connHandle ELSE NONE
                    /\ UNCHANGED config
            /\ Release(c, e.st)
    /\ UNCHANGED <<pTaskData, svcs, app, result, gap, evq, calls>>


(* BLE_GAP_EVENT_DISCONNECT: the client is looked up by handle; a host     *)
(* reset clears m_synced; the handle is cleared; deleteOnDisconnect        *)
(* deletes the client, unless a connect waits and the connection failed to *)
(* be established, in which case deleteOnConnectFail is set instead.       *)
OnDisconnect ==
    LET e == host.ev
        c == host.copy IN
    /\ Handling("disconnect")
    /\ host' = Idle
    /\ IF connHandle # e.h
       THEN UNCHANGED <<client, connHandle, config, frame, termFails, synced,
                        faults>>
       ELSE /\ synced' = (synced /\ e.st # "RESET")
            /\ termFails' = 0
            /\ connHandle' = NONE
            /\ IF config.delDisc /\ c # 0 /\ e.st = "ESTAB"
               THEN /\ config' = [config EXCEPT !.delFail = TRUE]
                    /\ UNCHANGED client
               ELSE /\ client' = IF config.delDisc THEN "freed" ELSE client
                    /\ UNCHANGED config
            /\ Release(c, e.st)
    /\ UNCHANGED <<pTaskData, svcs, app, result, gap, evq, calls>>

(* BLE_GAP_EVENT_MTU: releases the waiter of a blocking connect.           *)
OnMtu ==
    /\ Handling("mtu")
    /\ host' = Idle
    /\ IF connHandle # host.ev.h
       THEN UNCHANGED <<frame, faults>>
       ELSE Release(host.copy, "OK")
    /\ UNCHANGED <<client, connHandle, config, pTaskData, termFails, synced,
                   svcs, app, result, gap, evq, calls>>
(* Mutant: the retry counter is never incremented.                         *)
OnTermFailureNoCount ==
    LET e == host.ev IN
    /\ Handling("term_failure")
    /\ host' = Idle
    /\ IF connHandle # e.h
       THEN UNCHANGED gap
       ELSE gap' = IF termFails > 2
                   THEN [gap EXCEPT !.st = IF Linked THEN "reset" ELSE @]
                   ELSE Terminate(gap, e.h)
    /\ UNCHANGED <<client, connHandle, config, pTaskData, frame, termFails,
                   synced, svcs, app, result, evq, calls, faults>>


(* BLE_GAP_EVENT_TERM_FAILURE: retry the termination, and after the third  *)
(* failure reset the host (ble_hs_sched_reset), which drops the link.      *)
OnTermFailure ==
    LET e == host.ev IN
    /\ Handling("term_failure")
    /\ host' = Idle
    /\ IF connHandle # e.h
       THEN UNCHANGED <<termFails, gap>>
       ELSE /\ termFails' = termFails + 1
            /\ gap' = IF termFails + 1 > 2
                       THEN [gap EXCEPT !.st = IF Linked THEN "reset" ELSE @]
                       ELSE Terminate(gap, e.h)
    /\ UNCHANGED <<client, connHandle, config, pTaskData, frame, synced, svcs,
                   app, result, evq, calls, faults>>
(* Mutant: the connection-handle filter runs before the ENOTCONN test.     *)
DiscoveredCBHandleFirst ==
    LET e == Head(evq)
        f == e.f IN
    /\ host.pc = "idle" /\ evq # <<>> /\ e.t = "disc"
    /\ evq' = Tail(evq)
    /\ IF connHandle # e.h
       THEN /\ faults' = faults \cup Stale(f) \cup Touch
            /\ UNCHANGED <<frame, svcs>>
       ELSE IF e.st = "OK"
       THEN /\ svcs' = svcs + 1
            /\ faults' = faults \cup Stale(f) \cup Touch
            /\ UNCHANGED frame
       ELSE /\ frame' = Released(frame, f, e.st)
            /\ faults' = faults \cup Stale(f) \cup Touch
            /\ UNCHANGED svcs
    /\ UNCHANGED <<client, connHandle, config, pTaskData, termFails, synced,
                   app, result, host, gap, calls>>


(* serviceDiscoveredCB(connHandle, error, service, arg = &taskData).       *)
DiscoveredCB ==
    LET e == Head(evq)
        f == e.f IN
    /\ host.pc = "idle" /\ evq # <<>> /\ e.t = "disc"
    /\ evq' = Tail(evq)
    /\ IF e.st = "ENOTCONN"
       THEN /\ frame' = Released(frame, f, e.st)
            /\ faults' = faults \cup Stale(f)
            /\ UNCHANGED svcs
       ELSE IF connHandle # e.h
       THEN /\ faults' = faults \cup Stale(f) \cup Touch
            /\ UNCHANGED <<frame, svcs>>
       ELSE IF e.st = "OK"
       THEN /\ svcs' = svcs + 1
            /\ faults' = faults \cup Stale(f) \cup Touch
            /\ UNCHANGED frame
       ELSE /\ frame' = Released(frame, f, e.st)
            /\ faults' = faults \cup Stale(f) \cup Touch
            /\ UNCHANGED svcs
    /\ UNCHANGED <<client, connHandle, config, pTaskData, termFails, synced,
                   app, result, host, gap, calls>>

(***************************************************************************)
(* The specification.                                                      *)
(***************************************************************************)
AppStep == ConnectWake \/ ConnectTimeout \/ ConnectPost \/ DiscoverWake
HostStep == HostBegin \/ HostFreed \/ OnConnect \/ OnDisconnect \/ OnMtu
            \/ OnTermFailure \/ DiscoveredCB
(* The link layer ends a termination it was asked for, one way or another. *)
Closing == gap.st \in {"closing", "reset"}
           /\ (TermFail \/ \E r \in Reasons : LinkLoss(r))

Next ==
    \/ \E d \in SelfDeletes : SetSelfDelete(d[1], d[2])
    \/ \E async, mtu \in BOOLEAN : Connect(async, mtu)
    \/ Disconnect \/ CancelConnect \/ Discover
    \/ AppStep
    \/ \E h \in Handles : Establish(h)
    \/ EstablishFail \/ CancelDone \/ \E r \in Reasons : LinkLoss(r)
    \/ TermFail \/ MtuDone \/ DiscFound \/ DiscDone \/ Sync
    \/ HostStep

(* The host task handles every event (NimBLE's host task is never starved *)
(* of its queue); a blocked application task wakes when notified or when  *)
(* its timeout expires; the peer ends a discovery, and the controller     *)
(* ends a termination. No application call is assumed to happen.           *)
Fairness ==
    /\ WF_vars(HostStep)
    /\ WF_vars(AppStep)
    /\ WF_vars(DiscDone)
    /\ WF_vars(Closing)

Spec == Init /\ [][Next]_vars /\ Fairness

(***************************************************************************)
(* Properties.                                                             *)
(***************************************************************************)
TypeOK ==
    /\ client \in {"alive", "freed"}
    /\ connHandle \in Handles \cup {NONE}
    /\ config \in [async : BOOLEAN, mtu : BOOLEAN, delDisc : BOOLEAN,
                   delFail : BOOLEAN]
    /\ pTaskData \in Frames \cup {0}
    /\ frame \in [Frames -> [st : {"unused", "live", "popped"}, flags : Codes,
                             notified : BOOLEAN]]
    /\ termFails \in Nat
    /\ synced \in BOOLEAN
    /\ svcs \in Nat
    /\ app \in [pc : {"idle", "connWait", "connPost", "discWait"},
                f : Frames \cup {0}]
    /\ result \in {"none", "refused", "busy", "true", "false"}
    /\ host.pc \in {"idle", "busy"} /\ host.copy \in Frames \cup {0}
    /\ gap.st \in {"idle", "connecting", "cancelling", "conn", "closing",
                   "reset"}
    /\ gap.h \in Handles \cup {NONE}
    /\ calls \in 0..MaxCalls
    /\ faults \subseteq {"client_uaf", "stale_frame"}

DisconnectPending(h) ==
    \/ \E i \in 1..Len(evq) : evq[i].t = "disconnect" /\ evq[i].h = h
    \/ host.pc = "busy" /\ host.ev.t = "disconnect" /\ host.ev.h = h

(* The handler keeps m_connHandle true to the link: while the client       *)
(* believes it is connected, the link layer holds that connection or its  *)
(* DISCONNECT is still on its way to handleGapEvent.                       *)
KnownConnectionIsLive ==
    client = "alive" /\ connHandle # NONE =>
        \/ Linked /\ gap.h = connHandle
        \/ DisconnectPending(connHandle)

(* connect() that returns false leaves the client unconnected (the spec:   *)
(* on a timeout the waiter is released with an error and the attempt is   *)
(* cancelled).                                                             *)
ConnectFailureLeavesNoConnection ==
    client = "alive" /\ app.pc = "idle" /\ result = "false" =>
        connHandle = NONE

(* Neither task touches a deleted BLEClient, and no taskRelease writes    *)
(* into a BLETaskData whose stack frame has returned.                      *)
NoAccessToFreedMemory == faults = {}

(* retrieveServices waits without a timeout: it must still return, as the *)
(* peer ends the discovery or the broken link fails it with ENOTCONN.      *)
DiscoveryReturns == app.pc = "discWait" ~> app.pc = "idle"

(* A termination of the client's connection ends with the client          *)
(* disconnected, however often the controller reports TERM_FAILURE (the    *)
(* handler retries twice, then resets the host).                           *)
TerminateCompletes ==
    (gap.st = "closing" /\ connHandle = gap.h /\ client = "alive")
        ~> (connHandle = NONE \/ client = "freed")


(***************************************************************************)
(* Refinement: Client implements ClientConn, with NimBLE's connection the  *)
(* handle of a gap that holds one.                                         *)
(***************************************************************************)
ConnLink == IF Linked THEN gap.h ELSE NONE

Conn == INSTANCE ClientConn
            WITH handle <- connHandle, link <- ConnLink,
                 alive <- (client = "alive")

(* Every step of the client, its handlers and the link layer is a step of  *)
(* ClientConn or leaves the handle, the connection and the object alone:   *)
(* handleGapEvent takes only the handle of the connection NimBLE holds,     *)
(* clears it only after that connection is gone, and deleteClient,         *)
(* deleteOnConnectFail and deleteOnDisconnect free no client that holds a  *)
(* handle.                                                                 *)
ImplementsConn == Conn!ConnSpec

=============================================================================
