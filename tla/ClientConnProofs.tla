--------------------------- MODULE ClientConnProofs ---------------------------
(***************************************************************************)
(* Proof that Client implements ClientConn under the refinement mapping   *)
(* of module Client: m_connHandle is the abstract handle, the handle of a  *)
(* gap that holds a connection is the abstract link, and the object is     *)
(* alive until deleteClient frees it.  The proof is the usual one: an      *)
(* invariant RInv of Client, the initial state mapped to ConnInit, and     *)
(* every step of Client under RInv mapped to a ConnNext step or a stutter. *)
(***************************************************************************)
EXTENDS ClientProofs

USE ClientAssumption

(* deleteClient frees only a client that holds no handle, and the          *)
(* DISCONNECT handler clears the handle of a client it deletes.            *)
FreedHoldsNoHandle == client = "freed" => connHandle = NONE

(* connect() starts an attempt only while the client holds no handle, and  *)
(* the handle is taken only from a CONNECT that follows the attempt.       *)
AttemptHoldsNoHandle ==
    gap.st \in {"connecting", "cancelling"} => connHandle = NONE

(* A DISCONNECT is queued only by a link loss, and the link layer waits    *)
(* for the host task to handle it before it connects again.                *)
LossPending ==
    \/ \E i \in 1 .. Len(evq) : evq[i].t = "disconnect"
    \/ host.pc = "busy" /\ host.ev.t = "disconnect"
DisconnectsUnlinked == LossPending => ~Linked

(* A connection NimBLE holds has a handle.                                 *)
LinkHasHandle == Linked => gap.h \in Handles

(* The invariant behind the refinement.                                    *)
RInv ==
    /\ IInv
    /\ FreedHoldsNoHandle
    /\ AttemptHoldsNoHandle
    /\ DisconnectsUnlinked
    /\ LinkHasHandle


NewInv ==
    FreedHoldsNoHandle /\ AttemptHoldsNoHandle /\ DisconnectsUnlinked
    /\ LinkHasHandle

Attempting == {"connecting", "cancelling"}

LEMMA InitRInv == Init => RInv
<1> SUFFICES ASSUME Init PROVE RInv
  OBVIOUS
<1>1. IInv
  BY InitIInv
<1>. QED
  BY <1>1 DEF Init, RInv, FreedHoldsNoHandle, AttemptHoldsNoHandle,
     DisconnectsUnlinked, LossPending, LinkHasHandle, Linked

\* The initial state is ClientConn's.
LEMMA InitRefines == Init => Conn!ConnInit
BY DEF Init, Conn!ConnInit, ConnLink, Linked

\* A step that keeps the handle, the object and NimBLE's connection is a
\* stutter of ClientConn.
LEMMA Stutter ==
    ASSUME connHandle' = connHandle, client' = client, ConnLink' = ConnLink
    PROVE  [Conn!ConnNext]_Conn!connVars
BY DEF Conn!connVars

\* A step that leaves the handle, the object, the host task and the events
\* alone, keeps NimBLE's connection and its handle, and starts no attempt,
\* keeps RInv's new conjuncts and is a stutter of ClientConn.
LEMMA LinkQuiet ==
    ASSUME RInv,
           UNCHANGED <<client, connHandle, host, evq>>,
           gap' \in GapType, gap'.h = gap.h,
           gap'.st \in LinkedStates <=> gap.st \in LinkedStates,
           gap'.st \in Attempting => gap.st \in Attempting
    PROVE  NewInv' /\ [Conn!ConnNext]_Conn!connVars
<1>1. Linked' = Linked /\ ConnLink' = ConnLink
  BY DEF Linked, LinkedStates, ConnLink
<1>2. NewInv'
  BY <1>1 DEF RInv, NewInv, FreedHoldsNoHandle, AttemptHoldsNoHandle,
     DisconnectsUnlinked, LossPending, LinkHasHandle, Attempting
<1>. QED
  BY <1>1, <1>2, Stutter


\* ble_gap_terminate and ble_gap_conn_cancel start no connection attempt.
LEMMA RequestsStartNoAttempt ==
    ASSUME NEW g \in GapType, NEW h
    PROVE  /\ Terminate(g, h).st \in Attempting => g.st \in Attempting
           /\ Cancel(g).st \in Attempting => g.st \in Attempting
BY DEF Terminate, Cancel, GapType, Attempting

(***************************************************************************)
(* The application task's steps.                                           *)
(***************************************************************************)
LEMMA AppStepsRefine ==
    ASSUME RInv,
           \/ \E d \in SelfDeletes : SetSelfDelete(d[1], d[2])
           \/ \E async, mtu \in BOOLEAN : Connect(async, mtu)
           \/ Disconnect \/ CancelConnect \/ Discover
           \/ AppStep
    PROVE  NewInv' /\ [Conn!ConnNext]_Conn!connVars
<1>0. gap \in GapType /\ calls \in Nat /\ client \in {"alive", "freed"}
  BY ZenonT(20) DEF RInv, IInv, LinkTypes
<1>1. CASE \E d \in SelfDeletes : SetSelfDelete(d[1], d[2])
  BY <1>0, <1>1, LinkQuiet, ZenonT(20) DEF SetSelfDelete
<1>2. CASE \E async, mtu \in BOOLEAN : Connect(async, mtu)
  <2> PICK async \in BOOLEAN, mtu \in BOOLEAN : Connect(async, mtu)
    BY <1>2
  <2>1. CASE ConnectRefused \/ gap.st \in Attempting
    <3>1. UNCHANGED <<client, connHandle, host, evq, gap>>
      BY <2>1, ZenonT(20) DEF Connect, Attempting
    <3>. QED
      BY <1>0, <3>1, LinkQuiet, ZenonT(20)
  \* connect() starts an attempt: the client holds no handle and NimBLE no
  \* connection.
  <2>2. CASE ~ConnectRefused /\ gap.st \notin Attempting
    <3>1. ~Linked /\ connHandle = NONE
      BY <2>2, ZenonT(20) DEF ConnectRefused
    <3>2. /\ gap' = [gap EXCEPT !.st = "connecting"]
          /\ UNCHANGED <<client, connHandle, host, evq>>
      BY <2>2, ZenonT(20) DEF Connect, Attempting
    <3>3. ~Linked' /\ ConnLink' = ConnLink
      BY <1>0, <3>1, <3>2 DEF Linked, ConnLink, GapType
    <3>4. NewInv'
      BY <3>1, <3>2, <3>3 DEF RInv, NewInv, FreedHoldsNoHandle,
         AttemptHoldsNoHandle, DisconnectsUnlinked, LinkHasHandle
    <3>. QED
      BY <3>2, <3>3, <3>4, Stutter
  <2>. QED
    BY <2>1, <2>2
<1>3. CASE Disconnect
  <2>1. gap' = Terminate(gap, connHandle)
        /\ UNCHANGED <<client, connHandle, host, evq>>
    BY <1>3 DEF Disconnect
  <2>. QED
    BY <1>0, <2>1, TerminateKeepsLink, RequestsStartNoAttempt, LinkQuiet
<1>4. CASE CancelConnect
  <2>1. gap' = Cancel(gap) /\ UNCHANGED <<client, connHandle, host, evq>>
    BY <1>4 DEF CancelConnect
  <2>. QED
    BY <1>0, <2>1, CancelKeepsLink, RequestsStartNoAttempt, LinkQuiet
<1>5. CASE Discover
  <2>1. /\ gap' \in {gap, [gap EXCEPT !.disc = calls + 1, !.found = 0]}
        /\ UNCHANGED <<client, connHandle, host, evq>>
    BY <1>5 DEF Discover
  <2>2. gap' \in GapType /\ gap'.h = gap.h /\ gap'.st = gap.st
    <3>1. CASE gap' = gap
      BY <1>0, <3>1
    <3>2. CASE gap' # gap
      <4>1. gap' = [st |-> gap.st, h |-> gap.h, mtu |-> gap.mtu,
                    disc |-> calls + 1, found |-> 0]
        BY <1>0, <2>1, <3>2, Zenon DEF GapType
      <4>. QED
        BY <1>0, <4>1 DEF GapType
    <3>. QED
      BY <3>1, <3>2
  <2>. QED
    BY <1>0, <2>1, <2>2, LinkQuiet
<1>6. CASE ConnectWake \/ DiscoverWake
  <2>1. UNCHANGED <<client, connHandle, host, evq, gap>>
    BY <1>6 DEF ConnectWake, DiscoverWake
  <2>. QED
    BY <1>0, <2>1, LinkQuiet
<1>7. CASE ConnectTimeout
  <2>1. gap' \in {gap, Cancel(gap)}
        /\ UNCHANGED <<client, connHandle, host, evq>>
    BY <1>7 DEF ConnectTimeout
  <2>. QED
    BY <1>0, <2>1, CancelKeepsLink, RequestsStartNoAttempt, LinkQuiet
\* connect() returns after a failure and deleteOnConnectFail deletes the
\* client: deleteClient frees it only when it holds no handle.
<1>8. CASE ConnectPost
  <2>1. /\ gap' \in {gap, Terminate(gap, connHandle)}
        /\ UNCHANGED <<connHandle, host, evq>>
        /\ \/ client' = client
           \/ client' = "freed" /\ connHandle = NONE /\ gap' = gap
    BY <1>8 DEF ConnectPost, DeleteClient
  <2>2. CASE client' = client
    BY <1>0, <2>1, <2>2, TerminateKeepsLink, RequestsStartNoAttempt,
       LinkQuiet
  <2>3. CASE client' # client
    <3>1. client = "alive" /\ client' = "freed" /\ connHandle = NONE
          /\ gap' = gap
      BY <1>0, <2>1, <2>3
    <3>2. NewInv'
      BY <2>1, <3>1 DEF RInv, NewInv, FreedHoldsNoHandle,
         AttemptHoldsNoHandle, DisconnectsUnlinked, LossPending,
         LinkHasHandle, Linked
    <3>3. Conn!Delete
      BY <2>1, <3>1 DEF Conn!Delete, ConnLink, Linked
    <3>. QED
      BY <3>2, <3>3 DEF Conn!ConnNext
  <2>. QED
    BY <2>2, <2>3
<1>. QED
  BY <1>1, <1>2, <1>3, <1>4, <1>5, <1>6, <1>7, <1>8 DEF AppStep


(***************************************************************************)
(* The link layer's steps: each starts when the host task is idle.         *)
(***************************************************************************)

\* A step of the link layer that reports one event other than DISCONNECT,
\* keeps whether NimBLE holds a connection, and its handle if it does.
LEMMA ReadyQuiet ==
    ASSUME RInv, Ready,
           UNCHANGED <<client, connHandle, host>>,
           NEW e, evq' = <<e>>, e.t # "disconnect",
           gap' \in GapType,
           Linked' = Linked, Linked => gap'.h = gap.h,
           gap'.st \in Attempting => gap.st \in Attempting
    PROVE  NewInv' /\ [Conn!ConnNext]_Conn!connVars
<1>1. ConnLink' = ConnLink
  BY DEF ConnLink
<1>2. ~LossPending'
  BY DEF LossPending, Ready
<1>3. NewInv'
  BY <1>2 DEF RInv, NewInv, FreedHoldsNoHandle, AttemptHoldsNoHandle,
     DisconnectsUnlinked, LinkHasHandle, Attempting, Linked
<1>. QED
  BY <1>1, <1>3, Stutter

LEMMA LinkStepsRefine ==
    ASSUME RInv,
           \/ \E h \in Handles : Establish(h)
           \/ EstablishFail \/ CancelDone \/ \E r \in Reasons : LinkLoss(r)
           \/ TermFail \/ MtuDone \/ DiscFound \/ DiscDone \/ Sync
    PROVE  NewInv' /\ [Conn!ConnNext]_Conn!connVars
<1>0. gap \in GapType /\ client \in {"alive", "freed"}
      /\ connHandle \in Handles \cup {NONE}
  BY DEF RInv, IInv, LinkTypes
\* The controller connects: ClientConn's LinkUp, as the client holds no
\* handle while an attempt is under way.
<1>1. CASE \E h \in Handles : Establish(h)
  <2> PICK h \in Handles : Establish(h)
    BY <1>1, Zenon
  <2>1. gap.st \in Attempting /\ Ready /\ ~Linked /\ connHandle = NONE
    <3>1. gap.st \in Attempting /\ Ready
      BY Zenon DEF Establish, Attempting
    <3>2. connHandle = NONE
      BY <3>1, ZenonT(20) DEF RInv, AttemptHoldsNoHandle, Attempting
    <3>. QED
      BY <3>1, <3>2 DEF Linked, Attempting
  <2>2. gap' = [Gone EXCEPT !.st = "conn", !.h = h]
        /\ evq' = <<Ev("connect", h, "OK", 0)>>
        /\ UNCHANGED <<client, connHandle, host>>
    BY ZenonT(20) DEF Establish, LinkOnly
  <2>3. gap'.st = "conn" /\ gap'.h = h
    BY <2>2, Zenon DEF Gone
  <2>4. Linked' /\ ConnLink' = h /\ ConnLink = NONE
    BY <2>1, <2>3 DEF Linked, ConnLink
  <2>5. ~LossPending'
    BY <2>1, <2>2 DEF LossPending, Ready, Ev
  <2>6. NewInv'
    BY <2>2, <2>3, <2>5 DEF RInv, NewInv, FreedHoldsNoHandle,
       AttemptHoldsNoHandle, DisconnectsUnlinked, LinkHasHandle, Attempting
  <2>7. Conn!LinkUp(h)
    BY <2>1, <2>2, <2>4 DEF Conn!LinkUp
  <2>. QED
    BY <2>6, <2>7 DEF Conn!ConnNext
<1>2. CASE EstablishFail \/ CancelDone
  <2>1. gap.st \in Attempting /\ Ready /\ gap' = Gone
        /\ UNCHANGED <<client, connHandle, host>>
        /\ \E st : evq' = <<Ev("connect", NONE, st, 0)>>
    BY <1>2 DEF EstablishFail, CancelDone, Attempting, LinkOnly
  <2>2. gap' \in GapType /\ ~Linked /\ ~Linked'
    BY <2>1 DEF Gone, GapType, GapStates, Linked, Attempting
  <2>3. PICK sc : evq' = <<Ev("connect", NONE, sc, 0)>>
    BY <2>1
  <2>4. Ev("connect", NONE, sc, 0).t # "disconnect"
    BY DEF Ev
  <2>5. gap'.st = "idle"
    BY <2>1 DEF Gone
  <2>6. /\ Linked' = Linked /\ (Linked => gap'.h = gap.h)
        /\ (gap'.st \in Attempting => gap.st \in Attempting)
    BY <2>2, <2>5 DEF Attempting, Linked
  <2>. QED
    BY <2>1, <2>2, <2>3, <2>4, <2>6, ReadyQuiet, Zenon
\* The connection drops: ClientConn's LinkDown.
<1>3. CASE \E r \in Reasons : LinkLoss(r)
  <2>1. Linked /\ gap' = Gone /\ UNCHANGED <<client, connHandle>>
    BY <1>3 DEF LinkLoss, LinkOnly
  <2>2. gap.h \in Handles /\ ~Linked'
    BY <2>1 DEF RInv, LinkHasHandle, Gone, Linked
  <2>3. ConnLink = gap.h /\ ConnLink' = NONE /\ gap.h # NONE
    BY <2>1, <2>2 DEF ConnLink
  <2>4. NewInv'
    BY <2>1, <2>2 DEF RInv, NewInv, FreedHoldsNoHandle,
       AttemptHoldsNoHandle, DisconnectsUnlinked, LinkHasHandle, Attempting,
       Gone
  <2>5. Conn!LinkDown
    BY <2>1, <2>3 DEF Conn!LinkDown
  <2>. QED
    BY <2>4, <2>5 DEF Conn!ConnNext
<1>4. CASE TermFail
  <2>1. gap.st = "closing" /\ Ready /\ gap' = [gap EXCEPT !.st = "conn"]
        /\ evq' = <<Ev("term_failure", gap.h, "EFAIL", 0)>>
        /\ UNCHANGED <<client, connHandle, host>>
    BY <1>4 DEF TermFail, LinkOnly
  <2>2. gap' \in GapType /\ Linked /\ Linked' /\ gap'.h = gap.h
        /\ gap'.st \notin Attempting
    BY <1>0, <2>1 DEF GapType, GapStates, Linked, Attempting
  <2>. QED
    BY <2>1, <2>2, ReadyQuiet DEF Ev
<1>5. CASE MtuDone
  <2>1. Ready /\ gap' = [gap EXCEPT !.mtu = FALSE]
        /\ evq' = <<Ev("mtu", gap.h, "OK", 0)>>
        /\ UNCHANGED <<client, connHandle, host>>
    BY <1>5 DEF MtuDone, LinkOnly
  <2>2. gap' \in GapType /\ Linked' = Linked /\ gap'.h = gap.h
        /\ gap'.st = gap.st
    BY <1>0, <2>1, ZenonT(20) DEF GapType, Linked
  <2>. QED
    BY <2>1, <2>2, ReadyQuiet, ZenonT(20) DEF Ev
<1>6. CASE DiscFound
  <2>1. Ready /\ gap' = [gap EXCEPT !.found = @ + 1]
        /\ evq' = <<Ev("disc", gap.h, "OK", gap.disc)>>
        /\ UNCHANGED <<client, connHandle, host>>
    BY <1>6 DEF DiscFound, LinkOnly
  <2>2. gap' \in GapType /\ Linked' = Linked /\ gap'.h = gap.h
        /\ gap'.st = gap.st
    BY <1>0, <2>1 DEF GapType, Linked
  <2>. QED
    BY <2>1, <2>2, ReadyQuiet DEF Ev
<1>7. CASE DiscDone
  <2>1. Ready /\ gap' = [gap EXCEPT !.disc = 0]
        /\ evq' = <<Ev("disc", gap.h, "EDONE", gap.disc)>>
        /\ UNCHANGED <<client, connHandle, host>>
    BY <1>7 DEF DiscDone, LinkOnly
  <2>2. gap' \in GapType /\ Linked' = Linked /\ gap'.h = gap.h
        /\ gap'.st = gap.st
    BY <1>0, <2>1 DEF GapType, Linked
  <2>. QED
    BY <2>1, <2>2, ReadyQuiet DEF Ev
<1>8. CASE Sync
  BY <1>0, <1>8, LinkQuiet DEF Sync
<1>. QED
  BY <1>1, <1>2, <1>3, <1>4, <1>5, <1>6, <1>7, <1>8


(***************************************************************************)
(* The host task's steps: handleGapEvent and serviceDiscoveredCB.          *)
(***************************************************************************)

\* A handler that keeps the handle, the object and NimBLE's connection, and
\* leaves no DISCONNECT pending that was not pending before, keeps RInv's
\* new conjuncts and is a stutter of ClientConn.
LEMMA HostQuiet ==
    ASSUME RInv,
           UNCHANGED <<client, connHandle>>,
           gap' \in GapType, gap'.h = gap.h,
           gap'.st \in LinkedStates <=> gap.st \in LinkedStates,
           gap'.st \in Attempting => gap.st \in Attempting,
           LossPending' => LossPending
    PROVE  NewInv' /\ [Conn!ConnNext]_Conn!connVars
<1>1. Linked' = Linked /\ ConnLink' = ConnLink
  BY DEF Linked, LinkedStates, ConnLink
<1>2. NewInv'
  BY <1>1 DEF RInv, NewInv, FreedHoldsNoHandle, AttemptHoldsNoHandle,
     DisconnectsUnlinked, LinkHasHandle, Attempting
<1>. QED
  BY <1>1, <1>2, Stutter

\* The host task goes back to idle, or takes the head of a queue of events:
\* either way no DISCONNECT becomes pending.
LEMMA IdleNoLoss ==
    ASSUME host'.pc = "idle", UNCHANGED evq
    PROVE  LossPending' => LossPending
BY DEF LossPending

LEMMA PopNoLoss ==
    ASSUME NEW s \in Seq(EvType), s # <<>>, evq = s, evq' = Tail(s),
           host'.pc = "idle" \/ host'.ev = Head(s)
    PROVE  LossPending' => LossPending
<1>1. /\ Head(s) = s[1] /\ Len(s) >= 1
      /\ \A j \in 1 .. Len(Tail(s)) : j + 1 \in 1 .. Len(s)
                                      /\ Tail(s)[j] = s[j + 1]
  BY PopFacts
<1>. QED
  BY <1>1 DEF LossPending

LEMMA HostBeginRefine ==
    ASSUME RInv, HostBegin
    PROVE  NewInv' /\ [Conn!ConnNext]_Conn!connVars
<1>1. /\ evq \in Seq(EvType) /\ evq # <<>> /\ gap \in GapType
      /\ host' = [pc |-> "busy", ev |-> Head(evq), copy |-> pTaskData]
      /\ evq' = Tail(evq)
      /\ UNCHANGED <<client, connHandle, gap>>
  BY DEF HostBegin, RInv, IInv, LinkTypes
<1>2. LossPending' => LossPending
  BY <1>1, PopNoLoss
<1>. QED
  BY <1>1, <1>2, HostQuiet

LEMMA DiscoveredCBRefine ==
    ASSUME RInv, DiscoveredCB
    PROVE  NewInv' /\ [Conn!ConnNext]_Conn!connVars
<1>1. /\ evq \in Seq(EvType) /\ evq # <<>> /\ gap \in GapType
      /\ host.pc = "idle" /\ evq' = Tail(evq)
      /\ UNCHANGED <<client, connHandle, gap, host>>
  BY DEF DiscoveredCB, RInv, IInv, LinkTypes
<1>2. LossPending' => LossPending
  BY <1>1, PopNoLoss
<1>. QED
  BY <1>1, <1>2, HostQuiet

LEMMA HostFreedRefine ==
    ASSUME RInv, HostFreed
    PROVE  NewInv' /\ [Conn!ConnNext]_Conn!connVars
<1>1. /\ host' = Idle /\ gap \in GapType
      /\ UNCHANGED <<client, connHandle, evq, gap>>
  BY DEF HostFreed, RInv, IInv, LinkTypes
<1>2. LossPending' => LossPending
  BY <1>1, IdleNoLoss DEF Idle
<1>. QED
  BY <1>1, <1>2, HostQuiet

\* BLE_GAP_EVENT_MTU and BLE_GAP_EVENT_TERM_FAILURE: a retried termination
\* or a host reset keeps the connection until the link layer drops it.
LEMMA MtuTermRefine ==
    ASSUME RInv, OnMtu \/ OnTermFailure
    PROVE  NewInv' /\ [Conn!ConnNext]_Conn!connVars
<1>1. gap \in GapType
  BY DEF RInv, IInv, LinkTypes
<1>2. /\ host' = Idle
      /\ UNCHANGED <<client, connHandle, evq>>
      /\ gap' \in {gap, Terminate(gap, host.ev.h),
                   [gap EXCEPT !.st = IF Linked THEN "reset" ELSE @]}
  BY DEF OnMtu, OnTermFailure, Handling
<1>3. LET g == [gap EXCEPT !.st = IF Linked THEN "reset" ELSE @]
      IN  /\ g \in GapType /\ g.h = gap.h
          /\ (g.st \in LinkedStates <=> gap.st \in LinkedStates)
          /\ (g.st \in Attempting => gap.st \in Attempting)
  BY <1>1 DEF GapType, GapStates, Linked, LinkedStates, Attempting
<1>4. LossPending' => LossPending
  BY <1>2, IdleNoLoss DEF Idle
<1>. QED
  BY <1>1, <1>2, <1>3, <1>4, TerminateKeepsLink, RequestsStartNoAttempt, ZenonT(20),
     HostQuiet


\* An object deleted by a handler holds no handle after the step: it is
\* ClientConn's Delete.
LEMMA HandlerDelete ==
    ASSUME RInv, client = "alive", client' = "freed",
           connHandle = NONE, connHandle' = NONE, UNCHANGED gap,
           LossPending' => LossPending
    PROVE  NewInv' /\ [Conn!ConnNext]_Conn!connVars
<1>1. NewInv'
  BY DEF RInv, NewInv, FreedHoldsNoHandle, AttemptHoldsNoHandle,
     DisconnectsUnlinked, LinkHasHandle, Linked
<1>2. Conn!Delete
  BY DEF Conn!Delete, ConnLink, Linked
<1>. QED
  BY <1>1, <1>2 DEF Conn!ConnNext

\* BLE_GAP_EVENT_CONNECT.
LEMMA OnConnectRefine ==
    ASSUME RInv, OnConnect
    PROVE  NewInv' /\ [Conn!ConnNext]_Conn!connVars
<1> DEFINE e == host.ev
<1>1. /\ gap \in GapType /\ e \in EvType
      /\ client = "alive" /\ host.pc = "busy" /\ e.t = "connect"
      /\ host' = Idle /\ UNCHANGED evq
  BY DEF OnConnect, Handling, RInv, IInv, LinkTypes
<1>2. LossPending' => LossPending
  BY <1>1, IdleNoLoss DEF Idle
<1>3. CASE connHandle # NONE \/ (~config.async /\ pTaskData = 0)
  \* The connection nobody waits for is terminated.
  <2>1. gap' = Terminate(gap, e.h) /\ UNCHANGED <<client, connHandle>>
    BY <1>3 DEF OnConnect
  <2>. QED
    BY <1>1, <1>2, <2>1, TerminateKeepsLink, RequestsStartNoAttempt,
       HostQuiet
\* The client takes the handle of the connection NimBLE holds: Adopt.
<1>4. CASE ~(connHandle # NONE \/ (~config.async /\ pTaskData = 0))
           /\ e.st = "OK"
  <2>1. connHandle = NONE /\ Linked /\ gap.h = e.h /\ e.h \in Handles
    BY <1>1, <1>4 DEF RInv, IInv, ConnectEventsLinked, ConnectOK,
       LinkHasHandle
  <2>2. /\ connHandle' = e.h /\ UNCHANGED client
        /\ gap' \in {gap, [gap EXCEPT !.mtu = TRUE]}
    BY <1>4 DEF OnConnect
  <2>3. gap' \in GapType /\ gap'.st = gap.st /\ gap'.h = gap.h
    BY <1>1, <2>2, ZenonT(20) DEF GapType
  <2>4. Linked' /\ ConnLink' = e.h /\ ConnLink = e.h
    BY <2>1, <2>3 DEF Linked, ConnLink
  <2>5. NewInv'
    <3>1. FreedHoldsNoHandle'
      BY <1>1, <2>2 DEF FreedHoldsNoHandle
    <3>2. AttemptHoldsNoHandle'
      BY <2>3, <2>4 DEF AttemptHoldsNoHandle, Linked
    <3>3. DisconnectsUnlinked'
      <4>1. ~LossPending
        BY <2>1 DEF RInv, DisconnectsUnlinked
      <4>. QED
        BY <1>2, <4>1 DEF DisconnectsUnlinked
    <3>4. LinkHasHandle'
      BY <2>1, <2>3 DEF LinkHasHandle
    <3>. QED
      BY <3>1, <3>2, <3>3, <3>4 DEF NewInv
  <2>6. Conn!Adopt
    BY <1>1, <2>1, <2>2, <2>4 DEF Conn!Adopt
  <2>. QED
    BY <2>5, <2>6 DEF Conn!ConnNext
\* The attempt failed: the client has no handle, and an async connect with
\* deleteOnConnectFail deletes it (Delete).
<1>5. CASE ~(connHandle # NONE \/ (~config.async /\ pTaskData = 0))
           /\ e.st # "OK"
  <2>1. connHandle = NONE /\ connHandle' = NONE
        /\ client' \in {client, "freed"} /\ UNCHANGED gap
    BY <1>5 DEF OnConnect
  <2>2. CASE client' = client
    BY <1>1, <1>2, <2>1, <2>2, HostQuiet
  <2>3. CASE client' # client
    BY <1>1, <1>2, <2>1, <2>3, HandlerDelete
  <2>. QED
    BY <2>2, <2>3
<1>. QED
  BY <1>3, <1>4, <1>5

\* BLE_GAP_EVENT_DISCONNECT.
LEMMA OnDisconnectRefine ==
    ASSUME RInv, OnDisconnect
    PROVE  NewInv' /\ [Conn!ConnNext]_Conn!connVars
<1> DEFINE e == host.ev
<1>1. /\ gap \in GapType /\ client = "alive"
      /\ host.pc = "busy" /\ e.t = "disconnect" /\ host' = Idle
      /\ UNCHANGED <<evq, gap>>
  BY DEF OnDisconnect, Handling, RInv, IInv, LinkTypes
<1>2. LossPending' => LossPending
  BY <1>1, IdleNoLoss DEF Idle
\* The DISCONNECT being handled means NimBLE holds no connection.
<1>3. ~Linked /\ ConnLink = NONE /\ ConnLink' = NONE
  BY <1>1 DEF RInv, DisconnectsUnlinked, LossPending, ConnLink, Linked
<1>4. CASE connHandle # e.h
  <2>1. UNCHANGED <<client, connHandle>>
    BY <1>4 DEF OnDisconnect
  <2>. QED
    BY <1>1, <1>2, <2>1, HostQuiet
<1>5. CASE connHandle = e.h
  <2>1. connHandle' = NONE /\ client' \in {client, "freed"}
    BY <1>5 DEF OnDisconnect
  \* The client lets go of the handle of the lost connection: Forget.
  <2>2. CASE connHandle # NONE
    <3>1. NewInv'
      BY <1>1, <1>2, <1>3, <2>1 DEF RInv, NewInv, FreedHoldsNoHandle,
         AttemptHoldsNoHandle, DisconnectsUnlinked, LinkHasHandle, Linked
    <3>2. Conn!Forget
      BY <1>1, <1>3, <2>1, <2>2 DEF Conn!Forget
    <3>. QED
      BY <3>1, <3>2 DEF Conn!ConnNext
  <2>3. CASE connHandle = NONE /\ client' = client
    BY <1>1, <1>2, <2>1, <2>3, HostQuiet
  <2>4. CASE connHandle = NONE /\ client' # client
    BY <1>1, <1>2, <2>1, <2>4, HandlerDelete
  <2>. QED
    BY <2>2, <2>3, <2>4
<1>. QED
  BY <1>4, <1>5


(***************************************************************************)
(* The theorems.                                                           *)
(***************************************************************************)

LEMMA NextRefine ==
    ASSUME RInv, [Next]_vars
    PROVE  RInv' /\ [Conn!ConnNext]_Conn!connVars
<1>1. IInv'
  BY NextIInv DEF RInv
<1>2. CASE UNCHANGED vars
  <2>1. NewInv'
    BY <1>2 DEF vars, RInv, NewInv, FreedHoldsNoHandle, AttemptHoldsNoHandle,
       DisconnectsUnlinked, LossPending, LinkHasHandle, Linked
  <2>2. [Conn!ConnNext]_Conn!connVars
    BY <1>2, Stutter DEF vars, ConnLink, Linked
  <2>. QED
    BY <1>1, <2>1, <2>2 DEF RInv, NewInv
<1>3. CASE HostStep
  <2>1. NewInv' /\ [Conn!ConnNext]_Conn!connVars
    BY <1>3, HostBeginRefine, HostFreedRefine, OnConnectRefine,
       OnDisconnectRefine, MtuTermRefine, DiscoveredCBRefine DEF HostStep
  <2>. QED
    BY <1>1, <2>1 DEF RInv, NewInv
<1>4. CASE Next /\ ~HostStep
  <2>1. NewInv' /\ [Conn!ConnNext]_Conn!connVars
    BY <1>4, AppStepsRefine, LinkStepsRefine DEF Next
  <2>. QED
    BY <1>1, <2>1 DEF RInv, NewInv
<1>. QED
  BY <1>2, <1>3, <1>4

\* The refinement ImplementsConn that run client_conn checks: in every
\* behaviour of BLEClient, its handlers and the link layer, m_connHandle
\* is only ever set to the handle of the connection NimBLE holds, and only
\* when it was BLE_HS_CONN_HANDLE_NONE; it is cleared only once that
\* connection is gone; no client is deleted while it holds a handle; and
\* NimBLE connects only while the client holds none.
THEOREM ClientImplementsConn == Spec => ImplementsConn
<1>1. Init => RInv
  BY InitRInv
<1>2. RInv /\ [Next]_vars => RInv'
  BY NextRefine
<1>3. Init => Conn!ConnInit
  BY InitRefines
<1>4. RInv /\ [Next]_vars => [Conn!ConnNext]_Conn!connVars
  BY NextRefine
<1>. QED
  BY <1>1, <1>2, <1>3, <1>4, PTL DEF Spec, ImplementsConn, Conn!ConnSpec


(***************************************************************************)
(* ConnSafe is inductive in the abstract spec: a handle is adopted only    *)
(* from the live link and the controller links anew only once the handle  *)
(* is let go, so the handle never names another connection; and an object *)
(* is deleted (by deleteOnDisconnect or deleteClient) only without one.    *)
(***************************************************************************)
LEMMA ConnSafeStep ==
  Conn!ConnSafe /\ [Conn!ConnNext]_Conn!connVars => Conn!ConnSafe'
<1> SUFFICES ASSUME Conn!ConnSafe, [Conn!ConnNext]_Conn!connVars
             PROVE  Conn!ConnSafe'
  OBVIOUS
<1>1. CASE \E h \in Handles : Conn!LinkUp(h)
  BY <1>1 DEF Conn!LinkUp, Conn!ConnSafe
<1>2. CASE Conn!LinkDown
  BY <1>2 DEF Conn!LinkDown, Conn!ConnSafe
<1>3. CASE Conn!Adopt
  BY <1>3 DEF Conn!Adopt, Conn!ConnSafe
<1>4. CASE Conn!Forget
  BY <1>4 DEF Conn!Forget, Conn!ConnSafe
<1>5. CASE Conn!Delete
  BY <1>5 DEF Conn!Delete, Conn!ConnSafe
<1>6. CASE UNCHANGED Conn!connVars
  BY <1>6 DEF Conn!connVars, Conn!ConnSafe
<1>. QED
  BY <1>1, <1>2, <1>3, <1>4, <1>5, <1>6 DEF Conn!ConnNext

(* Every behaviour of ClientConn keeps ConnSafe.                           *)
THEOREM ConnSpecSafe == Conn!ConnSpec => []Conn!ConnSafe
<1>1. Conn!ConnInit => Conn!ConnSafe
  BY DEF Conn!ConnInit, Conn!ConnSafe
<1>. QED
  BY <1>1, ConnSafeStep, PTL DEF Conn!ConnSpec

(***************************************************************************)
(* In every run of BLEClient, m_connHandle, when set, is the handle of the *)
(* connection NimBLE holds, or of one that dropped and whose DISCONNECT    *)
(* event the host task has yet to handle; and a client deleted by          *)
(* deleteOnDisconnect, deleteOnConnectFail or the application holds no     *)
(* handle.  It follows from the refinement and ConnSpecSafe.               *)
(***************************************************************************)
THEOREM ClientConnSafe == Spec => []Conn!ConnSafe
  BY ClientImplementsConn, ConnSpecSafe, PTL DEF ImplementsConn

=============================================================================
