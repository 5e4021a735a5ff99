---------------------------- MODULE ClientProofs ----------------------------
(***************************************************************************)
(* Proofs about BLEClient's connection handle: whatever the interleaving  *)
(* of the application task, the host task and the link layer, a client    *)
(* that believes it is connected (m_connHandle # NONE) holds a connection *)
(* the link layer has, or the DISCONNECT of that connection is still on   *)
(* its way to handleGapEvent.  It holds for every set of handles and      *)
(* reasons and every bound on the calls.                                  *)
(***************************************************************************)
EXTENDS Client, SequenceTheorems, TLAPS

USE ClientAssumption

(***************************************************************************)
(* The types of the variables the handle depends on.                       *)
(***************************************************************************)
EvTypes == {"none", "connect", "disconnect", "mtu", "term_failure", "disc"}
EvType == [t : EvTypes, h : Handles \cup {NONE}, st : Codes, f : Nat]
GapStates == {"idle", "connecting", "cancelling", "conn", "closing", "reset"}
GapType == [st : GapStates, h : Handles \cup {NONE}, mtu : BOOLEAN,
            disc : Nat, found : Nat]

LinkTypes ==
    /\ client \in {"alive", "freed"}
    /\ connHandle \in Handles \cup {NONE}
    /\ gap \in GapType
    /\ evq \in Seq(EvType)
    /\ host.pc \in {"idle", "busy"} /\ host.ev \in EvType
    /\ calls \in Nat

(* A successful CONNECT is for the connection NimBLE now holds: nothing    *)
(* else reaches the link layer until the host task has handled it.         *)
ConnectOK(e) == e.t = "connect" /\ e.st = "OK"
ConnectEventsLinked ==
    /\ \A i \in 1 .. Len(evq) :
          ConnectOK(evq[i]) => Linked /\ gap.h = evq[i].h
    /\ host.pc = "busy" /\ ConnectOK(host.ev) => Linked /\ gap.h = host.ev.h

(* The inductive invariant behind KnownConnectionIsLive.                   *)
IInv == LinkTypes /\ KnownConnectionIsLive /\ ConnectEventsLinked

LEMMA InitIInv == Init => IInv
BY DEF Init, IInv, LinkTypes, GapType, GapStates, KnownConnectionIsLive,
       ConnectEventsLinked, NoEvent, Ev, EvType, EvTypes, Codes

(***************************************************************************)
(* Lemmas about the link-layer requests the client makes.                  *)
(***************************************************************************)

LinkedStates == {"conn", "closing", "reset"}

\* ble_gap_terminate keeps the connection NimBLE holds, and its handle.
LEMMA TerminateKeepsLink ==
    ASSUME NEW g \in GapType, NEW h
    PROVE  /\ Terminate(g, h) \in GapType
           /\ Terminate(g, h).h = g.h
           /\ Terminate(g, h).st \in LinkedStates <=> g.st \in LinkedStates
BY DEF Terminate, GapType, GapStates, LinkedStates

\* ble_gap_conn_cancel only affects an attempt, never a connection.
LEMMA CancelKeepsLink ==
    ASSUME NEW g \in GapType
    PROVE  /\ Cancel(g) \in GapType
           /\ Cancel(g).h = g.h
           /\ Cancel(g).st \in LinkedStates <=> g.st \in LinkedStates
BY DEF Cancel, GapType, GapStates, LinkedStates

\* A step that leaves the handle, the host task and the pending events
\* alone, and neither makes nor breaks a connection, keeps IInv.
LEMMA LinkUntouched ==
    ASSUME IInv,
           client' \in {client, "freed"},
           UNCHANGED <<connHandle, host, evq>>,
           calls' \in Nat,
           gap' \in GapType, gap'.h = gap.h,
           gap'.st \in LinkedStates <=> gap.st \in LinkedStates
    PROVE  IInv'
BY DEF IInv, LinkTypes, KnownConnectionIsLive, ConnectEventsLinked,
       DisconnectPending, Linked, LinkedStates

(***************************************************************************)
(* The application task's steps.                                           *)
(***************************************************************************)
LEMMA AppStepsIInv ==
    ASSUME IInv,
           \/ \E d \in SelfDeletes : SetSelfDelete(d[1], d[2])
           \/ \E async, mtu \in BOOLEAN : Connect(async, mtu)
           \/ Disconnect \/ CancelConnect \/ Discover
           \/ AppStep
    PROVE  IInv'
<1>0. gap \in GapType /\ calls \in Nat
  BY DEF IInv, LinkTypes
<1>1. CASE \E d \in SelfDeletes : SetSelfDelete(d[1], d[2])
  <2>1. UNCHANGED <<client, connHandle, host, evq, gap, calls>>
    BY <1>1 DEF SetSelfDelete
  <2>. QED
    BY <1>0, <2>1, LinkUntouched, SMTT(15)
<1>2. CASE \E async, mtu \in BOOLEAN : Connect(async, mtu)
  <2> PICK async \in BOOLEAN, mtu \in BOOLEAN : Connect(async, mtu)
    BY <1>2
  <2>1. CASE ConnectRefused \/ gap.st \in {"connecting", "cancelling"}
    <3>1. UNCHANGED <<client, connHandle, host, evq, gap>>
          /\ calls' = calls + 1
      BY <2>1 DEF Connect
    <3>. QED
      BY <1>0, <3>1, LinkUntouched, SMTT(15)
  <2>2. CASE ~ConnectRefused /\ gap.st \notin {"connecting", "cancelling"}
    \* Connecting from a state that holds no connection.
    <3>1. ~Linked
      BY <2>2, SMTT(15) DEF ConnectRefused
    <3>2. /\ gap' = [gap EXCEPT !.st = "connecting"]
          /\ calls' = calls + 1
          /\ UNCHANGED <<client, connHandle, host, evq>>
      BY <2>2, SMTT(20) DEF Connect
    <3>3. gap' \in GapType /\ gap'.h = gap.h /\ gap'.st \notin LinkedStates
          /\ gap.st \notin LinkedStates
      BY <1>0, <3>1, <3>2 DEF Linked, GapType, GapStates, LinkedStates
    <3>. QED
      BY <1>0, <3>2, <3>3, LinkUntouched
  <2>. QED
    BY <2>1, <2>2
<1>3. CASE Disconnect
  <2>1. gap' = Terminate(gap, connHandle)
        /\ UNCHANGED <<client, connHandle, host, evq, calls>>
    BY <1>3 DEF Disconnect
  <2>. QED
    BY <1>0, <2>1, TerminateKeepsLink, LinkUntouched
<1>4. CASE CancelConnect
  <2>1. gap' = Cancel(gap) /\ UNCHANGED <<client, connHandle, host, evq, calls>>
    BY <1>4 DEF CancelConnect
  <2>. QED
    BY <1>0, <2>1, CancelKeepsLink, LinkUntouched
<1>5. CASE Discover
  <2>1. CASE connHandle # NONE /\ Linked /\ gap.h = connHandle
    <3>1. /\ gap' = [gap EXCEPT !.disc = calls + 1, !.found = 0]
          /\ calls' = calls + 1
          /\ UNCHANGED <<client, connHandle, host, evq>>
      BY <1>5, <2>1 DEF Discover
    <3>2. gap' = [st |-> gap.st, h |-> gap.h, mtu |-> gap.mtu,
                  disc |-> calls + 1, found |-> 0]
      BY <1>0, <3>1 DEF GapType
    <3>3. gap' \in GapType /\ gap'.h = gap.h /\ gap'.st = gap.st
      BY <1>0, <3>2 DEF GapType
    <3>. QED
      BY <1>0, <3>1, <3>3, LinkUntouched
  <2>2. CASE ~(connHandle # NONE /\ Linked /\ gap.h = connHandle)
    <3>1. UNCHANGED <<client, connHandle, host, evq, gap>>
          /\ calls' = calls + 1
      BY <1>5, <2>2 DEF Discover
    <3>. QED
      BY <1>0, <3>1, LinkUntouched
  <2>. QED
    BY <2>1, <2>2
<1>6. CASE ConnectWake \/ DiscoverWake
  <2>1. UNCHANGED <<client, connHandle, host, evq, gap, calls>>
    BY <1>6 DEF ConnectWake, DiscoverWake
  <2>. QED
    BY <1>0, <2>1, LinkUntouched
<1>7. CASE ConnectTimeout
  <2>1. gap' \in {gap, Cancel(gap)}
        /\ UNCHANGED <<client, connHandle, host, evq, calls>>
    BY <1>7 DEF ConnectTimeout
  <2>. QED
    BY <1>0, <2>1, CancelKeepsLink, LinkUntouched
<1>8. CASE ConnectPost
  <2>1. /\ gap' \in {gap, Terminate(gap, connHandle)}
        /\ client' \in {client, "freed"}
        /\ UNCHANGED <<connHandle, host, evq, calls>>
    BY <1>8 DEF ConnectPost, DeleteClient
  <2>. QED
    BY <1>0, <2>1, TerminateKeepsLink, LinkUntouched
<1>. QED
  BY <1>1, <1>2, <1>3, <1>4, <1>5, <1>6, <1>7, <1>8 DEF AppStep


(***************************************************************************)
(* The link layer's steps: each starts when the host task is idle.         *)
(***************************************************************************)

\* With no event pending, a client that believes it is connected holds the
\* connection NimBLE has.
LEMMA ReadyLinked ==
    ASSUME IInv, Ready, client = "alive", connHandle # NONE
    PROVE  Linked /\ gap.h = connHandle
BY DEF IInv, KnownConnectionIsLive, DisconnectPending, Ready

\* The events of a lost connection: typed, one DISCONNECT for its handle,
\* and no CONNECT.
LEMMA LossEventsFacts ==
    ASSUME NEW g \in GapType, NEW rc \in Codes,
           NEW es \in LossEvents(g, rc)
    PROVE  /\ es \in Seq(EvType)
           /\ \E i \in 1 .. Len(es) : es[i].t = "disconnect" /\ es[i].h = g.h
           /\ \A i \in 1 .. Len(es) : ~ConnectOK(es[i])
<1> DEFINE n == Ev("disc", g.h, "ENOTCONN", g.disc)
           m == Ev("disconnect", g.h, rc, 0)
           d == IF g.disc # 0 THEN <<n>> ELSE <<>>
           x == <<m>>
<1>1. n \in EvType /\ m \in EvType /\ ~ConnectOK(n) /\ ~ConnectOK(m)
      /\ m.t = "disconnect" /\ m.h = g.h
  BY DEF GapType, Ev, EvType, EvTypes, Codes, ConnectOK
<1>2. /\ d \in Seq(EvType) /\ x \in Seq(EvType)
      /\ Len(x) = 1 /\ x[1] = m
      /\ \A i \in 1 .. Len(d) : d[i] = n
  BY <1>1
<1>3. es = d \o x \/ es = x \o d
  BY DEF LossEvents, d, x, n, m
<1>4. /\ d \o x \in Seq(EvType)
      /\ Len(d \o x) = Len(d) + Len(x)
      /\ \A i \in 1 .. Len(d) + Len(x) :
            (d \o x)[i] = IF i <= Len(d) THEN d[i] ELSE x[i - Len(d)]
  BY <1>2, ConcatProperties
<1>5. /\ x \o d \in Seq(EvType)
      /\ Len(x \o d) = Len(x) + Len(d)
      /\ \A i \in 1 .. Len(x) + Len(d) :
            (x \o d)[i] = IF i <= Len(x) THEN x[i] ELSE d[i - Len(x)]
  BY <1>2, ConcatProperties
<1>6. Len(d) \in Nat
  BY <1>2
<1>7. CASE es = d \o x
  <2>1. \A i \in 1 .. Len(es) : es[i] \in {n, m}
    BY <1>2, <1>4, <1>6, <1>7
  <2>2. es[Len(d) + 1] = m /\ Len(d) + 1 \in 1 .. Len(es)
    BY <1>2, <1>4, <1>6, <1>7
  <2>. QED
    BY <1>1, <1>4, <1>7, <2>1, <2>2
<1>8. CASE es = x \o d
  <2>1. \A i \in 1 .. Len(es) : es[i] \in {n, m}
    BY <1>2, <1>5, <1>6, <1>8
  <2>2. es[1] = m /\ 1 \in 1 .. Len(es)
    BY <1>2, <1>5, <1>6, <1>8
  <2>. QED
    BY <1>1, <1>5, <1>8, <2>1, <2>2
<1>. QED
  BY <1>3, <1>7, <1>8

\* A queue of one event that is not a successful CONNECT.
LEMMA OneEvent ==
    ASSUME NEW e \in EvType, ~ConnectOK(e)
    PROVE  <<e>> \in Seq(EvType) /\ Len(<<e>>) = 1 /\ ~ConnectOK(<<e>>[1])
OBVIOUS

LEMMA LossReasonCode ==
    ASSUME NEW r \in Reasons
    PROVE  LossReason(r) \in Codes
BY DEF LossReason, Codes

\* A step of the link layer keeps IInv when the handle the client believes
\* in is still held or its DISCONNECT now pending, and any successful
\* CONNECT it reports is for the connection it now holds.
LEMMA ReadyStep ==
    ASSUME IInv, Ready,
           UNCHANGED <<client, connHandle, host, calls>>,
           gap' \in GapType, evq' \in Seq(EvType),
           client = "alive" /\ connHandle # NONE =>
               \/ gap'.st \in LinkedStates /\ gap'.h = connHandle
               \/ \E i \in 1 .. Len(evq') :
                     evq'[i].t = "disconnect" /\ evq'[i].h = connHandle,
           \A i \in 1 .. Len(evq') :
               ConnectOK(evq'[i]) => gap'.st \in LinkedStates /\ gap'.h = evq'[i].h
    PROVE  IInv'
BY DEF IInv, LinkTypes, KnownConnectionIsLive, ConnectEventsLinked, Ready,
       DisconnectPending, Linked, LinkedStates

LEMMA LinkStepsIInv ==
    ASSUME IInv,
           \/ \E h \in Handles : Establish(h)
           \/ EstablishFail \/ CancelDone \/ \E r \in Reasons : LinkLoss(r)
           \/ TermFail \/ MtuDone \/ DiscFound \/ DiscDone \/ Sync
    PROVE  IInv'
<1>0. /\ gap \in GapType /\ calls \in Nat
      /\ client \in {"alive", "freed"} /\ connHandle \in Handles \cup {NONE}
      /\ host.pc \in {"idle", "busy"} /\ host.ev \in EvType
  BY DEF IInv, LinkTypes
<1>1. CASE \E h \in Handles : Establish(h)
  <2> PICK h \in Handles : Establish(h)
    BY <1>1, SMTT(15)
  <2>1. ~Linked /\ Ready
    BY DEF Establish, Linked
  <2>2. client = "alive" => connHandle = NONE
    BY <2>1, ReadyLinked, SMTT(15)
  <2>3. /\ gap' = [Gone EXCEPT !.st = "conn", !.h = h]
        /\ evq' = <<Ev("connect", h, "OK", 0)>>
        /\ UNCHANGED <<client, connHandle, host, calls>>
    BY DEF Establish, LinkOnly
  <2>4. gap' \in GapType /\ gap'.st \in LinkedStates /\ gap'.h = h
    BY <2>3 DEF Gone, GapType, GapStates, LinkedStates
  <2>5. evq' \in Seq(EvType) /\ Len(evq') = 1 /\ evq'[1].h = h
    BY <2>3 DEF Ev, EvType, EvTypes, Codes
  <2>. QED
    BY <2>1, <2>2, <2>3, <2>4, <2>5, ReadyStep
<1>2. CASE EstablishFail \/ CancelDone
  <2>1. ~Linked /\ Ready
    BY <1>2 DEF EstablishFail, CancelDone, Linked
  <2>2. client = "alive" => connHandle = NONE
    BY <2>1, ReadyLinked
  <2>3. /\ gap' = Gone
        /\ \E rc \in {"EFAIL", "EAPP"} : evq' = <<Ev("connect", NONE, rc, 0)>>
        /\ UNCHANGED <<client, connHandle, host, calls>>
    BY <1>2 DEF EstablishFail, CancelDone, LinkOnly
  <2>4. gap' \in GapType
    BY <2>3 DEF Gone, GapType, GapStates
  <2>5. evq' \in Seq(EvType) /\ Len(evq') = 1 /\ ~ConnectOK(evq'[1])
    BY <2>3 DEF Ev, EvType, EvTypes, Codes, ConnectOK
  <2>. QED
    BY <2>1, <2>2, <2>3, <2>4, <2>5, ReadyStep
<1>3. CASE \E r \in Reasons : LinkLoss(r)
  <2> PICK r \in Reasons : LinkLoss(r)
    BY <1>3
  <2>1. Linked /\ Ready
    BY DEF LinkLoss
  <2>2. client = "alive" /\ connHandle # NONE => gap.h = connHandle
    BY <2>1, ReadyLinked
  <2>3. /\ gap' = Gone
        /\ evq' \in LossEvents(gap, LossReason(r))
        /\ UNCHANGED <<client, connHandle, host, calls>>
    BY DEF LinkLoss, LinkOnly
  <2>4. /\ evq' \in Seq(EvType)
        /\ \E i \in 1 .. Len(evq') :
              evq'[i].t = "disconnect" /\ evq'[i].h = gap.h
        /\ \A i \in 1 .. Len(evq') : ~ConnectOK(evq'[i])
    BY <1>0, <2>3, LossReasonCode, LossEventsFacts
  <2>. QED
    BY <1>0, <2>1, <2>2, <2>3, <2>4
    DEF IInv, LinkTypes, KnownConnectionIsLive, ConnectEventsLinked, Ready,
        DisconnectPending, Gone, GapType, GapStates
<1>4. CASE TermFail \/ MtuDone \/ DiscFound \/ DiscDone
  <2>1. Linked /\ Ready
    BY <1>4 DEF TermFail, MtuDone, DiscFound, DiscDone, Linked
  <2>2. client = "alive" /\ connHandle # NONE => gap.h = connHandle
    BY <2>1, ReadyLinked
  <2>3. /\ gap' \in GapType /\ gap'.h = gap.h /\ gap'.st \in LinkedStates
        /\ \E t \in {"term_failure", "mtu", "disc"}, st \in {"EFAIL", "OK", "EDONE"} :
              evq' = <<Ev(t, gap.h, st, gap.disc)>> \/ evq' = <<Ev(t, gap.h, st, 0)>>
        /\ UNCHANGED <<client, connHandle, host, calls>>
    <3>1. CASE TermFail
      BY <1>0, <2>1, <3>1 DEF TermFail, LinkOnly, Linked, LinkedStates, GapType,
         GapStates
    <3>2. CASE MtuDone
      BY <1>0, <2>1, <3>2 DEF MtuDone, LinkOnly, Linked, LinkedStates, GapType
    <3>3. CASE DiscFound
      BY <1>0, <2>1, <3>3 DEF DiscFound, LinkOnly, Linked, LinkedStates, GapType
    <3>4. CASE DiscDone
      BY <1>0, <2>1, <3>4 DEF DiscDone, LinkOnly, Linked, LinkedStates, GapType
    <3>. QED
      BY <1>4, <3>1, <3>2, <3>3, <3>4
  <2>4. evq' \in Seq(EvType) /\ Len(evq') = 1 /\ ~ConnectOK(evq'[1])
    <3>1. PICK t \in {"term_failure", "mtu", "disc"},
               st \in {"EFAIL", "OK", "EDONE"} :
              evq' = <<Ev(t, gap.h, st, gap.disc)>>
              \/ evq' = <<Ev(t, gap.h, st, 0)>>
      BY <2>3
    <3>2. /\ Ev(t, gap.h, st, gap.disc) \in EvType
          /\ Ev(t, gap.h, st, 0) \in EvType
          /\ ~ConnectOK(Ev(t, gap.h, st, gap.disc))
          /\ ~ConnectOK(Ev(t, gap.h, st, 0))
      BY <1>0 DEF GapType, Ev, EvType, EvTypes, Codes, ConnectOK
    <3>3. CASE evq' = <<Ev(t, gap.h, st, gap.disc)>>
      BY <3>2, <3>3, OneEvent
    <3>4. CASE evq' = <<Ev(t, gap.h, st, 0)>>
      BY <3>2, <3>4, OneEvent
    <3>. QED
      BY <3>1, <3>3, <3>4
  <2>5. \A i \in 1 .. Len(evq') : ~ConnectOK(evq'[i])
    BY <2>4
  <2>6. client = "alive" /\ connHandle # NONE =>
            gap'.st \in LinkedStates /\ gap'.h = connHandle
    BY <2>2, <2>3
  <2>. QED
    BY <2>1, <2>3, <2>4, <2>5, <2>6, ReadyStep
<1>5. CASE Sync
  <2>1. UNCHANGED <<client, connHandle, host, evq, gap, calls>>
    BY <1>5 DEF Sync
  <2>. QED
    BY <1>0, <2>1, LinkUntouched
<1>. QED
  BY <1>1, <1>2, <1>3, <1>4, <1>5


(***************************************************************************)
(* The host task's steps: handleGapEvent and serviceDiscoveredCB.          *)
(***************************************************************************)

\* The host task finishes an event other than DISCONNECT without touching
\* the handle or the pending events, and without making or breaking a link.
LEMMA HostFinish ==
    ASSUME IInv, host.ev.t # "disconnect",
           host' = Idle, client' \in {client, "freed"},
           UNCHANGED <<connHandle, evq, calls>>,
           gap' \in GapType, gap'.h = gap.h,
           gap'.st \in LinkedStates <=> gap.st \in LinkedStates
    PROVE  IInv'
<1>1. Idle.pc = "idle" /\ Idle.ev \in EvType
  BY DEF Idle, NoEvent, Ev, EvType, EvTypes, Codes
<1>. QED
  BY <1>1 DEF IInv, LinkTypes, KnownConnectionIsLive, ConnectEventsLinked,
     DisconnectPending, Linked, LinkedStates

\* Taking the next event off the queue, into the host task or into
\* serviceDiscoveredCB, keeps every pending DISCONNECT and CONNECT pending.
LEMMA PopFacts ==
    ASSUME NEW s \in Seq(EvType), s # <<>>
    PROVE  /\ Head(s) = s[1] /\ Head(s) \in EvType
           /\ Tail(s) \in Seq(EvType)
           /\ \A i \in 2 .. Len(s) : i - 1 \in 1 .. Len(Tail(s))
                                     /\ Tail(s)[i - 1] = s[i]
           /\ \A j \in 1 .. Len(Tail(s)) : j + 1 \in 1 .. Len(s)
                                           /\ Tail(s)[j] = s[j + 1]
BY HeadTailProperties

LEMMA HostBeginIInv ==
    ASSUME IInv, HostBegin
    PROVE  IInv'
<1>1. /\ evq \in Seq(EvType) /\ evq # <<>> /\ host.pc = "idle"
      /\ host' = [pc |-> "busy", ev |-> Head(evq), copy |-> pTaskData]
      /\ evq' = Tail(evq)
      /\ UNCHANGED <<client, connHandle, gap, calls>>
  BY DEF HostBegin, IInv, LinkTypes
<1>2. /\ Head(evq) = evq[1] /\ Head(evq) \in EvType
      /\ Tail(evq) \in Seq(EvType)
      /\ \A i \in 2 .. Len(evq) : i - 1 \in 1 .. Len(Tail(evq))
                                  /\ Tail(evq)[i - 1] = evq[i]
      /\ \A j \in 1 .. Len(Tail(evq)) : j + 1 \in 1 .. Len(evq)
                                        /\ Tail(evq)[j] = evq[j + 1]
  BY <1>1, PopFacts
<1>3. LinkTypes'
  BY <1>1, <1>2 DEF IInv, LinkTypes
<1>4. KnownConnectionIsLive'
  BY <1>1, <1>2 DEF IInv, LinkTypes, KnownConnectionIsLive, DisconnectPending,
     Linked
<1>5. ConnectEventsLinked'
  BY <1>1, <1>2 DEF IInv, ConnectEventsLinked, Linked
<1>. QED
  BY <1>3, <1>4, <1>5 DEF IInv

LEMMA DiscoveredCBIInv ==
    ASSUME IInv, DiscoveredCB
    PROVE  IInv'
<1>1. /\ evq \in Seq(EvType) /\ evq # <<>> /\ Head(evq).t = "disc"
      /\ host.pc = "idle"
      /\ evq' = Tail(evq)
      /\ UNCHANGED <<client, connHandle, gap, host, calls>>
  BY DEF DiscoveredCB, IInv, LinkTypes
<1>2. /\ Head(evq) = evq[1]
      /\ Tail(evq) \in Seq(EvType)
      /\ \A i \in 2 .. Len(evq) : i - 1 \in 1 .. Len(Tail(evq))
                                  /\ Tail(evq)[i - 1] = evq[i]
      /\ \A j \in 1 .. Len(Tail(evq)) : j + 1 \in 1 .. Len(evq)
                                        /\ Tail(evq)[j] = evq[j + 1]
  BY <1>1, PopFacts
<1>3. LinkTypes'
  BY <1>1, <1>2 DEF IInv, LinkTypes
<1>4. KnownConnectionIsLive'
  <2> SUFFICES ASSUME client = "alive", connHandle # NONE,
                      ~(Linked /\ gap.h = connHandle)
               PROVE  \E j \in 1 .. Len(evq') :
                         evq'[j].t = "disconnect" /\ evq'[j].h = connHandle
    BY <1>1 DEF KnownConnectionIsLive, DisconnectPending, Linked
  <2>1. PICK i \in 1 .. Len(evq) :
            evq[i].t = "disconnect" /\ evq[i].h = connHandle
    BY <1>1 DEF IInv, KnownConnectionIsLive, DisconnectPending, Linked
  <2>2. i \in 2 .. Len(evq)
    BY <1>1, <1>2, <2>1
  <2>. QED
    BY <1>1, <1>2, <2>1, <2>2
<1>5. ConnectEventsLinked'
  BY <1>1, <1>2 DEF IInv, ConnectEventsLinked, Linked
<1>. QED
  BY <1>3, <1>4, <1>5 DEF IInv


LEMMA HostFreedIInv ==
    ASSUME IInv, HostFreed
    PROVE  IInv'
<1>1. /\ client = "freed" /\ host' = Idle
      /\ UNCHANGED <<client, connHandle, evq, gap, calls>>
  BY DEF HostFreed
<1>2. Idle.pc = "idle" /\ Idle.ev \in EvType
  BY DEF Idle, NoEvent, Ev, EvType, EvTypes, Codes
<1>. QED
  BY <1>1, <1>2 DEF IInv, LinkTypes, KnownConnectionIsLive,
     ConnectEventsLinked, Linked

\* BLE_GAP_EVENT_MTU and BLE_GAP_EVENT_TERM_FAILURE.
LEMMA MtuTermIInv ==
    ASSUME IInv, OnMtu \/ OnTermFailure
    PROVE  IInv'
<1>1. gap \in GapType
  BY DEF IInv, LinkTypes
<1>2. /\ host.ev.t \in {"mtu", "term_failure"} /\ host' = Idle
      /\ UNCHANGED <<client, connHandle, evq, calls>>
      /\ gap' \in {gap, Terminate(gap, host.ev.h),
                   [gap EXCEPT !.st = IF Linked THEN "reset" ELSE @]}
  BY DEF OnMtu, OnTermFailure, Handling
<1>3. LET g == [gap EXCEPT !.st = IF Linked THEN "reset" ELSE @]
      IN  g \in GapType /\ g.h = gap.h
          /\ (g.st \in LinkedStates <=> gap.st \in LinkedStates)
  BY <1>1 DEF GapType, GapStates, Linked, LinkedStates
<1>. QED
  BY <1>1, <1>2, <1>3, TerminateKeepsLink, HostFinish

\* BLE_GAP_EVENT_CONNECT.
LEMMA OnConnectIInv ==
    ASSUME IInv, OnConnect
    PROVE  IInv'
<1> DEFINE e == host.ev
<1>1. /\ gap \in GapType /\ e \in EvType /\ calls \in Nat
      /\ host.pc = "busy" /\ e.t = "connect" /\ host' = Idle
      /\ UNCHANGED <<evq, calls>>
  BY DEF OnConnect, Handling, IInv, LinkTypes
<1>2. Idle.pc = "idle" /\ Idle.ev \in EvType
  BY DEF Idle, NoEvent, Ev, EvType, EvTypes, Codes
<1>3. CASE connHandle # NONE \/ (~config.async /\ pTaskData = 0)
  \* The connection nobody waits for is terminated.
  <2>1. gap' = Terminate(gap, e.h) /\ UNCHANGED <<client, connHandle>>
    BY <1>3 DEF OnConnect
  <2>. QED
    BY <1>1, <2>1, TerminateKeepsLink, HostFinish
<1>4. CASE ~(connHandle # NONE \/ (~config.async /\ pTaskData = 0))
           /\ e.st = "OK"
  \* The client takes the handle of the connection NimBLE holds.
  <2>1. Linked /\ gap.h = e.h
    BY <1>1, <1>4 DEF IInv, ConnectEventsLinked, ConnectOK
  <2>2. /\ connHandle' = e.h /\ UNCHANGED client
        /\ gap' \in {gap, [gap EXCEPT !.mtu = TRUE]}
    BY <1>4 DEF OnConnect
  <2>3. gap' \in GapType /\ gap'.st = gap.st /\ gap'.h = gap.h
    BY <1>1, <2>2 DEF GapType
  <2>. QED
    BY <1>1, <1>2, <2>1, <2>2, <2>3
    DEF IInv, LinkTypes, KnownConnectionIsLive, ConnectEventsLinked, Linked,
        EvType
<1>5. CASE ~(connHandle # NONE \/ (~config.async /\ pTaskData = 0))
           /\ e.st # "OK"
  \* The attempt failed: the client is left without a handle.
  <2>1. connHandle' = NONE /\ client' \in {client, "freed"} /\ UNCHANGED gap
    BY <1>5 DEF OnConnect
  <2>. QED
    BY <1>1, <1>2, <2>1
    DEF IInv, LinkTypes, KnownConnectionIsLive, ConnectEventsLinked, Linked
<1>. QED
  BY <1>3, <1>4, <1>5

\* BLE_GAP_EVENT_DISCONNECT.
LEMMA OnDisconnectIInv ==
    ASSUME IInv, OnDisconnect
    PROVE  IInv'
<1> DEFINE e == host.ev
<1>1. /\ host.pc = "busy" /\ e.t = "disconnect" /\ host' = Idle
      /\ UNCHANGED <<evq, gap, calls>>
  BY DEF OnDisconnect, Handling
<1>2. Idle.pc = "idle" /\ Idle.ev \in EvType
  BY DEF Idle, NoEvent, Ev, EvType, EvTypes, Codes
<1>3. CASE connHandle # e.h
  \* Another connection's DISCONNECT: the client's own is still pending.
  <2>1. UNCHANGED <<client, connHandle>>
    BY <1>3 DEF OnDisconnect
  <2>. QED
    BY <1>1, <1>2, <1>3, <2>1
    DEF IInv, LinkTypes, KnownConnectionIsLive, ConnectEventsLinked,
        DisconnectPending, Linked
<1>4. CASE connHandle = e.h
  <2>1. connHandle' = NONE /\ client' \in {client, "freed"}
    BY <1>4 DEF OnDisconnect
  <2>. QED
    BY <1>1, <1>2, <2>1
    DEF IInv, LinkTypes, KnownConnectionIsLive, ConnectEventsLinked, Linked
<1>. QED
  BY <1>3, <1>4

(***************************************************************************)
(* The theorem.                                                            *)
(***************************************************************************)

LEMMA NextIInv ==
    ASSUME IInv, [Next]_vars
    PROVE  IInv'
<1>1. CASE UNCHANGED vars
  BY <1>1 DEF vars, IInv, LinkTypes, KnownConnectionIsLive,
     ConnectEventsLinked, DisconnectPending, Linked
<1>2. CASE HostStep
  BY <1>2, HostBeginIInv, HostFreedIInv, OnConnectIInv, OnDisconnectIInv,
     MtuTermIInv, DiscoveredCBIInv DEF HostStep
<1>. QED
  BY <1>1, <1>2, AppStepsIInv, LinkStepsIInv DEF Next

\* m_connHandle is kept true to the link (KnownConnectionIsLive): while a
\* live client believes it is connected, NimBLE holds that connection, or
\* its DISCONNECT is queued or being handled by handleGapEvent.  This is
\* what the DISCONNECT handler's m_connHandle = BLE_HS_CONN_HANDLE_NONE and
\* the CONNECT handler's "drop what nobody waits for" guard achieve.
THEOREM ConnHandleTracksLink == Spec => []KnownConnectionIsLive
<1>1. Init => IInv
  BY InitIInv
<1>2. IInv /\ [Next]_vars => IInv'
  BY NextIInv
<1>3. IInv => KnownConnectionIsLive
  BY DEF IInv
<1>. QED
  BY <1>1, <1>2, <1>3, PTL DEF Spec

=============================================================================
