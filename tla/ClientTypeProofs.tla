--------------------------- MODULE ClientTypeProofs ---------------------------
(***************************************************************************)
(* Proof that BLEClient's state keeps its type.  The inductive invariant  *)
(* also shows that, on the getServices(true) path modelled here, m_svcVec *)
(* never holds more services than one discovery reports: getServices(true)*)
(* empties it before each discovery, and every service serviceDiscoveredCB*)
(* appends belongs to the discovery in progress.  (getService(uuid), not  *)
(* modelled, appends to the vector on purpose.)                           *)
(* That takes an argument about the stack frames: the BLETaskData the     *)
(* application waits on during a discovery is released only by that       *)
(* discovery's last callback, never by handleGapEvent's stale copy of     *)
(* m_pTaskData, so the application cannot start another discovery while   *)
(* a service of this one is still on its way.                              *)
(***************************************************************************)
EXTENDS ClientProofs

USE ClientAssumption

(* A service found by the peer waits in evq for serviceDiscoveredCB.       *)
FoundEv(e) == e.t = "disc" /\ e.st = "OK"
FoundPending == \E i \in 1 .. Len(evq) : FoundEv(evq[i])

(* Every frame index in use was handed out by an earlier call.             *)
FramesIssued ==
    /\ gap.disc <= calls /\ host.copy <= calls /\ pTaskData <= calls
    /\ \A i \in 1 .. Len(evq) : evq[i].f <= calls
    /\ app.pc \in {"idle", "discWait"} => pTaskData = 0

(* While a discovery runs, the application waits on its frame, which only *)
(* the discovery's last callback may notify; the services counted so far  *)
(* and the one pending are among those the peer reported.                  *)
DiscoveryInv ==
    /\ svcs \in 0 .. MaxSvcs
    /\ gap.found \in 0 .. MaxSvcs
    /\ FoundPending => Len(evq) = 1 /\ gap.disc # 0
    /\ gap.disc # 0 =>
          /\ svcs + (IF FoundPending THEN 1 ELSE 0) <= gap.found
          /\ app.pc = "discWait" /\ app.f = gap.disc
          /\ ~frame[gap.disc].notified
          /\ host.copy # gap.disc
          /\ \A i \in 1 .. Len(evq) :
                evq[i].t = "disc" /\ evq[i].f = gap.disc => evq[i].st = "OK"

(* The inductive invariant behind TypeOK, with IInv of ClientProofs.      *)
TInv == TypeOK /\ FramesIssued /\ DiscoveryInv

FrameType == [st : {"unused", "live", "popped"}, flags : Codes,
              notified : BOOLEAN]
ConfigType == [async : BOOLEAN, mtu : BOOLEAN, delDisc : BOOLEAN,
               delFail : BOOLEAN]
AppPcs == {"idle", "connWait", "connPost", "discWait"}
Results == {"none", "refused", "busy", "true", "false"}
FaultSet == {"client_uaf", "stale_frame"}

LEMMA InitTInv == Init => TInv
<1> SUFFICES ASSUME Init PROVE TInv
  OBVIOUS
<1>1. Unused \in [st : {"unused", "live", "popped"}, flags : Codes,
                  notified : BOOLEAN]
  BY DEF Unused, Codes
<1>2. TypeOK
  BY <1>1 DEF Init, TypeOK
<1>3. FramesIssued /\ DiscoveryInv
  BY DEF Init, FramesIssued, DiscoveryInv, FoundPending
<1>. QED
  BY <1>2, <1>3 DEF TInv

(***************************************************************************)
(* Lemmas about the operators the steps are built from.                    *)
(***************************************************************************)

\* taskRelease writes one frame, and keeps the frames typed.
LEMMA ReleasedFacts ==
    ASSUME NEW fr \in [Frames -> FrameType], NEW f \in Nat, NEW rc \in Codes
    PROVE  /\ Released(fr, f, rc) \in [Frames -> FrameType]
           /\ \A g \in Frames : g # f => Released(fr, f, rc)[g] = fr[g]
<1>1. CASE f \in Frames
  <2>1. f # 0
    BY <1>1 DEF Frames
  <2>2. Released(fr, f, rc)
           = [fr EXCEPT ![f] = [fr[f] EXCEPT !.flags = rc, !.notified = TRUE]]
    BY <2>1, Zenon DEF Released
  <2>3. [fr[f] EXCEPT !.flags = rc, !.notified = TRUE] \in FrameType
    BY <1>1, Zenon DEF FrameType
  <2>. QED
    BY <1>1, <2>2, <2>3, Zenon
<1>2. CASE f \notin Frames
  BY <1>2, Zenon DEF Released
<1>. QED
  BY <1>1, <1>2

\* A blocking call pushes a fresh BLETaskData onto the application's stack.
LEMMA FreshFrame ==
    ASSUME NEW fr \in [Frames -> FrameType], NEW n \in Frames
    PROVE  LET fr2 == [fr EXCEPT ![n] = [st |-> "live", flags |-> "OK",
                                          notified |-> FALSE]]
           IN  /\ fr2 \in [Frames -> FrameType]
               /\ ~fr2[n].notified
BY DEF FrameType, Codes

\* The fields of a pending event.
LEMMA EvqFields ==
    ASSUME NEW s \in Seq(EvType)
    PROVE  \A i \in 1 .. Len(s) : /\ s[i] \in EvType /\ s[i].f \in Nat
                                  /\ s[i].st \in Codes
<1>1. \A i \in 1 .. Len(s) : s[i] \in EvType
  BY ElementOfSeq
<1>. QED
  BY <1>1 DEF EvType

LEMMA FaultsTyped ==
    ASSUME NEW f
    PROVE  Touch \subseteq FaultSet /\ Stale(f) \subseteq FaultSet
BY DEF Touch, Stale, FaultSet

\* A found service is only ever alone in evq, so the callback that pops an
\* event leaves none pending.
LEMMA PopFound ==
    ASSUME NEW s \in Seq(EvType), s # <<>>,
           (\E i \in 1 .. Len(s) : FoundEv(s[i])) => Len(s) = 1
    PROVE  ~\E j \in 1 .. Len(Tail(s)) : FoundEv(Tail(s)[j])
<1>1. Len(Tail(s)) = Len(s) - 1
      /\ \A j \in 1 .. Len(Tail(s)) : j + 1 \in 1 .. Len(s)
                                      /\ Tail(s)[j] = s[j + 1]
  BY PopFacts, HeadTailProperties
<1>. QED
  BY <1>1

\* The frame, client and counters the discovery argument does not read.
LEMMA DiscUntouched ==
    ASSUME TInv, IInv',
           UNCHANGED <<pTaskData, frame, svcs, app, host, evq, calls>>,
           gap'.disc = gap.disc, gap'.found = gap.found,
           config' \in ConfigType, termFails' \in Nat, synced' \in BOOLEAN,
           result' \in Results, faults' \subseteq FaultSet
    PROVE  TInv'
<1>1. TypeOK'
  BY DEF TInv, TypeOK, IInv, LinkTypes, GapType, GapStates, ConfigType,
     Results, FaultSet
<1>2. FramesIssued' /\ DiscoveryInv'
  BY DEF TInv, FramesIssued, DiscoveryInv, FoundPending
<1>. QED
  BY <1>1, <1>2 DEF TInv

(* While the application task is not waiting for a discovery, none runs.   *)
LEMMA NoDiscovery ==
    ASSUME TInv, app.pc # "discWait"
    PROVE  gap.disc = 0 /\ ~FoundPending
BY DEF TInv, DiscoveryInv

(***************************************************************************)
(* The application task's steps.                                           *)
(***************************************************************************)

\* A call starts from an idle task: no discovery runs, and m_pTaskData is
\* null.
LEMMA CallFacts ==
    ASSUME IInv, TInv, AppReady
    PROVE  /\ calls \in Nat /\ calls + 1 \in Frames
           /\ pTaskData = 0 /\ gap.disc = 0 /\ ~FoundPending
           /\ gap \in GapType /\ evq \in Seq(EvType)
BY NoDiscovery DEF AppReady, TInv, TypeOK, FramesIssued, Frames, IInv,
   LinkTypes

LEMMA ConnectTInv ==
    ASSUME IInv, IInv', TInv,
           NEW async \in BOOLEAN, NEW mtu \in BOOLEAN, Connect(async, mtu)
    PROVE  TInv'
<1>1. /\ calls \in Nat /\ calls + 1 \in Frames
      /\ pTaskData = 0 /\ gap.disc = 0 /\ ~FoundPending
      /\ gap \in GapType /\ evq \in Seq(EvType)
  BY CallFacts DEF Connect
<1>2. /\ calls' = calls + 1
      /\ UNCHANGED <<client, connHandle, termFails, synced, host, evq, faults>>
  BY Zenon DEF Connect
<1>3. config \in ConfigType /\ result \in Results
  BY DEF TInv, TypeOK, ConfigType, Results
\* What each branch leaves of the state the invariant reads.
<1>4. /\ config' \in ConfigType /\ result' \in Results
      /\ gap'.disc = gap.disc /\ gap'.found = gap.found
      /\ gap'.st \in GapStates /\ gap'.h = gap.h
      /\ svcs' \in {svcs, 0}
      /\ \/ UNCHANGED <<pTaskData, app, frame>>
         \/ /\ pTaskData' = calls + 1
            /\ app' = [pc |-> "connWait", f |-> calls + 1]
            /\ frame' = [frame EXCEPT ![calls + 1] =
                           [st |-> "live", flags |-> "OK", notified |-> FALSE]]
  <2>1. CASE ConnectRefused
    <3>1. result' = "refused" /\ UNCHANGED <<config, pTaskData, frame, svcs, app, gap>>
      BY <2>1, Zenon DEF Connect
    <3>. QED
      BY <1>1, <1>3, <3>1 DEF Results, GapType
  <2>2. CASE ~ConnectRefused /\ gap.st \in {"connecting", "cancelling"}
    <3>1. result' = "busy" /\ svcs' = 0
          /\ config' = ConnectConfig(async, mtu)
          /\ UNCHANGED <<pTaskData, frame, app, gap>>
      BY <2>2, Zenon DEF Connect
    <3>2. config' \in ConfigType
      BY <1>3, <3>1, Zenon DEF ConnectConfig, ConfigType
    <3>. QED
      BY <1>1, <3>1, <3>2 DEF Results, GapType
  <2>3. CASE ~ConnectRefused /\ gap.st \notin {"connecting", "cancelling"}
    <3>1. /\ svcs' = 0
          /\ gap' = [gap EXCEPT !.st = "connecting"]
          /\ \/ result' = "true" /\ UNCHANGED <<pTaskData, frame, app>>
             \/ /\ pTaskData' = calls + 1
                /\ frame' = [frame EXCEPT ![calls + 1] =
                               [st |-> "live", flags |-> "OK", notified |-> FALSE]]
                /\ app' = [pc |-> "connWait", f |-> calls + 1]
                /\ UNCHANGED result
      BY <2>3, Zenon DEF Connect
    <3>2. config' \in ConfigType
      BY <1>3, <2>3, Zenon DEF Connect, ConnectConfig, ConfigType
    <3>3. gap'.disc = gap.disc /\ gap'.found = gap.found
          /\ gap'.st \in GapStates /\ gap'.h = gap.h
      BY <1>1, <3>1 DEF GapType, GapStates
    <3>. QED
      BY <1>3, <3>1, <3>2, <3>3 DEF Results
  <2>. QED
    BY <2>1, <2>2, <2>3
<1>5. frame' \in [Frames -> FrameType]
  <2>1. frame \in [Frames -> FrameType]
    BY DEF TInv, TypeOK, FrameType
  <2>. QED
    BY <1>1, <1>4, <2>1, FreshFrame
<1>6. TypeOK'
  BY <1>1, <1>2, <1>4, <1>5 DEF TInv, TypeOK, IInv, LinkTypes, GapType,
     GapStates, Frames, ConfigType, Results, FrameType
<1>7. FramesIssued'
  <2>1. host.copy <= calls /\ \A i \in 1 .. Len(evq) : evq[i].f <= calls
    BY DEF TInv, FramesIssued
  <2>2. host.copy \in Nat
    BY DEF TInv, TypeOK, Frames
  <2>3. \A i \in 1 .. Len(evq) : evq[i].f \in Nat
    BY <1>1, EvqFields
  <2>. QED
    BY <1>1, <1>2, <1>4, <2>1, <2>2, <2>3 DEF FramesIssued
<1>8. DiscoveryInv'
  <2>1. ~FoundPending' /\ gap.found \in 0 .. MaxSvcs /\ svcs \in 0 .. MaxSvcs
    BY <1>1, <1>2 DEF FoundPending, TInv, DiscoveryInv
  <2>2. svcs' \in 0 .. MaxSvcs
    BY <1>4, <2>1
  <2>. QED
    BY <1>1, <1>4, <2>1, <2>2 DEF DiscoveryInv
<1>. QED
  BY <1>6, <1>7, <1>8 DEF TInv

LEMMA DiscoverTInv ==
    ASSUME IInv, IInv', TInv, Discover
    PROVE  TInv'
<1>1. /\ calls \in Nat /\ calls + 1 \in Frames
      /\ pTaskData = 0 /\ gap.disc = 0 /\ ~FoundPending
      /\ gap \in GapType /\ evq \in Seq(EvType)
  BY CallFacts DEF Discover
<1>2. /\ calls' = calls + 1 /\ svcs' = 0
      /\ UNCHANGED <<config, pTaskData, termFails, synced, result, host, evq,
                     faults>>
  BY DEF Discover
<1>3. /\ host.copy \in Nat /\ host.copy <= calls
      /\ \A i \in 1 .. Len(evq) : evq[i].f \in Nat /\ evq[i].f <= calls
      /\ frame \in [Frames -> FrameType] /\ gap.found \in 0 .. MaxSvcs
  BY <1>1, EvqFields DEF TInv, TypeOK, FramesIssued, DiscoveryInv, Frames,
     FrameType
<1>4. ~FoundPending'
  BY <1>1, <1>2 DEF FoundPending
<1>5. CASE connHandle # NONE /\ Linked /\ gap.h = connHandle
  <2>1. /\ frame' = [frame EXCEPT ![calls + 1] =
                       [st |-> "live", flags |-> "OK", notified |-> FALSE]]
        /\ app' = [pc |-> "discWait", f |-> calls + 1]
    BY <1>5 DEF Discover
  <2>2. gap'.disc = calls + 1 /\ gap'.found = 0
    BY <1>1, <1>5 DEF Discover, GapType
  <2>3. frame' \in [Frames -> FrameType] /\ ~frame'[calls + 1].notified
    BY <1>1, <1>3, <2>1, FreshFrame
  <2>4. TypeOK'
    BY <1>1, <1>2, <1>3, <2>1, <2>3 DEF TInv, TypeOK, IInv, LinkTypes,
       GapType, GapStates, Frames, FrameType
  <2>5. FramesIssued'
    BY <1>1, <1>2, <1>3, <2>1, <2>2 DEF FramesIssued
  <2>6. DiscoveryInv'
    BY <1>1, <1>2, <1>3, <1>4, <2>1, <2>2, <2>3 DEF DiscoveryInv
  <2>. QED
    BY <2>4, <2>5, <2>6 DEF TInv
<1>6. CASE ~(connHandle # NONE /\ Linked /\ gap.h = connHandle)
  <2>1. UNCHANGED <<frame, gap, app>>
    BY <1>6 DEF Discover
  <2>2. TypeOK'
    BY <1>1, <1>2, <2>1 DEF TInv, TypeOK, IInv, LinkTypes, Frames
  <2>3. FramesIssued'
    BY <1>1, <1>2, <1>3, <2>1 DEF TInv, FramesIssued
  <2>4. DiscoveryInv'
    BY <1>1, <1>2, <1>3, <1>4, <2>1 DEF DiscoveryInv
  <2>. QED
    BY <2>2, <2>3, <2>4 DEF TInv
<1>. QED
  BY <1>5, <1>6

\* retrieveServices returns only once its frame is notified, and no
\* discovery is left running then.
LEMMA DiscoverWakeTInv ==
    ASSUME IInv, IInv', TInv, DiscoverWake
    PROVE  TInv'
<1>1. app.pc = "discWait" /\ frame[app.f].notified
  BY DEF DiscoverWake
<1>2. gap.disc = 0
  BY <1>1 DEF TInv, DiscoveryInv
<1>3. ~FoundPending /\ pTaskData = 0
  BY <1>1, <1>2 DEF TInv, DiscoveryInv, FramesIssued
<1>4. /\ frame' = [frame EXCEPT ![app.f].st = "popped"]
      /\ app' = [pc |-> "idle", f |-> 0]
      /\ faults' \subseteq FaultSet
      /\ UNCHANGED <<config, pTaskData, termFails, synced, svcs, result, host,
                     gap, evq, calls>>
  BY FaultsTyped, SMTT(15) DEF DiscoverWake, TInv, TypeOK, FaultSet
<1>5. frame' \in [Frames -> FrameType]
  <2>1. frame \in [Frames -> FrameType]
    BY DEF TInv, TypeOK, FrameType
  <2>. QED
    BY <1>4, <2>1 DEF FrameType
<1>6. TypeOK'
  BY <1>4, <1>5 DEF TInv, TypeOK, IInv, LinkTypes, GapType, GapStates,
     FaultSet, FrameType
<1>7. FramesIssued'
  BY <1>2, <1>3, <1>4 DEF TInv, FramesIssued
<1>8. DiscoveryInv'
  BY <1>2, <1>3, <1>4 DEF TInv, DiscoveryInv, FoundPending
<1>. QED
  BY <1>6, <1>7, <1>8 DEF TInv

\* A step of the application task taken while no discovery runs, that
\* leaves the discovery state and the host task alone.
LEMMA NoDiscStep ==
    ASSUME IInv, IInv', TInv, gap.disc = 0, ~FoundPending,
           gap'.disc = 0, gap'.found = gap.found,
           UNCHANGED <<termFails, synced, svcs, host, evq, calls>>,
           pTaskData' \in {pTaskData, 0},
           app' \in [pc : AppPcs, f : Frames \cup {0}],
           app'.pc \in {"idle", "discWait"} => pTaskData' = 0,
           frame' \in [Frames -> FrameType],
           config' \in ConfigType, result' \in Results,
           faults' \subseteq FaultSet
    PROVE  TInv'
<1>1. TypeOK'
  BY DEF TInv, TypeOK, IInv, LinkTypes, GapType, GapStates, AppPcs,
     FrameType, ConfigType, Results, FaultSet
<1>2. FramesIssued'
  BY DEF TInv, TypeOK, FramesIssued, Frames
<1>3. DiscoveryInv'
  BY DEF TInv, DiscoveryInv, FoundPending
<1>. QED
  BY <1>1, <1>2, <1>3 DEF TInv

\* The connect() steps after the wait run with no discovery in progress.
LEMMA ConnectWaitTInv ==
    ASSUME IInv, IInv', TInv, ConnectWake \/ ConnectTimeout \/ ConnectPost
    PROVE  TInv'
<1>1. app.pc \in {"connWait", "connPost"}
  BY DEF ConnectWake, ConnectTimeout, ConnectPost
<1>2. gap.disc = 0 /\ ~FoundPending /\ gap \in GapType
  BY <1>1, NoDiscovery DEF IInv, LinkTypes
<1>3. /\ frame \in [Frames -> FrameType] /\ config \in ConfigType
      /\ result \in Results /\ faults \subseteq FaultSet
      /\ app \in [pc : AppPcs, f : Frames \cup {0}]
      /\ Touch \subseteq FaultSet
  BY FaultsTyped DEF TInv, TypeOK, FrameType, ConfigType, Results, FaultSet,
     AppPcs
<1>4. CASE ConnectWake
  <2>1. /\ app' = [app EXCEPT !.pc = "connPost"]
        /\ UNCHANGED <<config, pTaskData, frame, termFails, synced, svcs,
                       result, host, gap, evq, calls, faults>>
    BY <1>4 DEF ConnectWake
  <2>. QED
    BY <1>2, <1>3, <2>1, NoDiscStep DEF AppPcs
<1>5. CASE ConnectTimeout
  <2>1. /\ app' = [app EXCEPT !.pc = "connPost"]
        /\ faults' = faults \cup Touch
        /\ \E rc \in {"OK", "ETIMEOUT"} :
              frame' = [frame EXCEPT ![app.f].flags = rc]
        /\ gap' \in {gap, Cancel(gap)}
        /\ UNCHANGED <<config, pTaskData, termFails, synced, svcs, result,
                       host, evq, calls>>
    BY <1>5 DEF ConnectTimeout
  <2>2. frame' \in [Frames -> FrameType]
    <3>1. PICK rc \in {"OK", "ETIMEOUT"} :
                 frame' = [frame EXCEPT ![app.f].flags = rc]
      BY <2>1
    <3>2. rc \in Codes
      BY DEF Codes
    <3>. QED
      BY <1>3, <3>1, <3>2 DEF FrameType
  <2>3. gap'.disc = gap.disc /\ gap'.found = gap.found
    BY <1>2, <2>1 DEF Cancel, GapType
  <2>. QED
    BY <1>2, <1>3, <2>1, <2>2, <2>3, NoDiscStep DEF AppPcs
<1>6. CASE ConnectPost
  <2>1. /\ pTaskData' = 0
        /\ frame' = [frame EXCEPT ![app.f].st = "popped"]
        /\ app' = [pc |-> "idle", f |-> 0]
        /\ faults' = faults \cup Touch
        /\ result' \in Results
        /\ config' \in {config, [config EXCEPT !.delDisc = TRUE]}
        /\ gap' \in {gap, Terminate(gap, connHandle)}
        /\ UNCHANGED <<termFails, synced, svcs, host, evq, calls>>
    BY <1>6 DEF ConnectPost, DeleteClient, Results
  <2>2. frame' \in [Frames -> FrameType] /\ config' \in ConfigType
    BY <1>3, <2>1, ZenonT(20) DEF FrameType, ConfigType
  <2>3. gap'.disc = gap.disc /\ gap'.found = gap.found
    BY <1>2, <2>1 DEF Terminate, GapType
  <2>. QED
    BY <1>2, <1>3, <2>1, <2>2, <2>3, NoDiscStep DEF AppPcs, Frames
<1>. QED
  BY <1>4, <1>5, <1>6

\* The application's and the host's steps that leave the discovery alone.
LEMMA QuietStepsTInv ==
    ASSUME IInv, IInv', TInv,
           \/ \E d \in SelfDeletes : SetSelfDelete(d[1], d[2])
           \/ Disconnect \/ CancelConnect \/ Sync
    PROVE  TInv'
<1>1. gap \in GapType /\ config \in ConfigType /\ result \in Results
      /\ faults \subseteq FaultSet /\ termFails \in Nat /\ synced \in BOOLEAN
  BY DEF IInv, LinkTypes, TInv, TypeOK, ConfigType, Results, FaultSet
<1>2. CASE \E d \in SelfDeletes : SetSelfDelete(d[1], d[2])
  <2>1. PICK d \in SelfDeletes : SetSelfDelete(d[1], d[2])
    BY <1>2
  <2>2. d[1] \in BOOLEAN /\ d[2] \in BOOLEAN
    BY DEF ClientAssumption
  <2>3. config' \in ConfigType
    BY <1>1, <2>1, <2>2, Zenon DEF SetSelfDelete, ConfigType
  <2>4. UNCHANGED <<client, connHandle, pTaskData, frame, termFails, synced,
                   svcs, app, result, host, gap, evq, calls, faults>>
    BY <2>1, Zenon DEF SetSelfDelete
  <2>. QED
    BY <1>1, <2>3, <2>4, DiscUntouched
<1>3. CASE Disconnect \/ CancelConnect \/ Sync
  <2>1. /\ UNCHANGED <<pTaskData, frame, svcs, app, host, evq, calls, config,
                       termFails, result, faults>>
        /\ synced' \in BOOLEAN
        /\ gap' \in {gap, Terminate(gap, connHandle), Cancel(gap)}
    BY <1>1, <1>3 DEF Disconnect, CancelConnect, Sync
  <2>2. gap'.disc = gap.disc /\ gap'.found = gap.found
    BY <1>1, <2>1 DEF Terminate, Cancel, GapType
  <2>. QED
    BY <1>1, <2>1, <2>2, DiscUntouched
<1>. QED
  BY <1>2, <1>3

(***************************************************************************)
(* The link layer's steps.                                                 *)
(***************************************************************************)

\* A lost connection queues only its DISCONNECT and the discovery's
\* ENOTCONN, neither of them a found service.
LEMMA LossEventsShape ==
    ASSUME NEW g \in GapType, NEW rc \in Codes,
           NEW es \in LossEvents(g, rc)
    PROVE  \A i \in 1 .. Len(es) : es[i] \in {Ev("disc", g.h, "ENOTCONN", g.disc),
                                              Ev("disconnect", g.h, rc, 0)}
<1> DEFINE n == Ev("disc", g.h, "ENOTCONN", g.disc)
           m == Ev("disconnect", g.h, rc, 0)
           d == IF g.disc # 0 THEN <<n>> ELSE <<>>
           x == <<m>>
<1>1. n \in EvType /\ m \in EvType
  BY DEF GapType, Ev, EvType, EvTypes, Codes
<1>2. /\ d \in Seq(EvType) /\ x \in Seq(EvType) /\ Len(d) \in Nat
      /\ Len(x) = 1 /\ x[1] = m
      /\ \A i \in 1 .. Len(d) : d[i] = n
  BY <1>1
<1>3. es = d \o x \/ es = x \o d
  BY DEF LossEvents, d, x, n, m
<1>4. \A i \in 1 .. Len(d) + Len(x) :
         (d \o x)[i] = IF i <= Len(d) THEN d[i] ELSE x[i - Len(d)]
  BY <1>2, ConcatProperties
<1>5. \A i \in 1 .. Len(x) + Len(d) :
         (x \o d)[i] = IF i <= Len(x) THEN x[i] ELSE d[i - Len(x)]
  BY <1>2, ConcatProperties
<1>6. Len(d \o x) = Len(d) + Len(x) /\ Len(x \o d) = Len(x) + Len(d)
  BY <1>2, ConcatProperties
<1>. QED
  BY <1>2, <1>3, <1>4, <1>5, <1>6

\* A step of the link layer starts from an empty queue, and every event it
\* queues carries the frame of the discovery that was running, or none.
LEMMA LinkStepsTInv ==
    ASSUME IInv, IInv', TInv,
           \/ \E h \in Handles : Establish(h)
           \/ EstablishFail \/ CancelDone \/ \E r \in Reasons : LinkLoss(r)
           \/ TermFail \/ MtuDone \/ DiscFound \/ DiscDone
    PROVE  TInv'
<1>1. /\ Ready
      /\ UNCHANGED <<client, connHandle, config, pTaskData, frame, termFails,
                     synced, svcs, app, result, host, calls, faults>>
  BY Zenon DEF Establish, EstablishFail, CancelDone, LinkLoss, TermFail,
     MtuDone, DiscFound, DiscDone, LinkOnly
<1>0. evq = <<>> /\ ~FoundPending
  BY <1>1 DEF Ready, FoundPending
<1>2. gap \in GapType /\ calls \in Nat /\ gap.disc <= calls
      /\ gap.found \in 0 .. MaxSvcs
  BY DEF IInv, LinkTypes, TInv, FramesIssued, DiscoveryInv
<1>3. TypeOK'
  BY <1>1 DEF TInv, TypeOK, IInv, LinkTypes, GapType, GapStates
<1>4. CASE \/ \E h \in Handles : Establish(h)
           \/ EstablishFail \/ CancelDone
  <2>1. gap'.disc = 0 /\ gap'.found = 0
        /\ \E h : \E st \in Codes : evq' = <<Ev("connect", h, st, 0)>>
    <3>1. "OK" \in Codes /\ "EFAIL" \in Codes /\ "EAPP" \in Codes
      BY DEF Codes
    <3>2. CASE \E h \in Handles : Establish(h)
      <4>1. PICK h \in Handles : Establish(h)
        BY <3>2, SMTT(15)
      <4>2. gap' = [Gone EXCEPT !.st = "conn", !.h = h]
            /\ evq' = <<Ev("connect", h, "OK", 0)>>
        BY <4>1 DEF Establish
      <4>3. gap'.disc = 0 /\ gap'.found = 0
        BY <4>2, Zenon DEF Gone
      <4>. QED
        BY <3>1, <4>2, <4>3
    <3>3. CASE EstablishFail \/ CancelDone
      <4>1. gap' = Gone
            /\ \E st \in {"EFAIL", "EAPP"} : evq' = <<Ev("connect", NONE, st, 0)>>
        BY <3>3 DEF EstablishFail, CancelDone
      <4>. QED
        BY <3>1, <4>1 DEF Gone
    <3>. QED
      BY <1>4, <3>2, <3>3
  <2>. QED
    BY <1>0, <1>1, <1>2, <1>3, <2>1 DEF TInv, FramesIssued, DiscoveryInv,
       FoundPending, FoundEv, Ev
<1>5. CASE \E r \in Reasons : LinkLoss(r)
  <2>1. PICK r \in Reasons : LinkLoss(r)
    BY <1>5
  <2>2. gap'.disc = 0 /\ gap'.found = 0 /\ evq' \in LossEvents(gap, LossReason(r))
    BY <2>1 DEF LinkLoss, Gone
  <2>3. \A i \in 1 .. Len(evq') :
           evq'[i] \in {Ev("disc", gap.h, "ENOTCONN", gap.disc),
                        Ev("disconnect", gap.h, LossReason(r), 0)}
    BY <1>2, <2>2, LossReasonCode, LossEventsShape
  <2>. QED
    BY <1>0, <1>1, <1>2, <1>3, <2>2, <2>3 DEF TInv, FramesIssued, DiscoveryInv,
       FoundPending, FoundEv, Ev
<1>6. CASE TermFail \/ MtuDone
  <2>1. gap'.disc = gap.disc /\ gap'.found = gap.found
        /\ \E t \in {"term_failure", "mtu"} : \E st \in Codes :
              evq' = <<Ev(t, gap.h, st, 0)>>
    BY <1>2, <1>6 DEF TermFail, MtuDone, GapType, Codes
  <2>. QED
    BY <1>0, <1>1, <1>2, <1>3, <2>1 DEF TInv, FramesIssued, DiscoveryInv,
       FoundPending, FoundEv, Ev
<1>7. CASE DiscFound
  <2>1. /\ gap.disc # 0 /\ gap.found < MaxSvcs
        /\ gap'.disc = gap.disc /\ gap'.found = gap.found + 1
        /\ evq' = <<Ev("disc", gap.h, "OK", gap.disc)>>
    BY <1>2, <1>7 DEF DiscFound, GapType
  <2>2. svcs <= gap.found /\ svcs \in Nat
    BY <1>0, <1>1, <2>1 DEF TInv, DiscoveryInv, TypeOK
  <2>3. FoundPending' /\ Len(evq') = 1
    BY <2>1 DEF FoundPending, FoundEv, Ev
  <2>. QED
    BY <1>0, <1>1, <1>2, <1>3, <2>1, <2>2, <2>3 DEF TInv, FramesIssued,
       DiscoveryInv, Ev
<1>8. CASE DiscDone
  <2>1. /\ gap'.disc = 0 /\ gap'.found = gap.found
        /\ evq' = <<Ev("disc", gap.h, "EDONE", gap.disc)>>
    BY <1>2, <1>8 DEF DiscDone, GapType
  <2>. QED
    BY <1>0, <1>1, <1>2, <1>3, <2>1 DEF TInv, FramesIssued, DiscoveryInv,
       FoundPending, FoundEv, Ev
<1>. QED
  BY <1>4, <1>5, <1>6, <1>7, <1>8

(***************************************************************************)
(* The host task's steps.                                                  *)
(***************************************************************************)

\* The end of handleGapEvent releases at most the frame of its copy of
\* m_pTaskData, which is never the frame of a running discovery.
LEMMA HandlerTInv ==
    ASSUME IInv, IInv', TInv,
           host' = Idle,
           UNCHANGED <<pTaskData, svcs, app, result, evq, calls>>,
           gap'.disc = gap.disc, gap'.found = gap.found,
           \/ frame' = frame
           \/ \E rc \in Codes : frame' = Released(frame, host.copy, rc),
           config' \in ConfigType, termFails' \in Nat, synced' \in BOOLEAN,
           faults' \subseteq FaultSet
    PROVE  TInv'
<1>1. /\ frame \in [Frames -> FrameType] /\ host.copy \in Nat
      /\ Idle.copy = 0 /\ calls \in Nat
  BY DEF TInv, TypeOK, FrameType, Frames, Idle, IInv, LinkTypes
<1>2. /\ frame' \in [Frames -> FrameType]
      /\ \A g \in Frames : g # host.copy => frame'[g] = frame[g]
  BY <1>1, ReleasedFacts
<1>3. gap.disc # 0 => gap.disc \in Frames /\ gap.disc # host.copy
  BY DEF TInv, TypeOK, DiscoveryInv
<1>4. TypeOK'
  BY <1>1, <1>2 DEF TInv, TypeOK, IInv, LinkTypes, GapType, GapStates,
     FrameType, ConfigType, FaultSet
<1>5. FramesIssued'
  BY <1>1 DEF TInv, TypeOK, FramesIssued
<1>6. DiscoveryInv'
  BY <1>1, <1>2, <1>3 DEF TInv, DiscoveryInv, FoundPending
<1>. QED
  BY <1>4, <1>5, <1>6 DEF TInv

LEMMA HandlersTInv ==
    ASSUME IInv, IInv', TInv,
           HostFreed \/ OnConnect \/ OnDisconnect \/ OnMtu \/ OnTermFailure
    PROVE  TInv'
<1>1. /\ gap \in GapType /\ host.ev \in EvType /\ termFails \in Nat
      /\ config \in ConfigType /\ faults \subseteq FaultSet
      /\ synced \in BOOLEAN
  BY DEF IInv, LinkTypes, TInv, TypeOK, ConfigType, FaultSet
<1>2. /\ Touch \subseteq FaultSet /\ Stale(host.copy) \subseteq FaultSet
      /\ host.ev.st \in Codes /\ "ENOTCONN" \in Codes /\ "OK" \in Codes
  BY <1>1, FaultsTyped DEF EvType, Codes
\* What a handler may do to the link: drop it, close it, or start the MTU
\* exchange; never touch the discovery.
<1>3. ASSUME NEW g, g = gap \/ g = Terminate(gap, host.ev.h)
                     \/ g = [gap EXCEPT !.mtu = TRUE]
      PROVE  g.disc = gap.disc /\ g.found = gap.found
  BY <1>1, <1>3 DEF Terminate, GapType
<1>4. CASE HostFreed
  <2>1. /\ host' = Idle /\ faults' = faults \cup {"client_uaf"}
        /\ UNCHANGED <<config, pTaskData, frame, termFails, synced, svcs, app,
                       result, gap, evq, calls>>
    BY <1>4 DEF HostFreed
  <2>. QED
    BY <1>1, <2>1, HandlerTInv DEF FaultSet
<1>5. CASE OnConnect
  <2>1. /\ host' = Idle
        /\ UNCHANGED <<config, pTaskData, termFails, synced, svcs, app,
                       result, evq, calls>>
        /\ \/ gap' = gap \/ gap' = Terminate(gap, host.ev.h)
           \/ gap' = [gap EXCEPT !.mtu = TRUE]
        /\ \/ frame' = frame /\ faults' = faults
           \/ \E rc \in {"ENOTCONN", "OK", host.ev.st} :
                 /\ frame' = Released(frame, host.copy, rc)
                 /\ faults' = faults \cup Stale(host.copy)
    BY <1>5 DEF OnConnect, Release
  <2>2. gap'.disc = gap.disc /\ gap'.found = gap.found
    BY <2>1, <1>3
  <2>. QED
    BY <1>1, <1>2, <2>1, <2>2, HandlerTInv
<1>6. CASE OnDisconnect
  <2>1. /\ host' = Idle
        /\ UNCHANGED <<pTaskData, svcs, app, result, gap, evq, calls>>
        /\ config' \in {config, [config EXCEPT !.delFail = TRUE]}
        /\ termFails' \in {termFails, 0}
        /\ synced' \in BOOLEAN
        /\ \/ frame' = frame /\ faults' = faults
           \/ frame' = Released(frame, host.copy, host.ev.st)
              /\ faults' = faults \cup Stale(host.copy)
    BY <1>1, <1>6 DEF OnDisconnect, Release
  <2>2. config' \in ConfigType
    BY <1>1, <2>1 DEF ConfigType
  <2>. QED
    BY <1>1, <1>2, <2>1, <2>2, HandlerTInv
<1>7. CASE OnMtu
  <2>1. /\ host' = Idle
        /\ UNCHANGED <<config, pTaskData, termFails, synced, svcs, app,
                       result, gap, evq, calls>>
        /\ \/ frame' = frame /\ faults' = faults
           \/ frame' = Released(frame, host.copy, "OK")
              /\ faults' = faults \cup Stale(host.copy)
    BY <1>7 DEF OnMtu, Release
  <2>. QED
    BY <1>1, <1>2, <2>1, HandlerTInv
<1>8. CASE OnTermFailure
  <2>1. /\ host' = Idle
        /\ UNCHANGED <<config, pTaskData, frame, synced, svcs, app, result,
                       evq, calls, faults>>
        /\ termFails' \in {termFails, termFails + 1}
        /\ \/ gap' = gap \/ gap' = Terminate(gap, host.ev.h)
           \/ gap' = [gap EXCEPT !.st = IF Linked THEN "reset" ELSE @]
    BY <1>8 DEF OnTermFailure
  <2>2. gap'.disc = gap.disc /\ gap'.found = gap.found
    BY <1>1, <1>3, <2>1 DEF GapType
  <2>. QED
    BY <1>1, <2>1, <2>2, HandlerTInv
<1>. QED
  BY <1>4, <1>5, <1>6, <1>7, <1>8

\* Popping the next event keeps every frame index issued and keeps the
\* running discovery's events successful ones, and leaves no found service
\* pending.
LEMMA PopTInv ==
    ASSUME TInv, evq \in Seq(EvType), evq # <<>>, evq' = Tail(evq)
    PROVE  /\ \A i \in 1 .. Len(evq') : evq'[i].f <= calls
           /\ gap.disc # 0 =>
                 \A i \in 1 .. Len(evq') :
                    evq'[i].t = "disc" /\ evq'[i].f = gap.disc
                    => evq'[i].st = "OK"
           /\ ~\E j \in 1 .. Len(evq') : FoundEv(evq'[j])
<1>1. \A j \in 1 .. Len(Tail(evq)) : j + 1 \in 1 .. Len(evq)
                                     /\ Tail(evq)[j] = evq[j + 1]
  BY PopFacts
<1>2. ~\E j \in 1 .. Len(Tail(evq)) : FoundEv(Tail(evq)[j])
  BY PopFound DEF TInv, DiscoveryInv, FoundPending
<1>. QED
  BY <1>1, <1>2 DEF TInv, FramesIssued, DiscoveryInv

LEMMA HostBeginTInv ==
    ASSUME IInv, IInv', TInv, HostBegin
    PROVE  TInv'
<1>1. /\ evq \in Seq(EvType) /\ evq # <<>> /\ Head(evq).t # "disc"
      /\ evq' = Tail(evq) /\ Head(evq) = evq[1]
      /\ host'.copy = pTaskData /\ faults' \subseteq FaultSet
      /\ UNCHANGED <<config, pTaskData, frame, termFails, synced, svcs, app,
                     result, gap, calls>>
  BY PopFacts, FaultsTyped DEF HostBegin, IInv, LinkTypes, TInv, TypeOK,
     FaultSet
<1>2. ~FoundPending
  BY <1>1 DEF TInv, DiscoveryInv, FoundPending, FoundEv
<1>3. ~FoundPending'
  BY <1>1, PopTInv DEF FoundPending
<1>4. gap.disc # 0 => pTaskData # gap.disc
  BY DEF TInv, DiscoveryInv, FramesIssued
<1>5. TypeOK'
  BY <1>1 DEF TInv, TypeOK, IInv, LinkTypes, GapType, GapStates, FaultSet
<1>6. FramesIssued'
  BY <1>1, PopTInv, SMTT(15) DEF TInv, FramesIssued
<1>7. DiscoveryInv'
  BY <1>1, <1>2, <1>3, <1>4, PopTInv DEF TInv, DiscoveryInv
<1>. QED
  BY <1>5, <1>6, <1>7 DEF TInv

\* serviceDiscoveredCB counts a service only while its discovery runs, and
\* releases only the frame of a discovery that has ended.
LEMMA DiscoveredCBTInv ==
    ASSUME IInv, IInv', TInv, DiscoveredCB
    PROVE  TInv'
<1> DEFINE e == Head(evq)
<1>1. /\ evq \in Seq(EvType) /\ evq # <<>> /\ e = evq[1] /\ e \in EvType
      /\ e.t = "disc" /\ evq' = Tail(evq) /\ Len(evq) \in Nat \ {0}
      /\ UNCHANGED <<config, pTaskData, termFails, synced, app, result, host,
                     gap, calls>>
  BY PopFacts, EmptySeq DEF DiscoveredCB, IInv, LinkTypes
<1>2. /\ frame \in [Frames -> FrameType] /\ e.f \in Nat /\ e.st \in Codes
      /\ svcs \in 0 .. MaxSvcs /\ gap.found \in 0 .. MaxSvcs
      /\ faults' \subseteq FaultSet
  BY <1>1, FaultsTyped DEF TInv, TypeOK, FrameType, EvType, DiscoveredCB,
     DiscoveryInv, FaultSet
<1>3. ~FoundPending' /\ FramesIssued'
  BY <1>1, PopTInv DEF FoundPending, TInv, FramesIssued
<1>4. FoundPending <=> e.st = "OK"
  BY <1>1 DEF TInv, DiscoveryInv, FoundPending, FoundEv
<1>5. gap.disc # 0 /\ e.st # "OK" => e.f # gap.disc
  BY <1>1 DEF TInv, DiscoveryInv
<1>6. gap.disc # 0 => gap.disc \in Frames
  BY DEF TInv, TypeOK, DiscoveryInv
<1>7. \/ /\ svcs' = svcs
         /\ \/ frame' = frame
            \/ e.st # "OK" /\ frame' = Released(frame, e.f, e.st)
      \/ /\ e.st = "OK" /\ svcs' = svcs + 1 /\ frame' = frame
  BY DEF DiscoveredCB
<1>8. /\ frame' \in [Frames -> FrameType]
      /\ gap.disc # 0 => frame'[gap.disc] = frame[gap.disc]
  BY <1>2, <1>5, <1>6, <1>7, ReleasedFacts
<1>9. svcs' \in 0 .. MaxSvcs /\ (gap.disc # 0 => svcs' <= gap.found)
  BY <1>2, <1>4, <1>7 DEF TInv, DiscoveryInv
<1>10. TypeOK'
  BY <1>1, <1>2, <1>8, <1>9 DEF TInv, TypeOK, IInv, LinkTypes, GapType,
     GapStates, FrameType, FaultSet
<1>11. DiscoveryInv'
  BY <1>1, <1>3, <1>8, <1>9, PopTInv DEF TInv, DiscoveryInv
<1>. QED
  BY <1>3, <1>10, <1>11 DEF TInv

(***************************************************************************)
(* The theorem.                                                            *)
(***************************************************************************)

LEMMA NextTInv ==
    ASSUME IInv, TInv, [Next]_vars
    PROVE  IInv' /\ TInv'
<1>1. IInv'
  BY NextIInv
<1>2. CASE UNCHANGED vars
  <2>1. UNCHANGED <<client, connHandle, config, pTaskData, frame, termFails,
                   synced, svcs, app, result, host, gap, evq, calls, faults>>
    BY <1>2 DEF vars
  <2>2. TypeOK'
    BY <2>1 DEF TInv, TypeOK
  <2>3. FramesIssued'
    BY <2>1 DEF TInv, FramesIssued
  <2>4. DiscoveryInv'
    BY <2>1 DEF TInv, DiscoveryInv, FoundPending
  <2>. QED
    BY <1>1, <2>2, <2>3, <2>4 DEF TInv
<1>3. CASE AppStep
  BY <1>1, <1>3, DiscoverWakeTInv, ConnectWaitTInv DEF AppStep
<1>4. CASE HostStep
  BY <1>1, <1>4, HostBeginTInv, HandlersTInv, DiscoveredCBTInv DEF HostStep
<1>5. CASE \E async, mtu \in BOOLEAN : Connect(async, mtu)
  BY <1>1, <1>5, ConnectTInv
<1>. QED
  BY <1>1, <1>2, <1>3, <1>4, <1>5, DiscoverTInv, QuietStepsTInv,
     LinkStepsTInv DEF Next

\* BLEClient's variables keep their types (TypeOK), and in particular
\* m_svcVec never holds more services than one discovery reports: the
\* deleteServices of getServices(true) empties it, serviceDiscoveredCB only
\* appends a service of the discovery in progress, and the application
\* cannot start another discovery while one of its services is still
\* queued, because only the discovery's last callback wakes it.
THEOREM ClientTypeCorrect == Spec => []TypeOK
<1>1. Init => IInv /\ TInv
  BY InitIInv, InitTInv
<1>2. IInv /\ TInv /\ [Next]_vars => IInv' /\ TInv'
  BY NextTInv
<1>3. TInv => TypeOK
  BY DEF TInv
<1>. QED
  BY <1>1, <1>2, <1>3, PTL DEF Spec

=============================================================================
