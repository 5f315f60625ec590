--------------------------- MODULE VpnService_proofs ---------------------------
(***************************************************************************)
(* Proof that the app's status is true: CONNECTED only while a thread has   *)
(* an open tunnel, for every number of connections that overlap in any way. *)
(***************************************************************************)
EXTENDS VpnService, TLAPS

(* As much of the types as the proof needs.                                 *)
Shape ==
    /\ pc \in [Threads -> Places]
    /\ object \in [Threads -> Nat]
    /\ service \in Nat /\ registered \subseteq Nat
    /\ serving => service # 0

(* A thread that has not been started has no object and is at no step; the  *)
(* main thread has one when it is about to start a thread.                  *)
Started ==
    /\ \A w \in Workers : object[w] = 0 => pc[w] = "idle"
    /\ pc[Main] = "started" => object[Main] # 0

IInv == Shape /\ Started /\ ConnectedHasTunnel

(* The steps of a thread between the moment it sets the status to CONNECTED *)
(* and the moment it sets it to STOPPED.                                    *)
Holding == {"connected", "tunnel", "returned", "stop", "interrupt", "check", "stopping"}

(* A step of one thread keeps the invariant if it does not take the last    *)
(* holder away while the status is CONNECTED.                               *)
LEMMA ThreadStep ==
    ASSUME NEW t \in Threads, NEW here \in Places \ {"idle"}, NEW there \in Places \ {"started"},
           IInv, Step(t, here, there),
           UNCHANGED <<object, service>>, registered' \subseteq registered,
           serving' => serving,
           \/ status' # "CONNECTED"
           \/ status' = "CONNECTED" /\ t \in Workers /\ there \in Holding
           \/ status' = status /\ (here \in Holding => there \in Holding)
    PROVE  IInv'
<1>1. /\ pc \in [Threads -> Places] /\ object \in [Threads -> Nat]
      /\ Workers \subseteq Threads /\ Main \in Threads /\ Main \notin Workers
  BY ServiceAssumption DEF IInv, Shape, Threads
<1>2. /\ pc[t] = here /\ pc' = [pc EXCEPT ![t] = there]
      /\ pc'[t] = there /\ \A u \in Threads : u # t => pc'[u] = pc[u]
  BY <1>1 DEF Step
<1>3. Shape'
  BY <1>1, <1>2 DEF IInv, Shape
<1>4. Started'
  BY <1>1, <1>2 DEF IInv, Started
<1>5. ConnectedHasTunnel'
  <2>1. CASE status' # "CONNECTED"
    BY <2>1 DEF ConnectedHasTunnel
  <2>2. CASE status' = "CONNECTED" /\ t \in Workers /\ there \in Holding
    BY <1>2, <2>2 DEF ConnectedHasTunnel, Holding
  <2>3. CASE status' = status /\ status = "CONNECTED" /\ (here \in Holding => there \in Holding)
    <3>1. PICK w \in Workers : pc[w] \in Holding
      BY <2>3 DEF IInv, ConnectedHasTunnel, Holding
    <3>2. pc'[w] \in Holding
      BY <1>1, <1>2, <2>3, <3>1
    <3> QED
      BY <3>1, <3>2 DEF ConnectedHasTunnel, Holding
  <2> QED
    BY <2>1, <2>2, <2>3
<1> QED
  BY <1>3, <1>4, <1>5 DEF IInv

(* A step of the main thread that begins at "idle" or is about to start a   *)
(* thread.                                                                 *)
LEMMA MainStep ==
    ASSUME NEW there \in Places, IInv, Step(Main, "idle", there),
           \A w \in Workers : object'[w] = object[w],
           there = "started" => object'[Main] # 0,
           Shape', status' \in {status, "STARTED"}
    PROVE  IInv'
<1>1. /\ pc \in [Threads -> Places] /\ object \in [Threads -> Nat]
      /\ Workers \subseteq Threads /\ Main \in Threads /\ Main \notin Workers
  BY ServiceAssumption DEF IInv, Shape, Threads
<1>2. pc'[Main] = there /\ \A w \in Workers : pc'[w] = pc[w]
  BY <1>1 DEF Step
<1>3. Started'
  BY <1>1, <1>2 DEF IInv, Started
<1>4. ConnectedHasTunnel'
  BY <1>2 DEF IInv, ConnectedHasTunnel
<1> QED
  BY <1>3, <1>4 DEF IInv

(* A step of a thread in its run, or in stop().                             *)
LEMMA RunStep ==
    ASSUME NEW w \in Workers, IInv, Run(w) \/ NoDownstream(w)
    PROVE  IInv'
<1> USE DEF Places, Holding, Threads, android
<1>1. CASE Begin(w)
  BY <1>1, ThreadStep DEF Begin
<1>2. CASE ConnectFails(w)
  BY <1>2, ThreadStep DEF ConnectFails
<1>3. CASE StartTunnel(w)
  BY <1>3, ThreadStep DEF StartTunnel
<1>4. CASE EnterTunnel(w)
  BY <1>4, ThreadStep DEF EnterTunnel
<1>5. CASE TunnelReturns(w)
  BY <1>5, ThreadStep DEF TunnelReturns
<1>6. CASE AfterTunnel(w)
  <2>1. CASE status = "STOPPED"
    BY <1>6, <2>1, ThreadStep DEF AfterTunnel
  <2>2. CASE status # "STOPPED"
    BY <1>6, <2>2, ThreadStep DEF AfterTunnel
  <2> QED
    BY <2>1, <2>2
<1>7. CASE NoDownstream(w)
  BY <1>7, ThreadStep DEF NoDownstream
<1>8. CASE NoDevice(w)
  BY <1>8, ThreadStep DEF NoDevice
<1> QED
  BY <1>1, <1>2, <1>3, <1>4, <1>5, <1>6, <1>7, <1>8 DEF Run

(* A step of stop(), on either kind of thread.                              *)
LEMMA StopStep ==
    ASSUME NEW t \in Threads, IInv, Stop(t)
    PROVE  IInv'
<1> USE DEF Places, Holding, android
<1>1. CASE Unregister(t)
  BY <1>1, ThreadStep DEF Unregister
<1>2. CASE Interrupt(t)
  BY <1>2, ThreadStep DEF Interrupt
<1>3. CASE Check(t)
  BY <1>3, ThreadStep DEF Check
<1>4. CASE ChangeStatus(t)
  BY <1>4, ThreadStep DEF ChangeStatus
<1>5. CASE StopSelf(t)
  <2>1. CASE t = Main
    BY <1>5, <2>1, ThreadStep DEF StopSelf
  <2>2. CASE t # Main
    BY <1>5, <2>2, ThreadStep DEF StopSelf
  <2> QED
    BY <2>1, <2>2
<1> QED
  BY <1>1, <1>2, <1>3, <1>4, <1>5 DEF Stop

(* The steps of the main thread outside of stop().                          *)
LEMMA ButtonStep ==
    ASSUME IInv, Connect \/ Disconnect \/ UpdateUi \/ Resume \/ OnReceive
    PROVE  IInv'
<1>1. /\ pc \in [Threads -> Places] /\ object \in [Threads -> Nat]
      /\ Workers \subseteq Threads /\ Main \in Threads /\ Main \notin Workers
      /\ service \in Nat /\ registered \subseteq Nat /\ (serving => service # 0)
  BY ServiceAssumption DEF IInv, Shape, Threads
<1>2. ASSUME NEW there \in Places, Step(Main, "idle", there),
             UNCHANGED <<object, service, serving, registered>>,
             there # "started", status' = status
      PROVE  IInv'
  <2>1. Shape'
    BY <1>1, <1>2 DEF Step, Shape
  <2> QED
    BY <1>1, <1>2, <2>1, MainStep
<1>3. CASE Connect
  <2>1. /\ Step(Main, "idle", "started") /\ status' = "STARTED"
        /\ service' \in Nat /\ service' # 0 /\ serving'
        /\ registered' \subseteq Nat
        /\ object' = [object EXCEPT ![Main] = service']
    BY <1>1, <1>3 DEF Connect
  <2>2. Shape'
    BY <1>1, <2>1 DEF Step, Shape, Places
  <2>3. object'[Main] # 0 /\ \A w \in Workers : object'[w] = object[w]
    BY <1>1, <2>1
  <2> QED
    BY <2>1, <2>2, <2>3, MainStep DEF Places
<1>4. CASE Disconnect
  BY <1>2, <1>4 DEF Disconnect, Places
<1>5. CASE UpdateUi
  BY <1>2, <1>5 DEF UpdateUi, Places
<1>6. CASE Resume
  BY <1>2, <1>6 DEF Resume, Places
<1>7. CASE OnReceive
  <2>1. UNCHANGED <<status, service, serving, registered>>
    BY <1>7 DEF OnReceive
  <2>2. PICK i \in stops :
          \/ /\ i \in registered /\ Step(Main, "idle", "stop")
             /\ object' = [object EXCEPT ![Main] = i]
          \/ Step(Main, "idle", "idle") /\ UNCHANGED object
    BY <1>7 DEF OnReceive
  <2>3. CASE Step(Main, "idle", "idle") /\ UNCHANGED object
    BY <1>2, <2>1, <2>3 DEF Places
  <2>4. CASE /\ i \in registered /\ Step(Main, "idle", "stop")
             /\ object' = [object EXCEPT ![Main] = i]
    <3>1. Shape'
      BY <1>1, <2>1, <2>4 DEF Step, Shape, Places
    <3>2. \A w \in Workers : object'[w] = object[w]
      BY <1>1, <2>4
    <3> QED
      BY <2>1, <2>4, <3>1, <3>2, MainStep DEF Places
  <2> QED
    BY <2>2, <2>3, <2>4
<1> QED
  BY <1>3, <1>4, <1>5, <1>6, <1>7

(* The start of a thread: the one started held nothing.                     *)
LEMMA StartStep ==
    ASSUME NEW w \in Workers, IInv, StartThread(w)
    PROVE  IInv'
<1>1. /\ pc \in [Threads -> Places] /\ object \in [Threads -> Nat]
      /\ Workers \subseteq Threads /\ Main \in Threads /\ Main \notin Workers
  BY ServiceAssumption DEF IInv, Shape, Threads
<1>2. /\ object[w] = 0 /\ pc[w] = "idle" /\ object[Main] # 0
      /\ pc' = [pc EXCEPT ![Main] = "idle", ![w] = "begin"]
      /\ object' = [object EXCEPT ![w] = object[Main]]
      /\ UNCHANGED <<status, service, serving, registered>>
  BY DEF IInv, Started, StartThread, Unused
<1>3. /\ pc'[Main] = "idle" /\ pc'[w] = "begin" /\ object'[w] # 0
      /\ \A v \in Workers : v # w => pc'[v] = pc[v] /\ object'[v] = object[v]
  BY <1>1, <1>2
<1>4. Shape'
  BY <1>1, <1>2 DEF IInv, Shape, Places
<1>5. Started'
  BY <1>3 DEF IInv, Started
<1>6. ConnectedHasTunnel'
  BY <1>2, <1>3 DEF IInv, ConnectedHasTunnel
<1> QED
  BY <1>4, <1>5, <1>6 DEF IInv

(* No connection, no object.                                                *)
LEMMA InitIInv == Init => IInv
BY ServiceAssumption DEF Init, IInv, Shape, Started, ConnectedHasTunnel, Threads, Places

(* Every step keeps the invariant.                                          *)
LEMMA NextIInv == IInv /\ [Next]_vars => IInv'
<1> SUFFICES ASSUME IInv, [Next]_vars PROVE IInv'
  OBVIOUS
<1>1. CASE Next
  BY <1>1, ButtonStep, StartStep, RunStep, StopStep DEF Next
<1>2. CASE UNCHANGED vars
  BY <1>2 DEF vars, android, IInv, Shape, Started, ConnectedHasTunnel
<1> QED
  BY <1>1, <1>2

(* The inductive invariant, for any number of connections.                  *)
THEOREM SpecIInv == Spec => []IInv
<1> QED
  BY InitIInv, NextIInv, PTL DEF Spec

(* The app says CONNECTED only while some thread has opened the device and  *)
(* has not finished with it (DnsVpnService.changeStatus and its callers),   *)
(* for any number of connections and any interleaving of their threads.     *)
THEOREM StatusTrue == Spec => []ConnectedHasTunnel
<1>1. IInv => ConnectedHasTunnel
  BY DEF IInv
<1> QED
  BY <1>1, SpecIInv, PTL

=============================================================================
