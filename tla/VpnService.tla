----------------------------- MODULE VpnService -----------------------------
(***************************************************************************)
(* The Android app around the client: the main thread, which runs the       *)
(* buttons of MainActivity and the callbacks of DnsVpnService, and one      *)
(* thread for each onStartCommand, which runs IodineClient.connect, opens   *)
(* the tun device and stays in IodineClient.tunnel (client_tunnel) for as   *)
(* long as the connection lasts. They share, with no lock, the static       *)
(* status of DnsVpnService, the receiver of a service object, and the one   *)
(* global `this' of the native client, of which `running' is modelled.       *)
(*                                                                         *)
(* Each step is one read or write of what is shared; stop() runs on either  *)
(* kind of thread. Status updates and the order to stop are broadcasts,     *)
(* delivered on the main thread some time later and in the order sent.      *)
(* Thread.interrupt reaches a thread that is in native code and has no      *)
(* effect there. The closing of descriptors and the log are left out, and   *)
(* so is what Android tidies up when it has destroyed a service.            *)
(***************************************************************************)
EXTENDS Naturals, Sequences, FiniteSets

CONSTANTS
    Workers,    \* the threads of the calls of onStartCommand
    Main        \* the main thread

ASSUME ServiceAssumption ==
    IsFiniteSet(Workers) /\ Main \notin Workers

VARIABLES
    status,     \* DnsVpnService.status
    ui,         \* the status MainActivity shows, which enables its buttons
    updates,    \* ACTION_STATUS_UPDATE broadcasts under way
    stops,      \* the service objects that an ACTION_STOP is under way to
    service,    \* the number of the last service object
    serving,    \* whether that one has not called stopSelf
    registered, \* the service objects whose receiver is registered
    running,    \* this.running of the native client
    pc,         \* where each thread is
    object,     \* the service object whose method the thread runs
    thrown      \* the exception that ended the app, or "none"

android == <<updates, stops, service, serving, registered>>
vars == <<status, ui, updates, stops, service, serving, registered, running,
          pc, object, thrown>>

Threads == Workers \cup {Main}
Places == {"idle", "started", "begin", "connect", "connected", "tunnel", "returned",
           "stop", "interrupt", "check", "stopping", "stopped", "done"}

Init ==
    /\ status = "STOPPED"
    /\ ui = "STOPPED"
    /\ updates = << >>
    /\ stops = {}
    /\ service = 0 /\ serving = FALSE
    /\ registered = {}
    /\ running = FALSE
    /\ pc = [t \in Threads |-> "idle"]
    /\ object = [t \in Threads |-> 0]
    /\ thrown = "none"

Unused == {w \in Workers : object[w] = 0}

(* Thread t is at step `here' and goes to step `there'.                    *)
Step(t, here, there) ==
    /\ thrown = "none"
    /\ pc[t] = here
    /\ pc' = [pc EXCEPT ![t] = there]

-----------------------------------------------------------------------------
(* MainActivity.                                                           *)

(* connect: the service is started, a new object being made unless the old  *)
(* one still serves (onCreate registers its receiver), and onStartCommand   *)
(* begins with its changeStatus ...                                        *)
Connect ==
    /\ ui = "STOPPED"
    /\ Unused # {}
    /\ Step(Main, "idle", "started")
    /\ status' = "STARTED"
    /\ service' = IF serving THEN service ELSE service + 1
    /\ serving' = TRUE
    /\ registered' = IF serving THEN registered ELSE registered \cup {service + 1}
    /\ object' = [object EXCEPT ![Main] = service']
    /\ UNCHANGED <<ui, updates, stops, running, thrown>>

(* ... whose broadcast follows, and the thread is started.                 *)
StartThread(w) ==
    /\ w \in Unused
    /\ thrown = "none" /\ pc[Main] = "started"
    /\ pc' = [pc EXCEPT ![Main] = "idle", ![w] = "begin"]
    /\ object' = [object EXCEPT ![w] = object[Main]]
    /\ updates' = Append(updates, "STARTED")
    /\ UNCHANGED <<status, ui, stops, service, serving, registered, running, thrown>>

(* disconnect: a broadcast to every service object whose receiver is        *)
(* registered. One that it is under way to already gets it once: the stop() *)
(* that it causes unregisters the receiver, or throws.                      *)
Disconnect ==
    /\ ui = "CONNECTED"
    /\ Step(Main, "idle", "idle")
    /\ stops' = stops \cup registered
    /\ UNCHANGED <<status, ui, updates, service, serving, registered, running,
                   object, thrown>>

UpdateUi ==
    /\ updates # << >>
    /\ Step(Main, "idle", "idle")
    /\ ui' = Head(updates)
    /\ updates' = Tail(updates)
    /\ UNCHANGED <<status, stops, service, serving, registered, running, object, thrown>>

(* onPause, and later onResume: what was broadcast in between is missed,    *)
(* and the status is read.                                                 *)
Resume ==
    /\ Step(Main, "idle", "idle")
    /\ ui' = status
    /\ updates' = << >>
    /\ UNCHANGED <<status, stops, service, serving, registered, running, object, thrown>>

-----------------------------------------------------------------------------
(* The worker thread, Runnable.run.                                        *)

(* IodineClient.connect sets this.running ...                              *)
Begin(w) ==
    /\ Step(w, "begin", "connect")
    /\ running' = TRUE
    /\ UNCHANGED <<status, ui, android, object, thrown>>

(* Faulty: the thread ends without a word.                                 *)
ConnectFailsSilently(w) ==
    /\ Step(w, "connect", "done")
    /\ UNCHANGED <<status, ui, android, running, object, thrown>>

(* ... and its handshake fails, or succeeds.                               *)
ConnectFails(w) ==
    /\ Step(w, "connect", "stop")
    /\ UNCHANGED <<status, ui, android, running, object, thrown>>

(* startTunnel: the device is opened and the status changes (nothing in it  *)
(* is seen to throw the IOException that run would catch) ...               *)
StartTunnel(w) ==
    /\ Step(w, "connect", "connected")
    /\ status' = "CONNECTED"
    /\ UNCHANGED <<ui, android, running, object, thrown>>

(* ... unless Android refuses the device: establish returns null.           *)
NoDevice(w) ==
    /\ Step(w, "connect", "done")
    /\ thrown' = "NullPointerException"
    /\ UNCHANGED <<status, ui, android, running, object>>

(* The status is broadcast, and the native loop is entered. It is given the  *)
(* descriptor of the device, which it closes in the end; nothing stores it   *)
(* in this.tun_fd, which the loop reads and writes.                         *)
EnterTunnel(w) ==
    /\ Step(w, "connected", "tunnel")
    /\ updates' = Append(updates, "CONNECTED")
    /\ UNCHANGED <<status, ui, stops, service, serving, registered, running, object, thrown>>

(* client_tunnel: no downstream data for 60 seconds.                       *)
NoDownstream(w) ==
    /\ Step(w, "tunnel", "tunnel")
    /\ running
    /\ running' = FALSE
    /\ UNCHANGED <<status, ui, android, object, thrown>>

(* client_tunnel ends for every thread that is in it when running is 0.    *)
TunnelReturns(w) ==
    /\ Step(w, "tunnel", "returned")
    /\ ~ running
    /\ UNCHANGED <<status, ui, android, running, object, thrown>>

(* "Only stop again if not stopped".                                       *)
AfterTunnel(w) ==
    /\ Step(w, "returned", IF status = "STOPPED" THEN "done" ELSE "stop")
    /\ UNCHANGED <<status, ui, android, running, object, thrown>>

-----------------------------------------------------------------------------
(* DnsVpnService.stop, on the main thread or on a worker's.                *)

(* An ACTION_STOP is delivered to a receiver, if it is registered still.   *)
OnReceive ==
    /\ \E i \in stops :
          /\ stops' = stops \ {i}
          /\ \/ /\ i \in registered
                /\ Step(Main, "idle", "stop")
                /\ object' = [object EXCEPT ![Main] = i]
             \/ /\ i \notin registered
                /\ Step(Main, "idle", "idle")
                /\ UNCHANGED object
    /\ UNCHANGED <<status, ui, updates, service, serving, registered, running, thrown>>

(* The first test of the status: the receiver goes, and Android throws an   *)
(* exception if it is not registered.                                      *)
Unregister(t) ==
    /\ Step(t, "stop", "interrupt")
    /\ \/ /\ status = "STOPPED"
          /\ UNCHANGED <<registered, thrown>>
       \/ /\ status # "STOPPED" /\ object[t] \in registered
          /\ registered' = registered \ {object[t]}
          /\ UNCHANGED thrown
       \/ /\ status # "STOPPED" /\ object[t] \notin registered
          /\ thrown' = "IllegalArgumentException"
          /\ UNCHANGED registered
    /\ UNCHANGED <<status, ui, updates, stops, service, serving, running, object>>

(* The second test: tunnelInterrupt sets request_disconnect, which no code  *)
(* reads, and the tun device is closed.                                    *)
Interrupt(t) ==
    /\ Step(t, "interrupt", "check")
    /\ UNCHANGED <<status, ui, android, running, object, thrown>>

(* The third: nobody stops what is stopped.                                *)
Check(t) ==
    /\ Step(t, "check", "stopping")
    /\ thrown' = IF status = "STOPPED" THEN "IllegalStateException" ELSE "none"
    /\ UNCHANGED <<status, ui, android, running, object>>

(* Faulty: the status stays.                                               *)
ChangeStatusNot(t) ==
    /\ Step(t, "stopping", "stopped")
    /\ UNCHANGED <<status, ui, android, running, object, thrown>>

ChangeStatus(t) ==
    /\ Step(t, "stopping", "stopped")
    /\ status' = "STOPPED"
    /\ UNCHANGED <<ui, android, running, object, thrown>>

(* The status is broadcast and stopSelf called.                            *)
StopSelf(t) ==
    /\ Step(t, "stopped", IF t = Main THEN "idle" ELSE "done")
    /\ updates' = Append(updates, "STOPPED")
    /\ serving' = (serving /\ object[t] # service)
    /\ UNCHANGED <<status, ui, stops, service, registered, running, object, thrown>>

Stop(t) == Unregister(t) \/ Interrupt(t) \/ Check(t) \/ ChangeStatus(t) \/ StopSelf(t)

-----------------------------------------------------------------------------
Run(w) ==
    Begin(w) \/ ConnectFails(w) \/ StartTunnel(w) \/ NoDevice(w)
    \/ EnterTunnel(w) \/ TunnelReturns(w) \/ AfterTunnel(w)

Next ==
    \/ Connect \/ Disconnect \/ UpdateUi \/ Resume \/ OnReceive
    \/ \E w \in Workers : StartThread(w) \/ Run(w) \/ NoDownstream(w)
    \/ \E t \in Threads : Stop(t)

Spec == Init /\ [][Next]_vars

(* Threads go on, connect returns (every wait of the handshake has a        *)
(* timeout), and broadcasts are delivered. Nothing is asked of the user or  *)
(* of the network.                                                         *)
FairSpec ==
    /\ Spec
    /\ WF_vars(\E w \in Workers : StartThread(w))
    /\ \A w \in Workers : WF_vars(Run(w))
    /\ \A t \in Threads : WF_vars(Stop(t))
    /\ WF_vars(UpdateUi) /\ WF_vars(OnReceive)

-----------------------------------------------------------------------------
(* Properties.                                                             *)

(* The app says CONNECTED only while some thread has opened the device and  *)
(* has not finished with it, however the threads that start and stop        *)
(* connections interleave.                                                 *)
ConnectedHasTunnel ==
    status = "CONNECTED" =>
        \E w \in Workers :
            pc[w] \in {"connected", "tunnel", "returned", "stop", "interrupt",
                       "check", "stopping"}

(* While the status shown is STARTED both buttons are disabled: it does not *)
(* stay.                                                                   *)
NotStuckStarting == [](ui = "STARTED" => <>(ui # "STARTED" \/ thrown # "none"))

(* "Only stop again if not stopped (it might be stopped already if the user *)
(* manually disconnects)": the thread of a connection, which has looked,    *)
(* does not find in the third test of stop() that it is stopped after all,  *)
(* which throws "Attempted to stop DnsVpnService when it was not active".   *)
NeverStoppedTwice ==
    \A w \in Workers : pc[w] = "stopping" => thrown # "IllegalStateException"

=============================================================================
