--------------------------- MODULE NetworkProofs ---------------------------
(***************************************************************************)
(* Proofs about the boot and the network, for every number of retries and  *)
(* waits and any number of faults, camera losses and restarts.             *)
(***************************************************************************)
EXTENDS Network, TLAPS

\* A disconnect waits in the queue, and not two of them.
Waiting == Queued("disconnected")
Single  == \A i, j \in 1 .. Len(queue) :
             queue[i] = "disconnected" /\ queue[j] = "disconnected" => i = j

Running == main \in {"delay", "connect", "loop"}
Quiet   == sta = "off" /\ queue = <<>> /\ ~connecting /\ ~netif.started

-----------------------------------------------------------------------------
(* The inductive invariant.                                                *)

\* Before the station is started nothing happens to it.
QuietFirst ==
  /\ ~Running \/ ~configured => Quiet
  /\ main \in {"delay", "connect"} => configured

\* The right to connect is in one place: with whoever connects first, in the
\* driver, or in the one disconnect that waits in the queue.
OneRight ==
  /\ Single
  /\ main = "connect" \/ Waiting \/ ~connecting => sta \notin {"trying", "joined"}
  /\ main = "connect" \/ ~connecting => ~Waiting
  /\ main = "connect" => connecting
  /\ main = "loop" /\ configured => connecting

\* When it is nowhere, gaveUp says why.
Lost ==
  connecting /\ main # "connect" /\ sta \in {"idle", "off"} /\ ~Waiting => gaveUp # "no"

\* The calls counted by tries are those counted by retries, and the first one.
Counted ==
  /\ tries <= MaxRetry + 1 /\ tries <= retries + 1
  /\ tries >= retries \/ tries >= MaxRetry
  /\ main = "connect" \/ ~connecting => tries = 0

\* The Boolean part of TypeOK, which the provers treat apart from the rest.
Switches == connecting \in BOOLEAN /\ configured \in BOOLEAN /\ camera \in BOOLEAN

IInv == TypeOK /\ QuietFirst /\ OneRight /\ Lost /\ Counted

-----------------------------------------------------------------------------
(* The queue.                                                              *)

\* Handling an event other than a disconnect leaves the disconnect where it is.
LEMMA HandleOther ==
  ASSUME TypeOK, Single, NEW e \in Events \ {"disconnected"}, Handles(e)
  PROVE  queue' \in Seq(Events) /\ Single' /\ (Waiting' <=> Waiting)
<1>1. /\ queue' \in Seq(Events) /\ Len(queue') = Len(queue) - 1 /\ Len(queue) \in Nat \ {0}
      /\ \A i \in 1 .. Len(queue') : queue'[i] = queue[i + 1] /\ i + 1 \in 1 .. Len(queue)
      /\ queue[1] = e
  BY DEF TypeOK, Handles
<1>2. Single'
  <2> SUFFICES ASSUME NEW i \in 1 .. Len(queue'), NEW j \in 1 .. Len(queue'),
                      queue'[i] = "disconnected", queue'[j] = "disconnected"
               PROVE  i = j
    BY DEF Single
  <2>1. i + 1 = j + 1
    BY <1>1 DEF Single
  <2> QED BY <2>1, <1>1
<1>3. Waiting' => Waiting
  BY <1>1 DEF Waiting, Queued
<1>4. ASSUME Waiting PROVE Waiting'
  <2>1. PICK i \in 1 .. Len(queue) : queue[i] = "disconnected"
    BY <1>4 DEF Waiting, Queued
  <2>2. i # 1
    BY <2>1, <1>1
  <2>3. i - 1 \in 1 .. Len(queue') /\ queue'[i - 1] = queue[(i - 1) + 1]
    BY <2>2, <1>1
  <2> QED BY <2>1, <2>3 DEF Waiting, Queued
<1> QED BY <1>1, <1>2, <1>3, <1>4

\* Handling the disconnect leaves none.
LEMMA HandleDisconnected ==
  ASSUME TypeOK, Single, Handles("disconnected")
  PROVE  queue' \in Seq(Events) /\ Single' /\ Waiting /\ ~Waiting'
<1>1. /\ queue' \in Seq(Events) /\ Len(queue') = Len(queue) - 1 /\ Len(queue) \in Nat \ {0}
      /\ \A i \in 1 .. Len(queue') : queue'[i] = queue[i + 1] /\ i + 1 \in 1 .. Len(queue)
      /\ queue[1] = "disconnected"
  BY DEF TypeOK, Handles
<1>2. ~Waiting'
  BY <1>1 DEF Waiting, Queued, Single
<1>3. Single'
  BY <1>2 DEF Waiting, Queued, Single
<1>4. Waiting
  BY <1>1 DEF Waiting, Queued
<1> QED BY <1>1, <1>2, <1>3, <1>4

\* What is posted comes behind what is there.
LEMMA Posted ==
  ASSUME TypeOK, NEW events \in Seq(Events), Posts(events)
  PROVE  /\ queue' \in Seq(Events) /\ Len(queue') = Len(queue) + Len(events)
         /\ \A i \in 1 .. Len(queue) : i \in 1 .. Len(queue') /\ queue'[i] = queue[i]
         /\ \A i \in 1 .. Len(queue') : i \notin 1 .. Len(queue) =>
              i - Len(queue) \in 1 .. Len(events) /\ queue'[i] = events[i - Len(queue)]
  BY DEF TypeOK, Posts

\* Posting no disconnect leaves the one there is, or none.
LEMMA PostOther ==
  ASSUME TypeOK, Single, NEW events \in Seq(Events), Posts(events),
         \A i \in 1 .. Len(events) : events[i] # "disconnected"
  PROVE  queue' \in Seq(Events) /\ Single' /\ (Waiting' <=> Waiting)
<1>1. \A i \in 1 .. Len(queue') : queue'[i] = "disconnected" =>
        i \in 1 .. Len(queue) /\ queue[i] = "disconnected"
  BY Posted
<1>2. Single'
  BY <1>1 DEF Single
<1>3. Waiting' <=> Waiting
  BY <1>1, Posted DEF Waiting, Queued
<1> QED BY <1>2, <1>3, Posted

\* A disconnect posted when there is none is the only one.
LEMMA PostDisconnected ==
  ASSUME TypeOK, ~Waiting, NEW events \in Seq(Events), Posts(events),
         Len(events) \in Nat \ {0}, events[1] = "disconnected",
         \A i \in 1 .. Len(events) : events[i] = "disconnected" => i = 1
  PROVE  queue' \in Seq(Events) /\ Single' /\ Waiting'
<1>1. Len(queue) \in Nat
  BY DEF TypeOK
<1>2. ASSUME NEW i \in 1 .. Len(queue'), queue'[i] = "disconnected"
      PROVE  i = Len(queue) + 1
  <2>1. i \notin 1 .. Len(queue)
    BY <1>2, Posted DEF Waiting, Queued
  <2>2. i - Len(queue) \in 1 .. Len(events) /\ events[i - Len(queue)] = "disconnected"
    BY <1>2, <2>1, Posted
  <2> QED BY <2>2, <1>1
<1>3. Single'
  BY <1>2 DEF Single
<1>4. Len(queue) + 1 \in 1 .. Len(queue') /\ queue'[Len(queue) + 1] = "disconnected"
  BY Posted, <1>1
<1>5. Waiting'
  BY <1>4 DEF Waiting, Queued
<1> QED BY <1>3, <1>5, Posted

-----------------------------------------------------------------------------
(* The steps.                                                              *)

\* The queues a start and a reboot leave.
LEMMA FirstQueues == <<>> \in Seq(Events) /\ <<"start">> \in Seq(Events)
  BY DEF Events

\* The initial state satisfies the invariant.
LEMMA InitInv == Init => IInv
<1> SUFFICES ASSUME Init PROVE IInv
  OBVIOUS
<1>a. Switches
  BY NetworkBounds DEF Init, Switches
<1>1. TypeOK
  BY <1>a, NetworkRetries, FirstQueues DEF Init, TypeOK, NoNetif, Switches
<1>2. Single /\ ~Waiting
  BY DEF Init, Single, Waiting, Queued
<1>3. QuietFirst /\ OneRight /\ Lost /\ Counted
  BY <1>2, NetworkRetries
  DEF Init, QuietFirst, Quiet, Running, OneRight, Lost, Counted, NoNetif
<1> QED BY <1>1, <1>3 DEF IInv

\* A reboot ends in a quiet state.
LEMMA RebootInv ==
  ASSUME TypeOK, Reboot, faults' \in Nat
  PROVE  IInv'
<1>a. Switches'
  BY DEF TypeOK, Reboot, Switches
<1>1. TypeOK'
  BY <1>a, NetworkRetries, FirstQueues DEF TypeOK, Reboot, NoNetif, Switches
<1>2. Single' /\ ~Waiting'
  BY DEF Reboot, Single, Waiting, Queued
<1>3. QuietFirst' /\ OneRight' /\ Lost' /\ Counted'
  BY <1>2, NetworkRetries
  DEF Reboot, QuietFirst, Quiet, Running, OneRight, Lost, Counted, NoNetif
<1> QED BY <1>1, <1>3 DEF IInv

\* Nothing is handled, nobody joins and nothing is leased in a quiet state.
LEMMA NotQuiet ==
  ASSUME IInv, queue # <<>> \/ sta # "off" \/ netif.started
  PROVE  Running /\ configured
  BY DEF IInv, QuietFirst, Quiet

\* Steps of the main task that leave station, queue and counters alone keep what
\* concerns them, wherever the task goes before the network starts.
LEMMA MainInv ==
  ASSUME IInv, Main
  PROVE  IInv'
<1> USE NetworkRetries DEF IInv
<1>1. CASE PartsUp \/ LookForCamera \/ CheckCamera \/ Prepare
  <2>1. UNCHANGED <<program, outside, sta, queue, history>> /\ ~Running /\ ~Running'
    BY <1>1 DEF PartsUp, LookForCamera, CheckCamera, Prepare, Goes, Running
  <2>2. TypeOK'
    BY <1>1, <2>1 DEF PartsUp, LookForCamera, CheckCamera, Prepare, Goes, TypeOK, program,
                      outside, history
  <2>3. Single' /\ Waiting' = Waiting
    BY <2>1 DEF OneRight, Single, Waiting, Queued
  <2>4. QuietFirst' /\ OneRight' /\ Lost' /\ Counted'
    BY <2>1, <2>3 DEF QuietFirst, Quiet, OneRight, Lost, Counted, Running, program, outside, history
  <2> QED BY <2>2, <2>4
<1>2. CASE PrepareFails
  BY <1>2, RebootInv DEF PrepareFails, Fault, TypeOK
<1>3. CASE StartWifi
  <2>1. ~Running /\ Quiet
    BY <1>3 DEF StartWifi, Goes, Running, QuietFirst
  <2>2. TypeOK'
    BY <1>3, FirstQueues DEF StartWifi, Goes, TypeOK, program, outside, history
  <2>3. Single' /\ ~Waiting'
    BY <1>3, <2>1 DEF StartWifi, Single, Waiting, Queued, Quiet
  <2>4. QuietFirst' /\ OneRight' /\ Lost' /\ Counted'
    BY <1>3, <2>1, <2>3 DEF StartWifi, Goes, QuietFirst, Quiet, OneRight, Lost, Counted, Running,
                            program, outside, history
  <2> QED BY <2>2, <2>4
<1>4. CASE DelayOver
  <2>1. Running /\ main = "delay"
    BY <1>4 DEF DelayOver, Goes, Running
  <2>2. TypeOK'
    BY <1>4 DEF DelayOver, Goes, TypeOK, outside, history
  <2>3. Single' /\ Waiting' = Waiting
    BY <1>4 DEF DelayOver, OneRight, Single, Waiting, Queued
  <2>4. QuietFirst' /\ OneRight' /\ Lost' /\ Counted'
    BY <1>4, <2>1, <2>3 DEF DelayOver, Goes, QuietFirst, Quiet, OneRight, Lost, Counted, Running,
                            outside, history
  <2> QED BY <2>2, <2>4
<1>5. CASE ConnectFirst
  <2>1. TypeOK'
    BY <1>5 DEF ConnectFirst, Begins, Goes, TypeOK, program, outside
  <2>2. Single' /\ Waiting' = Waiting
    BY <1>5 DEF ConnectFirst, OneRight, Single, Waiting, Queued
  <2>3. QuietFirst' /\ OneRight' /\ Lost' /\ Counted'
    BY <1>5, <2>2 DEF ConnectFirst, Begins, Goes, QuietFirst, Quiet, OneRight, Lost, Counted,
                      Running, program, outside, TypeOK
  <2> QED BY <2>1, <2>3
<1>6. CASE Aborts
  BY <1>6, RebootInv DEF Aborts, Fault, TypeOK
<1> QED BY <1>1, <1>2, <1>3, <1>4, <1>5, <1>6 DEF Main

\* The handlers of the driver's events: the interface changes, and who connects.
LEMMA EventInv ==
  ASSUME IInv, EventTask
  PROVE  IInv'
<1> USE NetworkRetries DEF IInv
<1>1. Running /\ configured
  BY NotQuiet DEF EventTask, StaStart, StaStop, StaConnected, StaDisconnected, GotAddress,
                  ServerFails, Handles
<1>2. Single
  BY DEF OneRight
<1>3. NoNetif \in [started : BOOLEAN, up : BOOLEAN, address : BOOLEAN]
  BY DEF NoNetif
<1>4. \A b \in BOOLEAN :
        /\ [netif EXCEPT !.started = b] \in [started : BOOLEAN, up : BOOLEAN, address : BOOLEAN]
        /\ [netif EXCEPT !.up = b] \in [started : BOOLEAN, up : BOOLEAN, address : BOOLEAN]
        /\ [netif EXCEPT !.up = b, !.address = b]
             \in [started : BOOLEAN, up : BOOLEAN, address : BOOLEAN]
  BY DEF TypeOK
<1>5. CASE StaStart
  <2>1. queue' \in Seq(Events) /\ Single' /\ (Waiting' <=> Waiting)
    BY <1>5, <1>2, HandleOther DEF StaStart, Events
  <2>2. netif' \in [started : BOOLEAN, up : BOOLEAN, address : BOOLEAN]
    BY <1>5, <1>4 DEF StaStart, TypeOK
  <2>3. TypeOK'
    BY <1>5, <2>1, <2>2 DEF StaStart, Connect, Begins, Refuses, TypeOK, boot, outside, history
  <2>4. QuietFirst' /\ OneRight' /\ Lost' /\ Counted'
    BY <1>5, <1>1, <2>1, <2>3 DEF StaStart, Connect, Begins, Refuses, QuietFirst, Quiet, OneRight,
       Lost, Counted, Running, TypeOK, boot, outside, history
  <2> QED BY <2>3, <2>4
<1>6. CASE StaStop \/ StaConnected
  <2>1. queue' \in Seq(Events) /\ Single' /\ (Waiting' <=> Waiting)
    BY <1>6, <1>2, HandleOther DEF StaStop, StaConnected, Events
  <2>2. /\ UNCHANGED <<boot, connecting, retries, services, outside, sta, history>>
        /\ netif' \in [started : BOOLEAN, up : BOOLEAN, address : BOOLEAN]
    BY <1>6, <1>3, <1>4 DEF StaStop, StaConnected, TypeOK
  <2>3. TypeOK'
    BY <2>1, <2>2 DEF TypeOK, boot, outside, history
  <2>4. QuietFirst' /\ OneRight' /\ Lost' /\ Counted'
    BY <1>1, <2>1, <2>2 DEF QuietFirst, Quiet, OneRight, Lost, Counted, Running, boot, outside,
                            history
  <2> QED BY <2>3, <2>4
<1>7. CASE StaDisconnected
  <2>1. queue' \in Seq(Events) /\ Single' /\ Waiting /\ ~Waiting'
    BY <1>7, <1>2, HandleDisconnected DEF StaDisconnected
  <2>2. connecting /\ main # "connect" /\ sta \notin {"trying", "joined"}
    BY <2>1 DEF OneRight
  <2>3. netif' \in [started : BOOLEAN, up : BOOLEAN, address : BOOLEAN]
    BY <1>7, <1>4 DEF StaDisconnected
  <2>4. TypeOK'
    BY <1>7, <2>1, <2>3
    DEF StaDisconnected, Connect, Begins, Refuses, TypeOK, boot, outside, history
  <2>5. QuietFirst' /\ OneRight' /\ Lost'
    BY <1>7, <1>1, <2>1, <2>2 DEF StaDisconnected, Connect, Begins, Refuses, QuietFirst, Quiet,
       OneRight, Lost, Running, boot, outside, history
  <2>6. Counted'
    BY <1>7, <2>2 DEF StaDisconnected, Connect, Begins, Refuses, Counted, TypeOK, boot, history
  <2> QED BY <2>4, <2>5, <2>6
<1>8. CASE GotAddress
  <2>1. queue' \in Seq(Events) /\ Single' /\ (Waiting' <=> Waiting)
    BY <1>8, <1>2, HandleOther DEF GotAddress, Events
  <2>2. services' \subseteq {"clock", "mdns", "rtsp"}
    BY <1>8 DEF GotAddress, TypeOK
  <2>3. TypeOK'
    BY <1>8, <2>1, <2>2 DEF GotAddress, TypeOK, boot, outside
  <2>4. QuietFirst' /\ OneRight' /\ Lost' /\ Counted'
    BY <1>8, <1>1, <2>1 DEF GotAddress, QuietFirst, Quiet, OneRight, Lost, Counted, Running, boot,
                            outside
  <2> QED BY <2>3, <2>4
<1>9. CASE ServerFails
  BY <1>9, RebootInv DEF ServerFails, Fault, TypeOK
<1> QED BY <1>5, <1>6, <1>7, <1>8, <1>9 DEF EventTask

\* The driver, DHCP and the camera.
LEMMA EnvironmentInv ==
  ASSUME IInv, Environment
  PROVE  IInv'
<1> USE NetworkRetries DEF IInv
<1>1. Single
  BY DEF OneRight
<1>2. CASE CameraStarts \/ CameraStops
  <2>1. UNCHANGED <<boot, program, configured, sta, queue, history>>
    BY <1>2 DEF CameraStarts, CameraStops
  <2>a. Switches'
    BY <1>2, <2>1 DEF CameraStarts, CameraStops, TypeOK, Switches, program
  <2>2. TypeOK'
    BY <1>2, <2>1, <2>a DEF CameraStarts, CameraStops, TypeOK, Switches, boot, program, history
  <2>3. Single' /\ Waiting' = Waiting
    BY <1>1, <2>1 DEF Single, Waiting, Queued
  <2>4. QuietFirst' /\ OneRight' /\ Lost' /\ Counted'
    BY <2>1, <2>3 DEF QuietFirst, Quiet, OneRight, Lost, Counted, Running, boot, program, history
  <2> QED BY <2>2, <2>4
<1>3. CASE Joins
  <2> DEFINE events == <<"connected">>
  <2>1. /\ events \in Seq(Events)
        /\ \A i \in 1 .. Len(events) : events[i] # "disconnected"
    BY DEF Events
  <2>2. queue' \in Seq(Events) /\ Single' /\ (Waiting' <=> Waiting)
    BY <1>1, <1>3, <2>1, PostOther DEF Joins
  <2>3. TypeOK'
    BY <1>3, <2>2 DEF Joins, TypeOK, boot, program, outside, history
  <2>4. QuietFirst' /\ OneRight' /\ Lost' /\ Counted'
    BY <1>3, <2>2, NotQuiet
    DEF Joins, QuietFirst, Quiet, OneRight, Lost, Counted, Running, boot, program, outside, history
  <2> QED BY <2>3, <2>4
<1>4. CASE Fails
  <2> DEFINE events == <<"disconnected">>
  <2>1. /\ events \in Seq(Events) /\ Len(events) \in Nat \ {0} /\ events[1] = "disconnected"
        /\ \A i \in 1 .. Len(events) : i = 1
    BY DEF Events
  <2>2. ~Waiting /\ main # "connect" /\ connecting /\ Running /\ configured
    BY <1>4, NotQuiet DEF Fails, OneRight
  <2>3. queue' \in Seq(Events) /\ Single' /\ Waiting'
    BY <1>4, <2>1, <2>2, PostDisconnected DEF Fails
  <2>4. TypeOK'
    BY <1>4, <2>3 DEF Fails, TypeOK, boot, program, outside, history
  <2>5. QuietFirst' /\ OneRight' /\ Lost' /\ Counted'
    BY <1>4, <2>2, <2>3
    DEF Fails, QuietFirst, Quiet, OneRight, Lost, Counted, Running, boot, program, outside, history
  <2> QED BY <2>4, <2>5
<1>5. CASE Leases
  <2> DEFINE events == <<"address">>
  <2>1. /\ events \in Seq(Events)
        /\ \A i \in 1 .. Len(events) : events[i] # "disconnected"
    BY DEF Events
  <2>2. queue' \in Seq(Events) /\ Single' /\ (Waiting' <=> Waiting)
    BY <1>1, <1>5, <2>1, PostOther DEF Leases
  <2>3. netif' \in [started : BOOLEAN, up : BOOLEAN, address : BOOLEAN]
    BY <1>5 DEF Leases, TypeOK
  <2>4. TypeOK'
    BY <1>5, <2>2, <2>3 DEF Leases, TypeOK, boot, outside, history
  <2>5. QuietFirst' /\ OneRight' /\ Lost' /\ Counted'
    BY <1>5, <2>2, NotQuiet
    DEF Leases, QuietFirst, Quiet, OneRight, Lost, Counted, Running, boot, outside, history
  <2> QED BY <2>4, <2>5
<1>6. CASE Stops
  <2>1. Running /\ configured
    BY <1>6, NotQuiet DEF Stops
  <2>2. PICK events \in {<<"stop">>} \cup
                        (IF sta = "idle" THEN {} ELSE {<<"disconnected", "stop">>}) : Posts(events)
    BY <1>6 DEF Stops
  <2>3. queue' \in Seq(Events) /\ Single' /\ (Waiting' => Waiting \/ sta \in {"trying", "joined"})
    <3>1. CASE events = <<"stop">>
      <4>1. events \in Seq(Events) /\ \A i \in 1 .. Len(events) : events[i] # "disconnected"
        BY <3>1 DEF Events
      <4> HIDE <3>1
      <4> QED BY <1>1, <2>2, <4>1, PostOther
    <3>2. CASE sta # "idle" /\ events = <<"disconnected", "stop">>
      <4>1. /\ events \in Seq(Events) /\ Len(events) \in Nat \ {0} /\ events[1] = "disconnected"
            /\ \A i \in 1 .. Len(events) : events[i] = "disconnected" => i = 1
        BY <3>2 DEF Events
      <4>2. sta \in {"trying", "joined"}
        BY <1>6, <3>2 DEF Stops, TypeOK
      <4>3. ~Waiting
        BY <4>2 DEF OneRight
      <4> QED BY <2>2, <4>1, <4>2, <4>3, PostDisconnected
    <3> QED BY <2>2, <3>1, <3>2
  <2>4. TypeOK'
    BY <1>6, <2>3 DEF Stops, TypeOK, boot, program
  <2>5. QuietFirst' /\ OneRight' /\ Lost' /\ Counted'
    BY <1>6, <2>1, <2>3
    DEF Stops, QuietFirst, Quiet, OneRight, Lost, Counted, Running, boot, program
  <2> QED BY <2>4, <2>5
<1>7. CASE Starts
  <2> DEFINE events == <<"start">>
  <2>1. /\ events \in Seq(Events)
        /\ \A i \in 1 .. Len(events) : events[i] # "disconnected"
    BY DEF Events
  <2>2. queue' \in Seq(Events) /\ Single' /\ (Waiting' <=> Waiting)
    BY <1>1, <1>7, <2>1, PostOther DEF Starts
  <2>3. TypeOK'
    BY <1>7, <2>2 DEF Starts, TypeOK, boot, program, history
  <2>4. QuietFirst' /\ OneRight' /\ Lost' /\ Counted'
    BY <1>7, <2>2 DEF Starts, QuietFirst, Quiet, OneRight, Lost, Counted, Running, boot, program,
                      history
  <2> QED BY <2>3, <2>4
<1> QED BY <1>2, <1>3, <1>4, <1>5, <1>6, <1>7 DEF Environment

\* Every step preserves the invariant.
LEMMA StepInv == IInv /\ [Next]_vars => IInv'
<1> SUFFICES ASSUME IInv, [Next]_vars PROVE IInv'
  OBVIOUS
<1>1. CASE Next
  BY <1>1, MainInv, EventInv, EnvironmentInv DEF Next
<1>2. CASE UNCHANGED vars
  <2>1. UNCHANGED <<boot, program, outside, sta, queue, history>>
    BY <1>2 DEF vars
  <2>2. TypeOK'
    BY <2>1 DEF IInv, TypeOK, boot, program, outside, history
  <2>3. Single' /\ Waiting' = Waiting
    BY <2>1 DEF IInv, OneRight, Single, Waiting, Queued
  <2>4. QuietFirst' /\ OneRight' /\ Lost' /\ Counted'
    BY <2>1, <2>3 DEF IInv, QuietFirst, Quiet, OneRight, Lost, Counted, Running, boot, program,
                      outside, history
  <2> QED BY <2>2, <2>4 DEF IInv
<1> QED BY <1>1, <1>2

-----------------------------------------------------------------------------
(* The theorems.                                                           *)

\* The invariant of boot and network holds in every reachable state.
THEOREM NetworkInvariant == Spec => []IInv
  BY InitInv, StepInv, PTL DEF Spec

\* The start event, the main task and the handler of disconnects never call
\* esp_wifi_connect during an attempt or a connection (network.cpp:126, 129, 202).
THEOREM ConnectsAlone == Spec => []OneAttempt
<1>1. IInv => OneAttempt
  BY DEF IInv, OneRight, OneAttempt, Waiting
<1> QED BY <1>1, NetworkInvariant, PTL

\* An idle station was given up for a reason, late addresses and stops of the
\* station included.
THEOREM NeverForgotten == Spec => []GivesUpForCause
<1>1. IInv => GivesUpForCause
  <2> SUFFICES ASSUME IInv, main = "loop", sta = "idle", queue = <<>>
               PROVE  gaveUp # "no"
    BY DEF GivesUpForCause
  <2>1. configured
    BY NotQuiet
  <2>2. ~Waiting
    BY DEF Waiting, Queued
  <2> QED BY <2>1, <2>2 DEF IInv, OneRight, Lost
<1> QED BY <1>1, NetworkInvariant, PTL

\* Reconnects are bounded, and none of them is withheld (network.cpp:129,
\* docs/usb_rtsp.md:64).
THEOREM RetriesBounded == Spec => BoundedReconnects
<1> DEFINE Step == /\ tries' <= MaxRetry + 1
                   /\ gaveUp' = "exhausted" /\ gaveUp # "exhausted" => tries >= MaxRetry
<1>1. IInv /\ IInv' /\ [Next]_vars => [Step]_vars
  <2> SUFFICES ASSUME IInv, IInv', Next PROVE Step
    OBVIOUS
  <2>1. tries' <= MaxRetry + 1
    BY DEF IInv, Counted
  <2>2. ASSUME gaveUp' = "exhausted", gaveUp # "exhausted"
        PROVE  tries >= MaxRetry
    <3>1. StaDisconnected /\ ~(retries + 1 <= MaxRetry)
      BY <2>2 DEF Next, Main, EventTask, Environment, PartsUp, LookForCamera, CheckCamera, Prepare,
         PrepareFails, StartWifi, DelayOver, ConnectFirst, Aborts, Reboot, StaStart, StaStop,
         StaConnected, StaDisconnected, GotAddress, ServerFails, CameraStarts, CameraStops, Joins,
         Fails, Leases, Stops, Starts, Connect, Begins, Refuses, history
    <3> QED BY <3>1, NetworkRetries DEF IInv, TypeOK, Counted
  <2> QED BY <2>1, <2>2
<1> QED BY <1>1, NetworkInvariant, PTL DEF Spec, BoundedReconnects
=============================================================================
