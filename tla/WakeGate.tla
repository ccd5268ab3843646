------------------------------ MODULE WakeGate ------------------------------
(***************************************************************************)
(* The public Docker socket, the slots for guest connections and the start *)
(* that a CLI connection triggers when the engine is down                  *)
(* (backend/internal/daemon/docker_socket_proxy.go, Guest.AcquireEngineConn*)
(* and dockerAPIReady in backend/internal/runtime/guest_darwin.go,         *)
(* Krunkit.Start).  A connection takes a slot before it dials the guest    *)
(* and keeps it while it waits for the start; the start needs slots of its *)
(* own, for its pings and its setup commands.                              *)
(*                                                                         *)
(* There is one start at a time (RuntimeStart!OneStartAtATime), and what   *)
(* it does to the VM is GuestEngine.  A ping that has a slot is answered   *)
(* by a VM that is up.  One setup command stands for all of them.          *)
(* The daemon's shutdown, which cancels the calls that wait, is left out.  *)
(***************************************************************************)
EXTENDS Naturals, FiniteSets

CONSTANTS Conns,    \* connections to the public socket
          Slots     \* engineConnMaxConcurrent

ASSUME ConnsAssumption == IsFiniteSet(Conns)
ASSUME StartAssumption == "start" \notin Conns
ASSUME SlotsAssumption == Slots \in Nat \ {0}

VARIABLES
  gate,     \* len(engineConnGate)
  conn,     \* conn[c]: where dockerSocketProxy.handle is
  flight,   \* where the start is, "none" when none is in flight
  vm        \* "off", "boot" while dockerd is not up yet, "up"

gateVars == <<gate, conn, flight, vm>>

Pings == {"probeping", "awaitping", "setupcmd"}

GateTypeOK ==
  /\ gate \in 0..Slots
  /\ conn \in [Conns -> {"idle", "acquire", "probe", "wake", "wait", "redial", "refused", "proxy"}]
  /\ flight \in {"none", "probe", "launch", "await", "setup"} \cup Pings
  /\ vm \in {"off", "boot", "up"}

GateInit ==
  /\ gate = 0
  /\ conn = [c \in Conns |-> "idle"]
  /\ flight = "none"
  /\ vm \in {"off", "up"}

ConnAt(c, pc) == conn' = [conn EXCEPT ![c] = pc]

AcquireEngineConn == gate < Slots /\ gate' = gate + 1

\* A receive from the channel that does not block on an empty one.
ReleaseEngineConn == gate' = IF gate > 0 THEN gate - 1 ELSE 0

-----------------------------------------------------------------------------
(* dockerSocketProxy.handle.                                               *)

\* The request head has been read.
Accept(c) ==
  /\ conn[c] = "idle"
  /\ ConnAt(c, "acquire")
  /\ UNCHANGED <<gate, flight, vm>>

Acquire(c) ==
  /\ conn[c] = "acquire"
  /\ AcquireEngineConn
  /\ ConnAt(c, "probe")
  /\ UNCHANGED <<flight, vm>>

\* dialEngine for two seconds.  krunkit creates its socket at some time during the boot; a
\* connection made then is reset.
Probe(c) ==
  /\ conn[c] = "probe"
  /\ \/ vm # "off" /\ ConnAt(c, "proxy")
     \/ vm # "up" /\ ConnAt(c, "wake")
  /\ UNCHANGED <<gate, flight, vm>>

\* Not in the code: gives the slot back for the wait and does not take it again.
WakeWithoutSlot(c) ==
  /\ conn[c] = "wake"
  /\ ConnAt(c, "wait")
  /\ flight' = IF flight = "none" THEN "probe" ELSE flight
  /\ ReleaseEngineConn
  /\ UNCHANGED vm

\* EnsureRuntimeRunning: join the start in flight or begin one.
Wake(c) ==
  /\ conn[c] = "wake"
  /\ ConnAt(c, "wait")
  /\ flight' = IF flight = "none" THEN "probe" ELSE flight
  /\ UNCHANGED <<gate, vm>>

\* dialEngine for thirty seconds.
Redial(c) ==
  /\ conn[c] = "redial"
  /\ vm # "off"
  /\ ConnAt(c, "proxy")
  /\ UNCHANGED <<gate, flight, vm>>

\* Not in the code: an early return in front of the deferred releaseConn.
LeaveWithSlot(c) ==
  /\ conn[c] \in {"wait", "refused", "redial", "proxy"}
  /\ conn[c] = "redial" => vm # "up"
  /\ ConnAt(c, "idle")
  /\ IF conn[c] = "refused" THEN UNCHANGED gate ELSE ReleaseEngineConn
  /\ UNCHANGED <<flight, vm>>

\* The request's own deadline, an error of the start, no engine after it, or the end of the
\* exchange; on every path the slot is released.
Leave(c) ==
  /\ conn[c] \in {"wait", "refused", "redial", "proxy"}
  /\ conn[c] = "redial" => vm # "up"
  /\ ConnAt(c, "idle")
  /\ ReleaseEngineConn
  /\ UNCHANGED <<flight, vm>>

Conn(c) == Accept(c) \/ Acquire(c) \/ Probe(c) \/ Wake(c) \/ Redial(c) \/ Leave(c)

\* What handle does by itself; while it waits, it is for the start to go on.
HandleStep(c) == Probe(c) \/ Wake(c) \/ Redial(c) \/ (conn[c] # "wait" /\ Leave(c))

-----------------------------------------------------------------------------
(* The start in flight, as far as it meets the slots.                      *)

\* An API handler that needs the engine (EnsureRuntimeOrFail); it holds no slot.
HandlerEnsures ==
  /\ flight = "none"
  /\ flight' = "probe"
  /\ UNCHANGED <<gate, conn, vm>>

\* dockerAPIReady, the start of it: a slot within 400 ms.
PingBegins(from, to) ==
  /\ flight = from
  /\ AcquireEngineConn
  /\ flight' = to
  /\ UNCHANGED <<conn, vm>>

\* Start is over and its waiters are told.
Finish(told) ==
  /\ flight' = "none"
  /\ conn' = [c \in Conns |-> IF conn[c] = "wait" THEN told ELSE conn[c]]

\* No slot for the first ping, or no answer to it: stopKrunkitStack.
ProbeGivesUp ==
  /\ flight = "probe" /\ gate = Slots
  /\ flight' = "launch" /\ vm' = "off"
  /\ UNCHANGED <<gate, conn>>

ProbeAnswers ==
  /\ flight = "probeping"
  /\ ReleaseEngineConn
  /\ \/ vm = "up" /\ flight' = "setup" /\ UNCHANGED vm
     \/ vm # "up" /\ flight' = "launch" /\ vm' = "off"
  /\ UNCHANGED conn

Launch ==
  /\ flight = "launch"
  /\ \/ flight' = "await" /\ vm' = "boot" /\ UNCHANGED conn
     \/ Finish("refused") /\ UNCHANGED vm
  /\ UNCHANGED gate

\* waitForDockerAPI pings until it is answered ...
AwaitAnswers ==
  /\ flight = "awaitping"
  /\ ReleaseEngineConn
  /\ flight' = IF vm = "up" THEN "setup" ELSE "await"
  /\ UNCHANGED <<conn, vm>>

\* Not in the code: a boot wait without an end.
AwaitForever == FALSE /\ UNCHANGED gateVars

\* ... or ten minutes are over: stopKrunkitStack and an error.
AwaitDeadline ==
  /\ flight = "await"
  /\ vm' = "off"
  /\ Finish("refused")
  /\ UNCHANGED gate

\* A setup command through the gated socket; its errors are ignored.
SetupEnds ==
  /\ flight = "setupcmd"
  /\ ReleaseEngineConn
  /\ Finish("redial")
  /\ UNCHANGED vm

\* The boot context is over while the command waits for a slot.
SetupDeadline ==
  /\ flight = "setup"
  /\ Finish("redial")
  /\ UNCHANGED <<gate, vm>>

Flight ==
  \/ PingBegins("probe", "probeping") \/ ProbeGivesUp \/ ProbeAnswers \/ Launch
  \/ PingBegins("await", "awaitping") \/ AwaitAnswers \/ AwaitDeadline
  \/ PingBegins("setup", "setupcmd") \/ SetupEnds \/ SetupDeadline

-----------------------------------------------------------------------------
(* The VM.                                                                 *)

VMComesUp == vm = "boot" /\ vm' = "up" /\ UNCHANGED <<gate, conn, flight>>

\* Resource Saver, a stop handler or a crash.
VMStops == vm # "off" /\ vm' = "off" /\ UNCHANGED <<gate, conn, flight>>

GateNext == (\E c \in Conns : Conn(c)) \/ HandlerEnsures \/ Flight \/ VMComesUp \/ VMStops

GateSpec == GateInit /\ [][GateNext]_gateVars

\* Every goroutine runs and every exchange with the engine ends; goroutines blocked on the
\* gate are served in turn (Go queues them), and the boot wait meets its deadline.
GateFairSpec ==
  /\ GateSpec
  /\ \A c \in Conns : SF_gateVars(Acquire(c)) /\ WF_gateVars(HandleStep(c))
  /\ WF_gateVars(Flight) /\ SF_gateVars(AwaitDeadline)

-----------------------------------------------------------------------------
(* Properties.                                                             *)

\* The connections that hold a slot.
Holders == {c \in Conns : conn[c] \notin {"idle", "acquire"}}

\* No path through handle or through Start loses a slot or gives one back twice: the length
\* of engineConnGate is the number of those who hold one.
GateBalanced == gate = Cardinality(Holders) + (IF flight \in Pings THEN 1 ELSE 0)

\* The clients of the gate that hold a slot: connections, and the start while it pings.
HoldersAndStart == Holders \cup (IF flight \in Pings THEN {"start"} ELSE {})

\* The gate, which only counts, is a pool of slots with owners: nobody takes a slot beyond the
\* last one, or gives back one that belongs to somebody else.
Pool == INSTANCE SlotPool WITH Clients <- Conns \cup {"start"}, holding <- HoldersAndStart
ImplementsPool == Pool!Spec

\* "dockerProxyMaxConcurrent caps simultaneous dials into krunkit vsock": the connections
\* that dial or use the guest, the start's own among them, are at most Slots.
GuestConnsBounded ==
  Cardinality({c \in Conns : conn[c] \in {"probe", "redial", "proxy"}})
    + (IF flight \in Pings THEN 1 ELSE 0) <= Slots

\* A CLI call ends, with an answer or an error, although it may wait for a start that waits
\* for the slot it holds.
EveryCallEnds == \A c \in Conns : conn[c] # "idle" ~> conn[c] = "idle"

\* "the first CLI connection wakes it via EnsureRuntimeRunning before forwarding": the boot
\* wait never stands in front of an engine that is up, unable to ask it because all slots are
\* held by connections that wait for this start.
WakeSeesEngine ==
  ~(/\ flight = "await" /\ vm = "up" /\ gate = Slots
    /\ \A c \in Holders : conn[c] = "wait")

\* "Start is idempotent": it does not tear down an engine that is up.
StartSparesEngine == [][vm = "up" /\ flight' = "launch" => vm' = "up"]_gateVars

=============================================================================
