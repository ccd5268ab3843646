---------------------------- MODULE ResourceSaver ---------------------------
(***************************************************************************)
(* Resource Saver: the worker that stops an idle engine, and the snapshot  *)
(* of the resource lists that stays visible while the engine is stopped    *)
(* (backend/internal/daemon/resource_saver.go, resource_snapshot.go),      *)
(* composed with the start and stop machinery of RuntimeStart, which       *)
(* clears the saver's flag on a wake and on a manual stop.                 *)
(*                                                                         *)
(* The four resource lists are handled alike; one of them, the containers, *)
(* stands for all.  A list call is three steps, as in the code: decide     *)
(* between snapshot and engine, ask the engine, replace the snapshot.      *)
(***************************************************************************)
EXTENDS RuntimeStart

CONSTANTS Containers,   \* names of containers
          Listers,      \* goroutines that serve GET /v1/containers
          IdleAfter,    \* resource_saver_timeout_sec, in units of the model's clock
          Workloads     \* bound: which of list calls, stops, faults and config changes occur together

ASSUME IdleAfterAssumption == IdleAfter \in Nat \ {0}

VARIABLES
  enabled,    \* Cfg.ResourceSaverEnabled
  created,    \* containers the engine knows, kept on the guest disk
  up,         \* the ones that are running
  cache,      \* Guest.listCache: the last list docker ps gave
  snapshot,   \* resourceSnapshot.containers
  tick,       \* where resourceSaver.tick is
  lister,     \* lister[l]: where a list call is and what the engine answered
  workload    \* a member of Workloads, fixed in a behaviour

saverVars == <<enabled, created, up, cache, snapshot, tick, lister>>
otherVars == <<inflight, born, result, caller, fpc, ferr, stopper, faults>>
composedVars == <<vars, saverVars, workload>>

Lists == SUBSET Containers
NoList == [items |-> {}, running |-> {}]
TickPcs == {"off", "status", "list", "decide", "capture", "mark", "stop"}

SaverTypeOK ==
  /\ TypeOK
  /\ saver.idleAt \in 0..(IdleAfter + 1)
  /\ enabled \in BOOLEAN
  /\ created \in Lists /\ up \in SUBSET created
  /\ cache \in [items : Lists, running : Lists]
  /\ snapshot \in Lists
  /\ tick \in TickPcs
  /\ lister \in [Listers -> [pc : {"idle", "status", "live", "set"}, got : Lists]]
  /\ workload \in Workloads

SaverInit ==
  /\ Init
  /\ enabled \in BOOLEAN
  /\ created \in Lists /\ up = {}
  /\ cache = NoList
  /\ snapshot = {}
  /\ tick = "off"
  /\ lister = [l \in Listers |-> [pc |-> "idle", got |-> {}]]
  /\ workload \in Workloads

-----------------------------------------------------------------------------
(* The engine's containers; whatever stops the engine stops them.          *)

UpAfter == IF engine' = "running" THEN up ELSE {}

\* What a step of the start and stop machinery does to the rest.
Beside ==
  /\ up' = UpAfter
  /\ UNCHANGED <<enabled, created, cache, snapshot, tick, lister>>

CoreStep ==
  /\ Next
  /\ stopper' = stopper \/ "stops" \in workload
  /\ faults' = faults \/ "faults" \in workload
  /\ Beside

\* Through the daemon's API, which drops the list cache, or behind its back with the CLI.
ContainerStarts(k) ==
  /\ engine = "running" /\ k \notin up
  /\ created' = created \cup {k} /\ up' = up \cup {k}
  /\ cache' \in {cache, NoList}
  /\ UNCHANGED <<vars, enabled, snapshot, tick, lister>>

ContainerStops(k) ==
  /\ k \in up
  /\ up' = up \ {k}
  /\ created' \in {created, created \ {k}}
  /\ cache' \in {cache, NoList}
  /\ UNCHANGED <<vars, enabled, snapshot, tick, lister>>

\* PUT /v1/config.
SetEnabled ==
  /\ "config" \in workload
  /\ enabled' = ~enabled
  /\ UNCHANGED <<vars, created, up, cache, snapshot, tick, lister>>

\* Time passes; idleAt is kept as an age, cut off once it exceeds the timeout.
TimePasses ==
  /\ saver.idleAt \in 1..IdleAfter
  /\ saver' = [saver EXCEPT !.idleAt = saver.idleAt + 1]
  /\ UNCHANGED <<otherVars, engine, saverVars>>

Fresh == [items |-> created, running |-> up]

\* Runtime.ListContainers returns the list a.  docker ps answers and the guest keeps what it
\* said; or the guest's cache answers, because it is young or because docker ps failed and
\* there is a last list to keep; or the guest is not running and the list is empty.
ListOK(a) ==
  \/ /\ engine = "running"
     /\ a = Fresh
     /\ cache' = IF Native THEN cache ELSE Fresh
  \/ /\ engine = "running" /\ cache.items # {}
     /\ a = cache
     /\ UNCHANGED cache
  \/ /\ engine = "stopped" /\ ~Native
     /\ a = NoList
     /\ UNCHANGED cache

\* Runtime.ListContainers fails: no list is kept, or Native.Status reports the engine down.
ListFails ==
  /\ IF engine = "running" THEN cache.items = {} ELSE Native
  /\ UNCHANGED cache

ListAnswers == {NoList, Fresh, cache}

-----------------------------------------------------------------------------
(* resourceSaver.tick.                                                     *)

IdleSince(t) == saver' = [saver EXCEPT !.idleAt = t]

TickBegins ==
  /\ tick = "off"
  /\ IF enabled THEN tick' = "status" /\ UNCHANGED saver
     ELSE IdleSince(0) /\ UNCHANGED tick
  /\ UNCHANGED <<otherVars, engine, enabled, created, up, cache, snapshot, lister>>

TickStatus ==
  /\ tick = "status"
  /\ CASE StatusReport = "error" -> tick' = "off" /\ UNCHANGED saver
       [] StatusReport = "stopped" -> tick' = "off" /\ IdleSince(0)
       [] OTHER -> tick' = "list" /\ UNCHANGED saver
  /\ UNCHANGED <<otherVars, engine, enabled, created, up, cache, snapshot, lister>>

TickList ==
  /\ tick = "list"
  /\ \/ ListFails /\ tick' = "off" /\ UNCHANGED saver
     \/ \E a \in ListAnswers :
          /\ ListOK(a)
          /\ IF a.running # {} THEN saver' = ClearedSaver /\ tick' = "off"
             ELSE tick' = "decide" /\ UNCHANGED saver
  /\ UNCHANGED <<otherVars, engine, enabled, created, up, snapshot, lister>>

\* Under the saver's mutex: the idle period begins, goes on, or is over.
TickDecide ==
  /\ tick = "decide"
  /\ IF saver.idleAt = 0 THEN IdleSince(1) /\ tick' = "off"
     ELSE /\ tick' = IF saver.active \/ saver.idleAt - 1 < IdleAfter THEN "off" ELSE "capture"
          /\ UNCHANGED saver
  /\ UNCHANGED <<otherVars, engine, enabled, created, up, cache, snapshot, lister>>

\* EnterResourceSaver, its three steps.
TickCapture ==
  /\ tick = "capture"
  /\ \/ ListFails /\ UNCHANGED snapshot
     \/ \E a \in ListAnswers : ListOK(a) /\ snapshot' = a.items
  /\ tick' = "mark"
  /\ UNCHANGED <<vars, enabled, created, up, lister>>

TickMark ==
  /\ tick = "mark"
  /\ saver' = [active |-> TRUE, idleAt |-> 0]
  /\ tick' = "stop"
  /\ UNCHANGED <<otherVars, engine, enabled, created, up, cache, snapshot, lister>>

\* Runtime.ForceStop reports no error on either platform.
TickStop ==
  /\ tick = "stop"
  /\ ForceStopEngine
  /\ up' = UpAfter
  /\ tick' = "off"
  /\ UNCHANGED <<otherVars, saver, enabled, created, cache, snapshot, lister>>

Tick ==
  TickBegins \/ TickStatus \/ TickList \/ TickDecide \/ TickCapture \/ TickMark \/ TickStop

-----------------------------------------------------------------------------
(* Core.ListContainers: listSnapshot.                                      *)

ListerAt(l, pc, items) == lister' = [lister EXCEPT ![l] = [pc |-> pc, got |-> items]]

\* serveResourceSnapshot reads the flag first ...
ListBegins(l) ==
  /\ lister[l].pc = "idle" /\ "lists" \in workload
  /\ ListerAt(l, IF saver.active THEN "status" ELSE "live", {})
  /\ UNCHANGED <<vars, enabled, created, up, cache, snapshot, tick>>

\* Not in the code: takes any answer of Status for a running engine.
ListStatusTrusting(l) ==
  /\ lister[l].pc = "status"
  /\ ListerAt(l, IF StatusReport = "error" THEN "idle" ELSE "live", {})
  /\ UNCHANGED <<vars, enabled, created, up, cache, snapshot, tick>>

\* ... and then Status; unless the engine runs, the snapshot is the answer.
ListStatus(l) ==
  /\ lister[l].pc = "status"
  /\ ListerAt(l, IF StatusReport = "running" THEN "live" ELSE "idle", {})
  /\ UNCHANGED <<vars, enabled, created, up, cache, snapshot, tick>>

ListLive(l) ==
  /\ lister[l].pc = "live"
  /\ \/ ListFails /\ ListerAt(l, "idle", {})
     \/ \E a \in ListAnswers : ListOK(a) /\ ListerAt(l, "set", a.items)
  /\ UNCHANGED <<vars, enabled, created, up, snapshot, tick>>

ListSet(l) ==
  /\ lister[l].pc = "set"
  /\ snapshot' = lister[l].got
  /\ ListerAt(l, "idle", {})
  /\ UNCHANGED <<vars, enabled, created, up, cache, tick>>

Lister(l) == ListBegins(l) \/ ListStatus(l) \/ ListLive(l) \/ ListSet(l)

-----------------------------------------------------------------------------

SaverStep ==
  \/ CoreStep
  \/ \E k \in Containers : ContainerStarts(k) \/ ContainerStops(k)
  \/ SetEnabled
  \/ TimePasses
  \/ Tick
  \/ \E l \in Listers : Lister(l)

SaverNext == SaverStep /\ UNCHANGED workload

SaverSpec == SaverInit /\ [][SaverNext]_composedVars

\* The worker's ticker fires and its calls return, docker ps succeeds again and again, time
\* passes, the start and stop goroutines run, and callers see that their flight is over.
SaverFairSpec ==
  /\ SaverSpec
  /\ WF_composedVars(Tick /\ UNCHANGED workload)
  /\ SF_composedVars(TickList /\ tick' = "decide" /\ UNCHANGED workload)
  /\ WF_composedVars(TimePasses /\ UNCHANGED workload)
  /\ \A f \in Flights : /\ WF_composedVars(FlightStep(f) /\ Beside /\ UNCHANGED workload)
                        /\ SF_composedVars(PollDeadline(f) /\ Beside /\ UNCHANGED workload)
  /\ \A c \in Callers : WF_composedVars(WaitRuntimeStart(c) /\ Beside /\ UNCHANGED workload)

-----------------------------------------------------------------------------
(* Properties.                                                             *)

\* A flight that saw the engine running and will clear the flag.
WakeUnderway == inflight # Nil /\ fpc[inflight] \in {"poll", "clear"}

\* "ResourceSaverActive reports whether Resource Saver currently holds the engine stopped":
\* the flag is up on a running engine only while the saver's own stop is about to happen or
\* a start that is about to clear it is under way.
ActiveMeansStopped ==
  saver.active /\ engine = "running" => tick = "stop" \/ WakeUnderway

\* "resourceSaver stops the engine after an idle period with no running containers": the
\* stop hits no container that is up.
StopsNoContainer == [][tick = "stop" /\ tick' = "off" => up = {}]_composedVars

ListsAtRest == \A l \in Listers : lister[l].pc \in {"idle", "status"}

\* "Resource Saver returns this snapshot so lists stay visible without waking the VM": the
\* calls made while the engine is held stopped are answered from the snapshot.  As long as the
\* engine stays held, none of them asks it and none replaces the snapshot.  (A call that asked
\* before the engine was held still may.)
HeldSnapshotIsKept ==
  [][saver.active /\ engine = "stopped" /\ ListsAtRest /\ saver'.active /\ engine' = "stopped"
       => ListsAtRest' /\ snapshot' = snapshot]_composedVars

\* Not true of the code: a list call that looked at the flag before it was raised replaces the
\* snapshot of the engine that has been stopped since.
SnapshotAlwaysKept ==
  [][saver.active /\ engine = "stopped" /\ saver'.active /\ engine' = "stopped"
       => snapshot' = snapshot]_composedVars

\* Resource Saver does its job: an engine does not stay up, idle and enabled, for ever.
IdleEngineStops ==
  ~<>[](enabled /\ engine = "running" /\ up = {})

=============================================================================
