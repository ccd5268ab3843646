---------------------------- MODULE RuntimeStart ----------------------------
(***************************************************************************)
(* Starting and stopping the engine from the daemon's core                 *)
(* (backend/internal/daemon/runtime_ready.go, core.go): the single flight  *)
(* of EnsureRuntimeRunning, the goroutine that runs Runtime.Start and      *)
(* polls Runtime.Status, the handlers that call ForceStopRuntime, and the  *)
(* Resource Saver flag both clear.  It implements SingleFlight.            *)
(*                                                                         *)
(* The runtime behind the Runtime interface is reduced to what Status      *)
(* reports.  Native = FALSE is the krunkit guest: Status never fails,      *)
(* Start boots a VM, ForceStop kills it.  Native = TRUE is the host        *)
(* engine: Status fails while it is down, Start only looks, ForceStop does *)
(* nothing.  The guest's own start and stop are the module GuestEngine.    *)
(***************************************************************************)
EXTENDS Naturals

CONSTANTS Callers,      \* goroutines that call EnsureRuntimeRunning
          Stoppers,     \* handlers of POST /v1/runtime/stop, each serving one request
          MaxFlights,   \* bound: starts in a behaviour
          MaxFaults,    \* bound: spontaneous changes of the engine in a behaviour
          Native        \* TRUE for the Linux runtime, FALSE for the macOS guest

ASSUME MaxFlightsAssumption == MaxFlights \in Nat \ {0}
ASSUME MaxFaultsAssumption == MaxFaults \in Nat
ASSUME NativeAssumption == Native \in BOOLEAN

Flights == 1..MaxFlights
Nil == 0
Results == {"nil", "failed"}
Answers == Results \cup {"ctx", "none"}

VARIABLES
  inflight, born, result, caller,   \* the single flight, as in SingleFlight
  fpc,        \* fpc[f]: where the goroutine of flight f is
  ferr,       \* ferr[f]: what startRuntimeUntilRunning returned
  engine,     \* "running" or "stopped": what Status reports
  saver,      \* resourceSaver: active and idleAt (0 is the zero time, k + 1 is k units ago)
  stopper,    \* stopper[s]: where a stop handler is
  faults      \* spontaneous engine changes so far

flightVars == <<inflight, born, result, fpc, ferr>>
vars == <<inflight, born, result, caller, fpc, ferr, engine, saver, stopper, faults>>

Idle == [pc |-> "idle", flight |-> Nil, ctxDone |-> FALSE, answer |-> "none"]
ClearedSaver == [active |-> FALSE, idleAt |-> 0]

CallerStates == [pc : {"idle", "waiting", "returned"}, flight : 0..MaxFlights,
                 ctxDone : BOOLEAN, answer : Answers]
FlightPcs == {"unborn", "status", "start", "poll", "sleep", "clear", "publish", "done"}

TypeOK ==
  /\ inflight \in 0..MaxFlights
  /\ born \in 0..MaxFlights
  /\ result \in [Flights -> Results \cup {"none"}]
  /\ caller \in [Callers -> CallerStates]
  /\ fpc \in [Flights -> FlightPcs]
  /\ ferr \in [Flights -> Results]
  /\ engine \in {"running", "stopped"}
  /\ saver \in [active : BOOLEAN, idleAt : Nat]
  /\ stopper \in [Stoppers -> {"idle", "clear", "done"}]
  /\ faults \in 0..MaxFaults

\* The daemon comes up; with vm_keep_alive the guest may have outlived the last one.
Init ==
  /\ inflight = Nil
  /\ born = 0
  /\ result = [f \in Flights |-> "none"]
  /\ caller = [c \in Callers |-> Idle]
  /\ fpc = [f \in Flights |-> "unborn"]
  /\ ferr = [f \in Flights |-> "nil"]
  /\ engine \in {"running", "stopped"}
  /\ saver = ClearedSaver
  /\ stopper = [s \in Stoppers |-> "idle"]
  /\ faults = 0

-----------------------------------------------------------------------------
(* Callers: EnsureRuntimeRunning and waitRuntimeStart.                     *)

Waiting(f) == [pc |-> "waiting", flight |-> f, ctxDone |-> FALSE, answer |-> "none"]

Wait(c, f) == caller' = [caller EXCEPT ![c] = Waiting(f)]

JoinFlight(c) ==
  /\ inflight # Nil
  /\ Wait(c, inflight)
  /\ UNCHANGED flightVars

LaunchFlight(c) ==
  /\ inflight = Nil
  /\ born < MaxFlights
  /\ born' = born + 1
  /\ inflight' = born + 1
  /\ fpc' = [fpc EXCEPT ![born + 1] = "status"]
  /\ Wait(c, born + 1)
  /\ UNCHANGED <<result, ferr>>

EnsureRuntimeRunning(c) ==
  /\ caller[c].pc = "idle"
  /\ JoinFlight(c) \/ LaunchFlight(c)
  /\ UNCHANGED <<engine, saver, stopper, faults>>

Return(c, a) == caller' = [caller EXCEPT ![c].pc = "returned", ![c].answer = a]

\* select over inflight.done and ctx.Done(); when both are ready either may win.
WaitRuntimeStart(c) ==
  /\ caller[c].pc = "waiting"
  /\ \/ /\ result[caller[c].flight] # "none"
        /\ Return(c, result[caller[c].flight])
     \/ /\ caller[c].ctxDone
        /\ Return(c, "ctx")
  /\ UNCHANGED <<flightVars, engine, saver, stopper, faults>>

\* The client hangs up, the request's timeout passes or the daemon stops.
CancelCtx(c) ==
  /\ caller[c].pc = "waiting"
  /\ ~caller[c].ctxDone
  /\ caller' = [caller EXCEPT ![c].ctxDone = TRUE]
  /\ UNCHANGED <<flightVars, engine, saver, stopper, faults>>

CallAgain(c) ==
  /\ caller[c].pc = "returned"
  /\ caller' = [caller EXCEPT ![c] = Idle]
  /\ UNCHANGED <<flightVars, engine, saver, stopper, faults>>

-----------------------------------------------------------------------------
(* The goroutine of a flight: startRuntimeUntilRunning, then publication.  *)

\* Runtime.Status: the guest answers always, the native runtime only while it is up.
StatusReport ==
  IF engine = "running" THEN "running" ELSE IF Native THEN "error" ELSE "stopped"

Goto(f, pc) == fpc' = [fpc EXCEPT ![f] = pc] /\ UNCHANGED ferr

\* Not in the code: leaves the goroutine without publishing its error.
FailWithoutPublishing(f) ==
  /\ fpc' = [fpc EXCEPT ![f] = "done"]
  /\ ferr' = [ferr EXCEPT ![f] = "failed"]

Fail(f) ==
  /\ fpc' = [fpc EXCEPT ![f] = "publish"]
  /\ ferr' = [ferr EXCEPT ![f] = "failed"]

\* The first Status call only decides whether the start is given up.
FirstStatus(f) ==
  /\ fpc[f] = "status"
  /\ IF StatusReport = "error" THEN Fail(f) ELSE Goto(f, "start")
  /\ UNCHANGED <<inflight, born, result, caller, engine, saver, stopper, faults>>

\* Runtime.Start returns nil: the guest is up, or the host engine was found up.
StartSucceeds(f) ==
  /\ fpc[f] = "start"
  /\ Native => engine = "running"
  /\ engine' = "running"
  /\ Goto(f, "poll")
  /\ UNCHANGED <<inflight, born, result, caller, saver, stopper, faults>>

\* Runtime.Start fails; a guest it had found up may be gone by then.
StartFails(f) ==
  /\ fpc[f] = "start"
  /\ engine' \in (IF Native THEN {engine} ELSE {engine, "stopped"})
  /\ Fail(f)
  /\ UNCHANGED <<inflight, born, result, caller, saver, stopper, faults>>

\* A guest that Start does not attach to is torn down and booted again.
StartRestarts(f) ==
  /\ fpc[f] = "start"
  /\ ~Native
  /\ engine = "running"
  /\ engine' = "stopped"
  /\ UNCHANGED <<flightVars, caller, saver, stopper, faults>>

PollStatus(f) ==
  /\ fpc[f] = "poll"
  /\ \/ StatusReport = "error" /\ Fail(f)
     \/ StatusReport = "running" /\ Goto(f, "clear")
     \/ StatusReport = "stopped" /\ Goto(f, "sleep")
  /\ UNCHANGED <<inflight, born, result, caller, engine, saver, stopper, faults>>

\* select over startCtx.Done() and the two-second timer: the timer fires.
PollAgain(f) ==
  /\ fpc[f] = "sleep"
  /\ Goto(f, "poll")
  /\ UNCHANGED <<inflight, born, result, caller, engine, saver, stopper, faults>>

\* startCtx is done: its deadline may pass during any sleep, and Shutdown cancels it.
PollDeadline(f) ==
  /\ fpc[f] = "sleep"
  /\ Fail(f)
  /\ UNCHANGED <<inflight, born, result, caller, engine, saver, stopper, faults>>

\* Not in the code: a start that leaves Resource Saver's flag alone.
ClearNothing(f) ==
  /\ fpc[f] = "clear"
  /\ fpc' = [fpc EXCEPT ![f] = "publish"]
  /\ ferr' = [ferr EXCEPT ![f] = "nil"]
  /\ UNCHANGED <<inflight, born, result, caller, engine, saver, stopper, faults>>

\* ClearResourceSaver; UseProxy concerns the public socket only.
ClearAfterStart(f) ==
  /\ fpc[f] = "clear"
  /\ saver' = ClearedSaver
  /\ fpc' = [fpc EXCEPT ![f] = "publish"]
  /\ ferr' = [ferr EXCEPT ![f] = "nil"]
  /\ UNCHANGED <<inflight, born, result, caller, engine, stopper, faults>>

\* Not in the code: a publication that forgets runtimeStartInflight = nil.
PublishKeepsInflight(f) ==
  /\ fpc[f] = "publish"
  /\ result' = [result EXCEPT ![f] = ferr[f]]
  /\ fpc' = [fpc EXCEPT ![f] = "done"]
  /\ UNCHANGED <<inflight, born, ferr, caller, engine, saver, stopper, faults>>

\* Under runtimeStartMu: err, runtimeStartInflight = nil and close(done).
Publish(f) ==
  /\ fpc[f] = "publish"
  /\ result' = [result EXCEPT ![f] = ferr[f]]
  /\ inflight' = Nil
  /\ fpc' = [fpc EXCEPT ![f] = "done"]
  /\ UNCHANGED <<born, ferr, caller, engine, saver, stopper, faults>>

FlightStep(f) ==
  \/ FirstStatus(f) \/ StartSucceeds(f) \/ StartFails(f) \/ StartRestarts(f)
  \/ PollStatus(f) \/ PollAgain(f) \/ PollDeadline(f)
  \/ ClearAfterStart(f) \/ Publish(f)

-----------------------------------------------------------------------------
(* Stopping, and the engine itself.                                        *)

\* ForceStopRuntime: the guest is killed, the native engine is left alone.
ForceStopEngine == engine' = IF Native THEN engine ELSE "stopped"

HandleRuntimeStop(s) ==
  /\ stopper[s] = "idle"
  /\ ForceStopEngine
  /\ stopper' = [stopper EXCEPT ![s] = "clear"]
  /\ UNCHANGED <<flightVars, caller, saver, faults>>

ClearAfterStop(s) ==
  /\ stopper[s] = "clear"
  /\ saver' = ClearedSaver
  /\ stopper' = [stopper EXCEPT ![s] = "done"]
  /\ UNCHANGED <<flightVars, caller, engine, faults>>

\* The VM dies under the daemon; the host engine is stopped or started by the host.
EngineFault ==
  /\ faults < MaxFaults
  /\ faults' = faults + 1
  /\ \/ engine = "running" /\ engine' = "stopped"
     \/ Native /\ engine = "stopped" /\ engine' = "running"
  /\ UNCHANGED <<flightVars, caller, saver, stopper>>

CallerStep(c) ==
  EnsureRuntimeRunning(c) \/ WaitRuntimeStart(c) \/ CancelCtx(c) \/ CallAgain(c)

\* Every bound is used up and every call has been answered.
Done ==
  /\ born = MaxFlights /\ inflight = Nil
  /\ \A c \in Callers : caller[c].pc = "idle"
  /\ UNCHANGED vars

Next ==
  \/ \E c \in Callers : CallerStep(c)
  \/ \E f \in Flights : FlightStep(f)
  \/ \E s \in Stoppers : HandleRuntimeStop(s) \/ ClearAfterStop(s)
  \/ EngineFault
  \/ Done

Spec == Init /\ [][Next]_vars

\* Every goroutine is scheduled, Runtime.Start returns (its boot has a deadline), and the
\* absolute deadline of startCtx is seen by one of the recurring sleeps.
FairSpec ==
  /\ Spec
  /\ \A c \in Callers : WF_vars(WaitRuntimeStart(c))
  /\ \A f \in Flights : WF_vars(FlightStep(f)) /\ SF_vars(PollDeadline(f))
  /\ \A s \in Stoppers : WF_vars(ClearAfterStop(s))

-----------------------------------------------------------------------------
(* Properties.                                                             *)

Active(f) == fpc[f] \notin {"unborn", "done"}

\* Concurrent callers share one Start: no two start goroutines exist at a time, and the
\* one that exists is the flight published in runtimeStartInflight.
OneStartAtATime == \A f \in Flights : Active(f) <=> inflight = f

\* No caller is left waiting on a flight nobody will resolve: the flight it joined is
\* either the one in flight or already resolved.
NoOrphanedWaiter ==
  \A c \in Callers : caller[c].pc = "waiting" =>
    caller[c].flight = inflight \/ result[caller[c].flight] # "none"

\* A caller that is told how the start ended is told how the start it joined ended.
AnswerOfJoinedFlight ==
  \A c \in Callers : caller[c].answer \in Results =>
    /\ caller[c].flight \in Flights
    /\ caller[c].answer = result[caller[c].flight]

\* What a flight reported never changes, whatever later flights do.
ResultsAreFinal == [][\A f \in Flights : result[f] # "none" => result'[f] = result[f]]_vars

\* Every call of EnsureRuntimeRunning returns, whatever stops and faults interfere.
EveryCallReturns == \A c \in Callers : caller[c].pc = "waiting" ~> caller[c].pc # "waiting"

\* The single flight implements its abstract specification.
SF == INSTANCE SingleFlight
ImplementsSingleFlight == SF!Spec

\* "EnsureRuntimeRunning starts the runtime when needed": a call made while the engine is
\* down gets a flight whose Runtime.Start is still to return, or one about to report that
\* it failed; it does not wait for a flight that is past Start and will start nothing.
StartsWhenNeeded ==
  [][\A c \in Callers :
       (caller[c].pc = "idle" /\ caller'[c].pc = "waiting" /\ engine = "stopped") =>
         LET f == caller'[c].flight IN
           fpc'[f] \in {"status", "start"} \/ (fpc'[f] = "publish" /\ ferr'[f] = "failed")]_vars

=============================================================================
