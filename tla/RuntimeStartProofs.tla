------------------------- MODULE RuntimeStartProofs -------------------------
(***************************************************************************)
(* Proofs about RuntimeStart and the two modules that extend it, for any   *)
(* set of callers, stop handlers, list calls, containers and login         *)
(* sessions, any number of flights, and both runtimes.                     *)
(***************************************************************************)
EXTENDS ResourceSaver, RegistryLogin, TLAPS

USE Zenon

\* Flights are born in order, and a flight has its result exactly when its goroutine is over.
FlightHistory ==
  /\ \A f \in Flights : fpc[f] = "unborn" <=> f > born
  /\ \A f \in Flights : fpc[f] = "done" <=> result[f] # "none"

\* A waiting caller has no answer yet and waits on a flight that was born.
WaitersJoined ==
  \A c \in Callers : caller[c].pc = "waiting" =>
    caller[c].flight \in 1..born /\ caller[c].answer = "none"

\* The inductive invariant: the properties, and the history they rest on.
IInv == TypeOK /\ OneStartAtATime /\ FlightHistory /\ WaitersJoined /\ AnswerOfJoinedFlight

USE MaxFlightsAssumption, MaxFaultsAssumption, NativeAssumption

\* The first daemon state satisfies the inductive invariant.
LEMMA InitInv == Init => IInv
  BY SMT DEF Init, IInv, TypeOK, OneStartAtATime, FlightHistory, WaitersJoined,
         AnswerOfJoinedFlight, Active, Flights, Nil, Results, Answers, Idle, ClearedSaver,
         CallerStates, FlightPcs

\* A caller's step keeps the inductive invariant: joining or launching a flight, being
\* told its result, leaving on a canceled context.
LEMMA CallerStepInv ==
  ASSUME IInv, NEW c \in Callers, CallerStep(c)
  PROVE  IInv'
<1> USE DEF Flights, Nil, Results, Answers, CallerStates, FlightPcs
<1>1. CASE EnsureRuntimeRunning(c) /\ JoinFlight(c)
  <2>1. /\ Waiting(inflight) \in CallerStates
        /\ inflight \in 1..born
    BY <1>1, SMT DEF IInv, TypeOK, OneStartAtATime, FlightHistory, Active, JoinFlight, Waiting
  <2>2. /\ caller' = [caller EXCEPT ![c] = Waiting(inflight)]
        /\ UNCHANGED <<inflight, born, result, fpc, ferr, engine, saver, stopper, faults>>
    BY <1>1 DEF EnsureRuntimeRunning, JoinFlight, Wait, flightVars
  <2>3. TypeOK'
    BY <2>1, <2>2 DEF IInv, TypeOK
  <2>4. OneStartAtATime' /\ FlightHistory'
    BY <2>2 DEF IInv, OneStartAtATime, FlightHistory, Active
  <2>5. WaitersJoined' /\ AnswerOfJoinedFlight'
    BY <2>1, <2>2, SMT DEF IInv, TypeOK, WaitersJoined, AnswerOfJoinedFlight, Waiting
  <2> QED
    BY <2>3, <2>4, <2>5 DEF IInv
<1>2. CASE EnsureRuntimeRunning(c) /\ LaunchFlight(c)
  <2> DEFINE f == born + 1
  <2>1. /\ f \in Flights
        /\ Waiting(f) \in CallerStates
    BY <1>2, SMT DEF IInv, TypeOK, LaunchFlight, Waiting
  <2>2. /\ caller' = [caller EXCEPT ![c] = Waiting(f)]
        /\ fpc' = [fpc EXCEPT ![f] = "status"]
        /\ inflight = Nil /\ inflight' = f /\ born' = f
        /\ UNCHANGED <<result, ferr, engine, saver, stopper, faults>>
    BY <1>2 DEF EnsureRuntimeRunning, LaunchFlight, Wait
  <2> HIDE DEF f
  <2>3. TypeOK'
    BY <2>1, <2>2, SMT DEF IInv, TypeOK
  <2>4. OneStartAtATime'
    BY <2>1, <2>2, SMT DEF IInv, TypeOK, OneStartAtATime, Active
  <2>5. FlightHistory'
    BY <2>1, <2>2, SMT DEF IInv, TypeOK, FlightHistory, f
  <2>6. WaitersJoined' /\ AnswerOfJoinedFlight'
    BY <2>1, <2>2, SMT DEF IInv, TypeOK, WaitersJoined, AnswerOfJoinedFlight, Waiting, f
  <2> QED
    BY <2>3, <2>4, <2>5, <2>6 DEF IInv
<1>3. CASE WaitRuntimeStart(c)
  BY <1>3, SMT DEF IInv, TypeOK, OneStartAtATime, FlightHistory, WaitersJoined, AnswerOfJoinedFlight,
              Active, WaitRuntimeStart, Return, flightVars
<1>4. CASE CancelCtx(c)
  <2>1. /\ caller' = [caller EXCEPT ![c] = [caller[c] EXCEPT !.ctxDone = TRUE]]
        /\ UNCHANGED <<inflight, born, result, fpc, ferr, engine, saver, stopper, faults>>
    BY <1>4 DEF CancelCtx, flightVars
  <2>2. TypeOK'
    <3>1. caller[c] \in CallerStates
      BY DEF IInv, TypeOK
    <3>2. [caller[c] EXCEPT !.ctxDone = TRUE] \in CallerStates
      BY <3>1
    <3> QED
      BY <2>1, <3>2 DEF IInv, TypeOK
  <2>3. OneStartAtATime' /\ FlightHistory'
    BY <2>1 DEF IInv, OneStartAtATime, FlightHistory, Active
  <2>4. WaitersJoined' /\ AnswerOfJoinedFlight'
    BY <2>1, SMT DEF IInv, TypeOK, WaitersJoined, AnswerOfJoinedFlight
  <2> QED
    BY <2>2, <2>3, <2>4 DEF IInv
<1>5. CASE CallAgain(c)
  <2>1. Idle \in CallerStates
    BY SMT DEF Idle
  <2>2. /\ caller' = [caller EXCEPT ![c] = Idle]
        /\ UNCHANGED <<inflight, born, result, fpc, ferr, engine, saver, stopper, faults>>
    BY <1>5 DEF CallAgain, flightVars
  <2>3. TypeOK'
    BY <2>1, <2>2 DEF IInv, TypeOK
  <2>4. OneStartAtATime' /\ FlightHistory'
    BY <2>2 DEF IInv, OneStartAtATime, FlightHistory, Active
  <2>5. WaitersJoined' /\ AnswerOfJoinedFlight'
    BY <2>1, <2>2, SMT DEF IInv, TypeOK, WaitersJoined, AnswerOfJoinedFlight, Idle
  <2> QED
    BY <2>3, <2>4, <2>5 DEF IInv
<1> QED
  BY <1>1, <1>2, <1>3, <1>4, <1>5 DEF CallerStep, EnsureRuntimeRunning

\* A step of a start goroutine keeps the inductive invariant; only the publication ends
\* a flight, and it ends the one in flight.
LEMMA FlightStepInv ==
  ASSUME IInv, NEW f \in Flights, FlightStep(f)
  PROVE  IInv'
<1> USE DEF Flights, Nil, Results, FlightPcs
<1>1. /\ born' = born /\ caller' = caller /\ stopper' = stopper /\ faults' = faults
      /\ engine' \in {"running", "stopped"}
      /\ saver' \in [active : BOOLEAN, idleAt : Nat]
  <2>1. /\ engine \in {"running", "stopped"}
        /\ saver \in [active : BOOLEAN, idleAt : Nat]
        /\ ClearedSaver \in [active : BOOLEAN, idleAt : Nat]
    BY DEF IInv, TypeOK, ClearedSaver
  <2>2. CASE FirstStatus(f) \/ PollStatus(f) \/ PollAgain(f) \/ PollDeadline(f) \/ Publish(f)
    BY <2>1, <2>2 DEF FirstStatus, PollStatus, PollAgain, PollDeadline, Publish
  <2>3. CASE StartSucceeds(f) \/ StartFails(f) \/ StartRestarts(f)
    BY <2>1, <2>3 DEF StartSucceeds, StartFails, StartRestarts, flightVars
  <2>4. CASE ClearAfterStart(f)
    BY <2>1, <2>4 DEF ClearAfterStart
  <2> QED
    BY <2>2, <2>3, <2>4 DEF FlightStep
<1>2. CASE Publish(f)
  <2>1. inflight = f /\ result[f] = "none"
    BY <1>2 DEF IInv, TypeOK, OneStartAtATime, FlightHistory, Active, Publish
  <2>2. /\ result' = [result EXCEPT ![f] = ferr[f]]
        /\ fpc' = [fpc EXCEPT ![f] = "done"]
        /\ inflight' = Nil /\ ferr' = ferr
    BY <1>2 DEF Publish
  <2>3. TypeOK'
    BY <1>1, <2>2, SMT DEF IInv, TypeOK
  <2>4. OneStartAtATime'
    BY <2>1, <2>2, SMT DEF IInv, TypeOK, OneStartAtATime, Active
  <2>5. FlightHistory'
    <3>1. ferr[f] # "none" /\ fpc[f] # "unborn" /\ fpc[f] \in FlightPcs
      BY <1>2 DEF IInv, TypeOK, Publish
    <3>2. \A g \in Flights : fpc'[g] = "unborn" <=> fpc[g] = "unborn"
      BY <2>2, <3>1 DEF IInv, TypeOK
    <3>3. \A g \in Flights : fpc'[g] = "done" <=> result'[g] # "none"
      BY <2>2, <3>1 DEF IInv, TypeOK, FlightHistory
    <3> QED
      BY <1>1, <3>2, <3>3 DEF IInv, FlightHistory
  <2>6. WaitersJoined'
    BY <1>1 DEF IInv, WaitersJoined
  <2>7. AnswerOfJoinedFlight'
    <3> SUFFICES ASSUME NEW c \in Callers, caller[c].answer \in Results
                 PROVE  caller[c].flight \in Flights /\ caller[c].answer = result'[caller[c].flight]
      BY <1>1 DEF AnswerOfJoinedFlight
    <3>1. caller[c].flight \in Flights /\ caller[c].answer = result[caller[c].flight]
      BY DEF IInv, AnswerOfJoinedFlight
    <3>2. caller[c].flight # f
      BY <2>1, <3>1
    <3> QED
      BY <2>2, <3>1, <3>2 DEF IInv, TypeOK
  <2> QED
    BY <2>3, <2>4, <2>5, <2>6, <2>7 DEF IInv
<1>3. CASE ~Publish(f)
  <2>1. /\ inflight' = inflight /\ result' = result
        /\ ferr' \in [Flights -> Results]
        /\ fpc[f] \in {"status", "start", "poll", "sleep", "clear"}
        /\ \E pc \in {"start", "poll", "sleep", "clear", "publish"} : fpc' = [fpc EXCEPT ![f] = pc]
    <3>1. inflight' = inflight /\ result' = result /\ fpc[f] \in {"status", "start", "poll", "sleep", "clear"}
      BY <1>3 DEF FlightStep, FirstStatus, StartSucceeds, StartFails, StartRestarts, PollStatus, PollAgain,
                   PollDeadline, ClearAfterStart, Goto, Fail, flightVars
    <3>2. \/ UNCHANGED <<fpc, ferr>> /\ fpc[f] = "start"
          \/ /\ ferr' = ferr \/ \E e \in Results : ferr' = [ferr EXCEPT ![f] = e]
             /\ \E pc \in {"start", "poll", "sleep", "clear", "publish"} : fpc' = [fpc EXCEPT ![f] = pc]
      BY <1>3 DEF FlightStep, FirstStatus, StartSucceeds, StartFails, StartRestarts, PollStatus, PollAgain,
                   PollDeadline, ClearAfterStart, Goto, Fail, flightVars, Results
    <3>3. fpc[f] = "start" => fpc = [fpc EXCEPT ![f] = "start"]
      BY SMT DEF IInv, TypeOK
    <3>4. ferr' \in [Flights -> Results]
      <4>1. ferr \in [Flights -> Results]
        BY DEF IInv, TypeOK
      <4>2. \A e \in Results : [ferr EXCEPT ![f] = e] \in [Flights -> Results]
        BY <4>1
      <4> QED BY <3>2, <4>1, <4>2
    <3> QED BY <3>1, <3>2, <3>3, <3>4
  <2>2. TypeOK'
    BY <1>1, <2>1, SMT DEF IInv, TypeOK
  <2>3. OneStartAtATime' /\ FlightHistory'
    BY <1>1, <2>1, SMT DEF IInv, TypeOK, OneStartAtATime, FlightHistory, Active
  <2>4. WaitersJoined' /\ AnswerOfJoinedFlight'
    BY <1>1, <2>1 DEF IInv, WaitersJoined, AnswerOfJoinedFlight
  <2> QED
    BY <2>2, <2>3, <2>4 DEF IInv
<1> QED
  BY <1>2, <1>3

\* Stop handlers, faults of the engine and idling touch neither flights nor callers.
LEMMA OtherStepInv ==
  ASSUME IInv,
         \/ \E s \in Stoppers : HandleRuntimeStop(s) \/ ClearAfterStop(s)
         \/ EngineFault
         \/ UNCHANGED vars
  PROVE  IInv'
<1> DEFINE Untouched ==
      /\ UNCHANGED <<inflight, born, result, fpc, ferr, caller>>
      /\ engine' \in {"running", "stopped"}
      /\ saver' \in [active : BOOLEAN, idleAt : Nat]
      /\ stopper' \in [Stoppers -> {"idle", "clear", "done"}]
      /\ faults' \in 0..MaxFaults
<1>1. Untouched
  <2>1. /\ engine \in {"running", "stopped"}
        /\ saver \in [active : BOOLEAN, idleAt : Nat]
        /\ stopper \in [Stoppers -> {"idle", "clear", "done"}]
        /\ faults \in 0..MaxFaults
        /\ ClearedSaver \in [active : BOOLEAN, idleAt : Nat]
    BY DEF IInv, TypeOK, ClearedSaver
  <2>2. ASSUME NEW s \in Stoppers, HandleRuntimeStop(s)
        PROVE  Untouched
    BY <2>1, <2>2 DEF HandleRuntimeStop, ForceStopEngine, flightVars
  <2>3. ASSUME NEW s \in Stoppers, ClearAfterStop(s)
        PROVE  Untouched
    BY <2>1, <2>3 DEF ClearAfterStop, flightVars
  <2>4. CASE EngineFault
    BY <2>1, <2>4, SMT DEF EngineFault, flightVars
  <2>5. CASE UNCHANGED vars
    BY <2>1, <2>5 DEF vars
  <2> QED
    BY <2>2, <2>3, <2>4, <2>5
<1>2. TypeOK'
  BY <1>1 DEF IInv, TypeOK
<1>3. OneStartAtATime' /\ FlightHistory' /\ WaitersJoined' /\ AnswerOfJoinedFlight'
  BY <1>1 DEF IInv, OneStartAtATime, FlightHistory, WaitersJoined, AnswerOfJoinedFlight, Active
<1> QED
  BY <1>2, <1>3 DEF IInv

\* The invariant is inductive.
LEMMA NextInv == IInv /\ [Next]_vars => IInv'
  BY CallerStepInv, FlightStepInv, OtherStepInv DEF Next, Done

\* The inductive invariant holds in every state of every behaviour.
THEOREM Invariance == Spec => []IInv
  BY InitInv, NextInv, PTL DEF Spec

\* Concurrent callers share one Start: at any time at most one start goroutine exists, and
\* it is the one runtimeStartInflight points to.
THEOREM SingleStart == Spec => []OneStartAtATime
  BY Invariance, PTL DEF IInv

\* Nobody waits on a flight that is neither in flight nor resolved.
THEOREM NoOrphan == Spec => []NoOrphanedWaiter
<1>1. IInv => NoOrphanedWaiter
  BY SMT DEF IInv, TypeOK, OneStartAtATime, FlightHistory, WaitersJoined, NoOrphanedWaiter, Active,
         Flights, CallerStates
<1> QED
  BY <1>1, Invariance, PTL

\* A caller that is given a result is given the result of the flight it joined.
THEOREM OwnAnswer == Spec => []AnswerOfJoinedFlight
  BY Invariance, PTL DEF IInv

\* A flight's result is written by its own publication only, and before that it has none.
LEMMA StepKeepsResults ==
  ASSUME IInv, [Next]_vars
  PROVE  \A f \in Flights : result[f] # "none" => result'[f] = result[f]
<1>1. ASSUME NEW f \in Flights, Publish(f)
      PROVE  \A g \in Flights : result[g] # "none" => result'[g] = result[g]
  <2>1. result[f] = "none" /\ result' = [result EXCEPT ![f] = ferr[f]] /\ result \in [Flights -> Results \cup {"none"}]
    BY <1>1 DEF Publish, IInv, TypeOK, FlightHistory
  <2> QED BY <2>1
<1>2. (\E f \in Flights : Publish(f)) \/ UNCHANGED result
  BY DEF Next, CallerStep, FlightStep, EnsureRuntimeRunning, JoinFlight, LaunchFlight, Wait, WaitRuntimeStart,
         Return, CancelCtx, CallAgain, FirstStatus, StartFails, StartRestarts, StartSucceeds, PollStatus,
         PollAgain, PollDeadline, ClearAfterStart, HandleRuntimeStop, ClearAfterStop, EngineFault, Done,
         flightVars, vars
<1> QED BY <1>1, <1>2

\* What a flight reported never changes, whatever later flights do (runtimeStartFlight.err).
THEOREM ResultsStay == Spec => ResultsAreFinal
<1>1. IInv /\ [Next]_vars => [\A f \in Flights : result[f] # "none" => result'[f] = result[f]]_vars
  BY StepKeepsResults
<1> QED BY <1>1, Invariance, PTL DEF Spec, ResultsAreFinal

-----------------------------------------------------------------------------
(* RuntimeStart implements SingleFlight.                                   *)

\* A caller's step is the same step of the abstract specification.
LEMMA CallerStepImplements ==
  ASSUME IInv, NEW c \in Callers, CallerStep(c)
  PROVE  [SF!Next]_SF!vars
<1>1. CASE EnsureRuntimeRunning(c)
  <2>1. SF!Join(c) \/ SF!Launch(c)
    BY <1>1 DEF EnsureRuntimeRunning, JoinFlight, LaunchFlight, Wait, Waiting, flightVars, Nil,
                SF!Join, SF!Launch, SF!Wait, SF!Waiting, SF!Nil
  <2> QED
    BY <2>1 DEF SF!Next, SF!CallerStep
<1>2. CASE WaitRuntimeStart(c)
  <2>1. SF!ReturnResult(c) \/ SF!ReturnCanceled(c)
    BY <1>2 DEF WaitRuntimeStart, Return, flightVars, SF!ReturnResult, SF!ReturnCanceled, SF!Return
  <2>2. caller[c].pc = "waiting"
    BY <1>2 DEF WaitRuntimeStart
  <2> QED
    BY <2>1, <2>2 DEF SF!Next, SF!CallerStep
<1>3. CASE CancelCtx(c)
  <2>1. SF!CancelCtx(c)
    BY <1>3 DEF CancelCtx, flightVars, SF!CancelCtx
  <2> QED
    BY <2>1 DEF SF!Next, SF!CallerStep
<1>4. CASE CallAgain(c)
  <2>1. SF!Again(c)
    BY <1>4 DEF CallAgain, Idle, flightVars, Nil, SF!Again, SF!Idle, SF!Nil
  <2> QED
    BY <2>1 DEF SF!Next, SF!CallerStep
<1> QED
  BY <1>1, <1>2, <1>3, <1>4 DEF CallerStep

\* The publication of a flight resolves it; the other steps of its goroutine are invisible.
LEMMA FlightStepImplements ==
  ASSUME IInv, NEW f \in Flights, FlightStep(f)
  PROVE  [SF!Next]_SF!vars
<1>1. CASE Publish(f)
  <2>1. inflight = f /\ f # Nil /\ ferr[f] \in Results
    BY <1>1, SMT DEF IInv, TypeOK, OneStartAtATime, Active, Publish, Flights, Nil
  <2>2. SF!Resolve(ferr[f])
    BY <1>1, <2>1 DEF Publish, Nil, SF!Resolve, SF!Nil
  <2> QED
    BY <2>1, <2>2 DEF SF!Next, SF!Results, Results
<1>2. CASE ~Publish(f)
  <2>1. UNCHANGED <<inflight, born, result, caller>>
    BY <1>2 DEF FlightStep, FirstStatus, StartSucceeds, StartFails, StartRestarts, PollStatus,
                PollAgain, PollDeadline, ClearAfterStart, flightVars
  <2> QED
    BY <2>1 DEF SF!vars
<1> QED
  BY <1>1, <1>2

\* The start machinery of the daemon implements the single flight it promises.
THEOREM Implementation == Spec => ImplementsSingleFlight
<1>1. Init => SF!Init
  BY DEF Init, Idle, Nil, Flights, SF!Init, SF!Idle, SF!Nil, SF!Flights
<1>2. IInv /\ [Next]_vars => [SF!Next]_SF!vars
  <2> SUFFICES ASSUME IInv, [Next]_vars PROVE [SF!Next]_SF!vars
    OBVIOUS
  <2>1. ASSUME NEW s \in Stoppers, HandleRuntimeStop(s) \/ ClearAfterStop(s)
        PROVE  UNCHANGED SF!vars
    BY <2>1 DEF HandleRuntimeStop, ClearAfterStop, flightVars, SF!vars
  <2>2. CASE EngineFault \/ Done \/ UNCHANGED vars
    BY <2>2 DEF EngineFault, Done, flightVars, vars, SF!vars
  <2> QED
    BY <2>1, <2>2, CallerStepImplements, FlightStepImplements DEF Next
<1> QED
  BY <1>1, <1>2, Invariance, PTL DEF Spec, ImplementsSingleFlight, SF!Spec

-----------------------------------------------------------------------------
(* ResourceSaver: what RuntimeStart guarantees survives the composition    *)
(* with the saver, and on the guest the saver's flag is not left up on a   *)
(* running engine.                                                         *)

USE IdleAfterAssumption

\* The steps of the saver's worker, of the list calls and of the containers touch neither the
\* flights nor the callers.
SaverOnly ==
  /\ UNCHANGED otherVars
  /\ engine' \in {"running", "stopped"}
  /\ saver' \in [active : BOOLEAN, idleAt : Nat]

\* Such a step keeps the inductive invariant of the start machinery.
LEMMA SaverOnlyInv == IInv /\ SaverOnly => IInv'
<1> SUFFICES ASSUME IInv, SaverOnly PROVE IInv'
  OBVIOUS
<1>1. UNCHANGED <<inflight, born, result, caller, fpc, ferr, stopper, faults>>
  BY DEF SaverOnly, otherVars
<1>2. TypeOK'
  BY <1>1 DEF IInv, TypeOK, SaverOnly
<1>3. OneStartAtATime' /\ FlightHistory'
  BY <1>1 DEF IInv, OneStartAtATime, FlightHistory, Active
<1>4. WaitersJoined' /\ AnswerOfJoinedFlight'
  BY <1>1 DEF IInv, WaitersJoined, AnswerOfJoinedFlight
<1> QED
  BY <1>2, <1>3, <1>4 DEF IInv

\* A tick of the worker is a step of the saver only.
LEMMA TickIsSaverOnly == IInv /\ Tick => SaverOnly
<1> SUFFICES ASSUME IInv, Tick PROVE SaverOnly
  OBVIOUS
<1>1. /\ engine \in {"running", "stopped"}
      /\ saver \in [active : BOOLEAN, idleAt : Nat]
  BY DEF IInv, TypeOK
<1> USE DEF SaverOnly, ClearedSaver
<1>2. CASE TickBegins
  BY <1>1, <1>2, SMT DEF TickBegins, IdleSince, otherVars
<1>3. CASE TickStatus
  <2>1. saver' = saver \/ IdleSince(0)
    BY <1>3 DEF TickStatus, StatusReport
  <2> QED
    BY <1>1, <1>3, <2>1, SMT DEF TickStatus, IdleSince, otherVars
<1>4. CASE TickList
  <2>1. UNCHANGED <<otherVars, engine>> /\ (saver' = saver \/ saver' = ClearedSaver)
    BY <1>4 DEF TickList
  <2>2. ClearedSaver \in [active : BOOLEAN, idleAt : Nat]
    OBVIOUS
  <2> QED
    BY <1>1, <2>1, <2>2 DEF otherVars
<1>5. CASE TickDecide
  <2>1. saver' = saver \/ IdleSince(1)
    BY <1>5 DEF TickDecide
  <2> QED
    BY <1>1, <1>5, <2>1, SMT DEF TickDecide, IdleSince, otherVars
<1>6. CASE TickCapture
  BY <1>1, <1>6 DEF TickCapture, vars, otherVars
<1>7. CASE TickMark
  BY <1>1, <1>7 DEF TickMark, otherVars
<1>8. CASE TickStop
  BY <1>1, <1>8 DEF TickStop, ForceStopEngine, otherVars
<1> QED
  BY <1>2, <1>3, <1>4, <1>5, <1>6, <1>7, <1>8 DEF Tick

\* The steps of the list calls, of the containers and of the configuration leave everything
\* of the start machinery alone, the flag included.
LEMMA QuietSteps ==
  (\/ \E k \in Containers : ContainerStarts(k) \/ ContainerStops(k)
   \/ SetEnabled
   \/ \E l \in Listers : Lister(l))
  => UNCHANGED <<vars, tick>>
BY DEF ContainerStarts, ContainerStops, SetEnabled, Lister, ListBegins, ListStatus, ListLive,
       ListSet

\* Every step of the composition keeps the inductive invariant of the start machinery.
LEMMA ComposedInv == IInv /\ [SaverNext]_composedVars => IInv'
<1> SUFFICES ASSUME IInv, [SaverNext]_composedVars PROVE IInv'
  OBVIOUS
<1>1. CASE CoreStep
  BY <1>1, NextInv DEF CoreStep
<1>2. CASE TimePasses
  <2>1. SaverOnly
    BY <1>2, SMT DEF TimePasses, SaverOnly, IInv, TypeOK
  <2> QED
    BY <2>1, SaverOnlyInv
<1>3. CASE Tick
  BY <1>3, TickIsSaverOnly, SaverOnlyInv
<1>4. CASE UNCHANGED vars
  BY <1>4, NextInv
<1> QED
  BY <1>1, <1>2, <1>3, <1>4, QuietSteps DEF SaverNext, SaverStep, composedVars

\* The start machinery's invariant holds in the composition too: neither the saver's stops nor
\* its ticks can bring about two starts, an orphaned waiter or a foreign answer.
THEOREM ComposedInvariance == SaverSpec => []IInv
<1>1. SaverInit => IInv
  BY InitInv DEF SaverInit
<1> QED
  BY <1>1, ComposedInv, PTL DEF SaverSpec

-----------------------------------------------------------------------------
(* The flag.                                                               *)

\* A step of the start machinery keeps the flag's promise on the guest: only a flight that is
\* about to clear the flag brings the engine up.
LEMMA FlagCoreStep ==
  ASSUME IInv, ~Native, ActiveMeansStopped, CoreStep
  PROVE  ActiveMeansStopped'
<1>1. tick' = tick /\ Next
  BY DEF CoreStep, Beside
<1> USE DEF ActiveMeansStopped, WakeUnderway, Nil
<1>2. ASSUME NEW c \in Callers, CallerStep(c) PROVE ActiveMeansStopped'
  <2>1. CASE EnsureRuntimeRunning(c)
    <3>1. UNCHANGED <<engine, saver>> /\ (inflight # Nil => UNCHANGED <<inflight, fpc>>)
      BY <2>1 DEF EnsureRuntimeRunning, JoinFlight, LaunchFlight, flightVars
    <3> QED
      BY <1>1, <3>1
  <2>2. CASE WaitRuntimeStart(c) \/ CancelCtx(c) \/ CallAgain(c)
    <3>1. UNCHANGED <<inflight, fpc, engine, saver>>
      BY <2>2 DEF WaitRuntimeStart, CancelCtx, CallAgain, flightVars
    <3> QED
      BY <1>1, <3>1
  <2> QED
    BY <1>2, <2>1, <2>2 DEF CallerStep
<1>3. ASSUME NEW f \in Flights, FlightStep(f) PROVE ActiveMeansStopped'
  <2>1. fpc \in [Flights -> FlightPcs] /\ (fpc[f] \notin {"unborn", "done"} => inflight = f)
    BY DEF IInv, TypeOK, OneStartAtATime, Active
  <2>2. f # Nil
    BY MaxFlightsAssumption, SMT DEF Flights
  <2>3. CASE StartSucceeds(f)
    BY <1>1, <2>1, <2>2, <2>3 DEF StartSucceeds, Goto
  <2>4. CASE FirstStatus(f) \/ StartFails(f) \/ StartRestarts(f)
    BY <1>1, <2>1, <2>2, <2>4
       DEF FirstStatus, StartFails, StartRestarts, Goto, Fail, flightVars, IInv, TypeOK
  <2>5. CASE PollStatus(f)
    BY <1>1, <2>1, <2>2, <2>5 DEF PollStatus, StatusReport, Goto, Fail
  <2>6. CASE PollAgain(f) \/ PollDeadline(f)
    BY <1>1, <2>1, <2>2, <2>6 DEF PollAgain, PollDeadline, Goto, Fail
  <2>7. CASE ClearAfterStart(f)
    BY <1>1, <2>7 DEF ClearAfterStart, ClearedSaver
  <2>8. CASE Publish(f)
    BY <1>1, <2>1, <2>2, <2>8 DEF Publish
  <2> QED
    BY <1>3, <2>3, <2>4, <2>5, <2>6, <2>7, <2>8 DEF FlightStep
<1>4. ASSUME NEW s \in Stoppers, HandleRuntimeStop(s) \/ ClearAfterStop(s)
      PROVE  ActiveMeansStopped'
  BY <1>4, SMT DEF HandleRuntimeStop, ForceStopEngine, ClearAfterStop, ClearedSaver
<1>5. CASE EngineFault
  BY <1>5 DEF EngineFault
<1>6. CASE Done
  BY <1>1, <1>6 DEF Done, vars
<1> QED
  BY <1>1, <1>2, <1>3, <1>4, <1>5, <1>6 DEF Next

\* The worker raises the flag only right before its stop, and its stop ends with the guest down.
LEMMA FlagTick ==
  ASSUME IInv, ~Native, ActiveMeansStopped, Tick
  PROVE  ActiveMeansStopped'
<1> USE DEF ActiveMeansStopped, WakeUnderway, otherVars
<1>1. CASE TickMark
  BY <1>1 DEF TickMark
<1>2. CASE TickStop
  BY <1>2 DEF TickStop, ForceStopEngine
<1>3. CASE TickBegins \/ TickStatus \/ TickDecide \/ TickList \/ TickCapture
  <2>1. UNCHANGED <<inflight, fpc, engine>>
    BY <1>3 DEF TickBegins, TickStatus, TickDecide, TickList, TickCapture, vars
  <2>2. tick # "stop"
    BY <1>3 DEF TickBegins, TickStatus, TickDecide, TickList, TickCapture
  <2>3. saver' = saver \/ saver' = ClearedSaver \/ IdleSince(0) \/ IdleSince(1)
    BY <1>3 DEF TickBegins, TickStatus, TickDecide, TickList, TickCapture, vars
  <2>4. saver'.active => saver.active
    BY <2>3, SMT DEF IdleSince, ClearedSaver, IInv, TypeOK
  <2> QED
    BY <2>1, <2>2, <2>4
<1> QED
  BY <1>1, <1>2, <1>3 DEF Tick

\* On the guest, Resource Saver's flag is up on a running engine only while its own stop or a
\* start about to clear it is under way (ResourceSaverActive, markActive, ClearResourceSaver).
THEOREM FlagMeansStopped ==
  ASSUME ~Native
  PROVE  SaverSpec => []ActiveMeansStopped
<1>1. SaverInit => ActiveMeansStopped
  BY SMT DEF SaverInit, Init, ClearedSaver, ActiveMeansStopped
<1>2. IInv /\ ActiveMeansStopped /\ [SaverNext]_composedVars => ActiveMeansStopped'
  <2> SUFFICES ASSUME IInv, ActiveMeansStopped, [SaverNext]_composedVars
               PROVE  ActiveMeansStopped'
    OBVIOUS
  <2>1. CASE CoreStep
    BY <2>1, FlagCoreStep
  <2>2. CASE TimePasses
    BY <2>2 DEF TimePasses, ActiveMeansStopped, WakeUnderway, otherVars, saverVars, IInv, TypeOK
  <2>3. CASE Tick
    BY <2>3, FlagTick
  <2>4. CASE UNCHANGED <<vars, tick>>
    BY <2>4 DEF vars, ActiveMeansStopped, WakeUnderway
  <2> QED
    BY <2>1, <2>2, <2>3, <2>4, QuietSteps DEF SaverNext, SaverStep, composedVars, saverVars
<1> QED
  BY <1>1, <1>2, ComposedInvariance, PTL DEF SaverSpec

-----------------------------------------------------------------------------
(* Types, and the snapshot while the engine is held.                       *)

Caches == [items : Lists, running : Lists]
ListerRecords == [pc : {"idle", "status", "live", "set"}, got : Lists]

\* What SaverTypeOK says beyond the types of the start machinery.
SaverTypes ==
  /\ saver.idleAt \in 0..(IdleAfter + 1)
  /\ enabled \in BOOLEAN
  /\ created \in Lists /\ up \in SUBSET created
  /\ cache \in Caches /\ snapshot \in Lists
  /\ tick \in TickPcs
  /\ lister \in [Listers -> ListerRecords]
  /\ workload \in Workloads

\* The worker is on its way to raise the flag only while the flag is down.
FlagIsDown == tick \in {"capture", "mark"} => ~saver.active

\* What a list call may give has the type of a list.
LEMMA AnswerTypes ==
  ASSUME SaverTypes, NEW a \in ListAnswers, ListOK(a)
  PROVE  a \in Caches /\ a.items \in Lists /\ cache' \in Caches
<1>1. NoList \in Caches /\ Fresh \in Caches
  BY DEF NoList, Fresh, Caches, Lists, SaverTypes
<1>2. a \in Caches
  BY <1>1 DEF ListAnswers, SaverTypes
<1>3. cache' \in Caches
  BY <1>1 DEF ListOK, SaverTypes
<1> QED BY <1>2, <1>3 DEF Caches

\* The flag and the idle time of the start machinery's steps.
LEMMA CoreKeepsSaver ==
  ASSUME IInv, CoreStep
  PROVE  saver' = saver \/ saver' = ClearedSaver
BY DEF CoreStep, Next, CallerStep, FlightStep, EnsureRuntimeRunning, JoinFlight, LaunchFlight, Wait,
       WaitRuntimeStart, Return, CancelCtx, CallAgain, FirstStatus, StartFails, StartRestarts,
       StartSucceeds, PollStatus, PollAgain, PollDeadline, ClearAfterStart, Publish, Goto, Fail,
       HandleRuntimeStop, ForceStopEngine, ClearAfterStop, EngineFault, Done, flightVars, vars

\* The worker, the list calls and the containers keep their types and the flag down during a capture.
LEMMA SaverStepTypes ==
  ASSUME IInv, SaverTypes, FlagIsDown, [SaverNext]_composedVars
  PROVE  SaverTypes' /\ FlagIsDown'
<1>s. saver \in [active : BOOLEAN, idleAt : Nat] /\ 1 \in 0..(IdleAfter + 1)
  BY SMT DEF IInv, TypeOK
<1>c. ClearedSaver \in [active : BOOLEAN, idleAt : Nat] /\ ClearedSaver.idleAt = 0 /\ ~ClearedSaver.active
  BY DEF ClearedSaver
<1>1. ASSUME UNCHANGED workload, saver' = saver \/ saver' = ClearedSaver,
             tick' = tick \/ tick' \in {"off", "decide"}, enabled' \in BOOLEAN,
             created' \in Lists, up' \in SUBSET created', cache' \in Caches, snapshot' \in Lists,
             lister' \in [Listers -> ListerRecords]
      PROVE  SaverTypes' /\ FlagIsDown'
  <2>1. saver'.idleAt \in 0..(IdleAfter + 1) /\ (saver'.active => saver.active)
    BY <1>c, <1>1, SMT DEF SaverTypes
  <2>2. tick' \in TickPcs /\ (tick' \in {"capture", "mark"} => tick' = tick)
    BY <1>1 DEF SaverTypes, TickPcs
  <2>3. FlagIsDown'
    BY <2>1, <2>2 DEF FlagIsDown
  <2> QED BY <1>1, <2>1, <2>2, <2>3 DEF SaverTypes
<1>2. CASE CoreStep /\ UNCHANGED workload
  <2>1. up' \in SUBSET created'
    BY <1>2 DEF CoreStep, Beside, UpAfter, SaverTypes
  <2> QED BY <1>1, <1>2, <2>1, CoreKeepsSaver DEF CoreStep, Beside, SaverTypes
<1>3. ASSUME NEW k \in Containers, ContainerStarts(k) \/ ContainerStops(k), UNCHANGED workload
      PROVE  SaverTypes' /\ FlagIsDown'
  <2>1. created' \in Lists /\ up' \in SUBSET created'
    BY <1>3 DEF ContainerStarts, ContainerStops, SaverTypes, Lists
  <2>2. cache' \in Caches
    BY <1>3, SMT DEF ContainerStarts, ContainerStops, SaverTypes, NoList, Caches, Lists
  <2> QED BY <1>1, <1>3, <2>1, <2>2 DEF ContainerStarts, ContainerStops, SaverTypes, vars
<1>4. CASE SetEnabled /\ UNCHANGED workload
  BY <1>1, <1>4 DEF SetEnabled, SaverTypes, vars
<1>5. ASSUME NEW t \in {0, 1}, IdleSince(t) PROVE saver'.idleAt = t /\ saver'.active = saver.active
  BY <1>s, <1>5 DEF IdleSince
<1>6. CASE TimePasses /\ UNCHANGED workload
  <2>1. saver'.idleAt = saver.idleAt + 1 /\ saver'.active = saver.active /\ saver.idleAt \in 1..IdleAfter
    BY <1>s, <1>6 DEF TimePasses
  <2> QED BY <1>6, <2>1, SMT DEF TimePasses, SaverTypes, FlagIsDown, saverVars
<1>7. CASE TickBegins /\ UNCHANGED workload
  BY <1>s, <1>5, <1>7, SMT DEF TickBegins, SaverTypes, FlagIsDown, TickPcs
<1>8. CASE TickStatus /\ UNCHANGED workload
  <2>1. tick' \in {"off", "list"} /\ (saver' = saver \/ IdleSince(0))
    BY <1>8 DEF TickStatus, StatusReport
  <2>2. saver'.idleAt \in 0..(IdleAfter + 1)
    BY <1>s, <1>5, <2>1, SMT DEF SaverTypes
  <2> QED BY <1>8, <2>1, <2>2 DEF TickStatus, SaverTypes, FlagIsDown, TickPcs
<1>9. CASE TickList /\ UNCHANGED workload
  <2>1. (saver' = saver \/ saver' = ClearedSaver) /\ tick' \in {"off", "decide"}
        /\ UNCHANGED <<enabled, created, up, snapshot, lister>>
    BY <1>9 DEF TickList
  <2>2. cache' \in Caches
    BY <1>9, AnswerTypes DEF TickList, ListFails, SaverTypes
  <2> QED BY <1>1, <1>9, <2>1, <2>2 DEF SaverTypes
<1>10. CASE TickDecide /\ UNCHANGED workload
  <2>1. CASE saver.idleAt = 0
    BY <1>s, <1>5, <1>10, <2>1 DEF TickDecide, SaverTypes, FlagIsDown, TickPcs
  <2>2. CASE saver.idleAt # 0
    BY <1>10, <2>2 DEF TickDecide, SaverTypes, FlagIsDown, TickPcs
  <2> QED BY <2>1, <2>2
<1>11. CASE TickCapture /\ UNCHANGED workload
  <2>1. cache' \in Caches /\ snapshot' \in Lists
    BY <1>11, AnswerTypes DEF TickCapture, ListFails, SaverTypes
  <2> QED BY <1>11, <2>1 DEF TickCapture, SaverTypes, FlagIsDown, TickPcs, vars
<1>12. CASE TickMark /\ UNCHANGED workload
  BY <1>12, SMT DEF TickMark, SaverTypes, FlagIsDown, TickPcs
<1>13. CASE TickStop /\ UNCHANGED workload
  BY <1>13 DEF TickStop, UpAfter, SaverTypes, FlagIsDown, TickPcs
<1>14. ASSUME NEW l \in Listers, Lister(l), UNCHANGED workload PROVE SaverTypes' /\ FlagIsDown'
  <2>1. ASSUME NEW a \in {"idle", "status", "live", "set"}, NEW g \in Lists, ListerAt(l, a, g)
        PROVE  lister' \in [Listers -> ListerRecords]
    BY <2>1 DEF ListerAt, ListerRecords, SaverTypes
  <2>2. {} \in Lists
    BY DEF Lists
  <2>3. lister[l].got \in Lists
    BY DEF SaverTypes, ListerRecords
  <2>4. lister' \in [Listers -> ListerRecords] /\ cache' \in Caches /\ snapshot' \in Lists
    <3>1. CASE ListBegins(l)
      BY <2>1, <2>2, <3>1 DEF ListBegins, SaverTypes
    <3>2. CASE ListStatus(l)
      BY <2>1, <2>2, <3>2 DEF ListStatus, SaverTypes
    <3>3. CASE ListLive(l)
      BY <2>1, <2>2, <3>3, AnswerTypes DEF ListLive, ListFails, SaverTypes
    <3>4. CASE ListSet(l)
      BY <2>1, <2>2, <2>3, <3>4 DEF ListSet, SaverTypes
    <3> QED BY <1>14, <3>1, <3>2, <3>3, <3>4 DEF Lister
  <2>5. UNCHANGED <<saver, tick, enabled, created, up>>
    BY <1>14 DEF Lister, ListBegins, ListStatus, ListLive, ListSet, vars
  <2> QED BY <1>1, <1>14, <2>4, <2>5 DEF SaverTypes
<1>15. CASE UNCHANGED composedVars
  BY <1>1, <1>15 DEF composedVars, saverVars, vars, SaverTypes
<1> QED BY <1>2, <1>3, <1>4, <1>6, <1>7, <1>8, <1>9, <1>10, <1>11, <1>12, <1>13, <1>14, <1>15
           DEF SaverNext, SaverStep, Tick

\* The initial state has both.
LEMMA InitSaverTypes == SaverInit => SaverTypes /\ FlagIsDown
<1> SUFFICES ASSUME SaverInit PROVE SaverTypes /\ FlagIsDown
  OBVIOUS
<1>1. saver.idleAt = 0
  BY DEF SaverInit, Init, ClearedSaver
<1>2. {} \in Lists /\ NoList \in Caches
  BY DEF Lists, NoList, Caches
<1>3. lister \in [Listers -> ListerRecords]
  BY <1>2 DEF SaverInit, ListerRecords
<1> QED BY <1>1, <1>2, <1>3, SMT DEF SaverInit, SaverTypes, FlagIsDown, TickPcs

\* Every variable of the start machinery and of Resource Saver keeps its type; the running
\* containers are among the created ones.
THEOREM SaverTypesAlways == SaverSpec => []SaverTypeOK
<1>1. IInv /\ SaverTypes => SaverTypeOK
  BY DEF IInv, SaverTypes, SaverTypeOK, Caches, ListerRecords
<1>2. IInv /\ SaverTypes /\ FlagIsDown /\ [SaverNext]_composedVars => SaverTypes' /\ FlagIsDown'
  BY SaverStepTypes
<1> QED BY <1>1, <1>2, InitSaverTypes, ComposedInvariance, PTL DEF SaverSpec

\* A step that leaves the engine held finds the worker outside its capture and lets list calls
\* that begin stop at the snapshot.
LEMMA HeldStep ==
  ASSUME IInv, SaverTypes, FlagIsDown, SaverNext,
         saver.active, engine = "stopped", ListsAtRest, saver'.active, engine' = "stopped"
  PROVE  ListsAtRest' /\ snapshot' = snapshot
<1>1. ASSUME UNCHANGED <<lister, snapshot>> PROVE ListsAtRest' /\ snapshot' = snapshot
  BY <1>1 DEF ListsAtRest
<1>2. CASE CoreStep
  BY <1>1, <1>2 DEF CoreStep, Beside
<1>3. ASSUME NEW k \in Containers, ContainerStarts(k) \/ ContainerStops(k)
      PROVE  ListsAtRest' /\ snapshot' = snapshot
  BY <1>1, <1>3 DEF ContainerStarts, ContainerStops
<1>4. CASE SetEnabled \/ TimePasses
  BY <1>1, <1>4 DEF SetEnabled, TimePasses, saverVars
<1>5. CASE Tick
  <2>1. tick # "capture"
    BY DEF FlagIsDown
  <2> QED BY <1>1, <1>5, <2>1 DEF Tick, TickBegins, TickStatus, TickList, TickDecide, TickCapture,
                                  TickMark, TickStop
<1>6. ASSUME NEW l \in Listers, Lister(l) PROVE ListsAtRest' /\ snapshot' = snapshot
  <2>1. lister[l].pc \in {"idle", "status"}
    BY DEF ListsAtRest
  <2>2. \E a \in {"idle", "status"} : ListerAt(l, a, {}) /\ UNCHANGED snapshot
    BY <1>6, <2>1 DEF Lister, ListBegins, ListStatus, ListLive, ListSet, StatusReport
  <2> QED BY <2>2, SMT DEF ListerAt, ListsAtRest, SaverTypes
<1> QED BY <1>2, <1>3, <1>4, <1>5, <1>6 DEF SaverNext, SaverStep

\* While the engine is held stopped, list calls made then are answered from the snapshot: none
\* asks the engine and none replaces the snapshot, on either runtime (serveResourceSnapshot).
THEOREM HeldSnapshotAlways == SaverSpec => HeldSnapshotIsKept
<1>1. IInv /\ SaverTypes /\ FlagIsDown /\ [SaverNext]_composedVars =>
        [saver.active /\ engine = "stopped" /\ ListsAtRest /\ saver'.active /\ engine' = "stopped"
           => ListsAtRest' /\ snapshot' = snapshot]_composedVars
  BY HeldStep
<1>2. IInv /\ SaverTypes /\ FlagIsDown /\ [SaverNext]_composedVars => SaverTypes' /\ FlagIsDown'
  BY SaverStepTypes
<1> QED BY <1>1, <1>2, InitSaverTypes, ComposedInvariance, PTL DEF SaverSpec, HeldSnapshotIsKept

-----------------------------------------------------------------------------
(* RegistryLogin: the sessions use the single flight as any caller does, a *)
(* reported sign-in is stored, and a session that is over writes no        *)
(* credentials.                                                            *)

USE SessionsAssumption, PlansAssumption, MaxMissesAssumption

LoginRecords ==
  [at : {"none", "token", "pat", "saving", "ensure", "docker", "run", "ended"},
   status : {"none", "pending", "saving", "complete", "failed", "expired", "cancelled"},
   over : {"no", "canceled", "deadline"}, kept : BOOLEAN, timer : BOOLEAN]

DialogRecords ==
  [at : {"none", "open", "signedIn", "failed", "closed"},
   misses : 0..(MaxMisses - 1), cancel : {"no", "marked", "canceled"}]

\* What the status of a session and its dialog say of its credentials is true, and a session
\* that was never started has no context, no timer and no cancellation.
Truthful(s) ==
  /\ login[s].at = "none" => login[s] = NoSession /\ dialog[s].cancel = "no"
  /\ login[s].status = "complete" => s \in stored
  /\ dialog[s].at = "signedIn" => s \in stored

LoginInv ==
  /\ login \in [Sessions -> LoginRecords]
  /\ dialog \in [Sessions -> DialogRecords]
  /\ stored \subseteq Sessions /\ down \in BOOLEAN /\ plan \in Plans
  /\ \A s \in Sessions : Truthful(s)

\* A step of a session: the invariant, and a context that is over stays over and keeps the
\* session away from docker login and its credentials out of the store.
Kept ==
  /\ LoginInv'
  /\ \A s \in Sessions : Abandoned(s) => Abandoned(s)'

-----------------------------------------------------------------------------
(* Sessions and dialogs are records; one step changes those of one session.*)

\* Without sessions the invariant holds.
LEMMA InitLoginInv == LoginInit => LoginInv
<1>1. NoSession \in LoginRecords /\ NoDialog \in DialogRecords
  BY SMT DEF NoSession, NoDialog, LoginRecords, DialogRecords
<1>2. NoSession.status # "complete" /\ NoDialog.at # "signedIn" /\ NoDialog.cancel = "no"
  BY DEF NoSession, NoDialog
<1> SUFFICES ASSUME LoginInit PROVE LoginInv
  OBVIOUS
<1>3. /\ login = [s \in Sessions |-> NoSession] /\ dialog = [s \in Sessions |-> NoDialog] /\ stored = {}
      /\ down = FALSE /\ plan \in Plans
  BY DEF LoginInit
<1>4. \A s \in Sessions : login[s] = NoSession /\ dialog[s] = NoDialog
  BY <1>3
<1>5. \A s \in Sessions : Truthful(s)
  BY <1>2, <1>4 DEF Truthful
<1> QED BY <1>1, <1>3, <1>5 DEF LoginInv

\* A step that replaces the record of one session.
LEMMA SessionUpdate ==
  ASSUME LoginInv, NEW s \in Sessions, NEW r \in LoginRecords,
         login' = [login EXCEPT ![s] = r],
         stored' \in {stored, stored \cup {s}}, UNCHANGED <<down, plan>>,
         dialog' \in [Sessions -> DialogRecords],
         \A t \in Sessions : dialog'[t].at = "signedIn" => dialog[t].at = "signedIn",
         \A t \in Sessions \ {s} : dialog'[t] = dialog[t],
         r.at # "none",
         r.status = "complete" => s \in stored',
         Abandoned(s) => r.over # "no" /\ r.at # "run" /\ s \notin stored'
  PROVE  Kept
<1>1. login' \in [Sessions -> LoginRecords] /\ stored' \subseteq Sessions
  BY DEF LoginInv
<1>2. login'[s] = r /\ \A t \in Sessions : t # s => login'[t] = login[t] /\ (t \in stored' <=> t \in stored)
  BY DEF LoginInv
<1>3. \A t \in Sessions : Truthful(t)'
  BY <1>2, SMT DEF LoginInv, Truthful
<1>4. \A t \in Sessions : Abandoned(t) => Abandoned(t)'
  BY <1>2 DEF Abandoned
<1> QED BY <1>1, <1>3, <1>4 DEF Kept, LoginInv

\* A step that replaces the record of one dialog and leaves the sessions alone.
LEMMA DialogUpdate ==
  ASSUME LoginInv, NEW s \in Sessions, NEW r \in DialogRecords,
         dialog' = [dialog EXCEPT ![s] = r], UNCHANGED <<login, stored, down, plan>>,
         r.at = "signedIn" => s \in stored, r.cancel = dialog[s].cancel
  PROVE  Kept
  BY DEF Kept, LoginInv, Truthful, Abandoned

\* The end of a session's goroutine keeps the invariant and what is abandoned.
LEMMA EndKeeps ==
  ASSUME LoginInv, NEW s \in Sessions, NEW st \in {"complete", "failed", "expired"}, End(s, st),
         stored' \in {stored, stored \cup {s}}, UNCHANGED <<dialog, down, plan>>,
         st = "complete" => s \in stored',
         Abandoned(s) => s \notin stored'
  PROVE  Kept
<1> DEFINE r == [login[s] EXCEPT !.at = "ended", !.status = st, !.timer = TRUE, !.over = Cancelled(login[s])]
<1>1. login[s] \in LoginRecords /\ dialog \in [Sessions -> DialogRecords]
  BY DEF LoginInv
<1>2. r \in LoginRecords /\ r.at = "ended" /\ r.status = st /\ r.over # "no"
  BY <1>1 DEF LoginRecords, Cancelled
<1>3. login' = [login EXCEPT ![s] = r]
  BY DEF End
<1> HIDE DEF r
<1> QED BY <1>1, <1>2, <1>3, SessionUpdate

\* A goroutine that goes on to its next call.
LEMMA AtKeeps ==
  ASSUME LoginInv, NEW s \in Sessions, login[s].at # "none",
         NEW l \in {"pat", "saving", "ensure", "docker", "run"}, At(s, l),
         UNCHANGED <<dialog, stored, down, plan>>,
         l = "run" => login[s].over = "no"
  PROVE  Kept
<1> DEFINE r == [login[s] EXCEPT !.at = l]
<1>1. login[s] \in LoginRecords /\ dialog \in [Sessions -> DialogRecords] /\ Truthful(s)
  BY DEF LoginInv
<1>2. r \in LoginRecords /\ r.at = l /\ r.status = login[s].status /\ r.over = login[s].over
  BY <1>1 DEF LoginRecords
<1>3. login' = [login EXCEPT ![s] = r]
  BY DEF At
<1>4. Abandoned(s) => r.over # "no" /\ r.at # "run" /\ s \notin stored'
  BY <1>2 DEF Abandoned
<1>5. r.status = "complete" => s \in stored'
  BY <1>1, <1>2 DEF Truthful
<1> HIDE DEF r
<1> QED BY <1>1, <1>2, <1>3, <1>4, <1>5, SessionUpdate

-----------------------------------------------------------------------------
(* One lemma per step of a session.                                        *)

\* So does the start of a session with its dialog.
LEMMA StartKeeps ==
  ASSUME LoginInv, NEW s \in Sessions, StartRegistryDeviceLogin(s), UNCHANGED plan
  PROVE  Kept
<1> DEFINE r == [at |-> "token", status |-> "pending", over |-> IF down THEN "canceled" ELSE "no",
                 kept |-> TRUE, timer |-> FALSE]
<1>1. r \in LoginRecords /\ r.at = "token" /\ r.status = "pending"
  BY DEF LoginRecords
<1>2. login' = [login EXCEPT ![s] = r] /\ stored' = stored /\ UNCHANGED <<down, plan>> /\ login[s].at = "none"
  BY DEF StartRegistryDeviceLogin
<1>3. PICK at \in {"none", "open"} : dialog' = [dialog EXCEPT ![s] = [dialog[s] EXCEPT !.at = at]]
  BY DEF StartRegistryDeviceLogin, DialogAt
<1>4. dialog[s] \in DialogRecords /\ dialog \in [Sessions -> DialogRecords]
  BY DEF LoginInv
<1>5. [dialog[s] EXCEPT !.at = at] \in DialogRecords /\ [dialog[s] EXCEPT !.at = at].at = at
  BY <1>4 DEF DialogRecords
<1>6. /\ dialog' \in [Sessions -> DialogRecords]
      /\ \A t \in Sessions : dialog'[t].at = "signedIn" => dialog[t].at = "signedIn"
      /\ \A t \in Sessions \ {s} : dialog'[t] = dialog[t]
  BY <1>3, <1>4, <1>5
<1>7. ~Abandoned(s)
  BY <1>2, SMT DEF LoginInv, Truthful, Abandoned, NoSession
<1> HIDE DEF r
<1> QED BY <1>1, <1>2, <1>6, <1>7, SessionUpdate

\* So does the answer to the wait for the device token.
LEMMA TokenKeeps ==
  ASSUME LoginInv, NEW s \in Sessions, WaitForDeviceToken(s), UNCHANGED plan
  PROVE  Kept
<1>1. CASE At(s, "pat")
  BY <1>1, AtKeeps DEF WaitForDeviceToken
<1>2. ASSUME NEW st \in TokenStatuses(s), End(s, st) PROVE Kept
  <2>1. st \in {"failed", "expired"}
    BY DEF TokenStatuses
  <2> QED BY <1>2, <2>1, EndKeeps DEF WaitForDeviceToken, Abandoned
<1> QED BY <1>1, <1>2 DEF WaitForDeviceToken

\* So does the exchange of the token for an access token.
LEMMA PATKeeps ==
  ASSUME LoginInv, NEW s \in Sessions, GeneratePAT(s), UNCHANGED plan
  PROVE  Kept
<1> DEFINE r == [login[s] EXCEPT !.at = "saving", !.status = "saving"]
<1>1. login[s] \in LoginRecords /\ dialog \in [Sessions -> DialogRecords]
  BY DEF LoginInv
<1>2. r \in LoginRecords /\ r.at = "saving" /\ r.status = "saving" /\ r.over = login[s].over
  BY <1>1 DEF LoginRecords
<1>3. CASE login' = [login EXCEPT ![s] = r]
  <2>1. Abandoned(s) => r.over # "no" /\ s \notin stored
    BY <1>2 DEF Abandoned
  <2> HIDE DEF r
  <2> QED BY <1>1, <1>2, <1>3, <2>1, SessionUpdate DEF GeneratePAT
<1>4. CASE End(s, "failed")
  BY <1>4, EndKeeps DEF GeneratePAT, Abandoned
<1> QED BY <1>3, <1>4 DEF GeneratePAT

\* So does the return of EnsureRuntimeRunning.
LEMMA EnsureKeeps ==
  ASSUME LoginInv, NEW s \in Sessions, CallsEnsure(s) \/ EnsureReturns(s), UNCHANGED plan
  PROVE  Kept
<1>1. CASE CallsEnsure(s)
  BY <1>1, AtKeeps DEF CallsEnsure
<1>2. CASE EnsureReturns(s) /\ At(s, "docker")
  BY <1>2, AtKeeps DEF EnsureReturns
<1>3. CASE EnsureReturns(s) /\ End(s, "failed")
  BY <1>3, EndKeeps DEF EnsureReturns, Abandoned
<1> QED BY <1>1, <1>2, <1>3 DEF EnsureReturns

\* So does docker login: it begins only with a context that is not over.
LEMMA DockerKeeps ==
  ASSUME LoginInv, NEW s \in Sessions, DockerLogin(s) \/ DockerLoginEnds(s), UNCHANGED plan
  PROVE  Kept
<1>1. CASE DockerLogin(s) /\ engine = "running" /\ login[s].over = "no"
  BY <1>1, AtKeeps DEF DockerLogin
<1>2. CASE DockerLogin(s) /\ ~(engine = "running" /\ login[s].over = "no")
  BY <1>2, EndKeeps DEF DockerLogin, Abandoned
<1>3. CASE DockerLoginEnds(s)
  <2>1. ~Abandoned(s) /\ UNCHANGED <<dialog, down, plan>>
    BY <1>3 DEF DockerLoginEnds, Abandoned
  <2>2. CASE stored' = stored \cup {s} /\ End(s, "complete")
    BY <2>1, <2>2, EndKeeps
  <2>3. CASE stored' \in {stored, stored \cup {s}} /\ End(s, "failed")
    BY <2>1, <2>3, EndKeeps
  <2> QED BY <1>3, <2>2, <2>3 DEF DockerLoginEnds
<1> QED BY <1>1, <1>2, <1>3

\* The deadline, the timer of scheduleCleanup and the three steps of a cancellation.
LEMMA SideKeeps ==
  ASSUME LoginInv, NEW s \in Sessions, UNCHANGED plan,
         Expire(s) \/ Cleanup(s) \/ CancelMarks(s) \/ CancelStep(s)
  PROVE  Kept
<1>1. login[s] \in LoginRecords /\ dialog \in [Sessions -> DialogRecords] /\ dialog[s] \in DialogRecords /\ Truthful(s)
  BY DEF LoginInv
<1>2. UNCHANGED <<stored, down>> /\ login[s].at # "none"
  <2>1. UNCHANGED <<stored, down>>
    BY DEF Expire, Cleanup, CancelMarks, CancelStep, CancelFires, CancelForgets
  <2>2. login[s].at # "none" \/ login[s].timer \/ login[s].kept \/ dialog[s].cancel # "no"
    BY DEF Expire, Cleanup, CancelMarks, CancelStep, CancelFires, CancelForgets
  <2>3. ~NoSession.timer /\ ~NoSession.kept
    BY DEF NoSession
  <2> QED BY <1>1, <2>1, <2>2, <2>3 DEF Truthful
<1>3. CASE Expire(s)
  <2> DEFINE r == [login[s] EXCEPT !.over = "deadline"]
  <2>1. r \in LoginRecords /\ r.over = "deadline" /\ r.at = login[s].at /\ r.status = login[s].status
    BY <1>1 DEF LoginRecords
  <2>2. login' = [login EXCEPT ![s] = r] /\ UNCHANGED dialog /\ login[s].at # "none" /\ ~Abandoned(s)
    BY <1>3 DEF Expire, Abandoned
  <2> HIDE DEF r
  <2> QED BY <1>1, <1>2, <2>1, <2>2, SessionUpdate DEF Truthful
<1>4. CASE Cleanup(s)
  <2> DEFINE r == [login[s] EXCEPT !.timer = FALSE, !.kept = FALSE]
  <2>1. r \in LoginRecords /\ r.over = login[s].over /\ r.at = login[s].at /\ r.status = login[s].status
    BY <1>1 DEF LoginRecords
  <2>2. login' = [login EXCEPT ![s] = r] /\ UNCHANGED dialog
    BY <1>4 DEF Cleanup
  <2> HIDE DEF r
  <2> QED BY <1>1, <1>2, <2>1, <2>2, SessionUpdate DEF Truthful, Abandoned
<1>5. CASE CancelMarks(s)
  <2> DEFINE r == [login[s] EXCEPT !.status = "cancelled"]
             q == [dialog[s] EXCEPT !.cancel = "marked"]
  <2>1. r \in LoginRecords /\ r.over = login[s].over /\ r.at = login[s].at /\ r.status = "cancelled"
    BY <1>1 DEF LoginRecords
  <2>2. q \in DialogRecords /\ q.at = dialog[s].at
    BY <1>1 DEF DialogRecords
  <2>3. login' = [login EXCEPT ![s] = r] /\ dialog' = [dialog EXCEPT ![s] = q]
    BY <1>5 DEF CancelMarks
  <2> HIDE DEF r, q
  <2>4. /\ dialog' \in [Sessions -> DialogRecords]
        /\ \A t \in Sessions : dialog'[t].at = "signedIn" => dialog[t].at = "signedIn"
        /\ \A t \in Sessions \ {s} : dialog'[t] = dialog[t]
    BY <1>1, <2>2, <2>3
  <2> QED BY <1>1, <1>2, <2>1, <2>3, <2>4, SessionUpdate DEF Truthful, Abandoned
<1>6. CASE CancelFires(s)
  <2> DEFINE r == [login[s] EXCEPT !.over = Cancelled(login[s])]
             q == [dialog[s] EXCEPT !.cancel = "canceled"]
  <2>1. r \in LoginRecords /\ r.over # "no" /\ r.at = login[s].at /\ r.status = login[s].status
    BY <1>1 DEF LoginRecords, Cancelled
  <2>2. q \in DialogRecords /\ q.at = dialog[s].at
    BY <1>1 DEF DialogRecords
  <2>3. login' = [login EXCEPT ![s] = r] /\ dialog' = [dialog EXCEPT ![s] = q]
    BY <1>6 DEF CancelFires
  <2> HIDE DEF r, q
  <2>4. /\ dialog' \in [Sessions -> DialogRecords]
        /\ \A t \in Sessions : dialog'[t].at = "signedIn" => dialog[t].at = "signedIn"
        /\ \A t \in Sessions \ {s} : dialog'[t] = dialog[t]
    BY <1>1, <2>2, <2>3
  <2> QED BY <1>1, <1>2, <2>1, <2>3, <2>4, SessionUpdate DEF Truthful, Abandoned
<1>7. CASE CancelForgets(s)
  <2> DEFINE r == [login[s] EXCEPT !.kept = FALSE]
             q(at) == [dialog[s] EXCEPT !.cancel = "no", !.at = at]
  <2>1. r \in LoginRecords /\ r.over = login[s].over /\ r.at = login[s].at /\ r.status = login[s].status
    BY <1>1 DEF LoginRecords
  <2>2. login' = [login EXCEPT ![s] = r]
    BY <1>7 DEF CancelForgets
  <2>3. PICK at \in {dialog[s].at, "closed"} : dialog' = [dialog EXCEPT ![s] = q(at)]
    BY <1>7 DEF CancelForgets
  <2>4. q(at) \in DialogRecords /\ q(at).at = at
    BY <1>1 DEF DialogRecords
  <2> HIDE DEF r, q
  <2>5. /\ dialog' \in [Sessions -> DialogRecords]
        /\ \A t \in Sessions : dialog'[t].at = "signedIn" => dialog[t].at = "signedIn"
        /\ \A t \in Sessions \ {s} : dialog'[t] = dialog[t]
    BY <1>1, <2>3, <2>4
  <2> QED BY <1>1, <1>2, <2>1, <2>2, <2>5, SessionUpdate DEF Truthful, Abandoned
<1> QED BY <1>3, <1>4, <1>5, <1>6, <1>7 DEF CancelStep

\* The dialog: it closes on an unknown session, and its polls see the status.
LEMMA DialogKeeps ==
  ASSUME LoginInv, NEW s \in Sessions, CancelUnknown(s) \/ Poll(s), UNCHANGED plan
  PROVE  Kept
<1>1. dialog[s] \in DialogRecords /\ dialog[s].misses \in 0..(MaxMisses - 1) /\ Truthful(s)
  BY DEF LoginInv, DialogRecords
<1>2. UNCHANGED <<login, stored, down>> /\ dialog[s].at = "open"
  BY DEF CancelUnknown, Poll
<1>3. ASSUME NEW l \in {"closed", "failed", "signedIn"}, DialogAt(s, l), l = "signedIn" => s \in stored
      PROVE  Kept
  <2> DEFINE r == [dialog[s] EXCEPT !.at = l]
  <2>1. r \in DialogRecords /\ r.at = l /\ r.cancel = dialog[s].cancel
    BY <1>1 DEF DialogRecords
  <2>2. dialog' = [dialog EXCEPT ![s] = r]
    BY <1>3 DEF DialogAt
  <2> HIDE DEF r
  <2> QED BY <1>2, <1>3, <2>1, <2>2, DialogUpdate
<1>4. ASSUME NEW n \in 0..(MaxMisses - 1), dialog' = [dialog EXCEPT ![s] = [dialog[s] EXCEPT !.misses = n]]
      PROVE  Kept
  <2> DEFINE r == [dialog[s] EXCEPT !.misses = n]
  <2>1. r \in DialogRecords /\ r.at = "open" /\ r.cancel = dialog[s].cancel
    BY <1>1, <1>2 DEF DialogRecords
  <2>2. dialog' = [dialog EXCEPT ![s] = r]
    BY <1>4
  <2> HIDE DEF r
  <2> QED BY <1>2, <2>1, <2>2, DialogUpdate
<1>5. CASE CancelUnknown(s)
  BY <1>3, <1>5 DEF CancelUnknown
<1>6. CASE Poll(s) /\ Miss(s)
  <2>1. CASE dialog[s].misses + 1 >= MaxMisses
    BY <1>3, <1>6, <2>1 DEF Miss
  <2>2. CASE ~(dialog[s].misses + 1 >= MaxMisses)
    <3>1. dialog[s].misses + 1 \in 0..(MaxMisses - 1)
      BY <1>1, <2>2, SMT
    <3>2. dialog' = [dialog EXCEPT ![s] = [dialog[s] EXCEPT !.misses = dialog[s].misses + 1]]
      BY <1>6, <2>2 DEF Miss
    <3> QED BY <1>4, <3>1, <3>2
  <2> QED BY <2>1, <2>2
<1>7. CASE Poll(s) /\ ~Miss(s)
  <2>1. CASE login[s].status = "complete" /\ DialogAt(s, "signedIn")
    BY <1>1, <1>3, <2>1 DEF Truthful
  <2>2. CASE DialogAt(s, "failed")
    BY <1>3, <2>2
  <2>3. CASE dialog' = [dialog EXCEPT ![s] = [dialog[s] EXCEPT !.misses = 0]]
    <3>1. 0 \in 0..(MaxMisses - 1)
      BY SMT
    <3> QED BY <1>4, <2>3, <3>1
  <2> QED BY <1>7, <2>1, <2>2, <2>3 DEF Poll
<1> QED BY <1>5, <1>6, <1>7

\* So does the shutdown, which ends every context.
LEMMA ShutdownKeeps ==
  ASSUME LoginInv, Shutdown, UNCHANGED plan
  PROVE  Kept
<1> DEFINE r(s) == [login[s] EXCEPT !.over = Cancelled(login[s]), !.kept = FALSE]
<1>1. \A s \in Sessions : login[s] \in LoginRecords
  BY DEF LoginInv
<1>2. \A s \in Sessions : /\ r(s) \in LoginRecords /\ r(s).at = login[s].at
                          /\ r(s).status = login[s].status /\ r(s).over # "no"
  <2> SUFFICES ASSUME NEW s \in Sessions
               PROVE  /\ r(s) \in LoginRecords /\ r(s).at = login[s].at
                      /\ r(s).status = login[s].status /\ r(s).over # "no"
    OBVIOUS
  <2> DEFINE o == Cancelled(login[s])
  <2>1. login[s] \in LoginRecords /\ o \in {"canceled", "deadline"}
    BY <1>1 DEF LoginRecords, Cancelled
  <2> HIDE DEF o
  <2> QED BY <2>1 DEF LoginRecords, o
<1>3. login' = [s \in Sessions |-> IF login[s].at = "none" THEN login[s] ELSE r(s)]
      /\ UNCHANGED <<dialog, stored, plan>> /\ down'
  BY DEF Shutdown
<1> HIDE DEF r
<1>4. login' \in [Sessions -> LoginRecords]
  BY <1>1, <1>2, <1>3
<1>5. \A s \in Sessions : /\ login'[s].at = login[s].at /\ login'[s].status = login[s].status
                          /\ login[s].at = "none" => login'[s] = login[s]
                          /\ login[s].at # "none" => login'[s].over # "no"
  BY <1>2, <1>3
<1>6. \A s \in Sessions : Truthful(s)'
  BY <1>3, <1>5 DEF LoginInv, Truthful
<1>7. \A s \in Sessions : Abandoned(s) => Abandoned(s)'
  BY <1>3, <1>5 DEF Abandoned
<1> QED BY <1>3, <1>4, <1>6, <1>7 DEF Kept, LoginInv

-----------------------------------------------------------------------------
(* The theorems.                                                           *)

\* So does every step.
LEMMA LoginStepKeeps ==
  ASSUME LoginInv, [LoginNext]_allVars
  PROVE  Kept
<1>1. CASE UNCHANGED <<loginVars, plan>>
  BY <1>1 DEF loginVars, Kept, LoginInv, Truthful, Abandoned
<1>2. CASE Shutdown /\ UNCHANGED plan
  BY <1>2, ShutdownKeeps
<1>3. ASSUME NEW s \in Sessions, UNCHANGED plan,
             \/ StartRegistryDeviceLogin(s) \/ WaitForDeviceToken(s) \/ SessionStep(s) \/ Expire(s)
             \/ Cleanup(s) \/ CancelMarks(s) \/ CancelStep(s) \/ CancelUnknown(s) \/ Poll(s)
      PROVE  Kept
  BY <1>3, StartKeeps, TokenKeeps, PATKeeps, EnsureKeeps, DockerKeeps, SideKeeps, DialogKeeps DEF SessionStep
<1> QED BY <1>1, <1>2, <1>3 DEF LoginNext, LoginStep, LoginDone, allVars, loginVars

\* Every step of the composition is one of RuntimeStart, or leaves its variables alone.
LEMMA LoginStepIsAStep ==
  ASSUME [LoginNext]_allVars
  PROVE  [Next]_vars
<1>1. CASE EngineStep
  BY <1>1 DEF EngineStep, OtherCaller, Next, CallerStep
<1>2. ASSUME NEW s \in Sessions, CallsEnsure(s) PROVE [Next]_vars
  BY <1>2 DEF CallsEnsure, Next, CallerStep
<1>3. CASE UNCHANGED vars
  BY <1>3
<1> QED BY <1>1, <1>2, <1>3
     DEF LoginNext, LoginStep, StartRegistryDeviceLogin, WaitForDeviceToken, SessionStep, GeneratePAT,
         EnsureReturns, DockerLogin, DockerLoginEnds, Expire, Cleanup, CancelMarks, CancelStep, CancelFires,
         CancelForgets, CancelUnknown, Poll, Shutdown, LoginDone, allVars

\* The invariant of sessions and dialogs.
THEOREM LoginInvariance == LoginSpec => []LoginInv
<1>1. LoginInv /\ [LoginNext]_allVars => LoginInv'
  BY LoginStepKeeps DEF Kept
<1> QED BY <1>1, InitLoginInv, PTL DEF LoginSpec

\* With login sessions among its callers the start machinery behaves as RuntimeStart says.
THEOREM LoginIsRuntimeStart == LoginSpec => Spec
<1>1. LoginInit => Init
  BY DEF LoginInit
<1>2. [LoginNext]_allVars => [Next]_vars
  BY LoginStepIsAStep
<1> QED BY <1>1, <1>2, PTL DEF LoginSpec, Spec

\* Sessions and ordinary callers together implement the abstract single flight.
THEOREM LoginImplementation == LoginSpec => ImplementsSingleFlight
  BY LoginIsRuntimeStart, Implementation

\* The dialog says "Signed in" only of a session whose credentials the docker CLI has, for any
\* number of sessions that share the engine.
THEOREM SignedInAlwaysStored == LoginSpec => []SignedInIsStored
<1>1. LoginInv => SignedInIsStored
  BY DEF LoginInv, Truthful, SignedInIsStored
<1> QED BY <1>1, LoginInvariance, PTL

\* A session whose context is over before docker login runs never writes its credentials.
THEOREM CancelAlwaysHonoured == LoginSpec => CancelIsHonoured
<1> SUFFICES ASSUME NEW s \in Sessions
             PROVE  LoginSpec => [](Abandoned(s) => [](s \notin stored))
  BY DEF CancelIsHonoured
<1>1. LoginInv /\ [LoginNext]_allVars => (Abandoned(s) => Abandoned(s)')
  BY LoginStepKeeps DEF Kept
<1>2. Abandoned(s) => s \notin stored
  BY DEF Abandoned
<1> QED BY <1>1, <1>2, LoginInvariance, PTL DEF LoginSpec

\* The types of the composed state.
THEOREM LoginTypes == LoginSpec => []LoginTypeOK
<1>1. LoginInv /\ IInv => LoginTypeOK
  BY DEF LoginInv, LoginRecords, DialogRecords, IInv, LoginTypeOK
<1> QED BY <1>1, LoginInvariance, LoginIsRuntimeStart, Invariance, PTL

=============================================================================
