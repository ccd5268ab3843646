---------------------------- MODULE SingleFlight ----------------------------
(***************************************************************************)
(* What Core.EnsureRuntimeRunning promises its callers                     *)
(* (backend/internal/daemon/runtime_ready.go): concurrent callers share    *)
(* one start of the engine, a caller is told how the start it joined       *)
(* ended, and a caller whose context is canceled may leave at any time.    *)
(*                                                                         *)
(* A flight is one runtimeStartResult: it is allocated by the caller that  *)
(* finds runtimeStartInflight nil and resolved once, by the goroutine that *)
(* performs the start.  What that goroutine does is left open here; see    *)
(* RuntimeStart, which implements this specification.                      *)
(***************************************************************************)
EXTENDS Naturals

CONSTANTS Callers,      \* goroutines that call EnsureRuntimeRunning
          MaxFlights    \* bound: how many starts a behaviour may contain

Flights == 1..MaxFlights
Nil == 0                                   \* runtimeStartInflight = nil
Results == {"nil", "failed"}               \* runtimeStartResult.err
Answers == Results \cup {"ctx", "none"}    \* what a caller was told

VARIABLES
  inflight,   \* Core.runtimeStartInflight: a flight or Nil
  born,       \* how many flights have been allocated
  result,     \* result[f]: "none" until done is closed, then err
  caller      \* caller[c]: its program counter, flight, ctx and answer

vars == <<inflight, born, result, caller>>

Idle == [pc |-> "idle", flight |-> Nil, ctxDone |-> FALSE, answer |-> "none"]

CallerStates == [pc : {"idle", "waiting", "returned"}, flight : 0..MaxFlights,
                 ctxDone : BOOLEAN, answer : Answers]

TypeOK ==
  /\ inflight \in 0..MaxFlights
  /\ born \in 0..MaxFlights
  /\ result \in [Flights -> Results \cup {"none"}]
  /\ caller \in [Callers -> CallerStates]

Init ==
  /\ inflight = Nil
  /\ born = 0
  /\ result = [f \in Flights |-> "none"]
  /\ caller = [c \in Callers |-> Idle]

Waiting(f) == [pc |-> "waiting", flight |-> f, ctxDone |-> FALSE, answer |-> "none"]

Wait(c, f) == caller' = [caller EXCEPT ![c] = Waiting(f)]

\* The call finds a start in flight and waits on it.
Join(c) ==
  /\ caller[c].pc = "idle"
  /\ inflight # Nil
  /\ Wait(c, inflight)
  /\ UNCHANGED <<inflight, born, result>>

\* The call finds none: it allocates the flight, publishes it, spawns the start.
Launch(c) ==
  /\ caller[c].pc = "idle"
  /\ inflight = Nil
  /\ born < MaxFlights
  /\ born' = born + 1
  /\ inflight' = born + 1
  /\ Wait(c, born + 1)
  /\ UNCHANGED result

\* The goroutine of the current flight ends: err, inflight and done in one critical section.
Resolve(r) ==
  /\ inflight # Nil
  /\ result' = [result EXCEPT ![inflight] = r]
  /\ inflight' = Nil
  /\ UNCHANGED <<born, caller>>

Return(c, a) ==
  /\ caller[c].pc = "waiting"
  /\ caller' = [caller EXCEPT ![c].pc = "returned", ![c].answer = a]
  /\ UNCHANGED <<inflight, born, result>>

\* select: the start the caller joined is over.
ReturnResult(c) ==
  /\ result[caller[c].flight] # "none"
  /\ Return(c, result[caller[c].flight])

\* select: the caller's context is done.
ReturnCanceled(c) ==
  /\ caller[c].ctxDone
  /\ Return(c, "ctx")

\* The client hangs up, the request times out or the daemon shuts down.
CancelCtx(c) ==
  /\ caller[c].pc = "waiting"
  /\ ~caller[c].ctxDone
  /\ caller' = [caller EXCEPT ![c].ctxDone = TRUE]
  /\ UNCHANGED <<inflight, born, result>>

\* The caller has its answer and may call again later.
Again(c) ==
  /\ caller[c].pc = "returned"
  /\ caller' = [caller EXCEPT ![c] = Idle]
  /\ UNCHANGED <<inflight, born, result>>

CallerStep(c) ==
  \/ Join(c) \/ Launch(c) \/ CancelCtx(c) \/ Again(c)
  \/ caller[c].pc = "waiting" /\ (ReturnResult(c) \/ ReturnCanceled(c))

Next ==
  \/ \E c \in Callers : CallerStep(c)
  \/ \E r \in Results : Resolve(r)

Spec == Init /\ [][Next]_vars

=============================================================================
