--------------------------- MODULE RegistryLogin ---------------------------
(***************************************************************************)
(* Signing in to Docker Hub: the sessions of                               *)
(* backend/internal/daemon/registry_login.go with their goroutine, the     *)
(* device flow of backend/internal/oauth/dockerhub/device.go, and the      *)
(* dialog of ui/lib/widgets/app_top_bar.dart that polls a session.  The    *)
(* goroutine of a session is one of the callers of EnsureRuntimeRunning,   *)
(* so the sessions are composed with RuntimeStart.                         *)
(*                                                                         *)
(* A session's context ends by its deadline, by a cancellation or by the   *)
(* shutdown of the daemon; each end of the goroutine starts a timer that   *)
(* drops the session.  Docker Hub and the docker CLI may fail at any call. *)
(***************************************************************************)
EXTENDS RuntimeStart, FiniteSets

CONSTANTS Sessions,   \* login sessions, named as the callers their goroutines are
          MaxMisses,  \* _maxConsecutiveFailures of the dialog
          Plans       \* bound: who takes part in a behaviour, and what may happen besides

ASSUME SessionsAssumption == Sessions \subseteq Callers
ASSUME PlansAssumption ==
  Plans \subseteq [who : SUBSET Callers, may : SUBSET {"faults", "dialog", "shutdown"}]
ASSUME MaxMissesAssumption == MaxMisses \in Nat \ {0}

VARIABLES
  login,    \* login[s]: the session and where its goroutine is
  dialog,   \* dialog[s]: the dialog that was opened for it
  stored,   \* the sessions whose credentials the docker CLI has written
  down,     \* Shutdown has cancelled the lifecycle context
  plan      \* one of Plans, chosen at the beginning

loginVars == <<login, dialog, stored, down>>
allVars == <<vars, loginVars, plan>>

NoSession == [at |-> "none", status |-> "none", over |-> "no", kept |-> FALSE, timer |-> FALSE]
NoDialog == [at |-> "none", misses |-> 0, cancel |-> "no"]

\* The session as status calls see it is .status, in the map while .kept.
LoginTypeOK ==
  /\ TypeOK
  /\ login \in [Sessions ->
       [at : {"none", "token", "pat", "saving", "ensure", "docker", "run", "ended"},
        status : {"none", "pending", "saving", "complete", "failed", "expired", "cancelled"},
        over : {"no", "canceled", "deadline"}, kept : BOOLEAN, timer : BOOLEAN]]
  /\ dialog \in [Sessions -> [at : {"none", "open", "signedIn", "failed", "closed"},
                              misses : 0..(MaxMisses - 1), cancel : {"no", "marked", "canceled"}]]
  /\ stored \subseteq Sessions
  /\ down \in BOOLEAN

LoginInit ==
  /\ Init
  /\ login = [s \in Sessions |-> NoSession]
  /\ dialog = [s \in Sessions |-> NoDialog]
  /\ stored = {}
  /\ down = FALSE
  /\ plan \in Plans

-----------------------------------------------------------------------------
(* The goroutine of a session: completeRegistryDeviceLogin.                *)

At(s, l) == login' = [login EXCEPT ![s] = [@ EXCEPT !.at = l]]

\* How the context of a session is over once its cancel function was called.
Cancelled(l) == IF l.over = "no" THEN "canceled" ELSE l.over

DialogAt(s, l) == dialog' = [dialog EXCEPT ![s] = [@ EXCEPT !.at = l]]

\* The status is stored, scheduleCleanup called, and the deferred cancel runs.
End(s, st) ==
  login' = [login EXCEPT ![s] = [@ EXCEPT !.at = "ended", !.status = st, !.timer = TRUE, !.over = Cancelled(login[s])]]

\* The device code is there and the session stored; the client may have given up on the
\* answer.  After Shutdown the context is cancelled from the beginning.
StartRegistryDeviceLogin(s) ==
  /\ s \in plan.who
  /\ login[s].at = "none"
  /\ login' = [login EXCEPT ![s] = [at |-> "token", status |-> "pending",
                                    over |-> IF down THEN "canceled" ELSE "no",
                                    kept |-> TRUE, timer |-> FALSE]]
  /\ \E at \in {"none"} \cup (IF "dialog" \in plan.may THEN {"open"} ELSE {}) : DialogAt(s, at)
  /\ UNCHANGED <<vars, stored, down>>

\* The status for an error of WaitForDeviceToken: a poll that the deadline interrupts wraps
\* its error, and counts as failed.
TokenStatuses(s) == {"failed"} \cup (IF login[s].over = "deadline" THEN {"expired"} ELSE {})

\* The token, an error of a poll or of the token's claims, or the end of the context; when
\* several are ready any may win.
WaitForDeviceToken(s) ==
  /\ login[s].at = "token"
  /\ At(s, "pat") \/ \E st \in TokenStatuses(s) : End(s, st)
  /\ UNCHANGED <<vars, dialog, stored, down>>

GeneratePAT(s) ==
  /\ login[s].at = "pat"
  /\ \/ login' = [login EXCEPT ![s] = [@ EXCEPT !.at = "saving", !.status = "saving"]]
     \/ End(s, "failed")
  /\ UNCHANGED <<vars, dialog, stored, down>>

\* EnsureRuntimeRunning(ctx): from here on the session is a caller in RuntimeStart.
CallsEnsure(s) ==
  /\ login[s].at = "saving"
  /\ EnsureRuntimeRunning(s)
  /\ At(s, "ensure")
  /\ UNCHANGED <<dialog, stored, down>>

EnsureReturns(s) ==
  /\ login[s].at = "ensure"
  /\ caller[s].pc = "returned"
  /\ IF caller[s].answer = "nil" THEN At(s, "docker") ELSE End(s, "failed")
  /\ UNCHANGED <<vars, dialog, stored, down>>

\* Not in the code: a docker login that does not know of the session's context.
LoginDetached(s) ==
  /\ login[s].at = "docker"
  /\ IF engine = "running" THEN At(s, "run") ELSE End(s, "failed")
  /\ UNCHANGED <<vars, dialog, stored, down>>

\* RegistryLogin asks for a running engine; a command is not started once its context is over.
DockerLogin(s) ==
  /\ login[s].at = "docker"
  /\ IF engine = "running" /\ login[s].over = "no" THEN At(s, "run") ELSE End(s, "failed")
  /\ UNCHANGED <<vars, dialog, stored, down>>

\* Not in the code: takes every end of the command for a login.
DockerLoginIgnoresError(s) ==
  /\ login[s].at = "run"
  /\ stored' \in {stored, stored \cup {s}}
  /\ End(s, "complete")
  /\ UNCHANGED <<vars, dialog, down>>

\* The command ends; one that is killed, or loses the engine, may have written before.
DockerLoginEnds(s) ==
  /\ login[s].at = "run"
  /\ \/ stored' = stored \cup {s} /\ End(s, "complete")
     \/ stored' \in {stored, stored \cup {s}} /\ End(s, "failed")
  /\ UNCHANGED <<vars, dialog, down>>

SessionStep(s) ==
  \/ GeneratePAT(s) \/ CallsEnsure(s) \/ EnsureReturns(s) \/ DockerLogin(s) \/ DockerLoginEnds(s)

\* The deadline of the flow's context, expires_in after its start.
Expire(s) ==
  /\ login[s].at \notin {"none", "ended"} /\ login[s].over = "no"
  /\ login' = [login EXCEPT ![s] = [@ EXCEPT !.over = "deadline"]]
  /\ UNCHANGED <<vars, dialog, stored, down>>

\* The function of time.AfterFunc, ten minutes after the end.
Cleanup(s) ==
  /\ login[s].timer
  /\ login' = [login EXCEPT ![s] = [@ EXCEPT !.timer = FALSE, !.kept = FALSE]]
  /\ UNCHANGED <<vars, dialog, stored, down>>

\* lifecycleCancel and stopRegistryLoginSessions.
Shutdown ==
  /\ "shutdown" \in plan.may /\ ~down
  /\ down' = TRUE
  /\ login' = [s \in Sessions |->
       IF login[s].at = "none" THEN login[s]
       ELSE [login[s] EXCEPT !.over = Cancelled(login[s]), !.kept = FALSE]]
  /\ UNCHANGED <<vars, dialog, stored>>

-----------------------------------------------------------------------------
(* Cancelling, and the dialog.                                             *)

\* CancelRegistryDeviceLogin finds the session and overwrites its status, ...
CancelMarks(s) ==
  /\ dialog[s].at = "open" /\ dialog[s].cancel = "no"
  /\ login[s].kept
  /\ login' = [login EXCEPT ![s] = [@ EXCEPT !.status = "cancelled"]]
  /\ dialog' = [dialog EXCEPT ![s] = [@ EXCEPT !.cancel = "marked"]]
  /\ UNCHANGED <<vars, stored, down>>

\* ... cancels its context, ...
CancelFires(s) ==
  /\ dialog[s].cancel = "marked"
  /\ login' = [login EXCEPT ![s] = [@ EXCEPT !.over = Cancelled(login[s])]]
  /\ dialog' = [dialog EXCEPT ![s] = [@ EXCEPT !.cancel = "canceled"]]
  /\ UNCHANGED <<vars, stored, down>>

\* ... and drops it.  The dialog closes with the answer, unless that is lost or a poll has
\* closed it before.
CancelForgets(s) ==
  /\ dialog[s].cancel = "canceled"
  /\ login' = [login EXCEPT ![s] = [@ EXCEPT !.kept = FALSE]]
  /\ \E at \in IF dialog[s].at = "open" THEN {"open", "closed"} ELSE {dialog[s].at} :
       dialog' = [dialog EXCEPT ![s] = [@ EXCEPT !.cancel = "no", !.at = at]]
  /\ UNCHANGED <<vars, stored, down>>

\* The session is unknown: the ApiException is ignored and the dialog closes.
CancelUnknown(s) ==
  /\ dialog[s].at = "open" /\ dialog[s].cancel = "no"
  /\ ~login[s].kept
  /\ DialogAt(s, "closed")
  /\ UNCHANGED <<vars, login, stored, down>>

CancelStep(s) == CancelFires(s) \/ CancelForgets(s)

\* Not in the code: a failed poll is never held against the connection.
MissForgiven(s) == UNCHANGED dialog

\* _recordTransientFailure: the last miss closes the dialog.
Miss(s) ==
  IF dialog[s].misses + 1 >= MaxMisses
    THEN DialogAt(s, "failed")
    ELSE dialog' = [dialog EXCEPT ![s] = [@ EXCEPT !.misses = dialog[s].misses + 1]]

\* One round of _poll: no answer or a session that is unknown, a final status, or any other.
Poll(s) ==
  /\ dialog[s].at = "open"
  /\ \/ Miss(s)
     \/ /\ login[s].kept
        /\ \/ login[s].status = "complete" /\ DialogAt(s, "signedIn")
           \/ login[s].status \in {"failed", "expired"} /\ DialogAt(s, "failed")
           \/ /\ login[s].status \notin {"complete", "failed", "expired"}
              /\ dialog' = [dialog EXCEPT ![s] = [@ EXCEPT !.misses = 0]]
  /\ UNCHANGED <<vars, login, stored, down>>

-----------------------------------------------------------------------------
(* The composition.                                                        *)

\* The bound on starts leaves one for each session that has not called yet.
Spare ==
  inflight # Nil \/ born + Cardinality({s \in Sessions \cap plan.who : caller[s].pc = "idle"}) < MaxFlights

\* The calls of a session are steps of its goroutine, and its context is the session's.
OtherCaller(c) ==
  \/ c \in plan.who \ Sessions /\ Spare /\ EnsureRuntimeRunning(c)
  \/ c \notin Sessions /\ CallAgain(c)
  \/ (c \in Sessions => login[c].over # "no") /\ CancelCtx(c)
  \/ WaitRuntimeStart(c)

EngineStep ==
  \/ \E c \in Callers : OtherCaller(c)
  \/ \E f \in Flights : FlightStep(f)
  \/ "faults" \in plan.may /\ \E s \in Stoppers : HandleRuntimeStop(s) \/ ClearAfterStop(s)
  \/ "faults" \in plan.may /\ EngineFault

\* The bounds are used up and nothing is under way.
LoginDone ==
  /\ inflight = Nil
  /\ \A s \in Sessions \cap plan.who :
       login[s].at = "ended" /\ ~login[s].timer /\ dialog[s].at # "open"
  /\ UNCHANGED <<vars, loginVars>>

LoginStep ==
  \/ EngineStep /\ UNCHANGED loginVars
  \/ \E s \in Sessions :
       \/ StartRegistryDeviceLogin(s) \/ WaitForDeviceToken(s) \/ SessionStep(s) \/ Expire(s)
       \/ Cleanup(s) \/ CancelMarks(s) \/ CancelStep(s) \/ CancelUnknown(s) \/ Poll(s)
  \/ Shutdown
  \/ LoginDone

LoginNext == LoginStep /\ UNCHANGED plan

LoginSpec == LoginInit /\ [][LoginNext]_allVars

\* As in RuntimeStart; besides, goroutines and handlers go on, timers fire, the dialog polls
\* every two seconds, and the wait for the token ends with the context, not before.
LoginFairSpec ==
  /\ LoginSpec
  /\ \A c \in Callers : WF_allVars(WaitRuntimeStart(c) /\ UNCHANGED <<loginVars, plan>>)
  /\ \A f \in Flights : /\ WF_allVars(FlightStep(f) /\ UNCHANGED <<loginVars, plan>>)
                        /\ SF_allVars(PollDeadline(f) /\ UNCHANGED <<loginVars, plan>>)
  /\ \A s \in Sessions :
       /\ WF_allVars(/\ SessionStep(s) \/ (login[s].over # "no" /\ WaitForDeviceToken(s))
                     /\ UNCHANGED plan)
       /\ WF_allVars((Expire(s) \/ Cleanup(s)) /\ UNCHANGED plan)
       /\ WF_allVars(CancelStep(s) /\ UNCHANGED plan) /\ WF_allVars(Poll(s) /\ UNCHANGED plan)

-----------------------------------------------------------------------------
(* Properties.                                                             *)

\* The dialog says "Signed in" only when the docker CLI has the credentials of its session,
\* whatever becomes of the engine and of other sessions meanwhile.
SignedInIsStored == \A s \in Sessions : dialog[s].at = "signedIn" => s \in stored

Abandoned(s) == login[s].over # "no" /\ login[s].at # "run" /\ s \notin stored

\* A session whose context is over before its docker login has begun writes no credentials:
\* not after a cancellation, its deadline or the shutdown, although the shared start of the
\* engine goes on without it and may still answer it.
CancelIsHonoured == \A s \in Sessions : [](Abandoned(s) => [](s \notin stored))

\* The modal dialog closes, however the login ends and although its session may be gone.
DialogCloses == \A s \in Sessions : dialog[s].at = "open" ~> dialog[s].at # "open"

=============================================================================
