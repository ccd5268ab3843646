----------------------------- MODULE Supervisor -----------------------------
(***************************************************************************)
(* The desktop app as the parent of daemons (ui/lib/main.dart): it starts  *)
(* one, starts another when that ends, restarts it for the user, and stops *)
(* it when the app quits; composed with Handover, whose daemons it starts. *)
(*                                                                         *)
(* Dart runs one callback at a time; the awaits of _startDaemon,           *)
(* _restartDaemon and _stopDaemon are where others come in between.  A     *)
(* daemon whose parent has gone finds that out in watchParent.             *)
(***************************************************************************)
EXTENDS Handover, Sequences

CONSTANTS MaxRestarts,   \* _maxDaemonRestarts
          Plans          \* bound: .app are the daemons that the app starts, in this order, and
                         \* .free those started by others; .may: what else happens

ASSUME MaxRestartsAssumption == MaxRestarts \in Nat
ASSUME PlansAssumption ==
  Plans \subseteq [free : SUBSET Daemons, app : Seq(Daemons),
                   may : SUBSET {"crash", "other", "quit", "kill"}]

VARIABLES
  app,       \* the variables of main.dart, and what its functions wait for
  child,     \* child[d]: what the app knows of the process
  young,     \* the processes whose thirty seconds are not over
  chances,   \* history: restarts scheduled since a process stayed up or the user restarted
  plan       \* one of Plans, chosen at the beginning

appVars == <<app, child, young, chances>>
allVars == <<vars, appVars, plan>>

\* Where _restartDaemon or _stopDaemon is, and the process it is about.
At(l, d) == [at |-> l, of |-> d]

AppTypeOK ==
  /\ TypeOK
  /\ app \in [current : Daemons \cup {None}, attempts : Nat, timer : BOOLEAN, lost : Nat,
              phase : {"boot", "wait", "ready"},
              restart : [at : {"idle", "exit", "start"}, of : Daemons \cup {None}],
              stop : [at : {"no", "hide", "exit", "gone"}, of : Daemons \cup {None}]]
  /\ child \in [Daemons -> {"none", "starting", "attached", "reaped"}]
  /\ young \subseteq Daemons
  /\ chances \in Nat

\* The processes the app may start.
Children == {plan.app[i] : i \in DOMAIN plan.app}

\* An app is looked at where the daemons have no public socket to contend for.
AppInit ==
  /\ Init
  /\ app = [current |-> None, attempts |-> 0, timer |-> FALSE, lost |-> 0, phase |-> "boot",
            restart |-> At("idle", None), stop |-> At("no", None)]
  /\ child = [d \in Daemons |-> "none"]
  /\ young = {}
  /\ chances = 0
  /\ plan \in Plans
  /\ path = Engine <=> plan.app # <<>>

\* _daemonShutdown, and the app's own end.
Quitting == app.stop.at # "no"
Gone == app.stop.at = "gone"

-----------------------------------------------------------------------------
(* _startDaemon.                                                           *)

\* Up to the await of Process.start.
Spawn(d) == ~Quitting /\ Launch(d) /\ child' = [child EXCEPT ![d] = "starting"]

\* The app quits, or there is no binary or no process for it.
SpawnFails == UNCHANGED <<vars, child>>

\* The next process, if the bound leaves one.
Fresh == {plan.app[i] : i \in {j \in DOMAIN plan.app :
            child[plan.app[j]] = "none" /\ \A k \in 1..(j - 1) : child[plan.app[k]] # "none"}}

StartDaemon == SpawnFails \/ \E d \in Fresh : Spawn(d)

\* Process.start is back: whatever was current is replaced.
Spawned(d) ==
  /\ ~Gone /\ child[d] = "starting"
  /\ app' = [app EXCEPT !.current = d,
                        !.restart = IF @ = At("start", d) THEN At("idle", None) ELSE @]
  /\ child' = [child EXCEPT ![d] = "attached"]
  /\ young' = young \cup {d}
  /\ UNCHANGED <<vars, chances>>

\* Not in the code: clears the count for any process whose time has come.
StaysUpAnyway(d) ==
  /\ ~Gone /\ d \in young
  /\ young' = young \ {d}
  /\ app' = [app EXCEPT !.attempts = 0]
  /\ chances' = IF app.current = d THEN 0 ELSE chances
  /\ UNCHANGED <<vars, child>>

\* The timer of thirty seconds.
StaysUp(d) ==
  /\ ~Gone /\ d \in young
  /\ young' = young \ {d}
  /\ app' = [app EXCEPT !.attempts = IF app.current = d THEN 0 ELSE @]
  /\ chances' = IF app.current = d THEN 0 ELSE chances
  /\ UNCHANGED <<vars, child>>

\* The delay before another start.  A timer that is still pending is forgotten, not cancelled.
Scheduled(a) == [a EXCEPT !.timer = TRUE, !.lost = @ + IF a.timer THEN 1 ELSE 0]

\* process.exitCode completes: only the exit of the current process counts.
Exited(d) ==
  /\ ~Gone /\ child[d] = "attached" /\ ~Running(d)
  /\ child' = [child EXCEPT ![d] = "reaped"]
  /\ LET a == [app EXCEPT !.current = None, !.attempts = @ + 1]
     IN  \/ app.current # d /\ UNCHANGED <<app, chances>>
         \/ /\ app.current = d /\ Quitting
            /\ app' = [app EXCEPT !.current = None] /\ UNCHANGED chances
         \/ /\ app.current = d /\ ~Quitting /\ a.attempts > MaxRestarts
            /\ app' = a /\ UNCHANGED chances
         \/ /\ app.current = d /\ ~Quitting /\ a.attempts <= MaxRestarts
            /\ app' = Scheduled(a) /\ chances' = chances + 1
  /\ UNCHANGED <<vars, young>>

\* main
Boot ==
  /\ plan.app # <<>> /\ app.phase = "boot" /\ ~Gone
  /\ app' = [app EXCEPT !.phase = "wait"]
  /\ StartDaemon
  /\ UNCHANGED <<young, chances>>

\* _waitForDaemon: whichever daemon answers on the API address, the shell is shown.
DaemonReady ==
  /\ app.phase = "wait" /\ ~Gone
  /\ port \in Daemons
  /\ app' = [app EXCEPT !.phase = "ready"]
  /\ UNCHANGED <<vars, child, young, chances>>

TimerFires ==
  /\ ~Gone
  /\ \/ app.timer /\ app' = [app EXCEPT !.timer = FALSE]
     \/ app.lost > 0 /\ app' = [app EXCEPT !.lost = @ - 1]
  /\ StartDaemon
  /\ UNCHANGED <<young, chances>>

-----------------------------------------------------------------------------
(* _restartDaemon and _stopDaemon.                                         *)

\* process.kill(): before NotifyContext the default action of SIGTERM ends the process.
Term(d) ==
  \/ /\ pc[d] \in {"listen", "serving"}
     /\ told' = [told EXCEPT ![d] = TRUE]
     /\ UNCHANGED <<pc, port, pidfile, proxyVars>>
  \/ /\ pc[d] \in {"new", "ensure", "lsof", "term", "pid"}
     /\ Dies(d, "lost")
     /\ UNCHANGED pidfile
  \/ /\ pc[d] \notin {"listen", "serving", "new", "ensure", "lsof", "term", "pid"}
     /\ UNCHANGED vars

\* _restartDaemon from its own call of _startDaemon on: it waits for Process.start.
RestartStarts(a) ==
  \/ SpawnFails /\ app' = [a EXCEPT !.restart = At("idle", None)]
  \/ \E d \in Fresh : Spawn(d) /\ app' = [a EXCEPT !.restart = At("start", d)]

\* The button of the shell is dead while a restart is under way.
RestartDaemon ==
  /\ app.phase = "ready" /\ ~Quitting /\ app.restart.at = "idle"
  /\ LET a == [app EXCEPT !.timer = FALSE, !.attempts = 0, !.current = None]
     IN  IF app.current = None
           THEN RestartStarts(a)
           ELSE /\ Term(app.current) /\ UNCHANGED child
                /\ app' = [a EXCEPT !.restart = At("exit", app.current)]
  /\ chances' = 0
  /\ UNCHANGED young

\* The old process is gone; _startDaemon looks at _daemonShutdown again.
RestartGoesOn ==
  /\ ~Gone /\ app.restart.at = "exit" /\ ~Running(app.restart.of)
  /\ RestartStarts(app)
  /\ UNCHANGED <<young, chances>>

\* Quit, or the window is torn down.
StopDaemon ==
  /\ app.phase # "boot" /\ ~Quitting
  /\ app' = [app EXCEPT !.stop = At("hide", None), !.timer = FALSE]
  /\ UNCHANGED <<vars, child, young, chances>>

\* The tray icon is hidden, or that failed.
StopKills ==
  /\ app.stop.at = "hide"
  /\ IF app.current = None
       THEN app' = [app EXCEPT !.stop = At("gone", None)] /\ UNCHANGED vars
       ELSE /\ Term(app.current)
            /\ app' = [app EXCEPT !.stop = At("exit", app.current), !.current = None]
  /\ UNCHANGED <<child, young, chances>>

\* The process is gone and the app exits.
StopEnds ==
  /\ app.stop.at = "exit" /\ ~Running(app.stop.of)
  /\ app' = [app EXCEPT !.stop = At("gone", None)]
  /\ UNCHANGED <<vars, child, young, chances>>

\* Five seconds of _stopDaemon or ten of _restartDaemon are over: SIGKILL.
KillTimeout ==
  /\ ~Gone
  /\ \/ app.stop.at = "exit" /\ Crash(app.stop.of)
     \/ app.restart.at = "exit" /\ Crash(app.restart.of)
  /\ UNCHANGED appVars

\* The app is killed, or a second call of _stopDaemon, which finds no process, lets it exit.
AppDies ==
  /\ "kill" \in plan.may
  /\ app.phase # "boot" /\ ~Gone
  /\ app' = [app EXCEPT !.stop = At("gone", None)]
  /\ UNCHANGED <<vars, child, young, chances>>

AppStep ==
  \/ \E d \in Children : Spawned(d) \/ StaysUp(d) \/ Exited(d)
  \/ Boot \/ DaemonReady \/ TimerFires \/ RestartDaemon \/ RestartGoesOn
  \/ StopDaemon \/ StopKills \/ StopEnds \/ KillTimeout \/ AppDies

-----------------------------------------------------------------------------
(* The daemons of Handover, with the app as the parent of some.            *)

\* Not in the code: the daemon looks at its parent once, before it serves.
WatchParentOnce(d) == Gone /\ child[d] # "none" /\ pc[d] = "listen" /\ Quit(d)

\* watchParent: every five seconds the daemon looks whether it has been orphaned.
WatchParent(d) == Gone /\ child[d] # "none" /\ Quit(d)

DaemonStep ==
  \/ \E d \in plan.free : Launch(d) \/ ("quit" \in plan.may /\ Quit(d))
  \/ \E d \in Children : WatchParent(d)
  \/ \E d \in Daemons : \/ RunStep(d) \/ ProxyStep(d) \/ Reclaim(d)
                          \/ ("crash" \in plan.may /\ Crash(d))
  \/ ("other" \in plan.may /\ OtherBinds)

SupervisedNext ==
  \/ DaemonStep /\ UNCHANGED <<appVars, plan>>
  \/ AppStep /\ UNCHANGED plan

SupervisedSpec == AppInit /\ [][SupervisedNext]_allVars

\* The fairness of Handover's daemons, of which the watch of the parent is one more goroutine.
SupervisedFairSpec ==
  /\ SupervisedSpec
  /\ \A d \in Daemons : /\ WF_vars(RunStep(d)) /\ WF_vars(ProxyStep(d))
                        /\ WF_vars(live[d] /\ Reclaim(d)) /\ SF_vars(StopBegins(d))
                        /\ WF_vars(WatchParent(d))

-----------------------------------------------------------------------------
(* Properties.                                                             *)

\* Since a process last stayed up for thirty seconds as the current one, or the user last
\* restarted, at most _maxDaemonRestarts restarts have been scheduled, although the timers of
\* processes that are long gone and starts that overlap change the same counter.
CrashLoopEnds == chances <= MaxRestarts

\* Once _stopDaemon has been called no daemon is started any more, by a timer that was not
\* cancelled or by a restart that waited for its old process.
QuitIsFinal ==
  [][Quitting => \A d \in Daemons : child[d] = "none" => child'[d] = "none"]_allVars

\* No daemon of the app outlives it: not the one that _stopDaemon did not see because
\* Process.start was not back, nor the ones of an app that was killed.
NoDaemonOutlivesApp ==
  \A d \in Daemons : (Gone /\ child[d] # "none") ~> ~Running(d)

=============================================================================
