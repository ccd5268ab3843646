------------------------------ MODULE Handover ------------------------------
(***************************************************************************)
(* The daemon as a process (backend/cmd/calf/main.go) among others of its  *)
(* kind: an upgrade, a second app or a respawn starts a daemon while an    *)
(* older one still runs.  They share the API port, calf.pid and the path   *)
(* of the public Docker socket (dockerSocketProxy in                       *)
(* backend/internal/daemon/docker_socket_proxy.go, Core.New and            *)
(* Core.Shutdown), on which each one works from several goroutines.        *)
(*                                                                         *)
(* A socket file is the daemon that bound it: it answers as long as that   *)
(* daemon has its listener.  Closing a listener unlinks the path, whatever *)
(* is there by then (Go's UnixListener).  What rt.Stop does to the VM is   *)
(* GuestEngine, what a connection does is WakeGate.                        *)
(***************************************************************************)
EXTENDS Naturals

CONSTANTS Daemons,   \* daemon processes, each started at most once
          None, Link,  \* no file; a symlink left by an older release
          Engine     \* the socket of an engine whose public and own path are the same

ASSUME NamesAssumption ==
  Daemons \cap {None, Link, Engine} = {} /\ None # Link /\ Engine \notin {None, Link}

VARIABLES
  pc,        \* pc[d]: where run is; "done" after an orderly exit, "lost" after any other
  told,      \* told[d]: SIGTERM or SIGINT came, or the parent died (ctx of run is done)
  port,      \* who listens on the API address: None, a daemon, or "other"
  pidfile,   \* calf.pid: None or the daemon it names
  path,      \* what is at the public socket path
  proxy,     \* proxy[d]: there is a dockerSocketProxy that has been started
  listener,  \* listener[d]: the proxy has its listener
  stopped,   \* stopped[d]: the proxy's stopped flag
  live,      \* live[d]: the lifecycle context is not cancelled
  op         \* op[d]: what the holder of switchMu does, with .at = "idle" for nobody

vars == <<pc, told, port, pidfile, path, proxy, listener, stopped, live, op>>
mainVars == <<pc, told, port, pidfile>>
proxyVars == <<path, proxy, listener, stopped, live, op>>

Holders == {"new", "reclaim", "stop"}
Idle == [who |-> "reclaim", at |-> "idle"]

TypeOK ==
  /\ pc \in [Daemons -> {"off", "new", "ensure", "lsof", "term", "pid", "listen", "serving",
                         "http", "backend", "rtstop", "rterr", "done", "lost"}]
  /\ told \in [Daemons -> BOOLEAN]
  /\ port \in Daemons \cup {None, "other"}
  /\ pidfile \in Daemons \cup {None}
  /\ path \in Daemons \cup {None, Link, Engine}
  /\ proxy \in [Daemons -> BOOLEAN] /\ listener \in [Daemons -> BOOLEAN]
  /\ stopped \in [Daemons -> BOOLEAN] /\ live \in [Daemons -> BOOLEAN]
  /\ op \in [Daemons -> [who : Holders, at : {"idle", "look", "close", "remove", "bind", "chmod",
                                             "undo", "undone"}]]

Init ==
  /\ pc = [d \in Daemons |-> "off"] /\ told = [d \in Daemons |-> FALSE]
  /\ port = None /\ pidfile = None
  /\ path \in {None, Link, Engine}
  /\ proxy = [d \in Daemons |-> FALSE] /\ listener = [d \in Daemons |-> FALSE]
  /\ stopped = [d \in Daemons |-> FALSE] /\ live = [d \in Daemons |-> TRUE]
  /\ op = [d \in Daemons |-> Idle]

Goto(d, l) == pc' = [pc EXCEPT ![d] = l]
OpAt(d, l) == op' = [op EXCEPT ![d] = [who |-> op[d].who, at |-> l]]

\* A process in which run has not returned.
Running(d) == pc[d] \notin {"off", "done", "lost"}

-----------------------------------------------------------------------------
(* dockerSocketProxy: the holder of switchMu, one step per file operation. *)

\* Not in the code: repairs the path of a proxy that Stop has closed.
ReclaimIgnoresStopped(d) ==
  /\ proxy[d] /\ Running(d)
  /\ op[d].at = "idle"
  /\ op' = [op EXCEPT ![d] = [who |-> "reclaim", at |-> "look"]]
  /\ UNCHANGED <<mainVars, path, proxy, listener, stopped, live>>

\* Rebind from watchPublicPath, or UseProxy from a start that ended or a ForceStopRuntime: it
\* takes switchMu and finds the proxy not stopped.  A caller may have waited for the mutex
\* while Stop held it.
Reclaim(d) ==
  /\ proxy[d] /\ Running(d)
  /\ op[d].at = "idle" /\ ~stopped[d]
  /\ op' = [op EXCEPT ![d] = [who |-> "reclaim", at |-> "look"]]
  /\ UNCHANGED <<mainVars, path, proxy, listener, stopped, live>>

\* Not in the code: leaves any file but a symlink alone.
OwnsUnlessLink(d) == path # Link

\* p.listener != nil && publicPathIsSocket(p.public)
Owns(d) == listener[d] /\ path \in Daemons

Look(d) ==
  /\ op[d].at = "look"
  /\ OpAt(d, IF Owns(d) THEN "idle" ELSE "close")
  /\ UNCHANGED <<mainVars, path, proxy, listener, stopped, live>>

\* shutdownListener: closing unlinks the path; without a listener nothing is closed.
ShutdownListener(d) ==
  /\ op[d].at = "close"
  /\ path' = IF listener[d] THEN None ELSE path
  /\ listener' = [listener EXCEPT ![d] = FALSE]
  /\ OpAt(d, "remove")
  /\ UNCHANGED <<mainVars, proxy, stopped, live>>

\* os.Remove(p.public): the first step of listen, or the last one of Stop, with which
\* Core.Shutdown and gateway.Shutdown return.
Remove(d) ==
  /\ op[d].at = "remove"
  /\ path' = None
  /\ IF op[d].who = "stop"
       THEN op' = [op EXCEPT ![d] = Idle] /\ Goto(d, "rtstop")
       ELSE OpAt(d, "bind") /\ UNCHANGED pc
  /\ UNCHANGED <<told, port, pidfile, proxy, listener, stopped, live>>

\* listen gives up.  In New the proxy is dropped, later the next tick tries again.
ListenFails(d) ==
  /\ op' = [op EXCEPT ![d] = Idle]
  /\ IF op[d].who = "new" THEN Goto(d, "ensure") ELSE UNCHANGED pc

\* Listen: the address is in use when another daemon has bound the path meanwhile.
Bind(d) ==
  /\ op[d].at = "bind"
  /\ \/ /\ path = None
        /\ path' = d
        /\ OpAt(d, "chmod") /\ UNCHANGED pc
     \/ path # None /\ ListenFails(d) /\ UNCHANGED path
  /\ UNCHANGED <<told, port, pidfile, proxy, listener, stopped, live>>

\* Chmod finds a file or not; then p.listener is set and stopped is cleared, or the listener
\* has to go.  New goes on to ensurePort.
Chmod(d) ==
  /\ op[d].at = "chmod"
  /\ \/ /\ path # None
        /\ listener' = [listener EXCEPT ![d] = TRUE]
        /\ stopped' = [stopped EXCEPT ![d] = FALSE]
        /\ proxy' = [proxy EXCEPT ![d] = TRUE]
        /\ op' = [op EXCEPT ![d] = Idle]
        /\ IF op[d].who = "new" THEN Goto(d, "ensure") ELSE UNCHANGED pc
     \/ path = None /\ OpAt(d, "undo") /\ UNCHANGED <<pc, listener, stopped, proxy>>
  /\ UNCHANGED <<told, port, pidfile, path, live>>

\* Closing that listener unlinks the path, and os.Remove does so once more, whoever bound it
\* meanwhile.
Undo(d) ==
  /\ op[d].at \in {"undo", "undone"}
  /\ path' = None
  /\ IF op[d].at = "undo" THEN OpAt(d, "undone") /\ UNCHANGED pc ELSE ListenFails(d)
  /\ UNCHANGED <<told, port, pidfile, proxy, listener, stopped, live>>

ProxyStep(d) == Look(d) \/ ShutdownListener(d) \/ Remove(d) \/ Bind(d) \/ Chmod(d) \/ Undo(d)

-----------------------------------------------------------------------------
(* run, up to serving.                                                     *)

\* api.New: the public socket, if it is not the engine's own, is bound before the port is
\* looked at.
Launch(d) ==
  /\ pc[d] = "off"
  /\ \/ /\ path # Engine
        /\ Goto(d, "new")
        /\ op' = [op EXCEPT ![d] = [who |-> "new", at |-> "remove"]]
     \/ path = Engine /\ Goto(d, "ensure") /\ UNCHANGED op
  /\ UNCHANGED <<told, port, pidfile, path, proxy, listener, stopped, live>>

\* The process ends: its listeners go, their files stay.
Dies(d, how) ==
  /\ Goto(d, how)
  /\ port' = IF port = d THEN None ELSE port
  /\ listener' = [listener EXCEPT ![d] = FALSE]
  /\ proxy' = [proxy EXCEPT ![d] = FALSE]
  /\ op' = [op EXCEPT ![d] = Idle]
  /\ UNCHANGED <<told, path, stopped, live>>

\* ensurePort, its first portAvailable.
EnsurePort(d) ==
  /\ pc[d] = "ensure"
  /\ Goto(d, IF port = None THEN "pid" ELSE "lsof")
  /\ UNCHANGED <<told, port, pidfile, proxyVars>>

\* findPidOnPort and isCalfListener: a daemon on the port is sent SIGTERM.
Reclaims(d) ==
  /\ pc[d] = "lsof"
  /\ port \in Daemons
  /\ told' = [told EXCEPT ![port] = TRUE]
  /\ Goto(d, "term")
  /\ UNCHANGED <<port, pidfile, proxyVars>>

\* lsof or ps fails, the listener is gone by now or is no calf: run returns 1.
EnsureFails(d) ==
  /\ pc[d] = "lsof"
  /\ Dies(d, "lost")
  /\ UNCHANGED pidfile

\* Up to ten more looks at the port, 300 ms apart.
AwaitPort(d) ==
  /\ pc[d] = "term"
  /\ \/ port = None /\ Goto(d, "pid") /\ UNCHANGED <<told, port, proxyVars>>
     \/ port # None /\ Dies(d, "lost")
  /\ UNCHANGED pidfile

WritePidFile(d) ==
  /\ pc[d] = "pid"
  /\ pidfile' = d
  /\ Goto(d, "listen")
  /\ UNCHANGED <<told, port, proxyVars>>

\* gateway.Run in its goroutine: the port may be taken since ensurePort looked.
Listen(d) ==
  /\ pc[d] = "listen" /\ ~told[d]
  /\ \/ port = None /\ port' = d /\ Goto(d, "serving")
     \/ port # None /\ Goto(d, "rterr") /\ UNCHANGED port
  /\ UNCHANGED <<told, pidfile, proxyVars>>

-----------------------------------------------------------------------------
(* run, from ctx.Done on.                                                  *)

\* SIGTERM or SIGINT from outside, or watchParent sees the parent gone.
Quit(d) ==
  /\ pc[d] \in {"listen", "serving"} /\ ~told[d]
  /\ told' = [told EXCEPT ![d] = TRUE]
  /\ UNCHANGED <<pc, port, pidfile, proxyVars>>

\* httpServer.Shutdown closes the API listener at once ...
HttpCloses(d) ==
  /\ pc[d] \in {"listen", "serving"} /\ told[d]
  /\ port' = IF port = d THEN None ELSE port
  /\ Goto(d, "http")
  /\ UNCHANGED <<told, pidfile, proxyVars>>

\* ... and waits for the requests in progress, ten seconds at most.  Only when it returns
\* without an error is Core.Shutdown called.
HttpReturns(d) ==
  /\ pc[d] = "http"
  /\ \/ Goto(d, "backend") /\ live' = [live EXCEPT ![d] = FALSE]
     \/ Goto(d, "rterr") /\ UNCHANGED live
  /\ UNCHANGED <<told, port, pidfile, path, proxy, listener, stopped, op>>

\* dockerSocketProxy.Stop takes switchMu and sets stopped.
StopBegins(d) ==
  /\ pc[d] = "backend"
  /\ proxy[d] /\ op[d].at = "idle"
  /\ stopped' = [stopped EXCEPT ![d] = TRUE]
  /\ op' = [op EXCEPT ![d] = [who |-> "stop", at |-> "close"]]
  /\ UNCHANGED <<mainVars, path, proxy, listener, live>>

\* There is no proxy to stop.
ShutdownWithoutProxy(d) ==
  /\ pc[d] = "backend" /\ ~proxy[d]
  /\ Goto(d, "rtstop")
  /\ UNCHANGED <<told, port, pidfile, proxyVars>>

\* Not in the code: an exit in front of the deferred removePidFile.
ExitKeepsPidFile(d) ==
  /\ pc[d] \in {"rtstop", "rterr"}
  /\ UNCHANGED pidfile
  /\ Dies(d, IF pc[d] = "rtstop" THEN "done" ELSE "lost")

\* rtCancel, rt.Stop within thirty seconds, the deferred removePidFile, and the exit.
Exit(d) ==
  /\ pc[d] \in {"rtstop", "rterr"}
  /\ pidfile' = None
  /\ Dies(d, IF pc[d] = "rtstop" THEN "done" ELSE "lost")

\* SIGKILL or a panic.
Crash(d) ==
  /\ Running(d)
  /\ Dies(d, "lost")
  /\ UNCHANGED pidfile

RunStep(d) ==
  \/ EnsurePort(d) \/ Reclaims(d) \/ EnsureFails(d) \/ AwaitPort(d) \/ WritePidFile(d) \/ Listen(d)
  \/ HttpCloses(d) \/ HttpReturns(d) \/ StopBegins(d) \/ ShutdownWithoutProxy(d) \/ Exit(d)

\* A program that is no calf takes the port, and gives it back.
OtherBinds ==
  /\ \/ port = None /\ port' = "other"
     \/ port = "other" /\ port' = None
  /\ UNCHANGED <<pc, told, pidfile, proxyVars>>

Next ==
  \/ \E d \in Daemons :
       Launch(d) \/ RunStep(d) \/ ProxyStep(d) \/ Reclaim(d) \/ Quit(d) \/ Crash(d)
  \/ OtherBinds

Spec == Init /\ [][Next]_vars

\* run and the holder of switchMu go on, the watch ticker fires every two seconds until the
\* lifecycle context is cancelled, and a
\* mutex that others take and give back is had in the end.
FairSpec ==
  /\ Spec
  /\ \A d \in Daemons : /\ WF_vars(RunStep(d)) /\ WF_vars(ProxyStep(d))
                        /\ WF_vars(live[d] /\ Reclaim(d)) /\ SF_vars(StopBegins(d))

-----------------------------------------------------------------------------
(* Properties.                                                             *)

\* A proxy that Stop has closed stays closed, although listen clears the stopped flag and a
\* reclaim may be anywhere when Stop is called.
StopIsFinal == [][\A d \in Daemons : stopped[d] => stopped'[d]]_vars

\* When every daemon that was started has shut down in order, no socket file and no calf.pid
\* are left, whoever removed whose file during the hand-over.
NothingLeft ==
  (\A d \in Daemons : pc[d] \in {"off", "done"}) /\ (\E d \in Daemons : pc[d] = "done") =>
     path \in {None, Engine} /\ pidfile = None

\* d serves and no other daemon runs.
Alone(d) == pc[d] = "serving" /\ \A e \in Daemons \ {d} : ~Running(e)

\* The docker CLI reaches d.
Served(d) == path = d /\ listener[d]

\* The file of a daemon that ended without Stop is in the way.
DeadSocket == path \in Daemons /\ ~Running(path)

\* A daemon that is left alone gets the public path back, with the repair of watchPublicPath,
\* from whatever others did to it, as long as they left no socket file of their own there.
SocketComesBack ==
  \A d \in Daemons : <>[](Alone(d) /\ proxy[d] /\ ~DeadSocket) => <>[]Served(d)

\* "watchPublicPath periodically repairs docker.sock after upgrade races or crashes".
SocketRepaired == \A d \in Daemons : <>[](Alone(d) /\ proxy[d]) => <>[]Served(d)

=============================================================================
