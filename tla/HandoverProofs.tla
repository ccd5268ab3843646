--------------------------- MODULE HandoverProofs ---------------------------
(***************************************************************************)
(* Proofs about Handover, and about Supervisor, which extends it, for any  *)
(* set of daemons, number of restarts and plans: a stopped proxy stays     *)
(* stopped, orderly exits leave no file behind, with the desktop app the   *)
(* daemons still behave so, and the app's counter bounds a crash loop.     *)
(***************************************************************************)
EXTENDS Supervisor, TLAPS

USE Zenon

Busy(d) == op[d].at # "idle"

\* The holder of switchMu: New's start of the proxy is the only one before run goes on, Stop
\* the only one that works on a stopped proxy, and neither looks at the path first.
HolderInv ==
  \A d \in Daemons :
    /\ pc[d] = "new" <=> Busy(d) /\ op[d].who = "new"
    /\ pc[d] = "new" => op[d].at \in {"remove", "bind", "chmod", "undo", "undone"}
    /\ Busy(d) /\ op[d].who # "new" => proxy[d] /\ Running(d)
    /\ Busy(d) /\ op[d].who = "stop" => pc[d] = "backend" /\ op[d].at \in {"close", "remove"}
    /\ pc[d] = "rtstop" => ~Busy(d)

\* The stopped flag: up once Stop has begun, and then no other holder is at work.
StoppedInv ==
  \A d \in Daemons :
    /\ Busy(d) => (stopped[d] <=> op[d].who = "stop")
    /\ pc[d] = "off" => ~stopped[d]
    /\ pc[d] = "rtstop" => (proxy[d] => stopped[d])

\* Whoever bound the file that is there has a listener to close, or ended without Stop; and
\* the symlink of an older release is removed by the first daemon that gets anywhere.
PathInv ==
  /\ path \in Daemons =>
       /\ pc[path] \notin {"off", "rtstop", "done"}
       /\ op[path].at = "chmod" \/ proxy[path] \/ pc[path] = "lost"
  /\ path = Link => \A d \in Daemons : pc[d] \in {"off", "lost"} \/ (pc[d] = "new" /\ op[d].at = "remove")

\* calf.pid names a daemon that will remove the file, or ended without doing so.
PidInv == pidfile \in Daemons => pc[pidfile] \in {"listen", "serving", "http", "backend", "rtstop", "rterr", "lost"}

HInv == TypeOK /\ HolderInv /\ StoppedInv /\ PathInv /\ PidInv

\* Before any daemon is launched the invariant holds.
LEMMA InitHInv == Init => HInv
  BY NamesAssumption, SMT DEF Init, HInv, TypeOK, HolderInv, StoppedInv, PathInv, PidInv, Busy, Idle, Holders, Running

\* api.New keeps it: a new daemon begins to listen, or finds the path to be the engine's.
LEMMA LaunchKeeps ==
  ASSUME HInv, NEW d \in Daemons, Launch(d)
  PROVE  HInv'
<1> USE NamesAssumption DEF HInv, Launch, Goto, Idle, Holders
<1>1. CASE path # Engine
  <2> USE <1>1
  <2>0. /\ pc[d] = "off"
       /\ pc' = [pc EXCEPT ![d] = "new"] /\ op' = [op EXCEPT ![d] = [who |-> "new", at |-> "remove"]]
       /\ UNCHANGED <<told, port, pidfile, path, proxy, listener, stopped, live>>
    OBVIOUS
  <2> HIDE DEF Launch
  <2>1. TypeOK'
    BY <2>0 DEF TypeOK
  <2>2. HolderInv'
    BY <2>0, SMT DEF TypeOK, HolderInv, Busy, Running, StoppedInv
  <2>3. StoppedInv'
    BY <2>0, SMT DEF TypeOK, StoppedInv, HolderInv, Busy, Running
  <2>4. PathInv'
    BY <2>0, SMT DEF TypeOK, PathInv, HolderInv, StoppedInv, Busy, Running
  <2>5. PidInv'
    BY <2>0 DEF TypeOK, PidInv, HolderInv, Busy
  <2> QED BY <2>1, <2>2, <2>3, <2>4, <2>5
<1>2. CASE path = Engine
  <2> USE <1>2
  <2>1. TypeOK'
    BY DEF TypeOK
  <2>2. HolderInv'
    BY SMT DEF TypeOK, HolderInv, Busy, Running, StoppedInv
  <2>3. StoppedInv'
    BY SMT DEF TypeOK, StoppedInv, HolderInv, Busy, Running
  <2>4. PathInv'
    BY DEF TypeOK, PathInv, HolderInv, StoppedInv, Busy, Running
  <2>5. PidInv'
    BY SMT DEF TypeOK, PidInv, HolderInv, Busy
  <2> QED BY <2>1, <2>2, <2>3, <2>4, <2>5
<1> QED BY <1>1, <1>2 DEF TypeOK

\* The look whether the port is free keeps it.
LEMMA EnsurePortKeeps ==
  ASSUME HInv, NEW d \in Daemons, EnsurePort(d)
  PROVE  HInv'
<1> USE NamesAssumption DEF HInv, EnsurePort, Goto, proxyVars, Idle, Holders
<1>1. TypeOK'
  BY DEF TypeOK
<1>2. HolderInv'
  BY SMT DEF TypeOK, HolderInv, Busy, Running, StoppedInv
<1>3. StoppedInv'
  BY SMT DEF TypeOK, StoppedInv, HolderInv, Busy, Running
<1>4. PathInv'
  BY DEF TypeOK, PathInv, HolderInv, StoppedInv, Busy, Running
<1>5. PidInv'
  BY DEF TypeOK, PidInv, HolderInv, Busy
<1> QED BY <1>1, <1>2, <1>3, <1>4, <1>5

\* ensurePort telling the daemon on the port to go keeps it.
LEMMA ReclaimsKeeps ==
  ASSUME HInv, NEW d \in Daemons, Reclaims(d)
  PROVE  HInv'
<1> USE NamesAssumption DEF HInv, Reclaims, Goto, proxyVars, Idle, Holders
<1>1. TypeOK'
  BY DEF TypeOK
<1>2. HolderInv'
  BY SMT DEF TypeOK, HolderInv, Busy, Running, StoppedInv
<1>3. StoppedInv'
  BY SMT DEF TypeOK, StoppedInv, HolderInv, Busy, Running
<1>4. PathInv'
  BY SMT DEF TypeOK, PathInv, HolderInv, StoppedInv, Busy, Running
<1>5. PidInv'
  BY SMT DEF TypeOK, PidInv, HolderInv, Busy
<1> QED BY <1>1, <1>2, <1>3, <1>4, <1>5

\* A daemon that may not have the port leaves without Stop and keeps it.
LEMMA EnsureFailsKeeps ==
  ASSUME HInv, NEW d \in Daemons, EnsureFails(d)
  PROVE  HInv'
<1> USE NamesAssumption DEF HInv, EnsureFails, Goto, Dies, Idle, Holders
<1>1. TypeOK'
  BY DEF TypeOK
<1>2. HolderInv'
  BY SMT DEF TypeOK, HolderInv, Busy, Running, StoppedInv
<1>3. StoppedInv'
  BY SMT DEF TypeOK, StoppedInv, HolderInv, Busy, Running
<1>4. PathInv'
  BY SMT DEF TypeOK, PathInv, HolderInv, StoppedInv, Busy, Running
<1>5. PidInv'
  BY DEF TypeOK, PidInv, HolderInv, Busy
<1> QED BY <1>1, <1>2, <1>3, <1>4, <1>5

\* The wait for the port, freed in time or not, keeps it.
LEMMA AwaitPortKeeps ==
  ASSUME HInv, NEW d \in Daemons, AwaitPort(d)
  PROVE  HInv'
<1> USE NamesAssumption DEF HInv, AwaitPort, Goto, Dies, proxyVars, Idle, Holders
<1>1. CASE port = None
  <2> USE <1>1
  <2>1. TypeOK'
    BY SMT DEF TypeOK
  <2>2. HolderInv'
    BY SMT DEF TypeOK, HolderInv, Busy, Running, StoppedInv
  <2>3. StoppedInv'
    BY SMT DEF TypeOK, StoppedInv, HolderInv, Busy, Running
  <2>4. PathInv'
    BY SMT DEF TypeOK, PathInv, HolderInv, StoppedInv, Busy, Running
  <2>5. PidInv'
    BY SMT DEF TypeOK, PidInv, HolderInv, Busy
  <2> QED BY <2>1, <2>2, <2>3, <2>4, <2>5
<1>2. CASE port # None
  <2> USE <1>2
  <2>0. /\ pc[d] = "term"
       /\ Dies(d, "lost") /\ UNCHANGED pidfile
    OBVIOUS
  <2> HIDE DEF AwaitPort
  <2>1. TypeOK'
    BY <2>0 DEF TypeOK
  <2>2. HolderInv'
    BY <2>0, SMT DEF TypeOK, HolderInv, Busy, Running, StoppedInv
  <2>3. StoppedInv'
    BY <2>0, SMT DEF TypeOK, StoppedInv, HolderInv, Busy, Running
  <2>4. PathInv'
    BY <2>0, SMT DEF TypeOK, PathInv, HolderInv, StoppedInv, Busy, Running
  <2>5. PidInv'
    BY <2>0 DEF TypeOK, PidInv, HolderInv, Busy
  <2> QED BY <2>1, <2>2, <2>3, <2>4, <2>5
<1> QED BY <1>1, <1>2 DEF TypeOK

\* Writing calf.pid keeps it: the file names a daemon that has yet to remove it.
LEMMA WritePidFileKeeps ==
  ASSUME HInv, NEW d \in Daemons, WritePidFile(d)
  PROVE  HInv'
<1> USE NamesAssumption DEF HInv, WritePidFile, Goto, proxyVars, Idle, Holders
<1>1. TypeOK'
  BY DEF TypeOK
<1>2. HolderInv'
  BY SMT DEF TypeOK, HolderInv, Busy, Running, StoppedInv
<1>3. StoppedInv'
  BY SMT DEF TypeOK, StoppedInv, HolderInv, Busy, Running
<1>4. PathInv'
  BY SMT DEF TypeOK, PathInv, HolderInv, StoppedInv, Busy, Running
<1>5. PidInv'
  BY DEF TypeOK, PidInv, HolderInv, Busy
<1> QED BY <1>1, <1>2, <1>3, <1>4, <1>5

\* ListenAndServe, failing or not, keeps it.
LEMMA ListenKeeps ==
  ASSUME HInv, NEW d \in Daemons, Listen(d)
  PROVE  HInv'
<1> USE NamesAssumption DEF HInv, Listen, Goto, proxyVars, Idle, Holders
<1>1. TypeOK'
  BY DEF TypeOK
<1>2. HolderInv'
  BY SMT DEF TypeOK, HolderInv, Busy, Running, StoppedInv
<1>3. StoppedInv'
  BY SMT DEF TypeOK, StoppedInv, HolderInv, Busy, Running
<1>4. PathInv'
  BY SMT DEF TypeOK, PathInv, HolderInv, StoppedInv, Busy, Running
<1>5. PidInv'
  BY SMT DEF TypeOK, PidInv, HolderInv, Busy
<1> QED BY <1>1, <1>2, <1>3, <1>4, <1>5

\* The HTTP server's closing of its port keeps it.
LEMMA HttpClosesKeeps ==
  ASSUME HInv, NEW d \in Daemons, HttpCloses(d)
  PROVE  HInv'
<1> USE NamesAssumption DEF HInv, HttpCloses, Goto, proxyVars, Idle, Holders
<1>1. TypeOK'
  BY DEF TypeOK
<1>2. HolderInv'
  BY SMT DEF TypeOK, HolderInv, Busy, Running, StoppedInv
<1>3. StoppedInv'
  BY SMT DEF TypeOK, StoppedInv, HolderInv, Busy, Running
<1>4. PathInv'
  BY SMT DEF TypeOK, PathInv, HolderInv, StoppedInv, Busy, Running
<1>5. PidInv'
  BY SMT DEF TypeOK, PidInv, HolderInv, Busy
<1> QED BY <1>1, <1>2, <1>3, <1>4, <1>5

\* The return of httpServer.Shutdown, with or without its timeout, keeps it.
LEMMA HttpReturnsKeeps ==
  ASSUME HInv, NEW d \in Daemons, HttpReturns(d)
  PROVE  HInv'
<1> USE NamesAssumption DEF HInv, HttpReturns, Goto, Idle, Holders
<1>1. TypeOK'
  BY DEF TypeOK
<1>2. HolderInv'
  BY SMT DEF TypeOK, HolderInv, Busy, Running, StoppedInv
<1>3. StoppedInv'
  BY SMT DEF TypeOK, StoppedInv, HolderInv, Busy, Running
<1>4. PathInv'
  BY SMT DEF TypeOK, PathInv, HolderInv, StoppedInv, Busy, Running
<1>5. PidInv'
  BY SMT DEF TypeOK, PidInv, HolderInv, Busy
<1> QED BY <1>1, <1>2, <1>3, <1>4, <1>5

\* Stop, once it has switchMu, keeps it: the flag goes up with nobody in listen.
LEMMA StopBeginsKeeps ==
  ASSUME HInv, NEW d \in Daemons, StopBegins(d)
  PROVE  HInv'
<1> USE NamesAssumption DEF HInv, StopBegins, mainVars, Idle, Holders
<1>1. TypeOK'
  BY DEF TypeOK
<1>2. HolderInv'
  BY SMT DEF TypeOK, HolderInv, Busy, Running, StoppedInv
<1>3. StoppedInv'
  BY SMT DEF TypeOK, StoppedInv, HolderInv, Busy, Running
<1>4. PathInv'
  BY SMT DEF TypeOK, PathInv, HolderInv, StoppedInv, Busy, Running
<1>5. PidInv'
  BY DEF TypeOK, PidInv, HolderInv, Busy
<1> QED BY <1>1, <1>2, <1>3, <1>4, <1>5

\* The shutdown of a daemon that has no proxy keeps it.
LEMMA ShutdownWithoutProxyKeeps ==
  ASSUME HInv, NEW d \in Daemons, ShutdownWithoutProxy(d)
  PROVE  HInv'
<1> USE NamesAssumption DEF HInv, ShutdownWithoutProxy, Goto, proxyVars, Idle, Holders
<1>1. TypeOK'
  BY DEF TypeOK
<1>2. HolderInv'
  BY SMT DEF TypeOK, HolderInv, Busy, Running, StoppedInv
<1>3. StoppedInv'
  BY SMT DEF TypeOK, StoppedInv, HolderInv, Busy, Running
<1>4. PathInv'
  BY SMT DEF TypeOK, PathInv, HolderInv, StoppedInv, Busy, Running
<1>5. PidInv'
  BY DEF TypeOK, PidInv, HolderInv, Busy
<1> QED BY <1>1, <1>2, <1>3, <1>4, <1>5

\* The orderly exit, which removes calf.pid, keeps it.
LEMMA ExitKeeps ==
  ASSUME HInv, NEW d \in Daemons, Exit(d)
  PROVE  HInv'
<1> USE NamesAssumption DEF HInv, Exit, Goto, Dies, Idle, Holders
<1>1. TypeOK'
  BY DEF TypeOK
<1>2. HolderInv'
  BY SMT DEF TypeOK, HolderInv, Busy, Running, StoppedInv
<1>3. StoppedInv'
  BY SMT DEF TypeOK, StoppedInv, HolderInv, Busy, Running
<1>4. PathInv'
  BY SMT DEF TypeOK, PathInv, HolderInv, StoppedInv, Busy, Running
<1>5. PidInv'
  BY DEF TypeOK, PidInv, HolderInv, Busy
<1> QED BY <1>1, <1>2, <1>3, <1>4, <1>5

\* A crash keeps it: what the daemon leaves is that of one that is lost.
LEMMA CrashKeeps ==
  ASSUME HInv, NEW d \in Daemons, Crash(d)
  PROVE  HInv'
<1> USE NamesAssumption DEF HInv, Crash, Goto, Dies, Running, Idle, Holders
<1>1. TypeOK'
  BY DEF TypeOK
<1>2. HolderInv'
  BY SMT DEF TypeOK, HolderInv, Busy, Running, StoppedInv
<1>3. StoppedInv'
  BY SMT DEF TypeOK, StoppedInv, HolderInv, Busy, Running
<1>4. PathInv'
  BY SMT DEF TypeOK, PathInv, HolderInv, StoppedInv, Busy, Running
<1>5. PidInv'
  BY DEF TypeOK, PidInv, HolderInv, Busy
<1> QED BY <1>1, <1>2, <1>3, <1>4, <1>5

\* A reclaim that takes switchMu keeps it, as it finds the stopped flag down.
LEMMA ReclaimKeeps ==
  ASSUME HInv, NEW d \in Daemons, Reclaim(d)
  PROVE  HInv'
<1> USE NamesAssumption DEF HInv, Reclaim, mainVars, Idle, Holders
<1>1. TypeOK'
  BY DEF TypeOK
<1>2. HolderInv'
  BY SMT DEF TypeOK, HolderInv, Busy, Running, StoppedInv
<1>3. StoppedInv'
  BY SMT DEF TypeOK, StoppedInv, HolderInv, Busy, Running
<1>4. PathInv'
  BY SMT DEF TypeOK, PathInv, HolderInv, StoppedInv, Busy, Running
<1>5. PidInv'
  BY DEF TypeOK, PidInv, HolderInv, Busy
<1> QED BY <1>1, <1>2, <1>3, <1>4, <1>5

\* The look at the path in Rebind keeps it.
LEMMA LookKeeps ==
  ASSUME HInv, NEW d \in Daemons, Look(d)
  PROVE  HInv'
<1> USE NamesAssumption DEF HInv, Look, OpAt, Owns, mainVars, Idle, Holders
<1>1. TypeOK'
  BY DEF TypeOK
<1>2. HolderInv'
  BY SMT DEF TypeOK, HolderInv, Busy, Running, StoppedInv
<1>3. StoppedInv'
  BY SMT DEF TypeOK, StoppedInv, HolderInv, Busy, Running
<1>4. PathInv'
  BY SMT DEF TypeOK, PathInv, HolderInv, StoppedInv, Busy, Running
<1>5. PidInv'
  BY DEF TypeOK, PidInv, HolderInv, Busy
<1> QED BY <1>1, <1>2, <1>3, <1>4, <1>5

\* Closing the listener, which unlinks the path, keeps it.
LEMMA ShutdownListenerKeeps ==
  ASSUME HInv, NEW d \in Daemons, ShutdownListener(d)
  PROVE  HInv'
<1> USE NamesAssumption DEF HInv, ShutdownListener, OpAt, mainVars, Idle, Holders
<1>1. TypeOK'
  BY DEF TypeOK
<1>2. HolderInv'
  BY SMT DEF TypeOK, HolderInv, Busy, Running, StoppedInv
<1>3. StoppedInv'
  BY SMT DEF TypeOK, StoppedInv, HolderInv, Busy, Running
<1>4. PathInv'
  BY DEF TypeOK, PathInv, HolderInv, StoppedInv, Busy, Running
<1>5. PidInv'
  BY DEF TypeOK, PidInv, HolderInv, Busy
<1> QED BY <1>1, <1>2, <1>3, <1>4, <1>5

\* Removing what is at the path keeps it.
LEMMA RemoveKeeps ==
  ASSUME HInv, NEW d \in Daemons, Remove(d)
  PROVE  HInv'
<1> USE NamesAssumption DEF HInv, Remove, OpAt, Goto, Idle, Holders
<1>1. CASE op[d].who = "stop"
  <2> USE <1>1
  <2>0. /\ op[d].at = "remove"
       /\ pc' = [pc EXCEPT ![d] = "rtstop"] /\ op' = [op EXCEPT ![d] = Idle] /\ path' = None
       /\ UNCHANGED <<told, port, pidfile, proxy, listener, stopped, live>>
    OBVIOUS
  <2> HIDE DEF Remove
  <2>1. TypeOK'
    BY <2>0 DEF TypeOK
  <2>2. HolderInv'
    BY <2>0, SMT DEF TypeOK, HolderInv, Busy, Running, StoppedInv
  <2>3. StoppedInv'
    BY <2>0, SMT DEF TypeOK, StoppedInv, HolderInv, Busy, Running
  <2>4. PathInv'
    BY <2>0 DEF TypeOK, PathInv, HolderInv, StoppedInv, Busy, Running
  <2>5. PidInv'
    BY <2>0 DEF TypeOK, PidInv, HolderInv, Busy
  <2> QED BY <2>1, <2>2, <2>3, <2>4, <2>5
<1>2. CASE op[d].who # "stop"
  <2> USE <1>2
  <2>1. TypeOK'
    BY SMT DEF TypeOK
  <2>2. HolderInv'
    BY SMT DEF TypeOK, HolderInv, Busy, Running, StoppedInv
  <2>3. StoppedInv'
    BY SMT DEF TypeOK, StoppedInv, HolderInv, Busy, Running
  <2>4. PathInv'
    BY DEF TypeOK, PathInv, HolderInv, StoppedInv, Busy, Running
  <2>5. PidInv'
    BY DEF TypeOK, PidInv, HolderInv, Busy
  <2> QED BY <2>1, <2>2, <2>3, <2>4, <2>5
<1> QED BY <1>1, <1>2 DEF TypeOK

\* Binding the path, or failing to, keeps it: the file is that of the holder of switchMu.
LEMMA BindKeeps ==
  ASSUME HInv, NEW d \in Daemons, Bind(d)
  PROVE  HInv'
<1> USE NamesAssumption DEF HInv, Bind, OpAt, ListenFails, Goto, Idle, Holders
<1>1. CASE path = None
  <2> USE <1>1
  <2>1. TypeOK'
    BY SMT DEF TypeOK
  <2>2. HolderInv'
    BY SMT DEF TypeOK, HolderInv, Busy, Running, StoppedInv
  <2>3. StoppedInv'
    BY SMT DEF TypeOK, StoppedInv, HolderInv, Busy, Running
  <2>4. PathInv'
    BY SMT DEF TypeOK, PathInv, HolderInv, StoppedInv, Busy, Running
  <2>5. PidInv'
    BY DEF TypeOK, PidInv, HolderInv, Busy
  <2> QED BY <2>1, <2>2, <2>3, <2>4, <2>5
<1>2. CASE path # None /\ op[d].who = "new"
  <2> USE <1>2
  <2>0. /\ op[d].at = "bind"
       /\ pc' = [pc EXCEPT ![d] = "ensure"] /\ op' = [op EXCEPT ![d] = Idle]
       /\ UNCHANGED <<told, port, pidfile, path, proxy, listener, stopped, live>>
    OBVIOUS
  <2> HIDE DEF Bind
  <2>1. TypeOK'
    BY <2>0 DEF TypeOK
  <2>2. HolderInv'
    BY <2>0, SMT DEF TypeOK, HolderInv, Busy, Running, StoppedInv
  <2>3. StoppedInv'
    BY <2>0, SMT DEF TypeOK, StoppedInv, HolderInv, Busy, Running
  <2>4. PathInv'
    BY <2>0, SMT DEF TypeOK, PathInv, HolderInv, StoppedInv, Busy, Running
  <2>5. PidInv'
    BY <2>0, SMT DEF TypeOK, PidInv, HolderInv, Busy
  <2> QED BY <2>1, <2>2, <2>3, <2>4, <2>5
<1>3. CASE path # None /\ op[d].who # "new"
  <2> USE <1>3
  <2>1. TypeOK'
    BY SMT DEF TypeOK
  <2>2. HolderInv'
    BY SMT DEF TypeOK, HolderInv, Busy, Running, StoppedInv
  <2>3. StoppedInv'
    BY SMT DEF TypeOK, StoppedInv, HolderInv, Busy, Running
  <2>4. PathInv'
    BY SMT DEF TypeOK, PathInv, HolderInv, StoppedInv, Busy, Running
  <2>5. PidInv'
    BY DEF TypeOK, PidInv, HolderInv, Busy
  <2> QED BY <2>1, <2>2, <2>3, <2>4, <2>5
<1> QED BY <1>1, <1>2, <1>3 DEF TypeOK

\* The end of listen, which clears the stopped flag, keeps it.
LEMMA ChmodKeeps ==
  ASSUME HInv, NEW d \in Daemons, Chmod(d)
  PROVE  HInv'
<1> USE NamesAssumption DEF HInv, Chmod, Goto, Idle, Holders
<1>1. CASE path # None /\ op[d].who = "new"
  <2> USE <1>1
  <2>0. /\ op[d].at = "chmod"
       /\ pc' = [pc EXCEPT ![d] = "ensure"] /\ op' = [op EXCEPT ![d] = Idle]
       /\ listener' = [listener EXCEPT ![d] = TRUE] /\ stopped' = [stopped EXCEPT ![d] = FALSE]
       /\ proxy' = [proxy EXCEPT ![d] = TRUE] /\ UNCHANGED <<told, port, pidfile, path, live>>
    OBVIOUS
  <2> HIDE DEF Chmod
  <2>1. TypeOK'
    BY <2>0 DEF TypeOK
  <2>2. HolderInv'
    BY <2>0, SMT DEF TypeOK, HolderInv, Busy, Running, StoppedInv
  <2>3. StoppedInv'
    BY <2>0, SMT DEF TypeOK, StoppedInv, HolderInv, Busy, Running
  <2>4. PathInv'
    BY <2>0, SMT DEF TypeOK, PathInv, HolderInv, StoppedInv, Busy, Running
  <2>5. PidInv'
    BY <2>0 DEF TypeOK, PidInv, HolderInv, Busy
  <2> QED BY <2>1, <2>2, <2>3, <2>4, <2>5
<1>2. CASE path # None /\ op[d].who # "new"
  <2> USE <1>2
  <2>0. /\ op[d].at = "chmod"
       /\ op' = [op EXCEPT ![d] = Idle]
       /\ listener' = [listener EXCEPT ![d] = TRUE] /\ stopped' = [stopped EXCEPT ![d] = FALSE]
       /\ proxy' = [proxy EXCEPT ![d] = TRUE] /\ UNCHANGED <<pc, told, port, pidfile, path, live>>
    OBVIOUS
  <2> HIDE DEF Chmod
  <2>1. TypeOK'
    BY <2>0 DEF TypeOK
  <2>2. HolderInv'
    BY <2>0, SMT DEF TypeOK, HolderInv, Busy, Running, StoppedInv
  <2>3. StoppedInv'
    BY <2>0, SMT DEF TypeOK, StoppedInv, HolderInv, Busy, Running
  <2>4. PathInv'
    BY <2>0, SMT DEF TypeOK, PathInv, HolderInv, StoppedInv, Busy, Running
  <2>5. PidInv'
    BY <2>0 DEF TypeOK, PidInv, HolderInv, Busy
  <2> QED BY <2>1, <2>2, <2>3, <2>4, <2>5
<1>3. CASE path = None
  <2> USE <1>3
  <2>0. /\ op[d].at = "chmod"
       /\ op' = [op EXCEPT ![d] = [who |-> op[d].who, at |-> "undo"]]
       /\ UNCHANGED <<pc, told, port, pidfile, path, proxy, listener, stopped, live>>
    BY DEF OpAt
  <2> HIDE DEF Chmod
  <2>1. TypeOK'
    BY <2>0 DEF TypeOK
  <2>2. HolderInv'
    BY <2>0, SMT DEF TypeOK, HolderInv, Busy, Running, StoppedInv
  <2>3. StoppedInv'
    BY <2>0, SMT DEF TypeOK, StoppedInv, HolderInv, Busy, Running
  <2>4. PathInv'
    BY <2>0 DEF TypeOK, PathInv, HolderInv, StoppedInv, Busy, Running
  <2>5. PidInv'
    BY <2>0 DEF TypeOK, PidInv, HolderInv, Busy
  <2> QED BY <2>1, <2>2, <2>3, <2>4, <2>5
<1> QED BY <1>1, <1>2, <1>3 DEF TypeOK

\* The cleanup of listen after a Chmod that failed keeps it.
LEMMA UndoKeeps ==
  ASSUME HInv, NEW d \in Daemons, Undo(d)
  PROVE  HInv'
<1> USE NamesAssumption DEF HInv, Undo, OpAt, ListenFails, Goto, Idle, Holders
<1>1. CASE op[d].at = "undo"
  <2> USE <1>1
  <2>0. /\ op' = [op EXCEPT ![d] = [who |-> op[d].who, at |-> "undone"]] /\ path' = None
       /\ UNCHANGED <<pc, told, port, pidfile, proxy, listener, stopped, live>>
    OBVIOUS
  <2> HIDE DEF Undo
  <2>1. TypeOK'
    BY <2>0 DEF TypeOK
  <2>2. HolderInv'
    BY <2>0, SMT DEF TypeOK, HolderInv, Busy, Running, StoppedInv
  <2>3. StoppedInv'
    BY <2>0, SMT DEF TypeOK, StoppedInv, HolderInv, Busy, Running
  <2>4. PathInv'
    BY <2>0 DEF PathInv
  <2>5. PidInv'
    BY <2>0 DEF TypeOK, PidInv, HolderInv, Busy
  <2> QED BY <2>1, <2>2, <2>3, <2>4, <2>5
<1>2. CASE op[d].at # "undo" /\ op[d].who = "new"
  <2> USE <1>2
  <2>0. /\ op[d].at = "undone" /\ path' = None
       /\ pc' = [pc EXCEPT ![d] = "ensure"] /\ op' = [op EXCEPT ![d] = Idle]
       /\ UNCHANGED <<told, port, pidfile, proxy, listener, stopped, live>>
    OBVIOUS
  <2> HIDE DEF Undo
  <2>1. TypeOK'
    BY <2>0 DEF TypeOK
  <2>2. HolderInv'
    BY <2>0, SMT DEF TypeOK, HolderInv, Busy, Running, StoppedInv
  <2>3. StoppedInv'
    BY <2>0, SMT DEF TypeOK, StoppedInv, HolderInv, Busy, Running
  <2>4. PathInv'
    BY <2>0 DEF PathInv
  <2>5. PidInv'
    BY <2>0 DEF TypeOK, PidInv, HolderInv, Busy
  <2> QED BY <2>1, <2>2, <2>3, <2>4, <2>5
<1>3. CASE op[d].at # "undo" /\ op[d].who # "new"
  <2> USE <1>3
  <2>0. /\ op[d].at = "undone" /\ path' = None /\ op' = [op EXCEPT ![d] = Idle]
       /\ UNCHANGED <<pc, told, port, pidfile, proxy, listener, stopped, live>>
    OBVIOUS
  <2> HIDE DEF Undo
  <2>1. TypeOK'
    BY <2>0 DEF TypeOK
  <2>2. HolderInv'
    BY <2>0, SMT DEF TypeOK, HolderInv, Busy, Running, StoppedInv
  <2>3. StoppedInv'
    BY <2>0, SMT DEF TypeOK, StoppedInv, HolderInv, Busy, Running
  <2>4. PathInv'
    BY <2>0 DEF PathInv
  <2>5. PidInv'
    BY <2>0 DEF TypeOK, PidInv, HolderInv, Busy
  <2> QED BY <2>1, <2>2, <2>3, <2>4, <2>5
<1> QED BY <1>1, <1>2, <1>3

\* A signal to a daemon keeps it.
LEMMA QuitKeeps ==
  ASSUME HInv, NEW d \in Daemons, Quit(d)
  PROVE  HInv'
<1> USE NamesAssumption DEF HInv, Quit, proxyVars, Idle, Holders
<1>1. TypeOK'
  BY DEF TypeOK
<1>2. HolderInv'
  BY DEF TypeOK, HolderInv, Busy, Running, StoppedInv
<1>3. StoppedInv'
  BY DEF TypeOK, StoppedInv, HolderInv, Busy, Running
<1>4. PathInv'
  BY DEF TypeOK, PathInv, HolderInv, StoppedInv, Busy, Running
<1>5. PidInv'
  BY DEF TypeOK, PidInv, HolderInv, Busy
<1> QED BY <1>1, <1>2, <1>3, <1>4, <1>5

\* Another program on the port keeps it.
LEMMA OtherBindsKeeps == HInv /\ OtherBinds => HInv'
  BY SMT DEF HInv, OtherBinds, proxyVars, TypeOK, HolderInv, StoppedInv, PathInv, PidInv, Busy, Running

\* A step that changes nothing keeps it.
LEMMA StutterKeeps == HInv /\ UNCHANGED vars => HInv'
  BY SMT DEF HInv, vars, TypeOK, HolderInv, StoppedInv, PathInv, PidInv, Busy, Running

\* Every step keeps it.
LEMMA StepKeeps == HInv /\ [Next]_vars => HInv'
<1> SUFFICES ASSUME HInv, [Next]_vars PROVE HInv'
  OBVIOUS
<1>1. CASE UNCHANGED vars
  BY <1>1, StutterKeeps
<1>2. CASE OtherBinds
  BY <1>2, OtherBindsKeeps
<1>3. ASSUME NEW d \in Daemons, Launch(d) \/ Reclaim(d) \/ Quit(d) \/ Crash(d) PROVE HInv'
  BY <1>3, LaunchKeeps, ReclaimKeeps, QuitKeeps, CrashKeeps
<1>4. ASSUME NEW d \in Daemons, RunStep(d) PROVE HInv'
  BY <1>4, EnsurePortKeeps, ReclaimsKeeps, EnsureFailsKeeps, AwaitPortKeeps, WritePidFileKeeps,
     ListenKeeps, HttpClosesKeeps, HttpReturnsKeeps, StopBeginsKeeps, ShutdownWithoutProxyKeeps,
     ExitKeeps DEF RunStep
<1>5. ASSUME NEW d \in Daemons, ProxyStep(d) PROVE HInv'
  BY <1>5, LookKeeps, ShutdownListenerKeeps, RemoveKeeps, BindKeeps, ChmodKeeps, UndoKeeps DEF ProxyStep
<1> QED BY <1>1, <1>2, <1>3, <1>4, <1>5 DEF Next

\* The inductive invariant: who holds switchMu, when the stopped flag is up, whose the files
\* are (dockerSocketProxy, Core.New, Core.Shutdown and run), for any number of daemons.
THEOREM Invariance == Spec => []HInv
  BY InitHInv, StepKeeps, PTL DEF Spec

\* It implies that orderly exits leave no file behind.
LEMMA HInvNothingLeft == HInv => NothingLeft
  BY NamesAssumption DEF HInv, TypeOK, PathInv, PidInv, NothingLeft

\* Orderly exits leave neither calf.pid nor a socket file or an older release's link behind,
\* whichever of any number of daemons removed whose file.
THEOREM NothingLeftAlways == Spec => []NothingLeft
  BY Invariance, HInvNothingLeft, PTL

\* listen clears the stopped flag with its last step, and only a holder that is not Stop gets
\* there.
LEMMA StepKeepsStopped ==
  ASSUME HInv, [Next]_vars
  PROVE  \A e \in Daemons : stopped[e] => stopped'[e]
<1>1. ASSUME NEW d \in Daemons, Chmod(d) PROVE \A e \in Daemons : stopped[e] => stopped'[e]
  <2>1. op[d].at = "chmod" /\ (UNCHANGED stopped \/ stopped' = [stopped EXCEPT ![d] = FALSE])
    BY <1>1 DEF Chmod
  <2>2. Busy(d) /\ op[d].who # "stop"
    BY <2>1 DEF HInv, HolderInv, Busy
  <2>3. ~stopped[d]
    BY <2>2 DEF HInv, StoppedInv
  <2> QED BY <2>1, <2>3 DEF HInv, TypeOK
<1>2. ASSUME NEW d \in Daemons, StopBegins(d) PROVE \A e \in Daemons : stopped[e] => stopped'[e]
  BY <1>2 DEF HInv, TypeOK, StopBegins
<1>3. (\E d \in Daemons : Chmod(d) \/ StopBegins(d)) \/ UNCHANGED stopped
  BY DEF Next, vars, Launch, RunStep, ProxyStep, Reclaim, Quit, Crash, OtherBinds, EnsurePort, Reclaims,
         EnsureFails, AwaitPort, WritePidFile, Listen, HttpCloses, HttpReturns, ShutdownWithoutProxy, Exit,
         Look, ShutdownListener, Remove, Bind, Undo, Dies, proxyVars
<1> QED BY <1>1, <1>2, <1>3

\* A proxy that dockerSocketProxy.Stop has closed stays closed: no reclaim, start or stop
\* handler that is under way brings its listener back.
THEOREM StopIsFinalAlways == Spec => StopIsFinal
<1>1. HInv /\ [Next]_vars => [\A d \in Daemons : stopped[d] => stopped'[d]]_vars
  BY StepKeepsStopped
<1> QED BY <1>1, Invariance, PTL DEF Spec, StopIsFinal

-----------------------------------------------------------------------------
(* Supervisor.                                                             *)

AppRecords ==
  [current : Daemons \cup {None}, attempts : Nat, timer : BOOLEAN, lost : Nat,
   phase : {"boot", "wait", "ready"},
   restart : [at : {"idle", "exit", "start"}, of : Daemons \cup {None}],
   stop : [at : {"no", "hide", "exit", "gone"}, of : Daemons \cup {None}]]

\* What the app waits for is a process, and the restarts it has scheduled are attempts.
AppInv ==
  /\ app \in AppRecords
  /\ child \in [Daemons -> {"none", "starting", "attached", "reaped"}]
  /\ young \subseteq Daemons /\ chances \in Nat /\ plan \in Plans
  /\ chances <= app.attempts /\ chances <= MaxRestarts
  /\ app.restart.at = "exit" => app.restart.of \in Daemons
  /\ app.stop.at = "exit" => app.stop.of \in Daemons

\* The processes that the app may start are daemons.
LEMMA ChildrenAreDaemons == plan \in Plans => Children \subseteq Daemons /\ Fresh \subseteq Daemons
<1> SUFFICES ASSUME plan \in Plans PROVE Children \subseteq Daemons /\ Fresh \subseteq Daemons
  OBVIOUS
<1>1. plan.app \in Seq(Daemons)
  BY PlansAssumption
<1>2. \A i \in DOMAIN plan.app : plan.app[i] \in Daemons
  BY <1>1, SMT
<1> QED BY <1>2 DEF Children, Fresh

-----------------------------------------------------------------------------
(* What the app does to daemons is what Handover lets happen to them.      *)

\* A signal from the app is a signal or a crash of Handover.
LEMMA TermIsAStep ==
  ASSUME HInv, NEW d \in Daemons, Term(d)
  PROVE  [Next]_vars
<1>1. CASE pc[d] \in {"listen", "serving"}
  <2>1. told' = [told EXCEPT ![d] = TRUE] /\ UNCHANGED <<pc, port, pidfile, proxyVars>>
    BY <1>1 DEF Term
  <2>2. CASE told[d]
    <3>1. told' = told
      BY <2>1, <2>2 DEF HInv, TypeOK
    <3> QED BY <3>1, <2>1 DEF vars, proxyVars
  <2>3. CASE ~told[d]
    <3>1. Quit(d)
      BY <1>1, <2>1, <2>3 DEF Quit
    <3> QED BY <3>1 DEF Next
  <2> QED BY <2>2, <2>3
<1>2. CASE pc[d] \in {"new", "ensure", "lsof", "term", "pid"}
  <2>1. Crash(d)
    BY <1>2 DEF Term, Crash, Running
  <2> QED BY <2>1 DEF Next
<1>3. CASE pc[d] \notin {"listen", "serving", "new", "ensure", "lsof", "term", "pid"}
  BY <1>3 DEF Term
<1> QED BY <1>1, <1>2, <1>3

\* A process that the app starts is a launch of Handover.
LEMMA SpawnIsAStep ==
  ASSUME plan \in Plans, NEW d \in Fresh, Spawn(d)
  PROVE  Next
  BY ChildrenAreDaemons DEF Spawn, Next

\* So is the one that a restart starts.
LEMMA RestartStartsIsAStep ==
  ASSUME plan \in Plans, NEW a, RestartStarts(a)
  PROVE  [Next]_vars
  BY SpawnIsAStep DEF RestartStarts, SpawnFails

\* So is the one of _startDaemon, if it starts any.
LEMMA StartDaemonIsAStep == plan \in Plans /\ StartDaemon => [Next]_vars
  BY SpawnIsAStep DEF StartDaemon, SpawnFails

\* Every step of the app is a step of Handover, or leaves its variables alone.
LEMMA AppStepIsAStep ==
  ASSUME HInv, AppInv, AppStep
  PROVE  [Next]_vars
<1>1. app.current \in Daemons \cup {None} /\ plan \in Plans
  BY DEF AppInv, AppRecords
<1>2. ASSUME NEW d \in Children, Spawned(d) \/ StaysUp(d) \/ Exited(d) PROVE [Next]_vars
  BY <1>2 DEF Spawned, StaysUp, Exited
<1>3. CASE Boot \/ TimerFires
  BY <1>1, <1>3, StartDaemonIsAStep DEF Boot, TimerFires
<1>4. CASE DaemonReady \/ StopDaemon \/ StopEnds \/ AppDies
  BY <1>4 DEF DaemonReady, StopDaemon, StopEnds, AppDies
<1>5. CASE RestartDaemon
  <2>1. CASE app.current = None
    BY <1>1, <1>5, <2>1, RestartStartsIsAStep DEF RestartDaemon
  <2>2. CASE app.current # None
    BY <1>1, <1>5, <2>2, TermIsAStep DEF RestartDaemon
  <2> QED BY <2>1, <2>2
<1>6. CASE RestartGoesOn
  BY <1>1, <1>6, RestartStartsIsAStep DEF RestartGoesOn
<1>7. CASE StopKills
  BY <1>1, <1>7, TermIsAStep DEF StopKills
<1>8. CASE KillTimeout
  <2>1. \E d \in Daemons : Crash(d)
    BY <1>8 DEF KillTimeout, AppInv
  <2> QED BY <2>1 DEF Next
<1> QED BY <1>2, <1>3, <1>4, <1>5, <1>6, <1>7, <1>8 DEF AppStep

\* So is every step of the daemons, the watch of the parent among them.
LEMMA DaemonStepIsAStep ==
  ASSUME AppInv, DaemonStep
  PROVE  Next
<1>1. plan \in Plans /\ plan.free \subseteq Daemons
  BY PlansAssumption DEF AppInv
<1> QED BY <1>1, ChildrenAreDaemons DEF DaemonStep, WatchParent, Next

-----------------------------------------------------------------------------
(* The app's own state.                                                    *)

\* The invariant contains the types.
LEMMA AppTypes ==
  ASSUME NEW a \in AppRecords
  PROVE  /\ a.current \in Daemons \cup {None} /\ a.attempts \in Nat
         /\ a.timer \in BOOLEAN /\ a.lost \in Nat /\ a.phase \in {"boot", "wait", "ready"}
         /\ a.restart.at \in {"idle", "exit", "start"} /\ a.restart.of \in Daemons \cup {None}
         /\ a.stop.at \in {"no", "hide", "exit", "gone"} /\ a.stop.of \in Daemons \cup {None}
  BY DEF AppRecords

\* Before the app has started anything the invariant holds.
LEMMA InitAppInv == AppInit => AppInv
  BY MaxRestartsAssumption, SMTT(20) DEF AppInit, AppInv, AppRecords, At

\* A start of a process keeps the type of what the app knows of each.
LEMMA ChildKept ==
  ASSUME AppInv, StartDaemon
  PROVE  child' \in [Daemons -> {"none", "starting", "attached", "reaped"}]
  BY ChildrenAreDaemons DEF AppInv, StartDaemon, SpawnFails, Spawn

\* The return of Process.start keeps the invariant.
LEMMA SpawnedKeeps ==
  ASSUME AppInv, NEW d \in Children, Spawned(d), UNCHANGED plan
  PROVE  AppInv'
<1>1. d \in Daemons
  BY ChildrenAreDaemons DEF AppInv
<1>2. /\ app' \in AppRecords /\ app'.attempts = app.attempts /\ app'.stop = app.stop
      /\ app'.restart \in {app.restart, At("idle", None)}
  BY <1>1 DEF Spawned, AppInv, AppRecords, At
<1> QED BY <1>1, <1>2, SMT DEF Spawned, AppInv, At

\* The thirty-second timer keeps it: the counters go back together, or neither does.
LEMMA StaysUpKeeps ==
  ASSUME AppInv, NEW d \in Children, StaysUp(d), UNCHANGED plan
  PROVE  AppInv'
<1>1. /\ app' \in AppRecords /\ app'.stop = app.stop /\ app'.restart = app.restart
      /\ app'.attempts = IF app.current = d THEN 0 ELSE app.attempts
  BY DEF StaysUp, AppInv, AppRecords
<1> QED BY <1>1, MaxRestartsAssumption, SMT DEF StaysUp, AppInv

\* The exit of a process keeps it: a restart is scheduled only within the budget.
LEMMA ExitedKeeps ==
  ASSUME AppInv, NEW d \in Children, Exited(d), UNCHANGED plan
  PROVE  AppInv'
<1> DEFINE a == [app EXCEPT !.current = None, !.attempts = @ + 1]
<1>1. d \in Daemons
  BY ChildrenAreDaemons DEF AppInv
<1>2. a \in AppRecords /\ a.stop = app.stop /\ a.restart = app.restart /\ a.attempts = app.attempts + 1
  <2>1. app \in AppRecords /\ app.attempts + 1 \in Nat
    BY AppTypes, SMT DEF AppInv
  <2> QED BY <2>1 DEF AppRecords
<1>3. child' \in [Daemons -> {"none", "starting", "attached", "reaped"}] /\ UNCHANGED <<young, plan>>
  BY <1>1 DEF Exited, AppInv
<1>4. CASE app' = app /\ chances' = chances
  BY <1>3, <1>4 DEF AppInv
<1>5. CASE app' = [app EXCEPT !.current = None] /\ chances' = chances
  <2>1. app' \in AppRecords /\ app'.stop = app.stop /\ app'.restart = app.restart /\ app'.attempts = app.attempts
    BY <1>5 DEF AppInv, AppRecords
  <2> QED BY <1>3, <1>5, <2>1 DEF AppInv
<1>6. CASE app' = a /\ chances' = chances
  <2>1. app.attempts \in Nat /\ chances \in Nat
    BY AppTypes DEF AppInv
  <2> QED BY <1>2, <1>3, <1>6, <2>1, SMT DEF AppInv
<1>7. CASE a.attempts <= MaxRestarts /\ app' = Scheduled(a) /\ chances' = chances + 1
  <2> HIDE DEF a
  <2>1. Scheduled(a) \in AppRecords /\ Scheduled(a).stop = a.stop /\ Scheduled(a).restart = a.restart
        /\ Scheduled(a).attempts = a.attempts
    <3>1. a.lost + (IF a.timer THEN 1 ELSE 0) \in Nat
      BY <1>2, AppTypes, SMT
    <3> QED BY <1>2, <3>1 DEF Scheduled, AppRecords
  <2>2. app.attempts \in Nat /\ chances \in Nat
    BY AppTypes DEF AppInv
  <2> QED BY <1>2, <1>3, <1>7, <2>1, <2>2, MaxRestartsAssumption, SMT DEF AppInv
<1> QED BY <1>4, <1>5, <1>6, <1>7 DEF Exited

\* The first start keeps it.
LEMMA BootKeeps ==
  ASSUME AppInv, Boot, UNCHANGED plan
  PROVE  AppInv'
<1>1. app' \in AppRecords /\ app'.stop = app.stop /\ app'.restart = app.restart /\ app'.attempts = app.attempts
  BY DEF Boot, AppInv, AppRecords
<1> QED BY <1>1, ChildKept DEF Boot, AppInv

\* A daemon found ready keeps it.
LEMMA DaemonReadyKeeps ==
  ASSUME AppInv, DaemonReady, UNCHANGED plan
  PROVE  AppInv'
<1>1. app' \in AppRecords /\ app'.stop = app.stop /\ app'.restart = app.restart /\ app'.attempts = app.attempts
  BY DEF DaemonReady, AppInv, AppRecords
<1> QED BY <1>1 DEF DaemonReady, AppInv

\* A restart timer keeps it.
LEMMA TimerFiresKeeps ==
  ASSUME AppInv, TimerFires, UNCHANGED plan
  PROVE  AppInv'
<1>1. app' \in AppRecords /\ app'.stop = app.stop /\ app'.restart = app.restart /\ app'.attempts = app.attempts
  <2>1. app \in AppRecords /\ (app.lost > 0 => app.lost - 1 \in Nat)
    BY AppTypes, SMT DEF AppInv
  <2>2. CASE app' = [app EXCEPT !.timer = FALSE]
    BY <2>1, <2>2 DEF AppRecords
  <2>3. CASE app.lost > 0 /\ app' = [app EXCEPT !.lost = app.lost - 1]
    BY <2>1, <2>3 DEF AppRecords
  <2> QED BY <2>2, <2>3 DEF TimerFires
<1> QED BY <1>1, ChildKept DEF TimerFires, AppInv

\* The start at the end of a restart keeps it.
LEMMA RestartStartsKeeps ==
  ASSUME AppInv, NEW a \in AppRecords, RestartStarts(a)
  PROVE  /\ app' \in AppRecords /\ app'.stop = a.stop /\ app'.attempts = a.attempts
         /\ app'.restart.at # "exit"
         /\ child' \in [Daemons -> {"none", "starting", "attached", "reaped"}]
<1>1. CASE SpawnFails /\ app' = [a EXCEPT !.restart = At("idle", None)]
  BY <1>1 DEF SpawnFails, AppInv, AppRecords, At
<1>2. ASSUME NEW d \in Fresh, Spawn(d), app' = [a EXCEPT !.restart = At("start", d)]
      PROVE  /\ app' \in AppRecords /\ app'.stop = a.stop /\ app'.attempts = a.attempts
             /\ app'.restart.at # "exit"
             /\ child' \in [Daemons -> {"none", "starting", "attached", "reaped"}]
  <2>1. d \in Daemons
    BY ChildrenAreDaemons DEF AppInv
  <2>2. child' \in [Daemons -> {"none", "starting", "attached", "reaped"}]
    BY <1>2, <2>1 DEF Spawn, AppInv
  <2> QED BY <1>2, <2>1, <2>2 DEF AppRecords, At
<1> QED BY <1>1, <1>2 DEF RestartStarts

\* A restart asked for by the user keeps it: both counters go to zero.
LEMMA RestartDaemonKeeps ==
  ASSUME AppInv, RestartDaemon, UNCHANGED plan
  PROVE  AppInv'
<1> DEFINE a == [app EXCEPT !.timer = FALSE, !.attempts = 0, !.current = None]
<1>1. a \in AppRecords /\ a.stop = app.stop /\ a.attempts = 0
  BY DEF AppInv, AppRecords
<1>2. app.current \in Daemons \cup {None}
  BY DEF AppInv, AppRecords
<1>3. CASE app.current = None
  <2>1. RestartStarts(a) /\ chances' = 0 /\ UNCHANGED young
    BY <1>3 DEF RestartDaemon
  <2> HIDE DEF a
  <2> QED BY <1>1, <2>1, RestartStartsKeeps, MaxRestartsAssumption, SMT DEF AppInv
<1>4. CASE app.current # None
  <2>1. app' = [a EXCEPT !.restart = At("exit", app.current)] /\ UNCHANGED <<child, young>> /\ chances' = 0
    BY <1>4 DEF RestartDaemon
  <2> HIDE DEF a
  <2>2. /\ app' \in AppRecords /\ app'.stop = app.stop /\ app'.attempts = 0
        /\ app'.restart = At("exit", app.current)
    BY <1>1, <1>2, <2>1 DEF AppRecords, At
  <2> QED BY <1>2, <1>4, <2>1, <2>2, MaxRestartsAssumption, SMT DEF AppInv, At
<1> QED BY <1>3, <1>4

\* A restart whose old process has ended keeps it.
LEMMA RestartGoesOnKeeps ==
  ASSUME AppInv, RestartGoesOn, UNCHANGED plan
  PROVE  AppInv'
  BY RestartStartsKeeps DEF RestartGoesOn, AppInv

\* The steps of _stopDaemon and the death of the app keep it.
LEMMA StopKeeps ==
  ASSUME AppInv, StopDaemon \/ StopKills \/ StopEnds \/ AppDies, UNCHANGED plan
  PROVE  AppInv'
<1>1. app.current \in Daemons \cup {None}
  BY DEF AppInv, AppRecords
<1>2. /\ app' \in AppRecords /\ app'.restart = app.restart /\ app'.attempts = app.attempts
      /\ app'.stop \in {At("hide", None), At("gone", None)} \cup {At("exit", d) : d \in Daemons}
  <2>1. app \in AppRecords
    BY DEF AppInv
  <2>2. CASE StopDaemon
    BY <2>1, <2>2 DEF StopDaemon, AppRecords, At
  <2>3. CASE StopEnds \/ AppDies
    BY <2>1, <2>3, SMT DEF StopEnds, AppDies, AppRecords, At
  <2>4. CASE StopKills /\ app.current = None
    BY <2>1, <2>4, SMT DEF StopKills, AppRecords, At
  <2>5. CASE StopKills /\ app.current # None
    <3>1. app' = [app EXCEPT !.stop = At("exit", app.current), !.current = None]
      BY <2>5 DEF StopKills
    <3> QED BY <1>1, <2>1, <2>5, <3>1 DEF AppRecords, At
  <2> QED BY <2>2, <2>3, <2>4, <2>5
<1>3. UNCHANGED <<child, young, chances>>
  BY DEF StopDaemon, StopKills, StopEnds, AppDies
<1> QED BY <1>2, <1>3, SMT DEF AppInv, At

\* Every step of the app keeps it.
LEMMA AppStepKeeps ==
  ASSUME AppInv, [SupervisedNext]_allVars
  PROVE  AppInv'
<1>1. CASE UNCHANGED appVars /\ UNCHANGED plan
  BY <1>1 DEF AppInv, appVars
<1>2. CASE AppStep /\ UNCHANGED plan
  BY <1>1, <1>2, SpawnedKeeps, StaysUpKeeps, ExitedKeeps, BootKeeps, DaemonReadyKeeps, TimerFiresKeeps,
     RestartDaemonKeeps, RestartGoesOnKeeps, StopKeeps DEF AppStep, KillTimeout
<1> QED BY <1>1, <1>2 DEF SupervisedNext, allVars, appVars

-----------------------------------------------------------------------------
(* The theorems.                                                           *)

\* Every step of the composition keeps it and the invariant of the hand-over.
LEMMA SupervisedStepKeeps ==
  ASSUME HInv, AppInv, [SupervisedNext]_allVars
  PROVE  [Next]_vars /\ HInv' /\ AppInv'
<1>1. [Next]_vars
  BY AppStepIsAStep, DaemonStepIsAStep DEF SupervisedNext, allVars
<1> QED BY <1>1, StepKeeps, AppStepKeeps

\* The invariants of Handover and of the app (ui/lib/main.dart) hold together.
THEOREM SupervisedInvariance == SupervisedSpec => [](HInv /\ AppInv)
<1>1. AppInit => HInv /\ AppInv
  BY InitHInv, InitAppInv DEF AppInit
<1> QED BY <1>1, SupervisedStepKeeps, PTL DEF SupervisedSpec

\* Whatever the app starts, restarts, signals and kills, the daemons behave as Handover says:
\* what is proved of it holds under the app too.
THEOREM SupervisedIsHandover == SupervisedSpec => Spec
<1>1. AppInit => Init
  BY DEF AppInit
<1> QED BY <1>1, SupervisedInvariance, SupervisedStepKeeps, PTL DEF SupervisedSpec, Spec

\* The orderly exits of the app's daemons and of others leave no file behind.
THEOREM SupervisedNothingLeft == SupervisedSpec => []NothingLeft
  BY SupervisedIsHandover, NothingLeftAlways

\* For any limit _maxDaemonRestarts and any number of processes, pending timers and overlapping
\* starts: no more restarts are scheduled in a row than the limit.
THEOREM CrashLoopEndsAlways == SupervisedSpec => []CrashLoopEnds
<1>1. AppInv => CrashLoopEnds
  BY DEF AppInv, CrashLoopEnds
<1> QED BY <1>1, SupervisedInvariance, PTL

\* The types of the composed state.
THEOREM SupervisedTypes == SupervisedSpec => []AppTypeOK
<1>1. HInv /\ AppInv => AppTypeOK
  BY DEF HInv, AppInv, AppRecords, AppTypeOK
<1> QED BY <1>1, SupervisedInvariance, PTL

\* After _stopDaemon no timer and no restart that waited starts another daemon.
THEOREM QuitIsFinalAlways == SupervisedSpec => QuitIsFinal
<1>1. ASSUME HInv, AppInv, [SupervisedNext]_allVars, Quitting, NEW e \in Daemons, child[e] = "none"
      PROVE  child'[e] = "none"
  <2>1. \A d \in Fresh : ~Spawn(d)
    BY <1>1 DEF Spawn
  <2>2. CASE \E d \in Children : Spawned(d) \/ Exited(d)
    BY <1>1, <2>2, ChildrenAreDaemons DEF Spawned, Exited, AppInv
  <2>3. CASE UNCHANGED child
    BY <1>1, <2>3
  <2> QED BY <1>1, <2>1, <2>2, <2>3
       DEF SupervisedNext, AppStep, StaysUp, Boot, DaemonReady, TimerFires, RestartDaemon, RestartGoesOn,
           RestartStarts, StartDaemon, SpawnFails, StopDaemon, StopKills, StopEnds, KillTimeout, AppDies,
           allVars, appVars
<1>2. HInv /\ AppInv /\ [SupervisedNext]_allVars =>
        [Quitting => \A d \in Daemons : child[d] = "none" => child'[d] = "none"]_allVars
  BY <1>1
<1> QED BY <1>2, SupervisedInvariance, PTL DEF SupervisedSpec, QuitIsFinal

=============================================================================
