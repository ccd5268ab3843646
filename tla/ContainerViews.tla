--------------------------- MODULE ContainerViews ---------------------------
(***************************************************************************)
(* What follows the container list (ContainerList): the ::1 listeners and  *)
(* their conflicts (backend/internal/runtime/localhost_proxy.go), the host *)
(* port forwards in gvproxy (watchPortProxies and syncGvproxyForwards in   *)
(* krunkit_darwin.go), and the statistics history                          *)
(* (backend/internal/daemon/stats_sampler.go, stats_history.go), while the *)
(* engine is stopped and started.                                          *)
(*                                                                         *)
(* A container stands for the one port it publishes.  The history of a     *)
(* container is that it has samples.  gvproxy lives and dies with the VM.  *)
(***************************************************************************)
EXTENDS ContainerList, FiniteSets

CONSTANTS Sampler,       \* StartStatsSampler
          Watchers       \* goroutines of watchPortProxies, one for each start

ASSUME CallersAre == Callers = {Reader, Sampler} \cup Watchers /\ Reader # Sampler /\ {Reader, Sampler} \cap Watchers = {}

VARIABLES
  listeners,  \* localhostProxies.listeners
  conflicts,  \* localhostProxies.conflicts
  resync,     \* proxyResync
  held,       \* ports on which another program listens on ::1
  gv,         \* what gvproxy forwards
  forwarded,  \* forwardedPorts
  refused,    \* those of them that gvproxy could not bind (history variable)
  forwarder,  \* who holds forwardMu, and where in syncGvproxyForwards
  watcher,    \* the watcher whose context is not cancelled
  engine,     \* "up", "kill" and "reset" in ForceStop, "down", "boot" in Start
  hist,       \* hist[c]: byID has samples of c
  todo,       \* containers the sampler has still to ask about
  sample      \* the container whose statistics it has read and not yet appended

portVars == <<listeners, conflicts, resync, held>>
gvVars == <<gv, forwarded, refused, forwarder>>
engineVars == <<watcher, engine>>
statVars == <<hist, todo, sample>>
vars == <<listVars, up, portVars, gvVars, engineVars, statVars>>

Unlocked == [by |-> None, at |-> "free"]

TypeOK ==
  /\ ListTypeOK
  /\ listeners \subseteq Containers /\ conflicts \subseteq Containers /\ held \subseteq Containers
  /\ resync \in BOOLEAN
  /\ gv \subseteq Containers /\ forwarded \subseteq Containers /\ refused \subseteq forwarded
  /\ forwarder \in [by : Watchers \cup {None}, at : {"free", "drop", "add"}]
  /\ watcher \in Watchers \cup {None}
  /\ engine \in {"up", "kill", "reset", "down", "boot"}
  /\ hist \in [Containers -> BOOLEAN] /\ todo \subseteq Containers
  /\ sample \in Containers \cup {None}

\* The daemon has just attached to a VM or started one; gvproxy may have forwards of an
\* earlier daemon.
Init ==
  /\ ListInit
  /\ listeners = {} /\ conflicts = {} /\ resync = TRUE
  /\ held = {}
  /\ gv \in SUBSET Containers /\ forwarded = {} /\ refused = {} /\ forwarder = Unlocked
  /\ watcher = CHOOSE w \in Watchers : TRUE
  /\ engine = "up"
  /\ hist = [c \in Containers |-> FALSE] /\ todo = {} /\ sample = None

\* setReservedPorts: containers that publish the port of the daemon's API.
Reserved == left.reserved

\* The state of a container in a list, and publishedTCPPorts of a list.
Listed(n, c) == IF n = 0 THEN "gone" ELSE past[n][c]
Published(n) == {c \in Containers : Listed(n, c) = "run"}

-----------------------------------------------------------------------------
(* localhostProxies.                                                       *)

\* Not in the code: only adds listeners.
SyncAdds(ports, force) ==
  LET bound == listeners \cup ((ports \ Reserved) \ held)
  IN /\ listeners' = bound
     /\ conflicts' = conflicts \ bound

\* The ports of which findLocalhostPortBlocker may say that gvproxy has them: when another
\* program has the port too, lsof names one of the two.
HeldByForwarder(blocked) == SUBSET (blocked \cap gv)

\* sync under its mutex: closes what is not wanted and binds what is missing.  A port that
\* gvproxy has bound is covered.
\* A conflict goes when its port is bound or covered, or when a listener of its port goes.
Sync(ports, force) ==
  LET kept == IF force THEN {} ELSE listeners \cap ports
      told == IF force THEN {} ELSE conflicts \ (listeners \ ports)
      missing == ports \ (kept \cup Reserved)
      blocked == missing \cap held
  IN /\ listeners' = (kept \ Reserved) \cup (missing \ (held \cup gv))
     /\ \E covered \in HeldByForwarder(blocked) : conflicts' = (told \ ports) \cup (blocked \ covered)

\* The trailing part of ListContainers: a rebuild when one was asked for ...
SyncListeners(x) ==
  /\ call[x].at = "sync"
  /\ Sync(Published(call[x].list), resync)
  /\ seen' = IF x = Reader THEN call[x].list ELSE seen
  /\ todo' = IF x = Sampler THEN Published(call[x].list) ELSE todo
  /\ Goto(x, IF resync THEN "store" ELSE "use")
  /\ UNCHANGED <<past, up, cache, fresh, inflight, landed, api, left, resync, held, gvVars, engineVars, hist, sample>>

\* ... is noted as done; a request for one that came meanwhile is lost.
StoreResync(x) ==
  /\ call[x].at = "store"
  /\ resync' = FALSE
  /\ Goto(x, "use")
  /\ UNCHANGED <<past, up, cache, fresh, inflight, landed, seen, api, left>>
  /\ UNCHANGED <<listeners, conflicts, held, gvVars, engineVars, statVars>>

\* Another program takes ::1:port, or gives it back.
OtherProgram ==
  /\ Spend("programs")
  /\ \E c \in Containers \ listeners :
       held' = IF c \in held THEN held \ {c} ELSE held \cup {c}
  /\ UNCHANGED <<past, up, cache, fresh, inflight, landed, call, seen, api>>
  /\ UNCHANGED <<listeners, conflicts, resync, gvVars, engineVars, statVars>>

-----------------------------------------------------------------------------
(* The callers.                                                            *)

\* The error goes to the client or to the log; the watcher asks for a rebuild.
CallFails(x) ==
  /\ call[x].at = "fail"
  /\ call' = [call EXCEPT ![x] = Idle]
  /\ resync' = (resync \/ x \in Watchers)
  /\ UNCHANGED <<past, up, cache, fresh, inflight, landed, seen, api, left>>
  /\ UNCHANGED <<listeners, conflicts, held, gvVars, engineVars, statVars>>

Answer ==
  /\ call[Reader].at = "use"
  /\ call' = [call EXCEPT ![Reader] = Idle]
  /\ UNCHANGED <<past, up, cache, fresh, inflight, landed, seen, api, left>>
  /\ UNCHANGED <<portVars, gvVars, engineVars, statVars>>

\* sampleContainerStats asks for the statistics of one running container after the other; a
\* container that is gone by then has none, nor has a stopped engine ...
ReadStats ==
  /\ call[Sampler].at = "use" /\ sample = None
  /\ \E c \in todo :
       /\ todo' = todo \ {c}
       /\ sample' \in {None} \cup IF up /\ StateNow(c) # "gone" THEN {c} ELSE {}
  /\ UNCHANGED <<listVars, up, portVars, gvVars, engineVars, hist>>

\* ... and Append adds them to the history.
AppendSample ==
  /\ sample # None
  /\ hist' = [hist EXCEPT ![sample] = TRUE]
  /\ sample' = None
  /\ UNCHANGED <<listVars, up, portVars, gvVars, engineVars, todo>>

\* Not in the code: relies on Forget alone.
RetainAll(keep) == UNCHANGED hist

RetainOnly(keep) == hist' = [c \in Containers |-> hist[c] /\ c \in keep]

SampleEnds ==
  /\ call[Sampler].at = "use" /\ todo = {} /\ sample = None
  /\ RetainOnly({c \in Containers : Listed(call[Sampler].list, c) # "gone"})
  /\ call' = [call EXCEPT ![Sampler] = Idle]
  /\ UNCHANGED <<past, up, cache, fresh, inflight, landed, seen, api, left>>
  /\ UNCHANGED <<portVars, gvVars, engineVars, todo, sample>>

\* The DELETE handler forgets the statistics of the container it has removed.
Forget ==
  /\ api.at = "forget"
  /\ hist' = [hist EXCEPT ![api.on] = FALSE]
  /\ api' = NoOp
  /\ UNCHANGED <<past, up, cache, fresh, inflight, landed, call, seen, left>>
  /\ UNCHANGED <<portVars, gvVars, engineVars, todo, sample>>

-----------------------------------------------------------------------------
(* syncGvproxyForwards, under forwardMu.                                   *)

\* A request of x to gvproxy can succeed: gvproxy is there and the context of x was not
\* cancelled before.
Reaches(x) == engine = "kill" \/ (engine = "up" /\ x = watcher)

Wanted(x) == Published(call[x].list)

\* Takes the mutex; wanted forwards that gvproxy has already are adopted, if it answers.
Adopt(x) ==
  /\ call[x].at = "use" /\ forwarder = Unlocked
  /\ forwarder' = [by |-> x, at |-> "drop"]
  /\ \/ Reaches(x) /\ forwarded' = forwarded \cup (gv \cap Wanted(x))
     \/ UNCHANGED forwarded
  /\ UNCHANGED <<listVars, up, portVars, gv, refused, engineVars, statVars>>

\* What gvproxy can be asked to give up.
Unexposable(x) == IF Reaches(x) THEN forwarded \ Wanted(x) ELSE {}

\* Unexposes what is not wanted; an error is logged and the port forgotten all the same.
Unexpose(x) ==
  /\ forwarder = [by |-> x, at |-> "drop"]
  /\ \E gone \in SUBSET Unexposable(x) : gv' = gv \ gone
  /\ forwarded' = forwarded \cap Wanted(x) /\ refused' = refused \cap Wanted(x)
  /\ forwarder' = [by |-> x, at |-> "add"]
  /\ UNCHANGED <<listVars, up, portVars, engineVars, statVars>>

\* The ports for which gvproxyExpose may return no error.
Exposable(x) == IF Reaches(x) THEN Wanted(x) \ forwarded ELSE {}

\* A port that gvproxy cannot bind because another program has it: the error says "already"
\* in use, which gvproxyExpose takes for a forward that gvproxy has already.
Taken(ok) == (ok \cap held) \ gv

\* Exposes what is missing, as far as it works, and gives the mutex back.
ExposeOnly(x, ok) ==
  /\ \E taken \in SUBSET Taken(ok) :
       /\ gv' = gv \cup (ok \ taken)
       /\ refused' = refused \cup taken
  /\ forwarded' = forwarded \cup ok
  /\ forwarder' = Unlocked
  /\ call' = [call EXCEPT ![x] = Idle]
  /\ UNCHANGED <<past, up, cache, fresh, inflight, landed, seen, api, portVars, engineVars, statVars>>

Expose(x) ==
  /\ forwarder = [by |-> x, at |-> "add"]
  /\ \/ ExposeOnly(x, Exposable(x)) /\ UNCHANGED left
     \/ \E ok \in SUBSET Exposable(x) : ExposeOnly(x, ok) /\ Spend("fails")

-----------------------------------------------------------------------------
(* The engine.                                                             *)

\* ForceStop: the watcher is cancelled, stopAll, started is cleared ...
ForceStop ==
  /\ engine = "up" /\ Spend("stops")
  /\ engine' = "kill" /\ watcher' = None
  /\ up' = FALSE
  /\ listeners' = {} /\ conflicts' = {}
  /\ UNCHANGED <<past, cache, fresh, inflight, landed, call, seen, api, resync, held, gvVars, statVars>>

\* ... a Status that meets the API while it still answers sets started again ...
StatusRevives ==
  /\ engine = "kill" /\ ~up
  /\ up' = TRUE /\ resync' = TRUE
  /\ UNCHANGED <<listVars, listeners, conflicts, held, gvVars, engineVars, statVars>>

\* ... krunkit, whose Wait clears started, and gvproxy are killed ...
StopGvproxy ==
  /\ engine = "kill"
  /\ engine' = "reset"
  /\ up' = FALSE
  /\ gv' = {}
  /\ UNCHANGED <<listVars, portVars, forwarded, refused, forwarder, watcher, statVars>>

\* Not in the code: keeps the record of a gvproxy that is gone.
KeepForwards ==
  /\ engine = "reset"
  /\ engine' = "down"
  /\ UNCHANGED <<listVars, up, portVars, gvVars, watcher, statVars>>

\* ... and forwardedPorts is emptied under forwardMu.
ResetForwards ==
  /\ engine = "reset" /\ forwarder = Unlocked
  /\ engine' = "down"
  /\ forwarded' = {} /\ refused' = {}
  /\ UNCHANGED <<listVars, up, portVars, gv, forwarder, watcher, statVars>>

\* startGvproxy: a new gvproxy has no forwards; one whose sockets do not come is stopped.
StartGvproxy ==
  /\ engine = "down"
  /\ \/ engine' = "boot" /\ UNCHANGED left
     \/ engine' = "reset" /\ Spend("fails")
  /\ gv' = {}
  /\ UNCHANGED <<past, cache, fresh, inflight, landed, call, seen, api, up>>
  /\ UNCHANGED <<portVars, forwarded, refused, forwarder, watcher, statVars>>

\* Krunkit.Start, at its end: started, a rebuild asked for and a new watcher.
StartEngine ==
  /\ engine = "boot"
  /\ engine' = "up" /\ up' = TRUE /\ resync' = TRUE
  /\ \E w \in Watchers : call[w].at = "idle" /\ watcher' = w
  /\ UNCHANGED <<listVars, listeners, conflicts, held, gvVars, statVars>>

-----------------------------------------------------------------------------

others == <<portVars, gvVars, engineVars, statVars>>

\* The ticks of the watcher that is not cancelled, of the sampler, and the polls of the UI.
Tick(x) == (x \in Watchers => x = watcher) /\ Begin(x) /\ UNCHANGED others

Use(x) ==
  \/ x = Reader /\ Answer
  \/ x = Sampler /\ (ReadStats \/ AppendSample \/ SampleEnds)
  \/ x \in Watchers /\ (Adopt(x) \/ Unexpose(x) \/ Expose(x))

Step(x) == (ListStep(x) /\ UNCHANGED others) \/ SyncListeners(x) \/ StoreResync(x) \/ CallFails(x) \/ Use(x)

Next ==
  \/ \E x \in Callers : Tick(x) \/ Step(x)
  \/ (CacheExpires \/ OutsideChange \/ ApiChange \/ Invalidate) /\ UNCHANGED others
  \/ Forget \/ OtherProgram \/ ForceStop \/ StatusRevives \/ StopGvproxy \/ ResetForwards \/ StartGvproxy \/ StartEngine

Spec == Init /\ [][Next]_vars

\* Goroutines run, tickers fire and time passes.
FairSpec ==
  /\ Spec
  /\ \A x \in Callers : WF_vars(Tick(x) \/ Step(x))
  /\ WF_vars(CacheExpires /\ UNCHANGED others)
  /\ WF_vars((Invalidate /\ UNCHANGED others) \/ Forget)

-----------------------------------------------------------------------------
(* Properties.                                                             *)

\* The UI comes to see the containers as they are, although a docker ps that began before a
\* change may refill the cache after it was dropped.
ListSettles == Reader \in left.who /\ <>[](engine = "up") => <>[](seen = Now)

\* The ::1 listeners come to fit the published ports, although every caller applies its own
\* list and may apply it late, also after stopAll.
ListenersSettle == <>[](engine = "up") => <>[](listeners \subseteq Published(Now) \ Reserved)

\* A port of forwardedPorts is never exposed again, so while the engine runs each of them is
\* one that gvproxy forwards, whatever stop met whatever sync, or one that another program
\* had when gvproxy was asked.
RecordIsReal == engine = "up" => forwarded \ refused \subseteq gv

\* Every recorded port is forwarded.  It does not hold: see README.
RecordedIsForwarded == engine = "up" => forwarded \subseteq gv

\* The statistics of a container that is gone come to be dropped, although the sampler may
\* append a sample after the DELETE handler forgot them.
HistoryForgets ==
  \A c \in Containers :
     Sampler \in left.who /\ <>[](engine = "up" /\ StateNow(c) = "gone") => <>[]~hist[c]

\* A conflict is reported for a port that is published.  It does not hold: see README.
ConflictsSettle == <>[](engine = "up") => <>[](conflicts \subseteq Published(Now))

\* After stopAll no listener is left.  It does not hold: see README.
StoppedListensNot == <>[](engine = "down") => <>[](listeners = {})

=============================================================================
