--------------------------- MODULE DockerContext ---------------------------
(***************************************************************************)
(* The host's Docker CLI (backend/internal/dockercli): the manager that    *)
(* keeps the calf context selected while the setting is on, the handlers   *)
(* that activate it, and the repair of a CLI plugin, which all of them run *)
(* first.  The user's own docker commands change the same files.           *)
(*                                                                         *)
(* docker's commands are external; each is one step and may fail.  One     *)
(* plugin stands for both.                                                 *)
(***************************************************************************)
EXTENDS DaemonConfig

VARIABLES
  context,   \* currentContext of ~/.docker/config.json
  exists,    \* the calf context exists
  plugin,    \* the entry in ~/.docker/cli-plugins
  worker     \* worker[w]: where w is in Activate or ensure

contextVars == <<context, exists, plugin, worker>>

\* The manager's goroutine, the goroutine of a migration, the configuration requests.
Workers == {"manager", "migration"} \cup Clients
Steps == {"idle", "check", "remove", "link", "managed", "context", "use"}

ContextTypeOK ==
  /\ context \in {"calf", "other"} /\ exists \in BOOLEAN
  /\ plugin \in {"missing", "broken", "healthy"}
  /\ worker \in [Workers -> Steps]

ContextInit ==
  /\ context = "other" /\ exists = FALSE
  /\ plugin = "broken"
  /\ worker = [w \in Workers |-> "idle"]

To(w, step) == worker' = [worker EXCEPT ![w] = step]

-----------------------------------------------------------------------------
(* plugins.go: ensurePlugin.                                               *)

\* The manager looks at the setting after the repair; Activate's callers did before.
AfterRepair(w) == IF w = "manager" THEN "managed" ELSE "context"

\* pluginHealthy and findPluginCandidate.  Without a candidate a dead link is dropped.
CheckPlugin(w) ==
  /\ worker[w] = "check"
  /\ \/ /\ plugin = "healthy"
        /\ To(w, AfterRepair(w))
        /\ UNCHANGED <<plugin, left>>
     \/ /\ plugin # "healthy"
        /\ To(w, "remove")
        /\ UNCHANGED <<plugin, left>>
     \/ /\ plugin # "healthy" /\ Spend("fails")
        /\ plugin' = "missing"
        /\ To(w, AfterRepair(w))
  /\ UNCHANGED <<context, exists>>

\* os.Remove of whatever is at the destination by now.
RemovePlugin(w) ==
  /\ worker[w] = "remove"
  /\ plugin' = "missing"
  /\ To(w, "link")
  /\ UNCHANGED <<context, exists>>

\* os.Symlink, an error where there is an entry.
LinkPlugin(w) ==
  /\ worker[w] = "link"
  /\ plugin' = IF plugin = "missing" THEN "healthy" ELSE plugin
  /\ To(w, AfterRepair(w))
  /\ UNCHANGED <<context, exists>>

-----------------------------------------------------------------------------
(* manager.go and context.go.                                              *)

\* Not in the code: the ticker asks for the context whatever the setting.
EnsureAlways ==
  /\ worker["manager"] = "managed"
  /\ To("manager", "context")
  /\ UNCHANGED <<context, exists, plugin>>

\* ensure: only while managed, and while the public socket is there.
EnsureManaged ==
  /\ worker["manager"] = "managed"
  /\ To("manager", IF cfg.managed THEN "context" ELSE "idle")
  /\ UNCHANGED <<context, exists, plugin>>

\* EnsureContext: update or create; then readCurrentContext decides on `context use`.
EnsureContext(w) ==
  /\ worker[w] = "context"
  /\ \/ /\ exists' = TRUE
        /\ To(w, IF context = "calf" THEN "idle" ELSE "use")
        /\ UNCHANGED left
     \/ /\ Spend("fails")
        /\ To(w, "idle")
        /\ UNCHANGED exists
  /\ UNCHANGED <<context, plugin>>

\* ActivateContext, an error when the context was removed meanwhile.
ActivateContext(w) ==
  /\ worker[w] = "use"
  /\ To(w, "idle")
  /\ \/ /\ context' = IF exists THEN "calf" ELSE context
        /\ UNCHANGED left
     \/ /\ Spend("fails")
        /\ UNCHANGED context
  /\ UNCHANGED <<exists, plugin>>

\* The ticker; some behaviours are too short for a tick.
ManagerTick ==
  /\ worker["manager"] = "idle" /\ left.ticks > 0
  /\ To("manager", "check")
  /\ UNCHANGED <<context, exists, plugin>>

\* Activate, called by a request that saved the configuration, or by a migration.
Activate(w, managed) ==
  /\ worker[w] = "idle"
  /\ To(w, IF managed THEN "check" ELSE "idle")
  /\ UNCHANGED <<context, exists, plugin>>

\* handleConfigPut, whose second half goes on to Activate.
PutConfig ==
  \/ \E c \in Clients : worker[c] = "idle" /\ CheckUpdate(c) /\ UNCHANGED contextVars
  \/ \E r \in requests, ok \in BOOLEAN :
       ApplyConfigUpdate(r, ok) /\ Activate(r.client, ok /\ cfg'.managed)

\* `docker context use`, `docker context rm` and a plugin uninstalled by the user.
UserCommand ==
  /\ Spend("touches")
  /\ \/ context' = "other" /\ UNCHANGED <<exists, plugin>>
     \/ context # "calf" /\ exists' = FALSE /\ UNCHANGED <<context, plugin>>
     \/ plugin' \in {"missing", "broken"} /\ UNCHANGED <<context, exists>>
  /\ UNCHANGED worker

WorkerStep(w) == CheckPlugin(w) \/ EnsureContext(w) \/ ActivateContext(w)
QuietStep(w) == RemovePlugin(w) \/ LinkPlugin(w)

ContextNext ==
  /\ \/ \E w \in Workers : WorkerStep(w)
     \/ \E w \in Workers : QuietStep(w) /\ UNCHANGED left
     \/ EnsureManaged /\ UNCHANGED left
     \/ ManagerTick /\ UNCHANGED left
     \/ UserCommand

\* Workers that go on to select the context without looking at the setting again.
Committed == {w \in Workers : worker[w] \in {"context", "use"} \/ (w # "manager" /\ worker[w] # "idle")}

\* The daemon dies: its goroutines are gone, the files stay.
RestartContext ==
  /\ worker' = [w \in Workers |-> "idle"]
  /\ UNCHANGED <<context, exists, plugin>>

-----------------------------------------------------------------------------
(* Properties.                                                             *)

\* While the setting is off nobody sets out to select calf's context, and each selection
\* over the user's choice uses up a call that had seen the setting on: at most one for each
\* call under way when it was switched off (ensure, handleConfigPut,
\* RunDockerDesktopMigration).
ChoiceKept ==
  [][~cfg.managed /\ ~cfg'.managed =>
       /\ Committed' \subseteq Committed
       /\ context # "calf" /\ context' = "calf" => Committed' # Committed]_<<cfg, context, worker>>

\* Not so: no selection at all.  A call that had seen the setting on goes on to select.
OffIsAtOnce == [][~cfg.managed /\ ~cfg'.managed => (context' = "calf" => context = "calf")]_<<cfg, context>>

=============================================================================
