---------------------------- MODULE DaemonConfig ----------------------------
(***************************************************************************)
(* The daemon's configuration (backend/internal/config/config.go,          *)
(* validate_proxy.go, api/config.go, runtime/proxy.go and ApplyProxy of    *)
(* the engines): the copy in memory, the file, the requests that change    *)
(* both, and the goroutines that carry a new proxy into the engine.        *)
(*                                                                         *)
(* Three fields stand for the rest: swap, a size that may be zero; proxy,  *)
(* which has to reach the engine; and managed, which lets calf select its  *)
(* Docker context.  CfgMu makes a change of the copy and the write of the  *)
(* file one step; a request looks at the copy before that, in a step of    *)
(* its own.                                                                *)
(***************************************************************************)
EXTENDS Integers, Sequences

CONSTANTS Proxies,      \* proxy settings, NoProxy among them
          NoProxy,      \* the empty setting
          HostMemory,   \* GB of the host
          Clients,      \* those whose configuration requests may be under way together
          Budgets       \* bounds: each a record that says how often what may happen

ASSUME ProxyAssumption == NoProxy \in Proxies
ASSUME HostAssumption == HostMemory \in Nat \ {0}
ASSUME ClientsAssumption == "manager" \notin Clients /\ "migration" \notin Clients

VARIABLES
  cfg,        \* Core.Cfg
  file,       \* config.yaml
  up,         \* the engine runs
  stored,     \* the proxy field of the engine object
  inGuest,    \* the proxy written inside the guest
  appliers,   \* the goroutines that apply a proxy, oldest first
  requests,   \* the requests between their two looks at the configuration
  disturbed,  \* the latest change of the proxy met another, or failed (history variable)
  left        \* what is left of the budget

configVars == <<cfg, file, up, stored, inGuest, appliers, requests, disturbed>>

Spend(what) == left[what] > 0 /\ left' = [left EXCEPT ![what] = @ - 1]

DefaultSwap == 1
Configs == [swap : 0..HostMemory, proxy : Proxies, managed : BOOLEAN]

\* What a request sets: one of the fields.
Updates == [{"swap"} -> 0..(HostMemory + 1)] \cup [{"proxy"} -> Proxies] \cup [{"managed"} -> BOOLEAN]

\* ValidateResourceUpdate, for the swap size: from nothing to all of the host's memory.
ValidateResourceUpdate(u) == "swap" \in DOMAIN u => u["swap"] \in 0..HostMemory

\* A request that passed the checks.  changed: what ProxyUpdateChanged said.
Requests == [client : Clients, update : {u \in Updates : ValidateResourceUpdate(u)}, changed : BOOLEAN]

\* pc: where ApplyProxy is called from, or that it got as far as the guest.
Applier(proxy, pc) == [proxy |-> proxy, pc |-> pc]
Appliers == [proxy : Proxies, pc : {"first", "ensure", "again", "write"}]

ConfigTypeOK ==
  /\ cfg \in Configs /\ file \in Configs
  /\ up \in BOOLEAN /\ disturbed \in BOOLEAN
  /\ stored \in Proxies /\ inGuest \in Proxies
  /\ \A n \in 1..Len(appliers) : appliers[n] \in Appliers
  /\ requests \subseteq Requests

\* A daemon that has loaded its file and an engine that agrees with it.
ConfigInit ==
  /\ left \in Budgets
  /\ \E p \in Proxies : cfg = [swap |-> DefaultSwap, proxy |-> p, managed |-> TRUE]
  /\ file = cfg
  /\ up = TRUE
  /\ stored = cfg.proxy /\ inGuest = cfg.proxy
  /\ appliers = <<>> /\ requests = {} /\ disturbed = FALSE

-----------------------------------------------------------------------------
(* config.go.                                                              *)

\* withDefaults: a size that is not positive becomes the default.
WithDefaults(c) == [c EXCEPT !.swap = IF @ <= 0 THEN DefaultSwap ELSE @]

\* Save writes a copy with the defaults filled in; the caller's keeps its zeros.
Save(c) == file' = WithDefaults(c)

\* Load at the start of a daemon, whose engine object gets the proxy.
Load == cfg' = WithDefaults(file) /\ stored' = file.proxy

-----------------------------------------------------------------------------
(* api/config.go.                                                          *)

ProxyUpdateChanged(u) == "proxy" \in DOMAIN u /\ u["proxy"] # cfg.proxy

\* applyConfigUpdate: a request sets some of the fields.
Merged(u) == [f \in DOMAIN cfg |-> IF f \in DOMAIN u THEN u[f] ELSE cfg[f]]

\* The first half of handleConfigPut: a request that passes the checks has learnt, under
\* the read lock, whether it changes the proxy.
CheckUpdate(c) ==
  /\ \A r \in requests : r.client # c
  /\ Spend("puts")
  /\ \E u \in Updates :
       /\ ValidateResourceUpdate(u)
       /\ requests' = requests \cup {[client |-> c, update |-> u, changed |-> ProxyUpdateChanged(u)]}
  /\ UNCHANGED <<cfg, file, up, stored, inGuest, appliers, disturbed>>

\* The second half: applyConfigUpdate, under the write lock, and the goroutine for the proxy.
\* A failed save leaves the changed copy in memory.
ApplyConfigUpdate(r, ok) ==
  LET new == Merged(r.update) IN
  /\ requests' = requests \ {r}
  /\ cfg' = new
  /\ IF ok THEN Save(new) ELSE UNCHANGED file
  /\ appliers' = IF ok /\ r.changed THEN Append(appliers, Applier(new.proxy, "first")) ELSE appliers
  /\ disturbed' = IF new.proxy = cfg.proxy THEN disturbed ELSE ~ok \/ ~r.changed \/ appliers # <<>>
  /\ UNCHANGED <<up, stored, inGuest, left>>

-----------------------------------------------------------------------------
(* ApplyProxy, and the starts that call it.                                *)

Goes(n, pc) == appliers' = [appliers EXCEPT ![n].pc = pc]
Without(n) == SubSeq(appliers, 1, n - 1) \o SubSeq(appliers, n + 1, Len(appliers))
Ends(n) == appliers' = Without(n)

\* ApplyProxy stores the setting; requireRunning then lets it through or not.
\* Only the first call of a request goes on to start the engine.
ApplyProxy(n) ==
  /\ appliers[n].pc \in {"first", "again"}
  /\ stored' = appliers[n].proxy
  /\ \/ /\ up
        /\ Goes(n, "write")
        /\ UNCHANGED disturbed
     \/ /\ ~up /\ appliers[n].pc = "first"
        /\ Goes(n, "ensure")
        /\ UNCHANGED disturbed
     \/ /\ ~up /\ appliers[n].pc = "again"
        /\ Ends(n)
        /\ disturbed' = TRUE
  /\ UNCHANGED <<cfg, file, up, inGuest, requests, left>>

\* applyProxyInVM writes the setting inside the guest, or fails.
WriteInVM(n) ==
  /\ appliers[n].pc = "write"
  /\ Ends(n)
  /\ \/ up /\ inGuest' = appliers[n].proxy /\ UNCHANGED <<disturbed, left>>
     \/ ~up /\ disturbed' = TRUE /\ UNCHANGED <<inGuest, left>>
     \/ Spend("fails") /\ disturbed' = TRUE /\ UNCHANGED inGuest
  /\ UNCHANGED <<cfg, file, up, stored, requests>>

\* The end of Krunkit.Start: with a proxy stored, a goroutine of its own applies it.
StartsWith(rest) ==
  /\ up' = TRUE
  /\ appliers' = IF stored # NoProxy THEN Append(rest, Applier(stored, "again")) ELSE rest
  /\ disturbed' = (disturbed \/ (stored # NoProxy /\ \E n \in DOMAIN rest : rest[n].proxy # stored))

\* Not in the code: a start that worked is taken to have applied the setting.
EnsureIsEnough(n) ==
  /\ appliers[n].pc = "ensure"
  /\ IF up THEN Ends(n) /\ UNCHANGED <<up, disturbed>> ELSE StartsWith(Without(n))
  /\ UNCHANGED <<cfg, file, stored, inGuest, requests, left>>

\* EnsureRuntimeRunning for a setting that found no engine; then ApplyProxy again.
EnsureRuntime(n) ==
  LET again == [appliers EXCEPT ![n].pc = "again"] IN
  /\ appliers[n].pc = "ensure"
  /\ \/ /\ IF up THEN appliers' = again /\ UNCHANGED <<up, disturbed>> ELSE StartsWith(again)
        /\ UNCHANGED left
     \/ /\ Spend("fails")
        /\ Ends(n)
        /\ disturbed' = TRUE
        /\ UNCHANGED up
  /\ UNCHANGED <<cfg, file, stored, inGuest, requests>>

\* Any other start, and any stop.
StartEngine ==
  /\ ~up
  /\ StartsWith(appliers)
  /\ UNCHANGED <<cfg, file, stored, inGuest, requests, left>>

StopEngine ==
  /\ up /\ Spend("stops")
  /\ up' = FALSE
  /\ UNCHANGED <<cfg, file, stored, inGuest, appliers, requests, disturbed>>

ConfigNext ==
  \/ \E n \in 1..Len(appliers) : ApplyProxy(n) \/ WriteInVM(n) \/ EnsureRuntime(n)
  \/ StartEngine
  \/ StopEngine

\* The daemon dies with its goroutines and is started again; the engine stays as it is.
RestartConfig ==
  /\ Load
  /\ appliers' = <<>> /\ requests' = {}
  /\ disturbed' = (disturbed \/ appliers # <<>>)
  /\ UNCHANGED <<file, up, inGuest>>

-----------------------------------------------------------------------------
(* Properties.                                                             *)

\* Once the goroutines of a proxy change are over, an engine that runs has the setting in
\* use, however the change met a stop or a start of the engine (handleConfigPut,
\* Krunkit.Start).  This is so after each change for which a goroutine was started, on which
\* no other setting was under way, and of which no step failed; and it stays so until the
\* next change.
ProxySettles == up /\ appliers = <<>> /\ ~disturbed => inGuest = cfg.proxy

\* Not so: without that exception.  Two goroutines finish in either order, and a request
\* that found its proxy in use starts none, although another changed it before the update.
ProxyAlwaysSettles == up /\ appliers = <<>> => inGuest = cfg.proxy

=============================================================================
