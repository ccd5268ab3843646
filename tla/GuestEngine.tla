---------------------------- MODULE GuestEngine -----------------------------
(***************************************************************************)
(* The macOS guest engine (backend/internal/runtime/krunkit_darwin.go,     *)
(* guest_darwin.go): Start, ForceStop and Status over the krunkit process, *)
(* its pid file, its vsock socket, and the goroutine that waits for it to  *)
(* exit.  One Start runs at a time (RuntimeStart!OneStartAtATime); stops   *)
(* and status calls run beside it.  gvproxy is launched and killed with    *)
(* the VM and stands or falls with it here.                                *)
(*                                                                         *)
(* A VM is a number, in the order of launch.  dockerAPIReady may fail on a *)
(* healthy VM: it gives up after 400 ms without a free vsock slot or       *)
(* without an answer.  A killed process is gone at once.                   *)
(***************************************************************************)
EXTENDS Naturals

CONSTANTS Starter,      \* the one goroutine in Krunkit.Start
          Stoppers,     \* goroutines that call Krunkit.ForceStop
          Probers,      \* goroutines that call Guest.Status
          MaxVMs        \* bound: VMs in a behaviour; VM 1 is an earlier daemon's

ASSUME StarterAssumption == Starter \notin Stoppers
ASSUME MaxVMsAssumption == MaxVMs \in Nat \ {0}

VMs == 1..MaxVMs
None == 0
Procs == Stoppers \cup {Starter}

VARIABLES
  launched,   \* VMs launched so far
  alive,      \* the krunkit processes that exist
  wrote,      \* VMs that have created their pid file and vsock socket
  ready,      \* VMs whose dockerd answers
  pidfile,    \* krunkit.pid: the VM it names
  sock,       \* the vsock socket file: the VM behind it
  cmd,        \* k.cmd: the VM this daemon launched and has not stopped
  waits,      \* VMs with a goroutine in cmd.Wait
  started,    \* v.started
  starting,   \* v.starting
  failed,     \* Start is on its way out with an error
  pc,         \* pc[p]: where Start or a ForceStop is
  held,       \* held[p]: the VM stopKrunkitStack took from k.cmd, or Start launched
  prober      \* prober[q]: where a Status call is

vmVars == <<launched, alive, wrote, ready>>
fileVars == <<pidfile, sock>>
flagVars == <<started, starting>>
vars == <<vmVars, fileVars, cmd, waits, flagVars, failed, pc, held, prober>>

StackPcs == {"take", "kill", "killpid", "rmpid"}
StartPcs == {"probe", "attach", "launch", "record", "await", "setup", "fail"}

TypeOK ==
  /\ launched \in 0..MaxVMs
  /\ alive \in SUBSET (1..launched)
  /\ wrote \in SUBSET (1..launched)
  /\ ready \in SUBSET (alive \cap wrote)
  /\ pidfile \in 0..MaxVMs /\ sock \in 0..MaxVMs /\ cmd \in 0..MaxVMs
  /\ waits \in SUBSET VMs
  /\ started \in BOOLEAN /\ starting \in BOOLEAN /\ failed \in BOOLEAN
  /\ pc \in [Procs -> {"idle", "unlink"} \cup StackPcs \cup StartPcs]
  /\ held \in [Procs -> 0..MaxVMs]
  /\ prober \in [Probers -> {"idle", "ping", "store"}]

\* The daemon comes up.  The VM of an earlier one may have outlived it (vm_keep_alive), and
\* a dead one may have left its files behind.
Init ==
  /\ launched = 1 /\ wrote = {1}
  /\ alive \in SUBSET {1} /\ ready = alive
  /\ pidfile \in {None, 1} /\ sock \in {None, 1}
  /\ alive # {} => pidfile = 1 /\ sock = 1
  /\ cmd = None /\ waits = {}
  /\ started = FALSE /\ starting = FALSE /\ failed = FALSE
  /\ pc = [p \in Procs |-> "idle"]
  /\ held = [p \in Procs |-> None]
  /\ prober = [q \in Probers |-> "idle"]

Goto(p, l) == pc' = [pc EXCEPT ![p] = l]

Kill(S) == alive' = alive \ S /\ ready' = ready \ S

\* dockerAPIReady, when it answers true.
ApiReady == sock \in ready

-----------------------------------------------------------------------------
(* The VM process.                                                         *)

VMWritesFiles(v) ==
  /\ v \in alive \ wrote
  /\ pidfile' = v /\ sock' = v
  /\ wrote' = wrote \cup {v}
  /\ UNCHANGED <<launched, alive, ready, cmd, waits, flagVars, failed, pc, held, prober>>

VMBoots(v) ==
  /\ v \in (alive \cap wrote) \ ready
  /\ ready' = ready \cup {v}
  /\ UNCHANGED <<launched, alive, wrote, fileVars, cmd, waits, flagVars, failed, pc, held, prober>>

VMCrashes(v) ==
  /\ v \in alive
  /\ Kill({v})
  /\ UNCHANGED <<launched, wrote, fileVars, cmd, waits, flagVars, failed, pc, held, prober>>

\* go func() { _ = cmd.Wait(); k.started.Store(false) }()
WaitReturns(v) ==
  /\ v \in waits \ alive
  /\ waits' = waits \ {v}
  /\ started' = FALSE
  /\ UNCHANGED <<vmVars, fileVars, cmd, starting, failed, pc, held, prober>>

-----------------------------------------------------------------------------
(* stopKrunkitStack, called by ForceStop and by Start.                     *)

\* Under k.mu: cmd := k.cmd; k.cmd = nil.
StackTakes(p) ==
  /\ pc[p] = "take"
  /\ held' = [held EXCEPT ![p] = cmd]
  /\ cmd' = None
  /\ Goto(p, "kill")
  /\ UNCHANGED <<vmVars, fileVars, waits, flagVars, failed, prober>>

\* SIGTERM, a pause, SIGKILL.
StackKills(p) ==
  /\ pc[p] = "kill"
  /\ Kill({held[p]})
  /\ held' = [held EXCEPT ![p] = None]
  /\ Goto(p, "killpid")
  /\ UNCHANGED <<launched, wrote, fileVars, cmd, waits, flagVars, failed, prober>>

\* Not in the code: trusts k.cmd and does not look at the pid file.
StackSkipsPidfile(p) ==
  /\ pc[p] = "killpid"
  /\ Goto(p, "rmpid")
  /\ UNCHANGED <<vmVars, fileVars, cmd, waits, flagVars, failed, held, prober>>

StackKillsPidfile(p) ==
  /\ pc[p] = "killpid"
  /\ Kill({pidfile})
  /\ Goto(p, "rmpid")
  /\ UNCHANGED <<launched, wrote, fileVars, cmd, waits, flagVars, failed, held, prober>>

AfterStack(p) == IF p # Starter THEN "unlink" ELSE IF failed THEN "fail" ELSE "launch"

StackRemovesPidfile(p) ==
  /\ pc[p] = "rmpid"
  /\ pidfile' = None
  /\ Goto(p, AfterStack(p))
  /\ UNCHANGED <<vmVars, sock, cmd, waits, flagVars, failed, held, prober>>

StopKrunkitStack(p) ==
  StackTakes(p) \/ StackKills(p) \/ StackKillsPidfile(p) \/ StackRemovesPidfile(p)

-----------------------------------------------------------------------------
(* Krunkit.Start.                                                          *)

StartBegins ==
  /\ pc[Starter] = "idle"
  /\ launched < MaxVMs
  /\ starting' = TRUE /\ failed' = FALSE
  /\ Goto(Starter, "probe")
  /\ UNCHANGED <<vmVars, fileVars, cmd, waits, started, held, prober>>

\* A binary or the guest disk is missing, gvproxy does not start, or the stack was torn down
\* after an error: the deferred store and the return.
StartReturnsError ==
  /\ pc[Starter] \in {"probe", "launch", "fail"}
  /\ starting' = FALSE
  /\ sock' = IF pc[Starter] = "launch" THEN None ELSE sock
  /\ Goto(Starter, "idle")
  /\ UNCHANGED <<vmVars, pidfile, cmd, waits, started, failed, held, prober>>

\* Attach to a VM that answers and whose pid file is alive, or tear down what is there.
StartProbes ==
  /\ pc[Starter] = "probe"
  /\ \/ ApiReady /\ pidfile \in alive /\ Goto(Starter, "attach")
     \/ Goto(Starter, "take")
  /\ UNCHANGED <<vmVars, fileVars, cmd, waits, flagVars, failed, held, prober>>

\* The socket file is removed, gvproxy and krunkit are started.
StartLaunches ==
  /\ pc[Starter] = "launch"
  /\ launched < MaxVMs
  /\ sock' = None
  /\ launched' = launched + 1
  /\ alive' = alive \cup {launched + 1}
  /\ held' = [held EXCEPT ![Starter] = launched + 1]
  /\ Goto(Starter, "record")
  /\ UNCHANGED <<wrote, ready, pidfile, cmd, waits, flagVars, failed, prober>>

\* cmd.Start fails.
StartLaunchFails ==
  /\ pc[Starter] = "launch"
  /\ sock' = None
  /\ failed' = TRUE
  /\ Goto(Starter, "take")
  /\ UNCHANGED <<vmVars, pidfile, cmd, waits, flagVars, held, prober>>

\* Not in the code: waits for the process without recording it.
StartForgets ==
  /\ pc[Starter] = "record"
  /\ waits' = waits \cup {held[Starter]}
  /\ held' = [held EXCEPT ![Starter] = None]
  /\ Goto(Starter, "await")
  /\ UNCHANGED <<vmVars, fileVars, cmd, flagVars, failed, prober>>

\* k.cmd = cmd, and the goroutine that waits for the process.
StartRecords ==
  /\ pc[Starter] = "record"
  /\ cmd' = held[Starter]
  /\ waits' = waits \cup {held[Starter]}
  /\ held' = [held EXCEPT ![Starter] = None]
  /\ Goto(Starter, "await")
  /\ UNCHANGED <<vmVars, fileVars, flagVars, failed, prober>>

\* waitForDockerAPI: dockerd answers, or ten minutes pass.
StartAwaits ==
  /\ pc[Starter] = "await"
  /\ \/ ApiReady /\ Goto(Starter, "setup") /\ UNCHANGED failed
     \/ failed' = TRUE /\ Goto(Starter, "take")
  /\ UNCHANGED <<vmVars, fileVars, cmd, waits, flagVars, held, prober>>

\* Guest setup, whose errors are ignored, then k.started = true and the deferred store.
StartFinishes ==
  /\ pc[Starter] \in {"attach", "setup"}
  /\ started' = TRUE /\ starting' = FALSE
  /\ Goto(Starter, "idle")
  /\ UNCHANGED <<vmVars, fileVars, cmd, waits, failed, held, prober>>

Start ==
  \/ StartBegins \/ StartReturnsError \/ StartProbes \/ StartLaunches \/ StartLaunchFails
  \/ StartRecords \/ StartAwaits \/ StartFinishes

-----------------------------------------------------------------------------
(* Krunkit.ForceStop and Guest.Status.                                     *)

ForceStopBegins(s) ==
  /\ pc[s] = "idle"
  /\ started' = FALSE /\ starting' = FALSE
  /\ Goto(s, "take")
  /\ UNCHANGED <<vmVars, fileVars, cmd, waits, failed, held, prober>>

ForceStopUnlinks(s) ==
  /\ pc[s] = "unlink"
  /\ sock' = None
  /\ Goto(s, "idle")
  /\ UNCHANGED <<vmVars, pidfile, cmd, waits, flagVars, failed, held, prober>>

ProberAt(q, l) == prober' = [prober EXCEPT ![q] = l]

\* Not in the code: answers from the flag alone.
StatusTrustsFlag(q) ==
  /\ prober[q] = "idle"
  /\ UNCHANGED vars

\* Neither started nor starting: ask the engine.
StatusReads(q) ==
  /\ prober[q] = "idle"
  /\ ~started /\ ~starting
  /\ ProberAt(q, "ping")
  /\ UNCHANGED <<vmVars, fileVars, cmd, waits, flagVars, failed, pc, held>>

StatusPings(q) ==
  /\ prober[q] = "ping"
  /\ \/ ApiReady /\ ProberAt(q, "store")
     \/ ProberAt(q, "idle")
  /\ UNCHANGED <<vmVars, fileVars, cmd, waits, flagVars, failed, pc, held>>

StatusStores(q) ==
  /\ prober[q] = "store"
  /\ started' = TRUE
  /\ ProberAt(q, "idle")
  /\ UNCHANGED <<vmVars, fileVars, cmd, waits, starting, failed, pc, held>>

Status(q) == StatusReads(q) \/ StatusPings(q) \/ StatusStores(q)

-----------------------------------------------------------------------------

Next ==
  \/ \E v \in VMs : VMWritesFiles(v) \/ VMBoots(v) \/ VMCrashes(v) \/ WaitReturns(v)
  \/ \E p \in Procs : StopKrunkitStack(p)
  \/ Start
  \/ \E s \in Stoppers : ForceStopBegins(s) \/ ForceStopUnlinks(s)
  \/ \E q \in Probers : Status(q)

Spec == Init /\ [][Next]_vars

\* Status is called again and again, its ping of a ready engine succeeds in the end, and the
\* goroutine of a dead VM gets to run.
FairSpec ==
  /\ Spec
  /\ \A q \in Probers : WF_vars(Status(q)) /\ SF_vars(StatusPings(q) /\ prober'[q] = "store")
  /\ \A v \in VMs : WF_vars(WaitReturns(v))

-----------------------------------------------------------------------------
(* Properties.                                                             *)

\* A stop has taken this VM from k.cmd and is about to kill it.
Doomed(v) == \E p \in Procs : pc[p] = "kill" /\ held[p] = v

\* Start has launched this VM and is about to record it.
Recording(v) == pc[Starter] = "record" /\ held[Starter] = v

\* Two VMs never share the guest disk: apart from one that a stop is about to kill, at most
\* one krunkit process exists.
OneVM == \A v, w \in alive : Doomed(v) \/ Doomed(w) \/ v = w

\* No VM gets out of reach: stopKrunkitStack, run now, would find every krunkit process
\* through k.cmd or the pid file, unless it is being killed or recorded already.
NoStrayVM == \A v \in alive : v = cmd \/ v = pidfile \/ Doomed(v) \/ Recording(v)

\* "A dead krunkit clears started via Wait": the flag is up without a VM only as long as a
\* goroutine in Wait has yet to clear it.
StartedMeansAlive == started /\ alive = {} => waits # {}

\* A guest that stays up is reported as running from some point on, although the Wait
\* goroutine of an earlier VM may clear the flag late.
StatusRecovers == <>[](ApiReady /\ pc[Starter] = "idle") => <>[]started

=============================================================================
