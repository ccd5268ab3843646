------------------------------ MODULE EngineProofs --------------------------
(***************************************************************************)
(* Proofs about GuestEngine and WakeGate.  For any number of stops, status *)
(* calls and VMs, two VMs never share the guest disk and none gets out of  *)
(* reach.  For any number of connections and slots, the slots are accounted*)
(* for, the guest never has more connections than slots, and with fewer    *)
(* connections than slots a wake cannot block itself.                      *)
(***************************************************************************)
EXTENDS GuestEngine, WakeGate, FiniteSetTheorems, TLAPS

USE Zenon

-----------------------------------------------------------------------------
(* GuestEngine.                                                            *)

USE StarterAssumption, MaxVMsAssumption

\* The part of the state the argument is about is well typed.
Types ==
  /\ launched \in 0..MaxVMs
  /\ alive \in SUBSET (1..launched)
  /\ pc \in [Procs -> {"idle", "unlink"} \cup StackPcs \cup StartPcs]
  /\ held \in [Procs -> 0..MaxVMs]
  /\ cmd \in 0..MaxVMs

\* Only Start's own steps set k.cmd, so it stays nil from the teardown to the next record.
StarterOwnsCmd ==
  pc[Starter] \in {"kill", "killpid", "rmpid", "launch", "record"} => cmd = None

\* When Start has torn the stack down, whatever is left is being killed by a stop.
NothingLeft == pc[Starter] \in {"rmpid", "launch"} => \A v \in alive : Doomed(v)

\* While Start records a VM, that VM is the only one not being killed.
OnlyRecorded == pc[Starter] = "record" => \A v \in alive : Doomed(v) \/ Recording(v)

\* Every VM is found without the pid file.
FoundWithoutPidfile == \A v \in alive : v = cmd \/ Doomed(v) \/ Recording(v)

\* The pid file is needed for a VM of an earlier daemon only: it has stopped mattering when
\* this daemon has launched a VM, and when a stop is about to remove it.
PidfileSpent ==
  (launched > 1 \/ \E p \in Procs : pc[p] = "rmpid") => FoundWithoutPidfile

\* The VM of an earlier daemon wrote its files before this daemon began.
LegacyWrote == 1 \in wrote /\ launched >= 1

\* The inductive invariant.
IInv ==
  /\ Types /\ StarterOwnsCmd /\ NothingLeft /\ OnlyRecorded /\ PidfileSpent /\ LegacyWrote
  /\ OneVM /\ NoStrayVM

\* The state in which the daemon begins satisfies the inductive invariant.
LEMMA InitInv == Init => IInv
  BY SMT DEF Init, IInv, Types, StarterOwnsCmd, NothingLeft, OnlyRecorded, PidfileSpent, LegacyWrote,
         FoundWithoutPidfile, OneVM, NoStrayVM, Doomed, Recording, Procs,
         StackPcs, StartPcs, None

\* A step that kills VMs, takes nothing from k.cmd and moves nobody keeps the invariant, and so
\* does one that changes only what the invariant does not mention.
LEMMA FewerVMsInv ==
  ASSUME IInv, alive' \subseteq alive, wrote \subseteq wrote',
         UNCHANGED <<launched, pidfile, cmd, pc, held>>
  PROVE  IInv'
<1>1. Types' /\ StarterOwnsCmd' /\ LegacyWrote'
  BY DEF IInv, Types, StarterOwnsCmd, LegacyWrote
<1>2. \A v : (Doomed(v) => Doomed(v)') /\ (Recording(v) => Recording(v)')
  BY DEF Doomed, Recording
<1>3. NothingLeft' /\ OnlyRecorded' /\ PidfileSpent'
  BY <1>2 DEF IInv, NothingLeft, OnlyRecorded, PidfileSpent, FoundWithoutPidfile
<1>4. OneVM' /\ NoStrayVM'
  BY <1>2 DEF IInv, OneVM, NoStrayVM
<1> QED
  BY <1>1, <1>3, <1>4 DEF IInv

\* A step that only moves one goroutine, between places the invariant does not mention, keeps
\* the invariant.
LEMMA MoveInv ==
  ASSUME IInv, NEW p \in Procs, pc[p] \notin {"kill", "record", "rmpid"},
         NEW l \in {"idle", "probe", "attach", "take", "setup"}, pc' = [pc EXCEPT ![p] = l],
         UNCHANGED <<launched, alive, wrote, pidfile, cmd, held>>
  PROVE  IInv'
<1> USE DEF StackPcs, StartPcs
<1>1. Types
  BY DEF IInv
<1>2. \A v : (Doomed(v) => Doomed(v)') /\ (Recording(v) => Recording(v)')
  BY <1>1 DEF Doomed, Recording, Types, Procs
<1>3. Types'
  BY <1>1 DEF Types
<1>4. StarterOwnsCmd' /\ LegacyWrote' /\ NothingLeft' /\ OnlyRecorded'
  BY <1>1, <1>2 DEF IInv, Types, StarterOwnsCmd, LegacyWrote, NothingLeft, OnlyRecorded, Procs
<1>5. PidfileSpent'
  BY <1>1, <1>2 DEF IInv, Types, PidfileSpent, FoundWithoutPidfile
<1>6. OneVM' /\ NoStrayVM'
  BY <1>2 DEF IInv, OneVM, NoStrayVM
<1> QED
  BY <1>3, <1>4, <1>5, <1>6 DEF IInv

\* A step of a VM or of its Wait goroutine keeps the invariant.
LEMMA VMStepInv ==
  ASSUME IInv, NEW v \in VMs,
         VMWritesFiles(v) \/ VMBoots(v) \/ VMCrashes(v) \/ WaitReturns(v)
  PROVE  IInv'
<1>1. CASE VMWritesFiles(v)
  <2>1. /\ v \in alive \ wrote
        /\ wrote' = wrote \cup {v}
        /\ UNCHANGED <<launched, alive, cmd, pc, held>>
    BY <1>1 DEF VMWritesFiles
  <2>2. launched > 1
    BY <2>1, SMT DEF IInv, Types, LegacyWrote
  <2>3. FoundWithoutPidfile
    BY <2>2 DEF IInv, PidfileSpent
  <2>4. \A w : Doomed(w)' = Doomed(w) /\ Recording(w)' = Recording(w)
    BY <2>1 DEF Doomed, Recording
  <2>5. Types' /\ StarterOwnsCmd' /\ LegacyWrote'
    BY <2>1 DEF IInv, Types, StarterOwnsCmd, LegacyWrote
  <2>6. NothingLeft' /\ OnlyRecorded' /\ PidfileSpent'
    BY <2>1, <2>3, <2>4 DEF IInv, NothingLeft, OnlyRecorded, PidfileSpent, FoundWithoutPidfile
  <2>7. OneVM' /\ NoStrayVM'
    BY <2>1, <2>3, <2>4 DEF IInv, OneVM, NoStrayVM, FoundWithoutPidfile
  <2> QED
    BY <2>5, <2>6, <2>7 DEF IInv
<1>2. CASE VMBoots(v) \/ VMCrashes(v) \/ WaitReturns(v)
  <2>1. alive' \subseteq alive /\ UNCHANGED <<launched, wrote, pidfile, cmd, pc, held>>
    BY <1>2 DEF VMBoots, VMCrashes, WaitReturns, Kill, vmVars, fileVars
  <2> QED
    BY <2>1, FewerVMsInv
<1> QED
  BY <1>1, <1>2

\* A step of stopKrunkitStack keeps the invariant, whoever runs it.
LEMMA StackInv ==
  ASSUME IInv, NEW p \in Procs, StopKrunkitStack(p)
  PROVE  IInv'
<1> USE DEF StackPcs, StartPcs
<1>1. Types
  BY DEF IInv
<1>2. CASE StackTakes(p)
  <2>1. /\ pc[p] = "take" /\ pc' = [pc EXCEPT ![p] = "kill"]
        /\ held' = [held EXCEPT ![p] = cmd] /\ cmd' = None
        /\ UNCHANGED <<launched, alive, wrote, pidfile>>
    BY <1>2 DEF StackTakes, Goto, vmVars, fileVars
  <2>2. cmd \in 0..MaxVMs
    BY <1>1 DEF Types
  <2>3. \A v : (Doomed(v) => Doomed(v)') /\ (v = cmd => Doomed(v)') /\ (Recording(v) => Recording(v)')
    BY <1>1, <2>1 DEF Doomed, Recording, Types, Procs
  <2>4. Types' /\ StarterOwnsCmd' /\ LegacyWrote'
    BY <2>1, <2>2, SMT DEF IInv, Types, StarterOwnsCmd, LegacyWrote, None
  <2>5. NothingLeft' /\ OnlyRecorded' /\ PidfileSpent'
    BY <1>1, <2>1, <2>3
       DEF IInv, Types, NothingLeft, OnlyRecorded, PidfileSpent, FoundWithoutPidfile, Procs
  <2>6. OneVM' /\ NoStrayVM'
    BY <2>1, <2>3 DEF IInv, OneVM, NoStrayVM
  <2> QED
    BY <2>4, <2>5, <2>6 DEF IInv
<1>3. CASE StackKills(p)
  <2>1. /\ pc[p] = "kill" /\ pc' = [pc EXCEPT ![p] = "killpid"]
        /\ held' = [held EXCEPT ![p] = None] /\ alive' = alive \ {held[p]}
        /\ UNCHANGED <<launched, wrote, pidfile, cmd>>
    BY <1>3 DEF StackKills, Kill, Goto, fileVars
  <2>2. \A v \in alive' : (Doomed(v) => Doomed(v)') /\ (Recording(v) => Recording(v)')
    BY <1>1, <2>1 DEF Doomed, Recording, Types, Procs
  <2>3. Types' /\ StarterOwnsCmd' /\ LegacyWrote'
    <3>1. alive' \in SUBSET (1..launched')
      BY <1>1, <2>1 DEF Types
    <3>2. pc' \in [Procs -> {"idle", "unlink"} \cup StackPcs \cup StartPcs]
      BY <1>1, <2>1 DEF Types
    <3>3. held' \in [Procs -> 0..MaxVMs]
      BY <1>1, <2>1, SMT DEF Types, None
    <3>4. Types'
      BY <1>1, <2>1, <3>1, <3>2, <3>3 DEF Types
    <3>5. StarterOwnsCmd' /\ LegacyWrote'
      BY <1>1, <2>1 DEF IInv, Types, StarterOwnsCmd, LegacyWrote, Procs
    <3> QED
      BY <3>4, <3>5
  <2>4. NothingLeft' /\ OnlyRecorded' /\ PidfileSpent'
    BY <1>1, <2>1, <2>2
       DEF IInv, Types, NothingLeft, OnlyRecorded, PidfileSpent, FoundWithoutPidfile, Procs
  <2>5. OneVM' /\ NoStrayVM'
    BY <2>1, <2>2 DEF IInv, OneVM, NoStrayVM
  <2> QED
    BY <2>3, <2>4, <2>5 DEF IInv
<1>4. CASE StackKillsPidfile(p)
  <2>1. /\ pc[p] = "killpid" /\ pc' = [pc EXCEPT ![p] = "rmpid"]
        /\ alive' = alive \ {pidfile}
        /\ UNCHANGED <<launched, wrote, pidfile, cmd, held>>
    BY <1>4 DEF StackKillsPidfile, Kill, Goto, fileVars
  <2>2. \A v : (Doomed(v) => Doomed(v)') /\ (Recording(v) => Recording(v)')
    BY <1>1, <2>1 DEF Doomed, Recording, Types, Procs
  <2>3. FoundWithoutPidfile'
    BY <2>1, <2>2 DEF IInv, NoStrayVM, FoundWithoutPidfile
  <2>4. Types' /\ StarterOwnsCmd' /\ LegacyWrote'
    <3>1. alive' \in SUBSET (1..launched')
      BY <1>1, <2>1 DEF Types
    <3>2. pc' \in [Procs -> {"idle", "unlink"} \cup StackPcs \cup StartPcs]
      BY <1>1, <2>1 DEF Types
    <3>3. Types'
      BY <1>1, <2>1, <3>1, <3>2 DEF Types
    <3>4. StarterOwnsCmd' /\ LegacyWrote'
      BY <1>1, <2>1 DEF IInv, Types, StarterOwnsCmd, LegacyWrote, Procs
    <3> QED
      BY <3>3, <3>4
  <2>5. NothingLeft'
    <3>1. CASE p = Starter
      <4>1. cmd' = None /\ pc'[Starter] = "rmpid"
        BY <1>1, <2>1, <3>1 DEF IInv, Types, StarterOwnsCmd, Procs
      <4>2. None \notin alive'
        BY <1>1, <2>1, SMT DEF Types, None
      <4> QED
        BY <2>3, <4>1, <4>2 DEF NothingLeft, FoundWithoutPidfile, Recording
    <3>2. CASE p # Starter
      BY <1>1, <2>1, <2>2, <3>2 DEF IInv, Types, NothingLeft, Procs
    <3> QED
      BY <3>1, <3>2
  <2>6. OnlyRecorded' /\ PidfileSpent'
    BY <1>1, <2>1, <2>2, <2>3 DEF IInv, Types, OnlyRecorded, PidfileSpent, Procs
  <2>7. OneVM' /\ NoStrayVM'
    BY <2>1, <2>2 DEF IInv, OneVM, NoStrayVM
  <2> QED
    BY <2>4, <2>5, <2>6, <2>7 DEF IInv
<1>5. CASE StackRemovesPidfile(p)
  <2>1. /\ pc[p] = "rmpid" /\ pc' = [pc EXCEPT ![p] = AfterStack(p)]
        /\ UNCHANGED <<launched, alive, wrote, cmd, held>>
    BY <1>5 DEF StackRemovesPidfile, Goto, vmVars
  <2>2. AfterStack(p) \in {"unlink", "fail", "launch"} /\ (p # Starter => AfterStack(p) = "unlink")
    BY DEF AfterStack
  <2>3. \A v : (Doomed(v) => Doomed(v)') /\ (Recording(v) => Recording(v)')
    BY <1>1, <2>1 DEF Doomed, Recording, Types, Procs
  <2>4. FoundWithoutPidfile /\ FoundWithoutPidfile'
    BY <2>1, <2>3 DEF IInv, PidfileSpent, FoundWithoutPidfile
  <2>5. Types' /\ StarterOwnsCmd' /\ LegacyWrote'
    BY <2>1, <2>2, SMT DEF IInv, Types, StarterOwnsCmd, LegacyWrote
  <2>6. NothingLeft' /\ OnlyRecorded'
    BY <1>1, <2>1, <2>2, <2>3 DEF IInv, Types, NothingLeft, OnlyRecorded, Procs
  <2>7. PidfileSpent' /\ OneVM' /\ NoStrayVM'
    BY <2>1, <2>3, <2>4 DEF IInv, PidfileSpent, OneVM, NoStrayVM, FoundWithoutPidfile
  <2> QED
    BY <2>5, <2>6, <2>7 DEF IInv
<1> QED
  BY <1>2, <1>3, <1>4, <1>5 DEF StopKrunkitStack

\* A step of Start keeps the invariant.
LEMMA StartInv ==
  ASSUME IInv, Start
  PROVE  IInv'
<1> USE DEF StackPcs, StartPcs
<1>1. Types /\ Starter \in Procs
  BY DEF IInv, Procs
<1>2. CASE StartLaunches
  <2>1. /\ pc[Starter] = "launch" /\ pc' = [pc EXCEPT ![Starter] = "record"]
        /\ launched < MaxVMs /\ launched' = launched + 1 /\ alive' = alive \cup {launched + 1}
        /\ held' = [held EXCEPT ![Starter] = launched + 1]
        /\ UNCHANGED <<wrote, pidfile, cmd>>
    BY <1>2 DEF StartLaunches, Goto
  <2>2. \A v : Doomed(v) => Doomed(v)'
    BY <1>1, <2>1 DEF Doomed, Types
  <2>3. \A v : v = launched + 1 => Recording(v)'
    BY <1>1, <2>1 DEF Recording, Types
  <2>4. \A v \in alive : Doomed(v)
    BY <2>1 DEF IInv, NothingLeft
  <2>5. Types'
    <3>1. launched + 1 \in 0..MaxVMs
      BY <1>1, <2>1, SMT DEF Types
    <3>2. alive' \in SUBSET (1..launched')
      BY <1>1, <2>1, SMT DEF Types
    <3>3. pc' \in [Procs -> {"idle", "unlink"} \cup StackPcs \cup StartPcs]
      BY <1>1, <2>1 DEF Types
    <3>4. held' \in [Procs -> 0..MaxVMs]
      BY <1>1, <2>1, <3>1 DEF Types
    <3> QED
      BY <1>1, <2>1, <3>1, <3>2, <3>3, <3>4 DEF Types
  <2>6. StarterOwnsCmd' /\ LegacyWrote'
    BY <1>1, <2>1, SMT DEF IInv, Types, StarterOwnsCmd, LegacyWrote
  <2>7. NothingLeft' /\ OnlyRecorded' /\ PidfileSpent'
    BY <1>1, <2>1, <2>2, <2>3, <2>4
       DEF Types, NothingLeft, OnlyRecorded, PidfileSpent, FoundWithoutPidfile
  <2>8. OneVM' /\ NoStrayVM'
    BY <2>1, <2>2, <2>3, <2>4 DEF OneVM, NoStrayVM
  <2> QED
    BY <2>5, <2>6, <2>7, <2>8 DEF IInv
<1>3. CASE StartRecords
  <2>1. /\ pc[Starter] = "record" /\ pc' = [pc EXCEPT ![Starter] = "await"]
        /\ cmd' = held[Starter] /\ held' = [held EXCEPT ![Starter] = None]
        /\ UNCHANGED <<launched, alive, wrote, pidfile>>
    BY <1>3 DEF StartRecords, Goto, vmVars, fileVars
  <2>2. \A v : (Doomed(v) => Doomed(v)') /\ (Recording(v) => v = cmd')
    BY <1>1, <2>1 DEF Doomed, Recording, Types
  <2>3. FoundWithoutPidfile'
    BY <2>1, <2>2 DEF IInv, OnlyRecorded, FoundWithoutPidfile
  <2>4. Types'
    <3>1. pc' \in [Procs -> {"idle", "unlink"} \cup StackPcs \cup StartPcs]
      BY <1>1, <2>1 DEF Types
    <3>2. held' \in [Procs -> 0..MaxVMs] /\ cmd' \in 0..MaxVMs
      BY <1>1, <2>1, SMT DEF Types, None
    <3> QED
      BY <1>1, <2>1, <3>1, <3>2 DEF Types
  <2>5. StarterOwnsCmd' /\ LegacyWrote' /\ NothingLeft' /\ OnlyRecorded'
    BY <1>1, <2>1 DEF IInv, Types, StarterOwnsCmd, LegacyWrote, NothingLeft, OnlyRecorded
  <2>6. PidfileSpent' /\ NoStrayVM'
    BY <2>3 DEF PidfileSpent, NoStrayVM, FoundWithoutPidfile
  <2>7. OneVM'
    BY <2>1, <2>2 DEF IInv, OneVM
  <2> QED
    BY <2>4, <2>5, <2>6, <2>7 DEF IInv
<1>4. CASE StartBegins \/ StartReturnsError \/ StartProbes \/ StartLaunchFails \/ StartAwaits
           \/ StartFinishes
  <2>1. /\ UNCHANGED <<launched, alive, wrote, pidfile, cmd, held>>
        /\ \E l \in {"idle", "probe", "attach", "take", "setup"} : pc' = [pc EXCEPT ![Starter] = l]
        /\ pc[Starter] \notin {"kill", "record", "rmpid"}
    BY <1>4 DEF StartBegins, StartReturnsError, StartProbes, StartLaunchFails, StartAwaits,
                StartFinishes, Goto, vmVars, fileVars
  <2> QED
    BY <1>1, <2>1, MoveInv
<1> QED
  BY <1>2, <1>3, <1>4 DEF Start

\* Every step keeps the invariant.
LEMMA NextInv == IInv /\ [Next]_vars => IInv'
<1> SUFFICES ASSUME IInv, [Next]_vars PROVE IInv'
  OBVIOUS
<1>1. CASE \E v \in VMs : VMWritesFiles(v) \/ VMBoots(v) \/ VMCrashes(v) \/ WaitReturns(v)
  BY <1>1, VMStepInv
<1>2. CASE \E p \in Procs : StopKrunkitStack(p)
  BY <1>2, StackInv
<1>3. CASE Start
  BY <1>3, StartInv
<1>4. ASSUME NEW s \in Stoppers, ForceStopBegins(s) \/ ForceStopUnlinks(s)
      PROVE  IInv'
  <2>1. /\ UNCHANGED <<launched, alive, wrote, pidfile, cmd, held>>
        /\ \E l \in {"idle", "take"} : pc' = [pc EXCEPT ![s] = l]
        /\ pc[s] \notin {"kill", "record", "rmpid"}
    BY <1>4 DEF ForceStopBegins, ForceStopUnlinks, Goto, vmVars, fileVars
  <2> QED
    BY <2>1, MoveInv DEF Procs
<1>5. ASSUME NEW q \in Probers, Status(q)
      PROVE  IInv'
  <2>1. UNCHANGED <<launched, alive, wrote, pidfile, cmd, pc, held>>
    BY <1>5 DEF Status, StatusReads, StatusPings, StatusStores, vmVars, fileVars
  <2> QED
    BY <2>1, FewerVMsInv
<1>6. CASE UNCHANGED vars
  <2>1. UNCHANGED <<launched, alive, wrote, pidfile, cmd, pc, held>>
    BY <1>6 DEF vars, vmVars, fileVars
  <2> QED
    BY <2>1, FewerVMsInv
<1> QED
  BY <1>1, <1>2, <1>3, <1>4, <1>5, <1>6 DEF Next

\* Whatever the starts, stops, crashes and status calls do, the inductive invariant holds.
THEOREM Invariance == Spec => []IInv
  BY InitInv, NextInv, PTL DEF Spec

\* Two VMs never share the guest disk: Start boots a VM only after stopKrunkitStack, and no
\* other VM is left then but one that a ForceStop has already taken and is about to kill.
THEOREM OneVMAlways == Spec => []OneVM
<1>1. IInv => OneVM
  BY DEF IInv
<1> QED
  BY <1>1, Invariance, PTL

\* No VM gets out of reach of stopKrunkitStack, although k.cmd is cleared before the kill and
\* the pid file is removed by stops that run beside a start.
THEOREM NoStrayVMAlways == Spec => []NoStrayVM
<1>1. IInv => NoStrayVM
  BY DEF IInv
<1> QED
  BY <1>1, Invariance, PTL

-----------------------------------------------------------------------------
(* Types.                                                                  *)

\* What TypeOK says beyond Types, and that Start records the VM it has launched.
Rest ==
  /\ wrote \in SUBSET (1..launched)
  /\ ready \in SUBSET (alive \cap wrote)
  /\ pidfile \in 0..MaxVMs /\ sock \in 0..MaxVMs
  /\ waits \in SUBSET VMs
  /\ started \in BOOLEAN /\ starting \in BOOLEAN /\ failed \in BOOLEAN
  /\ prober \in [Probers -> {"idle", "ping", "store"}]
  /\ pc[Starter] = "record" => held[Starter] # None

\* Every step keeps the part of the types that the inductive invariant does not contain.
LEMMA NextRest ==
  ASSUME Types, Rest, [Next]_vars
  PROVE  Rest'
<1> USE DEF Types, Rest, None, VMs, Procs, vmVars, fileVars, flagVars
<1>1. ASSUME NEW v \in VMs, VMWritesFiles(v) PROVE Rest'
  BY <1>1, SMT DEF VMWritesFiles
<1>2. ASSUME NEW v \in VMs, VMBoots(v) PROVE Rest'
  BY <1>2 DEF VMBoots
<1>3. ASSUME NEW v \in VMs, VMCrashes(v) PROVE Rest'
  BY <1>3 DEF VMCrashes, Kill
<1>4. ASSUME NEW v \in VMs, WaitReturns(v) PROVE Rest'
  BY <1>4 DEF WaitReturns
<1>5. ASSUME NEW p \in Procs, StackTakes(p) PROVE Rest'
  BY <1>5 DEF StackTakes, Goto
<1>6. ASSUME NEW p \in Procs, StackKills(p) PROVE Rest'
  BY <1>6 DEF StackKills, Goto, Kill
<1>7. ASSUME NEW p \in Procs, StackKillsPidfile(p) PROVE Rest'
  BY <1>7 DEF StackKillsPidfile, Goto, Kill
<1>8. ASSUME NEW p \in Procs, StackRemovesPidfile(p) PROVE Rest'
  BY <1>8, SMT DEF StackRemovesPidfile, Goto, AfterStack
<1>9. CASE StartBegins
  BY <1>9 DEF StartBegins, Goto
<1>10. CASE StartReturnsError
  <2>1. sock' \in 0..MaxVMs /\ pc'[Starter] # "record"
    BY <1>10, SMT DEF StartReturnsError, Goto
  <2> QED BY <1>10, <2>1 DEF StartReturnsError
<1>11. CASE StartProbes
  BY <1>11 DEF StartProbes, Goto
<1>12. CASE StartLaunches
  <2>1. 1..launched \subseteq 1..launched' /\ held'[Starter] # None
    BY <1>12, SMT DEF StartLaunches
  <2> QED BY <1>12, <2>1, SMT DEF StartLaunches
<1>13. CASE StartLaunchFails
  BY <1>13, SMT DEF StartLaunchFails, Goto
<1>14. CASE StartRecords
  <2>1. held[Starter] \in VMs
    BY <1>14, SMT DEF StartRecords
  <2> QED BY <1>14, <2>1 DEF StartRecords, Goto
<1>15. CASE StartAwaits
  BY <1>15 DEF StartAwaits, Goto
<1>16. CASE StartFinishes
  BY <1>16 DEF StartFinishes, Goto
<1>17. ASSUME NEW s \in Stoppers, ForceStopBegins(s) PROVE Rest'
  BY <1>17 DEF ForceStopBegins, Goto
<1>18. ASSUME NEW s \in Stoppers, ForceStopUnlinks(s) PROVE Rest'
  BY <1>18, SMT DEF ForceStopUnlinks, Goto
<1>19. ASSUME NEW q \in Probers, StatusReads(q) PROVE Rest'
  BY <1>19 DEF StatusReads, ProberAt
<1>20. ASSUME NEW q \in Probers, StatusPings(q) PROVE Rest'
  BY <1>20 DEF StatusPings, ProberAt
<1>21. ASSUME NEW q \in Probers, StatusStores(q) PROVE Rest'
  BY <1>21 DEF StatusStores, ProberAt
<1>22. CASE UNCHANGED vars
  BY <1>22 DEF vars
<1>23. ASSUME NEW p \in Procs, StopKrunkitStack(p) PROVE Rest'
  BY <1>5, <1>6, <1>7, <1>8, <1>23 DEF StopKrunkitStack
<1>24. CASE Start
  BY <1>9, <1>10, <1>11, <1>12, <1>13, <1>14, <1>15, <1>16, <1>24 DEF Start
<1>25. ASSUME NEW q \in Probers, Status(q) PROVE Rest'
  BY <1>19, <1>20, <1>21, <1>25 DEF Status
<1> QED BY <1>1, <1>2, <1>3, <1>4, <1>17, <1>18, <1>22, <1>23, <1>24, <1>25 DEF Next

\* Every variable of the engine keeps its type; dockerd answers only in a VM that runs and has
\* written its files.
THEOREM TypesAlways == Spec => []TypeOK
<1>1. Init => Rest
  <2> SUFFICES ASSUME Init PROVE Rest
    OBVIOUS
  <2>1. pc[Starter] = "idle"
    BY DEF Init, Procs
  <2>2. alive \in SUBSET {1} /\ wrote = {1} /\ launched = 1 /\ ready = alive /\ {1} \subseteq 1..1
    BY SMT DEF Init
  <2>3. pidfile \in 0..MaxVMs /\ sock \in 0..MaxVMs
    BY SMT DEF Init, None
  <2>4. ready \in SUBSET (alive \cap wrote) /\ wrote \in SUBSET (1..launched)
    BY <2>2
  <2>5. prober \in [Probers -> {"idle", "ping", "store"}] /\ waits \in SUBSET VMs
    BY DEF Init
  <2>6. started \in BOOLEAN /\ starting \in BOOLEAN /\ failed \in BOOLEAN
    BY DEF Init
  <2> QED BY <2>1, <2>3, <2>4, <2>5, <2>6 DEF Rest
<1>2. IInv /\ Rest /\ [Next]_vars => Rest'
  BY NextRest DEF IInv
<1>3. IInv /\ Rest => TypeOK
  BY DEF IInv, Types, Rest, TypeOK
<1> QED BY <1>1, <1>2, <1>3, Invariance, PTL DEF Spec

-----------------------------------------------------------------------------
(* WakeGate.                                                               *)

USE ConnsAssumption, SlotsAssumption

\* The slot the start itself holds.
Own == IF flight \in Pings THEN 1 ELSE 0

\* The inductive invariant.
GateInv == GateTypeOK /\ GateBalanced

\* The connections that hold a slot are a finite set.
LEMMA HoldersFinite ==
  /\ IsFiniteSet(Holders) /\ Cardinality(Holders) \in Nat
  /\ IsFiniteSet(Holders') /\ Cardinality(Holders') \in Nat
<1>1. Holders \subseteq Conns /\ Holders' \subseteq Conns
  BY DEF Holders
<1>2. IsFiniteSet(Holders) /\ IsFiniteSet(Holders')
  BY <1>1, FS_Subset
<1> QED
  BY <1>2, FS_CardinalityType

\* The balance is kept when the gate changes as the number of its holders does.
LEMMA BalanceKept ==
  ASSUME GateBalanced,
         gate' - gate = (Cardinality(Holders') + Own') - (Cardinality(Holders) + Own),
         gate \in Nat, gate' \in Nat
  PROVE  GateBalanced'
<1>1. gate = Cardinality(Holders) + Own
  BY DEF GateBalanced, Own
<1>2. Own \in Nat /\ Own' \in Nat
  BY DEF Own
<1>3. gate' = Cardinality(Holders') + Own'
  BY <1>1, <1>2, HoldersFinite, SMT
<1> QED
  BY <1>3 DEF GateBalanced, Own

\* A step of a connection keeps the invariant.
LEMMA ConnInv ==
  ASSUME GateInv, NEW c \in Conns, Conn(c)
  PROVE  GateInv'
<1>1. GateTypeOK /\ GateBalanced /\ gate \in Nat
  BY SMT DEF GateInv, GateTypeOK
<1>3. CASE Accept(c) \/ Probe(c) \/ Wake(c) \/ Redial(c)
  <2>1. gate' = gate /\ Own' = Own /\ GateTypeOK'
    BY <1>1, <1>3 DEF Accept, Probe, Wake, Redial, ConnAt, GateTypeOK, Own, Pings
  <2>2. Holders' = Holders
    BY <1>1, <1>3 DEF Accept, Probe, Wake, Redial, ConnAt, GateTypeOK, Holders
  <2> QED
    BY <1>1, <2>1, <2>2, HoldersFinite DEF GateInv, GateBalanced, Own
<1>4. CASE Acquire(c)
  <2>1. gate' = gate + 1 /\ Own' = Own /\ GateTypeOK'
    BY <1>1, <1>4, SMT DEF Acquire, AcquireEngineConn, ConnAt, GateTypeOK, Own
  <2>2. c \notin Holders /\ Holders' = Holders \cup {c}
    BY <1>1, <1>4 DEF Acquire, ConnAt, GateTypeOK, Holders
  <2>3. Cardinality(Holders') = Cardinality(Holders) + 1
    BY <2>2, HoldersFinite, FS_AddElement
  <2>4. Own \in Nat
    BY DEF Own
  <2>5. GateBalanced'
    BY <1>1, <2>1, <2>3, <2>4, HoldersFinite, BalanceKept, SMT
  <2> QED
    BY <2>1, <2>5 DEF GateInv
<1>5. CASE Leave(c)
  <2>1. c \in Holders /\ Holders' = Holders \ {c} /\ Own' = Own
    BY <1>1, <1>5 DEF Leave, ConnAt, GateTypeOK, Holders, Own
  <2>2. Cardinality(Holders') = Cardinality(Holders) - 1
    BY <2>1, HoldersFinite, FS_RemoveElement
  <2>3. Own \in Nat
    BY DEF Own
  <2>4. gate = Cardinality(Holders) + Own
    BY <1>1 DEF GateBalanced, Own
  <2>5. gate > 0 /\ gate' = gate - 1
    BY <1>1, <1>5, <2>2, <2>3, <2>4, HoldersFinite, SMT DEF Leave, ReleaseEngineConn
  <2>6. GateTypeOK'
    BY <1>1, <1>5, <2>5, SMT DEF Leave, ConnAt, GateTypeOK
  <2>7. GateBalanced'
    BY <1>1, <2>1, <2>2, <2>3, <2>5, HoldersFinite, BalanceKept, SMT
  <2> QED
    BY <2>6, <2>7 DEF GateInv
<1> QED
  BY <1>3, <1>4, <1>5 DEF Conn

\* A step that leaves the holders alone and moves the gate with the start's own slot keeps
\* the invariant.
LEMMA OwnSlotInv ==
  ASSUME GateInv, GateTypeOK', Holders' = Holders, gate' - gate = Own' - Own
  PROVE  GateInv'
<1>1. gate \in Nat /\ gate' \in Nat /\ GateBalanced
  BY SMT DEF GateInv, GateTypeOK
<1>2. Own \in Nat /\ Own' \in Nat
  BY DEF Own
<1>3. gate' - gate = (Cardinality(Holders') + Own') - (Cardinality(Holders) + Own)
  BY <1>1, <1>2, HoldersFinite, SMT
<1>4. GateBalanced'
  BY <1>1, <1>3, BalanceKept
<1> QED
  BY <1>4 DEF GateInv

\* The start tells its waiters; they keep their slots.
LEMMA FinishKeepsHolders ==
  ASSUME GateTypeOK, NEW told \in {"redial", "refused"}, Finish(told)
  PROVE  /\ Holders' = Holders /\ flight' = "none"
         /\ conn' \in [Conns -> {"idle", "acquire", "probe", "wake", "wait", "redial", "refused",
                                 "proxy"}]
  BY DEF Finish, Holders, GateTypeOK

\* A slot the start holds is in the gate.
LEMMA OwnSlotTaken ==
  ASSUME GateInv, flight \in Pings
  PROVE  gate > 0 /\ Own = 1
<1>1. gate = Cardinality(Holders) + 1
  BY DEF GateInv, GateBalanced
<1> QED
  BY <1>1, HoldersFinite, SMT DEF Own

\* A step of the start keeps the invariant.
LEMMA FlightInv ==
  ASSUME GateInv, Flight
  PROVE  GateInv'
<1>1. GateTypeOK /\ gate \in Nat
  BY SMT DEF GateInv, GateTypeOK
<1>2. ASSUME NEW from, NEW to \in Pings, from \notin Pings, PingBegins(from, to)
      PROVE  GateInv'
  <2>1. GateTypeOK' /\ Holders' = Holders
    BY <1>1, <1>2, SMT DEF PingBegins, AcquireEngineConn, GateTypeOK, Holders
  <2>2. gate' = gate + 1 /\ Own = 0 /\ Own' = 1
    BY <1>1, <1>2 DEF PingBegins, AcquireEngineConn, Own
  <2> QED
    BY <1>1, <2>1, <2>2, OwnSlotInv, SMT
<1>3. CASE ProbeGivesUp \/ Launch \/ AwaitDeadline \/ SetupDeadline
  <2>1. gate' = gate /\ Own = 0
    BY <1>3 DEF ProbeGivesUp, Launch, AwaitDeadline, SetupDeadline, Own, Pings
  <2>2. Holders' = Holders /\ GateTypeOK' /\ Own' = 0
    <3>1. CASE ProbeGivesUp \/ (Launch /\ flight' = "await")
      BY <1>1, <3>1 DEF ProbeGivesUp, Launch, Finish, GateTypeOK, Holders, Own, Pings
    <3>2. CASE (Launch /\ flight' # "await") \/ AwaitDeadline \/ SetupDeadline
      <4>1. \E told \in {"redial", "refused"} : Finish(told)
        BY <3>2 DEF Launch, AwaitDeadline, SetupDeadline
      <4>2. vm' \in {"off", "boot", "up"}
        BY <1>1, <3>2 DEF Launch, AwaitDeadline, SetupDeadline, GateTypeOK
      <4> QED
        BY <1>1, <2>1, <4>1, <4>2, FinishKeepsHolders DEF GateTypeOK, Own, Pings
    <3> QED
      BY <1>3, <3>1, <3>2
  <2> QED
    BY <1>1, <2>1, <2>2, OwnSlotInv, SMT
<1>4. CASE ProbeAnswers \/ AwaitAnswers \/ SetupEnds
  <2>1. gate > 0 /\ Own = 1
    BY <1>4, OwnSlotTaken DEF ProbeAnswers, AwaitAnswers, SetupEnds, Pings
  <2>2. gate' = gate - 1
    BY <1>4, <2>1 DEF ProbeAnswers, AwaitAnswers, SetupEnds, ReleaseEngineConn
  <2>3. Holders' = Holders /\ GateTypeOK' /\ Own' = 0
    <3>1. gate' \in 0..Slots
      BY <1>1, <2>1, <2>2, SMT DEF GateTypeOK
    <3>2. CASE ProbeAnswers \/ AwaitAnswers
      BY <1>1, <3>1, <3>2 DEF ProbeAnswers, AwaitAnswers, GateTypeOK, Holders, Own, Pings
    <3>3. CASE SetupEnds
      <4>1. Finish("redial") /\ vm' = vm
        BY <3>3 DEF SetupEnds
      <4> QED
        BY <1>1, <3>1, <4>1, FinishKeepsHolders DEF GateTypeOK, Own, Pings
    <3> QED
      BY <1>4, <3>2, <3>3
  <2> QED
    BY <1>1, <2>1, <2>2, <2>3, OwnSlotInv, SMT
<1> QED
  BY <1>2, <1>3, <1>4 DEF Flight, Pings

\* Every step keeps the invariant.
LEMMA GateNextInv == GateInv /\ [GateNext]_gateVars => GateInv'
<1> SUFFICES ASSUME GateInv, [GateNext]_gateVars PROVE GateInv'
  OBVIOUS
<1>1. CASE \E c \in Conns : Conn(c)
  BY <1>1, ConnInv
<1>2. CASE Flight
  BY <1>2, FlightInv
<1>3. CASE HandlerEnsures \/ VMComesUp \/ VMStops \/ UNCHANGED gateVars
  <2>1. gate' = gate /\ Own' = Own /\ Holders' = Holders /\ GateTypeOK'
    BY <1>3 DEF GateInv, HandlerEnsures, VMComesUp, VMStops, gateVars, GateTypeOK, Holders, Own, Pings
  <2>2. gate \in Nat /\ Own \in Nat
    BY SMT DEF GateInv, GateTypeOK, Own
  <2> QED
    BY <2>1, <2>2, OwnSlotInv, SMT
<1> QED
  BY <1>1, <1>2, <1>3 DEF GateNext

\* The gate is empty when the daemon begins.
LEMMA GateInitInv == GateInit => GateInv
<1> SUFFICES ASSUME GateInit PROVE GateInv
  OBVIOUS
<1>1. GateTypeOK
  BY SMT DEF GateInit, GateTypeOK
<1>2. Holders = {} /\ flight \notin Pings /\ gate = 0
  BY DEF GateInit, Holders, Pings
<1> QED
  BY <1>1, <1>2, FS_EmptySet, SMT DEF GateInv, GateBalanced

\* The gate is within its capacity and holds exactly the slots of those who took one.
THEOREM GateInvariance == GateSpec => []GateInv
  BY GateInitInv, GateNextInv, PTL DEF GateSpec

\* No path through handle or through Start loses a slot or gives one back twice.
THEOREM Balance == GateSpec => []GateBalanced
<1>1. GateInv => GateBalanced
  BY DEF GateInv
<1> QED
  BY <1>1, GateInvariance, PTL

\* The guest never has more connections than slots.
THEOREM Bounded == GateSpec => []GuestConnsBounded
<1>1. GateInv => GuestConnsBounded
  <2> SUFFICES ASSUME GateInv PROVE GuestConnsBounded
    OBVIOUS
  <2> DEFINE Users == {c \in Conns : conn[c] \in {"probe", "redial", "proxy"}}
  <2>1. Users \subseteq Holders
    BY DEF Holders
  <2>2. Cardinality(Users) \in Nat /\ Cardinality(Users) <= Cardinality(Holders)
    BY <2>1, HoldersFinite, FS_Subset, FS_CardinalityType
  <2>3. gate <= Slots /\ gate \in Nat
    BY SMT DEF GateInv, GateTypeOK
  <2>4. gate = Cardinality(Holders) + Own /\ Own \in Nat
    BY DEF GateInv, GateBalanced, Own
  <2>5. Cardinality(Users) + Own <= Slots
    BY <2>2, <2>3, <2>4, HoldersFinite, SMT
  <2> QED
    BY <2>5 DEF GuestConnsBounded, Own
<1> QED
  BY <1>1, GateInvariance, PTL

-----------------------------------------------------------------------------
(* WakeGate implements SlotPool.                                           *)

\* SlotPool's cardinality is that of FiniteSets.
LEMMA SameCardinality ==
  ASSUME NEW S
  PROVE  Pool!Cardinality(S) = Cardinality(S)
BY DEF Cardinality, Pool!Cardinality

\* The length of the gate is the number of the clients that hold a slot.
LEMMA GateCounts ==
  ASSUME GateInv
  PROVE  IsFiniteSet(HoldersAndStart) /\ gate = Cardinality(HoldersAndStart)
<1>1. gate = Cardinality(Holders) + Own /\ "start" \notin Holders
  BY StartAssumption DEF GateInv, GateBalanced, Own, Holders
<1>2. CASE flight \in Pings
  <2>1. HoldersAndStart = Holders \cup {"start"} /\ Own = 1
    BY <1>2 DEF HoldersAndStart, Own
  <2> QED
    BY <1>1, <2>1, HoldersFinite, FS_AddElement
<1>3. CASE flight \notin Pings
  <2>1. HoldersAndStart = Holders /\ Own = 0
    BY <1>3 DEF HoldersAndStart, Own
  <2> QED
    BY <1>1, <2>1, HoldersFinite, SMT
<1> QED
  BY <1>2, <1>3

\* A connection takes a slot, gives its own back, or leaves the pool alone.
LEMMA ConnImplements ==
  ASSUME GateInv, NEW c \in Conns, Conn(c)
  PROVE  [Pool!Next]_HoldersAndStart
<1>1. conn \in [Conns -> {"idle", "acquire", "probe", "wake", "wait", "redial", "refused", "proxy"}]
  BY DEF GateInv, GateTypeOK
<1>2. CASE Accept(c) \/ Probe(c) \/ Redial(c)
  BY <1>1, <1>2 DEF Accept, Probe, Redial, ConnAt, HoldersAndStart, Holders
<1>3. CASE Wake(c)
  BY <1>1, <1>3 DEF Wake, ConnAt, HoldersAndStart, Holders, Pings
<1>4. CASE Acquire(c)
  <2>1. c \notin HoldersAndStart /\ HoldersAndStart' = HoldersAndStart \cup {c}
    BY <1>1, <1>4, StartAssumption DEF Acquire, ConnAt, HoldersAndStart, Holders
  <2>2. Cardinality(HoldersAndStart) < Slots
    BY <1>4, GateCounts DEF Acquire, AcquireEngineConn
  <2> QED
    BY <2>1, <2>2, SameCardinality DEF Pool!Next, Pool!Take
<1>5. CASE Leave(c)
  <2>1. c \in HoldersAndStart /\ HoldersAndStart' = HoldersAndStart \ {c}
    BY <1>1, <1>5, StartAssumption DEF Leave, ConnAt, HoldersAndStart, Holders
  <2> QED
    BY <2>1 DEF Pool!Next, Pool!Give
<1> QED
  BY <1>2, <1>3, <1>4, <1>5 DEF Conn

\* The start takes a slot for a ping or a command, gives it back, or leaves the pool alone.
LEMMA FlightImplements ==
  ASSUME GateInv, Flight
  PROVE  [Pool!Next]_HoldersAndStart
<1>1. GateTypeOK /\ "start" \notin Holders
  BY StartAssumption DEF GateInv, Holders
<1>2. ASSUME NEW from, NEW to \in Pings, from \notin Pings, PingBegins(from, to)
      PROVE  Pool!Take("start")
  <2>1. Holders' = Holders /\ flight \notin Pings /\ flight' \in Pings /\ gate < Slots
    BY <1>2 DEF PingBegins, AcquireEngineConn, Holders
  <2>2. "start" \notin HoldersAndStart /\ HoldersAndStart' = HoldersAndStart \cup {"start"}
    BY <1>1, <2>1 DEF HoldersAndStart
  <2> QED
    BY <2>1, <2>2, GateCounts, SameCardinality DEF Pool!Take
<1>3. CASE ProbeGivesUp \/ Launch \/ AwaitDeadline \/ SetupDeadline
  <2>1. flight \notin Pings /\ flight' \notin Pings
    BY <1>3 DEF ProbeGivesUp, Launch, AwaitDeadline, SetupDeadline, Finish, Pings
  <2>2. Holders' = Holders
    BY <1>1, <1>3, FinishKeepsHolders
       DEF ProbeGivesUp, Launch, AwaitDeadline, SetupDeadline, Holders
  <2> QED
    BY <2>1, <2>2 DEF HoldersAndStart
<1>4. CASE ProbeAnswers \/ AwaitAnswers \/ SetupEnds
  <2>1. flight \in Pings /\ flight' \notin Pings
    BY <1>4 DEF ProbeAnswers, AwaitAnswers, SetupEnds, Finish, Pings
  <2>2. Holders' = Holders
    BY <1>1, <1>4, FinishKeepsHolders DEF ProbeAnswers, AwaitAnswers, SetupEnds, Holders
  <2>3. "start" \in HoldersAndStart /\ HoldersAndStart' = HoldersAndStart \ {"start"}
    BY <1>1, <2>1, <2>2 DEF HoldersAndStart
  <2> QED
    BY <2>3 DEF Pool!Next, Pool!Give
<1> QED
  BY <1>2, <1>3, <1>4 DEF Flight, Pings, Pool!Next

\* engineConnGate, which only counts, implements a pool of slots with owners, for any number
\* of connections and slots.
THEOREM PoolImplementation == GateSpec => ImplementsPool
<1>1. GateInit => Pool!Init
  BY DEF GateInit, Pool!Init, HoldersAndStart, Holders, Pings
<1>2. GateInv /\ [GateNext]_gateVars => [Pool!Next]_HoldersAndStart
  <2> SUFFICES ASSUME GateInv, [GateNext]_gateVars PROVE [Pool!Next]_HoldersAndStart
    OBVIOUS
  <2>1. CASE HandlerEnsures \/ VMComesUp \/ VMStops \/ UNCHANGED gateVars
    BY <2>1 DEF HandlerEnsures, VMComesUp, VMStops, gateVars, HoldersAndStart, Holders, Pings
  <2> QED
    BY <2>1, ConnImplements, FlightImplements DEF GateNext
<1> QED
  BY <1>1, <1>2, GateInvariance, PTL DEF GateSpec, ImplementsPool, Pool!Spec

=============================================================================
