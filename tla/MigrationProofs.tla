-------------------------- MODULE MigrationProofs ---------------------------
(***************************************************************************)
(* A proxy setting settles, the user's choice of a Docker context is kept, *)
(* what a migration stops it starts again, and a migration without warnings*)
(* has copied everything: for any proxies, memory, budgets, images,        *)
(* volumes, containers and projects.                                       *)
(***************************************************************************)
EXTENDS MigrationCopyProofs, FiniteSetTheorems

USE Zenon

-----------------------------------------------------------------------------
(* Counting.                                                               *)

\* Counting holds, by the library's theorems about finite sets.
LEMMA Counts == Counting
<1>1. \A S, T : IsFiniteSet(S) /\ IsFiniteSet(T) /\ S \cap T = {} =>
        Cardinality(S \cup T) = Cardinality(S) + Cardinality(T)
  <2> SUFFICES ASSUME NEW S, NEW T, IsFiniteSet(S), IsFiniteSet(T), S \cap T = {}
               PROVE  Cardinality(S \cup T) = Cardinality(S) + Cardinality(T)
    OBVIOUS
  <2>1. Cardinality(S \cap T) = 0 /\ Cardinality(S) \in Nat /\ Cardinality(T) \in Nat
    BY FS_EmptySet, FS_CardinalityType
  <2>2. Cardinality(S \cup T) = Cardinality(S) + Cardinality(T) - Cardinality(S \cap T)
    BY FS_Union
  <2> QED BY <2>1, <2>2, SMT
<1>2. \A S, e : IsFiniteSet(S) /\ e \notin S => Cardinality(S \cup {e}) = Cardinality(S) + 1
  BY FS_AddElement
<1>3. \A S : IsFiniteSet(S) => \A T \in SUBSET S :
        /\ IsFiniteSet(T) /\ Cardinality(T) <= Cardinality(S)
        /\ Cardinality(T) = Cardinality(S) => T = S
  BY FS_Subset
<1> QED BY <1>1, <1>2, <1>3, FS_EmptySet, FS_CardinalityType, SMT DEF Counting

-----------------------------------------------------------------------------
(* The theorems.                                                           *)


\* The inductive invariant: of the settings, of the context and of the imports.
IInv == ConfigInv /\ ContextTypeOK /\ MigInv

\* A migration that copies sizes keeps it.
LEMMA SizesInv == ASSUME ConfigInv, NEW n, MigrateConfig(n) PROVE ConfigInv'
<1>1. /\ cfg \in Configs /\ file \in Configs /\ inGuest \in Proxies /\ up \in BOOLEAN
      /\ disturbed \in BOOLEAN /\ appliers \in Seq(Appliers) /\ requests \subseteq Requests
  BY DEF ConfigInv, ConfigTypeOK
<1>2. CASE UNCHANGED configVars
  BY <1>2, ConfigIdleInv
<1>3. ASSUME NEW halves \in 0..(2 * HostMemory), StoreSizes(Settings(halves)),
             file' = WithDefaults([cfg EXCEPT !.swap = Settings(halves)]) \/ file' = file,
             UNCHANGED <<up, stored, inGuest, appliers, requests, disturbed>>
      PROVE  ConfigInv'
  <2> DEFINE new == [cfg EXCEPT !.swap = Settings(halves)]
  <2>1. halves \in Nat /\ halves <= 2 * HostMemory
    BY <1>3, SMT
  <2>2. Settings(halves) \in 0..HostMemory
    BY <2>1, HostAssumption, SMT DEF Settings, DefaultSwap
  <2>3. new \in Configs /\ new.proxy = cfg.proxy
    BY <1>1, <2>2 DEF Configs
  <2>4. cfg' = new
    BY <1>3 DEF StoreSizes
  <2>8. file' = WithDefaults(new) \/ file' = file
    BY <1>3
  <2> HIDE DEF new
  <2>5. file' \in Configs /\ (file'.proxy = new.proxy \/ file' = file)
    BY <1>1, <2>3, <2>8, DefaultsFilled
  <2>7. Settled'
    BY <1>3, <2>3, <2>4, <2>5, SMT DEF ConfigInv, Settled
  <2> QED BY <1>1, <1>3, <2>3, <2>4, <2>5, <2>7, SMT DEF ConfigInv, ConfigTypeOK
<1>4. \/ UNCHANGED configVars
      \/ \E halves \in 0..(2 * HostMemory) :
           /\ StoreSizes(Settings(halves))
           /\ file' = WithDefaults([cfg EXCEPT !.swap = Settings(halves)]) \/ file' = file
           /\ UNCHANGED <<up, stored, inGuest, appliers, requests, disturbed>>
  BY DEF MigrateConfig, Save, configVars
<1> QED BY <1>2, <1>3, <1>4

\* A step of the goroutine of a migration keeps it, and the user's choice of a context.
LEMMA RunInv == ASSUME IInv, NEW n \in 1..Len(mig), Run(n) PROVE IInv' /\ (~cfg'.managed => Keeps)
<1>1. ContextTypeOK /\ ConfigInv /\ MigInv
  BY DEF IInv
<1>2. CASE Copy(n) /\ UNCHANGED contextVars
  <2>1. ContextTypeOK' /\ Keeps
    BY <1>1, <1>2, ContextIdleInv
  <2>2. MigInv'
    BY <1>1, <1>2, CopyInv, Counts
  <2>3. MigrateConfig(n) \/ UNCHANGED configVars
    BY <1>2 DEF Copy, Preflight, ListImages, ExportItem, LoadImage, ListVolumes, CreateVolume, ImportVolume,
                ListContainers, StopOnSource, GroupContainers, MigrateCompose, MigrateSingle, RestartOnSource,
                MigrateBuilds
  <2>4. ConfigInv'
    BY <1>1, <2>3, SizesInv, ConfigIdleInv
  <2> QED BY <2>1, <2>2, <2>4 DEF IInv
<1>3. CASE End(n)
  <2>1. MigInv'
    BY <1>1, <1>3, EndInv
  <2>2. UNCHANGED configVars
    BY <1>3 DEF End
  <2>3. cfg' = cfg
    BY <2>2 DEF configVars
  <2>4. Activate("migration", cfg.managed) \/ UNCHANGED contextVars
    BY <1>3 DEF End, Finish, Release
  <2>5. "migration" \in Workers
    BY DEF Workers
  <2>6. ASSUME Activate("migration", cfg.managed) PROVE ContextTypeOK' /\ (~cfg'.managed => Keeps)
    BY <1>1, <2>3, <2>5, <2>6, ActivateInv
  <2>7. ContextTypeOK' /\ (~cfg'.managed => Keeps)
    BY <1>1, <2>4, <2>6, ContextIdleInv
  <2>8. ConfigInv'
    BY <1>1, <2>2, ConfigIdleInv
  <2> QED BY <2>1, <2>7, <2>8 DEF IInv
<1> QED BY <1>2, <1>3 DEF Run

\* handleConfigPut, in both halves, keeps it and the user's choice.
LEMMA PutInv ==
  ASSUME IInv, PutConfig, UNCHANGED migVars
  PROVE  IInv' /\ (~cfg'.managed => Keeps)
<1>1. ContextTypeOK /\ ConfigInv /\ MigInv'
  BY MigIdleInv DEF IInv
<1>2. ASSUME NEW c \in Clients, CheckUpdate(c), UNCHANGED contextVars PROVE IInv' /\ (~cfg'.managed => Keeps)
  BY <1>1, <1>2, CheckInv, ContextIdleInv DEF IInv
<1>3. ASSUME NEW r \in requests, NEW ok \in BOOLEAN, ApplyConfigUpdate(r, ok),
             Activate(r.client, ok /\ cfg'.managed)
      PROVE  IInv' /\ (~cfg'.managed => Keeps)
  <2>1. r.client \in Workers
    BY <1>1 DEF ConfigInv, ConfigTypeOK, Requests, Workers
  <2>2. ConfigInv'
    BY <1>1, <1>3, UpdateInv
  <2>3. ContextTypeOK' /\ (~cfg'.managed => Keeps)
    BY <1>1, <1>3, <2>1, ActivateInv
  <2> QED BY <1>1, <2>2, <2>3 DEF IInv
<1> QED BY <1>2, <1>3 DEF PutConfig

\* Every step keeps the three parts together, and the user's choice while the setting is off.
LEMMA NextInv ==
  ASSUME IInv, [Next]_vars
  PROVE  IInv' /\ (~cfg.managed /\ ~cfg'.managed => Keeps)
<1>1. ContextTypeOK /\ ConfigInv /\ MigInv
  BY DEF IInv
<1>2. ASSUME NEW n \in 1..Len(mig), Run(n) PROVE IInv' /\ (~cfg'.managed => Keeps)
  BY <1>2, RunInv
<1>3. CASE MigrationNext /\ UNCHANGED <<configVars, contextVars>>
  <2>1. MigInv'
    BY <1>1, <1>3, TryStartInv, ContextOverInv, UserTogglesInv, SMT DEF MigrationNext
  <2>2. ConfigInv' /\ ContextTypeOK' /\ Keeps
    BY <1>1, <1>3, ConfigIdleInv, ContextIdleInv
  <2> QED BY <2>1, <2>2 DEF IInv
<1>4. CASE ConfigNext /\ UNCHANGED <<contextVars, migVars>>
  <2>1. ConfigInv'
    BY <1>1, <1>4, ConfigNextInv
  <2>2. MigInv' /\ ContextTypeOK' /\ Keeps
    BY <1>1, <1>4, MigIdleInv, ContextIdleInv
  <2> QED BY <2>1, <2>2 DEF IInv
<1>5. CASE PutConfig /\ UNCHANGED migVars
  BY <1>5, PutInv
<1>6. CASE ManagerNext
  <2>1. ContextNext /\ UNCHANGED <<configVars, migVars>>
    BY <1>6 DEF ManagerNext
  <2>2. cfg' = cfg /\ ConfigInv' /\ MigInv'
    BY <1>1, <2>1, ConfigIdleInv, MigIdleInv DEF configVars
  <2>3. ContextTypeOK' /\ (~cfg.managed => Keeps)
    BY <1>1, <2>1, <2>2, ContextNextInv
  <2> QED BY <2>2, <2>3 DEF IInv
<1>7. CASE Crash
  <2>1. RestartConfig /\ RestartContext
    BY <1>7 DEF Crash
  <2> QED BY <1>1, <1>7, <2>1, CrashInv, RestartConfigInv, RestartContextInv, SMT DEF IInv
<1>8. CASE UNCHANGED vars
  <2>1. UNCHANGED configVars /\ UNCHANGED contextVars /\ UNCHANGED migVars
    BY <1>8 DEF vars
  <2> QED BY <1>1, <2>1, ConfigIdleInv, ContextIdleInv, MigIdleInv DEF IInv
<1> QED BY <1>2, <1>3, <1>4, <1>5, <1>6, <1>7, <1>8 DEF Next

\* The inductive invariant of the configuration, the Docker context and the migrations.
THEOREM Inductive == Spec => []IInv
<1>1. Init => IInv
  <2> SUFFICES ASSUME Init PROVE IInv
    OBVIOUS
  <2>1. ConfigInv /\ MigInv
    BY ConfigInitInv, MigInitInv DEF Init
  <2>2. ContextTypeOK
    BY DEF Init, ContextInit, ContextTypeOK, Steps
  <2> QED BY <2>1, <2>2 DEF IInv
<1>2. IInv /\ [Next]_vars => IInv'
  BY NextInv
<1> QED BY <1>1, <1>2, PTL DEF Spec

\* Type correctness: of the configuration and the goroutines that apply it, of the Docker
\* context's files and workers, of the migrations and the two engines.
THEOREM TypeCorrect == Spec => []TypeOK
<1>1. IInv => TypeOK
  <2> SUFFICES ASSUME IInv PROVE TypeOK
    OBVIOUS
  <2>1. ConfigTypeOK /\ ContextTypeOK
    BY DEF IInv, ConfigInv
  <2>2. MigTypes /\ mig \in Seq(MigRecords)
    BY DEF IInv, MigInv, MigTypes
  <2>3. ASSUME NEW n \in DOMAIN mig
        PROVE  mig[n].pc \in Pcs /\ mig[n].stopped \subseteq mig[n].ran /\ mig[n].ran \subseteq mig[n].seen
    <3>1. n \in 1..Len(mig) /\ mig[n] \in MigRecords
      BY <2>2, SMT
    <3> QED BY <3>1 DEF IInv, MigInv, MigRecords
  <2>4. /\ status.phase \in {"idle", "running", "failed", "completed"} /\ calf.images \subseteq Images
        /\ calf.volumes \in [Volumes -> {"none", "empty", "part", "whole"}]
        /\ calf.containers \in [Containers -> {"none", "created", "running"}]
    BY <2>2 DEF MigTypes, Statuses, Phases, Engines
  <2>5. flag \in BOOLEAN /\ spoiled \in BOOLEAN /\ source \in [Containers -> BOOLEAN]
    BY <2>2 DEF MigTypes
  <2> QED BY <2>1, <2>3, <2>4, <2>5 DEF TypeOK, MigrationTypeOK
<1> QED BY <1>1, Inductive, PTL

\* handleConfigPut, Krunkit.Start: once the goroutines of a proxy change are over, an engine
\* that runs has the setting in use, if the latest change had a goroutine, met no other setting
\* on its way, and did not fail.
THEOREM ProxyChangeSettles == Spec => []ProxySettles
<1>1. IInv => ProxySettles
  BY SMT DEF IInv, ConfigInv, ConfigTypeOK, Settled, ProxySettles
<1> QED BY <1>1, Inductive, PTL

\* ensure, handleConfigPut, RunDockerDesktopMigration: while the setting is off no further call
\* sets out to select calf's context, and each selection is the last act of a call that had seen
\* the setting on.
THEOREM UserKeepsContext == Spec => ChoiceKept
<1>1. IInv /\ [Next]_vars =>
        [~cfg.managed /\ ~cfg'.managed =>
           /\ Committed' \subseteq Committed
           /\ context # "calf" /\ context' = "calf" => Committed' # Committed]_<<cfg, context, worker>>
  BY NextInv DEF Keeps
<1> QED BY <1>1, Inductive, PTL DEF Spec, ChoiceKept

\* migrateContainers and its deferred function: whichever commands fail, between migrations a
\* container that ran still does, unless compose brought up its project on calf.
THEOREM StopsAreMadeUpFor == Spec => []StoppedOnlyForCompose
<1>1. IInv => StoppedOnlyForCompose
  <2> SUFFICES ASSUME IInv, ~flag, ~spoiled, NEW c \in Containers \ touched
               PROVE  source[c] \/ ProjectOf[c] \in raised
    BY DEF StoppedOnlyForCompose
  <2>1. \A n \in 1..Len(mig) : mig[n].pc = "gone"
    BY DEF IInv, MigInv
  <2>2. StopOK(Gone, source, raised, touched, spoiled)
    BY <2>1 DEF IInv, MigInv
  <2>3. ~Owes(Gone, c)
    BY DEF Owes, Gone
  <2> QED BY <2>2, <2>3 DEF StopOK
<1> QED BY <1>1, Inductive, PTL

\* RunFromDockerDesktop: a migration that completes with all counts equal to the totals has
\* copied every image and every volume whole, and put every container in place.
THEOREM NoWarningMeansCopied == Spec => []CopiedUnlessWarned
<1>1. IInv => CopiedUnlessWarned
  <2> SUFFICES ASSUME IInv, Complete
               PROVE  /\ calf.images = Images
                      /\ \A v \in Volumes : calf.volumes[v] = "whole"
                      /\ \A c \in Containers : calf.containers[c] # "none"
                           \/ (ProjectOf[c] # Standalone /\ c \notin ComposeFile(ProjectOf[c]))
    BY DEF CopiedUnlessWarned
  <2>1. calf.images = Images /\ Whole(calf) = Volumes /\ Placed(calf) = Containers
    BY DEF IInv, MigInv, Copied, Complete
  <2> QED BY <2>1 DEF Whole, Placed
<1> QED BY <1>1, Inductive, PTL

=============================================================================
