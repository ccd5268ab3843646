----------------------------- MODULE Migration -----------------------------
(***************************************************************************)
(* The import from Docker Desktop (backend/internal/migration and          *)
(* daemon/migrate.go): one background goroutine that copies settings,      *)
(* images, volumes, containers and build records between two engines with  *)
(* docker commands, any of which may fail, all of which fail once its      *)
(* context is over; and the flag and the status the API shows.             *)
(*                                                                         *)
(* An image, a volume or a container is a name.  A compose project has a   *)
(* list of files, each with the containers its services make.  The build   *)
(* records themselves are the module BuildRecords.                         *)
(***************************************************************************)
EXTENDS DockerContext, FiniteSets

CONSTANTS Images, Volumes, Containers,
          ProjectOf,    \* ProjectOf[c]: the compose project of a container, or Standalone
          Standalone,
          ComposeFiles, \* ComposeFiles[p]: for each file of the project, what it makes
          Built,        \* containers whose service says build: instead of image:
          Headroom,     \* MigrationHeadroomBytes, in the size of an item
          MaxFree       \* bound: free space of calf's engine

ASSUME FiniteAssumption == IsFiniteSet(Images) /\ IsFiniteSet(Volumes) /\ IsFiniteSet(Containers)
ASSUME ProjectAssumption ==
  DOMAIN ProjectOf = Containers /\ DOMAIN ComposeFiles = {ProjectOf[c] : c \in Containers} \ {Standalone}

Members(p) == {c \in Containers : ProjectOf[c] = p}

VARIABLES
  flag,      \* Core.migrateRunning
  status,    \* Core.migrateStatus
  mig,       \* mig[n]: the goroutine of the n-th migration
  source,    \* Docker Desktop's containers: running or not
  calf,      \* what calf's engine has
  touched,   \* containers the user started or stopped (history variable)
  raised,    \* projects that compose brought up on calf (history variable)
  spoiled    \* a stop took effect and failed, a restart failed, or a migration was cut short
             \* (history variable)

migVars == <<flag, status, mig, source, calf, touched, raised, spoiled>>
vars == <<configVars, contextVars, left, migVars>>

Kinds == {"images", "volumes", "containers"}
None == [k \in Kinds |-> 0]
Status(phase) == [phase |-> phase, ok |-> None, total |-> None]
IdleStatus == Status("idle")

\* A goroutine's local state; over: its context is cancelled or timed out.
Gone == [pc |-> "gone", st |-> IdleStatus, todo |-> {}, item |-> "", over |-> FALSE,
         ran |-> {}, seen |-> {}, stopped |-> {}, migrated |-> {}]

Pcs == {"gone", "preflight", "config", "images", "image", "load", "volumes", "volume", "create",
        "import", "containers", "stop", "groups", "compose", "single", "restart", "builds",
        "finish", "release"}

Active == {n \in DOMAIN mig : mig[n].pc # "gone"}

MigrationTypeOK ==
  /\ flag \in BOOLEAN /\ spoiled \in BOOLEAN
  /\ status.phase \in {"idle", "running", "failed", "completed"}
  /\ \A n \in DOMAIN mig : mig[n].pc \in Pcs /\ mig[n].stopped \subseteq mig[n].ran
                           /\ mig[n].ran \subseteq mig[n].seen
  /\ source \in [Containers -> BOOLEAN]
  /\ calf.images \subseteq Images
  /\ calf.volumes \in [Volumes -> {"none", "empty", "part", "whole"}]
  /\ calf.containers \in [Containers -> {"none", "created", "running"}]

TypeOK == ConfigTypeOK /\ ContextTypeOK /\ MigrationTypeOK

Init ==
  /\ ConfigInit /\ ContextInit
  /\ flag = FALSE /\ status = IdleStatus
  /\ mig = <<>>
  /\ source = [c \in Containers |-> TRUE]
  /\ calf = [images |-> {}, volumes |-> [v \in Volumes |-> "none"],
             containers |-> [c \in Containers |-> "none"]]
  /\ touched = {} /\ raised = {} /\ spoiled = FALSE

-----------------------------------------------------------------------------
(* daemon/migrate.go.                                                      *)

\* Every emit writes the goroutine's status to the shared one.
Emit(n, next) == mig' = [mig EXCEPT ![n] = next] /\ status' = next.st
Goto(n, pc) == Emit(n, [mig[n] EXCEPT !.pc = pc])

\* TryStartMigration, and the goroutine its handler starts.
TryStart ==
  /\ ~flag /\ Spend("migrations")
  /\ flag' = TRUE
  /\ status' = Status("running")
  /\ mig' = Append(mig, [Gone EXCEPT !.pc = "preflight", !.st = Status("running")])
  /\ UNCHANGED <<source, calf, touched, raised, spoiled>>

Failed(m) == [m EXCEPT !.pc = "finish", !.st.phase = "failed", !.todo = {}]

\* A docker command works while the context is not over.  It may fail at any time, and
\* a failure that the context explains costs nothing of the budget.
Works(n) == ~mig[n].over /\ UNCHANGED left
Fails(n) == IF mig[n].over THEN UNCHANGED left ELSE Spend("fails")

\* The status once more; then the Docker context, with the setting as it is now.
Finish(n) ==
  /\ mig[n].pc = "finish"
  /\ Goto(n, "release")
  /\ IF mig[n].st.phase = "completed" THEN Activate("migration", cfg.managed) ELSE UNCHANGED contextVars
  /\ UNCHANGED <<flag, left>>

\* The deferred reset of the flag, when Activate is through.
Release(n) ==
  /\ mig[n].pc = "release" /\ worker["migration"] = "idle"
  /\ flag' = FALSE
  /\ mig' = [mig EXCEPT ![n] = Gone]
  /\ UNCHANGED <<status, contextVars, left>>

-----------------------------------------------------------------------------
(* docker_desktop.go and disk.go: up to the volumes.                       *)

\* estimateMigrationBytes, with items of one size.
EstimateMigration == Cardinality(Images) + Cardinality(Volumes) + Cardinality(Containers) + Headroom

\* The checks of RunFromDockerDesktop; the last compares the estimate with the free space.
Preflight(n) ==
  /\ mig[n].pc = "preflight"
  /\ \/ /\ Works(n)
        /\ \E free \in 0..MaxFree :
             Emit(n, IF free >= EstimateMigration THEN [mig[n] EXCEPT !.pc = "config"] ELSE Failed(mig[n]))
     \/ /\ Fails(n)
        /\ Emit(n, Failed(mig[n]))
  /\ UNCHANGED <<flag, source, calf, touched, raised, spoiled, configVars>>

\* readDockerDesktopSettings: whole GB of a size in MB (halves stand for MB); none gives
\* the default.
Settings(halves) == IF halves <= 0 THEN DefaultSwap ELSE halves \div 2

\* The callback copies the sizes only.
StoreSizes(swap) == cfg' = [cfg EXCEPT !.swap = swap]

\* migrateConfig: nothing without settings; a failed save fails the migration.
MigrateConfig(n) ==
  /\ mig[n].pc = "config"
  /\ \/ Goto(n, "images") /\ UNCHANGED <<configVars, left>>
     \/ /\ \E halves \in 0..(2 * HostMemory) :
             StoreSizes(Settings(halves)) /\ Save([cfg EXCEPT !.swap = Settings(halves)])
        /\ Goto(n, "images")
        /\ UNCHANGED left
     \/ /\ \E halves \in 0..(2 * HostMemory) : StoreSizes(Settings(halves))
        /\ Emit(n, Failed(mig[n]))
        /\ Spend("fails")
        /\ UNCHANGED file
  /\ UNCHANGED <<up, stored, inGuest, appliers, requests, disturbed>>
  /\ UNCHANGED <<flag, source, calf, touched, raised, spoiled>>

\* The listing that begins a part: the total is set, or the migration fails.
List(n, kind, items, pc) ==
  \/ /\ Works(n)
     /\ Emit(n, [mig[n] EXCEPT !.pc = pc, !.todo = items, !.st.total[kind] = Cardinality(items)])
  \/ /\ Fails(n)
     /\ Emit(n, Failed(mig[n]))

Counted(m, kind) == [m EXCEPT !.st.ok[kind] = @ + 1]

ListImages(n) ==
  /\ mig[n].pc = "images"
  /\ List(n, "images", Images, "image")
  /\ UNCHANGED <<flag, source, calf, touched, raised, spoiled, configVars>>

\* One pass of a loop over items: docker save, or tar in a helper container, into an archive
\* of the staging directory.
ExportItem(n, loop, next, done) ==
  /\ mig[n].pc = loop
  /\ \/ /\ mig[n].todo = {}
        /\ Goto(n, done)
        /\ UNCHANGED left
     \/ \E i \in mig[n].todo :
          \/ /\ Works(n)
             /\ Emit(n, [mig[n] EXCEPT !.pc = next, !.item = i, !.todo = @ \ {i}])
          \/ /\ Fails(n)
             /\ Emit(n, [mig[n] EXCEPT !.todo = @ \ {i}])
  /\ UNCHANGED <<flag, source, calf, touched, raised, spoiled, configVars>>

\* loadImageOnCalf
LoadImage(n) ==
  LET i == mig[n].item
      next == [mig[n] EXCEPT !.pc = "image", !.item = ""] IN
  /\ mig[n].pc = "load"
  /\ \/ Works(n) /\ calf' = [calf EXCEPT !.images = @ \cup {i}] /\ Emit(n, Counted(next, "images"))
     \/ Fails(n) /\ Emit(n, next) /\ UNCHANGED calf
  /\ UNCHANGED <<flag, source, touched, raised, spoiled, configVars>>

ListVolumes(n) ==
  /\ mig[n].pc = "volumes"
  /\ List(n, "volumes", Volumes, "volume")
  /\ UNCHANGED <<flag, source, calf, touched, raised, spoiled, configVars>>

\* createVolumeOnCalf, which is no error for a volume that exists.
CreateVolume(n) ==
  LET v == mig[n].item IN
  /\ mig[n].pc = "create"
  /\ \/ /\ Works(n)
        /\ calf' = [calf EXCEPT !.volumes[v] = IF @ = "none" THEN "empty" ELSE @]
        /\ Goto(n, "import")
     \/ /\ Fails(n)
        /\ Emit(n, [mig[n] EXCEPT !.pc = "volume", !.item = ""])
        /\ UNCHANGED calf
  /\ UNCHANGED <<flag, source, touched, raised, spoiled, configVars>>

\* Not in the code: a volume counts once it was created.
CountCreated(m, ok) == Counted(m, "volumes")

CountImported(m, ok) == IF ok THEN Counted(m, "volumes") ELSE m

\* importVolumeOnCalf: a failed tar may have unpacked part of the archive.
ImportVolume(n) ==
  LET v == mig[n].item
      next == [mig[n] EXCEPT !.pc = "volume", !.item = ""] IN
  /\ mig[n].pc = "import"
  /\ \/ /\ Works(n)
        /\ calf' = [calf EXCEPT !.volumes[v] = "whole"]
        /\ Emit(n, CountImported(next, TRUE))
     \/ /\ Fails(n)
        /\ calf' \in {calf, [calf EXCEPT !.volumes[v] = "part"]}
        /\ Emit(n, CountImported(next, FALSE))
  /\ UNCHANGED <<flag, source, touched, raised, spoiled, configVars>>

-----------------------------------------------------------------------------
(* docker_desktop.go and compose_migration.go: the containers.             *)

\* listContainerIDs, then inspectContainer for each; one that fails is left out.
ListContainers(n) ==
  LET found(S) == [mig[n] EXCEPT !.pc = "stop", !.st.total["containers"] = Cardinality(Containers),
                     !.seen = S, !.ran = {c \in S : source[c]}, !.todo = {c \in S : source[c]}] IN
  /\ mig[n].pc = "containers"
  /\ \/ Works(n) /\ Emit(n, found(Containers))
     \/ Fails(n) /\ Emit(n, Failed(mig[n]))
     \/ ~mig[n].over /\ Fails(n) /\ \E c \in Containers : Emit(n, found(Containers \ {c}))
  /\ UNCHANGED <<flag, source, calf, touched, raised, spoiled, configVars>>

\* docker stop on Docker Desktop for each container that ran when it was inspected; one
\* that fails may still have stopped it.
StopOnSource(n) ==
  /\ mig[n].pc = "stop"
  /\ \/ /\ mig[n].todo = {}
        /\ Goto(n, "groups")
        /\ UNCHANGED <<source, spoiled, left>>
     \/ \E c \in mig[n].todo :
          \/ /\ Works(n)
             /\ source' = [source EXCEPT ![c] = FALSE]
             /\ Emit(n, [mig[n] EXCEPT !.todo = @ \ {c}, !.stopped = @ \cup {c}])
             /\ UNCHANGED spoiled
          \/ /\ Fails(n)
             /\ Emit(n, [mig[n] EXCEPT !.todo = @ \ {c}])
             /\ \/ UNCHANGED <<source, spoiled>>
                \/ source' = [source EXCEPT ![c] = FALSE] /\ spoiled' = TRUE
  /\ UNCHANGED <<flag, calf, touched, raised, configVars>>

\* What the deferred function starts again: nothing but compose projects is in migrated.
Unfinished(m) == m.stopped \ m.migrated

\* Not in the code: the deferred function is registered after the mounts directory is made.
DeferLate(m) == Failed(m)

\* An error return while the deferred function is registered.
ReturnError(m) == [m EXCEPT !.pc = "restart", !.st.phase = "failed", !.todo = Unfinished(m)]

\* groupContainersByComposeProject; composeMountsRoot may fail.
GroupContainers(n) ==
  /\ mig[n].pc = "groups"
  /\ \/ /\ Emit(n, [mig[n] EXCEPT !.pc = "compose", !.todo = {ProjectOf[c] : c \in mig[n].seen} \ {Standalone}])
        /\ UNCHANGED left
     \/ /\ Spend("fails")
        /\ Emit(n, ReturnError(mig[n]))
  /\ UNCHANGED <<flag, source, calf, touched, raised, spoiled, configVars>>

\* resolveComposeFile: the first file of the project that is found is the one used.
ComposeFile(p) == Head(ComposeFiles[p])

\* stageComposeProject: there is a working directory, with a file, to copy.
Stageable(p) == ComposeFiles[p] # <<>>

\* composeServiceImages: services whose image is known from an inspected container.
ServiceImages(p, seen) == Members(p) \cap seen

\* patchComposeForMigration turns build: into image: where it knows one.
StillBuilt(p, seen) == (ComposeFile(p) \cap Built) \ ServiceImages(p, seen)

\* compose up makes what the file has; then docker stop, whose errors are ignored, halts
\* what did not run.
Composed(p, halted) ==
  [c \in Containers |-> IF c \notin ComposeFile(p) THEN calf.containers[c]
                        ELSE IF c \in halted THEN "created" ELSE "running"]

\* migrateComposeProject.  A project without files, a failed copy or patch, a build that
\* cannot be replayed and a failed `up`, which may have started some, leave the project
\* to the loop over containers.
MigrateCompose(n) ==
  LET m == mig[n] IN
  /\ m.pc = "compose"
  /\ \/ /\ m.todo = {}
        /\ Emit(n, [m EXCEPT !.pc = "single", !.todo = m.seen \ m.migrated])
        /\ UNCHANGED <<calf, raised, left>>
     \/ \E p \in m.todo :
          \/ /\ Works(n) /\ Stageable(p)
             /\ \E halted \in SUBSET (ComposeFile(p) \cap (m.seen \ m.ran)) :
                  calf' = [calf EXCEPT !.containers = Composed(p, halted)]
             /\ raised' = raised \cup {p}
             /\ Emit(n, [m EXCEPT !.todo = @ \ {p}, !.migrated = @ \cup (Members(p) \cap m.seen),
                                  !.st.ok["containers"] = @ + Cardinality(Members(p) \cap m.seen)])
          \/ /\ IF ~Stageable(p) THEN UNCHANGED left
                ELSE IF StillBuilt(p, m.seen) # {} THEN UNCHANGED left ELSE Fails(n)
             /\ \E S \in SUBSET (IF Stageable(p) /\ ~m.over THEN ComposeFile(p) ELSE {}) :
                  calf' = [calf EXCEPT !.containers = [c \in Containers |-> IF c \in S THEN "running" ELSE @[c]]]
             /\ Emit(n, [m EXCEPT !.todo = @ \ {p}])
             /\ UNCHANGED raised
  /\ UNCHANGED <<flag, source, touched, spoiled, configVars>>

\* createContainerOnCalf and start, for what no project took along.  A name in use fails.
MigrateSingle(n) ==
  LET m == mig[n] IN
  /\ m.pc = "single"
  /\ \/ /\ m.todo = {}
        /\ Emit(n, [m EXCEPT !.pc = "restart", !.todo = Unfinished(m)])
        /\ UNCHANGED <<calf, left>>
     \/ \E c \in m.todo :
          LET next == [m EXCEPT !.todo = @ \ {c}]
              made(how) == calf' = [calf EXCEPT !.containers[c] = how] IN
          \/ /\ calf.containers[c] = "none" /\ Works(n)
             /\ made(IF c \in m.ran THEN "running" ELSE "created")
             /\ Emit(n, Counted(next, "containers"))
          \/ /\ calf.containers[c] # "none"
             /\ Emit(n, next)
             /\ UNCHANGED <<calf, left>>
          \/ /\ calf.containers[c] = "none" /\ Fails(n)
             /\ Emit(n, next)
             /\ UNCHANGED calf \/ (c \in m.ran /\ ~m.over /\ made("created"))
  /\ UNCHANGED <<flag, source, touched, raised, spoiled, configVars>>

\* The deferred function of migrateContainers, on the same context.
RestartOnSource(n) ==
  LET m == mig[n] IN
  /\ m.pc = "restart"
  /\ \/ /\ m.todo = {}
        /\ Goto(n, IF m.st.phase = "failed" THEN "finish" ELSE "builds")
        /\ UNCHANGED <<source, spoiled, left>>
     \/ \E c \in m.todo :
          /\ Emit(n, [m EXCEPT !.todo = @ \ {c}])
          /\ \/ Works(n) /\ source' = [source EXCEPT ![c] = TRUE] /\ UNCHANGED spoiled
             \/ Fails(n) /\ spoiled' = TRUE /\ UNCHANGED source
  /\ UNCHANGED <<flag, calf, touched, raised, configVars>>

\* migrateBuilds never fails the migration.
MigrateBuilds(n) ==
  /\ mig[n].pc = "builds"
  /\ Emit(n, [mig[n] EXCEPT !.pc = "finish", !.st.phase = "completed"])
  /\ UNCHANGED <<flag, source, calf, touched, raised, spoiled, configVars, left>>

-----------------------------------------------------------------------------

Copy(n) ==
  \/ Preflight(n) \/ MigrateConfig(n)
  \/ ListImages(n) \/ ExportItem(n, "image", "load", "volumes") \/ LoadImage(n)
  \/ ListVolumes(n) \/ ExportItem(n, "volume", "create", "containers") \/ CreateVolume(n) \/ ImportVolume(n)
  \/ ListContainers(n) \/ StopOnSource(n) \/ GroupContainers(n) \/ MigrateCompose(n) \/ MigrateSingle(n)
  \/ RestartOnSource(n) \/ MigrateBuilds(n)

End(n) ==
  /\ Finish(n) \/ Release(n)
  /\ UNCHANGED <<source, calf, touched, raised, spoiled, configVars>>

Run(n) ==
  /\ n <= Len(mig)
  /\ (Copy(n) /\ UNCHANGED contextVars) \/ End(n)

\* BuildJobTimeout, or the end of the daemon's lifecycle context.
ContextOver(n) ==
  /\ mig[n].pc \notin {"gone", "finish", "release"} /\ ~mig[n].over
  /\ Spend("expiries")
  /\ mig' = [mig EXCEPT ![n].over = TRUE]
  /\ spoiled' = TRUE
  /\ UNCHANGED <<flag, status, source, calf, touched, raised>>

\* The user starts or stops a container on Docker Desktop.
UserToggles(c) ==
  /\ Spend("toggles")
  /\ source' = [source EXCEPT ![c] = ~@]
  /\ touched' = touched \cup {c}
  /\ UNCHANGED <<flag, status, mig, calf, raised, spoiled>>

\* The daemon dies at any point and is started again.
Crash ==
  /\ Spend("crashes")
  /\ flag' = FALSE /\ status' = IdleStatus /\ mig' = <<>>
  /\ spoiled' = (spoiled \/ Active # {})
  /\ RestartConfig /\ RestartContext
  /\ UNCHANGED <<source, calf, touched, raised>>

MigrationNext ==
  \/ TryStart
  \/ \E n \in 1..Len(mig) : ContextOver(n)
  \/ \E c \in Containers : UserToggles(c)

ManagerNext == ContextNext /\ UNCHANGED <<configVars, migVars>>

Next ==
  \/ \E n \in 1..Len(mig) : Run(n)
  \/ MigrationNext /\ UNCHANGED <<configVars, contextVars>>
  \/ ConfigNext /\ UNCHANGED <<contextVars, migVars>>
  \/ PutConfig /\ UNCHANGED migVars
  \/ ManagerNext
  \/ Crash

Spec == Init /\ [][Next]_vars

-----------------------------------------------------------------------------
(* Properties.                                                             *)

Complete == status.phase = "completed" /\ status.ok = status.total

\* A migration that reports no warnings has copied all images, all volumes whole, and
\* every container except those of a compose project that its first file does not make.
CopiedUnlessWarned ==
  Complete =>
    /\ calf.images = Images
    /\ \A v \in Volumes : calf.volumes[v] = "whole"
    /\ \A c \in Containers : calf.containers[c] # "none"
         \/ (ProjectOf[c] # Standalone /\ c \notin ComposeFile(ProjectOf[c]))

\* Between migrations, a container that ran on Docker Desktop still does, unless compose
\* brought up its project on calf: whichever commands failed in between, the deferred
\* function of migrateContainers made up for the stop.  It does not know of a stop that
\* failed after it took effect.
StoppedOnlyForCompose ==
  ~flag /\ ~spoiled =>
    \A c \in Containers \ touched : source[c] \/ ProjectOf[c] \in raised

\* Not true of the code: no one makes up for a stop that failed after it took effect, and the
\* restarts of an import that was cut short use its context, which is over.
StopsAlwaysMadeUpFor ==
  ~flag => \A c \in Containers \ touched : source[c] \/ ProjectOf[c] \in raised

\* Between migrations, a container that ran on Docker Desktop runs there or on calf.
RunStatePreserved ==
  ~flag /\ ~spoiled =>
    \A c \in Containers \ touched : source[c] \/ calf.containers[c] = "running"

=============================================================================
