---------------------------- MODULE BuildRecords ----------------------------
(***************************************************************************)
(* The build records of the daemon and its settings, and what changes them *)
(* (backend/internal/daemon/builds.go, build_sync.go, troubleshoot.go,     *)
(* backend/internal/buildstore, backend/internal/buildhistory,             *)
(* backend/internal/config and the handlers of builds and configuration):  *)
(* build jobs, the import of the engine's build history, the enrichment of *)
(* a record for a client, imported records of a migration, the purge of    *)
(* the data, the factory reset, and a restart.                             *)
(*                                                                         *)
(* BuildsMu makes each list operation one step; what is read before a      *)
(* docker command and written after it is two.  config.yaml is written in  *)
(* place: it is cut to nothing and then filled, with CfgMu held or not.    *)
(***************************************************************************)
EXTENDS Naturals, Sequences, FiniteSets, Functions

CONSTANTS MaxBuilds,    \* records kept
          MaxMade,      \* bound: builds and history rows
          MaxRows,      \* bound: history rows at a time
          MaxEvents,    \* bound: restarts, resets, new settings and failed writes
          MaxTotal      \* bound: all of these together

ASSUME MaxBuildsAssumption == MaxBuilds \in Nat \ {0}
ASSUME MaxMadeAssumption == MaxMade \in Nat \ {0}
ASSUME MaxRowsAssumption == MaxRows \in Nat

NoRef == 0
Details == {"context", "log"}   \* what enrichment fills in

VARIABLES
  builds, seq,      \* the records in memory, newest first, and BuildSeq
  file,             \* builds.json
  jobs,             \* RunBuildJob: a set of [id, gen]
  rows,             \* the history of the engine
  sync,             \* the goroutine of StartBuildSync
  request,          \* a client that reads one record and enriches it
  reset,            \* a purge or a factory reset
  cfg, cfgFile,     \* the settings in memory and config.yaml
  put,              \* an applyConfigUpdate that writes it; lost: after its removal
  made, events, restarts,
  history           \* history variables of the properties

store == <<builds, seq, file>>
config == <<cfg, cfgFile, put>>
vars == <<store, jobs, rows, sync, request, reset, config, made, events, restarts, history>>

\* gen orders builds by their creation; by is the job that wrote the outcome.
Build(kind, n, ref, status, gen) ==
  [id |-> <<kind, n>>, ref |-> ref, status |-> status, known |-> {}, gen |-> gen, by |-> 0]

NoFile == [builds |-> <<>>, seq |-> 0]
NoSync == [pc |-> "idle", rows |-> {}, changes |-> {}, imports |-> <<>>]
NoReset == [pc |-> "idle", kind |-> "none"]
Idle == [pc |-> "idle", copy |-> {}]
IsTerminal(status) == status = "over"   \* success or failed

\* zero: with a size of 0, which is in use as such and saved as the default.
Settings == {"default", "custom", "zero"}
ConfigFiles == {"missing", "torn", "default", "custom"}
WithDefaults(c) == IF c = "zero" THEN "default" ELSE c

TypeOK ==
  /\ Len(builds) <= MaxBuilds /\ Len(file.builds) <= MaxBuilds
  /\ \A b \in Range(builds) \cup Range(file.builds) :
       /\ b.ref \in 0..MaxMade /\ b.known \subseteq Details
       /\ b.status \in {"running", "over", "migrated"}
  /\ cfg \in Settings /\ cfgFile \in ConfigFiles /\ put \in {"idle", "write", "lost"}
  /\ sync.pc \in {"idle", "listed", "apply"} /\ reset.pc \in {"idle", "files", "config", "defaults", "memory"}

\* An earlier run has left one imported record.
Init ==
  /\ builds = <<Build("history", 1, 1, "over", 1)>> /\ seq = 1 /\ file = [builds |-> builds, seq |-> 1]
  /\ jobs = {} /\ rows = {[ref |-> 1, status |-> "over", gen |-> 1]} /\ sync = NoSync /\ request = Idle /\ reset = NoReset
  /\ cfg = "custom" /\ cfgFile = cfg /\ put = "idle"
  /\ made = 1 /\ events = 0 /\ restarts = 0
  /\ history = [stale |-> FALSE, crossed |-> FALSE, reissued |-> FALSE, orphans |-> {}, late |-> {}]

-----------------------------------------------------------------------------
(* The list and its file.                                                  *)

Room == made + events < MaxTotal
Event == events < MaxEvents /\ Room /\ events' = events + 1

TrimBuilds(bs) == SubSeq(bs, 1, IF Len(bs) <= MaxBuilds THEN Len(bs) ELSE MaxBuilds)

\* builds.json is gone and the list still in memory.
HalfReset == reset.pc \in {"config", "defaults", "memory"}

\* persistBuildsLocked: written beside the file and renamed; an error is dropped.
\* A write between the two halves of a reset leaves a file the memory does not have.
Persist(bs, q, h) ==
  /\ builds' = TrimBuilds(bs) /\ seq' = q
  /\ \/ file' = [builds |-> TrimBuilds(bs), seq |-> q] /\ history' = [h EXCEPT !.stale = HalfReset]
        /\ UNCHANGED events
     \/ file' = file /\ history' = [h EXCEPT !.stale = TRUE] /\ Event

IndexOf(id) == {i \in DOMAIN builds : builds[i].id = id}
Replace(id, b) == [i \in DOMAIN builds |-> IF builds[i].id = id THEN b ELSE builds[i]]

\* Not in the code: takes the number before it is counted up.
NumberBefore == seq

\* BuildSeq
NextNumber == seq + 1

\* handleBuildsCreate: NewBuild, then RunBuildJob in a goroutine.
NewBuild ==
  /\ made < MaxMade /\ Room
  /\ made' = made + 1
  /\ LET b == Build("build", NextNumber, NoRef, "running", made') IN
     /\ Persist(<<b>> \o builds, NextNumber, history)
     /\ jobs' = jobs \cup {[id |-> b.id, gen |-> made']}
  /\ UNCHANGED <<rows, sync, request, reset, config, restarts>>

\* Not in the code: a job that failed returns before it writes the record.
JobEndsOnSuccess(j) ==
  /\ jobs' = jobs \ {j}
  /\ \/ UNCHANGED <<store, events, history>>
     \/ \E i \in IndexOf(j.id) :
          Persist(Replace(j.id, [builds[i] EXCEPT !.status = "over", !.by = j.gen]), seq, history)
  /\ UNCHANGED <<rows, sync, request, reset, config, made, restarts>>

\* The end of RunBuildJob: the record is found again by its id, if it is still there.
JobEnds(j) ==
  /\ jobs' = jobs \ {j}
  /\ \/ IndexOf(j.id) = {} /\ UNCHANGED <<store, events, history>>
     \/ \E i \in IndexOf(j.id) :
          Persist(Replace(j.id, [builds[i] EXCEPT !.status = "over", !.by = j.gen]), seq, history)
  /\ UNCHANGED <<rows, sync, request, reset, config, made, restarts>>

\* One is enough to share the numbers with the others.
AddMigratedBuild ==
  /\ made < MaxMade /\ Room /\ \A b \in Range(builds) : b.status # "migrated"
  /\ made' = made + 1
  /\ Persist(<<Build("migrated", NextNumber, NoRef, "migrated", made')>> \o builds, NextNumber, history)
  /\ UNCHANGED <<jobs, rows, sync, request, reset, config, restarts>>

-----------------------------------------------------------------------------
(* The history of the engine and syncBuildHistory.                         *)

\* The engine gives every build an identifier of its own.
RowAppears ==
  /\ made < MaxMade /\ Room /\ Cardinality(rows) < MaxRows
  /\ made' = made + 1
  /\ rows' = rows \cup {[ref |-> made', status |-> "running", gen |-> made']}
  /\ UNCHANGED <<store, jobs, sync, request, reset, config, events, restarts, history>>

RowEnds(r) ==
  /\ r.status = "running"
  /\ rows' = (rows \ {r}) \cup {[r EXCEPT !.status = "over"]}
  /\ UNCHANGED <<store, jobs, sync, request, reset, config, made, events, restarts, history>>

\* The checks and buildx history ls; no rows, or an error, end the pass.
SyncLists ==
  /\ sync.pc = "idle" /\ rows # {}
  /\ sync' = [NoSync EXCEPT !.pc = "listed", !.rows = rows]
  /\ UNCHANGED <<store, jobs, rows, request, reset, config, made, events, restarts, history>>

\* MergeRows
MergeRows(known, listed) == {r \in listed : r.ref \notin known}

\* The order of buildx history ls.
NewestFirst(S) ==
  UNION {{s \in [1..n -> S] : Range(s) = S /\ \A i, k \in 1..n : i < k => s[i].gen > s[k].gen} : n \in 0..MaxRows}

\* Not in the code: the record is made from the row again.
RebuildFromRow(b, r) == [b EXCEPT !.status = r.status, !.known = {}]

\* applyHistoryRow
ApplyHistoryRow(b, r) == [b EXCEPT !.status = r.status]

\* enrichHistoryBuild: all that its docker commands can bring, or nothing when they fail;
\* the log only of a build that is over.
EnrichHistoryBuild(b) ==
  {b, [b EXCEPT !.known = @ \cup IF IsTerminal(b.status) THEN Details ELSE {"context"}]}

\* The records with a reference are copied under the lock and enriched without it.
\* The results depend on the copies alone, so that they are computed here.
SyncEnriches ==
  LET items == {b \in Range(builds) : b.ref # NoRef}
      known == {b.ref : b \in items}
      listed(b) == {r \in sync.rows : r.ref = b.ref}
      refreshed(b) == IF listed(b) = {} THEN {b}
                      ELSE UNION {EnrichHistoryBuild(ApplyHistoryRow(b, r)) : r \in listed(b)}
      imported(r) == EnrichHistoryBuild(Build("history", 0, r.ref, r.status, r.gen)) IN
  /\ sync.pc = "listed"
  /\ \E new \in NewestFirst(MergeRows(known, sync.rows)) :
     \E f \in [items -> UNION {refreshed(b) : b \in items}] :
     \E imports \in [DOMAIN new -> UNION {imported(r) : r \in sync.rows}] :
       /\ \A b \in items : f[b] \in refreshed(b)
       /\ \A i \in DOMAIN new : imports[i] \in imported(new[i])
       /\ sync' = [NoSync EXCEPT !.pc = "apply", !.changes = {f[b] : b \in items} \ items, !.imports = imports]
  /\ history' = [history EXCEPT !.late = {}]
  /\ UNCHANGED <<store, jobs, rows, request, reset, config, made, events, restarts>>

\* The records are replaced by the enriched copies and the imports put in front.
SyncApplies ==
  LET updated == [i \in DOMAIN builds |->
                    IF \E c \in sync.changes : c.id = builds[i].id
                    THEN CHOOSE c \in sync.changes : c.id = builds[i].id ELSE builds[i]]
      numbered == [i \in DOMAIN sync.imports |-> [sync.imports[i] EXCEPT !.id = <<"history", seq + i>>]] IN
  /\ sync.pc = "apply"
  /\ sync' = NoSync
  /\ IF sync.changes = {} /\ numbered = <<>> THEN UNCHANGED <<store, events, history>>
     ELSE Persist(numbered \o updated, seq + Len(numbered), [history EXCEPT !.late = {}])
  /\ UNCHANGED <<jobs, rows, request, reset, config, made, restarts>>

-----------------------------------------------------------------------------
(* A client reads a record and has it enriched.                            *)

GetBuild ==
  /\ request.pc = "idle"
  /\ \E b \in Range(builds) :
       /\ b.ref # NoRef /\ b.known # Details
       /\ request' = [pc |-> "enrich", copy |-> {b}]
  /\ UNCHANGED <<store, jobs, rows, sync, reset, config, made, events, restarts, history>>

\* applyBuildEnrichment: fills in what the record still lacks.
ApplyBuildEnrichment(b, enriched) == [b EXCEPT !.known = @ \cup enriched.known]

\* EnrichHistoryBuildIfNeeded after its docker commands
EnrichHistoryBuildIfNeeded ==
  /\ request.pc = "enrich"
  /\ request' = Idle
  /\ \E b \in request.copy : \E enriched \in EnrichHistoryBuild(b) :
       \/ (enriched = b \/ IndexOf(b.id) = {}) /\ UNCHANGED <<store, events, history>>
       \/ \E i \in IndexOf(b.id) :
            /\ enriched # b
            /\ Persist(Replace(b.id, ApplyBuildEnrichment(builds[i], enriched)), seq,
                       [history EXCEPT !.late = @ \cup {b.id}])
  /\ UNCHANGED <<jobs, rows, sync, reset, config, made, restarts>>

\* Not in the code: the paths are kept in memory only.
UpdateWithoutSave ==
  /\ request.pc = "enrich"
  /\ request' = Idle
  /\ \E b \in request.copy : \E i \in IndexOf(b.id) :
       builds' = Replace(b.id, [builds[i] EXCEPT !.known = @ \cup {"context"}])
  /\ UNCHANGED <<seq, file, history, jobs, rows, sync, reset, config, made, events, restarts>>

\* handleBuildSource: the resolved paths are written to the record.
UpdateBuildSourcePaths ==
  /\ request.pc = "enrich"
  /\ request' = Idle
  /\ \E b \in request.copy :
       /\ "context" \notin b.known
       /\ \E i \in IndexOf(b.id) :
            Persist(Replace(b.id, [builds[i] EXCEPT !.known = @ \cup {"context"}]), seq,
                    [history EXCEPT !.late = @ \cup {b.id}])
  /\ UNCHANGED <<jobs, rows, sync, reset, config, made, restarts>>

-----------------------------------------------------------------------------
(* Settings, purge and factory reset.                                      *)

\* os.WriteFile fills the file it has cut to nothing; over what another writer has
\* put there in between it may leave a mixture.
Fill(mine) == cfgFile' = mine \/ (cfgFile \notin {"torn", mine} /\ cfgFile' = "torn")

\* applyConfigUpdate takes CfgMu and changes the memory, and Save opens the file; the
\* change stays in memory when Save fails.
ConfigPut ==
  /\ put = "idle" /\ Event
  /\ cfg' \in Settings
  /\ \/ cfgFile' = "torn" /\ put' = "write" /\ UNCHANGED history
     \/ history' = [history EXCEPT !.crossed = TRUE] /\ UNCHANGED <<cfgFile, put>>
  /\ UNCHANGED <<store, jobs, rows, sync, request, reset, made, restarts>>

\* Save writes the settings with the defaults filled in; the write may fail.
ConfigSaved ==
  /\ put # "idle" /\ put' = "idle"
  /\ \/ /\ put = "write" /\ Fill(WithDefaults(cfg))
        /\ history' = [history EXCEPT !.crossed = reset.kind = "factory" /\ reset.pc \in {"defaults", "memory"}]
        /\ UNCHANGED events
     \/ put = "write" /\ history' = [history EXCEPT !.crossed = TRUE] /\ Event /\ UNCHANGED cfgFile
     \/ put = "lost" /\ UNCHANGED <<cfgFile, history, events>>
  /\ UNCHANGED <<store, jobs, rows, sync, request, reset, cfg, made, restarts>>

\* The engine has been stopped.
StartReset ==
  /\ reset.pc = "idle" /\ Event
  /\ \E kind \in {"purge", "factory"} : reset' = [pc |-> "files", kind |-> kind]
  /\ UNCHANGED <<store, jobs, rows, sync, request, config, made, restarts, history>>

\* config.yaml is removed or not; what was opened before is written to no avail.
ConfigRemoved(gone) ==
  /\ cfgFile' = IF gone THEN "missing" ELSE cfgFile
  /\ put' = IF gone /\ put = "write" THEN "lost" ELSE put

\* The guest directory and builds.json, or everything in the configuration directory.
RemoveFiles ==
  /\ reset.pc = "files"
  /\ file' = NoFile /\ rows' = {}
  /\ reset' = [reset EXCEPT !.pc = IF reset.kind = "purge" THEN "memory" ELSE "config"]
  /\ ConfigRemoved(reset.kind = "factory")
  /\ history' = [history EXCEPT !.stale = FALSE]
  /\ UNCHANGED <<builds, seq, jobs, sync, request, cfg, made, events, restarts>>

\* A removal, or the save of the defaults, fails: what is gone stays gone.  The purge takes
\* the guest directory first, the factory reset the entries in the order of their names.
ResetFails ==
  LET gone == IF reset.pc # "files" THEN {{}}
              ELSE IF reset.kind = "purge" THEN {{}, {"guest"}}
              ELSE {{}, {"builds"}, {"builds", "config"}} IN
  /\ reset.pc \in {"files", "config", "defaults"}
  /\ reset' = NoReset
  /\ \E S \in gone :
       /\ rows' = IF "guest" \in S THEN {} ELSE rows
       /\ file' = IF "builds" \in S THEN NoFile ELSE file
       /\ ConfigRemoved("config" \in S)
       /\ history' = [history EXCEPT !.stale = @ \/ "builds" \in S \/ reset.pc # "files",
                                     !.crossed = @ \/ "config" \in S \/ reset.pc # "files"]
  /\ UNCHANGED <<builds, seq, jobs, sync, request, cfg, made, events, restarts>>

\* FactoryReset saves the defaults without CfgMu.
OpenDefaults ==
  /\ reset.pc = "config"
  /\ cfgFile' = "torn"
  /\ reset' = [reset EXCEPT !.pc = "defaults"]
  /\ UNCHANGED <<store, jobs, rows, sync, request, cfg, put, made, events, restarts, history>>

SaveDefaults ==
  /\ reset.pc = "defaults"
  /\ Fill("default")
  /\ reset' = [reset EXCEPT !.pc = "memory"]
  /\ history' = [history EXCEPT !.crossed = cfgFile' # "default"]
  /\ UNCHANGED <<store, jobs, rows, sync, request, cfg, put, made, events, restarts>>

\* The defaults are taken over under CfgMu, and the list is emptied under BuildsMu.
ClearMemory ==
  /\ reset.pc = "memory" /\ (reset.kind = "factory" => put = "idle")
  /\ builds' = <<>> /\ seq' = 0
  /\ cfg' = IF reset.kind = "factory" THEN "default" ELSE cfg
  /\ reset' = NoReset
  /\ history' = [history EXCEPT !.reissued = @ \/ jobs # {}]
  /\ UNCHANGED <<file, jobs, rows, sync, request, cfgFile, put, made, events, restarts>>

\* The process ends at any moment and starts again: loadBuilds and config.Load, which
\* takes the default for what a torn file lacks.
Restart ==
  /\ Event
  /\ restarts' = restarts + 1
  /\ jobs' = {} /\ sync' = NoSync /\ request' = Idle /\ reset' = NoReset /\ put' = "idle"
  /\ \/ /\ builds' = file.builds /\ seq' = file.seq
        /\ history' = [stale |-> FALSE, crossed |-> cfgFile = "torn", reissued |-> history.reissued, late |-> {},
                       orphans |-> {b.gen : b \in {c \in Range(file.builds) : c.status = "running"}}]
     \/ /\ builds' = <<>> /\ seq' = 0
        /\ history' = [stale |-> TRUE, crossed |-> cfgFile = "torn", reissued |-> history.reissued, late |-> {}, orphans |-> {}]
  /\ cfg' \in CASE cfgFile = "missing" -> {"default"}
                [] cfgFile = "torn" -> {"default", "custom"}
                [] OTHER -> {cfgFile}
  /\ cfgFile' = IF cfgFile = "missing" THEN "default" ELSE cfgFile
  /\ UNCHANGED <<file, rows, made>>

Next ==
  \/ NewBuild \/ AddMigratedBuild \/ \E j \in jobs : JobEnds(j)
  \/ RowAppears
  \/ \E r \in rows : RowEnds(r)
  \/ SyncLists \/ SyncEnriches \/ SyncApplies
  \/ GetBuild \/ UpdateBuildSourcePaths \/ EnrichHistoryBuildIfNeeded
  \/ ConfigPut \/ ConfigSaved
  \/ StartReset \/ RemoveFiles \/ ResetFails \/ OpenDefaults \/ SaveDefaults \/ ClearMemory \/ Restart

Spec == Init /\ [][Next]_vars

-----------------------------------------------------------------------------
(* Properties.                                                             *)

\* builds.json holds the list in memory, and config.yaml the settings in memory with the
\* defaults for its zeros, so that a restart changes no more than these zeros; save while
\* config.yaml is being written or a reset runs, after a write that failed or was cut short
\* by a crash, and after one that fell between the two halves of a reset
\* (persistBuildsLocked, applyConfigUpdate, config.Save, PurgeData, FactoryReset).
FilesAreCurrent ==
  /\ file = [builds |-> builds, seq |-> seq] \/ history.stale \/ HalfReset
  /\ cfgFile = WithDefaults(cfg) \/ history.crossed \/ put # "idle" \/ (reset.kind = "factory" /\ HalfReset)

\* Not true of the code: config.yaml is written in place, and a crash or a failed write
\* leaves it torn.
SettingsAreWhole == put = "idle" /\ reset.pc = "idle" => cfgFile # "torn"

\* The outcome of a record is that of its own job: the ids that RunBuildJob finds its record
\* by are not given out twice, save by a reset while a job runs.
OwnOutcome == \A b \in Range(builds) : b.by \in {0, b.gen} \/ history.reissued

\* Not true of the code: PurgeData takes BuildSeq back to zero while a job runs, whose end is
\* then written into a later build of the same id.
OutcomeAlwaysOwn == \A b \in Range(builds) : b.by \in {0, b.gen}

\* A record that says running has a job that will write its end, unless the daemon was
\* restarted in between.
RunningHasJob ==
  \A b \in Range(builds) : (b.ref = NoRef /\ b.status = "running")
     => (b.gen \in history.orphans \/ \E j \in jobs : j.id = b.id)

\* Not true of the code: a crash ends the jobs, and nothing corrects the records that the next
\* start reads as running.
RunningAlwaysHasJob ==
  \A b \in Range(builds) : (b.ref = NoRef /\ b.status = "running") => \E j \in jobs : j.id = b.id

Same(b, c) == b.id = c.id /\ b.gen = c.gen

\* What enrichment has found stays in a record, unless it was found between the copy and
\* the write of syncBuildHistory, which writes its copy back.
DetailsKept ==
  [][restarts' = restarts =>
       \A b \in Range(builds), c \in Range(builds') :
         Same(b, c) => (b.known \subseteq c.known \/ (sync.pc = "apply" /\ b.id \in history.late))]_builds

\* Not true of the code: syncBuildHistory writes its copy over details that GetBuildEnriched
\* found meanwhile.
DetailsAlwaysKept ==
  [][restarts' = restarts =>
       \A b \in Range(builds), c \in Range(builds') : Same(b, c) => b.known \subseteq c.known]_builds

\* The builds that are dropped are older than those that are kept, as trimBuilds says.
KeepsNewest ==
  [][(restarts' = restarts /\ reset' = reset) =>
       \A b \in Range(builds), c \in Range(builds') :
         (\A d \in Range(builds') : ~Same(b, d)) => c.gen > b.gen]_builds

=============================================================================
