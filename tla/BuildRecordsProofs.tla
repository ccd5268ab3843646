------------------------- MODULE BuildRecordsProofs -------------------------
(***************************************************************************)
(* BuildRecords, for any number of records, rows and events: the files are *)
(* current, a record gets the outcome of its own job, one that says running*)
(* has a job, and what enrichment found is kept.                           *)
(***************************************************************************)
EXTENDS BuildRecords, TLAPS

USE Zenon

-----------------------------------------------------------------------------
(* The inductive invariant.                                                *)

\* A record, a row of the history, a job; the local state of the sync and of a client.
Records ==
  [id : {"build", "history", "migrated"} \X Nat, ref : 0..MaxMade, status : {"running", "over", "migrated"},
   known : SUBSET Details, gen : Nat, by : Nat]
Rows == [ref : 1..MaxMade, status : {"running", "over"}, gen : Nat]
Jobs == [id : {"build"} \X Nat, gen : Nat]
Syncs == [pc : {"idle", "listed", "apply"}, rows : SUBSET Rows, changes : SUBSET Records, imports : Seq(Records)]
Requests == [pc : {"idle", "enrich"}, copy : SUBSET Records]
Resets == [pc : {"idle", "files", "config", "defaults", "memory"}, kind : {"none", "purge", "factory"}]
Files == [builds : Seq(Records), seq : Nat]
Histories ==
  [stale : BOOLEAN, crossed : BOOLEAN, reissued : BOOLEAN, orphans : SUBSET Nat,
   late : SUBSET ({"build", "history", "migrated"} \X Nat)]

\* The variables beside the list and its file.
Types ==
  /\ history \in Histories /\ jobs \subseteq Jobs /\ rows \subseteq Rows /\ sync \in Syncs
  /\ request \in Requests /\ reset \in Resets /\ made \in 1..MaxMade /\ restarts \in Nat
  /\ cfg \in Settings /\ cfgFile \in ConfigFiles /\ put \in {"idle", "write", "lost"}

\* A list whose numbers were given out up to q, each once.
ListOK(L, q) ==
  /\ L \in Seq(Records) /\ q \in Nat
  /\ \A i \in 1..Len(L) : L[i].id[2] <= q
  /\ \A i, k \in 1..Len(L) : L[i].id[2] = L[k].id[2] => i = k

\* Only the history of the engine has references, and no job writes its records.
Imported(b) == b.ref # NoRef => b.id[1] = "history" /\ b.by = 0

\* x: a reset met a job.
\* A record was written by its own job, or by none.
Own(b, x) == b.by \in {0, b.gen} \/ x
RecordsOK(L, x) == \A i \in 1..Len(L) : Imported(L[i]) /\ Own(L[i], x)

\* A job's number was given out, and the record that has it is the one the job was made for.
JobsOK(J, L, q, x) ==
  \A j \in J : (j.id[2] <= q \/ x) /\ \A i \in 1..Len(L) : L[i].id = j.id => (L[i].gen = j.gen \/ x)

\* o: the records that a restart found running.
RunningOK(L, J, o) ==
  \A i \in 1..Len(L) : L[i].ref = NoRef /\ L[i].status = "running" =>
    (L[i].gen \in o \/ \E j \in J : j.id = L[i].id)

\* The list in memory, with its last number and the jobs at work.
Memory(L, q, J, h) ==
  ListOK(L, q) /\ RecordsOK(L, h.reissued) /\ JobsOK(J, L, q, h.reissued) /\ RunningOK(L, J, h.orphans)

\* The file: what a restart finds.
Disk(f, h) ==
  /\ f \in Files /\ ListOK(f.builds, f.seq) /\ Len(f.builds) <= MaxBuilds
  /\ RecordsOK(f.builds, h.reissued)

\* What syncBuildHistory is about to write back knows what the list L knows, save what came late.
CopiesOK(C, L, late) ==
  \A c \in C : \A i \in 1..Len(L) : Same(L[i], c) => (L[i].known \subseteq c.known \/ L[i].id \in late)

\* A sync changes and imports only records of the engine's history.
SyncOK(s) ==
  /\ \A c \in s.changes : c.ref # NoRef /\ Imported(c)
  /\ \A i \in 1..Len(s.imports) : s.imports[i].ref # NoRef /\ Imported(s.imports[i])

\* Between its two halves a reset has removed the file and, if it is one, saved the defaults.
ResetOK ==
  /\ reset.pc = "idle" => reset = NoReset
  /\ reset.pc = "files" => reset.kind # "none"
  /\ reset.pc \in {"config", "defaults"} => reset.kind = "factory"
  /\ HalfReset => file = NoFile \/ history.stale
  /\ reset.pc = "memory" /\ reset.kind = "factory" => cfgFile = "default" \/ history.crossed \/ put = "write"

\* A request that writes config.yaml finds it as it cut it, unless a reset has filled it; and
\* one whose file is gone is followed by a reset, or known.
PutOK ==
  /\ put = "write" => cfgFile = "torn" \/ (reset.kind = "factory" /\ reset.pc = "memory")
  /\ put = "lost" => history.crossed \/ (reset.kind = "factory" /\ HalfReset)

\* The inductive invariant.
IInv ==
  /\ Types
  /\ Memory(builds, seq, jobs, history) /\ Len(builds) <= MaxBuilds /\ Disk(file, history)
  /\ SyncOK(sync) /\ CopiesOK(sync.changes, builds, history.late)
  /\ ResetOK /\ PutOK /\ FilesAreCurrent

\* What DetailsKept says of the next list L, with the positions named.
KeptBy(L) ==
  \A i \in 1..Len(builds), k \in 1..Len(L) :
    Same(builds[i], L[k]) =>
      (builds[i].known \subseteq L[k].known \/ (sync.pc = "apply" /\ builds[i].id \in history.late))

-----------------------------------------------------------------------------
(* The list.                                                               *)

\* trimBuilds keeps the front of the list.
LEMMA Trimmed ==
  ASSUME NEW S, NEW L \in Seq(S)
  PROVE  /\ TrimBuilds(L) \in Seq(S) /\ Len(TrimBuilds(L)) <= MaxBuilds /\ Len(TrimBuilds(L)) <= Len(L)
         /\ \A i \in 1..Len(TrimBuilds(L)) : TrimBuilds(L)[i] = L[i] /\ i \in 1..Len(L)
<1> DEFINE n == IF Len(L) <= MaxBuilds THEN Len(L) ELSE MaxBuilds
<1>1. n \in Nat /\ n <= Len(L) /\ n <= MaxBuilds /\ Len(L) \in Nat
  BY MaxBuildsAssumption, SMT
<1> HIDE DEF n
<1>2. /\ SubSeq(L, 1, n) \in Seq(S) /\ Len(SubSeq(L, 1, n)) = n
      /\ \A i \in 1..n : SubSeq(L, 1, n)[i] = L[i]
  BY <1>1, SMT
<1> QED BY <1>1, <1>2, MaxBuildsAssumption, SMT DEF TrimBuilds, n

\* What holds of a list in memory holds of its front.
LEMMA TrimKeeps ==
  ASSUME NEW L, NEW q, NEW J, NEW h, Memory(L, q, J, h)
  PROVE  Memory(TrimBuilds(L), q, J, h) /\ Len(TrimBuilds(L)) <= MaxBuilds
<1> DEFINE T == TrimBuilds(L)
<1>1. L \in Seq(Records)
  BY DEF Memory, ListOK
<1>2. /\ T \in Seq(Records) /\ Len(T) <= MaxBuilds
      /\ \A i \in 1..Len(T) : T[i] = L[i] /\ i \in 1..Len(L)
  BY <1>1, Trimmed
<1> HIDE DEF T
<1>3. ListOK(T, q)
  <2>1. q \in Nat /\ \A i \in 1..Len(T) : T[i].id[2] <= q
    BY <1>2 DEF Memory, ListOK
  <2>2. \A i, k \in 1..Len(T) : T[i].id[2] = T[k].id[2] => i = k
    BY <1>2 DEF Memory, ListOK
  <2> QED BY <1>2, <2>1, <2>2 DEF ListOK
<1>4. RecordsOK(T, h.reissued)
  BY <1>2 DEF Memory, RecordsOK
<1>5. JobsOK(J, T, q, h.reissued)
  BY <1>2, SMT DEF Memory, JobsOK
<1>6. RunningOK(T, J, h.orphans)
  BY <1>2 DEF Memory, RunningOK
<1> QED BY <1>2, <1>3, <1>4, <1>5, <1>6 DEF Memory, T

\* persistBuildsLocked keeps the invariant for a list that is as the invariant says: the file
\* has the same front, or the write failed.
LEMMA PersistInv ==
  ASSUME IInv, NEW L, NEW q, NEW h \in Histories, Persist(L, q, h),
         h.reissued = history.reissued, h.orphans = history.orphans, h.crossed = history.crossed,
         Memory(L, q, jobs', h), CopiesOK(sync'.changes, L, h.late), KeptBy(L),
         jobs' \subseteq Jobs, sync' \in Syncs, SyncOK(sync'), request' \in Requests, made' \in 1..MaxMade,
         UNCHANGED <<rows, reset, cfg, cfgFile, put, restarts>>
  PROVE  IInv' /\ KeptBy(builds')
<1> DEFINE T == TrimBuilds(L)
<1>1. /\ Memory(T, q, jobs', h) /\ Len(T) <= MaxBuilds /\ T \in Seq(Records) /\ q \in Nat
      /\ \A i \in 1..Len(T) : T[i] = L[i] /\ i \in 1..Len(L)
  BY TrimKeeps, Trimmed DEF Memory, ListOK
<1> HIDE DEF T
<1>2. builds' = T /\ seq' = q
  BY DEF Persist, T
<1>3. \/ file' = [builds |-> T, seq |-> q] /\ history' = [h EXCEPT !.stale = HalfReset]
      \/ file' = file /\ history' = [h EXCEPT !.stale = TRUE]
  BY DEF Persist, T
<1>4. /\ history' \in Histories /\ history'.reissued = history.reissued /\ history'.orphans = history.orphans
      /\ history'.crossed = history.crossed /\ history'.late = h.late
      /\ file' = [builds |-> T, seq |-> q] \/ (file' = file /\ history'.stale)
      /\ HalfReset => history'.stale
  <2>1. ASSUME NEW x \in BOOLEAN, history' = [h EXCEPT !.stale = x]
        PROVE  /\ history' \in Histories /\ history'.reissued = h.reissued /\ history'.orphans = h.orphans
               /\ history'.crossed = h.crossed /\ history'.late = h.late /\ history'.stale = x
    BY <2>1 DEF Histories
  <2>2. CASE file' = [builds |-> T, seq |-> q] /\ history' = [h EXCEPT !.stale = HalfReset]
    <3> DEFINE x == HalfReset
    <3>1. x \in BOOLEAN /\ history' = [h EXCEPT !.stale = x] /\ (HalfReset => x)
      BY <2>2, SMT DEF HalfReset
    <3> HIDE DEF x
    <3> QED BY <2>1, <2>2, <3>1
  <2>3. CASE file' = file /\ history' = [h EXCEPT !.stale = TRUE]
    BY <2>1, <2>3
  <2> QED BY <1>3, <2>2, <2>3
<1>5. Memory(builds', seq', jobs', history') /\ Len(builds') <= MaxBuilds
  BY <1>1, <1>2, <1>4 DEF Memory
<1>6. Disk(file', history')
  <2>1. CASE file' = [builds |-> T, seq |-> q]
    <3>1. file' \in Files /\ file'.builds = T /\ file'.seq = q
      BY <1>1, <2>1 DEF Files
    <3> QED BY <1>1, <1>4, <3>1 DEF Disk, Memory
  <2>2. CASE file' = file
    BY <1>4, <2>2 DEF IInv, Disk
  <2> QED BY <1>4, <2>1, <2>2
<1>7. CopiesOK(sync'.changes, builds', history'.late)
  BY <1>1, <1>2, <1>4 DEF CopiesOK
<1>8. Types'
  BY <1>4 DEF IInv, Types
<1>9. ResetOK' /\ PutOK'
  BY <1>4 DEF IInv, ResetOK, PutOK, HalfReset, NoReset, NoFile
<1>10. FilesAreCurrent'
  BY <1>2, <1>4 DEF IInv, FilesAreCurrent, HalfReset
<1>11. KeptBy(builds')
  BY <1>1, <1>2 DEF KeptBy
<1> QED BY <1>5, <1>6, <1>7, <1>8, <1>9, <1>10, <1>11 DEF IInv

\* A step that leaves the records, the jobs, the sync and the settings alone.
LEMMA SameListKept ==
  ASSUME IInv
  PROVE  KeptBy(builds)
<1>1. ASSUME NEW i \in 1..Len(builds), NEW k \in 1..Len(builds), Same(builds[i], builds[k])
      PROVE  builds[i].known \subseteq builds[k].known
  BY <1>1 DEF Same, IInv, Memory, ListOK
<1> QED BY <1>1 DEF KeptBy

-----------------------------------------------------------------------------
(* Builds and jobs.                                                        *)

\* A list with a new record in front, which has the next number.
LEMMA InFront ==
  ASSUME IInv, NEW b \in Records, b.id[2] = seq + 1, b.known = {}, b.by = 0, b.ref = NoRef,
         NEW J \in SUBSET Jobs, jobs \subseteq J, b.status = "running" => \E j \in J : j.id = b.id,
         \A j \in J \ jobs : j.id = b.id /\ j.gen = b.gen
  PROVE  LET L == <<b>> \o builds IN
         Memory(L, seq + 1, J, history) /\ CopiesOK(sync.changes, L, history.late) /\ KeptBy(L)
<1> DEFINE L == <<b>> \o builds
<1>1. builds \in Seq(Records) /\ seq \in Nat /\ Len(builds) \in Nat
  BY SMT DEF IInv, Memory, ListOK
<1>2. /\ L \in Seq(Records) /\ Len(L) = Len(builds) + 1 /\ L[1] = b
      /\ \A i \in 1..Len(L) : i # 1 => i - 1 \in 1..Len(builds) /\ L[i] = builds[i - 1]
  BY <1>1, SMT
<1> HIDE DEF L
<1>3. \A i \in 1..Len(builds) : builds[i] \in Records /\ builds[i].id[2] \in Nat /\ builds[i].id[2] <= seq
  <2>1. \A i \in 1..Len(builds) : builds[i] \in Records /\ builds[i].id[2] <= seq
    BY <1>1, SMT DEF IInv, Memory, ListOK
  <2>2. \A c \in Records : c.id[2] \in Nat
    BY DEF Records
  <2> QED BY <2>1, <2>2
<1>4. ListOK(L, seq + 1)
  <2>1. ASSUME NEW i \in 1..Len(L) PROVE L[i].id[2] <= seq + 1
    <3>1. CASE i = 1
      BY <1>1, <1>2, <3>1, SMT
    <3>2. CASE i # 1
      <4>1. i - 1 \in 1..Len(builds) /\ L[i] = builds[i - 1]
        BY <1>2, <3>2
      <4>2. L[i].id[2] \in Nat /\ L[i].id[2] <= seq
        BY <1>3, <4>1
      <4> QED BY <1>1, <4>2, SMT
    <3> QED BY <3>1, <3>2
  <2>2. ASSUME NEW i \in 1..Len(L), NEW k \in 1..Len(L), L[i].id[2] = L[k].id[2] PROVE i = k
    <3>4. ASSUME NEW m \in 1..Len(L), m # 1 PROVE L[m].id[2] # seq + 1
      <4>1. m - 1 \in 1..Len(builds) /\ L[m] = builds[m - 1]
        BY <1>2, <3>4
      <4>2. L[m].id[2] \in Nat /\ L[m].id[2] <= seq
        BY <1>3, <4>1
      <4> QED BY <1>1, <4>2, SMT
    <3>5. L[1].id[2] = seq + 1
      BY <1>2
    <3>1. CASE i = 1
      BY <2>2, <3>1, <3>4, <3>5
    <3>2. CASE k = 1
      BY <2>2, <3>2, <3>4, <3>5
    <3>3. CASE i # 1 /\ k # 1
      <4>1. i - 1 \in 1..Len(builds) /\ k - 1 \in 1..Len(builds) /\ builds[i - 1].id[2] = builds[k - 1].id[2]
        BY <1>2, <2>2, <3>3
      <4>2. i - 1 = k - 1
        BY <4>1 DEF IInv, Memory, ListOK
      <4> QED BY <4>2, SMT
    <3> QED BY <3>1, <3>2, <3>3
  <2>3. seq + 1 \in Nat
    BY <1>1, SMT
  <2> QED BY <1>2, <2>1, <2>2, <2>3 DEF ListOK
<1>5. RecordsOK(L, history.reissued)
  <2>1. \A i \in 1..Len(builds) : Imported(builds[i]) /\ Own(builds[i], history.reissued)
    BY DEF IInv, Memory, RecordsOK
  <2>2. Imported(b) /\ Own(b, history.reissued)
    BY DEF Imported, Own
  <2> QED BY <1>2, <2>1, <2>2 DEF RecordsOK
<1>6. JobsOK(J, L, seq + 1, history.reissued)
  <2> SUFFICES ASSUME NEW j \in J, ~history.reissued
               PROVE  j.id[2] <= seq + 1 /\ \A i \in 1..Len(L) : L[i].id = j.id => L[i].gen = j.gen
    BY DEF JobsOK
  <2>1. CASE j \in jobs
    <3>1. /\ j.id[2] <= seq /\ j.id[2] \in Nat
          /\ \A i \in 1..Len(builds) : builds[i].id = j.id => builds[i].gen = j.gen
      BY <2>1 DEF IInv, Memory, JobsOK, Jobs
    <3>2. b.id # j.id /\ j.id[2] <= seq + 1
      BY <1>1, <3>1, SMT
    <3>3. ASSUME NEW i \in 1..Len(L), L[i].id = j.id PROVE L[i].gen = j.gen
      <4>1. i # 1
        BY <1>2, <3>2, <3>3
      <4>2. i - 1 \in 1..Len(builds) /\ L[i] = builds[i - 1]
        BY <1>2, <4>1
      <4> QED BY <3>1, <3>3, <4>2
    <3> QED BY <3>2, <3>3
  <2>2. CASE j \notin jobs
    <3>1. j.id = b.id /\ j.gen = b.gen
      BY <2>2
    <3>2. \A i \in 1..Len(builds) : builds[i].id # j.id
      BY <1>1, <1>3, <3>1, SMT
    <3>3. j.id[2] <= seq + 1
      BY <1>1, <3>1, SMT
    <3>4. ASSUME NEW i \in 1..Len(L), L[i].id = j.id PROVE L[i].gen = j.gen
      <4>1. i # 1 => i - 1 \in 1..Len(builds) /\ L[i] = builds[i - 1]
        BY <1>2
      <4>2. i = 1
        BY <3>2, <3>4, <4>1
      <4> QED BY <1>2, <3>1, <4>2
    <3> QED BY <3>3, <3>4
  <2> QED BY <2>1, <2>2
<1>7. RunningOK(L, J, history.orphans)
  <2>1. \A i \in 1..Len(builds) : builds[i].ref = NoRef /\ builds[i].status = "running" =>
          (builds[i].gen \in history.orphans \/ \E j \in J : j.id = builds[i].id)
    BY DEF IInv, Memory, RunningOK
  <2> SUFFICES ASSUME NEW i \in 1..Len(L), L[i].ref = NoRef, L[i].status = "running"
               PROVE  L[i].gen \in history.orphans \/ \E j \in J : j.id = L[i].id
    BY DEF RunningOK
  <2>2. CASE i = 1
    BY <1>2, <2>2
  <2>3. CASE i # 1
    BY <1>2, <2>1, <2>3, SMT
  <2> QED BY <2>2, <2>3
<1>8. CopiesOK(sync.changes, L, history.late)
  BY <1>2 DEF IInv, CopiesOK
<1>9. KeptBy(L)
  <2>1. ASSUME NEW i \in 1..Len(builds), NEW k \in 1..Len(L), Same(builds[i], L[k])
        PROVE  builds[i].known \subseteq L[k].known
    <3>1. k # 1
      BY <1>1, <1>2, <1>3, <2>1, SMT DEF Same
    <3>2. k - 1 \in 1..Len(builds) /\ L[k] = builds[k - 1]
      BY <1>2, <3>1
    <3>3. i = k - 1
      BY <2>1, <3>2 DEF Same, IInv, Memory, ListOK
    <3> QED BY <3>2, <3>3
  <2> QED BY <2>1 DEF KeptBy
<1> QED BY <1>4, <1>5, <1>6, <1>7, <1>8, <1>9 DEF Memory, L

\* A list in which one record is written again, with what it was made as.
LEMMA Edited ==
  ASSUME IInv, NEW i \in 1..Len(builds), NEW b \in Records,
         b.id = builds[i].id, b.gen = builds[i].gen, b.ref = builds[i].ref, builds[i].known \subseteq b.known,
         Imported(b), Own(b, history.reissued), b.status = "running" => builds[i].status = "running",
         NEW J \in SUBSET jobs, \A j \in jobs \ J : j.id = b.id /\ b.status # "running",
         NEW late, history.late \subseteq late, b.known = builds[i].known \/ b.id \in late
  PROVE  LET L == Replace(builds[i].id, b) IN
         Memory(L, seq, J, history) /\ CopiesOK(sync.changes, L, late) /\ KeptBy(L)
<1> DEFINE L == Replace(builds[i].id, b)
<1>1. builds \in Seq(Records) /\ seq \in Nat /\ Len(builds) \in Nat /\ i \in 1..Len(builds)
  BY SMT DEF IInv, Memory, ListOK
<1>2. \A k \in 1..Len(builds) : builds[k].id[2] = builds[i].id[2] => k = i
  BY DEF IInv, Memory, ListOK
<1>3. \A k \in 1..Len(builds) : L[k] = IF k = i THEN b ELSE builds[k]
  BY <1>1, <1>2, SMT DEF Replace
<1>4. L \in Seq(Records) /\ Len(L) = Len(builds)
  <2>1. L \in [1..Len(builds) -> Records]
    BY <1>1, <1>3, SMT DEF Replace
  <2> HIDE DEF L
  <2> QED BY <1>1, <2>1, SMT
<1> HIDE DEF L
<1>5. \A k \in 1..Len(L) : L[k].id = builds[k].id /\ L[k].gen = builds[k].gen /\ L[k].ref = builds[k].ref
                           /\ builds[k].known \subseteq L[k].known
  BY <1>3, <1>4
<1>6. ListOK(L, seq)
  <2>1. /\ \A k \in 1..Len(builds) : builds[k].id[2] <= seq
        /\ \A k, m \in 1..Len(builds) : builds[k].id[2] = builds[m].id[2] => k = m
    BY DEF IInv, Memory, ListOK
  <2> QED BY <1>1, <1>4, <1>5, <2>1 DEF ListOK
<1>7. RecordsOK(L, history.reissued)
  BY <1>3, <1>4 DEF IInv, Memory, RecordsOK
<1>8. JobsOK(J, L, seq, history.reissued)
  BY <1>4, <1>5, SMT DEF IInv, Memory, JobsOK
<1>9. RunningOK(L, J, history.orphans)
  <2> SUFFICES ASSUME NEW k \in 1..Len(L), L[k].ref = NoRef, L[k].status = "running"
               PROVE  L[k].gen \in history.orphans \/ \E j \in J : j.id = L[k].id
    BY DEF RunningOK
  <2>1. builds[k].ref = NoRef /\ builds[k].status = "running" /\ k \in 1..Len(builds)
    BY <1>3, <1>4, <1>5
  <2>2. builds[k].gen \in history.orphans \/ \E j \in jobs : j.id = builds[k].id
    BY <2>1 DEF IInv, Memory, RunningOK
  <2>3. ASSUME NEW j \in jobs, j.id = builds[k].id PROVE j \in J
    <3>1. CASE k = i
      BY <1>3, <2>1, <3>1
    <3>2. CASE k # i
      BY <1>1, <1>2, <2>1, <2>3, <3>2
    <3> QED BY <3>1, <3>2
  <2> QED BY <1>5, <2>2, <2>3
<1>10. CopiesOK(sync.changes, L, late)
  <2> SUFFICES ASSUME NEW c \in sync.changes, NEW k \in 1..Len(L), Same(L[k], c)
               PROVE  L[k].known \subseteq c.known \/ L[k].id \in late
    BY DEF CopiesOK
  <2>1. k \in 1..Len(builds) /\ Same(builds[k], c)
    BY <1>4, <1>5 DEF Same
  <2>2. builds[k].known \subseteq c.known \/ builds[k].id \in history.late
    BY <2>1 DEF IInv, CopiesOK
  <2> QED BY <1>3, <1>5, <2>1, <2>2
<1>11. KeptBy(L)
  <2>1. ASSUME NEW m \in 1..Len(builds), NEW k \in 1..Len(L), Same(builds[m], L[k])
        PROVE  builds[m].known \subseteq L[k].known
    <3>1. m = k
      BY <1>4, <1>5, <2>1, SMT DEF Same, IInv, Memory, ListOK
    <3> QED BY <1>5, <3>1
  <2> QED BY <2>1 DEF KeptBy
<1> QED BY <1>6, <1>7, <1>8, <1>9, <1>10, <1>11 DEF Memory, L

\* A new build keeps the invariant: its number was not given out, and its job is under way.
LEMMA NewBuildInv == ASSUME IInv, NewBuild PROVE IInv' /\ KeptBy(builds')
<1> DEFINE b == Build("build", seq + 1, NoRef, "running", made')
           j == [id |-> b.id, gen |-> made']
<1>1. /\ made' = made + 1 /\ made' \in 1..MaxMade /\ Persist(<<b>> \o builds, seq + 1, history)
      /\ jobs' = jobs \cup {j} /\ UNCHANGED <<rows, sync, request, reset, cfg, cfgFile, put, restarts>>
  BY MaxMadeAssumption, SMT DEF NewBuild, NextNumber, config, IInv, Types
<1>2. /\ b \in Records /\ b.id = <<"build", seq + 1>> /\ b.known = {} /\ b.by = 0 /\ b.ref = NoRef
      /\ b.gen = made'
  BY <1>1, MaxMadeAssumption, SMT DEF Build, Records, NoRef, IInv, Memory, ListOK
<1>3. j \in Jobs /\ j.id = b.id /\ j.gen = b.gen
  <2>1. made' \in Nat /\ seq + 1 \in Nat
    BY <1>1, MaxMadeAssumption, SMT DEF IInv, Memory, ListOK
  <2>2. b.id \in {"build"} \X Nat
    BY <2>1 DEF Build
  <2> HIDE DEF b
  <2> QED BY <1>2, <2>1, <2>2 DEF Jobs
<1> HIDE DEF b, j
<1>4. jobs' \in SUBSET Jobs /\ jobs \subseteq jobs' /\ j \in jobs' /\ \A k \in jobs' \ jobs : k = j
  BY <1>1, <1>3 DEF IInv, Types
<1>5. b.id[2] = seq + 1 /\ (\E k \in jobs' : k.id = b.id) /\ \A k \in jobs' \ jobs : k.id = b.id /\ k.gen = b.gen
  BY <1>2, <1>3, <1>4, SMT
<1>6. LET L == <<b>> \o builds IN
      Memory(L, seq + 1, jobs', history) /\ CopiesOK(sync.changes, L, history.late) /\ KeptBy(L)
  BY <1>2, <1>4, <1>5, InFront
<1> QED BY <1>1, <1>4, <1>6, PersistInv DEF IInv, Types

\* So does a record of a migration, which has no job and does not run.
LEMMA AddMigratedInv == ASSUME IInv, AddMigratedBuild PROVE IInv' /\ KeptBy(builds')
<1> DEFINE b == Build("migrated", seq + 1, NoRef, "migrated", made')
<1>1. /\ made' = made + 1 /\ made' \in 1..MaxMade /\ Persist(<<b>> \o builds, seq + 1, history)
      /\ UNCHANGED <<jobs, rows, sync, request, reset, cfg, cfgFile, put, restarts>>
  BY MaxMadeAssumption, SMT DEF AddMigratedBuild, NextNumber, config, IInv, Types
<1>2. /\ b \in Records /\ b.id = <<"migrated", seq + 1>> /\ b.known = {} /\ b.by = 0 /\ b.ref = NoRef
      /\ b.status = "migrated"
  BY <1>1, MaxMadeAssumption, SMT DEF Build, Records, NoRef, IInv, Memory, ListOK
<1> HIDE DEF b
<1>3. jobs \in SUBSET Jobs
  BY DEF IInv, Types
<1>4. LET L == <<b>> \o builds IN
      Memory(L, seq + 1, jobs, history) /\ CopiesOK(sync.changes, L, history.late) /\ KeptBy(L)
  BY <1>2, <1>3, InFront, SMT
<1> QED BY <1>1, <1>3, <1>4, PersistInv DEF IInv, Types

\* A step that leaves the records, their file, the settings and the resets alone.
LEMMA QuietInv ==
  ASSUME IInv, Types', UNCHANGED <<builds, seq, file, history, reset, cfg, cfgFile, put>>,
         Memory(builds, seq, jobs', history), SyncOK(sync'), CopiesOK(sync'.changes, builds, history.late)
  PROVE  IInv' /\ KeptBy(builds')
<1>1. ResetOK' /\ PutOK' /\ FilesAreCurrent'
  BY DEF IInv, ResetOK, PutOK, HalfReset, NoReset, NoFile, FilesAreCurrent
<1>2. Disk(file', history') /\ Len(builds') <= MaxBuilds
  BY DEF IInv
<1>3. KeptBy(builds')
  BY SameListKept
<1> QED BY <1>1, <1>2, <1>3 DEF IInv

\* The end of a job keeps the invariant: the record it finds by its id is its own.
LEMMA JobEndsInv == ASSUME IInv, NEW j \in jobs, JobEnds(j) PROVE IInv' /\ KeptBy(builds')
<1>1. jobs' = jobs \ {j} /\ UNCHANGED <<rows, sync, request, reset, cfg, cfgFile, put, made, restarts>>
  BY DEF JobEnds, config
<1>2. jobs' \in SUBSET jobs /\ jobs' \subseteq Jobs /\ j \in Jobs /\ j.gen \in Nat
  BY <1>1 DEF IInv, Types, Jobs
<1>3. CASE IndexOf(j.id) = {} /\ UNCHANGED <<store, events, history>>
  <2>1. \A i \in 1..Len(builds) : builds[i].id # j.id
    BY <1>3, SMT DEF IndexOf, IInv, Memory, ListOK
  <2>2. RunningOK(builds, jobs', history.orphans)
    BY <1>1, <2>1 DEF IInv, Memory, RunningOK
  <2>3. Memory(builds, seq, jobs', history)
    BY <1>2, <2>2 DEF IInv, Memory, JobsOK
  <2>4. Types'
    BY <1>1, <1>2, <1>3 DEF IInv, Types
  <2>5. UNCHANGED <<builds, seq, file, history, reset, cfg, cfgFile, put>> /\ SyncOK(sync')
        /\ CopiesOK(sync'.changes, builds, history.late)
    BY <1>1, <1>3 DEF IInv, store
  <2> QED BY <2>3, <2>4, <2>5, QuietInv
<1>4. ASSUME NEW i \in IndexOf(j.id),
             Persist(Replace(j.id, [builds[i] EXCEPT !.status = "over", !.by = j.gen]), seq, history)
      PROVE  IInv' /\ KeptBy(builds')
  <2> DEFINE b == [builds[i] EXCEPT !.status = "over", !.by = j.gen]
  <2>1. i \in 1..Len(builds) /\ builds[i].id = j.id /\ builds[i] \in Records
    BY <1>4, SMT DEF IndexOf, IInv, Memory, ListOK
  <2>2. /\ b \in Records /\ b.id = builds[i].id /\ b.gen = builds[i].gen /\ b.ref = builds[i].ref
        /\ b.known = builds[i].known /\ b.status = "over" /\ b.by = j.gen
    BY <1>2, <2>1 DEF Records
  <2>3. builds[i].gen = j.gen \/ history.reissued
    BY <2>1 DEF IInv, Memory, JobsOK
  <2>4. builds[i].ref = NoRef
    <3>1. j.id[1] = "build"
      BY <1>2 DEF Jobs
    <3> QED BY <2>1, <3>1 DEF IInv, Memory, RecordsOK, Imported
  <2> HIDE DEF b
  <2>5. Imported(b) /\ Own(b, history.reissued)
    BY <2>2, <2>3, <2>4 DEF Imported, Own
  <2>6. \A k \in jobs \ jobs' : k.id = b.id /\ b.status # "running"
    BY <1>1, <2>1, <2>2
  <2>7. LET L == Replace(builds[i].id, b) IN
        Memory(L, seq, jobs', history) /\ CopiesOK(sync.changes, L, history.late) /\ KeptBy(L)
    BY <1>2, <2>1, <2>2, <2>5, <2>6, Edited
  <2>8. history \in Histories /\ sync \in Syncs /\ request \in Requests /\ made \in 1..MaxMade /\ SyncOK(sync)
    BY DEF IInv, Types
  <2> DEFINE L == Replace(builds[i].id, b)
  <2>9. Persist(L, seq, history)
    BY <1>4, <2>1 DEF b
  <2> HIDE DEF L
  <2> QED BY <1>1, <1>2, <2>7, <2>8, <2>9, PersistInv DEF L
<1> QED BY <1>3, <1>4 DEF JobEnds

-----------------------------------------------------------------------------
(* A client.                                                               *)

\* Writing what a client's enrichment found into the record keeps the invariant.
LEMMA FoundInv ==
  ASSUME IInv, NEW b \in Records, NEW i \in IndexOf(b.id), NEW new \in SUBSET Details, request' = Idle,
         Persist(Replace(b.id, [builds[i] EXCEPT !.known = @ \cup new]), seq, [history EXCEPT !.late = @ \cup {b.id}]),
         UNCHANGED <<jobs, rows, sync, reset, config, made, restarts>>
  PROVE  IInv' /\ KeptBy(builds')
<1> DEFINE c == [builds[i] EXCEPT !.known = @ \cup new]
           h == [history EXCEPT !.late = @ \cup {b.id}]
           L == Replace(builds[i].id, c)
<1>1. i \in 1..Len(builds) /\ builds[i].id = b.id /\ builds[i] \in Records
  BY SMT DEF IndexOf, IInv, Memory, ListOK
<1>2. /\ c \in Records /\ c.id = builds[i].id /\ c.gen = builds[i].gen /\ c.ref = builds[i].ref
      /\ c.by = builds[i].by /\ c.status = builds[i].status /\ c.known = builds[i].known \cup new
  BY <1>1 DEF Records
<1>3. history \in Histories
  BY DEF IInv, Types
<1>4. /\ h \in Histories /\ h.reissued = history.reissued /\ h.orphans = history.orphans
      /\ h.crossed = history.crossed /\ h.late = history.late \cup {b.id}
  BY <1>1, <1>3 DEF Histories, Records
<1>5. Persist(L, seq, h)
  BY <1>1
<1> HIDE DEF c, h
<1>6. Imported(c) /\ Own(c, history.reissued)
  BY <1>1, <1>2 DEF IInv, Memory, RecordsOK, Imported, Own
<1>7. jobs \in SUBSET jobs /\ jobs \subseteq Jobs /\ history.late \subseteq h.late /\ c.id \in h.late
  BY <1>1, <1>2, <1>4 DEF IInv, Types
<1>8. Memory(L, seq, jobs, history) /\ CopiesOK(sync.changes, L, h.late) /\ KeptBy(L)
  BY <1>1, <1>2, <1>6, <1>7, Edited
<1> HIDE DEF L
<1>9. Memory(L, seq, jobs, h)
  BY <1>4, <1>8 DEF Memory
<1>10. /\ sync \in Syncs /\ SyncOK(sync) /\ made \in 1..MaxMade /\ Idle \in Requests
       /\ UNCHANGED <<jobs, rows, sync, reset, cfg, cfgFile, put, made, restarts>>
  BY DEF IInv, Types, Idle, Requests, config
<1> QED BY <1>4, <1>5, <1>7, <1>8, <1>9, <1>10, PersistInv

\* enrichHistoryBuild adds to what a record knows, and changes nothing else.
LEMMA Enriched ==
  ASSUME NEW b \in Records, NEW e \in EnrichHistoryBuild(b)
  PROVE  /\ e \in Records /\ e.id = b.id /\ e.ref = b.ref /\ e.status = b.status /\ e.gen = b.gen /\ e.by = b.by
         /\ b.known \subseteq e.known
<1>1. PICK new \in SUBSET Details : e = b \/ e = [b EXCEPT !.known = @ \cup new]
  BY DEF EnrichHistoryBuild, Details
<1> QED BY <1>1, SMT DEF Records

\* A client's enrichment keeps the invariant.
LEMMA EnrichInv == ASSUME IInv, EnrichHistoryBuildIfNeeded PROVE IInv' /\ KeptBy(builds')
<1>1. request' = Idle /\ UNCHANGED <<jobs, rows, sync, reset, config, made, restarts>>
  BY DEF EnrichHistoryBuildIfNeeded
<1>2. PICK b \in request.copy : \E enriched \in EnrichHistoryBuild(b) :
        \/ (enriched = b \/ IndexOf(b.id) = {}) /\ UNCHANGED <<store, events, history>>
        \/ \E i \in IndexOf(b.id) :
             /\ enriched # b
             /\ Persist(Replace(b.id, ApplyBuildEnrichment(builds[i], enriched)), seq,
                        [history EXCEPT !.late = @ \cup {b.id}])
  BY DEF EnrichHistoryBuildIfNeeded
<1>3. PICK enriched \in EnrichHistoryBuild(b) :
        \/ UNCHANGED <<store, history>>
        \/ \E i \in IndexOf(b.id) :
             Persist(Replace(b.id, ApplyBuildEnrichment(builds[i], enriched)), seq,
                     [history EXCEPT !.late = @ \cup {b.id}])
  BY <1>2
<1>4. b \in Records /\ enriched.known \in SUBSET Details
  <2>1. b \in Records
    BY DEF IInv, Types, Requests
  <2>2. enriched \in Records
    BY <2>1, Enriched
  <2> QED BY <2>1, <2>2 DEF Records
<1>5. CASE UNCHANGED <<store, history>>
  <2>1. Types'
    BY <1>1, <1>5 DEF IInv, Types, Idle, Requests, config
  <2>2. /\ UNCHANGED <<builds, seq, file, history, reset, cfg, cfgFile, put>> /\ Memory(builds, seq, jobs', history)
        /\ SyncOK(sync') /\ CopiesOK(sync'.changes, builds, history.late)
    BY <1>1, <1>5 DEF IInv, store, config
  <2> QED BY <2>1, <2>2, QuietInv
<1>6. ASSUME NEW i \in IndexOf(b.id),
             Persist(Replace(b.id, ApplyBuildEnrichment(builds[i], enriched)), seq,
                     [history EXCEPT !.late = @ \cup {b.id}])
      PROVE  IInv' /\ KeptBy(builds')
  BY <1>1, <1>4, <1>6, FoundInv DEF ApplyBuildEnrichment
<1> QED BY <1>3, <1>5, <1>6

\* The paths that were resolved for a client keep the invariant.
LEMMA UpdatePathsInv == ASSUME IInv, UpdateBuildSourcePaths PROVE IInv' /\ KeptBy(builds')
<1>1. request' = Idle /\ UNCHANGED <<jobs, rows, sync, reset, config, made, restarts>>
  BY DEF UpdateBuildSourcePaths
<1>2. PICK b \in request.copy : \E i \in IndexOf(b.id) :
        Persist(Replace(b.id, [builds[i] EXCEPT !.known = @ \cup {"context"}]), seq,
                [history EXCEPT !.late = @ \cup {b.id}])
  BY DEF UpdateBuildSourcePaths
<1>3. b \in Records /\ {"context"} \in SUBSET Details
  BY DEF IInv, Types, Requests, Details
<1> QED BY <1>1, <1>2, <1>3, FoundInv

\* A client takes a copy of a record.
LEMMA GetBuildInv == ASSUME IInv, GetBuild PROVE IInv' /\ KeptBy(builds')
<1>1. UNCHANGED <<store, jobs, rows, sync, reset, config, made, restarts, history>>
  BY DEF GetBuild
<1>2. PICK b \in Range(builds) : request' = [pc |-> "enrich", copy |-> {b}]
  BY DEF GetBuild
<1>3. b \in Records
  BY <1>2, SMT DEF Range, IInv, Memory, ListOK
<1>4. Types'
  BY <1>1, <1>2, <1>3 DEF IInv, Types, Requests, config
<1>5. /\ UNCHANGED <<builds, seq, file, history, reset, cfg, cfgFile, put>> /\ Memory(builds, seq, jobs', history)
      /\ SyncOK(sync') /\ CopiesOK(sync'.changes, builds, history.late)
  BY <1>1 DEF IInv, store, config
<1> QED BY <1>4, <1>5, QuietInv

-----------------------------------------------------------------------------
(* The history of the engine.                                              *)

\* The engine's history, and the list a pass takes of it.
LEMMA RowsInv ==
  ASSUME IInv, RowAppears \/ (\E r \in rows : RowEnds(r)) \/ SyncLists
  PROVE  IInv' /\ KeptBy(builds')
<1>1. UNCHANGED <<store, jobs, request, reset, config, restarts, history>>
  BY DEF RowAppears, RowEnds, SyncLists
<1>2. rows' \subseteq Rows /\ made' \in 1..MaxMade
  <2>1. made \in 1..MaxMade /\ rows \subseteq Rows
    BY DEF IInv, Types
  <2>2. CASE RowAppears
    <3>1. made' \in 1..MaxMade
      BY <2>1, <2>2, MaxMadeAssumption, SMT DEF RowAppears
    <3>2. [ref |-> made', status |-> "running", gen |-> made'] \in Rows
      BY <3>1, MaxMadeAssumption, SMT DEF Rows
    <3> QED BY <2>1, <2>2, <3>1, <3>2 DEF RowAppears
  <2>3. ASSUME NEW r \in rows, RowEnds(r) PROVE rows' \subseteq Rows /\ made' \in 1..MaxMade
    <3>1. [r EXCEPT !.status = "over"] \in Rows
      BY <2>1 DEF Rows
    <3> QED BY <2>1, <2>3, <3>1 DEF RowEnds
  <2>4. CASE SyncLists
    BY <2>1, <2>4 DEF SyncLists
  <2> QED BY <2>2, <2>3, <2>4
<1>3. sync' = sync \/ sync' = [NoSync EXCEPT !.pc = "listed", !.rows = rows]
  BY DEF RowAppears, RowEnds, SyncLists
<1>4. sync' \in Syncs /\ SyncOK(sync') /\ CopiesOK(sync'.changes, builds, history.late)
  <2>1. CASE sync' = sync
    BY <2>1 DEF IInv, Types
  <2>2. CASE sync' = [NoSync EXCEPT !.pc = "listed", !.rows = rows]
    <3>1. rows \subseteq Rows /\ <<>> \in Seq(Records) /\ Len(<<>>) = 0
      BY SMT DEF IInv, Types
    <3>2. sync' = [pc |-> "listed", rows |-> rows, changes |-> {}, imports |-> <<>>]
      BY <2>2 DEF NoSync
    <3> QED BY <3>1, <3>2, SMT DEF Syncs, SyncOK, CopiesOK
  <2> QED BY <1>3, <2>1, <2>2
<1>5. Types'
  BY <1>1, <1>2, <1>4 DEF IInv, Types, config
<1>6. UNCHANGED <<builds, seq, file, history, reset, cfg, cfgFile, put>> /\ Memory(builds, seq, jobs', history)
  BY <1>1 DEF IInv, store, config
<1> QED BY <1>4, <1>5, <1>6, QuietInv

\* The copies and imports of a pass, once enriched, keep the invariant.
LEMMA SyncEnrichesInv == ASSUME IInv, SyncEnriches PROVE IInv' /\ KeptBy(builds')
<1> DEFINE items == {b \in Range(builds) : b.ref # NoRef}
           known == {b.ref : b \in items}
           listed(b) == {r \in sync.rows : r.ref = b.ref}
           refreshed(b) == IF listed(b) = {} THEN {b}
                           ELSE UNION {EnrichHistoryBuild(ApplyHistoryRow(b, r)) : r \in listed(b)}
           imported(r) == EnrichHistoryBuild(Build("history", 0, r.ref, r.status, r.gen))
<1>1. /\ UNCHANGED <<store, jobs, rows, request, reset, config, made, restarts>>
      /\ history' = [history EXCEPT !.late = {}]
  BY DEF SyncEnriches
<1>2. PICK new \in NewestFirst(MergeRows(known, sync.rows)) :
        \E f \in [items -> UNION {refreshed(b) : b \in items}] :
        \E imports \in [DOMAIN new -> UNION {imported(r) : r \in sync.rows}] :
          /\ \A b \in items : f[b] \in refreshed(b)
          /\ \A i \in DOMAIN new : imports[i] \in imported(new[i])
          /\ sync' = [NoSync EXCEPT !.pc = "apply", !.changes = {f[b] : b \in items} \ items, !.imports = imports]
  BY DEF SyncEnriches
<1>3. PICK f \in [items -> UNION {refreshed(b) : b \in items}],
           imports \in [DOMAIN new -> UNION {imported(r) : r \in sync.rows}] :
        /\ \A b \in items : f[b] \in refreshed(b)
        /\ \A i \in DOMAIN new : imports[i] \in imported(new[i])
        /\ sync' = [NoSync EXCEPT !.pc = "apply", !.changes = {f[b] : b \in items} \ items, !.imports = imports]
  BY <1>2
<1>4. sync.rows \subseteq Rows /\ history \in Histories /\ builds \in Seq(Records)
  BY DEF IInv, Types, Syncs, Memory, ListOK
<1>5. \A b \in items : b \in Records /\ \E i \in 1..Len(builds) : b = builds[i]
  BY <1>4, SMT DEF Range
<1>6. \A b \in items : /\ f[b] \in Records /\ f[b].id = b.id /\ f[b].ref = b.ref /\ f[b].gen = b.gen /\ f[b].by = b.by
                       /\ b.known \subseteq f[b].known
  <2> SUFFICES ASSUME NEW b \in items
               PROVE  /\ f[b] \in Records /\ f[b].id = b.id /\ f[b].ref = b.ref /\ f[b].gen = b.gen
                      /\ f[b].by = b.by /\ b.known \subseteq f[b].known
    OBVIOUS
  <2>1. b \in Records /\ f[b] \in refreshed(b)
    BY <1>3, <1>5
  <2>2. CASE f[b] = b
    BY <2>1, <2>2
  <2>3. ASSUME NEW r \in sync.rows, f[b] \in EnrichHistoryBuild(ApplyHistoryRow(b, r))
        PROVE  /\ f[b] \in Records /\ f[b].id = b.id /\ f[b].ref = b.ref /\ f[b].gen = b.gen
               /\ f[b].by = b.by /\ b.known \subseteq f[b].known
    <3> DEFINE c == ApplyHistoryRow(b, r)
    <3>1. c \in Records /\ c.id = b.id /\ c.ref = b.ref /\ c.gen = b.gen /\ c.by = b.by /\ c.known = b.known
      BY <1>4, <2>1 DEF ApplyHistoryRow, Records, Rows
    <3> HIDE DEF c
    <3> QED BY <2>3, <3>1, Enriched DEF c
  <2> QED BY <2>1, <2>2, <2>3
<1>7. PICK n \in Nat : new \in [1..n -> MergeRows(known, sync.rows)]
  <2>1. \A S : new \in NewestFirst(S) => \E n \in 0..MaxRows : new \in [1..n -> S]
    BY DEF NewestFirst
  <2>2. \A n \in 0..MaxRows : n \in Nat
    BY MaxRowsAssumption, SMT
  <2> QED BY <2>1, <2>2
<1>8. \A i \in 1..n : imports[i] \in Records /\ imports[i].ref # NoRef /\ Imported(imports[i])
  <2> SUFFICES ASSUME NEW i \in 1..n
               PROVE  imports[i] \in Records /\ imports[i].ref # NoRef /\ Imported(imports[i])
    OBVIOUS
  <2> DEFINE r == new[i]
             b == Build("history", 0, r.ref, r.status, r.gen)
  <2>1. r \in Rows /\ imports[i] \in EnrichHistoryBuild(b)
    BY <1>3, <1>4, <1>7 DEF MergeRows
  <2>2. b \in Records /\ b.ref # NoRef /\ b.id[1] = "history" /\ b.by = 0
    BY <2>1, MaxMadeAssumption, SMT DEF Rows, Build, Records, NoRef
  <2> HIDE DEF b
  <2>3. /\ imports[i] \in Records /\ imports[i].id = b.id /\ imports[i].ref = b.ref /\ imports[i].by = b.by
    BY <2>1, <2>2, Enriched
  <2> QED BY <2>2, <2>3 DEF Imported
<1>9. imports \in Seq(Records) /\ Len(imports) = n
  <2>1. imports \in [1..n -> Records]
    BY <1>3, <1>7, <1>8
  <2> QED BY <2>1, SMT
<1> DEFINE changes == {f[b] : b \in items} \ items
<1>10. sync' = [pc |-> "apply", rows |-> {}, changes |-> changes, imports |-> imports]
  BY <1>3 DEF NoSync
<1>11. \A c \in changes : \E i \in 1..Len(builds) :
         /\ c \in Records /\ builds[i].ref # NoRef /\ c.id = builds[i].id /\ c.ref = builds[i].ref
         /\ c.by = builds[i].by /\ builds[i].known \subseteq c.known
  <2> SUFFICES ASSUME NEW c \in changes
               PROVE  \E i \in 1..Len(builds) :
                        /\ c \in Records /\ builds[i].ref # NoRef /\ c.id = builds[i].id /\ c.ref = builds[i].ref
                        /\ c.by = builds[i].by /\ builds[i].known \subseteq c.known
    OBVIOUS
  <2>1. PICK b \in items : c = f[b]
    OBVIOUS
  <2>2. PICK i \in 1..Len(builds) : b = builds[i]
    BY <1>5
  <2> QED BY <1>6, <2>1, <2>2
<1> HIDE DEF changes, items
<1>12. sync' \in Syncs
  BY <1>9, <1>10, <1>11 DEF Syncs
<1>13. SyncOK(sync')
  <2>1. \A c \in changes : c.ref # NoRef /\ Imported(c)
    BY <1>11, SMT DEF IInv, Memory, RecordsOK, Imported
  <2> QED BY <1>8, <1>9, <1>10, <2>1 DEF SyncOK
<1>14. /\ history' \in Histories /\ history'.reissued = history.reissued /\ history'.orphans = history.orphans
       /\ history'.stale = history.stale /\ history'.crossed = history.crossed
  BY <1>1, <1>4 DEF Histories
<1>15. CopiesOK(sync'.changes, builds', history'.late)
  <2>1. ASSUME NEW c \in changes, NEW k \in 1..Len(builds), Same(builds[k], c)
        PROVE  builds[k].known \subseteq c.known
    <3>1. PICK i \in 1..Len(builds) : c.id = builds[i].id /\ builds[i].known \subseteq c.known
      BY <1>11
    <3>2. i = k
      BY <2>1, <3>1 DEF Same, IInv, Memory, ListOK
    <3> QED BY <3>1, <3>2
  <2>2. builds' = builds /\ sync'.changes = changes
    BY <1>1, <1>10 DEF store
  <2> QED BY <2>1, <2>2 DEF CopiesOK
<1>16. Types'
  BY <1>1, <1>12, <1>14 DEF IInv, Types, config
<1>17. Memory(builds', seq', jobs', history') /\ Len(builds') <= MaxBuilds /\ Disk(file', history')
  BY <1>1, <1>14 DEF IInv, Memory, Disk, store
<1>18. ResetOK' /\ PutOK' /\ FilesAreCurrent'
  BY <1>1, <1>14 DEF IInv, ResetOK, PutOK, HalfReset, NoReset, NoFile, FilesAreCurrent, store, config
<1>19. KeptBy(builds')
  BY <1>1, SameListKept DEF store
<1> QED BY <1>13, <1>15, <1>16, <1>17, <1>18, <1>19 DEF IInv

\* A list of m records in front of another one.
LEMMA Joined ==
  ASSUME NEW S, NEW A \in Seq(S), NEW B \in Seq(S), NEW m, m = Len(A)
  PROVE  /\ A \o B \in Seq(S) /\ Len(A \o B) = m + Len(B)
         /\ \A k \in 1..Len(A \o B) : k <= m => (A \o B)[k] = A[k] /\ k \in 1..m
         /\ \A k \in 1..Len(A \o B) : k > m => (A \o B)[k] = B[k - m] /\ k - m \in 1..Len(B)
BY SMT

\* The list that a pass writes: m imports with new numbers, then each record or its enriched copy.
Written(L, m) ==
  /\ L \in Seq(Records) /\ m \in Nat /\ Len(L) = m + Len(builds)
  /\ \A k \in 1..Len(L) : k <= m => /\ L[k].id = <<"history", seq + k>> /\ L[k].ref # NoRef /\ L[k].by = 0
  /\ \A k \in 1..Len(L) : k > m => /\ k - m \in 1..Len(builds) /\ L[k].id = builds[k - m].id
                                   /\ (L[k] = builds[k - m] \/ L[k] \in sync.changes)

\* Such a list is as the invariant says, and knows what the records knew.
LEMMA Applied ==
  ASSUME IInv, sync.pc = "apply", NEW L, NEW m, Written(L, m)
  PROVE  Memory(L, seq + m, jobs, history) /\ KeptBy(L)
<1> SUFFICES
      ASSUME L \in Seq(Records), m \in Nat, Len(L) = m + Len(builds),
             \A k \in 1..Len(L) : k <= m => /\ L[k].id = <<"history", seq + k>> /\ L[k].ref # NoRef /\ L[k].by = 0,
             \A k \in 1..Len(L) : k > m => /\ k - m \in 1..Len(builds) /\ L[k].id = builds[k - m].id
                                           /\ (L[k] = builds[k - m] \/ L[k] \in sync.changes)
      PROVE  Memory(L, seq + m, jobs, history) /\ KeptBy(L)
  BY DEF Written
<1>1. builds \in Seq(Records) /\ seq \in Nat /\ Len(builds) \in Nat /\ seq + m \in Nat /\ Len(L) \in Nat
  BY SMT DEF IInv, Memory, ListOK
<1>2. \A i \in 1..Len(builds) : builds[i].id[2] \in Nat /\ builds[i].id[2] <= seq
  <2>1. \A i \in 1..Len(builds) : builds[i] \in Records /\ builds[i].id[2] <= seq
    BY <1>1, SMT DEF IInv, Memory, ListOK
  <2>2. \A c \in Records : c.id[2] \in Nat
    BY DEF Records
  <2> QED BY <2>1, <2>2
<1>3. \A c \in sync.changes : c.ref # NoRef /\ c.id[1] = "history" /\ c.by = 0
  BY DEF IInv, SyncOK, Imported
<1>4. /\ \A k \in 1..Len(L) : k <= m => L[k].id[1] = "history" /\ L[k].id[2] = seq + k
      /\ \A k \in 1..Len(L) : k > m => L[k].id[2] \in Nat /\ L[k].id[2] <= seq
  <2>1. ASSUME NEW k \in 1..Len(L), k > m PROVE L[k].id[2] \in Nat /\ L[k].id[2] <= seq
    <3>1. k - m \in 1..Len(builds) /\ L[k].id = builds[k - m].id
      BY <2>1
    <3> QED BY <1>2, <3>1
  <2>2. ASSUME NEW k \in 1..Len(L), k <= m PROVE L[k].id[1] = "history" /\ L[k].id[2] = seq + k
    BY <2>2, SMT
  <2> QED BY <2>1, <2>2
<1>5. ListOK(L, seq + m)
  <2>1. ASSUME NEW k \in 1..Len(L) PROVE L[k].id[2] <= seq + m
    <3>1. CASE k <= m
      BY <1>1, <1>4, <3>1, SMT
    <3>2. CASE k > m
      BY <1>1, <1>4, <3>2, SMT
    <3> QED BY <3>1, <3>2, SMT
  <2>2. ASSUME NEW i \in 1..Len(L), NEW k \in 1..Len(L), L[i].id[2] = L[k].id[2] PROVE i = k
    <3>1. CASE i <= m /\ k <= m
      BY <1>1, <1>4, <2>2, <3>1, SMT
    <3>2. CASE i > m /\ k > m
      <4>1. i - m \in 1..Len(builds) /\ k - m \in 1..Len(builds) /\ builds[i - m].id[2] = builds[k - m].id[2]
        BY <2>2, <3>2
      <4>2. i - m = k - m
        BY <4>1 DEF IInv, Memory, ListOK
      <4> QED BY <4>2, SMT
    <3>3. CASE i <= m /\ k > m
      BY <1>1, <1>4, <2>2, <3>3, SMT
    <3>4. CASE i > m /\ k <= m
      BY <1>1, <1>4, <2>2, <3>4, SMT
    <3>5. (i <= m \/ i > m) /\ (k <= m \/ k > m)
      BY SMT
    <3> QED BY <3>1, <3>2, <3>3, <3>4, <3>5
  <2> QED BY <1>1, <2>1, <2>2 DEF ListOK
<1>6. RecordsOK(L, history.reissued)
  <2> SUFFICES ASSUME NEW k \in 1..Len(L) PROVE Imported(L[k]) /\ Own(L[k], history.reissued)
    BY DEF RecordsOK
  <2>1. CASE k <= m
    BY <1>4, <2>1 DEF Imported, Own
  <2>2. CASE k > m /\ L[k] \in sync.changes
    BY <1>3, <2>2 DEF Imported, Own
  <2>3. CASE k > m /\ L[k] = builds[k - m]
    BY <2>3 DEF IInv, Memory, RecordsOK
  <2> QED BY <2>1, <2>2, <2>3, SMT
<1>7. JobsOK(jobs, L, seq + m, history.reissued)
  <2> SUFFICES ASSUME NEW j \in jobs, ~history.reissued
               PROVE  j.id[2] <= seq + m /\ \A k \in 1..Len(L) : L[k].id = j.id => L[k].gen = j.gen
    BY DEF JobsOK
  <2>1. /\ j.id[2] <= seq /\ j.id[2] \in Nat /\ j.id[1] = "build"
        /\ \A i \in 1..Len(builds) : builds[i].id = j.id => builds[i].gen = j.gen
    BY DEF IInv, Types, Memory, JobsOK, Jobs
  <2>2. ASSUME NEW k \in 1..Len(L), L[k].id = j.id PROVE L[k].gen = j.gen
    <3>1. k > m /\ L[k] \notin sync.changes
      BY <1>3, <1>4, <2>1, <2>2, SMT
    <3>2. k - m \in 1..Len(builds) /\ L[k] = builds[k - m]
      BY <3>1
    <3> QED BY <2>1, <2>2, <3>2
  <2> QED BY <1>1, <2>1, <2>2, SMT
<1>8. RunningOK(L, jobs, history.orphans)
  <2> SUFFICES ASSUME NEW k \in 1..Len(L), L[k].ref = NoRef, L[k].status = "running"
               PROVE  L[k].gen \in history.orphans \/ \E j \in jobs : j.id = L[k].id
    BY DEF RunningOK
  <2>1. k > m /\ L[k] \notin sync.changes
    BY <1>3, SMT
  <2>2. k - m \in 1..Len(builds) /\ L[k] = builds[k - m]
    BY <2>1
  <2> QED BY <2>2, SMT DEF IInv, Memory, RunningOK
<1>9. KeptBy(L)
  <2>1. ASSUME NEW i \in 1..Len(builds), NEW k \in 1..Len(L), Same(builds[i], L[k])
        PROVE  builds[i].known \subseteq L[k].known \/ builds[i].id \in history.late
    <3>1. k > m
      BY <1>1, <1>2, <1>4, <2>1, SMT DEF Same
    <3>2. k - m \in 1..Len(builds) /\ builds[i].id[2] = builds[k - m].id[2]
      BY <2>1, <3>1 DEF Same
    <3>3. i = k - m
      BY <3>2 DEF IInv, Memory, ListOK
    <3>4. CASE L[k] \in sync.changes
      BY <2>1, <3>4 DEF IInv, CopiesOK
    <3>5. CASE L[k] = builds[k - m]
      BY <3>3, <3>5
    <3> QED BY <3>1, <3>4, <3>5
  <2> QED BY <2>1 DEF KeptBy
<1> QED BY <1>5, <1>6, <1>7, <1>8, <1>9 DEF Memory

\* syncBuildHistory's write keeps the invariant, and loses only what came late.
LEMMA SyncAppliesInv == ASSUME IInv, SyncApplies PROVE IInv' /\ KeptBy(builds')
<1> DEFINE updated == [i \in DOMAIN builds |->
                         IF \E c \in sync.changes : c.id = builds[i].id
                         THEN CHOOSE c \in sync.changes : c.id = builds[i].id ELSE builds[i]]
           numbered == [i \in DOMAIN sync.imports |-> [sync.imports[i] EXCEPT !.id = <<"history", seq + i>>]]
           h == [history EXCEPT !.late = {}]
           m == Len(sync.imports)
           L == numbered \o updated
<1>1. /\ sync.pc = "apply" /\ sync' = NoSync /\ UNCHANGED <<jobs, rows, request, reset, cfg, cfgFile, put, made, restarts>>
      /\ \/ UNCHANGED <<builds, seq, file, history>>
         \/ Persist(L, seq + Len(numbered), h)
  BY DEF SyncApplies, config, store
<1>2. builds \in Seq(Records) /\ seq \in Nat /\ sync \in Syncs /\ history \in Histories
  BY DEF IInv, Types, Memory, ListOK
<1>3. /\ sync.imports \in Seq(Records) /\ m \in Nat /\ sync.changes \subseteq Records
      /\ DOMAIN sync.imports = 1..m /\ \A i \in 1..m : sync.imports[i] \in Records
  BY <1>2, SMT DEF Syncs
<1>4. \A i \in 1..m : /\ numbered[i] \in Records /\ numbered[i].id = <<"history", seq + i>>
                      /\ numbered[i].ref # NoRef /\ numbered[i].by = 0
  <2> SUFFICES ASSUME NEW i \in 1..m
               PROVE  /\ numbered[i] \in Records /\ numbered[i].id = <<"history", seq + i>>
                      /\ numbered[i].ref # NoRef /\ numbered[i].by = 0
    OBVIOUS
  <2> DEFINE b == sync.imports[i]
  <2>1. b \in Records /\ b.ref # NoRef /\ b.by = 0
    BY <1>3 DEF IInv, SyncOK, Imported
  <2>2. numbered[i] = [b EXCEPT !.id = <<"history", seq + i>>] /\ seq + i \in Nat
    BY <1>2, <1>3, SMT
  <2> HIDE DEF b, numbered
  <2> QED BY <2>1, <2>2, SMT DEF Records
<1>5. numbered \in Seq(Records) /\ Len(numbered) = m
  <2>1. numbered \in [1..m -> Records]
    BY <1>3, <1>4
  <2> HIDE DEF numbered
  <2> QED BY <1>3, <2>1, SMT
<1>6. \A i \in 1..Len(builds) : /\ updated[i] \in Records /\ updated[i].id = builds[i].id
                                /\ (updated[i] = builds[i] \/ updated[i] \in sync.changes)
  <2> SUFFICES ASSUME NEW i \in 1..Len(builds)
               PROVE  /\ updated[i] \in Records /\ updated[i].id = builds[i].id
                      /\ (updated[i] = builds[i] \/ updated[i] \in sync.changes)
    OBVIOUS
  <2>1. builds[i] \in Records /\ i \in DOMAIN builds
    BY <1>2, SMT
  <2>2. CASE \E c \in sync.changes : c.id = builds[i].id
    <3>1. updated[i] = CHOOSE c \in sync.changes : c.id = builds[i].id
      BY <2>1, <2>2
    <3>2. updated[i] \in sync.changes /\ updated[i].id = builds[i].id
      BY <2>2, <3>1
    <3> QED BY <1>3, <3>2
  <2>3. CASE ~ \E c \in sync.changes : c.id = builds[i].id
    <3>1. updated[i] = builds[i]
      BY <2>1, <2>3
    <3> QED BY <2>1, <3>1
  <2> QED BY <2>2, <2>3
<1>7. updated \in Seq(Records) /\ Len(updated) = Len(builds)
  <2>1. Len(builds) \in Nat /\ DOMAIN builds = 1..Len(builds)
    BY <1>2, SMT
  <2>2. updated \in [1..Len(builds) -> Records]
    BY <1>6, <2>1
  <2> HIDE DEF updated
  <2> QED BY <2>1, <2>2, SMT
<1> HIDE DEF updated, numbered
<1> HIDE DEF m
<1>8. /\ L \in Seq(Records) /\ Len(L) = m + Len(builds)
      /\ \A k \in 1..Len(L) : k <= m => L[k] = numbered[k] /\ k \in 1..m
      /\ \A k \in 1..Len(L) : k > m => L[k] = updated[k - m] /\ k - m \in 1..Len(builds)
  <2>1. m = Len(numbered)
    BY <1>5
  <2>2. /\ L \in Seq(Records) /\ Len(L) = m + Len(updated)
        /\ \A k \in 1..Len(L) : k <= m => L[k] = numbered[k] /\ k \in 1..m
        /\ \A k \in 1..Len(L) : k > m => L[k] = updated[k - m] /\ k - m \in 1..Len(updated)
    BY <1>5, <1>7, <2>1, Joined
  <2> HIDE DEF L
  <2> QED BY <1>7, <2>2
<1> HIDE DEF L
<1>9. Written(L, m)
  <2>1. \A k \in 1..Len(L) : k <= m => /\ L[k].id = <<"history", seq + k>> /\ L[k].ref # NoRef /\ L[k].by = 0
    BY <1>4, <1>8
  <2>2. \A k \in 1..Len(L) : k > m => /\ k - m \in 1..Len(builds) /\ L[k].id = builds[k - m].id
                                      /\ (L[k] = builds[k - m] \/ L[k] \in sync.changes)
    <3> SUFFICES ASSUME NEW k \in 1..Len(L), k > m
                 PROVE  /\ k - m \in 1..Len(builds) /\ L[k].id = builds[k - m].id
                        /\ (L[k] = builds[k - m] \/ L[k] \in sync.changes)
      OBVIOUS
    <3>1. L[k] = updated[k - m] /\ k - m \in 1..Len(builds)
      BY <1>8
    <3> QED BY <1>6, <3>1
  <2> QED BY <1>3, <1>8, <2>1, <2>2 DEF Written
<1>10. Memory(L, seq + m, jobs, history) /\ KeptBy(L)
  BY <1>1, <1>9, Applied
<1>11. /\ h \in Histories /\ h.reissued = history.reissued /\ h.orphans = history.orphans
       /\ h.crossed = history.crossed /\ h.late = {}
  BY <1>2 DEF Histories
<1>12. sync' \in Syncs /\ SyncOK(sync') /\ sync'.changes = {}
  <2>1. <<>> \in Seq(Records) /\ Len(<<>>) = 0
    BY SMT
  <2> QED BY <1>1, <2>1, SMT DEF Syncs, NoSync, SyncOK
<1>13. CopiesOK(sync'.changes, L, h.late) /\ CopiesOK(sync'.changes, builds, history.late)
  BY <1>12 DEF CopiesOK
<1>14. CASE UNCHANGED <<builds, seq, file, history>>
  <2>1. Types'
    BY <1>1, <1>12, <1>14 DEF IInv, Types
  <2>2. Memory(builds, seq, jobs', history)
    BY <1>1 DEF IInv
  <2> QED BY <1>1, <1>12, <1>13, <1>14, <2>1, <2>2, QuietInv
<1>15. CASE Persist(L, seq + Len(numbered), h)
  <2>1. Memory(L, seq + m, jobs', h)
    BY <1>1, <1>10, <1>11 DEF Memory
  <2>2. jobs' \subseteq Jobs /\ request' \in Requests /\ made' \in 1..MaxMade
    BY <1>1 DEF IInv, Types
  <2> HIDE DEF h
  <2> QED BY <1>1, <1>5, <1>10, <1>11, <1>12, <1>13, <1>15, <2>1, <2>2, PersistInv
<1> QED BY <1>1, <1>14, <1>15

-----------------------------------------------------------------------------
(* Settings and resets.                                                    *)

\* A step of the settings or of a reset that leaves the records in memory alone.
LEMMA SettingsInv ==
  ASSUME IInv, UNCHANGED <<builds, seq, jobs, sync, request, made, restarts>>, rows' \in {rows, {}},
         file' \in {file, NoFile}, NEW stale \in BOOLEAN, NEW crossed \in BOOLEAN,
         history' = [history EXCEPT !.stale = stale, !.crossed = crossed],
         reset' \in Resets, cfg' \in Settings, cfgFile' \in ConfigFiles, put' \in {"idle", "write", "lost"},
         ResetOK', PutOK', FilesAreCurrent'
  PROVE  IInv' /\ KeptBy(builds')
<1>1. /\ history' \in Histories /\ history'.reissued = history.reissued /\ history'.orphans = history.orphans
      /\ history'.late = history.late
  BY DEF IInv, Types, Histories
<1>2. Types'
  BY <1>1 DEF IInv, Types
<1>3. Memory(builds', seq', jobs', history') /\ Len(builds') <= MaxBuilds
  BY <1>1 DEF IInv, Memory
<1>4. Disk(file', history')
  <2>1. CASE file' = file
    BY <1>1, <2>1 DEF IInv, Disk
  <2>2. CASE file' = NoFile
    <3>1. <<>> \in Seq(Records) /\ Len(<<>>) = 0 /\ 0 <= MaxBuilds
      BY MaxBuildsAssumption, SMT
    <3>2. file'.builds = <<>> /\ file'.seq = 0 /\ file' \in Files
      BY <2>2, <3>1 DEF NoFile, Files
    <3> QED BY <3>1, <3>2, SMT DEF Disk, ListOK, RecordsOK
  <2> QED BY <2>1, <2>2
<1>5. SyncOK(sync') /\ CopiesOK(sync'.changes, builds', history'.late)
  BY <1>1 DEF IInv
<1>6. KeptBy(builds')
  BY SameListKept
<1> QED BY <1>2, <1>3, <1>4, <1>5, <1>6 DEF IInv

\* A field of history that a step of the settings writes.
LEMMA Flags ==
  ASSUME IInv, NEW stale \in BOOLEAN, NEW crossed \in BOOLEAN,
         history' = [history EXCEPT !.stale = stale, !.crossed = crossed]
  PROVE  history'.stale = stale /\ history'.crossed = crossed
BY DEF IInv, Types, Histories

\* A flag that a step leaves alone is written as it was.
LEMMA OneFlag ==
  ASSUME IInv, NEW x
  PROVE  /\ [history EXCEPT !.stale = x] = [history EXCEPT !.stale = x, !.crossed = history.crossed]
         /\ [history EXCEPT !.crossed = x] = [history EXCEPT !.stale = history.stale, !.crossed = x]
         /\ history = [history EXCEPT !.stale = history.stale, !.crossed = history.crossed]
         /\ history.stale \in BOOLEAN /\ history.crossed \in BOOLEAN
BY DEF IInv, Types, Histories

\* applyConfigUpdate keeps the invariant: the file is torn from here on, or the failure recorded.
LEMMA ConfigPutInv == ASSUME IInv, ConfigPut PROVE IInv' /\ KeptBy(builds')
<1>1. /\ put = "idle" /\ cfg' \in Settings /\ UNCHANGED <<builds, seq, file, jobs, rows, sync, request, reset, made, restarts>>
      /\ \/ cfgFile' = "torn" /\ put' = "write" /\ history' = history
         \/ history' = [history EXCEPT !.crossed = TRUE] /\ cfgFile' = cfgFile /\ put' = put
  BY DEF ConfigPut, store
<1>2. reset \in Resets /\ cfgFile' \in ConfigFiles /\ put' \in {"idle", "write", "lost"}
  BY <1>1 DEF IInv, Types, ConfigFiles
<1>3. PICK x \in BOOLEAN : /\ history' = [history EXCEPT !.stale = history.stale, !.crossed = x]
                           /\ \/ cfgFile' = "torn" /\ put' = "write" /\ x = history.crossed
                              \/ cfgFile' = cfgFile /\ put' = put /\ x
  BY <1>1, OneFlag
<1>4. history'.stale = history.stale /\ history'.crossed = x /\ history.stale \in BOOLEAN
  BY <1>3, OneFlag, Flags
<1>5. ResetOK' /\ PutOK'
  BY <1>1, <1>3, <1>4 DEF IInv, ResetOK, PutOK, HalfReset, NoReset, NoFile
<1>6. FilesAreCurrent'
  BY <1>1, <1>3, <1>4 DEF IInv, FilesAreCurrent, HalfReset
<1> QED BY <1>1, <1>2, <1>3, <1>4, <1>5, <1>6, SettingsInv

\* The end of its save keeps the invariant: one that falls into a factory reset is recorded.
LEMMA ConfigSavedInv == ASSUME IInv, ConfigSaved PROVE IInv' /\ KeptBy(builds')
<1> DEFINE half == reset.kind = "factory" /\ reset.pc \in {"defaults", "memory"}
<1>1. /\ put' = "idle" /\ UNCHANGED <<builds, seq, file, jobs, rows, sync, request, reset, cfg, made, restarts>>
      /\ \/ put = "write" /\ Fill(WithDefaults(cfg)) /\ history' = [history EXCEPT !.crossed = half]
         \/ put = "write" /\ history' = [history EXCEPT !.crossed = TRUE] /\ cfgFile' = cfgFile
         \/ put = "lost" /\ cfgFile' = cfgFile /\ history' = history
  BY DEF ConfigSaved, store
<1>2. /\ half \in BOOLEAN
      /\ half <=> reset.kind = "factory" /\ reset.pc \in {"defaults", "memory"}
  OBVIOUS
<1> HIDE DEF half
<1>3. /\ reset \in Resets /\ cfg \in Settings /\ cfgFile \in ConfigFiles /\ WithDefaults(cfg) \in ConfigFiles
      /\ "torn" \in ConfigFiles
  BY DEF IInv, Types, Settings, ConfigFiles, WithDefaults
<1>4. PICK x \in BOOLEAN : /\ history' = [history EXCEPT !.stale = history.stale, !.crossed = x]
                           /\ \/ put = "write" /\ Fill(WithDefaults(cfg)) /\ x = half
                              \/ put = "write" /\ x /\ cfgFile' = cfgFile
                              \/ put = "lost" /\ cfgFile' = cfgFile /\ x = history.crossed
  BY <1>1, <1>2, OneFlag
<1>5. history'.stale = history.stale /\ history'.crossed = x /\ history.stale \in BOOLEAN
  BY <1>4, OneFlag, Flags
<1>6. /\ cfgFile' \in ConfigFiles
      /\ cfgFile' = WithDefaults(cfg) \/ x \/ (reset.kind = "factory" /\ HalfReset)
      /\ reset.kind = "factory" /\ reset.pc = "memory" => x \/ cfgFile' = "default"
  <2>1. CASE put = "write" /\ Fill(WithDefaults(cfg)) /\ x = half
    <3>1. cfgFile' \in {WithDefaults(cfg), "torn"} /\ (cfgFile' = WithDefaults(cfg) \/ cfgFile # "torn")
      BY <2>1 DEF Fill
    <3>2. cfgFile # "torn" => half
      BY <1>2, <2>1 DEF IInv, PutOK
    <3> QED BY <1>2, <1>3, <2>1, <3>1, <3>2
  <2>2. CASE put = "write" /\ x /\ cfgFile' = cfgFile
    BY <1>3, <2>2
  <2>3. CASE put = "lost" /\ cfgFile' = cfgFile /\ x = history.crossed
    BY <1>3, <2>3 DEF IInv, PutOK, ResetOK
  <2> QED BY <1>4, <2>1, <2>2, <2>3
<1>7. ResetOK' /\ PutOK'
  BY <1>1, <1>5, <1>6 DEF IInv, ResetOK, PutOK, HalfReset, NoReset, NoFile
<1>8. FilesAreCurrent'
  BY <1>1, <1>5, <1>6 DEF IInv, FilesAreCurrent, HalfReset
<1> QED BY <1>1, <1>3, <1>4, <1>5, <1>6, <1>7, <1>8, SettingsInv

\* A reset starts.
LEMMA StartResetInv == ASSUME IInv, StartReset PROVE IInv' /\ KeptBy(builds')
<1>1. /\ UNCHANGED <<builds, seq, file, jobs, rows, sync, request, cfg, cfgFile, put, made, restarts, history>>
      /\ reset.pc = "idle"
  BY DEF StartReset, store, config
<1>2. PICK kind \in {"purge", "factory"} : reset' = [pc |-> "files", kind |-> kind]
  BY DEF StartReset
<1>3. reset' \in Resets /\ reset'.pc = "files" /\ reset'.kind # "none"
  BY <1>2 DEF Resets
<1>4. reset = NoReset
  BY <1>1 DEF IInv, ResetOK
<1>5. ResetOK' /\ PutOK'
  BY <1>1, <1>3, <1>4 DEF IInv, ResetOK, PutOK, HalfReset, NoReset
<1>6. FilesAreCurrent'
  BY <1>1, <1>3, <1>4 DEF IInv, FilesAreCurrent, HalfReset, NoReset
<1> QED BY <1>1, <1>3, <1>5, <1>6, OneFlag, SettingsInv DEF IInv, Types

\* The removal of the files keeps the invariant: the reset is between its halves from here on.
LEMMA RemoveFilesInv == ASSUME IInv, RemoveFiles PROVE IInv' /\ KeptBy(builds')
<1>1. /\ reset.pc = "files" /\ file' = NoFile /\ rows' = {} /\ history' = [history EXCEPT !.stale = FALSE]
      /\ reset' = [reset EXCEPT !.pc = IF reset.kind = "purge" THEN "memory" ELSE "config"]
      /\ ConfigRemoved(reset.kind = "factory")
      /\ UNCHANGED <<builds, seq, jobs, sync, request, cfg, made, restarts>>
  BY DEF RemoveFiles
<1>2. /\ reset \in Resets /\ cfg \in Settings /\ cfgFile \in ConfigFiles /\ put \in {"idle", "write", "lost"}
      /\ reset.kind \in {"purge", "factory"} /\ "missing" \in ConfigFiles
  BY <1>1 DEF IInv, Types, ResetOK, Resets, ConfigFiles
<1>3. /\ reset' \in Resets /\ reset'.kind = reset.kind
      /\ reset'.pc = IF reset.kind = "purge" THEN "memory" ELSE "config"
  BY <1>1, <1>2 DEF Resets
<1>4. /\ history' = [history EXCEPT !.stale = FALSE, !.crossed = history.crossed]
      /\ history'.crossed = history.crossed /\ history.crossed \in BOOLEAN
  BY <1>1, OneFlag, Flags
<1>5. /\ reset.kind = "purge" => cfgFile' = cfgFile /\ put' = put /\ reset'.pc = "memory"
      /\ reset.kind = "factory" => cfgFile' = "missing" /\ put' \in {"idle", "lost"} /\ reset'.pc = "config"
  BY <1>1, <1>2, <1>3, SMT DEF ConfigRemoved
<1>6. ResetOK'
  BY <1>1, <1>2, <1>3, <1>5, SMT DEF ResetOK
<1>7. PutOK'
  BY <1>1, <1>2, <1>3, <1>4, <1>5 DEF IInv, PutOK, HalfReset
<1>8. FilesAreCurrent'
  BY <1>1, <1>2, <1>3, <1>4, <1>5 DEF IInv, FilesAreCurrent, HalfReset
<1> QED BY <1>1, <1>2, <1>3, <1>4, <1>5, <1>6, <1>7, <1>8, SettingsInv

\* A reset that fails half way keeps the invariant: what it removed is recorded.
LEMMA ResetFailsInv == ASSUME IInv, ResetFails PROVE IInv' /\ KeptBy(builds')
<1>1. /\ reset.pc \in {"files", "config", "defaults"} /\ reset' = NoReset
      /\ UNCHANGED <<builds, seq, jobs, sync, request, cfg, made, restarts>>
  BY DEF ResetFails
<1>2. PICK S :
        /\ rows' = IF "guest" \in S THEN {} ELSE rows
        /\ file' = IF "builds" \in S THEN NoFile ELSE file
        /\ ConfigRemoved("config" \in S)
        /\ history' = [history EXCEPT !.stale = @ \/ "builds" \in S \/ reset.pc # "files",
                                      !.crossed = @ \/ "config" \in S \/ reset.pc # "files"]
  BY DEF ResetFails
<1> DEFINE x == history.stale \/ "builds" \in S \/ reset.pc # "files"
           y == history.crossed \/ "config" \in S \/ reset.pc # "files"
<1>4. history' = [history EXCEPT !.stale = x, !.crossed = y] /\ x \in BOOLEAN /\ y \in BOOLEAN
  BY <1>2, OneFlag DEF IInv, Types, Histories
<1>5. /\ "builds" \in S \/ reset.pc # "files" => x
      /\ "config" \in S \/ reset.pc # "files" => y
      /\ history.stale => x
      /\ history.crossed => y
  OBVIOUS
<1> HIDE DEF x, y
<1>6. history'.stale = x /\ history'.crossed = y
  BY <1>4, Flags
<1>7. reset' \in Resets /\ reset'.pc = "idle"
  BY <1>1 DEF NoReset, Resets
<1>8. /\ "config" \in S => cfgFile' = "missing" /\ put' # "write"
      /\ "config" \notin S => cfgFile' = cfgFile /\ put' = put
      /\ cfgFile' \in ConfigFiles /\ put' \in {"idle", "write", "lost"}
  BY <1>2, SMT DEF ConfigRemoved, IInv, Types, ConfigFiles
<1>9. ResetOK'
  BY <1>1, <1>7 DEF ResetOK, NoReset, HalfReset
<1>10. PutOK'
  <2>1. CASE "config" \in S
    BY <1>5, <1>6, <1>8, <2>1 DEF PutOK
  <2>2. CASE "config" \notin S
    <3>1. reset.pc = "files" => ~HalfReset
      BY DEF HalfReset
    <3> QED BY <1>1, <1>5, <1>6, <1>8, <2>2, <3>1 DEF IInv, PutOK
  <2> QED BY <2>1, <2>2
<1>11. FilesAreCurrent'
  <2>1. reset.pc = "files" => ~HalfReset
    BY DEF HalfReset
  <2>2. file' = [builds |-> builds', seq |-> seq'] \/ history'.stale
    <3>1. CASE "builds" \in S \/ reset.pc # "files"
      BY <1>5, <1>6, <3>1
    <3>2. CASE "builds" \notin S /\ reset.pc = "files"
      BY <1>1, <1>2, <1>5, <1>6, <2>1, <3>2 DEF IInv, FilesAreCurrent
    <3> QED BY <3>1, <3>2
  <2>3. cfgFile' = WithDefaults(cfg') \/ history'.crossed \/ put' # "idle"
    <3>1. CASE "config" \in S \/ reset.pc # "files"
      BY <1>5, <1>6, <3>1
    <3>2. CASE "config" \notin S /\ reset.pc = "files"
      BY <1>1, <1>5, <1>6, <1>8, <2>1, <3>2 DEF IInv, FilesAreCurrent
    <3> QED BY <3>1, <3>2
  <2> QED BY <2>2, <2>3 DEF FilesAreCurrent
<1>12. cfg' \in Settings /\ rows' \in {rows, {}} /\ file' \in {file, NoFile}
  BY <1>1, <1>2 DEF IInv, Types
<1> QED BY <1>1, <1>4, <1>7, <1>8, <1>9, <1>10, <1>11, <1>12, SettingsInv

\* FactoryReset opens config.yaml for the defaults; the reset is between its halves.
LEMMA OpenDefaultsInv == ASSUME IInv, OpenDefaults PROVE IInv' /\ KeptBy(builds')
<1>1. /\ reset.pc = "config" /\ cfgFile' = "torn" /\ reset' = [reset EXCEPT !.pc = "defaults"]
      /\ UNCHANGED <<builds, seq, file, jobs, rows, sync, request, cfg, put, made, restarts, history>>
  BY DEF OpenDefaults, store
<1>2. reset \in Resets /\ reset.kind = "factory" /\ (file = NoFile \/ history.stale)
  BY <1>1 DEF IInv, Types, ResetOK, HalfReset
<1>3. reset' \in Resets /\ reset'.kind = "factory" /\ reset'.pc = "defaults"
  BY <1>1, <1>2 DEF Resets
<1>4. ResetOK' /\ PutOK' /\ FilesAreCurrent'
  BY <1>1, <1>2, <1>3 DEF ResetOK, PutOK, FilesAreCurrent, HalfReset, NoFile
<1> QED BY <1>1, <1>3, <1>4, OneFlag, SettingsInv DEF IInv, Types, ConfigFiles

\* FactoryReset's save of the defaults keeps the invariant.
LEMMA SaveDefaultsInv == ASSUME IInv, SaveDefaults PROVE IInv' /\ KeptBy(builds')
<1> DEFINE x == cfgFile' # "default"
<1>1. /\ reset.pc = "defaults" /\ Fill("default") /\ reset' = [reset EXCEPT !.pc = "memory"]
      /\ history' = [history EXCEPT !.crossed = x]
      /\ UNCHANGED <<builds, seq, file, jobs, rows, sync, request, cfg, put, made, restarts>>
  BY DEF SaveDefaults, store
<1>2. /\ x \in BOOLEAN
      /\ x \/ cfgFile' = "default"
  OBVIOUS
<1>3. reset \in Resets /\ reset.kind = "factory" /\ (file = NoFile \/ history.stale) /\ cfgFile' \in ConfigFiles
  BY <1>1 DEF IInv, Types, ResetOK, HalfReset, Fill, ConfigFiles
<1> HIDE DEF x
<1>4. reset' \in Resets /\ reset'.kind = "factory" /\ reset'.pc = "memory"
  BY <1>1, <1>3 DEF Resets
<1>5. /\ history' = [history EXCEPT !.stale = history.stale, !.crossed = x]
      /\ history'.stale = history.stale /\ history'.crossed = x /\ history.stale \in BOOLEAN
  BY <1>1, <1>2, OneFlag, Flags
<1>6. ResetOK' /\ PutOK' /\ FilesAreCurrent'
  BY <1>1, <1>2, <1>3, <1>4, <1>5 DEF ResetOK, PutOK, FilesAreCurrent, HalfReset, NoFile
<1> QED BY <1>1, <1>2, <1>3, <1>4, <1>5, <1>6, SettingsInv DEF IInv, Types

\* The end of a reset keeps the invariant: the memory is emptied as the file was.
LEMMA ClearMemoryInv == ASSUME IInv, ClearMemory PROVE IInv' /\ KeptBy(builds')
<1> DEFINE x == history.reissued \/ jobs # {}
<1>1. /\ reset.pc = "memory" /\ (reset.kind = "factory" => put = "idle") /\ builds' = <<>> /\ seq' = 0 /\ reset' = NoReset
      /\ cfg' = IF reset.kind = "factory" THEN "default" ELSE cfg
      /\ history' = [history EXCEPT !.reissued = x]
      /\ UNCHANGED <<file, jobs, rows, sync, request, cfgFile, put, made, restarts>>
  BY DEF ClearMemory
<1>2. /\ x \in BOOLEAN
      /\ history.reissued => x
      /\ jobs # {} => x
  BY DEF IInv, Types, Histories
<1> HIDE DEF x
<1>3. /\ history' \in Histories /\ history'.reissued = x /\ history'.stale = history.stale
      /\ history'.crossed = history.crossed
  BY <1>1, <1>2 DEF IInv, Types, Histories
<1>4. <<>> \in Seq(Records) /\ Len(<<>>) = 0 /\ 0 <= MaxBuilds
  BY MaxBuildsAssumption, SMT
<1>5. reset' \in Resets /\ reset'.pc = "idle" /\ reset'.kind = "none"
  BY <1>1 DEF NoReset, Resets
<1>6. Types'
  BY <1>1, <1>3, <1>5 DEF IInv, Types, Settings
<1>7. Memory(builds', seq', jobs', history') /\ Len(builds') <= MaxBuilds
  <2>1. JobsOK(jobs', builds', seq', history'.reissued)
    BY <1>1, <1>2, <1>3, <1>4 DEF JobsOK
  <2> QED BY <1>1, <1>4, <2>1, SMT DEF Memory, ListOK, RecordsOK, RunningOK
<1>8. Disk(file', history')
  BY <1>1, <1>2, <1>3 DEF IInv, Disk, RecordsOK, Own
<1>9. SyncOK(sync') /\ CopiesOK(sync'.changes, builds', history'.late) /\ KeptBy(builds')
  BY <1>1, <1>4, SMT DEF IInv, CopiesOK, KeptBy
<1>10. ResetOK' /\ PutOK'
  BY <1>1, <1>3, <1>5 DEF IInv, ResetOK, PutOK, HalfReset, NoReset
<1>11. FilesAreCurrent'
  <2>1. file' = [builds |-> builds', seq |-> seq'] \/ history'.stale
    BY <1>1, <1>3 DEF IInv, ResetOK, HalfReset, NoFile
  <2>2. cfgFile' = WithDefaults(cfg') \/ history'.crossed \/ put' # "idle"
    <3>1. CASE reset.kind = "factory"
      BY <1>1, <1>3, <3>1 DEF IInv, ResetOK, WithDefaults
    <3>2. CASE reset.kind # "factory"
      BY <1>1, <1>3, <3>2 DEF IInv, FilesAreCurrent
    <3> QED BY <3>1, <3>2
  <2> QED BY <2>1, <2>2 DEF FilesAreCurrent
<1> QED BY <1>6, <1>7, <1>8, <1>9, <1>10, <1>11 DEF IInv

\* A restart keeps the invariant: the file is as the memory was, whenever the process ends.
LEMMA RestartInv == ASSUME IInv, Restart PROVE IInv'
<1> DEFINE o == {b.gen : b \in {c \in Range(file.builds) : c.status = "running"}}
           c == cfgFile = "torn"
<1>1. /\ jobs' = {} /\ sync' = NoSync /\ request' = Idle /\ reset' = NoReset /\ restarts' = restarts + 1
      /\ cfg' \in CASE cfgFile = "missing" -> {"default"}
                    [] cfgFile = "torn" -> {"default", "custom"}
                    [] OTHER -> {cfgFile}
      /\ cfgFile' = (IF cfgFile = "missing" THEN "default" ELSE cfgFile) /\ put' = "idle"
      /\ UNCHANGED <<file, rows, made>>
  BY DEF Restart
<1>2. \/ /\ builds' = file.builds /\ seq' = file.seq
         /\ history' = [stale |-> FALSE, crossed |-> c, reissued |-> history.reissued, late |-> {}, orphans |-> o]
      \/ /\ builds' = <<>> /\ seq' = 0
         /\ history' = [stale |-> TRUE, crossed |-> c, reissued |-> history.reissued, late |-> {}, orphans |-> {}]
  BY DEF Restart
<1>3. /\ file \in Files /\ ListOK(file.builds, file.seq) /\ Len(file.builds) <= MaxBuilds
      /\ RecordsOK(file.builds, history.reissued) /\ file.builds \in Seq(Records) /\ history.reissued \in BOOLEAN
  BY DEF IInv, Types, Histories, Disk, ListOK
<1>4. o \subseteq Nat /\ \A i \in 1..Len(file.builds) : file.builds[i].status = "running" => file.builds[i].gen \in o
  <2>1. \A b \in Range(file.builds) : b.gen \in Nat
    <3>1. \A b \in Range(file.builds) : b \in Records
      BY <1>3, SMT DEF Range
    <3> QED BY <3>1 DEF Records
  <2>2. \A i \in 1..Len(file.builds) : file.builds[i] \in Range(file.builds)
    BY <1>3, SMT DEF Range
  <2> QED BY <2>1, <2>2
<1>13. /\ c \in BOOLEAN
       /\ c <=> cfgFile = "torn"
  OBVIOUS
<1>14. /\ cfg' \in Settings /\ cfgFile' \in ConfigFiles /\ cfgFile \in ConfigFiles
       /\ cfgFile' = WithDefaults(cfg') \/ cfgFile = "torn"
  BY <1>1, SMT DEF IInv, Types, Settings, ConfigFiles, WithDefaults
<1> HIDE DEF o, c
<1>5. <<>> \in Seq(Records) /\ Len(<<>>) = 0 /\ 0 <= MaxBuilds
  BY MaxBuildsAssumption, SMT
<1>6. /\ sync' \in Syncs /\ SyncOK(sync') /\ CopiesOK(sync'.changes, builds', history'.late)
      /\ request' \in Requests /\ reset' \in Resets /\ reset'.pc = "idle"
  BY <1>1, <1>5, SMT DEF NoSync, Syncs, SyncOK, CopiesOK, Idle, Requests, NoReset, Resets
<1>7. history' \in Histories /\ history'.reissued = history.reissued /\ history'.crossed = c
  <2>1. ASSUME NEW s \in BOOLEAN, NEW r \in BOOLEAN, NEW p \in SUBSET Nat,
               history' = [stale |-> s, crossed |-> c, reissued |-> r, late |-> {}, orphans |-> p]
        PROVE  history' \in Histories /\ history'.reissued = r /\ history'.crossed = c
    BY <1>13, <2>1 DEF Histories
  <2>2. {} \in SUBSET Nat /\ o \in SUBSET Nat /\ TRUE \in BOOLEAN /\ FALSE \in BOOLEAN
    BY <1>4
  <2> QED BY <1>2, <1>3, <2>1, <2>2
<1>8. Types'
  <2>1. restarts' \in Nat
    BY <1>1, SMT DEF IInv, Types
  <2> QED BY <1>1, <1>6, <1>7, <1>14, <2>1 DEF IInv, Types
<1>9. Memory(builds', seq', jobs', history') /\ Len(builds') <= MaxBuilds
  <2>1. JobsOK(jobs', builds', seq', history'.reissued)
    BY <1>1 DEF JobsOK
  <2>2. CASE builds' = file.builds /\ seq' = file.seq /\ history'.orphans = o
    BY <1>3, <1>4, <1>7, <2>1, <2>2 DEF Memory, RunningOK
  <2>3. CASE builds' = <<>> /\ seq' = 0
    BY <1>5, <2>1, <2>3, SMT DEF Memory, ListOK, RecordsOK, RunningOK
  <2> QED BY <1>2, <2>2, <2>3, SMT
<1>10. Disk(file', history')
  BY <1>1, <1>7 DEF IInv, Disk
<1>11. ResetOK' /\ PutOK'
  BY <1>1, <1>6 DEF ResetOK, PutOK, HalfReset, NoReset
<1>12. FilesAreCurrent'
  <2>1. file' = [builds |-> builds', seq |-> seq'] \/ history'.stale
    BY <1>1, <1>2, <1>3, SMT DEF Files
  <2> QED BY <1>7, <1>13, <1>14, <2>1 DEF FilesAreCurrent
<1> QED BY <1>6, <1>8, <1>9, <1>10, <1>11, <1>12 DEF IInv

-----------------------------------------------------------------------------
(* The theorems.                                                           *)

\* What an earlier run left satisfies the invariant.
LEMMA InitInv == ASSUME Init PROVE IInv
<1> DEFINE b == Build("history", 1, 1, "over", 1)
<1>1. /\ b \in Records /\ b.id = <<"history", 1>> /\ b.id[1] = "history" /\ b.id[2] = 1 /\ b.ref = 1 /\ b.by = 0
  BY MaxMadeAssumption, SMT DEF Build, Records
<1>2. /\ builds = <<b>> /\ seq = 1 /\ file = [builds |-> builds, seq |-> 1] /\ jobs = {} /\ sync = NoSync
      /\ request = Idle /\ reset = NoReset /\ cfg = "custom" /\ cfgFile = cfg /\ put = "idle" /\ made = 1 /\ restarts = 0
      /\ rows = {[ref |-> 1, status |-> "over", gen |-> 1]}
      /\ history = [stale |-> FALSE, crossed |-> FALSE, reissued |-> FALSE, orphans |-> {}, late |-> {}]
  BY DEF Init
<1> HIDE DEF b
<1>3. builds \in Seq(Records) /\ Len(builds) = 1 /\ builds[1] = b
  BY <1>1, <1>2, SMT
<1>4. <<>> \in Seq(Records) /\ Len(<<>>) = 0
  BY SMT
<1>5. history \in Histories /\ rows \subseteq Rows
  BY <1>2, MaxMadeAssumption, SMT DEF Histories, Rows
<1>6. Types
  BY <1>2, <1>4, <1>5, MaxMadeAssumption, SMT DEF Types, NoSync, Syncs, Idle, Requests, NoReset, Resets, Settings, ConfigFiles
<1>7. ListOK(builds, seq) /\ RecordsOK(builds, FALSE)
  BY <1>1, <1>2, <1>3, SMT DEF ListOK, RecordsOK, Imported, Own
<1>8. Len(builds) <= MaxBuilds
  BY <1>3, MaxBuildsAssumption, SMT
<1>9. JobsOK(jobs, builds, seq, FALSE) /\ RunningOK(builds, jobs, {})
  BY <1>1, <1>2, <1>3, SMT DEF JobsOK, RunningOK, NoRef
<1>10. Memory(builds, seq, jobs, history)
  BY <1>2, <1>7, <1>9 DEF Memory
<1>11. Disk(file, history)
  BY <1>2, <1>3, <1>7, <1>8 DEF Disk, Files
<1>12. SyncOK(sync) /\ CopiesOK(sync.changes, builds, history.late)
  BY <1>2, <1>4, SMT DEF NoSync, SyncOK, CopiesOK
<1>13. ResetOK /\ PutOK /\ FilesAreCurrent
  BY <1>2 DEF ResetOK, PutOK, HalfReset, NoReset, FilesAreCurrent, WithDefaults
<1> QED BY <1>6, <1>8, <1>10, <1>11, <1>12, <1>13 DEF IInv

\* A step that changes nothing keeps the invariant.
LEMMA StutterInv == ASSUME IInv, UNCHANGED vars PROVE IInv'
<1>1. /\ builds' = builds /\ seq' = seq /\ file' = file /\ jobs' = jobs /\ rows' = rows /\ sync' = sync
      /\ request' = request /\ reset' = reset /\ cfg' = cfg /\ cfgFile' = cfgFile /\ put' = put /\ made' = made
      /\ events' = events /\ restarts' = restarts /\ history' = history
  BY DEF vars, store, config
<1> QED BY <1>1 DEF IInv, Types, ResetOK, PutOK, HalfReset, FilesAreCurrent

\* Every step keeps the invariant; one that is no restart keeps what the records know.
LEMMA NextInv == ASSUME IInv, Next PROVE IInv' /\ (restarts' = restarts => KeptBy(builds'))
<1>1. CASE NewBuild \/ AddMigratedBuild \/ \E j \in jobs : JobEnds(j)
  BY <1>1, NewBuildInv, AddMigratedInv, JobEndsInv
<1>2. CASE RowAppears \/ (\E r \in rows : RowEnds(r)) \/ SyncLists \/ SyncEnriches \/ SyncApplies
  BY <1>2, RowsInv, SyncEnrichesInv, SyncAppliesInv
<1>3. CASE GetBuild \/ UpdateBuildSourcePaths \/ EnrichHistoryBuildIfNeeded
  BY <1>3, GetBuildInv, UpdatePathsInv, EnrichInv
<1>4. CASE \/ ConfigPut \/ ConfigSaved \/ StartReset \/ RemoveFiles \/ ResetFails
           \/ OpenDefaults \/ SaveDefaults \/ ClearMemory
  BY <1>4, ConfigPutInv, ConfigSavedInv, StartResetInv, RemoveFilesInv, ResetFailsInv, OpenDefaultsInv,
     SaveDefaultsInv, ClearMemoryInv
<1>5. CASE Restart
  <2>1. restarts' # restarts
    <3>1. restarts \in Nat
      BY SMT DEF IInv, Types
    <3>2. restarts' = restarts + 1
      BY <1>5 DEF Restart
    <3> QED BY <3>1, <3>2, SMT
  <2> QED BY <1>5, <2>1, RestartInv
<1> QED BY <1>1, <1>2, <1>3, <1>4, <1>5 DEF Next

\* The invariant is inductive: it holds at the start and every step of the daemon, of the
\* engine or of a client keeps it.
THEOREM Inductive == Spec => []IInv
<1>1. Init => IInv
  BY InitInv
<1>2. IInv /\ [Next]_vars => IInv'
  BY NextInv, StutterInv
<1> QED BY <1>1, <1>2, PTL DEF Spec

\* The records in memory and in builds.json are well formed, and both lists stay within
\* MaxBuilds (trimBuilds).
THEOREM TypeCorrect == Spec => []TypeOK
<1>1. IInv => TypeOK
  <2> SUFFICES ASSUME IInv PROVE TypeOK
    OBVIOUS
  <2>1. builds \in Seq(Records) /\ file.builds \in Seq(Records)
    BY DEF IInv, Memory, Disk, ListOK
  <2>2. \A b \in Range(builds) \cup Range(file.builds) : b \in Records
    BY <2>1, SMT DEF Range
  <2>3. \A b \in Range(builds) \cup Range(file.builds) :
          b.ref \in 0..MaxMade /\ b.known \subseteq Details /\ b.status \in {"running", "over", "migrated"}
    BY <2>2 DEF Records
  <2>4. Len(builds) <= MaxBuilds /\ Len(file.builds) <= MaxBuilds
    BY DEF IInv, Disk
  <2>5. /\ cfg \in Settings /\ cfgFile \in ConfigFiles /\ put \in {"idle", "write", "lost"}
        /\ sync.pc \in {"idle", "listed", "apply"} /\ reset.pc \in {"idle", "files", "config", "defaults", "memory"}
    BY DEF IInv, Types, Syncs, Resets
  <2> QED BY <2>3, <2>4, <2>5 DEF TypeOK
<1> QED BY <1>1, Inductive, PTL

\* builds.json and config.yaml hold what is in memory, the latter with defaults for zeros, except
\* as FilesAreCurrent says: a crash at any other moment loses nothing else.
THEOREM FilesAlwaysCurrent == Spec => []FilesAreCurrent
<1>1. IInv => FilesAreCurrent
  BY DEF IInv
<1> QED BY <1>1, Inductive, PTL

\* RunBuildJob writes its outcome into its own record: ids are not given out twice.
THEOREM OutcomeIsOwn == Spec => []OwnOutcome
<1>1. IInv => OwnOutcome
  <2>1. ASSUME IInv, NEW b \in Range(builds) PROVE b.by \in {0, b.gen} \/ history.reissued
    <3>1. PICK i \in 1..Len(builds) : b = builds[i]
      <4>1. builds \in Seq(Records)
        BY <2>1 DEF IInv, Memory, ListOK
      <4>2. DOMAIN builds = 1..Len(builds)
        BY <4>1, SMT
      <4> QED BY <2>1, <4>2 DEF Range
    <3> QED BY <2>1, <3>1 DEF IInv, Memory, RecordsOK, Own
  <2> QED BY <2>1 DEF OwnOutcome
<1> QED BY <1>1, Inductive, PTL

\* No record says running for ever: one that does has a job, or is from before a restart.
THEOREM RunningIsBacked == Spec => []RunningHasJob
<1>1. IInv => RunningHasJob
  <2>1. ASSUME IInv, NEW b \in Range(builds), b.ref = NoRef, b.status = "running"
        PROVE  b.gen \in history.orphans \/ \E j \in jobs : j.id = b.id
    <3>1. PICK i \in 1..Len(builds) : b = builds[i]
      <4>1. builds \in Seq(Records)
        BY <2>1 DEF IInv, Memory, ListOK
      <4>2. DOMAIN builds = 1..Len(builds)
        BY <4>1, SMT
      <4> QED BY <2>1, <4>2 DEF Range
    <3> QED BY <2>1, <3>1 DEF IInv, Memory, RunningOK
  <2> QED BY <2>1 DEF RunningHasJob
<1> QED BY <1>1, Inductive, PTL

\* No step but a restart takes a detail from a record, except one that a client found while
\* syncBuildHistory held a copy.
THEOREM DetailsAreKept == Spec => DetailsKept
<1>1. IInv /\ [Next]_vars => [restarts' = restarts =>
        \A b \in Range(builds), c \in Range(builds') :
          Same(b, c) => (b.known \subseteq c.known \/ (sync.pc = "apply" /\ b.id \in history.late))]_builds
  <2> SUFFICES ASSUME IInv, Next, restarts' = restarts, NEW b \in Range(builds), NEW c \in Range(builds'), Same(b, c)
               PROVE  b.known \subseteq c.known \/ (sync.pc = "apply" /\ b.id \in history.late)
    BY DEF vars, store
  <2>1. IInv' /\ KeptBy(builds')
    BY NextInv
  <2>2. builds \in Seq(Records) /\ builds' \in Seq(Records)
    BY <2>1 DEF IInv, Memory, ListOK
  <2>3. PICK i \in 1..Len(builds), k \in 1..Len(builds') : b = builds[i] /\ c = builds'[k]
    BY <2>2, SMT DEF Range
  <2> QED BY <2>1, <2>3 DEF KeptBy
<1> QED BY <1>1, Inductive, PTL DEF Spec, DetailsKept

=============================================================================
