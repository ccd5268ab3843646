-------------------------- MODULE ExportScheduler --------------------------
(***************************************************************************)
(* Recurring volume exports (backend/internal/daemon/export_scheduler.go,  *)
(* export_runner.go, volumeexport/schedule.go, schedule_input.go and       *)
(* api/volume_export_schedules.go): the scheduler goroutine, the handlers  *)
(* that create, change and delete schedules, and the schedule file that    *)
(* both read, change and write without a lock.                             *)
(*                                                                         *)
(* One volume is modelled, so one file: a function from the ids of its     *)
(* schedules to the schedules.  os.WriteFile truncates and then writes;    *)
(* in between, and after a crash in between, the file does not decode.     *)
(* A schedule keeps what decides when it runs; names, targets and the      *)
(* texts of the last run are left out.  What an export does to volumes and *)
(* images is the module EngineResources.                                   *)
(***************************************************************************)
EXTENDS ScheduleTiming

CONSTANTS Ids,          \* schedule ids; NewID never returns one twice
          Clients,      \* goroutines serving schedule requests
          Torn,         \* the contents of a file that does not decode
          Plans,        \* day_times values a client may send
          MaxTime,      \* bound: the clock
          MaxEdits,     \* bound: requests in a behaviour
          MaxFaults     \* bound: restarts of the daemon and failed saves of the scheduler

ASSUME BoundsAssumption == MaxTime \in Nat /\ MaxEdits \in Nat /\ MaxFaults \in Nat

ASSUME PlansAssumption ==
  \A p \in Plans : p # {} /\ p \subseteq {t \in 0..(Week - 1) : t % Minute = 0}

Scheduler == "scheduler"

ASSUME ClientsAssumption == Scheduler \notin Clients

Writers == Clients \cup {Scheduler}

VARIABLES
  file,     \* the schedule file: a function on a subset of Ids, or Torn
  now,      \* the clock
  ticked,   \* a tick waits in the ticker's channel
  sch,      \* the scheduler goroutine
  client,   \* client[c]: a request being served
  record,   \* status on disk of the scheduler's latest export
  stop,     \* Stop was called
  used,     \* ids given out
  ran,      \* ran[<<id, slot>>]: exports started for a slot (history variable)
  edits,    \* requests so far
  faults    \* restarts and failed saves so far

vars == <<file, now, ticked, sch, client, record, stop, used, ran, edits, faults>>

Schedule(enabled, plan, next) == [enabled |-> enabled, plan |-> plan, next |-> next]
NoSchedule == Schedule(FALSE, {}, Never)
Empty == [i \in {} |-> NoSchedule]

Off == [pc |-> "off", todo |-> {}, list |-> Empty, id |-> "", rec |-> NoSchedule, copy |-> Empty]
IdleClient == [pc |-> "idle", id |-> "", op |-> "none", rec |-> NoSchedule, copy |-> Empty]

Schedules == [enabled : BOOLEAN, plan : Plans \cup {{}}, next : Int]

TypeOK ==
  /\ file = Torn \/ (DOMAIN file \subseteq Ids /\ \A i \in DOMAIN file : file[i] \in Schedules)
  /\ now \in 0..MaxTime /\ ticked \in BOOLEAN
  /\ sch.pc \in {"off", "tick", "idle", "loop", "status", "export", "save", "truncate", "fill"}
  /\ sch.todo \subseteq Ids /\ sch.rec \in Schedules
  /\ \A c \in Clients : client[c].pc \in {"idle", "read", "truncate", "fill"}
  /\ record \in {"none", "running", "completed", "failed"}
  /\ stop \in BOOLEAN /\ used \subseteq Ids
  /\ edits \in 0..MaxEdits /\ faults \in 0..MaxFaults
  /\ \A i \in DOMAIN ran : ran[i] \in Nat

\* The file is as an earlier run of the daemon left it.
Init ==
  /\ \E S \in {{}, Ids}, plan \in Plans :
       /\ file = [i \in S |-> Schedule(TRUE, plan, NextRun(TRUE, plan, 0, FALSE))]
       /\ used = S
  /\ now = 0 /\ ticked = FALSE
  /\ sch = [Off EXCEPT !.pc = "tick"]
  /\ client = [c \in Clients |-> IdleClient]
  /\ record = "none" /\ stop = FALSE
  /\ ran = [x \in {} |-> 0]
  /\ edits = 0 /\ faults = 0

-----------------------------------------------------------------------------
(* The schedule store.                                                     *)

\* Not in the code: a file that does not decode is taken for an empty one.
ReadableAlways == TRUE

Readable == file # Torn

Contents == IF file = Torn THEN Empty ELSE file

WithSchedule(copy, id, rec) == [i \in DOMAIN copy \cup {id} |-> IF i = id THEN rec ELSE copy[i]]
Without(copy, id) == [i \in DOMAIN copy \ {id} |-> copy[i]]

Writing(w) ==
  IF w = Scheduler THEN sch.pc \in {"truncate", "fill"} ELSE client[w].pc \in {"truncate", "fill"}

\* os.WriteFile, first half; Delete removes the file of the last schedule in one step.
Truncate(copy) == file' = IF DOMAIN copy = {} THEN Empty ELSE Torn

\* The second half; over what another one wrote since, it may leave a mixture.
Fill(copy) == file' = copy \/ (file # Torn /\ file' = Torn)

\* The read, the open or the write fails.  Only once the file was opened, and truncated,
\* is it touched: what was written of it does not decode.
AccessFails(pc) == file' \in (IF pc = "fill" THEN {file, Torn} ELSE {file})

-----------------------------------------------------------------------------
(* The handlers: each reads, changes and writes the file.                  *)

Serve(c, next) == client' = [client EXCEPT ![c] = next]

\* handleVolumeExportScheduleCreate: ScheduleFromInput, then Save under a new id.
Create(c) ==
  /\ client[c].pc = "idle" /\ edits < MaxEdits
  /\ \E id \in Ids \ used, enabled \in BOOLEAN, plan \in Plans :
       /\ Serve(c, [IdleClient EXCEPT !.pc = "read", !.op = "put", !.id = id,
                      !.rec = Schedule(enabled, plan, NextRun(enabled, plan, now, FALSE))])
       /\ used' = used \cup {id}
  /\ edits' = edits + 1
  /\ UNCHANGED <<file, now, ticked, sch, record, stop, ran, faults>>

\* handleVolumeExportScheduleUpdate: Get, merge the payload, ScheduleFromInput.
Update(c) ==
  /\ client[c].pc = "idle" /\ edits < MaxEdits /\ Readable
  /\ \E id \in DOMAIN Contents, enabled \in BOOLEAN, plan \in Plans :
       Serve(c, [IdleClient EXCEPT !.pc = "read", !.op = "put", !.id = id,
                   !.rec = Schedule(enabled, plan, NextRun(enabled, plan, now, FALSE))])
  /\ edits' = edits + 1
  /\ UNCHANGED <<file, now, ticked, sch, record, stop, used, ran, faults>>

\* handleVolumeExportScheduleDelete.
Delete(c) ==
  /\ client[c].pc = "idle" /\ edits < MaxEdits
  /\ \E id \in used : Serve(c, [IdleClient EXCEPT !.pc = "read", !.op = "delete", !.id = id])
  /\ edits' = edits + 1
  /\ UNCHANGED <<file, now, ticked, sch, record, stop, used, ran, faults>>

\* Save and Delete begin with List: an unreadable file and an unknown id are errors.
ClientRead(c) ==
  /\ client[c].pc = "read"
  /\ IF Readable /\ (client[c].op = "put" \/ client[c].id \in DOMAIN Contents)
       THEN Serve(c, [client[c] EXCEPT !.pc = "truncate",
                        !.copy = IF client[c].op = "put"
                                   THEN WithSchedule(Contents, client[c].id, client[c].rec)
                                   ELSE Without(Contents, client[c].id)])
       ELSE Serve(c, IdleClient)
  /\ UNCHANGED <<file, now, ticked, sch, record, stop, used, ran, edits, faults>>

ClientTruncate(c) ==
  /\ client[c].pc = "truncate"
  /\ Truncate(client[c].copy)
  /\ Serve(c, IF DOMAIN client[c].copy = {} THEN IdleClient ELSE [client[c] EXCEPT !.pc = "fill"])
  /\ UNCHANGED <<now, ticked, sch, record, stop, used, ran, edits, faults>>

ClientFill(c) ==
  /\ client[c].pc = "fill"
  /\ Fill(client[c].copy)
  /\ Serve(c, IdleClient)
  /\ UNCHANGED <<now, ticked, sch, record, stop, used, ran, edits, faults>>

\* List, MkdirAll, WriteFile or Remove fails, and the request with it.
ClientFails(c) ==
  /\ client[c].pc # "idle"
  /\ AccessFails(client[c].pc)
  /\ Serve(c, IdleClient)
  /\ UNCHANGED <<now, ticked, sch, record, stop, used, ran, edits, faults>>

-----------------------------------------------------------------------------
(* The scheduler.                                                          *)

\* Every enabled schedule that is due by the one reading of the clock.
Due == {i \in DOMAIN Contents : Contents[i].enabled /\ ScheduleDue(Contents[i].next, now)}

\* tick: a file that cannot be read is skipped, like one that does not decode.
Tick ==
  /\ sch.pc = "tick"
  /\ \E due \in {Due, {}} : sch' = [sch EXCEPT !.pc = "loop", !.list = Contents, !.todo = due]
  /\ UNCHANGED <<file, now, ticked, client, record, stop, used, ran, edits, faults>>

\* The loop over the due schedules, which looks at stop first; with none left, wait.
NextSchedule ==
  /\ sch.pc = "loop"
  /\ \/ /\ stop \/ sch.todo = {}
        /\ sch' = [Off EXCEPT !.pc = "idle"]
     \/ /\ ~stop
        /\ \E i \in sch.todo :
             sch' = [sch EXCEPT !.pc = "status", !.id = i, !.rec = sch.list[i], !.todo = @ \ {i}]
  /\ UNCHANGED <<file, now, ticked, client, record, stop, used, ran, edits, faults>>

\* The next run is computed from the clock, not from the tick.
AfterRun(rec) == NextRun(rec.enabled, rec.plan, now, TRUE)

Skipped(rec) == IF AfterRun(rec) = Invalid THEN rec ELSE [rec EXCEPT !.next = AfterRun(rec)]

Rescheduled(rec) == IF AfterRun(rec) = Invalid THEN [rec EXCEPT !.enabled = FALSE] ELSE Skipped(rec)

\* runSchedule while the runtime is not running.
SkipRun ==
  /\ sch.pc = "status"
  /\ sch' = [sch EXCEPT !.pc = "save", !.rec = Skipped(@)]
  /\ UNCHANGED <<file, now, ticked, client, record, stop, used, ran, edits, faults>>

Count(key) == IF key \in DOMAIN ran THEN ran[key] ELSE 0

\* ExecuteVolumeExport saves the export as running and calls Runtime.ExportVolume.
StartExport ==
  LET key == <<sch.id, sch.rec.next>> IN
  /\ sch.pc = "status"
  /\ sch' = [sch EXCEPT !.pc = "export"]
  /\ record' = "running"
  /\ ran' = [k \in DOMAIN ran \cup {key} |-> IF k = key THEN Count(k) + 1 ELSE ran[k]]
  /\ UNCHANGED <<file, now, ticked, client, stop, used, edits, faults>>

Settle == record' \in {"completed", "failed"}

\* The export ends, fails, times out or is cancelled by Stop; its record is saved.
ExportEnds ==
  /\ sch.pc = "export"
  /\ Settle
  /\ sch' = [sch EXCEPT !.pc = "save", !.rec = Rescheduled(@)]
  /\ UNCHANGED <<file, now, ticked, client, stop, used, ran, edits, faults>>

\* Not in the code: saves over the list that was read at the tick.
SaveBase == sch.list

ReadAgain == Contents

\* store.Save of the schedule read at the tick: List, and the file changes meanwhile.
SaveSchedule ==
  /\ sch.pc = "save"
  /\ sch' = IF Readable
              THEN [sch EXCEPT !.pc = "truncate", !.copy = WithSchedule(ReadAgain, sch.id, sch.rec)]
              ELSE [sch EXCEPT !.pc = "loop"]
  /\ UNCHANGED <<file, now, ticked, client, record, stop, used, ran, edits, faults>>

SchedulerTruncate ==
  /\ sch.pc = "truncate"
  /\ Truncate(sch.copy)
  /\ sch' = [sch EXCEPT !.pc = "fill"]
  /\ UNCHANGED <<now, ticked, client, record, stop, used, ran, edits, faults>>

SchedulerFill ==
  /\ sch.pc = "fill"
  /\ Fill(sch.copy)
  /\ sch' = [sch EXCEPT !.pc = "loop", !.copy = Empty, !.id = "", !.rec = NoSchedule]
  /\ UNCHANGED <<now, ticked, client, record, stop, used, ran, edits, faults>>

\* store.Save fails, which runSchedule only logs: the slot that ran stays in the file.
SaveFails ==
  /\ sch.pc \in {"save", "truncate", "fill"} /\ faults < MaxFaults
  /\ AccessFails(sch.pc)
  /\ sch' = [sch EXCEPT !.pc = "loop", !.copy = Empty, !.id = "", !.rec = NoSchedule]
  /\ faults' = faults + 1
  /\ UNCHANGED <<now, ticked, client, record, stop, used, ran, edits>>

\* select over the ticker and s.stop; when both are ready either may win.
WakeUp ==
  /\ sch.pc = "idle"
  /\ \/ /\ ticked
        /\ ticked' = FALSE
        /\ sch' = [sch EXCEPT !.pc = "tick"]
     \/ /\ stop
        /\ sch' = Off
        /\ UNCHANGED ticked
  /\ UNCHANGED <<file, now, client, record, stop, used, ran, edits, faults>>

SchedulerStep ==
  \/ Tick \/ NextSchedule \/ SkipRun \/ StartExport \/ ExportEnds
  \/ SaveSchedule \/ SchedulerTruncate \/ SchedulerFill \/ SaveFails \/ WakeUp

-----------------------------------------------------------------------------
(* The environment.                                                        *)

\* The ticker's channel holds one tick; a tick that finds it full is dropped.
ClockAdvances ==
  /\ now < MaxTime
  /\ now' = now + 1
  /\ ticked' = (ticked \/ (sch.pc # "off" /\ (now + 1) % Minute = 0))
  /\ UNCHANGED <<file, sch, client, record, stop, used, ran, edits, faults>>

\* Stop: cancels the context of a running export and closes s.stop.
Stop ==
  /\ ~stop /\ sch.pc # "off"
  /\ stop' = TRUE
  /\ UNCHANGED <<file, now, ticked, sch, client, record, used, ran, edits, faults>>

\* The daemon dies, or is killed after Stop, and is started again; run ticks at once.
Restart ==
  /\ faults < MaxFaults
  /\ faults' = faults + 1
  /\ sch' = [Off EXCEPT !.pc = "tick"]
  /\ client' = [c \in Clients |-> IdleClient]
  /\ stop' = FALSE /\ ticked' = FALSE
  /\ UNCHANGED <<file, now, record, used, ran, edits>>

ClientStep(c) ==
  \/ Create(c) \/ Update(c) \/ Delete(c)
  \/ ClientRead(c) \/ ClientTruncate(c) \/ ClientFill(c) \/ ClientFails(c)

Next ==
  \/ \E c \in Clients : ClientStep(c)
  \/ SchedulerStep
  \/ ClockAdvances \/ Stop \/ Restart

Spec == Init /\ [][Next]_vars

\* Only an export takes time: the clock stands still while a request is served, and while
\* the scheduler has a tick to take or a file to write; and no tick fails to read the file.
Timely ==
  /\ \A c \in Clients : client[c].pc = "idle"
  /\ sch.pc \in {"off", "export"} \/ (sch.pc = "idle" /\ ~ticked)
TimelySpec ==
  Init /\ [][/\ Next /\ (now' # now => Timely)
             /\ sch.pc = "tick" /\ sch' # sch => Readable /\ sch'.todo = Due]_vars

-----------------------------------------------------------------------------
(* Properties.                                                             *)

\* A slot is exported once: the next run is computed strictly after the run, so a second
\* export of the same slot needs, within the slot's grace period, an edit, a restart or a
\* save of the scheduler that fails.
OncePerSlot == \A key \in DOMAIN ran : ran[key] <= 1 + edits + faults

Holds(id) ==
  \/ id \in sch.todo \/ (sch.pc \in {"status", "export", "save"} /\ sch.id = id)
  \/ id \in DOMAIN sch.copy
  \/ \E c \in Clients : id \in DOMAIN client[c].copy \/ (client[c].op = "put" /\ client[c].id = id)

Gone(id) == (file = Torn \/ id \notin DOMAIN file) /\ ~Holds(id)

\* A schedule that was deleted stays deleted, once nobody is left who had taken it from
\* the file before: the scheduler running it, or a writer whose copy still has it.
DeletedStaysDeleted == [][\A id \in used : file # Torn /\ Gone(id) => Gone(id)']_vars

\* Not true of the code: runSchedule saves the schedule it took from the file before its
\* export, be it deleted meanwhile or not.
DeleteIsFinal == file # Torn => DOMAIN sch.copy \subseteq DOMAIN file

\* A file that does not decode is never written over by Save or Delete: whatever can be
\* recovered from it stays, and the schedules in it stand still.
UnreadableFileIsKept ==
  [][file = Torn /\ (\A w \in Writers : ~Writing(w)) => file' = Torn /\ (\A w \in Writers : ~Writing(w)')]_vars

\* "a once-per-minute scheduler cannot skip a slot": with the scheduler at work and awaiting
\* its next tick, an enabled schedule's next run is not already past its grace period.
SlotNotSkipped ==
  sch.pc = "idle" /\ ~ticked /\ ~stop /\ file # Torn =>
    \A i \in DOMAIN file : file[i].enabled => SlotStillRunnable(file[i].next, now)

=============================================================================
