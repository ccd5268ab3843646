------------------------ MODULE ExportSchedulerProofs ------------------------
(***************************************************************************)
(* Proofs about ExportScheduler, for any schedules, clients, plans, clock  *)
(* and bounds: a slot is exported once but for edits, restarts and failed  *)
(* saves, what was deleted stays deleted, and a file that does not decode  *)
(* is kept.                                                                *)
(***************************************************************************)
EXTENDS ExportScheduler, FiniteSetTheorems, WellFoundedInduction, TLAPS

USE Zenon

-----------------------------------------------------------------------------
(* When a schedule runs.                                                   *)

\* A set of natural numbers has a least one.
LEMMA LeastIs ==
  ASSUME NEW S \in SUBSET Nat, S # {}
  PROVE  Min(S) \in S
<1>1. PICK x \in S : \A y \in S : ~(<<y, x>> \in OpToRel(<, Nat))
  BY NatLessThanWellFounded, WFMin
<1>2. ASSUME NEW y \in S PROVE x <= y
  <2>1. ~(y < x)
    BY <1>1 DEF OpToRel
  <2> QED BY <2>1, SMT
<1> QED BY <1>2 DEF Min

\* What falls on a multiple within a multiple is a multiple.
LEMMA MultipleIs ==
  ASSUME NEW m \in Nat \ {0}, NEW w \in Nat \ {0}, w % m = 0, NEW t \in Nat, (t % w) % m = 0
  PROVE  t % m = 0
<1> DEFINE k == w \div m
           a == t \div w
           b == (t % w) \div m
<1>1. w = m * k /\ t = w * a + (t % w) /\ t % w = m * b /\ k \in Nat /\ a \in Nat /\ b \in Nat
  BY SMT
<1> HIDE DEF k, a, b
<1>2. t = m * (k * a + b) /\ k * a + b \in Nat
  BY <1>1, SMT
<1>3. \A c \in Nat : (m * c) % m = 0
  BY SMT
<1> QED BY <1>2, <1>3

\* A week is a number of minutes.
LEMMA WeekIs == Week \in Nat \ {0} /\ Week % Minute = 0
<1> DEFINE k == DayLength \div Minute
<1>1. DayLength = Minute * k /\ k \in Nat
  BY TimingAssumption, SMT
<1> HIDE DEF k
<1>2. Week = Minute * (WeekDays * k) /\ WeekDays * k \in Nat
  BY <1>1, TimingAssumption, SMT DEF Week
<1>3. \A c \in Nat : (Minute * c) % Minute = 0
  BY TimingAssumption, SMT
<1>4. Week \in Nat \ {0}
  BY TimingAssumption, SMT DEF Week
<1> QED BY <1>2, <1>3, <1>4

\* Next runs: on the minute, or one of the two marks.
Times == {t \in Int : t < 0 \/ t % Minute = 0}

\* computeNextRun names a minute; after a run, one that is still to come.
LEMMA NextRunIs ==
  ASSUME NEW e \in BOOLEAN, NEW plan \in Plans \cup {{}}, NEW n \in Nat, NEW a \in BOOLEAN
  PROVE  LET t == NextRun(e, plan, n, a) IN t \in Times /\ (e /\ a => t = Invalid \/ t > n)
<1> DEFINE C == Candidates(plan, n, a)
           s == DayStart(n)
<1>1. s \in Nat
  BY TimingAssumption, SMT DEF DayStart
<1>2. Week \in Nat \ {0} /\ Week % Minute = 0 /\ Minute \in Nat \ {0}
  BY WeekIs, TimingAssumption
<1>3. \A t \in C : t \in s .. s + 2 * Week - 1 /\ t % Week \in plan /\ Runnable(t, n, a)
  BY DEF Candidates
<1> HIDE DEF C, s
<1>4. C \subseteq Nat
  <2>1. \A t \in s .. s + 2 * Week - 1 : t \in Nat
    BY <1>1, <1>2, SMT
  <2> QED BY <1>3, <2>1
<1>5. ASSUME NEW t \in C PROVE t % Minute = 0
  <2>1. t \in Nat /\ (t % Week) % Minute = 0
    BY <1>3, <1>4, PlansAssumption
  <2> QED BY <1>2, <2>1, MultipleIs
<1>6. ASSUME NEW t \in C PROVE t \in Times /\ (a => t > n)
  <2>1. t \in Int
    BY <1>4, <1>6, SMT
  <2> QED BY <1>3, <1>5, <2>1 DEF Times, Runnable
<1>7. Never \in Times /\ Invalid \in Times
  BY SMT DEF Never, Invalid, Times
<1>8. CASE ~e
  BY <1>7, <1>8 DEF NextRun
<1>9. CASE e /\ C = {}
  BY <1>7, <1>9 DEF NextRun, C
<1>10. CASE e /\ C # {}
  <2>1. Min(C) \in C
    BY <1>4, <1>10, LeastIs
  <2> QED BY <1>6, <1>10, <2>1 DEF NextRun, C
<1> QED BY <1>8, <1>9, <1>10

\* A schedule is due at its slot, not before it.
LEMMA DueIs ==
  ASSUME NEW t \in Times, NEW n \in Nat, ScheduleDue(t, n)
  PROVE  t <= n
<1>1. t \in Int /\ Minute \in Nat \ {0} /\ n \div Minute >= t \div Minute
  BY TimingAssumption DEF Times, ScheduleDue
<1>2. CASE t < 0
  BY <1>1, <1>2, SMT
<1>3. CASE t \in Nat /\ t % Minute = 0
  <2>1. t = Minute * (t \div Minute) /\ n >= Minute * (n \div Minute)
        /\ t \div Minute \in Nat /\ n \div Minute \in Nat
    BY <1>1, <1>3, SMT
  <2>2. \A c, d \in Nat : c >= d => Minute * c >= Minute * d
    BY <1>1, SMT
  <2>3. Minute * (n \div Minute) >= Minute * (t \div Minute)
    BY <1>1, <2>1, <2>2
  <2>4. Minute * (n \div Minute) \in Nat
    BY <1>1, <2>1, SMT
  <2> QED BY <1>3, <2>1, <2>3, <2>4, SMT
<1>4. t < 0 \/ (t \in Nat /\ t % Minute = 0)
  BY <1>1, SMT DEF Times
<1> QED BY <1>2, <1>3, <1>4

-----------------------------------------------------------------------------
(* What the file, the scheduler and the handlers hold.                     *)

\* A schedule whose next run falls on the minute.
Recs == [enabled : BOOLEAN, plan : Plans \cup {{}}, next : Times]

\* What a readable file decodes to: the schedules of some of the ids.
Files == UNION {[S -> Recs] : S \in SUBSET Ids}

\* The scheduler goroutine: the list of its tick, the schedule it runs, the copy it writes.
SchRecs ==
  [pc : {"off", "tick", "idle", "loop", "status", "export", "save", "truncate", "fill"},
   todo : SUBSET Ids, list : Files, id : Ids \cup {""}, rec : Recs, copy : Files]

\* A handler: its request, and the copy it writes.
ClientRecs ==
  [pc : {"idle", "read", "truncate", "fill"}, id : Ids \cup {""}, op : {"none", "put", "delete"},
   rec : Recs, copy : Files]

\* Exports counted per schedule and slot.
Ledgers == UNION {[S -> Nat] : S \in SUBSET (Ids \X Int)}

\* What the scheduler takes from one step to the next.
SchTypes ==
  /\ sch \in SchRecs
  /\ sch.todo \subseteq DOMAIN sch.list
  /\ sch.pc \in {"status", "export", "save"} => sch.id \in Ids

\* The type of each variable; next runs fall on the minute.
Types ==
  /\ file = Torn \/ file \in Files
  /\ now \in 0..MaxTime
  /\ ticked \in BOOLEAN
  /\ SchTypes
  /\ client \in [Clients -> ClientRecs]
  /\ \A c \in Clients : client[c].pc = "read" => client[c].id \in Ids
  /\ record \in {"none", "running", "completed", "failed"}
  /\ stop \in BOOLEAN
  /\ used \subseteq Ids
  /\ ran \in Ledgers
  /\ edits \in 0..MaxEdits
  /\ faults \in 0..MaxFaults

\* A file is a function from ids to schedules.
LEMMA FileIs ==
  ASSUME NEW f \in Files
  PROVE  DOMAIN f \subseteq Ids /\ \A i \in DOMAIN f : f[i] \in Recs
BY DEF Files

\* The three marks and the empty schedule are schedules.
LEMMA NoScheduleIs == NoSchedule \in Recs
<1>1. Never \in Times
  BY SMT DEF Never, Times
<1> QED BY <1>1 DEF NoSchedule, Schedule, Recs

\* The empty file.
LEMMA EmptyIs == Empty \in Files /\ DOMAIN Empty = {}
<1>1. Empty \in [{} -> Recs] /\ DOMAIN Empty = {}
  BY DEF Empty
<1> QED BY <1>1 DEF Files

\* Save: the file with one schedule put in place, the others as they were.
LEMMA WithIs ==
  ASSUME NEW f \in Files, NEW id \in Ids, NEW rec \in Recs
  PROVE  /\ WithSchedule(f, id, rec) \in Files
         /\ DOMAIN WithSchedule(f, id, rec) = DOMAIN f \cup {id}
         /\ WithSchedule(f, id, rec)[id] = rec
         /\ \A i \in DOMAIN f : i # id => WithSchedule(f, id, rec)[i] = f[i]
<1> DEFINE S == DOMAIN f \cup {id}
           g == WithSchedule(f, id, rec)
<1>1. DOMAIN f \subseteq Ids /\ \A i \in DOMAIN f : f[i] \in Recs
  BY FileIs
<1>2. g = [i \in S |-> IF i = id THEN rec ELSE f[i]] /\ S \subseteq Ids
  BY <1>1 DEF WithSchedule
<1>3. \A i \in S : (IF i = id THEN rec ELSE f[i]) \in Recs
  BY <1>1
<1>4. g \in [S -> Recs]
  BY <1>2, <1>3
<1>5. g \in Files
  BY <1>2, <1>4 DEF Files
<1> QED BY <1>2, <1>5

\* Delete: the file without one schedule.
LEMMA WithoutIs ==
  ASSUME NEW f \in Files, NEW id
  PROVE  Without(f, id) \in Files /\ DOMAIN Without(f, id) = DOMAIN f \ {id}
<1> DEFINE S == DOMAIN f \ {id}
           g == Without(f, id)
<1>1. DOMAIN f \subseteq Ids /\ \A i \in DOMAIN f : f[i] \in Recs
  BY FileIs
<1>2. g = [i \in S |-> f[i]] /\ S \subseteq Ids
  BY <1>1 DEF Without
<1>3. g \in [S -> Recs]
  BY <1>1, <1>2
<1>4. g \in Files
  BY <1>2, <1>3 DEF Files
<1> QED BY <1>2, <1>4

\* List: what a reader of the file gets.
LEMMA ContentsIs ==
  ASSUME Types
  PROVE  Contents \in Files /\ (file # Torn => Contents = file)
BY EmptyIs DEF Types, Contents

\* A goroutine that is not at work holds nothing.
LEMMA OffIs ==
  /\ Off \in SchRecs
  /\ IdleClient \in ClientRecs
  /\ [Off EXCEPT !.pc = "tick"] \in SchRecs /\ [Off EXCEPT !.pc = "idle"] \in SchRecs
<1>1. Off \in SchRecs
  BY EmptyIs, NoScheduleIs DEF Off, SchRecs
<1>2. IdleClient \in ClientRecs
  BY EmptyIs, NoScheduleIs DEF IdleClient, ClientRecs
<1>3. [Off EXCEPT !.pc = "tick"] \in SchRecs /\ [Off EXCEPT !.pc = "idle"] \in SchRecs
  BY <1>1 DEF SchRecs
<1> QED BY <1>1, <1>2, <1>3

\* The clock reads a natural number.
LEMMA NowIs ==
  ASSUME Types
  PROVE  now \in Nat /\ edits \in Nat /\ faults \in Nat
BY BoundsAssumption, SMT DEF Types

\* A schedule made by ScheduleFromInput.
LEMMA MadeIs ==
  ASSUME Types, NEW enabled \in BOOLEAN, NEW plan \in Plans
  PROVE  Schedule(enabled, plan, NextRun(enabled, plan, now, FALSE)) \in Recs
<1>1. NextRun(enabled, plan, now, FALSE) \in Times
  BY NowIs, NextRunIs
<1> QED BY <1>1 DEF Schedule, Recs

\* A schedule after a run: its next run is still to come, or it is disabled.
LEMMA RescheduledIs ==
  ASSUME Types, NEW rec \in Recs
  PROVE  /\ Skipped(rec) \in Recs /\ Rescheduled(rec) \in Recs
         /\ Skipped(rec).enabled = rec.enabled
         /\ rec.enabled => Skipped(rec) = rec \/ Skipped(rec).next > now
         /\ Rescheduled(rec).enabled /\ rec.enabled => Rescheduled(rec).next > now
<1> DEFINE t == AfterRun(rec)
<1>1. rec.enabled \in BOOLEAN /\ rec.plan \in Plans \cup {{}}
  BY DEF Recs
<1>2. t \in Times /\ (rec.enabled => t = Invalid \/ t > now)
  BY <1>1, NowIs, NextRunIs DEF AfterRun
<1> HIDE DEF t
<1>3. [rec EXCEPT !.next = t] \in Recs /\ [rec EXCEPT !.next = t].next = t
      /\ [rec EXCEPT !.next = t].enabled = rec.enabled
  BY <1>2, SMT DEF Recs
<1>4. [rec EXCEPT !.enabled = FALSE] \in Recs /\ [rec EXCEPT !.enabled = FALSE].enabled = FALSE
  BY DEF Recs
<1>5. CASE t = Invalid
  BY <1>4, <1>5 DEF Skipped, Rescheduled, t
<1>6. CASE t # Invalid
  BY <1>2, <1>3, <1>6 DEF Skipped, Rescheduled, t
<1> QED BY <1>5, <1>6

-----------------------------------------------------------------------------
(* Type correctness.                                                       *)

\* A handler moves on; the others stand still.
LEMMA ServeIs ==
  ASSUME Types, NEW c \in Clients, NEW n \in ClientRecs, n.pc = "read" => n.id \in Ids, Serve(c, n)
  PROVE  /\ client' \in [Clients -> ClientRecs]
         /\ \A d \in Clients : client'[d].pc = "read" => client'[d].id \in Ids
         /\ client'[c] = n
         /\ \A d \in Clients : d # c => client'[d] = client[d]
<1>1. client' = [client EXCEPT ![c] = n] /\ client \in [Clients -> ClientRecs]
  BY DEF Serve, Types
<1>2. client'[c] = n /\ \A d \in Clients : d # c => client'[d] = client[d]
  BY <1>1
<1>3. client' \in [Clients -> ClientRecs]
  BY <1>1
<1>4. \A d \in Clients : client'[d].pc = "read" => client'[d].id \in Ids
  BY <1>2 DEF Types
<1> QED BY <1>2, <1>3, <1>4

\* Create takes up a request for an id that was never given out.
LEMMA CreateIs ==
  ASSUME Types, NEW c \in Clients, Create(c)
  PROVE  \E n \in ClientRecs, id \in Ids \ used :
            /\ Serve(c, n) /\ n.pc = "read" /\ n.op = "put" /\ n.id = id /\ n.copy = Empty
            /\ used' = used \cup {id}
<1>1. PICK id \in Ids \ used, enabled \in BOOLEAN, plan \in Plans :
        /\ Serve(c, [IdleClient EXCEPT !.pc = "read", !.op = "put", !.id = id,
                       !.rec = Schedule(enabled, plan, NextRun(enabled, plan, now, FALSE))])
        /\ used' = used \cup {id}
  BY DEF Create
<1> DEFINE rec == Schedule(enabled, plan, NextRun(enabled, plan, now, FALSE))
           n == [IdleClient EXCEPT !.pc = "read", !.op = "put", !.id = id, !.rec = rec]
<1>2. rec \in Recs
  BY MadeIs
<1>3. Serve(c, n)
  BY <1>1
<1> HIDE DEF rec
<1>4. n \in ClientRecs /\ n.pc = "read" /\ n.op = "put" /\ n.id = id /\ n.copy = Empty
  BY <1>2, OffIs DEF IdleClient, ClientRecs
<1> HIDE DEF n
<1> QED BY <1>1, <1>3, <1>4

\* Update takes up a request for an id the file has.
LEMMA UpdateIs ==
  ASSUME Types, NEW c \in Clients, Update(c)
  PROVE  \E n \in ClientRecs, id \in Ids :
            /\ Serve(c, n) /\ n.pc = "read" /\ n.op = "put" /\ n.id = id /\ n.copy = Empty
            /\ file # Torn /\ id \in DOMAIN file
<1>1. PICK id \in DOMAIN Contents, enabled \in BOOLEAN, plan \in Plans :
        Serve(c, [IdleClient EXCEPT !.pc = "read", !.op = "put", !.id = id,
                    !.rec = Schedule(enabled, plan, NextRun(enabled, plan, now, FALSE))])
  BY DEF Update
<1> DEFINE rec == Schedule(enabled, plan, NextRun(enabled, plan, now, FALSE))
           n == [IdleClient EXCEPT !.pc = "read", !.op = "put", !.id = id, !.rec = rec]
<1>2. file # Torn /\ id \in DOMAIN file /\ id \in Ids
  BY ContentsIs, FileIs DEF Update, Readable
<1>3. rec \in Recs
  BY MadeIs
<1>4. Serve(c, n)
  BY <1>1
<1> HIDE DEF rec
<1>5. n \in ClientRecs /\ n.pc = "read" /\ n.op = "put" /\ n.id = id /\ n.copy = Empty
  BY <1>2, <1>3, OffIs DEF IdleClient, ClientRecs
<1> HIDE DEF n
<1> QED BY <1>2, <1>4, <1>5

\* Delete takes up a request for an id that was given out.
LEMMA DeleteIs ==
  ASSUME Types, NEW c \in Clients, Delete(c)
  PROVE  \E n \in ClientRecs, id \in Ids :
            Serve(c, n) /\ n.pc = "read" /\ n.op = "delete" /\ n.id = id /\ n.copy = Empty
<1>1. PICK id \in used : Serve(c, [IdleClient EXCEPT !.pc = "read", !.op = "delete", !.id = id])
  BY DEF Delete
<1> DEFINE n == [IdleClient EXCEPT !.pc = "read", !.op = "delete", !.id = id]
<1>2. id \in Ids
  BY DEF Types
<1>3. n \in ClientRecs /\ n.pc = "read" /\ n.op = "delete" /\ n.id = id /\ n.copy = Empty
  BY <1>2, OffIs DEF IdleClient, ClientRecs
<1>4. Serve(c, n)
  BY <1>1
<1> HIDE DEF n
<1> QED BY <1>2, <1>3, <1>4

\* Save and Delete read the file: they go on with a copy of it, changed at the request's
\* id alone, or give up.
LEMMA ClientReadIs ==
  ASSUME Types, NEW c \in Clients, ClientRead(c)
  PROVE  \/ Serve(c, IdleClient)
         \/ \E n \in ClientRecs :
              /\ Serve(c, n) /\ n.pc = "truncate" /\ file # Torn
              /\ n.op = client[c].op /\ n.id = client[c].id
              /\ DOMAIN n.copy \subseteq DOMAIN file
                   \cup (IF client[c].op = "put" THEN {client[c].id} ELSE {})
<1> DEFINE put == client[c].op = "put"
           id == client[c].id
           f == IF put THEN WithSchedule(Contents, id, client[c].rec) ELSE Without(Contents, id)
           n == [client[c] EXCEPT !.pc = "truncate", !.copy = f]
<1>1. client[c] \in ClientRecs /\ id \in Ids /\ client[c].rec \in Recs
  BY DEF Types, ClientRead, ClientRecs
<1>2. CASE ~(Readable /\ (put \/ id \in DOMAIN Contents))
  BY <1>2 DEF ClientRead
<1>3. CASE Readable /\ (put \/ id \in DOMAIN Contents)
  <2>1. Serve(c, n)
    BY <1>3 DEF ClientRead
  <2>2. file # Torn /\ Contents = file /\ file \in Files
    BY <1>3, ContentsIs DEF Readable
  <2>3. f \in Files /\ DOMAIN f \subseteq DOMAIN file \cup (IF put THEN {id} ELSE {})
    <3>1. CASE put
      <4> DEFINE r == client[c].rec
                 g == WithSchedule(file, id, r)
      <4>1. f = g
        BY <2>2, <3>1
      <4>2. id \in Ids /\ r \in Recs /\ file \in Files
        BY <1>1, <2>2
      <4> HIDE DEF f, id, r
      <4>3. g \in Files
        BY <4>2, WithIs
      <4>4. DOMAIN g = DOMAIN file \cup {id}
        BY <4>2, WithIs
      <4> HIDE DEF g
      <4> QED BY <3>1, <4>1, <4>3, <4>4
    <3>2. CASE ~put
      BY <2>2, <3>2, WithoutIs
    <3> QED BY <3>1, <3>2
  <2> HIDE DEF f
  <2>4. n \in ClientRecs /\ n.pc = "truncate" /\ n.copy = f /\ n.op = client[c].op /\ n.id = id
    BY <1>1, <2>3 DEF ClientRecs
  <2> HIDE DEF n
  <2> QED BY <2>1, <2>2, <2>3, <2>4
<1> QED BY <1>2, <1>3

\* os.WriteFile, first half, by a handler; with nothing to write it is done.
LEMMA ClientTruncateIs ==
  ASSUME Types, NEW c \in Clients, ClientTruncate(c)
  PROVE  /\ file' = Torn \/ file' = Empty
         /\ \/ Serve(c, IdleClient)
            \/ \E n \in ClientRecs :
                 /\ Serve(c, n) /\ n.pc = "fill" /\ file' = Torn
                 /\ n.op = client[c].op /\ n.id = client[c].id /\ n.copy = client[c].copy
<1> DEFINE n == [client[c] EXCEPT !.pc = "fill"]
<1>1. client[c] \in ClientRecs
  BY DEF Types
<1>2. n \in ClientRecs /\ n.pc = "fill" /\ n.op = client[c].op /\ n.id = client[c].id
      /\ n.copy = client[c].copy
  BY <1>1 DEF ClientRecs
<1>3. CASE DOMAIN client[c].copy = {}
  BY <1>3 DEF ClientTruncate, Truncate
<1>4. CASE DOMAIN client[c].copy # {}
  <2>1. Serve(c, n) /\ file' = Torn
    BY <1>4 DEF ClientTruncate, Truncate
  <2> HIDE DEF n
  <2> QED BY <1>2, <2>1
<1> QED BY <1>3, <1>4

\* The scheduler at rest, and as a restart begins it.
LEMMA AtRest ==
  ASSUME sch' = Off \/ sch' = [Off EXCEPT !.pc = "tick"] \/ sch' = [Off EXCEPT !.pc = "idle"]
  PROVE  /\ SchTypes'
         /\ sch'.pc \in {"off", "tick", "idle"} /\ sch'.todo = {} /\ sch'.copy = Empty
<1>1. sch' \in SchRecs
  BY OffIs
<1>2. sch'.pc \in {"off", "tick", "idle"} /\ sch'.todo = {} /\ sch'.copy = Empty
  <2>1. CASE sch' = Off
    BY <2>1 DEF Off
  <2>2. CASE sch' = [Off EXCEPT !.pc = "tick"]
    BY <2>2 DEF Off
  <2>3. CASE sch' = [Off EXCEPT !.pc = "idle"]
    BY <2>3 DEF Off
  <2> QED BY <2>1, <2>2, <2>3
<1>3. sch'.todo \subseteq DOMAIN sch'.list
  BY <1>2
<1>4. sch'.pc \notin {"status", "export", "save"}
  BY <1>2
<1> QED BY <1>1, <1>2, <1>3, <1>4 DEF SchTypes

\* tick: what is due is enabled, and its slot has come.
LEMMA TickIs ==
  ASSUME Types, Tick
  PROVE  /\ SchTypes'
         /\ sch'.pc = "loop" /\ sch'.list = Contents /\ sch'.todo \subseteq DOMAIN Contents
         /\ \A i \in sch'.todo : Contents[i].enabled /\ Contents[i].next <= now
         /\ sch'.copy = sch.copy
<1>1. PICK D \in {Due, {}} : sch' = [sch EXCEPT !.pc = "loop", !.list = Contents, !.todo = D]
  BY DEF Tick
<1>2. Contents \in Files
  BY ContentsIs
<1>3. D \subseteq DOMAIN Contents /\ D \subseteq Ids
  BY <1>2, FileIs DEF Due
<1>4. ASSUME NEW i \in D PROVE Contents[i].enabled /\ Contents[i].next <= now
  <2>1. Contents[i].next \in Times
    BY <1>2, <1>3, FileIs DEF Recs
  <2>2. Contents[i].enabled /\ ScheduleDue(Contents[i].next, now)
    BY DEF Due
  <2> QED BY <2>1, <2>2, NowIs, DueIs
<1>5. sch \in SchRecs
  BY DEF Types, SchTypes
<1>6. sch' \in SchRecs
  BY <1>1, <1>2, <1>3, <1>5 DEF SchRecs
<1>7. sch'.pc = "loop" /\ sch'.list = Contents /\ sch'.todo = D /\ sch'.copy = sch.copy
  BY <1>1, <1>5 DEF SchRecs
<1> QED BY <1>3, <1>4, <1>6, <1>7 DEF SchTypes

\* The loop is over, or takes up a schedule of its list.
LEMMA NextScheduleIs ==
  ASSUME Types, NextSchedule
  PROVE  /\ SchTypes'
         /\ \/ sch' = [Off EXCEPT !.pc = "idle"]
            \/ \E i \in sch.todo :
                 /\ sch'.pc = "status" /\ sch'.id = i /\ sch'.rec = sch.list[i]
                 /\ sch'.todo = sch.todo \ {i} /\ sch'.list = sch.list /\ sch'.copy = sch.copy
<1>1. CASE sch' = [Off EXCEPT !.pc = "idle"]
  BY <1>1, AtRest
<1>2. ASSUME NEW i \in sch.todo,
             sch' = [sch EXCEPT !.pc = "status", !.id = i, !.rec = sch.list[i], !.todo = @ \ {i}]
      PROVE  /\ SchTypes' /\ sch'.pc = "status" /\ sch'.id = i /\ sch'.rec = sch.list[i]
             /\ sch'.todo = sch.todo \ {i} /\ sch'.list = sch.list /\ sch'.copy = sch.copy
  <2>1. sch \in SchRecs /\ sch.todo \subseteq DOMAIN sch.list
    BY DEF Types, SchTypes
  <2>2. i \in Ids /\ sch.list[i] \in Recs /\ sch.todo \ {i} \in SUBSET Ids
    BY <2>1, FileIs DEF SchRecs
  <2>3. sch' \in SchRecs
    BY <1>2, <2>1, <2>2 DEF SchRecs
  <2>4. sch'.pc = "status" /\ sch'.id = i /\ sch'.rec = sch.list[i]
        /\ sch'.todo = sch.todo \ {i} /\ sch'.list = sch.list /\ sch'.copy = sch.copy
    BY <1>2, <2>1 DEF SchRecs
  <2> QED BY <2>1, <2>2, <2>3, <2>4 DEF SchTypes
<1> QED BY <1>1, <1>2 DEF NextSchedule

\* A run is skipped: the schedule moves to its next slot.
LEMMA SkipRunIs ==
  ASSUME Types, SkipRun
  PROVE  /\ SchTypes'
         /\ sch'.pc = "save" /\ sch'.rec = Skipped(sch.rec) /\ sch'.id = sch.id
         /\ sch'.todo = sch.todo /\ sch'.list = sch.list /\ sch'.copy = sch.copy
<1>1. sch \in SchRecs /\ sch' = [sch EXCEPT !.pc = "save", !.rec = Skipped(sch.rec)] /\ sch.rec \in Recs
  BY DEF Types, SchTypes, SkipRun, SchRecs
<1>2. Skipped(sch.rec) \in Recs
  BY <1>1, RescheduledIs
<1>3. sch' \in SchRecs
  BY <1>1, <1>2 DEF SchRecs
<1>4. sch'.pc = "save" /\ sch'.rec = Skipped(sch.rec) /\ sch'.id = sch.id
      /\ sch'.todo = sch.todo /\ sch'.list = sch.list /\ sch'.copy = sch.copy
  BY <1>1 DEF SchRecs
<1> QED BY <1>3, <1>4 DEF Types, SchTypes, SkipRun

\* An export begins; its schedule and slot are those of the run.
LEMMA StartExportIs ==
  ASSUME Types, StartExport
  PROVE  /\ SchTypes'
         /\ sch'.pc = "export" /\ sch'.rec = sch.rec /\ sch'.id = sch.id
         /\ sch'.todo = sch.todo /\ sch'.list = sch.list /\ sch'.copy = sch.copy
<1>1. sch \in SchRecs /\ sch' = [sch EXCEPT !.pc = "export"]
  BY DEF Types, SchTypes, StartExport
<1>2. sch' \in SchRecs
  BY <1>1 DEF SchRecs
<1>3. sch'.pc = "export" /\ sch'.rec = sch.rec /\ sch'.id = sch.id
      /\ sch'.todo = sch.todo /\ sch'.list = sch.list /\ sch'.copy = sch.copy
  BY <1>1 DEF SchRecs
<1> QED BY <1>2, <1>3 DEF Types, SchTypes, StartExport

\* An export ends: the schedule moves to its next slot, or is disabled.
LEMMA ExportEndsIs ==
  ASSUME Types, ExportEnds
  PROVE  /\ SchTypes'
         /\ sch'.pc = "save" /\ sch'.rec = Rescheduled(sch.rec) /\ sch'.id = sch.id
         /\ sch'.todo = sch.todo /\ sch'.list = sch.list /\ sch'.copy = sch.copy
<1>1. sch \in SchRecs /\ sch' = [sch EXCEPT !.pc = "save", !.rec = Rescheduled(sch.rec)]
      /\ sch.rec \in Recs
  BY DEF Types, SchTypes, ExportEnds, SchRecs
<1>2. Rescheduled(sch.rec) \in Recs
  BY <1>1, RescheduledIs
<1>3. sch' \in SchRecs
  BY <1>1, <1>2 DEF SchRecs
<1>4. sch'.pc = "save" /\ sch'.rec = Rescheduled(sch.rec) /\ sch'.id = sch.id
      /\ sch'.todo = sch.todo /\ sch'.list = sch.list /\ sch'.copy = sch.copy
  BY <1>1 DEF SchRecs
<1> QED BY <1>3, <1>4 DEF Types, SchTypes, ExportEnds

\* store.Save reads the file again, and goes on with the schedule put into it, or gives up.
LEMMA SaveScheduleIs ==
  ASSUME Types, SaveSchedule
  PROVE  /\ SchTypes'
         /\ sch'.rec = sch.rec /\ sch'.id = sch.id /\ sch'.todo = sch.todo /\ sch'.list = sch.list
         /\ \/ /\ sch'.pc = "truncate" /\ file # Torn
               /\ sch'.copy = WithSchedule(Contents, sch.id, sch.rec)
            \/ sch'.pc = "loop" /\ sch'.copy = sch.copy /\ file = Torn
<1>1. sch \in SchRecs /\ sch.rec \in Recs /\ sch.id \in Ids
  BY DEF Types, SchTypes, SaveSchedule, SchRecs
<1>2. CASE Readable
  <2> DEFINE f == WithSchedule(Contents, sch.id, sch.rec)
  <2>1. f \in Files
    BY <1>1, ContentsIs, WithIs
  <2>2. sch' = [sch EXCEPT !.pc = "truncate", !.copy = f]
    BY <1>2 DEF SaveSchedule, ReadAgain
  <2> HIDE DEF f
  <2>3. sch' \in SchRecs
    BY <1>1, <2>1, <2>2 DEF SchRecs
  <2>4. sch'.pc = "truncate" /\ sch'.rec = sch.rec /\ sch'.id = sch.id
        /\ sch'.todo = sch.todo /\ sch'.list = sch.list /\ sch'.copy = f
    BY <1>1, <2>2 DEF SchRecs
  <2> QED BY <1>2, <2>3, <2>4 DEF Types, SchTypes, Readable, f
<1>3. CASE ~Readable
  <2>1. sch' = [sch EXCEPT !.pc = "loop"]
    BY <1>3 DEF SaveSchedule
  <2>2. sch' \in SchRecs
    BY <1>1, <2>1 DEF SchRecs
  <2>3. sch'.pc = "loop" /\ sch'.rec = sch.rec /\ sch'.id = sch.id
        /\ sch'.todo = sch.todo /\ sch'.list = sch.list /\ sch'.copy = sch.copy
    BY <1>1, <2>1 DEF SchRecs
  <2> QED BY <1>3, <2>2, <2>3 DEF Types, SchTypes, Readable
<1> QED BY <1>2, <1>3

\* os.WriteFile, first half, by the scheduler.
LEMMA SchedulerTruncateIs ==
  ASSUME Types, SchedulerTruncate
  PROVE  /\ SchTypes'
         /\ sch'.pc = "fill" /\ sch'.rec = sch.rec /\ sch'.id = sch.id
         /\ sch'.todo = sch.todo /\ sch'.list = sch.list /\ sch'.copy = sch.copy
         /\ file' = Torn \/ file' = Empty
<1>1. sch \in SchRecs /\ sch' = [sch EXCEPT !.pc = "fill"]
  BY DEF Types, SchTypes, SchedulerTruncate
<1>2. sch' \in SchRecs
  BY <1>1 DEF SchRecs
<1>3. sch'.pc = "fill" /\ sch'.rec = sch.rec /\ sch'.id = sch.id
      /\ sch'.todo = sch.todo /\ sch'.list = sch.list /\ sch'.copy = sch.copy
  BY <1>1 DEF SchRecs
<1> QED BY <1>2, <1>3 DEF Types, SchTypes, SchedulerTruncate, Truncate

\* The second half: the scheduler lets go of the schedule.
LEMMA SchedulerFillIs ==
  ASSUME Types, SchedulerFill
  PROVE  /\ SchTypes'
         /\ sch'.pc = "loop" /\ sch'.todo = sch.todo /\ sch'.list = sch.list /\ sch'.copy = Empty
         /\ file' = Torn \/ file' = sch.copy
<1>1. sch \in SchRecs
      /\ sch' = [sch EXCEPT !.pc = "loop", !.copy = Empty, !.id = "", !.rec = NoSchedule]
  BY DEF Types, SchTypes, SchedulerFill
<1>2. sch' \in SchRecs
  BY <1>1, EmptyIs, NoScheduleIs DEF SchRecs
<1>3. sch'.pc = "loop" /\ sch'.todo = sch.todo /\ sch'.list = sch.list /\ sch'.copy = Empty
  BY <1>1 DEF SchRecs
<1> QED BY <1>2, <1>3 DEF Types, SchTypes, SchedulerFill, Fill

\* A save that fails: the scheduler lets go of the schedule, and the file is as it was or torn.
LEMMA SaveFailsIs ==
  ASSUME Types, SaveFails
  PROVE  /\ SchTypes'
         /\ sch'.pc = "loop" /\ sch'.todo = sch.todo /\ sch'.list = sch.list /\ sch'.copy = Empty
         /\ file' = Torn \/ file' = file
<1>1. sch \in SchRecs
      /\ sch' = [sch EXCEPT !.pc = "loop", !.copy = Empty, !.id = "", !.rec = NoSchedule]
  BY DEF Types, SchTypes, SaveFails
<1>2. sch' \in SchRecs
  BY <1>1, EmptyIs, NoScheduleIs DEF SchRecs
<1>3. sch'.pc = "loop" /\ sch'.todo = sch.todo /\ sch'.list = sch.list /\ sch'.copy = Empty
  BY <1>1 DEF SchRecs
<1>4. file' = Torn \/ file' = file
  BY DEF SaveFails, AccessFails
<1> QED BY <1>2, <1>3, <1>4 DEF Types, SchTypes

\* The select: to the next tick, or out.
LEMMA WakeUpIs ==
  ASSUME Types, WakeUp
  PROVE  /\ SchTypes'
         /\ ticked' \in BOOLEAN
         /\ \/ sch' = Off
            \/ /\ sch'.pc = "tick" /\ sch'.todo = sch.todo /\ sch'.list = sch.list
               /\ sch'.copy = sch.copy
<1>1. CASE sch' = Off /\ ticked' = ticked
  BY <1>1, AtRest DEF Types
<1>2. CASE sch' = [sch EXCEPT !.pc = "tick"] /\ ticked' = FALSE
  <2>1. sch \in SchRecs
    BY DEF Types, SchTypes
  <2>2. sch' \in SchRecs
    BY <1>2, <2>1 DEF SchRecs
  <2>3. sch'.pc = "tick" /\ sch'.todo = sch.todo /\ sch'.list = sch.list /\ sch'.copy = sch.copy
    BY <1>2, <2>1 DEF SchRecs
  <2> QED BY <1>2, <2>2, <2>3 DEF Types, SchTypes
<1> QED BY <1>1, <1>2 DEF WakeUp

\* An export is counted for its schedule and slot, and for no other.
LEMMA LedgerIs ==
  ASSUME Types, StartExport
  PROVE  /\ ran' \in Ledgers
         /\ <<sch.id, sch.rec.next>> \in Ids \X Int
         /\ DOMAIN ran' = DOMAIN ran \cup {<<sch.id, sch.rec.next>>}
         /\ \A k : Count(k) \in Nat
         /\ \A k : Count(k)' = IF k = <<sch.id, sch.rec.next>> THEN Count(k) + 1 ELSE Count(k)
<1> DEFINE key == <<sch.id, sch.rec.next>>
           S == DOMAIN ran \cup {key}
<1>1. ran' = [k \in S |-> IF k = key THEN Count(k) + 1 ELSE ran[k]]
  BY DEF StartExport
<1>2. key \in Ids \X Int
  <2>1. sch.id \in Ids /\ sch.rec.next \in Int
    BY DEF Types, SchTypes, SchRecs, Recs, Times, StartExport
  <2> QED BY <2>1
<1>3. DOMAIN ran \subseteq Ids \X Int /\ \A k \in DOMAIN ran : ran[k] \in Nat
  BY DEF Types, Ledgers
<1>4. \A k : Count(k) \in Nat
  <2>1. 0 \in Nat
    OBVIOUS
  <2> QED BY <1>3, <2>1 DEF Count
<1>5. Count(key) + 1 \in Nat
  <2>1. Count(key) \in Nat
    BY <1>4
  <2> HIDE DEF key
  <2> QED BY <2>1, SMT
<1> HIDE DEF key
<1>6. S \subseteq Ids \X Int
  BY <1>2, <1>3
<1>7. \A k \in S : (IF k = key THEN Count(k) + 1 ELSE ran[k]) \in Nat
  BY <1>3, <1>5
<1> HIDE DEF S
<1>8. ran' \in [S -> Nat] /\ DOMAIN ran' = S
  BY <1>1, <1>7
<1>9. ran' \in Ledgers
  BY <1>6, <1>8 DEF Ledgers
<1>10. ASSUME NEW k PROVE Count(k)' = IF k = key THEN Count(k) + 1 ELSE Count(k)
  BY <1>1, <1>8 DEF Count, S
<1> QED BY <1>2, <1>4, <1>8, <1>9, <1>10 DEF key, S

\* The daemon starts on the file an earlier run left.
LEMMA InitTypes ==
  ASSUME Init
  PROVE  Types
<1>1. PICK S \in {{}, Ids}, plan \in Plans :
        /\ file = [i \in S |-> Schedule(TRUE, plan, NextRun(TRUE, plan, 0, FALSE))]
        /\ used = S
  BY DEF Init
<1>2. NextRun(TRUE, plan, 0, FALSE) \in Times
  <2>1. 0 \in Nat
    OBVIOUS
  <2> QED BY <2>1, NextRunIs
<1>3. Schedule(TRUE, plan, NextRun(TRUE, plan, 0, FALSE)) \in Recs
  BY <1>2 DEF Schedule, Recs
<1>4. file \in [S -> Recs] /\ S \subseteq Ids
  BY <1>1, <1>3
<1>5. file \in Files /\ used \subseteq Ids
  BY <1>1, <1>4 DEF Files
<1>6. sch = [Off EXCEPT !.pc = "tick"]
  BY DEF Init
<1>7. SchTypes
  <2>1. sch \in SchRecs
    BY <1>6, OffIs
  <2>2. sch.pc = "tick" /\ sch.todo = {}
    BY <1>6 DEF Off
  <2> QED BY <2>1, <2>2 DEF SchTypes
<1>8. client \in [Clients -> ClientRecs] /\ \A c \in Clients : client[c].pc = "idle"
  BY OffIs DEF Init, IdleClient
<1>9. ran \in Ledgers
  <2>1. ran \in [{} -> Nat]
    BY DEF Init
  <2> QED BY <2>1 DEF Ledgers
<1>10. now \in 0..MaxTime /\ edits \in 0..MaxEdits /\ faults \in 0..MaxFaults
  BY BoundsAssumption, SMT DEF Init
<1>11. ticked \in BOOLEAN /\ stop \in BOOLEAN /\ record \in {"none", "running", "completed", "failed"}
  BY DEF Init
<1> QED BY <1>5, <1>7, <1>8, <1>9, <1>10, <1>11 DEF Types

\* A step of a handler keeps the types.
LEMMA ClientTypes ==
  ASSUME Types, NEW c \in Clients, ClientStep(c)
  PROVE  Types'
<1>1. edits < MaxEdits => edits + 1 \in 0..MaxEdits
  BY BoundsAssumption, SMT DEF Types
<1>2. IdleClient \in ClientRecs /\ IdleClient.pc # "read"
  BY OffIs DEF IdleClient
<1>3. CASE Create(c)
  <2>1. PICK n \in ClientRecs, id \in Ids \ used :
          Serve(c, n) /\ n.pc = "read" /\ n.id = id /\ used' = used \cup {id}
    BY <1>3, CreateIs
  <2>2. used' \subseteq Ids
    BY <2>1 DEF Types
  <2>3. client' \in [Clients -> ClientRecs]
        /\ \A d \in Clients : client'[d].pc = "read" => client'[d].id \in Ids
    BY <2>1, ServeIs
  <2> QED BY <1>1, <1>3, <2>2, <2>3 DEF Types, SchTypes, Create
<1>4. CASE Update(c)
  <2>1. PICK n \in ClientRecs, id \in Ids : Serve(c, n) /\ n.pc = "read" /\ n.id = id
    BY <1>4, UpdateIs
  <2>2. client' \in [Clients -> ClientRecs]
        /\ \A d \in Clients : client'[d].pc = "read" => client'[d].id \in Ids
    BY <2>1, ServeIs
  <2> QED BY <1>1, <1>4, <2>2 DEF Types, SchTypes, Update
<1>5. CASE Delete(c)
  <2>1. PICK n \in ClientRecs, id \in Ids : Serve(c, n) /\ n.pc = "read" /\ n.id = id
    BY <1>5, DeleteIs
  <2>2. client' \in [Clients -> ClientRecs]
        /\ \A d \in Clients : client'[d].pc = "read" => client'[d].id \in Ids
    BY <2>1, ServeIs
  <2> QED BY <1>1, <1>5, <2>2 DEF Types, SchTypes, Delete
<1>6. CASE ClientRead(c)
  <2>1. \E n \in ClientRecs : Serve(c, n) /\ n.pc # "read"
    BY <1>2, <1>6, ClientReadIs
  <2>2. client' \in [Clients -> ClientRecs]
        /\ \A d \in Clients : client'[d].pc = "read" => client'[d].id \in Ids
    BY <2>1, ServeIs
  <2> QED BY <1>6, <2>2 DEF Types, SchTypes, ClientRead
<1>7. CASE ClientTruncate(c)
  <2>1. \E n \in ClientRecs : Serve(c, n) /\ n.pc # "read"
    BY <1>2, <1>7, ClientTruncateIs
  <2>2. client' \in [Clients -> ClientRecs]
        /\ \A d \in Clients : client'[d].pc = "read" => client'[d].id \in Ids
    BY <2>1, ServeIs
  <2>3. file' = Torn \/ file' \in Files
    BY <1>7, ClientTruncateIs, EmptyIs
  <2> QED BY <1>7, <2>2, <2>3 DEF Types, SchTypes, ClientTruncate
<1>8. CASE ClientFill(c)
  <2>1. Serve(c, IdleClient)
    BY <1>8 DEF ClientFill
  <2>2. client' \in [Clients -> ClientRecs]
        /\ \A d \in Clients : client'[d].pc = "read" => client'[d].id \in Ids
    BY <1>2, <2>1, ServeIs
  <2>3. file' = Torn \/ file' \in Files
    <3>1. client[c] \in ClientRecs
      BY DEF Types
    <3>2. client[c].copy \in Files
      BY <3>1 DEF ClientRecs
    <3> QED BY <1>8, <3>2 DEF ClientFill, Fill
  <2> QED BY <1>8, <2>2, <2>3 DEF Types, SchTypes, ClientFill
<1>9. CASE ClientFails(c)
  <2>1. Serve(c, IdleClient)
    BY <1>9 DEF ClientFails
  <2>2. client' \in [Clients -> ClientRecs]
        /\ \A d \in Clients : client'[d].pc = "read" => client'[d].id \in Ids
    BY <1>2, <2>1, ServeIs
  <2>3. file' = Torn \/ file' \in Files
    BY <1>9 DEF ClientFails, AccessFails, Types
  <2> QED BY <1>9, <2>2, <2>3 DEF Types, SchTypes, ClientFails
<1> QED BY <1>3, <1>4, <1>5, <1>6, <1>7, <1>8, <1>9 DEF ClientStep

\* A step of the scheduler keeps the types.
LEMMA SchedulerTypes ==
  ASSUME Types, SchedulerStep
  PROVE  Types'
<1>1. CASE Tick
  BY <1>1, TickIs DEF Types, Tick
<1>2. CASE NextSchedule
  BY <1>2, NextScheduleIs DEF Types, NextSchedule
<1>3. CASE SkipRun
  BY <1>3, SkipRunIs DEF Types, SkipRun
<1>4. CASE StartExport
  BY <1>4, StartExportIs, LedgerIs DEF Types, StartExport
<1>5. CASE ExportEnds
  BY <1>5, ExportEndsIs DEF Types, ExportEnds, Settle
<1>6. CASE SaveSchedule
  BY <1>6, SaveScheduleIs DEF Types, SaveSchedule
<1>7. CASE SchedulerTruncate
  <2>1. file' = Torn \/ file' \in Files
    BY <1>7, SchedulerTruncateIs, EmptyIs
  <2> QED BY <1>7, <2>1, SchedulerTruncateIs DEF Types, SchedulerTruncate
<1>8. CASE SchedulerFill
  <2>1. file' = Torn \/ file' \in Files
    BY <1>8, SchedulerFillIs DEF Types, SchTypes, SchRecs
  <2> QED BY <1>8, <2>1, SchedulerFillIs DEF Types, SchedulerFill
<1>9. CASE WakeUp
  BY <1>9, WakeUpIs DEF Types, WakeUp
<1>10. CASE SaveFails
  <2>1. faults' \in 0..MaxFaults
    BY <1>10, BoundsAssumption, SMT DEF Types, SaveFails
  <2>2. file' = Torn \/ file' \in Files
    BY <1>10, SaveFailsIs DEF Types
  <2> QED BY <1>10, <2>1, <2>2, SaveFailsIs DEF Types, SaveFails
<1> QED BY <1>1, <1>2, <1>3, <1>4, <1>5, <1>6, <1>7, <1>8, <1>9, <1>10 DEF SchedulerStep

\* Every step keeps the types.
LEMMA NextTypes ==
  ASSUME Types, [Next]_vars
  PROVE  Types'
<1>1. CASE ClockAdvances
  <2>1. now' \in 0..MaxTime
    BY <1>1, BoundsAssumption, SMT DEF Types, ClockAdvances
  <2>2. ticked' \in BOOLEAN
    BY <1>1 DEF ClockAdvances
  <2> QED BY <1>1, <2>1, <2>2 DEF Types, SchTypes, ClockAdvances
<1>2. CASE Stop
  BY <1>2 DEF Types, SchTypes, Stop
<1>3. CASE Restart
  <2>1. faults' \in 0..MaxFaults
    BY <1>3, BoundsAssumption, SMT DEF Types, Restart
  <2>2. SchTypes'
    BY <1>3, AtRest DEF Restart
  <2>3. client' \in [Clients -> ClientRecs] /\ \A c \in Clients : client'[c].pc # "read"
    BY <1>3, OffIs DEF Restart, IdleClient
  <2> QED BY <1>3, <2>1, <2>2, <2>3 DEF Types, Restart
<1>4. CASE UNCHANGED vars
  BY <1>4 DEF Types, SchTypes, vars
<1> QED BY <1>1, <1>2, <1>3, <1>4, ClientTypes, SchedulerTypes DEF Next

\* Whatever the schedules, the handlers and the clock do, each variable keeps its type.
THEOREM ExportSchedulerTypes == Spec => []TypeOK
<1>1. Types => TypeOK
  <2> SUFFICES ASSUME Types PROVE TypeOK
    OBVIOUS
  <2>1. Recs \subseteq Schedules
    BY DEF Recs, Schedules, Times
  <2>2. file = Torn \/ (DOMAIN file \subseteq Ids /\ \A i \in DOMAIN file : file[i] \in Schedules)
    BY <2>1, FileIs DEF Types
  <2>3. sch.pc \in {"off", "tick", "idle", "loop", "status", "export", "save", "truncate", "fill"}
        /\ sch.todo \subseteq Ids /\ sch.rec \in Schedules
    BY <2>1 DEF Types, SchTypes, SchRecs
  <2>4. \A c \in Clients : client[c].pc \in {"idle", "read", "truncate", "fill"}
    BY DEF Types, ClientRecs
  <2>5. \A i \in DOMAIN ran : ran[i] \in Nat
    BY DEF Types, Ledgers
  <2> QED BY <2>2, <2>3, <2>4, <2>5 DEF Types, TypeOK
<1> QED BY <1>1, InitTypes, NextTypes, PTL DEF Spec

-----------------------------------------------------------------------------
(* A file that does not decode is kept.                                    *)

\* Nobody is writing the file.
Still == \A w \in Writers : ~Writing(w)

\* No handler and not the scheduler: the two halves of Still.
LEMMA StillIs ==
  Still <=> /\ sch.pc \notin {"truncate", "fill"}
            /\ \A c \in Clients : client[c].pc \notin {"truncate", "fill"}
BY ClientsAssumption DEF Still, Writers, Writing

\* With the file unreadable and nobody writing it, a step leaves it so.
LEMMA NextKeepsTorn ==
  ASSUME Types, Next, file = Torn, Still
  PROVE  file' = Torn /\ Still'
<1>1. sch.pc \notin {"truncate", "fill"} /\ \A c \in Clients : client[c].pc \notin {"truncate", "fill"}
  BY StillIs
<1>2. SUFFICES /\ file' = Torn /\ sch'.pc \notin {"truncate", "fill"}
               /\ \A c \in Clients : client'[c].pc \notin {"truncate", "fill"}
  <2>1. (Still <=> /\ sch.pc \notin {"truncate", "fill"}
                   /\ \A c \in Clients : client[c].pc \notin {"truncate", "fill"})'
    BY StillIs, PTL
  <2> QED BY <2>1
<1>3. ASSUME NEW c \in Clients, NEW n \in ClientRecs, n.pc = "read" => n.id \in Ids,
             n.pc \in {"idle", "read"}, Serve(c, n), file' = file, sch' = sch
      PROVE  /\ file' = Torn /\ sch'.pc \notin {"truncate", "fill"}
             /\ \A d \in Clients : client'[d].pc \notin {"truncate", "fill"}
  <2>1. client'[c] = n /\ \A d \in Clients : d # c => client'[d] = client[d]
    BY <1>3, ServeIs
  <2> QED BY <1>1, <1>3, <2>1
<1>4. IdleClient \in ClientRecs /\ IdleClient.pc = "idle"
  BY OffIs DEF IdleClient
<1>5. ASSUME NEW c \in Clients, ClientStep(c)
      PROVE  /\ file' = Torn /\ sch'.pc \notin {"truncate", "fill"}
             /\ \A d \in Clients : client'[d].pc \notin {"truncate", "fill"}
  <2>1. CASE Create(c)
    <3>1. \E n \in ClientRecs : Serve(c, n) /\ n.pc = "read" /\ n.id \in Ids
      BY <2>1, CreateIs
    <3> QED BY <1>3, <2>1, <3>1 DEF Create
  <2>2. CASE Update(c)
    BY <2>2 DEF Update, Readable
  <2>3. CASE Delete(c)
    <3>1. \E n \in ClientRecs : Serve(c, n) /\ n.pc = "read" /\ n.id \in Ids
      BY <2>3, DeleteIs
    <3> QED BY <1>3, <2>3, <3>1 DEF Delete
  <2>4. CASE ClientRead(c)
    <3>1. Serve(c, IdleClient) /\ file' = file /\ sch' = sch
      BY <2>4 DEF ClientRead, Readable
    <3> QED BY <1>3, <1>4, <3>1
  <2>5. CASE ClientTruncate(c) \/ ClientFill(c)
    BY <1>1, <2>5 DEF ClientTruncate, ClientFill
  <2>6. CASE ClientFails(c)
    <3>1. Serve(c, IdleClient) /\ file' = file /\ sch' = sch
      BY <2>6 DEF ClientFails, AccessFails
    <3> QED BY <1>3, <1>4, <3>1
  <2> QED BY <1>5, <2>1, <2>2, <2>3, <2>4, <2>5, <2>6 DEF ClientStep
<1>6. CASE SchedulerStep
  <2>1. CASE Tick
    BY <1>1, <2>1, TickIs DEF Tick
  <2>2. CASE NextSchedule
    BY <1>1, <2>2, NextScheduleIs, AtRest DEF NextSchedule
  <2>3. CASE SkipRun
    BY <1>1, <2>3, SkipRunIs DEF SkipRun
  <2>4. CASE StartExport
    BY <1>1, <2>4, StartExportIs DEF StartExport
  <2>5. CASE ExportEnds
    BY <1>1, <2>5, ExportEndsIs DEF ExportEnds
  <2>6. CASE SaveSchedule
    BY <1>1, <2>6, SaveScheduleIs DEF SaveSchedule
  <2>7. CASE SchedulerTruncate \/ SchedulerFill
    BY <1>1, <2>7 DEF SchedulerTruncate, SchedulerFill
  <2>8. CASE WakeUp
    BY <1>1, <2>8, WakeUpIs, AtRest DEF WakeUp
  <2>9. CASE SaveFails
    BY <1>1, <2>9, SaveFailsIs DEF SaveFails
  <2> QED BY <1>6, <2>1, <2>2, <2>3, <2>4, <2>5, <2>6, <2>7, <2>8, <2>9 DEF SchedulerStep
<1>7. CASE ClockAdvances \/ Stop
  BY <1>1, <1>7 DEF ClockAdvances, Stop
<1>8. CASE Restart
  BY <1>8, <1>4, AtRest DEF Restart
<1> QED BY <1>5, <1>6, <1>7, <1>8 DEF Next

\* Save and Delete never write over a file that does not decode: once it is torn and no
\* write is under way, it stays as it is for whoever can recover it, restarts included.
THEOREM UnreadableFileStays == Spec => UnreadableFileIsKept
<1>1. Types /\ [Next]_vars =>
        [file = Torn /\ (\A w \in Writers : ~Writing(w))
           => file' = Torn /\ (\A w \in Writers : ~Writing(w)')]_vars
  BY NextKeepsTorn DEF Still
<1> QED BY <1>1, InitTypes, NextTypes, PTL DEF Spec, UnreadableFileIsKept

-----------------------------------------------------------------------------
(* What was deleted stays deleted.                                         *)

\* The scheduler has no schedule id in hand; neither has a handler.
SchFree(s, id) ==
  /\ id \notin s.todo /\ id \notin DOMAIN s.copy
  /\ ~(s.pc \in {"status", "export", "save"} /\ s.id = id)

\* Neither has handler n.
ClientFree(n, id) == id \notin DOMAIN n.copy /\ ~(n.op = "put" /\ n.id = id)

\* Gone: neither in the file nor in anybody's hands.
LEMMA GoneIs ==
  ASSUME NEW id
  PROVE  Gone(id) <=> /\ file = Torn \/ id \notin DOMAIN file
                      /\ SchFree(sch, id)
                      /\ \A c \in Clients : ClientFree(client[c], id)
BY DEF Gone, Holds, SchFree, ClientFree

\* A goroutine at rest has nothing in hand.
LEMMA RestIsFree ==
  ASSUME NEW id
  PROVE  /\ ClientFree(IdleClient, id)
         /\ SchFree(Off, id) /\ SchFree([Off EXCEPT !.pc = "tick"], id)
         /\ SchFree([Off EXCEPT !.pc = "idle"], id)
BY EmptyIs DEF ClientFree, SchFree, IdleClient, Off

\* A step of a handler does not bring a deleted schedule back.
LEMMA ClientKeepsGone ==
  ASSUME Types, NEW c \in Clients, ClientStep(c), NEW id \in used, file # Torn, Gone(id)
  PROVE  /\ file' = Torn \/ id \notin DOMAIN file'
         /\ sch' = sch
         /\ \A d \in Clients : ClientFree(client'[d], id)
<1>1. id \notin DOMAIN file /\ \A d \in Clients : ClientFree(client[d], id)
  BY GoneIs
<1>2. ASSUME NEW n \in ClientRecs, n.pc = "read" => n.id \in Ids, Serve(c, n), ClientFree(n, id)
      PROVE  \A d \in Clients : ClientFree(client'[d], id)
  <2>1. client'[c] = n /\ \A d \in Clients : d # c => client'[d] = client[d]
    BY <1>2, ServeIs
  <2> QED BY <1>1, <1>2, <2>1
<1>3. IdleClient \in ClientRecs /\ IdleClient.pc # "read" /\ ClientFree(IdleClient, id)
  BY OffIs, RestIsFree DEF IdleClient
<1>4. CASE Create(c)
  <2>1. PICK n \in ClientRecs, new \in Ids \ used :
          Serve(c, n) /\ n.pc = "read" /\ n.op = "put" /\ n.id = new /\ n.copy = Empty
    BY <1>4, CreateIs
  <2>2. ClientFree(n, id)
    BY <2>1, EmptyIs DEF ClientFree
  <2> QED BY <1>1, <1>2, <1>4, <2>1, <2>2 DEF Create
<1>5. CASE Update(c)
  <2>1. PICK n \in ClientRecs, old \in Ids :
          /\ Serve(c, n) /\ n.pc = "read" /\ n.op = "put" /\ n.id = old /\ n.copy = Empty
          /\ old \in DOMAIN file
    BY <1>5, UpdateIs
  <2>2. ClientFree(n, id)
    BY <1>1, <2>1, EmptyIs DEF ClientFree
  <2> QED BY <1>1, <1>2, <1>5, <2>1, <2>2 DEF Update
<1>6. CASE Delete(c)
  <2>1. PICK n \in ClientRecs, old \in Ids :
          Serve(c, n) /\ n.pc = "read" /\ n.op = "delete" /\ n.id = old /\ n.copy = Empty
    BY <1>6, DeleteIs
  <2>2. ClientFree(n, id)
    BY <2>1, EmptyIs DEF ClientFree
  <2> QED BY <1>1, <1>2, <1>6, <2>1, <2>2 DEF Delete
<1>7. CASE ClientRead(c)
  <2>1. file' = file /\ sch' = sch
    BY <1>7 DEF ClientRead
  <2>2. CASE Serve(c, IdleClient)
    BY <1>1, <1>2, <1>3, <2>1, <2>2
  <2>3. ASSUME NEW n \in ClientRecs, Serve(c, n), n.pc = "truncate",
               n.op = client[c].op, n.id = client[c].id,
               DOMAIN n.copy \subseteq DOMAIN file
                 \cup (IF client[c].op = "put" THEN {client[c].id} ELSE {})
        PROVE  \A d \in Clients : ClientFree(client'[d], id)
    <3>1. ClientFree(client[c], id)
      BY <1>1
    <3>2. ClientFree(n, id)
      BY <1>1, <2>3, <3>1 DEF ClientFree
    <3> QED BY <1>2, <2>3, <3>2
  <2> QED BY <1>1, <1>7, <2>1, <2>2, <2>3, ClientReadIs
<1>8. CASE ClientTruncate(c)
  <2>1. file' = Torn \/ id \notin DOMAIN file'
    BY <1>8, ClientTruncateIs, EmptyIs
  <2>2. CASE Serve(c, IdleClient)
    BY <1>2, <1>3, <1>8, <2>1, <2>2 DEF ClientTruncate
  <2>3. ASSUME NEW n \in ClientRecs, Serve(c, n), n.pc = "fill",
               n.op = client[c].op, n.id = client[c].id, n.copy = client[c].copy
        PROVE  \A d \in Clients : ClientFree(client'[d], id)
    <3>1. ClientFree(n, id)
      BY <1>1, <2>3 DEF ClientFree
    <3> QED BY <1>2, <2>3, <3>1
  <2>4. \A d \in Clients : ClientFree(client'[d], id)
    BY <1>2, <1>3, <1>8, <2>3, ClientTruncateIs
  <2> QED BY <1>8, <2>1, <2>4 DEF ClientTruncate
<1>9. CASE ClientFill(c)
  <2>1. file' = Torn \/ file' = client[c].copy
    BY <1>9 DEF ClientFill, Fill
  <2>2. id \notin DOMAIN client[c].copy
    BY <1>1 DEF ClientFree
  <2> QED BY <1>2, <1>3, <1>9, <2>1, <2>2 DEF ClientFill
<1>10. CASE ClientFails(c)
  <2>1. file' = Torn \/ file' = file
    BY <1>10 DEF ClientFails, AccessFails
  <2> QED BY <1>1, <1>2, <1>3, <1>10, <2>1 DEF ClientFails
<1> QED BY <1>4, <1>5, <1>6, <1>7, <1>8, <1>9, <1>10 DEF ClientStep

\* Nor does a step of the scheduler.
LEMMA SchedulerKeepsGone ==
  ASSUME Types, SchedulerStep, NEW id \in used, file # Torn, Gone(id)
  PROVE  /\ file' = Torn \/ id \notin DOMAIN file'
         /\ SchFree(sch', id)
         /\ client' = client
<1>1. id \notin DOMAIN file /\ SchFree(sch, id)
  BY GoneIs
<1>2. Contents = file /\ Contents \in Files
  BY ContentsIs
<1>3. CASE Tick
  <2>1. SchFree(sch', id)
    BY <1>1, <1>2, <1>3, TickIs DEF SchFree
  <2> QED BY <1>1, <1>3, <2>1 DEF Tick
<1>4. CASE NextSchedule
  <2>1. CASE sch' = [Off EXCEPT !.pc = "idle"]
    BY <1>1, <1>4, <2>1, RestIsFree DEF NextSchedule
  <2>2. ASSUME NEW i \in sch.todo, sch'.pc = "status", sch'.id = i, sch'.todo = sch.todo \ {i},
               sch'.copy = sch.copy
        PROVE  SchFree(sch', id)
    BY <1>1, <2>2 DEF SchFree
  <2> QED BY <1>1, <1>4, <2>1, <2>2, NextScheduleIs DEF NextSchedule
<1>5. CASE SkipRun
  <2>1. SchFree(sch', id)
    BY <1>1, <1>5, SkipRunIs DEF SchFree, SkipRun
  <2> QED BY <1>1, <1>5, <2>1 DEF SkipRun
<1>6. CASE StartExport
  <2>1. SchFree(sch', id)
    BY <1>1, <1>6, StartExportIs DEF SchFree, StartExport
  <2> QED BY <1>1, <1>6, <2>1 DEF StartExport
<1>7. CASE ExportEnds
  <2>1. SchFree(sch', id)
    BY <1>1, <1>7, ExportEndsIs DEF SchFree, ExportEnds
  <2> QED BY <1>1, <1>7, <2>1 DEF ExportEnds
<1>8. CASE SaveSchedule
  <2>1. sch.pc = "save" /\ sch.id \in Ids /\ sch.rec \in Recs
    BY <1>8 DEF SaveSchedule, Types, SchTypes, SchRecs
  <2>2. sch.id # id
    BY <1>1, <2>1 DEF SchFree
  <2> DEFINE k == sch.id
             r == sch.rec
             g == WithSchedule(Contents, k, r)
  <2>3. sch'.pc = "truncate" /\ sch'.todo = sch.todo /\ sch'.copy = g
    BY <1>8, SaveScheduleIs
  <2>4. k \in Ids /\ r \in Recs /\ k # id
    BY <2>1, <2>2
  <2> HIDE DEF k, r
  <2>5. DOMAIN g = DOMAIN Contents \cup {k}
    BY <1>2, <2>4, WithIs
  <2>6. id \notin DOMAIN g
    BY <1>1, <1>2, <2>4, <2>5
  <2> HIDE DEF g
  <2>7. SchFree(sch', id)
    BY <1>1, <2>3, <2>6 DEF SchFree
  <2> QED BY <1>1, <1>8, <2>7 DEF SaveSchedule
<1>9. CASE SchedulerTruncate
  <2>1. SchFree(sch', id)
    BY <1>1, <1>9, SchedulerTruncateIs DEF SchFree
  <2>2. file' = Torn \/ id \notin DOMAIN file'
    BY <1>9, SchedulerTruncateIs, EmptyIs
  <2> QED BY <1>9, <2>1, <2>2 DEF SchedulerTruncate
<1>10. CASE SchedulerFill
  <2>1. SchFree(sch', id)
    BY <1>1, <1>10, SchedulerFillIs, EmptyIs DEF SchFree
  <2>2. file' = Torn \/ id \notin DOMAIN file'
    BY <1>1, <1>10, SchedulerFillIs DEF SchFree
  <2> QED BY <1>10, <2>1, <2>2 DEF SchedulerFill
<1>11. CASE WakeUp
  <2>1. SchFree(sch', id)
    BY <1>1, <1>11, WakeUpIs, RestIsFree DEF SchFree
  <2> QED BY <1>1, <1>11, <2>1 DEF WakeUp
<1>12. CASE SaveFails
  <2>1. SchFree(sch', id)
    BY <1>1, <1>12, SaveFailsIs, EmptyIs DEF SchFree
  <2> QED BY <1>1, <1>12, <2>1, SaveFailsIs DEF SaveFails
<1> QED BY <1>3, <1>4, <1>5, <1>6, <1>7, <1>8, <1>9, <1>10, <1>11, <1>12 DEF SchedulerStep

\* A step of anybody leaves a deleted schedule deleted.
LEMMA NextKeepsGone ==
  ASSUME Types, Next, NEW id \in used, file # Torn, Gone(id)
  PROVE  Gone(id)'
<1>1. id \notin DOMAIN file /\ SchFree(sch, id) /\ \A c \in Clients : ClientFree(client[c], id)
  BY GoneIs
<1>2. SUFFICES /\ file' = Torn \/ id \notin DOMAIN file'
               /\ SchFree(sch', id)
               /\ \A c \in Clients : ClientFree(client'[c], id)
  BY DEF Gone, Holds, SchFree, ClientFree
<1>3. CASE \E c \in Clients : ClientStep(c)
  BY <1>1, <1>3, ClientKeepsGone
<1>4. CASE SchedulerStep
  BY <1>1, <1>4, SchedulerKeepsGone
<1>5. CASE ClockAdvances \/ Stop
  BY <1>1, <1>5 DEF ClockAdvances, Stop
<1>6. CASE Restart
  BY <1>1, <1>6, RestIsFree DEF Restart
<1> QED BY <1>3, <1>4, <1>5, <1>6 DEF Next

\* A deleted schedule does not come back: not through the scheduler, which saves what it
\* ran over the file it reads again, and not through a handler, whose copy lacks it.
THEOREM DeletedStays == Spec => DeletedStaysDeleted
<1>1. Types /\ [Next]_vars => [\A id \in used : file # Torn /\ Gone(id) => Gone(id)']_vars
  BY NextKeepsGone
<1> QED BY <1>1, InitTypes, NextTypes, PTL DEF Spec, DeletedStaysDeleted

-----------------------------------------------------------------------------
(* A slot is exported once.                                                *)

\* A schedule that would run in slot t.
Entry(rec, t) == rec.enabled /\ rec.next = t

\* The scheduler s is past the point of running schedule i, and will save over it.
Saving(s, i) == s.id = i /\ s.pc \in {"export", "save", "truncate", "fill"}

\* The file f, or the scheduler s, still has a run of schedule i in slot t to come.
ArmedByFile(f, s, i, t) == f # Torn /\ i \in DOMAIN f /\ Entry(f[i], t) /\ ~Saving(s, i)
\* So has what the scheduler holds in its hands.
ArmedByScheduler(s, i, t) ==
  \/ i \in s.todo /\ s.list[i].next = t
  \/ s.id = i /\ s.pc \in {"status", "save"} /\ Entry(s.rec, t)
  \/ s.pc \in {"truncate", "fill"} /\ i \in DOMAIN s.copy /\ Entry(s.copy[i], t)
\* A run to come, in either place.
Armed(f, s, i, t) == ArmedByFile(f, s, i, t) \/ ArmedByScheduler(s, i, t)

\* What the scheduler has taken up is enabled and due, and nothing is taken up twice.
DueOK(s, n) ==
  /\ \A i \in s.todo : s.list[i].enabled /\ s.list[i].next <= n
  /\ s.pc \in {"status", "export", "save", "truncate", "fill"} => s.id \notin s.todo
  /\ s.pc \in {"status", "export"} => s.rec.enabled /\ s.rec.next <= n

\* No slot is exported before its time.
Past(r, n) == \A k \in DOMAIN r : k[2] <= n

\* Handlers at work: each may yet put a schedule back into a slot that has run.
Busy == {c \in Clients : client[c].pc # "idle"}

\* Exports of a slot, as the ledger r has them.
Exports(r, k) == IF k \in DOMAIN r THEN r[k] ELSE 0

\* Every export of a slot, the one still armed and the requests b still at work are paid
\* for: one by the slot itself, the others by the e requests and the c faults so far.
Paid(r, f, s, b, e, c) ==
  /\ IsFiniteSet(b) /\ Cardinality(b) <= e
  /\ \A i \in Ids, t \in Int :
       /\ Exports(r, <<i, t>>) + Cardinality(b) <= 1 + e + c
       /\ Armed(f, s, i, t) => Exports(r, <<i, t>>) + Cardinality(b) <= e + c

\* The inductive invariant.
IInv ==
  Types /\ DueOK(sch, now) /\ Past(ran, now) /\ Paid(ran, file, sch, Busy, edits, faults)

\* A ledger counts natural numbers of exports; a slot to come has none.
LEMMA ExportsIs ==
  ASSUME NEW r \in Ledgers, NEW i \in Ids, NEW t \in Int
  PROVE  /\ Exports(r, <<i, t>>) \in Nat
         /\ \A n \in Nat : Past(r, n) /\ t > n => Exports(r, <<i, t>>) = 0
<1>1. \A k \in DOMAIN r : r[k] \in Nat
  BY DEF Ledgers
<1>2. Exports(r, <<i, t>>) \in Nat
  BY <1>1, SMT DEF Exports
<1>3. ASSUME NEW n \in Nat, Past(r, n), t > n
      PROVE  Exports(r, <<i, t>>) = 0
  <2>1. CASE <<i, t>> \in DOMAIN r
    <3>1. <<i, t>>[2] <= n
      BY <1>3, <2>1 DEF Past
    <3> QED BY <1>3, <3>1, SMT
  <2>2. CASE <<i, t>> \notin DOMAIN r
    BY <2>2 DEF Exports
  <2> QED BY <2>1, <2>2
<1> QED BY <1>2, <1>3

\* A step that arms nothing but slots to come, with the same requests at work.
LEMMA PaidKept ==
  ASSUME NEW r \in Ledgers, NEW f, NEW s, NEW g, NEW u, NEW b, NEW e \in Nat, NEW c \in Nat,
         NEW n \in Nat, Past(r, n), Paid(r, f, s, b, e, c),
         \A i \in Ids, t \in Int : Armed(g, u, i, t) => Armed(f, s, i, t) \/ t > n
  PROVE  Paid(r, g, u, b, e, c)
<1>1. IsFiniteSet(b) /\ Cardinality(b) <= e
  BY DEF Paid
<1>2. Cardinality(b) \in Nat
  BY <1>1, FS_CardinalityType
<1>3. ASSUME NEW i \in Ids, NEW t \in Int
      PROVE  /\ Exports(r, <<i, t>>) + Cardinality(b) <= 1 + e + c
             /\ Armed(g, u, i, t) => Exports(r, <<i, t>>) + Cardinality(b) <= e + c
  <2>1. Exports(r, <<i, t>>) + Cardinality(b) <= 1 + e + c
    BY DEF Paid
  <2>2. CASE ~Armed(g, u, i, t)
    BY <2>1, <2>2
  <2>3. CASE Armed(f, s, i, t)
    BY <2>1, <2>3 DEF Paid
  <2>4. CASE t > n
    <3>1. Exports(r, <<i, t>>) = 0
      BY <2>4, ExportsIs
    <3>2. 0 + Cardinality(b) <= e + c
      BY <1>1, <1>2, SMT
    <3> QED BY <2>1, <3>1, <3>2
  <2> QED BY <2>2, <2>3, <2>4
<1> QED BY <1>1, <1>3 DEF Paid

\* A request more, at work.
LEMMA PaidRequest ==
  ASSUME NEW r \in Ledgers, NEW f, NEW s, NEW b, NEW e \in Nat, NEW c \in Nat,
         NEW d, d \notin b, Paid(r, f, s, b, e, c)
  PROVE  Paid(r, f, s, b \cup {d}, e + 1, c)
<1>1. IsFiniteSet(b) /\ Cardinality(b) <= e
  BY DEF Paid
<1>2. Cardinality(b) \in Nat
  BY <1>1, FS_CardinalityType
<1>3. IsFiniteSet(b \cup {d}) /\ Cardinality(b \cup {d}) = Cardinality(b) + 1
  BY <1>1, FS_AddElement
<1> DEFINE m == Cardinality(b)
<1>4. m \in Nat /\ m <= e
  BY <1>1, <1>2
<1>5. ASSUME NEW i \in Ids, NEW t \in Int
      PROVE  /\ Exports(r, <<i, t>>) + (m + 1) <= 1 + (e + 1) + c
             /\ Armed(f, s, i, t) => Exports(r, <<i, t>>) + (m + 1) <= (e + 1) + c
  <2> DEFINE x == Exports(r, <<i, t>>)
             A == Armed(f, s, i, t)
  <2>1. x \in Nat
    BY ExportsIs
  <2>2. x + m <= 1 + e + c /\ (A => x + m <= e + c)
    BY DEF Paid
  <2>3. x + (m + 1) <= 1 + (e + 1) + c /\ (A => x + (m + 1) <= (e + 1) + c)
    <3> HIDE DEF x, A, m
    <3> QED BY <1>4, <2>1, <2>2, SMT
  <2> QED BY <2>3
<1>6. m + 1 <= e + 1
  <2> HIDE DEF m
  <2> QED BY <1>4, SMT
<1> QED BY <1>3, <1>5, <1>6 DEF Paid

\* A request is done, whatever it did to the file.
LEMMA PaidDone ==
  ASSUME NEW r \in Ledgers, NEW f, NEW s, NEW g, NEW u, NEW b, NEW e \in Nat, NEW c \in Nat,
         NEW d \in b, Paid(r, f, s, b, e, c)
  PROVE  Paid(r, g, u, b \ {d}, e, c)
<1>1. IsFiniteSet(b) /\ Cardinality(b) <= e
  BY DEF Paid
<1> DEFINE m == Cardinality(b)
<1>2. m \in Nat
  BY <1>1, FS_CardinalityType
<1>3. IsFiniteSet(b \ {d}) /\ Cardinality(b \ {d}) = m - 1
  BY <1>1, FS_RemoveElement
<1>4. m \in Nat /\ m <= e
  BY <1>1, <1>2
<1>5. ASSUME NEW i \in Ids, NEW t \in Int
      PROVE  Exports(r, <<i, t>>) + (m - 1) <= 1 + e + c /\ Exports(r, <<i, t>>) + (m - 1) <= e + c
  <2> DEFINE x == Exports(r, <<i, t>>)
  <2>1. x \in Nat
    BY ExportsIs
  <2>2. x + m <= 1 + e + c
    BY DEF Paid
  <2>3. x + (m - 1) <= 1 + e + c /\ x + (m - 1) <= e + c
    <3> HIDE DEF x, m
    <3> QED BY <1>4, <2>1, <2>2, SMT
  <2> QED BY <2>3
<1>6. m - 1 <= e
  <2> HIDE DEF m
  <2> QED BY <1>4, SMT
<1> QED BY <1>3, <1>5, <1>6 DEF Paid

\* A fault more pays for one more export of every slot.
LEMMA PaidFault ==
  ASSUME NEW r \in Ledgers, NEW f, NEW s, NEW g, NEW u, NEW b, NEW e \in Nat, NEW c \in Nat,
         Paid(r, f, s, b, e, c)
  PROVE  Paid(r, g, u, b, e, c + 1)
<1>1. IsFiniteSet(b) /\ Cardinality(b) <= e
  BY DEF Paid
<1> DEFINE m == Cardinality(b)
<1>2. m \in Nat
  BY <1>1, FS_CardinalityType
<1>3. ASSUME NEW i \in Ids, NEW t \in Int
      PROVE  Exports(r, <<i, t>>) + m <= 1 + e + (c + 1) /\ Exports(r, <<i, t>>) + m <= e + (c + 1)
  <2> DEFINE x == Exports(r, <<i, t>>)
  <2>1. x \in Nat
    BY ExportsIs
  <2>2. x + m <= 1 + e + c
    BY DEF Paid
  <2>3. x + m <= 1 + e + (c + 1) /\ x + m <= e + (c + 1)
    <3> HIDE DEF x, m
    <3> QED BY <1>2, <2>1, <2>2, SMT
  <2> QED BY <2>3
<1> QED BY <1>1, <1>3 DEF Paid

\* Taking up a request, carrying on, and being done, as the set of requests sees them.
LEMMA BusyIs ==
  ASSUME Types, NEW c \in Clients, NEW n \in ClientRecs, n.pc = "read" => n.id \in Ids, Serve(c, n)
  PROVE  /\ client[c].pc = "idle" /\ n.pc # "idle" => c \notin Busy /\ Busy' = Busy \cup {c}
         /\ client[c].pc # "idle" /\ n.pc # "idle" => Busy' = Busy
         /\ client[c].pc # "idle" /\ n.pc = "idle" => c \in Busy /\ Busy' = Busy \ {c}
<1>1. client'[c] = n /\ \A d \in Clients : d # c => client'[d] = client[d]
  BY ServeIs
<1>2. ASSUME NEW d \in Clients, d # c
      PROVE  d \in Busy' <=> d \in Busy
  <2>1. client'[d].pc = client[d].pc
    BY <1>1, <1>2
  <2> QED BY <2>1 DEF Busy
<1>3. Busy \subseteq Clients /\ Busy' \subseteq Clients
  BY DEF Busy
<1>4. c \in Busy <=> client[c].pc # "idle"
  BY DEF Busy
<1>5. c \in Busy' <=> client'[c].pc # "idle"
  BY DEF Busy
<1>6. client'[c].pc = n.pc
  BY <1>1
<1>7. CASE client[c].pc = "idle" /\ n.pc # "idle"
  BY <1>2, <1>3, <1>4, <1>5, <1>6, <1>7
<1>8. CASE client[c].pc # "idle" /\ n.pc # "idle"
  <2>1. \A d \in Clients : d \in Busy' <=> d \in Busy
    BY <1>2, <1>4, <1>5, <1>6, <1>8
  <2>2. Busy' = Busy
    BY <1>3, <2>1, SMT
  <2> QED BY <1>8, <2>2
<1>9. CASE client[c].pc # "idle" /\ n.pc = "idle"
  BY <1>2, <1>3, <1>4, <1>5, <1>6, <1>9
<1> QED BY <1>7, <1>8, <1>9

\* Taking up a request pays for it.
LEMMA RequestPaid ==
  ASSUME IInv, NEW c \in Clients, client[c].pc = "idle", NEW n \in ClientRecs, n.pc = "read",
         n.id \in Ids, Serve(c, n), edits' = edits + 1, UNCHANGED <<file, now, sch, ran, faults>>
  PROVE  DueOK(sch, now)' /\ Past(ran, now)' /\ Paid(ran, file, sch, Busy, edits, faults)'
<1>1. c \notin Busy /\ Busy' = Busy \cup {c}
  BY BusyIs DEF IInv
<1>2. ran \in Ledgers /\ edits \in Nat /\ faults \in Nat
  BY NowIs DEF IInv, Types
<1>3. Paid(ran, file, sch, Busy \cup {c}, edits + 1, faults)
  BY <1>1, <1>2, PaidRequest DEF IInv
<1> QED BY <1>1, <1>3 DEF IInv

\* A step of a handler keeps the account.
LEMMA ClientPaid ==
  ASSUME IInv, NEW c \in Clients, ClientStep(c)
  PROVE  DueOK(sch, now)' /\ Past(ran, now)' /\ Paid(ran, file, sch, Busy, edits, faults)'
<1>1. Types /\ ran \in Ledgers /\ edits \in Nat /\ faults \in Nat /\ now \in Nat
  BY NowIs DEF IInv, Types
<1>2. IdleClient \in ClientRecs /\ IdleClient.pc = "idle"
  BY OffIs DEF IdleClient
<1>3. ASSUME Serve(c, IdleClient), client[c].pc # "idle",
             UNCHANGED <<now, sch, ran, edits, faults>>
      PROVE  DueOK(sch, now)' /\ Past(ran, now)' /\ Paid(ran, file, sch, Busy, edits, faults)'
  <2>1. c \in Busy /\ Busy' = Busy \ {c}
    BY <1>1, <1>2, <1>3, BusyIs
  <2>2. Paid(ran, file', sch', Busy \ {c}, edits, faults)
    BY <1>1, <2>1, PaidDone DEF IInv
  <2> QED BY <1>3, <2>1, <2>2 DEF IInv
<1>4. ASSUME NEW n \in ClientRecs, Serve(c, n), n.pc \in {"truncate", "fill"}, client[c].pc # "idle",
             file' = file \/ file' = Torn, UNCHANGED <<now, sch, ran, edits, faults>>
      PROVE  DueOK(sch, now)' /\ Past(ran, now)' /\ Paid(ran, file, sch, Busy, edits, faults)'
  <2>1. Busy' = Busy
    BY <1>1, <1>4, BusyIs
  <2>2. \A i \in Ids, t \in Int : Armed(file', sch, i, t) => Armed(file, sch, i, t)
    BY <1>4 DEF Armed, ArmedByFile
  <2>3. Paid(ran, file', sch, Busy, edits, faults)
    BY <1>1, <2>2, PaidKept DEF IInv
  <2> QED BY <1>4, <2>1, <2>3 DEF IInv
<1>5. CASE Create(c)
  <2>1. \E n \in ClientRecs : Serve(c, n) /\ n.pc = "read" /\ n.id \in Ids
    BY <1>1, <1>5, CreateIs
  <2> QED BY <1>5, <2>1, RequestPaid DEF Create
<1>6. CASE Update(c)
  <2>1. \E n \in ClientRecs : Serve(c, n) /\ n.pc = "read" /\ n.id \in Ids
    BY <1>1, <1>6, UpdateIs
  <2> QED BY <1>6, <2>1, RequestPaid DEF Update
<1>7. CASE Delete(c)
  <2>1. \E n \in ClientRecs : Serve(c, n) /\ n.pc = "read" /\ n.id \in Ids
    BY <1>1, <1>7, DeleteIs
  <2> QED BY <1>7, <2>1, RequestPaid DEF Delete
<1>8. CASE ClientRead(c)
  <2>1. client[c].pc # "idle" /\ file' = file /\ UNCHANGED <<now, sch, ran, edits, faults>>
    BY <1>8 DEF ClientRead
  <2>2. Serve(c, IdleClient) \/ \E n \in ClientRecs : Serve(c, n) /\ n.pc = "truncate"
    BY <1>1, <1>8, ClientReadIs
  <2> QED BY <1>3, <1>4, <2>1, <2>2
<1>9. CASE ClientTruncate(c)
  <2>1. client[c].pc # "idle" /\ UNCHANGED <<now, sch, ran, edits, faults>>
    BY <1>9 DEF ClientTruncate
  <2>2. \/ Serve(c, IdleClient)
        \/ \E n \in ClientRecs : Serve(c, n) /\ n.pc = "fill" /\ file' = Torn
    BY <1>1, <1>9, ClientTruncateIs
  <2> QED BY <1>3, <1>4, <2>1, <2>2
<1>10. CASE ClientFill(c)
  <2>1. client[c].pc # "idle" /\ Serve(c, IdleClient) /\ UNCHANGED <<now, sch, ran, edits, faults>>
    BY <1>10 DEF ClientFill
  <2> QED BY <1>3, <2>1
<1>11. CASE ClientFails(c)
  <2>1. client[c].pc # "idle" /\ Serve(c, IdleClient) /\ UNCHANGED <<now, sch, ran, edits, faults>>
    BY <1>11 DEF ClientFails
  <2> QED BY <1>3, <2>1
<1> QED BY <1>5, <1>6, <1>7, <1>8, <1>9, <1>10, <1>11 DEF ClientStep

\* A step of the scheduler that arms nothing but slots to come, and starts no export.
LEMMA SchedulerKept ==
  ASSUME IInv, UNCHANGED <<now, client, ran, edits, faults>>, DueOK(sch', now),
         \A i \in Ids, t \in Int : Armed(file', sch', i, t) => Armed(file, sch, i, t) \/ t > now
  PROVE  DueOK(sch, now)' /\ Past(ran, now)' /\ Paid(ran, file, sch, Busy, edits, faults)'
<1>1. ran \in Ledgers /\ edits \in Nat /\ faults \in Nat /\ now \in Nat
  BY NowIs DEF IInv, Types
<1>2. Busy' = Busy
  BY DEF Busy
<1>3. Paid(ran, file', sch', Busy, edits, faults)
  BY <1>1, PaidKept DEF IInv
<1> QED BY <1>2, <1>3 DEF IInv

\* An export that begins uses up the run that was armed.
LEMMA StartExportPaid ==
  ASSUME IInv, StartExport
  PROVE  DueOK(sch, now)' /\ Past(ran, now)' /\ Paid(ran, file, sch, Busy, edits, faults)'
<1> DEFINE id == sch.id
           slot == sch.rec.next
           m == Cardinality(Busy)
<1>1. /\ sch.pc = "status" /\ sch'.pc = "export" /\ sch'.rec = sch.rec /\ sch'.id = sch.id
      /\ sch'.todo = sch.todo /\ sch'.list = sch.list /\ sch'.copy = sch.copy
  BY StartExportIs DEF IInv, StartExport
<1>2. file' = file /\ now' = now /\ client' = client /\ edits' = edits /\ faults' = faults
  BY DEF StartExport
<1>3. ran \in Ledgers /\ edits \in Nat /\ faults \in Nat /\ now \in Nat
  BY NowIs DEF IInv, Types
<1>4. sch.rec.enabled /\ slot <= now /\ id \notin sch.todo
  BY <1>1 DEF IInv, DueOK
<1>5. DueOK(sch', now')
  BY <1>1, <1>2 DEF IInv, DueOK
<1>6. id \in Ids /\ slot \in Int /\ DOMAIN ran' = DOMAIN ran \cup {<<id, slot>>}
  BY LedgerIs DEF IInv
<1>7. Past(ran', now')
  <2>1. ASSUME NEW k \in DOMAIN ran' PROVE k[2] <= now
    <3>1. CASE k \in DOMAIN ran
      BY <3>1 DEF IInv, Past
    <3>2. CASE k = <<id, slot>>
      BY <1>4, <3>2
    <3> QED BY <1>6, <3>1, <3>2
  <2> QED BY <1>2, <2>1 DEF Past
<1>8. \A k : Exports(ran', k) = IF k = <<id, slot>> THEN Exports(ran, k) + 1 ELSE Exports(ran, k)
  BY LedgerIs DEF IInv, Count, Exports
<1>9. Busy' = Busy
  BY <1>2 DEF Busy
<1>10. IsFiniteSet(Busy) /\ m <= edits /\ m \in Nat
  BY FS_CardinalityType DEF IInv, Paid
<1>11. \A t \in Int : ~Armed(file', sch', id, t)
  BY <1>1, <1>4 DEF Armed, ArmedByFile, ArmedByScheduler, Saving
<1>12. \A i \in Ids, t \in Int : Armed(file', sch', i, t) => Armed(file, sch, i, t)
  BY <1>1, <1>2 DEF Armed, ArmedByFile, ArmedByScheduler, Saving
<1>13. Armed(file, sch, id, slot)
  BY <1>1, <1>4 DEF Armed, ArmedByScheduler, Entry
<1> HIDE DEF id, slot, m
<1>14. ASSUME NEW i \in Ids, NEW t \in Int
       PROVE  /\ Exports(ran', <<i, t>>) + m <= 1 + edits + faults
              /\ Armed(file', sch', i, t) => Exports(ran', <<i, t>>) + m <= edits + faults
  <2> DEFINE x == Exports(ran, <<i, t>>)
             y == Exports(ran', <<i, t>>)
  <2>1. x \in Nat
    BY <1>3, ExportsIs
  <2>2. x + m <= 1 + edits + faults /\ (Armed(file, sch, i, t) => x + m <= edits + faults)
    BY DEF IInv, Paid, m
  <2>3. CASE <<i, t>> = <<id, slot>>
    <3>1. i = id /\ t = slot
      BY <2>3
    <3>2. y = x + 1
      BY <1>8, <2>3
    <3>3. x + m <= edits + faults /\ ~Armed(file', sch', i, t)
      BY <1>11, <1>13, <2>2, <3>1
    <3>4. y + m <= 1 + edits + faults
      <4> HIDE DEF x, y
      <4> QED BY <1>3, <1>10, <2>1, <3>2, <3>3, SMT
    <3> QED BY <3>3, <3>4
  <2>4. CASE <<i, t>> # <<id, slot>>
    BY <1>8, <1>12, <2>2, <2>4
  <2> QED BY <2>3, <2>4
<1>15. Paid(ran', file', sch', Busy', edits', faults')
  BY <1>2, <1>9, <1>10, <1>14 DEF Paid, m
<1> QED BY <1>5, <1>7, <1>15

\* Every other step of the scheduler keeps the account.
LEMMA SchedulerPaid ==
  ASSUME IInv, SchedulerStep
  PROVE  DueOK(sch, now)' /\ Past(ran, now)' /\ Paid(ran, file, sch, Busy, edits, faults)'
<1>1. Types /\ DueOK(sch, now) /\ now \in Nat
  BY NowIs DEF IInv
<1>2. CASE Tick
  <2>1. /\ sch.pc = "tick" /\ sch'.pc = "loop" /\ sch'.list = Contents
        /\ sch'.todo \subseteq DOMAIN Contents
        /\ \A i \in sch'.todo : Contents[i].enabled /\ Contents[i].next <= now
    BY <1>1, <1>2, TickIs DEF Tick
  <2>2. UNCHANGED <<file, now, client, ran, edits, faults>>
    BY <1>2 DEF Tick
  <2>3. DueOK(sch', now)
    BY <2>1 DEF DueOK
  <2>4. ASSUME NEW i \in Ids, NEW t \in Int, Armed(file', sch', i, t)
        PROVE  Armed(file, sch, i, t)
    <3>1. CASE ArmedByFile(file', sch', i, t)
      BY <2>1, <2>2, <3>1 DEF Armed, ArmedByFile, Saving
    <3>2. CASE i \in sch'.todo /\ sch'.list[i].next = t
      <4>1. i \in DOMAIN Contents /\ Entry(Contents[i], t)
        BY <2>1, <3>2 DEF Entry
      <4>2. file # Torn /\ Contents = file
        BY <1>1, <4>1, ContentsIs, EmptyIs DEF Contents
      <4> QED BY <2>1, <4>1, <4>2 DEF Armed, ArmedByFile, Saving
    <3> QED BY <2>1, <2>4, <3>1, <3>2 DEF Armed, ArmedByScheduler
  <2> QED BY <2>2, <2>3, <2>4, SchedulerKept
<1>3. CASE NextSchedule
  <2>1. sch.pc = "loop" /\ UNCHANGED <<file, now, client, ran, edits, faults>>
    BY <1>3 DEF NextSchedule
  <2>2. CASE sch' = [Off EXCEPT !.pc = "idle"]
    <3>1. sch'.pc \in {"off", "tick", "idle"} /\ sch'.todo = {}
      BY <2>2, AtRest
    <3>2. DueOK(sch', now)
      BY <3>1 DEF DueOK
    <3>3. \A i \in Ids, t \in Int : Armed(file', sch', i, t) => Armed(file, sch, i, t)
      BY <2>1, <3>1 DEF Armed, ArmedByFile, ArmedByScheduler, Saving
    <3> QED BY <2>1, <3>2, <3>3, SchedulerKept
  <2>3. ASSUME NEW j \in sch.todo, sch'.pc = "status", sch'.id = j, sch'.rec = sch.list[j],
               sch'.todo = sch.todo \ {j}, sch'.list = sch.list
        PROVE  DueOK(sch, now)' /\ Past(ran, now)' /\ Paid(ran, file, sch, Busy, edits, faults)'
    <3>1. DueOK(sch', now)
      BY <1>1, <2>3 DEF DueOK
    <3>2. \A i \in Ids, t \in Int : Armed(file', sch', i, t) => Armed(file, sch, i, t)
      BY <2>1, <2>3 DEF Armed, ArmedByFile, ArmedByScheduler, Saving, Entry
    <3> QED BY <2>1, <3>1, <3>2, SchedulerKept
  <2> QED BY <1>1, <1>3, <2>2, <2>3, NextScheduleIs
<1>4. CASE SkipRun
  <2>1. /\ sch.pc = "status" /\ sch'.pc = "save" /\ sch'.rec = Skipped(sch.rec) /\ sch'.id = sch.id
        /\ sch'.todo = sch.todo /\ sch'.list = sch.list
    BY <1>1, <1>4, SkipRunIs DEF SkipRun
  <2>2. UNCHANGED <<file, now, client, ran, edits, faults>>
    BY <1>4 DEF SkipRun
  <2>3. DueOK(sch', now)
    BY <1>1, <2>1 DEF DueOK
  <2>4. sch'.rec = sch.rec \/ sch'.rec.next > now
    <3>1. sch.rec \in Recs /\ sch.rec.enabled
      BY <1>1, <2>1 DEF Types, SchTypes, SchRecs, DueOK
    <3> QED BY <1>1, <2>1, <3>1, RescheduledIs
  <2>5. \A i \in Ids, t \in Int : Armed(file', sch', i, t) => Armed(file, sch, i, t) \/ t > now
    BY <2>1, <2>2, <2>4 DEF Armed, ArmedByFile, ArmedByScheduler, Saving, Entry
  <2> QED BY <2>2, <2>3, <2>5, SchedulerKept
<1>5. CASE StartExport
  BY <1>5, StartExportPaid
<1>6. CASE ExportEnds
  <2>1. /\ sch.pc = "export" /\ sch'.pc = "save" /\ sch'.rec = Rescheduled(sch.rec)
        /\ sch'.id = sch.id /\ sch'.todo = sch.todo /\ sch'.list = sch.list
    BY <1>1, <1>6, ExportEndsIs DEF ExportEnds
  <2>2. UNCHANGED <<file, now, client, ran, edits, faults>>
    BY <1>6 DEF ExportEnds
  <2>3. DueOK(sch', now)
    BY <1>1, <2>1 DEF DueOK
  <2>4. sch'.rec.enabled => sch'.rec.next > now
    <3>1. sch.rec \in Recs /\ sch.rec.enabled
      BY <1>1, <2>1 DEF Types, SchTypes, SchRecs, DueOK
    <3> QED BY <1>1, <2>1, <3>1, RescheduledIs
  <2>5. \A i \in Ids, t \in Int : Armed(file', sch', i, t) => Armed(file, sch, i, t) \/ t > now
    BY <2>1, <2>2, <2>4 DEF Armed, ArmedByFile, ArmedByScheduler, Saving, Entry
  <2> QED BY <2>2, <2>3, <2>5, SchedulerKept
<1>7. CASE SaveSchedule
  <2>1. /\ sch.pc = "save" /\ sch'.rec = sch.rec /\ sch'.id = sch.id /\ sch'.todo = sch.todo
        /\ sch'.list = sch.list
    BY <1>1, <1>7, SaveScheduleIs DEF SaveSchedule
  <2>2. UNCHANGED <<file, now, client, ran, edits, faults>>
    BY <1>7 DEF SaveSchedule
  <2>3. CASE sch'.pc = "loop" /\ file = Torn
    <3>1. DueOK(sch', now)
      BY <1>1, <2>1, <2>3 DEF DueOK
    <3>2. \A i \in Ids, t \in Int : Armed(file', sch', i, t) => Armed(file, sch, i, t)
      BY <2>1, <2>2, <2>3 DEF Armed, ArmedByFile, ArmedByScheduler
    <3> QED BY <2>2, <3>1, <3>2, SchedulerKept
  <2>4. CASE /\ sch'.pc = "truncate" /\ file # Torn
             /\ sch'.copy = WithSchedule(Contents, sch.id, sch.rec)
    <3>1. DueOK(sch', now)
      BY <1>1, <2>1, <2>4 DEF DueOK
    <3> DEFINE k == sch.id
               r == sch.rec
               g == WithSchedule(Contents, k, r)
    <3>2. k \in Ids /\ r \in Recs
      BY <1>1, <2>1 DEF Types, SchTypes, SchRecs
    <3>3. Contents = file /\ Contents \in Files
      BY <1>1, <2>4, ContentsIs
    <3>4. k = sch.id /\ r = sch.rec /\ sch'.copy = g
      BY <2>4
    <3> HIDE DEF k, r
    <3>5. DOMAIN g = DOMAIN Contents \cup {k} /\ g[k] = r
      BY <3>2, <3>3, WithIs
    <3>6. \A i \in DOMAIN Contents : i # k => g[i] = Contents[i]
      BY <3>2, <3>3, WithIs
    <3> HIDE DEF g
    <3>7. ASSUME NEW i \in Ids, NEW t \in Int, Armed(file', sch', i, t)
          PROVE  Armed(file, sch, i, t)
      <4>1. CASE ArmedByFile(file', sch', i, t)
        BY <2>1, <2>2, <2>4, <4>1 DEF Armed, ArmedByFile, Saving
      <4>2. CASE i \in sch'.todo /\ sch'.list[i].next = t
        BY <2>1, <4>2 DEF Armed, ArmedByScheduler
      <4>3. CASE i \in DOMAIN g /\ Entry(g[i], t) /\ i = k
        BY <2>1, <3>4, <3>5, <4>3 DEF Armed, ArmedByScheduler
      <4>4. CASE i \in DOMAIN g /\ Entry(g[i], t) /\ i # k
        <5>1. i \in DOMAIN file /\ Entry(file[i], t)
          BY <3>3, <3>5, <3>6, <4>4
        <5>2. ~Saving(sch, i)
          BY <3>4, <4>4 DEF Saving
        <5> QED BY <2>4, <5>1, <5>2 DEF Armed, ArmedByFile
      <4>5. ArmedByScheduler(sch', i, t)
              => \/ i \in sch'.todo /\ sch'.list[i].next = t
                 \/ i \in DOMAIN g /\ Entry(g[i], t)
        BY <2>4, <3>4 DEF ArmedByScheduler
      <4> QED BY <3>7, <4>1, <4>2, <4>3, <4>4, <4>5 DEF Armed
    <3> QED BY <2>2, <3>1, <3>7, SchedulerKept
  <2> QED BY <1>1, <1>7, <2>3, <2>4, SaveScheduleIs
<1>8. CASE SchedulerTruncate
  <2>1. /\ sch.pc = "truncate" /\ sch'.pc = "fill" /\ sch'.rec = sch.rec /\ sch'.id = sch.id
        /\ sch'.todo = sch.todo /\ sch'.list = sch.list /\ sch'.copy = sch.copy
        /\ file' = Torn \/ file' = Empty
    BY <1>1, <1>8, SchedulerTruncateIs DEF SchedulerTruncate
  <2>2. UNCHANGED <<now, client, ran, edits, faults>>
    BY <1>8 DEF SchedulerTruncate
  <2>3. DueOK(sch', now)
    BY <1>1, <2>1 DEF DueOK
  <2>4. \A i \in Ids, t \in Int : Armed(file', sch', i, t) => Armed(file, sch, i, t)
    BY <2>1, EmptyIs DEF Armed, ArmedByFile, ArmedByScheduler
  <2> QED BY <2>2, <2>3, <2>4, SchedulerKept
<1>9. CASE SchedulerFill
  <2>1. /\ sch.pc = "fill" /\ sch'.pc = "loop" /\ sch'.todo = sch.todo /\ sch'.list = sch.list
        /\ file' = Torn \/ file' = sch.copy
    BY <1>1, <1>9, SchedulerFillIs DEF SchedulerFill
  <2>2. UNCHANGED <<now, client, ran, edits, faults>>
    BY <1>9 DEF SchedulerFill
  <2>3. DueOK(sch', now)
    BY <1>1, <2>1 DEF DueOK
  <2>4. \A i \in Ids, t \in Int : Armed(file', sch', i, t) => Armed(file, sch, i, t)
    BY <2>1 DEF Armed, ArmedByFile, ArmedByScheduler
  <2> QED BY <2>2, <2>3, <2>4, SchedulerKept
<1>10. CASE WakeUp
  <2>1. sch.pc = "idle" /\ UNCHANGED <<file, now, client, ran, edits, faults>>
    BY <1>10 DEF WakeUp
  <2>2. /\ sch'.pc \in {"off", "tick", "idle"}
        /\ sch'.todo = {} \/ (sch'.todo = sch.todo /\ sch'.list = sch.list)
    BY <1>1, <1>10, WakeUpIs, AtRest
  <2>3. DueOK(sch', now)
    BY <1>1, <2>2 DEF DueOK
  <2>4. \A i \in Ids, t \in Int : Armed(file', sch', i, t) => Armed(file, sch, i, t)
    BY <2>1, <2>2 DEF Armed, ArmedByFile, ArmedByScheduler, Saving
  <2> QED BY <2>1, <2>3, <2>4, SchedulerKept
<1>11. CASE SaveFails
  <2>1. ran \in Ledgers /\ edits \in Nat /\ faults \in Nat
    BY NowIs DEF IInv, Types
  <2>2. UNCHANGED <<now, client, ran, edits>> /\ faults' = faults + 1
    BY <1>11 DEF SaveFails
  <2>3. DueOK(sch', now)
    BY <1>1, <1>11, SaveFailsIs DEF DueOK
  <2>4. Busy' = Busy
    BY <2>2 DEF Busy
  <2>5. Paid(ran, file', sch', Busy, edits, faults + 1)
    BY <2>1, PaidFault DEF IInv
  <2> QED BY <2>2, <2>3, <2>4, <2>5 DEF IInv
<1> QED BY <1>2, <1>3, <1>4, <1>5, <1>6, <1>7, <1>8, <1>9, <1>10, <1>11 DEF SchedulerStep

\* Nothing has run when the daemon starts, and no request is at work.
LEMMA InitPaid ==
  ASSUME Init
  PROVE  IInv
<1>1. Types
  BY InitTypes
<1>2. sch = [Off EXCEPT !.pc = "tick"]
  BY DEF Init
<1>3. sch.pc = "tick" /\ sch.todo = {}
  BY <1>2 DEF Off
<1>4. DueOK(sch, now)
  BY <1>3 DEF DueOK
<1>5. DOMAIN ran = {}
  BY DEF Init
<1>6. Past(ran, now)
  BY <1>5 DEF Past
<1>7. Busy = {}
  BY DEF Init, Busy, IdleClient
<1>8. IsFiniteSet(Busy) /\ Cardinality(Busy) = 0
  BY <1>7, FS_EmptySet
<1>9. edits = 0 /\ faults = 0
  BY DEF Init
<1>10. \A i \in Ids, t \in Int : Exports(ran, <<i, t>>) = 0
  BY <1>5 DEF Exports
<1>11. 0 <= 0 /\ 0 + 0 <= 1 + 0 + 0 /\ 0 + 0 <= 0 + 0
  BY SMT
<1> QED BY <1>1, <1>4, <1>6, <1>8, <1>9, <1>10, <1>11 DEF IInv, Paid

\* A restart pays for one more export of every slot.
LEMMA RestartPaid ==
  ASSUME IInv, Restart
  PROVE  DueOK(sch, now)' /\ Past(ran, now)' /\ Paid(ran, file, sch, Busy, edits, faults)'
<1>1. ran \in Ledgers /\ edits \in Nat /\ faults \in Nat
  BY NowIs DEF IInv, Types
<1>2. sch'.pc \in {"off", "tick", "idle"} /\ sch'.todo = {}
  BY AtRest DEF Restart
<1>3. DueOK(sch', now')
  BY <1>2 DEF DueOK
<1>4. ran' = ran /\ now' = now /\ edits' = edits /\ faults' = faults + 1
  BY DEF Restart
<1>5. Busy' = {}
  BY DEF Restart, Busy, IdleClient
<1>6. IsFiniteSet(Busy') /\ Cardinality(Busy') = 0
  BY <1>5, FS_EmptySet
<1> DEFINE m == Cardinality(Busy)
<1>7. m \in Nat
  BY FS_CardinalityType DEF IInv, Paid
<1>8. ASSUME NEW i \in Ids, NEW t \in Int
      PROVE  /\ Exports(ran, <<i, t>>) + 0 <= 1 + edits + (faults + 1)
             /\ Exports(ran, <<i, t>>) + 0 <= edits + (faults + 1)
  <2> DEFINE x == Exports(ran, <<i, t>>)
  <2>1. x \in Nat
    BY <1>1, ExportsIs
  <2>2. x + m <= 1 + edits + faults
    BY DEF IInv, Paid
  <2>3. x + 0 <= 1 + edits + (faults + 1) /\ x + 0 <= edits + (faults + 1)
    <3> HIDE DEF x, m
    <3> QED BY <1>1, <1>7, <2>1, <2>2, SMT
  <2> QED BY <2>3
<1>9. 0 <= edits
  BY <1>1, SMT
<1>10. Paid(ran', file', sch', Busy', edits', faults')
  BY <1>4, <1>6, <1>8, <1>9 DEF Paid
<1> QED BY <1>3, <1>4, <1>10 DEF IInv

\* Every step keeps the account.
LEMMA NextPaid ==
  ASSUME IInv, [Next]_vars
  PROVE  IInv'
<1>1. Types'
  BY NextTypes DEF IInv
<1>2. SUFFICES DueOK(sch, now)' /\ Past(ran, now)' /\ Paid(ran, file, sch, Busy, edits, faults)'
  BY <1>1 DEF IInv
<1>3. CASE ClockAdvances
  <2>1. now' = now + 1 /\ UNCHANGED <<file, sch, client, ran, edits, faults>>
    BY <1>3 DEF ClockAdvances
  <2>2. now \in Nat
    BY NowIs DEF IInv
  <2>3. \A t \in Int : t <= now => t <= now + 1
    BY <2>2, SMT
  <2>4. \A k \in DOMAIN ran : k[2] \in Int
    BY SMT DEF IInv, Types, Ledgers
  <2>5. Past(ran, now')
    BY <2>1, <2>3, <2>4 DEF IInv, Past
  <2>6. sch.rec.next \in Int /\ \A i \in sch.todo : sch.list[i].next \in Int
    <3>1. sch.rec \in Recs /\ sch.list \in Files /\ sch.todo \subseteq DOMAIN sch.list
      BY DEF IInv, Types, SchTypes, SchRecs
    <3>2. \A i \in sch.todo : sch.list[i] \in Recs
      BY <3>1, FileIs
    <3> QED BY <3>1, <3>2 DEF Recs, Times
  <2>7. DueOK(sch, now')
    BY <2>1, <2>3, <2>6 DEF IInv, DueOK
  <2>8. Busy' = Busy
    BY <2>1 DEF Busy
  <2> QED BY <2>1, <2>5, <2>7, <2>8 DEF IInv
<1>4. CASE Stop
  <2>1. Busy' = Busy
    BY <1>4 DEF Busy, Stop
  <2> QED BY <1>4, <2>1 DEF IInv, Stop
<1>5. CASE UNCHANGED vars
  <2>1. Busy' = Busy
    BY <1>5 DEF Busy, vars
  <2> QED BY <1>5, <2>1 DEF IInv, vars
<1> QED BY <1>3, <1>4, <1>5, ClientPaid, SchedulerPaid, RestartPaid DEF Next

\* However the clock runs, wherever the daemon is killed and whichever file accesses fail, a
\* slot is exported once, and once more at most for every request served, every restart and
\* every save of the scheduler that fails.
THEOREM OncePerSlotAlways == Spec => []OncePerSlot
<1>1. IInv => OncePerSlot
  <2> SUFFICES ASSUME IInv, NEW key \in DOMAIN ran PROVE ran[key] <= 1 + edits + faults
    BY DEF OncePerSlot
  <2>1. ran \in Ledgers /\ edits \in Nat /\ faults \in Nat
    BY NowIs DEF IInv, Types
  <2>2. PICK i \in Ids, t \in Int : key = <<i, t>>
    BY <2>1, SMT DEF Ledgers
  <2> DEFINE m == Cardinality(Busy)
             x == ran[key]
  <2>3. m \in Nat
    BY FS_CardinalityType DEF IInv, Paid
  <2>4. Exports(ran, <<i, t>>) = x /\ Exports(ran, <<i, t>>) \in Nat
    BY <2>1, <2>2, ExportsIs DEF Exports
  <2>5. Exports(ran, <<i, t>>) + m <= 1 + edits + faults
    BY DEF IInv, Paid
  <2>6. x \in Nat /\ x + m <= 1 + edits + faults
    BY <2>4, <2>5
  <2>7. x <= 1 + edits + faults
    <3> HIDE DEF x, m
    <3> QED BY <2>1, <2>3, <2>6, SMT
  <2> QED BY <2>7
<1> QED BY <1>1, InitPaid, NextPaid, PTL DEF Spec

=============================================================================
