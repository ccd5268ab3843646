------------------------ MODULE LogBroadcasterProofs ------------------------
(***************************************************************************)
(* Proofs about LogBroadcaster, for any subscribers, streams, runs, lines, *)
(* history length and channel capacity: one goroutine per stream object, a *)
(* subscriber that joined in time is served, and joining loses no line and *)
(* delivers none twice.                                                    *)
(***************************************************************************)
EXTENDS LogBroadcaster, TLAPS

USE Zenon

USE BoundsAssumption DEF Streams, Runs, Nil

\* A goroutine of run, and a handler that serves a subscriber.
RunRecords ==
  [stream : 0..MaxStreams, pc : RunPcs, sentHistory : BOOLEAN, canceled : BOOLEAN,
   next : Nat, upto : Nat, line : Nat, fan : SUBSET Subscribers]

SubRecords == [pc : SubPcs, stream : 0..MaxStreams, late : BOOLEAN, cancel : 0..MaxRuns]

\* The variables that say who reads, who listens and who stops whom.
Types ==
  /\ mapped \in 0..MaxStreams /\ born \in 0..MaxStreams /\ runs \in 0..MaxRuns /\ written \in Nat
  /\ subs \in [Streams -> SUBSET Subscribers]
  /\ cancel \in [Streams -> 0..MaxRuns]
  /\ stopping \in [Streams -> BOOLEAN]
  /\ run \in [Runs -> RunRecords]
  /\ sub \in [Subscribers -> SubRecords]

\* stream.cancel and the goroutine it stops belong together, from the start of the goroutine to
\* the first half of cleanupStream; and a goroutine that nobody is stopping has a subscriber and
\* does not leave its loop.
RunInv ==
  /\ \A r \in Runs : /\ r > runs => run[r].pc = "unborn"
                     /\ InLoop(r) => run[r].stream \in Streams /\ cancel[run[r].stream] = r
  /\ \A s \in Streams : cancel[s] # Nil =>
       /\ cancel[s] \in 1..runs
       /\ run[cancel[s]].stream = s /\ InLoop(cancel[s])
       /\ ~stopping[s] => subs[s] # {} /\ ~run[cancel[s]].canceled /\ run[cancel[s]].pc # "clean1"

\* A line is handed out while the goroutine reads the log.
FanInv == \A r \in Runs : run[r].fan = {} \/ run[r].pc \in {"tail", "follow"}

\* A subscriber that joined in time keeps its stream from being stopped; and a cancel function
\* that was taken under the lock stops a goroutine whose stream is still being stopped, or is
\* served by another one by now.
SubInv ==
  \A c \in Subscribers :
    /\ sub[c].pc \in {"join", "reading", "remove"} => sub[c].stream \in Streams
    /\ Joined(c) => c \in subs[sub[c].stream]
    /\ Joined(c) /\ ~sub[c].late => ~stopping[sub[c].stream] /\ cancel[sub[c].stream] # Nil
    /\ sub[c].pc = "cancel" => /\ sub[c].cancel \in 1..runs
                               /\ \A s \in Streams : cancel[s] = sub[c].cancel => stopping[s]

\* The inductive invariant of the streams and their goroutines.
IInv == Types /\ RunInv /\ FanInv /\ SubInv

\* Without subscribers and goroutines the invariant holds.
LEMMA InitInv == Init => IInv
<1> SUFFICES ASSUME Init PROVE IInv
  OBVIOUS
<1>1. NoRun \in RunRecords /\ NoRun.pc = "unborn" /\ NoRun.fan = {}
  BY SMT DEF NoRun, RunRecords, RunPcs
<1>2. NewSub \in SubRecords /\ NewSub.pc = "new"
  BY SMT DEF NewSub, SubRecords, SubPcs
<1>3. Types
  BY <1>1, <1>2, SMT DEF Init, Types
<1> QED BY <1>1, <1>2, <1>3 DEF Init, IInv, RunInv, FanInv, SubInv, InLoop, Joined

-----------------------------------------------------------------------------
(* Steps of a goroutine.                                                   *)

\* A step that moves one goroutine within its loop or, when its stream is being stopped, to the
\* end of it.
LEMMA MoveInv ==
  ASSUME IInv, NEW r \in Runs, InLoop(r), NEW n \in RunRecords, Step(r, n),
         n.stream = run[r].stream, n.canceled = run[r].canceled,
         n.pc \in {"top", "tail", "follow", "retry", "clean1"},
         n.pc \notin {"tail", "follow"} => n.fan = {},
         n.pc = "clean1" => run[r].canceled \/ run[r].pc = "clean1" \/ subs[run[r].stream] = {},
         UNCHANGED <<mapped, born, subs, cancel, stopping, runs, sub>>, written' \in Nat
  PROVE  IInv'
<1>1. run' = [run EXCEPT ![r] = n] /\ run \in [Runs -> RunRecords]
  BY DEF Step, IInv, Types
<1>2. run' \in [Runs -> RunRecords] /\ run'[r] = n /\ \A q \in Runs : q # r => run'[q] = run[q]
  BY <1>1
<1>3. Types'
  BY <1>2 DEF IInv, Types
<1>4. \A q \in Runs : /\ run'[q].stream = run[q].stream /\ run'[q].canceled = run[q].canceled
                      /\ (InLoop(q) <=> InLoop(q)')
  BY <1>2 DEF InLoop
<1>5. r <= runs
  BY SMT DEF IInv, RunInv, InLoop, Types
<1>6. \A q \in Runs : q > runs => run'[q].pc = "unborn"
  BY <1>2, <1>5, SMT DEF IInv, RunInv, Types
<1>7. ASSUME NEW s \in Streams, cancel[s] # Nil, ~stopping[s]
      PROVE  subs[s] # {} /\ ~run'[cancel[s]].canceled /\ run'[cancel[s]].pc # "clean1"
  <2>1. cancel[s] \in Runs /\ run[cancel[s]].stream = s /\ subs[s] # {} /\ ~run[cancel[s]].canceled
        /\ run[cancel[s]].pc # "clean1"
    BY <1>7, SMT DEF IInv, RunInv, Types
  <2> QED BY <1>2, <1>4, <2>1
<1>8. RunInv'
  <2>1. ASSUME NEW s \in Streams, cancel[s] # Nil
        PROVE  cancel[s] \in 1..runs /\ run'[cancel[s]].stream = s /\ InLoop(cancel[s])'
    <3>1. cancel[s] \in 1..runs /\ cancel[s] \in Runs /\ run[cancel[s]].stream = s /\ InLoop(cancel[s])
      BY <2>1, SMT DEF IInv, RunInv, Types
    <3> QED BY <1>4, <3>1 DEF InLoop
  <2>2. \A q \in Runs : InLoop(q)' => run'[q].stream \in Streams /\ cancel[run'[q].stream] = q
    BY <1>4, SMT DEF IInv, RunInv
  <2> QED BY <1>6, <1>7, <2>1, <2>2 DEF RunInv, InLoop
<1>9. SubInv'
  BY DEF IInv, SubInv, Joined
<1>10. FanInv'
  BY <1>2 DEF IInv, FanInv
<1> QED BY <1>3, <1>8, <1>9, <1>10 DEF IInv

\* The look at the context at the top of the loop of runStream keeps it.
LEMMA LoopTopInv == ASSUME IInv, NEW r \in Runs, LoopTop(r) PROVE IInv'
<1>1. run[r] \in RunRecords /\ run[r].pc = "top" /\ run[r].fan = {} /\ InLoop(r) /\ written \in Nat
  BY DEF LoopTop, IInv, Types, FanInv, InLoop
<1>2. UNCHANGED <<mapped, born, subs, cancel, stopping, runs, sub, written>>
  BY DEF LoopTop, streamVars, subVars
<1>3. LastLine(written) \in Nat /\ written + 1 \in Nat
  BY <1>1, SMT DEF LastLine
<1>4. CASE (run[r].canceled \/ subs[run[r].stream] = {}) /\ Step(r, [run[r] EXCEPT !.pc = "clean1"])
  <2> DEFINE n == [run[r] EXCEPT !.pc = "clean1"]
  <2>1. n \in RunRecords /\ n.stream = run[r].stream /\ n.canceled = run[r].canceled /\ n.pc = "clean1"
        /\ n.fan = {}
    BY <1>1 DEF RunRecords, RunPcs
  <2>2. Step(r, n)
    BY <1>4
  <2> HIDE DEF n
  <2> QED BY <1>1, <1>2, <1>4, <2>1, <2>2, MoveInv
<1>5. CASE Step(r, [run[r] EXCEPT !.pc = "tail", !.sentHistory = TRUE,
                                  !.next = LastLine(written), !.upto = written])
  <2> DEFINE n == [run[r] EXCEPT !.pc = "tail", !.sentHistory = TRUE,
                                 !.next = LastLine(written), !.upto = written]
  <2>1. n \in RunRecords /\ n.stream = run[r].stream /\ n.canceled = run[r].canceled /\ n.pc = "tail"
    BY <1>1, <1>3 DEF RunRecords, RunPcs
  <2>2. Step(r, n)
    BY <1>5
  <2> HIDE DEF n
  <2> QED BY <1>1, <1>2, <2>1, <2>2, MoveInv
<1>6. CASE Step(r, [run[r] EXCEPT !.pc = "follow", !.next = written + 1])
  <2> DEFINE n == [run[r] EXCEPT !.pc = "follow", !.next = written + 1]
  <2>1. n \in RunRecords /\ n.stream = run[r].stream /\ n.canceled = run[r].canceled /\ n.pc = "follow"
    BY <1>1, <1>3 DEF RunRecords, RunPcs
  <2>2. Step(r, n)
    BY <1>6
  <2> HIDE DEF n
  <2> QED BY <1>1, <1>2, <2>1, <2>2, MoveInv
<1> QED BY <1>4, <1>5, <1>6 DEF LoopTop

\* The start of docker logs keeps it.
LEMMA StartFollowInv == ASSUME IInv, NEW r \in Runs, StartFollow(r) PROVE IInv'
<1> DEFINE n == [run[r] EXCEPT !.pc = "follow", !.next = written + 1]
<1>1. run[r] \in RunRecords /\ InLoop(r) /\ written \in Nat /\ written + 1 \in Nat
  BY SMT DEF StartFollow, IInv, Types, InLoop
<1>2. n \in RunRecords /\ n.stream = run[r].stream /\ n.canceled = run[r].canceled /\ n.pc = "follow"
  BY <1>1 DEF RunRecords, RunPcs
<1>3. Step(r, n) /\ UNCHANGED <<mapped, born, subs, cancel, stopping, runs, sub, written>>
  BY DEF StartFollow, streamVars, subVars
<1> HIDE DEF n
<1> QED BY <1>1, <1>2, <1>3, MoveInv

\* Taking a line into the history, and the subscribers it goes to, keeps it.
LEMMA PublishInv == ASSUME IInv, NEW r \in Runs, Publish(r) PROVE IInv'
<1> DEFINE n == [run[r] EXCEPT !.next = run[r].next + 1, !.line = run[r].next,
                               !.fan = subs[run[r].stream]]
<1>1. run[r] \in RunRecords /\ InLoop(r) /\ run[r].pc \in {"tail", "follow"} /\ written \in Nat
  BY DEF Publish, Ready, IInv, Types, InLoop
<1>2. run[r].next \in Nat /\ run[r].next + 1 \in Nat
  BY <1>1, SMT DEF RunRecords
<1>3. subs[run[r].stream] \in SUBSET Subscribers
  BY <1>1, SMT DEF IInv, RunInv, Types
<1>4. n \in RunRecords /\ n.stream = run[r].stream /\ n.canceled = run[r].canceled /\ n.pc = run[r].pc
  BY <1>1, <1>2, <1>3 DEF RunRecords
<1>5. Step(r, n) /\ UNCHANGED <<mapped, born, subs, cancel, stopping, runs, sub, written>>
  BY DEF Publish, subVars
<1> HIDE DEF n
<1> QED BY <1>1, <1>4, <1>5, MoveInv

\* The delivery to one of those subscribers keeps it.
LEMMA FanOutInv == ASSUME IInv, NEW r \in Runs, NEW c \in Subscribers, FanOut(r, c) PROVE IInv'
<1> DEFINE n == [run[r] EXCEPT !.fan = run[r].fan \ {c}]
<1>1. run[r] \in RunRecords /\ InLoop(r) /\ run[r].pc \in {"tail", "follow"} /\ written \in Nat
  BY DEF FanOut, IInv, Types, FanInv, InLoop
<1>2. n \in RunRecords /\ n.stream = run[r].stream /\ n.canceled = run[r].canceled /\ n.pc = run[r].pc
  BY <1>1 DEF RunRecords
<1>3. Step(r, n) /\ UNCHANGED <<mapped, born, subs, cancel, stopping, runs, sub, written>>
  BY DEF FanOut, streamVars
<1> HIDE DEF n
<1> QED BY <1>1, <1>2, <1>3, MoveInv

\* The end of docker logs keeps it.
LEMMA StreamEndsInv == ASSUME IInv, NEW r \in Runs, StreamEnds(r) PROVE IInv'
<1> DEFINE n == [run[r] EXCEPT !.pc = IF run[r].canceled THEN "clean1" ELSE "retry"]
<1>1. run[r] \in RunRecords /\ InLoop(r) /\ run[r].fan = {} /\ written \in Nat
  BY DEF StreamEnds, IInv, Types, InLoop
<1>2. n \in RunRecords /\ n.stream = run[r].stream /\ n.canceled = run[r].canceled /\ n.fan = {}
      /\ n.pc = IF run[r].canceled THEN "clean1" ELSE "retry"
  BY <1>1 DEF RunRecords, RunPcs
<1>3. Step(r, n) /\ UNCHANGED <<mapped, born, subs, cancel, stopping, runs, sub, written>>
  BY DEF StreamEnds, streamVars, subVars
<1> HIDE DEF n
<1> QED BY <1>1, <1>2, <1>3, MoveInv

\* The wait before the next attempt keeps it.
LEMMA RetryInv == ASSUME IInv, NEW r \in Runs, Retry(r) PROVE IInv'
<1> DEFINE n(l) == [run[r] EXCEPT !.pc = l]
<1>1. run[r] \in RunRecords /\ InLoop(r) /\ run[r].fan = {} /\ written \in Nat
  BY DEF Retry, IInv, Types, InLoop, FanInv
<1>2. PICK l \in {"clean1", "top"} : Step(r, n(l)) /\ (l = "clean1" => run[r].canceled)
  BY DEF Retry
<1>3. n(l) \in RunRecords /\ n(l).stream = run[r].stream /\ n(l).canceled = run[r].canceled
      /\ n(l).fan = {} /\ n(l).pc = l
  BY <1>1 DEF RunRecords, RunPcs
<1>4. UNCHANGED <<mapped, born, subs, cancel, stopping, runs, sub, written>>
  BY DEF Retry, streamVars, subVars
<1> HIDE DEF n
<1> QED BY <1>1, <1>2, <1>3, <1>4, MoveInv

\* The goroutine leaves stream.cancel: nobody who joined in time was on the stream.
LEMMA CleanupStreamInv == ASSUME IInv, NEW r \in Runs, CleanupStream(r) PROVE IInv'
<1> DEFINE n == [run[r] EXCEPT !.pc = "clean2"]
           s == run[r].stream
<1>0. run[r] \in RunRecords /\ InLoop(r) /\ run[r].pc = "clean1" /\ run[r].fan = {}
  BY DEF CleanupStream, IInv, Types, InLoop, FanInv
<1>1. s \in Streams /\ cancel[s] = r /\ r \in 1..runs
  BY <1>0, SMT DEF IInv, RunInv
<1>2. n \in RunRecords /\ n.stream = s /\ n.fan = {} /\ n.pc = "clean2"
  BY <1>0 DEF RunRecords, RunPcs
<1>3. Step(r, n) /\ cancel' = [cancel EXCEPT ![s] = Nil] /\ stopping' = [stopping EXCEPT ![s] = FALSE]
      /\ UNCHANGED <<mapped, born, subs, runs, sub, written>>
  BY DEF CleanupStream, subVars
<1> HIDE DEF n, s
<1>4. Types'
  BY <1>1, <1>2, <1>3, SMT DEF IInv, Types, Step
<1>5. run'[r] = n /\ \A q \in Runs : q # r => run'[q] = run[q]
  BY <1>3 DEF IInv, Types, Step
<1>6. cancel'[s] = Nil /\ \A t \in Streams : t # s => cancel'[t] = cancel[t] /\ stopping'[t] = stopping[t]
  BY <1>1, <1>3 DEF IInv, Types
<1>7. ~InLoop(r)' /\ \A q \in Runs : q # r => (InLoop(q)' <=> InLoop(q))
  BY <1>2, <1>5 DEF InLoop
<1>8. \A q \in Runs : q # r /\ InLoop(q) => run[q].stream # s
  BY <1>1 DEF IInv, RunInv
<1>9. \A t \in Streams : t # s /\ cancel[t] # Nil => cancel[t] \in Runs /\ cancel[t] # r
  BY <1>1, SMT DEF IInv, RunInv, s, Types
<1>10. RunInv'
  <2>1. ASSUME NEW q \in Runs
        PROVE  /\ q > runs => run'[q].pc = "unborn"
               /\ InLoop(q)' => run'[q].stream \in Streams /\ cancel'[run'[q].stream] = q
    BY <1>1, <1>2, <1>5, <1>6, <1>7, <1>8, SMT DEF IInv, RunInv, Types
  <2>2. ASSUME NEW t \in Streams, cancel'[t] # Nil
        PROVE  /\ cancel'[t] \in 1..runs
               /\ run'[cancel'[t]].stream = t /\ InLoop(cancel[t])'
               /\ ~stopping'[t] => /\ subs[t] # {} /\ ~run'[cancel'[t]].canceled
                                   /\ run'[cancel'[t]].pc # "clean1"
    <3>1. t # s /\ cancel'[t] = cancel[t] /\ stopping'[t] = stopping[t]
          /\ cancel[t] \in Runs /\ cancel[t] # r
      BY <1>6, <1>9, <2>2
    <3>2. PICK q \in Runs : q = cancel[t] /\ q = cancel'[t] /\ q # r
      BY <3>1
    <3>3. run'[q] = run[q]
      BY <1>5, <3>2
    <3>4. /\ q \in 1..runs /\ run[q].stream = t /\ InLoop(q)
          /\ ~stopping[t] => subs[t] # {} /\ ~run[q].canceled /\ run[q].pc # "clean1"
      BY <2>2, <3>1, <3>2, SMT DEF IInv, RunInv
    <3> QED BY <3>1, <3>2, <3>3, <3>4 DEF InLoop
  <2> QED BY <1>3, <2>1, <2>2 DEF RunInv
<1>11. \A c \in Subscribers : Joined(c) /\ ~sub[c].late => sub[c].stream # s
  BY <1>0, <1>1, SMT DEF IInv, SubInv, RunInv
<1>12. SubInv'
  BY <1>3, <1>6, <1>11, SMT DEF IInv, SubInv, Joined
<1>13. FanInv'
  BY <1>2, <1>5 DEF IInv, FanInv
<1> QED BY <1>4, <1>10, <1>12, <1>13 DEF IInv

\* Removing the stream from the map keeps it.
LEMMA CleanupMapInv == ASSUME IInv, NEW r \in Runs, CleanupMap(r) PROVE IInv'
<1> DEFINE n == [run[r] EXCEPT !.pc = "done"]
<1>1. run[r] \in RunRecords /\ run[r].pc = "clean2" /\ ~InLoop(r) /\ run[r].fan = {}
  BY DEF CleanupMap, IInv, Types, InLoop, FanInv
<1>10. r <= runs
  BY <1>1, SMT DEF IInv, RunInv, Types
<1>2. n \in RunRecords /\ n.fan = {} /\ n.pc = "done"
  BY <1>1 DEF RunRecords, RunPcs
<1>3. Step(r, n) /\ mapped' \in {Nil, mapped}
      /\ UNCHANGED <<born, subs, cancel, stopping, runs, sub, written>>
  BY DEF CleanupMap, subVars
<1> HIDE DEF n
<1>4. Types'
  BY <1>2, <1>3, SMT DEF IInv, Types, Step
<1>5. run'[r] = n /\ \A q \in Runs : q # r => run'[q] = run[q]
  BY <1>3 DEF IInv, Types, Step
<1>6. ~InLoop(r)' /\ \A q \in Runs : q # r => (InLoop(q)' <=> InLoop(q))
  BY <1>2, <1>5 DEF InLoop
<1>7. \A t \in Streams : cancel[t] # Nil => cancel[t] \in Runs /\ cancel[t] # r
  BY <1>1, SMT DEF IInv, RunInv, Types
<1>8. RunInv'
  <2>1. ASSUME NEW q \in Runs
        PROVE  /\ q > runs => run'[q].pc = "unborn"
               /\ InLoop(q)' => run'[q].stream \in Streams /\ cancel[run'[q].stream] = q
    <3>1. CASE q = r
      BY <1>6, <1>10, <3>1, SMT DEF IInv, Types
    <3>2. CASE q # r
      <4>1. run'[q] = run[q] /\ (InLoop(q)' <=> InLoop(q))
        BY <1>5, <1>6, <3>2
      <4> QED BY <4>1 DEF IInv, RunInv
    <3> QED BY <3>1, <3>2
  <2>2. ASSUME NEW t \in Streams, cancel[t] # Nil
        PROVE  /\ cancel[t] \in 1..runs
               /\ run'[cancel[t]].stream = t /\ InLoop(cancel[t])'
               /\ ~stopping[t] => /\ subs[t] # {} /\ ~run'[cancel[t]].canceled
                                  /\ run'[cancel[t]].pc # "clean1"
    <3>1. PICK q \in Runs : q = cancel[t] /\ q # r
      BY <1>7, <2>2
    <3>2. run'[q] = run[q] /\ InLoop(q)' = InLoop(q)
      BY <1>5, <3>1 DEF InLoop
    <3>3. /\ q \in 1..runs /\ run[q].stream = t /\ InLoop(q)
          /\ ~stopping[t] => subs[t] # {} /\ ~run[q].canceled /\ run[q].pc # "clean1"
      BY <2>2, <3>1 DEF IInv, RunInv
    <3> QED BY <1>3, <3>1, <3>2, <3>3 DEF InLoop
  <2> QED BY <1>3, <2>1, <2>2 DEF RunInv
<1>9. SubInv'
  BY <1>3 DEF IInv, SubInv, Joined
<1>11. FanInv'
  BY <1>2, <1>5 DEF IInv, FanInv
<1> QED BY <1>4, <1>8, <1>9, <1>11 DEF IInv

-----------------------------------------------------------------------------
(* Steps of a handler.                                                     *)

\* A step that moves one handler to a place where the invariant asks of it only that it has a
\* stream.
LEMMA HandlerInv ==
  ASSUME IInv, NEW c \in Subscribers, NEW n \in SubRecords, SubAt(c, n),
         n.pc \in {"join", "release", "remove", "gone"},
         n.pc \in {"join", "remove"} => n.stream \in Streams,
         mapped' \in 0..MaxStreams, born' \in 0..MaxStreams,
         UNCHANGED <<subs, cancel, stopping, run, runs, written>>
  PROVE  IInv'
<1>1. sub' \in [Subscribers -> SubRecords] /\ sub'[c] = n
      /\ \A d \in Subscribers : d # c => sub'[d] = sub[d]
  BY DEF SubAt, IInv, Types
<1>2. Types'
  BY <1>1 DEF IInv, Types
<1>3. RunInv' /\ FanInv'
  BY DEF IInv, RunInv, FanInv, InLoop
<1>4. SubInv'
  BY <1>1, SMT DEF IInv, SubInv, Joined
<1> QED BY <1>2, <1>3, <1>4 DEF IInv

\* Looking a stream up, or making one, keeps it.
LEMMA SubscribeLookupInv == ASSUME IInv, NEW c \in Subscribers, SubscribeLookup(c) PROVE IInv'
<1> DEFINE s == IF mapped # Nil /\ ~stopping[mapped] THEN mapped ELSE born + 1
           n == [sub[c] EXCEPT !.pc = "join", !.stream = s]
<1>1. sub[c] \in SubRecords /\ mapped \in 0..MaxStreams /\ born \in 0..MaxStreams
  BY DEF IInv, Types
<1>2. UNCHANGED <<subs, cancel, stopping, run, runs, written>>
  BY DEF SubscribeLookup, runVars
<1>3. SubAt(c, n)
  BY DEF SubscribeLookup
<1>4. s \in Streams /\ s \in 0..MaxStreams /\ mapped' \in 0..MaxStreams /\ born' \in 0..MaxStreams
  BY <1>1, SMT DEF SubscribeLookup
<1> HIDE DEF s
<1>5. n \in SubRecords /\ n.pc = "join" /\ n.stream = s
  BY <1>1, <1>4 DEF SubRecords, SubPcs
<1> HIDE DEF n
<1> QED BY <1>2, <1>3, <1>4, <1>5, HandlerInv

\* A client that hangs up keeps it.
LEMMA HangUpInv == ASSUME IInv, NEW c \in Subscribers, HangUp(c) PROVE IInv'
<1> DEFINE n == [sub[c] EXCEPT !.pc = "release"]
<1>1. sub[c] \in SubRecords /\ mapped \in 0..MaxStreams /\ born \in 0..MaxStreams
  BY DEF IInv, Types
<1>2. SubAt(c, n) /\ UNCHANGED <<mapped, born, subs, cancel, stopping, run, runs, written>>
  BY DEF HangUp, streamVars, runVars
<1>3. n \in SubRecords /\ n.pc = "release"
  BY <1>1 DEF SubRecords, SubPcs
<1> HIDE DEF n
<1> QED BY <1>1, <1>2, <1>3, HandlerInv

\* release looking the stream up keeps it.
LEMMA ReleaseLookupInv == ASSUME IInv, NEW c \in Subscribers, ReleaseLookup(c) PROVE IInv'
<1> DEFINE n == [sub[c] EXCEPT !.pc = IF mapped = Nil THEN "gone" ELSE "remove", !.stream = mapped]
<1>1. sub[c] \in SubRecords /\ mapped \in 0..MaxStreams /\ born \in 0..MaxStreams
  BY DEF IInv, Types
<1>2. SubAt(c, n) /\ UNCHANGED <<mapped, born, subs, cancel, stopping, run, runs, written>>
  BY DEF ReleaseLookup, streamVars, runVars
<1>3. n \in SubRecords /\ n.pc = (IF mapped = Nil THEN "gone" ELSE "remove") /\ n.stream = mapped
  BY <1>1 DEF SubRecords, SubPcs
<1> HIDE DEF n
<1>4. n.pc \in {"join", "release", "remove", "gone"} /\ (n.pc \in {"join", "remove"} => n.stream \in Streams)
  BY <1>1, <1>3, SMT
<1> QED BY <1>1, <1>2, <1>3, <1>4, HandlerInv

\* Joining a stream keeps it, whether the goroutine is started or found running.
LEMMA SubscribeJoinInv == ASSUME IInv, NEW c \in Subscribers, SubscribeJoin(c) PROVE IInv'
<1> DEFINE s == sub[c].stream
           n == [sub[c] EXCEPT !.pc = "reading", !.late = stopping[s]]
           m == [NoRun EXCEPT !.stream = s, !.pc = "top"]
<1>1. sub[c] \in SubRecords /\ sub[c].pc = "join" /\ s \in Streams
  BY DEF SubscribeJoin, IInv, Types, SubInv
<1>2. stopping[s] \in BOOLEAN /\ n \in SubRecords /\ n.pc = "reading" /\ n.late = stopping[s] /\ n.stream = s
  BY <1>1 DEF SubRecords, SubPcs, IInv, Types
<1>3. m \in RunRecords /\ m.pc = "top" /\ m.stream = s /\ m.fan = {} /\ ~m.canceled
  <2>1. NoRun \in RunRecords /\ NoRun.fan = {} /\ ~NoRun.canceled
    BY SMT DEF RunRecords, RunPcs, NoRun
  <2>2. s \in 0..MaxStreams
    BY <1>1, SMT
  <2> HIDE DEF s
  <2> QED BY <2>1, <2>2 DEF RunRecords, RunPcs
<1>4. SubAt(c, n) /\ subs' = [subs EXCEPT ![s] = @ \cup {c}]
      /\ UNCHANGED <<mapped, born, stopping, written>>
  BY DEF SubscribeJoin
<1>5. \/ /\ cancel[s] = Nil /\ ~stopping[s] /\ runs < MaxRuns /\ runs' = runs + 1
         /\ Step(runs + 1, m) /\ cancel' = [cancel EXCEPT ![s] = runs + 1]
      \/ (cancel[s] # Nil \/ stopping[s]) /\ UNCHANGED <<cancel, run, runs>>
  BY DEF SubscribeJoin, ShouldStart, StartRun, runVars
<1> HIDE DEF s, n, m
<1>6. sub' \in [Subscribers -> SubRecords] /\ sub'[c] = n
      /\ \A d \in Subscribers : d # c => sub'[d] = sub[d]
  BY <1>2, <1>4 DEF SubAt, IInv, Types
<1>7. /\ subs' \in [Streams -> SUBSET Subscribers] /\ subs'[s] = subs[s] \cup {c}
      /\ \A t \in Streams : t # s => subs'[t] = subs[t]
  BY <1>1, <1>4 DEF IInv, Types
<1>8. subs'[s] # {} /\ \A t \in Streams : subs[t] # {} => subs'[t] # {}
  BY <1>7
<1>9. CASE (cancel[s] # Nil \/ stopping[s]) /\ UNCHANGED <<cancel, run, runs>>
  <2>1. Types'
    BY <1>4, <1>6, <1>7, <1>9 DEF IInv, Types
  <2>2. RunInv' /\ FanInv'
    BY <1>4, <1>8, <1>9 DEF IInv, RunInv, FanInv, InLoop
  <2>3. SubInv'
    BY <1>1, <1>2, <1>4, <1>6, <1>7, <1>9, SMT DEF IInv, SubInv, Joined
  <2> QED BY <2>1, <2>2, <2>3 DEF IInv
<1>10. CASE /\ cancel[s] = Nil /\ ~stopping[s] /\ runs < MaxRuns /\ runs' = runs + 1
            /\ Step(runs + 1, m) /\ cancel' = [cancel EXCEPT ![s] = runs + 1]
  <2> DEFINE r == runs + 1
  <2>1. runs \in Nat /\ r \in Runs /\ r # Nil /\ runs' = r /\ r > runs /\ ~InLoop(r)
    BY <1>10, SMT DEF IInv, Types, RunInv, InLoop
  <2>2. run' \in [Runs -> RunRecords] /\ run'[r] = m /\ \A q \in Runs : q # r => run'[q] = run[q]
    BY <1>3, <1>10, <2>1 DEF IInv, Types, Step
  <2>3. cancel' \in [Streams -> 0..MaxRuns] /\ cancel'[s] = r
        /\ \A t \in Streams : t # s => cancel'[t] = cancel[t]
    BY <1>1, <1>10, <2>1, SMT DEF IInv, Types
  <2>4. \A t \in Streams : cancel[t] # Nil => cancel[t] \in 1..runs
    BY DEF IInv, RunInv
  <2>5. Types'
    BY <1>4, <1>6, <1>7, <2>1, <2>2, <2>3, SMT DEF IInv, Types
  <2> HIDE DEF r
  <2>6. ASSUME NEW q \in Runs
        PROVE  /\ q > runs' => run'[q].pc = "unborn"
               /\ InLoop(q)' => run'[q].stream \in Streams /\ cancel'[run'[q].stream] = q
    <3>1. CASE q = r
      BY <1>1, <1>3, <2>1, <2>2, <2>3, <3>1, SMT DEF Types
    <3>2. CASE q # r
      <4>1. q > r => q > runs
        BY <2>1, SMT
      <4>2. InLoop(q) => run[q].stream \in Streams /\ run[q].stream # s /\ cancel[run[q].stream] = q
        BY <1>10, <3>2, SMT DEF IInv, RunInv
      <4> QED BY <2>1, <2>2, <2>3, <3>2, <4>1, <4>2, SMT DEF IInv, RunInv, InLoop
    <3> QED BY <3>1, <3>2
  <2>7. ASSUME NEW t \in Streams, cancel'[t] # Nil
        PROVE  /\ cancel'[t] \in 1..runs'
               /\ run'[cancel'[t]].stream = t /\ InLoop(cancel[t])'
               /\ ~stopping[t] => /\ subs'[t] # {} /\ ~run'[cancel'[t]].canceled
                                  /\ run'[cancel'[t]].pc # "clean1"
    <3>1. CASE t = s
      <4>1. cancel'[t] = r /\ r \in 1..r /\ run'[cancel'[t]] = m
        BY <2>1, <2>2, <2>3, <3>1, SMT
      <4> QED BY <1>3, <1>8, <2>1, <3>1, <4>1 DEF InLoop
    <3>2. CASE t # s
      <4>1. PICK q \in Runs : q = cancel[t] /\ q = cancel'[t] /\ q \in 1..runs
        BY <2>1, <2>3, <2>4, <2>7, <3>2, SMT
      <4>2. q # r /\ q \in 1..runs'
        BY <2>1, <4>1, SMT
      <4>3. run[q].stream = t /\ InLoop(q)
            /\ (~stopping[t] => subs[t] # {} /\ ~run[q].canceled /\ run[q].pc # "clean1")
        <5>1. cancel[t] # Nil
          BY <2>3, <2>7, <3>2
        <5>2. run[cancel[t]].stream = t /\ InLoop(cancel[t])
              /\ (~stopping[t] => subs[t] # {} /\ ~run[cancel[t]].canceled /\ run[cancel[t]].pc # "clean1")
          BY <5>1 DEF IInv, RunInv
        <5> QED BY <4>1, <5>2
      <4>4. run'[cancel'[t]] = run[q]
        BY <2>2, <4>1, <4>2
      <4> QED BY <1>8, <4>1, <4>2, <4>3, <4>4 DEF InLoop
    <3> QED BY <3>1, <3>2
  <2>8. RunInv'
    BY <1>4, <2>6, <2>7 DEF RunInv
  <2>9. FanInv'
    BY <1>3, <2>2 DEF IInv, FanInv
  <2>10. SubInv'
    <3>1. ASSUME NEW d \in Subscribers, sub'[d].pc = "cancel"
          PROVE  /\ sub'[d].cancel \in 1..runs'
                 /\ \A t \in Streams : cancel'[t] = sub'[d].cancel => stopping'[t]
      <4>1. d # c /\ sub'[d] = sub[d]
        BY <1>2, <1>6, <3>1
      <4>2. sub[d].cancel \in 1..runs /\ \A t \in Streams : cancel[t] = sub[d].cancel => stopping[t]
        BY <3>1, <4>1 DEF IInv, SubInv
      <4>3. sub[d].cancel # r /\ sub[d].cancel \in 1..runs'
        BY <2>1, <4>2, SMT
      <4> QED BY <1>4, <2>3, <4>1, <4>2, <4>3
    <3>2. ASSUME NEW d \in Subscribers
          PROVE  /\ sub'[d].pc \in {"join", "reading", "remove"} => sub'[d].stream \in Streams
                 /\ Joined(d)' => d \in subs'[sub'[d].stream]
                 /\ Joined(d)' /\ ~sub'[d].late =>
                      ~stopping'[sub'[d].stream] /\ cancel'[sub'[d].stream] # Nil
      BY <1>1, <1>2, <1>4, <1>6, <1>7, <1>10, <2>1, <2>3, SMT DEF IInv, SubInv, Joined
    <3> QED BY <3>1, <3>2 DEF SubInv
  <2> QED BY <2>5, <2>8, <2>9, <2>10 DEF IInv
<1> QED BY <1>5, <1>9, <1>10

\* Leaving a stream keeps it: only the last subscriber takes the cancel function.
LEMMA ReleaseRemoveInv == ASSUME IInv, NEW c \in Subscribers, ReleaseRemove(c) PROVE IInv'
<1> DEFINE s == sub[c].stream
           l == IF cancel[s] = Nil THEN "gone" ELSE "cancel"
           m == [sub[c] EXCEPT !.pc = l, !.cancel = cancel[s]]
           n == [sub[c] EXCEPT !.pc = "gone"]
<1>1. sub[c] \in SubRecords /\ sub[c].pc = "remove" /\ s \in Streams
  BY DEF ReleaseRemove, IInv, Types, SubInv
<1>2. cancel[s] \in 0..MaxRuns
  BY <1>1 DEF IInv, Types
<1>3. m \in SubRecords /\ m.pc = l /\ m.cancel = cancel[s]
  BY <1>1, <1>2 DEF SubRecords, SubPcs
<1>4. n \in SubRecords /\ n.pc = "gone"
  BY <1>1 DEF SubRecords, SubPcs
<1>5. subs' = [subs EXCEPT ![s] = subs[s] \ {c}]
      /\ UNCHANGED <<mapped, born, cancel, run, runs, written>>
  BY DEF ReleaseRemove, runVars
<1>6. \/ subs[s] \ {c} = {} /\ stopping' = [stopping EXCEPT ![s] = TRUE] /\ SubAt(c, m)
      \/ subs[s] \ {c} # {} /\ UNCHANGED stopping /\ SubAt(c, n)
  BY DEF ReleaseRemove, NobodyElse
<1> HIDE DEF s, m, n
<1>7. /\ subs' \in [Streams -> SUBSET Subscribers] /\ subs'[s] = subs[s] \ {c}
      /\ \A t \in Streams : t # s => subs'[t] = subs[t]
  BY <1>1, <1>5 DEF IInv, Types
<1>8. FanInv'
  BY <1>5 DEF IInv, FanInv
<1>9. CASE subs[s] \ {c} = {} /\ stopping' = [stopping EXCEPT ![s] = TRUE] /\ SubAt(c, m)
  <2>1. sub' \in [Subscribers -> SubRecords] /\ sub'[c] = m
        /\ \A d \in Subscribers : d # c => sub'[d] = sub[d]
    BY <1>3, <1>9 DEF SubAt, IInv, Types
  <2>2. stopping' \in [Streams -> BOOLEAN] /\ stopping'[s] = TRUE
        /\ \A t \in Streams : t # s => stopping'[t] = stopping[t]
    BY <1>1, <1>9 DEF IInv, Types
  <2>3. Types'
    BY <1>5, <1>7, <2>1, <2>2 DEF IInv, Types
  <2>4. RunInv'
    BY <1>5, <1>7, <2>2, SMT DEF IInv, RunInv, InLoop
  <2>5. ASSUME NEW d \in Subscribers, d # c
        PROVE  /\ sub[d].pc \in {"join", "reading", "remove"} => sub[d].stream \in Streams
               /\ Joined(d) => d \in subs'[sub[d].stream]
               /\ Joined(d) /\ ~sub[d].late => ~stopping'[sub[d].stream] /\ cancel[sub[d].stream] # Nil
               /\ sub[d].pc = "cancel" => /\ sub[d].cancel \in 1..runs
                                          /\ \A t \in Streams : cancel[t] = sub[d].cancel => stopping'[t]
    <3>1. Joined(d) => sub[d].stream \in Streams /\ d \in subs[sub[d].stream] /\ sub[d].stream # s
      BY <1>9, <2>5 DEF IInv, SubInv, Joined
    <3> QED BY <1>7, <2>2, <3>1 DEF IInv, SubInv, Joined
  <2>6. m.pc = "cancel" => /\ m.cancel \in 1..runs
                           /\ \A t \in Streams : cancel[t] = m.cancel => stopping'[t]
    <3>1. cancel[s] # Nil => cancel[s] \in 1..runs /\ \A t \in Streams : cancel[t] = cancel[s] => t = s
      BY <1>1, SMT DEF IInv, RunInv
    <3> QED BY <1>3, <2>2, <3>1
  <2>7. SubInv'
    BY <1>3, <1>5, <2>1, <2>5, <2>6 DEF SubInv, Joined
  <2> QED BY <1>8, <2>3, <2>4, <2>7 DEF IInv
<1>10. CASE subs[s] \ {c} # {} /\ UNCHANGED stopping /\ SubAt(c, n)
  <2>1. sub' \in [Subscribers -> SubRecords] /\ sub'[c] = n
        /\ \A d \in Subscribers : d # c => sub'[d] = sub[d]
    BY <1>4, <1>10 DEF SubAt, IInv, Types
  <2>2. Types'
    BY <1>5, <1>7, <1>10, <2>1 DEF IInv, Types
  <2>3. RunInv'
    BY <1>5, <1>7, <1>10, SMT DEF IInv, RunInv, InLoop
  <2>4. SubInv'
    BY <1>4, <1>5, <1>7, <1>10, <2>1, SMT DEF IInv, SubInv, Joined
  <2> QED BY <1>8, <2>2, <2>3, <2>4 DEF IInv
<1> QED BY <1>6, <1>9, <1>10

\* cancel() outside the lock reaches only a goroutine whose stream is still being stopped.
LEMMA ReleaseCancelInv == ASSUME IInv, NEW c \in Subscribers, ReleaseCancel(c) PROVE IInv'
<1> DEFINE r == sub[c].cancel
           m == [run[r] EXCEPT !.canceled = TRUE]
           n == [sub[c] EXCEPT !.pc = "gone"]
<1>1. sub[c] \in SubRecords /\ sub[c].pc = "cancel" /\ r \in Runs
      /\ \A s \in Streams : cancel[s] = r => stopping[s]
  BY SMT DEF ReleaseCancel, IInv, Types, SubInv
<1>2. run[r] \in RunRecords
  BY <1>1 DEF IInv, Types
<1>3. m \in RunRecords /\ m.pc = run[r].pc /\ m.stream = run[r].stream /\ m.fan = run[r].fan
  BY <1>2 DEF RunRecords
<1>4. n \in SubRecords /\ n.pc = "gone"
  BY <1>1 DEF SubRecords, SubPcs
<1>5. Step(r, m) /\ SubAt(c, n) /\ UNCHANGED <<mapped, born, subs, cancel, stopping, runs, written>>
  BY DEF ReleaseCancel, streamVars
<1> HIDE DEF r, m, n
<1>6. run' \in [Runs -> RunRecords] /\ run'[r] = m /\ \A q \in Runs : q # r => run'[q] = run[q]
  BY <1>1, <1>3, <1>5 DEF IInv, Types, Step
<1>7. sub' \in [Subscribers -> SubRecords] /\ sub'[c] = n
      /\ \A d \in Subscribers : d # c => sub'[d] = sub[d]
  BY <1>4, <1>5 DEF SubAt, IInv, Types
<1>8. Types'
  BY <1>5, <1>6, <1>7 DEF IInv, Types
<1>9. \A q \in Runs : /\ run'[q].pc = run[q].pc /\ run'[q].stream = run[q].stream
                      /\ run'[q].fan = run[q].fan /\ (InLoop(q)' <=> InLoop(q))
                      /\ q # r => run'[q].canceled = run[q].canceled
  BY <1>3, <1>6 DEF InLoop
<1>10. RunInv'
  <2>1. ASSUME NEW s \in Streams, cancel[s] # Nil
        PROVE  /\ cancel[s] \in 1..runs
               /\ run'[cancel[s]].stream = s /\ InLoop(cancel[s])'
               /\ ~stopping[s] => /\ subs[s] # {} /\ ~run'[cancel[s]].canceled
                                  /\ run'[cancel[s]].pc # "clean1"
    <3>0. cancel[s] \in 1..runs /\ cancel[s] \in Runs
      BY <2>1, SMT DEF IInv, RunInv, Types
    <3>1. PICK q \in Runs : q = cancel[s] /\ q \in 1..runs /\ run[q].stream = s /\ InLoop(q)
            /\ (~stopping[s] => subs[s] # {} /\ ~run[q].canceled /\ run[q].pc # "clean1")
      BY <2>1, <3>0 DEF IInv, RunInv
    <3>2. ~stopping[s] => q # r
      BY <1>1, <3>1
    <3> QED BY <1>5, <1>9, <3>1, <3>2 DEF InLoop
  <2>2. \A q \in Runs : /\ q > runs => run'[q].pc = "unborn"
                        /\ InLoop(q)' => run'[q].stream \in Streams /\ cancel[run'[q].stream] = q
    BY <1>9, SMT DEF IInv, RunInv
  <2> QED BY <1>5, <2>1, <2>2 DEF RunInv, InLoop
<1>11. FanInv'
  BY <1>9 DEF IInv, FanInv
<1>12. SubInv'
  BY <1>4, <1>5, <1>7 DEF IInv, SubInv, Joined
<1> QED BY <1>8, <1>10, <1>11, <1>12 DEF IInv

\* Every step keeps it.
LEMMA NextInv == IInv /\ [Next]_vars => IInv'
<1> SUFFICES ASSUME IInv, [Next]_vars PROVE IInv'
  OBVIOUS
<1>1. ASSUME UNCHANGED <<mapped, born, subs, cancel, stopping, run, runs, sub>>, written' \in Nat
      PROVE  IInv'
  BY <1>1 DEF IInv, Types, RunInv, FanInv, SubInv, InLoop, Joined
<1>2. written \in Nat
  BY DEF IInv, Types
<1>3. ASSUME NEW c \in Subscribers, ReplayLine(c) \/ Receive(c) PROVE IInv'
  BY <1>1, <1>2, <1>3 DEF ReplayLine, Receive, streamVars, runVars
<1>4. CASE ContainerWrites
  BY <1>1, <1>2, <1>4, SMT DEF ContainerWrites, streamVars, runVars, subVars
<1>5. CASE UNCHANGED vars
  BY <1>1, <1>2, <1>5 DEF vars, streamVars, runVars, subVars
<1>6. ASSUME NEW r \in Runs, RunStream(r) PROVE IInv'
  BY <1>6, LoopTopInv, StartFollowInv, PublishInv, StreamEndsInv, RetryInv, CleanupStreamInv,
     CleanupMapInv, FanOutInv DEF RunStream
<1>7. ASSUME NEW c \in Subscribers, Release(c) PROVE IInv'
  BY <1>7, ReleaseLookupInv, ReleaseRemoveInv, ReleaseCancelInv DEF Release
<1> QED BY <1>3, <1>4, <1>5, <1>6, <1>7, SubscribeLookupInv, SubscribeJoinInv, HangUpInv DEF Next

\* The invariant holds throughout, for any number of subscribers, stream objects and goroutines.
THEOREM Invariance == Spec => []IInv
<1> QED BY InitInv, NextInv, PTL DEF Spec

\* A stream object is served by one goroutine at a time, the one stream.cancel stops, although
\* cleanupStream takes two critical sections and a late subscriber may restart the stream between
\* them.
THEOREM OneRunAlways == Spec => []OneRunPerStream
<1>1. IInv => OneRunPerStream
  BY SMT DEF IInv, RunInv, OneRunPerStream
<1> QED BY <1>1, Invariance, PTL

\* A subscriber that joined a stream nobody was tearing down has a goroutine that serves it and is
\* not cancelled under it, whoever else leaves.
THEOREM JoinedAlwaysServed == Spec => []JoinedIsServed
<1>1. ASSUME IInv PROVE JoinedIsServed
  <2> SUFFICES ASSUME NEW c \in Subscribers, Joined(c), ~sub[c].late
               PROVE  \E r \in Runs : InLoop(r) /\ run[r].stream = sub[c].stream /\ ~run[r].canceled
    BY DEF JoinedIsServed
  <2>1. sub[c].stream \in Streams /\ cancel[sub[c].stream] # Nil /\ ~stopping[sub[c].stream]
    BY <1>1 DEF IInv, SubInv, Joined
  <2>2. cancel[sub[c].stream] \in Runs
    BY <1>1, <2>1, SMT DEF IInv, RunInv, Types
  <2> QED BY <1>1, <2>1, <2>2, SMT DEF IInv, RunInv
<1> QED BY <1>1, Invariance, PTL

-----------------------------------------------------------------------------
(* No line is lost silently.                                               *)

\* The elements of a sequence with one more at its end.
LEMMA ElementsAppend ==
  ASSUME NEW q \in Seq(Nat), NEW x \in Nat
  PROVE  Append(q, x) \in Seq(Nat) /\ Elements(Append(q, x)) = Elements(q) \cup {x}
<1>1. Append(q, x) \in Seq(Nat) /\ Len(Append(q, x)) = Len(q) + 1 /\ Append(q, x)[Len(q) + 1] = x
      /\ \A i \in 1..Len(q) : Append(q, x)[i] = q[i]
  BY SMT
<1>2. DOMAIN Append(q, x) = 1..(Len(q) + 1) /\ DOMAIN q = 1..Len(q) /\ Len(q) \in Nat
  BY SMT
<1>3. 1..(Len(q) + 1) = 1..Len(q) \cup {Len(q) + 1}
  BY <1>2, SMT
<1> QED BY <1>1, <1>2, <1>3, SMT DEF Elements

\* The elements of a sequence are its head and those of its tail.
LEMMA ElementsHeadTail ==
  ASSUME NEW q \in Seq(Nat), q # <<>>
  PROVE  /\ Head(q) \in Nat /\ Tail(q) \in Seq(Nat)
         /\ \A x \in Elements(q) : x = Head(q) \/ x \in Elements(Tail(q))
<1>1. Head(q) \in Nat /\ Tail(q) \in Seq(Nat) /\ Len(q) \in Nat \ {0} /\ DOMAIN q = 1..Len(q)
      /\ DOMAIN Tail(q) = 1..(Len(q) - 1) /\ Head(q) = q[1]
      /\ \A i \in 1..(Len(q) - 1) : Tail(q)[i] = q[i + 1]
  BY SMT
<1>2. ASSUME NEW i \in 1..Len(q), i # 1 PROVE q[i] \in Elements(Tail(q))
  <2>1. i - 1 \in 1..(Len(q) - 1) /\ (i - 1) + 1 = i
    BY <1>1, <1>2, SMT
  <2>2. Tail(q)[i - 1] = q[i]
    BY <1>1, <2>1
  <2> QED BY <1>1, <2>1, <2>2 DEF Elements
<1> QED BY <1>1, <1>2 DEF Elements

\* The elements of two sequences, one after the other.
LEMMA ElementsConcat ==
  ASSUME NEW q \in Seq(Nat), NEW t \in Seq(Nat)
  PROVE  /\ q \o t \in Seq(Nat)
         /\ Elements(q) \subseteq Elements(q \o t) /\ Elements(t) \subseteq Elements(q \o t)
<1>1. q \o t \in Seq(Nat) /\ Len(q) \in Nat /\ Len(t) \in Nat /\ DOMAIN q = 1..Len(q)
      /\ DOMAIN t = 1..Len(t) /\ DOMAIN (q \o t) = 1..(Len(q) + Len(t))
  BY SMT
<1>2. ASSUME NEW i \in 1..Len(q) PROVE q[i] \in Elements(q \o t)
  <2>1. i \in 1..(Len(q) + Len(t)) /\ (q \o t)[i] = q[i]
    BY <1>1, SMT
  <2> QED BY <1>1, <2>1 DEF Elements
<1>3. ASSUME NEW i \in 1..Len(t) PROVE t[i] \in Elements(q \o t)
  <2>1. Len(q) + i \in 1..(Len(q) + Len(t)) /\ (q \o t)[Len(q) + i] = t[i]
    BY <1>1, SMT
  <2> QED BY <1>1, <2>1 DEF Elements
<1> QED BY <1>1, <1>2, <1>3 DEF Elements

\* Cutting a history to its last lines adds no line.
LEMMA LastLinesKeep ==
  ASSUME NEW q \in Seq(Nat)
  PROVE  LastLines(q) \in Seq(Nat) /\ Elements(LastLines(q)) \subseteq Elements(q)
<1>1. Len(q) \in Nat /\ LogTailLineCount \in Nat /\ DOMAIN q = 1..Len(q)
  BY SMT
<1>2. CASE Len(q) > LogTailLineCount
  <2> DEFINE a == Len(q) - LogTailLineCount + 1
             t == SubSeq(q, a, Len(q))
  <2>1. LastLines(q) = t /\ a \in 1..Len(q) /\ a \in Nat
    BY <1>1, <1>2, SMT DEF LastLines
  <2> HIDE DEF a
  <2>2. t \in Seq(Nat) /\ DOMAIN t = 1..(Len(q) - a + 1)
        /\ \A i \in 1..(Len(q) - a + 1) : t[i] = q[a + i - 1] /\ a + i - 1 \in 1..Len(q)
    BY <1>1, <2>1, SMT
  <2> HIDE DEF t
  <2> QED BY <1>1, <2>1, <2>2 DEF Elements
<1>3. CASE ~(Len(q) > LogTailLineCount)
  BY <1>3 DEF LastLines
<1> QED BY <1>2, <1>3

\* The variables that hold lines.
DataTypes ==
  /\ history \in [Streams -> Seq(Nat)]
  /\ chan \in [Subscribers -> Seq(Nat)]
  /\ replay \in [Subscribers -> Seq(Nat)]
  /\ seen \in [Subscribers -> Seq(Nat)]
  /\ dropped \in [Subscribers -> SUBSET Nat]

\* Line x reached subscriber c, is on its way to it, or met its full channel.
Has(c, x) ==
  \/ x \in Elements(seen[c])
  \/ x \in Elements(chan[c])
  \/ x \in Elements(replay[c])
  \/ x \in dropped[c]
  \/ \E r \in Runs : c \in run[r].fan /\ run[r].line = x

\* A subscriber that joined has every line of its stream's history, or is owed it.
Owed ==
  \A c \in Subscribers : Joined(c) => \A x \in Elements(history[sub[c].stream]) : Has(c, x)

\* The invariant of the lines; it holds beside IInv.
DataInv == DataTypes /\ Owed

\* A step that adds no history and takes nothing from a subscriber.
LEMMA OwedKept ==
  ASSUME Owed, UNCHANGED history,
         \A c \in Subscribers : Joined(c)' => Joined(c) /\ sub'[c].stream = sub[c].stream,
         \A c \in Subscribers : \A x : Has(c, x) => Has(c, x)'
  PROVE  Owed'
BY DEF Owed

\* A goroutine that hands out the same line to the same subscribers.
LEMMA QuietRun ==
  ASSUME IInv, DataInv, NEW r \in Runs, NEW n, Step(r, n), n.fan = run[r].fan, n.line = run[r].line,
         UNCHANGED <<history, chan, replay, seen, dropped>>,
         \A c \in Subscribers : Joined(c)' => Joined(c) /\ sub'[c].stream = sub[c].stream
  PROVE  DataInv'
<1>1. \A q \in Runs : run'[q].fan = run[q].fan /\ run'[q].line = run[q].line
  BY DEF Step, IInv, Types
<1>2. \A c \in Subscribers : \A x : Has(c, x) => Has(c, x)'
  BY <1>1 DEF Has
<1>3. Owed'
  BY <1>2, OwedKept DEF DataInv
<1> QED BY <1>3 DEF DataInv, DataTypes

\* A step that touches neither lines nor channels keeps what is owed.
LEMMA QuietStep ==
  ASSUME DataInv, UNCHANGED <<history, chan, replay, seen, dropped, run>>,
         \A c \in Subscribers : Joined(c)' => Joined(c) /\ sub'[c].stream = sub[c].stream
  PROVE  DataInv'
<1>1. \A c \in Subscribers : \A x : Has(c, x) => Has(c, x)'
  BY DEF Has
<1>2. Owed'
  BY <1>1, OwedKept DEF DataInv
<1> QED BY <1>2 DEF DataInv, DataTypes

\* A line sent to a channel is in it, or counted as dropped because the channel is full.
LEMMA SendData ==
  ASSUME DataTypes, NEW d \in Subscribers, NEW x \in Nat, TrySendLogLine(d, x)
  PROVE  /\ chan' \in [Subscribers -> Seq(Nat)] /\ dropped' \in [Subscribers -> SUBSET Nat]
         /\ \A c \in Subscribers : \A y : y \in Elements(chan[c]) => y \in Elements(chan'[c])
         /\ \A c \in Subscribers : \A y : y \in dropped[c] => y \in dropped'[c]
         /\ x \in Elements(chan'[d]) \/ x \in dropped'[d]
<1>1. CASE chan' = [chan EXCEPT ![d] = Append(chan[d], x)] /\ UNCHANGED dropped
  <2>1. chan[d] \in Seq(Nat) /\ Append(chan[d], x) \in Seq(Nat)
        /\ Elements(Append(chan[d], x)) = Elements(chan[d]) \cup {x}
    BY ElementsAppend DEF DataTypes
  <2> DEFINE a == Append(chan[d], x)
  <2> HIDE DEF a
  <2>2. chan' \in [Subscribers -> Seq(Nat)] /\ chan'[d] = a
        /\ \A c \in Subscribers : c # d => chan'[c] = chan[c]
    BY <1>1, <2>1 DEF DataTypes, a
  <2>3. Elements(a) = Elements(chan[d]) \cup {x}
    BY <2>1 DEF a
  <2> QED BY <1>1, <2>2, <2>3 DEF DataTypes
<1>2. CASE dropped' = [dropped EXCEPT ![d] = dropped[d] \cup {x}] /\ UNCHANGED chan
  BY <1>2 DEF DataTypes
<1> QED BY <1>1, <1>2 DEF TrySendLogLine

\* Replaying a line of the copied history keeps what is owed.
LEMMA ReplayLineData ==
  ASSUME IInv, DataInv, NEW d \in Subscribers, ReplayLine(d) PROVE DataInv'
<1> DEFINE x == Head(replay[d])
<1>1. replay[d] \in Seq(Nat) /\ replay[d] # <<>> /\ TrySendLogLine(d, x)
      /\ replay' = [replay EXCEPT ![d] = Tail(replay[d])] /\ UNCHANGED <<history, run, sub, seen>>
  BY DEF ReplayLine, DataInv, DataTypes, streamVars, runVars
<1>2. x \in Nat /\ Tail(replay[d]) \in Seq(Nat)
      /\ \A y \in Elements(replay[d]) : y = x \/ y \in Elements(Tail(replay[d]))
  BY <1>1, ElementsHeadTail
<1> HIDE DEF x
<1>3. /\ chan' \in [Subscribers -> Seq(Nat)] /\ dropped' \in [Subscribers -> SUBSET Nat]
      /\ \A c \in Subscribers : \A y : y \in Elements(chan[c]) => y \in Elements(chan'[c])
      /\ \A c \in Subscribers : \A y : y \in dropped[c] => y \in dropped'[c]
      /\ x \in Elements(chan'[d]) \/ x \in dropped'[d]
  BY <1>1, <1>2, SendData DEF DataInv
<1>4. replay' \in [Subscribers -> Seq(Nat)] /\ replay'[d] = Tail(replay[d])
      /\ \A c \in Subscribers : c # d => replay'[c] = replay[c]
  BY <1>1, <1>2 DEF DataInv, DataTypes
<1>5. ASSUME NEW c \in Subscribers, NEW y, Has(c, y) PROVE Has(c, y)'
  <2>1. CASE y \in Elements(replay[c]) /\ c = d
    <3>1. y = x \/ y \in Elements(replay'[d])
      BY <1>2, <1>4, <2>1
    <3> QED BY <1>3, <2>1, <3>1 DEF Has
  <2>2. CASE y \in Elements(replay[c]) /\ c # d
    BY <1>4, <2>2 DEF Has
  <2>3. CASE y \notin Elements(replay[c])
    BY <1>1, <1>3, <1>5, <2>3 DEF Has
  <2> QED BY <2>1, <2>2, <2>3
<1>6. Owed'
  BY <1>1, <1>5, OwedKept DEF DataInv, Joined
<1> QED BY <1>1, <1>3, <1>4, <1>6 DEF DataInv, DataTypes

\* Writing a line to the WebSocket keeps what is owed.
LEMMA ReceiveData ==
  ASSUME IInv, DataInv, NEW d \in Subscribers, Receive(d) PROVE DataInv'
<1> DEFINE x == Head(chan[d])
<1>1. chan[d] \in Seq(Nat) /\ chan[d] # <<>> /\ seen[d] \in Seq(Nat)
      /\ seen' = [seen EXCEPT ![d] = Append(seen[d], x)]
      /\ chan' = [chan EXCEPT ![d] = Tail(chan[d])] /\ UNCHANGED <<history, run, sub, replay, dropped>>
  BY DEF Receive, DataInv, DataTypes, streamVars, runVars
<1>2. x \in Nat /\ Tail(chan[d]) \in Seq(Nat)
      /\ \A y \in Elements(chan[d]) : y = x \/ y \in Elements(Tail(chan[d]))
  BY <1>1, ElementsHeadTail
<1> HIDE DEF x
<1>3. Append(seen[d], x) \in Seq(Nat) /\ Elements(Append(seen[d], x)) = Elements(seen[d]) \cup {x}
  BY <1>1, <1>2, ElementsAppend
<1>4. chan' \in [Subscribers -> Seq(Nat)] /\ chan'[d] = Tail(chan[d])
      /\ \A c \in Subscribers : c # d => chan'[c] = chan[c]
  BY <1>1, <1>2 DEF DataInv, DataTypes
<1> DEFINE a == Append(seen[d], x)
<1> HIDE DEF a
<1>5. seen' \in [Subscribers -> Seq(Nat)] /\ seen'[d] = a
      /\ \A c \in Subscribers : c # d => seen'[c] = seen[c]
  BY <1>1, <1>3 DEF DataInv, DataTypes, a
<1>6. Elements(seen'[d]) = Elements(seen[d]) \cup {x}
  BY <1>3, <1>5 DEF a
<1>7. ASSUME NEW c \in Subscribers, NEW y, Has(c, y) PROVE Has(c, y)'
  <2>1. CASE c = d
    <3>1. y \in Elements(chan[d]) => y = x \/ y \in Elements(chan'[d])
      BY <1>2, <1>4
    <3>2. y = x \/ y \in Elements(seen[d]) => y \in Elements(seen'[d])
      BY <1>6
    <3> QED BY <1>1, <1>7, <2>1, <3>1, <3>2 DEF Has
  <2>2. CASE c # d
    BY <1>1, <1>4, <1>5, <1>7, <2>2 DEF Has
  <2> QED BY <2>1, <2>2
<1>8. Owed'
  BY <1>1, <1>7, OwedKept DEF DataInv, Joined
<1> QED BY <1>1, <1>4, <1>5, <1>8 DEF DataInv, DataTypes

\* Delivering a published line to one subscriber keeps what is owed.
LEMMA FanOutData ==
  ASSUME IInv, DataInv, NEW r \in Runs, NEW d \in Subscribers, FanOut(r, d) PROVE DataInv'
<1> DEFINE n == [run[r] EXCEPT !.fan = run[r].fan \ {d}]
           x == run[r].line
<1>1. run[r] \in RunRecords /\ Step(r, n) /\ TrySendLogLine(d, x) /\ UNCHANGED <<history, sub, replay, seen>>
  BY DEF FanOut, IInv, Types, streamVars
<1>2. x \in Nat /\ n.fan = run[r].fan \ {d} /\ n.line = x
  BY <1>1 DEF RunRecords
<1> HIDE DEF n, x
<1>3. run'[r] = n /\ \A q \in Runs : q # r => run'[q] = run[q]
  BY <1>1 DEF Step, IInv, Types
<1>4. /\ chan' \in [Subscribers -> Seq(Nat)] /\ dropped' \in [Subscribers -> SUBSET Nat]
      /\ \A c \in Subscribers : \A y : y \in Elements(chan[c]) => y \in Elements(chan'[c])
      /\ \A c \in Subscribers : \A y : y \in dropped[c] => y \in dropped'[c]
      /\ x \in Elements(chan'[d]) \/ x \in dropped'[d]
  BY <1>1, <1>2, SendData DEF DataInv
<1>5. ASSUME NEW c \in Subscribers, NEW y, Has(c, y) PROVE Has(c, y)'
  <2>1. CASE \E q \in Runs : c \in run[q].fan /\ run[q].line = y
    <3>1. PICK q \in Runs : c \in run[q].fan /\ run[q].line = y
      BY <2>1
    <3>2. CASE q = r /\ c = d
      BY <1>4, <3>1, <3>2 DEF Has, x
    <3>3. CASE q # r
      BY <1>3, <3>1, <3>3 DEF Has
    <3>4. CASE q = r /\ c # d
      BY <1>2, <1>3, <3>1, <3>4 DEF Has, x
    <3> QED BY <3>2, <3>3, <3>4
  <2>2. CASE ~ \E q \in Runs : c \in run[q].fan /\ run[q].line = y
    BY <1>1, <1>4, <1>5, <2>2 DEF Has
  <2> QED BY <2>1, <2>2
<1>6. Owed'
  BY <1>1, <1>5, OwedKept DEF DataInv, Joined
<1> QED BY <1>1, <1>4, <1>6 DEF DataInv, DataTypes

\* Appending to the history and taking the subscribers happen under one lock.
LEMMA PublishData == ASSUME IInv, DataInv, NEW r \in Runs, Publish(r) PROVE DataInv'
<1> DEFINE s == run[r].stream
           x == run[r].next
           n == [run[r] EXCEPT !.next = x + 1, !.line = x, !.fan = subs[s]]
           h == LastLines(Append(history[s], x))
<1>1. run[r] \in RunRecords /\ run[r].fan = {} /\ Step(r, n) /\ InLoop(r)
      /\ history' = [history EXCEPT ![s] = h]
      /\ UNCHANGED <<sub, chan, replay, seen, dropped>>
  BY DEF Publish, Ready, IInv, Types, subVars, InLoop
<1>2. x \in Nat /\ n.line = x /\ n.fan = subs[s]
  BY <1>1 DEF RunRecords
<1>3. s \in Streams /\ history[s] \in Seq(Nat)
  BY <1>1 DEF IInv, RunInv, DataInv, DataTypes
<1> HIDE DEF n, s, x
<1>4. h \in Seq(Nat) /\ \A y \in Elements(h) : y = x \/ y \in Elements(history[s])
  <2>1. Append(history[s], x) \in Seq(Nat) /\ Elements(Append(history[s], x)) = Elements(history[s]) \cup {x}
    BY <1>2, <1>3, ElementsAppend
  <2>2. h \in Seq(Nat) /\ Elements(h) \subseteq Elements(Append(history[s], x))
    BY <2>1, LastLinesKeep
  <2> QED BY <2>1, <2>2
<1> HIDE DEF h
<1>5. run'[r] = n /\ \A q \in Runs : q # r => run'[q] = run[q]
  BY <1>1 DEF Step, IInv, Types
<1>6. history' \in [Streams -> Seq(Nat)] /\ history'[s] = h
      /\ \A t \in Streams : t # s => history'[t] = history[t]
  BY <1>1, <1>3, <1>4 DEF DataInv, DataTypes
<1>7. ASSUME NEW c \in Subscribers, NEW y, Has(c, y) PROVE Has(c, y)'
  <2>1. CASE \E q \in Runs : c \in run[q].fan /\ run[q].line = y
    <3>1. PICK q \in Runs : c \in run[q].fan /\ run[q].line = y
      BY <2>1
    <3>2. q # r
      BY <1>1, <3>1
    <3> QED BY <1>5, <3>1, <3>2 DEF Has
  <2>2. CASE ~ \E q \in Runs : c \in run[q].fan /\ run[q].line = y
    BY <1>1, <1>7, <2>2 DEF Has
  <2> QED BY <2>1, <2>2
<1>8. ASSUME NEW c \in Subscribers, Joined(c), NEW y \in Elements(history'[sub[c].stream])
      PROVE  Has(c, y)'
  <2>1. sub[c].stream \in Streams /\ c \in subs[sub[c].stream]
    BY <1>8 DEF IInv, SubInv, Joined
  <2>2. CASE y \in Elements(history[sub[c].stream])
    BY <1>7, <1>8, <2>2 DEF DataInv, Owed
  <2>3. CASE sub[c].stream = s /\ y = x
    <3>1. c \in run'[r].fan /\ run'[r].line = y
      BY <1>2, <1>5, <2>1, <2>3
    <3> QED BY <3>1 DEF Has
  <2> QED BY <1>4, <1>6, <1>8, <2>1, <2>2, <2>3
<1>9. Owed'
  BY <1>1, <1>8 DEF Owed, Joined
<1> QED BY <1>1, <1>6, <1>9 DEF DataInv, DataTypes

\* So do joining and copying the history.
LEMMA SubscribeJoinData ==
  ASSUME IInv, DataInv, NEW c \in Subscribers, SubscribeJoin(c) PROVE DataInv'
<1> DEFINE s == sub[c].stream
           n == [sub[c] EXCEPT !.pc = "reading", !.late = stopping[s]]
<1>1. sub[c] \in SubRecords /\ sub[c].pc = "join" /\ s \in Streams
  BY DEF SubscribeJoin, IInv, Types, SubInv
<1>2. n.stream = s
  BY <1>1 DEF SubRecords
<1>3. SubAt(c, n) /\ replay' = [replay EXCEPT ![c] = history[s]]
      /\ UNCHANGED <<history, chan, seen, dropped>>
  BY DEF SubscribeJoin, CopyHistory
<1> HIDE DEF n, s
<1>4. sub'[c] = n /\ \A d \in Subscribers : d # c => sub'[d] = sub[d]
  BY <1>3 DEF SubAt, IInv, Types
<1>5. replay' \in [Subscribers -> Seq(Nat)] /\ replay'[c] = history[s]
      /\ \A d \in Subscribers : d # c => replay'[d] = replay[d]
  BY <1>1, <1>3 DEF DataInv, DataTypes
<1>6. \A q \in Runs : run[q].fan # {} => run'[q] = run[q]
  <2>1. CASE UNCHANGED run
    BY <2>1
  <2>2. CASE StartRun(s)
    <3>1. runs + 1 \in Runs /\ run[runs + 1].pc = "unborn" /\ \A q \in Runs : q # runs + 1 => run'[q] = run[q]
      BY <2>2, SMT DEF StartRun, Step, IInv, Types, RunInv
    <3>2. run[runs + 1].fan = {}
      BY <3>1 DEF IInv, FanInv
    <3> QED BY <3>1, <3>2
  <2> QED BY <2>1, <2>2 DEF SubscribeJoin, runVars, s
<1>7. ASSUME NEW d \in Subscribers, d # c, NEW y, Has(d, y) PROVE Has(d, y)'
  <2>1. CASE \E q \in Runs : d \in run[q].fan /\ run[q].line = y
    BY <1>6, <2>1 DEF Has
  <2>2. CASE ~ \E q \in Runs : d \in run[q].fan /\ run[q].line = y
    BY <1>3, <1>5, <1>7, <2>2 DEF Has
  <2> QED BY <2>1, <2>2
<1>8. ASSUME NEW y \in Elements(history[sub'[c].stream]) PROVE Has(c, y)'
  BY <1>2, <1>4, <1>5, <1>8 DEF Has
<1>9. Owed'
  BY <1>3, <1>4, <1>7, <1>8 DEF DataInv, Owed, Joined
<1> QED BY <1>3, <1>5, <1>9 DEF DataInv, DataTypes

\* The other steps of a goroutine.
LEMMA RunData ==
  ASSUME IInv, DataInv, NEW r \in Runs,
         \/ LoopTop(r) \/ StartFollow(r) \/ StreamEnds(r) \/ Retry(r) \/ CleanupStream(r) \/ CleanupMap(r)
  PROVE  DataInv'
<1>1. run[r] \in RunRecords /\ UNCHANGED <<history, sub, chan, replay, seen, dropped>>
  BY DEF IInv, Types, LoopTop, StartFollow, StreamEnds, Retry, CleanupStream, CleanupMap, streamVars, subVars
<1>2. ASSUME NEW n, Step(r, n), n.fan = run[r].fan, n.line = run[r].line PROVE DataInv'
  BY <1>1, <1>2, QuietRun DEF Joined
<1>3. ASSUME NEW l, Step(r, [run[r] EXCEPT !.pc = l]) PROVE DataInv'
  BY <1>1, <1>2, <1>3 DEF RunRecords
<1>4. ASSUME NEW l, NEW a, Step(r, [run[r] EXCEPT !.pc = l, !.next = a]) PROVE DataInv'
  BY <1>1, <1>2, <1>4 DEF RunRecords
<1>5. ASSUME NEW a, NEW b,
             Step(r, [run[r] EXCEPT !.pc = "tail", !.sentHistory = TRUE, !.next = a, !.upto = b])
      PROVE  DataInv'
  BY <1>1, <1>2, <1>5 DEF RunRecords
<1>6. CASE LoopTop(r)
  BY <1>3, <1>4, <1>5, <1>6 DEF LoopTop
<1>7. CASE StartFollow(r)
  BY <1>4, <1>7 DEF StartFollow
<1>8. CASE StreamEnds(r)
  BY <1>3, <1>8 DEF StreamEnds
<1>9. CASE Retry(r)
  BY <1>3, <1>9 DEF Retry
<1>10. CASE CleanupStream(r) \/ CleanupMap(r)
  BY <1>3, <1>10 DEF CleanupStream, CleanupMap
<1> QED BY <1>6, <1>7, <1>8, <1>9, <1>10

\* The other steps of a handler.
LEMMA HandlerData ==
  ASSUME IInv, DataInv, NEW c \in Subscribers,
         SubscribeLookup(c) \/ HangUp(c) \/ ReleaseLookup(c) \/ ReleaseRemove(c)
  PROVE  DataInv'
<1>1. UNCHANGED <<history, chan, replay, seen, dropped, run>>
  BY DEF SubscribeLookup, HangUp, ReleaseLookup, ReleaseRemove, streamVars, runVars
<1>2. sub[c] \in SubRecords
  BY DEF IInv, Types
<1>3. ASSUME NEW n, SubAt(c, n), n.pc # "reading" PROVE DataInv'
  <2>1. \A d \in Subscribers : Joined(d)' => Joined(d) /\ sub'[d].stream = sub[d].stream
    BY <1>3 DEF SubAt, IInv, Types, Joined
  <2> QED BY <1>1, <2>1, QuietStep
<1>4. ASSUME NEW l, l # "reading", NEW s, SubAt(c, [sub[c] EXCEPT !.pc = l, !.stream = s]) PROVE DataInv'
  BY <1>2, <1>3, <1>4 DEF SubRecords
<1>5. ASSUME NEW l, l # "reading", NEW r, SubAt(c, [sub[c] EXCEPT !.pc = l, !.cancel = r]) PROVE DataInv'
  BY <1>2, <1>3, <1>5 DEF SubRecords
<1>6. ASSUME NEW l, l # "reading", SubAt(c, [sub[c] EXCEPT !.pc = l]) PROVE DataInv'
  BY <1>2, <1>3, <1>6 DEF SubRecords
<1>7. CASE SubscribeLookup(c)
  BY <1>4, <1>7 DEF SubscribeLookup
<1>8. CASE HangUp(c)
  BY <1>6, <1>8 DEF HangUp
<1>9. CASE ReleaseLookup(c)
  BY <1>4, <1>9 DEF ReleaseLookup
<1>10. CASE ReleaseRemove(c)
  BY <1>5, <1>6, <1>10 DEF ReleaseRemove
<1> QED BY <1>7, <1>8, <1>9, <1>10

\* Cancelling the goroutine of a stream keeps what is owed.
LEMMA ReleaseCancelData ==
  ASSUME IInv, DataInv, NEW c \in Subscribers, ReleaseCancel(c) PROVE DataInv'
<1> DEFINE r == sub[c].cancel
           m == [run[r] EXCEPT !.canceled = TRUE]
           n == [sub[c] EXCEPT !.pc = "gone"]
<1>1. sub[c] \in SubRecords /\ r \in Runs
  BY SMT DEF ReleaseCancel, IInv, Types, SubInv
<1>2. run[r] \in RunRecords /\ m.fan = run[r].fan /\ m.line = run[r].line
  BY <1>1 DEF IInv, Types, RunRecords
<1>3. Step(r, m) /\ SubAt(c, n) /\ n.pc = "gone" /\ UNCHANGED <<history, chan, replay, seen, dropped>>
  BY <1>1 DEF ReleaseCancel, streamVars, SubRecords
<1> HIDE DEF r, m, n
<1>4. \A d \in Subscribers : Joined(d)' => Joined(d) /\ sub'[d].stream = sub[d].stream
  BY <1>3 DEF SubAt, IInv, Types, Joined
<1> QED BY <1>1, <1>2, <1>3, <1>4, QuietRun

\* In the beginning nothing is owed.
LEMMA InitData == Init => DataInv
<1> SUFFICES ASSUME Init PROVE DataInv
  OBVIOUS
<1>1. \A c \in Subscribers : ~Joined(c)
  BY DEF Init, NewSub, Joined
<1>2. <<>> \in Seq(Nat)
  BY SMT
<1> QED BY <1>1, <1>2 DEF Init, DataInv, DataTypes, Owed

\* Every step keeps what is owed.
LEMMA NextData == IInv /\ DataInv /\ [Next]_vars => DataInv'
<1> SUFFICES ASSUME IInv, DataInv, [Next]_vars PROVE DataInv'
  OBVIOUS
<1>1. ASSUME UNCHANGED <<history, chan, replay, seen, dropped, run, sub>> PROVE DataInv'
  BY <1>1, QuietStep DEF Joined
<1>2. CASE ContainerWrites
  BY <1>1, <1>2 DEF ContainerWrites, streamVars, runVars, subVars
<1>3. CASE UNCHANGED vars
  BY <1>1, <1>3 DEF vars, streamVars, runVars, subVars
<1>4. ASSUME NEW r \in Runs, RunStream(r) PROVE DataInv'
  BY <1>4, RunData, PublishData, FanOutData DEF RunStream
<1>5. ASSUME NEW c \in Subscribers, Release(c) PROVE DataInv'
  BY <1>5, HandlerData, ReleaseCancelData DEF Release
<1> QED BY <1>2, <1>3, <1>4, <1>5, HandlerData, SubscribeJoinData, ReplayLineData, ReceiveData DEF Next

\* Joining is atomic with publishing: a subscriber has every line of its stream's history, is about
\* to get it, or lost it to its own full channel.
THEOREM NoLossAlways == Spec => []NoSilentLoss
<1>1. ASSUME DataInv PROVE NoSilentLoss
  <2> SUFFICES ASSUME NEW c \in Subscribers, Joined(c), NEW x \in Elements(history[sub[c].stream])
               PROVE  x \in Elements(Delivered(c)) \cup InFlight(c) \cup dropped[c]
    BY DEF NoSilentLoss
  <2>1. seen[c] \in Seq(Nat) /\ chan[c] \in Seq(Nat) /\ replay[c] \in Seq(Nat)
    BY <1>1 DEF DataInv, DataTypes
  <2>2. seen[c] \o chan[c] \in Seq(Nat) /\ Elements(seen[c]) \subseteq Elements(seen[c] \o chan[c])
        /\ Elements(chan[c]) \subseteq Elements(seen[c] \o chan[c])
    BY <2>1, ElementsConcat
  <2>3. Elements(seen[c] \o chan[c]) \subseteq Elements(Delivered(c))
        /\ Elements(replay[c]) \subseteq Elements(Delivered(c))
    BY <2>1, <2>2, ElementsConcat DEF Delivered
  <2>4. Has(c, x)
    BY <1>1 DEF DataInv, Owed
  <2>5. (\E r \in Runs : c \in run[r].fan /\ run[r].line = x) => x \in InFlight(c)
    BY DEF InFlight
  <2> QED BY <2>2, <2>3, <2>4, <2>5 DEF Has
<1> QED BY <1>1, InitInv, InitData, NextInv, NextData, PTL DEF Spec

-----------------------------------------------------------------------------
(* No line is delivered twice.                                             *)

\* No line is in a sequence twice.
Distinct(q) == \A i, j \in DOMAIN q : i # j => q[i] # q[j]

\* The elements of a sequence of line numbers are line numbers.
LEMMA ElementsNat == ASSUME NEW q \in Seq(Nat) PROVE Elements(q) \subseteq Nat
<1>1. DOMAIN q = 1..Len(q) /\ \A i \in 1..Len(q) : q[i] \in Nat
  BY SMT
<1> QED BY <1>1 DEF Elements

\* A new line at the end of a sequence without repetition.
LEMMA DistinctAppend ==
  ASSUME NEW q \in Seq(Nat), NEW x \in Nat, Distinct(q), x \notin Elements(q)
  PROVE  Distinct(Append(q, x))
<1>1. Append(q, x)[Len(q) + 1] = x /\ \A i \in 1..Len(q) : Append(q, x)[i] = q[i]
  BY SMT
<1>2. DOMAIN Append(q, x) = 1..(Len(q) + 1) /\ DOMAIN q = 1..Len(q) /\ Len(q) \in Nat
  BY SMT
<1>3. \A i \in 1..(Len(q) + 1) : i = Len(q) + 1 \/ i \in 1..Len(q)
  BY <1>2, SMT
<1>4. \A i \in 1..Len(q) : q[i] # x
  BY <1>2 DEF Elements
<1> QED BY <1>1, <1>2, <1>3, <1>4 DEF Distinct

\* The head and the tail of a sequence hold nothing else, and have no line in common when no
\* line is repeated.
LEMMA DistinctTail ==
  ASSUME NEW q \in Seq(Nat), q # <<>>
  PROVE  /\ Head(q) \in Elements(q) /\ Elements(Tail(q)) \subseteq Elements(q)
         /\ Distinct(q) => Distinct(Tail(q)) /\ Head(q) \notin Elements(Tail(q))
<1> DEFINE h == Head(q)
           t == Tail(q)
           n == Len(q)
<1>1. n \in Nat \ {0} /\ DOMAIN q = 1..n /\ DOMAIN t = 1..(n - 1) /\ h = q[1]
      /\ \A i \in 1..(n - 1) : t[i] = q[i + 1]
  BY SMT
<1> HIDE DEF h, t, n
<1>2. 1 \in 1..n /\ \A i \in 1..(n - 1) : i + 1 \in 1..n /\ i + 1 # 1
  BY <1>1, SMT
<1>3. \A i, j \in 1..(n - 1) : i # j => i + 1 # j + 1
  BY SMT
<1>4. h \in Elements(q) /\ Elements(t) \subseteq Elements(q)
  BY <1>1, <1>2 DEF Elements
<1>5. ASSUME Distinct(q) PROVE Distinct(t)
  <2>1. \A i, j \in 1..(n - 1) : i # j => q[i + 1] # q[j + 1]
    BY <1>1, <1>2, <1>3, <1>5 DEF Distinct
  <2> QED BY <1>1, <2>1 DEF Distinct
<1>6. ASSUME Distinct(q) PROVE h \notin Elements(t)
  <2>1. \A i \in 1..(n - 1) : q[1] # q[i + 1]
    BY <1>1, <1>2, <1>6 DEF Distinct
  <2>2. \A i \in DOMAIN t : t[i] # h
    BY <1>1, <2>1
  <2> QED BY <2>2 DEF Elements
<1> QED BY <1>4, <1>5, <1>6 DEF h, t

\* Two sequences without repetition and without a common line, one after the other.
LEMMA DistinctConcat ==
  ASSUME NEW q \in Seq(Nat), NEW t \in Seq(Nat)
  PROVE  /\ Elements(q \o t) \subseteq Elements(q) \cup Elements(t)
         /\ Distinct(q) /\ Distinct(t) /\ Elements(q) \cap Elements(t) = {} => Distinct(q \o t)
<1>1. Len(q) \in Nat /\ Len(t) \in Nat /\ DOMAIN q = 1..Len(q)
      /\ DOMAIN t = 1..Len(t) /\ DOMAIN (q \o t) = 1..(Len(q) + Len(t))
  BY SMT
<1>2. ASSUME NEW i \in 1..(Len(q) + Len(t))
      PROVE  \/ i \in 1..Len(q) /\ (q \o t)[i] = q[i]
             \/ i - Len(q) \in 1..Len(t) /\ (q \o t)[i] = t[i - Len(q)]
  BY <1>1, SMT
<1>3. \A i, j \in 1..(Len(q) + Len(t)) : i # j => i - Len(q) # j - Len(q)
  BY <1>1, SMT
<1>4. Elements(q \o t) \subseteq Elements(q) \cup Elements(t)
  BY <1>1, <1>2 DEF Elements
<1>5. ASSUME Distinct(q), Distinct(t), Elements(q) \cap Elements(t) = {},
             NEW i \in 1..(Len(q) + Len(t)), NEW j \in 1..(Len(q) + Len(t)), i # j
      PROVE  (q \o t)[i] # (q \o t)[j]
  <2>1. \A k \in 1..Len(q) : \A l \in 1..Len(t) : q[k] # t[l]
    BY <1>1, <1>5 DEF Elements
  <2>2. CASE i \in 1..Len(q) /\ (q \o t)[i] = q[i]
    BY <1>1, <1>2, <1>5, <2>1, <2>2 DEF Distinct
  <2>3. CASE i - Len(q) \in 1..Len(t) /\ (q \o t)[i] = t[i - Len(q)]
    BY <1>1, <1>2, <1>3, <1>5, <2>1, <2>3 DEF Distinct
  <2> QED BY <1>2, <2>2, <2>3
<1> QED BY <1>1, <1>4, <1>5 DEF Distinct

\* Cutting a history to its last lines repeats no line.
LEMMA DistinctLastLines ==
  ASSUME NEW q \in Seq(Nat), Distinct(q)
  PROVE  Distinct(LastLines(q))
<1>1. Len(q) \in Nat /\ LogTailLineCount \in Nat /\ DOMAIN q = 1..Len(q)
  BY SMT
<1>2. CASE Len(q) > LogTailLineCount
  <2> DEFINE a == Len(q) - LogTailLineCount + 1
             t == SubSeq(q, a, Len(q))
  <2>1. LastLines(q) = t /\ a \in 1..Len(q) /\ a \in Nat
    BY <1>1, <1>2, SMT DEF LastLines
  <2> HIDE DEF a
  <2>2. DOMAIN t = 1..(Len(q) - a + 1)
        /\ \A i \in 1..(Len(q) - a + 1) : t[i] = q[a + i - 1] /\ a + i - 1 \in 1..Len(q)
    BY <1>1, <2>1, SMT
  <2>3. \A i, j \in 1..(Len(q) - a + 1) : i # j => a + i - 1 # a + j - 1
    BY <1>1, <2>1, SMT
  <2> HIDE DEF t
  <2>4. ASSUME NEW i \in 1..(Len(q) - a + 1), NEW j \in 1..(Len(q) - a + 1), i # j PROVE t[i] # t[j]
    <3>1. q[a + i - 1] # q[a + j - 1]
      BY <1>1, <2>2, <2>3, <2>4 DEF Distinct
    <3> QED BY <2>2, <3>1
  <2> QED BY <2>1, <2>2, <2>4 DEF Distinct
<1>3. CASE ~(Len(q) > LogTailLineCount)
  BY <1>3 DEF LastLines
<1> QED BY <1>2, <1>3

\* A goroutine goes through the log in its order and tails it once: what it read lies before
\* next, and next goes back to the tail only while nothing was read.
InOrder(n, w) ==
  /\ n.next >= 1 /\ n.next <= w + 1 /\ n.upto <= w
  /\ n.pc \in {"tail", "follow"} => n.sentHistory
  /\ ~n.sentHistory => n.next = 1
  /\ n.fan # {} => n.line < n.next
  /\ n.pc = "unborn" => n.stream = Nil

\* Every goroutine reads in order.
RunOrder == \A r \in Runs : InOrder(run[r], written)

\* A handler has nothing before it joins, and after it only the lines of the stream it joined.
Membership ==
  \A c \in Subscribers :
    /\ sub[c].pc \in {"new", "join"} =>
         /\ \A s \in Streams : c \notin subs[s]
         /\ \A r \in Runs : c \notin run[r].fan
         /\ seen[c] = <<>> /\ chan[c] = <<>> /\ replay[c] = <<>>
    /\ Joined(c) => /\ \A s \in Streams : c \in subs[s] => s = sub[c].stream
                    /\ \A r \in Runs : c \in run[r].fan => run[r].stream = sub[c].stream

\* A goroutine of stream s has read line x.
Before(x, s) == \E r \in Runs : run[r].stream = s /\ x < run[r].next

\* Line x reached subscriber c or is on its way to it.
Got(c, x) ==
  x \in Elements(seen[c]) \/ x \in Elements(chan[c]) \/ x \in Elements(replay[c]) \/ x \in InFlight(c)

\* Lines seen, in the channel, to be replayed and in flight: none is there twice.
Separate(q, t, u, F) ==
  /\ Distinct(q) /\ Distinct(t) /\ Distinct(u)
  /\ \A x \in Elements(q) : x \notin Elements(t) /\ x \notin Elements(u) /\ x \notin F
  /\ \A x \in Elements(t) : x \notin Elements(u) /\ x \notin F
  /\ \A x \in Elements(u) : x \notin F

\* What subscriber c has and is about to have, without a line twice.
Apart(c) == Separate(seen[c], chan[c], replay[c], InFlight(c))

\* A stream's history and what its subscribers have was read by its goroutines; with one
\* goroutine, nothing of it is there twice.
HistoryOnce ==
  \A s \in Streams : /\ \A x \in Elements(history[s]) : Before(x, s)
                     /\ RunOnce(s) => Distinct(history[s])

\* The same of what a subscriber that joined has.
DeliveredOnce ==
  \A c \in Subscribers : Joined(c) =>
    /\ \A x \in Nat : Got(c, x) => Before(x, sub[c].stream)
    /\ RunOnce(sub[c].stream) => Apart(c)

\* The invariant behind NoLineTwice; it holds beside IInv and DataTypes.
OnceInv == RunOrder /\ Membership /\ HistoryOnce /\ DeliveredOnce

\* Goroutines keep their stream and only read on.
Onward ==
  \A r \in Runs : run[r].stream \in Streams =>
    run'[r].stream = run[r].stream /\ run[r].next <= run'[r].next

\* What was read stays read, and a stream that has one goroutine now had no second one before.
LEMMA OnwardKeeps ==
  ASSUME Types, Types', Onward, NEW s \in Streams
  PROVE  /\ \A x \in Nat : Before(x, s) => Before(x, s)'
         /\ RunOnce(s)' => RunOnce(s)
<1>1. \A r \in Runs : run[r].next \in Nat /\ run'[r].next \in Nat
  BY DEF Types, RunRecords
<1>2. ASSUME NEW x \in Nat, Before(x, s) PROVE Before(x, s)'
  <2>1. PICK r \in Runs : run[r].stream = s /\ x < run[r].next
    BY <1>2 DEF Before
  <2>2. run'[r].stream = s /\ run[r].next <= run'[r].next
    BY <2>1 DEF Onward
  <2>3. x < run'[r].next
    BY <1>1, <2>1, <2>2, SMT
  <2> QED BY <2>2, <2>3 DEF Before
<1> QED BY <1>2 DEF Onward, RunOnce

\* A step that adds no history and gives no joined subscriber a line.
LEMMA OnceKept ==
  ASSUME Types, Types', SubInv, DataTypes, Onward, HistoryOnce, DeliveredOnce, UNCHANGED history,
         \A c \in Subscribers : Joined(c)' => Joined(c) /\ sub'[c].stream = sub[c].stream,
         \A c \in Subscribers : Joined(c) => \A x \in Nat : Got(c, x)' => Got(c, x),
         \A c \in Subscribers : Joined(c) /\ RunOnce(sub[c].stream) /\ Apart(c) => Apart(c)'
  PROVE  HistoryOnce' /\ DeliveredOnce'
<1>1. \A s \in Streams : Elements(history[s]) \subseteq Nat
  <2> SUFFICES ASSUME NEW s \in Streams PROVE Elements(history[s]) \subseteq Nat
    OBVIOUS
  <2>1. history[s] \in Seq(Nat)
    BY DEF DataTypes
  <2> QED BY <2>1, ElementsNat
<1>2. HistoryOnce'
  BY <1>1, OnwardKeeps DEF HistoryOnce
<1>3. ASSUME NEW c \in Subscribers, Joined(c)'
      PROVE  /\ \A x \in Nat : Got(c, x)' => Before(x, sub[c].stream)'
             /\ RunOnce(sub[c].stream)' => Apart(c)'
  <2>1. Joined(c) /\ sub'[c].stream = sub[c].stream /\ sub[c].stream \in Streams
    BY <1>3 DEF SubInv, Joined
  <2> DEFINE s == sub[c].stream
  <2>2. (\A x \in Nat : Before(x, s) => Before(x, s)') /\ (RunOnce(s)' => RunOnce(s))
    BY <2>1, OnwardKeeps
  <2>3. (\A x \in Nat : Got(c, x) => Before(x, s)) /\ (RunOnce(s) => Apart(c))
    BY <2>1 DEF DeliveredOnce
  <2> QED BY <2>1, <2>2, <2>3
<1> QED BY <1>2, <1>3 DEF DeliveredOnce

\* A goroutine that hands out the same line to the same subscribers and reads on.
LEMMA ReadOn ==
  ASSUME IInv, IInv', DataTypes, OnceInv, NEW r \in Runs, NEW n \in RunRecords, Step(r, n),
         n.stream = run[r].stream, n.fan = run[r].fan, n.line = run[r].line,
         run[r].next <= n.next, n.next <= written + 1, n.upto <= written,
         run[r].sentHistory => n.sentHistory,
         n.pc \in {"tail", "follow"} => n.sentHistory, ~n.sentHistory => n.next = 1,
         n.pc = "unborn" => n.stream = Nil, UNCHANGED <<subs, history, chan, replay, seen, written>>,
         \A c \in Subscribers : /\ sub'[c].pc \in {"new", "join"} => sub[c].pc \in {"new", "join"}
                                /\ Joined(c)' => Joined(c) /\ sub'[c].stream = sub[c].stream
  PROVE  OnceInv'
<1>1. run'[r] = n /\ \A q \in Runs : q # r => run'[q] = run[q]
  BY DEF Step, IInv, Types
<1>2. \A q \in Runs : run'[q].stream = run[q].stream /\ run'[q].fan = run[q].fan /\ run'[q].line = run[q].line
  BY <1>1
<1>3. \A q \in Runs : run[q].next \in Nat /\ run[q].line \in Nat /\ n.next \in Nat
  BY DEF IInv, Types, RunRecords
<1>4. \A q \in Runs : run[q].next <= run'[q].next
  BY <1>1, <1>3, SMT
<1>5. RunOrder'
  <2>1. InOrder(run[r], written)
    BY DEF OnceInv, RunOrder
  <2>2. n.next >= 1 /\ (n.fan # {} => n.line < n.next)
    BY <1>3, <2>1, SMT DEF InOrder
  <2>3. InOrder(n, written)
    BY <2>1, <2>2 DEF InOrder
  <2> QED BY <1>1, <2>3 DEF OnceInv, RunOrder
<1>6. Membership'
  <2>1. ASSUME NEW c \in Subscribers, sub'[c].pc \in {"new", "join"}
        PROVE  /\ \A s \in Streams : c \notin subs'[s]
               /\ \A q \in Runs : c \notin run'[q].fan
               /\ seen'[c] = <<>> /\ chan'[c] = <<>> /\ replay'[c] = <<>>
    BY <1>2, <2>1 DEF OnceInv, Membership
  <2>2. ASSUME NEW c \in Subscribers, Joined(c)'
        PROVE  /\ \A s \in Streams : c \in subs'[s] => s = sub'[c].stream
               /\ \A q \in Runs : c \in run'[q].fan => run'[q].stream = sub'[c].stream
    <3>1. Joined(c) /\ sub'[c].stream = sub[c].stream
      BY <2>2
    <3>2. /\ \A s \in Streams : c \in subs[s] => s = sub[c].stream
          /\ \A q \in Runs : c \in run[q].fan => run[q].stream = sub[c].stream
      BY <3>1 DEF OnceInv, Membership
    <3> QED BY <1>2, <3>1, <3>2
  <2> QED BY <2>1, <2>2 DEF Membership
<1>7. \A c \in Subscribers : InFlight(c)' = InFlight(c)
  <2> SUFFICES ASSUME NEW c \in Subscribers, NEW x PROVE x \in InFlight(c)' <=> x \in InFlight(c)
    OBVIOUS
  <2>1. x \in InFlight(c) <=> \E q \in Runs : c \in run[q].fan /\ run[q].line = x
    BY DEF InFlight
  <2>2. x \in InFlight(c)' <=> \E q \in Runs : c \in run'[q].fan /\ run'[q].line = x
    BY DEF InFlight
  <2> QED BY <1>2, <2>1, <2>2
<1>8. Onward
  BY <1>2, <1>4 DEF Onward
<1>9. HistoryOnce' /\ DeliveredOnce'
  BY <1>7, <1>8, OnceKept DEF IInv, OnceInv, Got, Apart
<1> QED BY <1>5, <1>6, <1>9 DEF OnceInv

\* A step of no goroutine that moves no line and adds no subscriber.
LEMMA StandStill ==
  ASSUME IInv, IInv', DataTypes, OnceInv, UNCHANGED <<run, history, chan, replay, seen>>,
         written <= written', \A s \in Streams : subs'[s] \subseteq subs[s],
         \A c \in Subscribers : /\ sub'[c].pc \in {"new", "join"} => sub[c].pc \in {"new", "join"}
                                /\ Joined(c)' => Joined(c) /\ sub'[c].stream = sub[c].stream
  PROVE  OnceInv'
<1>1. \A q \in Runs : run[q].next \in Nat /\ run[q].upto \in Nat
  BY DEF IInv, Types, RunRecords
<1>2. written \in Nat /\ written' \in Nat
  BY DEF IInv, Types
<1>3. \A q \in Runs : InOrder(run[q], written)
  BY DEF OnceInv, RunOrder
<1>4. RunOrder'
  <2>1. \A q \in Runs : run[q].next <= written' + 1 /\ run[q].upto <= written'
    BY <1>1, <1>2, <1>3, SMT DEF InOrder
  <2> QED BY <1>3, <2>1 DEF RunOrder, InOrder
<1>5. Membership'
  BY DEF OnceInv, Membership, Joined
<1>6. Onward
  BY <1>1, SMT DEF Onward
<1>7. \A c \in Subscribers : InFlight(c)' = InFlight(c)
  BY DEF InFlight
<1>8. HistoryOnce' /\ DeliveredOnce'
  BY <1>6, <1>7, OnceKept DEF IInv, OnceInv, Got, Apart
<1> QED BY <1>4, <1>5, <1>8 DEF OnceInv

\* The line where a tail starts is a line of the log or the next one.
LEMMA LastLineBounds ==
  ASSUME NEW k \in Nat PROVE LastLine(k) \in Nat /\ LastLine(k) >= 1 /\ LastLine(k) <= k + 1
BY SMT DEF LastLine

\* The steps of a goroutine that hand out nothing.
LEMMA RunOnceInv ==
  ASSUME IInv, IInv', DataTypes, OnceInv, NEW r \in Runs,
         \/ LoopTop(r) \/ StartFollow(r) \/ StreamEnds(r) \/ Retry(r) \/ CleanupStream(r) \/ CleanupMap(r)
  PROVE  OnceInv'
<1>1. run[r] \in RunRecords /\ written \in Nat /\ UNCHANGED <<subs, sub, history, chan, replay, seen, written>>
  BY DEF IInv, Types, LoopTop, StartFollow, StreamEnds, Retry, CleanupStream, CleanupMap, streamVars, subVars
<1>2. run[r].next \in Nat /\ run[r].next >= 1 /\ run[r].next <= written + 1 /\ run[r].upto <= written
      /\ (run[r].pc \in {"tail", "follow"} => run[r].sentHistory)
      /\ (~run[r].sentHistory => run[r].next = 1) /\ run[r].next <= run[r].next
      /\ (run[r].pc = "unborn" => run[r].stream = Nil)
  <2>1. run[r].next \in Nat
    BY <1>1 DEF RunRecords
  <2>2. run[r].next <= run[r].next
    BY <2>1, SMT
  <2> QED BY <2>1, <2>2 DEF OnceInv, RunOrder, InOrder
<1>3. ASSUME NEW l \in RunPcs \ {"unborn", "tail", "follow"}, Step(r, [run[r] EXCEPT !.pc = l])
      PROVE  OnceInv'
  <2> DEFINE n == [run[r] EXCEPT !.pc = l]
  <2>1. n \in RunRecords /\ n.stream = run[r].stream /\ n.fan = run[r].fan /\ n.line = run[r].line
        /\ n.next = run[r].next /\ n.upto = run[r].upto /\ n.sentHistory = run[r].sentHistory /\ n.pc = l
    BY <1>1 DEF RunRecords
  <2> HIDE DEF n
  <2>2. Step(r, n)
    BY <1>3 DEF n
  <2> QED BY <1>1, <1>2, <2>1, <2>2, ReadOn DEF Joined
<1>4. ASSUME run[r].sentHistory, Step(r, [run[r] EXCEPT !.pc = "follow", !.next = written + 1])
      PROVE  OnceInv'
  <2> DEFINE n == [run[r] EXCEPT !.pc = "follow", !.next = written + 1]
  <2>1. written + 1 \in Nat /\ run[r].next <= written + 1 /\ written + 1 <= written + 1
    BY <1>1, <1>2, SMT
  <2>2. n \in RunRecords /\ n.stream = run[r].stream /\ n.fan = run[r].fan /\ n.line = run[r].line
        /\ n.next = written + 1 /\ n.upto = run[r].upto /\ n.sentHistory = run[r].sentHistory /\ n.pc = "follow"
    BY <1>1, <2>1 DEF RunRecords, RunPcs
  <2> HIDE DEF n
  <2>3. Step(r, n)
    BY <1>4 DEF n
  <2> QED BY <1>1, <1>2, <1>4, <2>1, <2>2, <2>3, ReadOn DEF Joined
<1>5. ASSUME ~run[r].sentHistory,
             Step(r, [run[r] EXCEPT !.pc = "tail", !.sentHistory = TRUE, !.next = LastLine(written), !.upto = written])
      PROVE  OnceInv'
  <2> DEFINE n == [run[r] EXCEPT !.pc = "tail", !.sentHistory = TRUE, !.next = LastLine(written), !.upto = written]
  <2>1. LastLine(written) \in Nat /\ run[r].next <= LastLine(written) /\ LastLine(written) <= written + 1
        /\ written <= written
    BY <1>1, <1>2, <1>5, LastLineBounds, SMT
  <2>2. n \in RunRecords /\ n.stream = run[r].stream /\ n.fan = run[r].fan /\ n.line = run[r].line
        /\ n.next = LastLine(written) /\ n.upto = written /\ n.sentHistory = TRUE /\ n.pc = "tail"
    BY <1>1, <2>1 DEF RunRecords, RunPcs
  <2> HIDE DEF n
  <2>3. Step(r, n)
    BY <1>5 DEF n
  <2> QED BY <1>1, <1>2, <1>5, <2>1, <2>2, <2>3, ReadOn DEF Joined
<1>6. CASE LoopTop(r)
  BY <1>3, <1>4, <1>5, <1>6 DEF LoopTop, RunPcs
<1>7. CASE StartFollow(r)
  BY <1>2, <1>4, <1>7 DEF StartFollow
<1>8. CASE StreamEnds(r)
  BY <1>3, <1>8 DEF StreamEnds, RunPcs
<1>9. CASE Retry(r)
  BY <1>3, <1>9 DEF Retry, RunPcs
<1>10. CASE CleanupStream(r) \/ CleanupMap(r)
  BY <1>3, <1>10 DEF CleanupStream, CleanupMap, RunPcs
<1> QED BY <1>6, <1>7, <1>8, <1>9, <1>10

\* The steps of a handler that hand out nothing.
LEMMA HandlerOnceInv ==
  ASSUME IInv, IInv', DataTypes, OnceInv, NEW c \in Subscribers,
         SubscribeLookup(c) \/ HangUp(c) \/ ReleaseLookup(c) \/ ReleaseRemove(c)
  PROVE  OnceInv'
<1>1. UNCHANGED <<history, chan, replay, seen, run, written>> /\ written \in Nat
  BY DEF SubscribeLookup, HangUp, ReleaseLookup, ReleaseRemove, streamVars, runVars, IInv, Types
<1>2. written <= written'
  BY <1>1, SMT
<1>3. \A s \in Streams : subs'[s] \subseteq subs[s]
  <2>1. CASE UNCHANGED subs
    BY <2>1
  <2>2. CASE ReleaseRemove(c)
    BY <2>2 DEF ReleaseRemove, IInv, Types
  <2> QED BY <2>1, <2>2 DEF SubscribeLookup, HangUp, ReleaseLookup, streamVars
<1>4. sub[c] \in SubRecords
  BY DEF IInv, Types
<1>5. ASSUME NEW n, SubAt(c, n), n.pc # "reading", n.pc \in {"new", "join"} => sub[c].pc = "new" PROVE OnceInv'
  <2>1. \A d \in Subscribers : /\ sub'[d].pc \in {"new", "join"} => sub[d].pc \in {"new", "join"}
                               /\ Joined(d)' => Joined(d) /\ sub'[d].stream = sub[d].stream
    BY <1>5 DEF SubAt, IInv, Types, Joined
  <2> QED BY <1>1, <1>2, <1>3, <2>1, StandStill
<1>6. ASSUME NEW s, SubAt(c, [sub[c] EXCEPT !.pc = "join", !.stream = s]), sub[c].pc = "new" PROVE OnceInv'
  BY <1>4, <1>5, <1>6 DEF SubRecords
<1>7. ASSUME NEW l, l # "new", l # "join", l # "reading", NEW s, SubAt(c, [sub[c] EXCEPT !.pc = l, !.stream = s])
      PROVE  OnceInv'
  BY <1>4, <1>5, <1>7 DEF SubRecords
<1>8. ASSUME NEW l, l # "new", l # "join", l # "reading", NEW r, SubAt(c, [sub[c] EXCEPT !.pc = l, !.cancel = r])
      PROVE  OnceInv'
  BY <1>4, <1>5, <1>8 DEF SubRecords
<1>9. ASSUME NEW l, l # "new", l # "join", l # "reading", SubAt(c, [sub[c] EXCEPT !.pc = l]) PROVE OnceInv'
  BY <1>4, <1>5, <1>9 DEF SubRecords
<1>10. CASE SubscribeLookup(c)
  BY <1>6, <1>10 DEF SubscribeLookup
<1>11. CASE HangUp(c)
  BY <1>9, <1>11 DEF HangUp
<1>12. CASE ReleaseLookup(c)
  BY <1>7, <1>12 DEF ReleaseLookup
<1>13. CASE ReleaseRemove(c)
  BY <1>8, <1>9, <1>13 DEF ReleaseRemove
<1> QED BY <1>10, <1>11, <1>12, <1>13

\* Cancelling the goroutine of a stream hands out nothing.
LEMMA ReleaseCancelOnceInv ==
  ASSUME IInv, IInv', DataTypes, OnceInv, NEW c \in Subscribers, ReleaseCancel(c) PROVE OnceInv'
<1> DEFINE r == sub[c].cancel
           m == [run[r] EXCEPT !.canceled = TRUE]
           n == [sub[c] EXCEPT !.pc = "gone"]
<1>1. sub[c] \in SubRecords /\ r \in Runs
  BY SMT DEF ReleaseCancel, IInv, Types, SubInv
<1>2. run[r] \in RunRecords
  BY <1>1 DEF IInv, Types
<1>3. m \in RunRecords /\ m.stream = run[r].stream /\ m.fan = run[r].fan /\ m.line = run[r].line
      /\ m.next = run[r].next /\ m.upto = run[r].upto /\ m.sentHistory = run[r].sentHistory /\ m.pc = run[r].pc
  BY <1>2 DEF RunRecords
<1>4. Step(r, m) /\ SubAt(c, n) /\ n.pc = "gone" /\ UNCHANGED <<subs, history, chan, replay, seen, written>>
  BY <1>1 DEF ReleaseCancel, streamVars, SubRecords
<1> HIDE DEF r, m, n
<1>5. \A d \in Subscribers : /\ sub'[d].pc \in {"new", "join"} => sub[d].pc \in {"new", "join"}
                             /\ Joined(d)' => Joined(d) /\ sub'[d].stream = sub[d].stream
  BY <1>4 DEF SubAt, IInv, Types, Joined
<1>6. run[r].next <= m.next
  BY <1>2, <1>3, SMT DEF RunRecords
<1>7. m.next <= written + 1 /\ m.upto <= written /\ (m.pc \in {"tail", "follow"} => m.sentHistory)
      /\ (~m.sentHistory => m.next = 1) /\ (m.pc = "unborn" => m.stream = Nil)
  BY <1>1, <1>3 DEF OnceInv, RunOrder, InOrder
<1> QED BY <1>1, <1>2, <1>3, <1>4, <1>5, <1>6, <1>7, ReadOn

\* A line sent to a channel is the only one that may be added to it, at its end.
LEMMA SendOnce ==
  ASSUME DataTypes, NEW d \in Subscribers, NEW x \in Nat, TrySendLogLine(d, x)
  PROVE  /\ \A c \in Subscribers : c # d => chan'[c] = chan[c]
         /\ \A y \in Elements(chan'[d]) : y = x \/ y \in Elements(chan[d])
         /\ Distinct(chan[d]) /\ x \notin Elements(chan[d]) => Distinct(chan'[d])
<1>1. chan[d] \in Seq(Nat)
  BY DEF DataTypes
<1>2. CASE UNCHANGED chan
  BY <1>2
<1>3. CASE chan' = [chan EXCEPT ![d] = Append(chan[d], x)]
  <2> DEFINE a == Append(chan[d], x)
  <2>1. Elements(a) = Elements(chan[d]) \cup {x}
    BY <1>1, ElementsAppend
  <2>2. Distinct(chan[d]) /\ x \notin Elements(chan[d]) => Distinct(a)
    BY <1>1, DistinctAppend
  <2> HIDE DEF a
  <2>3. chan'[d] = a /\ \A c \in Subscribers : c # d => chan'[c] = chan[c]
    BY <1>3 DEF DataTypes, a
  <2> QED BY <2>1, <2>2, <2>3
<1> QED BY <1>2, <1>3 DEF TrySendLogLine

\* A step that moves lines between the places of one handler.
LEMMA MoveOnce ==
  ASSUME IInv, IInv', DataTypes, OnceInv, NEW d \in Subscribers, sub[d].pc \notin {"new", "join"},
         UNCHANGED <<history, sub, run, subs, written>>,
         \A c \in Subscribers : c # d => chan'[c] = chan[c] /\ seen'[c] = seen[c] /\ replay'[c] = replay[c],
         \A x \in Nat : Got(d, x)' => Got(d, x),
         Apart(d) => Apart(d)'
  PROVE  OnceInv'
<1>1. RunOrder'
  BY DEF OnceInv, RunOrder
<1>2. Membership'
  BY DEF OnceInv, Membership, Joined
<1>3. \A q \in Runs : run[q].next \in Nat
  BY DEF IInv, Types, RunRecords
<1>4. Onward
  BY <1>3, SMT DEF Onward
<1>5. \A c \in Subscribers : InFlight(c)' = InFlight(c)
  BY DEF InFlight
<1>6. \A c \in Subscribers : \A x \in Nat : Got(c, x)' => Got(c, x)
  BY <1>5 DEF Got
<1>7. \A c \in Subscribers : Apart(c) => Apart(c)'
  BY <1>5 DEF Apart
<1>8. HistoryOnce' /\ DeliveredOnce'
  BY <1>4, <1>6, <1>7, OnceKept DEF IInv, OnceInv, Joined
<1> QED BY <1>1, <1>2, <1>8 DEF OnceInv

\* A replayed line leaves the copied history for the channel.
LEMMA ReplayLineOnce ==
  ASSUME IInv, IInv', DataTypes, OnceInv, NEW d \in Subscribers, ReplayLine(d) PROVE OnceInv'
<1> DEFINE x == Head(replay[d])
           t == Tail(replay[d])
<1>1. replay[d] \in Seq(Nat) /\ replay[d] # <<>> /\ TrySendLogLine(d, x)
      /\ replay' = [replay EXCEPT ![d] = t] /\ UNCHANGED <<history, run, sub, subs, seen, written>>
  BY DEF ReplayLine, DataTypes, streamVars, runVars
<1>2. x \in Nat /\ x \in Elements(replay[d]) /\ Elements(t) \subseteq Elements(replay[d])
      /\ (Distinct(replay[d]) => Distinct(t) /\ x \notin Elements(t))
  BY <1>1, ElementsHeadTail, DistinctTail
<1> HIDE DEF x, t
<1>3. /\ \A c \in Subscribers : c # d => chan'[c] = chan[c]
      /\ \A y \in Elements(chan'[d]) : y = x \/ y \in Elements(chan[d])
      /\ Distinct(chan[d]) /\ x \notin Elements(chan[d]) => Distinct(chan'[d])
  BY <1>1, <1>2, SendOnce
<1>4. replay'[d] = t /\ \A c \in Subscribers : c # d => replay'[c] = replay[c]
  BY <1>1 DEF DataTypes
<1>5. sub[d].pc \notin {"new", "join"}
  BY <1>1 DEF OnceInv, Membership
<1>6. InFlight(d)' = InFlight(d)
  BY <1>1 DEF InFlight
<1>7. \A y \in Nat : Got(d, y)' => Got(d, y)
  BY <1>1, <1>2, <1>3, <1>4, <1>6 DEF Got
<1>8. ASSUME Apart(d) PROVE Apart(d)'
  <2>1. x \notin Elements(chan[d]) /\ x \notin Elements(seen[d]) /\ x \notin InFlight(d)
    BY <1>2, <1>8 DEF Apart, Separate
  <2>2. Distinct(seen'[d]) /\ Distinct(chan'[d]) /\ Distinct(replay'[d])
    BY <1>1, <1>2, <1>3, <1>4, <1>8, <2>1 DEF Apart, Separate
  <2>3. \A y \in Elements(seen'[d]) : y \notin Elements(chan'[d]) /\ y \notin Elements(replay'[d]) /\ y \notin InFlight(d)'
    BY <1>1, <1>2, <1>3, <1>4, <1>6, <1>8, <2>1 DEF Apart, Separate
  <2>4. \A y \in Elements(chan'[d]) : y \notin Elements(replay'[d]) /\ y \notin InFlight(d)'
    BY <1>2, <1>3, <1>4, <1>6, <1>8, <2>1 DEF Apart, Separate
  <2>5. \A y \in Elements(replay'[d]) : y \notin InFlight(d)'
    BY <1>2, <1>4, <1>6, <1>8 DEF Apart, Separate
  <2> QED BY <2>2, <2>3, <2>4, <2>5 DEF Apart, Separate
<1> QED BY <1>1, <1>3, <1>4, <1>5, <1>7, <1>8, MoveOnce

\* A received line leaves the channel for the WebSocket.
LEMMA ReceiveOnce ==
  ASSUME IInv, IInv', DataTypes, OnceInv, NEW d \in Subscribers, Receive(d) PROVE OnceInv'
<1> DEFINE x == Head(chan[d])
           t == Tail(chan[d])
           a == Append(seen[d], x)
<1>1. chan[d] \in Seq(Nat) /\ chan[d] # <<>> /\ seen[d] \in Seq(Nat) /\ sub[d].pc = "reading"
      /\ seen' = [seen EXCEPT ![d] = a] /\ chan' = [chan EXCEPT ![d] = t]
      /\ UNCHANGED <<history, run, sub, subs, replay, written>>
  BY DEF Receive, DataTypes, streamVars, runVars
<1>2. x \in Nat /\ x \in Elements(chan[d]) /\ Elements(t) \subseteq Elements(chan[d])
      /\ (Distinct(chan[d]) => Distinct(t) /\ x \notin Elements(t))
  BY <1>1, ElementsHeadTail, DistinctTail
<1> HIDE DEF x, t
<1>3. Elements(a) = Elements(seen[d]) \cup {x} /\ (Distinct(seen[d]) /\ x \notin Elements(seen[d]) => Distinct(a))
  BY <1>1, <1>2, ElementsAppend, DistinctAppend
<1> HIDE DEF a
<1>4. seen'[d] = a /\ chan'[d] = t
      /\ \A c \in Subscribers : c # d => chan'[c] = chan[c] /\ seen'[c] = seen[c] /\ replay'[c] = replay[c]
  BY <1>1 DEF DataTypes
<1>5. InFlight(d)' = InFlight(d)
  BY <1>1 DEF InFlight
<1>6. \A y \in Nat : Got(d, y)' => Got(d, y)
  BY <1>1, <1>2, <1>3, <1>4, <1>5 DEF Got
<1>7. ASSUME Apart(d) PROVE Apart(d)'
  <2>1. x \notin Elements(seen[d]) /\ x \notin Elements(replay[d]) /\ x \notin InFlight(d)
    BY <1>2, <1>7 DEF Apart, Separate
  <2>2. Distinct(seen'[d]) /\ Distinct(chan'[d]) /\ Distinct(replay'[d])
    BY <1>1, <1>2, <1>3, <1>4, <1>7, <2>1 DEF Apart, Separate
  <2>3. \A y \in Elements(seen'[d]) : y \notin Elements(chan'[d]) /\ y \notin Elements(replay'[d]) /\ y \notin InFlight(d)'
    BY <1>1, <1>2, <1>3, <1>4, <1>5, <1>7, <2>1 DEF Apart, Separate
  <2>4. \A y \in Elements(chan'[d]) : y \notin Elements(replay'[d]) /\ y \notin InFlight(d)'
    BY <1>1, <1>2, <1>4, <1>5, <1>7 DEF Apart, Separate
  <2>5. \A y \in Elements(replay'[d]) : y \notin InFlight(d)'
    BY <1>1, <1>5, <1>7 DEF Apart, Separate
  <2> QED BY <2>2, <2>3, <2>4, <2>5 DEF Apart, Separate
<1> QED BY <1>1, <1>4, <1>6, <1>7, MoveOnce

\* The lines in flight to a subscriber.
LEMMA InFlightIs ==
  ASSUME NEW c, NEW x
  PROVE  x \in InFlight(c) <=> \E q \in Runs : c \in run[q].fan /\ run[q].line = x
BY DEF InFlight

\* A delivered line is in flight to that subscriber no more, when its stream has one goroutine.
LEMMA FanOutOnce ==
  ASSUME IInv, IInv', DataTypes, OnceInv, NEW r \in Runs, NEW d \in Subscribers, FanOut(r, d) PROVE OnceInv'
<1> DEFINE n == [run[r] EXCEPT !.fan = run[r].fan \ {d}]
           x == run[r].line
<1>1. run[r] \in RunRecords /\ Step(r, n) /\ TrySendLogLine(d, x) /\ d \in run[r].fan
      /\ UNCHANGED <<history, sub, subs, replay, seen, written>>
  BY DEF FanOut, IInv, Types, streamVars
<1>2. x \in Nat /\ n.fan = run[r].fan \ {d} /\ n.line = x /\ n.stream = run[r].stream /\ n.next = run[r].next
      /\ n.upto = run[r].upto /\ n.pc = run[r].pc /\ n.sentHistory = run[r].sentHistory
  BY <1>1 DEF RunRecords
<1> HIDE DEF n
<1>3. run'[r] = n /\ \A q \in Runs : q # r => run'[q] = run[q]
  BY <1>1 DEF Step, IInv, Types
<1>4. \A q \in Runs : /\ run'[q].stream = run[q].stream /\ run'[q].next = run[q].next
                      /\ run'[q].line = run[q].line /\ run'[q].fan \subseteq run[q].fan
  BY <1>2, <1>3
<1>5. /\ \A c \in Subscribers : c # d => chan'[c] = chan[c]
      /\ \A y \in Elements(chan'[d]) : y = x \/ y \in Elements(chan[d])
      /\ Distinct(chan[d]) /\ x \notin Elements(chan[d]) => Distinct(chan'[d])
  BY <1>1, <1>2, SendOnce
<1>6. RunOrder'
  <2>1. InOrder(run[r], written)
    BY DEF OnceInv, RunOrder
  <2>2. InOrder(n, written)
    BY <1>1, <1>2, <2>1 DEF InOrder
  <2> QED BY <1>1, <1>3, <2>2 DEF OnceInv, RunOrder
<1>7. sub[d].pc \notin {"new", "join"}
  BY <1>1 DEF OnceInv, Membership
<1>8. Membership'
  <2>1. ASSUME NEW c \in Subscribers, sub[c].pc \in {"new", "join"}
        PROVE  /\ \A s \in Streams : c \notin subs[s]
               /\ \A q \in Runs : c \notin run'[q].fan
               /\ seen[c] = <<>> /\ chan'[c] = <<>> /\ replay[c] = <<>>
    <3>1. c # d
      BY <1>7, <2>1
    <3> QED BY <1>4, <1>5, <2>1, <3>1 DEF OnceInv, Membership
  <2>2. ASSUME NEW c \in Subscribers, Joined(c)
        PROVE  /\ \A s \in Streams : c \in subs[s] => s = sub[c].stream
               /\ \A q \in Runs : c \in run'[q].fan => run'[q].stream = sub[c].stream
    <3>1. /\ \A s \in Streams : c \in subs[s] => s = sub[c].stream
          /\ \A q \in Runs : c \in run[q].fan => run[q].stream = sub[c].stream
      BY <2>2 DEF OnceInv, Membership
    <3> QED BY <1>4, <3>1
  <2> QED BY <1>1, <2>1, <2>2 DEF Membership, Joined
<1>9. \A q \in Runs : run[q].next \in Nat
  BY DEF IInv, Types, RunRecords
<1>10. Onward
  BY <1>4, <1>9, SMT DEF Onward
<1>11. \A c \in Subscribers : \A y : y \in InFlight(c)' => y \in InFlight(c)
  <2> SUFFICES ASSUME NEW c \in Subscribers, NEW y, y \in InFlight(c)' PROVE y \in InFlight(c)
    OBVIOUS
  <2>1. PICK q \in Runs : c \in run'[q].fan /\ run'[q].line = y
    BY DEF InFlight
  <2> QED BY <1>4, <2>1, InFlightIs
<1>12. x \in InFlight(d)
  BY <1>1, InFlightIs
<1>13. ASSUME NEW c \in Subscribers, Joined(c), NEW y \in Nat, Got(c, y)' PROVE Got(c, y)
  <2>1. CASE c = d
    BY <1>1, <1>5, <1>11, <1>12, <1>13, <2>1 DEF Got
  <2>2. CASE c # d
    BY <1>1, <1>5, <1>11, <1>13, <2>2 DEF Got
  <2> QED BY <2>1, <2>2
<1>14. ASSUME NEW c \in Subscribers, c # d, Apart(c) PROVE Apart(c)'
  BY <1>1, <1>5, <1>11, <1>14 DEF Apart, Separate
<1>15. ASSUME Joined(d), RunOnce(sub[d].stream), Apart(d) PROVE Apart(d)'
  <2>1. x \notin InFlight(d)'
    <3> SUFFICES ASSUME NEW q \in Runs, d \in run'[q].fan PROVE FALSE
      BY DEF InFlight
    <3>1. d \in run[q].fan
      BY <1>4
    <3>2. q = r
      BY <1>1, <1>15, <3>1 DEF OnceInv, Membership, RunOnce
    <3> QED BY <1>2, <1>3, <3>2
  <2>2. x \notin Elements(chan[d]) /\ x \notin Elements(seen[d]) /\ x \notin Elements(replay[d])
    BY <1>12, <1>15 DEF Apart, Separate
  <2>3. Distinct(seen'[d]) /\ Distinct(chan'[d]) /\ Distinct(replay'[d])
    BY <1>1, <1>5, <1>15, <2>2 DEF Apart, Separate
  <2>4. \A y \in Elements(seen'[d]) : y \notin Elements(chan'[d]) /\ y \notin Elements(replay'[d]) /\ y \notin InFlight(d)'
    BY <1>1, <1>5, <1>11, <1>15, <2>2 DEF Apart, Separate
  <2>5. \A y \in Elements(chan'[d]) : y \notin Elements(replay'[d]) /\ y \notin InFlight(d)'
    BY <1>1, <1>5, <1>11, <1>15, <2>1, <2>2 DEF Apart, Separate
  <2>6. \A y \in Elements(replay'[d]) : y \notin InFlight(d)'
    BY <1>1, <1>11, <1>15 DEF Apart, Separate
  <2> QED BY <2>3, <2>4, <2>5, <2>6 DEF Apart, Separate
<1>16. HistoryOnce' /\ DeliveredOnce'
  BY <1>1, <1>10, <1>13, <1>14, <1>15, OnceKept DEF IInv, OnceInv, Joined
<1> QED BY <1>6, <1>8, <1>16 DEF OnceInv

\* Publishing a line no one has: it comes after every line its stream's only goroutine read.
LEMMA PublishOnce ==
  ASSUME IInv, IInv', DataTypes, OnceInv, NEW r \in Runs, Publish(r),
         NEW s, s = run[r].stream, NEW x, x = run[r].next
  PROVE  OnceInv'
<1> DEFINE n == [run[r] EXCEPT !.next = x + 1, !.line = x, !.fan = subs[s]]
           h == LastLines(Append(history[s], x))
<1>1. run[r] \in RunRecords /\ run[r].fan = {} /\ Step(r, n) /\ InLoop(r)
      /\ history' = [history EXCEPT ![s] = h]
      /\ UNCHANGED <<sub, subs, chan, replay, seen, written>>
  <2>1. run[r] \in RunRecords
    BY DEF IInv, Types
  <2>2. run[r].fan = {} /\ InLoop(r)
    BY DEF Publish, Ready, InLoop
  <2>3. Step(r, n) /\ history' = [history EXCEPT ![s] = h]
    BY DEF Publish
  <2>4. UNCHANGED <<sub, subs, chan, replay, seen, written>>
    BY DEF Publish, subVars
  <2> QED BY <2>1, <2>2, <2>3, <2>4
<1>2. x \in Nat /\ n.line = x /\ n.fan = subs[s] /\ n.next = x + 1 /\ n.stream = s /\ n.upto = run[r].upto
      /\ n.pc = run[r].pc /\ n.sentHistory = run[r].sentHistory
  <2>1. x \in Nat
    BY <1>1 DEF RunRecords
  <2>2. n.line = x /\ n.fan = subs[s] /\ n.next = x + 1
    BY <1>1 DEF RunRecords
  <2>3. n.stream = s /\ n.upto = run[r].upto /\ n.pc = run[r].pc /\ n.sentHistory = run[r].sentHistory
    BY <1>1 DEF RunRecords
  <2> QED BY <2>1, <2>2, <2>3
<1>3. s \in Streams /\ history[s] \in Seq(Nat)
  <2>1. s \in Streams
    BY <1>1 DEF IInv, RunInv
  <2> QED BY <2>1 DEF DataTypes
<1>4. run[r].pc \in {"tail", "follow"} /\ x <= written /\ x < x + 1 /\ x >= 1 /\ x <= x + 1 /\ x + 1 <= written + 1
  <2>1. run[r].upto <= written /\ run[r].upto \in Nat /\ x >= 1 /\ written \in Nat
    BY <1>1 DEF OnceInv, RunOrder, InOrder, IInv, Types, RunRecords
  <2>2. run[r].pc \in {"tail", "follow"} /\ (x <= run[r].upto \/ x <= written)
    BY DEF Publish, Ready
  <2> QED BY <1>2, <2>1, <2>2, SMT
<1> HIDE DEF n
<1>5. run'[r] = n /\ \A q \in Runs : q # r => run'[q] = run[q]
  BY <1>1 DEF Step, IInv, Types
<1>6. RunOrder'
  <2>1. n.next >= 1 /\ n.next <= written + 1 /\ n.line < n.next
    BY <1>2, <1>4, SMT
  <2>2. n.upto <= written /\ n.sentHistory /\ n.pc # "unborn"
    BY <1>2, <1>4 DEF OnceInv, RunOrder, InOrder
  <2>3. InOrder(n, written)
    BY <2>1, <2>2 DEF InOrder
  <2> QED BY <1>1, <1>5, <2>3 DEF OnceInv, RunOrder
<1>7. \A q \in Runs : run'[q].stream = run[q].stream
  BY <1>2, <1>5
<1>8. Membership'
  <2>1. ASSUME NEW c \in Subscribers, sub[c].pc \in {"new", "join"}
        PROVE  /\ \A t \in Streams : c \notin subs[t]
               /\ \A q \in Runs : c \notin run'[q].fan
               /\ seen[c] = <<>> /\ chan[c] = <<>> /\ replay[c] = <<>>
    <3>1. /\ \A t \in Streams : c \notin subs[t]
          /\ \A q \in Runs : c \notin run[q].fan
          /\ seen[c] = <<>> /\ chan[c] = <<>> /\ replay[c] = <<>>
      BY <2>1 DEF OnceInv, Membership
    <3> QED BY <1>2, <1>3, <1>5, <3>1
  <2>2. ASSUME NEW c \in Subscribers, Joined(c)
        PROVE  /\ \A t \in Streams : c \in subs[t] => t = sub[c].stream
               /\ \A q \in Runs : c \in run'[q].fan => run'[q].stream = sub[c].stream
    <3>1. /\ \A t \in Streams : c \in subs[t] => t = sub[c].stream
          /\ \A q \in Runs : c \in run[q].fan => run[q].stream = sub[c].stream
      BY <2>2 DEF OnceInv, Membership
    <3> QED BY <1>2, <1>3, <1>5, <3>1
  <2> QED BY <1>1, <2>1, <2>2 DEF Membership, Joined
<1>9. Onward
  <2>1. \A q \in Runs : run[q].next \in Nat
    BY DEF IInv, Types, RunRecords
  <2>2. \A q \in Runs : run[q].next <= run'[q].next
    BY <1>2, <1>4, <1>5, <2>1, SMT
  <2> QED BY <1>7, <2>2 DEF Onward
<1>10. Before(x, s)'
  BY <1>2, <1>4, <1>5 DEF Before
<1>11. ASSUME NEW y \in Nat, Before(y, s), RunOnce(s) PROVE y # x
  <2>1. PICK q \in Runs : run[q].stream = s /\ y < run[q].next
    BY <1>11 DEF Before
  <2>2. q = r
    BY <1>11, <2>1 DEF RunOnce
  <2> QED BY <1>2, <2>1, <2>2, SMT
<1>12. HistoryOnce'
  <2> DEFINE a == Append(history[s], x)
  <2>1. a \in Seq(Nat) /\ Elements(a) = Elements(history[s]) \cup {x}
    BY <1>2, <1>3, ElementsAppend
  <2>2. Elements(history[s]) \subseteq Nat
    BY <1>3, ElementsNat
  <2>3. RunOnce(s) => x \notin Elements(history[s]) /\ Distinct(history[s])
    BY <1>3, <1>11, <2>2 DEF OnceInv, HistoryOnce
  <2>4. RunOnce(s) => Distinct(a)
    BY <1>2, <1>3, <2>3, DistinctAppend
  <2>5. h = LastLines(a)
    OBVIOUS
  <2> HIDE DEF a, h
  <2>6. Elements(h) \subseteq Elements(a) /\ (RunOnce(s) => Distinct(h))
    BY <2>1, <2>4, <2>5, LastLinesKeep, DistinctLastLines
  <2>7. history'[s] = h /\ \A t \in Streams : t # s => history'[t] = history[t]
    BY <1>1, <1>3 DEF DataTypes
  <2>8. \A y \in Elements(h) : Before(y, s)'
    <3>1. ASSUME NEW y \in Elements(history[s]) PROVE Before(y, s)'
      BY <1>3, <1>9, <2>2, OnwardKeeps DEF IInv, OnceInv, HistoryOnce
    <3> QED BY <1>10, <2>1, <2>6, <3>1
  <2>9. RunOnce(s)' => Distinct(h)
    BY <1>3, <1>9, <2>6, OnwardKeeps DEF IInv
  <2>10. ASSUME NEW t \in Streams, t # s
         PROVE  (\A y \in Elements(history[t]) : Before(y, t)') /\ (RunOnce(t)' => Distinct(history[t]))
    <3>1. history[t] \in Seq(Nat)
      BY DEF DataTypes
    <3>2. Elements(history[t]) \subseteq Nat
      BY <3>1, ElementsNat
    <3> QED BY <1>9, <3>2, OnwardKeeps DEF IInv, OnceInv, HistoryOnce
  <2>11. ASSUME NEW t \in Streams
         PROVE  (\A y \in Elements(history'[t]) : Before(y, t)') /\ (RunOnce(t)' => Distinct(history'[t]))
    <3>1. CASE t = s
      BY <2>7, <2>8, <2>9, <3>1
    <3>2. CASE t # s
      BY <2>7, <2>10, <3>2
    <3> QED BY <3>1, <3>2
  <2> QED BY <2>11 DEF HistoryOnce
<1> HIDE DEF h
<1>13. DeliveredOnce'
  <2> SUFFICES ASSUME NEW c \in Subscribers, Joined(c)
               PROVE  /\ \A y \in Nat : Got(c, y)' => Before(y, sub[c].stream)'
                      /\ RunOnce(sub[c].stream)' => Apart(c)'
    BY <1>1 DEF DeliveredOnce, Joined
  <2>1. sub[c].stream \in Streams /\ sub'[c].stream = sub[c].stream /\ (c \in subs[s] => sub[c].stream = s)
    BY <1>1, <1>3 DEF IInv, SubInv, Joined, OnceInv, Membership
  <2>2. (\A y \in Nat : Got(c, y) => Before(y, sub[c].stream)) /\ (RunOnce(sub[c].stream) => Apart(c))
    BY DEF OnceInv, DeliveredOnce
  <2>3. (\A y \in Nat : Before(y, sub[c].stream) => Before(y, sub[c].stream)')
        /\ (RunOnce(sub[c].stream)' => RunOnce(sub[c].stream))
    BY <1>1, <1>9, <2>1, OnwardKeeps DEF IInv
  <2>4. \A y : y \in InFlight(c)' => y \in InFlight(c) \/ (y = x /\ c \in subs[s])
    <3> SUFFICES ASSUME NEW y, y \in InFlight(c)' PROVE y \in InFlight(c) \/ (y = x /\ c \in subs[s])
      OBVIOUS
    <3>1. PICK q \in Runs : c \in run'[q].fan /\ run'[q].line = y
      BY DEF InFlight
    <3>2. CASE q = r
      BY <1>2, <1>5, <3>1, <3>2
    <3>3. CASE q # r
      BY <1>5, <3>1, <3>3, InFlightIs
    <3> QED BY <3>2, <3>3
  <2>5. \A y \in Nat : Got(c, y)' => Before(y, sub[c].stream)'
    <3> SUFFICES ASSUME NEW y \in Nat, Got(c, y)' PROVE Before(y, sub[c].stream)'
      OBVIOUS
    <3>1. Got(c, y) \/ (y = x /\ c \in subs[s])
      BY <1>1, <2>4 DEF Got
    <3>2. CASE Got(c, y)
      BY <2>2, <2>3, <3>2
    <3>3. CASE y = x /\ c \in subs[s]
      BY <1>1, <1>10, <2>1, <3>3
    <3> QED BY <3>1, <3>2, <3>3
  <2>6. ASSUME RunOnce(sub[c].stream)' PROVE Apart(c)'
    <3>1. RunOnce(sub[c].stream) /\ Apart(c)
      BY <2>2, <2>3, <2>6
    <3>2. c \in subs[s] => ~Got(c, x)
      BY <1>2, <1>11, <2>1, <2>2, <3>1
    <3>3. \A y : y \in Elements(seen[c]) \/ y \in Elements(chan[c]) \/ y \in Elements(replay[c]) => y \notin InFlight(c)'
      <4> SUFFICES ASSUME NEW y, y \in InFlight(c)',
                          y \in Elements(seen[c]) \/ y \in Elements(chan[c]) \/ y \in Elements(replay[c])
                   PROVE  FALSE
        OBVIOUS
      <4>1. y \notin InFlight(c)
        BY <3>1 DEF Apart, Separate
      <4>2. y = x /\ c \in subs[s] /\ Got(c, y)
        BY <2>4, <4>1 DEF Got
      <4> QED BY <3>2, <4>2
    <3> QED BY <1>1, <3>1, <3>3 DEF Apart, Separate
  <2> QED BY <2>5, <2>6
<1> QED BY <1>6, <1>8, <1>12, <1>13 DEF OnceInv

\* Joining: the copied history is all the handler has, and a goroutine that is started is the
\* first of its stream or makes it one that was run twice.
LEMMA SubscribeJoinOnce ==
  ASSUME IInv, IInv', DataTypes, OnceInv, NEW c \in Subscribers, SubscribeJoin(c), NEW s, s = sub[c].stream
  PROVE  OnceInv'
<1> DEFINE n == [sub[c] EXCEPT !.pc = "reading", !.late = stopping[s]]
<1>1. sub[c] \in SubRecords /\ sub[c].pc = "join" /\ s \in Streams
  BY DEF SubscribeJoin, IInv, Types, SubInv
<1>2. n.stream = s /\ n.pc = "reading"
  BY <1>1 DEF SubRecords
<1>3. SubAt(c, n) /\ replay' = [replay EXCEPT ![c] = history[s]] /\ subs' = [subs EXCEPT ![s] = subs[s] \cup {c}]
      /\ UNCHANGED <<history, chan, seen, written>>
  BY DEF SubscribeJoin, CopyHistory
<1> HIDE DEF n
<1>4. sub'[c] = n /\ \A d \in Subscribers : d # c => sub'[d] = sub[d]
  BY <1>3 DEF SubAt, IInv, Types
<1>5. replay'[c] = history[s] /\ \A d \in Subscribers : d # c => replay'[d] = replay[d]
  BY <1>1, <1>3 DEF DataTypes
<1>6. subs'[s] = subs[s] \cup {c} /\ \A t \in Streams : t # s => subs'[t] = subs[t]
  BY <1>1, <1>3 DEF IInv, Types
<1>7. \A q \in Runs : run'[q] = run[q] \/ (run[q].pc = "unborn" /\ run'[q] = [NoRun EXCEPT !.stream = s, !.pc = "top"])
  <2>1. CASE UNCHANGED run
    BY <2>1
  <2>2. CASE StartRun(s)
    <3>1. runs + 1 \in Runs /\ run[runs + 1].pc = "unborn"
      <4>1. runs < MaxRuns /\ runs \in 0..MaxRuns
        BY <2>2 DEF StartRun, IInv, Types
      <4>2. runs + 1 \in Runs /\ runs + 1 > runs
        BY <4>1, SMT
      <4> QED BY <4>2 DEF IInv, RunInv
    <3>2. run'[runs + 1] = [NoRun EXCEPT !.stream = s, !.pc = "top"] /\ \A q \in Runs : q # runs + 1 => run'[q] = run[q]
      BY <2>2, <3>1 DEF StartRun, Step, IInv, Types
    <3> QED BY <3>1, <3>2
  <2> QED BY <2>1, <2>2 DEF SubscribeJoin, runVars
<1> DEFINE m == [NoRun EXCEPT !.stream = s, !.pc = "top"]
<1>8. m.stream = s /\ m.pc = "top" /\ m.next = 1 /\ m.upto = 0 /\ m.fan = {} /\ m.sentHistory = FALSE /\ m.line = 0
  BY DEF NoRun
<1>9. \A q \in Runs : run'[q] = run[q] \/ (run[q].pc = "unborn" /\ run'[q] = m)
  BY <1>7
<1> HIDE DEF m
<1>10. \A q \in Runs : run[q].pc = "unborn" => run[q].fan = {} /\ run[q].stream = Nil
  BY DEF IInv, FanInv, OnceInv, RunOrder, InOrder
<1>11. RunOrder'
  <2>1. 1 >= 1 /\ 1 <= written + 1 /\ 0 <= written
    BY SMT DEF IInv, Types
  <2>2. InOrder(m, written)
    BY <1>8, <2>1 DEF InOrder
  <2> QED BY <1>3, <1>9, <2>2 DEF OnceInv, RunOrder
<1>12. \A q \in Runs : run'[q].fan = run[q].fan /\ (run[q].fan # {} => run'[q] = run[q])
  BY <1>8, <1>9, <1>10
<1>13. Onward
  <2>1. \A q \in Runs : run[q].stream \in Streams => run'[q] = run[q]
    <3>1. Nil \notin Streams
      BY SMT
    <3> QED BY <1>9, <1>10, <3>1
  <2>2. \A q \in Runs : run[q].next \in Nat
    BY DEF IInv, Types, RunRecords
  <2>3. \A q \in Runs : run[q].next <= run[q].next
    BY <2>2, SMT
  <2> QED BY <2>1, <2>3 DEF Onward
<1>14. /\ \A t \in Streams : c \notin subs[t]
       /\ \A q \in Runs : c \notin run[q].fan
       /\ seen[c] = <<>> /\ chan[c] = <<>>
  BY <1>1 DEF OnceInv, Membership
<1>15. Membership'
  <2>1. ASSUME NEW d \in Subscribers, sub'[d].pc \in {"new", "join"}
        PROVE  /\ \A t \in Streams : d \notin subs'[t]
               /\ \A q \in Runs : d \notin run'[q].fan
               /\ seen[d] = <<>> /\ chan[d] = <<>> /\ replay'[d] = <<>>
    <3>1. d # c
      BY <1>2, <1>4, <2>1
    <3>2. /\ \A t \in Streams : d \notin subs[t]
          /\ \A q \in Runs : d \notin run[q].fan
          /\ seen[d] = <<>> /\ chan[d] = <<>> /\ replay[d] = <<>>
      BY <1>4, <2>1, <3>1 DEF OnceInv, Membership
    <3>3. \A t \in Streams : d \notin subs'[t]
      BY <1>6, <3>1, <3>2
    <3> QED BY <1>5, <1>12, <3>1, <3>2, <3>3
  <2>2. ASSUME NEW d \in Subscribers, Joined(d)'
        PROVE  /\ \A t \in Streams : d \in subs'[t] => t = sub'[d].stream
               /\ \A q \in Runs : d \in run'[q].fan => run'[q].stream = sub'[d].stream
    <3>1. CASE d = c
      BY <1>2, <1>4, <1>6, <1>12, <1>14, <3>1
    <3>2. CASE d # c
      <4>1. Joined(d) /\ sub'[d].stream = sub[d].stream
        BY <1>4, <2>2, <3>2 DEF Joined
      <4>2. /\ \A t \in Streams : d \in subs[t] => t = sub[d].stream
            /\ \A q \in Runs : d \in run[q].fan => run[q].stream = sub[d].stream
        BY <4>1 DEF OnceInv, Membership
      <4> QED BY <1>6, <1>12, <3>2, <4>1, <4>2
    <3> QED BY <3>1, <3>2
  <2> QED BY <1>3, <2>1, <2>2 DEF Membership
<1>16. \A t \in Streams : /\ \A y \in Elements(history[t]) : y \in Nat /\ Before(y, t)'
                          /\ RunOnce(t)' => RunOnce(t) /\ Distinct(history[t])
  <2> SUFFICES ASSUME NEW t \in Streams
               PROVE  /\ \A y \in Elements(history[t]) : y \in Nat /\ Before(y, t)'
                      /\ RunOnce(t)' => RunOnce(t) /\ Distinct(history[t])
    OBVIOUS
  <2>1. history[t] \in Seq(Nat)
    BY DEF DataTypes
  <2>2. Elements(history[t]) \subseteq Nat
    BY <2>1, ElementsNat
  <2> QED BY <1>13, <2>2, OnwardKeeps DEF IInv, OnceInv, HistoryOnce
<1>17. HistoryOnce'
  BY <1>3, <1>16 DEF HistoryOnce
<1>18. \A d \in Subscribers : InFlight(d)' = InFlight(d)
  <2> SUFFICES ASSUME NEW d \in Subscribers, NEW x PROVE x \in InFlight(d)' <=> x \in InFlight(d)
    OBVIOUS
  <2>1. x \in InFlight(d) <=> \E q \in Runs : d \in run[q].fan /\ run[q].line = x
    BY DEF InFlight
  <2>2. x \in InFlight(d)' <=> \E q \in Runs : d \in run'[q].fan /\ run'[q].line = x
    BY DEF InFlight
  <2> QED BY <1>12, <2>1, <2>2
<1>19. DeliveredOnce'
  <2>1. Elements(<<>>) = {} /\ Distinct(<<>>)
    BY SMT DEF Elements, Distinct
  <2>2. InFlight(c) = {}
    BY <1>14 DEF InFlight
  <2>3. (\A x \in Nat : Got(c, x)' => Before(x, s)') /\ (RunOnce(s)' => Apart(c)')
    <3>1. seen'[c] = <<>> /\ chan'[c] = <<>> /\ replay'[c] = history[s] /\ InFlight(c)' = {}
      BY <1>3, <1>5, <1>14, <1>18, <2>2
    <3>2. \A x \in Nat : Got(c, x)' => Before(x, s)'
      BY <1>1, <1>16, <2>1, <3>1 DEF Got
    <3>3. ASSUME RunOnce(s)' PROVE Apart(c)'
      BY <1>1, <1>16, <2>1, <3>1, <3>3 DEF Apart, Separate
    <3> QED BY <3>2, <3>3
  <2>4. ASSUME NEW d \in Subscribers, d # c, Joined(d)
        PROVE  /\ \A x \in Nat : Got(d, x)' => Before(x, sub[d].stream)'
               /\ RunOnce(sub[d].stream)' => Apart(d)'
    <3> SUFFICES ASSUME NEW t, t = sub[d].stream, sub'[d].stream = t
                 PROVE  (\A x \in Nat : Got(d, x)' => Before(x, t)') /\ (RunOnce(t)' => Apart(d)')
      BY <1>4, <2>4
    <3>1. t \in Streams
      BY <2>4 DEF IInv, SubInv, Joined
    <3>2. (\A x \in Nat : Got(d, x) => Before(x, t)) /\ (RunOnce(t) => Apart(d))
      BY <2>4 DEF OnceInv, DeliveredOnce
    <3>3. (\A x \in Nat : Before(x, t) => Before(x, t)') /\ (RunOnce(t)' => RunOnce(t))
      BY <1>13, <3>1, OnwardKeeps DEF IInv
    <3>4. (\A x \in Nat : Got(d, x)' <=> Got(d, x)) /\ (Apart(d) => Apart(d)')
      BY <1>3, <1>5, <1>18, <2>4 DEF Got, Apart
    <3> QED BY <3>2, <3>3, <3>4
  <2>5. ASSUME NEW d \in Subscribers, Joined(d)'
        PROVE  /\ \A x \in Nat : Got(d, x)' => Before(x, sub[d].stream)'
               /\ RunOnce(sub[d].stream)' => Apart(d)'
    <3>1. CASE d = c
      <4>1. sub'[c].stream = s
        BY <1>2, <1>4
      <4> QED BY <2>3, <3>1, <4>1
    <3>2. CASE d # c
      BY <1>4, <2>4, <2>5, <3>2 DEF Joined
    <3> QED BY <3>1, <3>2
  <2> QED BY <2>5 DEF DeliveredOnce
<1> QED BY <1>11, <1>15, <1>17, <1>19 DEF OnceInv

\* In the beginning nothing was read.
LEMMA InitOnce == Init => OnceInv
<1> SUFFICES ASSUME Init PROVE OnceInv
  OBVIOUS
<1>1. NoRun.pc = "unborn" /\ NoRun.next = 1 /\ NoRun.upto = 0 /\ NoRun.fan = {} /\ NoRun.stream = Nil
      /\ NewSub.pc = "new" /\ 1 >= 1 /\ 1 <= 0 + 1 /\ 0 <= 0
  BY SMT DEF NoRun, NewSub
<1>2. RunOrder
  BY <1>1 DEF Init, RunOrder, InOrder
<1>3. \A c \in Subscribers : ~Joined(c)
  BY <1>1 DEF Init, Joined
<1>4. Membership
  BY <1>1, <1>3 DEF Init, Membership
<1>5. Elements(<<>>) = {} /\ Distinct(<<>>)
  BY SMT DEF Elements, Distinct
<1>6. HistoryOnce
  BY <1>5 DEF Init, HistoryOnce
<1> QED BY <1>2, <1>3, <1>4, <1>6 DEF OnceInv, DeliveredOnce

\* Every step keeps what is delivered apart.
LEMMA NextOnce == IInv /\ IInv' /\ DataInv /\ OnceInv /\ [Next]_vars => OnceInv'
<1> SUFFICES ASSUME IInv, IInv', DataTypes, OnceInv, [Next]_vars PROVE OnceInv'
  BY DEF DataInv
<1>1. ASSUME UNCHANGED <<run, history, chan, replay, seen, sub, subs>>, written <= written' PROVE OnceInv'
  BY <1>1, StandStill DEF Joined
<1>2. written \in Nat
  BY DEF IInv, Types
<1>3. CASE ContainerWrites
  <2>1. written <= written'
    BY <1>2, <1>3, SMT DEF ContainerWrites
  <2> QED BY <1>1, <1>3, <2>1 DEF ContainerWrites, streamVars, runVars, subVars
<1>4. CASE UNCHANGED vars
  <2>1. written <= written'
    BY <1>2, <1>4, SMT DEF vars
  <2> QED BY <1>1, <1>4, <2>1 DEF vars, streamVars, runVars, subVars
<1>5. ASSUME NEW r \in Runs, RunStream(r) PROVE OnceInv'
  BY <1>5, RunOnceInv, PublishOnce, FanOutOnce DEF RunStream
<1>6. ASSUME NEW c \in Subscribers, Release(c) PROVE OnceInv'
  BY <1>6, HandlerOnceInv, ReleaseCancelOnceInv DEF Release
<1>7. ASSUME NEW c \in Subscribers, SubscribeJoin(c) PROVE OnceInv'
  BY <1>7, SubscribeJoinOnce
<1> QED BY <1>3, <1>4, <1>5, <1>6, <1>7, HandlerOnceInv, ReplayLineOnce, ReceiveOnce DEF Next

\* A subscriber gets no line twice, through its copy of the history and the live stream or through
\* a retry, unless its stream object was run a second time.
THEOREM NoLineTwiceAlways == Spec => []NoLineTwice
<1>1. ASSUME DataInv, OnceInv PROVE NoLineTwice
  <2> SUFFICES ASSUME NEW c \in Subscribers, Joined(c), RunOnce(sub[c].stream)
               PROVE  /\ \A i, j \in DOMAIN Delivered(c) : i # j => Delivered(c)[i] # Delivered(c)[j]
                      /\ InFlight(c) \cap Elements(Delivered(c)) = {}
    BY DEF NoLineTwice
  <2>1. seen[c] \in Seq(Nat) /\ chan[c] \in Seq(Nat) /\ replay[c] \in Seq(Nat)
    BY <1>1 DEF DataInv, DataTypes
  <2>2. Apart(c)
    BY <1>1 DEF OnceInv, DeliveredOnce
  <2> DEFINE a == seen[c] \o chan[c]
  <2>3. Elements(seen[c]) \cap Elements(chan[c]) = {} /\ Distinct(seen[c]) /\ Distinct(chan[c]) /\ Distinct(replay[c])
    BY <2>2 DEF Apart, Separate
  <2>4. a \in Seq(Nat) /\ Elements(a) \subseteq Elements(seen[c]) \cup Elements(chan[c]) /\ Distinct(a)
    BY <2>1, <2>3, ElementsConcat, DistinctConcat
  <2>5. Delivered(c) = a \o replay[c]
    BY <2>1, SMT DEF Delivered
  <2> HIDE DEF a
  <2>6. Elements(a) \cap Elements(replay[c]) = {}
    BY <2>2, <2>4 DEF Apart, Separate
  <2>7. Elements(Delivered(c)) \subseteq Elements(a) \cup Elements(replay[c]) /\ Distinct(Delivered(c))
    <3>1. Elements(a \o replay[c]) \subseteq Elements(a) \cup Elements(replay[c]) /\ Distinct(a \o replay[c])
      BY <2>1, <2>3, <2>4, <2>6, DistinctConcat
    <3> QED BY <2>5, <3>1
  <2>8. InFlight(c) \cap Elements(Delivered(c)) = {}
    <3> SUFFICES ASSUME NEW y \in Elements(Delivered(c)) PROVE y \notin InFlight(c)
      OBVIOUS
    <3>1. y \in Elements(seen[c]) \/ y \in Elements(chan[c]) \/ y \in Elements(replay[c])
      BY <2>4, <2>7
    <3> QED BY <2>2, <3>1 DEF Apart, Separate
  <2> QED BY <2>7, <2>8 DEF Distinct
<1> QED BY <1>1, InitInv, InitData, InitOnce, NextInv, NextData, NextOnce, PTL DEF Spec

=============================================================================
