--------------------------- MODULE LogBroadcaster ---------------------------
(***************************************************************************)
(* Container logs (backend/internal/daemon/log_broadcaster.go, api/logs.go *)
(* and the runtimes' StreamLogs): one shared stream per container, the     *)
(* goroutine that tails and follows the container's log, the WebSocket     *)
(* handlers that subscribe to it, and the teardown when the last leaves.   *)
(*                                                                         *)
(* One container is modelled: the broadcaster's map has one entry per      *)
(* container and the entries do not interact.  Its log is the lines        *)
(* 1, 2, ... and a line is its number.  A stream object, and a run of      *)
(* runStream on it, is a number.  Retry delays are left out: a retry may   *)
(* come at any time.                                                       *)
(***************************************************************************)
EXTENDS Naturals, Sequences, FiniteSets

CONSTANTS Subscribers,       \* WebSocket connections, each serving one request
          MaxStreams,        \* bound: sharedLogStream objects in a behaviour
          MaxRuns,           \* bound: runStream goroutines in a behaviour
          MaxLines,          \* bound: lines the container writes
          LogTailLineCount,  \* lines of history kept by a stream
          Buffer             \* capacity of a subscriber's channel

ASSUME BoundsAssumption ==
  /\ MaxStreams \in Nat \ {0} /\ MaxRuns \in Nat \ {0} /\ MaxLines \in Nat
  /\ LogTailLineCount \in Nat \ {0} /\ Buffer \in Nat \ {0}

Streams == 1..MaxStreams
Runs == 1..MaxRuns
Lines == 1..MaxLines
Nil == 0

VARIABLES
  mapped,    \* b.streams[containerID], Nil when absent
  born,      \* stream objects made so far
  subs,      \* subs[s]: stream.subscribers
  cancel,    \* cancel[s]: the run stream.cancel stops, Nil when it is nil
  stopping,  \* stopping[s]: stream.stopping
  history,   \* history[s]: stream.history
  run,       \* run[r]: a runStream goroutine
  runs,      \* goroutines started so far
  sub,       \* sub[c]: a WebSocket handler
  chan,      \* chan[c]: its channel
  replay,    \* replay[c]: history lines its replay goroutine has still to send
  seen,      \* seen[c]: lines written to the WebSocket
  dropped,   \* dropped[c]: lines that met a full channel (history variable)
  written    \* lines in the container's log

streamVars == <<mapped, born, subs, cancel, stopping, history>>
runVars == <<run, runs>>
subVars == <<sub, chan, replay, seen, dropped>>
vars == <<streamVars, runVars, subVars, written>>

RunPcs == {"unborn", "top", "tail", "follow", "retry", "clean1", "clean2", "done"}
SubPcs == {"new", "join", "reading", "release", "remove", "cancel", "gone"}

NoRun == [stream |-> Nil, pc |-> "unborn", sentHistory |-> FALSE, canceled |-> FALSE,
          next |-> 1, upto |-> 0, line |-> 0, fan |-> {}]
NewSub == [pc |-> "new", stream |-> Nil, late |-> FALSE, cancel |-> Nil]

TypeOK ==
  /\ mapped \in 0..MaxStreams /\ born \in 0..MaxStreams
  /\ subs \in [Streams -> SUBSET Subscribers]
  /\ cancel \in [Streams -> 0..MaxRuns]
  /\ stopping \in [Streams -> BOOLEAN]
  /\ history \in [Streams -> Seq(Lines)]
  /\ run \in [Runs -> [stream : 0..MaxStreams, pc : RunPcs, sentHistory : BOOLEAN,
                       canceled : BOOLEAN, next : Nat, upto : Nat, line : Nat,
                       fan : SUBSET Subscribers]]
  /\ runs \in 0..MaxRuns
  /\ sub \in [Subscribers -> [pc : SubPcs, stream : 0..MaxStreams, late : BOOLEAN,
                              cancel : 0..MaxRuns]]
  /\ chan \in [Subscribers -> Seq(Lines)]
  /\ \A c \in Subscribers : Len(chan[c]) <= Buffer
  /\ \A s \in Streams : Len(history[s]) <= LogTailLineCount
  /\ replay \in [Subscribers -> Seq(Lines)]
  /\ seen \in [Subscribers -> Seq(Lines)]
  /\ dropped \in [Subscribers -> SUBSET Lines]
  /\ written \in 0..MaxLines

Init ==
  /\ mapped = Nil /\ born = 0
  /\ subs = [s \in Streams |-> {}]
  /\ cancel = [s \in Streams |-> Nil]
  /\ stopping = [s \in Streams |-> FALSE]
  /\ history = [s \in Streams |-> <<>>]
  /\ run = [r \in Runs |-> NoRun] /\ runs = 0
  /\ sub = [c \in Subscribers |-> NewSub]
  /\ chan = [c \in Subscribers |-> <<>>]
  /\ replay = [c \in Subscribers |-> <<>>]
  /\ seen = [c \in Subscribers |-> <<>>]
  /\ dropped = [c \in Subscribers |-> {}]
  /\ written = 0

\* A handler and a goroutine go on.
SubAt(c, next) == sub' = [sub EXCEPT ![c] = next]
Step(r, next) == run' = [run EXCEPT ![r] = next]

-----------------------------------------------------------------------------
(* Subscribing: two critical sections, b.mu and then stream.mu.            *)

SubscribeLookup(c) ==
  /\ sub[c].pc = "new"
  /\ IF mapped # Nil /\ ~stopping[mapped]
       THEN /\ SubAt(c, [sub[c] EXCEPT !.pc = "join", !.stream = mapped])
            /\ UNCHANGED <<mapped, born>>
       ELSE /\ born < MaxStreams
            /\ born' = born + 1
            /\ mapped' = born + 1
            /\ SubAt(c, [sub[c] EXCEPT !.pc = "join", !.stream = born + 1])
  /\ UNCHANGED <<subs, cancel, stopping, history, runVars, chan, replay, seen, dropped, written>>

\* Not in the code: starts a goroutine although the stream has one.
ShouldStartAlways(s) == ~stopping[s]

ShouldStart(s) == cancel[s] = Nil /\ ~stopping[s]

\* stream.cancel = cancel; go b.runStream(runCtx, rt, stream).
StartRun(s) ==
  /\ runs < MaxRuns
  /\ runs' = runs + 1
  /\ Step(runs + 1, [NoRun EXCEPT !.stream = s, !.pc = "top"])
  /\ cancel' = [cancel EXCEPT ![s] = runs + 1]

\* Not in the code: the new subscriber gets no history.
CopyNothing(s) == <<>>

CopyHistory(s) == history[s]

SubscribeJoin(c) ==
  LET s == sub[c].stream IN
  /\ sub[c].pc = "join"
  /\ subs' = [subs EXCEPT ![s] = @ \cup {c}]
  /\ replay' = [replay EXCEPT ![c] = CopyHistory(s)]
  /\ SubAt(c, [sub[c] EXCEPT !.pc = "reading", !.late = stopping[s]])
  /\ \/ ShouldStart(s) /\ StartRun(s)
     \/ ~ShouldStart(s) /\ UNCHANGED <<cancel, runVars>>
  /\ UNCHANGED <<mapped, born, stopping, history, chan, seen, dropped, written>>

\* A full channel loses the line.
TrySendLogLine(c, line) ==
  \/ /\ Len(chan[c]) < Buffer
     /\ chan' = [chan EXCEPT ![c] = Append(@, line)]
     /\ UNCHANGED dropped
  \/ /\ Len(chan[c]) = Buffer
     /\ dropped' = [dropped EXCEPT ![c] = @ \cup {line}]
     /\ UNCHANGED chan

\* The goroutine that replays the copied history into the channel.
ReplayLine(c) ==
  /\ replay[c] # <<>>
  /\ TrySendLogLine(c, Head(replay[c]))
  /\ replay' = [replay EXCEPT ![c] = Tail(@)]
  /\ UNCHANGED <<streamVars, runVars, sub, seen, written>>

\* handleContainerLogs writes a line to the WebSocket.
Receive(c) ==
  /\ sub[c].pc = "reading"
  /\ chan[c] # <<>>
  /\ seen' = [seen EXCEPT ![c] = Append(@, Head(chan[c]))]
  /\ chan' = [chan EXCEPT ![c] = Tail(@)]
  /\ UNCHANGED <<streamVars, runVars, sub, replay, dropped, written>>

\* The peer closes, a pong or a write times out: the deferred unsubscribe runs.
HangUp(c) ==
  /\ sub[c].pc = "reading"
  /\ SubAt(c, [sub[c] EXCEPT !.pc = "release"])
  /\ UNCHANGED <<streamVars, runVars, chan, replay, seen, dropped, written>>

-----------------------------------------------------------------------------
(* release: the stream is looked up again by the container's id.           *)

ReleaseLookup(c) ==
  /\ sub[c].pc = "release"
  /\ SubAt(c, [sub[c] EXCEPT !.pc = IF mapped = Nil THEN "gone" ELSE "remove", !.stream = mapped])
  /\ UNCHANGED <<streamVars, runVars, chan, replay, seen, dropped, written>>

\* Not in the code: the stream is stopped by the first subscriber that leaves.
LastOne(s, c) == TRUE

NobodyElse(s, c) == subs[s] \ {c} = {}

ReleaseRemove(c) ==
  LET s == sub[c].stream IN
  /\ sub[c].pc = "remove"
  /\ subs' = [subs EXCEPT ![s] = @ \ {c}]
  /\ \/ /\ NobodyElse(s, c)
        /\ stopping' = [stopping EXCEPT ![s] = TRUE]
        /\ SubAt(c, [sub[c] EXCEPT !.pc = IF cancel[s] = Nil THEN "gone" ELSE "cancel",
                                   !.cancel = cancel[s]])
     \/ /\ ~NobodyElse(s, c)
        /\ SubAt(c, [sub[c] EXCEPT !.pc = "gone"])
        /\ UNCHANGED stopping
  /\ UNCHANGED <<mapped, born, cancel, history, runVars, chan, replay, seen, dropped, written>>

\* cancel(), outside the lock.
ReleaseCancel(c) ==
  /\ sub[c].pc = "cancel"
  /\ Step(sub[c].cancel, [run[sub[c].cancel] EXCEPT !.canceled = TRUE])
  /\ SubAt(c, [sub[c] EXCEPT !.pc = "gone"])
  /\ UNCHANGED <<streamVars, runs, chan, replay, seen, dropped, written>>

-----------------------------------------------------------------------------
(* runStream: history once, then follow, with retries until canceled.      *)

LastLine(n) == IF n > LogTailLineCount THEN n - LogTailLineCount + 1 ELSE 1

\* Not in the code: every attempt tails the history again.
TailAgain(r) ==
  /\ run[r].pc = "top"
  /\ \/ /\ run[r].canceled \/ subs[run[r].stream] = {}
        /\ Step(r, [run[r] EXCEPT !.pc = "clean1"])
     \/ /\ ~run[r].canceled /\ subs[run[r].stream] # {}
        /\ Step(r, [run[r] EXCEPT !.pc = "tail", !.next = LastLine(written), !.upto = written])
  /\ UNCHANGED <<streamVars, runs, subVars, written>>

\* The top of the loop; StreamLogs reads the tail, StreamLogsFollow starts from now.
LoopTop(r) ==
  /\ run[r].pc = "top"
  /\ \/ /\ run[r].canceled \/ subs[run[r].stream] = {}
        /\ Step(r, [run[r] EXCEPT !.pc = "clean1"])
     \/ /\ ~run[r].canceled /\ subs[run[r].stream] # {}
        /\ ~run[r].sentHistory
        /\ Step(r, [run[r] EXCEPT !.pc = "tail", !.sentHistory = TRUE,
                                  !.next = LastLine(written), !.upto = written])
     \/ /\ ~run[r].canceled /\ subs[run[r].stream] # {}
        /\ run[r].sentHistory
        /\ Step(r, [run[r] EXCEPT !.pc = "follow", !.next = written + 1])
  /\ UNCHANGED <<streamVars, runs, subVars, written>>

\* The tail is emitted, or could not be read: follow what is written from now on.
StartFollow(r) ==
  /\ run[r].pc = "tail" /\ run[r].fan = {}
  /\ run[r].next > run[r].upto \/ run[r].next = LastLine(run[r].upto)
  /\ Step(r, [run[r] EXCEPT !.pc = "follow", !.next = written + 1])
  /\ UNCHANGED <<streamVars, runs, subVars, written>>

LastLines(s) ==
  IF Len(s) > LogTailLineCount THEN SubSeq(s, Len(s) - LogTailLineCount + 1, Len(s)) ELSE s

Ready(r) ==
  /\ run[r].fan = {}
  /\ \/ run[r].pc = "tail" /\ run[r].next <= run[r].upto
     \/ run[r].pc = "follow" /\ run[r].next <= written

\* publish, under stream.mu: append to the history and take the subscribers.
Publish(r) ==
  LET s == run[r].stream
      line == run[r].next IN
  /\ Ready(r)
  /\ history' = [history EXCEPT ![s] = LastLines(Append(@, line))]
  /\ Step(r, [run[r] EXCEPT !.next = line + 1, !.line = line, !.fan = subs[s]])
  /\ UNCHANGED <<mapped, born, subs, cancel, stopping, runs, subVars, written>>

\* publish, after the unlock: one subscriber after the other, in no set order.
FanOut(r, c) ==
  /\ c \in run[r].fan
  /\ TrySendLogLine(c, run[r].line)
  /\ Step(r, [run[r] EXCEPT !.fan = @ \ {c}])
  /\ UNCHANGED <<streamVars, runs, sub, replay, seen, written>>

\* The command ends: killed by the canceled context, failed, or at the end of the log.
\* Before the tail is read, requireRunning fails.
StreamEnds(r) ==
  /\ \/ run[r].pc = "follow"
     \/ run[r].pc = "tail" /\ run[r].next = LastLine(run[r].upto)
  /\ run[r].fan = {}
  /\ Step(r, [run[r] EXCEPT !.pc = IF run[r].canceled THEN "clean1" ELSE "retry"])
  /\ UNCHANGED <<streamVars, runs, subVars, written>>

\* waitBeforeLogStreamRetry.
Retry(r) ==
  /\ run[r].pc = "retry"
  /\ \/ run[r].canceled /\ Step(r, [run[r] EXCEPT !.pc = "clean1"])
     \/ Step(r, [run[r] EXCEPT !.pc = "top"])
  /\ UNCHANGED <<streamVars, runs, subVars, written>>

\* cleanupStream, first critical section.
CleanupStream(r) ==
  /\ run[r].pc = "clean1"
  /\ cancel' = [cancel EXCEPT ![run[r].stream] = Nil]
  /\ stopping' = [stopping EXCEPT ![run[r].stream] = FALSE]
  /\ Step(r, [run[r] EXCEPT !.pc = "clean2"])
  /\ UNCHANGED <<mapped, born, subs, history, runs, subVars, written>>

\* cleanupStream, second critical section: only its own entry is removed.
CleanupMap(r) ==
  /\ run[r].pc = "clean2"
  /\ mapped' = IF mapped = run[r].stream THEN Nil ELSE mapped
  /\ Step(r, [run[r] EXCEPT !.pc = "done"])
  /\ UNCHANGED <<born, subs, cancel, stopping, history, runs, subVars, written>>

RunStream(r) ==
  \/ LoopTop(r) \/ StartFollow(r) \/ Publish(r) \/ StreamEnds(r) \/ Retry(r)
  \/ CleanupStream(r) \/ CleanupMap(r)
  \/ \E c \in Subscribers : FanOut(r, c)

ContainerWrites ==
  /\ written < MaxLines
  /\ written' = written + 1
  /\ UNCHANGED <<streamVars, runVars, subVars>>

Release(c) == ReleaseLookup(c) \/ ReleaseRemove(c) \/ ReleaseCancel(c)

Next ==
  \/ \E c \in Subscribers : \/ SubscribeLookup(c) \/ SubscribeJoin(c)
                            \/ ReplayLine(c) \/ Receive(c) \/ HangUp(c) \/ Release(c)
  \/ \E r \in Runs : RunStream(r)
  \/ ContainerWrites

Spec == Init /\ [][Next]_vars

\* Goroutines run; a command whose context is canceled is killed.
FairSpec ==
  /\ Spec
  /\ \A c \in Subscribers : WF_vars(Release(c))
  /\ \A r \in Runs : /\ WF_vars(RunStream(r))
                     /\ WF_vars(run[r].canceled /\ (StreamEnds(r) \/ Retry(r)))

-----------------------------------------------------------------------------
(* Properties.                                                             *)

InLoop(r) == run[r].pc \in {"top", "tail", "follow", "retry", "clean1"}

\* A stream object is served by one goroutine at a time, the one stream.cancel stops, so
\* that cancelling it stops the lines of the stream; cleanupStream runs in two critical
\* sections and a late subscriber may restart the stream between them.
OneRunPerStream ==
  \A r \in Runs : InLoop(r) <=> (run[r].stream \in Streams /\ cancel[run[r].stream] = r)

Joined(c) == sub[c].pc = "reading"

\* A subscriber that joined a stream nobody was tearing down has a goroutine serving it
\* that is not cancelled under it, whoever else leaves.
JoinedIsServed ==
  \A c \in Subscribers : Joined(c) /\ ~sub[c].late =>
    \E r \in Runs : InLoop(r) /\ run[r].stream = sub[c].stream /\ ~run[r].canceled

\* Not true of the code: who joins a stream between its stop and its cleanup starts no
\* goroutine, and cleanupStream starts none for it.
EveryJoinIsServed ==
  \A c \in Subscribers : Joined(c) =>
    \E r \in Runs : InLoop(r) /\ run[r].stream = sub[c].stream /\ ~run[r].canceled

InFlight(c) == {run[r].line : r \in {q \in Runs : c \in run[q].fan}}
Delivered(c) == seen[c] \o chan[c] \o replay[c]
Elements(q) == {q[i] : i \in DOMAIN q}

\* Joining is atomic with publishing: a subscriber is owed every line of its stream's
\* history, and it has it, is about to get it, or lost it to its own full channel.
NoSilentLoss ==
  \A c \in Subscribers : Joined(c) =>
    Elements(history[sub[c].stream]) \subseteq
      Elements(Delivered(c)) \cup InFlight(c) \cup dropped[c]

\* The stream object had no second goroutine.
RunOnce(s) == \A q, r \in Runs : run[q].stream = s /\ run[r].stream = s => q = r

\* Nor does it get a line twice, through its copy of the history and the live stream or
\* through a retry, unless its stream object was run a second time.
NoLineTwice ==
  \A c \in Subscribers : Joined(c) /\ RunOnce(sub[c].stream) =>
    /\ \A i, j \in DOMAIN Delivered(c) : i # j => Delivered(c)[i] # Delivered(c)[j]
    /\ InFlight(c) \cap Elements(Delivered(c)) = {}

\* "tears the stream down when the last one leaves": once every subscriber is gone no
\* goroutine goes on following the container's log.
TornDown ==
  (\A c \in Subscribers : sub[c].pc = "gone") ~> (\A r \in Runs : ~InLoop(r))

=============================================================================
