--------------------------- MODULE ContainerList ----------------------------
(***************************************************************************)
(* The shared container list of the guest engine (Guest.ListContainers and *)
(* cachedListContainers in backend/internal/runtime/guest_darwin.go): a    *)
(* cache that lives two seconds, one docker ps in flight for all callers,  *)
(* the last list in place of an error, and the operations that drop the    *)
(* cache.  Who calls it, and what is done with the lists, is               *)
(* ContainerViews.                                                         *)
(*                                                                         *)
(* past is the history of the engine's containers; a list is the position  *)
(* in it that docker ps saw, with 0 for no list.                           *)
(***************************************************************************)
EXTENDS Naturals, Sequences

CONSTANTS Containers,
          Callers,      \* goroutines that list containers
          Reader,       \* one of them, whose lists are remembered
          None,
          MaxChanges,   \* bound: changes of the containers
          Plans         \* bounds: who calls, how often what happens; and the reserved ports

ASSUME CallersAssumption == None \notin Callers /\ Reader \in Callers

VARIABLES
  past,       \* past[n]: the state of every container after n - 1 changes
  up,         \* Guest.started
  cache,      \* listCache
  fresh,      \* listCacheAt is less than containersListCacheTTL ago
  inflight,   \* listInflight: its owner, or None
  landed,     \* listInflightValue, 0 for listInflightErr
  call,       \* call[x]: where a ListContainers call is, and its list
  seen,       \* the last list Reader was given (history)
  api,        \* an API operation on a container
  left        \* the plan of this behaviour, less what has happened

listVars == <<past, cache, fresh, inflight, landed, call, seen, api, left>>

ContainerStates == {"run", "stop", "gone"}
Lists == 0..(MaxChanges + 1)
CallPcs == {"idle", "look", "ps", "land", "wait", "woken", "sync", "store", "fail", "use"}
Idle == [at |-> "idle", list |-> 0]
NoOp == [at |-> "idle", on |-> None]

ListTypeOK ==
  /\ past \in Seq([Containers -> ContainerStates]) /\ Len(past) \in Lists \ {0}
  /\ up \in BOOLEAN /\ fresh \in BOOLEAN
  /\ cache \in Lists /\ landed \in Lists
  /\ call \in [Callers -> [at : CallPcs, list : Lists]]
  /\ inflight \in {x \in Callers : call[x].at \in {"ps", "land"}} \cup {None}
  /\ seen \in Lists
  /\ left.who \subseteq Callers
  /\ api \in [at : {"idle", "stop", "remove", "forget"}, on : Containers \cup {None}]

ListInit ==
  /\ past \in {<<s>> : s \in [Containers -> {"run", "stop"}]}
  /\ up = TRUE
  /\ cache = 0 /\ fresh = FALSE
  /\ inflight = None /\ landed = 0
  /\ call = [x \in Callers |-> Idle]
  /\ seen = 0
  /\ api = NoOp
  /\ left \in Plans

Spend(what) == left[what] > 0 /\ left' = [left EXCEPT ![what] = @ - 1]

Now == Len(past)
StateNow(c) == past[Now][c]
Goto(x, l) == call' = [call EXCEPT ![x].at = l]
Given(x, n) == call' = [call EXCEPT ![x] = [at |-> IF n = 0 THEN "fail" ELSE "sync", list |-> n]]

\* append([]Container(nil), list...) of an empty list is nil: it does not count as cached.
Cached(n) == IF \A c \in Containers : past[n][c] = "gone" THEN 0 ELSE n

KeepLastList(last, live) == IF live = 0 THEN last ELSE live

-----------------------------------------------------------------------------
(* Guest.ListContainers.                                                   *)

\* emptyIfStopped; a caller that finds the engine stopped is given no containers and does
\* nothing with them.
Begin(x) ==
  /\ call[x].at = "idle" /\ up /\ x \in left.who
  /\ Goto(x, "look")
  /\ UNCHANGED <<past, up, cache, fresh, inflight, landed, seen, api, left>>

\* Not in the code: serves the cache whatever its age.
LookAnyAge(x) ==
  /\ call[x].at = "look" /\ up
  /\ \/ cache # 0 /\ Given(x, cache) /\ UNCHANGED inflight
     \/ cache = 0 /\ inflight # None /\ Goto(x, "wait") /\ UNCHANGED inflight
     \/ cache = 0 /\ inflight = None /\ inflight' = x /\ Goto(x, "ps")
  /\ UNCHANGED <<past, up, cache, fresh, landed, seen, api, left>>

\* The engine was stopped since: an empty list and no error.  Otherwise, under listMu: the
\* cache, the docker ps in flight, or one of its own.
Look(x) ==
  /\ call[x].at = "look"
  /\ \/ ~up /\ Goto(x, "use") /\ UNCHANGED inflight
     \/ up /\ fresh /\ cache # 0 /\ Given(x, cache) /\ UNCHANGED inflight
     \/ up /\ ~(fresh /\ cache # 0) /\ inflight # None /\ Goto(x, "wait") /\ UNCHANGED inflight
     \/ up /\ ~(fresh /\ cache # 0) /\ inflight = None /\ inflight' = x /\ Goto(x, "ps")
  /\ UNCHANGED <<past, up, cache, fresh, landed, seen, api, left>>

\* docker ps, with its retries.
Ps(x) ==
  /\ call[x].at = "ps" /\ up
  /\ call' = [call EXCEPT ![x] = [at |-> "land", list |-> Now]]
  /\ UNCHANGED <<past, up, cache, fresh, inflight, landed, seen, api, left>>

\* It fails, or the context of the one caller who runs it is over.
PsFails(x) ==
  /\ call[x].at = "ps"
  /\ up => Spend("fails")
  /\ ~up => UNCHANGED left
  /\ call' = [call EXCEPT ![x] = [at |-> "land", list |-> 0]]
  /\ UNCHANGED <<past, up, cache, fresh, inflight, landed, seen, api>>

Woken(x, n) ==
  [y \in Callers |-> IF y = x THEN [at |-> IF n = 0 THEN "fail" ELSE "sync", list |-> n]
                     ELSE IF call[y].at = "wait" THEN [call[y] EXCEPT !.at = "woken"]
                     ELSE call[y]]

\* Under listMu: the cache, the value and error for the waiters, and their wake-up.
Land(x) ==
  /\ call[x].at = "land"
  /\ LET live == call[x].list
         got == KeepLastList(cache, live)
     IN /\ cache' = IF live = 0 THEN cache ELSE Cached(live)
        /\ fresh' = (fresh \/ live # 0)
        /\ landed' = got
        /\ call' = Woken(x, got)
  /\ inflight' = None
  /\ UNCHANGED <<past, up, seen, api, left>>

\* A waiter locks again and reads what the last docker ps left there.
Collect(x) ==
  /\ call[x].at = "woken"
  /\ Given(x, landed)
  /\ UNCHANGED <<past, up, cache, fresh, inflight, landed, seen, api, left>>

\* The context of a waiter is over.
GiveUp(x) ==
  /\ call[x].at = "wait"
  /\ Spend("fails")
  /\ Goto(x, "fail")
  /\ UNCHANGED <<past, up, cache, fresh, inflight, landed, seen, api>>

ListStep(x) == Look(x) \/ Ps(x) \/ PsFails(x) \/ Land(x) \/ Collect(x) \/ GiveUp(x)

\* Two seconds go by.
CacheExpires ==
  /\ fresh
  /\ fresh' = FALSE
  /\ UNCHANGED <<past, up, cache, inflight, landed, call, seen, api, left>>

-----------------------------------------------------------------------------
(* Changes of the containers.                                              *)

Change(c, s) ==
  /\ up /\ Now <= MaxChanges /\ Spend("changes")
  /\ StateNow(c) # s
  /\ past' = Append(past, [past[Now] EXCEPT ![c] = s])

\* The docker CLI on the public socket, or a container that ends: the daemon does not know.
OutsideChange ==
  /\ \E c \in Containers, s \in ContainerStates : Change(c, s)
  /\ UNCHANGED <<up, cache, fresh, inflight, landed, call, seen, api>>

\* StartContainer, StopContainer or RemoveContainer: the command ...
ApiChange ==
  /\ api.at = "idle"
  /\ \E c \in Containers, s \in ContainerStates :
       /\ StateNow(c) # "gone"
       /\ Change(c, s)
       /\ api' = [at |-> IF s = "gone" THEN "remove" ELSE "stop", on |-> c]
  /\ UNCHANGED <<up, cache, fresh, inflight, landed, call, seen>>

\* ... and then invalidateContainersCache.  A docker ps that is in flight is not called back.
Invalidate ==
  /\ api.at \in {"stop", "remove"}
  /\ cache' = 0 /\ fresh' = FALSE
  /\ api' = IF api.at = "remove" THEN [api EXCEPT !.at = "forget"] ELSE NoOp
  /\ UNCHANGED <<past, up, inflight, landed, call, seen, left>>

-----------------------------------------------------------------------------

=============================================================================
