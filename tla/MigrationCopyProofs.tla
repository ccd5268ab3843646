------------------------ MODULE MigrationCopyProofs -------------------------
(***************************************************************************)
(* Configuration, Docker context and import, for any proxies, memory,      *)
(* budgets, images, volumes, containers and compose projects: the          *)
(* inductive invariants, and that every step keeps them.  The theorems are *)
(* in MigrationProofs.                                                     *)
(***************************************************************************)
EXTENDS Migration, TLAPS

USE Zenon

-----------------------------------------------------------------------------
(* Sequences.                                                              *)

\* Joining two sequences.
LEMMA Joined ==
  ASSUME NEW S, NEW s \in Seq(S), NEW t \in Seq(S)
  PROVE  /\ s \o t \in Seq(S) /\ Len(s \o t) = Len(s) + Len(t)
         /\ \A k \in 1..(Len(s) + Len(t)) : (s \o t)[k] = IF k <= Len(s) THEN s[k] ELSE t[k - Len(s)]
  BY SMT

\* Adding an entry.
LEMMA Appended ==
  ASSUME NEW S, NEW s \in Seq(S), NEW e \in S
  PROVE  /\ Append(s, e) \in Seq(S) /\ Len(Append(s, e)) = Len(s) + 1
         /\ \A k \in 1..Len(s) : Append(s, e)[k] = s[k]
         /\ Append(s, e)[Len(s) + 1] = e
  BY SMT

\* Replacing an entry.
LEMMA Replaced ==
  ASSUME NEW S, NEW s \in Seq(S), NEW i \in 1..Len(s), NEW e \in S
  PROVE  /\ [s EXCEPT ![i] = e] \in Seq(S) /\ Len([s EXCEPT ![i] = e]) = Len(s)
         /\ \A k \in 1..Len(s) : [s EXCEPT ![i] = e][k] = IF k = i THEN e ELSE s[k]
  BY SMT

-----------------------------------------------------------------------------
(* DaemonConfig.                                                           *)

\* While the latest change of the proxy met no other and did not fail, file and goroutines have
\* the setting in use; it is stored unless no goroutine has begun, and in the guest unless one is
\* under way.
Settled ==
  ~disturbed => /\ file.proxy = cfg.proxy
                /\ \A n \in 1..Len(appliers) : appliers[n].proxy = cfg.proxy
                /\ stored = cfg.proxy \/ (/\ Len(appliers) > 0
                                         /\ \A n \in 1..Len(appliers) : appliers[n].pc = "first")
                /\ inGuest = cfg.proxy \/ Len(appliers) > 0

\* The invariant of the settings.
ConfigInv == ConfigTypeOK /\ appliers \in Seq(Appliers) /\ Settled

\* Removing an entry keeps a sequence within its set, and adds no element.
LEMMA WithoutElements ==
  ASSUME NEW S, NEW s \in Seq(S), NEW i \in 1..Len(s)
  PROVE  LET t == SubSeq(s, 1, i - 1) \o SubSeq(s, i + 1, Len(s)) IN
         /\ t \in Seq(S) /\ Len(t) = Len(s) - 1
         /\ \A k \in 1..(Len(s) - 1) : \E j \in 1..Len(s) : t[k] = s[j]
<1> DEFINE a == SubSeq(s, 1, i - 1)
           b == SubSeq(s, i + 1, Len(s))
<1>0. Len(s) \in Nat /\ i \in Nat /\ 1 <= i /\ i <= Len(s)
  BY SMT
<1>1. a \in Seq(S) /\ Len(a) = i - 1 /\ \A k \in 1..(i - 1) : a[k] = s[k]
  BY SMT
<1>2. b \in Seq(S) /\ Len(b) = Len(s) - i /\ \A k \in 1..(Len(s) - i) : b[k] = s[i + k]
  BY SMT
<1> HIDE DEF a, b
<1>3. a \o b \in Seq(S) /\ Len(a \o b) = Len(a) + Len(b)
  BY <1>1, <1>2, Joined
<1>5. Len(a \o b) = Len(s) - 1
  BY <1>0, <1>1, <1>2, <1>3, SMT
<1>4. ASSUME NEW k \in 1..(Len(s) - 1) PROVE \E j \in 1..Len(s) : (a \o b)[k] = s[j]
  <2>0. k \in Int /\ k <= Len(s) - 1
    BY <1>0, SMT
  <2>1. CASE k <= i - 1
    <3>1. (a \o b)[k] = a[k] /\ k \in 1..(i - 1) /\ k \in 1..Len(s)
      BY <1>0, <1>1, <1>2, <2>0, <2>1, Joined, SMT
    <3> QED BY <1>1, <3>1
  <2>2. CASE k > i - 1
    <3>1. k - (i - 1) \in 1..(Len(s) - i) /\ (a \o b)[k] = b[k - (i - 1)]
      BY <1>0, <1>1, <1>2, <2>0, <2>2, Joined, SMT
    <3>2. b[k - (i - 1)] = s[i + (k - (i - 1))] /\ i + (k - (i - 1)) \in 1..Len(s)
      BY <1>0, <1>2, <2>0, <3>1, SMT
    <3> QED BY <3>1, <3>2
  <2>3. k <= i - 1 \/ k > i - 1
    BY <1>0, <2>0, SMT
  <2> QED BY <2>1, <2>2, <2>3
<1> QED BY <1>3, <1>4, <1>5 DEF a, b

\* A daemon that has loaded its file agrees with its engine.
LEMMA ConfigInitInv == ConfigInit => ConfigInv
<1> SUFFICES ASSUME ConfigInit PROVE ConfigInv
  OBVIOUS
<1>1. PICK p \in Proxies : cfg = [swap |-> DefaultSwap, proxy |-> p, managed |-> TRUE]
  BY DEF ConfigInit
<1>2. cfg \in Configs /\ file = cfg /\ stored = cfg.proxy /\ inGuest = cfg.proxy /\ cfg.proxy \in Proxies
  BY <1>1, HostAssumption, SMT DEF ConfigInit, Configs, DefaultSwap
<1>3. appliers = <<>> /\ requests = {} /\ up \in BOOLEAN /\ disturbed \in BOOLEAN
  BY DEF ConfigInit
<1>4. appliers \in Seq(Appliers) /\ Len(appliers) = 0
  BY <1>3, SMT
<1> QED BY <1>2, <1>3, <1>4, SMT DEF ConfigInv, ConfigTypeOK, Settled

\* Saving and loading fill in sizes and keep the rest.
LEMMA DefaultsFilled ==
  ASSUME NEW c \in Configs
  PROVE  WithDefaults(c) \in Configs /\ WithDefaults(c).proxy = c.proxy
  BY HostAssumption, SMT DEF WithDefaults, Configs, DefaultSwap

\* A request that passed the checks sets one field, to a value the field may have.
LEMMA MergedOK ==
  ASSUME cfg \in Configs, NEW u \in Updates, ValidateResourceUpdate(u)
  PROVE  Merged(u) \in Configs
<1>1. ("swap" \in DOMAIN u => u["swap"] \in 0..HostMemory)
      /\ ("proxy" \in DOMAIN u => u["proxy"] \in Proxies)
      /\ ("managed" \in DOMAIN u => u["managed"] \in BOOLEAN)
  <2>1. CASE u \in [{"swap"} -> 0..(HostMemory + 1)]
    BY <2>1, SMT DEF ValidateResourceUpdate
  <2>2. CASE u \in [{"proxy"} -> Proxies]
    BY <2>2, SMT
  <2>3. CASE u \in [{"managed"} -> BOOLEAN]
    BY <2>3, SMT
  <2> QED BY <2>1, <2>2, <2>3 DEF Updates
<1>2. cfg.swap \in 0..HostMemory /\ cfg.proxy \in Proxies /\ cfg.managed \in BOOLEAN
      /\ DOMAIN cfg = {"swap", "proxy", "managed"}
  BY DEF Configs
<1> QED BY <1>1, <1>2 DEF Merged, Configs

\* The look at the configuration that begins a request keeps the invariant.
LEMMA CheckInv == ASSUME ConfigInv, NEW c \in Clients, CheckUpdate(c) PROVE ConfigInv'
<1>1. PICK u \in Updates : /\ ValidateResourceUpdate(u)
                           /\ requests' = requests \cup {[client |-> c, update |-> u, changed |-> ProxyUpdateChanged(u)]}
  BY DEF CheckUpdate
<1>2. ProxyUpdateChanged(u) \in BOOLEAN
  BY DEF ProxyUpdateChanged
<1>3. requests' \subseteq Requests
  <2>1. [client |-> c, update |-> u, changed |-> ProxyUpdateChanged(u)] \in Requests
    BY <1>1, <1>2 DEF Requests
  <2> QED BY <1>1, <2>1 DEF ConfigInv, ConfigTypeOK
<1>4. UNCHANGED <<cfg, file, up, stored, inGuest, appliers, disturbed>>
  BY DEF CheckUpdate
<1> QED BY <1>3, <1>4 DEF ConfigInv, ConfigTypeOK, Settled

\* Its update, with the save and the goroutine it starts, does.
LEMMA UpdateInv ==
  ASSUME ConfigInv, NEW r \in requests, NEW ok \in BOOLEAN, ApplyConfigUpdate(r, ok)
  PROVE  ConfigInv'
<1> DEFINE new == Merged(r.update)
           a == Applier(new.proxy, "first")
<1>1. cfg \in Configs /\ file \in Configs /\ appliers \in Seq(Appliers) /\ disturbed \in BOOLEAN
      /\ stored \in Proxies /\ inGuest \in Proxies /\ up \in BOOLEAN /\ requests \subseteq Requests
  BY DEF ConfigInv, ConfigTypeOK
<1>2. r.update \in Updates /\ ValidateResourceUpdate(r.update) /\ r.changed \in BOOLEAN
  BY <1>1 DEF Requests
<1>3. new \in Configs /\ new.proxy \in Proxies
  BY <1>1, <1>2, MergedOK DEF Configs
<1>4. a \in Appliers /\ a.proxy = new.proxy /\ a.pc = "first"
  BY <1>3 DEF Applier, Appliers
<1>5. /\ cfg' = new /\ requests' \subseteq Requests /\ UNCHANGED <<up, stored, inGuest>>
      /\ file' = IF ok THEN WithDefaults(new) ELSE file
      /\ appliers' = IF ok /\ r.changed THEN Append(appliers, a) ELSE appliers
      /\ disturbed' = IF new.proxy = cfg.proxy THEN disturbed ELSE ~ok \/ ~r.changed \/ appliers # <<>>
  BY <1>1 DEF ApplyConfigUpdate, Save
<1> HIDE DEF new, a
<1>6. file' \in Configs /\ file'.proxy = IF ok THEN new.proxy ELSE file.proxy
  BY <1>1, <1>3, <1>5, DefaultsFilled
<1>7. disturbed' \in BOOLEAN
  BY <1>1, <1>5
<1>8. /\ appliers' \in Seq(Appliers) /\ Len(appliers') >= Len(appliers)
      /\ \A k \in 1..Len(appliers') : IF k \in 1..Len(appliers) THEN appliers'[k] = appliers[k] ELSE appliers'[k] = a
  <2>1. Len(appliers) \in Nat
    BY <1>1, SMT
  <2>2. CASE appliers' = appliers
    BY <1>1, <2>1, <2>2, SMT
  <2>3. CASE appliers' = Append(appliers, a)
    BY <1>1, <1>4, <2>1, <2>3, Appended, SMT
  <2> QED BY <1>5, <2>2, <2>3
<1>9. \A k \in 1..Len(appliers') : appliers'[k] \in Appliers
  BY <1>8, SMT
<1>10. ASSUME ~disturbed' PROVE Settled'
  <2>1. CASE new.proxy = cfg.proxy
    <3>1. /\ file.proxy = cfg.proxy
          /\ \A n \in 1..Len(appliers) : appliers[n].proxy = cfg.proxy
          /\ stored = cfg.proxy \/ (Len(appliers) > 0 /\ \A n \in 1..Len(appliers) : appliers[n].pc = "first")
          /\ inGuest = cfg.proxy \/ Len(appliers) > 0
      BY <1>5, <1>10, <2>1 DEF ConfigInv, Settled
    <3>2. \A k \in 1..Len(appliers') : appliers'[k].proxy = cfg.proxy
      BY <1>4, <1>8, <2>1, <3>1
    <3>3. Len(appliers) > 0 => Len(appliers') > 0
      BY <1>1, <1>8, SMT
    <3>4. stored = cfg.proxy \/ (Len(appliers') > 0 /\ \A n \in 1..Len(appliers') : appliers'[n].pc = "first")
      BY <1>4, <1>8, <3>1, <3>3
    <3> QED BY <1>5, <1>6, <2>1, <3>1, <3>2, <3>3, <3>4 DEF Settled
  <2>2. CASE new.proxy # cfg.proxy
    <3>1. ok /\ r.changed /\ appliers = <<>> /\ appliers' = Append(appliers, a)
      BY <1>2, <1>5, <1>10, <2>2
    <3>2. Append(<<>>, a) = <<a>>
      BY SMT
    <3>3. Len(appliers') = 1 /\ Len(appliers') > 0 /\ \A n \in 1..Len(appliers') : appliers'[n] = a
      BY <3>1, <3>2, SMT
    <3> QED BY <1>4, <1>5, <1>6, <3>1, <3>3 DEF Settled
  <2> QED BY <2>1, <2>2
<1>11. Settled'
  BY <1>10 DEF Settled
<1> QED BY <1>1, <1>3, <1>5, <1>6, <1>7, <1>8, <1>9, <1>11 DEF ConfigInv, ConfigTypeOK

\* A step of ApplyProxy keeps it: the setting is stored, and an attempt given up is noted.
LEMMA ApplyInv == ASSUME ConfigInv, NEW n \in 1..Len(appliers), ApplyProxy(n) PROVE ConfigInv'
<1>1. /\ cfg \in Configs /\ file \in Configs /\ inGuest \in Proxies /\ up \in BOOLEAN
      /\ appliers \in Seq(Appliers) /\ disturbed \in BOOLEAN /\ appliers[n] \in Appliers
      /\ requests \subseteq Requests
  BY DEF ConfigInv, ConfigTypeOK
<1>2. stored' = appliers[n].proxy /\ UNCHANGED <<cfg, file, up, inGuest, requests>>
  BY DEF ApplyProxy
<1>3. stored' \in Proxies /\ (~disturbed => stored' = cfg.proxy)
  BY <1>1, <1>2 DEF Appliers, ConfigInv, Settled
<1>4. ASSUME NEW pc \in {"write", "ensure"}, Goes(n, pc), UNCHANGED disturbed PROVE ConfigInv'
  <2> DEFINE a == [appliers[n] EXCEPT !.pc = pc]
  <2>1. a \in Appliers /\ a.proxy = appliers[n].proxy
    BY <1>1 DEF Appliers
  <2>2. appliers' = [appliers EXCEPT ![n] = a]
    BY <1>4 DEF Goes
  <2> HIDE DEF a
  <2>3. appliers' \in Seq(Appliers) /\ Len(appliers') = Len(appliers)
        /\ \A k \in 1..Len(appliers) : appliers'[k] = IF k = n THEN a ELSE appliers[k]
    BY <1>1, <2>1, <2>2, Replaced, SMT
  <2>4. \A k \in 1..Len(appliers') : appliers'[k] \in Appliers /\ appliers'[k].proxy = appliers[k].proxy
    BY <1>1, <2>1, <2>3, SMT
  <2>5. Settled'
    BY <1>2, <1>3, <1>4, <2>3, <2>4, SMT DEF ConfigInv, Settled
  <2> QED BY <1>1, <1>2, <1>3, <1>4, <2>3, <2>4, <2>5, SMT DEF ConfigInv, ConfigTypeOK
<1>5. ASSUME Ends(n), disturbed' = TRUE PROVE ConfigInv'
  <2>1. appliers' \in Seq(Appliers)
    BY <1>1, <1>5, WithoutElements DEF Ends, Without
  <2>2. \A k \in 1..Len(appliers') : appliers'[k] \in Appliers
    BY <2>1, SMT
  <2> QED BY <1>1, <1>2, <1>3, <1>5, <2>1, <2>2, SMT DEF ConfigInv, ConfigTypeOK, Settled
<1> QED BY <1>4, <1>5 DEF ApplyProxy

\* A goroutine that ends, having written its setting into the guest or noting that it did not,
\* keeps it.
LEMMA EndsInv ==
  ASSUME ConfigInv, NEW n \in 1..Len(appliers), Ends(n), UNCHANGED <<cfg, file, up, stored, requests>>,
         \/ disturbed' = TRUE /\ inGuest' = inGuest
         \/ /\ disturbed' = disturbed /\ inGuest' = appliers[n].proxy
            /\ appliers[n].pc # "first"
  PROVE  ConfigInv'
<1>1. /\ cfg \in Configs /\ file \in Configs /\ up \in BOOLEAN /\ stored \in Proxies
      /\ appliers \in Seq(Appliers) /\ disturbed \in BOOLEAN /\ appliers[n] \in Appliers
      /\ inGuest \in Proxies /\ requests \subseteq Requests
  BY DEF ConfigInv, ConfigTypeOK
<1>2. appliers' \in Seq(Appliers) /\ Len(appliers') = Len(appliers) - 1
      /\ \A k \in 1..Len(appliers') : \E j \in 1..Len(appliers) : appliers'[k] = appliers[j]
  <2>1. appliers' = Without(n)
    BY DEF Ends
  <2>2. /\ Without(n) \in Seq(Appliers) /\ Len(Without(n)) = Len(appliers) - 1
        /\ \A k \in 1..(Len(appliers) - 1) : \E j \in 1..Len(appliers) : Without(n)[k] = appliers[j]
    BY <1>1, WithoutElements DEF Without
  <2> QED BY <2>1, <2>2
<1>3. inGuest' \in Proxies /\ disturbed' \in BOOLEAN
  BY <1>1 DEF Appliers
<1>4. \A k \in 1..Len(appliers') : appliers'[k] \in Appliers
  BY <1>2, SMT
<1>5. ASSUME ~disturbed' PROVE Settled'
  <2>1. ~disturbed /\ inGuest' = appliers[n].proxy /\ appliers[n].pc # "first"
    BY <1>1, <1>5
  <2>2. file.proxy = cfg.proxy /\ inGuest' = cfg.proxy
        /\ \A j \in 1..Len(appliers) : appliers[j].proxy = cfg.proxy
    BY <2>1 DEF ConfigInv, Settled
  <2>3. stored = cfg.proxy
    BY <2>1, SMT DEF ConfigInv, Settled
  <2>4. \A k \in 1..Len(appliers') : appliers'[k].proxy = cfg.proxy
    BY <1>2, <2>2
  <2> QED BY <2>2, <2>3, <2>4 DEF Settled
<1>6. Settled'
  BY <1>5 DEF Settled
<1> QED BY <1>1, <1>2, <1>3, <1>4, <1>6 DEF ConfigInv, ConfigTypeOK

\* The end of a start, which applies a stored proxy once more, keeps it: rest are the goroutines
\* of before, one of them perhaps further on.
LEMMA StartsInv ==
  ASSUME ConfigInv, NEW rest \in Seq(Appliers), StartsWith(rest),
         UNCHANGED <<cfg, file, stored, inGuest, requests>>,
         Len(rest) = Len(appliers),
         \A k \in 1..Len(rest) : rest[k].proxy = appliers[k].proxy,
         rest # appliers => (~disturbed => stored = cfg.proxy)
  PROVE  ConfigInv'
<1>1. /\ cfg \in Configs /\ file \in Configs /\ stored \in Proxies /\ inGuest \in Proxies
      /\ disturbed \in BOOLEAN /\ appliers \in Seq(Appliers) /\ requests \subseteq Requests
  BY DEF ConfigInv, ConfigTypeOK
<1> DEFINE a == Applier(stored, "again")
<1>2. a \in Appliers /\ a.proxy = stored
  BY <1>1 DEF Applier, Appliers
<1>3. /\ up' = TRUE
      /\ appliers' = IF stored # NoProxy THEN Append(rest, a) ELSE rest
      /\ disturbed' = (disturbed \/ (stored # NoProxy /\ \E n \in DOMAIN rest : rest[n].proxy # stored))
  BY DEF StartsWith
<1> HIDE DEF a
<1>4. appliers' \in Seq(Appliers) /\ Len(appliers') >= Len(rest)
      /\ (\A k \in 1..Len(rest) : appliers'[k] = rest[k])
      /\ \A k \in 1..Len(appliers') : k \notin 1..Len(rest) => appliers'[k] = a /\ stored # NoProxy
  <2>1. Len(rest) \in Nat
    BY SMT
  <2>2. CASE stored = NoProxy
    BY <1>3, <2>1, <2>2, SMT
  <2>3. CASE stored # NoProxy
    BY <1>2, <1>3, <2>1, <2>3, Appended, SMT
  <2> QED BY <2>2, <2>3
<1>5. disturbed' \in BOOLEAN /\ (~disturbed' => ~disturbed)
  BY <1>1, <1>3
<1>6. ~disturbed' /\ stored # NoProxy => \A k \in 1..Len(rest) : rest[k].proxy = stored
  <2>1. DOMAIN rest = 1..Len(rest)
    BY SMT
  <2>2. ~disturbed' /\ stored # NoProxy => \A k \in DOMAIN rest : rest[k].proxy = stored
    BY <1>3
  <2> QED BY <2>1, <2>2
<1>7. ASSUME ~disturbed' PROVE Settled'
  <2>1. file.proxy = cfg.proxy /\ (inGuest = cfg.proxy \/ Len(appliers) > 0)
        /\ (\A k \in 1..Len(rest) : rest[k].proxy = cfg.proxy)
        /\ (stored = cfg.proxy
             \/ (rest = appliers /\ Len(rest) > 0 /\ \A k \in 1..Len(rest) : rest[k].pc = "first"))
    BY <1>5, <1>7 DEF ConfigInv, Settled
  <2>2. CASE stored = cfg.proxy
    <3>1. \A k \in 1..Len(appliers') : appliers'[k].proxy = cfg.proxy
      BY <1>2, <1>4, <2>1, <2>2, SMT
    <3>2. inGuest = cfg.proxy \/ Len(appliers') > 0
      BY <1>1, <1>4, <2>1, SMT
    <3> QED BY <2>1, <2>2, <3>1, <3>2, SMT DEF Settled
  <2>3. CASE stored # cfg.proxy
    <3>1. /\ rest = appliers /\ Len(rest) > 0 /\ 1 \in 1..Len(rest) /\ rest[1].proxy = cfg.proxy
          /\ \A k \in 1..Len(rest) : rest[k].pc = "first"
      BY <2>1, <2>3, SMT
    <3>2. stored = NoProxy
      BY <1>6, <1>7, <2>3, <3>1, SMT
    <3>3. appliers' = appliers
      BY <1>3, <3>1, <3>2
    <3> QED BY <2>1, <3>1, <3>3 DEF Settled
  <2> QED BY <2>2, <2>3
<1>8. Settled'
  BY <1>7 DEF Settled
<1>9. up' \in BOOLEAN /\ \A k \in 1..Len(appliers') : appliers'[k] \in Appliers
  BY <1>3, <1>4, SMT
<1> QED BY <1>1, <1>4, <1>5, <1>8, <1>9 DEF ConfigInv, ConfigTypeOK

\* Every step of ConfigNext keeps it.
LEMMA ConfigNextInv == ASSUME ConfigInv, ConfigNext PROVE ConfigInv'
<1>0. appliers \in Seq(Appliers) /\ \A n \in 1..Len(appliers) : appliers[n] \in Appliers
  BY SMT DEF ConfigInv
<1>1. ASSUME NEW n \in 1..Len(appliers), WriteInVM(n) PROVE ConfigInv'
  <2>1. Ends(n) /\ UNCHANGED <<cfg, file, up, stored, requests>> /\ appliers[n].pc # "first"
    BY <1>1 DEF WriteInVM
  <2>2. \/ disturbed' = TRUE /\ inGuest' = inGuest
        \/ disturbed' = disturbed /\ inGuest' = appliers[n].proxy
    BY <1>1 DEF WriteInVM
  <2> QED BY <2>1, <2>2, EndsInv
<1>2. ASSUME NEW n \in 1..Len(appliers), EnsureRuntime(n) PROVE ConfigInv'
  <2> DEFINE a == [appliers[n] EXCEPT !.pc = "again"]
             again == [appliers EXCEPT ![n] = a]
  <2>1. appliers[n].pc = "ensure" /\ UNCHANGED <<cfg, file, stored, inGuest, requests>>
    BY <1>2 DEF EnsureRuntime
  <2>2. a \in Appliers /\ a.proxy = appliers[n].proxy /\ a.pc = "again"
    BY <1>0 DEF Appliers
  <2>3. again \in Seq(Appliers) /\ Len(again) = Len(appliers)
        /\ \A k \in 1..Len(appliers) : again[k] = IF k = n THEN a ELSE appliers[k]
    BY <1>0, <2>2, Replaced, SMT
  <2>4. \/ up /\ appliers' = again /\ UNCHANGED <<up, disturbed>>
        \/ ~up /\ StartsWith(again)
        \/ Ends(n) /\ disturbed' = TRUE /\ UNCHANGED up
    BY <1>2 DEF EnsureRuntime
  <2> HIDE DEF a, again
  <2>5. \A k \in 1..Len(again) : again[k] \in Appliers /\ again[k].proxy = appliers[k].proxy
    BY <1>0, <2>2, <2>3
  <2>6. ~disturbed => stored = cfg.proxy
    BY <2>1, SMT DEF ConfigInv, Settled
  <2>7. CASE up /\ appliers' = again /\ UNCHANGED <<up, disturbed>>
    <3>1. Settled'
      BY <2>1, <2>3, <2>5, <2>6, <2>7 DEF ConfigInv, Settled
    <3> QED BY <2>1, <2>3, <2>5, <2>7, <3>1 DEF ConfigInv, ConfigTypeOK
  <2>8. CASE StartsWith(again)
    BY <2>1, <2>3, <2>5, <2>6, <2>8, StartsInv, SMT
  <2>9. CASE Ends(n) /\ disturbed' = TRUE /\ UNCHANGED up
    BY <2>1, <2>9, EndsInv
  <2> QED BY <2>4, <2>7, <2>8, <2>9
<1>3. CASE StartEngine
  BY <1>0, <1>3, StartsInv DEF StartEngine
<1>4. CASE StopEngine
  BY <1>4 DEF StopEngine, ConfigInv, ConfigTypeOK, Settled
<1> QED BY <1>1, <1>2, <1>3, <1>4, ApplyInv DEF ConfigNext

\* The next daemon, which loads the file, begins with it.
LEMMA RestartConfigInv == ASSUME ConfigInv, RestartConfig PROVE ConfigInv'
<1>1. /\ cfg \in Configs /\ file \in Configs /\ inGuest \in Proxies /\ up \in BOOLEAN
      /\ disturbed \in BOOLEAN /\ appliers \in Seq(Appliers)
  BY DEF ConfigInv, ConfigTypeOK
<1>2. /\ cfg' = WithDefaults(file) /\ stored' = file.proxy /\ appliers' = <<>> /\ requests' = {}
      /\ disturbed' = (disturbed \/ appliers # <<>>) /\ UNCHANGED <<file, up, inGuest>>
  BY DEF RestartConfig, Load
<1>3. cfg' \in Configs /\ cfg'.proxy = file.proxy /\ stored' \in Proxies
  BY <1>1, <1>2, DefaultsFilled DEF Configs
<1>4. appliers' \in Seq(Appliers) /\ Len(appliers') = 0
  BY <1>2, SMT
<1>5. ~disturbed' => ~disturbed /\ Len(appliers) = 0
  BY <1>1, <1>2
<1>6. Settled'
  BY <1>2, <1>3, <1>4, <1>5 DEF ConfigInv, Settled
<1> QED BY <1>1, <1>2, <1>3, <1>4, <1>6, SMT DEF ConfigInv, ConfigTypeOK

\* A step that leaves the configuration alone keeps its part.
LEMMA ConfigIdleInv == ASSUME ConfigInv, UNCHANGED configVars PROVE ConfigInv'
<1>1. UNCHANGED <<cfg, file, up, stored, inGuest, appliers, requests, disturbed>>
  BY DEF configVars
<1> QED BY <1>1 DEF ConfigInv, ConfigTypeOK, Settled

-----------------------------------------------------------------------------
(* DockerContext.                                                          *)

\* The step leaves the user's choice alone while the setting is off: nobody joins the calls that
\* had seen it on, and a selection uses one up.
Keeps ==
  /\ Committed' \subseteq Committed
  /\ context # "calf" /\ context' = "calf" => Committed' # Committed

\* One worker goes on: as one that was committed already, or to a place from where it looks at
\* the setting again.
LEMMA WorkerMoves ==
  ASSUME ContextTypeOK, NEW w \in Workers, NEW step \in Steps, To(w, step)
  PROVE  /\ worker' \in [Workers -> Steps]
         /\ \/ w \in Committed
            \/ step = "idle"
            \/ w = "manager" /\ step \notin {"context", "use"}
            => Committed' \subseteq Committed
         /\ w \in Committed /\ step = "idle" => Committed' # Committed
<1>1. worker' \in [Workers -> Steps] /\ worker'[w] = step
      /\ \A v \in Workers : v # w => worker'[v] = worker[v]
  BY DEF To, ContextTypeOK
<1>2. \A v \in Workers : v # w => (v \in Committed' <=> v \in Committed)
  BY <1>1 DEF Committed
<1>3. w \in Committed' => step # "idle" /\ (step \in {"context", "use"} \/ w # "manager")
  BY <1>1 DEF Committed
<1>4. Committed' \subseteq Workers
  BY DEF Committed
<1> QED BY <1>1, <1>2, <1>3, <1>4

\* The workers' and the user's commands keep the types, and the user's choice.
LEMMA ContextNextInv ==
  ASSUME ContextTypeOK, ContextNext, UNCHANGED cfg
  PROVE  ContextTypeOK' /\ (~cfg.managed => Keeps)
<1>1. /\ context \in {"calf", "other"} /\ exists \in BOOLEAN
      /\ plugin \in {"missing", "broken", "healthy"} /\ worker \in [Workers -> Steps]
  BY DEF ContextTypeOK
<1>2. \A w \in Workers : /\ worker[w] \in {"context", "use"} => w \in Committed
                         /\ w # "manager" /\ worker[w] # "idle" => w \in Committed
  BY DEF Committed
<1>3. ASSUME NEW w \in Workers, NEW step \in Steps, To(w, step), context' = context,
             exists' \in BOOLEAN, plugin' \in {"missing", "broken", "healthy"},
             ~cfg.managed => \/ w \in Committed
                             \/ step = "idle"
                             \/ w = "manager" /\ step \notin {"context", "use"}
      PROVE  ContextTypeOK' /\ (~cfg.managed => Keeps)
  <2>1. worker' \in [Workers -> Steps] /\ (~cfg.managed => Committed' \subseteq Committed)
    BY <1>3, WorkerMoves
  <2> QED BY <1>1, <1>3, <2>1 DEF ContextTypeOK, Keeps
<1>4. ASSUME NEW w \in Workers, CheckPlugin(w) PROVE ContextTypeOK' /\ (~cfg.managed => Keeps)
  <2>1. AfterRepair(w) \in Steps /\ (w = "manager" => AfterRepair(w) = "managed")
    BY DEF AfterRepair, Steps
  <2>2. w # "manager" => w \in Committed
    BY <1>2, <1>4 DEF CheckPlugin
  <2>3. PICK step \in {AfterRepair(w), "remove"} : To(w, step)
    BY <1>4 DEF CheckPlugin
  <2>4. step \in Steps /\ (w = "manager" => step \notin {"context", "use"})
    BY <2>1, <2>3 DEF Steps
  <2>5. context' = context /\ exists' = exists /\ plugin' \in {plugin, "missing"}
    BY <1>4 DEF CheckPlugin
  <2> QED BY <1>1, <1>3, <2>2, <2>3, <2>4, <2>5
<1>5. ASSUME NEW w \in Workers, EnsureContext(w) PROVE ContextTypeOK' /\ (~cfg.managed => Keeps)
  <2>1. w \in Committed
    BY <1>2, <1>5 DEF EnsureContext
  <2>2. PICK step \in {"idle", "use"} : To(w, step)
    BY <1>5 DEF EnsureContext
  <2>3. context' = context /\ plugin' = plugin /\ exists' \in BOOLEAN
    BY <1>1, <1>5 DEF EnsureContext
  <2>4. step \in Steps
    BY <2>2 DEF Steps
  <2> QED BY <1>1, <1>3, <2>1, <2>2, <2>3, <2>4
<1>6. ASSUME NEW w \in Workers, ActivateContext(w) PROVE ContextTypeOK' /\ (~cfg.managed => Keeps)
  <2>1. w \in Committed /\ To(w, "idle") /\ "idle" \in Steps
    BY <1>2, <1>6 DEF ActivateContext, Steps
  <2>2. context' \in {"calf", context} /\ plugin' = plugin /\ exists' = exists
    BY <1>6 DEF ActivateContext
  <2>3. worker' \in [Workers -> Steps] /\ Committed' \subseteq Committed /\ Committed' # Committed
    BY <2>1, WorkerMoves
  <2> QED BY <1>1, <2>2, <2>3 DEF ContextTypeOK, Keeps
<1>7. ASSUME NEW w \in Workers, QuietStep(w) PROVE ContextTypeOK' /\ (~cfg.managed => Keeps)
  <2>1. AfterRepair(w) \in Steps /\ (w = "manager" => AfterRepair(w) = "managed")
    BY DEF AfterRepair, Steps
  <2>2. w # "manager" => w \in Committed
    BY <1>2, <1>7 DEF QuietStep, RemovePlugin, LinkPlugin
  <2>3. PICK step \in {AfterRepair(w), "link"} : To(w, step)
    BY <1>7 DEF QuietStep, RemovePlugin, LinkPlugin
  <2>4. step \in Steps /\ (w = "manager" => step \notin {"context", "use"})
    BY <2>1, <2>3 DEF Steps
  <2>5. context' = context /\ exists' = exists /\ plugin' \in {plugin, "missing", "healthy"}
    BY <1>7 DEF QuietStep, RemovePlugin, LinkPlugin
  <2> QED BY <1>1, <1>3, <2>2, <2>3, <2>4, <2>5
<1>8. CASE EnsureManaged \/ ManagerTick
  <2>1. PICK step \in {"context", "idle", "check"} : To("manager", step) /\ (~cfg.managed => step # "context")
    BY <1>8 DEF EnsureManaged, ManagerTick
  <2>2. UNCHANGED <<context, exists, plugin>>
    BY <1>8 DEF EnsureManaged, ManagerTick
  <2>3. step \in Steps /\ "manager" \in Workers /\ (~cfg.managed => step \notin {"context", "use"})
    BY <2>1 DEF Steps, Workers
  <2> QED BY <1>1, <1>3, <2>1, <2>2, <2>3
<1>9. CASE UserCommand
  <2>1. worker' = worker /\ context' \in {context, "other"}
    BY <1>9 DEF UserCommand
  <2>2. exists' \in BOOLEAN /\ plugin' \in {"missing", "broken", "healthy"}
    BY <1>1, <1>9 DEF UserCommand
  <2>3. Committed' = Committed
    BY <2>1 DEF Committed
  <2> QED BY <1>1, <2>1, <2>2, <2>3 DEF ContextTypeOK, Keeps
<1> QED BY <1>4, <1>5, <1>6, <1>7, <1>8, <1>9 DEF ContextNext, WorkerStep

\* A call of Activate does, with the setting as its caller saw it.
LEMMA ActivateInv ==
  ASSUME ContextTypeOK, NEW w \in Workers, NEW managed, Activate(w, managed), ~cfg'.managed => ~managed
  PROVE  ContextTypeOK' /\ (~cfg'.managed => Keeps)
<1>1. To(w, IF managed THEN "check" ELSE "idle") /\ UNCHANGED <<context, exists, plugin>>
  BY DEF Activate
<1>2. PICK step \in Steps : To(w, step) /\ (~cfg'.managed => step = "idle")
  BY <1>1 DEF Steps
<1>3. worker' \in [Workers -> Steps] /\ (~cfg'.managed => Committed' \subseteq Committed)
  BY <1>2, WorkerMoves
<1> QED BY <1>1, <1>3 DEF ContextTypeOK, Keeps

\* A step that leaves the workers and the files alone does.
LEMMA ContextIdleInv == ASSUME ContextTypeOK, UNCHANGED contextVars PROVE ContextTypeOK' /\ Keeps
<1>1. UNCHANGED <<context, exists, plugin, worker>>
  BY DEF contextVars
<1> QED BY <1>1 DEF ContextTypeOK, Keeps, Committed

\* The next daemon has no workers under way.
LEMMA RestartContextInv == ASSUME ContextTypeOK, RestartContext PROVE ContextTypeOK' /\ Keeps
<1>1. worker' = [w \in Workers |-> "idle"] /\ UNCHANGED <<context, exists, plugin>>
  BY DEF RestartContext
<1>2. Committed' = {}
  BY <1>1 DEF Committed
<1> QED BY <1>1, <1>2 DEF ContextTypeOK, Keeps, Steps

-----------------------------------------------------------------------------
(* What an import holds.                                                   *)

\* Phases of an import, and its status with the counts per kind.
Phases == {"idle", "running", "failed", "completed"}
Statuses == [phase : Phases, ok : [Kinds -> Nat], total : [Kinds -> Nat]]
\* Compose projects, and whatever an import takes one by one.
Projects == {ProjectOf[c] : c \in Containers} \ {Standalone}
Things == Images \cup Volumes \cup Containers \cup Projects

\* The local state of an import's goroutine.
MigRecords ==
  [pc : Pcs, st : Statuses, todo : SUBSET Things, item : Things \cup {""}, over : BOOLEAN,
   ran : SUBSET Containers, seen : SUBSET Containers, stopped : SUBSET Containers,
   migrated : SUBSET Containers]

\* What calf's engine may have.
Engines ==
  [images : SUBSET Images, volumes : [Volumes -> {"none", "empty", "part", "whole"}],
   containers : [Containers -> {"none", "created", "running"}]]

\* The types of the variables.
MigTypes ==
  /\ flag \in BOOLEAN /\ spoiled \in BOOLEAN
  /\ status \in Statuses /\ mig \in Seq(MigRecords)
  /\ source \in [Containers -> BOOLEAN] /\ calf \in Engines

-----------------------------------------------------------------------------

\* Where an import has stopped nothing on the source yet.
Early == {"preflight", "config", "images", "image", "load", "volumes", "volume", "create",
          "import", "containers"}

\* What a goroutine's local state says by itself, where it is; r: the projects raised.
MOK(m, r) ==
  /\ m.pc \in Early => m.stopped = {}
  /\ m.pc \in Early \cup {"stop", "groups"} => m.migrated = {}
  /\ m.stopped \subseteq m.ran /\ m.ran \subseteq m.seen /\ m.migrated \subseteq m.seen
  /\ m.pc \in {"image", "load"} => m.todo \subseteq Images
  /\ m.pc \in {"volume", "create", "import"} => m.todo \subseteq Volumes
  /\ m.pc = "load" => m.item \in Images \ m.todo
  /\ m.pc \in {"create", "import"} => m.item \in Volumes \ m.todo
  /\ m.pc = "stop" => m.todo \subseteq m.ran
  /\ m.pc = "compose" => m.todo \subseteq Projects
  /\ m.pc = "single" => m.todo \subseteq m.seen
  /\ m.pc = "restart" => m.todo \subseteq Containers
  /\ \A c \in m.migrated : ProjectOf[c] \in r /\ (m.pc = "compose" => ProjectOf[c] \notin m.todo)
  /\ m.pc \notin {"finish", "release"} => m.st.phase # "completed"

\* The containers a goroutine still has to answer for.
Owes(m, c) == \/ m.pc \in {"stop", "groups", "compose", "single"} /\ c \in m.stopped
              \/ m.pc = "restart" /\ c \in m.todo

\* A container the user left alone (not in t) runs on the source s, is in a project raised here
\* (in r), or import m answers for it; x: spoiled.
StopOK(m, s, r, t, x) ==
  ~x => \A c \in Containers \ t : s[c] \/ ProjectOf[c] \in r \/ Owes(m, c)

\* Volumes that engine k has whole, and containers it has or that no compose file names.
Whole(k) == {v \in Volumes : k.volumes[v] = "whole"}
Placed(k) == {c \in Containers : k.containers[c] # "none"
                \/ (ProjectOf[c] # Standalone /\ c \notin ComposeFile(ProjectOf[c]))}

\* The items of the loop that import m is in that it has not counted yet.
Waiting(m) == m.todo \cup (IF m.pc \in {"load", "create", "import"} THEN {m.item} ELSE {})

\* What the counts of a goroutine say of the engine k, where it is.
CopyOK(m, k) ==
  /\ m.pc \in {"preflight", "config", "images"} => m.st.ok["images"] = 0
  /\ m.pc \in {"image", "load"} => /\ m.st.total["images"] = Cardinality(Images)
                                   /\ m.st.ok["images"] <= Cardinality(k.images \ Waiting(m))
  /\ m.pc \in Early \ {"volume", "create", "import", "containers"} => m.st.ok["volumes"] = 0
  /\ m.pc \in {"volume", "create", "import"} =>
       /\ m.st.total["volumes"] = Cardinality(Volumes)
       /\ m.st.ok["volumes"] <= Cardinality(Whole(k) \ Waiting(m))
  /\ m.pc \in Early => m.st.ok["containers"] = 0
  /\ m.pc \in {"stop", "groups", "compose", "single"} => m.st.total["containers"] = Cardinality(Containers)
  /\ m.pc \in {"stop", "groups", "compose"} => m.st.ok["containers"] <= Cardinality(Placed(k) \cap m.migrated)
  /\ m.pc = "single" => m.st.ok["containers"] <= Cardinality(Placed(k) \cap (m.seen \ m.todo))
  /\ m.pc \in {"volumes", "volume", "create", "import", "containers", "stop", "groups", "compose",
               "single", "restart", "builds"} =>
       (m.st.ok["images"] = m.st.total["images"] => k.images = Images)
  /\ m.pc \in {"containers", "stop", "groups", "compose", "single", "restart", "builds"} =>
       (m.st.ok["volumes"] = m.st.total["volumes"] => Whole(k) = Volumes)
  /\ m.pc \in {"restart", "builds"} =>
       (m.st.ok["containers"] = m.st.total["containers"] => Placed(k) = Containers)

\* An import that completed with all counts at their totals left nothing out.
Copied(st, k) ==
  st.phase = "completed" /\ st.ok = st.total =>
    k.images = Images /\ Whole(k) = Volumes /\ Placed(k) = Containers

\* The invariant of the imports: at most the last one is at work, and the status is its own.
MigInv ==
  /\ MigTypes
  /\ \A n \in 1..Len(mig) : mig[n].stopped \subseteq mig[n].ran /\ mig[n].ran \subseteq mig[n].seen
  /\ \A n \in 1..Len(mig) : mig[n].pc # "gone" =>
       /\ flag /\ n = Len(mig) /\ status = mig[n].st
       /\ MOK(mig[n], raised) /\ StopOK(mig[n], source, raised, touched, spoiled)
       /\ CopyOK(mig[n], calf)
  /\ (\A n \in 1..Len(mig) : mig[n].pc = "gone") => StopOK(Gone, source, raised, touched, spoiled)
  /\ Copied(status, calf)

-----------------------------------------------------------------------------
(* Lemmas about a goroutine's local state.                                 *)

\* What the invariant says of the goroutine of the migration that is under way.
LEMMA Local ==
  ASSUME MigInv, NEW n \in 1..Len(mig), mig[n].pc # "gone"
  PROVE  /\ mig[n] \in MigRecords /\ flag /\ n = Len(mig) /\ status = mig[n].st
         /\ MOK(mig[n], raised) /\ StopOK(mig[n], source, raised, touched, spoiled)
         /\ CopyOK(mig[n], calf)
  BY SMT DEF MigInv, MigTypes

\* A step of that goroutine keeps the invariant if its new local state agrees with the engines.
LEMMA EmitInv ==
  ASSUME MigInv, NEW n \in 1..Len(mig), mig[n].pc # "gone", NEW m \in MigRecords, m.pc # "gone",
         Emit(n, m), flag' = flag,
         source' \in [Containers -> BOOLEAN], calf' \in Engines, spoiled' \in BOOLEAN,
         MOK(m, raised'), StopOK(m, source', raised', touched', spoiled'), CopyOK(m, calf'),
         Copied(m.st, calf')
  PROVE  MigInv'
<1>1. mig \in Seq(MigRecords) /\ flag /\ n = Len(mig) /\ flag \in BOOLEAN
  BY Local DEF MigInv, MigTypes
<1>2. mig' = [mig EXCEPT ![n] = m] /\ status' = m.st
  BY DEF Emit
<1>3. mig' \in Seq(MigRecords) /\ Len(mig') = Len(mig)
      /\ \A k \in 1..Len(mig) : mig'[k] = IF k = n THEN m ELSE mig[k]
  BY <1>1, <1>2, Replaced, SMT
<1>4. m.st \in Statuses
  BY DEF MigRecords
<1>5. MigTypes'
  BY <1>1, <1>2, <1>3, <1>4 DEF MigTypes
<1>6. \A k \in 1..Len(mig) : k # n => mig[k].pc = "gone"
  BY <1>1 DEF MigInv
<1>7. ASSUME NEW k \in 1..Len(mig'), mig'[k].pc # "gone"
      PROVE  /\ flag' /\ k = Len(mig') /\ status' = mig'[k].st
             /\ MOK(mig'[k], raised') /\ StopOK(mig'[k], source', raised', touched', spoiled')
             /\ CopyOK(mig'[k], calf')
  <2>1. k = n /\ mig'[k] = m
    BY <1>3, <1>6, <1>7
  <2> QED BY <1>1, <1>2, <1>3, <2>1
<1>8. n \in 1..Len(mig') /\ mig'[n].pc # "gone"
  BY <1>3
<1>9. \A k \in 1..Len(mig') : mig'[k].stopped \subseteq mig'[k].ran /\ mig'[k].ran \subseteq mig'[k].seen
  BY <1>3 DEF MigInv, MOK
<1> QED BY <1>2, <1>5, <1>7, <1>8, <1>9 DEF MigInv

\* A record that goes on to another place.
LEMMA Moved ==
  ASSUME NEW r \in MigRecords, NEW p \in Pcs, NEW m, m = [r EXCEPT !.pc = p]
  PROVE  /\ m \in MigRecords /\ m.pc = p /\ m.st = r.st /\ m.todo = r.todo /\ m.item = r.item
         /\ m.ran = r.ran /\ m.seen = r.seen /\ m.stopped = r.stopped /\ m.migrated = r.migrated
  BY DEF MigRecords

\* The engines, as they are.
LEMMA Engine == MigInv => /\ source \in [Containers -> BOOLEAN] /\ calf \in Engines /\ spoiled \in BOOLEAN
                          /\ calf.images \subseteq Images
                          /\ calf.volumes \in [Volumes -> {"none", "empty", "part", "whole"}]
                          /\ calf.containers \in [Containers -> {"none", "created", "running"}]
  BY DEF MigInv, MigTypes, Engines

\* A migration that fails before it has stopped anything owes nothing.
LEMMA FailedInv ==
  ASSUME MigInv, NEW n \in 1..Len(mig), mig[n].pc \in Early, Emit(n, Failed(mig[n])),
         UNCHANGED <<flag, source, calf, touched, raised, spoiled>>
  PROVE  MigInv'
<1> DEFINE r == mig[n]
           m == Failed(r)
<1>1. r \in MigRecords /\ r.pc # "gone" /\ MOK(r, raised) /\ StopOK(r, source, raised, touched, spoiled)
  BY Local DEF Early
<1>2. /\ m \in MigRecords /\ m.pc = "finish" /\ m.st.phase = "failed" /\ m.todo = {}
      /\ m.ran = r.ran /\ m.seen = r.seen /\ m.stopped = r.stopped /\ m.migrated = r.migrated
  BY <1>1 DEF Failed, MigRecords, Statuses, Phases, Pcs
<1>3. r.stopped = {} /\ r.pc # "restart"
  BY <1>1 DEF MOK, Early
<1> HIDE DEF r, m
<1>4. MOK(m, raised')
  BY <1>1, <1>2 DEF MOK, Early
<1>5. StopOK(m, source', raised', touched', spoiled')
  BY <1>1, <1>2, <1>3 DEF StopOK, Owes
<1>6. CopyOK(m, calf') /\ Copied(m.st, calf')
  BY <1>2 DEF CopyOK, Copied, Early
<1>7. source' \in [Containers -> BOOLEAN] /\ calf' \in Engines /\ spoiled' \in BOOLEAN
  BY Engine
<1> QED BY <1>1, <1>2, <1>4, <1>5, <1>6, <1>7, EmitInv DEF r, m

\* A migration that goes on to another place, where less is asked of it, keeps the invariant.
LEMMA MoveInv ==
  ASSUME MigInv, NEW n \in 1..Len(mig), mig[n].pc # "gone", NEW p \in Pcs, p # "gone", Goto(n, p),
         MOK([mig[n] EXCEPT !.pc = p], raised),
         \A c \in Containers : Owes(mig[n], c) => Owes([mig[n] EXCEPT !.pc = p], c),
         CopyOK([mig[n] EXCEPT !.pc = p], calf), Copied(mig[n].st, calf),
         UNCHANGED <<flag, source, calf, touched, raised, spoiled>>
  PROVE  MigInv'
<1> DEFINE m == [mig[n] EXCEPT !.pc = p]
<1>1. mig[n] \in MigRecords /\ StopOK(mig[n], source, raised, touched, spoiled)
  BY Local
<1>2. m \in MigRecords /\ m.pc = p /\ m.st = mig[n].st
  BY <1>1, Moved, SMT
<1>3. Emit(n, m) /\ MOK(m, raised) /\ CopyOK(m, calf) /\ Copied(m.st, calf)
  BY <1>2 DEF Goto
<1>4. \A c \in Containers : Owes(mig[n], c) => Owes(m, c)
  OBVIOUS
<1> HIDE DEF m
<1>5. StopOK(m, source, raised, touched, spoiled)
  BY <1>1, <1>4 DEF StopOK
<1>6. source \in [Containers -> BOOLEAN] /\ calf \in Engines /\ spoiled \in BOOLEAN
  BY Engine
<1> QED BY <1>2, <1>3, <1>5, <1>6, EmitInv

\* The same for a move on which nothing depends but the place: before anything is stopped.
LEMMA EarlyMoveInv ==
  ASSUME MigInv, NEW n \in 1..Len(mig), Goto(n, "config") \/ Goto(n, "images"),
         mig[n].pc \in {"preflight", "config"},
         UNCHANGED <<flag, source, calf, touched, raised, spoiled>>
  PROVE  MigInv'
<1>1. mig[n] \in MigRecords /\ mig[n].pc # "gone" /\ MOK(mig[n], raised) /\ CopyOK(mig[n], calf)
  BY Local
<1>2. PICK p \in {"config", "images"} : Goto(n, p)
  OBVIOUS
<1> DEFINE m == [mig[n] EXCEPT !.pc = p]
<1>3. p \in Pcs /\ p # "gone"
  BY DEF Pcs
<1>4. /\ m.pc = p /\ m.st = mig[n].st /\ m.todo = mig[n].todo /\ m.item = mig[n].item
      /\ m.ran = mig[n].ran /\ m.seen = mig[n].seen
      /\ m.stopped = mig[n].stopped /\ m.migrated = mig[n].migrated
  BY <1>1, <1>3, Moved, SMT
<1> HIDE DEF m
<1>5. MOK(m, raised)
  BY <1>1, <1>4 DEF MOK, Early
<1>6. CopyOK(m, calf)
  BY <1>1, <1>4 DEF CopyOK, Early
<1>7. Copied(mig[n].st, calf)
  BY <1>1 DEF MOK, Copied
<1>8. \A c \in Containers : ~Owes(mig[n], c)
  BY <1>1 DEF MOK, Owes, Early
<1> QED BY <1>1, <1>2, <1>3, <1>5, <1>6, <1>7, <1>8, MoveInv DEF m

\* The checks before the migration keep it.
LEMMA PreflightInv == ASSUME MigInv, NEW n \in 1..Len(mig), Preflight(n) PROVE MigInv'
<1>1. mig[n].pc = "preflight" /\ UNCHANGED <<flag, source, calf, touched, raised, spoiled>>
  BY DEF Preflight
<1>2. Emit(n, Failed(mig[n])) \/ Goto(n, "config")
  BY DEF Preflight, Goto
<1> QED BY <1>1, <1>2, FailedInv, EarlyMoveInv DEF Early

\* The copy of the settings does.
LEMMA MigrateConfigInv == ASSUME MigInv, NEW n \in 1..Len(mig), MigrateConfig(n) PROVE MigInv'
<1>1. mig[n].pc = "config" /\ UNCHANGED <<flag, source, calf, touched, raised, spoiled>>
  BY DEF MigrateConfig
<1>2. Emit(n, Failed(mig[n])) \/ Goto(n, "images")
  BY DEF MigrateConfig
<1> QED BY <1>1, <1>2, FailedInv, EarlyMoveInv DEF Early

-----------------------------------------------------------------------------

-----------------------------------------------------------------------------
(* The beginning of a migration, and the end of the daemon.                *)

\* A migration that starts is the only one.
LEMMA TryStartInv == ASSUME MigInv, TryStart PROVE MigInv'
<1> DEFINE m == [Gone EXCEPT !.pc = "preflight", !.st = Status("running")]
<1>1. /\ ~flag /\ flag' = TRUE /\ status' = Status("running") /\ mig' = Append(mig, m)
      /\ UNCHANGED <<source, calf, touched, raised, spoiled>>
  BY DEF TryStart
<1>2. /\ m \in MigRecords /\ m.pc = "preflight" /\ m.st = Status("running")
      /\ m.stopped = {} /\ m.migrated = {} /\ m.ran = {} /\ m.seen = {}
  BY DEF Gone, MigRecords, Pcs, IdleStatus, Status, Statuses, Phases, None
<1>3. /\ Status("running") \in Statuses /\ Status("running").phase = "running"
      /\ \A k \in Kinds : Status("running").ok[k] = 0
  BY DEF Status, Statuses, Phases, None
<1> HIDE DEF m
<1>4. mig \in Seq(MigRecords) /\ Len(mig) \in Nat
  BY SMT DEF MigInv, MigTypes
<1>5. /\ mig' \in Seq(MigRecords) /\ Len(mig') = Len(mig) + 1 /\ mig'[Len(mig) + 1] = m
      /\ \A k \in 1..Len(mig) : mig'[k] = mig[k]
  BY <1>1, <1>2, <1>4, Appended, SMT
<1>6. \A k \in 1..Len(mig) : mig[k].pc = "gone"
  BY <1>1 DEF MigInv
<1>7. StopOK(Gone, source, raised, touched, spoiled)
  BY <1>6 DEF MigInv
<1>8. MigTypes'
  BY <1>1, <1>3, <1>5 DEF MigInv, MigTypes
<1>9. MOK(m, raised')
  BY <1>2, <1>3 DEF MOK, Early
<1>10. StopOK(m, source', raised', touched', spoiled')
  <2>1. \A c \in Containers : ~Owes(Gone, c)
    BY DEF Owes, Gone
  <2> QED BY <1>1, <1>7, <2>1 DEF StopOK
<1>11. CopyOK(m, calf')
  BY <1>2, <1>3 DEF CopyOK, Early, Kinds
<1>12. Copied(status', calf')
  BY <1>1, <1>3 DEF Copied
<1>13. ASSUME NEW k \in 1..Len(mig'), mig'[k].pc # "gone"
       PROVE  k = Len(mig') /\ mig'[k] = m
  BY <1>4, <1>5, <1>6, <1>13, SMT
<1>14. Len(mig) + 1 \in 1..Len(mig') /\ mig'[Len(mig) + 1].pc # "gone"
  BY <1>2, <1>4, <1>5, SMT
<1>15. \A k \in 1..Len(mig') : mig'[k].stopped \subseteq mig'[k].ran /\ mig'[k].ran \subseteq mig'[k].seen
  <2>1. \A k \in 1..Len(mig') : k \in 1..Len(mig) \/ k = Len(mig) + 1
    BY <1>4, <1>5, SMT
  <2> QED BY <1>2, <1>5, <2>1 DEF MigInv
<1> QED BY <1>1, <1>2, <1>8, <1>9, <1>10, <1>11, <1>12, <1>13, <1>14, <1>15 DEF MigInv

\* A daemon that starts again owes nothing, or a migration was cut short.
LEMMA CrashInv == ASSUME MigInv, Crash PROVE MigInv'
<1>1. /\ flag' = FALSE /\ status' = IdleStatus /\ mig' = <<>> /\ spoiled' = (spoiled \/ Active # {})
      /\ UNCHANGED <<source, calf, touched, raised>>
  BY DEF Crash
<1>2. IdleStatus \in Statuses /\ IdleStatus.phase = "idle"
  BY DEF IdleStatus, Status, Statuses, Phases, None
<1>3. MigTypes /\ spoiled \in BOOLEAN /\ mig \in Seq(MigRecords)
  BY DEF MigInv, MigTypes
<1>4. MigTypes'
  <2>0. <<>> \in Seq(MigRecords)
    BY SMT
  <2>1. mig' \in Seq(MigRecords) /\ flag' \in BOOLEAN /\ spoiled' \in BOOLEAN
    BY <1>1, <1>3, <2>0
  <2>2. status' \in Statuses
    BY <1>1, <1>2
  <2>3. source' \in [Containers -> BOOLEAN] /\ calf' \in Engines
    BY <1>1, <1>3 DEF MigTypes
  <2> QED BY <2>1, <2>2, <2>3 DEF MigTypes
<1>5. StopOK(Gone, source', raised', touched', spoiled')
  <2>1. CASE Active # {}
    BY <1>1, <2>1 DEF StopOK
  <2>2. CASE Active = {}
    <3>1. DOMAIN mig = 1..Len(mig)
      BY <1>3, SMT
    <3>2. \A n \in 1..Len(mig) : mig[n].pc = "gone"
      BY <2>2, <3>1 DEF Active
    <3>3. StopOK(Gone, source, raised, touched, spoiled)
      BY <3>2 DEF MigInv
    <3>4. spoiled' = spoiled
      BY <1>1, <1>3, <2>2
    <3> QED BY <1>1, <3>3, <3>4
  <2> QED BY <2>1, <2>2
<1>6. Copied(status', calf')
  BY <1>1, <1>2 DEF Copied
<1>7. 1..Len(mig') = {}
  BY <1>1, SMT
<1> QED BY <1>4, <1>5, <1>6, <1>7 DEF MigInv

\* A step that leaves migrations alone keeps it.
LEMMA MigIdleInv == ASSUME MigInv, UNCHANGED migVars PROVE MigInv'
<1>1. UNCHANGED <<flag, status, mig, source, calf, touched, raised, spoiled>>
  BY DEF migVars
<1> QED BY <1>1 DEF MigInv, MigTypes

\* It holds at the start.
LEMMA MigInitInv == ASSUME Init PROVE MigInv
<1>1. /\ flag = FALSE /\ status = IdleStatus /\ mig = <<>> /\ source = [c \in Containers |-> TRUE]
      /\ spoiled = FALSE
      /\ calf = [images |-> {}, volumes |-> [v \in Volumes |-> "none"],
                 containers |-> [c \in Containers |-> "none"]]
  BY DEF Init
<1>2. IdleStatus \in Statuses /\ IdleStatus.phase = "idle"
  BY DEF IdleStatus, Status, Statuses, Phases, None
<1>3. calf \in Engines
  BY <1>1 DEF Engines
<1>4. MigTypes
  <2>0. <<>> \in Seq(MigRecords)
    BY SMT
  <2>1. mig \in Seq(MigRecords) /\ flag \in BOOLEAN /\ spoiled \in BOOLEAN
    BY <1>1, <2>0
  <2>2. status \in Statuses
    BY <1>1, <1>2
  <2>3. source \in [Containers -> BOOLEAN]
    BY <1>1
  <2> QED BY <1>3, <2>1, <2>2, <2>3 DEF MigTypes
<1>5. StopOK(Gone, source, raised, touched, spoiled) /\ Copied(status, calf)
  BY <1>1, <1>2 DEF StopOK, Copied
<1>6. 1..Len(mig) = {}
  BY <1>1, SMT
<1> QED BY <1>4, <1>5, <1>6 DEF MigInv

-----------------------------------------------------------------------------
(* Counting.                                                               *)

\* The facts about finite sets that the counts rest on: a part of a finite set, one element more, and
\* two sets without a common element.
Counting ==
  /\ Cardinality({}) = 0
  /\ \A S : IsFiniteSet(S) => Cardinality(S) \in Nat
  /\ \A S : IsFiniteSet(S) => \A T \in SUBSET S :
       /\ IsFiniteSet(T) /\ Cardinality(T) <= Cardinality(S)
       /\ Cardinality(T) = Cardinality(S) => T = S
  /\ \A S, e : IsFiniteSet(S) /\ e \notin S => Cardinality(S \cup {e}) = Cardinality(S) + 1
  /\ \A S, T : IsFiniteSet(S) /\ IsFiniteSet(T) /\ S \cap T = {} =>
       Cardinality(S \cup T) = Cardinality(S) + Cardinality(T)

\* Of a part of a finite set, a part has no more elements, and one with as many is all of it.
LEMMA Part ==
  ASSUME Counting, NEW S, IsFiniteSet(S), NEW T \in SUBSET S, NEW U \in SUBSET T
  PROVE  /\ Cardinality(T) \in Nat /\ Cardinality(U) \in Nat /\ Cardinality(S) \in Nat
         /\ Cardinality(U) <= Cardinality(T) /\ Cardinality(T) <= Cardinality(S)
         /\ Cardinality(T) = Cardinality(S) => T = S
<1>1. IsFiniteSet(T) /\ Cardinality(T) <= Cardinality(S) /\ (Cardinality(S) = Cardinality(T) => S = T)
  BY DEF Counting
<1>2. IsFiniteSet(U) /\ Cardinality(U) <= Cardinality(T)
  BY <1>1 DEF Counting
<1> QED BY <1>1, <1>2 DEF Counting

\* A new element counts one.
LEMMA OneMore ==
  ASSUME Counting, NEW S, IsFiniteSet(S), NEW T \in SUBSET S, NEW e, e \notin T
  PROVE  Cardinality(T) \in Nat /\ Cardinality(T \cup {e}) = Cardinality(T) + 1
<1>1. IsFiniteSet(T)
  BY DEF Counting
<1> QED BY <1>1 DEF Counting

\* The record a listing leaves.
AfterList(r, kind, items, total, p) == [r EXCEPT !.pc = p, !.todo = items, !.st.total[kind] = total]

\* What a listing changes of a record and what it leaves.
ListedAs(m, r, kind, items, total, p) ==
  /\ m \in MigRecords /\ m.pc = p /\ m.todo = items /\ m.item = r.item
  /\ m.ran = r.ran /\ m.seen = r.seen /\ m.stopped = r.stopped /\ m.migrated = r.migrated
  /\ m.st.phase = r.st.phase /\ m.st.ok = r.st.ok /\ m.st.total[kind] = total
  /\ \A k \in Kinds \ {kind} : m.st.total[k] = r.st.total[k]

\* The record after a listing.
LEMMA Listed ==
  ASSUME NEW r \in MigRecords, NEW kind \in Kinds, NEW items \in SUBSET Things, NEW total \in Nat,
         NEW p \in Pcs
  PROVE  ListedAs(AfterList(r, kind, items, total, p), r, kind, items, total, p)
<1> DEFINE m == AfterList(r, kind, items, total, p)
<1>1. r.st \in Statuses /\ r.st.total \in [Kinds -> Nat]
  BY DEF MigRecords, Statuses
<1> DEFINE t == [r.st.total EXCEPT ![kind] = total]
           st == [r.st EXCEPT !.total = t]
<1>2. t \in [Kinds -> Nat] /\ t[kind] = total /\ \A k \in Kinds \ {kind} : t[k] = r.st.total[k]
  BY <1>1
<1>3. m = [r EXCEPT !.pc = p, !.todo = items, !.st = st]
  BY DEF MigRecords, AfterList
<1> HIDE DEF t
<1>4. st \in Statuses /\ st.phase = r.st.phase /\ st.ok = r.st.ok /\ st.total = t
  BY <1>1, <1>2 DEF Statuses
<1> HIDE DEF st
<1> HIDE DEF m
<1>5. /\ m \in MigRecords /\ m.pc = p /\ m.todo = items /\ m.item = r.item
      /\ m.ran = r.ran /\ m.seen = r.seen /\ m.stopped = r.stopped /\ m.migrated = r.migrated
      /\ m.st = st
  BY <1>3, <1>4 DEF MigRecords
<1> QED BY <1>2, <1>4, <1>5 DEF m, ListedAs

\* What a success that counts changes of a record and what it leaves.
TalliedAs(m, r, kind) ==
  /\ m \in MigRecords /\ m.pc = r.pc /\ m.todo = r.todo /\ m.item = r.item
  /\ m.ran = r.ran /\ m.seen = r.seen /\ m.stopped = r.stopped /\ m.migrated = r.migrated
  /\ m.st.phase = r.st.phase /\ m.st.total = r.st.total /\ m.st.ok[kind] = r.st.ok[kind] + 1
  /\ \A k \in Kinds \ {kind} : m.st.ok[k] = r.st.ok[k]

\* The record after a success that counts.
LEMMA Tallied ==
  ASSUME NEW r \in MigRecords, NEW kind \in Kinds
  PROVE  TalliedAs(Counted(r, kind), r, kind)
<1>1. r.st \in Statuses /\ r.st.ok \in [Kinds -> Nat]
  BY DEF MigRecords, Statuses
<1> DEFINE o == [r.st.ok EXCEPT ![kind] = r.st.ok[kind] + 1]
           st == [r.st EXCEPT !.ok = o]
           m == Counted(r, kind)
<1>2. o \in [Kinds -> Nat] /\ o[kind] = r.st.ok[kind] + 1 /\ \A k \in Kinds \ {kind} : o[k] = r.st.ok[k]
  BY <1>1, SMT
<1>3. m = [r EXCEPT !.st = st]
  BY DEF MigRecords, Counted
<1> HIDE DEF o, m
<1>4. st \in Statuses /\ st.phase = r.st.phase /\ st.total = r.st.total /\ st.ok = o
  BY <1>1, <1>2 DEF Statuses
<1> HIDE DEF st
<1>5. /\ m \in MigRecords /\ m.pc = r.pc /\ m.todo = r.todo /\ m.item = r.item
      /\ m.ran = r.ran /\ m.seen = r.seen /\ m.stopped = r.stopped /\ m.migrated = r.migrated
      /\ m.st = st
  BY <1>3, <1>4 DEF MigRecords
<1> QED BY <1>2, <1>4, <1>5 DEF m, TalliedAs

-----------------------------------------------------------------------------
(* Images and volumes.                                                     *)

\* Before anything is stopped, a step that stops nothing keeps what a migration owes.
LEMMA EarlyStop ==
  ASSUME MigInv, NEW n \in 1..Len(mig), mig[n].pc \in Early, NEW m,
         UNCHANGED <<source, touched, raised, spoiled>>
  PROVE  StopOK(m, source', raised', touched', spoiled')
<1>1. MOK(mig[n], raised) /\ StopOK(mig[n], source, raised, touched, spoiled)
  BY Local DEF Early
<1>2. \A c \in Containers : ~Owes(mig[n], c)
  BY <1>1 DEF MOK, Owes, Early
<1> QED BY <1>1, <1>2 DEF StopOK

\* The list of images keeps the invariant.
LEMMA ListImagesInv == ASSUME Counting, MigInv, NEW n \in 1..Len(mig), ListImages(n) PROVE MigInv'
<1> DEFINE r == mig[n]
<1> DEFINE m == AfterList(r, "images", Images, Cardinality(Images), "image")
<1>1. r.pc = "images" /\ UNCHANGED <<flag, source, calf, touched, raised, spoiled>>
  BY DEF ListImages
<1>2. Emit(n, Failed(r)) \/ Emit(n, m)
  BY DEF ListImages, List, AfterList
<1>3. r \in MigRecords /\ MOK(r, raised) /\ CopyOK(r, calf)
  BY <1>1, Local
<1>4. Cardinality(Images) \in Nat /\ Images \in SUBSET Things /\ "images" \in Kinds /\ "image" \in Pcs
  BY FiniteAssumption DEF Counting, Things, Kinds, Pcs
<1>5. /\ m \in MigRecords /\ m.pc = "image" /\ m.todo = Images
      /\ m.ran = r.ran /\ m.seen = r.seen /\ m.stopped = r.stopped /\ m.migrated = r.migrated
      /\ m.st.phase = r.st.phase /\ m.st.ok = r.st.ok /\ m.st.total["images"] = Cardinality(Images)
  <2>1. ListedAs(m, r, "images", Images, Cardinality(Images), "image")
    BY <1>3, <1>4, Listed
  <2> HIDE DEF m, r
  <2> QED BY <2>1 DEF ListedAs
<1> HIDE DEF m
<1>6. MOK(m, raised)
  BY <1>1, <1>3, <1>5 DEF MOK, Early
<1>7. Cardinality(calf.images \ Waiting(m)) \in Nat
  <2>1. calf.images \ Waiting(m) \in SUBSET Images
    BY Engine
  <2> QED BY <2>1, Part, FiniteAssumption
<1>8. CopyOK(m, calf)
  BY <1>1, <1>3, <1>5, <1>7, SMTT(20) DEF CopyOK, Early
<1>9. Copied(m.st, calf)
  BY <1>6, <1>5 DEF MOK, Copied
<1>10. StopOK(m, source', raised', touched', spoiled')
  BY <1>1, EarlyStop DEF Early
<1>11. CASE Emit(n, m)
  BY <1>1, <1>5, <1>6, <1>8, <1>9, <1>10, <1>11, Engine, EmitInv
<1> QED BY <1>1, <1>2, <1>11, FailedInv DEF Early

\* A step of the copy before anything is stopped keeps the invariant if its counts agree with
\* the engine.
LEMMA EarlyEmitInv ==
  ASSUME MigInv, NEW n \in 1..Len(mig), mig[n].pc \in Early, NEW m \in MigRecords, m.pc \in Pcs \ {"gone"},
         Emit(n, m), UNCHANGED <<flag, source, touched, raised, spoiled>>, calf' \in Engines,
         MOK(m, raised), m.st.phase = mig[n].st.phase, CopyOK(m, calf')
  PROVE  MigInv'
<1>1. mig[n].pc # "gone" /\ MOK(mig[n], raised)
  BY Local DEF Early
<1>2. StopOK(m, source', raised', touched', spoiled')
  BY EarlyStop
<1>3. Copied(m.st, calf')
  BY <1>1 DEF MOK, Copied, Early
<1>4. source' \in [Containers -> BOOLEAN] /\ spoiled' \in BOOLEAN
  BY Engine
<1> QED BY <1>1, <1>2, <1>3, <1>4, EmitInv

\* A pass of a loop over items makes m of r: the loop is done, an item is taken, or one is left.
ExportedAs(m, r, loop, next, done) ==
  /\ m.st = r.st /\ m.ran = r.ran /\ m.seen = r.seen /\ m.stopped = r.stopped /\ m.migrated = r.migrated
  /\ \/ m.pc = done /\ m.todo = {} /\ r.todo = {}
     \/ m.pc = next /\ m.item \in r.todo /\ m.todo = r.todo \ {m.item}
     \/ m.pc = loop /\ m.todo \subseteq r.todo

\* What a pass of the loop over images, or over volumes, makes of the local state.
LEMMA ExportedItem ==
  ASSUME NEW n \in 1..Len(mig), mig[n] \in MigRecords, NEW loop, NEW next \in Pcs, NEW done \in Pcs,
         ExportItem(n, loop, next, done)
  PROVE  \E m \in MigRecords : Emit(n, m) /\ ExportedAs(m, mig[n], loop, next, done)
<1> DEFINE r == mig[n]
<1>1. mig[n].pc = loop /\ UNCHANGED <<flag, source, calf, touched, raised, spoiled>>
  BY DEF ExportItem
<1>2. CASE r.todo = {} /\ Goto(n, done)
  <2> DEFINE m == [r EXCEPT !.pc = done]
  <2>1. Emit(n, m)
    BY <1>2 DEF Goto
  <2>2. /\ m \in MigRecords /\ m.pc = done /\ m.st = r.st /\ m.todo = r.todo
        /\ m.ran = r.ran /\ m.seen = r.seen /\ m.stopped = r.stopped /\ m.migrated = r.migrated
    BY Moved, SMT
  <2> HIDE DEF m
  <2> QED BY <1>2, <2>1, <2>2 DEF ExportedAs
<1>3. ASSUME NEW i \in r.todo, Emit(n, [r EXCEPT !.pc = next, !.item = i, !.todo = @ \ {i}])
      PROVE  \E m \in MigRecords :
              /\ Emit(n, m) /\ m.st = r.st /\ m.ran = r.ran /\ m.seen = r.seen
              /\ m.stopped = r.stopped /\ m.migrated = r.migrated
              /\ m.pc = next /\ m.item \in r.todo /\ m.todo = r.todo \ {m.item}
  <2> DEFINE m == [r EXCEPT !.pc = next, !.item = i, !.todo = @ \ {i}]
  <2>1. Emit(n, m)
    BY <1>3
  <2>2. /\ m \in MigRecords /\ m.pc = next /\ m.st = r.st /\ m.todo = r.todo \ {i} /\ m.item = i
        /\ m.ran = r.ran /\ m.seen = r.seen /\ m.stopped = r.stopped /\ m.migrated = r.migrated
    BY DEF MigRecords
  <2> HIDE DEF m, r
  <2> QED BY <1>3, <2>1, <2>2
<1>4. ASSUME NEW i \in r.todo, Emit(n, [r EXCEPT !.todo = @ \ {i}])
      PROVE  \E m \in MigRecords :
              /\ Emit(n, m) /\ m.st = r.st /\ m.ran = r.ran /\ m.seen = r.seen
              /\ m.stopped = r.stopped /\ m.migrated = r.migrated
              /\ m.pc = loop /\ m.todo \subseteq r.todo
  <2> DEFINE m == [r EXCEPT !.todo = @ \ {i}]
  <2>1. Emit(n, m)
    BY <1>4
  <2>2. /\ m \in MigRecords /\ m.pc = r.pc /\ m.st = r.st /\ m.todo = r.todo \ {i}
        /\ m.ran = r.ran /\ m.seen = r.seen /\ m.stopped = r.stopped /\ m.migrated = r.migrated
    BY DEF MigRecords
  <2> HIDE DEF m
  <2>3. m.pc = loop /\ m.todo \subseteq r.todo
    BY <1>1, <2>2
  <2> QED BY <2>1, <2>2, <2>3
<1>5. \/ r.todo = {} /\ Goto(n, done)
      \/ \E i \in r.todo : Emit(n, [r EXCEPT !.pc = next, !.item = i, !.todo = @ \ {i}])
      \/ \E i \in r.todo : Emit(n, [r EXCEPT !.todo = @ \ {i}])
  BY DEF ExportItem
<1> QED BY <1>2, <1>3, <1>4, <1>5 DEF ExportedAs

\* A pass of the loop over images keeps the invariant.
LEMMA ExportImageInv ==
  ASSUME Counting, MigInv, NEW n \in 1..Len(mig), ExportItem(n, "image", "load", "volumes")
  PROVE  MigInv'
<1> DEFINE r == mig[n]
<1>1. r.pc = "image"
  BY DEF ExportItem
<1>2. r \in MigRecords /\ MOK(r, raised) /\ CopyOK(r, calf) /\ calf \in Engines /\ calf.images \subseteq Images
  BY <1>1, Local, Engine
<1>3. {"load", "volumes", "image"} \subseteq Pcs \ {"gone"}
  BY DEF Pcs
<1>4. UNCHANGED <<flag, source, calf, touched, raised, spoiled>>
  BY DEF ExportItem
<1>a. PICK m \in MigRecords : Emit(n, m) /\ ExportedAs(m, r, "image", "load", "volumes")
  BY <1>2, <1>3, ExportedItem
<1>5. /\ m.st = r.st /\ m.ran = r.ran /\ m.seen = r.seen /\ m.stopped = r.stopped /\ m.migrated = r.migrated
      /\ \/ m.pc = "volumes" /\ m.todo = {} /\ r.todo = {}
         \/ m.pc = "load" /\ m.item \in r.todo /\ m.todo = r.todo \ {m.item}
         \/ m.pc = "image" /\ m.todo \subseteq r.todo
  BY <1>a DEF ExportedAs
<1> DEFINE before == calf.images \ Waiting(r)
           after == calf.images \ Waiting(m)
<1>6. r.todo \subseteq Images /\ r.st.total["images"] = Cardinality(Images) /\ r.st.ok["images"] <= Cardinality(before)
      /\ r.st.ok["volumes"] = 0 /\ r.st.ok["containers"] = 0 /\ r.stopped = {} /\ r.migrated = {}
  BY <1>1, <1>2 DEF MOK, CopyOK, Early
<1>7. Waiting(m) \subseteq Waiting(r)
  BY <1>1, <1>5 DEF Waiting
<1>8. r.st.ok["images"] \in Nat
  BY <1>2 DEF MigRecords, Statuses, Kinds
<1>9. before \in SUBSET after /\ after \in SUBSET Images
  BY <1>2, <1>7
<1>10. /\ Cardinality(before) <= Cardinality(after) /\ Cardinality(before) \in Nat
       /\ Cardinality(after) \in Nat /\ Cardinality(after) <= Cardinality(Images) /\ Cardinality(Images) \in Nat
       /\ Cardinality(after) = Cardinality(Images) => after = Images
  BY <1>9, Part, FiniteAssumption
<1>11. r.st.ok["images"] <= Cardinality(calf.images \ Waiting(m))
       /\ (r.st.ok["images"] = r.st.total["images"] => calf.images \ Waiting(m) = Images)
  <2> HIDE DEF r, before, after
  <2>1. r.st.ok["images"] <= Cardinality(after) /\ (r.st.ok["images"] = r.st.total["images"] => after = Images)
    BY <1>6, <1>8, <1>10, SMT
  <2> QED BY <2>1 DEF after
<1>12. r.st.ok["images"] = r.st.total["images"] => calf.images = Images
  BY <1>2, <1>11
<1> HIDE DEF r, before, after
<1>13. MOK(m, raised)
  BY <1>1, <1>2, <1>5, <1>6 DEF MOK, Early
<1>14. CopyOK(m, calf)
  BY <1>1, <1>2, <1>5, <1>6, <1>11, <1>12 DEF CopyOK, Early
<1>15. m.pc \in Pcs \ {"gone"}
  BY <1>3, <1>5
<1> QED BY <1>1, <1>2, <1>4, <1>a, <1>5, <1>13, <1>14, <1>15, EarlyEmitInv DEF r, Early

\* An image that is loaded is one more of those that are there and not waiting.
LEMMA LoadImageInv == ASSUME Counting, MigInv, NEW n \in 1..Len(mig), LoadImage(n) PROVE MigInv'
<1> DEFINE r == mig[n]
           i == r.item
           d == [r EXCEPT !.pc = "image", !.item = ""]
           c == Counted(d, "images")
<1>1. r.pc = "load" /\ UNCHANGED <<flag, source, touched, raised, spoiled>>
  BY DEF LoadImage
<1>2. r \in MigRecords /\ MOK(r, raised) /\ CopyOK(r, calf) /\ calf \in Engines /\ calf.images \subseteq Images
  BY <1>1, Local, Engine
<1>3. "image" \in Pcs \ {"gone"} /\ "images" \in Kinds /\ r.pc \in Early
      /\ {"volumes", "containers"} \subseteq Kinds \ {"images"}
  BY <1>1 DEF Pcs, Kinds, Early
<1>4. /\ r.todo \subseteq Images /\ i \in Images \ r.todo /\ r.st.total["images"] = Cardinality(Images)
      /\ r.st.ok["images"] <= Cardinality(calf.images \ Waiting(r))
      /\ r.st.ok["volumes"] = 0 /\ r.st.ok["containers"] = 0 /\ r.stopped = {} /\ r.migrated = {}
  BY <1>1, <1>2 DEF MOK, CopyOK, Early
<1>5. r.st.ok["images"] \in Nat
  BY <1>2 DEF MigRecords, Statuses, Kinds
<1>6. /\ d \in MigRecords /\ d.pc = "image" /\ d.st = r.st /\ d.todo = r.todo
      /\ d.ran = r.ran /\ d.seen = r.seen /\ d.stopped = r.stopped /\ d.migrated = r.migrated
  BY <1>2, <1>3 DEF MigRecords
<1>7. \/ calf' = [calf EXCEPT !.images = @ \cup {i}] /\ Emit(n, c)
      \/ calf' = calf /\ Emit(n, d)
  BY DEF LoadImage
<1> HIDE DEF d, r
<1>8. /\ c \in MigRecords /\ c.pc = "image" /\ c.todo = r.todo
      /\ c.ran = r.ran /\ c.seen = r.seen /\ c.stopped = r.stopped /\ c.migrated = r.migrated
      /\ c.st.phase = r.st.phase /\ c.st.total = r.st.total
      /\ c.st.ok["images"] = r.st.ok["images"] + 1 /\ c.st.ok["volumes"] = 0 /\ c.st.ok["containers"] = 0
  <2>1. TalliedAs(c, d, "images")
    BY <1>3, <1>6, Tallied
  <2> HIDE DEF c
  <2> QED BY <1>3, <1>4, <1>6, <2>1 DEF TalliedAs
<1> HIDE DEF c, i
<1>9. Waiting(d) = r.todo /\ Waiting(c) = r.todo /\ Waiting(r) = r.todo \cup {i}
  BY <1>1, <1>6, <1>8 DEF Waiting, i
<1>10. MOK(d, raised) /\ MOK(c, raised)
  <2>1. MOK(d, raised)
    BY <1>1, <1>2, <1>4, <1>6 DEF MOK, Early
  <2>2. MOK(c, raised)
    BY <1>1, <1>2, <1>4, <1>8 DEF MOK, Early
  <2> QED BY <2>1, <2>2
<1>11. CASE calf' = [calf EXCEPT !.images = @ \cup {i}] /\ Emit(n, c)
  <2>1. calf' \in Engines /\ calf'.images = calf.images \cup {i}
    BY <1>2, <1>4, <1>11 DEF Engines
  <2>2. calf'.images \ r.todo = (calf.images \ (r.todo \cup {i})) \cup {i}
    BY <1>4, <2>1
  <2>3. calf.images \ (r.todo \cup {i}) \in SUBSET Images /\ i \notin calf.images \ (r.todo \cup {i})
    BY <1>2
  <2>4. /\ Cardinality(calf.images \ (r.todo \cup {i})) \in Nat
        /\ Cardinality(calf'.images \ r.todo) = Cardinality(calf.images \ (r.todo \cup {i})) + 1
    BY <2>2, <2>3, OneMore, FiniteAssumption
  <2>5. c.st.ok["images"] <= Cardinality(calf'.images \ Waiting(c))
    BY <1>4, <1>5, <1>8, <1>9, <2>4, SMT
  <2>6. CopyOK(c, calf')
    BY <1>4, <1>8, <2>5 DEF CopyOK, Early
  <2> QED BY <1>1, <1>3, <1>8, <1>10, <1>11, <2>1, <2>6, EarlyEmitInv DEF r
<1>12. CASE calf' = calf /\ Emit(n, d)
  <2>1. calf.images \ (r.todo \cup {i}) \in SUBSET (calf.images \ r.todo) /\ calf.images \ r.todo \in SUBSET Images
    BY <1>2
  <2>2. /\ Cardinality(calf.images \ (r.todo \cup {i})) <= Cardinality(calf.images \ r.todo)
        /\ Cardinality(calf.images \ (r.todo \cup {i})) \in Nat /\ Cardinality(calf.images \ r.todo) \in Nat
    BY <2>1, Part, FiniteAssumption, SMT
  <2>3. d.st.ok["images"] <= Cardinality(calf.images \ Waiting(d))
    BY <1>4, <1>5, <1>6, <1>9, <2>2, SMT
  <2>4. CopyOK(d, calf')
    BY <1>4, <1>6, <1>12, <2>3 DEF CopyOK, Early
  <2> QED BY <1>1, <1>2, <1>3, <1>6, <1>10, <1>12, <2>4, EarlyEmitInv DEF r
<1> QED BY <1>7, <1>11, <1>12

\* The list of volumes keeps the invariant.
LEMMA ListVolumesInv == ASSUME Counting, MigInv, NEW n \in 1..Len(mig), ListVolumes(n) PROVE MigInv'
<1> DEFINE r == mig[n]
<1> DEFINE m == AfterList(r, "volumes", Volumes, Cardinality(Volumes), "volume")
<1>1. r.pc = "volumes" /\ UNCHANGED <<flag, source, calf, touched, raised, spoiled>>
  BY DEF ListVolumes
<1>2. Emit(n, Failed(r)) \/ Emit(n, m)
  BY DEF ListVolumes, List, AfterList
<1>3. r \in MigRecords /\ MOK(r, raised) /\ CopyOK(r, calf) /\ calf \in Engines
  BY <1>1, Local, Engine
<1>4. Cardinality(Volumes) \in Nat /\ Volumes \in SUBSET Things /\ "volumes" \in Kinds /\ "volume" \in Pcs
      /\ "images" \in Kinds \ {"volumes"} /\ "volume" # "gone"
  BY FiniteAssumption DEF Counting, Things, Kinds, Pcs
<1>5. /\ m \in MigRecords /\ m.pc = "volume" /\ m.todo = Volumes
      /\ m.ran = r.ran /\ m.seen = r.seen /\ m.stopped = r.stopped /\ m.migrated = r.migrated
      /\ m.st.phase = r.st.phase /\ m.st.ok = r.st.ok /\ m.st.total["volumes"] = Cardinality(Volumes)
      /\ m.st.total["images"] = r.st.total["images"]
  <2>1. ListedAs(m, r, "volumes", Volumes, Cardinality(Volumes), "volume")
    BY <1>3, <1>4, Listed
  <2> HIDE DEF m, r
  <2> QED BY <1>4, <2>1 DEF ListedAs
<1> HIDE DEF m
<1>6. MOK(m, raised)
  BY <1>1, <1>3, <1>5 DEF MOK, Early
<1>7. Cardinality(Whole(calf) \ Waiting(m)) \in Nat
  <2>1. Whole(calf) \ Waiting(m) \in SUBSET Volumes
    BY DEF Whole
  <2> QED BY <2>1, Part, FiniteAssumption
<1>8. CopyOK(m, calf)
  <2>1. /\ r.st.ok["volumes"] = 0 /\ r.st.ok["containers"] = 0
        /\ (r.st.ok["images"] = r.st.total["images"] => calf.images = Images)
    BY <1>1, <1>3 DEF CopyOK, Early
  <2>2. m.st.ok["volumes"] = 0 /\ m.st.ok["containers"] = 0
    BY <1>5, <2>1
  <2>3. m.st.ok["volumes"] <= Cardinality(Whole(calf) \ Waiting(m))
    BY <1>7, <2>2, SMT
  <2>4. m.st.ok["images"] = m.st.total["images"] => calf.images = Images
    BY <1>5, <2>1
  <2> HIDE DEF r
  <2> QED BY <1>5, <2>2, <2>3, <2>4 DEF CopyOK, Early
<1>9. CASE Emit(n, m)
  BY <1>1, <1>3, <1>4, <1>5, <1>6, <1>8, <1>9, EarlyEmitInv DEF Early
<1> QED BY <1>1, <1>2, <1>9, FailedInv DEF Early

\* A pass of the loop over volumes keeps the invariant.
LEMMA ExportVolumeInv ==
  ASSUME Counting, MigInv, NEW n \in 1..Len(mig), ExportItem(n, "volume", "create", "containers")
  PROVE  MigInv'
<1> DEFINE r == mig[n]
<1>1. r.pc = "volume"
  BY DEF ExportItem
<1>2. r \in MigRecords /\ MOK(r, raised) /\ CopyOK(r, calf) /\ calf \in Engines
  BY <1>1, Local, Engine
<1>3. {"create", "containers", "volume"} \subseteq Pcs \ {"gone"}
  BY DEF Pcs
<1>4. UNCHANGED <<flag, source, calf, touched, raised, spoiled>>
  BY DEF ExportItem
<1>5. PICK m \in MigRecords : Emit(n, m) /\ ExportedAs(m, r, "volume", "create", "containers")
  BY <1>2, <1>3, ExportedItem
<1>6. /\ m.st = r.st /\ m.ran = r.ran /\ m.seen = r.seen /\ m.stopped = r.stopped /\ m.migrated = r.migrated
      /\ \/ m.pc = "containers" /\ m.todo = {} /\ r.todo = {}
         \/ m.pc = "create" /\ m.item \in r.todo /\ m.todo = r.todo \ {m.item}
         \/ m.pc = "volume" /\ m.todo \subseteq r.todo
  BY <1>5 DEF ExportedAs
<1> DEFINE before == Whole(calf) \ Waiting(r)
           after == Whole(calf) \ Waiting(m)
<1>7. /\ r.todo \subseteq Volumes /\ r.st.total["volumes"] = Cardinality(Volumes)
      /\ r.st.ok["volumes"] <= Cardinality(before)
      /\ r.st.ok["containers"] = 0 /\ r.stopped = {} /\ r.migrated = {}
  BY <1>1, <1>2 DEF MOK, CopyOK, Early
<1>8. Waiting(m) \subseteq Waiting(r)
  BY <1>1, <1>6 DEF Waiting
<1>9. r.st.ok["volumes"] \in Nat
  BY <1>2 DEF MigRecords, Statuses, Kinds
<1>10. before \in SUBSET after /\ after \in SUBSET Volumes /\ Whole(calf) \in SUBSET Volumes
  BY <1>2, <1>8 DEF Whole
<1>11. /\ Cardinality(before) <= Cardinality(after) /\ Cardinality(before) \in Nat
       /\ Cardinality(after) \in Nat /\ Cardinality(after) <= Cardinality(Volumes) /\ Cardinality(Volumes) \in Nat
       /\ Cardinality(after) = Cardinality(Volumes) => after = Volumes
  BY <1>10, Part, FiniteAssumption
<1>12. r.st.ok["volumes"] <= Cardinality(Whole(calf) \ Waiting(m))
       /\ (r.st.ok["volumes"] = r.st.total["volumes"] => Whole(calf) \ Waiting(m) = Volumes)
  <2> HIDE DEF r, before, after
  <2>1. r.st.ok["volumes"] <= Cardinality(after) /\ (r.st.ok["volumes"] = r.st.total["volumes"] => after = Volumes)
    BY <1>7, <1>9, <1>11, SMT
  <2> QED BY <2>1 DEF after
<1>13. r.st.ok["volumes"] = r.st.total["volumes"] => Whole(calf) = Volumes
  BY <1>10, <1>12
<1> HIDE DEF r, before, after
<1>14. MOK(m, raised)
  BY <1>1, <1>2, <1>6, <1>7 DEF MOK, Early
<1>15. CopyOK(m, calf)
  BY <1>1, <1>2, <1>6, <1>7, <1>12, <1>13 DEF CopyOK, Early
<1>16. m.pc \in Pcs \ {"gone"}
  BY <1>3, <1>6
<1> QED BY <1>1, <1>2, <1>4, <1>5, <1>6, <1>14, <1>15, <1>16, EarlyEmitInv DEF r, Early

\* An engine in which one volume has changed.
LEMMA VolumeSet ==
  ASSUME NEW k \in Engines, NEW v \in Volumes, NEW x \in {"none", "empty", "part", "whole"}, NEW e,
         e = [k EXCEPT !.volumes[v] = x]
  PROVE  /\ e \in Engines /\ e.images = k.images
         /\ \A u \in Volumes : e.volumes[u] = IF u = v THEN x ELSE k.volumes[u]
<1> DEFINE f == [k.volumes EXCEPT ![v] = x]
<1>1. /\ f \in [Volumes -> {"none", "empty", "part", "whole"}]
      /\ \A u \in Volumes : f[u] = IF u = v THEN x ELSE k.volumes[u]
  BY DEF Engines
<1>2. e = [k EXCEPT !.volumes = f]
  BY DEF Engines
<1> HIDE DEF f
<1>3. e \in Engines /\ e.images = k.images /\ e.volumes = f
  BY <1>1, <1>2 DEF Engines
<1> QED BY <1>1, <1>3

\* A volume that is made keeps it.
LEMMA CreateVolumeInv == ASSUME Counting, MigInv, NEW n \in 1..Len(mig), CreateVolume(n) PROVE MigInv'
<1> DEFINE r == mig[n]
           v == r.item
           d == [r EXCEPT !.pc = "volume", !.item = ""]
           g == [r EXCEPT !.pc = "import"]
<1>1. r.pc = "create" /\ UNCHANGED <<flag, source, touched, raised, spoiled>>
  BY DEF CreateVolume
<1>2. r \in MigRecords /\ MOK(r, raised) /\ CopyOK(r, calf) /\ calf \in Engines
  BY <1>1, Local, Engine
<1>3. {"import", "volume"} \subseteq Pcs \ {"gone"} /\ r.pc \in Early
  BY <1>1 DEF Pcs, Early
<1>4. /\ r.todo \subseteq Volumes /\ v \in Volumes \ r.todo /\ r.st.total["volumes"] = Cardinality(Volumes)
      /\ r.st.ok["volumes"] <= Cardinality(Whole(calf) \ Waiting(r))
      /\ r.st.ok["containers"] = 0 /\ r.stopped = {} /\ r.migrated = {}
      /\ (r.st.ok["images"] = r.st.total["images"] => calf.images = Images)
  BY <1>1, <1>2 DEF MOK, CopyOK, Early
<1>5. r.st.ok["volumes"] \in Nat
  BY <1>2 DEF MigRecords, Statuses, Kinds
<1>6. /\ d \in MigRecords /\ d.pc = "volume" /\ d.st = r.st /\ d.todo = r.todo
      /\ d.ran = r.ran /\ d.seen = r.seen /\ d.stopped = r.stopped /\ d.migrated = r.migrated
  BY <1>2, <1>3 DEF MigRecords
<1>7. /\ g \in MigRecords /\ g.pc = "import" /\ g.st = r.st /\ g.todo = r.todo /\ g.item = r.item
      /\ g.ran = r.ran /\ g.seen = r.seen /\ g.stopped = r.stopped /\ g.migrated = r.migrated
  BY <1>2, <1>3 DEF MigRecords
<1>8. \/ calf' = [calf EXCEPT !.volumes[v] = IF calf.volumes[v] = "none" THEN "empty" ELSE calf.volumes[v]]
         /\ Emit(n, g)
      \/ calf' = calf /\ Emit(n, d)
  BY DEF CreateVolume, Goto
<1> HIDE DEF d, g, r, v
<1>9. Waiting(d) = r.todo /\ Waiting(g) = Waiting(r) /\ Waiting(r) = r.todo \cup {v}
  BY <1>1, <1>6, <1>7 DEF Waiting, v
<1>10. MOK(d, raised)
  BY <1>1, <1>2, <1>4, <1>6 DEF MOK, Early
<1>11. MOK(g, raised)
  BY <1>1, <1>2, <1>4, <1>7 DEF MOK, Early, v
<1>12. CASE calf' = [calf EXCEPT !.volumes[v] = IF calf.volumes[v] = "none" THEN "empty" ELSE calf.volumes[v]]
            /\ Emit(n, g)
  <2> DEFINE x == IF calf.volumes[v] = "none" THEN "empty" ELSE calf.volumes[v]
  <2>1. calf.volumes[v] \in {"none", "empty", "part", "whole"}
    BY <1>2, <1>4 DEF Engines
  <2>2. x \in {"none", "empty", "part", "whole"} /\ (x = "whole" <=> calf.volumes[v] = "whole")
    BY <2>1
  <2>3. calf' = [calf EXCEPT !.volumes[v] = x]
    BY <1>12
  <2> HIDE DEF x
  <2>4. calf' \in Engines /\ calf'.images = calf.images
        /\ \A u \in Volumes : calf'.volumes[u] = IF u = v THEN x ELSE calf.volumes[u]
    BY <1>2, <1>4, <2>2, <2>3, VolumeSet, SMT
  <2>5. Whole(calf') = Whole(calf)
    BY <2>2, <2>4 DEF Whole
  <2>6. CopyOK(g, calf')
    BY <1>4, <1>7, <1>9, <2>4, <2>5 DEF CopyOK, Early
  <2> QED BY <1>1, <1>3, <1>7, <1>11, <1>12, <2>4, <2>6, EarlyEmitInv DEF r
<1>13. CASE calf' = calf /\ Emit(n, d)
  <2>1. Whole(calf) \ (r.todo \cup {v}) \in SUBSET (Whole(calf) \ r.todo) /\ Whole(calf) \ r.todo \in SUBSET Volumes
    BY DEF Whole
  <2>2. /\ Cardinality(Whole(calf) \ (r.todo \cup {v})) <= Cardinality(Whole(calf) \ r.todo)
        /\ Cardinality(Whole(calf) \ (r.todo \cup {v})) \in Nat /\ Cardinality(Whole(calf) \ r.todo) \in Nat
    BY <2>1, Part, FiniteAssumption
  <2>3. d.st.ok["volumes"] <= Cardinality(Whole(calf) \ Waiting(d))
    BY <1>4, <1>5, <1>6, <1>9, <2>2, SMT
  <2>4. CopyOK(d, calf')
    BY <1>4, <1>6, <1>13, <2>3 DEF CopyOK, Early
  <2> QED BY <1>1, <1>2, <1>3, <1>6, <1>10, <1>13, <2>4, EarlyEmitInv DEF r
<1> QED BY <1>8, <1>12, <1>13

\* A volume that is unpacked whole is one more; one that is cut short was not counted.
LEMMA ImportVolumeInv == ASSUME Counting, MigInv, NEW n \in 1..Len(mig), ImportVolume(n) PROVE MigInv'
<1> DEFINE r == mig[n]
           v == r.item
           d == [r EXCEPT !.pc = "volume", !.item = ""]
           c == Counted(d, "volumes")
<1>1. r.pc = "import" /\ UNCHANGED <<flag, source, touched, raised, spoiled>>
  BY DEF ImportVolume
<1>2. r \in MigRecords /\ MOK(r, raised) /\ CopyOK(r, calf) /\ calf \in Engines
  BY <1>1, Local, Engine
<1>3. "volume" \in Pcs \ {"gone"} /\ "volumes" \in Kinds /\ r.pc \in Early
      /\ {"images", "containers"} \subseteq Kinds \ {"volumes"}
  BY <1>1 DEF Pcs, Kinds, Early
<1>4. /\ r.todo \subseteq Volumes /\ v \in Volumes \ r.todo /\ r.st.total["volumes"] = Cardinality(Volumes)
      /\ r.st.ok["volumes"] <= Cardinality(Whole(calf) \ Waiting(r))
      /\ r.st.ok["containers"] = 0 /\ r.stopped = {} /\ r.migrated = {}
      /\ (r.st.ok["images"] = r.st.total["images"] => calf.images = Images)
  BY <1>1, <1>2 DEF MOK, CopyOK, Early
<1>5. r.st.ok["volumes"] \in Nat
  BY <1>2 DEF MigRecords, Statuses, Kinds
<1>6. /\ d \in MigRecords /\ d.pc = "volume" /\ d.st = r.st /\ d.todo = r.todo
      /\ d.ran = r.ran /\ d.seen = r.seen /\ d.stopped = r.stopped /\ d.migrated = r.migrated
  BY <1>2, <1>3 DEF MigRecords
<1>7. \/ calf' = [calf EXCEPT !.volumes[v] = "whole"] /\ Emit(n, c)
      \/ calf' \in {calf, [calf EXCEPT !.volumes[v] = "part"]} /\ Emit(n, d)
  BY DEF ImportVolume, CountImported
<1> HIDE DEF d, r, v
<1>8. /\ c \in MigRecords /\ c.pc = "volume" /\ c.todo = r.todo
      /\ c.ran = r.ran /\ c.seen = r.seen /\ c.stopped = r.stopped /\ c.migrated = r.migrated
      /\ c.st.phase = r.st.phase /\ c.st.total = r.st.total
      /\ c.st.ok["volumes"] = r.st.ok["volumes"] + 1 /\ c.st.ok["images"] = r.st.ok["images"]
      /\ c.st.ok["containers"] = 0
  <2>1. TalliedAs(c, d, "volumes")
    BY <1>3, <1>6, Tallied
  <2> HIDE DEF c
  <2> QED BY <1>3, <1>4, <1>6, <2>1 DEF TalliedAs
<1> HIDE DEF c
<1>9. Waiting(d) = r.todo /\ Waiting(c) = r.todo /\ Waiting(r) = r.todo \cup {v}
  BY <1>1, <1>6, <1>8 DEF Waiting, v
<1>10. MOK(d, raised)
  BY <1>1, <1>2, <1>4, <1>6 DEF MOK, Early
<1>11. MOK(c, raised)
  BY <1>1, <1>2, <1>4, <1>8 DEF MOK, Early
<1>12. CASE calf' = [calf EXCEPT !.volumes[v] = "whole"] /\ Emit(n, c)
  <2>1. calf' \in Engines /\ calf'.images = calf.images
        /\ \A u \in Volumes : calf'.volumes[u] = IF u = v THEN "whole" ELSE calf.volumes[u]
    BY <1>2, <1>4, <1>12, VolumeSet, SMT
  <2>2. Whole(calf') \ r.todo = (Whole(calf) \ (r.todo \cup {v})) \cup {v}
    BY <1>4, <2>1 DEF Whole
  <2>3. Whole(calf) \ (r.todo \cup {v}) \in SUBSET Volumes /\ v \notin Whole(calf) \ (r.todo \cup {v})
    BY DEF Whole
  <2>4. /\ Cardinality(Whole(calf) \ (r.todo \cup {v})) \in Nat
        /\ Cardinality(Whole(calf') \ r.todo) = Cardinality(Whole(calf) \ (r.todo \cup {v})) + 1
    BY <2>2, <2>3, OneMore, FiniteAssumption
  <2>5. c.st.ok["volumes"] <= Cardinality(Whole(calf') \ Waiting(c))
    BY <1>4, <1>5, <1>8, <1>9, <2>4, SMT
  <2>6. CopyOK(c, calf')
    BY <1>4, <1>8, <2>1, <2>5 DEF CopyOK, Early
  <2> QED BY <1>1, <1>3, <1>8, <1>11, <1>12, <2>1, <2>6, EarlyEmitInv DEF r
<1>13. CASE calf' \in {calf, [calf EXCEPT !.volumes[v] = "part"]} /\ Emit(n, d)
  <2>1. /\ calf' \in Engines /\ calf'.images = calf.images
        /\ \A u \in Volumes \ {v} : calf'.volumes[u] = calf.volumes[u]
    <3>1. CASE calf' = calf
      BY <1>2, <3>1
    <3>2. CASE calf' = [calf EXCEPT !.volumes[v] = "part"]
      BY <1>2, <1>4, <3>2, VolumeSet, SMT
    <3> QED BY <1>13, <3>1, <3>2
  <2>2. Whole(calf) \ (r.todo \cup {v}) \in SUBSET (Whole(calf') \ r.todo) /\ Whole(calf') \ r.todo \in SUBSET Volumes
    BY <2>1 DEF Whole
  <2>3. /\ Cardinality(Whole(calf) \ (r.todo \cup {v})) <= Cardinality(Whole(calf') \ r.todo)
        /\ Cardinality(Whole(calf) \ (r.todo \cup {v})) \in Nat /\ Cardinality(Whole(calf') \ r.todo) \in Nat
    BY <2>2, Part, FiniteAssumption
  <2>4. d.st.ok["volumes"] <= Cardinality(Whole(calf') \ Waiting(d))
    BY <1>4, <1>5, <1>6, <1>9, <2>3, SMT
  <2>5. CopyOK(d, calf')
    BY <1>4, <1>6, <2>1, <2>4 DEF CopyOK, Early
  <2> QED BY <1>1, <1>3, <1>6, <1>10, <1>13, <2>1, <2>5, EarlyEmitInv DEF r
<1> QED BY <1>7, <1>12, <1>13

-----------------------------------------------------------------------------
(* The containers.                                                         *)

\* The list of containers keeps the invariant: nothing is stopped or counted yet.
LEMMA ListContainersInv == ASSUME Counting, MigInv, NEW n \in 1..Len(mig), ListContainers(n) PROVE MigInv'
<1> DEFINE r == mig[n]
           found(S) == [r EXCEPT !.pc = "stop", !.st.total["containers"] = Cardinality(Containers),
                          !.seen = S, !.ran = {c \in S : source[c]}, !.todo = {c \in S : source[c]}]
<1>1. r.pc = "containers" /\ UNCHANGED <<flag, source, calf, touched, raised, spoiled>>
  BY DEF ListContainers
<1>2. Emit(n, Failed(r)) \/ \E S \in SUBSET Containers : Emit(n, found(S))
  BY DEF ListContainers
<1>3. r \in MigRecords /\ MOK(r, raised) /\ CopyOK(r, calf) /\ calf \in Engines
  BY <1>1, Local, Engine
<1>4. Cardinality(Containers) \in Nat /\ "containers" \in Kinds /\ "stop" \in Pcs \ {"gone"}
      /\ {"images", "volumes"} \subseteq Kinds \ {"containers"}
  BY FiniteAssumption DEF Counting, Kinds, Pcs
<1>5. ASSUME NEW S \in SUBSET Containers, Emit(n, found(S))
      PROVE  MigInv'
  <2> DEFINE T == {c \in S : source[c]}
             a == AfterList(r, "containers", T, Cardinality(Containers), "stop")
             m == [a EXCEPT !.seen = S, !.ran = T]
  <2>1. T \in SUBSET S /\ T \in SUBSET Things
    BY DEF Things
  <2>2. m = found(S)
    BY <1>3 DEF AfterList, MigRecords, Statuses
  <2>3. Emit(n, m)
    BY <1>5, <2>2
  <2> HIDE DEF T
  <2>4. ListedAs(a, r, "containers", T, Cardinality(Containers), "stop")
    BY <1>3, <1>4, <2>1, Listed
  <2> HIDE DEF a
  <2>5. a \in MigRecords
    BY <2>4 DEF ListedAs
  <2>6. /\ m \in MigRecords /\ m.pc = a.pc /\ m.todo = a.todo /\ m.st = a.st /\ m.seen = S /\ m.ran = T
        /\ m.stopped = a.stopped /\ m.migrated = a.migrated
    BY <2>1, <2>5 DEF MigRecords
  <2> HIDE DEF m
  <2>7. /\ m.pc = "stop" /\ m.todo = T /\ m.stopped = r.stopped /\ m.migrated = r.migrated
        /\ m.st.phase = r.st.phase /\ m.st.ok = r.st.ok /\ m.st.total["containers"] = Cardinality(Containers)
        /\ m.st.total["images"] = r.st.total["images"] /\ m.st.total["volumes"] = r.st.total["volumes"]
    BY <1>4, <2>4, <2>6 DEF ListedAs
  <2>8. r.stopped = {} /\ r.migrated = {} /\ r.st.ok["containers"] = 0
    BY <1>1, <1>3 DEF MOK, CopyOK, Early
  <2>9. MOK(m, raised)
    BY <1>1, <1>3, <2>1, <2>6, <2>7, <2>8 DEF MOK, Early
  <2>10. m.st.ok["containers"] <= Cardinality(Placed(calf) \cap m.migrated)
    <3>1. Placed(calf) \cap m.migrated = {}
      BY <2>7, <2>8
    <3> QED BY <2>7, <2>8, <3>1, SMT DEF Counting
  <2>11. CopyOK(m, calf)
    BY <1>1, <1>3, <2>7, <2>10 DEF CopyOK, Early
  <2> QED BY <1>1, <1>3, <1>4, <2>3, <2>6, <2>7, <2>9, <2>11, EarlyEmitInv DEF Early
<1> QED BY <1>1, <1>2, <1>5, FailedInv DEF Early

\* What is asked of the images and the volumes once they are through, and kept from then on.
LEMMA LateCopy ==
  ASSUME NEW r, NEW m, NEW k, NEW e, CopyOK(r, k),
         r.pc \in {"stop", "groups", "compose", "single", "restart"},
         m.pc \in {"stop", "groups", "compose", "single", "restart", "builds"},
         e.images = k.images, e.volumes = k.volumes,
         m.st.ok["images"] = r.st.ok["images"], m.st.ok["volumes"] = r.st.ok["volumes"],
         m.st.total = r.st.total,
         m.pc \in {"stop", "groups", "compose", "single"} => m.st.total["containers"] = Cardinality(Containers),
         m.pc \in {"stop", "groups", "compose"} => m.st.ok["containers"] <= Cardinality(Placed(e) \cap m.migrated),
         m.pc = "single" => m.st.ok["containers"] <= Cardinality(Placed(e) \cap (m.seen \ m.todo)),
         m.pc \in {"restart", "builds"} =>
           (m.st.ok["containers"] = m.st.total["containers"] => Placed(e) = Containers)
  PROVE  CopyOK(m, e)
<1>1. Whole(e) = Whole(k)
  BY DEF Whole
<1>2. r.st.ok["images"] = r.st.total["images"] => k.images = Images
  BY DEF CopyOK
<1>3. r.st.ok["volumes"] = r.st.total["volumes"] => Whole(k) = Volumes
  BY DEF CopyOK
<1> QED BY <1>1, <1>2, <1>3 DEF CopyOK, Early

\* A migration that stops what ran answers for it.
LEMMA StopOnSourceInv == ASSUME MigInv, NEW n \in 1..Len(mig), StopOnSource(n) PROVE MigInv'
<1> DEFINE r == mig[n]
<1>1. r.pc = "stop" /\ UNCHANGED <<flag, calf, touched, raised>>
  BY DEF StopOnSource
<1>2. /\ r \in MigRecords /\ r.pc # "gone" /\ MOK(r, raised) /\ CopyOK(r, calf)
      /\ StopOK(r, source, raised, touched, spoiled)
  BY <1>1, Local
<1>3. source \in [Containers -> BOOLEAN] /\ calf \in Engines /\ spoiled \in BOOLEAN
  BY Engine
<1>4. \/ Emit(n, [r EXCEPT !.pc = "groups"]) /\ source' = source /\ spoiled' = spoiled
      \/ \E c \in r.todo : /\ Emit(n, [r EXCEPT !.todo = @ \ {c}, !.stopped = @ \cup {c}])
                           /\ source' = [source EXCEPT ![c] = FALSE] /\ spoiled' = spoiled
      \/ \E c \in r.todo : /\ Emit(n, [r EXCEPT !.todo = @ \ {c}])
                           /\ \/ source' = source /\ spoiled' = spoiled
                              \/ source' = [source EXCEPT ![c] = FALSE] /\ spoiled' = TRUE
  BY DEF StopOnSource, Goto
<1>5. r.todo \subseteq r.ran /\ r.ran \subseteq r.seen /\ r.seen \subseteq Containers
  BY <1>1, <1>2 DEF MOK, MigRecords
<1>6. \E m \in MigRecords : \E S \in SUBSET r.todo :
        /\ Emit(n, m) /\ m.pc \in {"stop", "groups"} /\ m.st = r.st /\ m.todo \subseteq r.todo
        /\ m.ran = r.ran /\ m.seen = r.seen /\ m.migrated = r.migrated /\ m.stopped = r.stopped \cup S
        /\ source' \in [Containers -> BOOLEAN]
        /\ spoiled' = TRUE \/ (spoiled' = spoiled /\ \A c \in Containers \ S : source'[c] = source[c])
  <2>1. CASE Emit(n, [r EXCEPT !.pc = "groups"]) /\ source' = source /\ spoiled' = spoiled
    <3> DEFINE m == [r EXCEPT !.pc = "groups"]
    <3>1. /\ m \in MigRecords /\ m.pc = "groups" /\ m.st = r.st /\ m.todo = r.todo
          /\ m.ran = r.ran /\ m.seen = r.seen /\ m.migrated = r.migrated /\ m.stopped = r.stopped
      BY <1>2 DEF MigRecords, Pcs
    <3>2. Emit(n, m)
      BY <2>1
    <3> HIDE DEF m, r
    <3>3. /\ m.pc \in {"stop", "groups"} /\ m.todo \subseteq r.todo /\ m.stopped = r.stopped \cup {}
          /\ {} \in SUBSET r.todo
          /\ source' \in [Containers -> BOOLEAN] /\ \A c \in Containers \ {} : source'[c] = source[c]
      BY <1>3, <2>1, <3>1
    <3> QED BY <2>1, <3>1, <3>2, <3>3
  <2>2. ASSUME NEW c \in r.todo, source' = [source EXCEPT ![c] = FALSE], spoiled' = spoiled,
               Emit(n, [r EXCEPT !.todo = @ \ {c}, !.stopped = @ \cup {c}])
        PROVE  <1>6!:
    <3> DEFINE m == [r EXCEPT !.todo = @ \ {c}, !.stopped = @ \cup {c}]
    <3>1. c \in Containers
      BY <1>5
    <3>2. /\ m \in MigRecords /\ m.pc = r.pc /\ m.st = r.st /\ m.todo = r.todo \ {c}
          /\ m.ran = r.ran /\ m.seen = r.seen /\ m.migrated = r.migrated /\ m.stopped = r.stopped \cup {c}
      BY <1>2, <3>1 DEF MigRecords
    <3>3. Emit(n, m)
      BY <2>2
    <3> HIDE DEF m, r
    <3>4. source' \in [Containers -> BOOLEAN] /\ \A d \in Containers \ {c} : source'[d] = source[d]
      BY <1>3, <2>2
    <3>5. {c} \in SUBSET r.todo
      OBVIOUS
    <3>6. m.pc \in {"stop", "groups"} /\ m.todo \subseteq r.todo
      BY <1>1, <3>2
    <3> QED BY <2>2, <3>2, <3>3, <3>4, <3>5, <3>6
  <2>3. ASSUME NEW c \in r.todo, Emit(n, [r EXCEPT !.todo = @ \ {c}]),
               \/ source' = source /\ spoiled' = spoiled
               \/ source' = [source EXCEPT ![c] = FALSE] /\ spoiled' = TRUE
        PROVE  <1>6!:
    <3> DEFINE m == [r EXCEPT !.todo = @ \ {c}]
    <3>1. /\ m \in MigRecords /\ m.pc = r.pc /\ m.st = r.st /\ m.todo = r.todo \ {c}
          /\ m.ran = r.ran /\ m.seen = r.seen /\ m.migrated = r.migrated /\ m.stopped = r.stopped
      BY <1>2 DEF MigRecords
    <3>2. Emit(n, m)
      BY <2>3
    <3> HIDE DEF m, r
    <3>3. /\ m.pc \in {"stop", "groups"} /\ m.todo \subseteq r.todo /\ m.stopped = r.stopped \cup {}
          /\ {} \in SUBSET r.todo
          /\ source' \in [Containers -> BOOLEAN]
          /\ spoiled' = TRUE \/ (spoiled' = spoiled /\ \A d \in Containers \ {} : source'[d] = source[d])
      BY <1>1, <1>3, <2>3, <3>1
    <3> QED BY <3>1, <3>2, <3>3
  <2> QED BY <1>4, <2>1, <2>2, <2>3
<1>7. PICK m \in MigRecords, S \in SUBSET r.todo :
        /\ Emit(n, m) /\ m.pc \in {"stop", "groups"} /\ m.st = r.st /\ m.todo \subseteq r.todo
        /\ m.ran = r.ran /\ m.seen = r.seen /\ m.migrated = r.migrated /\ m.stopped = r.stopped \cup S
        /\ source' \in [Containers -> BOOLEAN]
        /\ spoiled' = TRUE \/ (spoiled' = spoiled /\ \A c \in Containers \ S : source'[c] = source[c])
  BY <1>6
<1> HIDE DEF r
<1>8. MOK(m, raised')
  BY <1>1, <1>2, <1>5, <1>7 DEF MOK, Early
<1>9. StopOK(m, source', raised', touched', spoiled')
  <2>1. \A c \in Containers : (c \in S => Owes(m, c)) /\ (Owes(r, c) => Owes(m, c))
    BY <1>1, <1>7 DEF Owes
  <2>2. ASSUME ~spoiled' PROVE ~spoiled /\ \A c \in Containers \ S : source'[c] = source[c]
    <3>1. spoiled' # TRUE
      BY <2>2
    <3>2. spoiled' = spoiled /\ \A c \in Containers \ S : source'[c] = source[c]
      BY <1>7, <3>1
    <3> QED BY <2>2, <3>2
  <2>3. ~spoiled => \A c \in Containers \ touched : source[c] \/ ProjectOf[c] \in raised \/ Owes(r, c)
    BY <1>2 DEF StopOK
  <2>4. ASSUME ~spoiled', NEW c \in Containers \ touched
        PROVE  source'[c] \/ ProjectOf[c] \in raised \/ Owes(m, c)
    BY <2>1, <2>2, <2>3, <2>4
  <2> QED BY <1>1, <2>4 DEF StopOK
<1>10. CopyOK(m, calf')
  <2>1. /\ r.st.total["containers"] = Cardinality(Containers)
        /\ r.st.ok["containers"] <= Cardinality(Placed(calf) \cap r.migrated)
    BY <1>1, <1>2 DEF CopyOK
  <2>2. CopyOK(m, calf)
    BY <1>1, <1>2, <1>7, <2>1, LateCopy
  <2> QED BY <1>1, <2>2
<1>11. Copied(m.st, calf')
  BY <1>1, <1>2, <1>7 DEF MOK, Copied
<1>12. m.pc # "gone"
  BY <1>7
<1> QED BY <1>1, <1>2, <1>3, <1>7, <1>8, <1>9, <1>10, <1>11, <1>12, EmitInv DEF r

\* A count that reaches the total, of containers that are all in place, says that all are.
LEMMA AllPlaced ==
  ASSUME Counting, NEW k, NEW X, X \subseteq Placed(k), NEW ok \in Nat, ok <= Cardinality(X), ok = Cardinality(Containers)
  PROVE  Placed(k) = Containers
<1>1. X \in SUBSET Containers /\ Placed(k) \subseteq Containers
  BY DEF Placed
<1>2. Cardinality(X) \in Nat /\ Cardinality(X) <= Cardinality(Containers) /\ Cardinality(Containers) \in Nat
      /\ (Cardinality(X) = Cardinality(Containers) => X = Containers)
  BY <1>1, Part, FiniteAssumption
<1>3. X = Containers
  BY <1>2, SMT
<1> QED BY <1>1, <1>3

\* What the deferred function will start again is all that is owed.
LEMMA DeferredOwed ==
  ASSUME NEW r, NEW m, NEW s, NEW u, NEW t, NEW x, MOK(r, u), StopOK(r, s, u, t, x),
         r.pc \in {"groups", "single"}, m.pc = "restart", m.todo = Unfinished(r)
  PROVE  StopOK(m, s, u, t, x)
<1>1. \A c \in Containers : Owes(r, c) => ProjectOf[c] \in u \/ Owes(m, c)
  BY DEF Owes, Unfinished, MOK
<1> QED BY <1>1 DEF StopOK

\* Grouping the containers by project keeps the invariant, its error return included.
LEMMA GroupContainersInv == ASSUME Counting, MigInv, NEW n \in 1..Len(mig), GroupContainers(n) PROVE MigInv'
<1> DEFINE r == mig[n]
           ps == {ProjectOf[c] : c \in r.seen} \ {Standalone}
           a == [r EXCEPT !.pc = "compose", !.todo = ps]
           e == ReturnError(r)
<1>1. r.pc = "groups" /\ UNCHANGED <<flag, source, calf, touched, raised, spoiled>>
  BY DEF GroupContainers
<1>2. /\ r \in MigRecords /\ r.pc # "gone" /\ MOK(r, raised) /\ CopyOK(r, calf)
      /\ StopOK(r, source, raised, touched, spoiled)
  BY <1>1, Local
<1>3. source \in [Containers -> BOOLEAN] /\ calf \in Engines /\ spoiled \in BOOLEAN
  BY Engine
<1>4. Emit(n, a) \/ Emit(n, e)
  BY DEF GroupContainers
<1>5. ps \subseteq Projects /\ ps \in SUBSET Things
  BY <1>2 DEF MigRecords, Projects, Things
<1>6. r.stopped \ r.migrated \in SUBSET Things /\ r.stopped \subseteq Containers
  BY <1>2 DEF MigRecords, Things
<1> HIDE DEF ps
<1>7. /\ a \in MigRecords /\ a.pc = "compose" /\ a.st = r.st /\ a.todo = ps
      /\ a.ran = r.ran /\ a.seen = r.seen /\ a.migrated = r.migrated /\ a.stopped = r.stopped
  BY <1>2, <1>5 DEF MigRecords, Pcs
<1>8. /\ e \in MigRecords /\ e.pc = "restart" /\ e.todo = Unfinished(r)
      /\ e.ran = r.ran /\ e.seen = r.seen /\ e.migrated = r.migrated /\ e.stopped = r.stopped
      /\ e.st.phase = "failed" /\ e.st.ok = r.st.ok /\ e.st.total = r.st.total
  BY <1>2, <1>6 DEF MigRecords, Pcs, Statuses, Phases, ReturnError, Unfinished
<1> HIDE DEF a, e, r
<1>9. /\ r.st.total["containers"] = Cardinality(Containers)
      /\ r.st.ok["containers"] <= Cardinality(Placed(calf) \cap r.migrated)
  BY <1>1, <1>2 DEF CopyOK
<1>10. r.st.ok["containers"] \in Nat
  BY <1>2 DEF MigRecords, Statuses, Kinds
<1>11. CASE Emit(n, a)
  <2>1. MOK(a, raised)
    BY <1>1, <1>2, <1>5, <1>7 DEF MOK, Early
  <2>2. StopOK(a, source, raised, touched, spoiled)
    BY <1>1, <1>2, <1>7 DEF StopOK, Owes
  <2>3. CopyOK(a, calf)
    BY <1>1, <1>2, <1>7, <1>9, LateCopy
  <2>4. Copied(a.st, calf) /\ a.pc # "gone"
    BY <1>7, <2>1 DEF MOK, Copied
  <2> QED BY <1>1, <1>2, <1>3, <1>7, <1>11, <2>1, <2>2, <2>3, <2>4, EmitInv DEF r
<1>12. CASE Emit(n, e)
  <2>1. MOK(e, raised)
    BY <1>1, <1>2, <1>6, <1>8 DEF MOK, Early, Unfinished
  <2>2. StopOK(e, source, raised, touched, spoiled)
    BY <1>1, <1>2, <1>8, DeferredOwed
  <2>3. r.st.ok["containers"] = r.st.total["containers"] => Placed(calf) = Containers
    <3>1. Placed(calf) \cap r.migrated \subseteq Placed(calf)
      OBVIOUS
    <3> QED BY <1>9, <1>10, <3>1, AllPlaced, FiniteAssumption
  <2>4. CopyOK(e, calf)
    BY <1>1, <1>2, <1>8, <2>3, LateCopy
  <2>5. Copied(e.st, calf) /\ e.pc # "gone"
    BY <1>8 DEF Copied
  <2> QED BY <1>1, <1>2, <1>3, <1>8, <1>12, <2>1, <2>2, <2>4, <2>5, EmitInv DEF r
<1> QED BY <1>4, <1>11, <1>12

\* A count of old and new containers, which are different ones and all there.
LEMMA CountMore ==
  ASSUME Counting, NEW old \in SUBSET Containers, NEW new \in SUBSET Containers, NEW all \in SUBSET Containers,
         old \cap new = {}, old \cup new \in SUBSET all, NEW a \in Nat, a <= Cardinality(old)
  PROVE  a + Cardinality(new) <= Cardinality(all)
<1>1. IsFiniteSet(old) /\ IsFiniteSet(new)
  BY FiniteAssumption DEF Counting
<1>2. Cardinality(old) \in Nat /\ Cardinality(new) \in Nat
  BY <1>1 DEF Counting
<1>3. Cardinality(old \cup new) = Cardinality(old) + Cardinality(new)
  BY <1>1 DEF Counting
<1>4. Cardinality(old \cup new) <= Cardinality(all) /\ Cardinality(all) \in Nat
  BY Part, FiniteAssumption
<1> QED BY <1>2, <1>3, <1>4, SMT

\* The end of the loop over projects: what no project took along is left to the other loop.
LEMMA ComposeDoneInv ==
  ASSUME MigInv, NEW n \in 1..Len(mig), mig[n].pc = "compose",
         Emit(n, [mig[n] EXCEPT !.pc = "single", !.todo = mig[n].seen \ mig[n].migrated]),
         UNCHANGED <<flag, source, calf, touched, raised, spoiled>>
  PROVE  MigInv'
<1> DEFINE r == mig[n]
           m == [r EXCEPT !.pc = "single", !.todo = r.seen \ r.migrated]
<1>1. /\ r \in MigRecords /\ MOK(r, raised) /\ CopyOK(r, calf)
      /\ StopOK(r, source, raised, touched, spoiled)
  BY Local
<1>2. source \in [Containers -> BOOLEAN] /\ calf \in Engines /\ spoiled \in BOOLEAN
  BY Engine
<1>3. r.seen \ r.migrated \in SUBSET Things /\ r.migrated \subseteq r.seen
  BY <1>1 DEF MigRecords, Things, MOK
<1>4. /\ m \in MigRecords /\ m.pc = "single" /\ m.st = r.st /\ m.todo = r.seen \ r.migrated
      /\ m.ran = r.ran /\ m.seen = r.seen /\ m.migrated = r.migrated /\ m.stopped = r.stopped
  BY <1>1, <1>3 DEF MigRecords, Pcs
<1>5. Emit(n, m) /\ r.pc = "compose"
  OBVIOUS
<1> HIDE DEF m, r
<1>6. MOK(m, raised)
  BY <1>1, <1>4, <1>5 DEF MOK, Early
<1>7. StopOK(m, source, raised, touched, spoiled)
  BY <1>1, <1>4, <1>5 DEF StopOK, Owes
<1>8. /\ r.st.total["containers"] = Cardinality(Containers)
      /\ r.st.ok["containers"] <= Cardinality(Placed(calf) \cap r.migrated)
  BY <1>1, <1>5 DEF CopyOK
<1>9. Placed(calf) \cap (m.seen \ m.todo) = Placed(calf) \cap r.migrated
  BY <1>3, <1>4
<1>10. CopyOK(m, calf)
  BY <1>1, <1>4, <1>5, <1>8, <1>9, LateCopy
<1>11. Copied(m.st, calf) /\ m.pc # "gone"
  BY <1>4, <1>6 DEF MOK, Copied
<1> QED BY <1>1, <1>2, <1>4, <1>5, <1>6, <1>7, <1>10, <1>11, EmitInv DEF r

\* A project that is left to the other loop keeps the invariant, whatever `up` started.
LEMMA ComposeSkippedInv ==
  ASSUME Counting, MigInv, NEW n \in 1..Len(mig), mig[n].pc = "compose", NEW p \in mig[n].todo,
         Emit(n, [mig[n] EXCEPT !.todo = @ \ {p}]), NEW S,
         calf' = [calf EXCEPT !.containers = [c \in Containers |-> IF c \in S THEN "running" ELSE @[c]]],
         UNCHANGED <<flag, source, touched, raised, spoiled>>
  PROVE  MigInv'
<1> DEFINE r == mig[n]
           m == [r EXCEPT !.todo = @ \ {p}]
           f == [c \in Containers |-> IF c \in S THEN "running" ELSE calf.containers[c]]
<1>1. /\ r \in MigRecords /\ MOK(r, raised) /\ CopyOK(r, calf)
      /\ StopOK(r, source, raised, touched, spoiled)
  BY Local
<1>2. source \in [Containers -> BOOLEAN] /\ calf \in Engines /\ spoiled \in BOOLEAN
      /\ calf.containers \in [Containers -> {"none", "created", "running"}]
  BY Engine
<1>3. calf' = [calf EXCEPT !.containers = f]
  OBVIOUS
<1>4. f \in [Containers -> {"none", "created", "running"}]
      /\ \A c \in Containers : calf.containers[c] # "none" => f[c] # "none"
  BY <1>2
<1> HIDE DEF f
<1>5. calf' \in Engines /\ calf'.images = calf.images /\ calf'.volumes = calf.volumes /\ calf'.containers = f
  BY <1>2, <1>3, <1>4 DEF Engines
<1>6. /\ m \in MigRecords /\ m.pc = "compose" /\ m.st = r.st /\ m.todo = r.todo \ {p}
      /\ m.ran = r.ran /\ m.seen = r.seen /\ m.migrated = r.migrated /\ m.stopped = r.stopped
  BY <1>1 DEF MigRecords
<1>7. Emit(n, m) /\ r.pc = "compose"
  OBVIOUS
<1> HIDE DEF m, r
<1>8. MOK(m, raised)
  BY <1>1, <1>6, <1>7 DEF MOK, Early
<1>9. StopOK(m, source, raised, touched, spoiled)
  BY <1>1, <1>6, <1>7 DEF StopOK, Owes
<1>10. /\ r.st.total["containers"] = Cardinality(Containers)
       /\ r.st.ok["containers"] <= Cardinality(Placed(calf) \cap r.migrated)
  BY <1>1, <1>7 DEF CopyOK
<1>11. r.st.ok["containers"] <= Cardinality(Placed(calf') \cap r.migrated)
  <2>0. \A c \in Containers : calf.containers[c] # "none" => calf'.containers[c] # "none"
    BY <1>4, <1>5
  <2>1. Placed(calf) \subseteq Placed(calf')
    BY <2>0 DEF Placed
  <2>2. Placed(calf) \cap r.migrated \in SUBSET (Placed(calf') \cap r.migrated)
        /\ Placed(calf') \cap r.migrated \in SUBSET Containers
    BY <2>1 DEF Placed
  <2>3. /\ Cardinality(Placed(calf) \cap r.migrated) <= Cardinality(Placed(calf') \cap r.migrated)
        /\ Cardinality(Placed(calf) \cap r.migrated) \in Nat /\ Cardinality(Placed(calf') \cap r.migrated) \in Nat
    BY <2>2, Part, FiniteAssumption
  <2>4. r.st.ok["containers"] \in Nat
    BY <1>1 DEF MigRecords, Statuses, Kinds
  <2> QED BY <1>10, <2>3, <2>4, SMT
<1>12. CopyOK(m, calf')
  BY <1>1, <1>5, <1>6, <1>7, <1>10, <1>11, LateCopy
<1>13. Copied(m.st, calf') /\ m.pc # "gone"
  BY <1>6, <1>8 DEF MOK, Copied
<1> QED BY <1>1, <1>2, <1>5, <1>6, <1>7, <1>8, <1>9, <1>12, <1>13, EmitInv DEF r

\* The counts after a project that compose brought up.
MoreOk(ok, d) == [ok EXCEPT !["containers"] = @ + d]

\* They change for the containers only.
LEMMA MoreContainers ==
  ASSUME NEW ok \in [Kinds -> Nat], NEW d \in Nat
  PROVE  /\ MoreOk(ok, d) \in [Kinds -> Nat] /\ MoreOk(ok, d)["containers"] = ok["containers"] + d
         /\ MoreOk(ok, d)["images"] = ok["images"] /\ MoreOk(ok, d)["volumes"] = ok["volumes"]
<1>1. "containers" \in Kinds /\ "images" \in Kinds /\ "volumes" \in Kinds
  BY DEF Kinds
<1> QED BY <1>1, SMT DEF MoreOk

\* A project that compose brought up: its members are in place, and none was counted before.
LEMMA ComposedInv ==
  ASSUME Counting, MigInv, NEW n \in 1..Len(mig), mig[n].pc = "compose", NEW p \in mig[n].todo,
         NEW halted, calf' = [calf EXCEPT !.containers = Composed(p, halted)],
         raised' = raised \cup {p},
         Emit(n, [mig[n] EXCEPT !.todo = @ \ {p}, !.migrated = @ \cup (Members(p) \cap mig[n].seen),
                    !.st.ok["containers"] = @ + Cardinality(Members(p) \cap mig[n].seen)]),
         UNCHANGED <<flag, source, touched, spoiled>>
  PROVE  MigInv'
<1> DEFINE r == mig[n]
           new == Members(p) \cap r.seen
           f == Composed(p, halted)
           o == MoreOk(r.st.ok, Cardinality(new))
           st == [r.st EXCEPT !.ok = o]
           m == [r EXCEPT !.todo = @ \ {p}, !.migrated = @ \cup new, !.st = st]
<1>1. /\ r \in MigRecords /\ MOK(r, raised) /\ CopyOK(r, calf)
      /\ StopOK(r, source, raised, touched, spoiled)
  BY Local
<1>2. source \in [Containers -> BOOLEAN] /\ calf \in Engines /\ spoiled \in BOOLEAN
      /\ calf.containers \in [Containers -> {"none", "created", "running"}]
  BY Engine
<1>3. calf' = [calf EXCEPT !.containers = f] /\ r.pc = "compose" /\ r.todo \subseteq Projects /\ p \in r.todo
  BY <1>1 DEF MOK
<1>4. Emit(n, m)
  BY <1>1 DEF MigRecords, Statuses, MoreOk
<1>5. new \in SUBSET Containers /\ new \subseteq r.seen /\ \A c \in new : ProjectOf[c] = p
  BY DEF Members
<1>6. /\ f \in [Containers -> {"none", "created", "running"}]
      /\ \A c \in Containers : calf.containers[c] # "none" => f[c] # "none"
      /\ \A c \in Containers \cap ComposeFile(p) : f[c] # "none"
  BY <1>2 DEF Composed
<1> HIDE DEF f, new, r
<1>7. calf' \in Engines /\ calf'.images = calf.images /\ calf'.volumes = calf.volumes /\ calf'.containers = f
  BY <1>2, <1>3, <1>6 DEF Engines
<1>8. Cardinality(new) \in Nat /\ r.st.ok["containers"] \in Nat
  <2>1. Cardinality(new) \in Nat
    BY <1>5, Part, FiniteAssumption
  <2>2. r.st.ok["containers"] \in Nat
    BY <1>1 DEF MigRecords, Statuses, Kinds
  <2> QED BY <2>1, <2>2
<1>9. /\ o \in [Kinds -> Nat] /\ o["containers"] = r.st.ok["containers"] + Cardinality(new)
      /\ o["images"] = r.st.ok["images"] /\ o["volumes"] = r.st.ok["volumes"]
  <2>1. r.st.ok \in [Kinds -> Nat]
    BY <1>1 DEF MigRecords, Statuses
  <2> QED BY <1>8, <2>1, MoreContainers DEF o
<1> HIDE DEF o
<1>10. st \in Statuses /\ st.phase = r.st.phase /\ st.ok = o /\ st.total = r.st.total
  BY <1>1, <1>9 DEF MigRecords, Statuses
<1> HIDE DEF st
<1>11. /\ m \in MigRecords /\ m.pc = "compose" /\ m.st = st /\ m.todo = r.todo \ {p}
       /\ m.ran = r.ran /\ m.seen = r.seen /\ m.migrated = r.migrated \cup new /\ m.stopped = r.stopped
  BY <1>1, <1>3, <1>5, <1>10 DEF MigRecords
<1> HIDE DEF m
<1>12. MOK(m, raised')
  <2>1. \A c \in m.migrated : ProjectOf[c] \in raised \cup {p} /\ ProjectOf[c] \notin r.todo \ {p}
    BY <1>1, <1>3, <1>5, <1>11 DEF MOK
  <2>2. /\ m.stopped \subseteq m.ran /\ m.ran \subseteq m.seen /\ m.migrated \subseteq m.seen
        /\ m.todo \subseteq Projects /\ m.st.phase # "completed"
    BY <1>1, <1>3, <1>5, <1>10, <1>11 DEF MOK
  <2> QED BY <1>11, <2>1, <2>2 DEF MOK, Early
<1>13. StopOK(m, source, raised', touched, spoiled)
  BY <1>1, <1>3, <1>11 DEF StopOK, Owes
<1>14. /\ r.st.total["containers"] = Cardinality(Containers)
       /\ r.st.ok["containers"] <= Cardinality(Placed(calf) \cap r.migrated)
  BY <1>1, <1>3 DEF CopyOK
<1>15. o["containers"] <= Cardinality(Placed(calf') \cap m.migrated)
  <2> DEFINE old == Placed(calf) \cap r.migrated
             all == Placed(calf') \cap m.migrated
  <2>1. Placed(calf) \subseteq Placed(calf') /\ new \subseteq Placed(calf')
    <3>1. \A c \in Containers : calf'.containers[c] = f[c]
      BY <1>7
    <3>2. Placed(calf) \subseteq Placed(calf')
      BY <1>6, <3>1 DEF Placed
    <3>3. p # Standalone
      BY <1>3 DEF Projects
    <3>4. new \subseteq Placed(calf')
      BY <1>5, <1>6, <3>1, <3>3 DEF Placed
    <3> QED BY <3>2, <3>4
  <2>2. old \cap new = {}
    BY <1>1, <1>3, <1>5, SMT DEF MOK
  <2>3. old \in SUBSET Containers /\ old \cup new \in SUBSET all /\ all \in SUBSET Containers
    BY <1>5, <1>11, <2>1 DEF Placed
  <2> HIDE DEF old, all
  <2>4. r.st.ok["containers"] <= Cardinality(old)
    BY <1>14 DEF old
  <2>5. r.st.ok["containers"] + Cardinality(new) <= Cardinality(all)
    BY <1>5, <1>8, <2>2, <2>3, <2>4, CountMore, FiniteAssumption
  <2> QED BY <1>9, <2>5 DEF all
<1>16. CopyOK(m, calf')
  <2>1. /\ m.st.ok["images"] = r.st.ok["images"] /\ m.st.ok["volumes"] = r.st.ok["volumes"]
        /\ m.st.total = r.st.total /\ m.st.total["containers"] = Cardinality(Containers)
        /\ m.st.ok["containers"] <= Cardinality(Placed(calf') \cap m.migrated)
    BY <1>9, <1>10, <1>11, <1>14, <1>15
  <2>2. r.pc = "compose" /\ m.pc = "compose" /\ CopyOK(r, calf)
    BY <1>1, <1>3, <1>11
  <2> QED BY <1>7, <2>1, <2>2, LateCopy
<1>17. Copied(m.st, calf') /\ m.pc # "gone"
  BY <1>11, <1>12 DEF MOK, Copied
<1> QED BY <1>1, <1>2, <1>3, <1>4, <1>7, <1>11, <1>12, <1>13, <1>16, <1>17, EmitInv DEF r

\* A pass of the loop over projects keeps the invariant.
LEMMA MigrateComposeInv == ASSUME Counting, MigInv, NEW n \in 1..Len(mig), MigrateCompose(n) PROVE MigInv'
<1> DEFINE m == mig[n]
<1>1. m.pc = "compose" /\ UNCHANGED <<flag, source, touched, spoiled>>
  BY DEF MigrateCompose
<1>2. \/ /\ Emit(n, [m EXCEPT !.pc = "single", !.todo = m.seen \ m.migrated])
         /\ UNCHANGED <<calf, raised>>
      \/ \E p \in m.todo :
           \/ /\ \E halted : calf' = [calf EXCEPT !.containers = Composed(p, halted)]
              /\ raised' = raised \cup {p}
              /\ Emit(n, [m EXCEPT !.todo = @ \ {p}, !.migrated = @ \cup (Members(p) \cap m.seen),
                                   !.st.ok["containers"] = @ + Cardinality(Members(p) \cap m.seen)])
           \/ /\ \E S :
                   calf' = [calf EXCEPT !.containers = [c \in Containers |-> IF c \in S THEN "running" ELSE @[c]]]
              /\ Emit(n, [m EXCEPT !.todo = @ \ {p}])
              /\ UNCHANGED raised
  BY DEF MigrateCompose
<1>3. CASE Emit(n, [m EXCEPT !.pc = "single", !.todo = m.seen \ m.migrated]) /\ UNCHANGED <<calf, raised>>
  BY <1>1, <1>3, ComposeDoneInv
<1>4. ASSUME NEW p \in m.todo, NEW halted, calf' = [calf EXCEPT !.containers = Composed(p, halted)],
             raised' = raised \cup {p},
             Emit(n, [m EXCEPT !.todo = @ \ {p}, !.migrated = @ \cup (Members(p) \cap m.seen),
                               !.st.ok["containers"] = @ + Cardinality(Members(p) \cap m.seen)])
      PROVE  MigInv'
  BY <1>1, <1>4, ComposedInv
<1>5. ASSUME NEW p \in m.todo, NEW S,
             calf' = [calf EXCEPT !.containers = [c \in Containers |-> IF c \in S THEN "running" ELSE @[c]]],
             Emit(n, [m EXCEPT !.todo = @ \ {p}]), UNCHANGED raised
      PROVE  MigInv'
  BY <1>1, <1>5, ComposeSkippedInv
<1> QED BY <1>2, <1>3, <1>4, <1>5

\* The end of the loop over containers: the deferred function has what is owed, and the count
\* is right.
LEMMA SingleDoneInv ==
  ASSUME Counting, MigInv, NEW n \in 1..Len(mig), mig[n].pc = "single",
         Emit(n, [mig[n] EXCEPT !.pc = "restart", !.todo = Unfinished(mig[n])]),
         UNCHANGED <<flag, source, calf, touched, raised, spoiled>>
  PROVE  MigInv'
<1> DEFINE r == mig[n]
           m == [r EXCEPT !.pc = "restart", !.todo = Unfinished(r)]
<1>1. /\ r \in MigRecords /\ MOK(r, raised) /\ CopyOK(r, calf)
      /\ StopOK(r, source, raised, touched, spoiled)
  BY Local
<1>2. source \in [Containers -> BOOLEAN] /\ calf \in Engines /\ spoiled \in BOOLEAN
  BY Engine
<1>3. Unfinished(r) \in SUBSET Things /\ Unfinished(r) \subseteq Containers
  BY <1>1 DEF MigRecords, Things, Unfinished
<1>4. /\ m \in MigRecords /\ m.pc = "restart" /\ m.st = r.st /\ m.todo = Unfinished(r)
      /\ m.ran = r.ran /\ m.seen = r.seen /\ m.migrated = r.migrated /\ m.stopped = r.stopped
  BY <1>1, <1>3 DEF MigRecords, Pcs
<1>5. Emit(n, m) /\ r.pc = "single"
  OBVIOUS
<1> HIDE DEF m, r
<1>6. MOK(m, raised)
  BY <1>1, <1>3, <1>4, <1>5 DEF MOK, Early
<1>7. StopOK(m, source, raised, touched, spoiled)
  BY <1>1, <1>4, <1>5, DeferredOwed
<1>8. r.st.ok["containers"] = r.st.total["containers"] => Placed(calf) = Containers
  <2>1. /\ r.st.total["containers"] = Cardinality(Containers)
        /\ r.st.ok["containers"] <= Cardinality(Placed(calf) \cap (r.seen \ r.todo))
    BY <1>1, <1>5 DEF CopyOK
  <2>2. r.st.ok["containers"] \in Nat
    BY <1>1 DEF MigRecords, Statuses, Kinds
  <2>3. Placed(calf) \cap (r.seen \ r.todo) \subseteq Placed(calf)
    OBVIOUS
  <2> QED BY <2>1, <2>2, <2>3, AllPlaced, FiniteAssumption
<1>9. CopyOK(m, calf)
  BY <1>1, <1>4, <1>5, <1>8, LateCopy
<1>10. Copied(m.st, calf) /\ m.pc # "gone"
  BY <1>4, <1>6 DEF MOK, Copied
<1> QED BY <1>1, <1>2, <1>4, <1>5, <1>6, <1>7, <1>9, <1>10, EmitInv DEF r

\* A count that grew by at most one, for a container that was not counted and is there now.
LEMMA CountOne ==
  ASSUME Counting, NEW old \in SUBSET Containers, NEW all \in SUBSET Containers, NEW c \in Containers, c \notin old,
         old \subseteq all, NEW a \in Nat, a <= Cardinality(old),
         NEW b, b = a \/ (b = a + 1 /\ old \cup {c} \subseteq all)
  PROVE  b <= Cardinality(all)
<1>1. Cardinality(old) <= Cardinality(all) /\ Cardinality(old) \in Nat /\ Cardinality(all) \in Nat
  BY Part, FiniteAssumption
<1>2. Cardinality(old \cup {c}) = Cardinality(old) + 1
  BY OneMore, FiniteAssumption
<1>3. old \cup {c} \subseteq all => Cardinality(old \cup {c}) <= Cardinality(all)
  BY Part, FiniteAssumption
<1> QED BY <1>1, <1>2, <1>3, SMT

\* A pass over a container: m is counted for at most one container more, which is then in place.
LEMMA SinglePassInv ==
  ASSUME Counting, MigInv, NEW n \in 1..Len(mig), mig[n].pc = "single", NEW c \in mig[n].todo,
         NEW m \in MigRecords, Emit(n, m), m.pc = "single", m.todo = mig[n].todo \ {c},
         m.ran = mig[n].ran, m.seen = mig[n].seen, m.migrated = mig[n].migrated, m.stopped = mig[n].stopped,
         m.st.phase = mig[n].st.phase, m.st.total = mig[n].st.total,
         m.st.ok["images"] = mig[n].st.ok["images"], m.st.ok["volumes"] = mig[n].st.ok["volumes"],
         \/ m.st.ok["containers"] = mig[n].st.ok["containers"]
         \/ m.st.ok["containers"] = mig[n].st.ok["containers"] + 1 /\ calf'.containers[c] # "none",
         calf' \in Engines, calf'.images = calf.images, calf'.volumes = calf.volumes,
         \A d \in Containers : calf.containers[d] # "none" => calf'.containers[d] # "none",
         UNCHANGED <<flag, source, touched, raised, spoiled>>
  PROVE  MigInv'
<1> DEFINE r == mig[n]
<1>1. /\ r \in MigRecords /\ MOK(r, raised) /\ CopyOK(r, calf)
      /\ StopOK(r, source, raised, touched, spoiled)
  BY Local
<1>2. source \in [Containers -> BOOLEAN] /\ spoiled \in BOOLEAN
  BY Engine
<1>3. r.todo \subseteq r.seen /\ r.seen \subseteq Containers /\ c \in r.seen /\ c \in Containers
  BY <1>1 DEF MOK, MigRecords
<1>4. MOK(m, raised)
  BY <1>1 DEF MOK, Early
<1>5. StopOK(m, source, raised, touched, spoiled)
  BY <1>1 DEF StopOK, Owes
<1>6. /\ r.st.total["containers"] = Cardinality(Containers)
      /\ r.st.ok["containers"] <= Cardinality(Placed(calf) \cap (r.seen \ r.todo))
  BY <1>1 DEF CopyOK
<1>7. r.st.ok["containers"] \in Nat
  BY <1>1 DEF MigRecords, Statuses, Kinds
<1> DEFINE old == Placed(calf) \cap (r.seen \ r.todo)
           all == Placed(calf') \cap (m.seen \ m.todo)
<1>8. Placed(calf) \subseteq Placed(calf') /\ (calf'.containers[c] # "none" => c \in Placed(calf'))
  BY <1>3 DEF Placed
<1>9. /\ old \in SUBSET Containers /\ all \in SUBSET Containers /\ c \notin old /\ old \subseteq all
      /\ (calf'.containers[c] # "none" => old \cup {c} \subseteq all)
  BY <1>3, <1>8 DEF Placed
<1> HIDE DEF old, all
<1>10. m.st.ok["containers"] <= Cardinality(all)
  <2> DEFINE a == r.st.ok["containers"]
             b == m.st.ok["containers"]
  <2>1. a \in Nat /\ a <= Cardinality(old)
    BY <1>6, <1>7 DEF old
  <2>2. b = a \/ (b = a + 1 /\ old \cup {c} \subseteq all)
    <3>1. b = a \/ (b = a + 1 /\ calf'.containers[c] # "none")
      OBVIOUS
    <3> HIDE DEF a, b
    <3> QED BY <1>9, <3>1
  <2>3. old \in SUBSET Containers /\ all \in SUBSET Containers /\ c \in Containers /\ c \notin old /\ old \subseteq all
    BY <1>3, <1>9
  <2>4. b <= Cardinality(all)
    <3> HIDE DEF a, b
    <3> QED BY <2>1, <2>2, <2>3, CountOne, FiniteAssumption
  <2> QED BY <2>4
<1>11. CopyOK(m, calf')
  <2>1. m.st.ok["containers"] <= Cardinality(Placed(calf') \cap (m.seen \ m.todo))
    BY <1>10 DEF all
  <2>2. m.st.total["containers"] = Cardinality(Containers) /\ r.pc = "single"
    BY <1>6
  <2> QED BY <1>1, <2>1, <2>2, LateCopy
<1>12. Copied(m.st, calf')
  BY <1>4 DEF MOK, Copied
<1> QED BY <1>1, <1>2, <1>4, <1>5, <1>11, <1>12, EmitInv

\* The engine after a container is made, and what that changes and leaves.
Make(k, c, x) == [k EXCEPT !.containers[c] = x]

\* Engine e is k with container c made, and lost none.
MadeAs(e, k, c) ==
  /\ e \in Engines /\ e.images = k.images /\ e.volumes = k.volumes /\ e.containers[c] # "none"
  /\ \A d \in Containers : k.containers[d] # "none" => e.containers[d] # "none"

\* An engine in which one container was made.
LEMMA ContainerSet ==
  ASSUME NEW k \in Engines, NEW c \in Containers, NEW x \in {"created", "running"}
  PROVE  MadeAs(Make(k, c, x), k, c)
<1> DEFINE f == [k.containers EXCEPT ![c] = x]
           e == Make(k, c, x)
<1>1. /\ f \in [Containers -> {"none", "created", "running"}] /\ f[c] # "none"
      /\ \A d \in Containers : k.containers[d] # "none" => f[d] # "none"
  BY DEF Engines
<1>2. e = [k EXCEPT !.containers = f]
  BY DEF Engines, Make
<1> HIDE DEF f, e
<1>3. e \in Engines /\ e.images = k.images /\ e.volumes = k.volumes /\ e.containers = f
  BY <1>1, <1>2 DEF Engines
<1> QED BY <1>1, <1>3 DEF MadeAs, e

\* A pass of the loop over containers keeps the invariant.
LEMMA MigrateSingleInv == ASSUME Counting, MigInv, NEW n \in 1..Len(mig), MigrateSingle(n) PROVE MigInv'
<1> DEFINE r == mig[n]
<1>1. r.pc = "single" /\ UNCHANGED <<flag, source, touched, raised, spoiled>>
  BY DEF MigrateSingle
<1>2. r \in MigRecords /\ MOK(r, raised) /\ calf \in Engines
  BY <1>1, Local, Engine
<1>3. r.todo \subseteq Containers
  BY <1>1, <1>2 DEF MOK, MigRecords
<1>4. \/ Emit(n, [r EXCEPT !.pc = "restart", !.todo = Unfinished(r)]) /\ UNCHANGED calf
      \/ \E c \in r.todo, x \in {"created", "running"} :
           calf' = [calf EXCEPT !.containers[c] = x] /\ Emit(n, Counted([r EXCEPT !.todo = @ \ {c}], "containers"))
      \/ \E c \in r.todo, x \in {"created", "running"} :
           calf' \in {calf, [calf EXCEPT !.containers[c] = x]} /\ Emit(n, [r EXCEPT !.todo = @ \ {c}])
  BY DEF MigrateSingle
<1>5. CASE Emit(n, [r EXCEPT !.pc = "restart", !.todo = Unfinished(r)]) /\ UNCHANGED calf
  BY <1>1, <1>5, SingleDoneInv
<1>6. ASSUME NEW c \in r.todo, NEW x \in {"created", "running"}
      PROVE  /\ calf' = [calf EXCEPT !.containers[c] = x] /\ Emit(n, Counted([r EXCEPT !.todo = @ \ {c}], "containers"))
                => MigInv'
             /\ calf' \in {calf, [calf EXCEPT !.containers[c] = x]} /\ Emit(n, [r EXCEPT !.todo = @ \ {c}])
                => MigInv'
  <2> DEFINE d == [r EXCEPT !.todo = @ \ {c}]
             m == Counted(d, "containers")
             e == Make(calf, c, x)
  <2>1. /\ d \in MigRecords /\ d.pc = "single" /\ d.st = r.st /\ d.todo = r.todo \ {c}
        /\ d.ran = r.ran /\ d.seen = r.seen /\ d.migrated = r.migrated /\ d.stopped = r.stopped
    BY <1>1, <1>2 DEF MigRecords
  <2>2. /\ e \in Engines /\ e.images = calf.images /\ e.volumes = calf.volumes /\ e.containers[c] # "none"
        /\ \A u \in Containers : calf.containers[u] # "none" => e.containers[u] # "none"
    <3>1. c \in Containers
      BY <1>3
    <3>2. MadeAs(e, calf, c)
      BY <1>2, <3>1, ContainerSet
    <3> HIDE DEF e
    <3> QED BY <3>2 DEF MadeAs
  <2> HIDE DEF d, r, e
  <2>3. /\ m \in MigRecords /\ m.pc = "single" /\ m.todo = r.todo \ {c}
        /\ m.ran = r.ran /\ m.seen = r.seen /\ m.stopped = r.stopped /\ m.migrated = r.migrated
        /\ m.st.phase = r.st.phase /\ m.st.total = r.st.total
        /\ m.st.ok["containers"] = r.st.ok["containers"] + 1
        /\ m.st.ok["images"] = r.st.ok["images"] /\ m.st.ok["volumes"] = r.st.ok["volumes"]
    <3>1. "containers" \in Kinds /\ {"images", "volumes"} \subseteq Kinds \ {"containers"}
      BY DEF Kinds
    <3>2. TalliedAs(m, d, "containers")
      BY <2>1, <3>1, Tallied
    <3> HIDE DEF m
    <3> QED BY <2>1, <3>1, <3>2 DEF TalliedAs
  <2> HIDE DEF m
  <2>4. calf' = e /\ Emit(n, m) => MigInv'
    <3> SUFFICES ASSUME calf' = e, Emit(n, m) PROVE MigInv'
      OBVIOUS
    <3>1. /\ calf' \in Engines /\ calf'.images = calf.images /\ calf'.volumes = calf.volumes
          /\ calf'.containers[c] # "none"
          /\ \A u \in Containers : calf.containers[u] # "none" => calf'.containers[u] # "none"
      BY <2>2
    <3> QED BY <1>1, <2>3, <3>1, SinglePassInv DEF r
  <2>5. calf' \in {calf, e} /\ Emit(n, d) => MigInv'
    <3>1. calf' = e /\ Emit(n, d) => MigInv'
      BY <1>1, <2>1, <2>2, SinglePassInv DEF r
    <3>2. calf' = calf /\ Emit(n, d) => MigInv'
      BY <1>1, <1>2, <2>1, SinglePassInv DEF r
    <3> QED BY <3>1, <3>2
  <2> QED BY <2>4, <2>5 DEF d, m, e, r, Make
<1> QED BY <1>4, <1>5, <1>6

\* What was stopped is started again, or the failure is on record.
LEMMA RestartOnSourceInv == ASSUME MigInv, NEW n \in 1..Len(mig), RestartOnSource(n) PROVE MigInv'
<1> DEFINE r == mig[n]
<1>1. r.pc = "restart" /\ UNCHANGED <<flag, calf, touched, raised>>
  BY DEF RestartOnSource
<1>2. /\ r \in MigRecords /\ r.pc # "gone" /\ MOK(r, raised) /\ CopyOK(r, calf)
      /\ StopOK(r, source, raised, touched, spoiled)
  BY <1>1, Local
<1>3. source \in [Containers -> BOOLEAN] /\ calf \in Engines /\ spoiled \in BOOLEAN
  BY Engine
<1>4. r.st.ok["containers"] = r.st.total["containers"] => Placed(calf) = Containers
  BY <1>1, <1>2 DEF CopyOK
<1>5. \/ r.todo = {} /\ (Goto(n, "finish") \/ Goto(n, "builds")) /\ UNCHANGED <<source, spoiled>>
      \/ \E c \in r.todo : /\ Emit(n, [r EXCEPT !.todo = @ \ {c}])
                           /\ \/ source' = [source EXCEPT ![c] = TRUE] /\ UNCHANGED spoiled
                              \/ spoiled' = TRUE /\ UNCHANGED source
  BY DEF RestartOnSource
<1>6. CASE r.todo = {} /\ (Goto(n, "finish") \/ Goto(n, "builds")) /\ UNCHANGED <<source, spoiled>>
  <2>1. PICK p \in {"finish", "builds"} : Goto(n, p)
    BY <1>6
  <2> DEFINE m == [r EXCEPT !.pc = p]
  <2>2. p \in Pcs /\ p # "gone"
    BY DEF Pcs
  <2>3. /\ m.pc = p /\ m.st = r.st /\ m.todo = r.todo
        /\ m.ran = r.ran /\ m.seen = r.seen /\ m.migrated = r.migrated /\ m.stopped = r.stopped
    BY <1>2, <2>2 DEF MigRecords
  <2> HIDE DEF m
  <2>4. MOK(m, raised)
    BY <1>1, <1>2, <2>3 DEF MOK, Early
  <2>5. CopyOK(m, calf)
    <3>1. CASE p = "finish"
      BY <2>3, <3>1 DEF CopyOK, Early
    <3>2. CASE p = "builds"
      BY <1>1, <1>2, <1>4, <2>3, <3>2, LateCopy
    <3> QED BY <3>1, <3>2
  <2>6. Copied(r.st, calf)
    BY <1>1, <1>2 DEF MOK, Copied
  <2>7. \A c \in Containers : ~Owes(r, c)
    BY <1>1, <1>6 DEF Owes
  <2> QED BY <1>1, <1>2, <1>6, <2>1, <2>2, <2>4, <2>5, <2>6, <2>7, MoveInv DEF m
<1>7. ASSUME NEW c \in r.todo, Emit(n, [r EXCEPT !.todo = @ \ {c}]),
             \/ source' = [source EXCEPT ![c] = TRUE] /\ UNCHANGED spoiled
             \/ spoiled' = TRUE /\ UNCHANGED source
      PROVE  MigInv'
  <2> DEFINE m == [r EXCEPT !.todo = @ \ {c}]
  <2>1. /\ m \in MigRecords /\ m.pc = "restart" /\ m.st = r.st /\ m.todo = r.todo \ {c}
        /\ m.ran = r.ran /\ m.seen = r.seen /\ m.migrated = r.migrated /\ m.stopped = r.stopped
    BY <1>1, <1>2 DEF MigRecords
  <2>2. Emit(n, m)
    BY <1>7
  <2> HIDE DEF m, r
  <2>3. source' \in [Containers -> BOOLEAN] /\ spoiled' \in BOOLEAN /\ c \in Containers
    BY <1>1, <1>2, <1>3, <1>7 DEF MOK
  <2>4. MOK(m, raised)
    BY <1>1, <1>2, <2>1 DEF MOK, Early
  <2>5. spoiled' \/ (~spoiled' /\ ~spoiled /\ source' = [source EXCEPT ![c] = TRUE])
    BY <1>3, <1>7
  <2>6. \A u \in Containers : Owes(r, u) => u = c \/ Owes(m, u)
    BY <1>1, <2>1 DEF Owes
  <2>7. StopOK(m, source', raised, touched, spoiled')
    BY <1>2, <1>3, <2>3, <2>5, <2>6 DEF StopOK
  <2>8. CopyOK(m, calf)
    BY <1>1, <1>2, <1>4, <2>1, LateCopy
  <2>9. Copied(m.st, calf) /\ m.pc # "gone"
    BY <2>1, <2>4 DEF MOK, Copied
  <2> QED BY <1>1, <1>2, <1>3, <2>1, <2>2, <2>3, <2>4, <2>7, <2>8, <2>9, EmitInv DEF r
<1> QED BY <1>5, <1>6, <1>7

\* A migration that completes has copied what it counted.
LEMMA MigrateBuildsInv == ASSUME MigInv, NEW n \in 1..Len(mig), MigrateBuilds(n) PROVE MigInv'
<1> DEFINE r == mig[n]
           m == [r EXCEPT !.pc = "finish", !.st.phase = "completed"]
<1>1. r.pc = "builds" /\ UNCHANGED <<flag, source, calf, touched, raised, spoiled>> /\ Emit(n, m)
  BY DEF MigrateBuilds
<1>2. /\ r \in MigRecords /\ r.pc # "gone" /\ MOK(r, raised) /\ CopyOK(r, calf)
      /\ StopOK(r, source, raised, touched, spoiled)
  BY <1>1, Local
<1>3. source \in [Containers -> BOOLEAN] /\ calf \in Engines /\ spoiled \in BOOLEAN
  BY Engine
<1>4. /\ m \in MigRecords /\ m.pc = "finish" /\ m.st.ok = r.st.ok /\ m.st.total = r.st.total
      /\ m.ran = r.ran /\ m.seen = r.seen /\ m.migrated = r.migrated /\ m.stopped = r.stopped
  BY <1>2 DEF MigRecords, Pcs, Statuses, Phases
<1> HIDE DEF m, r
<1>5. MOK(m, raised)
  BY <1>1, <1>2, <1>4 DEF MOK, Early
<1>6. StopOK(m, source, raised, touched, spoiled)
  BY <1>1, <1>2, <1>4 DEF StopOK, Owes
<1>7. CopyOK(m, calf) /\ m.pc # "gone"
  BY <1>4 DEF CopyOK, Early
<1>8. Copied(m.st, calf)
  BY <1>1, <1>2, <1>4 DEF CopyOK, Copied
<1> QED BY <1>1, <1>2, <1>3, <1>4, <1>5, <1>6, <1>7, <1>8, EmitInv DEF r

-----------------------------------------------------------------------------
(* The end and the disturbances of a migration.                            *)

\* What is known of the copies depends on these fields of a migration alone.
LEMMA SameCopy ==
  ASSUME NEW r, NEW m, NEW k, CopyOK(r, k), m.pc = r.pc, m.st = r.st, m.todo = r.todo, m.item = r.item,
         m.seen = r.seen, m.migrated = r.migrated
  PROVE  CopyOK(m, k)
<1>1. Waiting(m) = Waiting(r)
  BY DEF Waiting
<1> QED BY <1>1, SMTT(20) DEF CopyOK

\* The end of a migration keeps the invariant: the last status, then the reset of the flag.
LEMMA EndInv == ASSUME MigInv, NEW n \in 1..Len(mig), End(n) PROVE MigInv'
<1>1. CASE Finish(n)
  <2> DEFINE m == [mig[n] EXCEPT !.pc = "release"]
  <2>1. mig[n].pc = "finish" /\ Goto(n, "release") /\ UNCHANGED <<flag, source, calf, touched, raised, spoiled>>
    BY <1>1 DEF End, Finish
  <2>2. /\ mig[n] \in MigRecords /\ MOK(mig[n], raised) /\ status = mig[n].st
        /\ StopOK(mig[n], source, raised, touched, spoiled)
    BY <2>1, Local
  <2>3. /\ m.pc = "release" /\ m.st = mig[n].st /\ m.todo = mig[n].todo
        /\ m.ran = mig[n].ran /\ m.seen = mig[n].seen
        /\ m.migrated = mig[n].migrated /\ m.stopped = mig[n].stopped
    BY <2>2 DEF MigRecords, Pcs
  <2>4. Copied(mig[n].st, calf)
    BY <2>2 DEF MigInv
  <2> HIDE DEF m
  <2>5. MOK(m, raised)
    BY <2>1, <2>2, <2>3 DEF MOK, Early
  <2>6. CopyOK(m, calf)
    BY <2>3 DEF CopyOK, Early
  <2>7. \A c \in Containers : ~Owes(mig[n], c)
    BY <2>1 DEF Owes
  <2>8. "release" \in Pcs
    BY DEF Pcs
  <2> QED BY <2>1, <2>4, <2>5, <2>6, <2>7, <2>8, MoveInv DEF m
<1>2. CASE Release(n)
  <2>1. /\ mig[n].pc = "release" /\ flag' = FALSE /\ mig' = [mig EXCEPT ![n] = Gone]
        /\ UNCHANGED <<status, source, calf, touched, raised, spoiled>>
    BY <1>2 DEF End, Release
  <2>2. n = Len(mig) /\ StopOK(mig[n], source, raised, touched, spoiled)
    BY <2>1, Local
  <2>3. Gone \in MigRecords /\ Gone.pc = "gone"
    BY DEF Gone, MigRecords, Pcs, IdleStatus, Status, Statuses, Phases, None
  <2>4. mig \in Seq(MigRecords) /\ flag' \in BOOLEAN /\ Copied(status, calf)
    BY <2>1 DEF MigInv, MigTypes
  <2>5. mig' \in Seq(MigRecords) /\ Len(mig') = Len(mig)
        /\ \A k \in 1..Len(mig) : mig'[k] = IF k = n THEN Gone ELSE mig[k]
    BY <2>1, <2>3, <2>4, Replaced, SMT
  <2>6. \A k \in 1..Len(mig) : k # n => mig[k].pc = "gone"
    BY <2>2 DEF MigInv
  <2>7. \A k \in 1..Len(mig') : mig'[k].pc = "gone"
    BY <2>3, <2>5, <2>6
  <2>8. StopOK(Gone, source, raised, touched, spoiled)
    BY <2>1, <2>2 DEF StopOK, Owes
  <2>9. MigTypes'
    BY <2>1, <2>4, <2>5 DEF MigInv, MigTypes
  <2>10. Copied(status', calf') /\ StopOK(Gone, source', raised', touched', spoiled')
    BY <2>1, <2>4, <2>8
  <2>11. \A k \in 1..Len(mig') : mig'[k].stopped \subseteq mig'[k].ran /\ mig'[k].ran \subseteq mig'[k].seen
    <3>1. Gone.stopped \subseteq Gone.ran /\ Gone.ran \subseteq Gone.seen
      BY DEF Gone
    <3>2. \A k \in 1..Len(mig) : mig[k].stopped \subseteq mig[k].ran /\ mig[k].ran \subseteq mig[k].seen
      BY DEF MigInv
    <3> QED BY <2>5, <3>1, <3>2, SMT
  <2> QED BY <2>7, <2>9, <2>10, <2>11 DEF MigInv
<1> QED BY <1>1, <1>2 DEF End

\* The end of a migration's context keeps the invariant: what fails from then on is excused.
LEMMA ContextOverInv == ASSUME MigInv, NEW n \in 1..Len(mig), ContextOver(n) PROVE MigInv'
<1> DEFINE r == mig[n]
           m == [r EXCEPT !.over = TRUE]
<1>1. /\ r.pc \notin {"gone", "finish", "release"} /\ spoiled' = TRUE
      /\ mig' = [mig EXCEPT ![n] = m] /\ UNCHANGED <<flag, status, source, calf, touched, raised>>
  BY DEF ContextOver
<1>2. /\ r \in MigRecords /\ status = r.st /\ MOK(r, raised) /\ CopyOK(r, calf)
  BY <1>1, Local
<1>3. /\ m \in MigRecords /\ m.pc = r.pc /\ m.st = r.st /\ m.todo = r.todo /\ m.item = r.item
      /\ m.ran = r.ran /\ m.seen = r.seen /\ m.migrated = r.migrated /\ m.stopped = r.stopped
  BY <1>2 DEF MigRecords
<1> HIDE DEF m, r
<1>4. Emit(n, m)
  BY <1>1, <1>2, <1>3 DEF Emit, r
<1>5. MOK(m, raised)
  BY <1>2, <1>3, SMT DEF MOK
<1>6. CopyOK(m, calf)
  BY <1>2, <1>3, SameCopy
<1>7. Copied(m.st, calf)
  BY <1>2, <1>3 DEF MigInv
<1>8. StopOK(m, source, raised, touched, spoiled')
  BY <1>1 DEF StopOK
<1>9. source \in [Containers -> BOOLEAN] /\ calf \in Engines /\ spoiled' \in BOOLEAN
  BY <1>1, Engine
<1> QED BY <1>1, <1>2, <1>3, <1>4, <1>5, <1>6, <1>7, <1>8, <1>9, EmitInv DEF r

\* A container the user starts or stops is the user's from then on.
LEMMA UserTogglesInv == ASSUME MigInv, NEW c \in Containers, UserToggles(c) PROVE MigInv'
<1>1. /\ source' = [source EXCEPT ![c] = ~source[c]] /\ touched' = touched \cup {c}
      /\ UNCHANGED <<flag, status, mig, calf, raised, spoiled>>
  BY DEF UserToggles
<1>2. MigTypes /\ source \in [Containers -> BOOLEAN]
  BY DEF MigInv, MigTypes
<1>3. source' \in [Containers -> BOOLEAN] /\ \A d \in Containers \ {c} : source'[d] = source[d]
  BY <1>1, <1>2
<1>4. MigTypes'
  BY <1>1, <1>2, <1>3 DEF MigTypes
<1>5. \A m : StopOK(m, source, raised, touched, spoiled) => StopOK(m, source', raised, touched', spoiled)
  BY <1>1, <1>3 DEF StopOK
<1>6. ASSUME NEW n \in 1..Len(mig), mig[n].pc # "gone"
      PROVE  /\ flag /\ n = Len(mig) /\ status = mig[n].st /\ MOK(mig[n], raised)
             /\ StopOK(mig[n], source', raised, touched', spoiled) /\ CopyOK(mig[n], calf)
  BY <1>5, <1>6, Local
<1>7. (\A n \in 1..Len(mig) : mig[n].pc = "gone") => StopOK(Gone, source', raised, touched', spoiled)
  BY <1>5 DEF MigInv
<1>8. /\ Copied(status, calf)
      /\ \A n \in 1..Len(mig) : mig[n].stopped \subseteq mig[n].ran /\ mig[n].ran \subseteq mig[n].seen
  BY DEF MigInv
<1> QED BY <1>1, <1>4, <1>6, <1>7, <1>8 DEF MigInv

-----------------------------------------------------------------------------
(* All steps.                                                              *)

\* Every step of a goroutine that copies keeps it.
LEMMA CopyInv == ASSUME Counting, MigInv, NEW n \in 1..Len(mig), Copy(n) PROVE MigInv'
  BY PreflightInv, MigrateConfigInv, ListImagesInv, ExportImageInv, LoadImageInv, ListVolumesInv,
     ExportVolumeInv, CreateVolumeInv, ImportVolumeInv, ListContainersInv, StopOnSourceInv,
     GroupContainersInv, MigrateComposeInv, MigrateSingleInv, RestartOnSourceInv, MigrateBuildsInv
     DEF Copy

=============================================================================
