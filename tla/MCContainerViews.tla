-------------------------- MODULE MCContainerViews --------------------------
(***************************************************************************)
(* ContainerViews with one container and a watcher for each of two starts. *)
(* A plan says who calls and how often what happens.                       *)
(***************************************************************************)
EXTENDS ContainerViews

Plan(who, changes, stops, programs, fails) ==
  [who |-> who, changes |-> changes, stops |-> stops, programs |-> programs, fails |-> fails,
   reserved |-> {}]

MCPlans ==
  {Plan({Reader, Sampler}, 1, 0, 0, 0),
   Plan({Reader, Sampler}, 0, 0, 0, 1),
   Plan({Reader} \cup Watchers, 1, 0, 1, 0),
   Plan({Reader} \cup Watchers, 0, 1, 0, 0),
   Plan({Sampler}, 1, 1, 0, 0),
   Plan(Watchers, 1, 1, 0, 0),
   Plan(Watchers, 0, 1, 0, 1),
   [Plan({Reader}, 1, 0, 0, 0) EXCEPT !.reserved = Containers]}
=============================================================================
