---------------------------- MODULE MCSupervisor ----------------------------
(***************************************************************************)
(* Supervisor with two daemons that share a public socket and no app, and  *)
(* with an app that starts two daemons, whose engine has the socket.       *)
(***************************************************************************)
EXTENDS Supervisor

CONSTANTS d1, d2

MCDaemons == {d1, d2}
MCPlans ==
  {[free |-> {d1, d2}, app |-> <<>>, may |-> {"crash", "other", "quit"}],
   [free |-> {}, app |-> <<d1, d2>>, may |-> {"crash", "kill"}]}
=============================================================================
