------------------------------ MODULE SlotPool ------------------------------
(***************************************************************************)
(* What the connection gate of the guest promises                          *)
(* (Guest.AcquireEngineConn and ReleaseEngineConn in                       *)
(* backend/internal/runtime/guest_darwin.go): each client holds at most    *)
(* one slot, no more than Slots clients hold one at a time, and a slot is  *)
(* given back by the one who took it.  The code knows a channel's length   *)
(* only, not who holds what; WakeGate implements this specification.       *)
(***************************************************************************)
EXTENDS Naturals, FiniteSets

CONSTANTS Clients,
          Slots     \* engineConnMaxConcurrent

VARIABLE holding    \* the clients that hold a slot

Init == holding = {}

Take(c) ==
  /\ c \notin holding
  /\ Cardinality(holding) < Slots
  /\ holding' = holding \cup {c}

Give(c) ==
  /\ c \in holding
  /\ holding' = holding \ {c}

Next == \E c \in Clients : Take(c) \/ Give(c)

Spec == Init /\ [][Next]_holding

=============================================================================
