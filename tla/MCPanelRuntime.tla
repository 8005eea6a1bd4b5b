--------------------------- MODULE MCPanelRuntime ---------------------------
(* An instance of PanelRuntime for TLC: two entities of one panel, a       *)
(* desktop host, a headless one and a phone.                               *)
EXTENDS PanelRuntime, TLC

CONSTANTS e1, e2, s1, desk, less, phone

OneSlot == [e \in Entity |-> s1]
\* What a step was asked for decides nothing that comes after it.
WithoutHistory == <<leases, clients, timers, marks, kept, conns, sockets, bridge>>
EntitySymmetry == Permutations(Entity)
=============================================================================
