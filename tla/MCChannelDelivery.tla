------------------------- MODULE MCChannelDelivery -------------------------
(* Instances of ChannelDelivery for TLC: what may go wrong in a run.       *)
EXTENDS ChannelDelivery

\* Nothing fails: there are only the races.
Sound == [f \in Fault |-> 0]
NoFaults == {Sound}

\* One fault of any kind, or two live emits.
FewFaults == {[Sound EXCEPT ![f] = 1] : f \in Fault} \cup {[Sound EXCEPT !["live"] = 2]}
=============================================================================
