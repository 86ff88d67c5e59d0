------------------------------ MODULE MCAgent -------------------------------
(* Constants for the model checking of Agent.                              *)
EXTENDS Agent

\* Every collector awaits: the most interleavings of the two tasks.
MCAllSuspend == 1..N

\* Only the first one awaits: the rest of the cycle runs in one go.
MCFirstSuspends == {1}

=============================================================================
