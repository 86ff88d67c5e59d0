----------------------------- MODULE MCCadence ------------------------------
(* Constants for the model checking of Cadence.                            *)
EXTENDS Cadence

MCSuspending == {1, 3}

=============================================================================
