------------------------------ MODULE Backoff -------------------------------
(***************************************************************************)
(* The delays between reconnection attempts: a capped exponential sequence *)
(* that starts again after a successful connection, each value scattered   *)
(* by a random factor.  Durations are in units of the time the model is    *)
(* checked with, the factor and the jitter in percent; what the floating   *)
(* point arithmetic rounds is inside the unit.                             *)
(***************************************************************************)
EXTENDS Integers

CONSTANTS
    Initial,    \* the first delay
    MaxDelay,   \* the cap, as it is passed to Backoff::new
    Factor,     \* growth; what is not finite counts as 0
    Jitter      \* scatter; what is not finite counts as 0

ASSUME BackoffAssumption ==
    /\ Initial \in Nat
    /\ MaxDelay \in Nat
    /\ Factor \in Int
    /\ Jitter \in Int

VARIABLE next   \* the delay before scattering of the next failed attempt

\* Backoff::new raises a cap below the first delay and a factor below one.
max == IF MaxDelay < Initial THEN Initial ELSE MaxDelay
factor == IF Factor < 100 THEN 100 ELSE Factor

\* with_jitter.
jitter == IF Jitter < 0 THEN 0 ELSE IF Jitter > 50 THEN 50 ELSE Jitter

\* The delay before scattering stays between the first one and the cap.
BackoffTypeOK == next \in Initial..max

BackoffInit == next = Initial

MutReset == next' = next

Reset == next' = Initial

MutGrown(base) == (base * factor) \div 100

Grown(base) ==
    LET raised == (base * factor) \div 100
    IN  IF raised < max THEN raised ELSE max

\* random_unit is any number of 0..1; the scatter comes after the cap.
Shortest(base) == (base * (100 - jitter)) \div 100
Longest(base) == (base * (100 + jitter) + 99) \div 100

NextDelay(delay) ==
    /\ delay \in Shortest(next)..Longest(next)
    /\ next' = Grown(next)

=============================================================================
