-------------------------- MODULE FilesystemProofs --------------------------
(***************************************************************************)
(* While the deadlines of the mounts fit into that of collect(), no sample *)
(* is thrown away and no thread is parked besides the one the collector    *)
(* remembers, for any number of mounts and any deadlines.  The argument is *)
(* about time: at the n-th mount the collector has waited for at most n-1  *)
(* deadlines and for the running call, so COLLECT_TIMEOUT never strikes.   *)
(***************************************************************************)
EXTENDS FilesystemCollector, Integers, TLAPS

-----------------------------------------------------------------------------
(* The inductive invariant *)

\* A call is made only on a mount without an outstanding one.
CallsOnce ==
    /\ calling => pos # 0 /\ stuck[pos] = "absent"
    /\ ~calling => waited = 0

\* Nothing of the collector is left once the loop of run() has ended.
Dropped ==
    life # "running" => pos = 0 /\ ~calling /\ \A m \in Mount : stuck[m] = "absent"

\* The time of the mounts before this one, each with its whole deadline.
Before(n) == (n - 1) * StatvfsTimeout

OnTime == Fits /\ pos # 0 => spent <= Before(pos) + waited

\* Handles are lost only when the process stops.
NoLeak == Fits => \A m \in Mount : leaked[m] <= 1 /\ (leaked[m] > 0 => life # "running")

FsInv == TypeOK /\ CallsOnce /\ Dropped /\ OnTime /\ NoLeak

-----------------------------------------------------------------------------
(* Arithmetic *)

LEMMA TimesGrows ==
    ASSUME NEW a \in Nat, NEW b \in Nat, NEW c \in Nat, a <= b
    PROVE  a * c <= b * c
<1>1. PICK d \in Nat : b = a + d
    BY b - a \in Nat, b = a + (b - a)
<1>2. b * c = a * c + d * c /\ a * c \in Int /\ d * c \in Nat
    BY <1>1
<1>. QED BY <1>2

LEMMA BeforeGrows ==
    ASSUME FilesystemAssumption, NEW n \in Nat \ {0}
    PROVE  /\ Before(n) \in Nat
           /\ Before(n + 1) = Before(n) + StatvfsTimeout
           /\ Before(1) = 0
<1>1. n - 1 \in Nat /\ StatvfsTimeout \in Nat BY DEF FilesystemAssumption
<1>2. Before(n) \in Nat BY <1>1 DEF Before
<1>3. Before(n + 1) = n * StatvfsTimeout BY (n + 1) - 1 = n DEF Before
<1>4. n * StatvfsTimeout = (n - 1) * StatvfsTimeout + StatvfsTimeout
    BY <1>1
<1>. QED BY <1>1, <1>2, <1>3, <1>4 DEF Before

\* The deadline of collect() is never reached while the deadlines fit.
LEMMA NeverCancelled ==
    ASSUME FilesystemAssumption, FsInv, Fits
    PROVE  ~Cancelled
<1>. SUFFICES ASSUME Cancelled PROVE FALSE OBVIOUS
<1>1. pos \in Nat \ {0} /\ pos <= count /\ count \in Nat
    BY DEF FsInv, TypeOK, CallsOnce, Cancelled
<1>2. StatvfsTimeout \in Nat /\ CollectTimeout \in Nat BY DEF FilesystemAssumption
<1>3. spent = CollectTimeout /\ spent <= Before(pos) + waited /\ waited <= StatvfsTimeout /\ waited \in Nat
    BY <1>1, <1>2 DEF FsInv, OnTime, TypeOK, Cancelled
<1>4. Before(pos) + StatvfsTimeout = pos * StatvfsTimeout
    <2>1. Before(pos + 1) = pos * StatvfsTimeout BY <1>1, (pos + 1) - 1 = pos DEF Before
    <2>. QED BY <2>1, <1>1, BeforeGrows
<1>5. pos * StatvfsTimeout <= count * StatvfsTimeout BY <1>1, <1>2, TimesGrows
<1>6. count * StatvfsTimeout < CollectTimeout BY DEF Fits
<1>7. Before(pos) \in Nat BY <1>1, BeforeGrows
<1>8. pos * StatvfsTimeout \in Int /\ count * StatvfsTimeout \in Int BY <1>1, <1>2
<1>. QED BY <1>2, <1>3, <1>4, <1>5, <1>6, <1>7, <1>8

-----------------------------------------------------------------------------
(* The invariant is inductive *)

LEMMA FsInit == FilesystemAssumption /\ Init => FsInv
<1>. SUFFICES ASSUME FilesystemAssumption, Init PROVE FsInv OBVIOUS
<1>. USE DEF FilesystemAssumption
<1>1. TypeOK
    <2>1. [m \in Mount |-> "absent"] \in [Mount -> {"absent", "blocked", "finished"}]
        OBVIOUS
    <2>2. [m \in Mount |-> 0] \in [Mount -> 0..LeakCap] OBVIOUS
    <2>3. /\ count \in 1..MaxMounts /\ hung = {} /\ answered = {} /\ calling = FALSE
          /\ pos = 0 /\ waited = 0 /\ spent = 0 /\ life = "running"
        BY DEF Init
    <2>4. pos \in 0..count /\ waited \in 0..StatvfsTimeout /\ spent \in 0..CollectTimeout
        BY <2>3
    <2>5. stuck \in [Mount -> {"absent", "blocked", "finished"}] /\ leaked \in [Mount -> 0..LeakCap]
        BY <2>1, <2>2 DEF Init
    <2>. QED BY <2>3, <2>4, <2>5 DEF TypeOK
<1>2. CallsOnce BY DEF Init, CallsOnce
<1>3. Dropped BY DEF Init, Dropped
<1>4. OnTime BY DEF Init, OnTime
<1>5. NoLeak BY DEF Init, NoLeak
<1>. QED BY <1>1, <1>2, <1>3, <1>4, <1>5 DEF FsInv

LEMMA FsType ==
    ASSUME FilesystemAssumption, FsInv, [Next]_fsVars
    PROVE  TypeOK'
<1>. DEFINE Actions == \/ Begin \/ SkipsBlocked \/ TakesFinished \/ Calls \/ Answers \/ Deadline
                       \/ Cancelled \/ Time \/ Stops \/ Exits
                       \/ \E m \in Mount : Hangs(m) \/ Recovers(m) \/ Returns(m)
                       \/ UNCHANGED fsVars
<1>0. Actions BY DEF Next, Collecting
<1>1. count' = count
    BY <1>0 DEF fsVars, Begin, SkipsBlocked, TakesFinished, Calls, Answers,
           Deadline, Cancelled, Time, Stops, Exits, Hangs, Recovers, Returns
<1>2. Mount' = Mount BY <1>1 DEF Mount
<1>3. /\ count \in 1..MaxMounts /\ pos \in 0..count /\ waited \in 0..StatvfsTimeout
      /\ spent \in 0..CollectTimeout /\ LeakCap \in Nat \ {0}
      /\ MaxMounts \in Nat /\ StatvfsTimeout \in Nat \ {0} /\ CollectTimeout \in Nat \ {0}
    BY DEF FsInv, TypeOK, FilesystemAssumption
<1>4. /\ hung \subseteq Mount /\ answered \subseteq Mount
      /\ stuck \in [Mount -> {"absent", "blocked", "finished"}]
      /\ leaked \in [Mount -> 0..LeakCap]
      /\ calling \in BOOLEAN /\ life \in {"running", "leaving", "exited"}
    BY DEF FsInv, TypeOK
<1>5. (calling => pos # 0) /\ (pos # 0 => pos \in Mount)
    BY <1>3 DEF FsInv, CallsOnce, Mount
<1>6. pos' \in 0..count
    BY <1>0, <1>3, <1>5
       DEF NextMount, fsVars, Begin, SkipsBlocked, TakesFinished, Calls, Answers,
           Deadline, Cancelled, Time, Stops, Exits, Hangs, Recovers, Returns
<1>7. waited' \in 0..StatvfsTimeout /\ spent' \in 0..CollectTimeout
    BY <1>0, <1>3
       DEF fsVars, Begin, SkipsBlocked, TakesFinished, Calls, Answers,
           Deadline, Cancelled, Time, Stops, Exits, Hangs, Recovers, Returns
<1>8. calling' \in BOOLEAN /\ life' \in {"running", "leaving", "exited"}
    BY <1>0, <1>4
       DEF fsVars, Begin, SkipsBlocked, TakesFinished, Calls, Answers,
           Deadline, Cancelled, Time, Stops, Exits, Hangs, Recovers, Returns
<1>9. hung' \subseteq Mount /\ answered' \subseteq Mount
    BY <1>0, <1>4, <1>5
       DEF fsVars, Begin, SkipsBlocked, TakesFinished, Calls, Answers,
           Deadline, Cancelled, Time, Stops, Exits, Hangs, Recovers, Returns
<1>10. stuck' \in [Mount -> {"absent", "blocked", "finished"}]
    BY <1>0, <1>4
       DEF fsVars, Begin, SkipsBlocked, TakesFinished, Calls, Answers,
           Deadline, Cancelled, Time, Stops, Exits, Hangs, Recovers, Returns
<1>11. leaked' \in [Mount -> 0..LeakCap]
    <2>1. CASE Stops
        <3>1. ASSUME NEW m \in Mount PROVE Threads(m) \in Nat
            <4>1. leaked[m] \in Nat BY <1>3, <1>4
            <4>. QED BY <4>1 DEF Threads
        <3>2. \A m \in Mount : (IF Threads(m) < LeakCap THEN Threads(m) ELSE LeakCap) \in 0..LeakCap
            BY <3>1, <1>3
        <3>3. leaked' = [m \in Mount |-> IF Threads(m) < LeakCap THEN Threads(m) ELSE LeakCap]
            BY <2>1 DEF Stops
        <3>. QED BY <3>2, <3>3
    <2>2. CASE Deadline BY <2>2, <1>4 DEF Deadline
    <2>3. CASE Cancelled
        <3>1. pos \in Mount BY <2>3, <1>5 DEF Cancelled
        <3>2. (IF leaked[pos] < LeakCap THEN leaked[pos] + 1 ELSE leaked[pos]) \in 0..LeakCap
            BY <3>1, <1>3, <1>4
        <3>. QED BY <2>3, <3>2, <1>4 DEF Cancelled
    <2>4. ASSUME NEW m \in Mount, Returns(m) PROVE leaked' \in [Mount -> 0..LeakCap]
        BY <2>4, <1>3, <1>4 DEF Returns
    <2>. QED
        BY <1>0, <1>4, <2>1, <2>2, <2>3, <2>4
           DEF fsVars, Begin, SkipsBlocked, TakesFinished, Calls, Answers, Time, Exits, Hangs, Recovers
<1>. QED BY <1>1, <1>2, <1>3, <1>6, <1>7, <1>8, <1>9, <1>10, <1>11 DEF TypeOK

\* What Begin to Time leave of the calls.
LEMMA FsCalls ==
    ASSUME FilesystemAssumption, FsInv, [Next]_fsVars
    PROVE  CallsOnce' /\ Dropped'
<1>. USE DEF FsInv, CallsOnce, Dropped
<1>. count \in Nat /\ pos \in 0..count /\ stuck \in [Mount -> {"absent", "blocked", "finished"}]
    BY DEF FilesystemAssumption, TypeOK
<1>1. CASE Begin BY <1>1 DEF Begin, Mount
<1>2. CASE SkipsBlocked BY <1>2 DEF SkipsBlocked, NextMount, Mount
<1>3. CASE TakesFinished BY <1>3 DEF TakesFinished, NextMount, Mount
<1>4. CASE Calls BY <1>4 DEF Calls, Mount
<1>5. CASE Answers BY <1>5 DEF Answers, NextMount, Mount
<1>6. CASE Deadline BY <1>6 DEF Deadline, NextMount, Mount
<1>7. CASE Cancelled BY <1>7 DEF Cancelled, Mount
<1>8. CASE Time BY <1>8 DEF Time, Mount
<1>9. CASE Stops BY <1>9 DEF Stops, Mount
<1>10. CASE Exits BY <1>10 DEF Exits, Mount
<1>11. ASSUME NEW m \in Mount, Hangs(m) \/ Recovers(m) \/ Returns(m) PROVE CallsOnce' /\ Dropped'
    BY <1>11 DEF Hangs, Recovers, Returns, Mount
<1>12. CASE UNCHANGED fsVars BY <1>12 DEF fsVars, Mount
<1>. QED BY <1>1, <1>2, <1>3, <1>4, <1>5, <1>6, <1>7, <1>8, <1>9, <1>10, <1>11, <1>12
         DEF Next, Collecting

LEMMA FsOnTime ==
    ASSUME FilesystemAssumption, FsInv, [Next]_fsVars
    PROVE  OnTime'
<1>. SUFFICES ASSUME Fits', pos' # 0 PROVE spent' <= Before(pos') + waited'
    BY DEF OnTime, Before
<1>0. count' = count
    BY DEF Next, Collecting, fsVars, Begin, SkipsBlocked, TakesFinished, Calls, Answers,
           Deadline, Cancelled, Time, Stops, Exits, Hangs, Recovers, Returns
<1>a. Fits BY <1>0 DEF Fits
<1>b. /\ count \in Nat /\ pos \in 0..count /\ spent \in Nat /\ StatvfsTimeout \in Nat \ {0}
      /\ waited \in Nat /\ waited <= StatvfsTimeout
    BY DEF FsInv, TypeOK, FilesystemAssumption
<1>c. pos # 0 => spent <= Before(pos) + waited BY <1>a DEF FsInv, OnTime
<1>d. pos # 0 => Before(pos) \in Nat /\ Before(pos + 1) = Before(pos) + StatvfsTimeout
    BY <1>b, BeforeGrows
<1>e. Before(1) = 0 BY BeforeGrows
<1>1. CASE Begin BY <1>1, <1>b, <1>e DEF Begin
<1>2. CASE SkipsBlocked \/ TakesFinished \/ Answers \/ Deadline
    <2>1. pos # 0 /\ pos' = pos + 1 /\ spent' = spent
        BY <1>2 DEF SkipsBlocked, TakesFinished, Answers, Deadline, NextMount, FsInv, CallsOnce
    <2>2. waited' \in Nat
        BY <1>2, <1>b DEF SkipsBlocked, TakesFinished, Answers, Deadline
    <2>3. spent' <= Before(pos) + StatvfsTimeout + waited'
        BY <2>1, <2>2, <1>b, <1>c, <1>d
    <2>. QED BY <2>1, <2>3, <1>d
<1>3. CASE Calls BY <1>3, <1>c DEF Calls, FsInv, CallsOnce
<1>4. CASE Cancelled \/ Stops BY <1>4 DEF Cancelled, Stops
<1>5. CASE Time BY <1>5, <1>b, <1>c, <1>d DEF Time
<1>6. CASE Exits BY <1>6, <1>c DEF Exits
<1>7. ASSUME NEW m \in Mount, Hangs(m) \/ Recovers(m) \/ Returns(m)
      PROVE  spent' <= Before(pos') + waited'
    BY <1>7, <1>c DEF Hangs, Recovers, Returns
<1>8. CASE UNCHANGED fsVars BY <1>8, <1>c DEF fsVars
<1>. QED BY <1>1, <1>2, <1>3, <1>4, <1>5, <1>6, <1>7, <1>8 DEF Next, Collecting

\* At most one thread per mount, as the invariant has it.
LEMMA OneThread ==
    ASSUME FilesystemAssumption, FsInv, Fits
    PROVE  \A m \in Mount : Threads(m) \in Nat /\ Threads(m) <= 1
<1>. TAKE m \in Mount
<1>1. leaked[m] \in Nat BY DEF FsInv, TypeOK, FilesystemAssumption
<1>2. CASE life = "running"
    <2>1. leaked[m] = 0 BY <1>1, <1>2 DEF FsInv, NoLeak
    <2>2. calling /\ pos = m => stuck[m] # "blocked" BY DEF FsInv, CallsOnce
    <2>. QED BY <2>1, <2>2 DEF Threads
<1>3. CASE life # "running"
    <2>1. ~calling /\ stuck[m] = "absent" /\ leaked[m] <= 1 BY <1>3 DEF FsInv, Dropped, NoLeak
    <2>. QED BY <1>1, <2>1 DEF Threads
<1>. QED BY <1>2, <1>3

LEMMA FsNoLeak ==
    ASSUME FilesystemAssumption, FsInv, [Next]_fsVars
    PROVE  NoLeak'
<1>0. count' = count /\ Mount' = Mount
    BY DEF Mount, Next, Collecting, fsVars, Begin, SkipsBlocked, TakesFinished, Calls, Answers,
           Deadline, Cancelled, Time, Stops, Exits, Hangs, Recovers, Returns
<1>. SUFFICES ASSUME Fits', NEW m \in Mount
              PROVE  leaked'[m] <= 1 /\ (leaked'[m] > 0 => life' # "running")
    BY <1>0 DEF NoLeak
<1>a. Fits BY <1>0 DEF Fits
<1>b. leaked[m] <= 1 /\ (leaked[m] > 0 => life # "running") BY <1>a DEF FsInv, NoLeak
<1>c. leaked \in [Mount -> Nat] BY DEF FsInv, TypeOK, FilesystemAssumption
<1>1. CASE Stops
    <2>1. leaked'[m] = IF Threads(m) < LeakCap THEN Threads(m) ELSE LeakCap BY <1>1 DEF Stops
    <2>2. Threads(m) \in Nat /\ Threads(m) <= 1 BY <1>a, OneThread
    <2>3. leaked'[m] <= 1 BY <2>1, <2>2 DEF FilesystemAssumption
    <2>. QED BY <2>3, <1>1 DEF Stops
<1>2. ~Cancelled BY <1>a, NeverCancelled
<1>3. CASE Begin \/ SkipsBlocked \/ TakesFinished \/ Calls \/ Answers \/ Deadline \/ Time
    BY <1>3, <1>b DEF Begin, SkipsBlocked, TakesFinished, Calls, Answers, Deadline, Time
<1>4. CASE Exits BY <1>4, <1>b DEF Exits
<1>5. ASSUME NEW n \in Mount, Hangs(n) \/ Recovers(n) \/ Returns(n)
      PROVE  leaked'[m] <= 1 /\ (leaked'[m] > 0 => life' # "running")
    <2>1. life' = life BY <1>5 DEF Hangs, Recovers, Returns
    <2>2. leaked' = leaked \/ (leaked[n] > 0 /\ leaked' = [leaked EXCEPT ![n] = @ - 1])
        BY <1>5 DEF Hangs, Recovers, Returns
    <2>3. leaked'[m] <= leaked[m] /\ leaked'[m] \in Nat BY <2>2, <1>c
    <2>. QED BY <2>1, <2>3, <1>b, <1>c
<1>6. CASE UNCHANGED fsVars BY <1>6, <1>b DEF fsVars
<1>. QED BY <1>1, <1>2, <1>3, <1>4, <1>5, <1>6 DEF Next, Collecting

LEMMA FsStep == FilesystemAssumption /\ FsInv /\ [Next]_fsVars => FsInv'
BY FsType, FsCalls, FsOnTime, FsNoLeak DEF FsInv

LEMMA FsInductive == Spec => []FsInv
BY FsInit, FsStep, FilesystemAssumption, PTL DEF Spec

-----------------------------------------------------------------------------
(* Theorems *)

\* The collector's variables keep their types, and no call waits longer than
\* its own deadline or that of collect() (filesys.rs:174-209, scheduler.rs:173).
THEOREM CollectorTypeCorrect == Spec => []TypeOK
BY FsInductive, PTL DEF FsInv

\* While the deadlines of the mounts stay below COLLECT_TIMEOUT at most one
\* thread is parked on a mount (filesys.rs:5-7), also when the process ends.
THEOREM OneThreadPerMountWhileItFits == Spec => []OneThreadWhileItFits
<1>1. FilesystemAssumption /\ FsInv => OneThreadWhileItFits
    BY OneThread DEF OneThreadWhileItFits, OneThreadPerMount
<1>. QED BY <1>1, FsInductive, FilesystemAssumption, PTL

\* While they do, no sample of the mounts that answer is thrown away
\* (filesys.rs:203-207, scheduler.rs:173-174).
THEOREM SamplesSurviveHungMounts == Spec => SampleSurvives
<1>1. ASSUME FilesystemAssumption, FsInv, [Next]_fsVars,
             Fits, pos # 0, pos' = 0, life' = "running"
      PROVE  answered \subseteq answered'
    <2>1. ~Cancelled BY <1>1, NeverCancelled
    <2>2. ~Begin BY <1>1 DEF Begin
    <2>3. ~Stops BY <1>1 DEF Stops
    <2>. QED BY <1>1, <2>1, <2>2, <2>3
             DEF Next, Collecting, SkipsBlocked, TakesFinished, Calls, Answers, Deadline, Time,
                 Exits, Hangs, Recovers, Returns, fsVars
<1>2. FilesystemAssumption /\ FsInv /\ [Next]_fsVars
        => [Fits /\ pos # 0 /\ pos' = 0 /\ life' = "running" => answered \subseteq answered']_fsVars
    BY <1>1
<1>. QED BY <1>2, FsInductive, FilesystemAssumption, PTL DEF Spec, SampleSurvives

=============================================================================
