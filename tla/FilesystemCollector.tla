------------------------ MODULE FilesystemCollector -------------------------
(***************************************************************************)
(* The filesystem collector: one statvfs(2) per mount, each on a thread of *)
(* the blocking pool with a deadline.  A call that misses its deadline is  *)
(* kept in the map "stuck" and its mount is left alone until the call      *)
(* returns.  The scheduler drops the whole collect() future when           *)
(* COLLECT_TIMEOUT is over, and the process the collector itself when it   *)
(* ends, but no thread.                                                    *)
(***************************************************************************)
EXTENDS Naturals

CONSTANTS
    MaxMounts,          \* bound: mounts that are not skipped
    StatvfsTimeout,     \* STATVFS_TIMEOUT
    CollectTimeout,     \* COLLECT_TIMEOUT, in the same unit
    LeakCap             \* bound: leaked threads are counted up to here

ASSUME FilesystemAssumption ==
    /\ MaxMounts \in Nat \ {0}
    /\ StatvfsTimeout \in Nat \ {0}
    /\ CollectTimeout \in Nat \ {0}
    /\ LeakCap \in Nat \ {0}

VARIABLES
    count,      \* number of mounts, the same for every collect()
    hung,       \* mounts on which statvfs does not return
    stuck,      \* the map: absent, holding a blocked call, or a finished one
    leaked,     \* threads blocked on the mount whose handle was dropped
    pos,        \* the mount collect() is at; 0 while it is not running
    calling,    \* TRUE while usage() awaits a fresh call on that mount
    waited,     \* time spent awaiting that call
    spent,      \* time since collect() was called
    answered,   \* mounts with a result in the sample of this collect()
    life        \* the process: running, after its select loop, exited

fsVars == <<count, hung, stuck, leaked, pos, calling, waited, spent, answered, life>>

Mount == 1..count

\* The deadlines of all the mounts together stay below that of collect().
Fits == count * StatvfsTimeout < CollectTimeout

\* Types; a call waits no longer than either deadline.
TypeOK ==
    /\ count \in 1..MaxMounts
    /\ hung \subseteq Mount
    /\ stuck \in [Mount -> {"absent", "blocked", "finished"}]
    /\ leaked \in [Mount -> 0..LeakCap]
    /\ pos \in 0..count
    /\ calling \in BOOLEAN
    /\ waited \in 0..StatvfsTimeout
    /\ spent \in 0..CollectTimeout
    /\ answered \subseteq Mount
    /\ life \in {"running", "leaving", "exited"}

Init ==
    /\ count \in 1..MaxMounts
    /\ hung = {}
    /\ stuck = [m \in Mount |-> "absent"]
    /\ leaked = [m \in Mount |-> 0]
    /\ pos = 0
    /\ calling = FALSE
    /\ waited = 0
    /\ spent = 0
    /\ answered = {}
    /\ life = "running"

-----------------------------------------------------------------------------
\* The for loop's next mount; after the last one collect() returns.
NextMount == pos' = IF pos = count THEN 0 ELSE pos + 1

\* The scheduler calls collect().
Begin ==
    /\ life = "running"
    /\ pos = 0
    /\ pos' = 1
    /\ spent' = 0
    /\ answered' = {}
    /\ UNCHANGED <<count, hung, stuck, leaked, calling, waited, life>>

\* The outstanding call has not returned: the mount is skipped.
SkipsBlocked ==
    /\ pos # 0
    /\ stuck[pos] = "blocked"
    /\ NextMount
    /\ UNCHANGED <<count, hung, stuck, leaked, calling, waited, spent, answered, life>>

MutKeepsFinished ==
    /\ pos # 0
    /\ stuck[pos] = "finished"
    /\ NextMount
    /\ UNCHANGED <<count, hung, stuck, leaked, calling, waited, spent, answered, life>>

\* The outstanding call has returned: its result is this sample's result.
TakesFinished ==
    /\ pos # 0
    /\ stuck[pos] = "finished"
    /\ stuck' = [stuck EXCEPT ![pos] = "absent"]
    /\ answered' = answered \cup {pos}
    /\ NextMount
    /\ UNCHANGED <<count, hung, leaked, calling, waited, spent, life>>

MutCallsAgain ==
    /\ pos # 0
    /\ ~calling
    /\ stuck[pos] # "finished"
    /\ calling' = TRUE
    /\ waited' = 0
    /\ UNCHANGED <<count, hung, stuck, leaked, pos, spent, answered, life>>

\* spawn_blocking.
Calls ==
    /\ pos # 0
    /\ ~calling
    /\ stuck[pos] = "absent"
    /\ calling' = TRUE
    /\ waited' = 0
    /\ UNCHANGED <<count, hung, stuck, leaked, pos, spent, answered, life>>

\* The call returns in time, with a result or an error.
Answers ==
    /\ calling
    /\ pos \notin hung
    /\ calling' = FALSE
    /\ waited' = 0
    /\ answered' = answered \cup {pos}
    /\ NextMount
    /\ UNCHANGED <<count, hung, stuck, leaked, spent, life>>

MutDeadlineForgets ==
    /\ calling
    /\ waited = StatvfsTimeout
    /\ leaked' = [leaked EXCEPT ![pos] = IF @ < LeakCap THEN @ + 1 ELSE @]
    /\ calling' = FALSE
    /\ waited' = 0
    /\ NextMount
    /\ UNCHANGED <<count, hung, stuck, spent, answered, life>>

\* The deadline of the call: the handle goes into the map.
Deadline ==
    /\ calling
    /\ waited = StatvfsTimeout
    /\ stuck' = [stuck EXCEPT ![pos] = "blocked"]
    /\ calling' = FALSE
    /\ waited' = 0
    /\ NextMount
    /\ UNCHANGED <<count, hung, leaked, spent, answered, life>>

\* COLLECT_TIMEOUT: the future is dropped where it awaits, and with it the
\* handle of the call of usage().  The thread stays.
Cancelled ==
    /\ calling
    /\ spent = CollectTimeout
    /\ leaked' = [leaked EXCEPT ![pos] = IF @ < LeakCap THEN @ + 1 ELSE @]
    /\ pos' = 0
    /\ calling' = FALSE
    /\ waited' = 0
    /\ answered' = {}
    /\ UNCHANGED <<count, hung, stuck, spent, life>>

MutTimeWithoutDeadline ==
    /\ calling
    /\ spent < CollectTimeout
    /\ spent' = spent + 1
    /\ UNCHANGED <<count, hung, stuck, leaked, pos, calling, waited, answered, life>>

\* Time passes only while the collector waits; both deadlines are kept.
Time ==
    /\ calling
    /\ waited < StatvfsTimeout
    /\ spent < CollectTimeout
    /\ waited' = waited + 1
    /\ spent' = spent + 1
    /\ UNCHANGED <<count, hung, stuck, leaked, pos, calling, answered, life>>

-----------------------------------------------------------------------------
(* The end of the process *)

\* Threads parked on a mount: the awaited call, the one in the map, the leaked.
Threads(m) ==
    (IF calling /\ pos = m THEN 1 ELSE 0)
        + (IF stuck[m] = "blocked" THEN 1 ELSE 0) + leaked[m]

\* A signal or a fatal error ends the select of run(), wherever the scheduler
\* awaits: the collector is dropped, and with it every handle.
Stops ==
    /\ life = "running"
    /\ pos = 0 \/ calling
    /\ life' = "leaving"
    /\ leaked' = [m \in Mount |-> IF Threads(m) < LeakCap THEN Threads(m) ELSE LeakCap]
    /\ stuck' = [m \in Mount |-> "absent"]
    /\ pos' = 0
    /\ calling' = FALSE
    /\ waited' = 0
    /\ answered' = {}
    /\ UNCHANGED <<count, hung, spent>>

\* run() has said its farewell, and dropping the runtime waits for the threads
\* of the blocking pool.
Exits ==
    /\ life = "leaving"
    /\ \A m \in Mount : leaked[m] = 0
    /\ life' = "exited"
    /\ UNCHANGED <<count, hung, stuck, leaked, pos, calling, waited, spent, answered>>

-----------------------------------------------------------------------------
(* The mounts and the blocked threads *)

Hangs(m) ==
    /\ m \notin hung
    /\ hung' = hung \cup {m}
    /\ UNCHANGED <<count, stuck, leaked, pos, calling, waited, spent, answered, life>>

Recovers(m) ==
    /\ m \in hung
    /\ hung' = hung \ {m}
    /\ UNCHANGED <<count, stuck, leaked, pos, calling, waited, spent, answered, life>>

\* A call that was given up returns.
Returns(m) ==
    /\ m \notin hung
    /\ \/ /\ stuck[m] = "blocked"
          /\ stuck' = [stuck EXCEPT ![m] = "finished"]
          /\ UNCHANGED leaked
       \/ /\ leaked[m] > 0
          /\ leaked' = [leaked EXCEPT ![m] = @ - 1]
          /\ UNCHANGED stuck
    /\ UNCHANGED <<count, hung, pos, calling, waited, spent, answered, life>>

Collecting ==
    \/ SkipsBlocked \/ TakesFinished \/ Calls
    \/ Answers \/ Deadline \/ Cancelled \/ Time

Next ==
    \/ Begin \/ Collecting
    \/ Stops \/ Exits
    \/ \E m \in Mount : Hangs(m) \/ Recovers(m) \/ Returns(m)

\* The scheduler calls again and again, the collector's task is polled, time
\* passes, a call on a mount that answers comes back, and a process that
\* nothing holds up ends.
Fairness ==
    /\ WF_fsVars(Begin)
    /\ WF_fsVars(Collecting)
    /\ WF_fsVars(Exits)
    /\ \A m \in 1..MaxMounts : WF_fsVars(m \in Mount /\ Returns(m))

Spec == Init /\ [][Next]_fsVars /\ Fairness

-----------------------------------------------------------------------------
(* Properties *)

\* filesys.rs:5-7: "a mount that does not answer is remembered as stuck and
\* skipped until its outstanding call returns, so at most one thread is ever
\* parked per stuck mount".
OneThreadPerMount == \A m \in Mount : Threads(m) <= 1

\* What is true of it: while the deadlines of the mounts together stay below
\* COLLECT_TIMEOUT no thread is parked besides the one that is remembered.
OneThreadWhileItFits == Fits => OneThreadPerMount

\* However many mounts hang, the others are sampled while the deadlines fit: the
\* sample is never thrown away.
SampleSurvives ==
    [][Fits /\ pos # 0 /\ pos' = 0 /\ life' = "running" => answered \subseteq answered']_fsVars

Sampled(m) == m \in Mount /\ Fits /\ life = "running" => m \in answered

\* A mount that answers again is sampled again while the deadlines fit: no mount
\* is skipped for ever because of a call it once did not answer.
MountsComeBack ==
    \A m \in 1..MaxMounts :
        <>[](m \notin hung) => []<>Sampled(m)

\* Once every mount hangs for good, the collector comes to rest with all of
\* them remembered, even when COLLECT_TIMEOUT throws some of its samples away:
\* each collect() that is cancelled has filed enough calls for the next one to
\* get further, so the leak of threads ends.
HungMountsSettle == <>[](hung = Mount) => <>[](~calling)

\* blazebee.service: "SIGTERM triggers a clean MQTT disconnect; the process
\* exits well within this", the 15 s of TimeoutStopSec.
StoppedProcessExits == life = "leaving" ~> life = "exited"

=============================================================================
