--------------------------- MODULE SchedulerLease ---------------------------
(***************************************************************************)
(* The lease that elects one worker process per periodic cycle             *)
(* (app/background_jobs.py, driven by the loop in app/main.py).            *)
(*                                                                         *)
(* Every process wakes up, reads its clock and the singleton row of        *)
(* background_job_leases, and tries to claim the slot: by INSERT when it    *)
(* saw no row (the primary key makes a second INSERT fail), otherwise by   *)
(* one conditional UPDATE.  The claim uses the clock value read at the     *)
(* start, however long ago that was.  The winner runs the jobs one after   *)
(* the other and releases the lease; a process may die at any point, and   *)
(* the release itself may fail.                                            *)
(*                                                                         *)
(* Time is counted in abstract units on one clock shared by the processes. *)
(* MaxTime bounds the horizon and MaxCrashes the number of crashes;        *)
(* MaxCycle bounds how long one call of run_periodic_cycle takes, which    *)
(* nothing in the code enforces.                                           *)
(***************************************************************************)
EXTENDS Naturals, FiniteSets

CONSTANTS
    Worker,       \* scheduler processes (owner ids)
    NoRow,        \* the lease row does not exist yet
    Nobody,       \* no cycle is running
    Interval,     \* background_jobs_interval_seconds, at least 10 s in the code
    CrashLease,   \* crash_lease_seconds
    MaxCycle,     \* longest call of run_periodic_cycle, from its clock read on
    NJobs,        \* number of periodic jobs
    MaxTime, MaxCrashes

ASSUME TimeAssumption ==
    /\ Interval \in Nat \ {0}
    /\ CrashLease \in Nat
    /\ MaxCycle \in Nat
    /\ MaxTime \in Nat
    /\ MaxCrashes \in Nat
    /\ NJobs \in Nat
ASSUME NamesAssumption == Nobody \notin Worker

VARIABLES
    now,      \* the clock
    row,      \* the row of background_job_leases
    worker,   \* worker[w]: where w is in run_periodic_cycle
    crashes   \* crashes so far

vars == <<now, row, worker, crashes>>

\* max(crash_lease_seconds, interval)
LeaseLength == IF CrashLease >= Interval THEN CrashLease ELSE Interval

Row == [owner : Worker, leaseUntil : Nat, nextRunAt : Nat]
ASSUME NoRowAssumption == NoRow \notin Row

\* at: the clock value the call works with; sawRow: its first query found the
\* row; job: how many jobs it has run.
Idle == [pc |-> "idle", at |-> 0, sawRow |-> FALSE, job |-> 0]

WorkerState == [pc : {"idle", "claiming", "running"}, at : Nat,
                sawRow : BOOLEAN, job : Nat]

Running(w) == worker[w].pc = "running"

Init ==
    /\ now = 0
    /\ row = NoRow
    /\ worker = [w \in Worker |-> Idle]
    /\ crashes = 0

\* The loop wakes w up: it reads the clock and looks for the row.
Wake(w) ==
    /\ worker[w].pc = "idle"
    /\ worker' = [worker EXCEPT ![w] =
         [pc |-> "claiming", at |-> now, sawRow |-> row # NoRow, job |-> 0]]
    /\ UNCHANGED <<now, row, crashes>>

\* (Mutation: the cadence column is forgotten.)
ClaimedWithoutCadence(w) == [owner |-> w, leaseUntil |-> worker[w].at + LeaseLength]

Claimed(w) == [owner |-> w,
               leaseUntil |-> worker[w].at + LeaseLength,
               nextRunAt |-> worker[w].at + Interval]

\* w saw no row and its INSERT succeeds.
InsertLease(w) ==
    /\ worker[w].pc = "claiming" /\ ~worker[w].sawRow
    /\ row = NoRow
    /\ row' = Claimed(w)
    /\ worker' = [worker EXCEPT ![w].pc = "running"]
    /\ UNCHANGED <<now, crashes>>

\* w saw no row, another process inserted it first: IntegrityError, rollback,
\* and on to the conditional UPDATE.
InsertConflict(w) ==
    /\ worker[w].pc = "claiming" /\ ~worker[w].sawRow
    /\ row # NoRow
    /\ worker' = [worker EXCEPT ![w].sawRow = TRUE]
    /\ UNCHANGED <<now, row, crashes>>

\* (Mutations: a WHERE clause without one of its two conditions.)
SlotDue(w) == row.nextRunAt <= worker[w].at
LeaseExpired(w) == row.leaseUntil <= worker[w].at

\* The WHERE clause of the conditional UPDATE, on the clock value w read.
SlotFree(w) == row.leaseUntil <= worker[w].at /\ row.nextRunAt <= worker[w].at

ClaimLease(w) ==
    /\ worker[w].pc = "claiming" /\ worker[w].sawRow
    /\ row # NoRow
    /\ SlotFree(w)
    /\ row' = Claimed(w)
    /\ worker' = [worker EXCEPT ![w].pc = "running"]
    /\ UNCHANGED <<now, crashes>>

\* (Mutation: try again at once, with the old clock value.)
RetryClaim(w) ==
    /\ worker[w].pc = "claiming" /\ worker[w].sawRow
    /\ row # NoRow
    /\ ~SlotFree(w)
    /\ UNCHANGED vars

\* The UPDATE matched no row: the cycle is not w's.
LoseClaim(w) ==
    /\ worker[w].pc = "claiming" /\ worker[w].sawRow
    /\ row # NoRow
    /\ ~SlotFree(w)
    /\ worker' = [worker EXCEPT ![w] = Idle]
    /\ UNCHANGED <<now, row, crashes>>

\* One job returns or raises; either way the cycle goes on to the next.
RunJob(w) ==
    /\ Running(w)
    /\ worker[w].job < NJobs
    /\ worker' = [worker EXCEPT ![w].job = @ + 1]
    /\ UNCHANGED <<now, row, crashes>>

\* (Mutation: the release does not filter on the owner.)
ReleaseAnyLease(w) ==
    /\ Running(w) /\ worker[w].job = NJobs
    /\ row' = [row EXCEPT !.leaseUntil = now]
    /\ worker' = [worker EXCEPT ![w] = Idle]
    /\ UNCHANGED <<now, crashes>>

\* The finally clause: give up the lease if it is still w's, keep nextRunAt.
ReleaseLease(w) ==
    /\ Running(w) /\ worker[w].job = NJobs
    /\ row' = IF row.owner = w THEN [row EXCEPT !.leaseUntil = now] ELSE row
    /\ worker' = [worker EXCEPT ![w] = Idle]
    /\ UNCHANGED <<now, crashes>>

\* The release raised; it is logged and the lease is left to expire.
ReleaseFails(w) ==
    /\ Running(w) /\ worker[w].job = NJobs
    /\ worker' = [worker EXCEPT ![w] = Idle]
    /\ UNCHANGED <<now, row, crashes>>

\* The process dies.  Its successor has a fresh owner id, but ids only matter
\* to the release of a running cycle, so the name is used again.
Crash(w) ==
    /\ worker[w].pc # "idle"
    /\ crashes < MaxCrashes
    /\ crashes' = crashes + 1
    /\ worker' = [worker EXCEPT ![w] = Idle]
    /\ UNCHANGED <<now, row>>

\* Time passes, but no call outlives MaxCycle.
Tick ==
    /\ now < MaxTime
    /\ \A w \in Worker : worker[w].pc # "idle" => now - worker[w].at < MaxCycle
    /\ now' = now + 1
    /\ UNCHANGED <<row, worker, crashes>>

Cycle(w) == InsertLease(w) \/ InsertConflict(w) \/ ClaimLease(w) \/ LoseClaim(w)
            \/ RunJob(w) \/ ReleaseLease(w)

Next == Tick \/ \E w \in Worker :
            Wake(w) \/ Cycle(w) \/ ReleaseFails(w) \/ Crash(w)

Spec == Init /\ [][Next]_vars

\* The loop of main.py never stops waking the worker up, a call that has begun
\* goes on to its next statement, and the clock advances.
FairSpec == Spec /\ WF_vars(Tick)
                 /\ \A w \in Worker : WF_vars(Wake(w)) /\ WF_vars(Cycle(w))

-----------------------------------------------------------------------------
\* Type invariant.
TypeOK ==
    /\ now \in Nat /\ crashes \in Nat
    /\ row \in Row \cup {NoRow}
    /\ worker \in [Worker -> WorkerState]

\* Two processes never run the periodic jobs at the same time
\* (acquire_scheduler_lease, "Atomically claim the next scheduler slot").
SingleOwner == \A v, w \in Worker : Running(v) /\ Running(w) => v = w

\* No process cuts short the lease of a cycle that goes on running: a late
\* release only touches its own row ("Release only this worker's lease").
LeaseKeptWhileRunning ==
    [][\A w \in Worker :
         Running(w) /\ row.owner = w /\ worker'[w].pc = "running"
         => \/ row'.owner = w /\ row'.leaseUntil >= row.leaseUntil
            \/ row.leaseUntil <= now]_vars

\* Successive cycles start at least Interval apart, whatever is released,
\* crashes or overruns: a claim moves nextRunAt by at least Interval.
CadenceKept ==
    [][row # NoRow /\ row' # NoRow /\ row'.nextRunAt # row.nextRunAt
       => row'.nextRunAt >= row.nextRunAt + Interval]_vars

\* When the next slot is due; the first one is due at once.
NextSlot == IF row = NoRow THEN 0 ELSE row.nextRunAt

\* Every slot inside the horizon is eventually claimed, even when the owner of
\* the previous one crashed or could not release ("A crashed worker becomes
\* eligible again after the crash lease").
SlotsKeepComing ==
    \A t \in 0..MaxTime :
        t + LeaseLength <= MaxTime =>
        ((NextSlot = t) ~> (NextSlot > t))

\* The refinement mapping to SingleRunner: the worker that is running a cycle.
RunnerOf == IF \E w \in Worker : Running(w)
            THEN CHOOSE w \in Worker : Running(w) ELSE Nobody
Abstract == INSTANCE SingleRunner WITH runner <- RunnerOf

\* The lease implements the abstract single-owner execution.
ImplementsSingleRunner == Abstract!Spec
=============================================================================
