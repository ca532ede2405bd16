------------------------ MODULE SchedulerLeaseProofs ------------------------
(***************************************************************************)
(* Theorems about SchedulerLease for every number of workers and every     *)
(* choice of the times.                                                    *)
(*                                                                         *)
(* What does not depend on how long a cycle takes (the types, the cadence, *)
(* a lease that only its owner ends) follows from Begun: a running worker  *)
(* has found the row or inserted it, and claims with a clock value that is *)
(* not ahead of the clock.                                                 *)
(*                                                                         *)
(* SingleOwner is not inductive: a claim is exclusive only because a       *)
(* running worker owns the row and its lease still reaches into the future. *)
(* LeaseCovers states that, and Punctual (no call outlives MaxCycle) gives  *)
(* it its strength when MaxCycle < LeaseLength.                            *)
(***************************************************************************)
EXTENDS SchedulerLease, TLAPS

\* The call of every worker that is not idle began at most MaxCycle ago.
Punctual ==
    \A w \in Worker : worker[w].pc # "idle" =>
        worker[w].at <= now /\ now - worker[w].at <= MaxCycle

\* The worker that runs a cycle owns the row, with the lease it claimed.
LeaseCovers ==
    \A w \in Worker : Running(w) =>
        /\ row # NoRow
        /\ row.owner = w
        /\ row.leaseUntil = worker[w].at + LeaseLength

IInv == TypeOK /\ Punctual /\ LeaseCovers

\* Whoever is not idle began in the past, and whoever runs has a row.
Begun ==
    \A w \in Worker :
        /\ worker[w].pc # "idle" => worker[w].at <= now
        /\ Running(w) => row # NoRow

TInv == TypeOK /\ Begun

USE TimeAssumption, NoRowAssumption

LEMMA LeaseLengthType == LeaseLength \in Nat
  BY DEF LeaseLength

\* The types are preserved by every step.
LEMMA TypeStep == TInv /\ [Next]_vars => TypeOK'
<1> SUFFICES ASSUME TInv, [Next]_vars PROVE TypeOK'
  OBVIOUS
<1> USE LeaseLengthType DEF TInv, TypeOK, WorkerState, Row
<1>1. CASE Tick
  BY <1>1 DEF Tick
<1>2. ASSUME NEW w \in Worker, Wake(w) PROVE TypeOK'
  BY <1>2 DEF Wake
<1>3. ASSUME NEW w \in Worker, Cycle(w) PROVE TypeOK'
  <2>1. CASE InsertLease(w)
    BY <2>1 DEF InsertLease, Claimed
  <2>2. CASE InsertConflict(w)
    BY <2>2 DEF InsertConflict
  <2>3. CASE ClaimLease(w)
    BY <2>3 DEF ClaimLease, Claimed
  <2>4. CASE LoseClaim(w)
    BY <2>4 DEF LoseClaim, Idle
  <2>5. CASE RunJob(w)
    BY <2>5 DEF RunJob
  <2>6. CASE ReleaseLease(w)
    <3>1. row' \in Row \cup {NoRow}
      <4>1. row \in Row
        BY <2>6 DEF ReleaseLease, Begun
      <4> QED
        BY <4>1, <2>6 DEF ReleaseLease
    <3> QED
      BY <3>1, <2>6 DEF ReleaseLease, Idle
  <2> QED
    BY <1>3, <2>1, <2>2, <2>3, <2>4, <2>5, <2>6 DEF Cycle
<1>4. ASSUME NEW w \in Worker, ReleaseFails(w) PROVE TypeOK'
  BY <1>4 DEF ReleaseFails, Idle
<1>5. ASSUME NEW w \in Worker, Crash(w) PROVE TypeOK'
  BY <1>5 DEF Crash, Idle
<1>6. CASE UNCHANGED vars
  BY <1>6 DEF vars
<1> QED
  BY <1>1, <1>2, <1>3, <1>4, <1>5, <1>6 DEF Next

\* No step makes a worker run without a row, or sets the clock back.
LEMMA BegunStep == TInv /\ [Next]_vars => Begun'
<1> SUFFICES ASSUME TInv, [Next]_vars PROVE Begun'
  OBVIOUS
<1> USE DEF TInv, TypeOK, WorkerState, Row, Begun, Running
<1>1. CASE Tick
  BY <1>1 DEF Tick
<1>2. ASSUME NEW w \in Worker, Wake(w) PROVE Begun'
  BY <1>2 DEF Wake
<1>3. ASSUME NEW w \in Worker, InsertLease(w) \/ ClaimLease(w) PROVE Begun'
  <2>1. Claimed(w) \in Row
    BY LeaseLengthType DEF Claimed
  <2> QED
    BY <1>3, <2>1 DEF InsertLease, ClaimLease
<1>4. ASSUME NEW w \in Worker,
             InsertConflict(w) \/ LoseClaim(w) \/ RunJob(w) \/ ReleaseFails(w) \/ Crash(w)
      PROVE  Begun'
  BY <1>4 DEF InsertConflict, LoseClaim, RunJob, ReleaseFails, Crash, Idle
<1>5. ASSUME NEW w \in Worker, ReleaseLease(w) PROVE Begun'
  <2>1. row \in Row /\ row' \in Row
    BY <1>5 DEF ReleaseLease
  <2> QED
    BY <1>5, <2>1 DEF ReleaseLease, Idle
<1>6. CASE UNCHANGED vars
  BY <1>6 DEF vars
<1> QED
  BY <1>1, <1>2, <1>3, <1>4, <1>5, <1>6 DEF Next, Cycle

LEMMA TypeInvariant == Spec => []TInv
<1>1. Init => TInv
  BY DEF Init, TInv, TypeOK, WorkerState, Idle, Begun, Running
<1>2. TInv /\ [Next]_vars => TInv'
  BY TypeStep, BegunStep DEF TInv
<1> QED
  BY <1>1, <1>2, PTL DEF Spec

\* However long the cycles take, whatever crashes and whichever releases fail,
\* the row of background_job_leases and the workers keep their types: nobody
\* releases a lease before there is a row.
THEOREM TypeCorrect == Spec => []TypeOK
<1>1. TInv => TypeOK
  BY DEF TInv
<1> QED
  BY TypeInvariant, <1>1, PTL

\* The row is written by a claim, of whoever found the slot free, and by the
\* release of its owner; nothing else touches it.
LEMMA RowWritten ==
    ASSUME TInv, [Next]_vars, row' # row
    PROVE  \/ \E w \in Worker : row = NoRow /\ InsertLease(w)
           \/ \E w \in Worker :
                 /\ ClaimLease(w) /\ row \in Row /\ worker[w].at <= now
                 /\ row' = Claimed(w)
           \/ \E w \in Worker :
                 /\ ReleaseLease(w) /\ row \in Row /\ row.owner = w
                 /\ row' = [row EXCEPT !.leaseUntil = now]
<1>1. PICK w \in Worker : InsertLease(w) \/ ClaimLease(w) \/ ReleaseLease(w)
  BY DEF Next, Cycle, Tick, Wake, InsertConflict, LoseClaim, RunJob, ReleaseFails, Crash, vars
<1>2. CASE InsertLease(w)
  BY <1>2 DEF InsertLease
<1>3. CASE ClaimLease(w)
  BY <1>3 DEF ClaimLease, TInv, TypeOK, Begun
<1>4. CASE ReleaseLease(w)
  BY <1>4 DEF ReleaseLease, TInv, TypeOK, Begun
<1> QED
  BY <1>1, <1>2, <1>3, <1>4

\* Two starts of a cycle lie at least the interval apart, for every number of
\* processes, crashes and overruns: a claim finds nextRunAt in its past and
\* moves it to its present plus the interval, and a release does not touch it.
THEOREM CyclesKeepTheCadence == Spec => CadenceKept
<1> DEFINE Step == row # NoRow /\ row' # NoRow /\ row'.nextRunAt # row.nextRunAt
                   => row'.nextRunAt >= row.nextRunAt + Interval
<1>1. TInv /\ [Next]_vars => [Step]_vars
  <2> SUFFICES ASSUME TInv, [Next]_vars, row # NoRow, row'.nextRunAt # row.nextRunAt
               PROVE  row'.nextRunAt >= row.nextRunAt + Interval
    OBVIOUS
  <2>1. \/ \E w \in Worker : ClaimLease(w) /\ row \in Row /\ row' = Claimed(w)
        \/ row \in Row /\ row' = [row EXCEPT !.leaseUntil = now]
    BY RowWritten
  <2>2. PICK w \in Worker : ClaimLease(w) /\ row \in Row /\ row' = Claimed(w)
    BY <2>1 DEF Row
  <2> QED
    BY <2>2 DEF ClaimLease, SlotFree, Claimed, Row, TInv, TypeOK, WorkerState
<1> QED
  BY <1>1, TypeInvariant, PTL DEF Spec, CadenceKept

\* Whoever owns the row and goes on running keeps it, and keeps it as long as
\* it claimed, until the lease has expired: a late release of an earlier cycle
\* finds another owner, and a claim finds a lease that is over.
THEOREM NobodyEndsAnothersLease == Spec => LeaseKeptWhileRunning
<1> DEFINE Step ==
      \A w \in Worker :
         Running(w) /\ row.owner = w /\ worker'[w].pc = "running"
         => \/ row'.owner = w /\ row'.leaseUntil >= row.leaseUntil
            \/ row.leaseUntil <= now
<1>1. TInv /\ [Next]_vars => [Step]_vars
  <2> SUFFICES ASSUME TInv, [Next]_vars,
                      NEW w \in Worker, Running(w), row.owner = w, worker'[w].pc = "running"
               PROVE  \/ row'.owner = w /\ row'.leaseUntil >= row.leaseUntil
                      \/ row.leaseUntil <= now
    OBVIOUS
  <2>1. row \in Row /\ row # NoRow /\ now \in Nat
    BY DEF TInv, TypeOK, Begun
  <2>2. CASE row' = row
    BY <2>1, <2>2 DEF Row
  <2>3. ASSUME NEW v \in Worker, ClaimLease(v), worker[v].at <= now
        PROVE  row.leaseUntil <= now
    BY <2>1, <2>3 DEF ClaimLease, SlotFree, Row, TInv, TypeOK, WorkerState
  <2>4. ASSUME NEW v \in Worker, ReleaseLease(v) PROVE row.owner # v
    BY <2>4 DEF ReleaseLease, Idle, TInv, TypeOK
  <2> QED
    BY <2>1, <2>2, <2>3, <2>4, RowWritten
<1> QED
  BY <1>1, TypeInvariant, PTL DEF Spec, LeaseKeptWhileRunning

-----------------------------------------------------------------------------
\* No call outlives MaxCycle: time stops for a call that is due, and every
\* call begins at the present.
LEMMA PunctualStep == IInv /\ [Next]_vars => Punctual'
<1> SUFFICES ASSUME IInv, [Next]_vars PROVE Punctual'
  OBVIOUS
<1> USE DEF IInv, TypeOK, WorkerState, Punctual
<1>1. CASE Tick
  BY <1>1 DEF Tick
<1>2. ASSUME NEW w \in Worker, Wake(w) PROVE Punctual'
  BY <1>2 DEF Wake
<1>3. ASSUME NEW w \in Worker, Cycle(w) \/ ReleaseFails(w) \/ Crash(w)
      PROVE  Punctual'
  <2>1. now' = now
    BY <1>3 DEF Cycle, InsertLease, InsertConflict, ClaimLease, LoseClaim,
                RunJob, ReleaseLease, ReleaseFails, Crash
  <2>2. \A v \in Worker : worker'[v].pc # "idle" =>
           worker[v].pc # "idle" /\ worker'[v].at = worker[v].at
    BY <1>3 DEF Cycle, InsertLease, InsertConflict, ClaimLease, LoseClaim,
                RunJob, ReleaseLease, ReleaseFails, Crash, Idle
  <2> QED
    BY <2>1, <2>2
<1>4. CASE UNCHANGED vars
  BY <1>4 DEF vars
<1> QED
  BY <1>1, <1>2, <1>3, <1>4 DEF Next

\* A running worker keeps the lease it claimed: whoever else claims would need
\* a clock reading at or after leaseUntil, which lies beyond the present.
LEMMA LeaseStep ==
    ASSUME MaxCycle < LeaseLength, IInv, [Next]_vars
    PROVE  LeaseCovers'
<1> USE DEF IInv, TypeOK, WorkerState, Row, LeaseCovers, Running
<1>0. \A v \in Worker : Running(v) => now < row.leaseUntil
  BY LeaseLengthType DEF Punctual
<1>1. CASE Tick
  BY <1>1 DEF Tick
<1>2. ASSUME NEW w \in Worker, Wake(w) PROVE LeaseCovers'
  BY <1>2 DEF Wake
<1>3. ASSUME NEW w \in Worker, InsertLease(w) PROVE LeaseCovers'
  <2>1. \A v \in Worker : ~Running(v)
    BY <1>3 DEF InsertLease
  <2>2. Claimed(w) \in Row
    BY LeaseLengthType DEF Claimed
  <2> QED
    BY <1>3, <2>1, <2>2 DEF InsertLease, Claimed
<1>4. ASSUME NEW w \in Worker, InsertConflict(w) PROVE LeaseCovers'
  BY <1>4 DEF InsertConflict
<1>5. ASSUME NEW w \in Worker, ClaimLease(w) PROVE LeaseCovers'
  <2>1. row.leaseUntil <= now
    BY <1>5, LeaseLengthType DEF ClaimLease, SlotFree, Punctual
  <2>2. \A v \in Worker : ~Running(v)
    BY <2>1, <1>0, LeaseLengthType DEF ClaimLease
  <2>3. Claimed(w) \in Row
    BY LeaseLengthType DEF Claimed
  <2> QED
    BY <1>5, <2>2, <2>3 DEF ClaimLease, Claimed
<1>6. ASSUME NEW w \in Worker, LoseClaim(w) PROVE LeaseCovers'
  BY <1>6 DEF LoseClaim, Idle
<1>7. ASSUME NEW w \in Worker, RunJob(w) PROVE LeaseCovers'
  BY <1>7 DEF RunJob
<1>8. ASSUME NEW w \in Worker, ReleaseLease(w) PROVE LeaseCovers'
  <2>1. \A v \in Worker : v # w => ~Running(v)
    BY <1>8 DEF ReleaseLease
  <2> QED
    BY <1>8, <2>1 DEF ReleaseLease, Idle
<1>9. ASSUME NEW w \in Worker, ReleaseFails(w) \/ Crash(w) PROVE LeaseCovers'
  BY <1>9 DEF ReleaseFails, Crash, Idle
<1>10. CASE UNCHANGED vars
  BY <1>10 DEF vars
<1> QED
  BY <1>1, <1>2, <1>3, <1>4, <1>5, <1>6, <1>7, <1>8, <1>9, <1>10
     DEF Next, Cycle

LEMMA InitIInv == Init => IInv
  BY DEF Init, IInv, TypeOK, WorkerState, Idle, Punctual, LeaseCovers, Running

LEMMA IInvOwner == IInv => SingleOwner
  BY DEF IInv, LeaseCovers, SingleOwner

LEMMA Inductive ==
    ASSUME MaxCycle < LeaseLength
    PROVE  Spec => []IInv
<1>1. IInv => TInv
  BY DEF IInv, TInv, Begun, Punctual, LeaseCovers
<1>2. IInv /\ [Next]_vars => IInv'
  BY <1>1, TypeStep, PunctualStep, LeaseStep DEF IInv
<1> QED
  BY InitIInv, <1>2, PTL DEF Spec

\* If every call of run_periodic_cycle returns before its lease runs out, the
\* state keeps its types and two processes never run the jobs together.
THEOREM OneCycleAtATime ==
    ASSUME MaxCycle < LeaseLength
    PROVE  Spec => [](TypeOK /\ SingleOwner)
<1>1. IInv => TypeOK /\ SingleOwner
  BY IInvOwner DEF IInv
<1> QED
  BY Inductive, <1>1, PTL

-----------------------------------------------------------------------------
\* RunnerOf is the one running worker, if there is one.
LEMMA RunnerOfRunning ==
    ASSUME SingleOwner, NEW w \in Worker, Running(w)
    PROVE  RunnerOf = w
  BY DEF RunnerOf, SingleOwner

LEMMA RunnerOfNone ==
    ASSUME \A w \in Worker : ~Running(w)
    PROVE  RunnerOf = Nobody
  BY DEF RunnerOf

\* A step that changes no worker's Running keeps the abstract runner.
LEMMA RunnerOfStutter ==
    ASSUME SingleOwner, SingleOwner',
           \A w \in Worker : Running(w)' <=> Running(w)
    PROVE  RunnerOf' = RunnerOf
<1>1. CASE \E w \in Worker : Running(w)
  <2>1. PICK w \in Worker : Running(w)
    BY <1>1
  <2>2. RunnerOf = w
    BY <2>1, RunnerOfRunning
  <2>3. \A v \in Worker : Running(v)' => v = w
    BY <2>1 DEF SingleOwner
  <2>4. RunnerOf' = w
    BY <2>1, <2>3 DEF RunnerOf
  <2> QED
    BY <2>2, <2>4
<1>2. CASE \A w \in Worker : ~Running(w)
  <2>1. RunnerOf = Nobody
    BY <1>2, RunnerOfNone
  <2>2. RunnerOf' = Nobody
    BY <1>2 DEF RunnerOf
  <2> QED
    BY <2>1, <2>2
<1> QED
  BY <1>1, <1>2

\* Every step of the lease protocol is a step of SingleRunner or a stutter.
LEMMA StepSimulation ==
    ASSUME MaxCycle < LeaseLength, IInv, IInv', [Next]_vars
    PROVE  [Abstract!Next]_RunnerOf
<1> USE DEF TypeOK, WorkerState, Running, Row
<1>1. SingleOwner /\ SingleOwner'
  BY IInvOwner DEF IInv, LeaseCovers, SingleOwner
<1>2. ASSUME NEW w \in Worker, InsertLease(w) \/ ClaimLease(w)
      PROVE  Abstract!Begin(w)
  <2>1. CASE InsertLease(w)
    <3>1. \A v \in Worker : ~Running(v)
      BY <2>1 DEF InsertLease, IInv, LeaseCovers
    <3>2. RunnerOf = Nobody
      BY <3>1, RunnerOfNone
    <3>3. worker'[w].pc = "running"
      BY <2>1 DEF InsertLease, IInv
    <3>4. RunnerOf' = w
      BY <3>3, <1>1 DEF RunnerOf, SingleOwner
    <3> QED
      BY <3>2, <3>4 DEF Abstract!Begin
  <2>2. CASE ClaimLease(w)
    <3>1. row.leaseUntil <= now
      BY <2>2, LeaseLengthType DEF ClaimLease, SlotFree, IInv, Punctual
    <3>2. \A v \in Worker : ~Running(v)
      BY <3>1, LeaseLengthType DEF IInv, LeaseCovers, Punctual
    <3>3. RunnerOf = Nobody
      BY <3>2, RunnerOfNone
    <3>4. worker'[w].pc = "running"
      BY <2>2 DEF ClaimLease, IInv
    <3>5. RunnerOf' = w
      BY <3>4, <1>1 DEF RunnerOf, SingleOwner
    <3> QED
      BY <3>3, <3>5 DEF Abstract!Begin
  <2> QED
    BY <1>2, <2>1, <2>2
<1>3. ASSUME NEW w \in Worker,
             ReleaseLease(w) \/ ReleaseFails(w) \/ (Crash(w) /\ Running(w))
      PROVE  Abstract!End
  <2>1. Running(w)
    BY <1>3 DEF ReleaseLease, ReleaseFails
  <2>2. RunnerOf = w
    BY <2>1, <1>1, RunnerOfRunning
  <2>3. \A v \in Worker : ~Running(v)'
    BY <1>1, <1>3, <2>1
       DEF SingleOwner, ReleaseLease, ReleaseFails, Crash, Idle, IInv
  <2>4. RunnerOf' = Nobody
    BY <2>3 DEF RunnerOf
  <2> QED
    BY <2>2, <2>4, NamesAssumption DEF Abstract!End
<1>4. ASSUME NEW w \in Worker,
             Wake(w) \/ InsertConflict(w) \/ LoseClaim(w) \/ RunJob(w)
                \/ (Crash(w) /\ ~Running(w))
      PROVE  RunnerOf' = RunnerOf
  <2>1. \A v \in Worker : Running(v)' <=> Running(v)
    BY <1>4 DEF Wake, InsertConflict, LoseClaim, RunJob, Crash, Idle, IInv
  <2> QED
    BY <2>1, <1>1, RunnerOfStutter
<1>5. CASE Tick \/ UNCHANGED vars
  <2>1. \A v \in Worker : Running(v)' <=> Running(v)
    BY <1>5 DEF Tick, vars
  <2> QED
    BY <2>1, <1>1, RunnerOfStutter
<1> QED
  BY <1>2, <1>3, <1>4, <1>5 DEF Next, Cycle, Abstract!Next

\* Under the same assumption the lease implements SingleRunner: at most one
\* cycle is under way, and each ends before the next begins.
THEOREM LeaseImplementsSingleRunner ==
    ASSUME MaxCycle < LeaseLength
    PROVE  Spec => ImplementsSingleRunner
<1>1. Init => Abstract!Init
  BY DEF Init, Abstract!Init, RunnerOf, Running, Idle
<1>2. IInv /\ IInv' /\ [Next]_vars => [Abstract!Next]_RunnerOf
  BY StepSimulation
<1> QED
  BY Inductive, <1>1, <1>2, PTL
     DEF Spec, Abstract!Spec, ImplementsSingleRunner
=============================================================================
