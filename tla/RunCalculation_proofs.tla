------------------------- MODULE RunCalculation_proofs -------------------------
(* Proofs about the recompute guard, for any number of runs and any          *)
(* thresholds, and then about the run it admits, for any number of runs,     *)
(* reps and chargebacks.                                                     *)
EXTENDS RunCalculation, TLAPS

(* The guard.                                                                *)

(* The initial state satisfies the slot invariant.                           *)
LEMMA SlotInit == GuardInit => SlotInv
  BY GuardAssumption DEF GuardInit, SlotInv, GuardTypeOK, ClockInv, WorkerOwnsRow,
     Alive, Working, Acquiring, Ended, NoTime, NoRun

(* Every step of the guard keeps its variables in their types.               *)
LEMMA TypeStep == GuardTypeOK /\ [GuardNext]_guardVars => GuardTypeOK'
  <1> SUFFICES ASSUME GuardTypeOK, [GuardNext]_guardVars PROVE GuardTypeOK'
    OBVIOUS
  <1> USE DEF GuardTypeOK, Acquiring, Ended, Goto
  <1>0. \A r \in Runs : Claimed(r) \in [status : {"absent", "pending", "running", "done", "error"},
                                       startedAt : Nat \cup {NoTime},
                                       runId : Runs \cup {NoRun}]
    BY DEF Claimed
  <1>1. ASSUME NEW r \in Runs, NEW e \in Entrances, Begin(r, e) PROVE GuardTypeOK'
    BY <1>1 DEF Begin
  <1>2. ASSUME NEW r \in Runs, TryClaim(r) PROVE GuardTypeOK'
    BY <1>0, <1>2 DEF TryClaim, Win
  <1>3. ASSUME NEW r \in Runs, ReadRow(r) PROVE GuardTypeOK'
    BY <1>3 DEF ReadRow
  <1>4. ASSUME NEW r \in Runs, InsertRow(r) PROVE GuardTypeOK'
    BY <1>0, <1>4 DEF InsertRow, Win
  <1>5. ASSUME NEW r \in Runs, AcquireFault(r) PROVE GuardTypeOK'
    BY <1>0, <1>5 DEF AcquireFault
  <1>6. ASSUME NEW r \in Runs, FailOpen(r) PROVE GuardTypeOK'
    BY <1>6 DEF FailOpen
  <1>7. ASSUME NEW r \in Runs, Stamp(r) PROVE GuardTypeOK'
    BY <1>7 DEF Stamp
  <1>8. ASSUME NEW r \in Runs, Crash(r) PROVE GuardTypeOK'
    BY <1>8 DEF Crash
  <1>9. CASE LandingCreatesRow
    BY <1>9 DEF LandingCreatesRow
  <1>10. CASE Tick
    BY <1>10 DEF Tick
  <1>11. CASE UNCHANGED guardVars
    BY <1>11 DEF guardVars
  <1> QED
    BY <1>1, <1>2, <1>3, <1>4, <1>5, <1>6, <1>7, <1>8, <1>9, <1>10, <1>11
    DEF GuardNext, GuardEnv, Acquire

(* No clock value a run holds runs ahead of the database clock, and no live  *)
(* run outlives MaxRun.                                                      *)
LEMMA ClockStep == GuardTypeOK /\ ClockInv /\ [GuardNext]_guardVars => ClockInv'
  <1> SUFFICES ASSUME GuardTypeOK, ClockInv, [GuardNext]_guardVars PROVE ClockInv'
    OBVIOUS
  <1> USE GuardAssumption DEF GuardTypeOK, ClockInv, Alive, Acquiring, Goto
  <1>1. ASSUME NEW r \in Runs, NEW e \in Entrances, Begin(r, e) PROVE ClockInv'
    BY <1>1 DEF Begin
  <1>2. ASSUME NEW r \in Runs, TryClaim(r) PROVE ClockInv'
    BY <1>2 DEF TryClaim, Win
  <1>3. ASSUME NEW r \in Runs, ReadRow(r) PROVE ClockInv'
    BY <1>3 DEF ReadRow
  <1>4. ASSUME NEW r \in Runs, InsertRow(r) PROVE ClockInv'
    BY <1>4 DEF InsertRow, Win
  <1>5. ASSUME NEW r \in Runs, AcquireFault(r) PROVE ClockInv'
    BY <1>5 DEF AcquireFault
  <1>6. ASSUME NEW r \in Runs, FailOpen(r) PROVE ClockInv'
    BY <1>6 DEF FailOpen
  <1>7. ASSUME NEW r \in Runs, Stamp(r) PROVE ClockInv'
    BY <1>7 DEF Stamp
  <1>8. ASSUME NEW r \in Runs, Crash(r) PROVE ClockInv'
    BY <1>8 DEF Crash
  <1>9. CASE LandingCreatesRow
    BY <1>9 DEF LandingCreatesRow
  <1>10. CASE Tick
    BY <1>10 DEF Tick
  <1>11. CASE UNCHANGED guardVars
    BY <1>11 DEF guardVars
  <1> QED
    BY <1>1, <1>2, <1>3, <1>4, <1>5, <1>6, <1>7, <1>8, <1>9, <1>10, <1>11
    DEF GuardNext, GuardEnv, Acquire

(* While a run works nobody else can win the slot: its claim is too fresh to *)
(* be taken over.                                                            *)
LEMMA WorkerBlocksClaims ==
  ASSUME MaxRun <= StaleAfter, GuardTypeOK, ClockInv, WorkerOwnsRow,
         NEW r \in Runs, NEW s \in Runs, Working(r)
  PROVE  ~Takeable(s) /\ row.status # "absent"
  BY GuardAssumption DEF Takeable, GuardTypeOK, ClockInv, WorkerOwnsRow, Working,
     Alive, Claimed, NoTime

(* Whoever works owns the row.                                               *)
LEMMA OwnerStep ==
  ASSUME MaxRun <= StaleAfter, GuardTypeOK, ClockInv, degraded = {} => WorkerOwnsRow,
         [GuardNext]_guardVars, degraded' = {}
  PROVE  WorkerOwnsRow'
  <1>a. degraded = {} /\ WorkerOwnsRow
    BY DEF GuardNext, GuardEnv, Acquire, Begin, TryClaim, ReadRow, InsertRow, AcquireFault,
       FailOpen, Stamp, Crash, LandingCreatesRow, Tick, guardVars
  <1> USE GuardAssumption DEF GuardTypeOK, WorkerOwnsRow, Working, Claimed, Goto, Acquiring
  <1>1. ASSUME NEW r \in Runs, NEW e \in Entrances, Begin(r, e) PROVE WorkerOwnsRow'
    BY <1>1, <1>a DEF Begin
  <1>2. ASSUME NEW r \in Runs, TryClaim(r) PROVE WorkerOwnsRow'
    BY <1>2, <1>a, WorkerBlocksClaims DEF TryClaim, Win
  <1>3. ASSUME NEW r \in Runs, ReadRow(r) PROVE WorkerOwnsRow'
    BY <1>3, <1>a DEF ReadRow
  <1>4. ASSUME NEW r \in Runs, InsertRow(r) PROVE WorkerOwnsRow'
    BY <1>4, <1>a, WorkerBlocksClaims DEF InsertRow, Win
  <1>5. ASSUME NEW r \in Runs, AcquireFault(r) PROVE WorkerOwnsRow'
    <2>1. /\ degraded' = degraded => pc[r] = "insert"
          /\ \A s \in Runs : Working(s)' => Working(s)
          /\ row' = row \/ WouldWin(r)
          /\ at' = at
      BY <1>5, <1>a DEF AcquireFault
    <2>2. CASE row' = row
      BY <1>a, <2>1, <2>2
    <2>3. CASE WouldWin(r)
      BY <1>5, <1>a, <2>1, <2>3, WorkerBlocksClaims DEF WouldWin
    <2> QED
      BY <2>1, <2>2, <2>3
  <1>6. ASSUME NEW r \in Runs, FailOpen(r) PROVE WorkerOwnsRow'
    BY <1>6, <1>a DEF FailOpen
  <1>7. ASSUME NEW r \in Runs, Stamp(r) PROVE WorkerOwnsRow'
    BY <1>7, <1>a DEF Stamp
  <1>8. ASSUME NEW r \in Runs, Crash(r) PROVE WorkerOwnsRow'
    BY <1>8, <1>a DEF Crash
  <1>9. CASE LandingCreatesRow
    BY <1>9, <1>a DEF LandingCreatesRow
  <1>10. CASE Tick
    BY <1>10, <1>a DEF Tick
  <1>11. CASE UNCHANGED guardVars
    BY <1>11, <1>a DEF guardVars
  <1> QED
    BY <1>1, <1>2, <1>3, <1>4, <1>5, <1>6, <1>7, <1>8, <1>9, <1>10, <1>11
    DEF GuardNext, GuardEnv, Acquire

(* The guard's variables keep their types, whatever the thresholds.          *)
THEOREM GuardTypeCorrect == GuardSpec => []GuardTypeOK
  <1>1. GuardInit => GuardTypeOK
    BY SlotInit DEF SlotInv
  <1> QED
    BY <1>1, TypeStep, PTL DEF GuardSpec

(* The slot invariant holds when a live run cannot outlast the takeover      *)
(* threshold.                                                                *)
LEMMA SlotInvariant ==
  ASSUME MaxRun <= StaleAfter PROVE GuardSpec => []SlotInv
  <1>1. SlotInv /\ [GuardNext]_guardVars => SlotInv'
    BY TypeStep, ClockStep, OwnerStep DEF SlotInv
  <1> QED
    BY <1>1, SlotInit, PTL DEF GuardSpec

(* With no fail-open, two recomputes of one month are never at work together.*)
THEOREM GuardExcludes ==
  ASSUME MaxRun <= StaleAfter PROVE GuardSpec => []MutualExclusion
  <1>1. SlotInv => MutualExclusion
    BY DEF SlotInv, WorkerOwnsRow, MutualExclusion, Claimed
  <1> QED
    BY <1>1, SlotInvariant, PTL

(* A step of one run moves that run.                                         *)
LEMMA OneMoves ==
  ASSUME GuardTypeOK, NEW r \in Runs, NEW label, Goto(r, label)
  PROVE  \A s \in Runs : Working(s)' <=> IF s = r THEN label = "working" ELSE Working(s)
  BY DEF GuardTypeOK, Goto, Working

(* Seen from outside, a step of the guard lets one run in, lets one out, or  *)
(* shows nothing: it lets one in only when nobody is at work.                *)
LEMMA FlightStep ==
  ASSUME MaxRun <= StaleAfter, SlotInv, [GuardNext]_guardVars
  PROVE  [Flight!Next]_AtWork
  <1>e. \A r, s \in Runs : degraded = {} /\ Working(r) /\ Working(s) => r = s
    BY DEF SlotInv, WorkerOwnsRow, Claimed
  <1>t. GuardTypeOK /\ ClockInv
    BY DEF SlotInv
  <1>d. degraded' = {} => degraded = {}
    BY DEF GuardNext, GuardEnv, Acquire, Begin, TryClaim, ReadRow, InsertRow, AcquireFault,
       FailOpen, Stamp, Crash, LandingCreatesRow, Tick, guardVars
  <1>n. \A r \in Runs : Flight!Enter(r) \/ Flight!Leave(r) => Flight!Next
    BY DEF Flight!Next
  <1>1. ASSUME NEW r \in Runs, degraded = {}, Working(r), AtWork' = {} PROVE Flight!Next
    <2>1. AtWork = {r}
      BY <1>1, <1>e DEF AtWork
    <2> QED
      BY <1>1, <1>n, <2>1 DEF Flight!Leave
  <1>2. CASE degraded' # {}
    <2>1. AtWork' = {}
      BY <1>2 DEF AtWork
    <2>2. CASE degraded = {} /\ \E r \in Runs : Working(r)
      BY <1>1, <2>1, <2>2
    <2>3. CASE degraded # {} \/ \A r \in Runs : ~Working(r)
      BY <2>1, <2>3 DEF AtWork
    <2> QED
      BY <2>2, <2>3
  <1>3. CASE degraded' = {}
    <2>0. degraded = {} /\ WorkerOwnsRow
      BY <1>3, <1>d DEF SlotInv
    <2>1. ASSUME \A s \in Runs : Working(s)' <=> Working(s) PROVE UNCHANGED AtWork
      BY <1>3, <2>0, <2>1 DEF AtWork
    <2>2. ASSUME NEW r \in Runs, Win(r), Takeable(r) \/ row.status = "absent" PROVE Flight!Next
      <3>1. \A s \in Runs : ~Working(s)
        BY <1>t, <2>0, <2>2, WorkerBlocksClaims
      <3>2. \A s \in Runs : Working(s)' <=> s = r
        BY <1>t, <2>2, <3>1, OneMoves DEF Win
      <3>3. AtWork = {} /\ AtWork' = {r}
        BY <1>3, <2>0, <3>1, <3>2 DEF AtWork
      <3> QED
        BY <1>n, <3>3 DEF Flight!Enter
    <2>3. ASSUME NEW r \in Runs, NEW label, Goto(r, label), ~Working(r), label # "working"
          PROVE  UNCHANGED AtWork
      BY <1>t, <2>1, <2>3, OneMoves
    <2>4. ASSUME NEW r \in Runs, NEW label, Goto(r, label), Working(r), label # "working"
          PROVE  Flight!Next
      <3>1. \A s \in Runs : ~Working(s)'
        BY <1>e, <1>t, <2>0, <2>4, OneMoves
      <3>2. AtWork' = {}
        BY <3>1 DEF AtWork
      <3> QED
        BY <1>1, <2>0, <2>4, <3>2
    <2>5. ASSUME NEW r \in Runs, NEW e \in Entrances, Begin(r, e) PROVE UNCHANGED AtWork
      BY <2>3, <2>5 DEF Begin, Working
    <2>6. ASSUME NEW r \in Runs, TryClaim(r) PROVE Flight!Next \/ UNCHANGED AtWork
      <3>1. CASE Takeable(r) /\ Win(r)
        BY <2>2, <3>1
      <3>2. CASE Goto(r, IF pc[r] = "claim" THEN "read" ELSE "reread")
        BY <2>3, <2>6, <3>2 DEF TryClaim, Working
      <3> QED
        BY <2>6, <3>1, <3>2 DEF TryClaim
    <2>7. ASSUME NEW r \in Runs, ReadRow(r) PROVE UNCHANGED AtWork
      BY <2>3, <2>7 DEF ReadRow, Working
    <2>8. ASSUME NEW r \in Runs, InsertRow(r) PROVE Flight!Next \/ UNCHANGED AtWork
      BY <2>2, <2>3, <2>8 DEF InsertRow, Working
    <2>9. ASSUME NEW r \in Runs, AcquireFault(r) PROVE UNCHANGED AtWork
      BY <2>3, <2>9 DEF AcquireFault, Working
    <2>10. ASSUME NEW r \in Runs, FailOpen(r) PROVE FALSE
      BY <1>3, <2>10 DEF FailOpen
    <2>11. ASSUME NEW r \in Runs, Stamp(r) PROVE Flight!Next
      BY <2>4, <2>11 DEF Stamp, Working
    <2>12. ASSUME NEW r \in Runs, Crash(r) PROVE Flight!Next \/ UNCHANGED AtWork
      BY <2>3, <2>4, <2>12 DEF Crash
    <2>13. CASE GuardEnv \/ UNCHANGED guardVars
      BY <2>1, <2>13 DEF GuardEnv, LandingCreatesRow, Tick, guardVars, Working
    <2> QED
      BY <2>5, <2>6, <2>7, <2>8, <2>9, <2>10, <2>11, <2>12, <2>13 DEF GuardNext, Acquire
  <1> QED
    BY <1>2, <1>3

(* The guard implements the single-flight slot: a run comes to work only     *)
(* when the one before has ended or died, for every number of runs, for as   *)
(* long as no acquisition has failed open.                                   *)
THEOREM GuardIsSingleFlight ==
  ASSUME MaxRun <= StaleAfter PROVE GuardSpec => Flight!Spec
  <1>1. GuardInit => Flight!Init
    BY DEF GuardInit, Flight!Init, AtWork, Working
  <1>2. SlotInv /\ [GuardNext]_guardVars => [Flight!Next]_AtWork
    BY FlightStep
  <1> QED
    BY <1>1, <1>2, SlotInvariant, PTL DEF GuardSpec, Flight!Spec

(* The guard is never left indeterminate while no call fails: there is a row *)
(* wherever a run would look in vain, and nobody is about to fail open.      *)
FaultFree ==
  /\ degraded = {}
  /\ \A r \in Runs : /\ pc[r] # "mark"
                     /\ pc[r] \in {"reclaim", "reread"} => row.status # "absent"

(* It is a failing call, and never a race, that makes the guard fail open    *)
(* (16063-16065, 16141-16149): without one the second look always finds the  *)
(* row, and exclusion holds of every behaviour.                              *)
THEOREM OnlyFaultsFailOpen ==
  ASSUME ~DbFaults PROVE GuardSpec => [](degraded = {})
  <1>1. GuardInit => FaultFree
    BY DEF GuardInit, FaultFree
  <1>2. GuardTypeOK /\ FaultFree /\ [GuardNext]_guardVars => FaultFree'
    <2> SUFFICES ASSUME GuardTypeOK, FaultFree, [GuardNext]_guardVars PROVE FaultFree'
      OBVIOUS
    <2> USE DEF GuardTypeOK, FaultFree, Goto
    <2>1. ASSUME NEW r \in Runs, NEW e \in Entrances, Begin(r, e) PROVE FaultFree'
      BY <2>1 DEF Begin
    <2>2. ASSUME NEW r \in Runs, TryClaim(r) PROVE FaultFree'
      BY <2>2 DEF TryClaim, Win, Claimed, Takeable
    <2>3. ASSUME NEW r \in Runs, ReadRow(r) PROVE FaultFree'
      BY <2>3 DEF ReadRow
    <2>4. ASSUME NEW r \in Runs, InsertRow(r) PROVE FaultFree'
      BY <2>4 DEF InsertRow, Win, Claimed
    <2>5. ASSUME NEW r \in Runs, AcquireFault(r) \/ FailOpen(r) PROVE FALSE
      BY <2>5 DEF AcquireFault, FailOpen
    <2>6. ASSUME NEW r \in Runs, Stamp(r) \/ Crash(r) PROVE FaultFree'
      BY <2>6 DEF Stamp, Crash
    <2>7. CASE GuardEnv \/ UNCHANGED guardVars
      BY <2>7 DEF GuardEnv, Tick, LandingCreatesRow, guardVars
    <2> QED
      BY <2>1, <2>2, <2>3, <2>4, <2>5, <2>6, <2>7 DEF GuardNext, Acquire
  <1>3. FaultFree => degraded = {}
    BY DEF FaultFree
  <1> QED
    BY <1>1, <1>2, <1>3, GuardTypeCorrect, PTL DEF GuardSpec

(* A run that still has to claim holds no token.                             *)
LEMMA TokenStep ==
  ASSUME GuardTypeOK, degraded = {}, TokenInv, [GuardNext]_guardVars, degraded' = {}
  PROVE  TokenInv'
  BY DEF TokenInv, GuardTypeOK, GuardNext, GuardEnv, Acquire, Begin, TryClaim, ReadRow,
     InsertRow, AcquireFault, FailOpen, Stamp, Crash, LandingCreatesRow, Tick, guardVars,
     Goto, Win, Acquiring

(* The row always names a run that won it, knowingly or not, at the time     *)
(* that run read.                                                            *)
LEMMA RowNameStep ==
  ASSUME GuardTypeOK, WorkerOwnsRow, degraded = {}, TokenInv,
         RowNamesClaimant, [GuardNext]_guardVars, degraded' = {}
  PROVE  RowNamesClaimant'
  <1> USE DEF RowNamesClaimant, GuardTypeOK, Goto, Acquiring
  <1>1. ASSUME NEW r \in Runs, NEW e \in Entrances, Begin(r, e) PROVE RowNamesClaimant'
    BY <1>1 DEF Begin, TokenInv
  <1>2. ASSUME NEW r \in Runs, TryClaim(r) PROVE RowNamesClaimant'
    BY <1>2 DEF TryClaim, Win, Claimed
  <1>3. ASSUME NEW r \in Runs, ReadRow(r) PROVE RowNamesClaimant'
    BY <1>3 DEF ReadRow
  <1>4. ASSUME NEW r \in Runs, InsertRow(r) PROVE RowNamesClaimant'
    BY <1>4 DEF InsertRow, Win, Claimed
  <1>5. ASSUME NEW r \in Runs, AcquireFault(r) PROVE RowNamesClaimant'
    <2>1. pc[r] = "insert" /\ held' = held /\ at' = at /\ orphaned \subseteq orphaned'
      BY <1>5 DEF AcquireFault
    <2>2. row' = row \/ (row' = Claimed(r) /\ r \in orphaned')
      BY <1>5, <2>1 DEF AcquireFault
    <2> QED
      BY <2>1, <2>2 DEF Claimed
  <1>6. ASSUME NEW r \in Runs, FailOpen(r) PROVE RowNamesClaimant'
    BY <1>6 DEF FailOpen
  <1>7. ASSUME NEW r \in Runs, Stamp(r) PROVE RowNamesClaimant'
    BY <1>7 DEF Stamp, WorkerOwnsRow, Working, Claimed
  <1>8. ASSUME NEW r \in Runs, Crash(r) PROVE RowNamesClaimant'
    BY <1>8 DEF Crash
  <1>9. CASE LandingCreatesRow
    BY <1>9 DEF LandingCreatesRow
  <1>10. CASE Tick
    BY <1>10 DEF Tick
  <1>11. CASE UNCHANGED guardVars
    BY <1>11 DEF guardVars
  <1> QED
    BY <1>1, <1>2, <1>3, <1>4, <1>5, <1>6, <1>7, <1>8, <1>9, <1>10, <1>11
    DEF GuardNext, GuardEnv, Acquire

(* A cause, once there, stays: tokens and the clock values behind them are   *)
(* not rewritten.                                                            *)
LEMMA CauseStays ==
  ASSUME GuardTypeOK, degraded = {}, TokenInv, [GuardNext]_guardVars, degraded' = {},
         NEW r \in Runs, pc[r] # "idle", HasCause(r)
  PROVE  HasCause(r)'
  <1>1. \A s \in Runs : pc[s] # "idle" => at'[s] = at[s]
    BY DEF GuardTypeOK, GuardNext, GuardEnv, Acquire, Begin, TryClaim, ReadRow, InsertRow,
       AcquireFault, FailOpen, Stamp, Crash, LandingCreatesRow, Tick, guardVars
  <1>2. \A s \in Runs : held[s] => held'[s] /\ pc[s] # "idle"
    BY DEF GuardTypeOK, TokenInv, GuardNext, GuardEnv, Acquire, Begin, TryClaim, ReadRow,
       InsertRow, AcquireFault, FailOpen, Stamp, Crash, LandingCreatesRow, Tick, guardVars, Win
  <1>3. \A s \in orphaned : s \in orphaned' /\ pc[s] # "idle"
    BY DEF GuardTypeOK, TokenInv, GuardNext, GuardEnv, Acquire, Begin, TryClaim, ReadRow,
       InsertRow, AcquireFault, FailOpen, Stamp, Crash, LandingCreatesRow, Tick, guardVars, Win
  <1>4. PICK s \in Runs : (s \in orphaned \/ (held[s] /\ s # r)) /\ at[s] >= at[r] - StaleAfter
    BY DEF HasCause
  <1>5. at'[s] = at[s] /\ at'[r] = at[r]
    BY <1>1, <1>2, <1>3, <1>4
  <1> QED
    BY <1>2, <1>3, <1>4, <1>5 DEF HasCause

(* The only step that makes an absent row present is an insert, and the run  *)
(* that inserts it, told so or not, is a cause for everyone who is looking.  *)
LEMMA InsertIsCause ==
  ASSUME MaxRun <= StaleAfter, GuardTypeOK, ClockInv, NEW s \in Runs,
         InsertRow(s) \/ AcquireFault(s), degraded' = {},
         row.status = "absent", row'.status # "absent", NEW r \in Runs, r # s
  PROVE  HasCause(r)'
  <1>1. at' = at /\ pc[s] \in Acquiring /\ (held'[s] \/ s \in orphaned')
    <2>1. CASE InsertRow(s)
      BY <2>1 DEF InsertRow, Win, GuardTypeOK, Acquiring
    <2>2. CASE AcquireFault(s)
      BY <2>2 DEF AcquireFault, Acquiring
    <2> QED
      BY <2>1, <2>2
  <1>2. at[s] >= at[r] - StaleAfter
    BY <1>1, GuardAssumption DEF ClockInv, GuardTypeOK, Alive
  <1> QED
    BY <1>1, <1>2 DEF HasCause

LEMMA LookedStep ==
  ASSUME MaxRun <= StaleAfter, CauseInv, degraded = {},
         [GuardNext]_guardVars, degraded' = {}
  PROVE  LookedAndSaw'
  <1> USE DEF CauseInv, SlotInv
  <1>a. CASE LandingCreatesRow
    BY <1>a DEF LandingCreatesRow, LookedAndSaw, GuardTypeOK
  <1>s. ASSUME ~LandingCreatesRow,
               NEW r \in Runs, pc[r] \in {"read", "reread", "refused"}, row'.status # "absent",
               row.status # "absent" \/ ~ \E s \in Runs : (InsertRow(s) \/ AcquireFault(s)) /\ s # r
        PROVE  HasCause(r)' \/ r \in surprised'
    <2>1. row.status # "absent"
      BY <1>s DEF GuardTypeOK, GuardNext, GuardEnv, Acquire, Begin, TryClaim, ReadRow, InsertRow,
         AcquireFault, FailOpen, Stamp, Crash, LandingCreatesRow, Tick, guardVars, Takeable,
         WorkerOwnsRow, Working, Claimed, WouldWin
    <2>2. surprised' = surprised
      BY <1>s DEF GuardNext, GuardEnv, Acquire, Begin, TryClaim, ReadRow, InsertRow,
         AcquireFault, FailOpen, Stamp, Crash, Tick, guardVars
    <2> QED
      BY <2>1, <2>2, <1>s, CauseStays DEF LookedAndSaw
  <1>k. ASSUME ~LandingCreatesRow,
               NEW r \in Runs, pc[r] \in {"read", "reread", "refused"}, row'.status # "absent"
        PROVE  HasCause(r)' \/ r \in surprised'
    BY <1>k, <1>s, InsertIsCause
  <1>n. ASSUME NEW r \in Runs, pc[r] \notin {"read", "reread", "refused"},
               pc'[r] \in {"read", "reread", "refused"}, row'.status # "absent"
        PROVE  HasCause(r)'
    <2>1. /\ TryClaim(r) /\ ~Takeable(r)
          /\ row' = row /\ held' = held /\ at' = at /\ orphaned' = orphaned
      BY <1>n DEF GuardTypeOK, GuardNext, GuardEnv, Acquire, Begin, TryClaim, ReadRow, InsertRow,
         AcquireFault, FailOpen, Stamp, Crash, LandingCreatesRow, Tick, guardVars, Goto, Win
    <2>2. row.status = "running"
      BY <2>1, <1>n DEF Takeable, GuardTypeOK
    <2>3. /\ row.runId \in Runs
          /\ held[row.runId] \/ row.runId \in orphaned
          /\ at[row.runId] = row.startedAt
      BY <2>2 DEF RowNamesClaimant
    <2>4. ~held[r]
      BY <2>1 DEF TryClaim, TokenInv, Acquiring
    <2>5. at[row.runId] >= at[r] - StaleAfter
      BY <2>1, <2>2, <2>3, <1>n, GuardAssumption DEF Takeable, GuardTypeOK
    <2> QED
      BY <2>1, <2>3, <2>4, <2>5 DEF HasCause
  <1> QED
    BY <1>a, <1>k, <1>n DEF LookedAndSaw

(* Nobody is refused while the row is still absent.                          *)
LEMMA RefusedStep ==
  ASSUME GuardTypeOK, [GuardNext]_guardVars,
         \A r \in Runs : pc[r] = "refused" => row.status # "absent"
  PROVE  \A r \in Runs : pc'[r] = "refused" => row'.status # "absent"
  BY DEF GuardTypeOK, GuardNext, GuardEnv, Acquire, Begin, TryClaim, ReadRow, InsertRow,
     AcquireFault, FailOpen, Stamp, Crash, LandingCreatesRow, Tick, guardVars, Goto, Win, Claimed

(* Whoever is refused was refused because of a run that won the slot no      *)
(* longer than the threshold ago, or whose first-ever INSERT committed       *)
(* unbeknown to it no longer ago, or because the landing queue created the   *)
(* row under its eyes: a dead run cannot wedge recomputes.                   *)
THEOREM GuardRefusesForCause ==
  ASSUME MaxRun <= StaleAfter PROVE GuardSpec => []RefusalHasCause
  <1>1. GuardInit => CauseInv
    BY SlotInit DEF CauseInv, GuardInit, TokenInv, RowNamesClaimant, LookedAndSaw
  <1>2. CauseInv /\ [GuardNext]_guardVars => CauseInv'
    <2> SUFFICES ASSUME CauseInv, [GuardNext]_guardVars PROVE CauseInv'
      OBVIOUS
    <2>1. SlotInv'
      BY TypeStep, ClockStep, OwnerStep DEF CauseInv, SlotInv
    <2>2. degraded' = {} => degraded = {}
      BY DEF GuardNext, GuardEnv, Acquire, Begin, TryClaim, ReadRow, InsertRow, AcquireFault,
         FailOpen, Stamp, Crash, LandingCreatesRow, Tick, guardVars
    <2>3. degraded' = {} => TokenInv' /\ RowNamesClaimant' /\ LookedAndSaw'
      BY <2>2, TokenStep, RowNameStep, LookedStep DEF CauseInv, SlotInv
    <2> QED
      BY <2>1, <2>3, RefusedStep DEF CauseInv, SlotInv
  <1>3. CauseInv => RefusalHasCause
    BY DEF CauseInv, LookedAndSaw, RefusalHasCause
  <1> QED
    BY <1>1, <1>2, <1>3, PTL DEF GuardSpec

-----------------------------------------------------------------------------
(* The run.                                                                  *)

(* Every step of the calculation is a step of the guard or leaves its        *)
(* variables alone.                                                          *)
LEMMA StepIsGuardStep == [RunNext]_runVars => [GuardNext]_guardVars
  <1> SUFFICES ASSUME [RunNext]_runVars PROVE [GuardNext]_guardVars
    OBVIOUS
  <1>1. CASE GuardStep
    BY <1>1 DEF GuardStep, GuardNext
  <1>2. ASSUME NEW r \in Runs, Calculate(r) PROVE [GuardNext]_guardVars
    BY <1>2 DEF Calculate, Load, Check, DeleteRows, InsertRows, ReadDecisions, DeleteItems,
       InsertItems, Finish, GuardNext
  <1>3. ASSUME NEW i \in items, NEW d \in BOOLEAN, Decide(i, d) PROVE [GuardNext]_guardVars
    BY <1>3 DEF Decide
  <1>4. ASSUME NEW q \in RepRuns, RecomputeRep(q) PROVE [GuardNext]_guardVars
    BY <1>4 DEF RecomputeRep, RepLoad, RepFind, RepWrite
  <1>5. CASE UNCHANGED runVars
    BY <1>5 DEF runVars
  <1> QED
    BY <1>1, <1>2, <1>3, <1>4, <1>5 DEF RunNext

(* The calculation implements the guard's protocol.                          *)
LEMMA RunKeepsToTheGuard == RunSpec => GuardSpec
  <1>1. RunInit => GuardInit
    BY DEF RunInit
  <1> QED
    BY <1>1, StepIsGuardStep, PTL DEF RunSpec, GuardSpec

(* The private state of the runs keeps its type.                             *)
LEMMA JobStep == RunTypeOK /\ [RunNext]_runVars => job' \in [Runs -> Jobs]
  <1> SUFFICES ASSUME RunTypeOK, [RunNext]_runVars PROVE job' \in [Runs -> Jobs]
    OBVIOUS
  <1>t. job \in [Runs -> Jobs]
    BY DEF RunTypeOK
  <1>1. CASE UNCHANGED job
    BY <1>t, <1>1
  <1>2. ASSUME NEW r \in Runs, NEW result \in Results, NEW judged \in BOOLEAN,
               Load(r, result, judged) PROVE job' \in [Runs -> Jobs]
    <2> DEFINE loaded == [job[r] EXCEPT !.phase = "check", !.result = result, !.judged = judged]
    <2>1. loaded \in Jobs
      BY <1>t DEF Jobs, Phases
    <2>2. job' = [job EXCEPT ![r] = loaded]
      BY <1>t, <1>2 DEF Load, Jobs
    <2> QED
      BY <1>t, <2>1, <2>2
  <1>3. ASSUME NEW r \in Runs, NEW p \in Phases, Then(r, p) PROVE job' \in [Runs -> Jobs]
    <2>1. [job[r] EXCEPT !.phase = p] \in Jobs
      BY <1>t DEF Jobs, Phases
    <2>2. job' = [job EXCEPT ![r] = [job[r] EXCEPT !.phase = p]]
      BY <1>3, Zenon DEF Then
    <2> QED
      BY <1>t, <2>1, <2>2
  <1>4. ASSUME NEW r \in Runs, NEW p \in Phases, ThenErrors(r, p) PROVE job' \in [Runs -> Jobs]
    <2>1. [job[r] EXCEPT !.phase = p, !.errors = TRUE] \in Jobs
      BY <1>t DEF Jobs, Phases
    <2>2. job' = [job EXCEPT ![r] = [job[r] EXCEPT !.phase = p, !.errors = TRUE]]
      BY <1>4, Zenon DEF ThenErrors
    <2> QED
      BY <1>t, <2>1, <2>2
  <1>5. ASSUME NEW r \in Runs, NEW p \in Phases, NEW left \in SUBSET Reps,
               job' = [job EXCEPT ![r].phase = p, ![r].left = left]
        PROVE  job' \in [Runs -> Jobs]
    <2>1. [job[r] EXCEPT !.phase = p, !.left = left] \in Jobs
      BY <1>t DEF Jobs, Phases
    <2>2. job' = [job EXCEPT ![r] = [job[r] EXCEPT !.phase = p, !.left = left]]
      BY <1>5, Zenon
    <2> QED
      BY <1>t, <2>1, <2>2
  <1>6. ASSUME NEW r \in Runs, NEW p \in Phases, NEW dec \in SUBSET Refs,
               job' = [job EXCEPT ![r].phase = p, ![r].decided = dec]
        PROVE  job' \in [Runs -> Jobs]
    <2>1. [job[r] EXCEPT !.phase = p, !.decided = dec] \in Jobs
      BY <1>t DEF Jobs, Phases
    <2>2. job' = [job EXCEPT ![r] = [job[r] EXCEPT !.phase = p, !.decided = dec]]
      BY <1>6, Zenon
    <2> QED
      BY <1>t, <2>1, <2>2
  <1>7. ASSUME NEW r \in Runs, DeleteRows(r) PROVE job' \in [Runs -> Jobs]
    <2>1. CASE ThenErrors(r, "decisions")
      BY <2>1, <1>4 DEF Phases
    <2>2. CASE job' = [job EXCEPT ![r].left = Paid(r),
                                  ![r].phase = IF Paid(r) = {} THEN "decisions" ELSE "insert"]
      <3>1. PICK p \in Phases : p = IF Paid(r) = {} THEN "decisions" ELSE "insert"
        BY DEF Phases
      <3>2. job' = [job EXCEPT ![r].phase = p, ![r].left = Paid(r)]
        BY <1>t, <2>2, <3>1 DEF Jobs
      <3>3. Paid(r) \in SUBSET Reps
        BY DEF Paid
      <3> QED
        BY <1>5, <3>2, <3>3
    <2> QED
      BY <1>7, <2>1, <2>2 DEF DeleteRows
  <1>8. ASSUME NEW r \in Runs, NEW rep \in Reps, InsertRows(r, rep) PROVE job' \in [Runs -> Jobs]
    <2>1. job[r].left \ {rep} \in SUBSET Reps
      BY <1>t DEF Jobs
    <2>2. CASE ThenErrors(r, "decisions")
      BY <2>2, <1>4 DEF Phases
    <2>3. CASE job' = [job EXCEPT ![r].left = job[r].left \ {rep},
                                  ![r].phase = IF job[r].left \ {rep} = {}
                                               THEN "decisions" ELSE "insert"]
      <3>1. PICK p \in Phases : p = IF job[r].left \ {rep} = {} THEN "decisions" ELSE "insert"
        BY DEF Phases
      <3>2. job' = [job EXCEPT ![r].phase = p, ![r].left = job[r].left \ {rep}]
        BY <1>t, <2>3, <3>1 DEF Jobs
      <3> QED
        BY <1>5, <2>1, <3>2
    <2> QED
      BY <1>8, <2>2, <2>3 DEF InsertRows
  <1>9. ASSUME NEW r \in Runs, ReadDecisions(r) PROVE job' \in [Runs -> Jobs]
    <2>1. {i.ref : i \in {j \in items : j.deduct}} \in SUBSET Refs
      BY DEF RunTypeOK, Items
    <2> QED
      BY <1>4, <1>6, <1>9, <2>1 DEF ReadDecisions, Phases
  <1>10. ASSUME NEW r \in Runs, Check(r) \/ DeleteItems(r) \/ InsertItems(r)
         PROVE job' \in [Runs -> Jobs]
    <2>1. {} \in SUBSET Refs
      OBVIOUS
    <2>2. CASE Check(r)
      <3>1. CASE job' = [job EXCEPT ![r].phase = "delete", ![r].blind = TRUE]
        <4>1. [job[r] EXCEPT !.phase = "delete", !.blind = TRUE] \in Jobs
          BY <1>t DEF Jobs, Phases
        <4>2. job' = [job EXCEPT ![r] = [job[r] EXCEPT !.phase = "delete", !.blind = TRUE]]
          BY <3>1, Zenon
        <4> QED
          BY <1>t, <4>1, <4>2
      <3> QED
        BY <1>3, <2>2, <3>1 DEF Check, Phases
    <2>3. CASE DeleteItems(r)
      BY <1>3, <1>4, <2>3 DEF DeleteItems, Phases
    <2>4. CASE InsertItems(r)
      BY <1>4, <1>6, <2>1, <2>4 DEF InsertItems, Phases
    <2> QED
      BY <1>10, <2>2, <2>3, <2>4
  <1> QED
    BY <1>1, <1>2, <1>7, <1>8, <1>9, <1>10
    DEF RunNext, GuardStep, Calculate, Finish, Decide, RecomputeRep, RepLoad, RepFind, RepWrite,
        runVars, dataVars

(* The private state of the one-rep recalculations keeps its type.           *)
LEMMA RepJobStep == RunTypeOK /\ [RunNext]_runVars => rep1' \in [RepRuns -> RepJobs]
  <1> SUFFICES ASSUME RunTypeOK, [RunNext]_runVars PROVE rep1' \in [RepRuns -> RepJobs]
    OBVIOUS
  <1>t. rep1 \in [RepRuns -> RepJobs]
    BY DEF RunTypeOK
  <1>1. CASE UNCHANGED rep1
    BY <1>t, <1>1
  <1>2. ASSUME NEW q \in RepRuns, NEW pays \in BOOLEAN, RepLoad(q, pays)
        PROVE rep1' \in [RepRuns -> RepJobs]
    <2>1. PICK next \in {"find", "over"} :
             rep1' = [rep1 EXCEPT ![q].phase = next, ![q].pays = pays]
      BY <1>2 DEF RepLoad
    <2>2. [rep1[q] EXCEPT !.phase = next, !.pays = pays] \in RepJobs
      BY <1>t DEF RepJobs
    <2>3. rep1' = [rep1 EXCEPT ![q] = [rep1[q] EXCEPT !.phase = next, !.pays = pays]]
      BY <2>1, Zenon
    <2> QED
      BY <1>t, <2>2, <2>3
  <1>3. ASSUME NEW q \in RepRuns, RepFind(q) PROVE rep1' \in [RepRuns -> RepJobs]
    <2>1. PICK hit \in Creators \cup {NoRow} :
             rep1' = [rep1 EXCEPT ![q].phase = "write", ![q].found = hit]
      <3>1. {c.id : c \in {d \in comm : d.rep = rep1[q].rep}} \subseteq Creators
        BY DEF RunTypeOK, CommRows
      <3> QED
        BY <1>3, <3>1 DEF RepFind
    <2>2. [rep1[q] EXCEPT !.phase = "write", !.found = hit] \in RepJobs
      BY <1>t DEF RepJobs
    <2>3. rep1' = [rep1 EXCEPT ![q] = [rep1[q] EXCEPT !.phase = "write", !.found = hit]]
      BY <2>1, Zenon
    <2> QED
      BY <1>t, <2>2, <2>3
  <1>4. ASSUME NEW q \in RepRuns, RepWrite(q) PROVE rep1' \in [RepRuns -> RepJobs]
    BY <1>t, <1>4 DEF RepWrite, RepJobs
  <1> QED
    BY <1>1, <1>2, <1>3, <1>4
    DEF RunNext, GuardStep, Calculate, Load, Check, DeleteRows, InsertRows, ReadDecisions,
        DeleteItems, InsertItems, Finish, Decide, RecomputeRep, runVars, dataVars

(* The stored rows and items keep their types.                               *)
LEMMA StoreStep ==
  RunTypeOK /\ [RunNext]_runVars => comm' \in SUBSET CommRows /\ items' \in SUBSET Items
  <1> SUFFICES ASSUME RunTypeOK, [RunNext]_runVars
               PROVE  comm' \in SUBSET CommRows /\ items' \in SUBSET Items
    OBVIOUS
  <1>t. comm \in SUBSET CommRows /\ items \in SUBSET Items
    BY DEF RunTypeOK
  <1>1. CASE UNCHANGED <<comm, items>>
    BY <1>t, <1>1
  <1>2. ASSUME NEW r \in Runs, DeleteRows(r) PROVE comm' \in SUBSET CommRows /\ UNCHANGED items
    BY <1>t, <1>2 DEF DeleteRows
  <1>3. ASSUME NEW r \in Runs, NEW rep \in Reps, InsertRows(r, rep)
        PROVE comm' \in SUBSET CommRows /\ UNCHANGED items
    <2>1. Row(rep, r, job[r].result = "paying") \in CommRows
      BY DEF Row, CommRows, Creators
    <2> QED
      BY <1>t, <1>3, <2>1 DEF InsertRows
  <1>4. ASSUME NEW r \in Runs, DeleteItems(r) PROVE items' \in SUBSET Items /\ UNCHANGED comm
    BY <1>t, <1>4 DEF DeleteItems
  <1>5. ASSUME NEW r \in Runs, InsertItems(r) PROVE items' \in SUBSET Items /\ UNCHANGED comm
    <2>1. \A found \in SUBSET Refs : Detected(r, found) \in SUBSET Items
      BY DEF Detected, Items
    <2> QED
      BY <1>t, <1>5, <2>1 DEF InsertItems
  <1>6. ASSUME NEW i \in items, NEW d \in BOOLEAN, Decide(i, d)
        PROVE items' \in SUBSET Items /\ UNCHANGED comm
    BY <1>t, <1>6 DEF Decide, Items
  <1>7. ASSUME NEW q \in RepRuns, RepWrite(q) PROVE comm' \in SUBSET CommRows /\ UNCHANGED items
    <2>1. rep1[q].rep \in Reps /\ rep1[q].pays \in BOOLEAN
      BY DEF RunTypeOK, RepJobs
    <2>2. Row(rep1[q].rep, q, rep1[q].pays) \in CommRows
      BY <2>1 DEF Row, CommRows, Creators
    <2>3. \A c \in comm : [c EXCEPT !.by = q, !.pays = rep1[q].pays] \in CommRows
      BY <1>t, <2>1 DEF CommRows, Creators
    <2> QED
      BY <1>t, <1>7, <2>2, <2>3 DEF RepWrite
  <1> QED
    BY <1>t, <1>1, <1>2, <1>3, <1>4, <1>5, <1>6, <1>7
    DEF RunNext, GuardStep, Calculate, Load, Check, ReadDecisions, Finish, RecomputeRep,
        RepLoad, RepFind, runVars, dataVars

(* The decisions' history and the save-error flag keep their types.          *)
LEMMA HistoryStep ==
  RunTypeOK /\ [RunNext]_runVars =>
      /\ clean' \in BOOLEAN
      /\ ruled' \in [Refs -> BOOLEAN]
      /\ everRuled' \in SUBSET Refs
      /\ lapsed' \in SUBSET Refs
  <1> DEFINE HistoryTypeOK == /\ ruled \in [Refs -> BOOLEAN]
                              /\ everRuled \in SUBSET Refs
                              /\ lapsed \in SUBSET Refs
  <1> SUFFICES ASSUME RunTypeOK, [RunNext]_runVars
               PROVE  clean' \in BOOLEAN /\ HistoryTypeOK'
    OBVIOUS
  <1>1. ASSUME NEW i \in items, NEW d \in BOOLEAN, Decide(i, d)
        PROVE HistoryTypeOK' /\ UNCHANGED clean
    BY <1>1 DEF RunTypeOK, Decide, Items
  <1>2. ASSUME NEW r \in Runs, Finish(r)
        PROVE clean' \in BOOLEAN /\ UNCHANGED <<ruled, everRuled, lapsed>>
    <2>1. job[r].errors \in BOOLEAN
      BY DEF RunTypeOK, Jobs
    <2> QED
      BY <1>2, <2>1 DEF RunTypeOK, Finish
  <1>3. ASSUME NEW r \in Runs, Calculate(r), ~Finish(r)
        PROVE UNCHANGED <<clean, ruled, everRuled>> /\ lapsed' \subseteq lapsed \cup Refs
    BY <1>3 DEF Calculate, Load, Check, DeleteRows, InsertRows, ReadDecisions, DeleteItems,
       InsertItems
  <1>4. CASE GuardStep \/ (\E q \in RepRuns : RecomputeRep(q)) \/ UNCHANGED runVars
    BY <1>4 DEF RunTypeOK, GuardStep, RecomputeRep, RepLoad, RepFind, RepWrite, runVars, dataVars
  <1> QED
    BY <1>1, <1>2, <1>3, <1>4 DEF RunTypeOK, RunNext, Calculate

LEMMA RunTypeStep == RunTypeOK /\ [RunNext]_runVars => RunTypeOK'
  BY StepIsGuardStep, TypeStep, JobStep, RepJobStep, StoreStep, HistoryStep DEF RunTypeOK

(* A month nobody has calculated is well typed.                              *)
LEMMA RunInitType == RunInit => RunTypeOK
  <1> SUFFICES ASSUME RunInit PROVE RunTypeOK
    OBVIOUS
  <1>1. GuardTypeOK
    BY SlotInit DEF RunInit, SlotInv
  <1>2. job \in [Runs -> Jobs] /\ ruled \in [Refs -> BOOLEAN]
    <2>1. [phase |-> "load", result |-> "zero", judged |-> FALSE, blind |-> FALSE,
           errors |-> FALSE, left |-> {}, decided |-> {}] \in Jobs
      BY DEF Jobs, Phases, Results
    <2> QED
      BY <2>1 DEF RunInit
  <1>3. rep1 \in [RepRuns -> RepJobs]
    BY DEF RunInit, RepJobs
  <1> QED
    BY <1>1, <1>2, <1>3 DEF RunInit, RunTypeOK

(* The calculation's variables keep their types.                             *)
THEOREM RunTypeCorrect == RunSpec => []RunTypeOK
  BY RunInitType, RunTypeStep, PTL DEF RunSpec

(* A run that has not won the slot has computed and written nothing.         *)
LEMMA NotStartedStep ==
  RunTypeOK /\ NotStarted /\ [RunNext]_runVars => NotStarted'
  <1> SUFFICES ASSUME RunTypeOK, NotStarted, [RunNext]_runVars PROVE NotStarted'
    OBVIOUS
  <1>1. CASE UNCHANGED job
    <2>1. \A r \in Runs : pc'[r] \in {"idle"} \cup Acquiring =>
                          pc[r] \in {"idle"} \cup Acquiring
      BY StepIsGuardStep DEF RunTypeOK, GuardTypeOK, GuardNext, GuardEnv, Acquire, Begin, TryClaim,
         ReadRow, InsertRow, AcquireFault, FailOpen, Stamp, Crash, LandingCreatesRow, Tick,
         guardVars, Goto, Win, Acquiring
    <2> QED
      BY <1>1, <2>1 DEF NotStarted
  <1>2. ASSUME NEW r \in Runs, Working(r), pc' = pc, \A s \in Runs \ {r} : job'[s] = job[s]
        PROVE NotStarted'
    BY <1>2 DEF NotStarted, Working, Acquiring
  <1>3. ASSUME NEW r \in Runs,
               \/ \E result \in Results, judged \in BOOLEAN : Load(r, result, judged)
               \/ Check(r) \/ DeleteRows(r) \/ \E rep \in Reps : InsertRows(r, rep)
               \/ ReadDecisions(r) \/ DeleteItems(r) \/ InsertItems(r)
        PROVE Working(r) /\ pc' = pc /\ \A s \in Runs \ {r} : job'[s] = job[s]
    BY <1>3 DEF RunTypeOK, Load, Check, DeleteRows, InsertRows, ReadDecisions, DeleteItems,
       InsertItems, At, Then, ThenErrors, guardVars
  <1> QED
    BY <1>1, <1>2, <1>3
    DEF RunNext, GuardStep, Calculate, Finish, Decide, RecomputeRep, RepLoad, RepFind, RepWrite,
        runVars, dataVars

(* A step that leaves the rows and the runs' private state alone keeps the   *)
(* rows in order: it can start no run in the middle of its inserts.          *)
LEMMA RowsUntouched ==
  ASSUME RowsInv, degraded = {}, [RunNext]_runVars, UNCHANGED <<comm, job>>
  PROVE  SlateClean' /\ OneRowPerRep'
  <1>1. \A r \in Runs : Working(r)' => Working(r) \/ job[r].phase = "load"
    BY StepIsGuardStep DEF RowsInv, NotStarted, RunTypeOK, GuardTypeOK, GuardNext, GuardEnv,
       Acquire, Begin, TryClaim, ReadRow, InsertRow, AcquireFault, FailOpen, Stamp, Crash,
       LandingCreatesRow, Tick, guardVars, Goto, Win, Acquiring, Working
  <1> QED
    BY <1>1 DEF RowsInv, SlateClean, OneRowPerRep, At, Working

(* One step of a working run on the rows keeps them in order, because no     *)
(* other run is at work.                                                     *)
LEMMA RowsStep ==
  ASSUME RepRuns = {}, RowsInv, MutualExclusion, [RunNext]_runVars, degraded' = {}
  PROVE  SlateClean' /\ OneRowPerRep'
  <1>0. degraded = {}
    BY StepIsGuardStep DEF GuardNext, GuardEnv, Acquire, Begin, TryClaim, ReadRow, InsertRow,
       AcquireFault, FailOpen, Stamp, Crash, LandingCreatesRow, Tick, guardVars
  <1>i. SlateClean /\ OneRowPerRep /\ RunTypeOK
    BY <1>0 DEF RowsInv
  <1>j. job \in [Runs -> Jobs]
    BY <1>i DEF RunTypeOK
  <1>1. CASE UNCHANGED <<comm, job>>
    BY <1>0, <1>1, RowsUntouched
  <1>2. ASSUME NEW r \in Runs, Working(r), pc' = pc, UNCHANGED comm,
               job'[r].phase # "insert", \A s \in Runs \ {r} : job'[s] = job[s]
        PROVE SlateClean' /\ OneRowPerRep'
    <2>1. ~At(r, "insert")'
      BY <1>2 DEF At
    <2>2. \A s \in Runs \ {r} : At(s, "insert")' => At(s, "insert") /\ job'[s].left = job[s].left
      BY <1>2 DEF At, Working
    <2> QED
      BY <1>0, <1>i, <1>2, <2>1, <2>2 DEF SlateClean, OneRowPerRep
  <1>3. ASSUME NEW r \in Runs,
               \/ \E result \in Results, judged \in BOOLEAN : Load(r, result, judged)
               \/ Check(r) \/ ReadDecisions(r) \/ DeleteItems(r) \/ InsertItems(r)
        PROVE SlateClean' /\ OneRowPerRep'
    <2>1. Working(r) /\ pc' = pc /\ UNCHANGED comm
      BY <1>3 DEF Load, Check, ReadDecisions, DeleteItems, InsertItems, At, guardVars
    <2>2. \A s \in Runs \ {r} : job'[s] = job[s]
      BY <1>3, <1>j DEF Load, Check, ReadDecisions, DeleteItems, InsertItems, Then, ThenErrors
    <2>3. job'[r].phase # "insert"
      <3>1. CASE \E result \in Results, judged \in BOOLEAN : Load(r, result, judged)
        BY <3>1, <1>j DEF Load, Jobs
      <3>2. CASE Check(r) \/ ReadDecisions(r)
        BY <3>2, <1>j DEF Check, ReadDecisions, Then, ThenErrors, Jobs
      <3>3. CASE DeleteItems(r) \/ InsertItems(r)
        BY <3>3, <1>j DEF DeleteItems, InsertItems, Then, ThenErrors, Jobs
      <3> QED
        BY <1>3, <3>1, <3>2, <3>3
    <2> QED
      BY <1>2, <2>1, <2>2, <2>3
  <1>4. ASSUME NEW r \in Runs, DeleteRows(r) PROVE SlateClean' /\ OneRowPerRep'
    <2>1. \A s \in Runs : At(s, "insert")' => s = r
      BY <1>0, <1>4 DEF MutualExclusion, DeleteRows, At, Working, guardVars
    <2>2. CASE comm' = {}
      BY <2>2 DEF SlateClean, OneRowPerRep
    <2>3. CASE comm' = comm /\ ThenErrors(r, "decisions")
      BY <1>2, <1>4, <2>3, <1>j DEF Jobs, DeleteRows, ThenErrors, At, guardVars
    <2> QED
      BY <1>4, <2>2, <2>3 DEF DeleteRows
  <1>5. ASSUME NEW r \in Runs, NEW rep \in Reps, InsertRows(r, rep)
        PROVE SlateClean' /\ OneRowPerRep'
    <2> DEFINE new == Row(rep, r, job[r].result = "paying")
    <2>1. Working(r) /\ pc' = pc /\ rep \in job[r].left
      BY <1>5 DEF InsertRows, At, guardVars
    <2>2. \A s \in Runs : Working(s)' => s = r
      BY <1>0, <2>1 DEF MutualExclusion, Working
    <2>3. comm' \in {comm, comm \cup {new}}
      BY <1>5 DEF InsertRows
    <2>4. \A c \in comm : c.rep # rep
      BY <1>i, <1>5, <2>1 DEF SlateClean, InsertRows
    <2>5. new.rep = rep
      BY DEF Row
    <2>6. OneRowPerRep'
      BY <1>i, <1>0, <2>3, <2>4, <2>5 DEF OneRowPerRep
    <2>7. CASE ThenErrors(r, "decisions")
      <3>1. job'[r].phase = "decisions"
        BY <1>j, <2>7 DEF ThenErrors, Jobs
      <3> QED
        BY <2>2, <2>6, <3>1 DEF SlateClean, At
    <2>8. CASE /\ comm' = comm \cup {new}
               /\ job' = [job EXCEPT ![r].left = job[r].left \ {rep},
                                     ![r].phase = IF job[r].left \ {rep} = {}
                                                  THEN "decisions" ELSE "insert"]
      <3>1. job'[r].left = job[r].left \ {rep}
        BY <1>j, <2>8 DEF Jobs
      <3>2. \A c \in comm' : c.rep \notin job'[r].left
        BY <1>i, <1>5, <2>5, <2>8, <3>1 DEF SlateClean, InsertRows
      <3> QED
        BY <2>2, <2>6, <3>2 DEF SlateClean, At
    <2> QED
      BY <1>5, <2>7, <2>8 DEF InsertRows
  <1> QED
    BY <1>1, <1>3, <1>4, <1>5
    DEF RunNext, GuardStep, Calculate, Finish, Decide, runVars, dataVars

(* With no fail-open and no one-rep recalculation, and runs no longer than   *)
(* the takeover threshold, the month never holds two rows of one rep.        *)
THEOREM RunNeverPaysTwice ==
  ASSUME MaxRun <= StaleAfter, RepRuns = {} PROVE RunSpec => []OneRowPerRep
  <1>1. RunInit => RowsInv
    <2>1. RunInit => RunTypeOK
      BY RunInitType
    <2> QED
      BY <2>1 DEF RunInit, RowsInv, NotStarted, SlateClean, OneRowPerRep
  <1>2. RowsInv /\ MutualExclusion /\ [RunNext]_runVars => RowsInv'
    <2> SUFFICES ASSUME RowsInv, MutualExclusion, [RunNext]_runVars PROVE RowsInv'
      OBVIOUS
    <2>1. RunTypeOK' /\ NotStarted'
      BY RunTypeStep, NotStartedStep DEF RowsInv
    <2>2. degraded' = {} => SlateClean' /\ OneRowPerRep'
      BY RowsStep
    <2> QED
      BY <2>1, <2>2 DEF RowsInv
  <1>3. RunSpec => []MutualExclusion
    BY RunKeepsToTheGuard, GuardExcludes, PTL
  <1>4. RowsInv => OneRowPerRep
    BY DEF RowsInv, OneRowPerRep
  <1> QED
    BY <1>1, <1>2, <1>3, <1>4, PTL DEF RunSpec
(* A step keeps the decisions a run holds, and those on the stored items,    *)
(* among the ones a manager made.                                            *)
LEMMA DeductionStep == DeductionInv /\ [RunNext]_runVars => DeductionInv'
  <1> SUFFICES ASSUME DeductionInv, [RunNext]_runVars PROVE DeductionInv'
    OBVIOUS
  <1>t. RunTypeOK /\ RunTypeOK' /\ CopiesKnown /\ NoDeductionInvented /\ job \in [Runs -> Jobs]
    BY RunTypeStep DEF DeductionInv, RunTypeOK
  <1> SUFFICES CopiesKnown' /\ NoDeductionInvented'
    BY <1>t DEF DeductionInv
  <1>1. ASSUME UNCHANGED <<items, everRuled>>, \A r \in Runs : job'[r].decided = job[r].decided
        PROVE  CopiesKnown' /\ NoDeductionInvented'
    BY <1>t, <1>1 DEF CopiesKnown, NoDeductionInvented
  <1>2. ASSUME NEW r \in Runs, NEW result \in Results, NEW judged \in BOOLEAN, Load(r, result, judged)
        PROVE  UNCHANGED <<items, everRuled>> /\ \A s \in Runs : job'[s].decided = job[s].decided
    BY <1>t, <1>2 DEF Load, Jobs
  <1>3. ASSUME NEW r \in Runs, Check(r) \/ DeleteRows(r)
        PROVE  UNCHANGED <<items, everRuled>> /\ \A s \in Runs : job'[s].decided = job[s].decided
    BY <1>t, <1>3 DEF Check, DeleteRows, Then, ThenErrors, Jobs
  <1>4. ASSUME NEW r \in Runs, NEW rep \in Reps, InsertRows(r, rep)
        PROVE  UNCHANGED <<items, everRuled>> /\ \A s \in Runs : job'[s].decided = job[s].decided
    BY <1>t, <1>4 DEF InsertRows, ThenErrors, Jobs
  <1>5. ASSUME NEW r \in Runs, ReadDecisions(r) PROVE CopiesKnown' /\ NoDeductionInvented'
    <2>1. UNCHANGED <<items, everRuled>>
      BY <1>5 DEF ReadDecisions
    <2>2. {i.ref : i \in {j \in items : j.deduct}} \subseteq everRuled
      BY <1>t DEF NoDeductionInvented
    <2>3. \A s \in Runs : \/ job'[s].decided = job[s].decided
                          \/ job'[s].decided = {i.ref : i \in {j \in items : j.deduct}}
      BY <1>t, <1>5 DEF ReadDecisions, ThenErrors, Jobs
    <2> QED
      BY <1>t, <2>1, <2>2, <2>3 DEF CopiesKnown, NoDeductionInvented
  <1>6. ASSUME NEW r \in Runs, DeleteItems(r) PROVE CopiesKnown' /\ NoDeductionInvented'
    <2>1. everRuled' = everRuled /\ items' \subseteq items
      BY <1>6 DEF DeleteItems
    <2>2. \A s \in Runs : job'[s].decided = job[s].decided
      BY <1>t, <1>6 DEF DeleteItems, Then, ThenErrors, Jobs
    <2> QED
      BY <1>t, <2>1, <2>2 DEF CopiesKnown, NoDeductionInvented
  <1>7. ASSUME NEW r \in Runs, InsertItems(r) PROVE CopiesKnown' /\ NoDeductionInvented'
    <2>1. PICK found \in SUBSET Refs : items' \subseteq items \cup Detected(r, found)
      BY <1>7 DEF InsertItems
    <2>2. \A s \in Runs : job'[s].decided \subseteq job[s].decided
      BY <1>t, <1>7 DEF InsertItems, ThenErrors, Jobs
    <2>3. ASSUME NEW i \in Detected(r, found), i.deduct PROVE i.ref \in everRuled
      <3>1. i.ref \in job[r].decided
        BY <2>3 DEF Detected
      <3> QED
        BY <1>t, <3>1 DEF CopiesKnown
    <2>4. everRuled' = everRuled
      BY <1>7 DEF InsertItems
    <2> QED
      BY <1>t, <2>1, <2>2, <2>3, <2>4 DEF CopiesKnown, NoDeductionInvented
  <1>8. ASSUME NEW i \in items, NEW deduct \in BOOLEAN, Decide(i, deduct)
        PROVE  CopiesKnown' /\ NoDeductionInvented'
    <2>1. job' = job /\ everRuled \subseteq everRuled' /\ (deduct => i.ref \in everRuled')
      BY <1>8 DEF Decide
    <2>2. \A j \in items' : j \in items \/ j = [i EXCEPT !.deduct = deduct]
      BY <1>8 DEF Decide
    <2>3. [i EXCEPT !.deduct = deduct].ref = i.ref /\ [i EXCEPT !.deduct = deduct].deduct = deduct
      BY <1>t DEF RunTypeOK, Items
    <2> QED
      BY <1>t, <2>1, <2>2, <2>3 DEF CopiesKnown, NoDeductionInvented
  <1>9. CASE UNCHANGED <<items, everRuled, job>>
    BY <1>1, <1>9
  <1> QED
    BY <1>1, <1>2, <1>3, <1>4, <1>5, <1>6, <1>7, <1>8, <1>9
    DEF RunNext, GuardStep, Calculate, Finish, RecomputeRep, RepLoad, RepFind, RepWrite,
        runVars, dataVars

(* No chargeback is deducted that no manager ever decided to deduct: for     *)
(* every number of runs, whatever overlaps, fails open, crashes or fails.    *)
THEOREM RunInventsNoDeduction == RunSpec => []NoDeductionInvented
  <1>1. RunInit => DeductionInv
    <2> SUFFICES ASSUME RunInit PROVE CopiesKnown /\ NoDeductionInvented
      BY RunInitType DEF DeductionInv
    <2>1. \A r \in Runs : job[r].decided = {}
      BY DEF RunInit
    <2> QED
      BY <2>1 DEF RunInit, CopiesKnown, NoDeductionInvented
  <1>2. DeductionInv => NoDeductionInvented
    BY DEF DeductionInv
  <1> QED
    BY <1>1, <1>2, DeductionStep, PTL DEF RunSpec

(* One step keeps the check's answer true until the delete: of the rows of   *)
(* the full calculation only a working run writes any, and no other run is   *)
(* at work.                                                                  *)
LEMMA WipeStep ==
  ASSUME WipeInv, MutualExclusion, [RunNext]_runVars, degraded' = {}
  PROVE  WipeSafe'
  <1>0. degraded = {}
    BY StepIsGuardStep DEF GuardNext, GuardEnv, Acquire, Begin, TryClaim, ReadRow, InsertRow,
       AcquireFault, FailOpen, Stamp, Crash, LandingCreatesRow, Tick, guardVars
  <1>i. WipeSafe /\ job \in [Runs -> Jobs]
    BY <1>0 DEF WipeInv, RunTypeOK
  <1>1. CASE UNCHANGED <<comm, job>>
    <2>1. \A r \in Runs : Working(r)' => Working(r) \/ job[r].phase = "load"
      BY StepIsGuardStep DEF WipeInv, NotStarted, RunTypeOK, GuardTypeOK, GuardNext, GuardEnv,
         Acquire, Begin, TryClaim, ReadRow, InsertRow, AcquireFault, FailOpen, Stamp, Crash,
         LandingCreatesRow, Tick, guardVars, Goto, Win, Acquiring, Working
    <2> QED
      BY <1>i, <1>1, <2>1 DEF WipeSafe, At, Working, Pays, Calculated
  <1>2. ASSUME NEW r \in Runs, pc' = pc, UNCHANGED comm, job'[r].phase # "delete",
               \A s \in Runs \ {r} : job'[s] = job[s]
        PROVE WipeSafe'
    BY <1>i, <1>2 DEF WipeSafe, At, Working, Pays, Calculated
  <1>3. ASSUME NEW r \in Runs, \E result \in Results, judged \in BOOLEAN : Load(r, result, judged)
        PROVE WipeSafe'
    <2>1. pc' = pc /\ UNCHANGED comm /\ job'[r].phase # "delete"
      BY <1>3, <1>i DEF Load, guardVars, Jobs
    <2>2. \A s \in Runs \ {r} : job'[s] = job[s]
      BY <1>3, <1>i DEF Load
    <2> QED
      BY <1>2, <2>1, <2>2
  <1>4. ASSUME NEW r \in Runs, Check(r) PROVE WipeSafe'
    <2>1. pc' = pc /\ UNCHANGED comm /\ \A s \in Runs \ {r} : job'[s] = job[s]
      BY <1>4, <1>i DEF Check, guardVars, Then
    <2>2. CASE Then(r, "refuse")
      <3>1. job'[r].phase # "delete"
        BY <1>i, <2>2 DEF Then, Jobs
      <3> QED
        BY <1>2, <2>1, <3>1
    <2>3. CASE ~(job[r].judged /\ Pays(comm)) /\ Then(r, "delete")
      <3>1. job'[r].judged = job[r].judged
        BY <1>i, <2>3 DEF Then, Jobs
      <3>2. job'[r].judged => ~Pays(Calculated')
        BY <2>1, <2>3, <3>1 DEF Pays, Calculated
      <3> QED
        BY <1>i, <2>1, <3>2 DEF WipeSafe, At, Working, Pays, Calculated
    <2>4. CASE job' = [job EXCEPT ![r].phase = "delete", ![r].blind = TRUE]
      <3>1. job'[r].blind
        BY <1>i, <2>4 DEF Jobs
      <3> QED
        BY <1>i, <2>1, <3>1 DEF WipeSafe, At, Working, Pays, Calculated
    <2> QED
      BY <1>4, <2>2, <2>3, <2>4 DEF Check
  <1>5. ASSUME NEW r \in Runs, ReadDecisions(r) \/ DeleteItems(r) \/ InsertItems(r)
        PROVE WipeSafe'
    <2>1. pc' = pc /\ UNCHANGED comm /\ \A s \in Runs \ {r} : job'[s] = job[s]
      BY <1>5, <1>i DEF ReadDecisions, DeleteItems, InsertItems, guardVars, Then, ThenErrors
    <2>2. job'[r].phase # "delete"
      BY <1>5, <1>i DEF ReadDecisions, DeleteItems, InsertItems, Then, ThenErrors, Jobs
    <2> QED
      BY <1>2, <2>1, <2>2
  <1>6. ASSUME NEW r \in Runs, DeleteRows(r) \/ \E rep \in Reps : InsertRows(r, rep)
        PROVE WipeSafe'
    <2>1. \A s \in Runs : Working(s)' => s = r
      BY <1>0, <1>6 DEF MutualExclusion, DeleteRows, InsertRows, At, Working, guardVars
    <2>2. job'[r].phase # "delete"
      <3>1. CASE DeleteRows(r)
        BY <1>i, <3>1 DEF DeleteRows, ThenErrors, Jobs
      <3>2. ASSUME NEW rep \in Reps, InsertRows(r, rep) PROVE job'[r].phase # "delete"
        BY <1>i, <3>2 DEF InsertRows, ThenErrors, Jobs
      <3> QED
        BY <1>6, <3>1, <3>2
    <2> QED
      BY <2>1, <2>2 DEF WipeSafe, At
  <1>7. ASSUME NEW q \in RepRuns, RepWrite(q) PROVE WipeSafe'
    <2>1. pc' = pc /\ job' = job
      BY <1>7 DEF RepWrite, guardVars
    <2>2. \A c \in comm' : c \in comm \/ c.by = q
      <3> DEFINE hit == {c \in comm : c.rep = rep1[q].rep /\ c.id = rep1[q].found}
                 upd(c) == [c EXCEPT !.by = q, !.pays = rep1[q].pays]
                 new == Row(rep1[q].rep, q, rep1[q].pays)
      <3>1. new.by = q /\ \A d \in {upd(c) : c \in hit} : d.by = q
        BY DEF WipeInv, RunTypeOK, CommRows, Row
      <3>2. comm' \in {comm, comm \cup {new}, (comm \ hit) \cup {upd(c) : c \in hit}}
        BY <1>7 DEF RepWrite
      <3> QED
        BY <3>1, <3>2
    <2>3. Calculated' \subseteq Calculated
      BY <2>2 DEF Calculated
    <2> QED
      BY <1>i, <2>1, <2>3 DEF WipeSafe, At, Working, Pays
  <1> QED
    BY <1>1, <1>3, <1>4, <1>5, <1>6, <1>7
    DEF RunNext, GuardStep, Calculate, Finish, Decide, RecomputeRep, RepLoad, RepFind, runVars,
        dataVars

(* With runs no longer than the threshold, a result the zero-wipe guard      *)
(* judges never deletes a paying row of the full calculation unless the      *)
(* guard's own count failed, whichever other call fails, whoever crashes and *)
(* whatever overlaps the run.                                                *)
THEOREM RunNeverWipesPay ==
  ASSUME MaxRun <= StaleAfter PROVE RunSpec => ZeroNeverWipesPay
  <1>1. RunInit => WipeInv
    <2>1. RunInit => RunTypeOK
      BY RunInitType
    <2> QED
      <3> SUFFICES ASSUME RunInit PROVE WipeInv
        OBVIOUS
      <3>1. NotStarted
        BY DEF RunInit, NotStarted
      <3>2. \A r \in Runs : ~Working(r)
        BY DEF RunInit, GuardInit, Working
      <3> QED
        BY <2>1, <3>1, <3>2 DEF WipeInv, WipeSafe, At
  <1>2. WipeInv /\ MutualExclusion /\ [RunNext]_runVars => WipeInv'
    <2> SUFFICES ASSUME WipeInv, MutualExclusion, [RunNext]_runVars PROVE WipeInv'
      OBVIOUS
    <2>1. RunTypeOK' /\ NotStarted'
      BY RunTypeStep, NotStartedStep DEF WipeInv
    <2>2. degraded' = {} => WipeSafe'
      BY WipeStep
    <2> QED
      BY <2>1, <2>2 DEF WipeInv
  <1>3. RunSpec => []MutualExclusion
    BY RunKeepsToTheGuard, GuardExcludes, PTL
  <1>4. WipeInv /\ [RunNext]_runVars =>
          [degraded = {} =>
            \A r \in Runs : /\ At(r, "delete")
                            /\ job[r].judged /\ ~job[r].blind
                            /\ comm' = {}
                            => ~Pays(Calculated)]_runVars
    BY DEF WipeInv, WipeSafe
  <1> QED
    BY <1>1, <1>2, <1>3, <1>4, PTL DEF RunSpec, ZeroNeverWipesPay

(* While the rows and the runs' private state stay as they are, and nobody   *)
(* stamps, what has been rewritten stays rewritten.                          *)
LEMMA WholeUntouched ==
  ASSUME WholeInv, degraded = {}, GuardStep \/ UNCHANGED <<guardVars, comm, clean, job>>,
         UNCHANGED <<comm, clean, job>>, degraded' = {}
  PROVE  (\A r \in Runs : Working(r)' => Rewritten(r)') /\ DoneMeansWhole'
  <1>2. \A r \in Runs : Working(r)' => Working(r) \/ job[r].phase = "load"
    BY DEF WholeInv, NotStarted, RunTypeOK, GuardTypeOK, GuardStep, GuardEnv, Acquire, Begin,
       TryClaim, ReadRow, InsertRow, AcquireFault, FailOpen, Crash, LandingCreatesRow, Tick,
       guardVars, Goto, Win, Acquiring, Working
  <1>3. row' = row \/ row'.status # "done"
    BY DEF WholeInv, RunTypeOK, GuardTypeOK, GuardStep, GuardEnv, Acquire, Begin, TryClaim,
       ReadRow, InsertRow, AcquireFault, FailOpen, Crash, LandingCreatesRow, Tick, guardVars,
       Win, Claimed
  <1>4. ASSUME NEW r \in Runs, Working(r)' PROVE Rewritten(r)'
    <2>1. CASE Working(r)
      BY <2>1 DEF WholeInv, Rewritten, WholeBy, WrittenBy, Paid
    <2>2. CASE job[r].phase = "load"
      BY <2>2 DEF Rewritten
    <2> QED
      BY <1>2, <1>4, <2>1, <2>2
  <1>5. DoneMeansWhole'
    BY <1>3 DEF WholeInv, DoneMeansWhole, WholeBy, WrittenBy, Paid
  <1> QED
    BY <1>4, <1>5

(* A working run stamps nothing while it rewrites: the row says running.     *)
LEMMA WholeWhileRunning ==
  ASSUME SlotInv, RunTypeOK, degraded = {}, NEW r \in Runs, Working(r), UNCHANGED guardVars,
         Rewritten(r)'
  PROVE  (\A s \in Runs : Working(s)' => Rewritten(s)') /\ DoneMeansWhole'
  <1>1. row' = Claimed(r) /\ row'.status = "running"
    BY DEF SlotInv, WorkerOwnsRow, Claimed, guardVars
  <1>2. MutualExclusion
    BY DEF SlotInv, WorkerOwnsRow, MutualExclusion, Claimed
  <1>3. \A s \in Runs : Working(s)' => s = r
    BY <1>2 DEF MutualExclusion, Working, guardVars
  <1> QED
    BY <1>1, <1>3 DEF DoneMeansWhole

(* The rewriting steps of a run.                                             *)
LEMMA RewriteStep ==
  ASSUME WholeInv, degraded = {}, NEW r \in Runs, Working(r),
         \/ \E result \in Results, judged \in BOOLEAN : Load(r, result, judged)
         \/ Check(r) \/ DeleteRows(r) \/ \E rep \in Reps : InsertRows(r, rep)
         \/ ReadDecisions(r) \/ DeleteItems(r) \/ InsertItems(r)
  PROVE  Rewritten(r)'
  <1>i. job \in [Runs -> Jobs] /\ Rewritten(r)
    BY DEF WholeInv, RunTypeOK
  <1> DEFINE late == {"decisions", "wipe", "items", "stamp"}
  <1>1. ASSUME job'[r].phase \notin {"insert"} \cup late PROVE Rewritten(r)'
    BY <1>1 DEF Rewritten
  <1>2. ASSUME job'[r].phase \in late, job'[r].errors PROVE Rewritten(r)'
    BY <1>2 DEF Rewritten
  <1>3. ASSUME UNCHANGED comm, job[r].phase \in late, job'[r].phase \in late,
               job'[r].errors = job[r].errors, job'[r].result = job[r].result
        PROVE Rewritten(r)'
    BY <1>i, <1>3 DEF Rewritten, WholeBy, WrittenBy, Paid
  <1>4. CASE \E result \in Results, judged \in BOOLEAN : Load(r, result, judged)
    <2>1. PICK result \in Results, judged \in BOOLEAN : Load(r, result, judged)
      BY <1>4
    <2>2. job'[r].phase = "check"
      BY <2>1, <1>i DEF Load, Jobs
    <2> QED
      BY <1>1, <2>2
  <1>5. CASE Check(r)
    <2>1. job'[r].phase \in {"refuse", "delete"}
      BY <1>5, <1>i DEF Check, Then, Jobs
    <2> QED
      BY <1>1, <2>1
  <1>6. CASE DeleteRows(r)
    <2>1. CASE ThenErrors(r, "decisions")
      <3>1. job'[r].phase = "decisions" /\ job'[r].errors
        BY <2>1, <1>i DEF ThenErrors, Jobs
      <3> QED
        BY <1>2, <3>1
    <2>2. CASE /\ comm' = {}
               /\ job' = [job EXCEPT ![r].left = Paid(r),
                                     ![r].phase = IF Paid(r) = {} THEN "decisions" ELSE "insert"]
      <3>1. /\ job'[r].left = Paid(r) /\ Paid(r)' = Paid(r)
            /\ job'[r].phase = IF Paid(r) = {} THEN "decisions" ELSE "insert"
        BY <2>2, <1>i DEF Jobs, Paid
      <3>2. \A c \in comm' : WrittenBy(r, c)'
        BY <2>2
      <3>3. CASE Paid(r) = {}
        <4>1. job'[r].phase = "decisions" /\ WholeBy(r)'
          BY <3>1, <3>2, <3>3 DEF WholeBy
        <4> QED
          BY <4>1 DEF Rewritten
      <3>4. CASE Paid(r) # {}
        <4>1. job'[r].phase = "insert"
          BY <3>1, <3>4
        <4> QED
          BY <3>1, <3>2, <4>1 DEF Rewritten
      <3> QED
        BY <3>3, <3>4
    <2> QED
      BY <1>6, <2>1, <2>2 DEF DeleteRows
  <1>7. ASSUME NEW rep \in Reps, InsertRows(r, rep) PROVE Rewritten(r)'
    <2> DEFINE new == Row(rep, r, job[r].result = "paying")
               left == job[r].left \ {rep}
    <2>1. CASE ThenErrors(r, "decisions")
      <3>1. job'[r].phase = "decisions" /\ job'[r].errors
        BY <2>1, <1>i DEF ThenErrors, Jobs
      <3> QED
        BY <1>2, <3>1
    <2>2. CASE /\ comm' = comm \cup {new}
               /\ job' = [job EXCEPT ![r].left = left,
                                     ![r].phase = IF left = {} THEN "decisions" ELSE "insert"]
      <3>1. /\ job'[r].left = left
            /\ job'[r].phase = (IF left = {} THEN "decisions" ELSE "insert")
            /\ job'[r].result = job[r].result /\ Paid(r)' = Paid(r)
        BY <2>2, <1>i DEF Jobs, Paid
      <3>2. /\ job[r].phase = "insert"
            /\ \A p \in Paid(r) \ job[r].left : \E c \in comm : c.rep = p
            /\ \A c \in comm : WrittenBy(r, c)
        BY <1>7, <1>i DEF InsertRows, At, Rewritten
      <3>3. new.rep = rep
        BY DEF Row
      <3>4. \A p \in Paid(r) \ left : \E c \in comm' : c.rep = p
        BY <2>2, <3>2, <3>3
      <3>5. \A c \in comm' : WrittenBy(r, c)'
        <4>1. \A c \in comm : WrittenBy(r, c)'
          BY <3>1, <3>2 DEF WrittenBy
        <4>2. ASSUME NEW c, c = new PROVE WrittenBy(r, c)'
          BY <3>1, <4>2 DEF WrittenBy, Row
        <4> QED
          BY <2>2, <4>1, <4>2
      <3>6. left = {} => WholeBy(r)'
        BY <3>1, <3>4, <3>5 DEF WholeBy
      <3> QED
        BY <3>1, <3>4, <3>5, <3>6 DEF Rewritten
    <2> QED
      BY <1>7, <2>1, <2>2 DEF InsertRows
  <1>8. ASSUME ReadDecisions(r) \/ DeleteItems(r) \/ InsertItems(r) PROVE Rewritten(r)'
    <2>1. UNCHANGED comm /\ job[r].phase \in late
      BY <1>8 DEF ReadDecisions, DeleteItems, InsertItems, At
    <2>2. job'[r].phase \in late /\ job'[r].result = job[r].result
      BY <1>8, <1>i DEF ReadDecisions, DeleteItems, InsertItems, Then, ThenErrors, Jobs
    <2>3. job'[r].errors \/ job'[r].errors = job[r].errors
      BY <1>8, <1>i DEF ReadDecisions, DeleteItems, InsertItems, Then, ThenErrors, Jobs
    <2> QED
      BY <1>2, <1>3, <2>1, <2>2, <2>3
  <1> QED
    BY <1>4, <1>5, <1>6, <1>7, <1>8

(* A one-rep recalculation takes no rep's row away, and what it writes it    *)
(* signs.                                                                    *)
LEMMA RepWriteKeepsWhole ==
  ASSUME WholeInv, degraded = {}, NEW q \in RepRuns, RepWrite(q)
  PROVE  (\A r \in Runs : Working(r)' => Rewritten(r)') /\ DoneMeansWhole'
  <1> DEFINE hit == {c \in comm : c.rep = rep1[q].rep /\ c.id = rep1[q].found}
             upd(c) == [c EXCEPT !.by = q, !.pays = rep1[q].pays]
             new == Row(rep1[q].rep, q, rep1[q].pays)
  <1>0. comm \in SUBSET CommRows
    BY DEF WholeInv, RunTypeOK
  <1>1. UNCHANGED <<guardVars, clean, job>>
    BY DEF RepWrite
  <1>2. comm' \in {comm, comm \cup {new}, (comm \ hit) \cup {upd(c) : c \in hit}}
    BY DEF RepWrite
  <1>3. new.by = q /\ \A c \in comm : upd(c).by = q /\ upd(c).rep = c.rep
    BY <1>0 DEF Row, CommRows
  <1>4. \A c \in comm : \E d \in comm' : d.rep = c.rep
    BY <1>2, <1>3
  <1>5. \A d \in comm' : d \in comm \/ d.by = q
    <2>1. \A d \in {upd(c) : c \in hit} : d.by = q
      BY <1>3
    <2> QED
      BY <1>2, <1>3, <2>1
  <1>6. \A r : WholeBy(r) => WholeBy(r)'
    BY <1>1, <1>4, <1>5 DEF WholeBy, WrittenBy, Paid
  <1>7. \A r \in Runs : Rewritten(r) => Rewritten(r)'
    <2> SUFFICES ASSUME NEW r \in Runs, Rewritten(r) PROVE Rewritten(r)'
      OBVIOUS
    <2>1. job'[r].phase = "insert" =>
             /\ \A rep \in Paid(r)' \ job'[r].left : \E c \in comm' : c.rep = rep
             /\ \A c \in comm' : WrittenBy(r, c)'
      BY <1>1, <1>4, <1>5 DEF Rewritten, WrittenBy, Paid
    <2> QED
      BY <1>1, <1>6, <2>1 DEF Rewritten
  <1>8. DoneMeansWhole'
    BY <1>1, <1>6 DEF WholeInv, DoneMeansWhole, guardVars
  <1> QED
    BY <1>1, <1>7, <1>8 DEF WholeInv, Working, guardVars

(* The stamp: 'done' with no error is said only of a month that is whole.    *)
LEMMA FinishIsWhole ==
  ASSUME WholeInv, SlotInv, degraded = {}, NEW r \in Runs, Finish(r)
  PROVE  (\A s \in Runs : Working(s)' => Rewritten(s)') /\ DoneMeansWhole'
  <1>1. Working(r) /\ row = Claimed(r) /\ UNCHANGED <<comm, job>>
    BY DEF Finish, Stamp, Working, SlotInv, WorkerOwnsRow
  <1>2. \A s \in Runs : ~Working(s)'
    BY <1>1 DEF Finish, Stamp, Goto, Working, SlotInv, GuardTypeOK, WorkerOwnsRow, Claimed
  <1>3. row'.status = "done" => row'.runId = r
    BY <1>1 DEF Finish, Stamp, Claimed
  <1>4. row'.status = "done" /\ clean' => job[r].phase = "stamp" /\ ~job[r].errors
    <2>1. row.status = "running"
      BY <1>1 DEF Claimed
    <2>2. row'.status = "done" => job[r].phase = "stamp" /\ clean' = ~job[r].errors
      BY <2>1, Zenon DEF Finish
    <2> QED
      BY <2>2
  <1>5. job[r].phase = "stamp" /\ ~job[r].errors => WholeBy(r)
    BY <1>1 DEF WholeInv, Rewritten
  <1>6. WholeBy(r) => WholeBy(r)'
    BY <1>1 DEF WholeBy, WrittenBy, Paid
  <1>7. DoneMeansWhole'
    BY <1>3, <1>4, <1>5, <1>6 DEF DoneMeansWhole
  <1> QED
    BY <1>2, <1>7

(* A month called done without errors is whole, whatever call fails and      *)
(* whoever recalculates one rep, when runs are no longer than the threshold. *)
THEOREM RunDoneIsWhole ==
  ASSUME MaxRun <= StaleAfter PROVE RunSpec => []DoneMeansWhole
  <1>1. RunInit => WholeInv
    <2>1. RunInit => RunTypeOK
      BY RunInitType
    <2> QED
      <3> SUFFICES ASSUME RunInit PROVE WholeInv
        OBVIOUS
      <3>1. NotStarted
        BY DEF RunInit, NotStarted
      <3>2. row.status # "done" /\ \A r \in Runs : ~Working(r)
        BY DEF RunInit, GuardInit, Working
      <3> QED
        BY <2>1, <3>1, <3>2 DEF WholeInv, DoneMeansWhole
  <1>2. WholeInv /\ SlotInv /\ [RunNext]_runVars => WholeInv'
    <2> SUFFICES ASSUME WholeInv, SlotInv, [RunNext]_runVars, degraded' = {}
                 PROVE  (\A r \in Runs : Working(r)' => Rewritten(r)') /\ DoneMeansWhole'
      BY RunTypeStep, NotStartedStep DEF WholeInv
    <2>0. degraded = {}
      BY StepIsGuardStep DEF GuardNext, GuardEnv, Acquire, Begin, TryClaim, ReadRow, InsertRow,
         AcquireFault, FailOpen, Stamp, Crash, LandingCreatesRow, Tick, guardVars
    <2>1. CASE GuardStep
      BY <2>0, <2>1, WholeUntouched DEF GuardStep, dataVars
    <2>2. ASSUME NEW r \in Runs, Calculate(r)
          PROVE  (\A s \in Runs : Working(s)' => Rewritten(s)') /\ DoneMeansWhole'
      <3>1. CASE Finish(r)
        BY <2>0, <3>1, FinishIsWhole
      <3>2. CASE ~Finish(r)
        <4>1. Working(r) /\ UNCHANGED guardVars
          BY <2>2, <3>2 DEF Calculate, Load, Check, DeleteRows, InsertRows, ReadDecisions,
             DeleteItems, InsertItems, At
        <4>2. Rewritten(r)'
          BY <2>0, <2>2, <3>2, <4>1, RewriteStep DEF Calculate
        <4> QED
          BY <2>0, <4>1, <4>2, WholeWhileRunning DEF WholeInv
      <3> QED
        BY <3>1, <3>2
    <2>3. CASE \/ \E i \in items, d \in BOOLEAN : Decide(i, d)
               \/ \E q \in RepRuns, pays \in BOOLEAN : RepLoad(q, pays)
               \/ \E q \in RepRuns : RepFind(q)
               \/ UNCHANGED runVars
      <3>1. UNCHANGED <<guardVars, comm, clean, job>>
        BY <2>3 DEF Decide, RepLoad, RepFind, runVars, dataVars
      <3> QED
        BY <2>0, <3>1, WholeUntouched
    <2>4. ASSUME NEW q \in RepRuns, RepWrite(q)
          PROVE  (\A r \in Runs : Working(r)' => Rewritten(r)') /\ DoneMeansWhole'
      BY <2>0, <2>4, RepWriteKeepsWhole
    <2> QED
      BY <2>1, <2>2, <2>3, <2>4 DEF RunNext, RecomputeRep
  <1>3. RunSpec => []SlotInv
    BY RunKeepsToTheGuard, SlotInvariant, PTL
  <1>4. WholeInv => DoneMeansWhole
    BY DEF WholeInv, DoneMeansWhole
  <1> QED
    BY <1>1, <1>2, <1>3, <1>4, PTL DEF RunSpec

(* A step that moves no item, no decision and no run's copy keeps what is    *)
(* decided: no run enters or leaves the rewriting of the items but by dying. *)
LEMMA KeptUntouched ==
  ASSUME KeptInv, degraded = {}, ~DiedWiped, ~DiedWiped', [RunNext]_runVars,
         UNCHANGED <<items, ruled, lapsed, job>>
  PROVE  ItemsAgree' /\ DecisionHeld'
  <1>1. \A r \in Runs : Working(r)' => Working(r) \/ job[r].phase = "load"
    BY StepIsGuardStep DEF KeptInv, NotStarted, RunTypeOK, GuardTypeOK, GuardNext, GuardEnv,
       Acquire, Begin, TryClaim, ReadRow, InsertRow, AcquireFault, FailOpen, Stamp, Crash,
       LandingCreatesRow, Tick, guardVars, Goto, Win, Acquiring, Working
  <1>2. \A r \in Runs : At(r, "wipe")' \/ At(r, "items")' => At(r, "wipe") \/ At(r, "items")
    BY <1>1 DEF At, Working
  <1>3. Wiped' => Wiped
    BY <1>1 DEF Wiped, At, Working
  <1>4. ASSUME NEW r \in Runs, Working(r), ~Working(r)', job[r].phase = "items"
        PROVE  FALSE
    <2>1. Stamp(r) \/ Crash(r)
      BY <1>4, StepIsGuardStep DEF KeptInv, RunTypeOK, GuardTypeOK, GuardNext, GuardEnv,
         Acquire, Begin, TryClaim, ReadRow, InsertRow, AcquireFault, FailOpen, Stamp, Crash,
         LandingCreatesRow, Tick, guardVars, Goto, Win, Working
    <2>2. CASE Crash(r)
      BY <1>4, <2>2 DEF Crash, Goto, DiedWiped, KeptInv, RunTypeOK, GuardTypeOK
    <2>3. CASE pc'[r] = "ended"
      <3>1. \A s \in Runs : Finish(s) => pc' = [pc EXCEPT ![s] = "ended"]
        BY DEF Finish, Stamp, Goto
      <3>2. Finish(r)
        <4>1. pc \in [Runs -> {"idle", "working"} \cup Acquiring \cup Ended] /\ pc[r] = "working" /\ pc' # pc
          BY <1>4, <2>3 DEF KeptInv, RunTypeOK, GuardTypeOK, Working
        <4>2. ~GuardStep
          BY <1>4, <2>3, <4>1
          DEF GuardStep, GuardEnv, Acquire, Begin, TryClaim, ReadRow, InsertRow, AcquireFault,
              FailOpen, Crash, LandingCreatesRow, Tick, Goto, Win
        <4>3. PICK s \in Runs : Calculate(s)
          BY <4>1, <4>2
          DEF RunNext, Decide, RecomputeRep, RepLoad, RepFind, RepWrite, runVars, guardVars
        <4>4. Finish(s)
          BY <4>1, <4>3
          DEF Calculate, Load, Check, DeleteRows, InsertRows, ReadDecisions, DeleteItems,
              InsertItems, guardVars
        <4> QED
          BY <2>3, <3>1, <4>1, <4>4
      <3> QED
        BY <1>4, <3>2 DEF Finish
    <2> QED
      BY <2>1, <2>2, <2>3 DEF Stamp, Goto, KeptInv, RunTypeOK, GuardTypeOK
  <1>5. Wiped => Wiped'
    BY <1>4 DEF Wiped, At
  <1> QED
    BY <1>2, <1>3, <1>5 DEF KeptInv, ItemsAgree, DecisionHeld, CopyAgrees, Stands

(* The steps of a working run short of its decisions leave them alone.       *)
LEMMA KeptBefore ==
  ASSUME KeptInv, MutualExclusion, degraded = {}, ~DiedWiped, ~CalcFaults, NEW r \in Runs,
         \/ \E result \in Results, judged \in BOOLEAN : Load(r, result, judged)
         \/ Check(r) \/ DeleteRows(r) \/ \E rep \in Reps : InsertRows(r, rep)
  PROVE  ItemsAgree' /\ DecisionHeld'
  <1>i. job \in [Runs -> Jobs]
    BY DEF KeptInv, RunTypeOK
  <1>1. UNCHANGED <<guardVars, items, ruled, lapsed>> /\ Working(r)
    BY DEF Load, Check, DeleteRows, InsertRows, At
  <1>2. \A s \in Runs : Working(s) => s = r
    BY <1>1 DEF MutualExclusion, Working
  <1>3. job[r].phase # "items" /\ job'[r].phase \notin {"wipe", "items"}
    <2>1. CASE Check(r) \/ DeleteRows(r)
      BY <1>i, <2>1 DEF Check, DeleteRows, At, Then, ThenErrors, Jobs
    <2>2. ASSUME NEW result \in Results, NEW judged \in BOOLEAN, Load(r, result, judged)
          PROVE  job[r].phase = "load" /\ job'[r].phase = "check"
      BY <1>i, <2>2 DEF Load, At, Jobs
    <2>3. ASSUME NEW rep \in Reps, InsertRows(r, rep)
          PROVE  job[r].phase = "insert" /\ job'[r].phase \in {"insert", "decisions"}
      BY <1>i, <2>3 DEF InsertRows, At, ThenErrors, Jobs
    <2> QED
      BY <2>1, <2>2, <2>3
  <1>4. ~Wiped /\ \A s \in Runs : ~At(s, "wipe")' /\ ~At(s, "items")'
    BY <1>1, <1>2, <1>3 DEF Wiped, At, Working, guardVars
  <1> QED
    BY <1>1, <1>4 DEF KeptInv, ItemsAgree, DecisionHeld, Stands, Wiped

(* The read takes what stands, ...                                           *)
LEMMA KeptRead ==
  ASSUME KeptInv, MutualExclusion, degraded = {}, ~DiedWiped, ~CalcFaults, NEW r \in Runs,
         ReadDecisions(r)
  PROVE  ItemsAgree' /\ DecisionHeld'
  <1>i. job \in [Runs -> Jobs] /\ items \in SUBSET Items
    BY DEF KeptInv, RunTypeOK
  <1>1. UNCHANGED <<guardVars, items, ruled, lapsed>> /\ Working(r) /\ job[r].phase = "decisions"
    BY DEF ReadDecisions, At
  <1>2. \A s \in Runs : Working(s) => s = r
    BY <1>1 DEF MutualExclusion, Working
  <1>3. job'[r].phase = "wipe" /\ job'[r].decided = {i.ref : i \in {j \in items : j.deduct}}
    BY <1>i DEF ReadDecisions, Jobs
  <1>4. ~Wiped /\ ~Wiped'
    BY <1>1, <1>2, <1>3 DEF Wiped, At, Working, guardVars
  <1>5. \A c \in Refs \ lapsed : c \in job'[r].decided <=> ruled[c]
    <2>1. ASSUME NEW c \in Refs \ lapsed, c \in job'[r].decided PROVE ruled[c]
      <3>1. PICK i \in items : i.deduct /\ i.ref = c
        BY <1>3, <2>1
      <3> QED
        BY <2>1, <3>1 DEF KeptInv, ItemsAgree
    <2>2. ASSUME NEW c \in Refs \ lapsed, ruled[c] PROVE c \in job'[r].decided
      <3>1. PICK i \in items : i.ref = c /\ i.deduct
        BY <1>4, <2>2 DEF KeptInv, DecisionHeld, Stands
      <3> QED
        BY <1>3, <3>1
    <2> QED
      BY <2>1, <2>2
  <1>6. \A s \in Runs : At(s, "wipe")' \/ At(s, "items")' => CopyAgrees(s)'
    BY <1>1, <1>2, <1>5 DEF At, Working, guardVars, CopyAgrees
  <1> QED
    BY <1>1, <1>4, <1>6 DEF KeptInv, ItemsAgree, DecisionHeld, Stands

(* ... the wipe leaves it with the run, ...                                  *)
LEMMA KeptWipe ==
  ASSUME KeptInv, MutualExclusion, degraded = {}, ~DiedWiped, ~CalcFaults, NEW r \in Runs,
         DeleteItems(r)
  PROVE  ItemsAgree' /\ DecisionHeld'
  <1>i. job \in [Runs -> Jobs]
    BY DEF KeptInv, RunTypeOK
  <1>1. /\ UNCHANGED <<guardVars, ruled, lapsed>> /\ items' = {}
        /\ At(r, "wipe") /\ Working(r)
    BY DEF DeleteItems, At
  <1>2. \A s \in Runs : Working(s) => s = r
    BY <1>1 DEF MutualExclusion, Working
  <1>3. job'[r].phase = "items" /\ job'[r].decided = job[r].decided
    BY <1>i DEF DeleteItems, Then, Jobs
  <1>4. CopyAgrees(r)'
    BY <1>1, <1>3 DEF KeptInv, DecisionHeld, CopyAgrees
  <1>5. Wiped' /\ \A s \in Runs : At(s, "wipe")' \/ At(s, "items")' => CopyAgrees(s)'
    BY <1>1, <1>2, <1>3, <1>4 DEF Wiped, At, Working, guardVars
  <1> QED
    BY <1>1, <1>5 DEF ItemsAgree, DecisionHeld

(* ... and the insert puts it back.                                          *)
LEMMA KeptInsert ==
  ASSUME KeptInv, MutualExclusion, degraded = {}, ~DiedWiped, ~CalcFaults, NEW r \in Runs,
         InsertItems(r)
  PROVE  ItemsAgree' /\ DecisionHeld'
  <1>i. job \in [Runs -> Jobs]
    BY DEF KeptInv, RunTypeOK
  <1>1. UNCHANGED <<guardVars, ruled>> /\ Working(r) /\ At(r, "items") /\ items = {}
    BY DEF InsertItems, At, KeptInv, ItemsAgree, Wiped
  <1>2. \A s \in Runs : Working(s) => s = r
    BY <1>1 DEF MutualExclusion, Working
  <1>3. PICK found \in SUBSET Refs :
           /\ lapsed' = lapsed \cup (Refs \ found)
           /\ items' = Detected(r, found)
           /\ job' = [job EXCEPT ![r].phase = "stamp", ![r].decided = {}]
    BY <1>1 DEF InsertItems
  <1>4. job'[r].phase = "stamp"
    BY <1>i, <1>3 DEF Jobs
  <1>5. ~Wiped' /\ \A s \in Runs : ~At(s, "wipe")' /\ ~At(s, "items")'
    BY <1>1, <1>2, <1>4 DEF Wiped, At, Working, guardVars
  <1>6. \A c \in Refs \ lapsed : c \in job[r].decided <=> ruled[c]
    BY <1>1 DEF KeptInv, DecisionHeld, CopyAgrees
  <1>7. ASSUME NEW i \in items' PROVE i.ref \in lapsed' \/ i.deduct = ruled'[i.ref]
    <2>1. i.ref \in Refs /\ i.deduct \in BOOLEAN /\ (i.deduct <=> i.ref \in job[r].decided)
      BY <1>3 DEF Detected
    <2>2. ruled[i.ref] \in BOOLEAN
      BY <2>1 DEF KeptInv, RunTypeOK
    <2> QED
      BY <1>1, <1>3, <1>6, <2>1, <2>2
  <1>8. ASSUME NEW i \in items', NEW j \in items', i.ref = j.ref PROVE i = j
    BY <1>3, <1>8 DEF Detected
  <1>9. ASSUME NEW c \in Refs, Stands(c)' PROVE \E i \in items' : i.ref = c /\ i.deduct
    <2>1. c \in found /\ c \in job[r].decided
      BY <1>1, <1>3, <1>6, <1>9 DEF Stands
    <2> DEFINE kept == [ref |-> c, id |-> r, deduct |-> TRUE]
    <2>2. kept \in items' /\ kept.ref = c /\ kept.deduct
      BY <1>3, <2>1 DEF Detected
    <2> QED
      BY <2>2
  <1> QED
    BY <1>5, <1>7, <1>8, <1>9 DEF ItemsAgree, DecisionHeld

(* A manager's decision is on the item it was made on.                       *)
LEMMA KeptDecide ==
  ASSUME KeptInv, degraded = {}, ~DiedWiped, NEW i \in items, NEW deduct \in BOOLEAN,
         Decide(i, deduct)
  PROVE  ItemsAgree' /\ DecisionHeld'
  <1> DEFINE new == [i EXCEPT !.deduct = deduct]
  <1>i. items \in SUBSET Items /\ ruled \in [Refs -> BOOLEAN] /\ ItemsAgree /\ DecisionHeld
    BY DEF KeptInv, RunTypeOK
  <1>1. /\ UNCHANGED <<guardVars, job>>
        /\ items' = (items \ {i}) \cup {new}
        /\ ruled' = [ruled EXCEPT ![i.ref] = deduct]
        /\ lapsed' = IF \E r \in Runs : At(r, "wipe") \/ At(r, "items")
                     THEN lapsed \cup {i.ref} ELSE lapsed \ {i.ref}
    BY DEF Decide
  <1>2. new.ref = i.ref /\ new.deduct = deduct /\ i.ref \in Refs
    BY <1>i DEF Items
  <1>3. \A r \in Runs : \A phase : At(r, phase)' <=> At(r, phase)
    BY <1>1 DEF At, Working, guardVars
  <1>4. ~Wiped /\ ~Wiped'
    BY <1>i, <1>3 DEF ItemsAgree, Wiped
  <1>5. \A j \in items \ {i} : j.ref # i.ref
    BY <1>i DEF ItemsAgree
  <1>6. ASSUME NEW j \in items' PROVE j.ref \in lapsed' \/ j.deduct = ruled'[j.ref]
    <2>1. CASE j = new
      BY <1>i, <1>1, <1>2, <2>1
    <2>2. CASE j \in items \ {i}
      <3>1. j.ref # i.ref /\ j.ref \in Refs /\ (j.ref \in lapsed \/ j.deduct = ruled[j.ref])
        BY <1>i, <1>5, <2>2 DEF ItemsAgree, Items
      <3> QED
        BY <1>i, <1>1, <3>1
    <2> QED
      BY <1>1, <2>1, <2>2
  <1>7. ASSUME NEW j \in items', NEW k \in items', j.ref = k.ref PROVE j = k
    BY <1>i, <1>1, <1>2, <1>5, <1>7 DEF ItemsAgree
  <1>8. ASSUME NEW r \in Runs, At(r, "wipe") \/ At(r, "items") PROVE CopyAgrees(r)'
    <2>1. lapsed' = lapsed \cup {i.ref} /\ CopyAgrees(r)
      BY <1>i, <1>1, <1>8 DEF DecisionHeld
    <2> QED
      BY <1>i, <1>1, <2>1 DEF CopyAgrees
  <1>9. ASSUME NEW c \in Refs, Stands(c)' PROVE \E j \in items' : j.ref = c /\ j.deduct
    <2>1. CASE c = i.ref
      BY <1>i, <1>1, <1>2, <1>9, <2>1 DEF Stands
    <2>2. CASE c # i.ref
      <3>1. Stands(c)
        BY <1>i, <1>1, <1>9, <2>2 DEF Stands
      <3>2. PICK j \in items : j.ref = c /\ j.deduct
        BY <1>i, <1>4, <3>1 DEF DecisionHeld
      <3> QED
        BY <1>1, <2>2, <3>2
    <2> QED
      BY <2>1, <2>2
  <1> QED
    BY <1>3, <1>4, <1>6, <1>7, <1>8, <1>9 DEF ItemsAgree, DecisionHeld

(* With database calls of the calculation that do not fail and runs no       *)
(* longer than the threshold, managers' decisions outlive every sequence of  *)
(* runs, whoever crashes elsewhere and whichever calls overlap.              *)
THEOREM RunKeepsDecisions ==
  ASSUME MaxRun <= StaleAfter, ~CalcFaults PROVE RunSpec => []DecisionsKept
  <1>1. RunInit => KeptInv
    <2> SUFFICES ASSUME RunInit PROVE KeptInv
      OBVIOUS
    <2>1. RunTypeOK
      BY RunInitType
    <2>2. NotStarted /\ items = {} /\ \A c \in Refs : ~ruled[c]
      BY DEF RunInit, NotStarted
    <2>3. \A r \in Runs : ~Working(r)
      BY DEF RunInit, GuardInit, Working
    <2> QED
      BY <2>1, <2>2, <2>3 DEF KeptInv, ItemsAgree, DecisionHeld, Stands, At
  <1>2. KeptInv /\ MutualExclusion /\ [RunNext]_runVars => KeptInv'
    <2> SUFFICES ASSUME KeptInv, MutualExclusion, [RunNext]_runVars,
                        degraded' = {}, ~DiedWiped'
                 PROVE  ItemsAgree' /\ DecisionHeld'
      BY RunTypeStep, NotStartedStep DEF KeptInv
    <2>0. degraded = {}
      BY StepIsGuardStep DEF GuardNext, GuardEnv, Acquire, Begin, TryClaim, ReadRow, InsertRow,
         AcquireFault, FailOpen, Stamp, Crash, LandingCreatesRow, Tick, guardVars
    <2>1. ~DiedWiped
      <3>1. ASSUME NEW r \in Runs, pc[r] = "dead" PROVE pc'[r] = "dead" /\ job'[r] = job[r]
        <4>1. pc'[r] = "dead"
          BY <3>1, StepIsGuardStep DEF KeptInv, RunTypeOK, GuardTypeOK, GuardNext, GuardEnv,
             Acquire, Begin, TryClaim, ReadRow, InsertRow, AcquireFault, FailOpen, Stamp, Crash,
             LandingCreatesRow, Tick, guardVars, Goto, Win, Alive
        <4>2. job'[r] = job[r]
          <5>1. CASE UNCHANGED job
            BY <5>1
          <5>2. ASSUME NEW s \in Runs, Calculate(s) PROVE job'[r] = job[r]
            <6>1. pc[s] = "working"
              BY <5>2 DEF Calculate, Load, Check, DeleteRows, InsertRows, ReadDecisions,
                 DeleteItems, InsertItems, Finish, Stamp, At, Working
            <6>2. job' = job \/ \E new : job' = [job EXCEPT ![s] = new]
              BY <5>2 DEF Calculate, Load, Check, DeleteRows, InsertRows, ReadDecisions,
                 DeleteItems, InsertItems, Finish, Then, ThenErrors
            <6> QED
              BY <3>1, <6>1, <6>2 DEF KeptInv, RunTypeOK
          <5> QED
            BY <5>1, <5>2
            DEF RunNext, GuardStep, Decide, RecomputeRep, RepLoad, RepFind, RepWrite, runVars,
                dataVars
        <4> QED
          BY <4>1, <4>2
      <3> QED
        BY <3>1 DEF DiedWiped
    <2>2. CASE UNCHANGED <<items, ruled, lapsed, job>>
      BY <2>0, <2>1, <2>2, KeptUntouched
    <2>3. ASSUME NEW r \in Runs, Calculate(r) PROVE ItemsAgree' /\ DecisionHeld'
      BY <2>0, <2>1, <2>2, <2>3, KeptBefore, KeptRead, KeptWipe, KeptInsert
      DEF Calculate, Finish
    <2>4. ASSUME NEW i \in items, NEW deduct \in BOOLEAN, Decide(i, deduct)
          PROVE  ItemsAgree' /\ DecisionHeld'
      BY <2>0, <2>1, <2>4, KeptDecide
    <2> QED
      BY <2>2, <2>3, <2>4
      DEF RunNext, GuardStep, RecomputeRep, RepLoad, RepFind, RepWrite, runVars, dataVars
  <1>3. RunSpec => []MutualExclusion
    BY RunKeepsToTheGuard, GuardExcludes, PTL
  <1>4. KeptInv => DecisionsKept
    BY DEF KeptInv, DecisionsKept, ItemsAgree, DiedWiped
  <1> QED
    BY <1>1, <1>2, <1>3, <1>4, PTL DEF RunSpec
=============================================================================
