---------------------------- MODULE RecomputeGuard ----------------------------
(***************************************************************************)
(* The single-flight guard of the commission recompute, for one            *)
(* (org, period): the row of commcalc.calc_status, the runs that compete   *)
(* for it, the clock they read and the takeover of a row presumed dead.    *)
(*                                                                         *)
(* A run is one call of _run_calculation.  It comes from the button        *)
(* (POST /calculate, which claims the slot itself and hands the token to   *)
(* its background task) or from the landing hook (which lets the task      *)
(* claim).  What a run does while it holds the slot is RunCalculation's.   *)
(***************************************************************************)
EXTENDS Integers, FiniteSets

CONSTANTS Runs,         \* the calls of _run_calculation
          StaleAfter,   \* calc_stale_minutes: age at which 'running' is presumed dead
          MaxRun,       \* longest time a live run takes, from reading the clock on
          Horizon,      \* bound on the clock
          Entrances,    \* where calls come from: "button", "hook" or both
          DbFaults      \* may a database call fail (before or after it commits)?

ASSUME GuardAssumption ==
    /\ StaleAfter \in Nat
    /\ MaxRun \in Nat
    /\ Horizon \in Nat
    /\ Entrances \in SUBSET {"button", "hook"}
    /\ DbFaults \in BOOLEAN

VARIABLES row,      \* the calc_status row: status, startedAt, runId
          now,      \* the clock the processes read (their skew is neglected)
          pc,       \* where each run is
          at,       \* the clock value each run read for its claim
          held,     \* TRUE once the run won the conditional claim (its token)
          inTask,   \* TRUE when the claim is made by the background task
          degraded, \* history: the runs that failed open
          surprised,\* history: the runs that had found no row when the landing
                    \* queue created it
          orphaned  \* history: the runs whose first-ever INSERT committed and
                    \* raised: the row names a run that does not know it

guardVars == <<row, now, pc, at, held, inTask, degraded, surprised, orphaned>>

NoTime == -1
NoRun == "none"

Acquiring == {"claim", "read", "insert", "reclaim", "reread", "mark"}
Ended == {"refused", "ended", "dead"}
Alive(r) == pc[r] \in Acquiring \cup {"working"}
Working(r) == pc[r] = "working"

GuardTypeOK ==
    /\ row \in [status : {"absent", "pending", "running", "done", "error"},
                startedAt : Nat \cup {NoTime},
                runId : Runs \cup {NoRun}]
    /\ now \in Nat
    /\ pc \in [Runs -> {"idle", "working"} \cup Acquiring \cup Ended]
    /\ at \in [Runs -> Nat]
    /\ held \in [Runs -> BOOLEAN]
    /\ inTask \in [Runs -> BOOLEAN]
    /\ degraded \in SUBSET Runs
    /\ surprised \in SUBSET Runs
    /\ orphaned \in SUBSET Runs

GuardInit ==
    /\ row = [status |-> "absent", startedAt |-> NoTime, runId |-> NoRun]
    /\ now = 0
    /\ pc = [r \in Runs |-> "idle"]
    /\ at = [r \in Runs |-> 0]
    /\ held = [r \in Runs |-> FALSE]
    /\ inTask = [r \in Runs |-> FALSE]
    /\ degraded = {}
    /\ surprised = {}
    /\ orphaned = {}

-----------------------------------------------------------------------------
(* Mutants: a cutoff compared with <=, and a claim with no stale takeover.  *)
TakeableAtCutoff(r) ==
    /\ row.status # "absent"
    /\ \/ row.status # "running"
       \/ row.startedAt = NoTime
       \/ row.startedAt <= at[r] - StaleAfter

TakeableNeverStale(r) == row.status \notin {"absent", "running"}

(* The WHERE clause of the conditional claim, with the cutoff computed from *)
(* the clock the claimant read on entry; and the row the claim leaves.      *)
Takeable(r) ==
    /\ row.status # "absent"
    /\ \/ row.status # "running"
       \/ row.startedAt = NoTime
       \/ row.startedAt < at[r] - StaleAfter

Claimed(r) == [status |-> "running", startedAt |-> at[r], runId |-> r]

Goto(r, label) == pc' = [pc EXCEPT ![r] = label]

(* A call arrives: by the button or by the landing hook's runner.           *)
Begin(r, entrance) ==
    /\ pc[r] = "idle"
    /\ Goto(r, "claim")
    /\ at' = [at EXCEPT ![r] = now]
    /\ inTask' = [inTask EXCEPT ![r] = entrance = "hook"]
    /\ UNCHANGED <<row, now, held, degraded, surprised, orphaned>>

Win(r) ==
    /\ row' = Claimed(r)
    /\ held' = [held EXCEPT ![r] = TRUE]
    /\ Goto(r, "working")

(* _try_claim: one conditional UPDATE; zero rows sends the run to look.     *)
TryClaim(r) ==
    /\ pc[r] \in {"claim", "reclaim"}
    /\ \/ Takeable(r) /\ Win(r)
       \/ /\ ~Takeable(r)
          /\ Goto(r, IF pc[r] = "claim" THEN "read" ELSE "reread")
          /\ UNCHANGED <<row, held>>
    /\ UNCHANGED <<now, at, inTask, degraded, surprised, orphaned>>

(* _read_row: a row means a refusal; no row means a first-ever calculation, *)
(* or, on the second look, an indeterminate guard, which fails open.        *)
ReadRow(r) ==
    /\ pc[r] \in {"read", "reread"}
    /\ \/ row.status # "absent" /\ Goto(r, "refused")
       \/ row.status = "absent" /\ Goto(r, IF pc[r] = "read" THEN "insert" ELSE "mark")
    /\ UNCHANGED <<row, now, at, held, inTask, degraded, surprised, orphaned>>

(* The first-ever claim: UNIQUE (org_id, period) decides the race.          *)
InsertRow(r) ==
    /\ pc[r] = "insert"
    /\ \/ row.status = "absent" /\ Win(r)
       \/ row.status # "absent" /\ Goto(r, "reclaim") /\ UNCHANGED <<row, held>>
    /\ UNCHANGED <<now, at, inTask, degraded, surprised, orphaned>>

WouldWin(r) ==
    \/ pc[r] \in {"claim", "reclaim"} /\ Takeable(r)
    \/ pc[r] = "insert" /\ row.status = "absent"

(* A call of the acquisition raises, before or after its commit.  A failed  *)
(* INSERT is taken for a lost race, so a run whose INSERT did commit goes   *)
(* on to find its own fresh row; anything else fails open.                  *)
AcquireFault(r) ==
    /\ DbFaults
    /\ pc[r] \in {"claim", "read", "insert", "reclaim", "reread"}
    /\ \/ row' = row
       \/ WouldWin(r) /\ row' = Claimed(r)
    /\ \/ /\ pc[r] = "insert"
          /\ Goto(r, "reclaim")
          /\ orphaned' = IF row' = row THEN orphaned ELSE orphaned \cup {r}
          /\ UNCHANGED degraded
       \/ /\ pc[r] # "insert"
          /\ Goto(r, "mark")
          /\ degraded' = degraded \cup {r}
          /\ UNCHANGED orphaned
    /\ UNCHANGED <<now, at, held, inTask, surprised>>

(* Fail open: the best-effort plain 'running' upsert, and on without a      *)
(* token.  A task that is handed no token claims again by itself.           *)
FailOpen(r) ==
    /\ pc[r] = "mark"
    /\ \/ row' = [row EXCEPT !.status = "running"]
       \/ DbFaults /\ row' = row
    /\ degraded' = degraded \cup {r}
    /\ inTask' = [inTask EXCEPT ![r] = TRUE]
    /\ \/ inTask[r] /\ Goto(r, "working") /\ UNCHANGED at
       \/ ~inTask[r] /\ Goto(r, "claim") /\ at' = [at EXCEPT ![r] = now]
    /\ UNCHANGED <<now, held, surprised, orphaned>>

(* The run ends: its status upsert, keyed on (org, period) alone.  When     *)
(* both the 'done' and the 'error' upsert fail the row keeps 'running'.     *)
Stamp(r) ==
    /\ pc[r] = "working"
    /\ \/ \E outcome \in {"done", "error"} : row' = [row EXCEPT !.status = outcome]
       \/ DbFaults /\ row' = row
    /\ Goto(r, "ended")
    /\ UNCHANGED <<now, at, held, inTask, degraded, surprised, orphaned>>

(* The process that executes the run dies.                                  *)
Crash(r) ==
    /\ Alive(r)
    /\ Goto(r, "dead")
    /\ UNCHANGED <<row, now, at, held, inTask, degraded, surprised, orphaned>>

(* auto_calc's queue upserts the same row; calc_status takes its default.  *)
LandingCreatesRow ==
    /\ row.status = "absent"
    /\ row' = [row EXCEPT !.status = "pending"]
    /\ surprised' = {r \in Runs : pc[r] \in {"read", "reread"}}
    /\ UNCHANGED <<now, pc, at, held, inTask, degraded, orphaned>>

(* Time passes; a live run finishes within MaxRun of reading the clock.     *)
Tick ==
    /\ now < Horizon
    /\ \A r \in Runs : Alive(r) => now + 1 - at[r] <= MaxRun
    /\ now' = now + 1
    /\ UNCHANGED <<row, pc, at, held, inTask, degraded, surprised, orphaned>>

Acquire(r) == TryClaim(r) \/ ReadRow(r) \/ InsertRow(r) \/ AcquireFault(r) \/ FailOpen(r)

GuardEnv == Tick \/ LandingCreatesRow

GuardNext ==
    \/ \E r \in Runs : \/ \E entrance \in Entrances : Begin(r, entrance)
                       \/ Acquire(r)
                       \/ Stamp(r)
                       \/ Crash(r)
    \/ GuardEnv

GuardSpec == GuardInit /\ [][GuardNext]_guardVars

-----------------------------------------------------------------------------
(* Two recomputes never rewrite the month at the same time, as long as no   *)
(* acquisition failed open.  It needs MaxRun <= StaleAfter: with a longer   *)
(* run the takeover is of a live one.  (router.py 16046-16068)              *)
MutualExclusion ==
    degraded = {} => \A r, s \in Runs : Working(r) /\ Working(s) => r = s

HasCause(r) ==
    \E s \in Runs : /\ s \in orphaned \/ (held[s] /\ s # r)
                   /\ at[s] >= at[r] - StaleAfter

(* A crashed run can never wedge recomputes: whoever is refused was refused *)
(* because another run won the slot no longer than StaleAfter before the    *)
(* refused one asked; or because, no longer ago, a run's first-ever INSERT  *)
(* committed though it was told otherwise, which refuses that run itself    *)
(* and leaves the row with nobody at work; or because the landing queue     *)
(* created the row between the run's claim and its look.                    *)
(* (router.py 16060-16063 and 16142-16158)                                  *)
RefusalHasCause ==
    degraded = {} =>
        \A r \in Runs : pc[r] = "refused" => HasCause(r) \/ r \in surprised

(* The guard as the abstract slot.  Once an acquisition has failed open the *)
(* slot promises nothing any more, and the mapping shows nobody.            *)
AtWork == IF degraded = {} THEN {r \in Runs : Working(r)} ELSE {}

Flight == INSTANCE SingleFlight WITH working <- AtWork

-----------------------------------------------------------------------------
(* The inductive strengthening: clocks never run ahead, a live run is no    *)
(* older than MaxRun, and the row always names who is working or why it is  *)
(* there.                                                                   *)
ClockInv ==
    \A r \in Runs : /\ at[r] <= now
                    /\ Alive(r) => now - at[r] <= MaxRun

WorkerOwnsRow == \A r \in Runs : Working(r) => row = Claimed(r)

TokenInv ==
    \A r \in Runs : /\ pc[r] \in {"idle"} \cup Acquiring => ~held[r]
                    /\ pc[r] = "idle" => r \notin orphaned

RowNamesClaimant ==
    row.status \notin {"absent", "pending"} =>
        /\ row.runId \in Runs
        /\ held[row.runId] \/ row.runId \in orphaned
        /\ at[row.runId] = row.startedAt

LookedAndSaw ==
    \A r \in Runs : pc[r] \in {"read", "reread", "refused"} =>
        row.status = "absent" \/ HasCause(r) \/ r \in surprised

SlotInv == GuardTypeOK /\ ClockInv /\ (degraded = {} => WorkerOwnsRow)

CauseInv ==
    /\ SlotInv
    /\ degraded = {} => TokenInv /\ RowNamesClaimant /\ LookedAndSaw
    /\ \A r \in Runs : pc[r] = "refused" => row.status # "absent"
=============================================================================
