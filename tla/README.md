# Metrics Pro: a TLA+ development of its concurrent core

Metrics Pro is a multi-tenant back office for wireless retailers: a FastAPI
backend over a Supabase (PostgREST) database, a Next.js frontend and a mobile
app. Most of its 1.1 million lines are screens, file parsers, reports and row-level
arithmetic. What is hard in it is small and lies in between: several
processes, background tasks, pollers and people read a row, decide, and
write it back in a *separate* HTTP call, with no transaction around the pair.
The database gives one thing for nothing, a single statement that is atomic,
and each protocol of the system is built from that.

These modules model those protocols, at the granularity of one database call
per step. TLC checks them on small instances; TLAPS proves the properties that
matter most for every instance.

All source paths are relative to `src/backend/app/modules/` unless they begin with
`src/`.

## 1. Contents

| Module | Role |
|---|---|
| `RecomputeGuard` | the single-flight slot of a month's commission calculation |
| `RunCalculation` | what a run does while it holds the slot, and who writes beside it; extends `RecomputeGuard` |
| `SingleFlight` | the abstract specification of that slot; `RecomputeGuard` implements it, and so does the slot as `AutoCalc` has it |
| `AutoCalc` | the durable queue that recalculates a month after rows land |
| `LandingPromise` | the abstract specification of that queue; `AutoCalc` implements it |
| `SecondSession` | a held second time-clock session, its permission and its inbox request |
| `DerivedBuilds` | the queue of org-scoped rebuilds and the delete-and-insert build of the recovery ledger behind it; it too implements `LandingPromise` |
| `UsageFlush` | the per-module call counters of the backend processes and their flusher |
| `AiMeter` | the buffer of AI usage rows and the budget guard that counts on it |
| `AssetLedger` | the upload of the asset ledger: stage, swap, direct fallback |
| `OpsSettlement` | the settlement that takes posted ops chargebacks out of a month's commission and sends the rest on |
| `PayrollApproval` | the two-stage approval of an employee's hours, its inbox entry and the statement it releases |
| `MC*` | the TLC instances: symmetry sets, and values a `.cfg` cannot write |
| `*_proofs` | theorems and proofs of the module of that name; `RunCalculation_proofs` begins with those of `RecomputeGuard`, and `Timekeeping_proofs` holds those of `SecondSession` and of `PayrollApproval` |

`PROJECT.json` holds, for every definition, the lines of the source it stands
for, and for every property the change to the code that breaks it.

## 2. Inventory

### 2.1 Components that carry a protocol

**Commission recompute guard** (`commcalc/router.py` 16046-16199).
*State*: the row of `commcalc.calc_status` for an (org, month): `calc_status`,
`calc_started_at`, `calc_run_id`. *Operations*: one conditional UPDATE
that claims the row when it is not running, or running longer than the
tenant's threshold; a look at the row when that UPDATE hit nothing; the first-ever INSERT,
decided by the unique key; a plain upsert when any of these raises (fail open);
the completion upsert at the end of a run. *Interacts with*: the Run Calculation
button, which claims and then starts a background task with the token; the landing hook,
whose task claims by itself; the landing queue, which upserts the same row. *Hard*:
two tests-and-sets at once, a run that dies with the slot, a run that outlives
the threshold, a call that raises after it committed. *Correct when*: no two
runs work on a month at once; a crash never locks a month out for good; a
refusal always has a reason.

**Run Calculation** (`commcalc/router.py` 17090-17480 with its write paths).
*State*: `rep_commissions` (delete and batch-insert per run), `chargeback_items`
(delete and insert, with the managers' `deduct` decisions read before and put back after),
`save_errors` on the status row. *Operations*: load and compute, the
zero-wipe guard (plan mode, real sales, not forced), the rewrite, the carry-over of decisions, the stamp. Beside it,
without the slot: `PUT /chargebacks/{id}` and `POST /recompute-rep`.
*Hard*: a rewrite is not a transaction; a takeover or crash in the middle; a
decision made while a run holds a copy of the decisions; a one-rep recalculation
in the window between delete and insert. *Correct when*: nobody is paid twice; a
month called done without errors is the whole result of one run; an all-zero result that the
guard judges never replaces a month that pays; a manager's decision survives recalculation and none is invented.

**Auto-calculation on landing** (`commcalc/auto_calc.py`).
*State*: `auto_calc_requested_at` and `auto_calc_landings` on the same row, the
org's switch, one poller thread per process. *Operations*: the hook
`landed` (read the switch, read the pending landings, upsert them with one more),
the poller (scan, judge due, claim with one conditional UPDATE, run), the
re-queue when the slot is busy. *Hard*: landers overwrite each other's
list; clocks of different processes are compared; the claim clears the request
*before* the calculation; a busy slot; a restart. *Correct when*: no landing that
was told "queued" is forgotten, each is answered in the end, the stored
month never gives way to older rows, and none of them are missing unless something died or failed.

**Time clock: the held second session** (`storeops/router.py` 5671-5748 clock-out,
7561-7660 decision) **and the approvals engine** (`approvals/engine.py`,
`approvals/adapters/timeclock.py`).
*State*: three rows that say the same thing in three places: the punch (`status`,
`clock_out`, `hours`), the permission, and the inbox request. *Operations*:
clock-in (punch, then permission, then request), clock-out, a decision on the
board (effect, then mirror onto the request), a decision in the inbox (effect,
then stamp). *Hard*: a read and its write are separate calls everywhere; the effect is two
updates; two surfaces decide the same thing. *Correct when*: the inbox shows a
decision only if one was taken; held hours reach pay only after a decision; a decision
everybody agrees on is whole.

**Derived builds** (`commcalc/derived_builds.py`, `recovery/engine.py` 74-179,
`payables/`). *State*: one row per (org, build) with the time of the request; a set
`_RUNNING` per process; the ledger. *Operations*: the hook queues a request, the
poller claims it with one conditional UPDATE and builds, a build under way in the same
process queues it again, `POST /recovery/rebuild` builds and asks nobody. The build reads,
deletes, and inserts in batches. *Hard*: there is no single-flight slot and no unique key; the
claim clears the request, so a landing during a build makes the next one claimable
at once. *Correct when*: the ledger holds one build and never an older one over a
newer; a queued landing is answered.

**Usage metering** (`billing/usage_flush.py`, `module_usage.py`, the RPC of migration 974).
*State*: counters in the memory of each process, one shared table. *Operations*: add, a tick that
drains and folds the counters in with an additive RPC that passes over rows it cannot take, restore when it raises, a graceful
stop that flushes once more. *Hard*: counting goes on during a flush; an RPC that
committed and then raised; stop cancels the loop but not the thread it waits for; a crash.
*Correct when*: no count is dropped or doubled beyond what a crash, a lost
answer or a row the RPC passed over explains.

**AI metering** (`billing/ai_meter.py`, `core/ai_gate.py`, `core/control_box.py` 862-930). *State*: a
bounded buffer of rows, a counter of dropped ones, the audit table, which is both the
invoice and what the hourly cap is counted from. *Operations*: decide (read the table, add the
buffer), audit, record, flush on any thread, one insert per column set, restore as far as there is
room. *Hard*: a flush moves rows between the two places the guard reads one after the
other; one batch of several fails; the buffer fills up under a failed flush. *Correct when*: every
dropped row is counted, rows are stored once, an undisturbed decision keeps the cap, one
call is one bill.

**Asset ledger upload** (`asset/router.py` 26-59 and 121-203, migration 300).
*State*: the live ledger, a scratch table per organisation, how much of the migration was
run. *Operations*: clear, stage in batches, swap by one database function that
counts, deletes, copies and deletes in four statements; without table or function, delete and insert directly. *Hard*: a failed or
late batch, a death anywhere, two uploads in one scratch table, each statement of the function seeing what has committed by then, the fallback in mid-upload. *Correct
when*: the ledger is one whole file, an upload that reports success is live, and a
retry is not hindered by what a failed upload left.

**Payroll approval** (`storeops/payroll_approval.py` 788-962, 993-1034, 1212-1289, the inbox through
`approvals/engine.py` 113-148 and 204-226, the change log `storeops/router.py` 1197-1228, migration 431).
*State*: one row per employee and period (two stage statuses, an adjustment, corrected hours, an
override, a dispatch status), one inbox request, the change log. *Operations*: decide (read the hours, read the
row, refuse or log each figure it moves, upsert the columns it names, mirror the outcome in the inbox), override,
dispatch. *Hard*: a whole call rests on one read of the rows; log, upsert and mirror are calls of their own, and
the failures of the first and the last are swallowed; DM, HR and dispatch act at the same time; punches change
the computed hours under a correction. *Correct when*: money goes out only on hours that both stages stand behind, or on an
override; no payroll number moves without a name; released hours do not wait in HR's inbox.

**Ordinary punches, late clock-out** (`storeops/router.py` 5655-5787, 7601-7616, 7660-7702):
unconditional updates by id of what was read open. *Not modelled yet*; the forced clock-out is, where it meets a held session.

**Closing expense decisions** (`closing/router.py` 11811-11845): a decision that pushes a
P&L row. *Not modelled yet.*

**Ops-chargeback settlement** (`commcalc/router.py` 17727-17879, `closing/ops_chargebacks.py` 359-383, `storeops/router.py` 2304-2345, migration 504).
*State*: the rows of `ops_chargeback`: incidents with their status and what commission
absorbed of them, and child rows that carry an overflow to payroll or to the next commission month; a
unique key (parent, leg, month) over the children; the policy that names the leg. *Operations*: read the
posted incidents, the pay, the policy and the children; then, incident by incident, stamp what is absorbed,
retract children on other keys, insert or update the child, every write a call whose error is
swallowed. *Interacts with*: every Calculate ends with it and a button runs it, so two may
overlap; management posts and waives incidents and waives children while it runs; recalculations change the
pay. *Hard*: status read before and used after; half-done runs; a re-run on half-written rows. *Correct when*:
an undisturbed run leaves the exact split whatever came before it, a settled month is not written
again, forgiveness is respected.

**Core services** (`src/backend/app/core/`): the TTL cache (a value computed before
an invalidation put back after it) and the database retry. *Not modelled yet.*

**Point of sale** (`pos/`): held sales, stock landing. *Not modelled yet.*

### 2.2 Components with no protocol of their own

The pay arithmetic (`commission_engine.py`, `calculator.py`) is sequential, over
records with hundreds of fields, and is compared row by row with real months by
the repository's harnesses. Accounting, chat, CRM, helpdesk, HR,
marketing, referral, remediation, supply, store visits, vision and
notifications are create-read-update handlers, reports or imports. The frontend
and the mobile app keep nothing the API does not. Migrations, workflows, harnesses and docs are
read with the code they belong to. `PROJECT.json` lists each one with its reason.

### 2.3 How the modelled parts meet

```
   landers --landed()--> AutoCalc queue --claim--> runner --+
   (feeds)               (calc_status row)                  |  same row: the slot
   button  --POST /calculate--------------------------------+--> RecomputeGuard
                                                                  |
   managers --PUT /chargebacks/{id}--------> chargeback_items <---+  RunCalculation
   POST /recompute-rep --------------------> rep_commissions  <---+

   clock-in --> punch, permission, request      SecondSession
   board ----> permission, punch, then request
   inbox ----> permission, punch, then request (other order of checks)
   clock-out, forced clock-out -> punch

   landers --landed()--> DerivedBuilds queue --claim--> build --+
   person  --POST /recovery/rebuild---------------------> build-+--> recovery ledger

   requests --add--> counters --tick, stop--> module usage        UsageFlush
   AI calls --audit, record--> buffer --flush--> audit table      AiMeter
        ^---- decide: reads table, then buffer ----'
   uploads --stage--> scratch --swap--> asset ledger               AssetLedger
        '------------ direct ----------------^

   Calculate, button --> settlement --stamp--> incidents          OpsSettlement
                             |---retract, insert, update--> children
   management --post, waive--> incidents;  --waive--> children

   DM, HR --decide--> change log, then row, then inbox            PayrollApproval
   dispatch --list row--> mail --> stamp on row
```

The hook `landed` serves both queues: `AutoCalc` per month and `DerivedBuilds` per build.

## 3. The models

### 3.1 RecomputeGuard

One (org, month); the months of different keys do not interact. A run is one call
of `_run_calculation`. Its place is `pc[r]`:

| Action | Code (`commcalc/router.py`) |
|---|---|
| `Begin` | entry of `_calc_guard_acquire`: the clock is read once, `at[r]` |
| `TryClaim` | `_try_claim`, the conditional UPDATE; `Takeable` is its WHERE clause, the cutoff taken from `at[r]` and compared strictly |
| `ReadRow` | `_read_row` after an UPDATE of zero rows: a row refuses; no row leads to the insert, or, the second time, to failing open |
| `InsertRow` | the first-ever INSERT; a unique violation leads to the second claim |
| `AcquireFault` | the `except` arms: any call raises before or after its commit. A failed INSERT leads to the second claim (16142-16145), any other failure to failing open |
| `FailOpen` | the best-effort `running` upsert; a button's task was handed no token, so it claims *again* (17107-17108) |
| `Stamp` | the `done` or `error` upsert, keyed on (org, month) and nothing else |
| `Crash` | the process dies |
| `LandingCreatesRow` | `auto_calc._queue`'s upsert creates the row; `calc_status` takes its default `pending` |
| `Tick` | time; a live run ends within `MaxRun` of reading the clock |

`degraded` (who failed open), `surprised` and `orphaned` (whose INSERT committed and was reported failed) are history variables and guard nothing.

`MaxRun` and `StaleAfter` are separate because the relation between them is the
assumption of the whole guard: the threshold (20 minutes by default) is longer than
a live run. Under it the guard excludes, and implements `SingleFlight` (`Flight`); without it it does not (section 6).

### 3.2 RunCalculation

Extends the guard: a run in `pc = "working"` walks through `job[r].phase`:
load, check, delete, insert (one batch per step; a batch is one rep), decisions
(read), wipe, items, stamp. Each step is one database call. A failed write records
a save error and jumps where the code's `except` resumes (`ThenErrors`). `Finish` *is* the
guard's `Stamp` with its data. A stored row is `[rep, id, by, pays]`: who created it and who wrote it last
identify it, and whether it pays is all the zero-wipe guard asks.

A run's `result` pays somebody, pays nobody, or has no rows; `judged` says whether the zero-wipe guard looks at it. The code asks for
plan mode, sales, rows, nobody having forced it, and all of it zero (17207-17208): `Load` therefore leaves open whether an all-zero result is
judged, and judges no other. `Check` counts the paying rows, and a count that fails counts none (`blind`).

Beside the runs: `Decide` (an update by id, which hits nothing when the item is
gone) and `RepLoad`/`RepFind`/`RepWrite` for the one-rep recalculation, whose read, when it fails, has found nothing (24075-24076).

The steps of a calculation are written as steps of the guard or leave its variables alone, so that a calculation keeps to the guard holds by
construction; `RunKeepsToTheGuard` is a lemma by which the proofs use what the guard promises, and no result.

### 3.3 AutoCalc and LandingPromise

| Action | Code (`commcalc/auto_calc.py`) |
|---|---|
| `Land`, `Hook` | rows are written; `landed` reads clock and switch |
| `ReadRequest`, `QueueLanding` | `_queue`: read the pending list, upsert it with one more |
| `HookFails` | the hook never raises into a lander: "error" is its answer also when the upsert had committed (690-692) |
| `Scan` | a tick of the poller: `due_at` is the quiet window after the latest landing, or the longest wait after the oldest, whichever is first |
| `Claim`, `ClaimFails` | the conditional UPDATE that clears the request (718-733) |
| `SwitchedOff` | a switched-off org gets a record and no run (`run_one`, 743-753) |
| `TakeSlot` | the runner asks for the slot |
| `ReadInputs`, `DeleteMonth`, `InsertRows`, `EndRun` | the calculation, of a poller or of the button: it reads its inputs, deletes the month, inserts its rows, stamps and leaves (`commcalc/router.py` 17125-17132, 17226-17228, 17456-17511) |
| `WriteFails` | the delete or the insert raises, before or after its commit: a save error, and on to the end (17229-17230) |
| `Requeue`, `QueueAgain` | a busy slot queues the same landings again (755-770) |
| `PressButton` | the button takes the slot and calculates like a poller |
| `Die`, `Boot` | a process dies; the next boot polls |
| `Switch` | the org's switch is flipped |

One bound, `Upsets`, covers presses of the button, flips of the switch, deaths and failing calls, so one
instance has behaviours with each of them and behaviours with none; `Unharmed` says that none of the last two has
happened yet. What is promised without deaths and failures is stated under it (`NoLandingForgotten`, the
liveness half of `KeepsThePromise`), the rest for every behaviour.

The slot is here one variable with its age, since the queue only asks whether it is free.
`KeepsToTheSlot == Flight!Spec` states that this is the abstract slot `SingleFlight`, the one the guard
implements too. `data` is
the set of landings whose rows are there. `stored` is the month: `from` the landings that every row of it, or of its rewrite under way, was computed from, and `whole` unless
rows are missing or two calculations have mixed.

`LandingPromise` says what a lander is promised and nothing of how: told
"queued", then answered in the end, by a calculation that read its rows or by the
record that automatic calculation is off. `AutoCalc!KeepsThePromise` is that
specification under the mapping `queued <- Queued`.

### 3.4 SecondSession

One held session. `punch`, `perm` and `request` are the three rows; each
decision call `d` and each clock-out call `c` has its place, what it read
(`owes`, `holds`) and what it decides (`choice`). Decisions in `Inbox` go through
`engine.decide` (open the request, adapter looks at the permission, effect,
stamp); those on the `Board` through the board's handler (open the permission,
effect, mirror). The effect is the same three calls: stamp
the permission, read the punch, flip the punch. `DecisionFault` lets any call
raise before or after its commit, aborting the decision in the effect and the
stamp, swallowed in the mirror. A clock-out reads the open punch and later closes it by id. So does a pass of the
forced clock-out (`ForceClockOut`, `_do_force_clockout` 7079-7145), which stamps hours and looks at no
permission. It takes punches that began before a scheduled end; a held session is one when a second shift of the
day (5346-5348 hold it after an automatic clock-out at *any* store) or an approved extension
(`_approved_extension_end`) ends after it began, so any held session may be, and the choice is
nondeterministic. `swept` remembers that it happened.

### 3.5 DerivedBuilds

| Action | Code |
|---|---|
| `Hook`, `QueueLanding`, `HookFails` | `auto_calc.landed` 655-658 and `_queue_builds` 606-632: the switch, then an upsert of the lander's own clock |
| `Scan`, `Claim`, `ClaimFails` | `derived_builds.run_due` 489-506, `claim` 432-448; a claim that raises is skipped whether or not it committed |
| `RunOne` | `run_one` 459-470: off, busy (`Busy`, the process is in `_RUNNING`), or build |
| `QueueAgain`, `RequeueFails` | 466-469; the exception ends the tick (`auto_calc.py` 792-795) and the request is gone |
| `Press` | `recovery/router.py` 88-97: no claim, no `_RUNNING` |
| `ReadInputs`, `DeleteRows`, `InsertBatch`, `BuildFails` | `recovery/engine.py` 83-111, 175, 176-177; the error is an outcome (473-476) |
| `EndBuild` | 477-486: leave the set, record the outcome; a failed build is recorded and not tried again |
| `Die`, `Boot`, `Switch`, `Tick` | the world |

Which thread is of which process, `home`, is chosen at the start, so one instance holds both
deployments: one process with several threads, and several processes. When a request is due is
`AutoCalc`'s debounce; here any pending request may be found due, which is
more than the code does. `answered` and `built` are history.

### 3.6 UsageFlush

A counter is the set of the calls it counts, and the table says how often each call was added, so
a dropped and a doubled count are visible call by call. `Drain`, `Write`, `RpcFails`, `Restore` are
the stations of `flush_now` (49-67), run by the tick's thread or by `stop`; `Stop` cancels
the loop: a flush that waits for its thread may be cancelled, one that runs is not (126-137). `Write` takes any part of the batch and `RpcFails` commits any part: the RPC skips a
malformed row and swallows the exception of any other (migration 974, 107-109, 129-131), and `flush_now` does not look at the number it returns (57-58); `swallowed` is history.
`Exit` waits for the threads and loses what is restored after the last drain. `Bump` is the
`on conflict ... calls + excluded.calls` of the RPC.

### 3.7 AiMeter

One organisation, one purpose, one hour. A row is its call: each guarded call has an audit row, each call of
a feature a recorded one, and `Echoes` says which recorded rows are a second row of a
guarded call (`remediation/router.py` 197 and 210; `data_qa_agent.py` 446 and 455).
`Look` and `Decide` are the two reads of `recent_rows` (137-146, 147-159), with the decision in the
second; `Enqueue` is the bounded append; `Drain`, `Insert` per column set, `InsertFails`, `NoClient`,
`Restore` are the stations of `flush_now` on any thread. Which rows are kept when the
buffer is full is left open. `dispatch` and the tick start flushes; so a flush may start
whenever there is something to drain.

### 3.8 AssetLedger

A row stands for a batch of 500. An upload goes `Probe`, `Clear`, `Stage`..., the swap, or
`DeleteLive`, `Write`... when the table is missing or the probe fails (196-203), or when the function
turns out missing after staging (`SwapMissing`, 144-163) or another error reads as if it did (`SwapMisread`: the markers in 41 are fragments of texts).
The swap is one transaction, whose changes nobody sees before its end, but the database runs it at READ COMMITTED, so each statement
sees what others have committed by then:

| Action | Migration 300 |
|---|---|
| `SwapCount`, `SwapRefused` | the count of the stage and its comparison, 74-84 |
| `SwapDelete` | 86: the live rows it finds (`seen`) |
| `SwapCopy` | 88-91: the staged rows it finds (`copied`); two deletes of the same rows wait for each other |
| `SwapCommit` | 93-95 and the end: `Replace`; a number of rows other than the upload staged is an error, raised after the commit (`asset/router.py` 175-178) |

Each call has a failing variant, before or after
its commit; an insert whose caller gave up may also land later (`Land`), also inside the swap. `Migrate` is the
person who runs the rest of migration 300. `crossed` (the stage or the ledger changed under an open swap), `raw` (who wrote directly since the last
replacement) and `overlapped` are history. The migration declares concurrent uploads of one
organisation out of its scope (lines 33-36); they are in the model, and the
properties say what still holds.

### 3.9 OpsSettlement

One person, as the loop consumes each person's pay apart from the others'. Incidents are numbered in the order of the sort
(17797) and keep their amount; money is whole units.

| Action | Code |
|---|---|
| `ReadParents`, `ReadPay`, `ReadPolicy`, `ReadKids` | the four reads, 17745-17752, 17757-17778, 17780, 17785-17793 |
| `PolicyFails`, `KidsFail` | an unreadable policy counts as payroll (17623), unreadable children as none (17789) |
| `Stamp`, `StampFails` | share and balance (17800-17809), then the update if the figure read differs (17813-17820) |
| `Retract`, `RetractFails` | a delete by id of each child read as ours on another key, or of all of them when nothing is left (17839-17845, 17872-17878) |
| `InsertChild`, `UpdateChild`, `ChildFails` | 17846-17867; an insert that hits the unique key (migration 504, 65-67) is a swallowed error |
| `Finish`, `Die` | the end, a death, or a read of the pay that raises |
| `DecideIncident`, `DecideChild` | the decisions of people, none of which asks for a pending row: the closing endpoint takes the id of an incident or of a child (`closing/ops_chargebacks.py` 359-383; its screens list incidents only), the payroll endpoint waives a child |
| `Recalculate`, `SetPolicy` | what changes pay and leg under it |

A child has a `word`, what a manager has said of it, if anything: a child with a word is no longer the settlement's own (17795-17796). A posted child is dated to its incident's month, which takes a
`next_cycle` child off its leg (`moved`).

A run keeps what it read: `seen` (the stamps), `left` (the balance), `leg`, `known` (the children), and
the writes it still owes the present incident, `todo` and `rest`. History: `stale` (what the run rests on has changed since
it began), `failed`, `calm` (it began on a settled month), `wrote`, and `settled` per month: the last
complete run was neither stale nor failing, and nothing has changed since. `Pays` and `Policies` are the figures a
month may pay and the legs a policy may name.

### 3.10 PayrollApproval

One employee, one period, and calls that ask one thing each (a call of many rows is many calls on one read).

| Action | Code (`storeops/payroll_approval.py` unless said) |
|---|---|
| `ReadHours`, `ReadRow` | the reads at 811 and 812; `Gated` and a figure without a reason are refused (837-840, 859-862) |
| `Refuse` | a correction without a reason is refused after the adjustment was logged (866-876, 903-907) |
| `Log`, `LogFails` | `_log_payroll_change`, the adjustment before the correction, errors swallowed (`storeops/router.py` 1226-1227) |
| `Write`, `WriteFails` | the upsert 945-950: `Upserted` is the row with the columns the call names, among them the adjustment it *read* (849-876), the correction (885-908), its stamp (931-937) and the withdrawal of HR's (941-943) |
| `FindLive`, `CreateRequest` | `create_request`, `approvals/engine.py` 121-138; a second insert meets the unique index (migration 867, 47-50) |
| `FindPending`, `UpdateRequest` | `sync_source_decision`, 204-224 |
| `MirrorFails` | the swallowed errors of both (777-778) |
| `EditPunch`, `Override` | the clock's figure changes; the admin's override 1014-1026 |
| `List`, `Mail`, `StampSent` | `dispatch`: the listing, the mail that may go out and raise, the swallowed stamp. Nothing is read between listing and mail; `On` says on what the mail goes out |

A row that does not exist reads like a fresh one, so the first upsert needs no case of its own. History: `released`
(HR approved what the DM had approved, and neither was withdrawn), `muddled` (some call has upserted a row another changed
after it had read it), `smooth` (no call has failed, and none wrote while another was under way), `sent` (on what grounds
statements went out), in each dispatch `withdrawn` (a release was withdrawn since its listing), and in each call `logged`, `lost` and `stale`.

## 4. What is checked

`n` is the number of distinct states.

| Run | Question | Properties | Bounds | n |
|---|---|---|---|---|
| `guard` | Does the slot exclude, and can a crash wedge it? | `MutualExclusion`, `RefusalHasCause` | 3 runs by both entrances, any acquisition call fails, any run crashes; threshold = longest run = 1, clock to 3 | 3.6M |
| `run_calculation` | Is a month under the guard single and faithful to the managers? | `OneRowPerRep`, `NoDeductionInvented`, `DecisionsKept` | 3 runs, 2 reps, 1 chargeback, clock to 2 | 1.2M |
| `run_faults` | Does "done" without errors mean whole, and does a zero never wipe pay, also when any call fails and one rep is recalculated beside? | `DoneMeansWhole`, `ZeroNeverWipesPay` | 2 runs, 2 reps, 1 one-rep recalculation, every call may fail | 3.9M |
| `auto_calc` | Is every queued landing answered, and what can deaths and failing calls cost? | `NoLandingForgotten`, `TornOnlyByMishap`, `KeepsThePromise` (safety and liveness), `KeepsToTheSlot`, `MonthNeverGoesBack`, `LostOnlyByMishap` | 2 landings, 2 pollers, 1 upset; quiet window 1, longest wait 2, landings until 1, clock to 3 | 238k |
| `second_session` | Do three rows in two surfaces stay consistent? | `StampedMeansDecided`, `CountedOnlyOnceDecided`, `AgreedDecisionIsWhole` | 2 inbox decisions, 1 on the board, 2 clock-outs, 1 forced clock-out, any call fails | 1.9M |
| `derived_builds` | Does one process keep its ledger whole and newest, and is every queued landing answered? | `NeverDoubled`, `NeverOlder`, `ForgottenOnlyByMishap`, `QueuedIsAnswered` | 2 landings, 2 threads in one process or two, 2 batches, 1 press, 1 mishap, clock to 1 | 1.4M |
| `usage_flush` | Is a count ever dropped or doubled, and does it arrive? | `CountedIsAccounted`, `OnePlaceUnlessUnsure`, `StopLosesNothing`, `CountsReachTheTable` | 3 calls, 2 processes, 2 crashes or failing RPCs; stops and boots without bound | 254k |
| `ai_meter` | Are rows dropped only when counted, stored once, and does the cap hold? | `DropsAreCounted`, `StoredOnceUnlessUnsure`, `QuietCallKeepsTheCap`, `RowsReachTheTable` | 3 guarded calls, one of them recorded as well, 2 flush threads, a buffer of 2, a cap of 2, 1 mishap | 129k |
| `asset_ledger` | Is the ledger always one whole file, and does a retry succeed? | `WholeLedger`, `FullCount`, `SuccessIsLive`, `RetrySucceeds` | the first file and 2 uploads of 3 batches, 3 mishaps, any state of the migration | 62k |
| `ops_settlement` | Does a settlement repair whatever ran before or beside it, and then rest? | `SettledIsExact`, `SecondPassWritesNothing`, `OverflowWithinIncident`, `SettledStandsStill`, `OnlyAStaleRunTouchesForgiven` | incidents of 1 and 2 in one month, a pay of 0 or 2, 2 runs, 1 change by people, 1 mishap | 2.7M |
| `payroll_approval` | Does money go out only on standing decisions, and does no figure move anonymously? | `StatementNeedsRelease`, `ReleasedIsNotLeftWaiting`, `FiguresMoveByName` | 4 decide calls of 7 kinds, 2 at a time, 1 dispatch at a time without bound, computed hours 1 or 2, 1 upset | 3.1M |

One more run, `find_held_counts`, checks a property the repository's text claims and the
code does not keep; section 6.

No run checks a type invariant: TLAPS proves each for every value of the
constants (section 5), and it is a conjunct of the inductive invariants the other properties rest on.

**Why the bounds are enough to be interesting.** Three runs are the
least for the guard's interesting trace: one dead holder, one that takes over, one that
must be refused. Ages matter only as "older than the threshold or not", so
threshold and longest run are 1 and the clock goes far enough for one takeover of
a takeover. Two reps make a delete-and-insert that can stop in the middle; one
chargeback suffices for properties that quantify over one. Two landings and two
pollers are what the read-then-upsert race, the claim between a read and an
upsert, the re-queue beside a new landing and out-of-order clocks need. In the held
session, two decisions in the inbox are a decision and its retry, the one on the board is
the rival surface, two clock-outs are a call and its replay, and one forced clock-out can come before, between or after them. Two threads and two batches are
what it takes to mix two builds; a third landing only repeats the second. Three counted calls and two
processes give a batch in flight, one counted meanwhile and one elsewhere. A buffer of two
rows is overfull as soon as a failed flush of two comes back to a new one; the cap of two
needs a third call to be broken, and three calls in two places of different
age. Three batches give a first, a middle and a last one to fail in; two uploads are a failed
one and its retry, or two that overlap, above the file that was there. Incidents of 1 and 2 against a pay of 0 or 2 give each
boundary of the split: nothing, the first whole, half of the second. A run may begin again for ever, so
the instance holds sequences of settlements of any length as well as races of two; one change and one
mishap put a waiver, a recalculation or an edited policy, and a failure or a death, anywhere into either. Twelve child ids
are more than the instance uses up; each incident takes free ids of its own in order, which loses nothing since ids mean nothing. `Runs` is a symmetry
set: nothing distinguishes two settlements. Four decide calls are a DM's approval, HR's
release, a withdrawal and one that races; they come two at a time, in each order of their reads and writes, and nothing
distinguishes the two, so `Calls` is a symmetry set too. One upset is a failure, a punch edit or an override
at any step. Computed hours 1 and 2 and corrections to 1 and 2 give a correction that agrees with the clock and one that does not.

**Deadlock** is checked in `usage_flush`, whose processes can always be stopped and booted, and in no
other run: the other modules are driven by requests, and when all
calls have ended or the clock is at its bound the system rightly stops.

**Fairness.** `AutoCalc!Fairness`, used by `auto_calc`: a lander's
request runs to its end (the hook is a plain function call after the write); every process
polls and a dead one is booted (the thread at 820-826 loops for ever and catches
everything; the service manager restarts the process); a run, the button's too, ends; time passes. Nothing is
assumed of landing rows, of presses, of deaths, of faults, of the switch. The clock bound is
harmless to liveness because landings stop at `LandBy` and everything queued,
once re-queued, is due before the horizon.

`BuildsFairness` (`derived_builds`) assumes the same of landers, threads and boots, by the same
loop, and that a build under way ends. `QueuedIsAnswered` is claimed of behaviours without
mishaps only: a failing requeue does forget a landing, as `ForgottenOnlyByMishap`
says. `MeterFairness` (`usage_flush`): the loop ticks again whatever a tick
raised (90-103), a thread that was handed a flush runs it, a process told to stop exits; nothing is
assumed of crashes, boots, stops or RPCs that succeed, whose failures are finite in number. `AiFairness`
(`ai_meter`): a flush that has started ends, and a flush is started while there is something to drain and a thread is
free, which is the tick that shares the loop above (96-97). `FairLedgerSpec`
(`asset_ledger`): an upload that has begun takes its next step, being one sequence of
calls; no upload has to begin. `OpsSettlement` and `PayrollApproval` have no liveness property: nothing in the code makes a settlement
or a decision happen, a person or a calculation starts it. The liveness of `auto_calc` is claimed of behaviours in
which no process dies and no call fails; a press or a flip of the switch may still come.

## 5. What is proved

All theorems hold for any sets of runs, reps, landings, pollers, decisions,
clock-outs, threads, processes, calls, uploads, incidents and settlements, and any thresholds, ceilings and numbers of batches. TLAPS checks every leaf; the constants' assumptions
are the named `ASSUME`s of the modules.

| Theorem | Statement | Assuming | Inductive invariant |
|---|---|---|---|
| `GuardTypeCorrect` | `GuardSpec => []GuardTypeOK` | - | itself |
| `GuardExcludes` | `GuardSpec => []MutualExclusion` | `MaxRun <= StaleAfter` | `SlotInv` |
| `GuardRefusesForCause` | `GuardSpec => []RefusalHasCause` | `MaxRun <= StaleAfter` | `CauseInv` |
| `GuardIsSingleFlight` | `GuardSpec => Flight!Spec` | `MaxRun <= StaleAfter` | `SlotInv` |
| `OnlyFaultsFailOpen` | `GuardSpec => [](degraded = {})` | no call of an acquisition fails | `FaultFree` |
| `RunTypeCorrect` | `RunSpec => []RunTypeOK` | - | itself |
| `RunNeverPaysTwice` | `RunSpec => []OneRowPerRep` | `MaxRun <= StaleAfter`, nobody recalculates one rep | `RowsInv` |
| `RunDoneIsWhole` | `RunSpec => []DoneMeansWhole` | `MaxRun <= StaleAfter` (failing calls and one-rep recalculations allowed) | `WholeInv` |
| `RunNeverWipesPay` | `RunSpec => ZeroNeverWipesPay` | `MaxRun <= StaleAfter` (failing calls and one-rep recalculations allowed) | `WipeInv` |
| `RunKeepsDecisions` | `RunSpec => []DecisionsKept` | `MaxRun <= StaleAfter`, the calculation's calls do not fail | `KeptInv` |
| `RunInventsNoDeduction` | `RunSpec => []NoDeductionInvented` | - (overlap and faults allowed) | `DeductionInv` |
| `AutoTypeCorrect` | `Spec => []TypeOK` | - | itself |
| `NothingForgotten` | `Spec => []NoLandingForgotten` | nothing has died or failed (in the property) | `ForgetInv` |
| `MonthOnlyGoesForward` | `Spec => MonthNeverGoesBack` | - (deaths and faults allowed) | `MonthInv` |
| `MonthIsWhole` | `Spec => []TornOnlyByMishap` | nothing has died or failed (in the property) | `MonthInv` |
| `SlotIsSingleFlight` | `Spec => KeepsToTheSlot` | - (deaths, faults and presses allowed) | `SlotInv` of `AutoCalc` |
| `LostOnlyThen` | `Spec => LostOnlyByMishap` | - (deaths, faults and switches allowed) | `TypeOK`, `HookedAfterLanding` |
| `ImplementsPromiseSteps` | `Spec => Promise!Steps` | - | `TypeOK` |
| `SessionTypeCorrect` | `SessionSpec => []SessionTypeOK` | - | `DecisionInv` |
| `InboxFollowsEffect` | `SessionSpec => []StampedMeansDecided` | - (faults allowed) | `DecisionInv` |
| `HeldUntilDecided` | `SessionSpec => []CountedOnlyOnceDecided` | - (faults and forced clock-outs allowed) | `DecisionInv` |
| `AgreedIsWhole` | `SessionSpec => []AgreedDecisionIsWhole` | no failed decision (in the property) | `AgreedInv` |
| `BuildTypeCorrect` | `BuildsSpec => []BuildTypeOK` | - | `BasicInv` |
| `OneProcessNeverDoubles` | `BuildsSpec => []NeverDoubled` | all threads of one process, no press (in the property) | `BuildInv` |
| `OneProcessNeverGoesBack` | `BuildsSpec => []NeverOlder` | the same | `BuildInv` |
| `ForgottenOnlyThen` | `BuildsSpec => ForgottenOnlyByMishap` | - | `BasicInv` |
| `MeterTypeCorrect` | `MeterSpec => []MeterTypeOK` | - | `BasicInv` |
| `GracefulStop` | `MeterSpec => []StopLosesNothing` | no mishap (in the property) | `FlushShape` |
| `NothingDropped` | `MeterSpec => []CountedIsAccounted` | - | `CallInv` |
| `BilledOnce` | `MeterSpec => []OnePlaceUnlessUnsure` | - | `CallInv` |
| `AiTypeCorrect` | `AiSpec => []AiTypeOK` (with the ceiling of the buffer) | - | `AiInv` |
| `DropsCounted` | `AiSpec => []DropsAreCounted` | - | `AiInv` |
| `StoredOnce` | `AiSpec => []StoredOnceUnlessUnsure` | - | `RowInv` in `AiInv` |
| `QuietKeepsTheCap` | `AiSpec => []QuietCallKeepsTheCap` | nothing disturbed the look (in the property) | `CapInv` |
| `LedgerTypeCorrect` | `LedgerSpec => []LedgerTypeOK` | - | `LedgerInv` |
| `NeverPartial` | `LedgerSpec => []WholeLedger` | uploads one at a time, nothing landed inside a swap (in the property) | `LedgerInv` |
| `NeverShort` | `LedgerSpec => []FullCount` | nothing took effect inside a swap (in the property; overlap allowed) | `LedgerInv` |
| `SuccessMeansLive` | `LedgerSpec => SuccessIsLive` | - | `LedgerInv` |
| `SettlementTypeCorrect` | `SettlementSpec => []SettlementTypeOK` | - | `SettlementInv` |
| `OverflowFits` | `SettlementSpec => []OverflowWithinIncident` | - (overlap, faults, decided children allowed) | `SettlementInv` |
| `ForgivenOnlyByStale` | `SettlementSpec => OnlyAStaleRunTouchesForgiven` | - | `SettlementInv` |
| `ExactInvariant` | `SettlementSpec => []ExactInv` | - | itself, with `SettlementInv` |
| `SettledMonthIsExact` | `SettlementSpec => []SettledIsExact` | - (whatever earlier or overlapping runs left) | `ExactInv` |
| `SecondPassIsQuiet` | `SettlementSpec => []SecondPassWritesNothing` | - (failing calls allowed) | `ExactInv` |
| `SettledMonthStandsStill` | `SettlementSpec => SettledStandsStill` | - | `ExactInv` |
| `PayrollTypeCorrect` | `PayrollSpec => []PayrollTypeOK` | - | `DecideInv` |
| `StatementsStandOnRelease` | `PayrollSpec => []StatementNeedsRelease` | no call acted on a row changed under it (in the property) | `DecideInv` |
| `NoAnonymousFigure` | `PayrollSpec => FiguresMoveByName` | - (faults, overlap, edits of punches allowed) | `DecideInv` |
| `ReleasedLeavesTheInbox` | `PayrollSpec => []ReleasedIsNotLeftWaiting` | nothing failed or wrote beside another (in the property) | `InboxInv` |

The arguments, and why the strengthenings are needed:

* **Exclusion.** "At most one works" is not inductive: it says nothing of what
  stops the second claim. `SlotInv` adds that the row is exactly the claim of whoever is
  working (`WorkerOwnsRow`) and that a live run is no older than `MaxRun`
  (`ClockInv`). Then a claim that finds the row running needs a start older than
  `StaleAfter`, which no live worker has (`WorkerBlocksClaims`). The completion stamp keyed
  on the month alone is safe *only* because of this.
* **One slot, two modules.** `SingleFlight` says that a run comes to work when nobody is and that the next comes only when it
  has left. That is more than exclusion: no step may swap one run for another. The guard implements it by the same `SlotInv`,
  as long as no acquisition has failed open, after which the mapping shows nobody; and that only a failing call leads there
  is `OnlyFaultsFailOpen`. `AutoCalc` keeps of the guard no more than a holder and the time since when: `HolderInv`, and that a
  press too is no older than `MaxRun` (`ButtonInv`), give the same steps. So both modules speak of the same slot, and the landing queue is
  checked against what the guard is proved to keep.
* **Refusals.** `CauseInv` adds that a row that is neither absent nor pending names a run
  that won it at that time, and that whoever is past its claim has seen
  a cause (`LookedAndSaw`). A cause is another run that won the slot, or two that the model found: a first-ever INSERT that committed though it raised
  (`orphaned`), whose row nobody works for, and a row that the landing queue
  creates between a claim and its look (`surprised`); see section 6.
* **Never paid twice.** `RowsInv` adds that the reps a run has still to insert have no
  row (`SlateClean`). It rests on exclusion through `SlotInvariant`, cited
  from the guard's proofs by way of `RunKeepsToTheGuard`.
* **Done means whole.** `WholeInv` follows the rewrite (`Rewritten`): from its delete
  on a run finds only its own rows and those a one-rep recalculation signed, the reps it
  has inserted have a row, and past the rewrite the month is whole or an error was
  recorded. The stamp then only repeats what is there, and afterwards nobody but a
  new holder of the slot, whose row says `running`, may take a row away.
* **A zero result never wipes pay.** What the check saw still holds when the delete comes
  (`WipeSafe`): in between only a working run could write calculated rows, and there is no other. Rows that a one-rep recalculation
  wrote are not meant (`Calculated`), since one written after the count is deleted unseen.
* **No deduction invented.** The copies of decisions the runs hold were all made by
  a manager (`CopiesKnown`). No exclusion is needed: two overlapping runs
  may lose a decision, and can never make one up.
* **Decisions kept.** `KeptInv` says where a standing decision is at each point of a run: on the item (and only on
  one), with the run that is about to wipe, or only with the run that has wiped (`DecisionHeld`). Mutual exclusion, cited
  from the guard, is what makes "the run" one. The premise of the property, that no run died
  with the items deleted, is carried backwards: a dead run keeps its phase.
* **Nothing forgotten.** Which of the many ways of still owing an answer holds of a landing
  changes at every step. `Accounted` ties a landing to the pending request, to the
  *claim that covers it*, or to the calculation whose inputs hold it; a claim
  clears the request and takes over the whole debt, which is why a lander
  that overwrites another's list forgets no calculation.
* **The month goes forward, and is whole.** `HolderInv` (who calculates holds the slot), and
  `StoredInv`: before its delete a calculation has read all that the stored rows were computed from, between delete and insert the month holds
  nothing but its own. A takeover cannot come in between, because a live holder is no older than `MaxRun`. Without deaths and failures every delete is
  followed by its insert (`TornStep`).
* **The held session.** Whoever is past the permission's stamp, or saw a punch no longer
  pending, saw the work of a decision (`DecisionInv`); permissions never
  return to pending. For the agreed decision `AgreedInv` adds that between the permission's stamp and the flip somebody is on the
  way, that hours closed before the flip are known to whoever flips, and that a flip and a clock-out under way together have
  crossed (`CrossInv`). That all calls agree is carried backwards through each step (`AgreedBefore`).
* **Lost only by a mishap.** What a landing is owed is followed through each step of each
  poller (`PollerOwes`): the claim takes the debt from the request, the calculation from the claim, the
  re-queue gives it back; only the steps the property names let go of it. `NothingForgotten` is
  then the case in which these steps have not been taken (`UnharmedStep`: whoever is unharmed after a step was so before it).
* **One build in the ledger.** `AloneInv`, under the hypothesis that all threads share a process and
  nobody has pressed: two builders are one (each is in `running`, and `RunOne` asks); what a builder has read lies between
  what was built and what has landed; past its delete the ledger holds only its rows. The
  hypothesis is carried backwards through each step (`AloneBefore`), since presses only go down and homes
  do not move.
* **Counts.** `CallInv` follows one call: not counted, it is nowhere; counted, it is in the table, in
  memory, passed over by the RPC or lost; not in an unsure RPC, in exactly one of these places. The places are processes
  times accumulator and flush threads, so that several processes cost nothing. A graceful stop loses nothing
  because what its own flush drains comes after the last `Add`, and, without a mishap, nothing is restored (`FlushShape`).
* **The AI buffer.** `RowInv` is the same for a row, the two column sets included. That the number of missing rows
  is at most the counter is an argument on cardinalities: a drop adds one row to the missing and
  one to the counter, a restore adds at most what it did not keep and counts exactly that.
* **The asset ledger.** `LedgerInv` has two halves: always, without direct writes the ledger has the size of a
  file, because the only writer is the swap and, when nothing else has taken effect inside it, what it copies is what it counted and what it deletes is all there is; and, while uploads come
  one at a time, the stage holds only rows of the upload under way and of inserts still to land, so a
  complete stage of the right size is the whole file (`CompleteIsWhole`) and a late stray row makes the count differ.

* **Forgiven children.** A settlement writes by id, so the invariant must say what an id still means when the write comes:
  ids in the table and in what runs have read are never used for another incident or leg, only children read as ours are to be retracted, and a
  child that was read as ours and is waived by now makes its reader stale. Two children never share an id or a
  key. The first incident left in a run's set exists because a non-empty set of numbers has a least one, which is the library's
  well-foundedness of the naturals, cited for a set and not for a property.

* **The cap.** `CapInv` adds, of a look that nothing has disturbed, that each call allowed before it is still to be audited, or
  was found in the table, or waits in the buffer (`SoundLook`). A second guarded call on its way ends the quiet, so the decision
  sees every one of them: those found and those buffered are pairwise at least as many as the calls ahead, an argument on
  cardinalities (a row may be found twice, which only makes the guard stricter).
* **The exact split.** That a settled month is exact says nothing while a run is in the middle, and two runs on the same figures, one of them perhaps
  half dead, are in the middle together. `ExactInv` says of each run whose figures still hold (`Sound`) that it takes the incidents
  in order and its balance is the pay less the earlier amounts (`InOrder`), that what it read is either still so or already right (`Informed`), that what it has passed without
  a failure is right and stays right (`Fixed`), and, if it began on a settled month, that it has written nothing (`AtPeace`). The steps of
  *other* runs are the hard part: a run of the same figures moves rows only towards the one state those figures call for
  (`Converges`), and whatever another run holds true survives such a move. That is why two settlements at once do no harm, and why it takes a
  change of the figures in between, which makes a run `stale`, to do some.
  Sums of amounts are cardinalities of sets of units (`Units`), so that "the earlier amounts" need no induction.
* **A statement stands on a release.** A call decides on a row it read a while ago. `SoundCall` says that, unless it is stale, the
  stages and figures are still those, that HR's approval has passed the gate, and that each figure to be moved is logged, lost or still to be logged. `ReleaseStands` is what HR's sign-off
  rests on; it holds until a stale call writes, which is `muddled`.
* **The inbox.** `InboxInv` holds while all goes smoothly: one call at a time is at the inbox (`OneMirror`), a DM's approval is in it or
  being entered, and HR's approval has ended the entry or is about to (`Accorded`). Without the last
  clause's second half it is not inductive: the upsert of the row comes before the entry.

**Model-checked only.** Every safety invariant and every action property of a passing run is a theorem. The liveness properties (`QueuedIsAnswered`, `CountsReachTheTable`,
`RowsReachTheTable`, `RetrySucceeds` and the liveness half of `KeepsThePromise`, whose steps are `ImplementsPromiseSteps`) are not: liveness under fairness and ENABLED are beyond the prover.
No module declares a recursive operator, so none is closed to proofs for
that reason.

## 6. Where the code and its text disagree

One is given a run, whose shortest counterexample shows it.

| Run | What the text says | What the code does |
|---|---|---|
| `find_held_counts` | held time "stays out of every payroll reader (hours held NULL for a pending/denied second session" until it is approved (`storeops/router.py` 7363-7364); of a second session "its clock-out is the rep's own, and its DM-permission status (migration 432) governs pay" (7085-7087) | the forced clock-out takes every open punch that began before a scheduled end which is past, never looks at the permission, and stamps the hours of a pending session (7114-7127). With `Sweeps = {}` the same property fails a second way: a session denied while still open takes the ordinary clock-out and its hours are stamped (5698), though they "stay NULL, it never counts" (migration 432, line 41) |

Seen while modelling, and not checked by a run:

* "The only number it can change is `hours_approved`, which is (a) explicit, (b) reason-gated and (c) fully logged"
  (`storeops/payroll_approval.py` 20-22), and "a payroll number may not move anonymously in either direction" (881-882): a typed figure that
  equals the computed hours replaces a stored correction with no reason asked and nothing logged, because the
  comparison is with the computed figure and not with the stored one (903, 907-908). `FiguresMoveByName` names the exception.
* An adjustment is "carried forward when this call doesn't mention it" (849-850) from the row the call has read: an
  HR approval that overlaps a DM's new adjustment writes the old one back, unlogged. `FiguresMoveByName` names this one too.
* After HR has sent hours back and the DM has approved them again, `create_request` finds the denied request, which counts
  as live (`approvals/engine.py` 121-127), and opens none, against "DM approve  -> open the HR-release request"
  (`storeops/payroll_approval.py` 754); HR's approval then finds no pending request and leaves it denied.
* A DM who withdraws an approval leaves its request pending in HR's inbox (758-776 mirror neither `reset` nor a bounce of the DM).
* "Only rows that are DM-approved AND HR-approved - or explicitly overridden - are ever sent" (1216): the mail (1272) goes out on the listing
  (1224), so also on a release that was withdrawn in between. `StatementNeedsRelease` admits that and no earlier withdrawal.
* An adjustment is logged (866-876) before a correction in the same call is refused for want of a reason (903-907): the log then names a change that was not made.
* `dispatch` mails a row again that was already sent: the listing it selects from does not look at `dispatch_status`.
* A guarded AI call that its feature records as well is stored in two allowed rows with the same tokens
  (`remediation/router.py` 197 and 210); every allowed row is priced (`billing/ai_usage.py` 397-425) and counted against the cap, while
  "the meter records the turns TOGETHER as one call" (`ai_usage.py` 131-133).
* "The engine only ever touches a child it still OWNS" (`commcalc/router.py` 17823-17824): the delete and the update are by id
  alone (17842, 17864, 17875), so a child waived or posted by a manager after the read at 17787 is deleted or changed. `OnlyAStaleRunTouchesForgiven` says by whom.
* "A child management has waived is NEVER resurrected, replaced, or re-posted" (17822-17823): only the wanted key is looked at for a
  waiver (17832-17835), so after an edit of the policy the forgiven overflow is inserted anew on the other leg.
* "Once settled, sum(covered) <= basis so it's a no-op" (17946): children carried into the month deduct as well
  (17656-17658) and no settlement splits them; the cap drops what does not fit. The deduction is not in the model.

* A run that outlasts the threshold and was overtaken frees its successor's slot when it ends: the stamp
  (`commcalc/router.py` 17478) does not compare `calc_run_id`, while 16059-16061 says that only a row older than
  the threshold may be claimed. The theorems assume `MaxRun <= StaleAfter`.
* `recompute_rep` between a full run's delete and insert finds no row and inserts one (24093), against
  "update the stored row in place, else insert" (24039-24040): the rep ends with two rows.
* "An all-$0 result computed FROM real sales must never replace a snapshot that currently pays someone" in plan mode (17201-17202): a count of paying
  rows that raises is taken for zero (17214-17215), and the result then does. Nor does the check see a row that a one-rep
  recalculation writes between the count and the delete. Outside that sentence, an all-zero result of a Boost month, one from no sales, and a
  result without rows replace a paying month unasked (17207). `ZeroNeverWipesPay` is stated for results the check judges, a
  count that did not fail, and rows of full calculations.
* A failed read of the stored rows counts as none for `recompute_rep` (24075-24076), which then inserts a second row of the rep. `OneRowPerRep` is
  proved for a month in which nobody recalculates one rep.
* A calculation deletes its month and inserts it again in other calls (17226-17228): a process that dies, or an insert that fails, in between leaves a
  month with less than was stored until somebody calculates it again. After a failure the status row says so; after a death, the landing that asked for the calculation is no longer queued.
* "A request queued before a restart is picked up by the next boot's poller" (`auto_calc.py` 805) is true until it
  is claimed: the claim clears it (723) before the calculation runs. `LostOnlyByMishap` names the step.
* An inbox decision that fails between the permission and the punch is finished by a retry that finds
  the permission decided, skips the punch and stamps the request; `approvals/engine.py` 171 says "nothing half-applied".
* "The durable claim already keeps two processes apart" (`derived_builds.py` 355): the claim clears the
  request, so a landing during a build lets another process claim and build at the same time, and a press of Rebuild
  asks nobody. `NeverDoubled` is therefore stated for the threads of one process.
* An incident that is waived after its settlement keeps its posted child, which goes on deducting: the settlement reads posted
  incidents only (17747) and no decision looks at children.
* A waived child on the wanted key stops the whole reconciliation of its incident (17834-17835), so one of ours left on the other key stays
  and its amount is never brought up to date. A `next_cycle` child that is posted again at the closing endpoint gets its incident's month
  (`closing/ops_chargebacks.py` 379-380), no longer counts as ours, is not on the wanted key, and the settlement inserts another beside it. `SettledIsExact` is stated for incidents none of whose
  children a manager has decided.
* A policy that cannot be read counts as payroll (17623-17624), and a settlement then moves the child of a
  `next_cycle` reason to payroll, until the next run moves it back.
* `decide_chargeback` "posts or waives one pending chargeback" (`closing/ops_chargebacks.py` 361) and updates by id whatever the status is.
* An RPC of the usage counters that committed and whose answer was lost is restored and added again (`usage_flush.py` 59-61),
  while migration 974, 87-90, says an ambiguous call is not restored.
* "Put the counts BACK so a database blip loses no usage" (`usage_flush.py` 60): the RPC swallows the exception of a row, whatever it
  was (migration 974, 129-131, with "a bad org_id/date cast" in mind), skips a malformed one (107-109), and reports how many it took; `flush_now` looks only at
  whether the call raised (57-58), so such a count is gone under a successful RPC. `CountedIsAccounted` names it (`swallowed`).
* "A row waiting in this buffer must therefore still count" (`ai_meter.py` 61-66): it does, and yet rows that a flush has
  drained and not inserted, or that move from buffer to table between the guard's two reads, are in neither.
  `QuietCallKeepsTheCap` is stated for a look no flush disturbs.
* `_staging_available` takes any error for a missing table (`asset/router.py` 49-59), so one failed probe sends an upload
  down the direct path, where a failed batch leaves a partial ledger, although the migration is there (its lines 10-12).
* A swap whose answer is lost has replaced the ledger and is reported as a failure (149-167). So has one that copied another number of
  rows than the upload staged: the comparison (175-178) comes after the commit, while the docstring (124-125) promises it of a failure to stage only.
* "Refuses [...] if staging is empty for the org, or if p_expected_rows is given and doesn't match what's actually staged" (migration 300, 60-62): the
  count, the delete and the copy are statements of their own, at READ COMMITTED. A clear of another upload that commits between
  the count and the copy leaves an empty ledger, a batch staged there an overfull one, and the upload then says that it failed. The migration puts
  concurrent uploads out of its scope (33-36); an insert that lands late does the same to a single upload. `FullCount` and `WholeLedger` say that it takes
  a call inside an open swap (`crossed`).
* A flush of `stop()` that fails restores its counts after the last chance to write them (`usage_flush.py` 126-137).
* "Can't see a holder and can't claim - do not invent a refusal" (`commcalc/router.py` 16153): a run whose first-ever INSERT committed
  and then raised claims again, finds its own fresh row, and is refused; so is everybody else until the threshold has passed, and
  nobody works (16142-16158). `RefusalHasCause` names it (`orphaned`).
* `auto_calc` creating the row between a first claim and its look makes the guard
  refuse a calculation nobody else is doing (16132-16133); the landing's own queue recovers it.
* After failing open the button's task gets no token and acquires again
  (17108 against 16066), so it may be refused after the caller was told it started.
* The claim's docstring (718-720) equates "no landing since the scan" with a
  comparison of times; with clocks of different processes it is only sufficient
  for what `NoLandingForgotten` needs.
* Two landers that read the pending list at once leave only one of
  them in it (578-580 against 356-357): the calculation still happens, the report of
  what landed, and the anchor of the longest wait, lose an entry.
* Two managers who decide differently at the same time can leave different words
  on permission, punch and request; nothing promises otherwise. A clock-out that
  crosses an approval leaves an approved session without hours (`crossed`).
* The closing board's decision has no pending guard although its effect says the
  caller guards (`closing/router.py` 11811-11845).
* "A punch is closed at most once" (`storeops/router.py` 7147) rests on an unconditional
  update (7127).

## 7. What the models leave out

* *Guard*: minutes (ages count), the skew between the clocks of two processes, rows
  written before `calc_started_at` existed other than through the fail-open path,
  other months and orgs.
* *Run*: the arithmetic of pay, flag persistence, installment ledgers; batches larger than one rep; the details of a failed
  insert of chargebacks beyond its save error. A failed load and a failed
  preparation are one outcome, `error`. Why an all-zero result is not judged (Boost, no sales, forced) is not told apart; the refusal of an unconfigured
  tenant (17181-17199) ends like the zero-wipe guard's, in `error` with nothing written.
* *AutoCalc*: a slot that fails open, or refuses everybody for a lost INSERT (the guard's module has both), the in-process fallback for databases before migration 1030, the cap on the list of
  landings (only its report is capped), operator sentences. Of the calculation it keeps the inputs, the delete, the insert (one, of all rows) and the end. The run's instance has one upset, so a press of the button
  together with a death is covered by the theorems only.
* *DerivedBuilds*: the debounce (any pending request may be due), the list of landings, the outcome record, the in-process
  queue before migration 1100, the builds other than the recovery ledger (the payable ledger per carrier, the bounty flags), an
  insert that lands after its process died. A failed build counts as answered, because the code records it and tries nothing again.
* *UsageFlush*: the classes and days of a counter (each call is one row's), pricing.
* *AiMeter*: the daily caps and token counts beside the hourly one (same reads, same comparison), rows older than the window,
  configuration caches, a row without an organisation (refused before the buffer), pricing.
* *AssetLedger*: files with different numbers of batches (the count could then tell more apart), what happens after
  the swap (backfills, flag syncs, the landing hook), other tenants.
* *OpsSettlement*: the sweeps that detect incidents, several persons and how names are matched to them, cents, reasons (one stands for all, so one
  policy), the deduplication of the read side (17710-17724). The window between
  a calculation's delete and insert of pay is a `Recalculate` to 0.
* *PayrollApproval*: the payer of a row and its routing, the frozen figures of a sign-off, notes and reasons (a figure without a
  reason is a refusal), several employees in one call, adjustments below zero, pay rates, the statement's text, and who may
  decide. The statement's hours are those of the listing; the properties say whether it goes out, not what it shows.
* *SecondSession*: late clock-outs, ordinary punches and the forced clock-out of one, when a shift ends
  (a held session may be overdue at any time), other approval types, `cancel_request` (nothing calls it), notifications and
  events, who may decide (access is checked before the protocol starts).

## 8. Plan

What remains, in this order, each with its own module, runs and proofs:

1. `TimeClock`: ordinary punches, late clock-outs and their permission, the forced clock-out of either, composed with `SecondSession`, and with
   `PayrollApproval`, whose computed hours they are.
2. `TTLCache` and the database retry; then point of sale.
