----------------------------- MODULE OpsSettlement -----------------------------
(***************************************************************************)
(* Settlement of the posted ops chargebacks of one person: commission      *)
(* absorbs each incident up to what the month pays, in order; what is left *)
(* overflows into a child row, to payroll or to the next commission month. *)
(* Every Calculate ends with a settlement and a button runs it on demand,  *)
(* so two may overlap; each write is a statement of its own whose failure  *)
(* is swallowed.  Managers decide incidents and children meanwhile, and a  *)
(* recalculation changes what the month pays.                              *)
(*                                                                         *)
(* Money is whole units: the code rounds every figure to cents.  Another   *)
(* person's rows share nothing with these but the order of the loop.  The  *)
(* two reads that make the pay (payouts, legacy chargebacks) are one.      *)
(***************************************************************************)
EXTENDS Integers, FiniteSets

CONSTANTS Count,      \* the incidents, numbered in the order of (incident_date, id)
          Amount,     \* what each incident charges
          Month,      \* the commission month each incident is posted to
          Months,     \* the commission months 1..Months
          Pays,       \* what a month may pay
          Opening,    \* the statuses incidents may have at the outset
          Policies,   \* the policies at the outset
          Runs,       \* the settlements that may overlap
          Ids,        \* the ids of child rows
          Changes,    \* bound on decisions, waivers, recalculations, policy edits
          Mishaps     \* bound on failing calls and deaths

Parents == 1..Count

ASSUME SettlementAssumption ==
    /\ {Count, Changes, Mishaps} \cup Pays \subseteq Nat
    /\ Months \in Nat \ {0}
    /\ Amount \in [Parents -> Nat]
    /\ Month \in [Parents -> 1..Months]
    /\ Ids \subseteq Nat
    /\ Opening \subseteq {"pending", "posted", "waived"}
    /\ Policies \subseteq {"payroll", "next_cycle"}

VARIABLES status,     \* of each incident: pending, posted or waived
          covered,    \* what commission absorbed of it; Unset until stamped
          kids,       \* the child rows
          basis,      \* what each month pays the person, chargebacks off
          policy,     \* where an overflow goes
          run,        \* the settlements
          settled,    \* months whose last settlement was undisturbed and complete
          changes, budget

vars == <<status, covered, kids, basis, policy, run, settled, changes, budget>>

Unset == -1
Legs == {"payroll", "next_cycle"}

(* The key of a child is its leg; "moved" is the incident's own commission  *)
(* month, where no settlement puts one.  Its word is what a manager decided *)
(* of it: none as long as it is decided by the settlement.                  *)
Kids == [id : Ids, parent : Parents, leg : Legs \cup {"moved"}, amount : Int,
         word : {"none", "waived", "posted"}]
PCs == {"idle", "pay", "policy", "kids", "stamp", "reconcile", "done"}

SettlementTypeOK ==
    /\ status \in [Parents -> {"pending", "posted", "waived"}]
    /\ covered \in [Parents -> Nat \cup {Unset}]
    /\ kids \in SUBSET Kids
    /\ basis \in [1..Months -> Nat]
    /\ policy \in Legs
    /\ run \in [Runs -> [pc : PCs, month : 1..Months, rows : SUBSET Parents,
                         seen : [Parents -> Nat \cup {Unset}], left : Nat, leg : Legs,
                         known : SUBSET Kids, todo : SUBSET Kids, rest : Nat,
                         failed : BOOLEAN, stale : BOOLEAN, calm : BOOLEAN, wrote : BOOLEAN]]
    /\ settled \in [1..Months -> BOOLEAN]
    /\ {changes, budget} \subseteq Nat

(* stale: something it rests on changed since it began; calm: it began on   *)
(* a settled month; both are history, as wrote is for the counter of writes.*)
Idle == [pc |-> "idle", month |-> 1, rows |-> {}, seen |-> [p \in Parents |-> Unset], left |-> 0,
         leg |-> "payroll", known |-> {}, todo |-> {}, rest |-> 0,
         failed |-> FALSE, stale |-> FALSE, calm |-> FALSE, wrote |-> FALSE]

SettlementInit ==
    /\ status \in [Parents -> Opening]
    /\ covered = [p \in Parents |-> Unset]
    /\ kids = {}
    /\ basis \in [1..Months -> Pays]
    /\ policy \in Policies
    /\ run = [r \in Runs |-> Idle]
    /\ settled = [m \in 1..Months |-> FALSE]
    /\ changes = Changes
    /\ budget = Mishaps

Posted(m) == {p \in Parents : Month[p] = m /\ status[p] = "posted"}
KidsOf(p) == {k \in kids : k.parent = p}
Mishap == budget > 0 /\ budget' = budget - 1

Working(ms) == {r \in Runs : run[r].pc # "idle" /\ run[r].month \in ms}
Outdated(S) == [r \in Runs |-> [run[r] EXCEPT !.stale = @ \/ r \in S]]

-----------------------------------------------------------------------------
(* What people and the calculation change under a settlement.               *)

Change(ms) ==
    /\ changes > 0
    /\ changes' = changes - 1
    /\ run' = Outdated(Working(ms))
    /\ settled' = [m \in 1..Months |-> settled[m] /\ m \notin ms]

(* decide_chargeback: whatever the row's status is by now.                  *)
DecideIncident(p, decision) ==
    /\ Change({Month[p]})
    /\ status' = [status EXCEPT ![p] = decision]
    /\ UNCHANGED <<covered, kids, basis, policy, budget>>

(* A decided child: to post it is to date it to the month of its incident.  *)
Decided(k, decision) ==
    [k EXCEPT !.word = decision,
              !.leg = IF decision = "posted" /\ k.leg = "next_cycle" THEN "moved" ELSE @]

(* The same endpoint takes the id of a child; decide_payroll_chargeback can *)
(* waive one on the payroll leg.  The unique key may refuse the move.       *)
DecideChild(k, decision) ==
    /\ \A j \in kids \ {k} : j.parent = k.parent => j.leg # Decided(k, decision).leg
    /\ Change({Month[k.parent]})
    /\ kids' = (kids \ {k}) \cup {Decided(k, decision)}
    /\ UNCHANGED <<status, covered, basis, policy, budget>>

(* A calculation, or a chargeback item, changes what the month pays.        *)
Recalculate(m, pay) ==
    /\ Change({m})
    /\ basis' = [basis EXCEPT ![m] = pay]
    /\ UNCHANGED <<status, covered, kids, policy, budget>>

SetPolicy(leg) ==
    /\ Change(1..Months)
    /\ policy' = leg
    /\ UNCHANGED <<status, covered, kids, basis, budget>>

-----------------------------------------------------------------------------
(* _settle_ops_chargebacks: the reads.                                      *)

ReadParents(r, m) ==
    /\ run[r].pc = "idle"
    /\ Posted(m) # {}
    /\ run' = [run EXCEPT ![r] = [Idle EXCEPT !.pc = "pay", !.month = m, !.rows = Posted(m),
                                              !.seen = covered, !.calm = settled[m]]]
    /\ UNCHANGED <<status, covered, kids, basis, policy, settled, changes, budget>>

ReadPay(r) ==
    /\ run[r].pc = "pay"
    /\ run' = [run EXCEPT ![r].pc = "policy", ![r].left = basis[run[r].month]]
    /\ UNCHANGED <<status, covered, kids, basis, policy, settled, changes, budget>>

ReadPolicy(r) ==
    /\ run[r].pc = "policy"
    /\ run' = [run EXCEPT ![r].pc = "kids", ![r].leg = policy]
    /\ UNCHANGED <<status, covered, kids, basis, policy, settled, changes, budget>>

(* An error reads as no policy, that is payroll.                            *)
PolicyFails(r) ==
    /\ Mishap
    /\ run[r].pc = "policy"
    /\ run' = [run EXCEPT ![r].pc = "kids", ![r].leg = "payroll", ![r].failed = TRUE, ![r].stale = TRUE]
    /\ UNCHANGED <<status, covered, kids, basis, policy, settled, changes>>

ReadKids(r) ==
    /\ run[r].pc = "kids"
    /\ run' = [run EXCEPT ![r].pc = "stamp", ![r].known = {k \in kids : k.parent \in run[r].rows}]
    /\ UNCHANGED <<status, covered, kids, basis, policy, settled, changes, budget>>

(* An error reads as no children.                                           *)
KidsFail(r) ==
    /\ Mishap
    /\ run[r].pc = "kids"
    /\ run' = [run EXCEPT ![r].pc = "stamp", ![r].failed = TRUE]
    /\ UNCHANGED <<status, covered, kids, basis, policy, settled, changes>>

-----------------------------------------------------------------------------
(* The loop over the incidents: stamp, retract, then the child.             *)

Current(r) == CHOOSE p \in run[r].rows : \A q \in run[r].rows : p <= q

(* r goes on as v; a change of the tables by a stale run unsettles the      *)
(* month and whoever else works on it.                                      *)
Goto(r, v, changed) ==
    LET m == run[r].month
        upset == run[r].stale /\ changed
    IN /\ run' = [Outdated(IF upset THEN Working({m}) ELSE {}) EXCEPT ![r] = v]
       /\ settled' = [settled EXCEPT ![m] = @ /\ ~upset]

(* Mutant: commission is not capped by what is left of it.                  *)
ShareUncapped(r) == run[r].left

Share(r) == IF run[r].left < Amount[Current(r)] THEN run[r].left ELSE Amount[Current(r)]

(* Mutant: what an incident absorbed stays available to the next.           *)
LeftAfterNothing(r) == run[r].left

LeftAfter(r) == run[r].left - Share(r)

Rest(r) == Amount[Current(r)] - Share(r)

(* Mutant: a child is ours whoever decided it.                              *)
MineAll(k) == TRUE

Mine(k) == k.word = "none"

Known(r) == {k \in run[r].known : k.parent = Current(r)}
Target(r) == {k \in Known(r) : k.leg = run[r].leg}

(* Ours on other keys, or all of ours if nothing is left; none when the     *)
(* wanted one was forgiven.                                                 *)
Retracted(r) ==
    LET rest == Rest(r)
    IN IF rest > 0 /\ \E k \in Target(r) : k.word = "waived" THEN {}
       ELSE {k \in Known(r) : Mine(k) /\ (rest = 0 \/ k.leg # run[r].leg)}

(* The incident is done: the next one, or the end.                          *)
NextRow(r, v) ==
    LET left == v.rows \ {Current(r)}
    IN [v EXCEPT !.rows = left, !.todo = {}, !.rest = 0, !.pc = IF left = {} THEN "done" ELSE "stamp"]

(* What v, between its writes for an incident, still owes the child.        *)
InsertDue(r, v) == v.rest > 0 /\ Target(r) = {}
UpdateDue(r, v) == v.rest > 0 /\ \E k \in Target(r) : Mine(k) /\ k.amount # v.rest

Onward(r, v) == IF v.todo = {} /\ ~InsertDue(r, v) /\ ~UpdateDue(r, v) THEN NextRow(r, v) ELSE v

Stamped(r) ==
    Onward(r, [run[r] EXCEPT !.pc = "reconcile", !.left = LeftAfter(r), !.rest = Rest(r), !.todo = Retracted(r)])

(* Mutant: every run stamps every row.                                      *)
StampDueAlways(r) == TRUE

StampDue(r) == run[r].seen[Current(r)] # Share(r)

Stamp(r) ==
    /\ run[r].pc = "stamp"
    /\ \/ /\ StampDue(r)
          /\ covered' = [covered EXCEPT ![Current(r)] = Share(r)]
          /\ Goto(r, [Stamped(r) EXCEPT !.wrote = TRUE], covered[Current(r)] # Share(r))
       \/ /\ ~StampDue(r)
          /\ UNCHANGED covered
          /\ Goto(r, Stamped(r), FALSE)
    /\ UNCHANGED <<status, kids, basis, policy, changes, budget>>

StampFails(r) ==
    /\ Mishap
    /\ run[r].pc = "stamp"
    /\ StampDue(r)
    /\ Goto(r, [Stamped(r) EXCEPT !.failed = TRUE], FALSE)
    /\ UNCHANGED <<status, covered, kids, basis, policy, changes>>

(* A child is deleted by its id, whatever became of it since it was read.   *)
Retract(r, k) ==
    /\ run[r].pc = "reconcile"
    /\ k \in run[r].todo
    /\ kids' = {j \in kids : j.id # k.id}
    /\ Goto(r, Onward(r, [run[r] EXCEPT !.todo = @ \ {k}, !.wrote = TRUE]), \E j \in kids : j.id = k.id)
    /\ UNCHANGED <<status, covered, basis, policy, changes, budget>>

RetractFails(r, k) ==
    /\ Mishap
    /\ run[r].pc = "reconcile"
    /\ k \in run[r].todo
    /\ Goto(r, Onward(r, [run[r] EXCEPT !.todo = @ \ {k}, !.failed = TRUE]), FALSE)
    /\ UNCHANGED <<status, covered, kids, basis, policy, changes>>

(* Mutant: the table has no unique key over the children.                   *)
NeverClashes(r) == FALSE

(* The unique key (parent, leg, month) over the children.                   *)
Clashes(r) == \E k \in KidsOf(Current(r)) : k.leg = run[r].leg

(* An id that neither the table nor a settlement holds.  Which one is of no *)
(* account, so every incident draws from ids of its own, in order.          *)
Held == {k.id : k \in kids \cup UNION {run[r].known : r \in Runs}}
Free(p) == {i \in Ids \ Held : i % Count = p % Count}
FirstFree(p, i) == i \in Free(p) /\ \A j \in Free(p) : i <= j

InsertChild(r) ==
    /\ run[r].pc = "reconcile"
    /\ run[r].todo = {}
    /\ InsertDue(r, run[r])
    /\ \/ /\ Clashes(r)
          /\ UNCHANGED kids
          /\ Goto(r, NextRow(r, run[r]), FALSE)
       \/ /\ ~Clashes(r)
          /\ \E i \in Ids :
                /\ FirstFree(Current(r), i)
                /\ kids' = kids \cup {[id |-> i, parent |-> Current(r), leg |-> run[r].leg,
                                        amount |-> run[r].rest, word |-> "none"]}
          /\ Goto(r, [NextRow(r, run[r]) EXCEPT !.wrote = TRUE], TRUE)
    /\ UNCHANGED <<status, covered, basis, policy, changes, budget>>

(* The amount is set by id, decided by now or not.                          *)
UpdateChild(r) ==
    /\ run[r].pc = "reconcile"
    /\ run[r].todo = {}
    /\ UpdateDue(r, run[r])
    /\ LET mine == {k.id : k \in Target(r)}
       IN /\ kids' = {IF k.id \in mine THEN [k EXCEPT !.amount = run[r].rest] ELSE k : k \in kids}
          /\ Goto(r, [NextRow(r, run[r]) EXCEPT !.wrote = TRUE],
                  \E k \in kids : k.id \in mine /\ k.amount # run[r].rest)
    /\ UNCHANGED <<status, covered, basis, policy, changes, budget>>

ChildFails(r) ==
    /\ Mishap
    /\ run[r].pc = "reconcile"
    /\ run[r].todo = {}
    /\ InsertDue(r, run[r]) \/ UpdateDue(r, run[r])
    /\ Goto(r, [NextRow(r, run[r]) EXCEPT !.failed = TRUE], FALSE)
    /\ UNCHANGED <<status, covered, kids, basis, policy, changes>>

Finish(r) ==
    /\ run[r].pc = "done"
    /\ settled' = [settled EXCEPT ![run[r].month] = @ \/ ~(run[r].failed \/ run[r].stale)]
    /\ run' = [run EXCEPT ![r] = Idle]
    /\ UNCHANGED <<status, covered, kids, basis, policy, changes, budget>>

(* The process dies, or the read of the pay raises out of the settlement.   *)
Die(r) ==
    /\ Mishap
    /\ run[r].pc \notin {"idle", "done"}
    /\ run' = [run EXCEPT ![r] = Idle]
    /\ UNCHANGED <<status, covered, kids, basis, policy, settled, changes>>

-----------------------------------------------------------------------------

PeopleStep ==
    \/ \E p \in Parents, d \in {"posted", "waived"} : status[p] # d /\ DecideIncident(p, d)
    \/ \E k \in kids, d \in {"waived", "posted"} : Decided(k, d) # k /\ DecideChild(k, d)
    \/ \E m \in 1..Months, pay \in Pays : basis[m] # pay /\ Recalculate(m, pay)
    \/ \E leg \in Legs \ {policy} : SetPolicy(leg)

ReadStep(r) ==
    \/ \E m \in 1..Months : ReadParents(r, m)
    \/ ReadPay(r) \/ ReadPolicy(r) \/ PolicyFails(r) \/ ReadKids(r) \/ KidsFail(r)

WriteStep(r) ==
    \/ Stamp(r) \/ StampFails(r)
    \/ \E k \in run[r].todo : Retract(r, k) \/ RetractFails(r, k)
    \/ InsertChild(r) \/ UpdateChild(r) \/ ChildFails(r)

SettlementNext ==
    \/ PeopleStep
    \/ \E r \in Runs : ReadStep(r) \/ WriteStep(r) \/ Finish(r) \/ Die(r)

SettlementSpec == SettlementInit /\ [][SettlementNext]_vars

-----------------------------------------------------------------------------
(* What a settled month owes.                                               *)

(* The units of money that these incidents charge together, ...             *)
Units(S) == UNION {{q} \X (1 .. Amount[q]) : q \in S}

(* ... and how many the earlier ones of the month do.                       *)
Earlier(p) == Cardinality(Units({q \in Posted(Month[p]) : q < p}))

(* The share of an incident: what the earlier ones leave of the pay.        *)
FairShare(p) ==
    LET left == basis[Month[p]] - Earlier(p)
    IN IF left < 0 THEN 0 ELSE IF left < Amount[p] THEN left ELSE Amount[p]

FairOverflow(p) ==
    IF FairShare(p) < Amount[p] THEN {<<policy, Amount[p] - FairShare(p)>>} ELSE {}

(* The settlement that ran last undisturbed and complete (17727-17745)      *)
(* leaves each posted incident split exactly: commission has absorbed the   *)
(* share that the earlier incidents leave of the pay, and, unless a manager *)
(* decided a child, the rest is in one child on the leg of the policy.      *)
(* What earlier runs left half done, failed to write or wrote at the same   *)
(* time makes no difference.                                                *)
SettledIsExact ==
    \A m \in 1..Months : settled[m] =>
        \A p \in Posted(m) :
            /\ covered[p] = FairShare(p)
            /\ (\A k \in KidsOf(p) : k.word = "none") =>
                  /\ {<<k.leg, k.amount>> : k \in KidsOf(p)} = FairOverflow(p)
                  /\ Cardinality(KidsOf(p)) <= 1

(* A settled month stands still under settlements: one that began on the    *)
(* same figures, before or after, moves nothing when it goes on ("a re-run  *)
(* converges to the same rows", 17737).                                     *)
SettledStandsStill ==
    [][\A m \in 1..Months : settled[m] /\ settled'[m] =>
          \A p \in Parents : Month[p] = m =>
              covered'[p] = covered[p] /\ KidsOf(p)' = KidsOf(p)]_vars

(* ... and a run that begins on a settled month sends no write at all       *)
(* ("performs ZERO writes once settled", 17737), unless what it rests on    *)
(* changes under it, or the policy, which then counts as payroll, cannot be *)
(* read.  A failed read of the children is no exception.                    *)
SecondPassWritesNothing ==
    \A r \in Runs : run[r].calm /\ ~run[r].stale => ~run[r].wrote

(* Whatever overlaps, fails or is waived, no child charges more than its    *)
(* incident or less than something, and commission never absorbs more than  *)
(* the incident (17806, 17809).                                             *)
OverflowWithinIncident ==
    /\ \A k \in kids : 0 < k.amount /\ k.amount <= Amount[k.parent]
    /\ \A p \in Parents : covered[p] <= Amount[p]

(* What a manager has decided about a child is changed or removed only by   *)
(* people, or by a settlement that had read the child before they decided;  *)
(* any other leaves it alone ("a waived or foreign child is never touched", *)
(* 17822-17824, 17838).                                                     *)
OnlyAStaleRunTouchesForgiven ==
    [][\A k \in kids : k.word # "none" /\ k \notin kids' =>
          \/ changes' < changes
          \/ \E r \in Runs : /\ run[r].stale
                             /\ \E j \in run[r].known : j.id = k.id /\ j.word = "none"]_vars
=============================================================================
