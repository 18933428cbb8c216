------------------------- MODULE OpsSettlement_proofs --------------------------
(* Proofs about OpsSettlement, for any incidents, amounts, months, overlapping *)
(* settlements, changes and mishaps.                                           *)
EXTENDS OpsSettlement, FiniteSetTheorems, WellFoundedInduction, TLAPS

RunRec == [pc : PCs, month : 1..Months, rows : SUBSET Parents,
           seen : [Parents -> Nat \cup {Unset}], left : Nat, leg : Legs,
           known : SUBSET Kids, todo : SUBSET Kids, rest : Nat,
           failed : BOOLEAN, stale : BOOLEAN, calm : BOOLEAN, wrote : BOOLEAN]

First(S) == CHOOSE p \in S : \A q \in S : p <= q

OneKey(K) == \A j, k \in K : j.parent = k.parent /\ j.leg = k.leg => j = k

(* What a settlement holds is of its month; it retracts only what it read   *)
(* as its own, and the rest it hands on is part of its current incident.    *)
RunOK(v) ==
    /\ v \in RunRec
    /\ v.pc \notin {"idle", "done"} => v.rows # {}
    /\ v.pc \in {"idle", "pay", "policy", "kids"} => v.known = {}
    /\ \A p \in v.rows : Month[p] = v.month
    /\ \A k \in v.known : Month[k.parent] = v.month
    /\ v.pc = "reconcile" => v.rest <= Amount[First(v.rows)]
    /\ \A k \in v.todo : k \in v.known /\ k.word = "none"
    /\ OneKey(v.known)

(* The table: ids and keys are unique, amounts are parts of the incident.   *)
TableOK ==
    /\ kids \in SUBSET Kids
    /\ \A j, k \in kids : j.id = k.id => j = k
    /\ OneKey(kids)
    /\ \A k \in kids : 0 < k.amount /\ k.amount <= Amount[k.parent]

(* A row and what a settlement read under its id are the same child; if it  *)
(* was decided in between, the settlement is stale.                         *)
LinkOK(v) ==
    \A k \in kids, j \in v.known : j.id = k.id =>
        /\ j.parent = k.parent
        /\ ~v.stale => j.leg = k.leg /\ j.word = k.word

CoveredOK == covered \in [Parents -> Nat \cup {Unset}] /\ \A p \in Parents : covered[p] <= Amount[p]

PlainOK ==
    /\ status \in [Parents -> {"pending", "posted", "waived"}]
    /\ basis \in [1..Months -> Nat]
    /\ policy \in Legs
    /\ settled \in [1..Months -> BOOLEAN]
    /\ changes \in Nat /\ budget \in Nat

RunsOK == run \in [Runs -> RunRec] /\ \A r \in Runs : RunOK(run[r])
LinksOK == \A r \in Runs : LinkOK(run[r])

SettlementInv == PlainOK /\ CoveredOK /\ TableOK /\ RunsOK /\ LinksOK

LEMMA InvType == SettlementInv => SettlementTypeOK
BY DEF SettlementInv, SettlementTypeOK, PlainOK, CoveredOK, TableOK, RunsOK, RunRec

LEMMA InvWithin == SettlementInv => OverflowWithinIncident
BY DEF SettlementInv, OverflowWithinIncident, CoveredOK, TableOK

(* A set of incidents that is not empty has a first: the intervals up to    *)
(* its members are finite sets, and one of them contains no other.          *)
LEMMA FirstIn ==
    ASSUME NEW S, S \subseteq Parents, S # {}
    PROVE  First(S) \in S /\ First(S) \in Parents /\ \A q \in S : First(S) <= q
<1> DEFINE T == {1..p : p \in S}
<1>1. S \subseteq Nat
  BY SettlementAssumption DEF Parents
<1>2. /\ T \subseteq FiniteSubsetsOf(Nat)
      /\ T # {}
  <2>1. ASSUME NEW p \in S PROVE IsFiniteSet(1..p) /\ 1..p \subseteq Nat
    <3>1. p \in Int /\ 1 \in Int
      BY <1>1, <2>1
    <3>2. IsFiniteSet(1..p)
      BY <3>1, FS_Interval, Zenon
    <3> QED BY <3>1, <3>2
  <2> QED BY <2>1 DEF FiniteSubsetsOf
<1>3. PICK x \in T : \A y \in T : ~(<<y, x>> \in StrictSubsetOrdering(Nat))
  <2> HIDE DEF T
  <2> QED BY <1>2, FS_StrictSubsetOrderingWellFounded, WFMin
<1>4. PICK m \in S : x = 1..m
  OBVIOUS
<1>5. ASSUME NEW q \in S PROVE m <= q
  <2>1. ~(1..q \subseteq 1..m /\ 1..q # 1..m)
    <3>1. 1..q \in SUBSET Nat /\ 1..m \in SUBSET Nat
      BY <1>1
    <3>2. ~(<<1..q, 1..m>> \in StrictSubsetOrdering(Nat))
      BY <1>3, <1>4, Zenon
    <3>3. <<1..q, 1..m>>[1] = 1..q /\ <<1..q, 1..m>>[2] = 1..m
      OBVIOUS
    <3>4. <<1..q, 1..m>> \in (SUBSET Nat) \X (SUBSET Nat)
      BY <3>1
    <3> QED BY <3>2, <3>3, <3>4, Zenon DEF StrictSubsetOrdering
  <2>2. m \in Nat /\ q \in Nat
    BY <1>1
  <2>3. q < m => 1..q \subseteq 1..m /\ m \in 1..m /\ m \notin 1..q
    BY <2>2
  <2> QED BY <2>1, <2>2, <2>3
<1> QED BY <1>5 DEF First

LEMMA CurrentIsFirst == \A r : Current(r) = First(run[r].rows)
BY DEF Current, First

LEMMA IdleOK ==
    /\ RunOK(Idle)
    /\ Idle.known = {}
BY SettlementAssumption DEF RunOK, Idle, RunRec, PCs, Legs, OneKey, Unset, Parents

(* v is r gone on: well formed, at work, holding what r holds.              *)
Continues(r, v) ==
    /\ RunOK(v)
    /\ v.known = run[r].known
    /\ v.stale = run[r].stale

LEMMA CurrentIn ==
    ASSUME SettlementInv, NEW r \in Runs, run[r].pc \in {"stamp", "reconcile"}
    PROVE  Current(r) \in run[r].rows /\ Current(r) \in Parents
<1>1. run[r].rows \subseteq Parents /\ run[r].rows # {}
  BY DEF SettlementInv, RunsOK, RunOK, RunRec
<1> QED BY <1>1, FirstIn, CurrentIsFirst

(* The share is part of the pay that is left and of the incident.           *)
LEMMA ShareFits ==
    ASSUME SettlementInv, NEW r \in Runs, run[r].pc = "stamp"
    PROVE  /\ Share(r) \in Nat /\ Share(r) <= Amount[Current(r)]
           /\ LeftAfter(r) \in Nat
           /\ Rest(r) \in Nat /\ Rest(r) <= Amount[Current(r)]
<1>1. run[r].left \in Nat
  BY DEF SettlementInv, RunsOK, RunRec
<1>2. Amount[Current(r)] \in Nat
  BY CurrentIn, SettlementAssumption
<1> QED BY <1>1, <1>2 DEF Share, LeftAfter, Rest

LEMMA NextRowContinues ==
    ASSUME SettlementInv, NEW r \in Runs, NEW v, RunOK(v), v.pc = "reconcile"
    PROVE  /\ RunOK(NextRow(r, v))
           /\ NextRow(r, v).known = v.known
           /\ NextRow(r, v).stale = v.stale
<1> DEFINE w == NextRow(r, v)
<1>1. v \in RunRec
  BY DEF RunOK
<1>2. w \in RunRec
  BY <1>1 DEF NextRow, RunRec, PCs
<1>3. /\ w.known = v.known /\ w.stale = v.stale /\ w.month = v.month /\ w.todo = {}
      /\ w.rows = v.rows \ {Current(r)}
      /\ w.pc = IF w.rows = {} THEN "done" ELSE "stamp"
  BY <1>1 DEF NextRow, RunRec
<1>4. RunOK(w)
  <2> HIDE DEF w
  <2> QED BY <1>2, <1>3 DEF RunOK
<1> QED BY <1>3, <1>4

LEMMA OnwardContinues ==
    ASSUME SettlementInv, NEW r \in Runs, NEW v, RunOK(v), v.pc = "reconcile"
    PROVE  /\ RunOK(Onward(r, v))
           /\ Onward(r, v).known = v.known
           /\ Onward(r, v).stale = v.stale
BY NextRowContinues DEF Onward

(* The row a settlement takes up, before it goes on.                        *)
Taken(r) == [run[r] EXCEPT !.pc = "reconcile", !.left = LeftAfter(r), !.rest = Rest(r), !.todo = Retracted(r)]

LEMMA TakenOK ==
    ASSUME SettlementInv, NEW r \in Runs, run[r].pc = "stamp"
    PROVE  RunOK(Taken(r)) /\ Taken(r).pc = "reconcile"
           /\ Taken(r).known = run[r].known /\ Taken(r).stale = run[r].stale
<1> DEFINE v == Taken(r)
<1>1. run[r] \in RunRec /\ RunOK(run[r])
  BY DEF SettlementInv, RunsOK
<1>2. \A k \in Retracted(r) : k \in run[r].known /\ k.word = "none"
  BY DEF Retracted, Known, Mine
<1>3. Retracted(r) \in SUBSET Kids
  BY <1>1, <1>2 DEF RunRec
<1>4. v \in RunRec
  BY <1>1, <1>3, ShareFits DEF RunRec, PCs, Taken
<1>5. /\ v.known = run[r].known /\ v.stale = run[r].stale /\ v.month = run[r].month /\ v.rows = run[r].rows
      /\ v.pc = "reconcile" /\ v.rest = Rest(r) /\ v.todo = Retracted(r)
  BY <1>1 DEF RunRec, Taken
<1>6. RunOK(v)
  <2>1. v.rest <= Amount[First(v.rows)]
    BY <1>5, ShareFits, CurrentIsFirst
  <2> HIDE DEF v
  <2> QED BY <1>1, <1>2, <1>4, <1>5, <2>1 DEF RunOK
<1> QED BY <1>5, <1>6

LEMMA StampedContinues ==
    ASSUME SettlementInv, NEW r \in Runs, run[r].pc = "stamp"
    PROVE  Continues(r, Stamped(r))
<1>1. Stamped(r) = Onward(r, Taken(r))
  BY DEF Stamped, Taken
<1> QED BY <1>1, TakenOK, OnwardContinues DEF Continues

(* Marks of history change nothing that matters.                            *)
LEMMA MarksContinue ==
    ASSUME NEW r \in Runs, NEW v, Continues(r, v)
    PROVE  Continues(r, [v EXCEPT !.wrote = TRUE]) /\ Continues(r, [v EXCEPT !.failed = TRUE])
BY DEF Continues, RunOK, RunRec

LEMMA RetractContinues ==
    ASSUME SettlementInv, NEW r \in Runs, run[r].pc = "reconcile", NEW k
    PROVE  /\ Continues(r, Onward(r, [run[r] EXCEPT !.todo = @ \ {k}, !.wrote = TRUE]))
           /\ Continues(r, Onward(r, [run[r] EXCEPT !.todo = @ \ {k}, !.failed = TRUE]))
<1> DEFINE v == [run[r] EXCEPT !.todo = @ \ {k}, !.wrote = TRUE]
           w == [run[r] EXCEPT !.todo = @ \ {k}, !.failed = TRUE]
<1>1. run[r] \in RunRec /\ RunOK(run[r])
  BY DEF SettlementInv, RunsOK
<1>2. /\ RunOK(v) /\ v.pc = "reconcile" /\ v.known = run[r].known /\ v.stale = run[r].stale
      /\ RunOK(w) /\ w.pc = "reconcile" /\ w.known = run[r].known /\ w.stale = run[r].stale
  BY <1>1 DEF RunOK, RunRec
<1> HIDE DEF v, w
<1>3. Continues(r, Onward(r, v)) /\ Continues(r, Onward(r, w))
  BY <1>2, OnwardContinues DEF Continues
<1> QED BY <1>3 DEF v, w

LEMMA ChildContinues ==
    ASSUME SettlementInv, NEW r \in Runs, run[r].pc = "reconcile"
    PROVE  Continues(r, NextRow(r, run[r]))
BY NextRowContinues DEF Continues, SettlementInv, RunsOK

-----------------------------------------------------------------------------
(* What every step of a settlement has in common.                           *)

Kept == \A s \in Runs : run'[s].known = run[s].known /\ (run[s].stale => run'[s].stale)

LEMMA OutdatedKeeps ==
    ASSUME SettlementInv, NEW S \in SUBSET Runs
    PROVE  /\ Outdated(S) \in [Runs -> RunRec]
           /\ \A s \in Runs : /\ RunOK(Outdated(S)[s])
                              /\ Outdated(S)[s].known = run[s].known
                              /\ run[s].stale \/ s \in S => Outdated(S)[s].stale
<1>1. ASSUME NEW s \in Runs
      PROVE  /\ RunOK(Outdated(S)[s])
             /\ Outdated(S)[s].known = run[s].known
             /\ run[s].stale \/ s \in S => Outdated(S)[s].stale
  <2> DEFINE v == run[s]
             w == Outdated(S)[s]
  <2>1. v \in RunRec /\ RunOK(v)
    BY DEF SettlementInv, RunsOK
  <2>2. w = [v EXCEPT !.stale = @ \/ s \in S]
    BY DEF Outdated
  <2> HIDE DEF v, w
  <2>3. RunOK(w) /\ w.known = v.known /\ w.stale = (v.stale \/ s \in S)
    BY <2>1, <2>2 DEF RunOK, RunRec
  <2> QED BY <2>3 DEF v, w
<1> QED BY <1>1 DEF Outdated, RunOK

LEMMA GotoKeeps ==
    ASSUME SettlementInv, NEW r \in Runs, NEW v, Continues(r, v), NEW c \in BOOLEAN, Goto(r, v, c)
    PROVE  RunsOK' /\ Kept /\ settled' \in [1..Months -> BOOLEAN]
<1> DEFINE S == IF run[r].stale /\ c THEN Working({run[r].month}) ELSE {}
<1>1. S \in SUBSET Runs /\ run' = [Outdated(S) EXCEPT ![r] = v]
  BY DEF Working, Goto
<1> HIDE DEF S
<1>2. run' \in [Runs -> RunRec]
  BY <1>1, OutdatedKeeps DEF Continues, RunOK
<1>3. \A s \in Runs : run'[s] = IF s = r THEN v ELSE Outdated(S)[s]
  BY <1>1, OutdatedKeeps
<1>4. \A s \in Runs : RunOK(run'[s])
  BY <1>1, <1>3, OutdatedKeeps DEF Continues
<1>5. Kept
  <2>1. ASSUME NEW s \in Runs, s = r
        PROVE  run'[s].known = run[s].known /\ (run[s].stale => run'[s].stale)
    BY <1>3, <2>1 DEF Continues
  <2>2. ASSUME NEW s \in Runs, s # r
        PROVE  run'[s].known = run[s].known /\ (run[s].stale => run'[s].stale)
    <3>1. run'[s] = Outdated(S)[s]
      BY <1>3, <2>2
    <3> QED BY <1>1, <3>1, OutdatedKeeps
  <2> QED BY <2>1, <2>2, Zenon DEF Kept
<1>6. settled' \in [1..Months -> BOOLEAN]
  <2>1. settled \in [1..Months -> BOOLEAN]
    BY DEF SettlementInv, PlainOK
  <2> QED BY <2>1 DEF Goto
<1>7. RunsOK'
  BY <1>2, <1>4 DEF RunsOK, RunOK, RunRec, OneKey
<1> QED BY <1>5, <1>6, <1>7

(* Rows that keep their id, key and word keep their links.                  *)
LEMMA LinksKept ==
    ASSUME SettlementInv, Kept,
           \A k \in kids' : \E j \in kids : /\ j.id = k.id /\ j.parent = k.parent
                                         /\ j.leg = k.leg /\ j.word = k.word
    PROVE  LinksOK'
<1> SUFFICES ASSUME NEW s \in Runs, NEW k \in kids', NEW j \in run'[s].known, j.id = k.id
             PROVE  /\ j.parent = k.parent
                    /\ ~run'[s].stale => j.leg = k.leg /\ j.word = k.word
  BY DEF LinksOK, LinkOK
<1>1. PICK i \in kids : i.id = k.id /\ i.parent = k.parent /\ i.leg = k.leg /\ i.word = k.word
  OBVIOUS
<1>2. j \in run[s].known /\ LinkOK(run[s])
  BY DEF Kept, SettlementInv, LinksOK
<1> QED BY <1>1, <1>2 DEF LinkOK, Kept

(* A step that rewrites one settlement and leaves the table.                *)
LEMMA OneRun ==
    ASSUME SettlementInv, NEW r \in Runs, NEW v, RunOK(v), LinkOK(v),
           run' = [run EXCEPT ![r] = v], kids' = kids
    PROVE  RunsOK' /\ LinksOK'
<1>1. v \in RunRec /\ run \in [Runs -> RunRec]
  BY DEF RunOK, SettlementInv, RunsOK
<1>2. \A s \in Runs : run'[s] = IF s = r THEN v ELSE run[s]
  BY <1>1
<1>3. RunsOK'
  <2>1. run' \in [Runs -> RunRec]
    BY <1>1
  <2>2. \A s \in Runs : RunOK(run'[s])
    BY <1>2 DEF SettlementInv, RunsOK
  <2> QED BY <2>1, <2>2 DEF RunsOK, RunOK, RunRec, OneKey
<1>4. LinksOK'
  <2>1. \A s \in Runs : LinkOK(run'[s])
    BY <1>2 DEF SettlementInv, LinksOK
  <2> QED BY <2>1 DEF LinksOK, LinkOK
<1> QED BY <1>3, <1>4

LEMMA TableSame == TableOK /\ kids' = kids => TableOK'
BY DEF TableOK, OneKey

LEMMA CoveredSame == CoveredOK /\ covered' = covered => CoveredOK'
BY DEF CoveredOK

LEMMA InitInv == SettlementInit => SettlementInv
<1> SUFFICES ASSUME SettlementInit PROVE SettlementInv
  OBVIOUS
<1>1. PlainOK
  <2>1. Pays \subseteq Nat /\ policy \in Legs
    BY SettlementAssumption DEF SettlementInit, Legs
  <2>2. status \in [Parents -> {"pending", "posted", "waived"}]
    BY SettlementAssumption DEF SettlementInit
  <2>3. basis \in [1..Months -> Nat]
    BY <2>1 DEF SettlementInit
  <2> QED BY <2>1, <2>2, <2>3, SettlementAssumption DEF SettlementInit, PlainOK
<1>2. CoveredOK
  BY SettlementAssumption DEF SettlementInit, CoveredOK, Unset
<1>3. TableOK
  BY DEF SettlementInit, TableOK, OneKey
<1>4. \A r \in Runs : RunOK(run[r]) /\ LinkOK(run[r])
  <2>1. \A r \in Runs : run[r] = Idle
    BY DEF SettlementInit
  <2>2. LinkOK(Idle)
    BY IdleOK DEF LinkOK
  <2>3. RunOK(Idle)
    BY IdleOK
  <2> QED BY <2>1, <2>2, <2>3
<1> QED
  <2>1. run = [r \in Runs |-> Idle]
    BY DEF SettlementInit
  <2> QED BY <1>1, <1>2, <1>3, <1>4, <2>1 DEF SettlementInv, RunsOK, LinksOK, RunOK

-----------------------------------------------------------------------------
(* The steps of people and of the calculation.                              *)

LEMMA ChangeKeeps ==
    ASSUME SettlementInv, NEW ms, Change(ms)
    PROVE  /\ RunsOK' /\ Kept
           /\ \A s \in Working(ms) : run'[s].stale
           /\ settled' \in [1..Months -> BOOLEAN] /\ changes' \in Nat
<1>1. Working(ms) \in SUBSET Runs /\ run' = Outdated(Working(ms))
  BY DEF Working, Change
<1> DEFINE S == Working(ms)
<1> HIDE DEF S
<1>2. S \in SUBSET Runs /\ run' = Outdated(S)
  BY <1>1 DEF S
<1>3. \A s \in Runs : RunOK(run'[s]) /\ run'[s].known = run[s].known
  BY <1>2, OutdatedKeeps
<1>4. \A s \in Runs : run[s].stale \/ s \in S => run'[s].stale
  BY <1>2, OutdatedKeeps
<1>5. run' \in [Runs -> RunRec]
  BY <1>2, OutdatedKeeps
<1>6. RunsOK'
  BY <1>3, <1>5 DEF RunsOK, RunOK, RunRec, OneKey
<1>7. Kept
  BY <1>3, <1>4 DEF Kept
<1>8. settled' \in [1..Months -> BOOLEAN] /\ changes' \in Nat
  <2>1. settled \in [1..Months -> BOOLEAN] /\ changes \in Nat
    BY DEF SettlementInv, PlainOK
  <2> QED BY <2>1 DEF Change
<1> QED BY <1>2, <1>4, <1>6, <1>7, <1>8 DEF S

LEMMA DecideKeeps ==
    ASSUME SettlementInv, NEW k \in kids, NEW d \in {"waived", "posted"}, DecideChild(k, d)
    PROVE  SettlementInv'
<1> DEFINE w == Decided(k, d)
<1>1. /\ kids' = (kids \ {k}) \cup {w} /\ Change({Month[k.parent]})
      /\ \A j \in kids \ {k} : j.parent = k.parent => j.leg # w.leg
  BY DEF DecideChild
<1>2. k \in Kids /\ w \in Kids /\ w.id = k.id /\ w.parent = k.parent /\ w.amount = k.amount
  BY DEF SettlementInv, TableOK, Kids, Decided
<1> HIDE DEF w
<1>3. TableOK'
  <2>1. TableOK
    BY DEF SettlementInv
  <2>2. kids' \in SUBSET Kids
    BY <1>1, <1>2, <2>1 DEF TableOK
  <2>3. ASSUME NEW i \in kids', NEW j \in kids', i.id = j.id PROVE i = j
    BY <1>1, <1>2, <2>1, <2>3 DEF TableOK
  <2>4. ASSUME NEW i \in kids', NEW j \in kids', i.parent = j.parent, i.leg = j.leg PROVE i = j
    BY <1>1, <1>2, <2>1, <2>4 DEF TableOK, OneKey
  <2>5. \A i \in kids' : 0 < i.amount /\ i.amount <= Amount[i.parent]
    BY <1>1, <1>2, <2>1 DEF TableOK
  <2> QED BY <2>2, <2>3, <2>4, <2>5 DEF TableOK, OneKey
<1>4. LinksOK'
  <2> SUFFICES ASSUME NEW s \in Runs, NEW i \in kids', NEW j \in run'[s].known, j.id = i.id
               PROVE  /\ j.parent = i.parent
                      /\ ~run'[s].stale => j.leg = i.leg /\ j.word = i.word
    BY DEF LinksOK, LinkOK
  <2>1. j \in run[s].known /\ LinkOK(run[s]) /\ RunOK(run[s])
    BY <1>1, ChangeKeeps DEF Kept, SettlementInv, LinksOK, RunsOK
  <2>2. CASE i = w
    <3>1. j.parent = k.parent
      BY <1>2, <2>1, <2>2 DEF LinkOK
    <3>2. run[s].month = Month[k.parent] /\ run[s].pc # "idle"
      BY <2>1, <3>1 DEF RunOK
    <3>3. s \in Working({Month[k.parent]})
      BY <3>2 DEF Working
    <3>4. run'[s].stale
      BY <1>1, <3>3, ChangeKeeps
    <3> QED BY <1>2, <2>2, <3>1, <3>4
  <2>3. CASE i # w
    <3>1. i \in kids
      BY <1>1, <2>3
    <3>2. run[s].stale => run'[s].stale
      BY <1>1, ChangeKeeps DEF Kept
    <3> QED BY <2>1, <3>1, <3>2 DEF LinkOK
  <2> QED BY <2>2, <2>3
<1>5. PlainOK' /\ CoveredOK' /\ RunsOK'
  <2>1. PlainOK'
    BY <1>1, ChangeKeeps DEF DecideChild, SettlementInv, PlainOK
  <2>2. CoveredOK'
    BY CoveredSame DEF DecideChild, SettlementInv
  <2> QED BY <1>1, <2>1, <2>2, ChangeKeeps
<1> QED BY <1>3, <1>4, <1>5 DEF SettlementInv

LEMMA PeopleKeep == SettlementInv /\ PeopleStep => SettlementInv'
<1> SUFFICES ASSUME SettlementInv, PeopleStep PROVE SettlementInv'
  OBVIOUS
<1>1. ASSUME NEW ms, Change(ms), kids' = kids, covered' = covered,
             status' \in [Parents -> {"pending", "posted", "waived"}],
             basis' \in [1..Months -> Nat], policy' \in Legs, budget' = budget
      PROVE  SettlementInv'
  <2>1. LinksOK'
    BY <1>1, ChangeKeeps, LinksKept
  <2>2. PlainOK'
    BY <1>1, ChangeKeeps DEF SettlementInv, PlainOK
  <2> QED BY <1>1, <2>1, <2>2, ChangeKeeps, TableSame, CoveredSame DEF SettlementInv
<1>2. ASSUME NEW p \in Parents, NEW d \in {"posted", "waived"}, DecideIncident(p, d)
      PROVE  SettlementInv'
  BY <1>1, <1>2 DEF DecideIncident, SettlementInv, PlainOK
<1>3. ASSUME NEW m \in 1..Months, NEW pay \in Pays, Recalculate(m, pay)
      PROVE  SettlementInv'
  <2>1. pay \in Nat
    BY <1>3, SettlementAssumption
  <2> QED BY <1>1, <1>3, <2>1 DEF Recalculate, SettlementInv, PlainOK
<1>4. ASSUME NEW leg \in Legs, SetPolicy(leg)
      PROVE  SettlementInv'
  BY <1>1, <1>4 DEF SetPolicy, SettlementInv, PlainOK
<1> QED BY <1>2, <1>3, <1>4, DecideKeeps DEF PeopleStep

-----------------------------------------------------------------------------
(* The reads of a settlement, its end and its death.                        *)

LEMMA ReadKeeps == \A r \in Runs : SettlementInv /\ ReadStep(r) => SettlementInv'
<1> SUFFICES ASSUME NEW r \in Runs, SettlementInv, ReadStep(r) PROVE SettlementInv'
  OBVIOUS
<1> DEFINE v == run[r]
<1>0. v \in RunRec /\ RunOK(v) /\ LinkOK(v)
  BY DEF SettlementInv, RunsOK, LinksOK
<1>1. ASSUME NEW w, RunOK(w), LinkOK(w), run' = [run EXCEPT ![r] = w],
             UNCHANGED <<status, covered, kids, basis, policy, settled, changes>>, budget' \in Nat
      PROVE  SettlementInv'
  <2>1. RunsOK' /\ LinksOK'
    BY <1>1, OneRun
  <2>2. PlainOK'
    BY <1>1 DEF SettlementInv, PlainOK
  <2> QED BY <1>1, <2>1, <2>2, TableSame, CoveredSame DEF SettlementInv
<1>2. ASSUME NEW m \in 1..Months, ReadParents(r, m) PROVE SettlementInv'
  <2> DEFINE w == [Idle EXCEPT !.pc = "pay", !.month = m, !.rows = Posted(m), !.seen = covered, !.calm = settled[m]]
  <2>1. Posted(m) \in SUBSET Parents /\ \A p \in Posted(m) : Month[p] = m
    BY DEF Posted
  <2>2. covered \in [Parents -> Nat \cup {Unset}] /\ settled[m] \in BOOLEAN
    BY DEF SettlementInv, CoveredOK, PlainOK
  <2>3. RunOK(w) /\ LinkOK(w)
    BY <1>2, <2>1, <2>2, IdleOK DEF RunOK, RunRec, PCs, OneKey, LinkOK, ReadParents, Idle
  <2>4. budget' \in Nat
    BY <1>2 DEF ReadParents, SettlementInv, PlainOK
  <2> QED BY <1>1, <1>2, <2>3, <2>4 DEF ReadParents
<1>3. ASSUME ReadPay(r) PROVE SettlementInv'
  <2> DEFINE w == [v EXCEPT !.pc = "policy", !.left = basis[run[r].month]]
  <2>1. basis[run[r].month] \in Nat
    BY <1>0 DEF SettlementInv, PlainOK, RunRec
  <2>2. RunOK(w) /\ LinkOK(w)
    BY <1>0, <1>3, <2>1 DEF ReadPay, RunOK, RunRec, PCs, LinkOK
  <2>3. run' = [run EXCEPT ![r] = w] /\ budget' \in Nat
    BY <1>3 DEF ReadPay, SettlementInv, PlainOK, RunsOK
  <2> QED BY <1>1, <1>3, <2>2, <2>3 DEF ReadPay
<1>4. ASSUME ReadPolicy(r) PROVE SettlementInv'
  <2> DEFINE w == [v EXCEPT !.pc = "kids", !.leg = policy]
  <2>1. policy \in Legs
    BY DEF SettlementInv, PlainOK
  <2>2. RunOK(w) /\ LinkOK(w)
    BY <1>0, <1>4, <2>1 DEF ReadPolicy, RunOK, RunRec, PCs, LinkOK
  <2>3. run' = [run EXCEPT ![r] = w] /\ budget' \in Nat
    BY <1>4 DEF ReadPolicy, SettlementInv, PlainOK, RunsOK
  <2> QED BY <1>1, <1>4, <2>2, <2>3 DEF ReadPolicy
<1>5. ASSUME PolicyFails(r) PROVE SettlementInv'
  <2> DEFINE w == [v EXCEPT !.pc = "kids", !.leg = "payroll", !.failed = TRUE, !.stale = TRUE]
  <2>1. RunOK(w) /\ LinkOK(w)
    BY <1>0, <1>5 DEF PolicyFails, RunOK, RunRec, PCs, Legs, LinkOK
  <2>2. run' = [run EXCEPT ![r] = w] /\ budget' \in Nat
    <3>1. run' = [run EXCEPT ![r] = w]
      <4>1. run \in [Runs -> RunRec]
        BY DEF SettlementInv, RunsOK
      <4> QED BY <1>5, <4>1 DEF PolicyFails, RunRec
    <3>2. budget' \in Nat
      BY <1>5 DEF PolicyFails, Mishap, SettlementInv, PlainOK
    <3> QED BY <3>1, <3>2
  <2> QED BY <1>1, <1>5, <2>1, <2>2 DEF PolicyFails
<1>6. ASSUME ReadKids(r) PROVE SettlementInv'
  <2> DEFINE K == {k \in kids : k.parent \in run[r].rows}
             w == [v EXCEPT !.pc = "stamp", !.known = K]
  <2>1. TableOK
    BY DEF SettlementInv
  <2>2. K \in SUBSET Kids /\ OneKey(K) /\ \A k \in K : Month[k.parent] = v.month
    BY <1>0, <2>1 DEF TableOK, OneKey, RunOK
  <2>3. v.todo = {} /\ v.rows # {}
    BY <1>0, <1>6 DEF ReadKids, RunOK, RunRec
  <2>4. RunOK(w)
    BY <1>0, <2>2, <2>3 DEF RunOK, RunRec, PCs
  <2>5. LinkOK(w)
    BY <1>0, <2>1 DEF TableOK, LinkOK, RunRec
  <2>6. run' = [run EXCEPT ![r] = w] /\ budget' \in Nat
    BY <1>6 DEF ReadKids, SettlementInv, PlainOK, RunsOK
  <2> QED BY <1>1, <1>6, <2>4, <2>5, <2>6 DEF ReadKids
<1>7. ASSUME KidsFail(r) PROVE SettlementInv'
  <2> DEFINE w == [v EXCEPT !.pc = "stamp", !.failed = TRUE]
  <2>1. v.rows # {}
    BY <1>0, <1>7 DEF KidsFail, RunOK
  <2>2. RunOK(w) /\ LinkOK(w)
    BY <1>0, <1>7, <2>1 DEF KidsFail, RunOK, RunRec, PCs, LinkOK
  <2>3. run' = [run EXCEPT ![r] = w] /\ budget' \in Nat
    <3>1. run' = [run EXCEPT ![r] = w]
      <4>1. run \in [Runs -> RunRec]
        BY DEF SettlementInv, RunsOK
      <4> QED BY <1>7, <4>1 DEF KidsFail, RunRec
    <3>2. budget' \in Nat
      BY <1>7 DEF KidsFail, Mishap, SettlementInv, PlainOK
    <3> QED BY <3>1, <3>2
  <2> QED BY <1>1, <1>7, <2>2, <2>3 DEF KidsFail
<1> QED BY <1>2, <1>3, <1>4, <1>5, <1>6, <1>7 DEF ReadStep

LEMMA EndKeeps == \A r \in Runs : SettlementInv /\ (Finish(r) \/ Die(r)) => SettlementInv'
<1> SUFFICES ASSUME NEW r \in Runs, SettlementInv, Finish(r) \/ Die(r) PROVE SettlementInv'
  OBVIOUS
<1>1. LinkOK(Idle) /\ RunOK(Idle)
  BY IdleOK DEF LinkOK
<1>2. /\ run' = [run EXCEPT ![r] = Idle]
      /\ UNCHANGED <<status, covered, kids, basis, policy, changes>>
  BY DEF Finish, Die
<1>3. RunsOK' /\ LinksOK'
  BY <1>1, <1>2, OneRun
<1>4. PlainOK'
  <2>1. PlainOK
    BY DEF SettlementInv
  <2>2. settled' \in [1..Months -> BOOLEAN]
    BY <2>1 DEF PlainOK, Finish, Die
  <2>3. budget' \in Nat
    BY <2>1 DEF PlainOK, Finish, Die, Mishap
  <2> QED BY <1>2, <2>1, <2>2, <2>3 DEF PlainOK
<1> QED BY <1>2, <1>3, <1>4, TableSame, CoveredSame DEF SettlementInv

-----------------------------------------------------------------------------
(* The writes of a settlement.                                              *)

(* What is left to show once r has gone on with Goto.                       *)
LEMMA WroteKeeps ==
    ASSUME SettlementInv, NEW r \in Runs, NEW v, Continues(r, v), NEW c \in BOOLEAN, Goto(r, v, c),
           UNCHANGED <<status, basis, policy, changes>>, budget' \in Nat,
           CoveredOK', TableOK', LinksOK'
    PROVE  SettlementInv'
<1>1. RunsOK' /\ settled' \in [1..Months -> BOOLEAN]
  BY GotoKeeps
<1>2. PlainOK'
  BY <1>1 DEF SettlementInv, PlainOK
<1> QED BY <1>1, <1>2 DEF SettlementInv

LEMMA SameTableKeeps ==
    ASSUME SettlementInv, NEW r \in Runs, NEW v, Continues(r, v), NEW c \in BOOLEAN, Goto(r, v, c),
           UNCHANGED <<status, basis, policy, changes, kids>>, budget' \in Nat, CoveredOK'
    PROVE  SettlementInv'
<1>1. LinksOK'
  BY GotoKeeps, LinksKept
<1>2. TableOK'
  BY TableSame DEF SettlementInv
<1> QED BY <1>1, <1>2, WroteKeeps

LEMMA BudgetNat == SettlementInv /\ (Mishap \/ UNCHANGED budget) => budget' \in Nat
BY DEF Mishap, SettlementInv, PlainOK

LEMMA StampKeeps == \A r \in Runs : SettlementInv /\ (Stamp(r) \/ StampFails(r)) => SettlementInv'
<1> SUFFICES ASSUME NEW r \in Runs, SettlementInv, Stamp(r) \/ StampFails(r) PROVE SettlementInv'
  OBVIOUS
<1>1. run[r].pc = "stamp" /\ UNCHANGED <<status, kids, basis, policy, changes>>
  BY DEF Stamp, StampFails
<1>2. budget' \in Nat
  <2>1. Mishap \/ UNCHANGED budget
    BY Zenon DEF Stamp, StampFails
  <2> QED BY <2>1, BudgetNat
<1>3. Continues(r, Stamped(r))
  BY <1>1, StampedContinues
<1>4. /\ Continues(r, [Stamped(r) EXCEPT !.wrote = TRUE])
      /\ Continues(r, [Stamped(r) EXCEPT !.failed = TRUE])
  BY <1>3, MarksContinue
<1>5. CASE /\ covered' = [covered EXCEPT ![Current(r)] = Share(r)]
           /\ Goto(r, [Stamped(r) EXCEPT !.wrote = TRUE], covered[Current(r)] # Share(r))
  <2>1. CoveredOK
    BY DEF SettlementInv
  <2>2. CoveredOK'
    BY <1>1, <1>5, <2>1, ShareFits, CurrentIn DEF CoveredOK
  <2>3. (covered[Current(r)] # Share(r)) \in BOOLEAN
    OBVIOUS
  <2> QED BY <1>1, <1>2, <1>4, <1>5, <2>2, <2>3, SameTableKeeps
<1>6. CASE covered' = covered /\ Goto(r, Stamped(r), FALSE)
  <2>1. CoveredOK'
    BY <1>6, CoveredSame DEF SettlementInv
  <2> QED BY <1>1, <1>2, <1>3, <1>6, <2>1, SameTableKeeps
<1>7. CASE covered' = covered /\ Goto(r, [Stamped(r) EXCEPT !.failed = TRUE], FALSE)
  <2>1. CoveredOK'
    BY <1>7, CoveredSame DEF SettlementInv
  <2> QED BY <1>1, <1>2, <1>4, <1>7, <2>1, SameTableKeeps
<1>8. CASE Stamp(r)
  BY <1>5, <1>6, <1>8 DEF Stamp
<1>9. CASE StampFails(r)
  BY <1>7, <1>9 DEF StampFails
<1> QED BY <1>8, <1>9

LEMMA RetractKeeps ==
    \A r \in Runs : \A k \in run[r].todo :
        SettlementInv /\ (Retract(r, k) \/ RetractFails(r, k)) => SettlementInv'
<1> SUFFICES ASSUME NEW r \in Runs, NEW k \in run[r].todo, SettlementInv,
                    Retract(r, k) \/ RetractFails(r, k)
             PROVE  SettlementInv'
  OBVIOUS
<1>1. /\ run[r].pc = "reconcile"
      /\ UNCHANGED <<status, covered, basis, policy, changes>>
  BY DEF Retract, RetractFails
<1>2. budget' \in Nat
  <2>1. Mishap \/ UNCHANGED budget
    BY Zenon DEF Retract, RetractFails
  <2> QED BY <2>1, BudgetNat
<1>3. CoveredOK'
  BY <1>1, CoveredSame DEF SettlementInv
<1>4. CASE Retract(r, k)
  <2>1. kids' = {j \in kids : j.id # k.id}
    BY <1>4 DEF Retract
  <2>2. TableOK'
    BY <2>1 DEF SettlementInv, TableOK, OneKey
  <2>3. Goto(r, Onward(r, [run[r] EXCEPT !.todo = @ \ {k}, !.wrote = TRUE]), \E j \in kids : j.id = k.id)
    BY <1>4 DEF Retract
  <2>4. (\E j \in kids : j.id = k.id) \in BOOLEAN
    OBVIOUS
  <2>5. Kept
    BY <1>1, <2>3, <2>4, RetractContinues, GotoKeeps
  <2>6. LinksOK'
    BY <2>1, <2>5, LinksKept
  <2> QED BY <1>1, <1>2, <1>3, <2>2, <2>3, <2>4, <2>6, RetractContinues, WroteKeeps
<1>5. CASE RetractFails(r, k)
  <2>1. /\ Goto(r, Onward(r, [run[r] EXCEPT !.todo = @ \ {k}, !.failed = TRUE]), FALSE)
        /\ kids' = kids
    BY <1>5 DEF RetractFails
  <2>2. Continues(r, Onward(r, [run[r] EXCEPT !.todo = @ \ {k}, !.failed = TRUE]))
    BY <1>1, RetractContinues
  <2> QED BY <1>1, <1>2, <1>3, <2>1, <2>2, SameTableKeeps
<1> QED BY <1>4, <1>5

(* The child that is inserted has an id nobody holds, a key nobody has, and *)
(* the rest of the incident.                                                *)
LEMMA InsertKeeps == \A r \in Runs : SettlementInv /\ InsertChild(r) => SettlementInv'
<1> SUFFICES ASSUME NEW r \in Runs, SettlementInv, InsertChild(r) PROVE SettlementInv'
  OBVIOUS
<1>1. /\ run[r].pc = "reconcile" /\ run[r].rest > 0
      /\ UNCHANGED <<status, covered, basis, policy, changes, budget>>
  BY DEF InsertChild, InsertDue
<1>2. budget' \in Nat /\ CoveredOK'
  BY <1>1, CoveredSame DEF SettlementInv, PlainOK
<1>3. /\ Continues(r, NextRow(r, run[r]))
      /\ Continues(r, [NextRow(r, run[r]) EXCEPT !.wrote = TRUE])
  BY <1>1, ChildContinues, MarksContinue
<1>4. CASE kids' = kids /\ Goto(r, NextRow(r, run[r]), FALSE)
  BY <1>1, <1>2, <1>3, <1>4, SameTableKeeps
<1>5. ASSUME ~Clashes(r), NEW i \in Ids, FirstFree(Current(r), i),
             kids' = kids \cup {[id |-> i, parent |-> Current(r), leg |-> run[r].leg,
                                 amount |-> run[r].rest, word |-> "none"]},
             Goto(r, [NextRow(r, run[r]) EXCEPT !.wrote = TRUE], TRUE)
      PROVE  SettlementInv'
  <2> DEFINE k == [id |-> i, parent |-> Current(r), leg |-> run[r].leg,
                   amount |-> run[r].rest, word |-> "none"]
  <2>1. run[r] \in RunRec /\ RunOK(run[r]) /\ TableOK
    BY DEF SettlementInv, RunsOK
  <2>2. Current(r) \in Parents /\ run[r].rest <= Amount[Current(r)]
    BY <1>1, <2>1, CurrentIn, CurrentIsFirst DEF RunOK
  <2>3. /\ k \in Kids /\ k.id = i /\ k.parent = Current(r) /\ k.leg = run[r].leg
        /\ k.amount = run[r].rest /\ k.word = "none"
    BY <2>1, <2>2 DEF Kids, RunRec
  <2>4. i \notin Held /\ kids' = kids \cup {k}
    BY <1>5 DEF FirstFree, Free
  <2>5. \A j \in kids : j.id # i
    BY <2>4 DEF Held
  <2>6. \A s \in Runs : \A j \in run[s].known : j.id # i
    BY <2>4 DEF Held
  <2>7. \A j \in kids : ~(j.parent = k.parent /\ j.leg = k.leg)
    BY <1>5, <2>3 DEF Clashes, KidsOf
  <2> HIDE DEF k
  <2>8. TableOK'
    <3>1. kids' \in SUBSET Kids
      BY <2>1, <2>3, <2>4 DEF TableOK
    <3>2. ASSUME NEW a \in kids', NEW b \in kids', a.id = b.id PROVE a = b
      BY <2>1, <2>3, <2>4, <2>5, <3>2 DEF TableOK
    <3>3. ASSUME NEW a \in kids', NEW b \in kids', a.parent = b.parent, a.leg = b.leg PROVE a = b
      BY <2>1, <2>4, <2>7, <3>3 DEF TableOK, OneKey
    <3>4. \A a \in kids' : 0 < a.amount /\ a.amount <= Amount[a.parent]
      <4>1. 0 < k.amount /\ k.amount <= Amount[k.parent]
        BY <1>1, <2>2, <2>3
      <4> QED BY <2>1, <2>4, <4>1 DEF TableOK
    <3> QED BY <3>1, <3>2, <3>3, <3>4 DEF TableOK, OneKey
  <2>9. Kept
    BY <1>3, <1>5, GotoKeeps
  <2>10. LinksOK'
    <3> SUFFICES ASSUME NEW s \in Runs, NEW a \in kids', NEW j \in run'[s].known, j.id = a.id
                 PROVE  /\ j.parent = a.parent
                        /\ ~run'[s].stale => j.leg = a.leg /\ j.word = a.word
      BY DEF LinksOK, LinkOK
    <3>1. j \in run[s].known /\ LinkOK(run[s]) /\ (run[s].stale => run'[s].stale)
      BY <2>9 DEF Kept, SettlementInv, LinksOK
    <3>2. a \in kids
      BY <2>3, <2>4, <2>6, <3>1
    <3> QED BY <3>1, <3>2 DEF LinkOK
  <2> QED BY <1>1, <1>2, <1>3, <1>5, <2>8, <2>10, WroteKeeps
<1> QED BY <1>4, <1>5, Zenon DEF InsertChild

LEMMA UpdateKeeps == \A r \in Runs : SettlementInv /\ UpdateChild(r) => SettlementInv'
<1> SUFFICES ASSUME NEW r \in Runs, SettlementInv, UpdateChild(r) PROVE SettlementInv'
  OBVIOUS
<1> DEFINE mine == {k.id : k \in Target(r)}
           New(k) == IF k.id \in mine THEN [k EXCEPT !.amount = run[r].rest] ELSE k
           moved == \E k \in kids : k.id \in mine /\ k.amount # run[r].rest
<1>1. /\ run[r].pc = "reconcile" /\ run[r].rest > 0
      /\ UNCHANGED <<status, covered, basis, policy, changes, budget>>
      /\ kids' = {New(k) : k \in kids}
      /\ Goto(r, [NextRow(r, run[r]) EXCEPT !.wrote = TRUE], moved)
  BY DEF UpdateChild, UpdateDue
<1>2. budget' \in Nat /\ CoveredOK'
  BY <1>1, CoveredSame DEF SettlementInv, PlainOK
<1>3. Continues(r, [NextRow(r, run[r]) EXCEPT !.wrote = TRUE])
  BY <1>1, ChildContinues, MarksContinue
<1>4. moved \in BOOLEAN
  OBVIOUS
<1>5. run[r] \in RunRec /\ RunOK(run[r]) /\ LinkOK(run[r]) /\ TableOK
  BY DEF SettlementInv, RunsOK, LinksOK
<1>6. run[r].rest \in Int /\ run[r].rest <= Amount[Current(r)]
  BY <1>1, <1>5, CurrentIsFirst DEF RunOK, RunRec
<1>7. ASSUME NEW k \in kids
      PROVE  /\ New(k) \in Kids /\ New(k).id = k.id /\ New(k).parent = k.parent
             /\ New(k).leg = k.leg /\ New(k).word = k.word
             /\ 0 < New(k).amount /\ New(k).amount <= Amount[New(k).parent]
  <2>1. k \in Kids /\ 0 < k.amount /\ k.amount <= Amount[k.parent]
    BY <1>5 DEF TableOK
  <2>2. CASE k.id \notin mine
    BY <2>1, <2>2
  <2>3. CASE k.id \in mine
    <3>1. PICK j \in run[r].known : j.id = k.id /\ j.parent = Current(r)
      BY <2>3 DEF Target, Known
    <3>2. k.parent = Current(r)
      BY <1>5, <3>1 DEF LinkOK
    <3>3. New(k) = [k EXCEPT !.amount = run[r].rest]
      BY <2>3
    <3> HIDE DEF New, mine
    <3> QED BY <1>1, <1>6, <2>1, <3>2, <3>3 DEF Kids
  <2> QED BY <2>2, <2>3
<1> HIDE DEF New, mine, moved
<1>8. TableOK'
  <2>1. kids' \in SUBSET Kids /\ \A k \in kids' : 0 < k.amount /\ k.amount <= Amount[k.parent]
    BY <1>1, <1>7
  <2>2. ASSUME NEW a \in kids', NEW b \in kids', a.id = b.id PROVE a = b
    <3>1. PICK j \in kids, k \in kids : a = New(j) /\ b = New(k)
      BY <1>1
    <3>2. j.id = k.id
      BY <1>7, <2>2, <3>1
    <3> QED BY <1>5, <3>1, <3>2 DEF TableOK
  <2>3. ASSUME NEW a \in kids', NEW b \in kids', a.parent = b.parent, a.leg = b.leg PROVE a = b
    <3>1. PICK j \in kids, k \in kids : a = New(j) /\ b = New(k)
      BY <1>1
    <3>2. j.parent = k.parent /\ j.leg = k.leg
      BY <1>7, <2>3, <3>1
    <3> QED BY <1>5, <3>1, <3>2 DEF TableOK, OneKey
  <2> QED BY <2>1, <2>2, <2>3 DEF TableOK, OneKey
<1>9. LinksOK'
  <2>1. Kept
    BY <1>1, <1>3, <1>4, GotoKeeps
  <2>2. \A k \in kids' : \E j \in kids : /\ j.id = k.id /\ j.parent = k.parent
                                        /\ j.leg = k.leg /\ j.word = k.word
    BY <1>1, <1>7
  <2> QED BY <2>1, <2>2, LinksKept
<1> QED BY <1>1, <1>2, <1>3, <1>4, <1>8, <1>9, WroteKeeps

LEMMA ChildFailKeeps == \A r \in Runs : SettlementInv /\ ChildFails(r) => SettlementInv'
<1> SUFFICES ASSUME NEW r \in Runs, SettlementInv, ChildFails(r) PROVE SettlementInv'
  OBVIOUS
<1>1. /\ run[r].pc = "reconcile"
      /\ Goto(r, [NextRow(r, run[r]) EXCEPT !.failed = TRUE], FALSE)
      /\ UNCHANGED <<status, covered, kids, basis, policy, changes>>
  BY DEF ChildFails
<1>2. budget' \in Nat /\ CoveredOK'
  BY <1>1, CoveredSame DEF ChildFails, Mishap, SettlementInv, PlainOK
<1>3. Continues(r, [NextRow(r, run[r]) EXCEPT !.failed = TRUE])
  BY <1>1, ChildContinues, MarksContinue
<1> QED BY <1>1, <1>2, <1>3, SameTableKeeps

LEMMA WriteKeeps == \A r \in Runs : SettlementInv /\ WriteStep(r) => SettlementInv'
BY StampKeeps, RetractKeeps, InsertKeeps, UpdateKeeps, ChildFailKeeps, Zenon DEF WriteStep

LEMMA InvStep == SettlementInv /\ [SettlementNext]_vars => SettlementInv'
<1> SUFFICES ASSUME SettlementInv, [SettlementNext]_vars PROVE SettlementInv'
  OBVIOUS
<1>1. CASE SettlementNext
  BY <1>1, PeopleKeep, ReadKeeps, WriteKeeps, EndKeeps, Zenon DEF SettlementNext
<1>2. CASE UNCHANGED vars
  <2>1. /\ UNCHANGED <<status, covered, kids, basis, policy, run>>
        /\ UNCHANGED <<settled, changes, budget>>
    BY <1>2 DEF vars
  <2>2. PlainOK' /\ CoveredOK' /\ TableOK'
    BY <2>1, CoveredSame, TableSame DEF SettlementInv, PlainOK
  <2>3. RunsOK' /\ LinksOK'
    BY <2>1 DEF SettlementInv, RunsOK, LinksOK, RunOK, LinkOK, RunRec, OneKey
  <2> QED BY <2>2, <2>3 DEF SettlementInv
<1> QED BY <1>1, <1>2

(* The settlement's inductive invariant: ids and keys of the children are   *)
(* unique, a settlement retracts only what it read as its own, and what it  *)
(* holds of a child decided since makes it stale.                            *)
THEOREM SettlementInvariant == SettlementSpec => []SettlementInv
BY InitInv, InvStep, PTL DEF SettlementSpec

(* The rows, the pay and the settlements keep their types: no share and no  *)
(* rest is ever negative.                                                   *)
THEOREM SettlementTypeCorrect == SettlementSpec => []SettlementTypeOK
BY SettlementInvariant, InvType, PTL

(* No child charges more than its incident, none charges nothing, and       *)
(* commission never absorbs more than the incident (17803, 17807).          *)
THEOREM OverflowFits == SettlementSpec => []OverflowWithinIncident
BY SettlementInvariant, InvWithin, PTL

(* A step of a settlement that changes or removes a decided child is a      *)
(* retraction or an update by id of one that read the child as its own.     *)
LEMMA ForgivenStep ==
    ASSUME SettlementInv, SettlementNext, NEW k \in kids, k.word # "none", k \notin kids', ~(changes' < changes)
    PROVE  \E r \in Runs : /\ run[r].stale
                          /\ \E j \in run[r].known : j.id = k.id /\ j.word = "none"
<1>0. ASSUME NEW r \in Runs, NEW j \in run[r].known, j.id = k.id, j.word = "none"
      PROVE  run[r].stale
  BY <1>0 DEF SettlementInv, LinksOK, LinkOK
<1>1. ASSUME PeopleStep PROVE FALSE
  <2>1. changes \in Nat
    BY DEF SettlementInv, PlainOK
  <2>2. PICK ms : Change(ms)
    BY <1>1 DEF PeopleStep, DecideIncident, DecideChild, Recalculate, SetPolicy
  <2> QED BY <2>1, <2>2 DEF Change
<1>2. ASSUME NEW r \in Runs, ReadStep(r) \/ Finish(r) \/ Die(r) PROVE FALSE
  <2>1. kids' = kids
    BY <1>2 DEF ReadStep, ReadParents, ReadPay, ReadPolicy, PolicyFails, ReadKids, KidsFail, Finish, Die
  <2> QED BY <2>1
<1>3. ASSUME NEW r \in Runs, WriteStep(r)
      PROVE  \E j \in run[r].known : j.id = k.id /\ j.word = "none"
  <2>0. RunOK(run[r]) /\ TableOK
    BY DEF SettlementInv, RunsOK
  <2>1. CASE kids' = kids
    BY <2>1
  <2>2. CASE \E j \in run[r].todo : Retract(r, j)
    <3>1. PICK j \in run[r].todo : Retract(r, j)
      BY <2>2
    <3>2. k.id = j.id
      BY <3>1 DEF Retract
    <3> QED BY <2>0, <3>2 DEF RunOK
  <2>3. CASE InsertChild(r)
    <3>1. k \in kids'
      BY <2>3 DEF InsertChild
    <3> QED BY <3>1
  <2>4. CASE UpdateChild(r)
    <3>1. PICK j \in Target(r) : j.id = k.id
      <4>1. k.id \in {i.id : i \in Target(r)}
        BY <2>4 DEF UpdateChild
      <4> QED BY <4>1
    <3>2. PICK i \in Target(r) : Mine(i)
      BY <2>4 DEF UpdateChild, UpdateDue
    <3>3. i = j
      BY <2>0 DEF Target, Known, RunOK, OneKey
    <3> QED BY <3>1, <3>2, <3>3 DEF Target, Known, Mine
  <2>5. CASE Stamp(r) \/ StampFails(r) \/ ChildFails(r) \/ \E j \in run[r].todo : RetractFails(r, j)
    <3>1. kids' = kids
      BY <2>5, Zenon DEF Stamp, StampFails, ChildFails, RetractFails
    <3> QED BY <2>1, <3>1
  <2> QED BY <1>3, <2>2, <2>3, <2>4, <2>5, Zenon DEF WriteStep
<1>4. PICK r \in Runs : WriteStep(r)
  BY <1>1, <1>2, Zenon DEF SettlementNext
<1> QED BY <1>0, <1>3, <1>4

(* What a manager decided about a child is changed or removed only by       *)
(* people, or by a settlement that had read the child before they decided,  *)
(* however many overlap and whatever fails (17822-17824, 17838).            *)
THEOREM ForgivenOnlyByStale == SettlementSpec => OnlyAStaleRunTouchesForgiven
<1>1. ASSUME SettlementInv, [SettlementNext]_vars
      PROVE  [\A k \in kids : k.word # "none" /\ k \notin kids' =>
                 \/ changes' < changes
                 \/ \E r \in Runs : /\ run[r].stale
                                    /\ \E j \in run[r].known : j.id = k.id /\ j.word = "none"]_vars
  BY <1>1, ForgivenStep
<1> QED BY <1>1, SettlementInvariant, PTL DEF SettlementSpec, OnlyAStaleRunTouchesForgiven

-----------------------------------------------------------------------------
(* Exactness: what settlements of the same figures leave of each other.      *)

FairRest(p) == Amount[p] - FairShare(p)

(* A child the policy and the pay call for.                                 *)
Right(k) == k.leg = policy /\ FairRest(k.parent) > 0

(* The children a settlement of these figures leaves alone: a waived one    *)
(* where the rest belongs, or none of ours but the right one, which exists. *)
Squared(p, K) ==
    \/ FairRest(p) > 0 /\ \E k \in K : k.leg = policy /\ k.word = "waived"
    \/ /\ \A k \in K : k.word = "none" => Right(k) /\ k.amount = FairRest(p)
       /\ FairRest(p) > 0 => \E k \in K : k.leg = policy

Fixed(p) == covered[p] = FairShare(p) /\ Squared(p, KidsOf(p))

(* What the month still pays when these incidents have had their share.     *)
PayAfter(m, S) ==
    LET left == basis[m] - Cardinality(Units(S)) IN IF left < 0 THEN 0 ELSE left

Handled(v) == Posted(v.month) \ v.rows

(* Ours of the current incident that must go.                               *)
Surplus(v) ==
    LET known == {k \in v.known : k.parent = First(v.rows)}
    IN IF FairRest(First(v.rows)) > 0 /\ \E k \in known : k.leg = policy /\ k.word = "waived"
       THEN {} ELSE {k \in known : k.word = "none" /\ ~Right(k)}

(* What a settlement has read of the children, other settlements of the     *)
(* same figures at work: what was decided stands, what is right stands, and  *)
(* what it did not read is right (if it has read anything).                 *)
Informed(v) ==
    /\ \A k \in v.known : k.parent \in Posted(v.month)
    /\ \A k \in v.known : k.word # "none" => k \in kids
    /\ \A k \in v.known : k.word = "none" /\ Right(k) =>
          \E j \in kids : j.id = k.id /\ j.amount \in {k.amount, FairRest(k.parent)}
    /\ \/ v.failed /\ v.known = {}
       \/ \A k \in kids : k.parent \in Posted(v.month) =>
             \/ \E j \in v.known : j.id = k.id
             \/ k.word = "none" /\ Right(k) /\ k.amount = FairRest(k.parent)

Reconciling(v) ==
    /\ v.rest = FairRest(First(v.rows))
    /\ v.todo \subseteq Surplus(v)
    /\ ~v.failed =>
          /\ covered[First(v.rows)] = FairShare(First(v.rows))
          /\ \A k \in Surplus(v) \ v.todo : \A j \in kids : j.id # k.id

(* The rows go in order, and the pay with them.                             *)
InOrder(v) ==
    /\ v.rows \subseteq Posted(v.month)
    /\ \A p \in Handled(v), q \in v.rows : p < q
    /\ v.pc \in {"pay", "policy", "kids"} => v.rows = Posted(v.month)
    /\ v.pc = "done" => v.rows = {}
    /\ v.pc \in {"kids", "stamp", "reconcile", "done"} => v.leg = policy
    /\ v.pc \in {"policy", "kids", "stamp"} => v.left = PayAfter(v.month, Handled(v))
    /\ v.pc = "reconcile" => v.left = PayAfter(v.month, Handled(v) \cup {First(v.rows)})

(* A run that began on a settled month has found it so ever since.          *)
AtPeace(v) ==
    /\ settled[v.month] /\ ~v.wrote
    /\ \A p \in Posted(v.month) : v.seen[p] = FairShare(p)
    /\ v.known \subseteq kids

Sound(v) ==
    /\ InOrder(v)
    /\ \A p \in Posted(v.month) : covered[p] \in {v.seen[p], FairShare(p)}
    /\ v.pc \in {"stamp", "reconcile", "done"} => Informed(v)
    /\ v.pc = "reconcile" => Reconciling(v)
    /\ ~v.failed => \A p \in Handled(v) : Fixed(p)
    /\ v.calm => AtPeace(v)

ExactInv ==
    /\ SettlementInv
    /\ \A r \in Runs : run[r].pc # "idle" /\ ~run[r].stale => Sound(run[r])
    /\ \A m \in 1..Months : settled[m] => \A p \in Posted(m) : Fixed(p)
    /\ \A r \in Runs : run[r].calm => run[r].pc # "idle"

-----------------------------------------------------------------------------
(* Sums of money, counted in units.                                          *)

LEMMA UnitsFinite ==
    ASSUME NEW S \in SUBSET Parents
    PROVE  IsFiniteSet(Units(S)) /\ Cardinality(Units(S)) \in Nat
<1> DEFINE each == [p \in S |-> {p} \X (1 .. Amount[p])]
           sets == {each[p] : p \in S}
<1>1. IsFiniteSet(S)
  <2>1. Count \in Int /\ 1 \in Int
    BY SettlementAssumption
  <2>2. IsFiniteSet(Parents)
    BY <2>1, FS_Interval DEF Parents
  <2> QED BY <2>2, FS_Subset
<1>2. IsFiniteSet(sets)
  <2>1. each \in Surjection(S, sets)
    BY DEF Surjection
  <2> QED BY <1>1, <2>1, FS_Surjection
<1>3. \A T \in sets : IsFiniteSet(T)
  <2> SUFFICES ASSUME NEW p \in S PROVE IsFiniteSet({p} \X (1 .. Amount[p]))
    OBVIOUS
  <2>1. Amount[p] \in Int /\ 1 \in Int
    BY SettlementAssumption
  <2>2. IsFiniteSet(1 .. Amount[p]) /\ IsFiniteSet({p})
    BY <2>1, FS_Interval, FS_Singleton
  <2> QED BY <2>2, FS_Product
<1>4. Units(S) = UNION sets
  BY DEF Units
<1> HIDE DEF each, sets
<1> QED BY <1>2, <1>3, <1>4, FS_UNION, FS_CardinalityType

LEMMA UnitsAdd ==
    ASSUME NEW S \in SUBSET Parents, NEW p \in Parents \ S
    PROVE  Cardinality(Units(S \cup {p})) = Cardinality(Units(S)) + Amount[p]
<1> DEFINE own == {p} \X (1 .. Amount[p])
<1>1. Units(S \cup {p}) = Units(S) \cup own /\ Units(S) \cap own = {}
  BY DEF Units
<1>2. Amount[p] \in Nat /\ Amount[p] \in Int /\ 1 \in Int
  BY SettlementAssumption
<1>3. IsFiniteSet({p}) /\ Cardinality({p}) = 1
  BY FS_Singleton
<1>4. IsFiniteSet(1 .. Amount[p]) /\ Cardinality(1 .. Amount[p]) = Amount[p]
  BY <1>2, FS_Interval, SMTT(20)
<1>5. IsFiniteSet(own) /\ Cardinality(own) = Amount[p]
  <2>1. IsFiniteSet(own) /\ Cardinality(own) = Cardinality({p}) * Cardinality(1 .. Amount[p])
    BY <1>3, <1>4, FS_Product, Zenon
  <2>2. Cardinality(own) = 1 * Amount[p]
    BY <1>3, <1>4, <2>1
  <2> QED BY <1>2, <2>1, <2>2
<1> HIDE DEF own
<1>6. Cardinality(Units(S) \cup own) = Cardinality(Units(S)) + Cardinality(own) - Cardinality(Units(S) \cap own)
  <2>1. IsFiniteSet(Units(S))
    BY UnitsFinite
  <2> QED BY <1>5, <2>1, FS_Union, Zenon
<1>7. Cardinality(Units(S)) \in Nat /\ Cardinality({}) = 0
  BY UnitsFinite, FS_EmptySet
<1>8. Cardinality(Units(S \cup {p})) = Cardinality(Units(S)) + Amount[p] - 0
  BY <1>1, <1>5, <1>6, <1>7
<1> QED BY <1>2, <1>7, <1>8

LEMMA UnitsOfNone == Cardinality(Units({})) = 0
<1>1. Units({}) = {}
  BY DEF Units
<1> QED BY <1>1, FS_EmptySet

LEMMA PayAfterNat ==
    ASSUME SettlementInv, NEW m \in 1..Months, NEW S \in SUBSET Parents
    PROVE  PayAfter(m, S) \in Nat
BY UnitsFinite DEF PayAfter, SettlementInv, PlainOK

LEMMA PayGoesOn ==
    ASSUME SettlementInv, NEW m \in 1..Months, NEW S \in SUBSET Parents, NEW p \in Parents \ S
    PROVE  PayAfter(m, S \cup {p}) = IF PayAfter(m, S) < Amount[p] THEN 0 ELSE PayAfter(m, S) - Amount[p]
<1>1. basis[m] \in Nat /\ Amount[p] \in Nat /\ Cardinality(Units(S)) \in Nat
  BY UnitsFinite, SettlementAssumption DEF SettlementInv, PlainOK
<1>2. Cardinality(Units(S \cup {p})) = Cardinality(Units(S)) + Amount[p]
  BY UnitsAdd
<1> QED BY <1>1, <1>2 DEF PayAfter

(* A fair share is what the earlier incidents leave, as far as it is needed.*)
LEMMA FairShareIs ==
    ASSUME SettlementInv, NEW p \in Parents
    PROVE  LET pay == PayAfter(Month[p], {q \in Posted(Month[p]) : q < p})
           IN /\ FairShare(p) = IF pay < Amount[p] THEN pay ELSE Amount[p]
              /\ FairShare(p) \in Nat /\ FairRest(p) \in Nat /\ FairRest(p) <= Amount[p]
<1> DEFINE S == {q \in Posted(Month[p]) : q < p}
<1>1. Month[p] \in 1..Months /\ Amount[p] \in Nat /\ S \in SUBSET Parents
  BY SettlementAssumption DEF Posted
<1>2. basis[Month[p]] \in Nat /\ Cardinality(Units(S)) \in Nat
  BY <1>1, UnitsFinite DEF SettlementInv, PlainOK
<1>3. Earlier(p) = Cardinality(Units(S))
  BY DEF Earlier
<1> HIDE DEF S
<1>4. FairShare(p) = IF PayAfter(Month[p], S) < Amount[p] THEN PayAfter(Month[p], S) ELSE Amount[p]
  BY <1>1, <1>2, <1>3 DEF FairShare, PayAfter
<1>5. PayAfter(Month[p], S) \in Nat
  BY <1>1, PayAfterNat
<1>6. FairShare(p) \in Nat /\ FairRest(p) \in Nat /\ FairRest(p) <= Amount[p]
  BY <1>1, <1>4, <1>5 DEF FairRest
<1> QED BY <1>4, <1>6 DEF S

(* A settlement of the figures of its month takes the fair shares in turn.  *)
LEMMA ShareIsFair ==
    ASSUME SettlementInv, NEW r \in Runs, run[r].pc = "stamp", Sound(run[r])
    PROVE  /\ Current(r) \in Posted(run[r].month) /\ Month[Current(r)] = run[r].month
           /\ Share(r) = FairShare(Current(r)) /\ Rest(r) = FairRest(Current(r))
           /\ LeftAfter(r) = PayAfter(run[r].month, Handled(run[r]) \cup {Current(r)})
<1> DEFINE v == run[r]
           p == Current(r)
           S == Handled(v)
           pay == PayAfter(v.month, S)
<1>1. p \in v.rows /\ p \in Parents /\ v \in RunRec /\ RunOK(v) /\ p = First(v.rows)
  BY CurrentIn, CurrentIsFirst DEF SettlementInv, RunsOK
<1>2. v.rows \subseteq Posted(v.month) /\ (\A q \in S, x \in v.rows : q < x) /\ v.left = pay
  BY DEF Sound, InOrder
<1>3. Month[p] = v.month /\ p \in Posted(v.month) /\ v.month \in 1..Months
  BY <1>1, <1>2 DEF RunOK, RunRec
<1>4. \A q \in v.rows : p <= q
  BY <1>1, FirstIn DEF RunRec
<1>5. S = {q \in Posted(Month[p]) : q < p}
  <2>1. Posted(v.month) \subseteq Nat
    BY SettlementAssumption DEF Posted, Parents
  <2> QED BY <1>1, <1>2, <1>3, <1>4, <2>1 DEF Handled
<1>6. S \in SUBSET Parents /\ p \in Parents \ S
  BY <1>1 DEF Handled, Posted
<1>7. pay \in Nat /\ Amount[p] \in Nat
  BY <1>3, <1>6, PayAfterNat, SettlementAssumption
<1>8. FairShare(p) = IF pay < Amount[p] THEN pay ELSE Amount[p]
  BY <1>1, <1>3, <1>5, FairShareIs
<1>9. Share(r) = FairShare(p)
  BY <1>2, <1>8 DEF Share
<1>10. PayAfter(v.month, S \cup {p}) = IF pay < Amount[p] THEN 0 ELSE pay - Amount[p]
  BY <1>3, <1>6, PayGoesOn
<1>11. LeftAfter(r) = PayAfter(v.month, S \cup {p})
  BY <1>2, <1>7, <1>8, <1>9, <1>10 DEF LeftAfter
<1> QED BY <1>3, <1>9, <1>11 DEF Rest, FairRest

-----------------------------------------------------------------------------
(* What a step leaves alone.                                                 *)

(* The children of a month.                                                 *)
Slice(m) == {k \in kids : Month[k.parent] = m}

(* Nothing a settlement of this month goes by is touched.                   *)
Undisturbed(m) ==
    /\ Posted(m)' = Posted(m) /\ basis'[m] = basis[m] /\ policy' = policy
    /\ settled[m] => settled'[m]
    /\ \A p \in Parents : Month[p] = m => covered'[p] = covered[p]
    /\ Slice(m)' = Slice(m)

LEMMA FiguresStay ==
    ASSUME NEW m, Posted(m)' = Posted(m), basis'[m] = basis[m]
    PROVE  /\ \A p : Month[p] = m => FairShare(p)' = FairShare(p) /\ FairRest(p)' = FairRest(p)
           /\ \A S : PayAfter(m, S)' = PayAfter(m, S)
<1>1. ASSUME NEW p, Month[p] = m PROVE FairShare(p)' = FairShare(p)
  <2>1. Earlier(p)' = Earlier(p)
    BY <1>1 DEF Earlier
  <2> QED BY <1>1, <2>1 DEF FairShare
<1> QED BY <1>1 DEF FairRest, PayAfter

LEMMA StaysFixed ==
    ASSUME NEW m, Undisturbed(m), NEW p \in Posted(m), Fixed(p)
    PROVE  Fixed(p)'
<1>1. Month[p] = m /\ p \in Parents
  BY DEF Posted
<1>2. FairShare(p)' = FairShare(p) /\ FairRest(p)' = FairRest(p) /\ policy' = policy /\ covered'[p] = covered[p]
  BY <1>1, FiguresStay DEF Undisturbed
<1>3. KidsOf(p)' = KidsOf(p)
  BY <1>1 DEF Undisturbed, Slice, KidsOf
<1>4. \A k \in KidsOf(p) : Right(k)' = Right(k)
  BY <1>2 DEF Right, KidsOf
<1> QED BY <1>2, <1>3, <1>4 DEF Fixed, Squared

LEMMA SameOrder ==
    ASSUME NEW v, Posted(v.month)' = Posted(v.month), basis'[v.month] = basis[v.month], policy' = policy, InOrder(v)
    PROVE  InOrder(v)'
<1>1. Handled(v)' = Handled(v)
  BY DEF Handled
<1>2. \A S : PayAfter(v.month, S)' = PayAfter(v.month, S)
  BY FiguresStay
<1> QED BY <1>1, <1>2 DEF InOrder

(* What must go is a matter of what was read and of the figures.            *)
LEMMA SameSurplus ==
    ASSUME NEW v, Posted(v.month)' = Posted(v.month), basis'[v.month] = basis[v.month], policy' = policy,
           Month[First(v.rows)] = v.month
    PROVE  Surplus(v)' = Surplus(v)
<1>1. FairRest(First(v.rows))' = FairRest(First(v.rows))
  BY FiguresStay
<1>2. \A k : k.parent = First(v.rows) => Right(k)' = Right(k)
  BY <1>1 DEF Right
<1> QED BY <1>1, <1>2 DEF Surplus

LEMMA FirstOfMonth ==
    ASSUME NEW v, RunOK(v), v.pc = "reconcile", InOrder(v)
    PROVE  /\ First(v.rows) \in v.rows /\ First(v.rows) \in Posted(v.month)
           /\ First(v.rows) \in Parents /\ Month[First(v.rows)] = v.month
<1>1. v.rows \subseteq Parents /\ v.rows # {} /\ v.rows \subseteq Posted(v.month)
  BY DEF RunOK, RunRec, InOrder
<1> QED BY <1>1, FirstIn DEF Posted

LEMMA StaysSound ==
    ASSUME NEW v, RunOK(v), LinkOK(v), LinkOK(v)', Sound(v), Undisturbed(v.month)
    PROVE  Sound(v)'
<1> DEFINE m == v.month
<1>1. Posted(m)' = Posted(m) /\ basis'[m] = basis[m] /\ policy' = policy
  BY DEF Undisturbed
<1>2. \A p \in Posted(m) : FairShare(p)' = FairShare(p) /\ FairRest(p)' = FairRest(p) /\ covered'[p] = covered[p]
  BY <1>1, FiguresStay DEF Posted, Undisturbed
<1>3. \A k : k.parent \in Posted(m) => Right(k)' = Right(k)
  BY <1>1, <1>2 DEF Right
<1>4. \A k : Month[k.parent] = m => (k \in kids' <=> k \in kids)
  BY DEF Undisturbed, Slice
<1>5. \A p \in Posted(m) : Month[p] = m
  BY DEF Posted
<1>6. InOrder(v)'
  BY <1>1, SameOrder DEF Sound
<1>7. \A p \in Posted(m)' : covered'[p] \in {v.seen[p], FairShare(p)'}
  BY <1>1, <1>2 DEF Sound
<1>8. ASSUME v.pc \in {"stamp", "reconcile", "done"} PROVE Informed(v)'
  <2>1. Informed(v)
    BY <1>8 DEF Sound
  <2>2. \A k \in v.known : k.parent \in Posted(m)'
    BY <1>1, <2>1 DEF Informed
  <2>3. \A k \in v.known : k.word # "none" => k \in kids'
    BY <1>4, <1>5, <2>1 DEF Informed
  <2>4. ASSUME NEW k \in v.known, k.word = "none", Right(k)'
        PROVE  \E j \in kids' : j.id = k.id /\ j.amount \in {k.amount, FairRest(k.parent)'}
    <3>1. k.parent \in Posted(m) /\ Right(k)
      BY <1>3, <2>1, <2>4 DEF Informed
    <3>2. PICK j \in kids : j.id = k.id /\ j.amount \in {k.amount, FairRest(k.parent)}
      BY <2>1, <2>4, <3>1 DEF Informed
    <3>3. Month[j.parent] = m
      BY <3>2 DEF LinkOK, RunOK
    <3> QED BY <1>2, <1>4, <3>1, <3>2, <3>3
  <2>5. \/ v.failed /\ v.known = {}
        \/ \A k \in kids' : k.parent \in Posted(m)' =>
              \/ \E j \in v.known : j.id = k.id
              \/ k.word = "none" /\ Right(k)' /\ k.amount = FairRest(k.parent)'
    BY <1>1, <1>2, <1>3, <1>4, <1>5, <2>1 DEF Informed
  <2> QED BY <2>2, <2>3, <2>4, <2>5 DEF Informed
<1>9. ASSUME v.pc = "reconcile" PROVE Reconciling(v)'
  <2>1. Reconciling(v) /\ Informed(v)
    BY <1>9 DEF Sound
  <2>2. First(v.rows) \in Posted(m) /\ Month[First(v.rows)] = m
    BY <1>9, FirstOfMonth DEF Sound
  <2>3. Surplus(v)' = Surplus(v)
    BY <1>1, <2>2, SameSurplus
  <2>4. \A k \in Surplus(v) : k \in v.known
    BY DEF Surplus
  <2>5. ASSUME NEW k \in v.known, NEW j \in kids', j.id = k.id PROVE j \in kids
    BY <1>4, <2>5 DEF LinkOK, RunOK
  <2> QED BY <1>2, <2>1, <2>2, <2>3, <2>4, <2>5 DEF Reconciling
<1>10. ASSUME ~v.failed, NEW p \in Handled(v)' PROVE Fixed(p)'
  <2>1. p \in Handled(v) /\ p \in Posted(m)
    BY <1>1 DEF Handled
  <2>2. Fixed(p)
    BY <1>10, <2>1 DEF Sound
  <2> QED BY <2>1, <2>2, StaysFixed
<1>11. ASSUME v.calm PROVE AtPeace(v)'
  <2>1. AtPeace(v) /\ settled'[m]
    BY <1>11 DEF Sound, AtPeace, Undisturbed
  <2>2. \A k \in v.known : Month[k.parent] = m
    BY DEF RunOK
  <2> QED BY <1>1, <1>2, <1>4, <2>1, <2>2 DEF AtPeace
<1> QED BY <1>6, <1>7, <1>8, <1>9, <1>10, <1>11 DEF Sound

(* A settlement of the figures of its month moves a row towards what they   *)
(* call for: others that go by them are not led astray.                     *)
Converges(p) ==
    /\ UNCHANGED <<status, basis, policy, settled>>
    /\ \A q \in Parents : covered'[q] = covered[q] \/ (q = p /\ covered'[q] = FairShare(q))
    /\ \A k \in kids : k.parent # p \/ k.word # "none" => k \in kids'
    /\ \A k \in kids : k.parent = p /\ k.word = "none" /\ Right(k) =>
          \E j \in kids' : j.id = k.id /\ j.amount \in {k.amount, FairRest(p)}
    /\ \A k \in kids' \ kids :
          /\ k.parent = p /\ k.word = "none" /\ Right(k) /\ k.amount = FairRest(p)
          /\ \/ \E j \in kids : j.id = k.id
             \/ \A s \in Runs : \A j \in run[s].known : j.id # k.id
    /\ Fixed(p) => UNCHANGED <<covered, kids>>

LEMMA ConvergesFigures ==
    ASSUME NEW p, Converges(p)
    PROVE  /\ \A m : Posted(m)' = Posted(m) /\ basis'[m] = basis[m]
           /\ policy' = policy
           /\ \A q : FairShare(q)' = FairShare(q) /\ FairRest(q)' = FairRest(q)
           /\ \A k : Right(k)' = Right(k)
<1>1. /\ \A m : Posted(m)' = Posted(m) /\ basis'[m] = basis[m]
      /\ policy' = policy
  BY DEF Converges, Posted
<1>2. \A q : FairShare(q)' = FairShare(q) /\ FairRest(q)' = FairRest(q)
  BY <1>1, FiguresStay
<1> QED BY <1>1, <1>2 DEF Right

LEMMA ConvergesFixed ==
    ASSUME NEW p, Converges(p), NEW q \in Parents, Fixed(q)
    PROVE  Fixed(q)'
<1>1. FairShare(q)' = FairShare(q) /\ FairRest(q)' = FairRest(q) /\ policy' = policy
  BY ConvergesFigures
<1>2. \A k : Right(k)' = Right(k)
  BY ConvergesFigures
<1>3. covered'[q] = covered[q] /\ KidsOf(q)' = KidsOf(q)
  <2>1. CASE q = p
    BY <2>1 DEF Converges, KidsOf
  <2>2. CASE q # p
    BY <2>2 DEF Converges, KidsOf
  <2> QED BY <2>1, <2>2
<1> QED BY <1>1, <1>2, <1>3 DEF Fixed, Squared

LEMMA ConvergesInformed ==
    ASSUME NEW p, Converges(p), NEW v, LinkOK(v), ~v.stale, Informed(v)
    PROVE  Informed(v)'
<1>1. /\ Posted(v.month)' = Posted(v.month)
      /\ \A k : Right(k)' = Right(k) /\ FairRest(k.parent)' = FairRest(k.parent)
  BY ConvergesFigures
<1>2. \A k \in v.known : k.parent \in Posted(v.month)'
  BY <1>1 DEF Informed
<1>3. \A k \in v.known : k.word # "none" => k \in kids'
  BY DEF Informed, Converges
<1>4. ASSUME NEW k \in v.known, k.word = "none", Right(k)
      PROVE  \E j \in kids' : j.id = k.id /\ j.amount \in {k.amount, FairRest(k.parent)}
  <2>1. PICK j \in kids : j.id = k.id /\ j.amount \in {k.amount, FairRest(k.parent)}
    BY <1>4 DEF Informed
  <2>2. j.parent = k.parent /\ j.leg = k.leg
    BY <2>1 DEF LinkOK
  <2>3. CASE j.parent # p \/ j.word # "none"
    BY <2>1, <2>3 DEF Converges
  <2>4. CASE j.parent = p /\ j.word = "none"
    <3>1. Right(j)
      BY <1>4, <2>2 DEF Right
    <3>2. PICK i \in kids' : i.id = j.id /\ i.amount \in {j.amount, FairRest(p)}
      BY <2>4, <3>1 DEF Converges
    <3> QED BY <2>1, <2>2, <2>4, <3>2
  <2> QED BY <2>3, <2>4
<1>5. \/ v.failed /\ v.known = {}
      \/ \A k \in kids' : k.parent \in Posted(v.month) =>
            \/ \E j \in v.known : j.id = k.id
            \/ k.word = "none" /\ Right(k) /\ k.amount = FairRest(k.parent)
  <2>1. \A k \in kids' : k \in kids \/ (k.word = "none" /\ Right(k) /\ k.amount = FairRest(k.parent))
    BY DEF Converges
  <2> QED BY <2>1 DEF Informed
<1> QED BY <1>1, <1>2, <1>3, <1>4, <1>5 DEF Informed

LEMMA ConvergesSound ==
    ASSUME NEW p \in Parents, Converges(p), settled[Month[p]] => Fixed(p),
           NEW s \in Runs, NEW v, v = run[s], RunOK(v), LinkOK(v), ~v.stale, Sound(v)
    PROVE  Sound(v)'
<1> DEFINE m == v.month
<1>1. /\ Posted(m)' = Posted(m) /\ basis'[m] = basis[m] /\ policy' = policy
      /\ \A q : FairShare(q)' = FairShare(q) /\ FairRest(q)' = FairRest(q)
  BY ConvergesFigures
<1>2. Posted(m) \subseteq Parents
  BY DEF Posted
<1>3. InOrder(v)'
  BY <1>1, SameOrder DEF Sound
<1>4. \A q \in Posted(m)' : covered'[q] \in {v.seen[q], FairShare(q)'}
  BY <1>1, <1>2 DEF Sound, Converges
<1>5. ASSUME v.pc \in {"stamp", "reconcile", "done"} PROVE Informed(v)'
  BY <1>5, ConvergesInformed DEF Sound
<1>6. ASSUME v.pc = "reconcile" PROVE Reconciling(v)'
  <2>1. Reconciling(v)
    BY <1>6 DEF Sound
  <2>2. First(v.rows) \in Parents /\ Month[First(v.rows)] = m
    BY <1>6, FirstOfMonth DEF Sound
  <2>3. Surplus(v)' = Surplus(v)
    BY <1>1, <2>2, SameSurplus
  <2>4. \A k \in Surplus(v) : k \in v.known
    BY DEF Surplus
  <2>5. ~v.failed => covered'[First(v.rows)] = FairShare(First(v.rows))
    BY <2>1, <2>2 DEF Reconciling, Converges
  <2>6. ASSUME ~v.failed, NEW k \in Surplus(v) \ v.todo, NEW j \in kids' PROVE j.id # k.id
    <3>1. \A i \in kids : i.id # k.id
      BY <2>1, <2>6 DEF Reconciling
    <3> QED BY <2>4, <3>1 DEF Converges
  <2>7. v.rest = FairRest(First(v.rows))' /\ v.todo \subseteq Surplus(v)'
    BY <1>1, <2>1, <2>3 DEF Reconciling
  <2> QED BY <1>1, <2>3, <2>5, <2>6, <2>7 DEF Reconciling
<1>7. ASSUME ~v.failed, NEW q \in Handled(v)' PROVE Fixed(q)'
  <2>1. q \in Handled(v) /\ q \in Parents
    BY <1>1, <1>2 DEF Handled
  <2> QED BY <1>7, <2>1, ConvergesFixed DEF Sound
<1>8. ASSUME v.calm PROVE AtPeace(v)'
  <2>1. AtPeace(v)
    BY <1>8 DEF Sound
  <2>2. settled'[m]
    BY <2>1 DEF AtPeace, Converges
  <2>3. v.known \subseteq kids'
    <3>1. CASE m = Month[p]
      BY <2>1, <3>1 DEF AtPeace, Converges
    <3>2. CASE m # Month[p]
      BY <2>1, <3>2 DEF AtPeace, Converges, RunOK
    <3> QED BY <3>1, <3>2
  <2> QED BY <1>1, <2>1, <2>2, <2>3 DEF AtPeace
<1> QED BY <1>3, <1>4, <1>5, <1>6, <1>7, <1>8 DEF Sound

-----------------------------------------------------------------------------
(* What a settlement of the figures of its month may rely on as it goes.     *)

At(v) == SettlementInv /\ RunOK(v) /\ LinkOK(v) /\ ~v.stale /\ v.pc = "reconcile" /\ Sound(v)

(* The rest is where it belongs, or was forgiven there.                     *)
RestPlaced(v) ==
    \/ \E k \in v.known : k.parent = First(v.rows) /\ k.leg = v.leg /\ (k.word # "none" \/ k.amount = v.rest)
    \/ \E k \in kids : k.parent = First(v.rows) /\ k.leg = v.leg /\ k.word = "none" /\ k.amount = v.rest

Ended(v) == v.todo = {} /\ (v.rest > 0 => RestPlaced(v))

LEMMA EndsFixed ==
    ASSUME NEW v, At(v), Ended(v), ~v.failed
    PROVE  Fixed(First(v.rows))
<1> DEFINE p == First(v.rows)
           rest == FairRest(p)
<1>1. /\ p \in Posted(v.month) /\ p \in Parents
      /\ Informed(v) /\ Reconciling(v) /\ v.leg = policy /\ TableOK /\ OneKey(v.known)
  BY FirstOfMonth DEF At, Sound, InOrder, SettlementInv, RunOK
<1>2. v.rest = rest /\ covered[p] = FairShare(p) /\ rest \in Nat
  BY <1>1, FairShareIs DEF Reconciling, At
<1>3. ASSUME NEW k \in kids, NEW j \in v.known, j.id = k.id
      PROVE  j.parent = k.parent /\ j.leg = k.leg /\ j.word = k.word
  BY <1>3 DEF At, LinkOK
<1>4. CASE rest > 0 /\ \E k \in v.known : k.parent = p /\ k.leg = policy /\ k.word = "waived"
  <2>1. PICK k \in v.known : k.parent = p /\ k.leg = policy /\ k.word = "waived"
    BY <1>4
  <2>2. k \in KidsOf(p)
    BY <1>1, <2>1 DEF Informed, KidsOf
  <2> QED BY <1>2, <1>4, <2>1, <2>2 DEF Fixed, Squared
<1>5. CASE ~(rest > 0 /\ \E k \in v.known : k.parent = p /\ k.leg = policy /\ k.word = "waived")
  <2>1. \A k \in v.known : k.parent = p /\ k.word = "none" /\ ~Right(k) => \A j \in kids : j.id # k.id
    <3>1. \A k \in v.known : k.parent = p /\ k.word = "none" /\ ~Right(k) => k \in Surplus(v) \ v.todo
      BY <1>5 DEF Surplus, Ended
    <3> QED BY <1>1, <3>1 DEF Reconciling
  <2>2. ASSUME NEW k \in KidsOf(p), k.word = "none" PROVE Right(k) /\ k.amount = rest
    <3>1. k \in kids /\ k.parent = p
      BY DEF KidsOf
    <3>2. CASE \A j \in v.known : j.id # k.id
      BY <1>1, <2>2, <3>1, <3>2 DEF Informed
    <3>3. CASE \E j \in v.known : j.id = k.id
      <4>1. PICK j \in v.known : j.id = k.id
        BY <3>3
      <4>2. j.parent = p /\ j.leg = k.leg /\ j.word = "none"
        BY <1>3, <2>2, <3>1, <4>1
      <4>3. Right(j)
        BY <2>1, <3>1, <4>1, <4>2
      <4>4. Right(k) /\ rest > 0 /\ k.leg = policy
        BY <3>1, <4>2, <4>3 DEF Right
      <4>5. PICK i \in kids : i.id = j.id /\ i.amount \in {j.amount, FairRest(j.parent)}
        BY <1>1, <4>2, <4>3 DEF Informed
      <4>6. k.amount \in {j.amount, rest}
        BY <1>1, <3>1, <4>1, <4>2, <4>5 DEF TableOK
      <4>7. CASE \E x \in v.known : x.parent = p /\ x.leg = policy /\ (x.word # "none" \/ x.amount = rest)
        <5>1. PICK x \in v.known : x.parent = p /\ x.leg = policy /\ (x.word # "none" \/ x.amount = rest)
          BY <4>7
        <5>2. x = j
          BY <1>1, <4>2, <4>4, <5>1 DEF OneKey
        <5> QED BY <4>2, <4>4, <4>6, <5>1, <5>2
      <4>8. CASE \E x \in kids : x.parent = p /\ x.leg = policy /\ x.word = "none" /\ x.amount = rest
        <5>1. PICK x \in kids : x.parent = p /\ x.leg = policy /\ x.word = "none" /\ x.amount = rest
          BY <4>8
        <5>2. x = k
          BY <1>1, <3>1, <4>4, <5>1 DEF TableOK, OneKey
        <5> QED BY <4>4, <5>1, <5>2
      <4> QED BY <1>1, <1>2, <4>4, <4>7, <4>8 DEF Ended, RestPlaced
    <3> QED BY <3>2, <3>3
  <2>3. ASSUME rest > 0 PROVE \E k \in KidsOf(p) : k.leg = policy
    <3>1. CASE \E x \in v.known : x.parent = p /\ x.leg = policy /\ (x.word # "none" \/ x.amount = rest)
      <4>1. PICK x \in v.known : x.parent = p /\ x.leg = policy
        BY <3>1
      <4>2. ASSUME x.word = "none" PROVE Right(x)
        BY <2>3, <4>1 DEF Right
      <4>3. PICK i \in kids : i.id = x.id
        BY <1>1, <4>2 DEF Informed
      <4> QED BY <1>3, <4>1, <4>3 DEF KidsOf
    <3>2. CASE \E x \in kids : x.parent = p /\ x.leg = policy /\ x.word = "none" /\ x.amount = rest
      BY <3>2 DEF KidsOf
    <3> QED BY <1>1, <1>2, <2>3, <3>1, <3>2 DEF Ended, RestPlaced
  <2> QED BY <1>2, <2>2, <2>3 DEF Fixed, Squared
<1> QED BY <1>4, <1>5

(* Where the rows stand right, there is nothing of ours left to retract.    *)
LEMMA SurplusGone ==
    ASSUME NEW v, At(v), Fixed(First(v.rows)), NEW k \in Surplus(v), NEW j \in kids
    PROVE  j.id # k.id
<1> DEFINE p == First(v.rows)
<1>1. /\ p \in Posted(v.month) /\ Informed(v) /\ v.leg = policy
  BY FirstOfMonth DEF At, Sound, InOrder
<1>2. k \in v.known /\ k.parent = p /\ k.word = "none" /\ ~Right(k)
  BY DEF Surplus
<1> SUFFICES ASSUME j.id = k.id PROVE FALSE
  OBVIOUS
<1>3. j \in KidsOf(p) /\ j.leg = k.leg /\ j.word = "none" /\ ~Right(j)
  BY <1>2 DEF At, LinkOK, KidsOf, Right
<1>4. PICK i \in KidsOf(p) : FairRest(p) > 0 /\ i.leg = policy /\ i.word = "waived"
  BY <1>3 DEF Fixed, Squared
<1>5. PICK x \in v.known : x.id = i.id
  BY <1>1, <1>2, <1>4 DEF Informed, KidsOf
<1>6. x.parent = p /\ x.leg = policy /\ x.word = "waived"
  BY <1>4, <1>5 DEF At, LinkOK, KidsOf
<1> QED BY <1>4, <1>6 DEF Surplus

(* The next incident of v.                                                  *)
NextOf(v) ==
    LET left == v.rows \ {First(v.rows)}
    IN [v EXCEPT !.rows = left, !.todo = {}, !.rest = 0, !.pc = IF left = {} THEN "done" ELSE "stamp"]

LEMMA NextSound ==
    ASSUME NEW v, At(v), v.failed \/ Fixed(First(v.rows))
    PROVE  Sound(NextOf(v))
<1> DEFINE p == First(v.rows)
           w == NextOf(v)
<1>1. v \in RunRec /\ Sound(v) /\ v.pc = "reconcile" /\ Informed(v)
  BY DEF At, RunOK, Sound
<1>2. p \in v.rows /\ p \in Posted(v.month) /\ v.rows \subseteq Posted(v.month)
  BY <1>1, FirstOfMonth DEF At, Sound, InOrder
<1>3. /\ w.rows = v.rows \ {p} /\ w.pc \in {"done", "stamp"} /\ (w.pc = "done" <=> w.rows = {})
      /\ w.month = v.month /\ w.known = v.known /\ w.failed = v.failed /\ w.seen = v.seen
      /\ w.left = v.left /\ w.leg = v.leg /\ w.calm = v.calm /\ w.wrote = v.wrote
  BY <1>1 DEF NextOf, RunRec
<1> HIDE DEF w
<1>4. Handled(w) = Handled(v) \cup {p}
  BY <1>2, <1>3 DEF Handled
<1>5. \A q \in v.rows \ {p} : p < q
  <2>1. v.rows \subseteq Parents /\ v.rows # {} /\ Parents \subseteq Nat
    BY <1>2, SettlementAssumption DEF Posted, Parents
  <2>2. \A q \in v.rows : p <= q
    BY <2>1, FirstIn
  <2>3. p \in Nat /\ \A q \in v.rows : q \in Nat
    BY <1>2, <2>1
  <2> HIDE DEF p
  <2> QED BY <2>2, <2>3
<1>6. InOrder(w)
  BY <1>1, <1>2, <1>3, <1>4, <1>5 DEF Sound, InOrder
<1>7. Informed(w)
  BY <1>1, <1>3 DEF Informed
<1>8. v.calm => AtPeace(w)
  BY <1>1, <1>3 DEF Sound, AtPeace
<1>9. ~w.failed => \A q \in Handled(w) : Fixed(q)
  BY <1>1, <1>3, <1>4 DEF Sound
<1>10. Sound(w)
  BY <1>1, <1>3, <1>6, <1>7, <1>8, <1>9 DEF Sound
<1> QED BY <1>10 DEF w

(* The incident is taken up: the share is stamped.                          *)
TakenUp(v) == [v EXCEPT !.pc = "reconcile", !.left = PayAfter(v.month, Handled(v) \cup {First(v.rows)}),
                        !.rest = FairRest(First(v.rows)), !.todo = Surplus(v)]

LEMMA StampSound ==
    ASSUME NEW v, v \in RunRec, v.pc = "stamp", Sound(v),
           v.failed \/ covered[First(v.rows)] = FairShare(First(v.rows))
    PROVE  Sound(TakenUp(v))
<1> DEFINE w == TakenUp(v)
<1>1. /\ w.pc = "reconcile" /\ w.left = PayAfter(v.month, Handled(v) \cup {First(v.rows)})
      /\ w.rest = FairRest(First(v.rows)) /\ w.todo = Surplus(v)
      /\ w.month = v.month /\ w.rows = v.rows /\ w.known = v.known /\ w.failed = v.failed /\ w.seen = v.seen
      /\ w.leg = v.leg /\ w.calm = v.calm /\ w.wrote = v.wrote
  BY DEF TakenUp, RunRec
<1> HIDE DEF w
<1>2. Handled(w) = Handled(v) /\ Surplus(w) = Surplus(v)
  BY <1>1 DEF Handled, Surplus
<1>3. InOrder(w)
  BY <1>1, <1>2 DEF Sound, InOrder
<1>4. Informed(w)
  BY <1>1 DEF Sound, Informed
<1>5. Reconciling(w)
  BY <1>1, <1>2 DEF Reconciling
<1>6. w.calm => AtPeace(w)
  BY <1>1 DEF Sound, AtPeace
<1>7. Sound(w)
  BY <1>1, <1>2, <1>3, <1>4, <1>5, <1>6 DEF Sound
<1> QED BY <1>7 DEF w

LEMMA StampFailSound ==
    ASSUME NEW v, v \in RunRec, v.pc = "stamp", Sound(v)
    PROVE  Sound([TakenUp(v) EXCEPT !.failed = TRUE])
<1> DEFINE w == [TakenUp(v) EXCEPT !.failed = TRUE]
<1>1. /\ w.pc = "reconcile" /\ w.left = PayAfter(v.month, Handled(v) \cup {First(v.rows)})
      /\ w.rest = FairRest(First(v.rows)) /\ w.todo = Surplus(v)
      /\ w.month = v.month /\ w.rows = v.rows /\ w.known = v.known /\ w.failed = TRUE /\ w.seen = v.seen
      /\ w.leg = v.leg /\ w.calm = v.calm /\ w.wrote = v.wrote
  BY DEF TakenUp, RunRec
<1> HIDE DEF w
<1>2. Handled(w) = Handled(v) /\ Surplus(w) = Surplus(v)
  BY <1>1 DEF Handled, Surplus
<1>3. InOrder(w)
  BY <1>1, <1>2 DEF Sound, InOrder
<1>4. Informed(w)
  BY <1>1 DEF Sound, Informed
<1>5. Reconciling(w)
  BY <1>1, <1>2 DEF Reconciling
<1>6. w.calm => AtPeace(w)
  BY <1>1 DEF Sound, AtPeace
<1>7. Sound(w)
  BY <1>1, <1>2, <1>3, <1>4, <1>5, <1>6 DEF Sound
<1> QED BY <1>7 DEF w

LEMMA FailSound ==
    ASSUME NEW v, v \in RunRec, Sound(v)
    PROVE  Sound([v EXCEPT !.failed = TRUE])
<1> DEFINE w == [v EXCEPT !.failed = TRUE]
<1>1. /\ w.pc = v.pc /\ w.left = v.left /\ w.rest = v.rest /\ w.todo = v.todo
      /\ w.month = v.month /\ w.rows = v.rows /\ w.known = v.known /\ w.failed = TRUE /\ w.seen = v.seen
      /\ w.leg = v.leg /\ w.calm = v.calm /\ w.wrote = v.wrote
  BY DEF RunRec
<1> HIDE DEF w
<1>2. Handled(w) = Handled(v) /\ Surplus(w) = Surplus(v)
  BY <1>1 DEF Handled, Surplus
<1>3. InOrder(w)
  BY <1>1, <1>2 DEF Sound, InOrder
<1>4. v.pc \in {"stamp", "reconcile", "done"} => Informed(w)
  BY <1>1 DEF Sound, Informed
<1>5. v.pc = "reconcile" => Reconciling(w)
  BY <1>1, <1>2 DEF Sound, Reconciling
<1>6. w.calm => AtPeace(w)
  BY <1>1 DEF Sound, AtPeace
<1>7. Sound(w)
  BY <1>1, <1>2, <1>3, <1>4, <1>5, <1>6 DEF Sound
<1> QED BY <1>7 DEF w

LEMMA WroteSound ==
    ASSUME NEW v, v \in RunRec, Sound(v), ~v.calm
    PROVE  Sound([v EXCEPT !.wrote = TRUE])
<1> DEFINE w == [v EXCEPT !.wrote = TRUE]
<1>1. /\ w.pc = v.pc /\ w.left = v.left /\ w.rest = v.rest /\ w.todo = v.todo
      /\ w.month = v.month /\ w.rows = v.rows /\ w.known = v.known /\ w.failed = v.failed /\ w.seen = v.seen
      /\ w.leg = v.leg /\ w.calm = v.calm
  BY DEF RunRec
<1> HIDE DEF w
<1>2. Handled(w) = Handled(v) /\ Surplus(w) = Surplus(v)
  BY <1>1 DEF Handled, Surplus
<1>3. InOrder(w)
  BY <1>1, <1>2 DEF Sound, InOrder
<1>4. v.pc \in {"stamp", "reconcile", "done"} => Informed(w)
  BY <1>1 DEF Sound, Informed
<1>5. v.pc = "reconcile" => Reconciling(w)
  BY <1>1, <1>2 DEF Sound, Reconciling
<1>6. Sound(w)
  BY <1>1, <1>2, <1>3, <1>4, <1>5 DEF Sound
<1> QED BY <1>6 DEF w

(* A child that no row bears the id of any more is off the list.            *)
LEMMA DropSound ==
    ASSUME NEW v, v \in RunRec, v.pc = "reconcile", Sound(v), NEW k,
           v.failed \/ \A j \in kids : j.id # k.id
    PROVE  Sound([v EXCEPT !.todo = @ \ {k}])
<1> DEFINE w == [v EXCEPT !.todo = @ \ {k}]
<1>1. /\ w.pc = v.pc /\ w.left = v.left /\ w.rest = v.rest /\ w.todo = v.todo \ {k}
      /\ w.month = v.month /\ w.rows = v.rows /\ w.known = v.known /\ w.failed = v.failed /\ w.seen = v.seen
      /\ w.leg = v.leg /\ w.calm = v.calm /\ w.wrote = v.wrote
  BY DEF RunRec
<1> HIDE DEF w
<1>2. Handled(w) = Handled(v) /\ Surplus(w) = Surplus(v)
  BY <1>1 DEF Handled, Surplus
<1>3. InOrder(w)
  BY <1>1, <1>2 DEF Sound, InOrder
<1>4. Informed(w)
  BY <1>1 DEF Sound, Informed
<1>5. Reconciling(w)
  <2>1. Reconciling(v)
    BY DEF Sound
  <2>2. ~v.failed => \A i \in Surplus(v) \ (v.todo \ {k}) : \A j \in kids : j.id # i.id
    BY <2>1 DEF Reconciling
  <2> QED BY <1>1, <1>2, <2>1, <2>2 DEF Reconciling
<1>6. w.calm => AtPeace(w)
  BY <1>1 DEF Sound, AtPeace
<1>7. Sound(w)
  BY <1>1, <1>2, <1>3, <1>4, <1>5, <1>6 DEF Sound
<1> QED BY <1>7 DEF w

(* The same, for the state a step leads to.                                 *)
Lasting ==
    /\ \A v : At(v) /\ (v.failed \/ Ended(v)) => Sound(NextOf(v))
    /\ \A v : /\ v \in RunRec /\ v.pc = "stamp" /\ Sound(v)
              /\ v.failed \/ covered[First(v.rows)] = FairShare(First(v.rows))
              => Sound(TakenUp(v))
    /\ \A v : v \in RunRec /\ v.pc = "stamp" /\ Sound(v) => Sound([TakenUp(v) EXCEPT !.failed = TRUE])
    /\ \A v : v \in RunRec /\ Sound(v) => Sound([v EXCEPT !.failed = TRUE])
    /\ \A v : v \in RunRec /\ Sound(v) /\ ~v.calm => Sound([v EXCEPT !.wrote = TRUE])
    /\ \A v, k : /\ v \in RunRec /\ v.pc = "reconcile" /\ Sound(v)
                 /\ v.failed \/ \A j \in kids : j.id # k.id
                 => Sound([v EXCEPT !.todo = @ \ {k}])

LEMMA LastingNow == Lasting
BY EndsFixed, NextSound, StampSound, StampFailSound, FailSound, WroteSound, DropSound DEF Lasting

LEMMA LastingNext == Lasting'
BY LastingNow, PTL

-----------------------------------------------------------------------------
(* The steps, by whom they disturb.                                          *)

StandsStill ==
    \A m \in 1..Months : settled[m] /\ settled'[m] =>
        \A p \in Parents : Month[p] = m => covered'[p] = covered[p] /\ KidsOf(p)' = KidsOf(p)

LEMMA ExactInit == SettlementInit => ExactInv
<1> SUFFICES ASSUME SettlementInit PROVE ExactInv
  OBVIOUS
<1>1. \A r \in Runs : run[r] = Idle
  BY DEF SettlementInit
<1>2. Idle.pc = "idle" /\ Idle.calm = FALSE
  BY DEF Idle
<1> QED BY <1>1, <1>2, InitInv DEF SettlementInit, ExactInv

(* The records a settlement may be in.                                      *)
LEMMA RunFacts ==
    ASSUME SettlementInv, NEW r \in Runs
    PROVE  /\ run[r] \in RunRec /\ RunOK(run[r]) /\ LinkOK(run[r])
           /\ run[r].month \in 1..Months
           /\ run[r].stale \in BOOLEAN /\ run[r].calm \in BOOLEAN /\ run[r].failed \in BOOLEAN
BY DEF SettlementInv, RunsOK, LinksOK, RunRec

LEMMA RunFactsNext ==
    ASSUME SettlementInv', NEW r \in Runs
    PROVE  RunOK(run[r])' /\ LinkOK(run[r])'
BY DEF SettlementInv, RunsOK, LinksOK

(* A step that unsettles some months and outdates who works on them.        *)
LEMMA DisturbKeeps ==
    ASSUME ExactInv, SettlementInv', NEW ms,
           \A m \in (1..Months) \ ms : Undisturbed(m) /\ (settled'[m] => settled[m]),
           \A m \in 1..Months : m \in ms => ~settled'[m],
           \A s \in Runs : \/ run'[s].stale \/ run'[s].pc = "idle"
                           \/ run'[s] = run[s] /\ run[s].month \notin ms,
           \A s \in Runs : run'[s].calm => run'[s].pc # "idle"
    PROVE  ExactInv' /\ StandsStill
<1>1. ASSUME NEW s \in Runs, run'[s].pc # "idle", ~run'[s].stale PROVE Sound(run[s])'
  <2>1. PICK v : v = run[s]
    OBVIOUS
  <2>2. run'[s] = v /\ v.month \notin ms
    BY <1>1, <2>1
  <2>3. RunOK(v) /\ LinkOK(v) /\ v.month \in 1..Months
    BY <2>1, RunFacts DEF ExactInv
  <2>4. LinkOK(v)'
    BY <2>2, RunFactsNext
  <2>5. Sound(v)
    BY <1>1, <2>1, <2>2 DEF ExactInv
  <2>6. Sound(v)'
    BY <2>2, <2>3, <2>4, <2>5, StaysSound
  <2> QED BY <2>2, <2>6
<1>2. ASSUME NEW m \in 1..Months, settled'[m], NEW p \in Posted(m)' PROVE Fixed(p)'
  <2>1. m \notin ms /\ settled[m] /\ Undisturbed(m)
    BY <1>2
  <2>2. p \in Posted(m)
    BY <2>1 DEF Undisturbed
  <2> QED BY <2>1, <2>2, StaysFixed DEF ExactInv
<1>3. StandsStill
  BY DEF StandsStill, Undisturbed, Slice, KidsOf
<1> QED BY <1>1, <1>2, <1>3 DEF ExactInv

(* A settlement goes on and touches nothing.                                *)
LEMMA QuietKeeps ==
    ASSUME ExactInv, SettlementInv', NEW r \in Runs, NEW w, run' = [run EXCEPT ![r] = w],
           UNCHANGED <<status, covered, kids, basis, policy>>,
           \A m \in 1..Months : /\ settled[m] => settled'[m]
                                /\ settled'[m] => \A p \in Posted(m) : Fixed(p),
           w.pc # "idle" /\ ~w.stale => Sound(w),
           w.calm => w.pc # "idle"
    PROVE  ExactInv' /\ StandsStill
<1>1. \A m \in 1..Months : Undisturbed(m)
  BY DEF Undisturbed, Posted, Slice
<1>2. run \in [Runs -> RunRec]
  BY DEF ExactInv, SettlementInv, RunsOK
<1>3. ASSUME NEW s \in Runs, run'[s].pc # "idle", ~run'[s].stale PROVE Sound(run[s])'
  <2>1. PICK v : v = run'[s]
    OBVIOUS
  <2>2. RunOK(v) /\ LinkOK(v) /\ LinkOK(v)'
    <3>1. RunOK(v) /\ LinkOK(v)'
      BY <2>1, RunFactsNext
    <3>2. LinkOK(v)
      BY <3>1 DEF LinkOK
    <3> QED BY <3>1, <3>2
  <2>3. Sound(v)
    <3>1. CASE s = r
      BY <1>2, <1>3, <2>1, <3>1
    <3>2. CASE s # r
      BY <1>2, <1>3, <2>1, <3>2 DEF ExactInv
    <3> QED BY <3>1, <3>2
  <2>4. v.month \in 1..Months
    BY <2>2 DEF RunOK, RunRec
  <2>5. Sound(v)'
    BY <1>1, <2>2, <2>3, <2>4, StaysSound
  <2> QED BY <2>1, <2>5
<1>4. ASSUME NEW m \in 1..Months, settled'[m], NEW p \in Posted(m)' PROVE Fixed(p)'
  <2>1. p \in Posted(m)
    BY DEF Posted
  <2> QED BY <1>1, <1>4, <2>1, StaysFixed
<1>5. \A s \in Runs : run'[s].calm => run'[s].pc # "idle"
  BY <1>2 DEF ExactInv
<1>6. StandsStill
  BY DEF StandsStill, KidsOf
<1> QED BY <1>3, <1>4, <1>5, <1>6 DEF ExactInv

(* A settlement of the figures of its month moves its current row.          *)
LEMMA ConvergeKeeps ==
    ASSUME ExactInv, SettlementInv', NEW r \in Runs, NEW w, run' = [run EXCEPT ![r] = w],
           NEW p \in Posted(run[r].month), Converges(p),
           w.pc # "idle" /\ ~w.stale => Sound(w)',
           w.calm => w.pc # "idle"
    PROVE  ExactInv' /\ StandsStill
<1>1. p \in Parents /\ p \in Posted(Month[p]) /\ Month[p] \in 1..Months
  BY SettlementAssumption DEF Posted
<1>2. settled[Month[p]] => Fixed(p)
  BY <1>1 DEF ExactInv
<1>3. run \in [Runs -> RunRec]
  BY DEF ExactInv, SettlementInv, RunsOK
<1>4. ASSUME NEW s \in Runs, run'[s].pc # "idle", ~run'[s].stale PROVE Sound(run[s])'
  <2>1. CASE s = r
    BY <1>3, <1>4, <2>1
  <2>2. CASE s # r
    <3>1. PICK v : v = run[s]
      OBVIOUS
    <3>2. run'[s] = v
      BY <1>3, <2>2, <3>1
    <3>3. RunOK(v) /\ LinkOK(v) /\ ~v.stale /\ Sound(v)
      BY <1>4, <3>1, <3>2, RunFacts DEF ExactInv
    <3>4. Sound(v)'
      BY <1>1, <1>2, <3>1, <3>3, ConvergesSound
    <3> QED BY <3>2, <3>4
  <2> QED BY <2>1, <2>2
<1>5. ASSUME NEW m \in 1..Months, settled'[m], NEW q \in Posted(m)' PROVE Fixed(q)'
  <2>1. q \in Posted(m) /\ settled[m] /\ q \in Parents
    BY <1>5 DEF Posted, Converges
  <2> QED BY <2>1, ConvergesFixed DEF ExactInv
<1>6. \A s \in Runs : run'[s].calm => run'[s].pc # "idle"
  BY <1>3 DEF ExactInv
<1>7. StandsStill
  <2>1. ASSUME NEW q \in Parents, q # p PROVE covered'[q] = covered[q] /\ KidsOf(q)' = KidsOf(q)
    BY <2>1 DEF Converges, KidsOf
  <2>2. settled[Month[p]] => covered'[p] = covered[p] /\ KidsOf(p)' = KidsOf(p)
    BY <1>2 DEF Converges, KidsOf
  <2> QED BY <2>1, <2>2 DEF StandsStill
<1> QED BY <1>4, <1>5, <1>6, <1>7 DEF ExactInv

LEMMA GotoCalm ==
    ASSUME SettlementInv, NEW r \in Runs, NEW w, NEW c, Goto(r, w, c), ~(run[r].stale /\ c)
    PROVE  run' = [run EXCEPT ![r] = w] /\ settled' = settled
<1>1. run \in [Runs -> RunRec] /\ settled \in [1..Months -> BOOLEAN] /\ run[r].month \in 1..Months
  BY RunFacts DEF SettlementInv, RunsOK, PlainOK
<1>2. Outdated({}) = run
  <2>1. ASSUME NEW s \in Runs PROVE [run[s] EXCEPT !.stale = @ \/ s \in {}] = run[s]
    BY <1>1 DEF RunRec
  <2> QED BY <1>1, <2>1 DEF Outdated
<1>3. run' = [Outdated({}) EXCEPT ![r] = w]
  BY DEF Goto
<1>4. settled' = settled
  BY <1>1 DEF Goto
<1> QED BY <1>2, <1>3, <1>4

(* A stale settlement changes the tables: all who work on the month, and    *)
(* the month itself, are off.                                               *)
LEMMA StaleKeeps ==
    ASSUME ExactInv, SettlementInv', NEW r \in Runs, NEW w, Goto(r, w, TRUE), run[r].stale, w.stale,
           w.calm => w.pc # "idle",
           \A m \in (1..Months) \ {run[r].month} :
               /\ Posted(m)' = Posted(m) /\ basis'[m] = basis[m] /\ policy' = policy
               /\ \A p \in Parents : Month[p] = m => covered'[p] = covered[p]
               /\ Slice(m)' = Slice(m)
    PROVE  ExactInv' /\ StandsStill
<1> DEFINE m == run[r].month
           S == Working({m})
<1>1. settled \in [1..Months -> BOOLEAN] /\ m \in 1..Months /\ SettlementInv
  BY RunFacts DEF ExactInv, SettlementInv, PlainOK
<1>2. settled' = [settled EXCEPT ![m] = FALSE]
  BY <1>1 DEF Goto
<1>3. run' = [Outdated(S) EXCEPT ![r] = w]
  BY DEF Goto
<1>4. \A s \in Runs : run'[s] = IF s = r THEN w ELSE Outdated(S)[s]
  BY <1>3 DEF Outdated
<1>5. ASSUME NEW s \in Runs, s # r
      PROVE  /\ run'[s].stale \/ run'[s].pc = "idle" \/ (run'[s] = run[s] /\ run[s].month # m)
             /\ run'[s].calm => run'[s].pc # "idle"
  <2>1. PICK v : v = run[s]
    OBVIOUS
  <2>2. v \in RunRec /\ run'[s] = [v EXCEPT !.stale = @ \/ s \in S]
    BY <1>1, <1>4, <1>5, <2>1, RunFacts DEF Outdated
  <2>3. v.calm => v.pc # "idle"
    BY <2>1 DEF ExactInv
  <2>4. s \in S \/ v.pc = "idle" \/ v.month # m
    BY <2>1 DEF Working
  <2> HIDE DEF S, m
  <2>5. CASE s \in S
    <3>1. run'[s] = [v EXCEPT !.stale = TRUE]
      BY <2>2, <2>5
    <3>2. run'[s].stale /\ run'[s].pc = v.pc /\ run'[s].calm = v.calm
      BY <2>2, <3>1 DEF RunRec
    <3> QED BY <2>3, <3>2
  <2>6. CASE s \notin S
    <3>1. run'[s] = v
      BY <2>2, <2>6 DEF RunRec
    <3> QED BY <2>1, <2>3, <2>4, <2>6, <3>1
  <2> QED BY <2>5, <2>6
<1>6. \A n \in (1..Months) \ {m} : Undisturbed(n) /\ (settled'[n] => settled[n])
  BY <1>1, <1>2 DEF Undisturbed
<1>7. \A n \in 1..Months : n \in {m} => ~settled'[n]
  BY <1>1, <1>2
<1>8. \A s \in Runs : run'[s].calm => run'[s].pc # "idle"
  BY <1>4, <1>5
<1>9. \A s \in Runs : \/ run'[s].stale \/ run'[s].pc = "idle"
                      \/ run'[s] = run[s] /\ run[s].month \notin {m}
  BY <1>4, <1>5
<1> HIDE DEF m
<1> QED BY <1>6, <1>7, <1>8, <1>9, DisturbKeeps

-----------------------------------------------------------------------------
(* People and the calculation.                                               *)

LEMMA ChangeDisturbs ==
    ASSUME ExactInv, SettlementInv', NEW ms, Change(ms),
           \A m \in (1..Months) \ ms :
               /\ Posted(m)' = Posted(m) /\ basis'[m] = basis[m] /\ policy' = policy
               /\ \A p \in Parents : Month[p] = m => covered'[p] = covered[p]
               /\ Slice(m)' = Slice(m)
    PROVE  ExactInv' /\ StandsStill
<1>1. settled' = [m \in 1..Months |-> settled[m] /\ m \notin ms] /\ run' = Outdated(Working(ms))
  BY DEF Change
<1>2. ASSUME NEW s \in Runs
      PROVE  /\ run'[s].stale \/ run'[s].pc = "idle" \/ (run'[s] = run[s] /\ run[s].month \notin ms)
             /\ run'[s].calm => run'[s].pc # "idle"
  <2> DEFINE S == Working(ms)
  <2>1. PICK v : v = run[s]
    OBVIOUS
  <2>2. v \in RunRec /\ run'[s] = [v EXCEPT !.stale = @ \/ s \in S]
    BY <1>1, <2>1, RunFacts DEF Outdated, ExactInv
  <2>3. v.calm => v.pc # "idle"
    BY <2>1 DEF ExactInv
  <2>4. s \in S \/ v.pc = "idle" \/ v.month \notin ms
    BY <2>1 DEF Working
  <2> HIDE DEF S
  <2>5. CASE s \in S
    BY <2>2, <2>3, <2>5 DEF RunRec
  <2>6. CASE s \notin S
    <3>1. run'[s] = v
      BY <2>2, <2>6 DEF RunRec
    <3> QED BY <2>1, <2>3, <2>4, <2>6, <3>1
  <2> QED BY <2>5, <2>6
<1>3. \A m \in (1..Months) \ ms : Undisturbed(m) /\ (settled'[m] => settled[m])
  BY <1>1 DEF Undisturbed
<1>4. \A m \in 1..Months : m \in ms => ~settled'[m]
  BY <1>1
<1> QED BY <1>2, <1>3, <1>4, DisturbKeeps

LEMMA PeopleKeepExact ==
    ASSUME ExactInv, SettlementInv', PeopleStep
    PROVE  ExactInv' /\ StandsStill
<1>1. ASSUME NEW p \in Parents, NEW d \in {"posted", "waived"}, DecideIncident(p, d) PROVE ExactInv' /\ StandsStill
  <2>1. \A m \in (1..Months) \ {Month[p]} : Posted(m)' = Posted(m)
    BY <1>1 DEF DecideIncident, Posted, ExactInv, SettlementInv, PlainOK
  <2> QED BY <1>1, <2>1, ChangeDisturbs DEF DecideIncident, Slice
<1>2. ASSUME NEW k \in kids, NEW d \in {"waived", "posted"}, DecideChild(k, d) PROVE ExactInv' /\ StandsStill
  <2> DEFINE m == Month[k.parent]
             w == Decided(k, d)
  <2>1. kids' = (kids \ {k}) \cup {w} /\ w.parent = k.parent
    BY <1>2 DEF DecideChild, Decided, ExactInv, SettlementInv, TableOK, Kids
  <2> HIDE DEF w
  <2>2. \A n \in (1..Months) \ {m} : Slice(n)' = Slice(n)
    BY <2>1 DEF Slice
  <2>3. \A n : Posted(n)' = Posted(n)
    BY <1>2 DEF DecideChild, Posted
  <2> QED BY <1>2, <2>2, <2>3, ChangeDisturbs DEF DecideChild
<1>3. ASSUME NEW m \in 1..Months, NEW pay \in Pays, Recalculate(m, pay) PROVE ExactInv' /\ StandsStill
  <2>1. \A n \in (1..Months) \ {m} : basis'[n] = basis[n]
    BY <1>3 DEF Recalculate, ExactInv, SettlementInv, PlainOK
  <2> QED BY <1>3, <2>1, ChangeDisturbs DEF Recalculate, Posted, Slice
<1>4. ASSUME NEW leg \in Legs, SetPolicy(leg) PROVE ExactInv' /\ StandsStill
  <2>1. Change(1..Months) /\ \A n \in (1..Months) \ (1..Months) : FALSE
    BY <1>4 DEF SetPolicy
  <2> QED BY <2>1, ChangeDisturbs
<1> QED BY <1>1, <1>2, <1>3, <1>4 DEF PeopleStep

-----------------------------------------------------------------------------
(* The reads.                                                                *)

(* A step of r alone that leaves months as settled as they were.            *)
LEMMA ReadOn ==
    ASSUME ExactInv, SettlementInv', NEW r \in Runs, NEW w, run' = [run EXCEPT ![r] = w],
           UNCHANGED <<status, covered, kids, basis, policy, settled>>,
           w.pc # "idle" /\ ~w.stale => Sound(w),
           w.calm => w.pc # "idle"
    PROVE  ExactInv' /\ StandsStill
<1>1. \A m \in 1..Months : settled'[m] = settled[m] /\ (settled[m] => \A p \in Posted(m) : Fixed(p))
  BY DEF ExactInv
<1> QED BY <1>1, QuietKeeps

LEMMA ReadParentsExact ==
    ASSUME ExactInv, SettlementInv', NEW r \in Runs, NEW m \in 1..Months, ReadParents(r, m)
    PROVE  ExactInv' /\ StandsStill
<1> DEFINE w == [Idle EXCEPT !.pc = "pay", !.month = m, !.rows = Posted(m),
                             !.seen = covered, !.calm = settled[m]]
<1>1. /\ w.pc = "pay" /\ w.month = m /\ w.rows = Posted(m) /\ w.seen = covered /\ w.calm = settled[m]
      /\ w.known = {} /\ w.wrote = FALSE
  BY DEF Idle
<1>2. run' = [run EXCEPT ![r] = w] /\ UNCHANGED <<status, covered, kids, basis, policy, settled>>
  BY DEF ReadParents
<1> HIDE DEF w
<1>3. Handled(w) = {}
  BY <1>1 DEF Handled
<1>4. InOrder(w)
  BY <1>1, <1>3 DEF InOrder
<1>5. w.calm => AtPeace(w)
  BY <1>1 DEF AtPeace, ExactInv, Fixed
<1>6. Sound(w)
  BY <1>1, <1>3, <1>4, <1>5 DEF Sound
<1> QED BY <1>1, <1>2, <1>6, ReadOn

LEMMA ReadPayExact ==
    ASSUME ExactInv, SettlementInv', NEW r \in Runs, ReadPay(r)
    PROVE  ExactInv' /\ StandsStill
<1> DEFINE v == run[r]
           w == [v EXCEPT !.pc = "policy", !.left = basis[v.month]]
<1>1. /\ run' = [run EXCEPT ![r] = w] /\ UNCHANGED <<status, covered, kids, basis, policy, settled>>
      /\ v.pc = "pay" /\ v \in RunRec /\ v.month \in 1..Months
  <2>1. run \in [Runs -> RunRec]
    BY DEF ExactInv, SettlementInv, RunsOK
  <2> QED BY <2>1, RunFacts DEF ReadPay, ExactInv
<1>2. /\ w.pc = "policy" /\ w.left = basis[v.month] /\ w.month = v.month /\ w.rows = v.rows /\ w.seen = v.seen
      /\ w.calm = v.calm /\ w.known = v.known /\ w.wrote = v.wrote /\ w.stale = v.stale /\ w.failed = v.failed
  BY <1>1 DEF RunRec
<1>3. ASSUME ~v.stale PROVE Sound(w)
  <2>1. Sound(v)
    BY <1>1, <1>3 DEF ExactInv
  <2> HIDE DEF w, v
  <2>2. v.rows = Posted(v.month) /\ Handled(v) = {} /\ Handled(w) = {}
    BY <1>1, <1>2, <2>1 DEF Sound, InOrder, Handled
  <2>3. basis[v.month] \in Nat
    BY <1>1 DEF ExactInv, SettlementInv, PlainOK
  <2>4. w.left = PayAfter(v.month, {})
    BY <1>2, <2>3, UnitsOfNone DEF PayAfter
  <2>5. InOrder(w)
    BY <1>1, <1>2, <2>1, <2>2, <2>4 DEF Sound, InOrder
  <2>6. w.calm => AtPeace(w)
    BY <1>2, <2>1 DEF Sound, AtPeace
  <2> QED BY <1>1, <1>2, <2>1, <2>2, <2>5, <2>6 DEF Sound
<1> HIDE DEF w
<1> QED BY <1>1, <1>2, <1>3, ReadOn

LEMMA ReadPolicyExact ==
    ASSUME ExactInv, SettlementInv', NEW r \in Runs, ReadPolicy(r)
    PROVE  ExactInv' /\ StandsStill
<1> DEFINE v == run[r]
           w == [v EXCEPT !.pc = "kids", !.leg = policy]
<1>1. /\ run' = [run EXCEPT ![r] = w] /\ UNCHANGED <<status, covered, kids, basis, policy, settled>>
      /\ v.pc = "policy" /\ v \in RunRec
  <2>1. run \in [Runs -> RunRec]
    BY DEF ExactInv, SettlementInv, RunsOK
  <2> QED BY <2>1 DEF ReadPolicy
<1>2. /\ w.pc = "kids" /\ w.left = v.left /\ w.month = v.month /\ w.rows = v.rows /\ w.seen = v.seen /\ w.leg = policy
      /\ w.calm = v.calm /\ w.known = v.known /\ w.wrote = v.wrote /\ w.stale = v.stale /\ w.failed = v.failed
  BY <1>1 DEF RunRec
<1>3. ASSUME ~v.stale PROVE Sound(w)
  <2>1. Sound(v)
    BY <1>1, <1>3 DEF ExactInv
  <2> HIDE DEF w, v
  <2>2. Handled(w) = Handled(v)
    BY <1>2 DEF Handled
  <2>3. InOrder(w)
    BY <1>1, <1>2, <2>1, <2>2 DEF Sound, InOrder
  <2>4. w.calm => AtPeace(w)
    BY <1>2, <2>1 DEF Sound, AtPeace
  <2> QED BY <1>1, <1>2, <2>1, <2>2, <2>3, <2>4 DEF Sound
<1> HIDE DEF w
<1> QED BY <1>1, <1>2, <1>3, ReadOn

LEMMA ReadKidsExact ==
    ASSUME ExactInv, SettlementInv', NEW r \in Runs, ReadKids(r) \/ KidsFail(r)
    PROVE  ExactInv' /\ StandsStill
<1> DEFINE v == run[r]
           known == IF KidsFail(r) THEN {} ELSE {k \in kids : k.parent \in v.rows}
           failed == IF KidsFail(r) THEN TRUE ELSE v.failed
           w == [v EXCEPT !.pc = "stamp", !.known = known, !.failed = failed]
<1>1. /\ v.pc = "kids" /\ v \in RunRec /\ UNCHANGED <<status, covered, kids, basis, policy, settled>>
      /\ v.known = {}
  BY RunFacts DEF ReadKids, KidsFail, ExactInv, RunOK
<1>2. run' = [run EXCEPT ![r] = w]
  <2>1. run \in [Runs -> RunRec]
    BY DEF ExactInv, SettlementInv, RunsOK
  <2>2. CASE KidsFail(r)
    <3>1. w = [v EXCEPT !.pc = "stamp", !.failed = TRUE]
      BY <1>1, <2>2 DEF RunRec
    <3> HIDE DEF w
    <3> QED BY <2>1, <2>2, <3>1 DEF KidsFail
  <2>3. CASE ~KidsFail(r)
    <3>1. w = [v EXCEPT !.pc = "stamp", !.known = {k \in kids : k.parent \in v.rows}]
      BY <1>1, <2>3 DEF RunRec
    <3> HIDE DEF w
    <3> QED BY <2>1, <2>3, <3>1 DEF ReadKids
  <2> QED BY <2>2, <2>3
<1>3. /\ w.pc = "stamp" /\ w.left = v.left /\ w.month = v.month /\ w.rows = v.rows /\ w.seen = v.seen
      /\ w.calm = v.calm /\ w.known = known /\ w.wrote = v.wrote /\ w.stale = v.stale /\ w.failed = failed
      /\ w.leg = v.leg
  BY <1>1 DEF RunRec
<1>4. \/ known = {} /\ failed
      \/ known = {k \in kids : k.parent \in v.rows} /\ failed = v.failed
  OBVIOUS
<1>5. ASSUME ~v.stale PROVE Sound(w)
  <2>1. Sound(v) /\ TableOK
    BY <1>1, <1>5 DEF ExactInv, SettlementInv
  <2> HIDE DEF w, v, known, failed
  <2>2. v.rows = Posted(v.month) /\ Handled(v) = {} /\ Handled(w) = {}
    BY <1>1, <1>3, <2>1 DEF Sound, InOrder, Handled
  <2>3. InOrder(w)
    BY <1>1, <1>3, <2>1, <2>2 DEF Sound, InOrder
  <2>4. w.calm => AtPeace(w)
    BY <1>3, <1>4, <2>1 DEF Sound, AtPeace
  <2>5. Informed(w)
    BY <1>3, <1>4, <2>2 DEF Informed
  <2> QED BY <1>1, <1>3, <2>1, <2>2, <2>3, <2>4, <2>5 DEF Sound
<1> HIDE DEF w, known, failed
<1> QED BY <1>1, <1>2, <1>3, <1>5, ReadOn

(* Without the policy a settlement is stale; dead it is idle.               *)
LEMMA EndingExact ==
    ASSUME ExactInv, SettlementInv', NEW r \in Runs, PolicyFails(r) \/ Die(r)
    PROVE  ExactInv' /\ StandsStill
<1>1. run[r] \in RunRec /\ run \in [Runs -> RunRec]
  BY RunFacts DEF ExactInv, SettlementInv, RunsOK
<1>2. CASE PolicyFails(r)
  <2> DEFINE w == [run[r] EXCEPT !.pc = "kids", !.leg = "payroll", !.failed = TRUE, !.stale = TRUE]
  <2>1. run' = [run EXCEPT ![r] = w] /\ UNCHANGED <<status, covered, kids, basis, policy, settled>>
    BY <1>1, <1>2 DEF PolicyFails
  <2>2. w.stale = TRUE /\ w.pc = "kids"
    BY <1>1 DEF RunRec
  <2> HIDE DEF w
  <2> QED BY <2>1, <2>2, ReadOn
<1>3. CASE Die(r)
  <2>1. Idle.pc = "idle" /\ Idle.calm = FALSE
    BY DEF Idle
  <2>2. run' = [run EXCEPT ![r] = Idle] /\ UNCHANGED <<status, covered, kids, basis, policy, settled>>
    BY <1>3 DEF Die
  <2> QED BY <2>1, <2>2, ReadOn
<1> QED BY <1>2, <1>3

LEMMA FinishExact ==
    ASSUME ExactInv, SettlementInv', NEW r \in Runs, Finish(r)
    PROVE  ExactInv' /\ StandsStill
<1> DEFINE v == run[r]
<1>1. /\ v.pc = "done" /\ run' = [run EXCEPT ![r] = Idle] /\ UNCHANGED <<status, covered, kids, basis, policy>>
      /\ settled' = [settled EXCEPT ![v.month] = @ \/ ~(v.failed \/ v.stale)]
      /\ settled \in [1..Months -> BOOLEAN] /\ v.month \in 1..Months
  BY RunFacts DEF Finish, ExactInv, SettlementInv, PlainOK
<1>2. Idle.pc = "idle" /\ Idle.calm = FALSE
  BY DEF Idle
<1>3. ASSUME ~v.failed, ~v.stale, NEW p \in Posted(v.month) PROVE Fixed(p)
  <2>1. Sound(v)
    BY <1>1, <1>3 DEF ExactInv
  <2>2. p \in Handled(v)
    BY <1>1, <2>1 DEF Sound, InOrder, Handled
  <2> QED BY <1>3, <2>1, <2>2 DEF Sound
<1>4. \A m \in 1..Months : /\ settled[m] => settled'[m]
                           /\ settled'[m] => \A p \in Posted(m) : Fixed(p)
  BY <1>1, <1>3 DEF ExactInv
<1> QED BY <1>1, <1>2, <1>4, QuietKeeps

-----------------------------------------------------------------------------
(* The writes.                                                               *)

(* Whatever a stale settlement writes, it goes on stale.                    *)
LEMMA OnwardFacts ==
    ASSUME SettlementInv, NEW r \in Runs, NEW v \in RunRec, v.pc = "reconcile"
    PROVE  /\ Onward(r, v) \in RunRec /\ Onward(r, v).pc # "idle"
           /\ Onward(r, v).calm = v.calm /\ Onward(r, v).stale = v.stale
           /\ NextRow(r, v) \in RunRec /\ NextRow(r, v).pc # "idle"
           /\ NextRow(r, v).calm = v.calm /\ NextRow(r, v).stale = v.stale
<1>1. /\ NextRow(r, v) \in RunRec /\ NextRow(r, v).pc # "idle"
      /\ NextRow(r, v).calm = v.calm /\ NextRow(r, v).stale = v.stale
  BY DEF NextRow, RunRec, PCs
<1> QED BY <1>1 DEF Onward

LEMMA MarkFacts ==
    ASSUME NEW v \in RunRec
    PROVE  /\ [v EXCEPT !.wrote = TRUE] \in RunRec /\ [v EXCEPT !.failed = TRUE] \in RunRec
           /\ [v EXCEPT !.wrote = TRUE].pc = v.pc /\ [v EXCEPT !.failed = TRUE].pc = v.pc
           /\ [v EXCEPT !.wrote = TRUE].calm = v.calm /\ [v EXCEPT !.failed = TRUE].calm = v.calm
           /\ [v EXCEPT !.wrote = TRUE].stale = v.stale /\ [v EXCEPT !.failed = TRUE].stale = v.stale
           /\ [v EXCEPT !.wrote = TRUE].known = v.known /\ [v EXCEPT !.failed = TRUE].known = v.known
BY DEF RunRec

LEMMA NextRowIs ==
    ASSUME NEW r, NEW v, v.rows = run[r].rows
    PROVE  NextRow(r, v) = NextOf(v)
BY DEF NextRow, NextOf, Current, First

(* After its write a settlement goes on as soundly as it stands.            *)
LEMMA GoesOn ==
    ASSUME SettlementInv', NEW r \in Runs, NEW v, RunOK(v), LinkOK(v)', ~v.stale, v.pc = "reconcile",
           v.rows = run[r].rows, v.known = run[r].known, v.leg = run[r].leg, Sound(v)',
           NEW w, w = Onward(r, v)
    PROVE  Sound(w)'
<1>1. At(v)'
  BY DEF At, RunOK, OneKey, RunRec
<1>2. ASSUME v.todo = {}, ~InsertDue(r, v), ~UpdateDue(r, v) PROVE Ended(v)'
  <2> SUFFICES ASSUME v.rest > 0
               PROVE  \E k \in v.known : k.parent = First(v.rows) /\ k.leg = v.leg /\ (k.word # "none" \/ k.amount = v.rest)
    BY <1>2 DEF Ended, RestPlaced
  <2>1. PICK k : k \in Target(r)
    BY <1>2 DEF InsertDue
  <2>2. k \in v.known /\ k.parent = First(v.rows) /\ k.leg = v.leg
    BY <2>1, CurrentIsFirst DEF Target, Known
  <2>3. k.word # "none" \/ k.amount = v.rest
    BY <1>2, <2>1 DEF UpdateDue, Mine
  <2> QED BY <2>2, <2>3
<1>3. CASE w = v
  BY <1>3
<1>4. CASE Ended(v)' /\ w = NextRow(r, v)
  <2>1. w = NextOf(v)
    BY <1>4, NextRowIs
  <2>2. Sound(NextOf(v))'
    BY <1>1, <1>4, LastingNext DEF Lasting
  <2>3. NextOf(v)' = NextOf(v)
    BY DEF NextOf, First
  <2> QED BY <2>1, <2>2, <2>3
<1>5. w = v \/ (v.todo = {} /\ ~InsertDue(r, v) /\ ~UpdateDue(r, v) /\ w = NextRow(r, v))
  BY Zenon DEF Onward
<1> QED BY <1>2, <1>3, <1>4, <1>5, Zenon

LEMMA GoesOnNext ==
    ASSUME SettlementInv', NEW r \in Runs, NEW v, RunOK(v), LinkOK(v)', ~v.stale, v.pc = "reconcile",
           v.rows = run[r].rows, Sound(v)', v.failed \/ Ended(v)',
           NEW w, w = NextRow(r, v)
    PROVE  Sound(w)'
<1>1. At(v)'
  BY DEF At, RunOK, OneKey, RunRec
<1>2. w = NextOf(v)
  BY NextRowIs
<1>3. NextOf(v)' = NextOf(v)
  BY DEF NextOf, First
<1>4. Sound(NextOf(v))'
  BY <1>1, LastingNext DEF Lasting
<1> QED BY <1>2, <1>3, <1>4

(* What goes on in r's place has r's links.                                 *)
LEMMA LinkOfNext ==
    ASSUME SettlementInv', NEW r \in Runs, NEW v, run'[r].known = v.known, ~run'[r].stale
    PROVE  LinkOK(v)'
<1>1. LinkOK(run[r])'
  BY RunFactsNext
<1> QED BY <1>1 DEF LinkOK

(* What a settlement of the figures of its month knows as it writes.        *)
LEMMA AtWork ==
    ASSUME ExactInv, NEW r \in Runs, ~run[r].stale, run[r].pc \in {"stamp", "reconcile"}
    PROVE  /\ Sound(run[r]) /\ Informed(run[r]) /\ run[r].leg = policy
           /\ Current(r) = First(run[r].rows)
           /\ Current(r) \in Posted(run[r].month) /\ Current(r) \in Parents
           /\ Month[Current(r)] = run[r].month
           /\ settled[run[r].month] => Fixed(Current(r))
<1>1. Sound(run[r]) /\ Informed(run[r]) /\ run[r].leg = policy /\ run[r].rows \subseteq Posted(run[r].month)
  BY DEF ExactInv, Sound, InOrder
<1>2. Current(r) \in run[r].rows /\ Current(r) \in Parents /\ run[r].month \in 1..Months
  BY CurrentIn, RunFacts DEF ExactInv
<1> QED BY <1>1, <1>2, CurrentIsFirst DEF ExactInv, Posted

(* What is retracted is what must go.                                       *)
LEMMA RetractsSurplus ==
    ASSUME ExactInv, NEW r \in Runs, ~run[r].stale, run[r].pc = "stamp"
    PROVE  Taken(r) = TakenUp(run[r])
<1> DEFINE v == run[r]
           p == Current(r)
<1>1. p = First(v.rows) /\ v.leg = policy /\ Sound(v) /\ p \in Parents
  BY AtWork
<1>2. Rest(r) = FairRest(p) /\ LeftAfter(r) = PayAfter(v.month, Handled(v) \cup {p}) /\ FairRest(p) \in Nat
  BY <1>1, ShareIsFair, FairShareIs DEF ExactInv
<1>3. \A k \in Known(r) : Right(k) <=> k.leg = policy /\ FairRest(p) > 0
  BY DEF Known, Right
<1>4. Known(r) = {k \in v.known : k.parent = First(v.rows)}
  BY <1>1 DEF Known
<1>5. Retracted(r) = Surplus(v)
  <2>1. CASE FairRest(p) > 0 /\ \E k \in Known(r) : k.leg = policy /\ k.word = "waived"
    BY <1>1, <1>2, <1>4, <2>1 DEF Retracted, Surplus, Target
  <2>2. CASE ~(FairRest(p) > 0 /\ \E k \in Known(r) : k.leg = policy /\ k.word = "waived")
    <3>1. Retracted(r) = {k \in Known(r) : k.word = "none" /\ (FairRest(p) = 0 \/ k.leg # policy)}
      BY <1>1, <1>2, <2>2 DEF Retracted, Target, Mine
    <3>2. Surplus(v) = {k \in Known(r) : k.word = "none" /\ ~Right(k)}
      BY <1>1, <1>4, <2>2 DEF Surplus
    <3>3. \A k \in Known(r) : ~Right(k) <=> FairRest(p) = 0 \/ k.leg # policy
      BY <1>2, <1>3
    <3> QED BY <3>1, <3>2, <3>3
  <2> QED BY <2>1, <2>2
<1> QED BY <1>1, <1>2, <1>5 DEF Taken, TakenUp

LEMMA StampsExact ==
    ASSUME ExactInv, SettlementInv', NEW r \in Runs, ~run[r].stale, Stamp(r) \/ StampFails(r)
    PROVE  ExactInv' /\ StandsStill
<1> PICK v : v = run[r]
  OBVIOUS
<1> PICK p : p = Current(r)
  OBVIOUS
<1>1. /\ v \in RunRec /\ RunOK(v) /\ LinkOK(v) /\ ~v.stale /\ v.pc = "stamp" /\ Sound(v)
      /\ p = First(v.rows) /\ p \in Posted(v.month) /\ p \in Parents /\ Month[p] = v.month
      /\ settled[v.month] => Fixed(p)
  BY AtWork, RunFacts DEF ExactInv, Stamp, StampFails
<1>2. Share(r) = FairShare(p)
  BY <1>1, ShareIsFair DEF ExactInv
<1>3. PICK t : t = Taken(r)
  OBVIOUS
<1>4. t = TakenUp(v) /\ RunOK(t) /\ t \in RunRec /\ t.pc = "reconcile" /\ t.known = v.known /\ t.stale = v.stale
  BY <1>1, <1>3, RetractsSurplus, TakenOK DEF ExactInv, RunOK
<1>5. t.rows = v.rows /\ t.leg = v.leg /\ t.calm = v.calm /\ t.failed = v.failed
  BY <1>1, <1>4 DEF TakenUp, RunRec
<1>6. PICK u : u = Onward(r, t)
  OBVIOUS
<1>7. u = Stamped(r) /\ u \in RunRec /\ u.pc # "idle" /\ u.calm = v.calm /\ ~u.stale /\ u.known = v.known
  BY <1>1, <1>3, <1>4, <1>5, <1>6, OnwardFacts, StampedContinues DEF Stamped, Taken, ExactInv, Continues
<1>8. covered \in [Parents -> Nat \cup {Unset}]
  BY DEF ExactInv, SettlementInv, CoveredOK
<1>9. UNCHANGED <<status, kids, basis, policy, settled>>
      /\ (covered' = covered \/ covered' = [covered EXCEPT ![p] = FairShare(p)])
  <2>1. CASE Stamp(r)
    BY <1>1, <1>2, <2>1, GotoCalm DEF Stamp, ExactInv
  <2>2. CASE StampFails(r)
    BY <1>1, <2>2, GotoCalm DEF StampFails, ExactInv
  <2> QED BY <2>1, <2>2
<1>10. Converges(p)
  <2>1. \A q \in Parents : covered'[q] = covered[q] \/ (q = p /\ covered'[q] = FairShare(q))
    BY <1>8, <1>9
  <2>2. Fixed(p) => covered' = covered
    BY <1>8, <1>9 DEF Fixed
  <2> QED BY <1>9, <2>1, <2>2 DEF Converges
<1>11. Sound(v)'
  BY <1>1, <1>10, ConvergesSound
<1>12. TakenUp(v)' = TakenUp(v) /\ FairShare(p)' = FairShare(p)
  <2>1. /\ Posted(v.month)' = Posted(v.month) /\ basis'[v.month] = basis[v.month] /\ policy' = policy
        /\ FairShare(p)' = FairShare(p) /\ FairRest(p)' = FairRest(p)
    BY <1>10, ConvergesFigures
  <2>2. Surplus(v)' = Surplus(v)
    BY <1>1, <2>1, SameSurplus
  <2>3. \A S : PayAfter(v.month, S)' = PayAfter(v.month, S)
    BY <2>1, FiguresStay
  <2>4. Handled(v)' = Handled(v)
    BY <2>1 DEF Handled
  <2>5. First(v.rows)' = First(v.rows)
    BY DEF First
  <2> QED BY <1>1, <2>1, <2>2, <2>3, <2>4, <2>5 DEF TakenUp
<1>13. ASSUME covered'[p] = FairShare(p), LinkOK(t)' PROVE Sound(u)'
  <2>1. Sound(t)'
    BY <1>1, <1>4, <1>11, <1>12, <1>13, LastingNext DEF Lasting, First
  <2> QED BY <1>1, <1>4, <1>5, <1>6, <1>13, <2>1, GoesOn
<1>14. CASE Stamp(r) /\ StampDue(r)
  <2> PICK w : w = [u EXCEPT !.wrote = TRUE]
    OBVIOUS
  <2>1. run' = [run EXCEPT ![r] = w] /\ covered' = [covered EXCEPT ![p] = FairShare(p)]
    BY <1>1, <1>2, <1>7, <1>14, GotoCalm DEF Stamp, ExactInv
  <2>2. w \in RunRec /\ w.pc # "idle" /\ w.calm = v.calm /\ ~w.stale /\ w.known = v.known
    BY <1>7, MarkFacts
  <2>3. ~v.calm
    <3>1. v.seen[p] # FairShare(p)
      BY <1>2, <1>14 DEF StampDue
    <3> QED BY <1>1, <3>1 DEF Sound, AtPeace
  <2>4. covered'[p] = FairShare(p)
    BY <1>1, <1>8, <2>1
  <2>5. run'[r] = w
    BY <2>1 DEF ExactInv, SettlementInv, RunsOK
  <2>6. LinkOK(t)'
    BY <1>1, <1>4, <2>2, <2>5, LinkOfNext
  <2>7. Sound(w)'
    BY <1>7, <1>13, <2>3, <2>4, <2>6, LastingNext DEF Lasting
  <2> QED BY <1>1, <1>10, <2>1, <2>2, <2>7, ConvergeKeeps
<1>15. CASE Stamp(r) /\ ~StampDue(r)
  <2>1. run' = [run EXCEPT ![r] = u] /\ covered' = covered
    BY <1>1, <1>7, <1>15, GotoCalm DEF Stamp, ExactInv
  <2>2. covered'[p] = FairShare(p)
    BY <1>1, <1>2, <1>15, <2>1 DEF StampDue, Sound
  <2>3. run'[r] = u
    BY <2>1 DEF ExactInv, SettlementInv, RunsOK
  <2>4. LinkOK(t)'
    BY <1>1, <1>4, <1>7, <2>3, LinkOfNext
  <2>5. Sound(u)'
    BY <1>13, <2>2, <2>4
  <2> QED BY <1>1, <1>7, <1>10, <2>1, <2>5, ConvergeKeeps
<1>16. CASE StampFails(r)
  <2> PICK w : w = [u EXCEPT !.failed = TRUE]
    OBVIOUS
  <2> PICK tf : tf = [t EXCEPT !.failed = TRUE]
    OBVIOUS
  <2>1. run' = [run EXCEPT ![r] = w]
    BY <1>1, <1>7, <1>16, GotoCalm DEF StampFails, ExactInv
  <2>2. w \in RunRec /\ w.pc # "idle" /\ w.calm = v.calm /\ ~w.stale /\ w.known = v.known
    BY <1>7, MarkFacts
  <2>3. run'[r] = w
    BY <2>1 DEF ExactInv, SettlementInv, RunsOK
  <2>4. /\ tf \in RunRec /\ tf.pc = "reconcile" /\ tf.rows = t.rows /\ tf.known = t.known /\ tf.stale = t.stale
        /\ tf.leg = t.leg /\ tf.todo = t.todo /\ tf.rest = t.rest /\ tf.failed = TRUE /\ tf.month = t.month
    BY <1>4 DEF RunRec
  <2>5. RunOK(tf)
    BY <1>4, <2>4 DEF RunOK
  <2>6. LinkOK(tf)'
    <3>1. run'[r].known = tf.known /\ ~run'[r].stale
      BY <1>4, <2>2, <2>3, <2>4
    <3> QED BY <3>1, LinkOfNext
  <2>7. w = Onward(r, tf)
    <3>1. InsertDue(r, tf) <=> InsertDue(r, t)
      BY <2>4 DEF InsertDue
    <3>2. UpdateDue(r, tf) <=> UpdateDue(r, t)
      BY <2>4 DEF UpdateDue
    <3>3. NextRow(r, tf) = [NextRow(r, t) EXCEPT !.failed = TRUE]
      BY <1>4 DEF NextRow, RunRec
    <3> QED BY <1>6, <2>4, <3>1, <3>2, <3>3 DEF Onward
  <2>8. Sound(tf)'
    <3>1. Sound([TakenUp(v) EXCEPT !.failed = TRUE])'
      BY <1>1, <1>11, LastingNext DEF Lasting
    <3>2. tf = [TakenUp(v)' EXCEPT !.failed = TRUE]
      BY <1>4, <1>12
    <3> QED BY <3>1, <3>2
  <2>9. Sound(w)'
    <3>1. tf.rows = run[r].rows /\ tf.known = run[r].known /\ tf.leg = run[r].leg /\ ~tf.stale
      BY <1>1, <1>4, <1>5, <2>4
    <3> QED BY <2>4, <2>5, <2>6, <2>7, <2>8, <3>1, GoesOn
  <2> QED BY <1>1, <1>10, <2>1, <2>2, <2>9, ConvergeKeeps
<1> QED BY <1>14, <1>15, <1>16

LEMMA NothingConverges ==
    ASSUME NEW p, UNCHANGED <<status, covered, kids, basis, policy, settled>>
    PROVE  Converges(p)
BY DEF Converges

(* What must go is nobody's but the settlement's to delete.                 *)
LEMMA DeletesConverge ==
    ASSUME NEW v, At(v), NEW k \in v.todo, kids' = {j \in kids : j.id # k.id},
           UNCHANGED <<status, covered, basis, policy, settled>>
    PROVE  Converges(First(v.rows))
<1> PICK p : p = First(v.rows)
  OBVIOUS
<1>1. k \in Surplus(v) /\ k \in v.known /\ k.parent = p /\ k.word = "none" /\ ~Right(k)
  BY DEF At, Sound, Reconciling, Surplus
<1>2. ASSUME NEW j \in kids, j.id = k.id PROVE j.parent = p /\ j.word = "none" /\ ~Right(j)
  BY <1>1, <1>2 DEF At, LinkOK, Right
<1>3. Fixed(p) => kids' = kids
  BY <1>1, SurplusGone
<1>4. \A j \in kids : j.parent # p \/ j.word # "none" \/ Right(j) => j \in kids'
  BY <1>2
<1>5. \A j \in kids' : j \in kids
  OBVIOUS
<1>6. Converges(p)
  BY <1>3, <1>4, <1>5 DEF Converges
<1> QED BY <1>6

LEMMA RetractsExact ==
    ASSUME ExactInv, SettlementInv', NEW r \in Runs, ~run[r].stale, NEW k, Retract(r, k)
    PROVE  ExactInv' /\ StandsStill
<1> PICK v : v = run[r]
  OBVIOUS
<1> PICK p : p = First(v.rows)
  OBVIOUS
<1>1. /\ v \in RunRec /\ RunOK(v) /\ LinkOK(v) /\ ~v.stale /\ v.pc = "reconcile" /\ Sound(v)
      /\ p \in Posted(v.month) /\ p \in Parents /\ Month[p] = v.month
      /\ settled[v.month] => Fixed(p)
      /\ k \in v.todo
  BY AtWork, RunFacts DEF ExactInv, Retract
<1>2. At(v)
  BY <1>1 DEF At, ExactInv
<1>3. PICK t : t = [v EXCEPT !.todo = @ \ {k}, !.wrote = TRUE]
  OBVIOUS
<1>4. PICK w : w = Onward(r, t)
  OBVIOUS
<1>5. /\ t \in RunRec /\ RunOK(t) /\ t.pc = "reconcile" /\ t.known = v.known /\ ~t.stale
      /\ t.rows = v.rows /\ t.leg = v.leg /\ t.calm = v.calm
  BY <1>1, <1>3 DEF RunOK, RunRec
<1>6. w \in RunRec /\ w.pc # "idle" /\ w.calm = v.calm /\ ~w.stale /\ w.known = v.known
  BY <1>4, <1>5, OnwardFacts, OnwardContinues DEF ExactInv
<1>7. /\ kids' = {j \in kids : j.id # k.id} /\ run' = [run EXCEPT ![r] = w]
      /\ UNCHANGED <<status, covered, basis, policy, settled>>
  BY <1>1, <1>3, <1>4, GotoCalm DEF Retract, ExactInv
<1>8. Converges(p)
  BY <1>2, <1>1, <1>7, DeletesConverge
<1>9. Sound(v)'
  BY <1>1, <1>8, ConvergesSound
<1>10. ~v.calm
  <2>1. k \in Surplus(v) /\ k \in v.known
    BY <1>1 DEF Sound, Reconciling, Surplus
  <2>2. v.calm => Fixed(p) /\ k \in kids
    BY <1>1, <2>1 DEF Sound, AtPeace
  <2> QED BY <1>2, <2>1, <2>2, SurplusGone
<1>11. Sound(t)'
  <2> PICK x : x = [v EXCEPT !.todo = @ \ {k}]
    OBVIOUS
  <2>1. \A j \in kids' : j.id # k.id
    BY <1>7
  <2>2. Sound(x)'
    BY <1>1, <1>9, <2>1, LastingNext DEF Lasting
  <2>3. x \in RunRec /\ x.calm = v.calm /\ t = [x EXCEPT !.wrote = TRUE]
    BY <1>1, <1>3 DEF RunRec
  <2> QED BY <1>10, <2>2, <2>3, LastingNext DEF Lasting
<1>12. LinkOK(t)'
  <2>1. run'[r] = w
    BY <1>7 DEF ExactInv, SettlementInv, RunsOK
  <2>2. run'[r].known = t.known /\ ~run'[r].stale
    BY <1>5, <1>6, <2>1
  <2> QED BY <2>2, LinkOfNext
<1>13. Sound(w)'
  BY <1>4, <1>5, <1>11, <1>12, GoesOn
<1> QED BY <1>1, <1>6, <1>7, <1>8, <1>13, ConvergeKeeps

LEMMA RetractFailsExact ==
    ASSUME ExactInv, SettlementInv', NEW r \in Runs, ~run[r].stale, NEW k, RetractFails(r, k)
    PROVE  ExactInv' /\ StandsStill
<1> PICK v : v = run[r]
  OBVIOUS
<1> PICK p : p = First(v.rows)
  OBVIOUS
<1>1. /\ v \in RunRec /\ RunOK(v) /\ LinkOK(v) /\ ~v.stale /\ v.pc = "reconcile" /\ Sound(v)
      /\ p \in Posted(v.month) /\ p \in Parents /\ Month[p] = v.month
      /\ settled[v.month] => Fixed(p)
  BY AtWork, RunFacts DEF ExactInv, RetractFails
<1>2. PICK t : t = [v EXCEPT !.todo = @ \ {k}, !.failed = TRUE]
  OBVIOUS
<1>3. PICK w : w = Onward(r, t)
  OBVIOUS
<1>4. /\ t \in RunRec /\ RunOK(t) /\ t.pc = "reconcile" /\ t.known = v.known /\ ~t.stale
      /\ t.rows = v.rows /\ t.leg = v.leg /\ t.calm = v.calm
  BY <1>1, <1>2 DEF RunOK, RunRec
<1>5. w \in RunRec /\ w.pc # "idle" /\ w.calm = v.calm /\ ~w.stale /\ w.known = v.known
  BY <1>3, <1>4, OnwardFacts, OnwardContinues DEF ExactInv
<1>6. /\ run' = [run EXCEPT ![r] = w]
      /\ UNCHANGED <<status, covered, kids, basis, policy, settled>>
  BY <1>1, <1>2, <1>3, GotoCalm DEF RetractFails, ExactInv
<1>7. Converges(p)
  BY <1>6, NothingConverges
<1>8. Sound(v)'
  BY <1>1, <1>7, ConvergesSound
<1>9. Sound(t)'
  <2> PICK x : x = [v EXCEPT !.failed = TRUE]
    OBVIOUS
  <2>1. Sound(x)'
    BY <1>1, <1>8, LastingNext DEF Lasting
  <2>2. x \in RunRec /\ x.pc = "reconcile" /\ x.failed /\ t = [x EXCEPT !.todo = @ \ {k}]
    BY <1>1, <1>2 DEF RunRec
  <2> QED BY <2>1, <2>2, LastingNext DEF Lasting
<1>10. LinkOK(t)'
  <2>1. run'[r] = w
    BY <1>6 DEF ExactInv, SettlementInv, RunsOK
  <2>2. run'[r].known = t.known /\ ~run'[r].stale
    BY <1>4, <1>5, <2>1
  <2> QED BY <2>2, LinkOfNext
<1>11. Sound(w)'
  BY <1>3, <1>4, <1>9, <1>10, GoesOn
<1> QED BY <1>1, <1>5, <1>6, <1>7, <1>11, ConvergeKeeps

(* The current incident of a settlement at its child.                       *)
LEMMA AtChild ==
    ASSUME ExactInv, NEW r \in Runs, ~run[r].stale, run[r].pc = "reconcile",
           NEW v, v = run[r], NEW p, p = First(v.rows)
    PROVE  /\ v \in RunRec /\ RunOK(v) /\ LinkOK(v) /\ ~v.stale /\ v.pc = "reconcile" /\ Sound(v)
           /\ p = Current(r) /\ p \in Posted(v.month) /\ p \in Parents /\ Month[p] = v.month
           /\ settled[v.month] => Fixed(p)
           /\ v.calm => Fixed(p) /\ v.known \subseteq kids
           /\ v.leg = policy /\ v.rest = FairRest(p) /\ Informed(v) /\ OneKey(v.known) /\ TableOK
           /\ Target(r) = {k \in v.known : k.parent = p /\ k.leg = policy}
<1>1. /\ v \in RunRec /\ RunOK(v) /\ LinkOK(v) /\ ~v.stale /\ v.pc = "reconcile" /\ Sound(v)
      /\ p = Current(r) /\ p \in Posted(v.month) /\ p \in Parents /\ Month[p] = v.month
      /\ settled[v.month] => Fixed(p)
      /\ v.leg = policy /\ Informed(v)
  BY AtWork, RunFacts DEF ExactInv
<1>2. v.calm => Fixed(p) /\ v.known \subseteq kids
  BY <1>1 DEF Sound, AtPeace
<1>3. v.rest = FairRest(p) /\ OneKey(v.known) /\ TableOK
  BY <1>1 DEF Sound, Reconciling, RunOK, ExactInv, SettlementInv
<1>4. Target(r) = {k \in v.known : k.parent = p /\ k.leg = policy}
  BY <1>1 DEF Target, Known
<1> QED BY <1>1, <1>2, <1>3, <1>4

(* A settlement that goes on, having written or not.                        *)
LEMMA Marked ==
    ASSUME NEW u \in RunRec, NEW w, w = u \/ w = [u EXCEPT !.wrote = TRUE]
    PROVE  w \in RunRec /\ w.pc = u.pc /\ w.calm = u.calm /\ w.stale = u.stale /\ w.known = u.known
<1>1. CASE w = u
  BY <1>1
<1>2. CASE w = [u EXCEPT !.wrote = TRUE]
  BY <1>2, MarkFacts
<1> QED BY <1>1, <1>2

(* The child dealt with, the next incident is the settlement's.             *)
LEMMA ChildDone ==
    ASSUME ExactInv, SettlementInv', NEW r \in Runs, ~run[r].stale, run[r].pc = "reconcile",
           NEW v, v = run[r], NEW p, p = First(v.rows), Converges(p), Ended(v)' \/ v.failed,
           NEW u, u = NextRow(r, v), NEW w, w = u \/ (w = [u EXCEPT !.wrote = TRUE] /\ ~v.calm),
           run' = [run EXCEPT ![r] = w]
    PROVE  ExactInv' /\ StandsStill
<1>1. /\ v \in RunRec /\ RunOK(v) /\ LinkOK(v) /\ ~v.stale /\ v.pc = "reconcile" /\ Sound(v)
      /\ p \in Posted(v.month) /\ p \in Parents /\ Month[p] = v.month
      /\ settled[v.month] => Fixed(p)
  BY AtChild
<1>2. u \in RunRec /\ u.pc # "idle" /\ u.calm = v.calm /\ ~u.stale /\ u.known = v.known
  BY <1>1, OnwardFacts, NextRowContinues DEF ExactInv
<1>3. w \in RunRec /\ w.pc # "idle" /\ w.calm = v.calm /\ ~w.stale /\ w.known = v.known
  <2>1. w = u \/ w = [u EXCEPT !.wrote = TRUE]
    OBVIOUS
  <2>2. w \in RunRec /\ w.pc = u.pc /\ w.calm = u.calm /\ w.stale = u.stale /\ w.known = u.known
    BY <1>2, <2>1, Marked
  <2> QED BY <1>2, <2>2
<1>4. Sound(v)'
  BY <1>1, ConvergesSound
<1>5. LinkOK(v)'
  <2>1. run'[r] = w
    BY DEF ExactInv, SettlementInv, RunsOK
  <2>2. run'[r].known = v.known /\ ~run'[r].stale
    BY <1>3, <2>1
  <2> QED BY <2>2, LinkOfNext
<1>6. Sound(u)'
  BY <1>1, <1>4, <1>5, GoesOnNext
<1>7. Sound(w)'
  <2>1. CASE w = u
    BY <1>6, <2>1
  <2>2. CASE w = [u EXCEPT !.wrote = TRUE] /\ ~v.calm
    BY <1>2, <1>6, <2>2, LastingNext DEF Lasting
  <2> QED BY <2>1, <2>2
<1> QED BY <1>1, <1>3, <1>7, ConvergeKeeps

LEMMA InsertsExact ==
    ASSUME ExactInv, SettlementInv', NEW r \in Runs, ~run[r].stale, InsertChild(r)
    PROVE  ExactInv' /\ StandsStill
<1> PICK v : v = run[r]
  OBVIOUS
<1> PICK p : p = First(v.rows)
  OBVIOUS
<1> PICK u : u = NextRow(r, v)
  OBVIOUS
<1>1. /\ v \in RunRec /\ LinkOK(v) /\ ~v.stale /\ v.pc = "reconcile"
      /\ p = Current(r) /\ p \in Posted(v.month) /\ p \in Parents
      /\ v.calm => Fixed(p)
      /\ v.leg = policy /\ v.rest = FairRest(p) /\ Informed(v)
      /\ \A k \in v.known : ~(k.parent = p /\ k.leg = policy)
      /\ v.todo = {} /\ v.rest > 0
  BY AtChild DEF InsertChild, InsertDue
<1>2. CASE Clashes(r)
  <2>1. /\ UNCHANGED <<status, covered, kids, basis, policy, settled>>
        /\ run' = [run EXCEPT ![r] = u]
    BY <1>1, <1>2, GotoCalm DEF InsertChild, ExactInv
  <2>2. Converges(p)
    BY <2>1, NothingConverges
  <2>3. PICK c \in kids : c.parent = p /\ c.leg = policy
    BY <1>1, <1>2 DEF Clashes, KidsOf
  <2>4. v.failed \/ (c.word = "none" /\ c.amount = FairRest(p))
    <3>1. \A j \in v.known : j.id # c.id
      BY <1>1, <2>3 DEF LinkOK
    <3> QED BY <1>1, <2>3, <3>1 DEF Informed
  <2>5. v.failed \/ Ended(v)'
    BY <1>1, <2>1, <2>3, <2>4 DEF Ended, RestPlaced, First
  <2> QED BY <1>1, <2>1, <2>2, <2>5, ChildDone
<1>3. CASE ~Clashes(r)
  <2> PICK w : w = [u EXCEPT !.wrote = TRUE]
    OBVIOUS
  <2>1. /\ UNCHANGED <<status, covered, basis, policy, settled>>
        /\ run' = [run EXCEPT ![r] = w]
    BY <1>1, <1>3, GotoCalm DEF InsertChild, ExactInv
  <2>2. PICK i \in Ids : /\ FirstFree(Current(r), i)
                         /\ kids' = kids \cup {[id |-> i, parent |-> Current(r), leg |-> run[r].leg,
                                                amount |-> run[r].rest, word |-> "none"]}
    BY <1>3 DEF InsertChild
  <2> PICK n : n = [id |-> i, parent |-> p, leg |-> policy, amount |-> FairRest(p), word |-> "none"]
    OBVIOUS
  <2>3. /\ kids' = kids \cup {n}
        /\ n.id = i /\ n.parent = p /\ n.leg = policy /\ n.amount = FairRest(p) /\ n.word = "none"
    BY <1>1, <2>2
  <2>4. \A s \in Runs : \A j \in run[s].known : j.id # i
    BY <2>2 DEF FirstFree, Free, Held
  <2>5. ~Fixed(p)
    BY <1>1, <1>3 DEF Fixed, Squared, Clashes, KidsOf
  <2>6. Converges(p)
    <3>1. \A k \in kids' \ kids : k = n
      BY <2>3
    <3>2. Right(n)
      BY <1>1, <2>3 DEF Right
    <3>3. \A k \in kids : k \in kids' /\ k.amount \in {k.amount, FairRest(p)}
      BY <2>3
    <3>4. \A k \in kids' \ kids :
              /\ k.parent = p /\ k.word = "none" /\ Right(k) /\ k.amount = FairRest(p)
              /\ \A s \in Runs : \A j \in run[s].known : j.id # k.id
      <4>1. n.parent = p /\ n.word = "none" /\ n.amount = FairRest(p) /\ n.id = i
        BY <2>3
      <4> QED BY <2>4, <3>1, <3>2, <4>1
    <3>5. \A q \in Parents : covered'[q] = covered[q]
      BY <2>1
    <3> QED BY <2>1, <2>5, <3>3, <3>4, <3>5 DEF Converges
  <2>7. Ended(v)'
    <3>1. n \in kids' /\ n.parent = p /\ n.leg = v.leg /\ n.word = "none" /\ n.amount = v.rest
      BY <1>1, <2>3
    <3>2. First(v.rows)' = p
      BY DEF First
    <3> QED BY <1>1, <3>1, <3>2 DEF Ended, RestPlaced
  <2> QED BY <1>1, <2>1, <2>5, <2>6, <2>7, ChildDone
<1> QED BY <1>2, <1>3

LEMMA UpdatesExact ==
    ASSUME ExactInv, SettlementInv', NEW r \in Runs, ~run[r].stale, UpdateChild(r)
    PROVE  ExactInv' /\ StandsStill
<1> PICK v : v = run[r]
  OBVIOUS
<1> PICK p : p = First(v.rows)
  OBVIOUS
<1> PICK u : u = NextRow(r, v)
  OBVIOUS
<1> PICK w : w = [u EXCEPT !.wrote = TRUE]
  OBVIOUS
<1>1. /\ v \in RunRec /\ LinkOK(v) /\ ~v.stale /\ v.pc = "reconcile"
      /\ p = Current(r) /\ p \in Posted(v.month) /\ p \in Parents
      /\ v.calm => Fixed(p) /\ v.known \subseteq kids
      /\ v.leg = policy /\ v.rest = FairRest(p) /\ Informed(v) /\ OneKey(v.known) /\ TableOK
      /\ Target(r) = {k \in v.known : k.parent = p /\ k.leg = policy}
      /\ v.todo = {} /\ v.rest > 0
  BY AtChild DEF UpdateChild, UpdateDue
<1>2. PICK x \in v.known : x.parent = p /\ x.leg = policy /\ x.word = "none" /\ x.amount # v.rest
  BY <1>1 DEF UpdateChild, UpdateDue, Mine
<1>3. {k.id : k \in Target(r)} = {x.id}
  BY <1>1, <1>2 DEF OneKey
<1>4. /\ UNCHANGED <<status, covered, basis, policy, settled>>
      /\ run' = [run EXCEPT ![r] = w]
  <2> DEFINE c == \E k \in kids : k.id \in {j.id : j \in Target(r)} /\ k.amount # run[r].rest
  <2>1. Goto(r, w, c) /\ UNCHANGED <<status, covered, basis, policy>>
    BY DEF UpdateChild
  <2> QED BY <2>1, GotoCalm DEF ExactInv
<1>5. kids' = {IF k.id = x.id THEN [k EXCEPT !.amount = v.rest] ELSE k : k \in kids}
  BY <1>3 DEF UpdateChild
<1>6. kids \subseteq Kids
  BY <1>1 DEF TableOK
<1>7. ASSUME NEW k \in kids, k.id = x.id
      PROVE  k.parent = p /\ k.leg = policy /\ k.word = "none"
  BY <1>1, <1>2, <1>7 DEF LinkOK
<1>8. \A k \in kids' : \/ k \in kids /\ k.id # x.id
                       \/ /\ k.id = x.id /\ k.parent = p /\ k.leg = policy /\ k.word = "none" /\ k.amount = v.rest
                          /\ \E j \in kids : j.id = k.id
  <2>1. \A k \in kids : k.id = x.id =>
            LET n == [k EXCEPT !.amount = v.rest]
            IN n.id = x.id /\ n.parent = p /\ n.leg = policy /\ n.word = "none" /\ n.amount = v.rest
    BY <1>6, <1>7 DEF Kids
  <2> SUFFICES ASSUME NEW j \in kids'
               PROVE  \/ j \in kids /\ j.id # x.id
                      \/ /\ j.id = x.id /\ j.parent = p /\ j.leg = policy /\ j.word = "none" /\ j.amount = v.rest
                         /\ \E k \in kids : k.id = j.id
    OBVIOUS
  <2>2. PICK k \in kids : j = IF k.id = x.id THEN [k EXCEPT !.amount = v.rest] ELSE k
    BY <1>5
  <2>3. CASE k.id = x.id
    BY <2>1, <2>2, <2>3
  <2>4. CASE k.id # x.id
    BY <2>2, <2>4
  <2> QED BY <2>3, <2>4
<1>9. \A k \in kids : k.id # x.id => k \in kids'
  BY <1>5
<1>10. \A k \in kids : k.id = x.id => \E j \in kids' : j.id = k.id /\ j.amount = v.rest
  <2>1. \A k \in kids : k.id = x.id => [k EXCEPT !.amount = v.rest] \in kids'
    BY <1>5
  <2>2. \A k \in kids : [k EXCEPT !.amount = v.rest].id = k.id /\ [k EXCEPT !.amount = v.rest].amount = v.rest
    BY <1>6 DEF Kids
  <2> QED BY <2>1, <2>2
<1>11. ASSUME Fixed(p), NEW k \in kids, k.id = x.id PROVE k.amount = v.rest
  <2>1. k \in KidsOf(p) /\ k.parent = p /\ k.leg = policy /\ k.word = "none"
    BY <1>7, <1>11 DEF KidsOf
  <2>2. \A j \in KidsOf(p) : j.leg = policy => j = k
    BY <1>1, <2>1 DEF TableOK, OneKey, KidsOf
  <2> QED BY <1>1, <1>11, <2>1, <2>2 DEF Fixed, Squared
<1>12. Fixed(p) => kids' = kids
  <2>1. ASSUME Fixed(p), NEW k \in kids PROVE k.id = x.id => [k EXCEPT !.amount = v.rest] = k
    BY <1>6, <1>11, <2>1 DEF Kids
  <2>2. ASSUME Fixed(p) PROVE kids' = kids
    <3>1. \A k \in kids : (IF k.id = x.id THEN [k EXCEPT !.amount = v.rest] ELSE k) = k
      BY <2>1, <2>2
    <3> QED BY <1>5, <3>1
  <2> QED BY <2>2
<1>13. Converges(p)
  <2>1. \A k \in kids : k.parent # p \/ k.word # "none" => k \in kids'
    BY <1>7, <1>9
  <2>2. \A k \in kids : \E j \in kids' : j.id = k.id /\ j.amount \in {k.amount, FairRest(p)}
    BY <1>1, <1>9, <1>10
  <2>3. \A k \in kids' \ kids : /\ k.parent = p /\ k.word = "none" /\ Right(k) /\ k.amount = FairRest(p)
                                /\ \E j \in kids : j.id = k.id
    BY <1>1, <1>8 DEF Right
  <2> QED BY <1>4, <1>12, <2>1, <2>2, <2>3 DEF Converges
<1>14. ~v.calm
  BY <1>1, <1>2, <1>11
<1>15. Ended(v)'
  <2>1. PICK k \in kids : k.id = x.id
    BY <1>1, <1>2 DEF Informed, Right
  <2>2. PICK j \in kids' : j.id = x.id /\ j.amount = v.rest
    BY <1>10, <2>1
  <2>3. j.parent = p /\ j.leg = v.leg /\ j.word = "none"
    BY <1>1, <1>8, <2>2
  <2>4. First(v.rows)' = p
    BY DEF First
  <2> QED BY <1>1, <2>2, <2>3, <2>4 DEF Ended, RestPlaced
<1> QED BY <1>1, <1>4, <1>13, <1>14, <1>15, ChildDone

LEMMA ChildFailsExact ==
    ASSUME ExactInv, SettlementInv', NEW r \in Runs, ~run[r].stale, ChildFails(r)
    PROVE  ExactInv' /\ StandsStill
<1> PICK v : v = run[r]
  OBVIOUS
<1> PICK p : p = First(v.rows)
  OBVIOUS
<1>1. /\ v \in RunRec /\ RunOK(v) /\ LinkOK(v) /\ ~v.stale /\ v.pc = "reconcile" /\ Sound(v)
      /\ p \in Posted(v.month) /\ p \in Parents /\ Month[p] = v.month
      /\ settled[v.month] => Fixed(p)
  BY AtChild DEF ChildFails
<1>2. PICK t : t = [v EXCEPT !.failed = TRUE]
  OBVIOUS
<1>3. PICK w : w = NextRow(r, t)
  OBVIOUS
<1>4. /\ t \in RunRec /\ RunOK(t) /\ t.pc = "reconcile" /\ t.known = v.known /\ ~t.stale
      /\ t.rows = v.rows /\ t.calm = v.calm /\ t.failed
  BY <1>1, <1>2 DEF RunOK, RunRec
<1>5. w \in RunRec /\ w.pc # "idle" /\ w.calm = v.calm /\ ~w.stale /\ w.known = v.known
  BY <1>3, <1>4, OnwardFacts, NextRowContinues DEF ExactInv
<1>6. w = [NextRow(r, v) EXCEPT !.failed = TRUE]
  BY <1>1, <1>2, <1>3 DEF NextRow, RunRec
<1>7. /\ run' = [run EXCEPT ![r] = w]
      /\ UNCHANGED <<status, covered, kids, basis, policy, settled>>
  BY <1>1, <1>6, GotoCalm DEF ChildFails, ExactInv
<1>8. Converges(p)
  BY <1>7, NothingConverges
<1>9. Sound(v)'
  BY <1>1, <1>8, ConvergesSound
<1>10. Sound(t)'
  BY <1>1, <1>2, <1>9, LastingNext DEF Lasting
<1>11. LinkOK(t)'
  <2>1. run'[r] = w
    BY <1>7 DEF ExactInv, SettlementInv, RunsOK
  <2>2. run'[r].known = t.known /\ ~run'[r].stale
    BY <1>4, <1>5, <2>1
  <2> QED BY <2>2, LinkOfNext
<1>12. Sound(w)'
  BY <1>3, <1>4, <1>10, <1>11, GoesOnNext
<1> QED BY <1>1, <1>5, <1>7, <1>8, <1>12, ConvergeKeeps

(* A stale settlement writes to the rows of its month only.                 *)
LEMMA StaleWrites ==
    ASSUME ExactInv, SettlementInv', NEW r \in Runs, run[r].stale,
           NEW w, NEW c \in BOOLEAN, Goto(r, w, c), w.stale, w.pc # "idle",
           UNCHANGED <<status, basis, policy>>, ~c => UNCHANGED <<covered, kids>>,
           \A q \in Parents : Month[q] # run[r].month => covered'[q] = covered[q],
           \A k : Month[k.parent] # run[r].month => (k \in kids' <=> k \in kids)
    PROVE  ExactInv' /\ StandsStill
<1>1. CASE c
  <2>1. Goto(r, w, TRUE)
    <3>1. c = TRUE
      BY <1>1
    <3> QED BY <3>1
  <2>2. ASSUME NEW m \in (1..Months) \ {run[r].month}
        PROVE  /\ Posted(m)' = Posted(m) /\ basis'[m] = basis[m] /\ policy' = policy
               /\ \A p \in Parents : Month[p] = m => covered'[p] = covered[p]
               /\ Slice(m)' = Slice(m)
    BY DEF Posted, Slice
  <2> QED BY <2>1, <2>2, StaleKeeps
<1>2. CASE ~c
  <2>1. run' = [run EXCEPT ![r] = w] /\ settled' = settled
    BY <1>2, GotoCalm DEF ExactInv
  <2> QED BY <1>2, <2>1, ReadOn
<1> QED BY <1>1, <1>2

LEMMA StaleStampsExact ==
    ASSUME ExactInv, SettlementInv', NEW r \in Runs, run[r].stale, Stamp(r) \/ StampFails(r)
    PROVE  ExactInv' /\ StandsStill
<1> PICK p : p = Current(r)
  OBVIOUS
<1> PICK u : u = Stamped(r)
  OBVIOUS
<1>1. run[r].pc = "stamp" /\ UNCHANGED <<status, kids, basis, policy>>
  BY DEF Stamp, StampFails
<1>2. p \in Parents /\ Month[p] = run[r].month
  BY <1>1, CurrentIn, RunFacts DEF ExactInv, RunOK
<1>3. u \in RunRec /\ u.pc # "idle" /\ u.stale
  <2>1. u = Onward(r, Taken(r))
    BY DEF Stamped, Taken
  <2>2. RunOK(Taken(r)) /\ Taken(r).pc = "reconcile" /\ Taken(r).stale = run[r].stale
    BY <1>1, TakenOK DEF ExactInv
  <2>3. Taken(r) \in RunRec
    BY <2>2 DEF RunOK
  <2> QED BY <2>1, <2>2, <2>3, OnwardFacts DEF ExactInv
<1>4. covered \in [Parents -> Nat \cup {Unset}]
  BY DEF ExactInv, SettlementInv, CoveredOK
<1>5. CASE Stamp(r) /\ StampDue(r)
  <2> PICK w : w = [u EXCEPT !.wrote = TRUE]
    OBVIOUS
  <2> PICK c : c = (covered[p] # Share(r))
    OBVIOUS
  <2>1. Goto(r, w, c) /\ covered' = [covered EXCEPT ![p] = Share(r)]
    BY <1>5 DEF Stamp
  <2>2. w.stale /\ w.pc # "idle"
    BY <1>3, MarkFacts
  <2>3. c \in BOOLEAN /\ (~c => covered' = covered)
    BY <1>4, <2>1
  <2>4. \A q \in Parents : Month[q] # run[r].month => covered'[q] = covered[q]
    BY <1>2, <1>4, <2>1
  <2> QED BY <1>1, <2>1, <2>2, <2>3, <2>4, StaleWrites
<1>6. CASE Stamp(r) /\ ~StampDue(r)
  <2>1. Goto(r, u, FALSE) /\ covered' = covered
    BY <1>6 DEF Stamp
  <2> QED BY <1>1, <1>3, <2>1, StaleWrites
<1>7. CASE StampFails(r)
  <2> PICK w : w = [u EXCEPT !.failed = TRUE]
    OBVIOUS
  <2>1. Goto(r, w, FALSE) /\ covered' = covered
    BY <1>7 DEF StampFails
  <2>2. w.stale /\ w.pc # "idle"
    BY <1>3, MarkFacts
  <2> QED BY <1>1, <2>1, <2>2, StaleWrites
<1> QED BY <1>5, <1>6, <1>7

(* What it has read under an id is of its month, whatever became of it.     *)
LEMMA KnownOfMonth ==
    ASSUME SettlementInv, NEW r \in Runs, NEW k \in run[r].known, NEW j \in kids, j.id = k.id
    PROVE  Month[j.parent] = run[r].month
<1>1. LinkOK(run[r]) /\ RunOK(run[r])
  BY RunFacts
<1> QED BY <1>1 DEF LinkOK, RunOK

LEMMA StaleRetractsExact ==
    ASSUME ExactInv, SettlementInv', NEW r \in Runs, run[r].stale, NEW k \in run[r].todo,
           Retract(r, k) \/ RetractFails(r, k)
    PROVE  ExactInv' /\ StandsStill
<1> PICK v : v = run[r]
  OBVIOUS
<1> PICK t : t = [v EXCEPT !.todo = @ \ {k}, !.wrote = TRUE]
  OBVIOUS
<1> PICK tf : tf = [v EXCEPT !.todo = @ \ {k}, !.failed = TRUE]
  OBVIOUS
<1>1. /\ v \in RunRec /\ v.pc = "reconcile" /\ k \in v.known
      /\ UNCHANGED <<status, covered, basis, policy>>
  BY RunFacts DEF ExactInv, RunOK, Retract, RetractFails
<1>2. /\ t \in RunRec /\ t.pc = "reconcile" /\ t.stale
      /\ tf \in RunRec /\ tf.pc = "reconcile" /\ tf.stale
  BY <1>1 DEF RunRec
<1>3. /\ Onward(r, t).pc # "idle" /\ Onward(r, t).stale
      /\ Onward(r, tf).pc # "idle" /\ Onward(r, tf).stale
  <2>1. SettlementInv
    BY DEF ExactInv
  <2>2. Onward(r, t).pc # "idle" /\ Onward(r, t).stale = t.stale
    BY <1>2, <2>1, OnwardFacts
  <2>3. Onward(r, tf).pc # "idle" /\ Onward(r, tf).stale = tf.stale
    BY <1>2, <2>1, OnwardFacts
  <2> QED BY <1>2, <2>2, <2>3
<1>4. CASE Retract(r, k)
  <2> PICK c : c = \E j \in kids : j.id = k.id
    OBVIOUS
  <2>1. Goto(r, Onward(r, t), c) /\ kids' = {j \in kids : j.id # k.id}
    BY <1>4 DEF Retract
  <2>2. \A j \in kids : j.id = k.id => Month[j.parent] = v.month
    BY <1>1, KnownOfMonth DEF ExactInv
  <2>3. c \in BOOLEAN /\ (~c => kids' = kids)
    BY <2>1
  <2>4. \A j : Month[j.parent] # v.month => (j \in kids' <=> j \in kids)
    BY <2>1, <2>2
  <2> QED BY <1>1, <1>3, <2>1, <2>3, <2>4, StaleWrites
<1>5. CASE RetractFails(r, k)
  <2>1. Goto(r, Onward(r, tf), FALSE) /\ kids' = kids
    BY <1>5 DEF RetractFails
  <2> QED BY <1>1, <1>3, <2>1, StaleWrites
<1> QED BY <1>4, <1>5

LEMMA StaleChildExact ==
    ASSUME ExactInv, SettlementInv', NEW r \in Runs, run[r].stale,
           InsertChild(r) \/ UpdateChild(r) \/ ChildFails(r)
    PROVE  ExactInv' /\ StandsStill
<1> PICK v : v = run[r]
  OBVIOUS
<1> PICK p : p = Current(r)
  OBVIOUS
<1> PICK u : u = NextRow(r, v)
  OBVIOUS
<1> PICK w : w = [u EXCEPT !.wrote = TRUE]
  OBVIOUS
<1> PICK wf : wf = [u EXCEPT !.failed = TRUE]
  OBVIOUS
<1>1. /\ v \in RunRec /\ v.pc = "reconcile"
      /\ UNCHANGED <<status, covered, basis, policy>>
  BY RunFacts DEF ExactInv, InsertChild, UpdateChild, ChildFails
<1>2. p \in Parents /\ Month[p] = v.month
  BY <1>1, CurrentIn, RunFacts DEF ExactInv, RunOK
<1>3. u \in RunRec /\ u.pc # "idle" /\ u.stale
  BY <1>1, OnwardFacts DEF ExactInv
<1>4. w.pc # "idle" /\ w.stale /\ wf.pc # "idle" /\ wf.stale
  BY <1>3, MarkFacts
<1>5. CASE InsertChild(r)
  <2>1. CASE Clashes(r)
    <3>1. Goto(r, u, FALSE) /\ kids' = kids
      BY <1>5, <2>1 DEF InsertChild
    <3> QED BY <1>1, <1>3, <3>1, StaleWrites
  <2>2. CASE ~Clashes(r)
    <3>1. Goto(r, w, TRUE)
      BY <1>5, <2>2 DEF InsertChild
    <3>2. PICK i \in Ids :
            kids' = kids \cup {[id |-> i, parent |-> Current(r), leg |-> run[r].leg,
                                amount |-> run[r].rest, word |-> "none"]}
      BY <1>5, <2>2 DEF InsertChild
    <3>3. \A k : Month[k.parent] # v.month => (k \in kids' <=> k \in kids)
      BY <1>2, <3>2
    <3> QED BY <1>1, <1>4, <3>1, <3>3, StaleWrites
  <2> QED BY <2>1, <2>2
<1>6. CASE UpdateChild(r)
  <2> PICK mine : mine = {k.id : k \in Target(r)}
    OBVIOUS
  <2> PICK c : c = \E k \in kids : k.id \in mine /\ k.amount # v.rest
    OBVIOUS
  <2>1. /\ kids' = {IF k.id \in mine THEN [k EXCEPT !.amount = v.rest] ELSE k : k \in kids}
        /\ Goto(r, w, c)
    BY <1>6 DEF UpdateChild
  <2>2. kids \subseteq Kids
    BY DEF ExactInv, SettlementInv, TableOK
  <2>3. \A k \in kids : k.id \in mine => Month[k.parent] = v.month
    <3>1. \A i \in mine : \E j \in v.known : j.id = i
      BY DEF Target, Known
    <3>2. SettlementInv
      BY DEF ExactInv
    <3>3. ASSUME NEW k \in kids, k.id \in mine PROVE Month[k.parent] = v.month
      <4>1. PICK j \in run[r].known : j.id = k.id
        BY <3>1, <3>3
      <4> QED BY <3>2, <4>1, KnownOfMonth
    <3> QED BY <3>3
  <2>4. \A k \in kids : [k EXCEPT !.amount = v.rest].parent = k.parent
    BY <2>2 DEF Kids
  <2>5. c \in BOOLEAN /\ (~c => kids' = kids)
    <3>1. ASSUME ~c, NEW k \in kids PROVE (IF k.id \in mine THEN [k EXCEPT !.amount = v.rest] ELSE k) = k
      BY <2>2, <3>1 DEF Kids
    <3>2. ASSUME ~c PROVE kids' = kids
      <4>1. \A k \in kids : (IF k.id \in mine THEN [k EXCEPT !.amount = v.rest] ELSE k) = k
        BY <3>1, <3>2
      <4> QED BY <2>1, <4>1
    <3>3. c \in BOOLEAN
      OBVIOUS
    <3> QED BY <3>2, <3>3
  <2>6. ASSUME NEW k, Month[k.parent] # v.month PROVE k \in kids' <=> k \in kids
    <3>1. ASSUME k \in kids PROVE k \in kids'
      <4>1. k.id \notin mine
        BY <2>3, <2>6, <3>1
      <4> QED BY <2>1, <3>1, <4>1
    <3>2. ASSUME k \in kids' PROVE k \in kids
      <4>1. PICK i \in kids : k = IF i.id \in mine THEN [i EXCEPT !.amount = v.rest] ELSE i
        BY <2>1, <3>2
      <4>2. i.id \notin mine
        BY <2>3, <2>4, <2>6, <4>1
      <4> QED BY <4>1, <4>2
    <3> QED BY <3>1, <3>2
  <2> QED BY <1>1, <1>4, <2>1, <2>5, <2>6, StaleWrites
<1>7. CASE ChildFails(r)
  <2>1. Goto(r, wf, FALSE) /\ kids' = kids
    BY <1>7 DEF ChildFails
  <2> QED BY <1>1, <1>4, <2>1, StaleWrites
<1> QED BY <1>5, <1>6, <1>7

-----------------------------------------------------------------------------
(* The invariant, and what it gives.                                         *)

LEMMA ReadsExact ==
    ASSUME ExactInv, SettlementInv', NEW r \in Runs, ReadStep(r)
    PROVE  ExactInv' /\ StandsStill
<1>1. CASE \E m \in 1..Months : ReadParents(r, m)
  BY <1>1, ReadParentsExact
<1>2. CASE ReadPay(r)
  BY <1>2, ReadPayExact
<1>3. CASE ReadPolicy(r)
  BY <1>3, ReadPolicyExact
<1>4. CASE PolicyFails(r)
  BY <1>4, EndingExact
<1>5. CASE ReadKids(r) \/ KidsFail(r)
  BY <1>5, ReadKidsExact
<1> QED BY <1>1, <1>2, <1>3, <1>4, <1>5, Zenon DEF ReadStep

LEMMA WritesExact ==
    ASSUME ExactInv, SettlementInv', NEW r \in Runs, WriteStep(r)
    PROVE  ExactInv' /\ StandsStill
<1>1. CASE Stamp(r) \/ StampFails(r)
  BY <1>1, StampsExact, StaleStampsExact
<1>2. ASSUME NEW k \in run[r].todo, Retract(r, k) \/ RetractFails(r, k)
      PROVE  ExactInv' /\ StandsStill
  BY <1>2, RetractsExact, RetractFailsExact, StaleRetractsExact
<1>3. CASE InsertChild(r) \/ UpdateChild(r) \/ ChildFails(r)
  BY <1>3, InsertsExact, UpdatesExact, ChildFailsExact, StaleChildExact
<1> QED BY <1>1, <1>2, <1>3, Zenon DEF WriteStep

LEMMA ExactStep ==
    ASSUME ExactInv, SettlementNext
    PROVE  ExactInv' /\ StandsStill
<1>1. SettlementInv'
  BY InvStep DEF ExactInv
<1>2. CASE PeopleStep
  BY <1>1, <1>2, PeopleKeepExact
<1>3. ASSUME NEW r \in Runs, ReadStep(r) \/ WriteStep(r) PROVE ExactInv' /\ StandsStill
  BY <1>1, <1>3, ReadsExact, WritesExact
<1>4. ASSUME NEW r \in Runs, Finish(r) \/ Die(r) PROVE ExactInv' /\ StandsStill
  BY <1>1, <1>4, FinishExact, EndingExact
<1> QED BY <1>2, <1>3, <1>4, Zenon DEF SettlementNext

LEMMA ExactStutters ==
    ASSUME ExactInv, UNCHANGED vars
    PROVE  ExactInv'
<1> PICK ms : ms = {}
  OBVIOUS
<1>1. SettlementInv'
  BY InvStep DEF ExactInv
<1>2. UNCHANGED <<status, covered, kids, basis, policy, run, settled>>
  BY DEF vars
<1>3. \A m \in (1..Months) \ ms : Undisturbed(m) /\ (settled'[m] => settled[m])
  BY <1>2 DEF Undisturbed, Posted, Slice
<1>4. /\ \A s \in Runs : run'[s].stale \/ run'[s].pc = "idle" \/ (run'[s] = run[s] /\ run[s].month \notin ms)
      /\ \A s \in Runs : run'[s].calm => run'[s].pc # "idle"
  BY <1>2 DEF ExactInv
<1>5. \A m \in 1..Months : m \in ms => ~settled'[m]
  OBVIOUS
<1> QED BY <1>1, <1>3, <1>4, <1>5, DisturbKeeps

(* The invariant behind exactness: a settlement that nothing disturbed has  *)
(* every incident it has handled fixed, and knows what the others may have  *)
(* done to the rest.                                                        *)
THEOREM ExactInvariant == SettlementSpec => []ExactInv
<1>1. ExactInv /\ [SettlementNext]_vars => ExactInv'
  BY ExactStep, ExactStutters
<1> QED BY <1>1, ExactInit, PTL DEF SettlementSpec

LEMMA FixedIsExact ==
    ASSUME SettlementInv, NEW p \in Parents, Fixed(p)
    PROVE  /\ covered[p] = FairShare(p)
           /\ (\A k \in KidsOf(p) : k.word = "none") =>
                 /\ {<<k.leg, k.amount>> : k \in KidsOf(p)} = FairOverflow(p)
                 /\ Cardinality(KidsOf(p)) <= 1
<1>1. covered[p] = FairShare(p)
  BY DEF Fixed
<1> SUFFICES ASSUME \A k \in KidsOf(p) : k.word = "none"
             PROVE  /\ {<<k.leg, k.amount>> : k \in KidsOf(p)} = FairOverflow(p)
                    /\ Cardinality(KidsOf(p)) <= 1
  BY <1>1
<1>2. FairShare(p) \in Nat /\ Amount[p] \in Nat /\ FairRest(p) = Amount[p] - FairShare(p)
  BY FairShareIs, SettlementAssumption DEF FairRest
<1>3. /\ \A k \in KidsOf(p) : k.parent = p /\ k.leg = policy /\ FairRest(p) > 0 /\ k.amount = FairRest(p)
      /\ FairRest(p) > 0 => \E k \in KidsOf(p) : k.leg = policy
  BY DEF Fixed, Squared, Right, KidsOf
<1>4. CASE FairRest(p) > 0
  <2>1. PICK k \in KidsOf(p) : TRUE
    BY <1>3, <1>4
  <2>2. KidsOf(p) = {k}
    <3>1. \A j \in KidsOf(p) : j \in kids /\ j.parent = p /\ j.leg = policy
      BY <1>3 DEF KidsOf
    <3>2. \A j \in KidsOf(p) : j = k
      BY <2>1, <3>1 DEF SettlementInv, TableOK, OneKey
    <3> QED BY <2>1, <3>2
  <2>3. k.leg = policy /\ k.amount = FairRest(p)
    BY <1>3, <2>1
  <2>4. {<<j.leg, j.amount>> : j \in KidsOf(p)} = {<<policy, FairRest(p)>>}
    BY <2>2, <2>3
  <2>5. FairOverflow(p) = {<<policy, FairRest(p)>>}
    BY <1>2, <1>4 DEF FairOverflow
  <2>6. Cardinality(KidsOf(p)) = 1
    BY <2>2, FS_Singleton
  <2> QED BY <2>4, <2>5, <2>6
<1>5. CASE ~(FairRest(p) > 0)
  <2>1. KidsOf(p) = {}
    BY <1>3, <1>5
  <2>2. FairOverflow(p) = {}
    BY <1>2, <1>5 DEF FairOverflow
  <2>3. Cardinality(KidsOf(p)) = 0
    BY <2>1, FS_EmptySet
  <2> QED BY <2>1, <2>2, <2>3
<1> QED BY <1>4, <1>5

(* A month whose last settlement was complete and undisturbed is split      *)
(* exactly: fair shares absorbed, and the rest, unless a manager decided it, *)
(* in one child on the leg of the policy (17727-17745), whatever overlapped *)
(* or failed before.                                                        *)
THEOREM SettledMonthIsExact == SettlementSpec => []SettledIsExact
<1>1. ExactInv => SettledIsExact
  <2> SUFFICES ASSUME ExactInv, NEW m \in 1..Months, settled[m], NEW p \in Posted(m)
               PROVE  /\ covered[p] = FairShare(p)
                      /\ (\A k \in KidsOf(p) : k.word = "none") =>
                            /\ {<<k.leg, k.amount>> : k \in KidsOf(p)} = FairOverflow(p)
                            /\ Cardinality(KidsOf(p)) <= 1
    BY DEF SettledIsExact
  <2>1. Fixed(p) /\ p \in Parents
    BY DEF ExactInv, Posted
  <2> QED BY <2>1, FixedIsExact DEF ExactInv
<1> QED BY <1>1, ExactInvariant, PTL

(* A settlement that begins on a settled month and finds it undisturbed     *)
(* sends no write (17737).                                                  *)
THEOREM SecondPassIsQuiet == SettlementSpec => []SecondPassWritesNothing
<1>1. ExactInv => SecondPassWritesNothing
  BY DEF ExactInv, SecondPassWritesNothing, Sound, AtPeace
<1> QED BY <1>1, ExactInvariant, PTL

(* What settlements of the same figures do to a settled month leaves its    *)
(* shares and its children as they are ("a re-run converges", 17737).       *)
THEOREM SettledMonthStandsStill == SettlementSpec => SettledStandsStill
<1>1. ASSUME ExactInv, [SettlementNext]_vars
      PROVE  [\A m \in 1..Months : settled[m] /\ settled'[m] =>
                 \A p \in Parents : Month[p] = m =>
                     covered'[p] = covered[p] /\ KidsOf(p)' = KidsOf(p)]_vars
  BY <1>1, ExactStep, Zenon DEF StandsStill
<1> QED BY <1>1, ExactInvariant, PTL DEF SettlementSpec, SettledStandsStill
=============================================================================
