---------------------------- MODULE RunCalculation ----------------------------
(***************************************************************************)
(* What a run of _run_calculation does while it holds the slot of its      *)
(* month: it computes the pay rows, refuses a result that would wipe a     *)
(* paying month, deletes and re-inserts commcalc.rep_commissions, carries  *)
(* the managers' deduct decisions over a delete-and-insert of              *)
(* chargeback_items, and stamps the status row.  Beside it act the         *)
(* managers (PUT /chargebacks/{id}) and the one-rep recalculation          *)
(* (POST /recompute-rep), neither of which takes the slot.                 *)
(*                                                                         *)
(* An insert request carries a batch of up to 500 rows; here a batch is    *)
(* one rep.  A row or an item is identified by who created it.             *)
(***************************************************************************)
EXTENDS RecomputeGuard

CONSTANTS Reps,       \* the reps the month's calculation pays
          Refs,       \* the chargebacks the month's calculation detects
          RepRuns,    \* the calls of recompute_rep
          CalcFaults  \* may a database call of a calculation fail, of the full one or of
                      \* the one-rep one?

ASSUME RunAssumption == CalcFaults \in BOOLEAN

VARIABLES comm,     \* rep_commissions rows: rep, id (creator), by (last writer), pays
          items,    \* auto-detected chargeback_items: ref, id (creator), deduct
          clean,    \* the status row's save_errors is NULL
          job,      \* per run: phase, result, whether the zero-wipe guard judges it and
                    \* counted blind, save_errors, what is left, decisions read
          rep1,     \* per one-rep recalculation: phase, rep, result, the row it found
          ruled,    \* history: each chargeback's latest decision by a manager
          everRuled,\* history: the chargebacks a manager ever decided to deduct
          lapsed    \* history: those whose decision no run could carry: made while
                    \* a run held its copy, or on one a run since did not detect

dataVars == <<comm, items, clean, job, rep1, ruled, everRuled, lapsed>>
runVars == <<guardVars, dataVars>>

Results == {"paying", "zero", "empty"}   \* "empty": it came to no row at all
Phases == {"load", "check", "refuse", "delete", "insert", "decisions", "wipe", "items", "stamp"}
NoRow == "none"
Creators == Runs \cup RepRuns

CommRows == [rep : Reps, id : Creators, by : Creators, pays : BOOLEAN]
Items == [ref : Refs, id : Runs, deduct : BOOLEAN]

Jobs == [phase : Phases, result : Results, judged : BOOLEAN, blind : BOOLEAN, errors : BOOLEAN,
         left : SUBSET Reps, decided : SUBSET Refs]
RepJobs == [phase : {"load", "find", "write", "over"}, rep : Reps, pays : BOOLEAN,
            found : Creators \cup {NoRow}]

RunTypeOK ==
    /\ GuardTypeOK
    /\ comm \in SUBSET CommRows
    /\ items \in SUBSET Items
    /\ clean \in BOOLEAN
    /\ job \in [Runs -> Jobs]
    /\ rep1 \in [RepRuns -> RepJobs]
    /\ ruled \in [Refs -> BOOLEAN]
    /\ everRuled \in SUBSET Refs
    /\ lapsed \in SUBSET Refs

RunInit ==
    /\ GuardInit
    /\ comm = {}
    /\ items = {}
    /\ clean = TRUE
    /\ job = [r \in Runs |-> [phase |-> "load", result |-> "zero", judged |-> FALSE, blind |-> FALSE,
                              errors |-> FALSE, left |-> {}, decided |-> {}]]
    /\ rep1 \in [RepRuns -> [phase : {"load"}, rep : Reps, pays : {FALSE}, found : {NoRow}]]
    /\ ruled = [c \in Refs |-> FALSE]
    /\ everRuled = {}
    /\ lapsed = {}

-----------------------------------------------------------------------------
At(r, phase) == Working(r) /\ job[r].phase = phase

(* The step leaves the run in another phase; what it touched is said beside. *)
Then(r, phase) == job' = [job EXCEPT ![r].phase = phase]

(* Mutant: a failed write is swallowed.                                     *)
ThenNoErrors(r, phase) == Then(r, phase)

ThenErrors(r, phase) == job' = [job EXCEPT ![r].phase = phase, ![r].errors = TRUE]

Pays(rows) == \E c \in rows : c.pays

(* The rows that a full calculation wrote last.                             *)
Calculated == {c \in comm : c.by \notin RepRuns}

Row(rep, w, pays) == [rep |-> rep, id |-> w, by |-> w, pays |-> pays]

(* The reps a run has a row for.                                            *)
Paid(r) == IF job[r].result = "empty" THEN {} ELSE Reps

(* The inputs are read and the pay of every rep is computed.  The zero-wipe *)
(* guard judges an all-zero result that nobody forced, in plan mode, from   *)
(* real sales; not one of a Boost month, of a month without sales, or with  *)
(* no rows.                                                                 *)
Load(r, result, judged) ==
    /\ At(r, "load")
    /\ judged => result = "zero"
    /\ job' = [job EXCEPT ![r].phase = "check", ![r].result = result, ![r].judged = judged]
    /\ UNCHANGED <<guardVars, comm, items, clean, rep1, ruled, everRuled, lapsed>>

(* Mutant: the zero-wipe guard refuses what it should let pass only.        *)
CheckForcedOnly(r) ==
    /\ At(r, "check")
    /\ LET forced == job[r].result = "zero" /\ ~job[r].judged
       IN  \/ forced /\ Pays(comm) /\ Then(r, "refuse")
           \/ ~(forced /\ Pays(comm)) /\ Then(r, "delete")
    /\ UNCHANGED <<guardVars, comm, items, clean, rep1, ruled, everRuled, lapsed>>

(* The zero-wipe guard counts the stored rows that pay; a count that fails  *)
(* counts none.                                                             *)
Check(r) ==
    /\ At(r, "check")
    /\ \/ job[r].judged /\ Pays(comm) /\ Then(r, "refuse")
       \/ ~(job[r].judged /\ Pays(comm)) /\ Then(r, "delete")
       \/ /\ job[r].judged /\ CalcFaults
          /\ job' = [job EXCEPT ![r].phase = "delete", ![r].blind = TRUE]
    /\ UNCHANGED <<guardVars, comm, items, clean, rep1, ruled, everRuled, lapsed>>

(* Mutant: the delete keeps the rows that do not pay.                       *)
DeletePayingRows(r) ==
    /\ At(r, "delete")
    /\ comm' = {c \in comm : ~c.pays}
    /\ job' = [job EXCEPT ![r].phase = "insert", ![r].left = Paid(r)]
    /\ UNCHANGED <<guardVars, items, clean, rep1, ruled, everRuled, lapsed>>

(* The delete that opens the rewrite.  A failure of any write of this block *)
(* is recorded as a save error and the run goes on to the chargebacks.      *)
DeleteRows(r) ==
    /\ At(r, "delete")
    /\ \/ /\ comm' = {}
          /\ job' = [job EXCEPT ![r].left = Paid(r),
                                ![r].phase = IF Paid(r) = {} THEN "decisions" ELSE "insert"]
       \/ /\ CalcFaults
          /\ comm' \in {comm, {}}
          /\ ThenErrors(r, "decisions")
    /\ UNCHANGED <<guardVars, items, clean, rep1, ruled, everRuled, lapsed>>

InsertRows(r, rep) ==
    LET written == comm \cup {Row(rep, r, job[r].result = "paying")}
        left == job[r].left \ {rep}
    IN
    /\ At(r, "insert")
    /\ rep \in job[r].left
    /\ \/ /\ comm' = written
          /\ job' = [job EXCEPT ![r].left = left,
                                ![r].phase = IF left = {} THEN "decisions" ELSE "insert"]
       \/ /\ CalcFaults
          /\ comm' \in {comm, written}
          /\ ThenErrors(r, "decisions")
    /\ UNCHANGED <<guardVars, items, clean, rep1, ruled, everRuled, lapsed>>

(* The deduct decisions standing on the stored chargebacks are read, ...    *)
ReadDecisions(r) ==
    /\ At(r, "decisions")
    /\ \/ job' = [job EXCEPT ![r].phase = "wipe",
                             ![r].decided = {i.ref : i \in {j \in items : j.deduct}}]
       \/ CalcFaults /\ ThenErrors(r, "stamp")
    /\ UNCHANGED <<guardVars, comm, items, clean, rep1, ruled, everRuled, lapsed>>

(* Mutant: the decisions are read after the stored items are deleted.       *)
DeleteThenRead(r) ==
    /\ At(r, "wipe")
    /\ items' = {}
    /\ job' = [job EXCEPT ![r].phase = "items",
                          ![r].decided = {i.ref : i \in {j \in items' : j.deduct}}]
    /\ UNCHANGED <<guardVars, comm, clean, rep1, ruled, everRuled, lapsed>>

(* ... the stored ones are deleted, ...                                     *)
DeleteItems(r) ==
    /\ At(r, "wipe")
    /\ \/ items' = {} /\ Then(r, "items")
       \/ CalcFaults /\ items' \in {items, {}} /\ ThenErrors(r, "stamp")
    /\ UNCHANGED <<guardVars, comm, clean, rep1, ruled, everRuled, lapsed>>

(* Mutant: a detected chargeback is deducted by default.                    *)
InsertDeducted(r) ==
    /\ At(r, "items")
    /\ items' = items \cup {[ref |-> c, id |-> r, deduct |-> TRUE] : c \in Refs}
    /\ job' = [job EXCEPT ![r].phase = "stamp", ![r].decided = {}]
    /\ UNCHANGED <<guardVars, comm, clean, rep1, ruled, everRuled, lapsed>>

(* ... and the ones detected now inserted with the decision that was read.  *)
Detected(r, found) ==
    {i \in [ref : found, id : {r}, deduct : BOOLEAN] : i.deduct <=> i.ref \in job[r].decided}

InsertItems(r) ==
    /\ At(r, "items")
    /\ \E found \in SUBSET Refs :
          /\ lapsed' = lapsed \cup (Refs \ found)
          /\ \/ /\ items' = items \cup Detected(r, found)
                /\ job' = [job EXCEPT ![r].phase = "stamp", ![r].decided = {}]
             \/ /\ CalcFaults
                /\ items' \in {items, items \cup Detected(r, found)}
                /\ ThenErrors(r, "stamp")
    /\ UNCHANGED <<guardVars, comm, clean, rep1, ruled, everRuled>>

(* The end: 'done' with the save errors, or 'error' for a refusal, a failed *)
(* load, or a 'done' upsert that raised.                                    *)
Finish(r) ==
    /\ Stamp(r)
    /\ \/ /\ job[r].phase = "stamp"
          /\ row'.status = "done"
          /\ clean' = ~job[r].errors
       \/ /\ job[r].phase \in {"load", "refuse"} \/ (CalcFaults /\ job[r].phase = "stamp")
          /\ row'.status = "error"
          /\ clean' = FALSE
       \/ /\ DbFaults
          /\ job[r].phase \in {"load", "refuse", "stamp"}
          /\ row' = row
          /\ UNCHANGED clean
    /\ UNCHANGED <<comm, items, job, rep1, ruled, everRuled, lapsed>>

-----------------------------------------------------------------------------
(* A manager decides whether a chargeback is deducted: an update by id,     *)
(* which finds nothing when the item was deleted meanwhile.                 *)
Decide(i, deduct) ==
    /\ i \in items
    /\ i.deduct # deduct
    /\ items' = (items \ {i}) \cup {[i EXCEPT !.deduct = deduct]}
    /\ ruled' = [ruled EXCEPT ![i.ref] = deduct]
    /\ everRuled' = IF deduct THEN everRuled \cup {i.ref} ELSE everRuled
    /\ lapsed' = IF \E r \in Runs : At(r, "wipe") \/ At(r, "items")
                THEN lapsed \cup {i.ref} ELSE lapsed \ {i.ref}
    /\ UNCHANGED <<guardVars, comm, clean, job, rep1>>

(* recompute_rep: compute the one rep's row, find the stored one, update it *)
(* by id or insert it.  A calculation with no row for the rep writes none;  *)
(* a read that fails is taken for one that found nothing.                   *)
RepLoad(q, pays) ==
    /\ rep1[q].phase = "load"
    /\ \E next \in {"find", "over"} :
          rep1' = [rep1 EXCEPT ![q].phase = next, ![q].pays = pays]
    /\ UNCHANGED <<guardVars, comm, items, clean, job, ruled, everRuled, lapsed>>

RepFind(q) ==
    LET mine == {c.id : c \in {d \in comm : d.rep = rep1[q].rep}}
    IN
    /\ rep1[q].phase = "find"
    /\ \E hit \in mine \cup (IF mine = {} \/ CalcFaults THEN {NoRow} ELSE {}) :
          rep1' = [rep1 EXCEPT ![q].phase = "write", ![q].found = hit]
    /\ UNCHANGED <<guardVars, comm, items, clean, job, ruled, everRuled, lapsed>>

RepWrite(q) ==
    LET fresh == Row(rep1[q].rep, q, rep1[q].pays)
        hit == {c \in comm : c.rep = rep1[q].rep /\ c.id = rep1[q].found}
    IN
    /\ rep1[q].phase = "write"
    /\ rep1' = [rep1 EXCEPT ![q].phase = "over"]
    /\ \/ comm' = IF rep1[q].found = NoRow
                  THEN comm \cup {fresh}
                  ELSE (comm \ hit) \cup {[c EXCEPT !.by = q, !.pays = rep1[q].pays] : c \in hit}
       \/ CalcFaults /\ comm' = comm
    /\ UNCHANGED <<guardVars, items, clean, job, ruled, everRuled, lapsed>>

-----------------------------------------------------------------------------
GuardStep ==
    /\ \/ \E r \in Runs : \/ \E entrance \in Entrances : Begin(r, entrance)
                          \/ Acquire(r)
                          \/ Crash(r)
       \/ GuardEnv
    /\ UNCHANGED dataVars

Calculate(r) ==
    \/ \E result \in Results, judged \in BOOLEAN : Load(r, result, judged)
    \/ Check(r)
    \/ DeleteRows(r)
    \/ \E rep \in Reps : InsertRows(r, rep)
    \/ ReadDecisions(r)
    \/ DeleteItems(r)
    \/ InsertItems(r)
    \/ Finish(r)

RecomputeRep(q) == (\E pays \in BOOLEAN : RepLoad(q, pays)) \/ RepFind(q) \/ RepWrite(q)

RunNext ==
    \/ GuardStep
    \/ \E r \in Runs : Calculate(r)
    \/ \E i \in items, deduct \in BOOLEAN : Decide(i, deduct)
    \/ \E q \in RepRuns : RecomputeRep(q)

RunSpec == RunInit /\ [][RunNext]_runVars

-----------------------------------------------------------------------------
(* No rep is paid twice: the month never holds two rows of one rep.         *)
(* (router.py 17225-17230, and the comment at 16046-16053)                  *)
OneRowPerRep ==
    degraded = {} => \A c, d \in comm : c.rep = d.rep => c = d

WrittenBy(r, c) == c.by \in RepRuns \/ c = Row(c.rep, r, job[r].result = "paying")

WholeBy(r) ==
    /\ \A rep \in Paid(r) : \E c \in comm : c.rep = rep
    /\ \A c \in comm : WrittenBy(r, c)

(* A month stamped done without save errors is the result of the run the    *)
(* status row names: every rep it pays has a row, and none is left of an    *)
(* earlier run; only a one-rep recalculation may have written besides.              *)
(* (router.py 17225-17230 and 17456-17479)                                  *)
DoneMeansWhole ==
    degraded = {} /\ row.status = "done" /\ clean => WholeBy(row.runId)

(* An all-zero result of a plan-mode month with sales, which nobody forced, *)
(* never deletes a row of the full calculation that pays someone, unless    *)
(* the count of such rows failed: no takeover, no failing write and no      *)
(* one-rep recalculation gets it past the guard.  A Boost month, a month    *)
(* without sales and a result with no rows are not judged, and what a       *)
(* one-rep recalculation writes after the count is not seen.                *)
(* (router.py 17201-17223)                                                  *)
ZeroNeverWipesPay ==
    [][degraded = {} =>
        \A r \in Runs : /\ At(r, "delete")
                        /\ job[r].judged /\ ~job[r].blind
                        /\ comm' = {}
                        => ~Pays(Calculated)]_runVars

(* No chargeback is deducted from anybody's pay that a manager never        *)
(* decided to deduct, whatever runs, overlaps or fails.                     *)
NoDeductionInvented ==
    \A i \in items : i.deduct => i.ref \in everRuled

(* A manager's latest decision on a chargeback stands through every run,    *)
(* however the runs follow each other, but for one made while a run held    *)
(* its copy of them or on a chargeback a run no longer detected; and but    *)
(* for a run that died with the items deleted.                              *)
(* (router.py 17361-17363, 17436-17442)                                     *)
DecisionsKept ==
    /\ degraded = {}
    /\ \A r \in Runs : ~Working(r) /\ ~(pc[r] = "dead" /\ job[r].phase = "items")
    => \A i \in items : i.ref \in lapsed \/ i.deduct = ruled[i.ref]

(* The inductive strengthening of NoDeductionInvented: the decisions a run  *)
(* holds were a manager's.                                                  *)
CopiesKnown == \A r \in Runs : job[r].decided \subseteq everRuled

DeductionInv == RunTypeOK /\ CopiesKnown /\ NoDeductionInvented

(* The inductive strengthening of OneRowPerRep: a run that has not won the  *)
(* slot has written nothing, and while a run inserts, the reps it has still *)
(* to insert have no row.                                                   *)
NotStarted == \A r \in Runs : pc[r] \in {"idle"} \cup Acquiring => job[r].phase = "load"

SlateClean ==
    \A r \in Runs : At(r, "insert") => \A c \in comm : c.rep \notin job[r].left

RowsInv == RunTypeOK /\ NotStarted /\ (degraded = {} => SlateClean /\ OneRowPerRep)

(* The inductive strengthening of DoneMeansWhole: from its delete on, a run *)
(* finds no row but its own, the reps it has inserted have theirs, and past *)
(* the rewrite the month is whole unless the run recorded an error.         *)
Rewritten(r) ==
    /\ job[r].phase = "insert" =>
          /\ \A rep \in Paid(r) \ job[r].left : \E c \in comm : c.rep = rep
          /\ \A c \in comm : WrittenBy(r, c)
    /\ job[r].phase \in {"decisions", "wipe", "items", "stamp"} /\ ~job[r].errors => WholeBy(r)

WholeInv ==
    /\ RunTypeOK
    /\ NotStarted
    /\ degraded = {} => (\A r \in Runs : Working(r) => Rewritten(r)) /\ DoneMeansWhole

(* The inductive strengthening of ZeroNeverWipesPay: what the check saw     *)
(* still holds when the delete comes.                                       *)
WipeSafe ==
    \A r \in Runs :
        At(r, "delete") /\ job[r].judged /\ ~job[r].blind => ~Pays(Calculated)

WipeInv == RunTypeOK /\ NotStarted /\ (degraded = {} => WipeSafe)

(* The inductive strengthening of DecisionsKept: a run that is about to wipe*)
(* or insert the items holds every decision that stands, and else a deduct  *)
(* that stands is on an item.                                               *)
DiedWiped == \E r \in Runs : pc[r] = "dead" /\ job[r].phase = "items"
Wiped == \E r \in Runs : At(r, "items")
Stands(c) == c \in Refs \ lapsed /\ ruled[c]

ItemsAgree ==
    /\ \A i \in items : i.ref \in lapsed \/ i.deduct = ruled[i.ref]
    /\ \A i, j \in items : i.ref = j.ref => i = j
    /\ Wiped => items = {}

CopyAgrees(r) == \A c \in Refs \ lapsed : c \in job[r].decided <=> ruled[c]

DecisionHeld ==
    /\ \A r \in Runs : At(r, "wipe") \/ At(r, "items") => CopyAgrees(r)
    /\ ~Wiped => \A c \in Refs : Stands(c) => \E i \in items : i.ref = c /\ i.deduct

KeptInv == RunTypeOK /\ NotStarted /\ (degraded = {} /\ ~DiedWiped => ItemsAgree /\ DecisionHeld)
=============================================================================
