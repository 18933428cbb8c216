------------------------------ MODULE AssetLedger ------------------------------
(***************************************************************************)
(* The upload of the asset ledger of one organisation.  Every upload holds *)
(* the whole shelf: its rows are staged batch by batch in a scratch table  *)
(* and swapped into the live ledger by one database function.  Where the   *)
(* scratch table or the function is missing, or the probe for the table    *)
(* fails, the upload empties the live ledger and writes into it directly.  *)
(*                                                                         *)
(* A row stands for one batch.  All files have the same number of batches, *)
(* and the count the swap compares is the number of batches.  The function *)
(* is one transaction of several statements, each with its own snapshot    *)
(* (READ COMMITTED), and other calls may take effect between them.  A      *)
(* write that fails has committed, has not, or lands later when it is an   *)
(* insert; a delete that fails has committed or has not.                   *)
(***************************************************************************)
EXTENDS Naturals, FiniteSets

CONSTANTS Uploads,  \* uploads of one organisation's ledger, by hand or by the sweep
          First,    \* the upload the ledger holds at the start
          Batches,  \* batches per upload
          Mishaps   \* bound on failing or misread calls and deaths

ASSUME LedgerAssumption ==
    /\ IsFiniteSet(Uploads) /\ First \in Uploads
    /\ Batches \in Nat \ {0} /\ Mishaps \in Nat

VARIABLES schema,      \* how much of the migration has been run
          upload, staging, live,
          seen,        \* the live rows the delete of an open swap found
          copied,      \* the staged rows an open swap inserted
          late,        \* inserts that failed for their caller and may still land
          budget,
          raw,         \* uploads that wrote directly since the last replacement
          overlapped,  \* two uploads were under way at once
          crossed      \* another call took effect inside an open swap

vars == <<schema, upload, staging, live, seen, copied, late, budget, raw, overlapped, crossed>>

Numbers == 1..Batches
Rows == Uploads \X Numbers
Whole(u) == {u} \X Numbers

PCs == {"new", "probing", "clearing", "staging", "swapping", "counted", "deleted", "copied",
        "direct", "writing", "cleaning", "done", "failed"}

LedgerTypeOK ==
    /\ schema \in {"none", "table", "full"}
    /\ upload \in [Uploads -> [pc : PCs, written : 0..Batches, fallback : BOOLEAN]]
    /\ staging \in SUBSET Rows
    /\ live \in SUBSET Rows
    /\ seen \in [Uploads -> SUBSET Rows]
    /\ copied \in [Uploads -> SUBSET Rows]
    /\ late \in SUBSET ({"staging", "live"} \X Rows)
    /\ budget \in Nat
    /\ raw \in SUBSET Uploads
    /\ overlapped \in BOOLEAN
    /\ crossed \in BOOLEAN

LedgerInit ==
    /\ schema \in {"none", "table", "full"}
    /\ upload = [u \in Uploads |-> [pc |-> IF u = First THEN "done" ELSE "new",
                                    written |-> 0, fallback |-> FALSE]]
    /\ staging = {}
    /\ live = Whole(First)
    /\ seen = [u \in Uploads |-> {}]
    /\ copied = [u \in Uploads |-> {}]
    /\ late = {}
    /\ budget = Mishaps
    /\ raw = {}
    /\ overlapped = FALSE
    /\ crossed = FALSE

Mishap == budget > 0 /\ budget' = budget - 1

Busy(u) == upload[u].pc \notin {"new", "done", "failed"}

At(u, pc) == upload[u].pc = pc

(* The function runs for u.                                                 *)
Inside(u) == upload[u].pc \in {"counted", "deleted", "copied"}

Goto(u, pc) == upload' = [upload EXCEPT ![u].pc = pc]

-----------------------------------------------------------------------------
(* The file has parsed to some rows; an empty one goes no further.          *)
Begin(u) ==
    /\ At(u, "new")
    /\ Goto(u, "probing")
    /\ overlapped' = (overlapped \/ \E v \in Uploads : Busy(v))
    /\ UNCHANGED <<schema, staging, live, late, budget, raw, seen, copied>>

(* _staging_available, ...                                                  *)
Probe(u) ==
    /\ At(u, "probing")
    /\ Goto(u, IF schema = "none" THEN "direct" ELSE "clearing")
    /\ UNCHANGED <<schema, staging, live, late, budget, raw, overlapped, seen, copied>>

(* ... which takes any error for a missing table.                           *)
ProbeFails(u) ==
    /\ Mishap
    /\ At(u, "probing")
    /\ Goto(u, "direct")
    /\ UNCHANGED <<schema, staging, live, late, raw, overlapped, seen, copied>>

(* Mutant: what an earlier attempt left staged stays.                       *)
ClearNothing(u) ==
    /\ At(u, "clearing")
    /\ Goto(u, "staging")
    /\ UNCHANGED <<schema, staging, live, late, budget, raw, overlapped, seen, copied>>

Clear(u) ==
    /\ At(u, "clearing")
    /\ staging' = {}
    /\ Goto(u, "staging")
    /\ UNCHANGED <<schema, live, late, budget, raw, overlapped, seen, copied>>

ClearFails(u) ==
    /\ Mishap
    /\ At(u, "clearing")
    /\ staging' \in {staging, {}}
    /\ Goto(u, "failed")
    /\ UNCHANGED <<schema, live, late, raw, overlapped, seen, copied>>

NextRow(u) == <<u, upload[u].written + 1>>

(* One more batch is written; after the last one the upload goes on.        *)
Advance(u, pc) ==
    upload' = [upload EXCEPT
        ![u].written = IF upload[u].written + 1 = Batches THEN 0 ELSE upload[u].written + 1,
        ![u].pc = IF upload[u].written + 1 = Batches THEN pc ELSE upload[u].pc]

Stage(u) ==
    /\ At(u, "staging")
    /\ staging' = staging \cup {NextRow(u)}
    /\ Advance(u, "swapping")
    /\ UNCHANGED <<schema, live, late, budget, raw, overlapped, seen, copied>>

StageFails(u) ==
    /\ Mishap
    /\ At(u, "staging")
    /\ \/ staging' \in {staging, staging \cup {NextRow(u)}} /\ UNCHANGED late
       \/ late' = late \cup {<<"staging", NextRow(u)>>} /\ UNCHANGED staging
    /\ upload' = [upload EXCEPT ![u].pc = "cleaning", ![u].written = 0]
    /\ UNCHANGED <<schema, live, raw, overlapped, seen, copied>>

(* The cleanup of the stage changes nothing about the outcome: a fallback   *)
(* has written the ledger, a failed stage has not.                          *)
Outcome(u) == IF upload[u].fallback THEN "done" ELSE "failed"

Clean(u) ==
    /\ At(u, "cleaning")
    /\ staging' = {}
    /\ Goto(u, Outcome(u))
    /\ UNCHANGED <<schema, live, late, budget, raw, overlapped, seen, copied>>

CleanFails(u) ==
    /\ Mishap
    /\ At(u, "cleaning")
    /\ staging' \in {staging, {}}
    /\ Goto(u, Outcome(u))
    /\ UNCHANGED <<schema, live, late, raw, overlapped, seen, copied>>

-----------------------------------------------------------------------------
(* asset_ledger_swap_from_staging: it counts the stage, deletes the live    *)
(* rows, copies the stage and deletes it.  Nobody sees the change before    *)
(* the commit.  What is staged after the copy may be in time for the last   *)
(* delete or too late.  A delete that meets rows another open swap has      *)
(* deleted waits for that swap's end.                                       *)

(* Mutant: any stage that is not empty will do.                             *)
NotEmpty == staging # {}

(* The stage is accepted: it holds as many rows as the caller staged.       *)
Complete == Cardinality(staging) = Batches

SwapCount(u) ==
    /\ At(u, "swapping")
    /\ schema = "full"
    /\ Complete
    /\ Goto(u, "counted")
    /\ UNCHANGED <<schema, staging, live, late, budget, raw, overlapped, seen, copied>>

(* Mutant: a refused swap is reported as an upload.                         *)
SwapRefusedQuietly(u) ==
    /\ At(u, "swapping")
    /\ schema = "full"
    /\ ~Complete
    /\ Goto(u, "done")
    /\ UNCHANGED <<schema, staging, live, late, budget, raw, overlapped, seen, copied>>

SwapRefused(u) ==
    /\ At(u, "swapping")
    /\ schema = "full"
    /\ ~Complete
    /\ Goto(u, "failed")
    /\ UNCHANGED <<schema, staging, live, late, budget, raw, overlapped, seen, copied>>

SwapDelete(u) ==
    /\ At(u, "counted")
    /\ seen' = [seen EXCEPT ![u] = live]
    /\ Goto(u, "deleted")
    /\ UNCHANGED <<schema, staging, live, late, budget, raw, overlapped, copied>>

SwapCopy(u) ==
    /\ At(u, "deleted")
    /\ \A v \in Uploads : At(v, "copied") => seen[v] \cap seen[u] = {}
    /\ copied' = [copied EXCEPT ![u] = staging]
    /\ Goto(u, "copied")
    /\ UNCHANGED <<schema, staging, live, late, budget, raw, overlapped, seen>>

(* The direct writers of these rows.                                        *)
Writers(rows) == {u \in raw : \E n \in Numbers : <<u, n>> \in rows}

(* Mutant: the old rows are not deleted.                                    *)
ReplaceAdding(u) ==
    /\ live' = live \cup copied[u]
    /\ raw' = Writers(live \ seen[u])
    /\ \E tooLate \in SUBSET (staging \ copied[u]) : staging' = tooLate

Replace(u) ==
    /\ live' = (live \ seen[u]) \cup copied[u]
    /\ raw' = Writers(live \ seen[u])
    /\ \E tooLate \in SUBSET (staging \ copied[u]) : staging' = tooLate

Forget(u) ==
    /\ seen' = [seen EXCEPT ![u] = {}]
    /\ copied' = [copied EXCEPT ![u] = {}]

(* The function has returned how many rows it copied: another number than   *)
(* the upload staged is an error, after the commit.                         *)
SwapCommit(u) ==
    /\ At(u, "copied")
    /\ Replace(u)
    /\ Goto(u, IF Cardinality(copied[u]) = Batches THEN "done" ELSE "failed")
    /\ Forget(u)
    /\ UNCHANGED <<schema, late, budget, overlapped>>

(* The call fails: the function is rolled back, or had committed.           *)
SwapFails(u) ==
    /\ Mishap
    /\ At(u, "swapping") \/ Inside(u)
    /\ \/ UNCHANGED <<staging, live, raw>>
       \/ At(u, "copied") /\ Replace(u)
    /\ Goto(u, "failed")
    /\ Forget(u)
    /\ UNCHANGED <<schema, late, overlapped>>

(* The ledger is to be written directly, and the stage cleaned up after.    *)
FallBack(u) ==
    /\ upload' = [upload EXCEPT ![u].pc = "direct", ![u].fallback = TRUE]
    /\ UNCHANGED <<schema, staging, live, late, raw, overlapped, seen, copied>>

(* The function is missing, ...                                             *)
SwapMissing(u) ==
    /\ At(u, "swapping")
    /\ schema # "full"
    /\ FallBack(u)
    /\ UNCHANGED budget

(* ... or another error of the call reads as if it were.                    *)
SwapMisread(u) ==
    /\ Mishap
    /\ At(u, "swapping")
    /\ schema = "full"
    /\ FallBack(u)

-----------------------------------------------------------------------------
(* The direct path.                                                         *)

Delete(u) == live' = {} /\ raw' = {u}

DeleteLive(u) ==
    /\ At(u, "direct")
    /\ Delete(u)
    /\ Goto(u, "writing")
    /\ UNCHANGED <<schema, staging, late, budget, overlapped, seen, copied>>

DeleteLiveFails(u) ==
    /\ Mishap
    /\ At(u, "direct")
    /\ Delete(u) \/ UNCHANGED <<live, raw>>
    /\ Goto(u, "failed")
    /\ UNCHANGED <<schema, staging, late, overlapped, seen, copied>>

WriteLive(row) == live' = live \cup {row} /\ raw' = raw \cup {row[1]}

Write(u) ==
    /\ At(u, "writing")
    /\ WriteLive(NextRow(u))
    /\ Advance(u, IF upload[u].fallback THEN "cleaning" ELSE "done")
    /\ UNCHANGED <<schema, staging, late, budget, overlapped, seen, copied>>

WriteFails(u) ==
    /\ Mishap
    /\ At(u, "writing")
    /\ \/ UNCHANGED <<live, raw, late>>
       \/ WriteLive(NextRow(u)) /\ UNCHANGED late
       \/ late' = late \cup {<<"live", NextRow(u)>>} /\ UNCHANGED <<live, raw>>
    /\ upload' = [upload EXCEPT ![u].pc = "failed", ![u].written = 0]
    /\ UNCHANGED <<schema, staging, overlapped, seen, copied>>

-----------------------------------------------------------------------------
(* The rest of the world.                                                   *)

(* A late insert lands.                                                     *)
Land(w) ==
    /\ late' = late \ {w}
    /\ \/ w[1] = "staging" /\ staging' = staging \cup {w[2]} /\ UNCHANGED <<live, raw>>
       \/ w[1] = "live" /\ WriteLive(w[2]) /\ UNCHANGED staging
    /\ UNCHANGED <<schema, upload, budget, overlapped, seen, copied>>

(* The process of an upload dies; an open swap is rolled back.              *)
Die(u) ==
    /\ Mishap
    /\ Busy(u)
    /\ upload' = [upload EXCEPT ![u].pc = "failed", ![u].written = 0]
    /\ Forget(u)
    /\ UNCHANGED <<schema, staging, live, late, raw, overlapped>>

(* Somebody runs the rest of the migration.                                 *)
Migrate ==
    /\ schema # "full"
    /\ schema' \in {"table", "full"} \ {schema}
    /\ UNCHANGED <<upload, staging, live, late, budget, raw, overlapped, seen, copied>>

UploadStep(u) ==
    \/ Probe(u) \/ Clear(u) \/ Stage(u) \/ Clean(u)
    \/ SwapCount(u) \/ SwapRefused(u) \/ SwapDelete(u) \/ SwapCopy(u) \/ SwapCommit(u)
    \/ SwapMissing(u)
    \/ DeleteLive(u) \/ Write(u)

Failure(u) ==
    \/ ProbeFails(u) \/ ClearFails(u) \/ StageFails(u) \/ CleanFails(u)
    \/ SwapFails(u) \/ SwapMisread(u)
    \/ DeleteLiveFails(u) \/ WriteFails(u) \/ Die(u)

(* The ledger or the stage changes inside an open swap, by another hand.    *)
Crossing ==
    /\ <<staging, live>>' # <<staging, live>>
    /\ \E u \in Uploads : Inside(u) /\ upload'[u] = upload[u]

Watch == crossed' = (crossed \/ Crossing)

LedgerNext ==
    /\ \/ \E u \in Uploads : Begin(u) \/ UploadStep(u) \/ Failure(u)
       \/ \E w \in late : Land(w)
       \/ Migrate
    /\ Watch

LedgerSpec == LedgerInit /\ [][LedgerNext]_vars

(* An upload that has begun runs to its end.                                *)
FairLedgerSpec == LedgerSpec /\ \A u \in Uploads : WF_vars(UploadStep(u) /\ Watch)

-----------------------------------------------------------------------------
(* While uploads come one at a time the ledger is one whole file, whatever  *)
(* fails, wherever an upload dies and whatever insert lands late, except    *)
(* where an upload that wrote directly is under way or has failed since the *)
(* last replacement, or a late insert landed while the function ran.        *)
(* (asset/router.py 121-180, migration 300 10-18)                           *)
WholeLedger ==
    ~overlapped /\ ~crossed /\ (\A u \in raw : At(u, "done")) => \E u \in Uploads : live = Whole(u)

(* Even when uploads overlap and share a stage, as long as none has written *)
(* directly since the last swap and no call took effect inside the function *)
(* the ledger has as many rows as a file: it is never empty and never       *)
(* partial.  (migration 300 74-93)                                          *)
FullCount == raw = {} /\ ~crossed => Cardinality(live) = Batches

(* An upload that reports success while it is alone has just put its whole  *)
(* file in place, by the swap or directly; only rows of an upload that      *)
(* failed while writing directly may have come in on top.                   *)
(* (asset/router.py 144-179, 196-203)                                       *)
SuccessIsLive ==
    [][\A u \in Uploads :
          Busy(u) /\ upload'[u].pc = "done" /\ ~overlapped /\ raw' \subseteq {u}
             => live' = Whole(u)]_vars

(* An upload that is alone, with nothing left to land, succeeds unless a    *)
(* call of its own fails, whatever earlier uploads left behind.             *)
(* (asset/router.py 127-142)                                                *)
RetrySucceeds ==
    \A u \in Uploads, b \in 0..Mishaps :
        At(u, "probing") /\ budget = b /\ late = {} ~> At(u, "done") \/ overlapped \/ budget < b

=============================================================================
