--------------------------- MODULE AssetLedger_proofs ---------------------------
(* Proofs about AssetLedger, for any uploads, files of any length and any      *)
(* number of mishaps.                                                          *)
EXTENDS AssetLedger, FiniteSetTheorems, TLAPS

UploadType == [pc : PCs, written : 0..Batches, fallback : BOOLEAN]

Standing == {"probing", "clearing", "swapping", "counted", "deleted", "copied", "direct", "cleaning"}

Quiet == {"clearing", "staging", "direct", "failed"}

Early == {"new", "probing", "clearing", "staging", "swapping", "counted", "deleted", "copied"}

Views == seen \in [Uploads -> SUBSET Rows] /\ copied \in [Uploads -> SUBSET Rows]

(* Batches are counted only while they are written, and only an upload that *)
(* found the function missing is a fallback.                                *)
UploadShape ==
    \A u \in Uploads :
        /\ upload[u].written < Batches
        /\ upload[u].pc \notin {"staging", "writing"} => upload[u].written = 0
        /\ upload[u].pc \in Early => ~upload[u].fallback

(* Who left a row to land directly has failed.                              *)
LateIsFailed == \A w \in late : w[1] = "live" => At(w[2][1], "failed")

Basic == LedgerTypeOK /\ UploadShape /\ LateIsFailed /\ FullCount

FirstRows(u, n) == {u} \X (1..n)

(* What is in place while an upload is alone.                               *)
AloneBusy == \A u, v \in Uploads : Busy(u) /\ Busy(v) => u = v

Staged(u) ==
    /\ At(u, "staging") => FirstRows(u, upload[u].written) \subseteq staging
    /\ At(u, "swapping") \/ Inside(u) => Whole(u) \subseteq staging
    /\ At(u, "copied") => Whole(u) \subseteq copied[u]
    /\ upload[u].pc \in {"deleted", "copied"} => \A r \in live \ seen[u] : r[1] \in raw \ {u}

Others(u) == u \in raw /\ \A v \in raw \ {u} : At(v, "failed")

Written(u) ==
    /\ At(u, "writing") => Others(u) /\ (raw = {u} => live = FirstRows(u, upload[u].written))
    /\ At(u, "cleaning") /\ upload[u].fallback => Others(u) /\ (raw = {u} => live = Whole(u))

Settled == (\A u \in raw : At(u, "done")) => \E u \in Uploads : live = Whole(u)

AloneInv ==
    AloneBusy /\ (~crossed => Settled) /\ \A u \in Uploads : Staged(u) /\ Written(u)

(* What an open swap has counted, found and copied is still what is there,  *)
(* unless another call crossed it.                                          *)
Straight(u) ==
    /\ Inside(u) => Complete
    /\ upload[u].pc \in {"deleted", "copied"} => seen[u] = live
    /\ At(u, "copied") => copied[u] = staging

Undisturbed == ~crossed => \A u \in Uploads : Straight(u)

Core == Basic /\ (~overlapped => AloneInv)

LedgerInv == Core /\ Undisturbed

(* What every step does to "crossed".                                       *)
Onward == crossed' \in BOOLEAN /\ (crossed => crossed')

-----------------------------------------------------------------------------
(* Counting.                                                                 *)

LEMMA WholeCounts ==
    ASSUME NEW u \in Uploads
    PROVE  IsFiniteSet(Whole(u)) /\ Cardinality(Whole(u)) = Batches
<1> DEFINE f == [n \in Numbers |-> <<u, n>>]
<1>1. IsFiniteSet(Numbers) /\ Cardinality(Numbers) = Batches
  BY FS_Interval, LedgerAssumption DEF Numbers
<1>2. f \in Bijection(Numbers, Whole(u))
  <2>1. \A n \in Numbers : f[n] = <<u, n>> /\ f[n] \in Whole(u)
    BY DEF Whole
  <2>2. \A m, n \in Numbers : f[m] = f[n] => m = n
    BY <2>1
  <2>3. \A r \in Whole(u) : \E n \in Numbers : f[n] = r
    BY <2>1 DEF Whole
  <2>4. f \in [Numbers -> Whole(u)]
    BY <2>1
  <2> HIDE DEF f
  <2>5. f \in Injection(Numbers, Whole(u))
    BY <2>2, <2>4 DEF Injection, IsInjective
  <2>6. f \in Surjection(Numbers, Whole(u))
    BY <2>3, <2>4 DEF Surjection
  <2> QED BY <2>5, <2>6 DEF Bijection
<1>3. ExistsBijection(Numbers, Whole(u))
  BY <1>2 DEF ExistsBijection
<1> QED BY <1>1, <1>3, FS_Bijection

LEMMA RowsFinite == \A S \in SUBSET Rows : IsFiniteSet(S)
<1>1. IsFiniteSet(Numbers)
  BY FS_Interval, LedgerAssumption DEF Numbers
<1>2. IsFiniteSet(Rows)
  BY <1>1, FS_Product, LedgerAssumption DEF Rows
<1> QED BY <1>2, FS_Subset

(* A stage that holds a whole file and counts as one is that file.          *)
LEMMA CompleteIsWhole ==
    ASSUME NEW u \in Uploads, staging \in SUBSET Rows, Whole(u) \subseteq staging, Complete
    PROVE  staging = Whole(u)
BY RowsFinite, WholeCounts, FS_Subset DEF Complete

-----------------------------------------------------------------------------
(* How an upload moves.                                                      *)

(* Only u changes, and keeps its type.                                      *)
Moves(u) ==
    /\ upload' \in [Uploads -> UploadType]
    /\ \A v \in Uploads \ {u} : upload'[v] = upload[v]

LEMMA OneUpload ==
    ASSUME upload \in [Uploads -> UploadType], NEW u \in Uploads, NEW z \in UploadType,
           upload' = [upload EXCEPT ![u] = z]
    PROVE  Moves(u) /\ upload'[u] = z
BY DEF Moves

LEMMA GotoMoves ==
    ASSUME LedgerTypeOK, NEW u \in Uploads, NEW pc \in PCs, Goto(u, pc)
    PROVE  /\ Moves(u) /\ upload'[u].pc = pc
           /\ upload'[u].written = upload[u].written /\ upload'[u].fallback = upload[u].fallback
<1> DEFINE z == [upload[u] EXCEPT !.pc = pc]
<1>1. upload \in [Uploads -> UploadType] /\ upload[u] \in UploadType
  BY DEF LedgerTypeOK, UploadType
<1>2. upload' = [upload EXCEPT ![u] = z]
  BY DEF Goto
<1>3. z \in UploadType /\ z.pc = pc /\ z.written = upload[u].written /\ z.fallback = upload[u].fallback
  BY <1>1 DEF UploadType
<1> HIDE DEF z
<1> QED BY <1>1, <1>2, <1>3, OneUpload

(* A failing insert, or a death.                                            *)
LEMMA FailMoves ==
    ASSUME LedgerTypeOK, NEW u \in Uploads, NEW pc \in PCs,
           upload' = [upload EXCEPT ![u].pc = pc, ![u].written = 0]
    PROVE  /\ Moves(u) /\ upload'[u].pc = pc
           /\ upload'[u].written = 0 /\ upload'[u].fallback = upload[u].fallback
<1> DEFINE z == [upload[u] EXCEPT !.pc = pc, !.written = 0]
<1>1. upload \in [Uploads -> UploadType] /\ upload[u] \in UploadType
  BY DEF LedgerTypeOK, UploadType
<1>2. upload' = [upload EXCEPT ![u] = z]
  OBVIOUS
<1>3. z \in UploadType /\ z.pc = pc /\ z.written = 0 /\ z.fallback = upload[u].fallback
  <2>1. 0 \in 0..Batches
    BY LedgerAssumption
  <2> QED BY <1>1, <2>1 DEF UploadType
<1> HIDE DEF z
<1> QED BY <1>1, <1>2, <1>3, OneUpload

LEMMA AdvanceMoves ==
    ASSUME LedgerTypeOK, UploadShape, NEW u \in Uploads, NEW pc \in PCs, Advance(u, pc)
    PROVE  /\ Moves(u) /\ upload'[u].fallback = upload[u].fallback
           /\ upload[u].written + 1 \in Numbers
           /\ \/ /\ upload[u].written + 1 < Batches
                 /\ upload'[u].written = upload[u].written + 1 /\ upload'[u].pc = upload[u].pc
              \/ /\ upload[u].written + 1 = Batches
                 /\ upload'[u].written = 0 /\ upload'[u].pc = pc
<1> DEFINE n == IF upload[u].written + 1 = Batches THEN 0 ELSE upload[u].written + 1
           c == IF upload[u].written + 1 = Batches THEN pc ELSE upload[u].pc
           z == [upload[u] EXCEPT !.written = n, !.pc = c]
<1>1. upload \in [Uploads -> UploadType] /\ upload[u] \in UploadType /\ upload[u].written < Batches
  BY DEF LedgerTypeOK, UploadType, UploadShape
<1>2. upload' = [upload EXCEPT ![u] = z]
  BY DEF Advance
<1>3. n \in 0..Batches /\ c \in PCs /\ upload[u].written + 1 \in Numbers
  BY <1>1, LedgerAssumption DEF UploadType, Numbers
<1>4. \/ upload[u].written + 1 < Batches /\ n = upload[u].written + 1 /\ c = upload[u].pc
      \/ upload[u].written + 1 = Batches /\ n = 0 /\ c = pc
  BY <1>1, LedgerAssumption DEF UploadType
<1> HIDE DEF n, c
<1>5. z \in UploadType /\ z.pc = c /\ z.written = n /\ z.fallback = upload[u].fallback
  BY <1>1, <1>3 DEF UploadType
<1> HIDE DEF z
<1> QED BY <1>1, <1>2, <1>3, <1>4, <1>5, OneUpload

(* What a move of u keeps of the shape of the uploads.                      *)
LEMMA MoveKeepsShape ==
    ASSUME Basic, NEW u \in Uploads, Moves(u), Busy(u),
           upload'[u].written < Batches,
           upload'[u].pc \notin {"staging", "writing"} => upload'[u].written = 0,
           upload'[u].pc \in Early => ~upload'[u].fallback,
           late' \in SUBSET ({"staging", "live"} \X Rows),
           \A w \in late' : w \in late \/ w[1] = "staging" \/ (w[2][1] = u /\ upload'[u].pc = "failed")
    PROVE  UploadShape' /\ LateIsFailed'
<1>1. UploadShape'
  BY DEF Basic, UploadShape, Moves
<1>2. ASSUME NEW w \in late', w[1] = "live" PROVE upload'[w[2][1]].pc = "failed"
  <2>1. w[2][1] \in Uploads
    BY DEF Rows
  <2>2. CASE w \in late
    BY <1>2, <2>1, <2>2 DEF Basic, LateIsFailed, At, Busy, Moves
  <2> QED BY <1>2, <2>2
<1> QED BY <1>1, <1>2 DEF LateIsFailed, At

(* While u is alone, a move of u concerns nobody else.                      *)
LEMMA AloneMove ==
    ASSUME LedgerInv, Onward, NEW u \in Uploads, Moves(u), Busy(u), Basic', overlapped' = overlapped,
           ~overlapped => Staged(u)' /\ Written(u)', ~overlapped /\ ~crossed' => Settled'
    PROVE  Core'
<1> SUFFICES ASSUME ~overlapped PROVE AloneInv'
  BY DEF LedgerInv, Core
<1>1. \A v \in Uploads \ {u} : ~Busy(v) /\ upload'[v] = upload[v]
  BY DEF LedgerInv, Core, AloneInv, AloneBusy, Moves
<1>2. AloneBusy'
  BY <1>1 DEF AloneBusy, Busy
<1>3. \A v \in Uploads \ {u} : Staged(v)' /\ Written(v)'
  BY <1>1 DEF Staged, Written, Busy, At, Inside
<1> QED BY <1>2, <1>3 DEF AloneInv

(* A move that leaves the ledger alone and does not end in success.         *)
LEMMA QuietMove ==
    ASSUME LedgerInv, Onward, NEW u \in Uploads, Moves(u), Busy(u), upload'[u].pc # "done",
           upload'[u].written < Batches,
           upload'[u].pc \notin {"staging", "writing"} => upload'[u].written = 0,
           upload'[u].pc \in Early => ~upload'[u].fallback,
           late' \in SUBSET ({"staging", "live"} \X Rows),
           \A w \in late' : w \in late \/ w[1] = "staging" \/ (w[2][1] = u /\ upload'[u].pc = "failed"),
           UNCHANGED <<live, raw, overlapped, schema>>, Views', budget' \in Nat, staging' \in SUBSET Rows,
           ~overlapped => Staged(u)' /\ Written(u)'
    PROVE  Core'
<1>1. UploadShape' /\ LateIsFailed'
  BY MoveKeepsShape DEF LedgerInv, Core
<1>2. LedgerTypeOK'
  BY DEF LedgerInv, Core, Basic, LedgerTypeOK, Moves, UploadType, Views, Onward
<1>3. Basic'
  BY <1>1, <1>2 DEF LedgerInv, Core, Basic, FullCount, Onward
<1>4. ~overlapped /\ ~crossed' => Settled'
  <2> SUFFICES ASSUME ~overlapped, ~crossed, \A v \in raw : At(v, "done")'
               PROVE  \E v \in Uploads : live = Whole(v)
    BY DEF Settled, Onward
  <2>1. raw \subseteq Uploads /\ u \notin raw
    BY DEF LedgerInv, Core, Basic, LedgerTypeOK, At
  <2>2. \A v \in raw : At(v, "done")
    BY <2>1 DEF At, Moves
  <2> QED BY <2>2 DEF LedgerInv, Core, AloneInv, Settled
<1> QED BY <1>3, <1>4, AloneMove

-----------------------------------------------------------------------------
(* The steps.                                                                *)

LEMMA InvInit == LedgerInit => LedgerInv
<1> SUFFICES ASSUME LedgerInit PROVE LedgerInv
  OBVIOUS
<1>1. LedgerTypeOK
  <2>1. 0 \in 0..Batches /\ Mishaps \in Nat /\ First \in Uploads
    BY LedgerAssumption
  <2>2. upload \in [Uploads -> UploadType]
    BY <2>1 DEF LedgerInit, UploadType, PCs
  <2>3. live \in SUBSET Rows
    BY <2>1 DEF LedgerInit, Whole, Rows
  <2> QED BY <2>1, <2>2, <2>3 DEF LedgerInit, LedgerTypeOK, UploadType
<1>2. UploadShape /\ LateIsFailed
  BY LedgerAssumption DEF LedgerInit, UploadShape, LateIsFailed
<1>3. FullCount
  BY LedgerAssumption, WholeCounts DEF LedgerInit, FullCount
<1>4. \A u \in Uploads : ~Busy(u) /\ upload[u].pc \in {"new", "done"}
  BY DEF LedgerInit, Busy
<1>5. AloneInv
  BY <1>4, LedgerAssumption DEF LedgerInit, AloneInv, AloneBusy, Settled, Staged, Written, At, Inside
<1>6. Undisturbed
  BY DEF LedgerInit, Undisturbed, Straight, Inside, At
<1> QED BY <1>1, <1>2, <1>3, <1>5, <1>6 DEF LedgerInv, Core, Basic

LEMMA BeginKeeps ==
    ASSUME LedgerInv, Onward, NEW u \in Uploads, Begin(u) PROVE Core'
<1>1. LedgerTypeOK /\ Goto(u, "probing") /\ "probing" \in PCs /\ upload[u].pc = "new"
  BY DEF LedgerInv, Core, Basic, Begin, PCs, At
<1>2. /\ Moves(u) /\ upload'[u].pc = "probing"
      /\ upload'[u].written = upload[u].written /\ upload'[u].fallback = upload[u].fallback
  BY <1>1, GotoMoves
<1>3. UNCHANGED <<schema, staging, live, late, budget, raw, seen, copied>> /\ overlapped' \in BOOLEAN
      /\ (~overlapped' => ~overlapped /\ \A v \in Uploads : ~Busy(v))
  BY DEF Begin
<1>4. LedgerTypeOK'
  BY <1>2, <1>3 DEF LedgerInv, Core, Basic, LedgerTypeOK, Moves, UploadType, Onward
<1>5. UploadShape'
  BY <1>1, <1>2 DEF LedgerInv, Core, Basic, UploadShape, Moves, Early
<1>6. LateIsFailed'
  <2> SUFFICES ASSUME NEW w \in late, w[1] = "live" PROVE upload'[w[2][1]].pc = "failed"
    BY <1>3 DEF LateIsFailed, At
  <2>1. w[2][1] \in Uploads /\ upload[w[2][1]].pc = "failed"
    BY DEF LedgerInv, Core, Basic, LedgerTypeOK, Rows, LateIsFailed, At
  <2> QED BY <1>1, <1>2, <2>1 DEF Moves
<1>7. ASSUME ~overlapped' PROVE AloneInv'
  <2>1. AloneInv /\ \A v \in Uploads \ {u} : ~Busy(v) /\ upload'[v] = upload[v]
    BY <1>2, <1>3, <1>7 DEF LedgerInv, Core, Moves
  <2>2. AloneBusy'
    BY <2>1 DEF AloneBusy, Busy
  <2>3. \A v \in Uploads : Staged(v)' /\ Written(v)'
    BY <1>2, <2>1 DEF Staged, Written, Busy, At, Inside
  <2>4. ~crossed' => Settled'
    <3>1. raw \subseteq Uploads
      BY DEF LedgerInv, Core, Basic, LedgerTypeOK
    <3>2. (\A v \in raw : At(v, "done"))' => \A v \in raw : At(v, "done")
      BY <1>2, <1>3, <2>1, <3>1 DEF At
    <3> QED BY <1>3, <2>1, <3>2 DEF AloneInv, Settled, Onward
  <2> QED BY <2>2, <2>3, <2>4 DEF AloneInv
<1> QED BY <1>3, <1>4, <1>5, <1>6, <1>7 DEF LedgerInv, Core, Basic, FullCount, Onward

(* A move by Goto that leaves the ledger alone and does not succeed.        *)
LEMMA QuietGoto ==
    ASSUME LedgerInv, Onward, NEW u \in Uploads, NEW pc \in Quiet, Goto(u, pc), Busy(u),
           upload[u].written = 0,
           pc \in {"clearing", "staging"} => ~upload[u].fallback,
           UNCHANGED <<live, raw, late, overlapped, schema>>, Views', budget' \in Nat, staging' \in SUBSET Rows
    PROVE  Core'
<1>1. /\ Moves(u) /\ upload'[u].pc = pc
      /\ upload'[u].written = 0 /\ upload'[u].fallback = upload[u].fallback
  BY GotoMoves DEF LedgerInv, Core, Basic, PCs, Quiet
<1>2. upload'[u].written < Batches /\ 1..0 = {}
  BY <1>1, LedgerAssumption
<1>3. Staged(u)' /\ Written(u)'
  BY <1>1, <1>2 DEF Staged, Written, At, FirstRows, Inside, Quiet
<1>4. late \in SUBSET ({"staging", "live"} \X Rows)
  BY DEF LedgerInv, Core, Basic, LedgerTypeOK
<1> QED BY <1>1, <1>2, <1>3, <1>4, QuietMove DEF Quiet, Early

LEMMA StandingStill ==
    ASSUME LedgerInv, Onward, NEW u \in Uploads, upload[u].pc \in Standing
    PROVE  /\ Busy(u) /\ upload[u].written = 0
           /\ upload[u].pc \notin {"direct", "cleaning"} => ~upload[u].fallback
           /\ staging \in SUBSET Rows /\ budget \in Nat
           /\ {} \in SUBSET Rows /\ Views
BY DEF LedgerInv, Core, Basic, UploadShape, LedgerTypeOK, Busy, Views, Standing, Early

LEMMA ProbeKeeps ==
    ASSUME LedgerInv, Onward, NEW u \in Uploads, Probe(u) \/ ProbeFails(u) PROVE Core'
<1>1. PICK pc \in {"clearing", "direct"} : Goto(u, pc)
  BY DEF Probe, ProbeFails
<1>2. /\ upload[u].pc = "probing" /\ budget' \in Nat
      /\ UNCHANGED <<schema, staging, live, late, raw, overlapped, seen, copied>>
  BY StandingStill DEF Probe, ProbeFails, Mishap, At, Standing
<1> QED BY <1>1, <1>2, StandingStill, QuietGoto DEF Quiet, Standing, Views

LEMMA ClearKeeps ==
    ASSUME LedgerInv, Onward, NEW u \in Uploads, Clear(u) \/ ClearFails(u) PROVE Core'
<1>1. PICK pc \in {"staging", "failed"} : Goto(u, pc)
  BY DEF Clear, ClearFails
<1>2. /\ upload[u].pc = "clearing" /\ budget' \in Nat /\ staging' \in SUBSET Rows
      /\ UNCHANGED <<schema, live, late, raw, overlapped, seen, copied>>
  BY StandingStill DEF Clear, ClearFails, Mishap, At, Standing
<1> QED BY <1>1, <1>2, StandingStill, QuietGoto DEF Quiet, Standing, Views

LEMMA SwapRefusedKeeps ==
    ASSUME LedgerInv, Onward, NEW u \in Uploads, SwapRefused(u) PROVE Core'
<1>1. /\ Goto(u, "failed") /\ upload[u].pc = "swapping"
      /\ UNCHANGED <<schema, staging, live, late, budget, raw, overlapped, seen, copied>>
  BY DEF SwapRefused, At
<1> QED BY <1>1, StandingStill, QuietGoto DEF Quiet, Standing, Views

LEMMA NextRowType ==
    ASSUME NEW u \in Uploads, upload[u].written \in Nat, upload[u].written + 1 \in Numbers
    PROVE  /\ NextRow(u) \in Rows
           /\ NextRow(u)[1] = u
           /\ FirstRows(u, upload[u].written) \cup {NextRow(u)} = FirstRows(u, upload[u].written + 1)
<1> DEFINE n == upload[u].written
<1>1. 1..(n + 1) = (1..n) \cup {n + 1}
  OBVIOUS
<1> HIDE DEF n
<1>2. NextRow(u) = <<u, n + 1>>
  BY DEF NextRow, n
<1>3. n + 1 \in Numbers
  BY DEF n
<1>4. FirstRows(u, n) \cup {<<u, n + 1>>} = FirstRows(u, n + 1)
  BY <1>1 DEF FirstRows
<1> QED BY <1>2, <1>3, <1>4 DEF Rows, n

(* An insert into the stage, and its failures.                              *)
LEMMA StageKeeps ==
    ASSUME LedgerInv, Onward, NEW u \in Uploads, Stage(u) PROVE Core'
<1>1. upload[u].pc = "staging" /\ Busy(u) /\ Advance(u, "swapping") /\ "swapping" \in PCs
  BY DEF Stage, At, Busy, PCs
<1>2. /\ UNCHANGED <<schema, live, late, budget, raw, overlapped, seen, copied>>
      /\ staging' = staging \cup {NextRow(u)} /\ LedgerTypeOK /\ UploadShape
  BY DEF Stage, LedgerInv, Core, Basic
<1>3. /\ Moves(u) /\ upload'[u].fallback = upload[u].fallback /\ ~upload[u].fallback
      /\ upload[u].written + 1 \in Numbers /\ upload[u].written \in Nat
      /\ \/ /\ upload[u].written + 1 < Batches
            /\ upload'[u].written = upload[u].written + 1 /\ upload'[u].pc = "staging"
         \/ /\ upload[u].written + 1 = Batches
            /\ upload'[u].written = 0 /\ upload'[u].pc = "swapping"
  <2>1. upload[u].written \in Nat /\ ~upload[u].fallback
    BY <1>1, <1>2 DEF LedgerTypeOK, UploadShape, Early
  <2> QED BY <1>1, <1>2, <2>1, AdvanceMoves
<1>4. staging' \in SUBSET Rows
  BY <1>2, <1>3, NextRowType DEF LedgerTypeOK
<1>5. upload'[u].written < Batches
  BY <1>3, LedgerAssumption
<1>6. ~overlapped => Staged(u)' /\ Written(u)'
  <2>1. ~overlapped => FirstRows(u, upload[u].written + 1) \subseteq staging'
    BY <1>1, <1>2, <1>3, NextRowType DEF LedgerInv, Core, AloneInv, Staged, At, Inside
  <2>2. FirstRows(u, Batches) = Whole(u)
    BY DEF FirstRows, Whole, Numbers
  <2> QED BY <1>3, <2>1, <2>2 DEF Staged, Written, At, Inside
<1>7. late \in SUBSET ({"staging", "live"} \X Rows) /\ budget \in Nat /\ Views'
  BY <1>2 DEF LedgerTypeOK, Views
<1> QED BY <1>1, <1>2, <1>3, <1>4, <1>5, <1>6, <1>7, QuietMove

LEMMA StageFailsKeeps ==
    ASSUME LedgerInv, Onward, NEW u \in Uploads, StageFails(u) PROVE Core'
<1>1. /\ upload[u].pc = "staging" /\ Busy(u) /\ "cleaning" \in PCs
      /\ upload' = [upload EXCEPT ![u].pc = "cleaning", ![u].written = 0]
  BY DEF StageFails, At, Busy, PCs
<1>2. /\ LedgerTypeOK /\ UploadShape /\ budget' \in Nat
      /\ UNCHANGED <<schema, live, raw, overlapped, seen, copied>>
  BY DEF StageFails, LedgerInv, Core, Basic, Mishap, LedgerTypeOK
<1>3. /\ Moves(u) /\ upload'[u].pc = "cleaning" /\ upload'[u].written = 0
      /\ upload'[u].fallback = upload[u].fallback /\ ~upload[u].fallback
  BY <1>1, <1>2, FailMoves DEF UploadShape, Early
<1>4. NextRow(u) \in Rows
  <2>1. upload[u].written \in Nat /\ upload[u].written < Batches
    BY <1>2 DEF LedgerTypeOK, UploadShape
  <2>2. upload[u].written + 1 \in Numbers
    BY <2>1, LedgerAssumption DEF Numbers
  <2> QED BY <2>1, <2>2, NextRowType
<1>5. /\ staging' \in SUBSET Rows
      /\ late' \in SUBSET ({"staging", "live"} \X Rows)
      /\ \A w \in late' : w \in late \/ w[1] = "staging"
  BY <1>2, <1>4 DEF StageFails, LedgerTypeOK
<1>6. Staged(u)' /\ Written(u)'
  BY <1>3 DEF Staged, Written, At, Inside
<1>7. \A w \in late' : w \in late \/ w[1] = "staging" \/ (w[2][1] = u /\ upload'[u].pc = "failed")
  BY <1>5
<1>8. upload'[u].written < Batches /\ Views'
  BY <1>2, <1>3, LedgerAssumption DEF LedgerTypeOK, Views
<1> QED BY <1>1, <1>2, <1>3, <1>5, <1>6, <1>7, <1>8, QuietMove DEF Early

LEMMA FallBackKeeps ==
    ASSUME LedgerInv, Onward, NEW u \in Uploads, SwapMissing(u) \/ SwapMisread(u) PROVE Core'
<1> DEFINE z == [upload[u] EXCEPT !.pc = "direct", !.fallback = TRUE]
<1>1. upload[u].pc = "swapping" /\ FallBack(u) /\ budget' \in Nat
  BY DEF SwapMissing, SwapMisread, Mishap, At, LedgerInv, Core, Basic, LedgerTypeOK
<1>2. /\ Busy(u) /\ upload[u].written = 0
      /\ UNCHANGED <<schema, staging, live, late, raw, overlapped, seen, copied>>
      /\ LedgerTypeOK /\ upload \in [Uploads -> UploadType] /\ Views'
  BY <1>1, StandingStill DEF FallBack, LedgerInv, Core, Basic, LedgerTypeOK, UploadType, Standing, Views
<1>3. upload' = [upload EXCEPT ![u] = z]
  BY <1>1 DEF FallBack
<1>4. z \in UploadType /\ z.pc = "direct" /\ z.written = 0
  BY <1>2 DEF UploadType, PCs
<1> HIDE DEF z
<1>5. Moves(u) /\ upload'[u] = z
  BY <1>2, <1>3, <1>4, OneUpload
<1>6. Staged(u)' /\ Written(u)'
  BY <1>4, <1>5 DEF Staged, Written, At, Inside
<1> QED BY <1>1, <1>2, <1>4, <1>5, <1>6, LedgerAssumption, QuietMove DEF LedgerTypeOK, Early

(* Forgetting what a swap saw keeps the types.                              *)
LEMMA ForgetViews ==
    ASSUME LedgerInv, NEW u \in Uploads, Forget(u)
    PROVE  Views' /\ \A v \in Uploads \ {u} : seen'[v] = seen[v] /\ copied'[v] = copied[v]
BY DEF LedgerInv, Core, Basic, LedgerTypeOK, Forget, Views

LEMMA DieKeeps ==
    ASSUME LedgerInv, Onward, NEW u \in Uploads, Die(u) PROVE Core'
<1>1. /\ Busy(u) /\ "failed" \in PCs /\ LedgerTypeOK /\ budget' \in Nat /\ Forget(u)
      /\ upload' = [upload EXCEPT ![u].pc = "failed", ![u].written = 0]
      /\ UNCHANGED <<schema, staging, live, late, raw, overlapped>>
  BY DEF Die, PCs, LedgerInv, Core, Basic, LedgerTypeOK, Mishap
<1>2. Moves(u) /\ upload'[u].pc = "failed" /\ upload'[u].written = 0
  BY <1>1, FailMoves
<1>3. Staged(u)' /\ Written(u)'
  BY <1>2 DEF Staged, Written, At, Inside
<1> QED BY <1>1, <1>2, <1>3, ForgetViews, LedgerAssumption, QuietMove DEF LedgerTypeOK, Early

(* A move by Goto out of a standing place, for the steps that touch the     *)
(* ledger or end in success.                                                *)
LEMMA LoudGoto ==
    ASSUME LedgerInv, Onward, NEW u \in Uploads, NEW pc \in {"done", "failed", "writing"}, Goto(u, pc),
           upload[u].pc \in Standing,
           live' \in SUBSET Rows, raw' \in SUBSET Uploads, staging' \in SUBSET Rows, budget' \in Nat,
           UNCHANGED <<schema, late, overlapped>>, FullCount', Views',
           ~overlapped => Written(u)', ~overlapped /\ ~crossed' => Settled'
    PROVE  Core'
<1>1. /\ Busy(u) /\ upload[u].written = 0 /\ pc \in PCs /\ Basic
      /\ late \in SUBSET ({"staging", "live"} \X Rows)
  BY StandingStill DEF LedgerInv, Core, Basic, LedgerTypeOK, PCs
<1>2. /\ Moves(u) /\ upload'[u].pc = pc
      /\ upload'[u].written = 0 /\ upload'[u].fallback = upload[u].fallback
  BY <1>1, GotoMoves DEF Basic
<1>3. upload'[u].written < Batches
  BY <1>2, LedgerAssumption
<1>4. UploadShape' /\ LateIsFailed'
  BY <1>1, <1>2, <1>3, MoveKeepsShape DEF Early
<1>5. LedgerTypeOK'
  BY <1>1, <1>2 DEF Basic, LedgerTypeOK, Moves, UploadType, Views, Onward
<1>6. Staged(u)'
  BY <1>2 DEF Staged, At, Inside
<1> QED BY <1>1, <1>2, <1>4, <1>5, <1>6, AloneMove DEF Basic

(* The function goes on: nothing is to be seen of it yet.                   *)
LEMMA SwapGoesOn ==
    ASSUME LedgerInv, Onward, NEW u \in Uploads, NEW pc \in {"counted", "deleted", "copied"}, Goto(u, pc),
           upload[u].pc \in {"swapping", "counted", "deleted"}, Views',
           UNCHANGED <<schema, staging, live, late, budget, raw, overlapped>>,
           pc = "deleted" => seen'[u] = live,
           pc = "copied" => upload[u].pc = "deleted" /\ copied'[u] = staging /\ seen' = seen
    PROVE  Core'
<1>1. /\ Busy(u) /\ upload[u].written = 0 /\ ~upload[u].fallback
      /\ staging \in SUBSET Rows /\ budget \in Nat
  BY StandingStill DEF Standing
<1>2. /\ Moves(u) /\ upload'[u].pc = pc
      /\ upload'[u].written = 0 /\ ~upload'[u].fallback
  BY <1>1, GotoMoves DEF LedgerInv, Core, Basic, PCs
<1>3. ASSUME ~overlapped PROVE Staged(u)'
  <2>1. /\ Whole(u) \subseteq staging
        /\ upload[u].pc = "deleted" => \A r \in live \ seen[u] : r[1] \in raw \ {u}
    BY <1>3 DEF LedgerInv, Core, AloneInv, Staged, At, Inside
  <2> QED BY <1>2, <2>1 DEF Staged, At
<1>4. Written(u)'
  BY <1>2 DEF Written, At
<1>5. upload'[u].written < Batches /\ late' \in SUBSET ({"staging", "live"} \X Rows)
  BY <1>2, LedgerAssumption DEF LedgerInv, Core, Basic, LedgerTypeOK
<1> QED BY <1>1, <1>2, <1>3, <1>4, <1>5, QuietMove

LEMMA SwapInsideKeeps ==
    ASSUME LedgerInv, Onward, NEW u \in Uploads, SwapCount(u) \/ SwapDelete(u) \/ SwapCopy(u) PROVE Core'
<1>1. Views /\ staging \in SUBSET Rows /\ live \in SUBSET Rows
  BY DEF LedgerInv, Core, Basic, LedgerTypeOK, Views
<1>2. CASE SwapCount(u)
  BY <1>1, <1>2, SwapGoesOn DEF SwapCount, At, Views
<1>3. CASE SwapDelete(u)
  <2>1. Views' /\ seen'[u] = live
    BY <1>1, <1>3 DEF SwapDelete, Views
  <2> QED BY <1>3, <2>1, SwapGoesOn DEF SwapDelete, At
<1>4. CASE SwapCopy(u)
  <2>1. Views' /\ copied'[u] = staging
    BY <1>1, <1>4 DEF SwapCopy, Views
  <2> QED BY <1>4, <2>1, SwapGoesOn DEF SwapCopy, At
<1> QED BY <1>2, <1>3, <1>4

(* The swap commits: undisturbed, the ledger has the rows of the stage; and *)
(* alone, a copy of as many rows as a file has is the file.                 *)
LEMMA SwapCommits ==
    ASSUME LedgerInv, Onward, NEW u \in Uploads, NEW pc \in {"done", "failed"}, Goto(u, pc),
           upload[u].pc = "copied", Replace(u), Forget(u), budget' \in Nat,
           UNCHANGED <<schema, late, overlapped>>
    PROVE  /\ Core'
           /\ ~overlapped /\ Cardinality(copied[u]) = Batches /\ raw' \subseteq {u} => live' = Whole(u)
<1>1. /\ live' = (live \ seen[u]) \cup copied[u] /\ raw' = Writers(live \ seen[u])
      /\ staging \in SUBSET Rows /\ live \in SUBSET Rows /\ copied[u] \in SUBSET Rows
      /\ raw \in SUBSET Uploads
  BY DEF LedgerInv, Core, Basic, LedgerTypeOK, Replace
<1>2. staging' \in SUBSET Rows /\ live' \in SUBSET Rows /\ raw' \in SUBSET Uploads
  BY <1>1 DEF Replace, Writers
<1>3. ASSUME ~crossed PROVE live' = staging /\ Complete
  BY <1>1, <1>3 DEF LedgerInv, Undisturbed, Straight, At, Inside
<1>4. FullCount'
  BY <1>3 DEF FullCount, Complete, Onward
<1>5. ~overlapped => Whole(u) \subseteq staging /\ Whole(u) \subseteq copied[u]
  BY DEF LedgerInv, Core, AloneInv, Staged, At, Inside
<1>6. ASSUME ~overlapped, ~crossed' PROVE Settled'
  <2>1. live' = Whole(u)
    BY <1>1, <1>3, <1>5, <1>6, CompleteIsWhole DEF Onward
  <2> QED BY <2>1 DEF Settled
<1>7. upload'[u].pc = pc
  BY GotoMoves DEF LedgerInv, Core, Basic, PCs
<1>8. Written(u)'
  BY <1>7 DEF Written, At
<1>9. ASSUME ~overlapped, Cardinality(copied[u]) = Batches, raw' \subseteq {u} PROVE live' = Whole(u)
  <2>1. copied[u] = Whole(u)
    BY <1>1, <1>5, <1>9, RowsFinite, WholeCounts, FS_Subset
  <2>2. ASSUME NEW r \in live \ seen[u] PROVE FALSE
    <3>1. r[1] \in raw \ {u}
      BY <1>9, <2>2 DEF LedgerInv, Core, AloneInv, Staged
    <3>2. \E n \in Numbers : <<r[1], n>> \in live \ seen[u]
      BY <1>1, <2>2 DEF Rows
    <3> QED BY <1>1, <1>9, <3>1, <3>2 DEF Writers
  <2> QED BY <1>1, <2>1, <2>2
<1>10. Core'
  BY <1>2, <1>4, <1>6, <1>8, ForgetViews, LoudGoto DEF Standing
<1> QED BY <1>9, <1>10

LEMMA SwapCommitKeeps ==
    ASSUME LedgerInv, Onward, NEW u \in Uploads, SwapCommit(u)
    PROVE  Core' /\ (~overlapped /\ upload'[u].pc = "done" /\ raw' \subseteq {u} => live' = Whole(u))
<1> DEFINE pc == IF Cardinality(copied[u]) = Batches THEN "done" ELSE "failed"
<1>1. /\ upload[u].pc = "copied" /\ Goto(u, pc) /\ Replace(u) /\ Forget(u)
      /\ UNCHANGED <<schema, late, overlapped>> /\ budget' \in Nat
  BY DEF SwapCommit, At, LedgerInv, Core, Basic, LedgerTypeOK
<1>2. upload'[u].pc = pc /\ pc \in {"done", "failed"}
  BY <1>1, GotoMoves DEF LedgerInv, Core, Basic, PCs
<1>3. pc = "done" => Cardinality(copied[u]) = Batches
  OBVIOUS
<1> HIDE DEF pc
<1> QED BY <1>1, <1>2, <1>3, SwapCommits

LEMMA SwapFailsKeeps ==
    ASSUME LedgerInv, Onward, NEW u \in Uploads, SwapFails(u) PROVE Core'
<1>1. /\ upload[u].pc \in Standing /\ Goto(u, "failed") /\ Forget(u)
      /\ UNCHANGED <<schema, late, overlapped>> /\ budget' \in Nat
  BY DEF SwapFails, At, Inside, Standing, LedgerInv, Core, Basic, LedgerTypeOK, Mishap
<1>2. CASE At(u, "copied") /\ Replace(u)
  BY <1>1, <1>2, SwapCommits DEF At
<1>3. CASE UNCHANGED <<staging, live, raw>>
  BY <1>1, <1>3, StandingStill, ForgetViews, QuietGoto DEF Quiet
<1> QED BY <1>2, <1>3 DEF SwapFails

LEMMA DeleteLiveKeeps ==
    ASSUME LedgerInv, Onward, NEW u \in Uploads, DeleteLive(u) \/ DeleteLiveFails(u) PROVE Core'
<1>1. PICK pc \in {"writing", "failed"} :
        /\ Goto(u, pc) /\ (pc = "writing" => Delete(u))
        /\ Delete(u) \/ UNCHANGED <<live, raw>>
  BY DEF DeleteLive, DeleteLiveFails
<1>2. /\ upload[u].pc = "direct" /\ upload[u].written = 0
      /\ UNCHANGED <<schema, staging, late, overlapped, seen, copied>> /\ budget' \in Nat /\ staging \in SUBSET Rows
      /\ Views'
  BY StandingStill DEF DeleteLive, DeleteLiveFails, At, LedgerInv, Core, Basic, LedgerTypeOK, Mishap,
                       Standing, Views
<1>3. CASE Delete(u)
  <2>1. live' = {} /\ raw' = {u}
    BY <1>3 DEF Delete
  <2>2. upload'[u].pc = pc /\ upload'[u].written = 0
    BY <1>1, <1>2, GotoMoves DEF LedgerInv, Core, Basic, PCs
  <2>3. FirstRows(u, 0) = {}
    BY DEF FirstRows
  <2>4. Written(u)'
    BY <2>1, <2>2, <2>3 DEF Written, At, Others
  <2>5. Settled'
    BY <2>1, <2>2 DEF Settled, At
  <2>6. FullCount'
    BY <2>1 DEF FullCount
  <2> QED BY <1>1, <1>2, <2>1, <2>4, <2>5, <2>6, LoudGoto DEF Standing
<1>4. CASE pc = "failed" /\ UNCHANGED <<live, raw>>
  BY <1>1, <1>2, <1>4, StandingStill, QuietGoto DEF Standing, Quiet
<1> QED BY <1>1, <1>3, <1>4

(* The cleanup after a direct write ends in success.                        *)
LEMMA CleanKeeps ==
    ASSUME LedgerInv, Onward, NEW u \in Uploads, Clean(u) \/ CleanFails(u)
    PROVE  /\ Core'
           /\ ~overlapped /\ upload'[u].pc = "done" /\ raw' \subseteq {u} => live' = Whole(u)
<1>1. /\ upload[u].pc = "cleaning" /\ Goto(u, Outcome(u)) /\ Outcome(u) \in {"done", "failed"}
      /\ UNCHANGED <<schema, live, raw, late, overlapped, seen, copied>> /\ budget' \in Nat /\ staging' \in SUBSET Rows
      /\ Views'
  BY StandingStill DEF Clean, CleanFails, At, LedgerInv, Core, Basic, LedgerTypeOK, Mishap, Outcome,
                       Standing, Views
<1>2. upload'[u].pc = Outcome(u) /\ Moves(u)
  BY <1>1, GotoMoves DEF LedgerInv, Core, Basic, PCs
<1>3. CASE ~upload[u].fallback
  <2>1. Outcome(u) = "failed"
    BY <1>3 DEF Outcome
  <2> QED BY <1>1, <1>2, <2>1, StandingStill, QuietGoto DEF Standing, Quiet
<1>4. CASE upload[u].fallback
  <2>1. Outcome(u) = "done"
    BY <1>4 DEF Outcome
  <2>2. ~overlapped => Others(u) /\ (raw = {u} => live = Whole(u))
    BY <1>1, <1>4 DEF LedgerInv, Core, AloneInv, Written, At
  <2>3. ASSUME ~overlapped, \A v \in raw : upload'[v].pc = "done" PROVE live = Whole(u)
    <3>1. \A v \in raw \ {u} : v \in Uploads /\ upload'[v].pc = "failed"
      BY <1>2, <2>2, <2>3 DEF Others, At, LedgerInv, Core, Basic, LedgerTypeOK, Moves
    <3>2. raw = {u}
      BY <2>2, <2>3, <3>1 DEF Others
    <3> QED BY <2>2, <2>3, <3>2
  <2>4. ~overlapped => Settled'
    BY <1>1, <2>3 DEF Settled, At
  <2>5. Written(u)'
    BY <1>2, <2>1 DEF Written, At
  <2>6. live' \in SUBSET Rows /\ raw' \in SUBSET Uploads /\ FullCount'
    BY <1>1 DEF LedgerInv, Core, Basic, LedgerTypeOK, FullCount, Onward
  <2>7. Core'
    BY <1>1, <2>1, <2>4, <2>5, <2>6, LoudGoto DEF Standing
  <2>8. ~overlapped /\ raw' \subseteq {u} => live' = Whole(u)
    BY <1>1, <2>2 DEF Others
  <2> QED BY <2>7, <2>8
<1> QED BY <1>3, <1>4

LEMMA WriteKeeps ==
    ASSUME LedgerInv, Onward, NEW u \in Uploads, Write(u)
    PROVE  /\ Core'
           /\ ~overlapped /\ upload'[u].pc = "done" /\ raw' \subseteq {u} => live' = Whole(u)
<1> DEFINE pc == IF upload[u].fallback THEN "cleaning" ELSE "done"
<1>1. /\ upload[u].pc = "writing" /\ Busy(u) /\ Advance(u, pc) /\ pc \in PCs
      /\ UNCHANGED <<schema, staging, late, budget, overlapped, seen, copied>> /\ WriteLive(NextRow(u))
      /\ Basic
  BY DEF Write, At, Busy, PCs, LedgerInv, Core
<1>2. /\ Moves(u) /\ upload'[u].fallback = upload[u].fallback
      /\ upload[u].written \in Nat /\ upload[u].written + 1 \in Numbers
      /\ \/ /\ upload[u].written + 1 < Batches
            /\ upload'[u].written = upload[u].written + 1 /\ upload'[u].pc = "writing"
         \/ /\ upload[u].written + 1 = Batches
            /\ upload'[u].written = 0 /\ upload'[u].pc = pc
  <2>1. upload[u].written \in Nat
    BY <1>1 DEF Basic, LedgerTypeOK
  <2> HIDE DEF pc
  <2> QED BY <1>1, <2>1, AdvanceMoves DEF Basic
<1>3. /\ NextRow(u) \in Rows /\ live' = live \cup {NextRow(u)} /\ raw' = raw \cup {u}
      /\ FirstRows(u, upload[u].written) \cup {NextRow(u)} = FirstRows(u, upload[u].written + 1)
  BY <1>1, <1>2, NextRowType DEF WriteLive
<1>4. LedgerTypeOK'
  BY <1>1, <1>2, <1>3 DEF Basic, LedgerTypeOK, Moves, UploadType, Views, Onward
<1>5. upload'[u].written < Batches /\ late' \in SUBSET ({"staging", "live"} \X Rows)
  BY <1>1, <1>2, LedgerAssumption DEF Basic, LedgerTypeOK
<1>6. UploadShape' /\ LateIsFailed'
  BY <1>1, <1>2, <1>5, MoveKeepsShape DEF Early
<1>7. FullCount'
  BY <1>3 DEF FullCount
<1>8. Staged(u)'
  BY <1>2 DEF Staged, At, Inside
<1>9. ~overlapped => Others(u) /\ raw' = raw /\ (raw = {u} => live' = FirstRows(u, upload[u].written + 1))
  BY <1>1, <1>3 DEF LedgerInv, Core, AloneInv, Written, At, Others
<1>10. FirstRows(u, Batches) = Whole(u)
  BY DEF FirstRows, Whole, Numbers
<1>11. ~overlapped => Others(u)'
  BY <1>2, <1>3, <1>9 DEF Others, At, Moves, Basic, LedgerTypeOK, LedgerInv, Core
<1>12. ~overlapped => Written(u)'
  BY <1>2, <1>9, <1>10, <1>11 DEF Written, At
<1>13. ~overlapped /\ upload'[u].pc = "done" /\ raw' \subseteq {u} => live' = Whole(u)
  BY <1>2, <1>9, <1>10 DEF Others
<1>14. ~overlapped => Settled'
  <2> SUFFICES ASSUME ~overlapped, \A v \in raw' : upload'[v].pc = "done"
               PROVE  \E v \in Uploads : live' = Whole(v)
    BY DEF Settled, At
  <2>1. upload'[u].pc = "done" /\ raw' \subseteq {u}
    BY <1>3, <1>11 DEF Others, At
  <2> QED BY <1>13, <2>1
<1>15. Core'
  BY <1>1, <1>2, <1>4, <1>6, <1>7, <1>8, <1>12, <1>14, AloneMove DEF Basic
<1> QED BY <1>13, <1>15

LEMMA WriteFailsKeeps ==
    ASSUME LedgerInv, Onward, NEW u \in Uploads, WriteFails(u) PROVE Core'
<1>1. /\ upload[u].pc = "writing" /\ Busy(u) /\ "failed" \in PCs
      /\ upload' = [upload EXCEPT ![u].pc = "failed", ![u].written = 0]
      /\ UNCHANGED <<schema, staging, overlapped, seen, copied>> /\ budget' \in Nat /\ Basic
  BY DEF WriteFails, At, Busy, PCs, LedgerInv, Core, Basic, LedgerTypeOK, Mishap
<1>2. Moves(u) /\ upload'[u].pc = "failed" /\ upload'[u].written = 0
  BY <1>1, FailMoves DEF Basic
<1>3. NextRow(u) \in Rows /\ NextRow(u)[1] = u
  <2>1. upload[u].written \in Nat /\ upload[u].written < Batches
    BY <1>1 DEF Basic, LedgerTypeOK, UploadShape
  <2>2. upload[u].written + 1 \in Numbers
    BY <2>1, LedgerAssumption DEF Numbers
  <2> QED BY <2>1, <2>2, NextRowType
<1>4. /\ late' \in SUBSET ({"staging", "live"} \X Rows)
      /\ \A w \in late' : w \in late \/ w[2][1] = u
  BY <1>1, <1>3 DEF WriteFails, Basic, LedgerTypeOK
<1>5. /\ live' \in SUBSET Rows /\ raw' \in SUBSET Uploads
      /\ \/ live' = live /\ raw' = raw
         \/ raw' = raw \cup {u}
  BY <1>1, <1>3 DEF WriteFails, WriteLive, Basic, LedgerTypeOK
<1>6. LedgerTypeOK'
  BY <1>1, <1>2, <1>4, <1>5 DEF Basic, LedgerTypeOK, Moves, UploadType, Views, Onward
<1>7. upload'[u].written < Batches
  BY <1>2, LedgerAssumption
<1>8. UploadShape' /\ LateIsFailed'
  BY <1>1, <1>2, <1>4, <1>7, MoveKeepsShape DEF Early
<1>9. FullCount'
  BY <1>1, <1>5 DEF FullCount, Basic, Onward
<1>10. Staged(u)' /\ Written(u)'
  BY <1>2 DEF Staged, Written, At, Inside
<1>11. ~overlapped => Settled'
  <2>1. ~overlapped => u \in raw'
    BY <1>1, <1>5 DEF LedgerInv, Core, AloneInv, Written, At, Others
  <2> QED BY <1>2, <2>1 DEF Settled, At
<1> QED BY <1>1, <1>2, <1>6, <1>8, <1>9, <1>10, <1>11, AloneMove DEF Basic

(* A late insert lands, of an upload that has failed when it was a direct   *)
(* one.                                                                     *)
LEMMA LandKeeps ==
    ASSUME LedgerInv, Onward, NEW w \in late, Land(w) PROVE Core'
<1>1. /\ late' = late \ {w} /\ w[2] \in Rows /\ w[2][1] \in Uploads
      /\ UNCHANGED <<schema, upload, budget, overlapped, seen, copied>> /\ Basic
  BY DEF Land, LedgerInv, Core, Basic, LedgerTypeOK, Rows
<1>2. UploadShape' /\ LateIsFailed' /\ (AloneBusy => AloneBusy')
  BY <1>1 DEF Basic, UploadShape, LateIsFailed, At, AloneBusy, Busy
<1>3. CASE w[1] = "staging" /\ staging' = staging \cup {w[2]} /\ UNCHANGED <<live, raw>>
  <2>1. LedgerTypeOK' /\ FullCount'
    BY <1>1, <1>3 DEF Basic, LedgerTypeOK, FullCount, Onward
  <2>2. \A u \in Uploads : Staged(u) => Staged(u)'
    BY <1>1, <1>3 DEF Staged, At, Inside
  <2>3. AloneInv => AloneInv'
    BY <1>1, <1>2, <1>3, <2>2 DEF AloneInv, Settled, Written, At, Others, Onward
  <2> QED BY <1>1, <1>2, <2>1, <2>3 DEF LedgerInv, Core, Basic
<1>4. CASE w[1] = "live" /\ WriteLive(w[2]) /\ UNCHANGED staging
  <2> DEFINE v == w[2][1]
  <2>1. live' = live \cup {w[2]} /\ raw' = raw \cup {v} /\ upload[v].pc = "failed"
    BY <1>1, <1>4 DEF WriteLive, Basic, LateIsFailed, At
  <2>2. LedgerTypeOK' /\ FullCount'
    BY <1>1, <1>4, <2>1 DEF Basic, LedgerTypeOK, FullCount, Onward
  <2>3. ASSUME NEW u \in Uploads, Staged(u) PROVE Staged(u)'
    <3>1. ASSUME upload[u].pc \in {"deleted", "copied"}, NEW r \in live' \ seen'[u]
          PROVE  r[1] \in raw' \ {u}
      <4>1. CASE r = w[2]
        BY <2>1, <3>1, <4>1
      <4>2. CASE r \in live \ seen[u]
        BY <2>1, <2>3, <3>1, <4>2 DEF Staged
      <4> QED BY <1>1, <2>1, <3>1, <4>1, <4>2
    <3> QED BY <1>1, <1>4, <2>3, <3>1 DEF Staged, At, Inside
  <2> HIDE DEF v
  <2>4. Settled'
    BY <1>1, <2>1 DEF Settled, At
  <2>5. ASSUME NEW u \in Uploads, Written(u) PROVE Written(u)'
    <3>1. upload[u].pc \in {"writing", "cleaning"} => raw' # {u}
      BY <2>1
    <3>2. Others(u) => Others(u)'
      BY <1>1, <2>1 DEF Others, At
    <3> QED BY <1>1, <2>5, <3>1, <3>2 DEF Written, At
  <2> QED BY <1>1, <1>2, <2>2, <2>3, <2>4, <2>5 DEF LedgerInv, Core, Basic, AloneInv
<1> QED BY <1>3, <1>4 DEF Land

-----------------------------------------------------------------------------
(* Where a step of an upload leads.                                          *)

StepOf(u) == Begin(u) \/ UploadStep(u) \/ Failure(u)

(* A step of u touches nothing that is private to another upload.           *)
LEMMA OwnStep ==
    ASSUME LedgerInv, NEW u \in Uploads, StepOf(u), NEW v \in Uploads \ {u}
    PROVE  upload'[v] = upload[v] /\ seen'[v] = seen[v] /\ copied'[v] = copied[v]
<1>1. upload \in [Uploads -> UploadType] /\ Views
  BY DEF LedgerInv, Core, Basic, LedgerTypeOK, UploadType, Views
<1>2. CASE \/ Begin(u) \/ Probe(u) \/ Clear(u) \/ Clean(u) \/ SwapCount(u) \/ SwapRefused(u)
           \/ SwapDelete(u) \/ SwapCopy(u) \/ DeleteLive(u)
  BY <1>1, <1>2 DEF Begin, Probe, Clear, Clean, SwapCount, SwapRefused, SwapDelete, SwapCopy,
                    DeleteLive, Goto, Views
<1>3. CASE Stage(u) \/ Write(u) \/ SwapMissing(u) \/ SwapMisread(u)
  BY <1>1, <1>3 DEF Stage, Write, SwapMissing, SwapMisread, FallBack, Advance
<1>4. CASE ProbeFails(u) \/ ClearFails(u) \/ CleanFails(u) \/ DeleteLiveFails(u) \/ StageFails(u) \/ WriteFails(u)
  BY <1>1, <1>4 DEF ProbeFails, ClearFails, CleanFails, DeleteLiveFails, StageFails, WriteFails, Goto
<1>5. CASE SwapCommit(u) \/ SwapFails(u) \/ Die(u)
  BY <1>1, <1>5, ForgetViews DEF SwapCommit, SwapFails, Die, Goto
<1> QED BY <1>2, <1>3, <1>4, <1>5 DEF StepOf, UploadStep, Failure

(* Only the function's own steps lead into it, and only these to success.   *)
LEMMA Leads ==
    ASSUME LedgerInv, NEW u \in Uploads, StepOf(u)
    PROVE  \/ SwapCount(u) /\ upload'[u].pc = "counted"
           \/ SwapDelete(u) /\ upload'[u].pc = "deleted"
           \/ SwapCopy(u) /\ upload'[u].pc = "copied"
           \/ /\ upload'[u].pc \notin {"counted", "deleted", "copied"}
              /\ upload'[u].pc = "done" => SwapCommit(u) \/ Clean(u) \/ CleanFails(u) \/ Write(u)
<1>1. upload \in [Uploads -> UploadType] /\ Basic /\ LedgerTypeOK /\ UploadShape
  BY DEF LedgerInv, Core, Basic, LedgerTypeOK, UploadType
<1>2. \A pc : Goto(u, pc) => upload'[u].pc = pc
  BY <1>1 DEF Goto, UploadType
<1>3. CASE \/ Begin(u) \/ Probe(u) \/ Clear(u) \/ SwapRefused(u) \/ DeleteLive(u)
           \/ ProbeFails(u) \/ ClearFails(u) \/ SwapFails(u) \/ DeleteLiveFails(u)
  BY <1>2, <1>3 DEF Begin, Probe, Clear, SwapRefused, DeleteLive, ProbeFails, ClearFails, SwapFails,
                    DeleteLiveFails
<1>4. CASE SwapCount(u) \/ SwapDelete(u) \/ SwapCopy(u)
  BY <1>2, <1>4 DEF SwapCount, SwapDelete, SwapCopy
<1>5. CASE Clean(u) \/ CleanFails(u)
  BY <1>2, <1>5 DEF Clean, CleanFails, Outcome
<1>6. CASE SwapCommit(u)
  BY <1>2, <1>6 DEF SwapCommit
<1>7. CASE StageFails(u) \/ WriteFails(u) \/ Die(u)
  BY <1>1, <1>7, FailMoves DEF StageFails, WriteFails, Die, PCs
<1>8. CASE Stage(u)
  BY <1>1, <1>8, AdvanceMoves DEF Stage, At, PCs
<1>9. CASE Write(u)
  <2> DEFINE pc == IF upload[u].fallback THEN "cleaning" ELSE "done"
  <2>1. upload[u].pc = "writing" /\ Advance(u, pc) /\ pc \in {"cleaning", "done"} /\ pc \in PCs
    BY <1>9 DEF Write, At, PCs
  <2> HIDE DEF pc
  <2> QED BY <1>1, <1>9, <2>1, AdvanceMoves
<1>10. CASE SwapMissing(u) \/ SwapMisread(u)
  BY <1>1, <1>10 DEF SwapMissing, SwapMisread, FallBack, UploadType
<1> QED BY <1>3, <1>4, <1>5, <1>6, <1>7, <1>8, <1>9, <1>10 DEF StepOf, UploadStep, Failure

-----------------------------------------------------------------------------
(* The whole.                                                                *)

LEMMA CoreKeeps == ASSUME LedgerInv, LedgerNext PROVE Core'
<1>1. Onward
  BY DEF LedgerNext, Watch, Onward, LedgerInv, Core, Basic, LedgerTypeOK, Crossing
<1>2. CASE \E u \in Uploads : Begin(u) \/ UploadStep(u)
  BY <1>1, <1>2, BeginKeeps, ProbeKeeps, ClearKeeps, StageKeeps, CleanKeeps, SwapInsideKeeps, SwapCommitKeeps,
     SwapRefusedKeeps, FallBackKeeps, DeleteLiveKeeps, WriteKeeps DEF UploadStep
<1>3. CASE \E u \in Uploads : Failure(u)
  BY <1>1, <1>3, ProbeKeeps, ClearKeeps, StageFailsKeeps, CleanKeeps, SwapFailsKeeps, FallBackKeeps,
     DeleteLiveKeeps, WriteFailsKeeps, DieKeeps DEF Failure
<1>4. CASE \E w \in late : Land(w)
  BY <1>1, <1>4, LandKeeps
<1>5. CASE Migrate
  <2>1. /\ schema' \in {"none", "table", "full"}
        /\ UNCHANGED <<upload, staging, live, late, budget, raw, overlapped, seen, copied>>
    BY <1>5 DEF Migrate
  <2>2. Basic'
    BY <1>1, <2>1 DEF LedgerInv, Core, Basic, LedgerTypeOK, UploadShape, LateIsFailed, FullCount, Onward, At
  <2>3. AloneInv => AloneInv'
    BY <1>1, <2>1 DEF AloneInv, AloneBusy, Settled, Staged, Written, Others, Busy, At, Inside, Onward
  <2> QED BY <2>1, <2>2, <2>3 DEF LedgerInv, Core
<1> QED BY <1>2, <1>3, <1>4, <1>5 DEF LedgerNext

(* Unless it is crossed, a swap goes on seeing what is there.               *)
LEMMA UndisturbedKeeps == ASSUME LedgerInv, LedgerNext PROVE Undisturbed'
<1> SUFFICES ASSUME ~crossed', NEW v \in Uploads PROVE Straight(v)'
  BY DEF Undisturbed
<1>1. ~crossed /\ ~Crossing /\ Straight(v) /\ Views
  BY DEF LedgerNext, Watch, LedgerInv, Undisturbed, Core, Basic, LedgerTypeOK, Views
<1>2. ASSUME upload'[v] = upload[v], seen'[v] = seen[v], copied'[v] = copied[v] PROVE Straight(v)'
  <2>1. CASE Inside(v)
    <3>1. staging' = staging /\ live' = live
      BY <1>1, <1>2, <2>1 DEF Crossing
    <3> QED BY <1>1, <1>2, <3>1 DEF Straight, Inside, At, Complete
  <2>2. CASE ~Inside(v)
    BY <1>2, <2>2 DEF Straight, Inside, At
  <2> QED BY <2>1, <2>2
<1>3. CASE StepOf(v)
  <2>1. CASE SwapCount(v) /\ upload'[v].pc = "counted"
    BY <2>1 DEF SwapCount, Straight, Inside, At, Complete
  <2>2. CASE SwapDelete(v) /\ upload'[v].pc = "deleted"
    <3>1. Complete /\ UNCHANGED <<staging, live>> /\ seen'[v] = live
      BY <1>1, <2>2 DEF SwapDelete, Straight, Inside, At, Views
    <3> QED BY <2>2, <3>1 DEF Straight, Inside, At, Complete
  <2>3. CASE SwapCopy(v) /\ upload'[v].pc = "copied"
    <3>1. /\ Complete /\ UNCHANGED <<staging, live, seen>> /\ copied'[v] = staging /\ seen[v] = live
      BY <1>1, <2>3 DEF SwapCopy, Straight, Inside, At, Views
    <3> QED BY <2>3, <3>1 DEF Straight, Inside, At, Complete
  <2>4. CASE upload'[v].pc \notin {"counted", "deleted", "copied"}
    BY <2>4 DEF Straight, Inside, At
  <2> QED BY <1>3, <2>1, <2>2, <2>3, <2>4, Leads
<1>4. CASE \E u \in Uploads \ {v} : StepOf(u)
  BY <1>2, <1>4, OwnStep
<1>5. CASE (\E w \in late : Land(w)) \/ Migrate
  BY <1>2, <1>5 DEF Land, Migrate
<1> QED BY <1>3, <1>4, <1>5 DEF LedgerNext, StepOf

LEMMA StepKeeps == LedgerInv /\ [LedgerNext]_vars => LedgerInv'
<1>1. LedgerInv /\ LedgerNext => LedgerInv'
  BY CoreKeeps, UndisturbedKeeps DEF LedgerInv
<1>2. LedgerInv /\ UNCHANGED vars => LedgerInv'
  <2> SUFFICES ASSUME LedgerInv, UNCHANGED vars PROVE LedgerInv'
    OBVIOUS
  <2>1. Basic'
    BY DEF vars, LedgerInv, Core, Basic, LedgerTypeOK, UploadShape, LateIsFailed, FullCount, At
  <2>2. AloneInv => AloneInv'
    BY DEF vars, AloneInv, AloneBusy, Settled, Staged, Written, Others, Busy, At, Inside
  <2>3. Undisturbed'
    BY DEF vars, LedgerInv, Undisturbed, Straight, Inside, At, Complete
  <2> QED BY <2>1, <2>2, <2>3 DEF vars, LedgerInv, Core
<1> QED BY <1>1, <1>2

LEMMA LedgerInvariant == LedgerSpec => []LedgerInv
BY InvInit, StepKeeps, PTL DEF LedgerSpec

(* The tables and uploads keep their types.                                 *)
THEOREM LedgerTypeCorrect == LedgerSpec => []LedgerTypeOK
<1>1. LedgerInv => LedgerTypeOK
  BY DEF LedgerInv, Core, Basic
<1> QED BY <1>1, LedgerInvariant, PTL

(* One upload at a time: the ledger is always one whole file, except while  *)
(* or after a direct write goes wrong, or when a late insert lands inside   *)
(* the function.  (asset/router.py 121-180)                                 *)
THEOREM NeverPartial == LedgerSpec => []WholeLedger
<1>1. LedgerInv => WholeLedger
  BY DEF LedgerInv, Core, AloneInv, Settled, WholeLedger
<1> QED BY <1>1, LedgerInvariant, PTL

(* Any number of uploads at once, filling, clearing and swapping one stage: *)
(* while no call takes effect inside a running swap, the swap alone never   *)
(* leaves fewer or more rows than a file.  (migration 300 74-93)            *)
THEOREM NeverShort == LedgerSpec => []FullCount
<1>1. LedgerInv => FullCount
  BY DEF LedgerInv, Core, Basic
<1> QED BY <1>1, LedgerInvariant, PTL

(* Success means the file is in place, though another call took effect      *)
(* inside the swap.  (asset/router.py 165-180)                              *)
THEOREM SuccessMeansLive == LedgerSpec => SuccessIsLive
<1> DEFINE Lives(u) == Busy(u) /\ upload'[u].pc = "done" /\ ~overlapped /\ raw' \subseteq {u}
                          => live' = Whole(u)
<1>1. ASSUME LedgerInv, [LedgerNext]_vars PROVE [\A u \in Uploads : Lives(u)]_vars
  <2> SUFFICES ASSUME LedgerNext, NEW u \in Uploads, Busy(u), upload'[u].pc = "done", ~overlapped,
                      raw' \subseteq {u}
               PROVE  live' = Whole(u)
    BY <1>1
  <2>1. Onward
    BY <1>1 DEF LedgerNext, Watch, Onward, LedgerInv, Core, Basic, LedgerTypeOK, Crossing
  <2>2. upload'[u] # upload[u]
    BY DEF Busy
  <2>3. StepOf(u)
    <3>1. ~(\E w \in late : Land(w)) /\ ~Migrate
      BY <2>2 DEF Land, Migrate
    <3> QED BY <1>1, <2>2, <3>1, OwnStep DEF LedgerNext, StepOf
  <2>4. SwapCommit(u) \/ Clean(u) \/ CleanFails(u) \/ Write(u)
    BY <1>1, <2>3, Leads
  <2> QED BY <1>1, <2>1, <2>4, SwapCommitKeeps, CleanKeeps, WriteKeeps
<1> QED BY <1>1, LedgerInvariant, PTL DEF LedgerSpec, SuccessIsLive

=============================================================================
