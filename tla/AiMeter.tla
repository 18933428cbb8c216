-------------------------------- MODULE AiMeter --------------------------------
(***************************************************************************)
(* The AI usage buffer of one backend process and the budget guard that    *)
(* counts on it.  A guarded call is decided on the stored audit rows and   *)
(* the buffered ones, is made, and is then audited through the buffer;     *)
(* features record calls through the same buffer, some of them a guarded   *)
(* call that is audited as well.  Flush threads drain it and insert the    *)
(* rows, one batch per column set; what fails is put back as far as there  *)
(* is room.                                                                *)
(*                                                                         *)
(* One organisation and one purpose, every row within the last hour.  The  *)
(* buffer is the set of its rows: which of them are kept when it is full   *)
(* is left open.  A flush may start whenever there is something to drain,  *)
(* which is when dispatch or the tick starts one to any effect.            *)
(***************************************************************************)
EXTENDS Integers, FiniteSets

CONSTANTS Attempts,    \* the guarded calls; each has one audit row
          Features,    \* what features record; one row each
          Echoes,      \* which of these rows record which guarded call
          Threads,     \* threads a flush may run on
          MaxPending,  \* the ceiling of the buffer
          MaxCalls,    \* the cap of the guard
          Mishaps      \* bound on crashes and failing calls

ASSUME AiAssumption ==
    /\ IsFiniteSet(Attempts) /\ IsFiniteSet(Features)
    /\ Attempts \cap Features = {}
    /\ Echoes \subseteq Features \X Attempts
    /\ {MaxPending, MaxCalls, Mishaps} \subseteq Nat

VARIABLES attempt, recorded, buffer, flush, table, dropped, budget,
          unsure,  \* rows of an insert that committed while its caller saw it fail
          lost     \* rows that went down with the process

vars == <<attempt, recorded, buffer, flush, table, dropped, budget, unsure, lost>>

Rows == Attempts \cup Features

(* The column sets: the guard's audit row has columns the meter's has not.  *)
Shapes == {Attempts, Features}

IdleFlush == [pc |-> "idle", rows |-> {}, failed |-> {}]

Nothing == [r \in Rows |-> 0]

AiTypeOK ==
    /\ attempt \in [Attempts -> [pc : {"idle", "looking", "spending", "refused", "done", "gone"},
                                 seen : [Rows -> Nat], allow : BOOLEAN,
                                 ahead : SUBSET Attempts, alone : BOOLEAN]]
    /\ recorded \in SUBSET Features
    /\ buffer \in SUBSET Rows /\ Cardinality(buffer) <= MaxPending
    /\ flush \in [Threads -> [pc : {"idle", "writing", "restoring"}, rows : SUBSET Rows, failed : SUBSET Rows]]
    /\ table \in [Rows -> Nat]
    /\ dropped \in Nat /\ budget \in Nat
    /\ unsure \in SUBSET Rows
    /\ lost \in SUBSET Rows

AiInit ==
    /\ attempt = [a \in Attempts |-> [pc |-> "idle", seen |-> Nothing, allow |-> FALSE,
                                      ahead |-> {}, alone |-> FALSE]]
    /\ recorded = {}
    /\ buffer = {}
    /\ flush = [t \in Threads |-> IdleFlush]
    /\ table = [r \in Rows |-> 0]
    /\ dropped = 0
    /\ budget = Mishaps
    /\ unsure = {}
    /\ lost = {}

Mishap == budget > 0 /\ budget' = budget - 1
Calm == budget = Mishaps

Allowed == {a \in Attempts : attempt[a].allow}
Spending == {a \in Attempts : attempt[a].pc = "spending"}
EchoesOf(a) == {f \in Features : <<f, a>> \in Echoes}

(* What rollup_usage counts: allowed rows of the purpose, the second row of *)
(* a call no less than its first.                                           *)
Counted == Allowed \cup UNION {EchoesOf(a) : a \in Attempts}

-----------------------------------------------------------------------------
(* The guard.                                                               *)

(* Nobody else is between a decision and its audit row, nothing failed and  *)
(* nothing was dropped: what a look at both places has a right to find.     *)
Quiet == Spending = {} /\ Calm /\ dropped = 0

(* recent_rows reads the table, ...                                         *)
Look(a) ==
    /\ attempt[a].pc = "idle"
    /\ attempt' = [attempt EXCEPT
          ![a].pc = "looking",
          ![a].seen = [r \in Rows |-> IF r \in Counted THEN table[r] ELSE 0],
          ![a].alone = Quiet /\ \A t \in Threads : flush[t].pc = "idle"]
    /\ UNCHANGED <<recorded, buffer, flush, table, dropped, budget, unsure, lost>>

(* ... nothing when the read fails, ...                                     *)
LookFails(a) ==
    /\ Mishap
    /\ attempt[a].pc = "idle"
    /\ attempt' = [attempt EXCEPT ![a].pc = "looking"]
    /\ UNCHANGED <<recorded, buffer, flush, table, dropped, unsure, lost>>

(* The stored rows a look found, each as often as it is stored.             *)
Found(a) == UNION {{r} \X (1 .. attempt[a].seen[r]) : r \in Rows}

(* Mutant: the buffered rows are not counted.                               *)
StoredCalls(a) == Cardinality(Found(a))

(* ... and adds the buffered rows.                                          *)
RecentCalls(a) == Cardinality(Found(a)) + Cardinality(buffer \cap Counted)

(* ai_guard_decision, on what was seen.                                     *)
Decide(a) ==
    /\ attempt[a].pc = "looking"
    /\ LET allow == RecentCalls(a) < MaxCalls
       IN attempt' = [attempt EXCEPT
             ![a].pc = IF allow THEN "spending" ELSE "refused",
             ![a].allow = allow,
             ![a].seen = Nothing,
             ![a].ahead = IF allow THEN Allowed ELSE {},
             ![a].alone = allow /\ attempt[a].alone /\ Quiet]
    /\ UNCHANGED <<recorded, buffer, flush, table, dropped, budget, unsure, lost>>

(* enqueue: a row that finds the buffer full is dropped, and counted.       *)
Enqueue(r) ==
    IF Cardinality(buffer) >= MaxPending
    THEN dropped' = dropped + 1 /\ UNCHANGED buffer
    ELSE buffer' = buffer \cup {r} /\ UNCHANGED dropped

(* audit, once the call is made or refused.                                 *)
Audit(a) ==
    /\ attempt[a].pc \in {"spending", "refused"}
    /\ Enqueue(a)
    /\ attempt' = [attempt EXCEPT ![a].pc = "done"]
    /\ UNCHANGED <<recorded, flush, table, budget, unsure, lost>>

(* record, by a feature; the second row of a guarded call is recorded as    *)
(* the model has answered, before the audit.                                *)
Record(f) ==
    /\ f \in Features \ recorded
    /\ \A a \in Attempts : f \in EchoesOf(a) => a \in Spending
    /\ Enqueue(f)
    /\ recorded' = recorded \cup {f}
    /\ UNCHANGED <<attempt, flush, table, budget, unsure, lost>>

-----------------------------------------------------------------------------
(* flush_now, on any thread.                                                *)

(* Mutant: the buffer is copied and not emptied.                            *)
DrainCopying(t) ==
    /\ flush[t].pc = "idle"
    /\ buffer # {}
    /\ flush' = [flush EXCEPT ![t] = [IdleFlush EXCEPT !.pc = "writing", !.rows = buffer]]
    /\ UNCHANGED <<attempt, recorded, buffer, table, dropped, budget, unsure, lost>>

(* drain: a call that is looking meanwhile is disturbed.                    *)
Drain(t) ==
    /\ flush[t].pc = "idle"
    /\ buffer # {}
    /\ flush' = [flush EXCEPT ![t] = [IdleFlush EXCEPT !.pc = "writing", !.rows = buffer]]
    /\ buffer' = {}
    /\ attempt' = [a \in Attempts |->
          IF attempt[a].pc = "looking" THEN [attempt[a] EXCEPT !.alone = FALSE] ELSE attempt[a]]
    /\ UNCHANGED <<recorded, table, dropped, budget, unsure, lost>>

(* No client: everything is put back.                                       *)
NoClient(t) ==
    /\ Mishap
    /\ flush[t].pc = "writing"
    /\ flush[t].failed = {}
    /\ flush' = [flush EXCEPT ![t] = [pc |-> "restoring", rows |-> {}, failed |-> flush[t].rows]]
    /\ UNCHANGED <<attempt, recorded, buffer, table, dropped, unsure, lost>>

(* Where a flush stands with these rows to insert and these that failed.    *)
Goto(rows, failed) ==
    [pc |-> IF rows # {} THEN "writing" ELSE IF failed # {} THEN "restoring" ELSE "idle",
     rows |-> rows, failed |-> failed]

Inserted(batch) == [r \in Rows |-> IF r \in batch THEN table[r] + 1 ELSE table[r]]

(* One insert per column set.                                               *)
Insert(t, shape) ==
    LET batch == flush[t].rows \cap shape
    IN /\ flush[t].pc = "writing"
       /\ batch # {}
       /\ table' = Inserted(batch)
       /\ flush' = [flush EXCEPT ![t] = Goto(flush[t].rows \ batch, flush[t].failed)]
       /\ UNCHANGED <<attempt, recorded, buffer, dropped, budget, unsure, lost>>

(* Mutant: a batch that fails is not kept for the restore.                  *)
InsertFailsForgetting(t, shape) ==
    LET batch == flush[t].rows \cap shape
    IN /\ Mishap
       /\ flush[t].pc = "writing"
       /\ batch # {}
       /\ flush' = [flush EXCEPT ![t] = Goto(flush[t].rows \ batch, flush[t].failed)]
       /\ UNCHANGED <<attempt, recorded, buffer, dropped, lost, table, unsure>>

(* The insert raises, and has committed or not.                             *)
InsertFails(t, shape) ==
    LET batch == flush[t].rows \cap shape
    IN /\ Mishap
       /\ flush[t].pc = "writing"
       /\ batch # {}
       /\ \/ UNCHANGED <<table, unsure>>
          \/ table' = Inserted(batch) /\ unsure' = unsure \cup batch
       /\ flush' = [flush EXCEPT ![t] = Goto(flush[t].rows \ batch, flush[t].failed \cup batch)]
       /\ UNCHANGED <<attempt, recorded, buffer, dropped, lost>>

Room == MaxPending - Cardinality(buffer)

(* Mutant: what there is no room for goes uncounted.                        *)
RestoreSilently(t) ==
    LET failed == flush[t].failed
    IN /\ flush[t].pc = "restoring"
       /\ \E keep \in SUBSET failed :
             /\ \/ keep = failed /\ Cardinality(keep) <= Room
                \/ Cardinality(keep) = Room /\ Room < Cardinality(failed)
             /\ buffer' = buffer \cup keep
       /\ flush' = [flush EXCEPT ![t] = IdleFlush]
       /\ UNCHANGED <<attempt, recorded, table, dropped, budget, unsure, lost>>

(* restore: as many rows as there is room for; the rest is counted.         *)
Restore(t) ==
    LET failed == flush[t].failed
    IN /\ flush[t].pc = "restoring"
       /\ \E keep \in SUBSET failed :
             /\ \/ keep = failed /\ Cardinality(keep) <= Room
                \/ Cardinality(keep) = Room /\ Room < Cardinality(failed)
             /\ buffer' = buffer \cup keep
             /\ dropped' = dropped + Cardinality(failed) - Cardinality(keep)
       /\ flush' = [flush EXCEPT ![t] = IdleFlush]
       /\ UNCHANGED <<attempt, recorded, table, budget, unsure, lost>>

-----------------------------------------------------------------------------
Hands(t) == flush[t].rows \cup flush[t].failed

(* Rows that were handed over, and those in the hands of a flush.           *)
Offered == recorded \cup {a \in Attempts : attempt[a].pc = "done"}
InFlight == UNION {Hands(t) : t \in Threads}

(* Handed over, and neither stored nor on the way.                          *)
Missing == {r \in Offered \ (buffer \cup InFlight \cup lost) : table[r] = 0}

(* The process dies and boots: its buffer, its flushes (an insert on its    *)
(* way commits or not), its calls and its count of dropped rows are gone.   *)
Crash ==
    /\ Mishap
    /\ \E arrived \in SUBSET {t \in Threads : flush[t].pc = "writing"} :
          \E batch \in [arrived -> Shapes] :
             table' = Inserted(UNION {flush[t].rows \cap batch[t] : t \in arrived})
    /\ lost' = lost \cup buffer \cup InFlight \cup Missing
    /\ attempt' = [a \in Attempts |->
          IF attempt[a].pc \in {"looking", "spending", "refused"}
          THEN [attempt[a] EXCEPT !.pc = "gone"] ELSE attempt[a]]
    /\ buffer' = {}
    /\ flush' = [t \in Threads |-> IdleFlush]
    /\ dropped' = 0
    /\ UNCHANGED <<recorded, unsure>>

FlushStep(t) == Restore(t) \/ \E shape \in Shapes : Insert(t, shape)

AiNext ==
    \/ \E a \in Attempts : Look(a) \/ LookFails(a) \/ Decide(a) \/ Audit(a)
    \/ \E f \in Features : Record(f)
    \/ \E t \in Threads :
          \/ Drain(t) \/ NoClient(t) \/ FlushStep(t)
          \/ \E shape \in Shapes : InsertFails(t, shape)
    \/ Crash

AiSpec == AiInit /\ [][AiNext]_vars

(* A flush that has started ends, and the tick starts one on a free thread. *)
AiFairness ==
    /\ \A t \in Threads : WF_vars(FlushStep(t))
    /\ WF_vars(\E t \in Threads : Drain(t))

FairAiSpec == AiSpec /\ AiFairness

-----------------------------------------------------------------------------
(* No row that was handed over disappears uncounted: those neither stored   *)
(* nor on the way, beyond what a crash took, are no more than the counter   *)
(* of dropped rows says.  (ai_meter.py 55-60, 142-166, 203-212)             *)
DropsAreCounted == Cardinality(Missing) <= dropped

(* A row is stored once and is then nowhere else, unless an insert          *)
(* committed whose caller saw it fail: no two flush threads hold the same   *)
(* row, and a batch that succeeded is not restored with one that failed.    *)
(* (ai_meter.py 196-245)                                                    *)
StoredOnceUnlessUnsure ==
    \A r \in Rows \ unsure :
        /\ table[r] <= 1
        /\ table[r] = 1 => r \notin buffer \cup InFlight
        /\ \A t \in Threads : r \in Hands(t) =>
              /\ r \notin buffer
              /\ \A u \in Threads \ {t} : r \notin Hands(u)

(* A call that is allowed while nothing disturbs its look -- no flush       *)
(* running or started, no other call between its decision and its audit,    *)
(* no failure, no drop -- never goes beyond the cap: the buffered rows      *)
(* count.  (ai_gate.py 121-159, control_box.py 862-871)                     *)
QuietCallKeepsTheCap ==
    \A a \in Attempts :
        attempt[a].allow /\ attempt[a].alone => Cardinality(attempt[a].ahead) < MaxCalls

(* A row that is accepted is stored in the end, however often its flush     *)
(* fails, unless the process dies or rows had to be dropped.                *)
(* (ai_meter.py 52-59)                                                      *)
RowsReachTheTable ==
    \A r \in Rows : r \in buffer \cup InFlight ~> table[r] > 0 \/ r \in lost \/ dropped > 0

=============================================================================
