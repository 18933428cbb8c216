------------------------------- MODULE UsageFlush -------------------------------
(***************************************************************************)
(* The per-module usage counters and their flusher.  Each backend process  *)
(* counts the calls it serves in memory; a tick drains the counters and    *)
(* folds them into one shared table by an additive RPC; a failed RPC puts  *)
(* them back; a graceful stop flushes once more; a crash takes what is in  *)
(* memory along.                                                           *)
(*                                                                         *)
(* A counter is the set of the calls it counts: the number in a row is the *)
(* number of its calls, so draining and merging are operations on sets,    *)
(* and the table holds how often each call has been added to its row.      *)
(***************************************************************************)
EXTENDS Integers

CONSTANTS Calls,      \* the requests that are counted
          Processes,  \* the processes of the backend
          Mishaps     \* bound on crashes and failing RPCs

ASSUME MeterAssumption == Mishaps \in Nat

VARIABLES life,     \* of each process
          pending,  \* the accumulator of each process
          flush,    \* the flush threads of each process, of the tick and of stop()
          billed,   \* how often each call has been added to the table
          budget,
          counted,  \* calls that were counted
          unsure,   \* calls in an RPC that committed while its caller saw it fail
          swallowed,\* calls of a row the RPC passed over and reported as done
          lost      \* calls that went down with the memory of a process

vars == <<life, pending, flush, billed, budget, counted, unsure, swallowed, lost>>

Flushers == {"tick", "stop"}

Idle == [pc |-> "idle", batch |-> {}]

MeterTypeOK ==
    /\ life \in [Processes -> {"up", "stopping", "down"}]
    /\ pending \in [Processes -> SUBSET Calls]
    /\ flush \in [Processes -> [Flushers -> [pc : {"idle", "due", "writing", "failed"}, batch : SUBSET Calls]]]
    /\ billed \in [Calls -> Nat]
    /\ budget \in Nat
    /\ counted \in SUBSET Calls
    /\ unsure \in SUBSET Calls
    /\ swallowed \in SUBSET Calls
    /\ lost \in SUBSET Calls

MeterInit ==
    /\ life = [p \in Processes |-> "up"]
    /\ pending = [p \in Processes |-> {}]
    /\ flush = [p \in Processes |-> [f \in Flushers |-> Idle]]
    /\ billed = [c \in Calls |-> 0]
    /\ budget = Mishaps
    /\ counted = {}
    /\ unsure = {}
    /\ swallowed = {}
    /\ lost = {}

Mishap == budget > 0 /\ budget' = budget - 1

(* UsageAccumulator.add, by the access log of a request.                    *)
Add(p, c) ==
    /\ life[p] = "up"
    /\ c \notin counted
    /\ counted' = counted \cup {c}
    /\ pending' = [pending EXCEPT ![p] = @ \cup {c}]
    /\ UNCHANGED <<life, flush, billed, budget, unsure, swallowed, lost>>

(* The tick of _loop finds counters and hands flush_now to a thread.        *)
Tick(p) ==
    /\ life[p] = "up"
    /\ flush[p]["tick"].pc = "idle"
    /\ pending[p] # {}
    /\ flush' = [flush EXCEPT ![p]["tick"].pc = "due"]
    /\ UNCHANGED <<life, pending, billed, budget, counted, unsure, swallowed, lost>>

(* drain: the accumulator is swapped out; of nothing, nothing is written.   *)
Drain(p, f) ==
    /\ flush[p][f].pc = "due"
    /\ flush' = [flush EXCEPT ![p][f] =
          IF pending[p] = {} THEN Idle ELSE [pc |-> "writing", batch |-> pending[p]]]
    /\ pending' = [pending EXCEPT ![p] = {}]
    /\ UNCHANGED <<life, billed, budget, counted, unsure, swallowed, lost>>

(* Mutant: the RPC assigns the counters instead of adding to them.          *)
BumpAssigns(batch) == [c \in Calls |-> IF c \in batch THEN 1 ELSE 0]

(* bump_module_usage: calls = calls + excluded.calls.                       *)
Bump(batch) == [c \in Calls |-> IF c \in batch THEN billed[c] + 1 ELSE billed[c]]

(* The RPC passes over a row it finds malformed or cannot insert, and says   *)
(* nothing; the flusher does not look at how many rows it took.             *)
Write(p, f) ==
    /\ flush[p][f].pc = "writing"
    /\ \E taken \in SUBSET flush[p][f].batch :
          /\ billed' = Bump(taken)
          /\ swallowed' = swallowed \cup (flush[p][f].batch \ taken)
    /\ flush' = [flush EXCEPT ![p][f] = Idle]
    /\ UNCHANGED <<life, pending, budget, counted, unsure, lost>>

(* The RPC raises, and has committed the rows it took or none.              *)
RpcFails(p, f) ==
    /\ Mishap
    /\ flush[p][f].pc = "writing"
    /\ \E taken \in SUBSET flush[p][f].batch :
          /\ billed' = Bump(taken)
          /\ unsure' = unsure \cup taken
    /\ flush' = [flush EXCEPT ![p][f].pc = "failed"]
    /\ UNCHANGED <<life, pending, counted, swallowed, lost>>

(* Mutant: the batch is put back and written again at once.                 *)
RestoreAndKeep(p, f) ==
    /\ flush[p][f].pc = "failed"
    /\ pending' = [pending EXCEPT ![p] = @ \cup flush[p][f].batch]
    /\ flush' = [flush EXCEPT ![p][f].pc = "writing"]
    /\ UNCHANGED <<life, billed, budget, counted, unsure, swallowed, lost>>

(* Mutant: the counters are put back and the flush is never done.           *)
RestoreAndHang(p, f) ==
    /\ flush[p][f].pc = "failed"
    /\ pending' = [pending EXCEPT ![p] = @ \cup flush[p][f].batch]
    /\ flush' = [flush EXCEPT ![p][f].batch = {}]
    /\ UNCHANGED <<life, billed, budget, counted, unsure, swallowed, lost>>

(* restore: merged with what was counted meanwhile, whatever the failure.   *)
Restore(p, f) ==
    /\ flush[p][f].pc = "failed"
    /\ pending' = [pending EXCEPT ![p] = @ \cup flush[p][f].batch]
    /\ flush' = [flush EXCEPT ![p][f] = Idle]
    /\ UNCHANGED <<life, billed, budget, counted, unsure, swallowed, lost>>

(* Mutant: the flush of stop() is left out while the tick's is running.     *)
StopSkipping(p) ==
    /\ life[p] = "up"
    /\ life' = [life EXCEPT ![p] = "stopping"]
    /\ flush' = [flush EXCEPT ![p]["stop"].pc = IF flush[p]["tick"].pc = "idle" THEN "due" ELSE "idle"]
    /\ UNCHANGED <<pending, billed, budget, counted, unsure, swallowed, lost>>

(* stop: the loop is cancelled, and with it a flush still waiting for its   *)
(* thread, but not one that is running; then stop() flushes itself.         *)
Stop(p) ==
    /\ life[p] = "up"
    /\ life' = [life EXCEPT ![p] = "stopping"]
    /\ \E waiting \in {"idle", "due"} :
          flush' = [flush EXCEPT ![p] = [f \in Flushers |-> [flush[p][f] EXCEPT !.pc =
             IF f = "stop" THEN "due" ELSE IF flush[p][f].pc = "due" THEN waiting ELSE flush[p][f].pc]]]
    /\ UNCHANGED <<pending, billed, budget, counted, unsure, swallowed, lost>>

(* The process ends when its threads have.                                  *)
Exit(p) ==
    /\ life[p] = "stopping"
    /\ \A f \in Flushers : flush[p][f].pc = "idle"
    /\ life' = [life EXCEPT ![p] = "down"]
    /\ pending' = [pending EXCEPT ![p] = {}]
    /\ lost' = lost \cup pending[p]
    /\ UNCHANGED <<flush, billed, budget, counted, unsure, swallowed>>

(* A crash: an RPC on its way commits or not.                               *)
Crash(p) ==
    /\ Mishap
    /\ life[p] # "down"
    /\ life' = [life EXCEPT ![p] = "down"]
    /\ \E taken \in SUBSET UNION {flush[p][f].batch : f \in {g \in Flushers : flush[p][g].pc = "writing"}} :
          billed' = Bump(taken)
    /\ lost' = lost \cup pending[p] \cup UNION {flush[p][f].batch : f \in Flushers}
    /\ pending' = [pending EXCEPT ![p] = {}]
    /\ flush' = [flush EXCEPT ![p] = [f \in Flushers |-> Idle]]
    /\ UNCHANGED <<counted, unsure, swallowed>>

Boot(p) ==
    /\ life[p] = "down"
    /\ life' = [life EXCEPT ![p] = "up"]
    /\ UNCHANGED <<pending, flush, billed, budget, counted, unsure, swallowed, lost>>

FlushStep(p, f) == Drain(p, f) \/ Write(p, f) \/ Restore(p, f)

MeterNext ==
    \E p \in Processes :
        \/ \E c \in Calls : Add(p, c)
        \/ \E f \in Flushers : FlushStep(p, f) \/ RpcFails(p, f)
        \/ Tick(p) \/ Stop(p) \/ Exit(p) \/ Crash(p) \/ Boot(p)

MeterSpec == MeterInit /\ [][MeterNext]_vars

(* The loop goes on ticking, threads run, and a stop comes to its end.      *)
MeterFairness ==
    \A p \in Processes :
        /\ WF_vars(Tick(p)) /\ WF_vars(Exit(p))
        /\ \A f \in Flushers : WF_vars(FlushStep(p, f))

FairMeterSpec == MeterSpec /\ MeterFairness

-----------------------------------------------------------------------------
(* Where a call is, in memory: the accumulator of a process or one of its   *)
(* flush threads.                                                           *)
Places == Processes \X (Flushers \cup {"pending"})
In(place, c) == IF place[2] = "pending" THEN c \in pending[place[1]] ELSE c \in flush[place[1]][place[2]].batch
Held(c) == \E place \in Places : In(place, c)

Calm == budget = Mishaps

(* A counted call reaches the table, or is still in memory, or went down    *)
(* with a process, or was in a row the RPC passed over (migration 974,      *)
(* 107-109 and 129-131): nothing else, no interleaving of counting,         *)
(* flushing, failing, stopping and of several processes, drops it.          *)
(* (usage_flush.py 18-24)                                                   *)
CountedIsAccounted == \A c \in counted : billed[c] > 0 \/ Held(c) \/ c \in swallowed \cup lost

(* A call is in one place only and is never added to the table a second     *)
(* time, unless an RPC committed whose caller saw it fail.                  *)
(* (usage_flush.py 52-61, module_usage.py 223-241)                          *)
OnePlaceUnlessUnsure ==
    \A c \in Calls \ unsure :
        /\ billed[c] <= 1
        /\ billed[c] = 1 => ~Held(c)
        /\ \A a, b \in Places : In(a, c) /\ In(b, c) => a = b

(* A graceful stop drops nothing from memory when no call fails: neither    *)
(* what is counted while a flush is running nor what that flush holds.      *)
(* (usage_flush.py 126-137)                                                 *)
StopLosesNothing == Calm => lost = {}

(* A call that is counted is handed to the RPC in the end and reaches the   *)
(* table, unless the RPC passes its row over or the process that holds it   *)
(* ends first: a failed flush is tried again, however often it fails.       *)
(* (usage_flush.py 18-21 and 90-103)                                        *)
CountsReachTheTable ==
    \A c \in Calls : c \in counted ~> billed[c] > 0 \/ c \in swallowed \cup lost

=============================================================================
