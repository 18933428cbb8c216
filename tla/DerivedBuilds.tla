----------------------------- MODULE DerivedBuilds -----------------------------
(***************************************************************************)
(* One org-scoped derived build: the appeal-recovery ledger, a stored      *)
(* snapshot deleted and re-inserted in batches.  Landers queue a request   *)
(* on its row, poller threads claim and run it, a person may press         *)
(* Rebuild.  A per-process set keeps two threads of one process apart;     *)
(* the claim is all there is between processes.                            *)
(*                                                                         *)
(* When a request becomes due is the debounce of AutoCalc; here any        *)
(* pending request may be found due.  The list of what landed, which only  *)
(* the debounce and the report read, is left out: a request is its time.   *)
(***************************************************************************)
EXTENDS Integers, FiniteSets

CONSTANTS Landings,   \* the landings in tables the build reads
          Threads,    \* the threads that poll or serve a press of Rebuild
          Processes,  \* the processes of the backend
          Homes,      \* the deployments considered: the process of each thread
          Parts,      \* the number of insert batches of a build
          Horizon,    \* bound on the clock
          Presses,    \* bound on the presses of Rebuild
          Mishaps     \* bound on deaths, failing calls and switch flips

ASSUME BuildsAssumption ==
    /\ Homes \subseteq [Threads -> Processes]
    /\ Parts \in Nat \ {0}
    /\ {Horizon, Presses, Mishaps} \subseteq Nat

VARIABLES home,      \* the process of each thread; never changes
          now, data, request, lander, builder, running, ledger, on, presses, budget,
          answered,  \* landings whose build ended, or was waived by the switch
          built      \* landings read by a build that wrote all its batches

vars == <<home, now, data, request, lander, builder, running, ledger, on, presses, budget, answered, built>>

NoTime == -1
Pending == request # NoTime
Row(b, i, s) == [by |-> b, part |-> i, saw |-> s]
Rows == [by : Threads, part : 1..Parts, saw : SUBSET Landings]

BuildTypeOK ==
    /\ home \in [Threads -> Processes]
    /\ now \in Nat
    /\ data \in SUBSET Landings
    /\ request \in Nat \cup {NoTime}
    /\ lander \in [Landings -> [pc : {"idle", "written", "hooked", "queued", "off", "failed"}, time : Nat]]
    /\ builder \in [Threads -> [pc : {"idle", "due", "claimed", "requeue", "started", "read", "inserting",
                                       "ended", "failed", "dead"},
                                 time : Nat, on : BOOLEAN, press : BOOLEAN, covers : SUBSET Landings,
                                 saw : SUBSET Landings, part : 1..Parts]]
    /\ running \in SUBSET Processes
    /\ ledger \in SUBSET Rows
    /\ on \in BOOLEAN
    /\ {presses, budget} \subseteq Nat
    /\ answered \in SUBSET Landings
    /\ built \in SUBSET Landings

InitialBuilder == [pc |-> "idle", time |-> 0, on |-> TRUE, press |-> FALSE,
                   covers |-> {}, saw |-> {}, part |-> 1]

BuildInit ==
    /\ home \in Homes
    /\ now = 0
    /\ data = {}
    /\ request = NoTime
    /\ lander = [l \in Landings |-> [pc |-> "idle", time |-> 0]]
    /\ builder = [t \in Threads |-> InitialBuilder]
    /\ running = {}
    /\ ledger = {}
    /\ on = TRUE
    /\ presses = Presses
    /\ budget = Mishaps
    /\ answered = {}
    /\ built = {}

Queued == {l \in Landings : lander[l].pc = "queued"}

Mishap == budget > 0 /\ budget' = budget - 1

-----------------------------------------------------------------------------
(* The landers.                                                             *)

Land(l) ==
    /\ lander[l].pc = "idle"
    /\ data' = data \cup {l}
    /\ lander' = [lander EXCEPT ![l].pc = "written"]
    /\ UNCHANGED <<home, now, request, builder, running, ledger, on, presses, budget, answered, built>>

(* landed: the clock and the switch; off is recorded, nothing is queued.    *)
Hook(l) ==
    /\ lander[l].pc = "written"
    /\ lander' = [lander EXCEPT ![l].pc = IF on THEN "hooked" ELSE "off", ![l].time = now]
    /\ UNCHANGED <<home, now, data, request, builder, running, ledger, on, presses, budget, answered, built>>

(* queue: an upsert of the landing's own clock value, after a read of the   *)
(* list of landings.                                                        *)
QueueLanding(l) ==
    /\ lander[l].pc = "hooked"
    /\ request' = lander[l].time
    /\ lander' = [lander EXCEPT ![l].pc = "queued"]
    /\ UNCHANGED <<home, now, data, builder, running, ledger, on, presses, budget, answered, built>>

(* Any of its calls raises, the upsert perhaps after it committed: the      *)
(* lander is told of an error either way.                                   *)
HookFails(l) ==
    /\ Mishap
    /\ \/ lander[l].pc = "written" /\ UNCHANGED request
       \/ lander[l].pc = "hooked" /\ request' \in {request, lander[l].time}
    /\ lander' = [lander EXCEPT ![l].pc = "failed"]
    /\ UNCHANGED <<home, now, data, builder, running, ledger, on, presses, answered, built>>

-----------------------------------------------------------------------------
(* The poller threads.                                                      *)

Scan(t) ==
    /\ builder[t].pc = "idle"
    /\ Pending
    /\ builder' = [builder EXCEPT ![t] = [InitialBuilder EXCEPT
          !.pc = "due", !.time = request, !.on = on]]
    /\ UNCHANGED <<home, now, data, request, lander, running, ledger, on, presses, budget, answered, built>>

Claimable(t) == Pending /\ request <= builder[t].time

(* claim: one conditional update; no row, no build.                         *)
Claim(t) ==
    /\ builder[t].pc = "due"
    /\ \/ /\ Claimable(t)
          /\ request' = NoTime
          /\ builder' = [builder EXCEPT ![t].pc = "claimed", ![t].covers = Queued, ![t].time = 0]
       \/ /\ ~Claimable(t)
          /\ builder' = [builder EXCEPT ![t] = InitialBuilder]
          /\ UNCHANGED request
    /\ UNCHANGED <<home, now, data, lander, running, ledger, on, presses, budget, answered, built>>

(* A claim that raises is skipped, whether or not it committed.             *)
ClaimFails(t) ==
    /\ Mishap
    /\ builder[t].pc = "due"
    /\ request' \in {request} \cup {n \in {NoTime} : Claimable(t)}
    /\ builder' = [builder EXCEPT ![t] = InitialBuilder]
    /\ UNCHANGED <<home, now, data, lander, running, ledger, on, presses, answered, built>>

(* Mutant: nothing keeps the threads of a process apart.                    *)
BusyNever(t) == FALSE

(* Another thread of this process is building.                              *)
Busy(t) == home[t] \in running

(* run_one: switched off is recorded; a thread of this process that builds  *)
(* already makes it busy; otherwise it builds.                              *)
RunOne(t) ==
    /\ builder[t].pc = "claimed"
    /\ \/ /\ ~builder[t].on
          /\ answered' = answered \cup builder[t].covers
          /\ builder' = [builder EXCEPT ![t] = InitialBuilder]
          /\ UNCHANGED running
       \/ /\ builder[t].on
          /\ Busy(t)
          /\ builder' = [builder EXCEPT ![t].pc = "requeue", ![t].time = now]
          /\ UNCHANGED <<running, answered>>
       \/ /\ builder[t].on
          /\ ~Busy(t)
          /\ running' = running \cup {home[t]}
          /\ builder' = [builder EXCEPT ![t].pc = "started"]
          /\ UNCHANGED answered
    /\ UNCHANGED <<home, now, data, request, lander, ledger, on, presses, budget, built>>

(* Mutant: busy is taken for an answer.                                     *)
QueueNothing(t) ==
    /\ builder[t].pc = "requeue"
    /\ builder' = [builder EXCEPT ![t] = InitialBuilder]
    /\ UNCHANGED <<home, now, data, request, lander, running, ledger, on, presses, budget, answered, built>>

(* Busy: the request is queued again with the time of asking, ...           *)
QueueAgain(t) ==
    /\ builder[t].pc = "requeue"
    /\ request' = builder[t].time
    /\ builder' = [builder EXCEPT ![t] = InitialBuilder]
    /\ UNCHANGED <<home, now, data, lander, running, ledger, on, presses, budget, answered, built>>

(* ... unless the call raises: the tick is over and the request is gone.    *)
RequeueFails(t) ==
    /\ Mishap
    /\ builder[t].pc = "requeue"
    /\ builder' = [builder EXCEPT ![t] = InitialBuilder]
    /\ UNCHANGED <<home, now, data, request, lander, running, ledger, on, presses, answered, built>>

(* POST /recovery/rebuild builds and asks nobody.                           *)
Press(t) ==
    /\ presses > 0
    /\ builder[t].pc = "idle"
    /\ presses' = presses - 1
    /\ builder' = [builder EXCEPT ![t].pc = "started", ![t].press = TRUE]
    /\ UNCHANGED <<home, now, data, request, lander, running, ledger, on, budget, answered, built>>

-----------------------------------------------------------------------------
(* build_recovery_ledger, by a thread or a press.                           *)

ReadInputs(t) ==
    /\ builder[t].pc = "started"
    /\ builder' = [builder EXCEPT ![t].pc = "read", ![t].saw = data]
    /\ UNCHANGED <<home, now, data, request, lander, running, ledger, on, presses, budget, answered, built>>

(* Mutant: the set is left once the old rows are gone.                      *)
DeleteAndLeave(t) ==
    /\ builder[t].pc = "read"
    /\ ledger' = {}
    /\ running' = running \ {home[t]}
    /\ builder' = [builder EXCEPT ![t].pc = "inserting", ![t].part = 1]
    /\ UNCHANGED <<home, now, data, request, lander, on, presses, budget, answered, built>>

DeleteRows(t) ==
    /\ builder[t].pc = "read"
    /\ ledger' = {}
    /\ builder' = [builder EXCEPT ![t].pc = "inserting", ![t].part = 1]
    /\ UNCHANGED <<home, now, data, request, lander, running, on, presses, budget, answered, built>>

InsertBatch(t) ==
    /\ builder[t].pc = "inserting"
    /\ ledger' = ledger \cup {Row(t, builder[t].part, builder[t].saw)}
    /\ \/ /\ builder[t].part < Parts
          /\ builder' = [builder EXCEPT ![t].part = @ + 1]
       \/ /\ builder[t].part = Parts
          /\ builder' = [builder EXCEPT ![t].pc = "ended"]
    /\ UNCHANGED <<home, now, data, request, lander, running, on, presses, budget, answered, built>>

(* Any of its calls raises, before or after it committed.                   *)
BuildFails(t) ==
    /\ Mishap
    /\ \/ builder[t].pc = "started" /\ UNCHANGED ledger
       \/ builder[t].pc = "read" /\ ledger' \in {ledger, {}}
       \/ /\ builder[t].pc = "inserting"
          /\ ledger' \in {ledger, ledger \cup {Row(t, builder[t].part, builder[t].saw)}}
    /\ builder' = [builder EXCEPT ![t].pc = "failed"]
    /\ UNCHANGED <<home, now, data, request, lander, running, on, presses, answered, built>>

(* Mutant: a build that ended stays in the set.                             *)
EndBuildStays(t) ==
    /\ builder[t].pc \in {"ended", "failed"}
    /\ answered' = answered \cup builder[t].covers
    /\ built' = IF builder[t].pc = "ended" THEN built \cup builder[t].saw ELSE built
    /\ builder' = [builder EXCEPT ![t] = InitialBuilder]
    /\ UNCHANGED <<home, now, data, request, lander, running, ledger, on, presses, budget>>

(* A poller leaves the set and records the outcome, whichever it is; nothing*)
(* is queued again.  A press answers its caller.                            *)
EndBuild(t) ==
    /\ builder[t].pc \in {"ended", "failed"}
    /\ answered' = answered \cup builder[t].covers
    /\ built' = IF builder[t].pc = "ended" THEN built \cup builder[t].saw ELSE built
    /\ running' = IF builder[t].press THEN running ELSE running \ {home[t]}
    /\ builder' = [builder EXCEPT ![t] = InitialBuilder]
    /\ UNCHANGED <<home, now, data, request, lander, ledger, on, presses, budget>>

-----------------------------------------------------------------------------
(* The rest of the world.                                                   *)

Tick ==
    /\ now < Horizon
    /\ now' = now + 1
    /\ UNCHANGED <<home, data, request, lander, builder, running, ledger, on, presses, budget, answered, built>>

Switch ==
    /\ Mishap
    /\ on' = ~on
    /\ UNCHANGED <<home, now, data, request, lander, builder, running, ledger, presses, answered, built>>

(* A process dies with its threads and its running set.                     *)
Die(q) ==
    /\ Mishap
    /\ builder' = [t \in Threads |->
          IF home[t] = q THEN [InitialBuilder EXCEPT !.pc = "dead"] ELSE builder[t]]
    /\ running' = running \ {q}
    /\ UNCHANGED <<home, now, data, request, lander, ledger, on, presses, answered, built>>

Boot(t) ==
    /\ builder[t].pc = "dead"
    /\ builder' = [builder EXCEPT ![t] = InitialBuilder]
    /\ UNCHANGED <<home, now, data, request, lander, running, ledger, on, presses, budget, answered, built>>

LanderStep(l) == Hook(l) \/ QueueLanding(l)

PollerStep(t) == Scan(t) \/ Claim(t) \/ RunOne(t) \/ QueueAgain(t)

BuildStep(t) == ReadInputs(t) \/ DeleteRows(t) \/ InsertBatch(t) \/ EndBuild(t)

BuildNext ==
    \/ \E l \in Landings : Land(l) \/ LanderStep(l) \/ HookFails(l)
    \/ \E t \in Threads :
          \/ PollerStep(t) \/ ClaimFails(t) \/ RequeueFails(t) \/ Press(t)
          \/ BuildStep(t) \/ BuildFails(t) \/ Boot(t)
    \/ \E q \in Processes : Die(q)
    \/ Tick \/ Switch

BuildsSpec == BuildInit /\ [][BuildNext]_vars

(* A lander's request runs to its end, threads poll and are booted again,   *)
(* and a build ends.                                                        *)
BuildsFairness ==
    /\ \A l \in Landings : WF_vars(LanderStep(l))
    /\ \A t \in Threads : WF_vars(PollerStep(t)) /\ WF_vars(BuildStep(t)) /\ WF_vars(Boot(t))

FairBuildsSpec == BuildsSpec /\ BuildsFairness

-----------------------------------------------------------------------------
Building(t) == builder[t].pc \in {"started", "read", "inserting", "ended", "failed"}

(* All threads are of one process and nobody has pressed Rebuild.           *)
Alone ==
    /\ \A t, u \in Threads : home[t] = home[u]
    /\ presses = Presses

Calm == budget = Mishaps

OneBuildsRows == \A r, s \in ledger : r.by = s.by /\ r.saw = s.saw

(* As long as the builds come from the threads of one process, the ledger   *)
(* never holds rows of two builds, in whatever order claims, re-queues,     *)
(* failures and restarts fall.  (derived_builds.py 355-357, 464-485;        *)
(* recovery/engine.py 175-177)                                              *)
NeverDoubled == Alone => OneBuildsRows

(* ... and no row is older than what any finished build read: an older      *)
(* build never overwrites a newer one.  (derived_builds.py 464-485)         *)
NeverOlder == Alone => \A r \in ledger : built \subseteq r.saw

(* The landing is answered, or somebody still owes it a build.              *)
Owes(t) == builder[t].pc \in {"claimed", "requeue"} \/ (Building(t) /\ ~builder[t].press)
Accounted(l) ==
    l \in answered \/ Pending \/ \E t \in Threads : Owes(t) /\ l \in builder[t].covers

(* Told "queued", a landing is forgotten only in the very step in which a   *)
(* process dies or a call of the queue fails: never by another lander, by a *)
(* thread of this process or of another, by a re-queue or by a press.       *)
(* (auto_calc.py 26-32, derived_builds.py 432-448 and 464-468)              *)
ForgottenOnlyByMishap ==
    [][\A l \in Queued' :
          (l \in Queued => Accounted(l)) => Accounted(l)' \/ budget' < budget]_vars

Promise == INSTANCE LandingPromise WITH queued <- Queued

(* Without mishaps the queue keeps the promise to the landers: told         *)
(* "queued", a landing is answered in the end, whoever else builds.         *)
QueuedIsAnswered == []Calm => Promise!Promise

=============================================================================
