------------------------------- MODULE AutoCalc -------------------------------
(***************************************************************************)
(* Auto-calculation on landing, for one (org, month): the landers that     *)
(* write rows and call the hook `landed`, the durable request on the       *)
(* calc_status row, the pollers of several processes that claim and run    *)
(* it, the Run Calculation button, the org's switch, and process deaths.   *)
(*                                                                         *)
(* The single-flight slot is the one of RecomputeGuard, here as the mutual *)
(* exclusion that module proves.                                           *)
(***************************************************************************)
EXTENDS Integers, FiniteSets

CONSTANTS Landings,   \* the landings of the month
          Pollers,    \* the pollers, one per process
          Debounce,   \* quiet window after the latest landing
          MaxWait,    \* longest wait after the oldest landing
          MaxRun,     \* longest time a live calculation holds the slot; an
                      \* older holder is presumed dead (RecomputeGuard)
          LandBy,     \* bound: the last time at which rows land and hook
          Horizon,    \* bound on the clock
          Upsets      \* bound on presses of the button, flips of the org's switch,
                      \* deaths of a process and failing calls of the queue, together

Free == "free"
Button == "button"
Workers == Pollers \cup {Button}

ASSUME AutoCalcAssumption ==
    /\ Pollers \cap {Free, Button} = {}
    /\ {Debounce, MaxWait, MaxRun, LandBy, Horizon, Upsets} \subseteq Nat

VARIABLES now, data, stored, request, lander, worker, slot, slotSince, budget, on, answered

vars == <<now, data, stored, request, lander, worker, slot, slotSince, budget, on, answered>>

NoTime == -1
Entry(l, t) == [landing |-> l, time |-> t]
Entries == [landing : Landings, time : Nat]
NoRequest == [time |-> NoTime, landings |-> {}]
Pending == request.time # NoTime

TypeOK ==
    /\ now \in Nat
    /\ data \in SUBSET Landings
    /\ stored \in [from : SUBSET Landings, whole : BOOLEAN]
    /\ request \in [time : Nat \cup {NoTime}, landings : SUBSET Entries]
    /\ lander \in [Landings -> [pc : {"idle", "written", "hooked", "read", "queued", "off", "failed"},
                                time : Nat, seen : SUBSET Entries]]
    /\ worker \in [Workers -> [pc : {"idle", "due", "claimed", "slot", "calculating",
                                     "rewriting", "stored", "busy", "requeue", "dead"},
                               time : Nat, landings : SUBSET Entries, seen : SUBSET Entries,
                               on : BOOLEAN, covers : SUBSET Landings, inputs : SUBSET Landings]]
    /\ slot \in Workers \cup {Free}
    /\ slotSince \in Nat
    /\ budget \in [upsets : Nat, mishaps : Nat]
    /\ on \in BOOLEAN
    /\ answered \in SUBSET Landings

Outside(pc) == [pc |-> pc, time |-> 0, seen |-> {}]

(* A process between its requests keeps nothing of them.                    *)
InitialWorker == [pc |-> "idle", time |-> 0, landings |-> {}, seen |-> {},
                  on |-> TRUE, covers |-> {}, inputs |-> {}]

Init ==
    /\ now = 0
    /\ data = {}
    /\ stored = [from |-> {}, whole |-> TRUE]
    /\ request = NoRequest
    /\ lander = [l \in Landings |-> Outside("idle")]
    /\ worker = [w \in Workers |-> InitialWorker]
    /\ slot = Free
    /\ slotSince = 0
    /\ budget = [upsets |-> Upsets, mishaps |-> 0]
    /\ on = TRUE
    /\ answered = {}

Queued == {l \in Landings : lander[l].pc = "queued"}

(* What happens to the queue from outside, within its bound; a mishap is a  *)
(* death or a failing call.                                                 *)
Upset(mishaps) ==
    /\ budget.upsets > 0
    /\ budget' = [upsets |-> budget.upsets - 1, mishaps |-> budget.mishaps + mishaps]

Mishap == Upset(1)

(* Nobody has died and no call has failed so far.                           *)
Unharmed == budget.mishaps = 0

-----------------------------------------------------------------------------
(* The landers.                                                             *)

(* The rows land; the hook comes after.                                     *)
Land(l) ==
    /\ lander[l].pc = "idle"
    /\ now <= LandBy
    /\ data' = data \cup {l}
    /\ lander' = [lander EXCEPT ![l].pc = "written"]
    /\ UNCHANGED <<now, stored, request, worker, slot, slotSince, budget, on, answered>>

(* landed: the clock and the org's switch are read before anything queues.  *)
Hook(l) ==
    /\ lander[l].pc = "written"
    /\ lander' = [lander EXCEPT ![l] = IF on THEN [pc |-> "hooked", time |-> now, seen |-> {}]
                                              ELSE Outside("off")]
    /\ UNCHANGED <<now, data, stored, request, worker, slot, slotSince, budget, on, answered>>

(* _queue reads the pending landings, ...                                   *)
ReadRequest(l) ==
    /\ lander[l].pc = "hooked"
    /\ lander' = [lander EXCEPT ![l].pc = "read", ![l].seen = request.landings]
    /\ UNCHANGED <<now, data, stored, request, worker, slot, slotSince, budget, on, answered>>

(* ... and upserts them with its own and its own clock value.               *)
Merged(l) == [time |-> lander[l].time,
              landings |-> lander[l].seen \cup {Entry(l, lander[l].time)}]

QueueLanding(l) ==
    /\ lander[l].pc = "read"
    /\ request' = Merged(l)
    /\ lander' = [lander EXCEPT ![l] = Outside("queued")]
    /\ UNCHANGED <<now, data, stored, worker, slot, slotSince, budget, on, answered>>

(* The hook never raises into a lander: a failure is an "error" answer, also*)
(* of an upsert that committed and then raised.                             *)
HookFails(l) ==
    /\ Mishap
    /\ lander[l].pc \in {"written", "hooked", "read"}
    /\ request' \in {request} \cup {r \in {Merged(l)} : lander[l].pc = "read"}
    /\ lander' = [lander EXCEPT ![l] = Outside("failed")]
    /\ UNCHANGED <<now, data, stored, worker, slot, slotSince, on, answered>>

-----------------------------------------------------------------------------
(* The pollers.                                                             *)

Oldest(entries) == CHOOSE t \in {e.time : e \in entries} : \A e \in entries : t <= e.time

DueAt(r) ==
    LET quiet == r.time + Debounce
        atMost == Oldest(r.landings) + MaxWait
    IN IF r.landings # {} /\ atMost < quiet THEN atMost ELSE quiet

(* A tick reads the pending request, the switch and judges it due.          *)
Scan(p) ==
    /\ worker[p].pc = "idle"
    /\ Pending
    /\ request.time <= now
    /\ now >= DueAt(request)
    /\ worker' = [worker EXCEPT ![p].pc = "due", ![p].time = request.time,
                                ![p].landings = request.landings, ![p].on = on]
    /\ UNCHANGED <<now, data, stored, request, lander, slot, slotSince, budget, on, answered>>

(* Mutant: the claim needs a strictly older request.                        *)
ClaimableStrict(p) == Pending /\ request.time < worker[p].time

Claimable(p) == Pending /\ request.time <= worker[p].time

(* _claim: one conditional update; a claim that matches no row gives up.    *)
Claim(p) ==
    /\ worker[p].pc = "due"
    /\ \/ /\ Claimable(p)
          /\ request' = NoRequest
          /\ worker' = [worker EXCEPT ![p].pc = "claimed", ![p].time = 0,
                                      ![p].covers = Queued]
       \/ /\ ~Claimable(p)
          /\ worker' = [worker EXCEPT ![p] = InitialWorker]
          /\ UNCHANGED request
    /\ UNCHANGED <<now, data, stored, lander, slot, slotSince, budget, on, answered>>

(* A claim that raises is skipped, whether or not it committed.             *)
ClaimFails(p) ==
    /\ Mishap
    /\ worker[p].pc = "due"
    /\ request' \in {request} \cup {r \in {NoRequest} : Claimable(p)}
    /\ worker' = [worker EXCEPT ![p] = InitialWorker]
    /\ UNCHANGED <<now, data, stored, lander, slot, slotSince, on, answered>>

(* run_one: switched off means a record and nothing run.                    *)
SwitchedOff(p) ==
    /\ worker[p].pc = "claimed"
    /\ ~worker[p].on
    /\ worker' = [worker EXCEPT ![p] = InitialWorker]
    /\ answered' = answered \cup worker[p].covers
    /\ UNCHANGED <<now, data, stored, request, lander, slot, slotSince, budget, on>>

(* Mutant: a slot taken over a tick early.                                  *)
SlotOpenEarly == slot = Free \/ now - slotSince >= MaxRun

(* The slot is free, or its holder is stale.                                *)
SlotOpen == slot = Free \/ now - slotSince > MaxRun

(* Mutant: a busy slot is taken for an answer.                              *)
TakeSlotOrDrop(p) ==
    /\ worker[p].pc = "claimed"
    /\ worker[p].on
    /\ \/ /\ SlotOpen
          /\ slot' = p
          /\ slotSince' = now
          /\ worker' = [worker EXCEPT ![p].pc = "slot"]
       \/ /\ ~SlotOpen
          /\ worker' = [worker EXCEPT ![p] = InitialWorker]
          /\ UNCHANGED <<slot, slotSince>>
    /\ UNCHANGED <<now, data, stored, request, lander, budget, on, answered>>

(* The runner asks for the single-flight slot: it gets it or is refused.    *)
TakeSlot(p) ==
    /\ worker[p].pc = "claimed"
    /\ worker[p].on
    /\ \/ /\ SlotOpen
          /\ slot' = p
          /\ slotSince' = now
          /\ worker' = [worker EXCEPT ![p].pc = "slot"]
       \/ /\ ~SlotOpen
          /\ worker' = [worker EXCEPT ![p].pc = "busy"]
          /\ UNCHANGED <<slot, slotSince>>
    /\ UNCHANGED <<now, data, stored, request, lander, budget, on, answered>>

(* A busy slot queues the same landings again, at the time of asking.       *)
Requeue(p) ==
    /\ worker[p].pc = "busy"
    /\ worker' = [worker EXCEPT ![p].pc = "requeue", ![p].time = now, ![p].seen = request.landings]
    /\ UNCHANGED <<now, data, stored, request, lander, slot, slotSince, budget, on, answered>>

QueueAgain(p) ==
    /\ worker[p].pc = "requeue"
    /\ \/ /\ request' = [time |-> worker[p].time,
                         landings |-> worker[p].seen \cup worker[p].landings]
          /\ UNCHANGED budget
       \/ /\ Mishap
          /\ UNCHANGED request
    /\ worker' = [worker EXCEPT ![p] = InitialWorker]
    /\ UNCHANGED <<now, data, stored, lander, slot, slotSince, on, answered>>

-----------------------------------------------------------------------------
(* The calculation, of a poller or of the button, and how it is stored: the *)
(* rows of the month are deleted and then inserted.                         *)

ReadInputs(w) ==
    /\ worker[w].pc = "slot"
    /\ worker' = [worker EXCEPT ![w] = [InitialWorker EXCEPT !.pc = "calculating",
                                                                 !.inputs = data]]
    /\ UNCHANGED <<now, data, stored, request, lander, slot, slotSince, budget, on, answered>>

DeleteMonth(w) ==
    /\ worker[w].pc = "calculating"
    /\ stored' = [from |-> worker[w].inputs, whole |-> FALSE]
    /\ worker' = [worker EXCEPT ![w].pc = "rewriting"]
    /\ UNCHANGED <<now, data, request, lander, slot, slotSince, budget, on, answered>>

(* Inserted beside the rows of another calculation, they double or mix.     *)
Inserted(w) == [from |-> stored.from \cap worker[w].inputs,
                whole |-> ~stored.whole /\ stored.from = worker[w].inputs]

InsertRows(w) ==
    /\ worker[w].pc = "rewriting"
    /\ stored' = Inserted(w)
    /\ worker' = [worker EXCEPT ![w].pc = "stored"]
    /\ UNCHANGED <<now, data, request, lander, slot, slotSince, budget, on, answered>>

(* A write that raises is a save error of the run, which goes on to its end,*)
(* whether or not the delete, or all of the insert, had committed.          *)
WriteFails(w) ==
    /\ Mishap
    /\ \/ /\ worker[w].pc = "calculating"
          /\ stored' \in {stored, [from |-> worker[w].inputs, whole |-> FALSE]}
       \/ /\ worker[w].pc = "rewriting"
          /\ stored' \in {stored, Inserted(w)}
    /\ worker' = [worker EXCEPT ![w].pc = "stored"]
    /\ UNCHANGED <<now, data, request, lander, slot, slotSince, on, answered>>

(* Mutant: a calculation may end between the delete and the insert.         *)
EndRunAnytime(w) ==
    /\ worker[w].pc \in {"calculating", "rewriting", "stored"}
    /\ answered' = answered \cup {l \in worker[w].inputs : w \in Pollers}
    /\ slot' = Free
    /\ worker' = [worker EXCEPT ![w] = InitialWorker]
    /\ slotSince' = 0
    /\ UNCHANGED <<now, data, stored, request, lander, budget, on>>

(* The calculation is stored, or was refused or failed before it wrote. The *)
(* landings it read are answered when it was the queue's.                   *)
EndRun(w) ==
    /\ worker[w].pc \in {"calculating", "stored"}
    /\ answered' = answered \cup {l \in worker[w].inputs : w \in Pollers}
    /\ slot' = Free
    /\ worker' = [worker EXCEPT ![w] = InitialWorker]
    /\ slotSince' = 0
    /\ UNCHANGED <<now, data, stored, request, lander, budget, on>>

CalculationStep(w) == ReadInputs(w) \/ DeleteMonth(w) \/ InsertRows(w) \/ EndRun(w)

-----------------------------------------------------------------------------
(* The rest of the world.                                                   *)

(* Run Calculation is pressed, one press at a time: it takes the slot or is *)
(* refused.                                                                 *)
PressButton ==
    /\ Upset(0)
    /\ worker[Button].pc \in {"idle", "dead"}
    /\ SlotOpen
    /\ slot' = Button
    /\ slotSince' = now
    /\ worker' = [worker EXCEPT ![Button].pc = "slot"]
    /\ UNCHANGED <<now, data, stored, request, lander, on, answered>>

(* The org's switch is flipped.                                             *)
Switch ==
    /\ Upset(0)
    /\ on' = ~on
    /\ UNCHANGED <<now, data, stored, request, lander, worker, slot, slotSince, answered>>

(* A process dies with its poller, or with the button's calculation.        *)
Die(w) ==
    /\ Mishap
    /\ worker[w].pc # "dead"
    /\ worker' = [worker EXCEPT ![w] = [InitialWorker EXCEPT !.pc = "dead"]]
    /\ UNCHANGED <<now, data, stored, request, lander, slot, slotSince, on, answered>>

(* The next boot starts a poller; a dead run's slot has to go stale.        *)
Boot(p) ==
    /\ worker[p].pc = "dead"
    /\ worker' = [worker EXCEPT ![p] = InitialWorker]
    /\ UNCHANGED <<now, data, stored, request, lander, slot, slotSince, budget, on, answered>>

(* Who holds the slot and is alive.                                         *)
Holds(w) == worker[w].pc \in {"slot", "calculating", "rewriting", "stored"}
LiveHolder == \E w \in Workers : Holds(w)
InFlight == {l \in Landings : lander[l].pc \in {"written", "hooked", "read"}}

Tick ==
    /\ now < Horizon
    /\ LiveHolder => now + 1 - slotSince <= MaxRun
    /\ now >= LandBy => InFlight = {}
    /\ now' = now + 1
    /\ UNCHANGED <<data, stored, request, lander, worker, slot, slotSince, budget, on, answered>>

LanderStep(l) == Hook(l) \/ ReadRequest(l) \/ QueueLanding(l)

PollerStep(p) ==
    \/ Scan(p) \/ Claim(p) \/ SwitchedOff(p) \/ TakeSlot(p) \/ CalculationStep(p)
    \/ Requeue(p) \/ QueueAgain(p)

Next ==
    \/ \E l \in Landings : Land(l) \/ LanderStep(l) \/ HookFails(l)
    \/ \E p \in Pollers : PollerStep(p) \/ ClaimFails(p) \/ Boot(p)
    \/ CalculationStep(Button)
    \/ \E w \in Workers : WriteFails(w) \/ Die(w)
    \/ PressButton \/ Switch \/ Tick

Spec == Init /\ [][Next]_vars

(* A lander's request runs to its end, every process polls and is restarted *)
(* when it dies, a run ends, and time passes.                               *)
Fairness ==
    /\ \A l \in Landings : WF_vars(LanderStep(l))
    /\ \A p \in Pollers : WF_vars(PollerStep(p)) /\ WF_vars(Boot(p))
    /\ WF_vars(CalculationStep(Button))
    /\ WF_vars(Tick)

FairSpec == Spec /\ Fairness

-----------------------------------------------------------------------------
(* Somebody still owes the landing l a calculation: a request is pending,   *)
(* or a live poller has claimed one and has not read its inputs, or its     *)
(* calculation, not at its end yet, read inputs that hold l.                *)
Owed(l) ==
    \/ Pending
    \/ \E p \in Pollers :
          \/ worker[p].pc \in {"claimed", "slot", "busy", "requeue"}
          \/ worker[p].pc \in {"calculating", "rewriting", "stored"} /\ l \in worker[p].inputs

(* No landing that was told "queued" is forgotten: whatever the interleaving*)
(* of landers and pollers, timestamps that move backwards, a busy slot, it  *)
(* is answered or still owed, as long as nothing failed.  (auto_calc.py     *)
(* 26-32)                                                                   *)
NoLandingForgotten == Unharmed => \A l \in Queued : l \in answered \/ Owed(l)

(* The rows of the month never give way to older ones: whoever dies between *)
(* a delete and an insert, whatever fails and whoever presses the button, a *)
(* calculation that read less never replaces one that read more.  That none *)
(* are missing is the next property.  (auto_calc.py 31-32, router.py        *)
(* 17125-17230)                                                             *)
MonthNeverGoesBack == [][stored.from \subseteq stored'.from]_vars

(* A month that no live calculation is between deleting and inserting is    *)
(* one calculation's rows, all of them and once: only a death or a failing  *)
(* call leaves less, two calculations never leave more.  (router.py         *)
(* 17225-17230)                                                             *)
TornOnlyByMishap ==
    Unharmed => stored.whole \/ \E w \in Workers : worker[w].pc = "rewriting"

Promise == INSTANCE LandingPromise WITH queued <- Queued

(* The queue keeps the promise to the landers: told "queued" once, an       *)
(* answer never taken back, and, when nothing ever fails, answered in the   *)
(* end.                                                                     *)
KeepsThePromise == Promise!Steps /\ ([]Unharmed => Promise!Promise)

-----------------------------------------------------------------------------
(* The inductive strengthening of NoLandingForgotten: what is owed to a     *)
(* landing is owed by a pending request, by the claim that covers it or by  *)
(* the calculation that read it.                                            *)
OwedBy(p, l) ==
    \/ /\ worker[p].pc \in {"claimed", "slot", "busy", "requeue"}
       /\ l \in worker[p].covers
    \/ worker[p].pc \in {"calculating", "rewriting", "stored"} /\ l \in worker[p].inputs

StillOwed(l) == l \in answered \/ Pending \/ \E p \in Pollers : OwedBy(p, l)

Accounted == \A l \in Queued : StillOwed(l)

(* Deaths and failing calls included: what is owed to a queued landing is   *)
(* lost only with the process that holds it, in a claim that raises or in a *)
(* requeue that fails.  (auto_calc.py 655-700, 723-760)                     *)
Loses(p, l) ==
    \/ OwedBy(p, l) /\ Die(p)
    \/ ClaimFails(p)
    \/ worker[p].pc = "requeue" /\ l \in worker[p].covers /\ QueueAgain(p)

LostOnlyByMishap ==
    [][\A l \in Queued : StillOwed(l) => StillOwed(l)' \/ \E p \in Pollers : Loses(p, l)]_vars

HookedAfterLanding == \A l \in Landings : lander[l].pc # "idle" => l \in data

ForgetInv == TypeOK /\ HookedAfterLanding /\ (Unharmed => Accounted)

(* The inductive strengthening of the month's properties: who calculates    *)
(* holds the slot, is no older than MaxRun, and read all that is stored; who*)
(* has deleted left nothing but his own.                                    *)
HolderInv == \A w \in Workers : Holds(w) => slot = w /\ now - slotSince <= MaxRun

StoredInv ==
    /\ stored.from \subseteq data
    /\ \A w \in Workers : worker[w].pc = "calculating" =>
          stored.from \subseteq worker[w].inputs /\ worker[w].inputs \subseteq data
    /\ \A w \in Workers : worker[w].pc = "rewriting" =>
          stored = [from |-> worker[w].inputs, whole |-> FALSE]

MonthInv == TypeOK /\ HolderInv /\ StoredInv

-----------------------------------------------------------------------------
(* The slot of this module is the abstract one that the guard implements:   *)
(* the pollers' calculations and the button's are its runs.                 *)
AtWork == {w \in Workers : Holds(w)}

Flight == INSTANCE SingleFlight WITH Runs <- Workers, working <- AtWork

(* No calculation of a landing and no press of the button comes to work on  *)
(* the month while another one is, stale slots and dead processes included. *)
(* (auto_calc.py 743-768, router.py 16046-16063)                            *)
KeepsToTheSlot == Flight!Spec

SlotInv == TypeOK /\ HolderInv

=============================================================================
