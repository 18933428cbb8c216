---------------------------- MODULE AutoCalc_proofs ----------------------------
(***************************************************************************)
(* Proofs about AutoCalc: its types; that no landing told "queued" is      *)
(* forgotten while no process dies and no call fails, and otherwise only   *)
(* by a death or a claim whose answer is lost; that the rows of the month  *)
(* never give way to older ones, whoever dies and whatever fails, and are  *)
(* all there when nothing has; that its slot lets one calculation in at a  *)
(* time; and that it takes only steps the promise to the landers allows.   *)
(***************************************************************************)
EXTENDS AutoCalc, TLAPS

LanderType == [pc : {"idle", "written", "hooked", "read", "queued", "off", "failed"},
               time : Nat, seen : SUBSET Entries]

WorkerType == [pc : {"idle", "due", "claimed", "slot", "calculating",
                     "rewriting", "stored", "busy", "requeue", "dead"},
               time : Nat, landings : SUBSET Entries, seen : SUBSET Entries,
               on : BOOLEAN, covers : SUBSET Landings, inputs : SUBSET Landings]

(* A landing with the time it was queued at is an entry.                     *)
LEMMA EntryType == \A l \in Landings, t \in Nat : Entry(l, t) \in Entries
  BY DEF Entry, Entries

(* The initial state is well typed.                                          *)
LEMMA InitType == Init => TypeOK
  <1> SUFFICES ASSUME Init PROVE TypeOK
    OBVIOUS
  <1>1. InitialWorker \in WorkerType
    BY DEF InitialWorker, WorkerType
  <1>2. worker \in [Workers -> WorkerType]
    BY <1>1 DEF Init
  <1>3. lander \in [Landings -> LanderType]
    BY DEF Init, LanderType, Outside
  <1>4. request \in [time : Nat \cup {NoTime}, landings : SUBSET Entries]
    BY DEF Init, NoRequest
  <1>5. budget \in [upsets : Nat, mishaps : Nat]
    BY AutoCalcAssumption DEF Init
  <1> QED
    BY <1>2, <1>3, <1>4, <1>5 DEF Init, TypeOK, WorkerType, LanderType

(* A lander outside the hook, and a process between its requests, keep       *)
(* nothing.                                                                  *)
LEMMA OutsideType ==
  \A pc \in {"idle", "written", "hooked", "read", "queued", "off", "failed"} : Outside(pc) \in LanderType
  BY DEF Outside, LanderType

LEMMA InitialWorkerType ==
  InitialWorker \in WorkerType /\ [InitialWorker EXCEPT !.pc = "dead"] \in WorkerType
  BY DEF InitialWorker, WorkerType

(* The landers' places keep their type.                                      *)
LEMMA LanderStepType == TypeOK /\ [Next]_vars => lander' \in [Landings -> LanderType]
  <1> SUFFICES ASSUME TypeOK, [Next]_vars PROVE lander' \in [Landings -> LanderType]
    OBVIOUS
  <1>t. lander \in [Landings -> LanderType] /\ now \in Nat /\ request.landings \in SUBSET Entries
    BY DEF TypeOK, LanderType
  <1>1. CASE UNCHANGED lander
    BY <1>t, <1>1
  <1>2. ASSUME NEW l \in Landings, Land(l) \/ LanderStep(l) \/ HookFails(l)
        PROVE  lander' \in [Landings -> LanderType]
    <2>1. CASE Land(l)
      BY <1>t, <2>1 DEF Land, LanderType
    <2>2. CASE Hook(l)
      <3>1. PICK z \in {[pc |-> "hooked", time |-> now, seen |-> {}], Outside("off")} :
               lander' = [lander EXCEPT ![l] = z]
        BY <2>2 DEF Hook
      <3>2. [pc |-> "hooked", time |-> now, seen |-> {}] \in LanderType
        BY <1>t DEF LanderType
      <3> QED
        BY <1>t, <3>1, <3>2, OutsideType
    <2>3. CASE ReadRequest(l)
      BY <1>t, <2>3 DEF ReadRequest, LanderType
    <2>4. CASE QueueLanding(l) \/ HookFails(l)
      <3>1. PICK pc \in {"queued", "failed"} : lander' = [lander EXCEPT ![l] = Outside(pc)]
        BY <2>4 DEF QueueLanding, HookFails
      <3> QED
        BY <1>t, <3>1, OutsideType
    <2> QED
      BY <1>2, <2>1, <2>2, <2>3, <2>4 DEF LanderStep
  <1> QED
    BY <1>1, <1>2
    DEF Next, PollerStep, Scan, Claim, SwitchedOff, TakeSlot, CalculationStep, ReadInputs,
        DeleteMonth, InsertRows, EndRun, Requeue, QueueAgain, ClaimFails, WriteFails, Die, Boot,
        PressButton, Switch, Tick, vars

(* A calculation's step puts its worker in a place of its type.              *)
LEMMA CalculatorStepType ==
  ASSUME TypeOK, NEW w \in Workers, CalculationStep(w) \/ WriteFails(w) \/ Die(w)
  PROVE  worker' \in [Workers -> WorkerType]
  <1>t. worker \in [Workers -> WorkerType] /\ worker[w] \in WorkerType /\ data \in SUBSET Landings
    BY DEF TypeOK, WorkerType
  <1>1. CASE ReadInputs(w)
    <2> DEFINE z == [InitialWorker EXCEPT !.pc = "calculating", !.inputs = data]
    <2>1. z \in WorkerType
      BY <1>t DEF InitialWorker, WorkerType
    <2>2. worker' = [worker EXCEPT ![w] = z]
      BY <1>1 DEF ReadInputs
    <2> QED
      BY <1>t, <2>1, <2>2
  <1>2. CASE DeleteMonth(w)
    BY <1>t, <1>2 DEF DeleteMonth, WorkerType
  <1>3. CASE InsertRows(w) \/ WriteFails(w)
    BY <1>t, <1>3 DEF InsertRows, WriteFails, WorkerType
  <1>4. CASE EndRun(w) \/ Die(w)
    <2>1. PICK z \in {InitialWorker, [InitialWorker EXCEPT !.pc = "dead"]} :
             worker' = [worker EXCEPT ![w] = z]
      BY <1>4 DEF EndRun, Die
    <2> QED
      BY <1>t, <2>1, InitialWorkerType
  <1> QED
    BY <1>1, <1>2, <1>3, <1>4 DEF CalculationStep

(* The workers' places keep their type.                                      *)
LEMMA WorkerStepType == TypeOK /\ [Next]_vars => worker' \in [Workers -> WorkerType]
  <1> SUFFICES ASSUME TypeOK, [Next]_vars PROVE worker' \in [Workers -> WorkerType]
    OBVIOUS
  <1>t. /\ worker \in [Workers -> WorkerType]
        /\ now \in Nat /\ on \in BOOLEAN
        /\ request.landings \in SUBSET Entries
        /\ Queued \in SUBSET Landings
        /\ Pollers \subseteq Workers /\ Button \in Workers
    BY DEF TypeOK, WorkerType, Queued, Workers
  <1>1. CASE UNCHANGED worker
    BY <1>t, <1>1
  <1>2. ASSUME NEW p \in Pollers, PollerStep(p) \/ ClaimFails(p) \/ Boot(p)
        PROVE  worker' \in [Workers -> WorkerType]
    <2>p. worker[p] \in WorkerType
      BY <1>t
    <2>1. CASE Scan(p)
      <3> DEFINE z == [worker[p] EXCEPT !.pc = "due", !.time = request.time,
                                        !.landings = request.landings, !.on = on]
      <3>1. request.time \in Nat
        BY <2>1 DEF Scan, Pending, TypeOK
      <3>2. z \in WorkerType
        BY <1>t, <2>p, <3>1 DEF WorkerType
      <3>3. worker' = [worker EXCEPT ![p] = z]
        BY <2>1 DEF Scan
      <3> QED
        BY <1>t, <3>2, <3>3
    <2>2. CASE Claim(p)
      <3> DEFINE z == [worker[p] EXCEPT !.pc = "claimed", !.time = 0, !.covers = Queued]
      <3>1. z \in WorkerType
        BY <1>t, <2>p DEF WorkerType
      <3>2. worker' = [worker EXCEPT ![p] = z] \/ worker' = [worker EXCEPT ![p] = InitialWorker]
        BY <2>2 DEF Claim
      <3> QED
        BY <1>t, <3>1, <3>2, InitialWorkerType
    <2>3. CASE SwitchedOff(p) \/ ClaimFails(p) \/ Boot(p) \/ QueueAgain(p)
      <3>1. worker' = [worker EXCEPT ![p] = InitialWorker]
        BY <2>3 DEF SwitchedOff, ClaimFails, Boot, QueueAgain
      <3> QED
        BY <1>t, <3>1, InitialWorkerType
    <2>4. CASE TakeSlot(p)
      BY <1>t, <2>4 DEF TakeSlot, WorkerType
    <2>5. CASE CalculationStep(p)
      BY <1>t, <2>5, CalculatorStepType
    <2>6. CASE Requeue(p)
      <3> DEFINE z == [worker[p] EXCEPT !.pc = "requeue", !.time = now, !.seen = request.landings]
      <3>1. z \in WorkerType
        BY <1>t, <2>p DEF WorkerType
      <3>2. worker' = [worker EXCEPT ![p] = z]
        BY <2>6 DEF Requeue
      <3> QED
        BY <1>t, <3>1, <3>2
    <2> QED
      BY <1>2, <2>1, <2>2, <2>3, <2>4, <2>5, <2>6 DEF PollerStep
  <1>3. ASSUME NEW w \in Workers, CalculationStep(w) \/ WriteFails(w) \/ Die(w)
        PROVE  worker' \in [Workers -> WorkerType]
    BY <1>3, CalculatorStepType, Zenon
  <1>4. CASE PressButton
    <2> DEFINE z == [worker[Button] EXCEPT !.pc = "slot"]
    <2>1. worker[Button] \in WorkerType
      BY <1>t
    <2>2. z \in WorkerType
      BY <2>1 DEF WorkerType
    <2>3. worker' = [worker EXCEPT ![Button] = z]
      BY <1>4 DEF PressButton
    <2> QED
      BY <1>t, <2>2, <2>3
  <1> QED
    BY <1>t, <1>1, <1>2, <1>3, <1>4
    DEF Next, Land, LanderStep, Hook, ReadRequest, QueueLanding, HookFails, Switch, Tick, vars

(* The durable request keeps its type.                                       *)
LEMMA RequestStepType ==
  TypeOK /\ [Next]_vars => request' \in [time : Nat \cup {NoTime}, landings : SUBSET Entries]
  <1> SUFFICES ASSUME TypeOK, [Next]_vars
               PROVE  request' \in [time : Nat \cup {NoTime}, landings : SUBSET Entries]
    OBVIOUS
  <1>n. NoRequest \in [time : Nat \cup {NoTime}, landings : SUBSET Entries]
    BY DEF NoRequest
  <1>1. CASE request' \in {request, NoRequest}
    BY <1>1, <1>n DEF TypeOK
  <1>m. ASSUME NEW l \in Landings
        PROVE  Merged(l) \in [time : Nat \cup {NoTime}, landings : SUBSET Entries]
    <2>1. lander[l].time \in Nat /\ lander[l].seen \in SUBSET Entries
      BY DEF TypeOK
    <2>2. lander[l].seen \cup {Entry(l, lander[l].time)} \in SUBSET Entries
      BY <2>1, EntryType
    <2> QED
      BY <2>1, <2>2 DEF Merged
  <1>2. ASSUME NEW l \in Landings, QueueLanding(l) \/ HookFails(l)
        PROVE  request' \in [time : Nat \cup {NoTime}, landings : SUBSET Entries]
    <2>1. request' \in {request, Merged(l)}
      BY <1>2 DEF QueueLanding, HookFails
    <2> QED
      BY <1>m, <2>1 DEF TypeOK
  <1>3. ASSUME NEW p \in Pollers, QueueAgain(p)
        PROVE  request' \in [time : Nat \cup {NoTime}, landings : SUBSET Entries]
    <2>1. /\ worker[p].time \in Nat
          /\ worker[p].seen \cup worker[p].landings \in SUBSET Entries
      BY DEF TypeOK, Workers
    <2> QED
      BY <1>3, <2>1 DEF QueueAgain, TypeOK
  <1>4. ASSUME NEW p \in Pollers, Claim(p) \/ ClaimFails(p) PROVE request' \in {request, NoRequest}
    BY <1>4 DEF Claim, ClaimFails
  <1> QED
    BY <1>1, <1>2, <1>3, <1>4
    DEF Next, Land, LanderStep, Hook, ReadRequest, PollerStep, Scan, SwitchedOff, TakeSlot,
        CalculationStep, ReadInputs, DeleteMonth, InsertRows, EndRun, WriteFails, Requeue, Die,
        Boot, PressButton, Switch, Tick, vars

(* What is left of the state keeps its type.                                 *)
LEMMA RestStepType ==
  TypeOK /\ [Next]_vars =>
      /\ now' \in Nat /\ slotSince' \in Nat /\ on' \in BOOLEAN
      /\ data' \in SUBSET Landings /\ answered' \in SUBSET Landings
      /\ stored' \in [from : SUBSET Landings, whole : BOOLEAN]
      /\ slot' \in Workers \cup {Free}
      /\ budget' \in [upsets : Nat, mishaps : Nat]
  <1> DEFINE RestOK == /\ now \in Nat /\ slotSince \in Nat /\ on \in BOOLEAN
                       /\ data \in SUBSET Landings
                       /\ answered \in SUBSET Landings
                       /\ stored \in [from : SUBSET Landings, whole : BOOLEAN]
                       /\ slot \in Workers \cup {Free}
                       /\ budget \in [upsets : Nat, mishaps : Nat]
  <1> SUFFICES ASSUME TypeOK, [Next]_vars PROVE RestOK'
    OBVIOUS
  <1>t. /\ RestOK
        /\ \A w \in Workers : worker[w].inputs \in SUBSET Landings
                              /\ worker[w].covers \in SUBSET Landings
        /\ Pollers \subseteq Workers /\ Button \in Workers
    BY DEF TypeOK, Workers
  <1>1. CASE UNCHANGED <<now, slotSince, on, data, stored, answered, slot, budget>>
    BY <1>t, <1>1
  <1>b. ASSUME NEW n \in Nat, Upset(n) PROVE budget' \in [upsets : Nat, mishaps : Nat]
    BY <1>t, <1>b DEF Upset
  <1>2. ASSUME NEW l \in Landings, Land(l) PROVE RestOK'
    BY <1>t, <1>2 DEF Land
  <1>3. ASSUME NEW p \in Pollers, SwitchedOff(p) \/ TakeSlot(p) PROVE RestOK'
    BY <1>t, <1>3 DEF SwitchedOff, TakeSlot
  <1>4. ASSUME NEW p \in Pollers, ClaimFails(p) \/ QueueAgain(p) PROVE RestOK'
    BY <1>t, <1>b, <1>4 DEF ClaimFails, QueueAgain, Mishap
  <1>c. ASSUME NEW w \in Workers, CalculationStep(w) \/ WriteFails(w) \/ Die(w) PROVE RestOK'
    <2>i. Inserted(w) \in [from : SUBSET Landings, whole : BOOLEAN]
      <3>1. (~stored.whole /\ stored.from = worker[w].inputs) \in BOOLEAN
        OBVIOUS
      <3>2. stored.from \cap worker[w].inputs \in SUBSET Landings
        BY <1>t
      <3> QED
        BY <3>1, <3>2 DEF Inserted
    <2>1. CASE ReadInputs(w)
      BY <1>t, <2>1 DEF ReadInputs
    <2>d. [from |-> worker[w].inputs, whole |-> FALSE] \in [from : SUBSET Landings, whole : BOOLEAN]
      BY <1>t
    <2>2. CASE DeleteMonth(w)
      BY <1>t, <2>2, <2>d DEF DeleteMonth
    <2>3. CASE InsertRows(w)
      BY <1>t, <2>3, <2>i DEF InsertRows
    <2>4. CASE EndRun(w)
      BY <1>t, <2>4 DEF EndRun
    <2>5. CASE WriteFails(w)
      <3>1. stored' \in [from : SUBSET Landings, whole : BOOLEAN]
        BY <1>t, <2>5, <2>i, <2>d DEF WriteFails
      <3>2. budget' \in [upsets : Nat, mishaps : Nat]
        BY <1>b, <2>5 DEF WriteFails, Mishap
      <3> QED
        BY <1>t, <2>5, <3>1, <3>2 DEF WriteFails
    <2>6. CASE Die(w)
      BY <1>t, <1>b, <2>6 DEF Die, Mishap
    <2> QED
      BY <1>c, <2>1, <2>2, <2>3, <2>4, <2>5, <2>6 DEF CalculationStep
  <1>7. ASSUME NEW l \in Landings, HookFails(l) PROVE RestOK'
    BY <1>t, <1>b, <1>7 DEF HookFails, Mishap
  <1>5. CASE PressButton \/ Switch
    <2>1. CASE PressButton
      BY <1>t, <1>b, <2>1 DEF PressButton
    <2>3. CASE Switch
      BY <1>t, <1>b, <2>3 DEF Switch
    <2> QED
      BY <1>5, <2>1, <2>3
  <1>6. CASE Tick
    BY <1>t, <1>6 DEF Tick
  <1> QED
    BY <1>t, <1>1, <1>2, <1>3, <1>4, <1>c, <1>5, <1>6, <1>7
    DEF Next, LanderStep, Hook, ReadRequest, QueueLanding, PollerStep, Scan, Claim, Requeue, Boot,
        vars

(* Every variable keeps its type.                                            *)
LEMMA TypeStep == TypeOK /\ [Next]_vars => TypeOK'
  BY LanderStepType, WorkerStepType, RequestStepType, RestStepType
  DEF TypeOK, LanderType, WorkerType

(* The variables of the queue keep their types.                              *)
THEOREM AutoTypeCorrect == Spec => []TypeOK
  BY InitType, TypeStep, PTL DEF Spec
-----------------------------------------------------------------------------
(* Rows land before the hook runs, and landed rows stay.                     *)
LEMMA HookedStep == TypeOK /\ HookedAfterLanding /\ [Next]_vars => HookedAfterLanding'
  <1> SUFFICES ASSUME TypeOK, HookedAfterLanding, [Next]_vars PROVE HookedAfterLanding'
    OBVIOUS
  <1>t. lander \in [Landings -> LanderType]
    BY DEF TypeOK, LanderType
  <1>1. CASE UNCHANGED <<lander, data>>
    BY <1>1 DEF HookedAfterLanding
  <1>2. ASSUME NEW l \in Landings, Land(l) PROVE HookedAfterLanding'
    BY <1>t, <1>2 DEF Land, HookedAfterLanding, LanderType
  <1>3. ASSUME NEW l \in Landings, LanderStep(l) \/ HookFails(l) PROVE HookedAfterLanding'
    <2>1. data' = data /\ lander[l].pc # "idle" /\ \A m \in Landings \ {l} : lander'[m] = lander[m]
      BY <1>t, <1>3
      DEF LanderStep, Hook, ReadRequest, QueueLanding, HookFails
    <2> QED
      BY <2>1 DEF HookedAfterLanding
  <1> QED
    BY <1>1, <1>2, <1>3
    DEF Next, PollerStep, Scan, Claim, SwitchedOff, TakeSlot, CalculationStep, ReadInputs,
        DeleteMonth, InsertRows, EndRun, Requeue, QueueAgain, ClaimFails, WriteFails, Die, Boot,
        PressButton, Switch, Tick, vars

(* A worker's step hands what it owes a landing on, answers it, or is one of *)
(* the mishaps that lose it.                                                 *)
LEMMA PollerOwes ==
  ASSUME TypeOK, HookedAfterLanding, NEW l \in Queued, StillOwed(l),
         NEW p \in Pollers, PollerStep(p) \/ WriteFails(p)
  PROVE  StillOwed(l)' \/ \E q \in Pollers : Loses(q, l)
  <1>t. worker \in [Workers -> WorkerType] /\ Pollers \subseteq Workers
    BY DEF TypeOK, WorkerType, Workers
  <1>l. l \in Landings /\ l \in data
    BY DEF Queued, HookedAfterLanding, Outside
  <1>o. \A q \in Pollers \ {p} : worker'[q] = worker[q]
    BY <1>t
    DEF PollerStep, Scan, Claim, SwitchedOff, TakeSlot, CalculationStep, ReadInputs, DeleteMonth,
        InsertRows, EndRun, WriteFails, Requeue, QueueAgain
  <1>q. \A q \in Pollers \ {p} : OwedBy(q, l)' <=> OwedBy(q, l)
    BY <1>o DEF OwedBy
  (* A step that leaves the request and keeps this debt or answers it.       *)
  <1>3. ASSUME UNCHANGED request, answered \subseteq answered',
               OwedBy(p, l) => OwedBy(p, l)' \/ l \in answered'
        PROVE  StillOwed(l)'
    BY <1>q, <1>3 DEF StillOwed, Pending
  <1>1. CASE Claim(p)
    <2>1. CASE Claimable(p)
      <3>1. worker'[p].pc = "claimed" /\ worker'[p].covers = Queued
        BY <1>t, <1>1, <2>1 DEF Claim, WorkerType
      <3> QED
        BY <3>1 DEF StillOwed, OwedBy
    <2>2. CASE ~Claimable(p)
      BY <1>1, <1>3, <2>2 DEF Claim, OwedBy
    <2> QED
      BY <2>1, <2>2
  <1>2. CASE QueueAgain(p)
    <2>1. CASE OwedBy(p, l)
      <3>1. worker[p].pc = "requeue" /\ l \in worker[p].covers
        BY <1>2, <2>1 DEF QueueAgain, OwedBy
      <3> QED
        BY <1>2, <3>1 DEF Loses
    <2>2. CASE ~OwedBy(p, l)
      <3>1. CASE UNCHANGED request
        BY <1>2, <1>3, <2>2, <3>1 DEF QueueAgain
      <3>2. CASE ~(UNCHANGED request)
        <4>1. request'.time = worker[p].time /\ worker[p].time \in Nat
          BY <1>t, <1>2, <3>2 DEF QueueAgain, WorkerType
        <4> QED
          BY <4>1 DEF StillOwed, Pending, NoTime
      <3> QED
        BY <3>1, <3>2
    <2> QED
      BY <2>1, <2>2
  <1>4. CASE Scan(p)
    BY <1>3, <1>4 DEF Scan, OwedBy
  <1>5. CASE SwitchedOff(p)
    BY <1>3, <1>5 DEF SwitchedOff, OwedBy
  <1>6. CASE TakeSlot(p)
    BY <1>t, <1>3, <1>6 DEF TakeSlot, OwedBy, WorkerType
  <1>7. CASE ReadInputs(p)
    <2>1. worker'[p].pc = "calculating" /\ worker'[p].inputs = data
      <3> DEFINE z == [InitialWorker EXCEPT !.pc = "calculating", !.inputs = data]
      <3>1. worker'[p] = z
        BY <1>t, <1>7 DEF ReadInputs
      <3>2. z.pc = "calculating" /\ z.inputs = data
        BY DEF InitialWorker
      <3> QED
        BY <3>1, <3>2
    <2> QED
      BY <1>l, <1>3, <1>7, <2>1 DEF ReadInputs, OwedBy
  <1>8. CASE DeleteMonth(p) \/ InsertRows(p) \/ WriteFails(p)
    <2>1. /\ UNCHANGED <<request, answered>>
          /\ worker[p].pc \in {"calculating", "rewriting"}
          /\ worker'[p].pc \in {"rewriting", "stored"}
          /\ worker'[p].inputs = worker[p].inputs
      BY <1>t, <1>8 DEF DeleteMonth, InsertRows, WriteFails, WorkerType
    <2> QED
      BY <1>3, <2>1 DEF OwedBy
  <1>9. CASE EndRun(p)
    BY <1>3, <1>9 DEF EndRun, OwedBy
  <1>10. CASE Requeue(p)
    BY <1>t, <1>3, <1>10 DEF Requeue, OwedBy, WorkerType
  <1> QED
    BY <1>1, <1>2, <1>4, <1>5, <1>6, <1>7, <1>8, <1>9, <1>10 DEF PollerStep, CalculationStep

(* What is owed to a queued landing is lost only by a mishap.                *)
LEMMA OwedStep ==
  ASSUME TypeOK, HookedAfterLanding, [Next]_vars, NEW l \in Queued, StillOwed(l)
  PROVE  StillOwed(l)' \/ \E p \in Pollers : Loses(p, l)
  <1>t. worker \in [Workers -> WorkerType] /\ Pollers \subseteq Workers
    BY DEF TypeOK, WorkerType, Workers
  <1>b. Button \notin Pollers
    BY AutoCalcAssumption
  (* The pollers, the request and what is answered are left alone.           *)
  <1>1. ASSUME UNCHANGED <<request, answered>>, \A q \in Pollers : worker'[q] = worker[q]
        PROVE  StillOwed(l)'
    BY <1>1 DEF StillOwed, Pending, OwedBy
  <1>2. ASSUME NEW m \in Landings, QueueLanding(m) \/ HookFails(m) PROVE StillOwed(l)'
    <2>1. /\ request' = request \/ request'.time = lander[m].time
          /\ UNCHANGED <<answered, worker>>
      BY <1>2 DEF QueueLanding, HookFails, Merged
    <2>2. lander[m].time \in Nat
      BY DEF TypeOK
    <2>3. CASE request' = request
      BY <1>1, <2>1, <2>3
    <2>4. CASE request'.time = lander[m].time
      BY <2>2, <2>4 DEF StillOwed, Pending, NoTime
    <2> QED
      BY <2>1, <2>3, <2>4
  <1>3. ASSUME NEW p \in Pollers, Die(p)
        PROVE  StillOwed(l)' \/ \E q \in Pollers : Loses(q, l)
    <2>1. CASE OwedBy(p, l)
      BY <1>3, <2>1 DEF Loses
    <2>2. CASE ~OwedBy(p, l)
      <3>1. UNCHANGED <<request, answered>> /\ \A q \in Pollers \ {p} : worker'[q] = worker[q]
        BY <1>t, <1>3 DEF Die
      <3>2. \A q \in Pollers \ {p} : OwedBy(q, l) => OwedBy(q, l)'
        BY <3>1 DEF OwedBy
      <3> QED
        BY <2>2, <3>1, <3>2 DEF StillOwed, Pending
    <2> QED
      BY <2>1, <2>2
  <1>4. ASSUME NEW p \in Pollers, Boot(p) PROVE StillOwed(l)'
    <2>1. UNCHANGED <<request, answered>> /\ ~OwedBy(p, l)
      BY <1>4 DEF Boot, OwedBy
    <2>2. \A q \in Pollers \ {p} : worker'[q] = worker[q]
      BY <1>t, <1>4 DEF Boot
    <2>3. \A q \in Pollers \ {p} : OwedBy(q, l) => OwedBy(q, l)'
      BY <2>2 DEF OwedBy
    <2> QED
      BY <2>1, <2>3 DEF StillOwed, Pending
  <1>5. ASSUME NEW p \in Pollers, ClaimFails(p) PROVE \E q \in Pollers : Loses(q, l)
    BY <1>5 DEF Loses
  <1>6. ASSUME NEW p \in Pollers, PollerStep(p) \/ WriteFails(p)
        PROVE  StillOwed(l)' \/ \E q \in Pollers : Loses(q, l)
    BY <1>6, PollerOwes
  <1>7. CASE \/ CalculationStep(Button) \/ WriteFails(Button) \/ Die(Button)
             \/ PressButton
    <2>1. \A q \in Pollers : worker'[q] = worker[q]
      BY <1>t, <1>b, <1>7
      DEF CalculationStep, ReadInputs, DeleteMonth, InsertRows, EndRun, WriteFails, Die, PressButton
    <2>2. UNCHANGED <<request, answered>>
      BY <1>b, <1>7
      DEF CalculationStep, ReadInputs, DeleteMonth, InsertRows, EndRun, WriteFails, Die, PressButton
    <2> QED
      BY <1>1, <2>1, <2>2
  <1>8. CASE UNCHANGED <<request, worker, answered>>
    BY <1>1, <1>8
  <1> QED
    BY <1>2, <1>3, <1>4, <1>5, <1>6, <1>7, <1>8
    DEF Next, Workers, Land, LanderStep, Hook, ReadRequest, Switch, Tick, vars

(* Whoever dies and whatever fails, a queued landing stays owed until it is  *)
(* answered, unless the process that holds it dies, a claim raises, or the   *)
(* requeue of its claim fails.                                               *)
THEOREM LostOnlyThen == Spec => LostOnlyByMishap
  <1>1. Init => TypeOK /\ HookedAfterLanding
    BY InitType DEF Init, HookedAfterLanding, Outside
  <1>2. TypeOK /\ HookedAfterLanding /\ [Next]_vars => TypeOK' /\ HookedAfterLanding'
    BY TypeStep, HookedStep
  <1>3. TypeOK /\ HookedAfterLanding /\ [Next]_vars
          => [\A l \in Queued : StillOwed(l) => StillOwed(l)' \/ \E p \in Pollers : Loses(p, l)]_vars
    BY OwedStep
  <1> QED
    BY <1>1, <1>2, <1>3, PTL DEF Spec, LostOnlyByMishap

(* A step that leaves nothing harmed found nothing harmed and is no mishap.  *)
LEMMA UnharmedStep ==
  ASSUME TypeOK, [Next]_vars, Unharmed'
  PROVE  Unharmed /\ ~Mishap
  <1>t. budget \in [upsets : Nat, mishaps : Nat]
    BY DEF TypeOK
  <1>1. ~Mishap
    BY <1>t DEF Mishap, Upset, Unharmed
  <1>2. /\ ~(\E p \in Pollers : ClaimFails(p))
        /\ ~(\E w \in Workers : WriteFails(w) \/ Die(w))
        /\ ~(\E l \in Landings : HookFails(l))
    BY <1>1 DEF Die, ClaimFails, HookFails, WriteFails
  <1>3. CASE UNCHANGED budget
    BY <1>1, <1>3 DEF Unharmed
  <1>4. CASE Upset(0)
    <2>1. budget'.mishaps = budget.mishaps
      BY <1>t, <1>4 DEF Upset
    <2> QED
      BY <1>1, <2>1 DEF Unharmed
  <1>5. UNCHANGED budget \/ Upset(0)
    BY <1>1, <1>2
    DEF Next, Land, LanderStep, Hook, ReadRequest, QueueLanding, PollerStep, Scan, Claim,
        SwitchedOff, TakeSlot, CalculationStep, ReadInputs, DeleteMonth, InsertRows, EndRun,
        Requeue, QueueAgain, Boot, PressButton, Switch, Tick, vars
  <1> QED
    BY <1>3, <1>4, <1>5

LEMMA ForgetStep == ForgetInv /\ [Next]_vars => ForgetInv'
  <1> SUFFICES ASSUME ForgetInv, [Next]_vars PROVE ForgetInv'
    OBVIOUS
  <1>1. TypeOK /\ HookedAfterLanding /\ TypeOK' /\ HookedAfterLanding'
    BY TypeStep, HookedStep DEF ForgetInv
  <1> SUFFICES ASSUME Unharmed' PROVE Accounted'
    BY <1>1 DEF ForgetInv
  <1>m. ~Mishap
    BY <1>1, UnharmedStep
  <1>2. /\ ~(\E p \in Pollers : Die(p) \/ ClaimFails(p))
        /\ ~(\E l \in Landings : HookFails(l))
    BY <1>m DEF Die, ClaimFails, HookFails
  <1>t. TypeOK /\ HookedAfterLanding /\ Accounted
    BY <1>1, UnharmedStep DEF ForgetInv
  <1>4. ASSUME NEW l \in Queued PROVE StillOwed(l)'
    <2>1. ASSUME NEW p \in Pollers, Loses(p, l) PROVE StillOwed(l)'
      <3>1. QueueAgain(p)
        BY <1>2, <2>1 DEF Loses
      <3>2. Pending'
        <4>1. request'.time = worker[p].time
          <5>1. \/ request' = [time |-> worker[p].time,
                               landings |-> worker[p].seen \cup worker[p].landings]
                \/ Mishap /\ UNCHANGED request
            BY <3>1 DEF QueueAgain
          <5> QED
            BY <1>m, <5>1
        <4>2. worker[p].time \in Nat
          BY <1>t DEF TypeOK, Workers
        <4> QED
          BY <4>1, <4>2 DEF Pending, NoTime
      <3> QED
        BY <3>2 DEF StillOwed
    <2> QED
      BY <1>t, <2>1, OwedStep DEF Accounted
  (* A step that queues a landing leaves a request pending.                  *)
  <1>5. ASSUME NEW l \in Landings, QueueLanding(l) PROVE Accounted'
    <2>1. Pending'
      BY <1>t, <1>5 DEF QueueLanding, Merged, TypeOK, Pending, NoTime
    <2> QED
      BY <2>1 DEF Accounted, StillOwed
  <1>6. ASSUME ~(\E l \in Landings : QueueLanding(l)) PROVE Queued' \subseteq Queued
    <2>t. lander \in [Landings -> LanderType]
      BY <1>t DEF TypeOK, LanderType
    <2>1. CASE UNCHANGED lander
      BY <2>1 DEF Queued
    <2>2. ASSUME NEW l \in Landings, Land(l) \/ Hook(l) \/ ReadRequest(l)
          PROVE  Queued' \subseteq Queued
      <3>1. lander'[l].pc # "queued" /\ \A m \in Landings \ {l} : lander'[m] = lander[m]
        BY <2>t, <2>2 DEF Land, Hook, ReadRequest, LanderType, Outside
      <3> QED
        BY <3>1 DEF Queued
    <2> QED
      BY <1>2, <1>6, <2>1, <2>2
      DEF LanderStep, Next, PollerStep, Scan, Claim, SwitchedOff, TakeSlot, CalculationStep,
          ReadInputs, DeleteMonth, InsertRows, EndRun, Requeue, QueueAgain, ClaimFails, WriteFails,
          Die, Boot, PressButton, Switch, Tick, vars
  <1> QED
    BY <1>4, <1>5, <1>6 DEF Accounted

(* No landing told "queued" is forgotten, for every number of landings and   *)
(* processes and every setting of the windows: as long as no process has died*)
(* and no call has failed, it is answered or somebody still owes it.         *)
THEOREM NothingForgotten == Spec => []NoLandingForgotten
  <1>1. Init => ForgetInv
    <2> SUFFICES ASSUME Init PROVE HookedAfterLanding /\ Accounted
      BY InitType DEF ForgetInv
    <2>1. \A l \in Landings : lander[l].pc = "idle"
      BY DEF Init, Outside
    <2> QED
      BY <2>1 DEF Init, HookedAfterLanding, Accounted, StillOwed, Queued
  <1>2. ForgetInv => NoLandingForgotten
    <2>1. ASSUME NEW l \in Landings, NEW p \in Pollers, OwedBy(p, l) PROVE Owed(l)
      BY <2>1 DEF OwedBy, Owed
    <2> QED
      BY <2>1 DEF ForgetInv, Accounted, StillOwed, NoLandingForgotten, Owed, Queued
  <1> QED
    BY <1>1, <1>2, ForgetStep, PTL DEF Spec

-----------------------------------------------------------------------------
(* The slot's live holder is young and alone, has read all that is stored,   *)
(* and between its delete and its insert nobody else writes.                 *)
LEMMA MonthStep == MonthInv /\ [Next]_vars => MonthInv' /\ stored.from \subseteq stored'.from
  <1> SUFFICES ASSUME MonthInv, [Next]_vars PROVE MonthInv' /\ stored.from \subseteq stored'.from
    OBVIOUS
  <1>t. /\ TypeOK /\ TypeOK' /\ HolderInv /\ StoredInv
        /\ worker \in [Workers -> WorkerType]
        /\ stored \in [from : SUBSET Landings, whole : BOOLEAN]
        /\ now \in Nat /\ slotSince \in Nat /\ MaxRun \in Nat
        /\ \A w \in Workers : w # Free
        /\ Pollers \subseteq Workers /\ Button \in Workers
    BY TypeStep, AutoCalcAssumption DEF MonthInv, TypeOK, WorkerType, Workers, Free, Button
  <1> DEFINE Kept == HolderInv' /\ StoredInv' /\ stored.from \subseteq stored'.from
  <1> SUFFICES Kept
    BY <1>t DEF MonthInv
  (* Most steps leave the slot, the clock and the holders alone.             *)
  <1>1. ASSUME UNCHANGED <<now, slot, slotSince, stored>>, data \subseteq data',
               \A w \in Workers : Holds(w)' => /\ Holds(w)
                                               /\ worker'[w].pc = worker[w].pc
                                               /\ worker'[w].inputs = worker[w].inputs
        PROVE  Kept
    BY <1>t, <1>1 DEF HolderInv, StoredInv, Holds
  <1>2. ASSUME NEW l \in Landings, Land(l) \/ LanderStep(l) \/ HookFails(l) PROVE Kept
    <2>1. /\ UNCHANGED <<now, slot, slotSince, stored, worker>>
          /\ data \subseteq data'
      BY <1>2 DEF Land, LanderStep, Hook, ReadRequest, QueueLanding, HookFails
    <2> QED
      BY <1>1, <2>1 DEF Holds
  <1>3. ASSUME NEW w \in Workers,
               \/ w \in Pollers /\ (\/ Scan(w) \/ Claim(w) \/ SwitchedOff(w) \/ Requeue(w)
                                    \/ QueueAgain(w) \/ ClaimFails(w) \/ Boot(w))
               \/ Die(w)
        PROVE  Kept
    <2>1. UNCHANGED <<now, slot, slotSince, stored, data>>
      BY <1>3 DEF Scan, Claim, SwitchedOff, Requeue, QueueAgain, ClaimFails, Die, Boot
    <2>2. ~Holds(w)'
      BY <1>t, <1>3
      DEF Scan, Claim, SwitchedOff, Requeue, QueueAgain, ClaimFails, Die, Boot, Holds,
          InitialWorker, WorkerType
    <2>3. \A v \in Workers \ {w} : worker'[v] = worker[v]
      BY <1>t, <1>3 DEF Scan, Claim, SwitchedOff, Requeue, QueueAgain, ClaimFails, Die, Boot
    <2> QED
      BY <1>1, <2>1, <2>2, <2>3 DEF Holds
  (* Whoever takes the slot finds nobody at work.                            *)
  <1>4. ASSUME NEW w \in Workers, SlotOpen, UNCHANGED <<now, stored, data>>,
               slot' = w, slotSince' = now, worker'[w].pc = "slot",
               \A v \in Workers \ {w} : worker'[v] = worker[v]
        PROVE  Kept
    <2>1. \A v \in Workers : ~Holds(v)
      BY <1>t, <1>4 DEF HolderInv, SlotOpen
    <2> QED
      BY <1>t, <1>4, <2>1 DEF HolderInv, StoredInv, Holds
  <1>5. ASSUME NEW p \in Pollers, TakeSlot(p) PROVE Kept
    <2>1. UNCHANGED <<now, stored, data>> /\ \A v \in Workers \ {p} : worker'[v] = worker[v]
      BY <1>t, <1>5 DEF TakeSlot
    <2>2. CASE SlotOpen
      <3>1. slot' = p /\ slotSince' = now /\ worker'[p].pc = "slot"
        BY <1>t, <1>5, <2>2 DEF TakeSlot, WorkerType
      <3> QED
        BY <1>t, <1>4, <2>1, <2>2, <3>1
    <2>3. CASE ~SlotOpen
      <3>1. worker'[p].pc = "busy" /\ UNCHANGED <<slot, slotSince>>
        BY <1>t, <1>5, <2>3 DEF TakeSlot, WorkerType
      <3> QED
        BY <1>1, <2>1, <3>1 DEF Holds
    <2> QED
      BY <2>2, <2>3
  <1>6. CASE PressButton
    <2>1. /\ UNCHANGED <<now, stored, data>> /\ SlotOpen
          /\ slot' = Button /\ slotSince' = now /\ worker'[Button].pc = "slot"
          /\ \A v \in Workers \ {Button} : worker'[v] = worker[v]
      BY <1>t, <1>6 DEF PressButton, WorkerType
    <2> QED
      BY <1>t, <1>4, <2>1
  (* The steps of the calculation that holds the slot, alone.                *)
  <1>7. ASSUME NEW w \in Workers, CalculationStep(w) \/ WriteFails(w) PROVE Kept
    <2>1. /\ Holds(w) /\ slot = w /\ now - slotSince <= MaxRun
          /\ \A v \in Workers \ {w} : ~Holds(v)
      BY <1>t, <1>7
      DEF CalculationStep, ReadInputs, DeleteMonth, InsertRows, EndRun, WriteFails, HolderInv, Holds
    <2>2. \A v \in Workers \ {w} : worker'[v] = worker[v] /\ ~Holds(v)'
      BY <1>t, <1>7, <2>1
      DEF CalculationStep, ReadInputs, DeleteMonth, InsertRows, EndRun, WriteFails, Holds
    <2>3. UNCHANGED <<now, data>>
      BY <1>7 DEF CalculationStep, ReadInputs, DeleteMonth, InsertRows, EndRun, WriteFails
    <2>4. CASE ReadInputs(w)
      <3> DEFINE z == [InitialWorker EXCEPT !.pc = "calculating", !.inputs = data]
      <3>1. worker'[w] = z /\ UNCHANGED <<slot, slotSince, stored>>
        BY <1>t, <2>4 DEF ReadInputs
      <3>2. z.pc = "calculating" /\ z.inputs = data
        BY DEF InitialWorker
      <3>3. worker'[w].pc = "calculating" /\ worker'[w].inputs = data
        BY <3>1, <3>2
      <3> QED
        BY <1>t, <2>1, <2>2, <2>3, <3>1, <3>3 DEF HolderInv, StoredInv, Holds
    <2>5. ASSUME worker[w].pc = "calculating", UNCHANGED <<slot, slotSince>>,
                 stored' \in {stored, [from |-> worker[w].inputs, whole |-> FALSE]},
                 \/ worker'[w].pc = "stored"
                 \/ /\ worker'[w].pc = "rewriting"
                    /\ stored' = [from |-> worker[w].inputs, whole |-> FALSE],
                 worker'[w].inputs = worker[w].inputs
          PROVE  Kept
      <3>1. stored.from \subseteq worker[w].inputs /\ worker[w].inputs \subseteq data
        BY <1>t, <2>5 DEF StoredInv
      <3>2. stored.from \subseteq stored'.from /\ stored'.from \subseteq data
        BY <1>t, <2>5, <3>1 DEF StoredInv
      <3> QED
        BY <1>t, <2>1, <2>2, <2>3, <2>5, <3>2 DEF HolderInv, StoredInv, Holds
    <2>6. CASE DeleteMonth(w)
      BY <1>t, <2>5, <2>6 DEF DeleteMonth, WorkerType
    <2>7. ASSUME worker[w].pc = "rewriting", UNCHANGED <<slot, slotSince>>,
                 stored' \in {stored, Inserted(w)}, worker'[w].pc = "stored"
          PROVE  Kept
      <3>1. stored = [from |-> worker[w].inputs, whole |-> FALSE]
        BY <1>t, <2>7 DEF StoredInv
      <3>2. stored'.from = stored.from
        <4>1. Inserted(w).from = stored.from
          BY <3>1 DEF Inserted
        <4> QED
          BY <2>7, <4>1
      <3> QED
        BY <1>t, <2>1, <2>2, <2>3, <2>7, <3>2 DEF HolderInv, StoredInv, Holds
    <2>8. CASE InsertRows(w)
      BY <1>t, <2>7, <2>8 DEF InsertRows, WorkerType
    <2>9. CASE WriteFails(w)
      <3>1. worker'[w].pc = "stored" /\ worker'[w].inputs = worker[w].inputs
            /\ UNCHANGED <<slot, slotSince>>
        BY <1>t, <2>9 DEF WriteFails, WorkerType
      <3> QED
        BY <2>5, <2>7, <2>9, <3>1 DEF WriteFails
    <2>10. CASE EndRun(w)
      <3>1. worker'[w].pc = "idle" /\ UNCHANGED stored
        BY <1>t, <2>10 DEF EndRun, InitialWorker
      <3> QED
        BY <1>t, <2>2, <2>3, <3>1 DEF HolderInv, StoredInv, Holds
    <2> QED
      BY <1>7, <2>4, <2>6, <2>8, <2>9, <2>10 DEF CalculationStep
  <1>8. CASE Tick
    BY <1>t, <1>8 DEF Tick, LiveHolder, HolderInv, StoredInv, Holds
  <1>9. CASE Switch \/ UNCHANGED vars
    BY <1>1, <1>9 DEF Switch, Holds, vars
  <1> QED
    BY <1>t, <1>2, <1>3, <1>5, <1>6, <1>7, <1>8, <1>9 DEF Next, PollerStep

(* Who calculates holds the slot and read all that is stored, in every       *)
(* behaviour.                                                                *)
LEMMA MonthInvariant == Spec => []MonthInv
  <1>1. Init => MonthInv
    <2> SUFFICES ASSUME Init PROVE HolderInv /\ StoredInv
      BY InitType DEF MonthInv
    <2>1. \A w \in Workers : worker[w].pc = "idle"
      BY DEF Init, InitialWorker
    <2> QED
      BY <2>1 DEF Init, HolderInv, StoredInv, Holds
  <1> QED
    BY <1>1, MonthStep, PTL DEF Spec

(* The rows of the month never give way to older ones, though they are       *)
(* deleted and inserted in two steps: for every number of processes, whoever *)
(* dies in between, whatever call fails, and whoever presses the button.     *)
THEOREM MonthOnlyGoesForward == Spec => MonthNeverGoesBack
  <1>1. MonthInv /\ [Next]_vars => [stored.from \subseteq stored'.from]_vars
    BY MonthStep
  <1> QED
    BY <1>1, MonthInvariant, PTL DEF Spec, MonthNeverGoesBack

(* A step that is no mishap leaves the month whole or being rewritten.       *)
LEMMA TornStep == MonthInv /\ TornOnlyByMishap /\ [Next]_vars => TornOnlyByMishap'
  <1> SUFFICES ASSUME MonthInv, TornOnlyByMishap, [Next]_vars, Unharmed'
               PROVE  stored'.whole \/ \E w \in Workers : worker'[w].pc = "rewriting"
    BY DEF TornOnlyByMishap
  <1>t. /\ TypeOK /\ HolderInv /\ StoredInv
        /\ worker \in [Workers -> WorkerType]
        /\ Pollers \subseteq Workers /\ Button \in Workers
    BY DEF MonthInv, TypeOK, WorkerType, Workers
  <1>u. ~Mishap /\ (stored.whole \/ \E w \in Workers : worker[w].pc = "rewriting")
    BY <1>t, UnharmedStep DEF TornOnlyByMishap
  <1>m. /\ ~(\E p \in Pollers : ClaimFails(p))
        /\ ~(\E w \in Workers : WriteFails(w) \/ Die(w))
        /\ ~(\E l \in Landings : HookFails(l))
    BY <1>u DEF Die, ClaimFails, HookFails, WriteFails
  (* Only a delete and an insert touch what is stored or who rewrites it.    *)
  <1>1. ASSUME UNCHANGED stored,
               \A w \in Workers : worker[w].pc = "rewriting" => worker'[w].pc = "rewriting"
        PROVE  stored'.whole \/ \E w \in Workers : worker'[w].pc = "rewriting"
    BY <1>u, <1>1
  <1>2. ASSUME NEW w \in Workers, DeleteMonth(w) PROVE worker'[w].pc = "rewriting"
    BY <1>t, <1>2 DEF DeleteMonth, WorkerType
  <1>3. ASSUME NEW w \in Workers, InsertRows(w) PROVE stored'.whole
    <2>1. stored = [from |-> worker[w].inputs, whole |-> FALSE]
      BY <1>t, <1>3 DEF InsertRows, StoredInv
    <2> QED
      BY <1>3, <2>1 DEF InsertRows, Inserted
  <1>4. ASSUME NEW w \in Workers,
               \/ ReadInputs(w) \/ EndRun(w)
               \/ w \in Pollers /\ (\/ Scan(w) \/ Claim(w) \/ SwitchedOff(w) \/ TakeSlot(w)
                                    \/ Requeue(w) \/ QueueAgain(w) \/ Boot(w))
        PROVE  stored'.whole \/ \E v \in Workers : worker'[v].pc = "rewriting"
    <2>1. UNCHANGED stored /\ worker[w].pc # "rewriting"
      BY <1>4
      DEF ReadInputs, EndRun, Scan, Claim, SwitchedOff, TakeSlot, Requeue, QueueAgain, Boot
    <2>2. \A v \in Workers \ {w} : worker'[v] = worker[v]
      BY <1>t, <1>4
      DEF ReadInputs, EndRun, Scan, Claim, SwitchedOff, TakeSlot, Requeue, QueueAgain, Boot
    <2> QED
      BY <1>1, <2>1, <2>2
  <1>5. CASE PressButton
    <2>1. UNCHANGED stored /\ worker[Button].pc # "rewriting"
          /\ \A v \in Workers \ {Button} : worker'[v] = worker[v]
      BY <1>t, <1>5 DEF PressButton
    <2> QED
      BY <1>1, <2>1
  <1>6. CASE UNCHANGED <<stored, worker>>
    BY <1>1, <1>6
  <1> QED
    BY <1>t, <1>m, <1>2, <1>3, <1>4, <1>5, <1>6
    DEF Next, PollerStep, CalculationStep, Land, LanderStep, Hook, ReadRequest, QueueLanding,
        Switch, Tick, vars

(* The month that nobody is rewriting is all of one calculation's rows, for  *)
(* every number of processes and presses, as long as no process has died and *)
(* no call has failed.                                                       *)
THEOREM MonthIsWhole == Spec => []TornOnlyByMishap
  <1>1. Init => TornOnlyByMishap
    BY DEF Init, TornOnlyByMishap
  <1> QED
    BY <1>1, TornStep, MonthInvariant, PTL DEF Spec

-----------------------------------------------------------------------------
(* Every step lets one calculation in, lets one out, or shows nothing: who   *)
(* is at work holds the slot, so at most one is.                             *)
LEMMA AutoFlightStep == SlotInv /\ [Next]_vars => [Flight!Next]_AtWork
  <1> SUFFICES ASSUME SlotInv, [Next]_vars PROVE [Flight!Next]_AtWork
    OBVIOUS
  <1>t. /\ now \in Nat /\ slotSince \in Nat /\ MaxRun \in Nat /\ HolderInv
        /\ worker \in [Workers -> WorkerType]
        /\ \A w \in Workers : w # Free
        /\ Pollers \subseteq Workers /\ Button \in Workers
    BY AutoCalcAssumption DEF SlotInv, TypeOK, WorkerType, Workers, Free, Button
  <1>e. \A r \in AtWork : r \in Workers /\ slot = r /\ now - slotSince <= MaxRun
    BY <1>t DEF AtWork, HolderInv
  <1>o. SlotOpen => AtWork = {}
    BY <1>e, <1>t DEF SlotOpen
  <1>i. ASSUME NEW r \in Workers, SlotOpen, worker'[r].pc = "slot",
               \A v \in Workers \ {r} : worker'[v] = worker[v]
        PROVE  Flight!Next
    <2>1. AtWork' = {r}
      BY <1>i, <1>o DEF AtWork, Holds
    <2> QED
      BY <1>i, <1>o, <2>1 DEF Flight!Next, Flight!Enter
  <1>1. ASSUME \A v \in Workers : Holds(v)' <=> Holds(v) PROVE UNCHANGED AtWork
    BY <1>1 DEF AtWork
  (* One worker at most changes its place.                                   *)
  <1>2. ASSUME NEW w \in Workers, \A v \in Workers \ {w} : worker'[v] = worker[v],
               Holds(w)' => Holds(w)
        PROVE  Flight!Next \/ UNCHANGED AtWork
    <2>1. CASE Holds(w)' <=> Holds(w)
      BY <1>1, <1>2, <2>1 DEF Holds
    <2>2. CASE Holds(w) /\ ~Holds(w)'
      <3>1. w \in AtWork /\ AtWork = {w}
        BY <1>e, <2>2 DEF AtWork
      <3>2. AtWork' = {}
        <4>1. \A v \in Workers \ {w} : ~Holds(v)
          BY <3>1 DEF AtWork
        <4> QED
          BY <1>2, <2>2, <4>1 DEF AtWork, Holds
      <3> QED
        BY <3>1, <3>2 DEF Flight!Next, Flight!Leave
    <2> QED
      BY <1>2, <2>1, <2>2
  <1>3. ASSUME NEW w \in Workers, CalculationStep(w) \/ WriteFails(w)
        PROVE  Flight!Next \/ UNCHANGED AtWork
    <2>1. Holds(w) /\ \A v \in Workers \ {w} : worker'[v] = worker[v]
      BY <1>t, <1>3
      DEF CalculationStep, ReadInputs, DeleteMonth, InsertRows, EndRun, WriteFails, Holds
    <2> QED
      BY <1>2, <2>1
  <1>4. ASSUME NEW w \in Workers,
               \/ w \in Pollers /\ (\/ Scan(w) \/ Claim(w) \/ SwitchedOff(w) \/ Requeue(w)
                                    \/ QueueAgain(w) \/ ClaimFails(w) \/ Boot(w))
               \/ Die(w)
        PROVE  Flight!Next \/ UNCHANGED AtWork
    <2>1. \A v \in Workers \ {w} : worker'[v] = worker[v]
      BY <1>t, <1>4 DEF Scan, Claim, SwitchedOff, Requeue, QueueAgain, ClaimFails, Die, Boot
    <2>2. ~Holds(w)'
      BY <1>t, <1>4
      DEF Scan, Claim, SwitchedOff, Requeue, QueueAgain, ClaimFails, Die, Boot, Holds,
          InitialWorker, WorkerType
    <2> QED
      BY <1>2, <2>1, <2>2
  <1>5. ASSUME NEW p \in Pollers, TakeSlot(p) PROVE Flight!Next \/ UNCHANGED AtWork
    <2>1. \A v \in Workers \ {p} : worker'[v] = worker[v]
      BY <1>t, <1>5 DEF TakeSlot
    <2>2. CASE SlotOpen
      <3>1. worker'[p].pc = "slot"
        BY <1>t, <1>5, <2>2 DEF TakeSlot, WorkerType
      <3> QED
        BY <1>t, <1>i, <2>1, <2>2, <3>1
    <2>3. CASE ~SlotOpen
      <3>1. ~Holds(p)'
        BY <1>t, <1>5, <2>3 DEF TakeSlot, Holds, WorkerType
      <3> QED
        BY <1>t, <1>2, <2>1, <3>1
    <2> QED
      BY <2>2, <2>3
  <1>6. CASE PressButton
    <2>1. /\ SlotOpen /\ worker'[Button].pc = "slot"
          /\ \A v \in Workers \ {Button} : worker'[v] = worker[v]
      BY <1>t, <1>6 DEF PressButton, WorkerType
    <2> QED
      BY <1>t, <1>i, <2>1
  <1>7. CASE UNCHANGED worker
    BY <1>1, <1>7 DEF Holds
  <1> QED
    BY <1>t, <1>3, <1>4, <1>5, <1>6, <1>7
    DEF Next, PollerStep, Land, LanderStep, Hook, ReadRequest, QueueLanding, HookFails, Switch,
        Tick, vars

(* The slot the queue works with is the abstract one, the same the guard     *)
(* implements: whoever presses, dies or fails, a calculation comes to work   *)
(* only when the one before has left.                                        *)
THEOREM SlotIsSingleFlight == Spec => KeepsToTheSlot
  <1>1. Init => Flight!Init
    BY DEF Init, InitialWorker, Holds, AtWork, Flight!Init
  <1>2. MonthInv => SlotInv
    BY DEF MonthInv, SlotInv
  <1> QED
    BY <1>1, <1>2, MonthInvariant, AutoFlightStep, PTL DEF Spec, KeepsToTheSlot, Flight!Spec

-----------------------------------------------------------------------------
(* Seen from the landers, every step queues one landing, answers some, or    *)
(* shows nothing.                                                            *)
LEMMA PromiseStep == TypeOK /\ [Next]_vars => [Promise!Next]_(Promise!vars)
  <1> SUFFICES ASSUME TypeOK, [Next]_vars PROVE Promise!Next \/ UNCHANGED <<Queued, answered>>
    BY DEF Promise!vars
  <1>t. /\ lander \in [Landings -> LanderType]
        /\ \A w \in Workers : /\ worker[w].inputs \in SUBSET Landings
                              /\ worker[w].covers \in SUBSET Landings
        /\ Pollers \subseteq Workers /\ Button \in Workers
    BY DEF TypeOK, LanderType, Workers
  <1>1. ASSUME NEW l \in Landings, QueueLanding(l) PROVE Promise!Queue(l)
    <2>1. l \notin Queued /\ answered' = answered
      BY <1>1 DEF QueueLanding, Queued
    <2>2. Queued' = Queued \cup {l}
      <3>1. lander'[l].pc = "queued" /\ \A m \in Landings \ {l} : lander'[m] = lander[m]
        BY <1>t, <1>1 DEF QueueLanding, LanderType, Outside
      <3> QED
        BY <3>1 DEF Queued
    <2> QED
      BY <2>1, <2>2 DEF Promise!Queue
  <1>2. ASSUME NEW l \in Landings, Land(l) \/ Hook(l) \/ ReadRequest(l) \/ HookFails(l)
        PROVE  UNCHANGED <<Queued, answered>>
    <2>1. /\ lander[l].pc # "queued" /\ lander'[l].pc # "queued"
          /\ \A m \in Landings \ {l} : lander'[m] = lander[m]
          /\ answered' = answered
      BY <1>t, <1>2 DEF Land, Hook, ReadRequest, HookFails, LanderType, Outside
    <2> QED
      BY <2>1 DEF Queued
  <1>3. ASSUME NEW w \in Workers, (w \in Pollers /\ SwitchedOff(w)) \/ EndRun(w)
        PROVE  \E S \in SUBSET Landings : Promise!Answer(S)
    <2>1. Queued' = Queued
      BY <1>3 DEF SwitchedOff, EndRun, Queued
    <2>2. PICK S \in SUBSET Landings : answered' = answered \cup S
      <3>1. \E S \in {worker[w].covers, {l \in worker[w].inputs : w \in Pollers}} :
               answered' = answered \cup S
        BY <1>3 DEF SwitchedOff, EndRun
      <3> QED
        BY <1>t, <3>1
    <2> QED
      BY <2>1, <2>2 DEF Promise!Answer
  <1>4. CASE UNCHANGED <<lander, answered>>
    BY <1>4 DEF Queued
  <1> QED
    BY <1>1, <1>2, <1>3, <1>4
    DEF Promise!Next, Next, Workers, LanderStep, PollerStep, Scan, Claim, TakeSlot,
        CalculationStep, ReadInputs, DeleteMonth, InsertRows, Requeue, QueueAgain, ClaimFails,
        WriteFails, Die, Boot, PressButton, Switch, Tick, vars

(* Auto-calculation implements the steps of its promise: a landing is told   *)
(* "queued" once and an answer is never taken back.  (That the answer comes  *)
(* is a liveness property, checked by TLC.)                                  *)
THEOREM ImplementsPromiseSteps == Spec => Promise!Steps
  <1>1. Init => Promise!Init
    BY DEF Init, Promise!Init, Queued, Outside
  <1> QED
    BY <1>1, PromiseStep, AutoTypeCorrect, PTL DEF Spec, Promise!Steps
===============================================================================
