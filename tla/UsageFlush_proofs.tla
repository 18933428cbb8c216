--------------------------- MODULE UsageFlush_proofs ---------------------------
(* Proofs about UsageFlush, for any number of calls, processes and mishaps.    *)
EXTENDS UsageFlush, TLAPS

Flush == [pc : {"idle", "due", "writing", "failed"}, batch : SUBSET Calls]

(* A flush thread holds nothing before it drains, the thread of stop() is   *)
(* there only while its process stops, and without mishaps no RPC failed    *)
(* and a stop that has drained leaves nothing in the accumulator.           *)
FlushShape ==
    /\ \A p \in Processes, f \in Flushers : flush[p][f].pc \in {"idle", "due"} => flush[p][f].batch = {}
    /\ \A p \in Processes : life[p] # "stopping" => flush[p]["stop"].pc = "idle"
    /\ budget <= Mishaps
    /\ Calm => \A p \in Processes, f \in Flushers : flush[p][f].pc # "failed"
    /\ Calm => \A p \in Processes :
          life[p] = "stopping" /\ flush[p]["stop"].pc # "due" => pending[p] = {}
    /\ StopLosesNothing

BasicInv == MeterTypeOK /\ FlushShape

LEMMA BasicInit == MeterInit => BasicInv
BY MeterAssumption DEF MeterInit, BasicInv, MeterTypeOK, FlushShape, Idle, Flushers, StopLosesNothing

LEMMA BasicStep == BasicInv /\ [MeterNext]_vars => BasicInv'
<1> SUFFICES ASSUME BasicInv, [MeterNext]_vars PROVE BasicInv'
  OBVIOUS
<1> USE MeterAssumption DEF BasicInv, MeterTypeOK, FlushShape, Flushers, StopLosesNothing, Calm, Idle
<1>1. ASSUME NEW p \in Processes, NEW c \in Calls, Add(p, c) PROVE BasicInv'
  BY <1>1 DEF Add
<1>2. ASSUME NEW p \in Processes, Tick(p) PROVE BasicInv'
  BY <1>2 DEF Tick
<1>3. ASSUME NEW p \in Processes, NEW f \in Flushers, Drain(p, f) PROVE BasicInv'
  BY <1>3 DEF Drain
<1>4. ASSUME NEW p \in Processes, NEW f \in Flushers, Write(p, f) PROVE BasicInv'
  BY <1>4 DEF Write, Bump
<1>5. ASSUME NEW p \in Processes, NEW f \in Flushers, RpcFails(p, f) PROVE BasicInv'
  <2>1. billed' \in [Calls -> Nat] /\ unsure' \subseteq Calls
    BY <1>5 DEF RpcFails, Bump
  <2>2. flush' \in [Processes -> [Flushers -> Flush]]
    BY <1>5 DEF RpcFails, Flush
  <2>3. \A q \in Processes, g \in Flushers :
          /\ flush'[q][g].batch = flush[q][g].batch
          /\ flush'[q][g].pc # "failed" => flush'[q][g] = flush[q][g]
          /\ q # p \/ g # f => flush'[q][g] = flush[q][g]
    BY <1>5 DEF RpcFails, Flush
  <2>4. flush[p][f].pc = "writing"
    BY <1>5 DEF RpcFails
  <2>5. budget' \in Nat /\ budget' < Mishaps /\ UNCHANGED <<life, pending, counted, swallowed, lost>>
    BY <1>5 DEF RpcFails, Mishap
  <2>6. MeterTypeOK'
    BY <2>1, <2>2, <2>5 DEF Flush
  <2>7. ~Calm'
    BY <2>5
  <2>8. \A q \in Processes, g \in Flushers : flush'[q][g].pc \in {"idle", "due"} => flush'[q][g].batch = {}
    BY <2>3
  <2>9. \A q \in Processes : life'[q] # "stopping" => flush'[q]["stop"].pc = "idle"
    BY <2>3, <2>4, <2>5
  <2> QED BY <2>5, <2>6, <2>7, <2>8, <2>9
<1>6. ASSUME NEW p \in Processes, NEW f \in Flushers, Restore(p, f) PROVE BasicInv'
  BY <1>6 DEF Restore
<1>7. ASSUME NEW p \in Processes, Stop(p) PROVE BasicInv'
  <2>1. flush' \in [Processes -> [Flushers -> Flush]]
    BY <1>7 DEF Stop, Flush
  <2>2. /\ \A q \in Processes, g \in Flushers :
             /\ flush'[q][g].batch = flush[q][g].batch
             /\ q # p => flush'[q][g] = flush[q][g]
        /\ flush'[p]["stop"].pc = "due"
        /\ \/ flush'[p]["tick"].pc = flush[p]["tick"].pc
           \/ flush'[p]["tick"].pc = "idle" /\ flush[p]["tick"].pc = "due"
    BY <1>7 DEF Stop, Flush
  <2>3. life[p] = "up" /\ life' = [life EXCEPT ![p] = "stopping"]
    BY <1>7 DEF Stop
  <2>4. UNCHANGED <<pending, billed, budget, counted, unsure, swallowed, lost>>
    BY <1>7 DEF Stop
  <2>5. MeterTypeOK'
    BY <2>1, <2>3, <2>4 DEF Flush
  <2>6. \A q \in Processes, g \in Flushers : flush'[q][g].pc \in {"idle", "due"} => flush'[q][g].batch = {}
    BY <2>2, <2>3
  <2>7. \A q \in Processes : life'[q] # "stopping" => flush'[q]["stop"].pc = "idle"
    BY <2>2, <2>3
  <2>8. Calm' => \A q \in Processes, g \in Flushers : flush'[q][g].pc # "failed"
    BY <2>2, <2>4
  <2>9. Calm' => \A q \in Processes :
          life'[q] = "stopping" /\ flush'[q]["stop"].pc # "due" => pending'[q] = {}
    BY <2>2, <2>3, <2>4
  <2> QED BY <2>4, <2>5, <2>6, <2>7, <2>8, <2>9
<1>8. ASSUME NEW p \in Processes, Exit(p) PROVE BasicInv'
  BY <1>8 DEF Exit
<1>9. ASSUME NEW p \in Processes, Crash(p) PROVE BasicInv'
  BY <1>9 DEF Crash, Bump, Mishap
<1>10. ASSUME NEW p \in Processes, Boot(p) PROVE BasicInv'
  BY <1>10 DEF Boot
<1>11. CASE UNCHANGED vars
  BY <1>11 DEF vars
<1> QED
  BY <1>1, <1>2, <1>3, <1>4, <1>5, <1>6, <1>7, <1>8, <1>9, <1>10, <1>11 DEF MeterNext, FlushStep

-----------------------------------------------------------------------------
(* Where a call is, place by place.                                          *)

Batch(p, f) == flush[p][f].batch

Nowhere(c) == \A p \in Processes : c \notin pending[p] /\ \A f \in Flushers : c \notin Batch(p, f)

OnePlace(c) ==
    /\ \A p, q \in Processes : c \in pending[p] /\ c \in pending[q] => p = q
    /\ \A p, q \in Processes, f \in Flushers : ~(c \in pending[p] /\ c \in Batch(q, f))
    /\ \A p, q \in Processes, f, g \in Flushers :
          c \in Batch(p, f) /\ c \in Batch(q, g) => p = q /\ f = g

CallInv(c) ==
    /\ c \notin counted => billed[c] = 0 /\ Nowhere(c) /\ c \notin unsure
    /\ c \in counted => billed[c] > 0 \/ ~Nowhere(c) \/ c \in swallowed \cup lost
    /\ c \notin unsure => billed[c] <= 1 /\ (billed[c] = 1 => Nowhere(c)) /\ OnePlace(c)

(* The two readings of a place agree.                                        *)
LEMMA PlaceByPlace ==
    ASSUME NEW c \in Calls
    PROVE  /\ Held(c) <=> ~Nowhere(c)
           /\ OnePlace(c) => \A a, b \in Places : In(a, c) /\ In(b, c) => a = b
<1>1. \A p \in Processes : /\ In(<<p, "pending">>, c) <=> c \in pending[p]
                          /\ \A f \in Flushers : In(<<p, f>>, c) <=> c \in Batch(p, f)
  BY DEF In, Batch, Flushers
<1>2. ASSUME NEW a \in Places
      PROVE  \/ \E p \in Processes : a = <<p, "pending">> /\ (In(a, c) <=> c \in pending[p])
             \/ \E p \in Processes, f \in Flushers : a = <<p, f>> /\ (In(a, c) <=> c \in Batch(p, f))
  <2>1. PICK p \in Processes, x \in Flushers \cup {"pending"} : a = <<p, x>>
    BY DEF Places
  <2> QED BY <1>1, <2>1
<1>3. \A p \in Processes : <<p, "pending">> \in Places /\ \A f \in Flushers : <<p, f>> \in Places
  BY DEF Places
<1>4. Held(c) <=> ~Nowhere(c)
  <2>1. ASSUME NEW a \in Places, In(a, c) PROVE ~Nowhere(c)
    BY <1>2, <2>1 DEF Nowhere
  <2>2. ASSUME ~Nowhere(c) PROVE Held(c)
    BY <1>1, <1>3, <2>2 DEF Nowhere, Held
  <2> QED BY <2>1, <2>2 DEF Held
<1>5. ASSUME OnePlace(c), NEW a \in Places, NEW b \in Places, In(a, c), In(b, c) PROVE a = b
  <2>1. \/ \E p \in Processes : a = <<p, "pending">> /\ c \in pending[p]
        \/ \E p \in Processes, f \in Flushers : a = <<p, f>> /\ c \in Batch(p, f)
    BY <1>2, <1>5
  <2>2. \/ \E p \in Processes : b = <<p, "pending">> /\ c \in pending[p]
        \/ \E p \in Processes, f \in Flushers : b = <<p, f>> /\ c \in Batch(p, f)
    BY <1>2, <1>5
  <2> QED BY <1>5, <2>1, <2>2 DEF OnePlace
<1> QED BY <1>4, <1>5

LEMMA CallStep ==
    ASSUME BasicInv, [MeterNext]_vars, NEW c \in Calls, CallInv(c)
    PROVE  CallInv(c)'
<1>t. /\ pending \in [Processes -> SUBSET Calls]
      /\ flush \in [Processes -> [Flushers -> Flush]]
      /\ billed \in [Calls -> Nat]
      /\ \A p \in Processes, f \in Flushers : flush[p][f].pc \in {"idle", "due"} => Batch(p, f) = {}
  BY DEF BasicInv, MeterTypeOK, FlushShape, Flush, Batch
<1> USE <1>t DEF CallInv, OnePlace, Nowhere, Batch, Flush
<1>1. ASSUME NEW p \in Processes, NEW d \in Calls, Add(p, d) PROVE CallInv(c)'
  BY <1>1 DEF Add
<1>2. ASSUME NEW p \in Processes, NEW f \in Flushers, Drain(p, f) PROVE CallInv(c)'
  <2>1. /\ Batch(p, f) = {}
        /\ pending' = [pending EXCEPT ![p] = {}]
        /\ UNCHANGED <<billed, counted, unsure, swallowed, lost>>
    BY <1>2 DEF Drain
  <2>2. Batch(p, f)' = pending[p]
    BY <1>2 DEF Drain, Idle
  <2>3. \A q \in Processes, g \in Flushers : q # p \/ g # f => Batch(q, g)' = Batch(q, g)
    BY <1>2 DEF Drain
  <2>4. \A q \in Processes : pending'[q] = IF q = p THEN {} ELSE pending[q]
    BY <2>1
  <2> HIDE <1>t DEF Batch, Flush
  <2>5. Nowhere(c)' <=> Nowhere(c)
    <3>1. ASSUME Nowhere(c) PROVE Nowhere(c)'
      BY <2>1, <2>2, <2>3, <2>4, <3>1
    <3>2. ASSUME ~Nowhere(c) PROVE ~Nowhere(c)'
      BY <2>1, <2>2, <2>3, <2>4, <3>2
    <3> QED BY <3>1, <3>2
  <2>6. OnePlace(c) => OnePlace(c)'
    BY <2>1, <2>2, <2>3, <2>4
  <2> HIDE DEF OnePlace, Nowhere
  <2> QED BY <2>1, <2>5, <2>6
<1>3. ASSUME NEW p \in Processes, NEW f \in Flushers, Write(p, f) PROVE CallInv(c)'
  <2>1. Batch(p, f)' = {} /\ \A q \in Processes, g \in Flushers : q # p \/ g # f => Batch(q, g)' = Batch(q, g)
    BY <1>3 DEF Write, Idle
  <2>2. UNCHANGED <<pending, counted, unsure, lost>>
    BY <1>3 DEF Write
  <2>3. /\ \/ billed'[c] = billed[c] /\ (c \in Batch(p, f) => c \in swallowed')
           \/ c \in Batch(p, f) /\ billed'[c] = billed[c] + 1
        /\ swallowed \subseteq swallowed'
    BY <1>3 DEF Write, Bump
  <2>4. billed[c] \in Nat
    OBVIOUS
  <2> HIDE <1>t DEF Batch, Flush
  <2>5. CASE c \notin Batch(p, f)
    <3>1. Nowhere(c)' <=> Nowhere(c)
      BY <2>1, <2>2, <2>5
    <3>2. OnePlace(c) => OnePlace(c)'
      BY <2>1, <2>2, <2>5
    <3> HIDE DEF Nowhere, OnePlace
    <3> QED BY <2>2, <2>3, <2>5, <3>1, <3>2
  <2>6. CASE c \in Batch(p, f)
    <3>1. OnePlace(c) => OnePlace(c)' /\ Nowhere(c)'
      BY <2>1, <2>2, <2>6
    <3>2. c \in counted /\ ~Nowhere(c)
      BY <2>6
    <3> HIDE DEF Nowhere, OnePlace
    <3> QED BY <2>2, <2>3, <2>4, <2>6, <3>1, <3>2
  <2> QED BY <2>5, <2>6
<1>4. ASSUME NEW p \in Processes, NEW f \in Flushers, RpcFails(p, f) PROVE CallInv(c)'
  <2>1. \A q \in Processes, g \in Flushers : Batch(q, g)' = Batch(q, g)
    BY <1>4 DEF RpcFails
  <2>2. UNCHANGED <<pending, counted, swallowed, lost>>
    BY <1>4 DEF RpcFails
  <2>3. \/ billed'[c] = billed[c] /\ (c \in unsure' <=> c \in unsure)
        \/ c \in Batch(p, f) /\ billed'[c] > 0 /\ c \in unsure'
    BY <1>4 DEF RpcFails, Bump
  <2> HIDE <1>t DEF Batch, Flush
  <2> QED BY <2>1, <2>2, <2>3
<1>5. ASSUME NEW p \in Processes, NEW f \in Flushers, Restore(p, f) PROVE CallInv(c)'
  BY <1>5 DEF Restore, Idle
<1>6. ASSUME NEW p \in Processes, Tick(p) \/ Stop(p) PROVE CallInv(c)'
  <2>1. \A q \in Processes, g \in Flushers : Batch(q, g)' = Batch(q, g)
    <3>1. CASE Tick(p)
      BY <3>1 DEF Tick
    <3>2. CASE Stop(p)
      BY <3>2 DEF Stop
    <3> QED BY <1>6, <3>1, <3>2
  <2>2. UNCHANGED <<pending, billed, counted, unsure, swallowed, lost>>
    BY <1>6 DEF Tick, Stop
  <2> HIDE <1>t DEF Batch, Flush
  <2> QED BY <2>1, <2>2
<1>7. ASSUME NEW p \in Processes, Exit(p) PROVE CallInv(c)'
  BY <1>7 DEF Exit
<1>8. ASSUME NEW p \in Processes, Crash(p) PROVE CallInv(c)'
  <2>1. /\ pending'[p] = {} /\ \A q \in Processes \ {p} : pending'[q] = pending[q]
        /\ \A f \in Flushers : Batch(p, f)' = {}
        /\ \A q \in Processes \ {p}, f \in Flushers : Batch(q, f)' = Batch(q, f)
    BY <1>8 DEF Crash, Idle
  <2>2. UNCHANGED <<counted, unsure, swallowed>> /\ lost \subseteq lost'
    BY <1>8 DEF Crash
  <2>3. c \in pending[p] \/ (\E f \in Flushers : c \in Batch(p, f)) => c \in lost'
    BY <1>8 DEF Crash
  <2>4. \/ billed'[c] = billed[c]
        \/ billed'[c] = billed[c] + 1 /\ \E f \in Flushers : c \in Batch(p, f)
    BY <1>8 DEF Crash, Bump
  <2>5. billed[c] \in Nat
    OBVIOUS
  <2> HIDE <1>t DEF Batch, Flush
  <2>6. OnePlace(c) => OnePlace(c)'
    BY <2>1
  <2>7. Nowhere(c) => Nowhere(c)'
    BY <2>1
  <2>8. ~Nowhere(c) => ~Nowhere(c)' \/ c \in lost'
    BY <2>1, <2>3
  <2>9. (\E f \in Flushers : c \in Batch(p, f)) /\ OnePlace(c) => Nowhere(c)'
    BY <2>1
  <2>10. (\E f \in Flushers : c \in Batch(p, f)) => ~Nowhere(c)
    OBVIOUS
  <2> HIDE DEF Nowhere, OnePlace
  <2> QED BY <2>2, <2>4, <2>5, <2>6, <2>7, <2>8, <2>9, <2>10
<1>9. ASSUME NEW p \in Processes, Boot(p) PROVE CallInv(c)'
  BY <1>9 DEF Boot
<1>10. CASE UNCHANGED vars
  BY <1>10 DEF vars
<1> QED
  BY <1>1, <1>2, <1>3, <1>4, <1>5, <1>6, <1>7, <1>8, <1>9, <1>10 DEF MeterNext, FlushStep

LEMMA MeterInvariant == MeterSpec => [](BasicInv /\ \A c \in Calls : CallInv(c))
<1>1. MeterInit => BasicInv /\ \A c \in Calls : CallInv(c)
  BY BasicInit DEF MeterInit, CallInv, Nowhere, OnePlace, Batch, Idle, Flushers
<1>2. (BasicInv /\ \A c \in Calls : CallInv(c)) /\ [MeterNext]_vars => (BasicInv /\ \A c \in Calls : CallInv(c))'
  BY BasicStep, CallStep
<1> QED BY <1>1, <1>2, PTL DEF MeterSpec

(* The counters, the threads and the table keep their types.                *)
THEOREM MeterTypeCorrect == MeterSpec => []MeterTypeOK
<1>1. BasicInv => MeterTypeOK
  BY DEF BasicInv
<1> QED BY <1>1, MeterInvariant, PTL

(* Without mishaps a stop loses nothing, whatever flush is running.         *)
THEOREM GracefulStop == MeterSpec => []StopLosesNothing
<1>1. BasicInv => StopLosesNothing
  BY DEF BasicInv, FlushShape
<1> QED BY <1>1, MeterInvariant, PTL

(* No counted call is dropped on the way to the table, but by the end of    *)
(* its process or by the RPC that passes its row over.                      *)
THEOREM NothingDropped == MeterSpec => []CountedIsAccounted
<1>1. BasicInv /\ (\A c \in Calls : CallInv(c)) => CountedIsAccounted
  <2> SUFFICES ASSUME BasicInv, \A c \in Calls : CallInv(c), NEW c \in counted
               PROVE  billed[c] > 0 \/ Held(c) \/ c \in swallowed \cup lost
    BY DEF CountedIsAccounted
  <2>1. c \in Calls
    BY DEF BasicInv, MeterTypeOK
  <2> QED BY <2>1, PlaceByPlace DEF CallInv
<1> QED BY <1>1, MeterInvariant, PTL

(* No call is added twice unless an RPC committed whose caller saw it fail. *)
THEOREM BilledOnce == MeterSpec => []OnePlaceUnlessUnsure
<1>1. BasicInv /\ (\A c \in Calls : CallInv(c)) => OnePlaceUnlessUnsure
  BY PlaceByPlace DEF CallInv, OnePlaceUnlessUnsure
<1> QED BY <1>1, MeterInvariant, PTL
=============================================================================
