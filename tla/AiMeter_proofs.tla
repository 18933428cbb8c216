----------------------------- MODULE AiMeter_proofs -----------------------------
(* Proofs about AiMeter, for any sets of calls and threads and any ceiling.    *)
EXTENDS AiMeter, FiniteSetTheorems, TLAPS

Attempt == [pc : {"idle", "looking", "spending", "refused", "done", "gone"},
            seen : [Rows -> Nat], allow : BOOLEAN, ahead : SUBSET Attempts, alone : BOOLEAN]

FlushType == [pc : {"idle", "writing", "restoring"}, rows : SUBSET Rows, failed : SUBSET Rows]

(* The types, apart from the ceiling, which needs to count.                 *)
Typed ==
    /\ attempt \in [Attempts -> Attempt]
    /\ recorded \in SUBSET Features
    /\ buffer \in SUBSET Rows
    /\ flush \in [Threads -> FlushType]
    /\ table \in [Rows -> Nat]
    /\ dropped \in Nat /\ budget \in Nat
    /\ unsure \in SUBSET Rows
    /\ lost \in SUBSET Rows

(* An idle flush holds nothing, a restoring one has nothing left to insert, *)
(* and no row is both to be inserted and failed.                            *)
FlushShape ==
    \A t \in Threads :
        /\ flush[t].pc = "idle" => Hands(t) = {}
        /\ flush[t].pc = "restoring" => flush[t].rows = {}
        /\ flush[t].rows \cap flush[t].failed = {}

(* A row that was not handed over is nowhere; one whose inserts all told    *)
(* the truth is in one place.                                               *)
RowInv(r) ==
    /\ r \notin Offered => table[r] = 0 /\ r \notin buffer /\ \A t \in Threads : r \notin Hands(t)
    /\ r \notin unsure =>
          /\ table[r] <= 1
          /\ table[r] = 1 => r \notin buffer /\ \A t \in Threads : r \notin Hands(t)
          /\ \A t \in Threads : r \in Hands(t) =>
                r \notin buffer /\ \A u \in Threads \ {t} : r \notin Hands(u)

AiInv ==
    /\ Typed
    /\ FlushShape
    /\ \A r \in Rows : RowInv(r)
    /\ Cardinality(buffer) <= MaxPending
    /\ DropsAreCounted

(* While a look is quiet and nothing has failed or been dropped, no flush    *)
(* runs, and every call allowed so far is unaudited, was seen stored, or is  *)
(* in the buffer still.                                                      *)
SoundLook(a) ==
    attempt[a].pc = "looking" /\ attempt[a].alone /\ Calm /\ dropped = 0 =>
        /\ \A t \in Threads : flush[t].pc = "idle"
        /\ \A b \in Allowed : \/ attempt[b].pc = "spending"
                              \/ attempt[a].seen[b] # 0 \/ b \in buffer

CapInv ==
    /\ AiInv
    /\ budget <= Mishaps
    /\ Calm => lost = {} /\ \A a \in Attempts : attempt[a].pc # "gone"
    /\ \A a \in Attempts : attempt[a].allow => attempt[a].pc \in {"spending", "done", "gone"}
    /\ \A a \in Attempts : SoundLook(a)
    /\ QuietCallKeepsTheCap

-----------------------------------------------------------------------------
(* Counting.                                                                 *)

LEMMA RowsFinite == \A S \in SUBSET Rows : IsFiniteSet(S) /\ Cardinality(S) \in Nat
<1>1. IsFiniteSet(Rows)
  BY AiAssumption, FS_Union DEF Rows
<1> QED
  BY <1>1, FS_Subset, FS_CardinalityType

(* A smaller set of rows counts less.                                       *)
LEMMA Fewer ==
    ASSUME NEW S \in SUBSET Rows, NEW T \in SUBSET S
    PROVE  Cardinality(T) <= Cardinality(S)
BY RowsFinite, FS_Subset

LEMMA OneMore ==
    ASSUME NEW S \in SUBSET Rows, NEW r \in Rows
    PROVE  Cardinality(S \cup {r}) <= Cardinality(S) + 1
BY RowsFinite, FS_AddElement

LEMMA AtMostTheSum ==
    ASSUME NEW S \in SUBSET Rows, NEW T \in SUBSET Rows
    PROVE  Cardinality(S \cup T) <= Cardinality(S) + Cardinality(T)
<1>1. /\ Cardinality(S \cup T) = Cardinality(S) + Cardinality(T) - Cardinality(S \cap T)
      /\ Cardinality(S) \in Nat /\ Cardinality(T) \in Nat /\ Cardinality(S \cap T) \in Nat
  BY RowsFinite, FS_Union
<1> QED BY <1>1

LEMMA TheRest ==
    ASSUME NEW S \in SUBSET Rows, NEW T \in SUBSET S
    PROVE  Cardinality(S \ T) = Cardinality(S) - Cardinality(T)
<1>1. /\ Cardinality((S \ T) \cup T) = Cardinality(S \ T) + Cardinality(T) - Cardinality((S \ T) \cap T)
      /\ Cardinality(S) \in Nat /\ Cardinality(T) \in Nat /\ Cardinality(S \ T) \in Nat
  BY RowsFinite, FS_Union
<1>2. (S \ T) \cup T = S /\ (S \ T) \cap T = {}
  OBVIOUS
<1> QED BY <1>1, <1>2, FS_EmptySet

-----------------------------------------------------------------------------
(* The type of each step.                                                    *)

LEMMA GotoType ==
    ASSUME NEW rows \in SUBSET Rows, NEW failed \in SUBSET Rows
    PROVE  /\ Goto(rows, failed) \in FlushType
           /\ Goto(rows, failed).rows = rows /\ Goto(rows, failed).failed = failed
           /\ Goto(rows, failed).pc = "idle" => rows = {} /\ failed = {}
           /\ Goto(rows, failed).pc = "restoring" => rows = {}
BY DEF Goto, FlushType

LEMMA EnqueueType ==
    ASSUME Typed, NEW r \in Rows, Enqueue(r)
    PROVE  /\ buffer' \in SUBSET Rows /\ dropped' \in Nat
           /\ \/ buffer' = buffer /\ dropped' = dropped + 1
              \/ buffer' = buffer \cup {r} /\ dropped' = dropped /\ Cardinality(buffer) < MaxPending
<1>1. Cardinality(buffer) \in Nat /\ MaxPending \in Nat
  BY RowsFinite, AiAssumption DEF Typed
<1> QED BY <1>1 DEF Enqueue, Typed

LEMMA InsertedType ==
    ASSUME Typed, NEW batch
    PROVE  /\ Inserted(batch) \in [Rows -> Nat]
           /\ \A r \in Rows : Inserted(batch)[r] = IF r \in batch THEN table[r] + 1 ELSE table[r]
BY DEF Inserted, Typed

-----------------------------------------------------------------------------
(* The steps, by what they do to the rows.                                   *)

LEMMA InvInit == AiInit => AiInv
<1> SUFFICES ASSUME AiInit PROVE AiInv
  OBVIOUS
<1>1. Typed
  BY AiAssumption DEF AiInit, Typed, Attempt, FlushType, IdleFlush, Nothing, Rows
<1>2. FlushShape
  BY DEF AiInit, FlushShape, IdleFlush, Hands
<1>3. \A r \in Rows : RowInv(r)
  BY DEF AiInit, RowInv, IdleFlush, Hands
<1>4. Cardinality(buffer) <= MaxPending
  BY FS_EmptySet, AiAssumption DEF AiInit
<1>5. Missing = {}
  BY DEF AiInit, Missing, Offered
<1>6. DropsAreCounted
  BY <1>5, FS_EmptySet DEF DropsAreCounted, AiInit
<1> QED BY <1>1, <1>2, <1>3, <1>4, <1>6 DEF AiInv

(* A row is handed over.                                                    *)
LEMMA Offer ==
    ASSUME AiInv, NEW r \in Rows, r \notin Offered, Enqueue(r), Offered' = Offered \cup {r},
           UNCHANGED <<flush, table, unsure, lost>>
    PROVE  /\ FlushShape' /\ \A s \in Rows : RowInv(s)'
           /\ Cardinality(buffer') <= MaxPending
           /\ DropsAreCounted'
<1> USE DEF AiInv
<1>1. buffer' = buffer \/ buffer' = buffer \cup {r}
  BY EnqueueType
<1>2. FlushShape'
  BY DEF FlushShape, Hands
<1>3. ASSUME NEW s \in Rows PROVE RowInv(s)'
  <2>1. RowInv(s) /\ RowInv(r)
    OBVIOUS
  <2>2. \A t \in Threads : Hands(t)' = Hands(t)
    BY DEF Hands
  <2> QED BY <1>1, <2>1, <2>2 DEF RowInv
<1>4. InFlight' = InFlight
  BY DEF InFlight, Hands
<1>5. Missing \in SUBSET Rows
  BY DEF Missing, Offered, Typed, Rows
<1>6. CASE buffer' = buffer /\ dropped' = dropped + 1
  <2>1. Missing' \in SUBSET (Missing \cup {r})
    BY <1>4, <1>6 DEF Missing
  <2>2. Cardinality(Missing') <= Cardinality(Missing \cup {r})
    BY <2>1, <1>5, Fewer
  <2>3. Cardinality(Missing \cup {r}) <= Cardinality(Missing) + 1
    BY <1>5, OneMore
  <2>4. {Cardinality(Missing'), Cardinality(Missing \cup {r}), Cardinality(Missing), dropped} \subseteq Nat
    BY <2>1, <1>5, RowsFinite DEF Typed
  <2>5. DropsAreCounted'
    BY <2>2, <2>3, <2>4, <1>6 DEF DropsAreCounted
  <2> QED BY <1>2, <1>3, <1>6, <2>5
<1>7. CASE buffer' = buffer \cup {r} /\ dropped' = dropped /\ Cardinality(buffer) < MaxPending
  <2>1. Missing' \in SUBSET Missing
    BY <1>4, <1>7 DEF Missing
  <2>2. Cardinality(Missing') <= Cardinality(Missing)
    BY <2>1, <1>5, Fewer
  <2>3. {Cardinality(Missing'), Cardinality(Missing), dropped, MaxPending, Cardinality(buffer), Cardinality(buffer')} \subseteq Nat
    BY <2>1, <1>5, <1>7, RowsFinite, AiAssumption DEF Typed
  <2>4. DropsAreCounted'
    BY <2>2, <2>3, <1>7 DEF DropsAreCounted
  <2>5. Cardinality(buffer') <= Cardinality(buffer) + 1
    BY <1>7, OneMore DEF Typed
  <2>6. Cardinality(buffer') <= MaxPending
    BY <2>5, <2>3, <1>7
  <2> QED BY <1>2, <1>3, <2>4, <2>6
<1> QED BY EnqueueType, <1>6, <1>7

(* No row is handed over, dropped or crashed away, and none newly missing:  *)
(* no more are missing than before.                                         *)
LEMMA NoneMissing ==
    ASSUME AiInv, Missing' \in SUBSET Missing, dropped' = dropped
    PROVE  DropsAreCounted'
<1>1. Missing \in SUBSET Rows
  BY DEF AiInv, Missing, Offered, Typed, Rows
<1>2. Cardinality(Missing') <= Cardinality(Missing)
  BY <1>1, Fewer
<1>3. {Cardinality(Missing'), Cardinality(Missing), dropped} \subseteq Nat
  BY <1>1, RowsFinite DEF AiInv, Typed
<1> QED BY <1>2, <1>3 DEF AiInv, DropsAreCounted

(* The buffer is drained.                                                   *)
LEMMA DrainKeeps ==
    ASSUME AiInv, NEW t \in Threads, Drain(t)
    PROVE  AiInv'
<1> USE DEF AiInv
<1>1. Typed'
  <2>1. attempt' \in [Attempts -> Attempt]
    BY DEF Drain, Typed, Attempt
  <2>2. flush' \in [Threads -> FlushType]
    BY DEF Drain, Typed, FlushType, IdleFlush
  <2> QED BY <2>1, <2>2 DEF Drain, Typed
<1>2. /\ Hands(t) = {} /\ Hands(t)' = buffer /\ buffer' = {}
      /\ flush'[t].pc = "writing" /\ flush'[t].failed = {}
      /\ \A u \in Threads \ {t} : flush'[u] = flush[u] /\ Hands(u)' = Hands(u)
  BY DEF Drain, FlushShape, Hands, Typed, IdleFlush
<1>3. FlushShape'
  BY <1>2 DEF FlushShape
<1>4. Offered' = Offered /\ table' = table /\ unsure' = unsure
  BY DEF Drain, Offered, Typed, Attempt
<1>5. \A r \in Rows : RowInv(r)'
  BY <1>2, <1>4 DEF RowInv
<1>6. buffer \cup InFlight \subseteq (buffer \cup InFlight)'
  BY <1>2 DEF InFlight
<1>7. Missing' \in SUBSET Missing
  BY <1>4, <1>6 DEF Missing, Drain
<1>8. Cardinality(buffer') <= MaxPending
  BY <1>2, FS_EmptySet, AiAssumption
<1> QED BY <1>1, <1>3, <1>5, <1>7, <1>8, NoneMissing DEF Drain

LEMMA InsertKeeps ==
    ASSUME AiInv, NEW t \in Threads, NEW shape \in Shapes, Insert(t, shape)
    PROVE  AiInv'
<1> DEFINE batch == flush[t].rows \cap shape
<1> USE DEF AiInv
<1>1. flush' = [flush EXCEPT ![t] = Goto(flush[t].rows \ batch, flush[t].failed)]
  BY DEF Insert
<1>2. /\ table' \in [Rows -> Nat]
      /\ \A r \in Rows : table'[r] = IF r \in batch THEN table[r] + 1 ELSE table[r]
  BY InsertedType DEF Insert
<1>3. batch \in SUBSET Rows /\ batch \subseteq flush[t].rows
  BY DEF Typed, FlushType
<1>4. UNCHANGED <<attempt, recorded, buffer, dropped, budget, unsure, lost>> /\ Offered' = Offered
  BY DEF Insert, Offered
<1> HIDE DEF batch
<1>5. flush[t].rows \ batch \in SUBSET Rows /\ flush[t].failed \in SUBSET Rows
  BY <1>3 DEF Typed, FlushType
<1>6. /\ flush' \in [Threads -> FlushType]
      /\ \A u \in Threads \ {t} : flush'[u] = flush[u]
      /\ flush'[t].rows = flush[t].rows \ batch /\ flush'[t].failed = flush[t].failed
      /\ flush'[t].pc = "idle" => flush'[t].rows = {} /\ flush'[t].failed = {}
      /\ flush'[t].pc = "restoring" => flush'[t].rows = {}
  <2> DEFINE g == Goto(flush[t].rows \ batch, flush[t].failed)
  <2>1. /\ g \in FlushType /\ g.rows = flush[t].rows \ batch /\ g.failed = flush[t].failed
        /\ g.pc = "idle" => g.rows = {} /\ g.failed = {}
        /\ g.pc = "restoring" => g.rows = {}
    BY <1>5, GotoType
  <2> HIDE DEF g
  <2>2. flush' = [flush EXCEPT ![t] = g]
    BY <1>1 DEF g
  <2> QED BY <2>1, <2>2 DEF Typed
<1>7. Typed'
  BY <1>6, <1>2, <1>4 DEF Typed
<1>8. FlushShape'
  <2>1. flush'[t].rows \cap flush'[t].failed = {}
    BY <1>6 DEF FlushShape
  <2>2. flush'[t].pc = "idle" => Hands(t)' = {}
    BY <1>6 DEF Hands
  <2> QED BY <1>6, <2>1, <2>2 DEF FlushShape, Hands
<1>9. /\ Hands(t)' = Hands(t) \ batch /\ batch \subseteq Hands(t)
      /\ \A u \in Threads \ {t} : Hands(u)' = Hands(u)
  BY <1>3, <1>6 DEF Hands, FlushShape
<1>10. ASSUME NEW r \in Rows PROVE RowInv(r)'
  <2>1. RowInv(r) /\ table[r] \in Nat
    BY DEF Typed
  <2>2. CASE r \in batch
    BY <2>1, <2>2, <1>2, <1>4, <1>9 DEF RowInv
  <2>3. CASE r \notin batch
    BY <2>1, <2>3, <1>2, <1>4, <1>9 DEF RowInv
  <2> QED BY <2>2, <2>3
<1>11. Missing' \in SUBSET Missing
  <2>1. \A r \in Rows : r \in InFlight => r \in InFlight' \/ r \in batch
    BY <1>9 DEF InFlight
  <2>2. \A r \in Rows : table'[r] = 0 => table[r] = 0 /\ r \notin batch
    BY <1>2 DEF Typed
  <2>3. Offered \subseteq Rows
    BY DEF Offered, Typed, Rows
  <2> QED BY <1>4, <2>1, <2>2, <2>3 DEF Missing
<1> QED BY <1>4, <1>7, <1>8, <1>10, <1>11, NoneMissing

LEMMA InsertFailsKeeps ==
    ASSUME AiInv, NEW t \in Threads, NEW shape \in Shapes, InsertFails(t, shape)
    PROVE  AiInv'
<1> DEFINE batch == flush[t].rows \cap shape
<1> USE DEF AiInv
<1>1. flush' = [flush EXCEPT ![t] = Goto(flush[t].rows \ batch, flush[t].failed \cup batch)]
  BY DEF InsertFails
<1>2. \/ table' = table /\ unsure' = unsure
      \/ /\ unsure' = unsure \cup batch
         /\ table' \in [Rows -> Nat]
         /\ \A r \in Rows : table'[r] = IF r \in batch THEN table[r] + 1 ELSE table[r]
  BY InsertedType DEF InsertFails
<1>3. batch \in SUBSET Rows /\ batch \subseteq flush[t].rows
  BY DEF Typed, FlushType
<1>4. UNCHANGED <<attempt, recorded, buffer, dropped, lost>> /\ Offered' = Offered /\ budget' \in Nat
  BY DEF InsertFails, Offered, Mishap, Typed
<1> HIDE DEF batch
<1>5. flush[t].rows \ batch \in SUBSET Rows /\ flush[t].failed \cup batch \in SUBSET Rows
  BY <1>3 DEF Typed, FlushType
<1>6. /\ flush' \in [Threads -> FlushType]
      /\ \A u \in Threads \ {t} : flush'[u] = flush[u]
      /\ flush'[t].rows = flush[t].rows \ batch /\ flush'[t].failed = flush[t].failed \cup batch
      /\ flush'[t].pc = "idle" => flush'[t].rows = {} /\ flush'[t].failed = {}
      /\ flush'[t].pc = "restoring" => flush'[t].rows = {}
  <2> DEFINE g == Goto(flush[t].rows \ batch, flush[t].failed \cup batch)
  <2>1. /\ g \in FlushType /\ g.rows = flush[t].rows \ batch /\ g.failed = flush[t].failed \cup batch
        /\ g.pc = "idle" => g.rows = {} /\ g.failed = {}
        /\ g.pc = "restoring" => g.rows = {}
    BY <1>5, GotoType
  <2> HIDE DEF g
  <2>2. flush' = [flush EXCEPT ![t] = g]
    BY <1>1 DEF g
  <2> QED BY <2>1, <2>2 DEF Typed
<1>7. Typed'
  BY <1>3, <1>6, <1>2, <1>4 DEF Typed
<1>8. FlushShape'
  <2>1. flush'[t].rows \cap flush'[t].failed = {}
    BY <1>6 DEF FlushShape
  <2>2. flush'[t].pc = "idle" => Hands(t)' = {}
    BY <1>6 DEF Hands
  <2> QED BY <1>6, <2>1, <2>2 DEF FlushShape, Hands
<1>9. \A u \in Threads : Hands(u)' = Hands(u)
  BY <1>3, <1>6 DEF Hands
<1>10. ASSUME NEW r \in Rows PROVE RowInv(r)'
  <2>1. RowInv(r) /\ table[r] \in Nat /\ (r \in batch => r \in Hands(t))
    BY <1>3 DEF Typed, Hands
  <2>2. CASE r \in batch /\ unsure' = unsure \cup batch
    BY <2>1, <2>2, <1>4, <1>9 DEF RowInv
  <2>3. CASE table'[r] = table[r] /\ unsure \subseteq unsure'
    BY <2>1, <2>3, <1>4, <1>9 DEF RowInv
  <2> QED BY <1>2, <2>2, <2>3
<1>11. Missing' \in SUBSET Missing
  <2>1. InFlight' = InFlight
    BY <1>9 DEF InFlight
  <2>2. \A r \in Rows : table'[r] = 0 => table[r] = 0
    BY <1>2 DEF Typed
  <2>3. Offered \subseteq Rows
    BY DEF Offered, Typed, Rows
  <2> QED BY <1>4, <2>1, <2>2, <2>3 DEF Missing
<1> QED BY <1>4, <1>7, <1>8, <1>10, <1>11, NoneMissing

LEMMA NoClientKeeps ==
    ASSUME AiInv, NEW t \in Threads, NoClient(t)
    PROVE  AiInv'
<1> USE DEF AiInv
<1>1. /\ flush' \in [Threads -> FlushType]
      /\ flush'[t] = [pc |-> "restoring", rows |-> {}, failed |-> flush[t].rows]
      /\ \A u \in Threads \ {t} : flush'[u] = flush[u]
      /\ flush[t].failed = {}
  BY DEF NoClient, Typed, FlushType
<1>2. UNCHANGED <<attempt, recorded, buffer, table, dropped, unsure, lost>> /\ Offered' = Offered /\ budget' \in Nat
  BY DEF NoClient, Offered, Mishap, Typed
<1>3. Typed'
  BY <1>1, <1>2 DEF Typed
<1>4. \A u \in Threads : Hands(u)' = Hands(u)
  BY <1>1 DEF Hands
<1>5. FlushShape'
  BY <1>1 DEF FlushShape, Hands
<1>6. \A r \in Rows : RowInv(r)'
  BY <1>2, <1>4 DEF RowInv
<1>7. InFlight' = InFlight
  BY <1>4 DEF InFlight
<1>8. Missing' \in SUBSET Missing
  BY <1>2, <1>7 DEF Missing
<1> QED BY <1>2, <1>3, <1>5, <1>6, <1>8, NoneMissing

LEMMA RestoreKeeps ==
    ASSUME AiInv, NEW t \in Threads, Restore(t)
    PROVE  AiInv'
<1> DEFINE failed == flush[t].failed
<1> USE DEF AiInv
<1>1. PICK keep \in SUBSET failed :
        /\ \/ keep = failed /\ Cardinality(keep) <= Room
           \/ Cardinality(keep) = Room /\ Room < Cardinality(failed)
        /\ buffer' = buffer \cup keep
        /\ dropped' = dropped + Cardinality(failed) - Cardinality(keep)
  BY DEF Restore
<1>2. failed \in SUBSET Rows /\ failed \subseteq Hands(t) /\ flush[t].rows = {}
  BY DEF Typed, FlushType, Hands, FlushShape, Restore
<1>3. /\ flush' \in [Threads -> FlushType] /\ flush'[t] = IdleFlush
      /\ \A u \in Threads \ {t} : flush'[u] = flush[u]
  BY DEF Restore, Typed, FlushType, IdleFlush
<1>4. UNCHANGED <<attempt, recorded, table, budget, unsure, lost>> /\ Offered' = Offered
  BY DEF Restore, Offered
<1> HIDE DEF failed
<1>5. /\ {Cardinality(buffer), Cardinality(failed), Cardinality(keep), Cardinality(failed \ keep)} \subseteq Nat
      /\ Cardinality(buffer') \in Nat /\ MaxPending \in Nat /\ dropped \in Nat
      /\ Cardinality(failed \ keep) = Cardinality(failed) - Cardinality(keep)
  BY <1>1, <1>2, RowsFinite, TheRest, AiAssumption DEF Typed
<1>6. dropped' = dropped + Cardinality(failed \ keep) /\ dropped' \in Nat
  BY <1>1, <1>5
<1>7. Typed'
  BY <1>1, <1>2, <1>3, <1>4, <1>6 DEF Typed
<1>8. Hands(t) = failed /\ Hands(t)' = {} /\ \A u \in Threads \ {t} : Hands(u)' = Hands(u)
  BY <1>2, <1>3 DEF Hands, IdleFlush, failed
<1>9. FlushShape'
  BY <1>3, <1>8 DEF FlushShape, IdleFlush
<1>10. ASSUME NEW r \in Rows PROVE RowInv(r)'
  <2>1. RowInv(r) /\ (r \in keep => r \in Hands(t))
    BY <1>8
  <2> QED BY <2>1, <1>1, <1>4, <1>8 DEF RowInv
<1>11. Cardinality(buffer') <= MaxPending
  <2>1. Cardinality(buffer') <= Cardinality(buffer) + Cardinality(keep)
    BY <1>1, <1>2, AtMostTheSum DEF Typed
  <2> QED BY <1>1, <1>5, <2>1 DEF Room
<1>12. DropsAreCounted'
  <2>1. Missing \in SUBSET Rows
    BY DEF Missing, Offered, Typed, Rows
  <2>2. Missing' \in SUBSET (Missing \cup (failed \ keep))
    BY <1>1, <1>4, <1>8 DEF Missing, InFlight
  <2>3. Cardinality(Missing') <= Cardinality(Missing \cup (failed \ keep))
    BY <2>1, <2>2, <1>2, Fewer
  <2>4. Cardinality(Missing \cup (failed \ keep)) <= Cardinality(Missing) + Cardinality(failed \ keep)
    BY <2>1, <1>2, AtMostTheSum
  <2>5. {Cardinality(Missing), Cardinality(Missing'), Cardinality(Missing \cup (failed \ keep))} \subseteq Nat
    BY <2>1, <2>2, <1>2, RowsFinite
  <2> QED BY <2>3, <2>4, <2>5, <1>5, <1>6 DEF DropsAreCounted
<1> QED BY <1>7, <1>9, <1>10, <1>11, <1>12

LEMMA CrashKeeps ==
    ASSUME AiInv, Crash
    PROVE  AiInv'
<1> USE DEF AiInv
<1>1. PICK batch : table' = Inserted(batch) /\ batch \subseteq InFlight
  <2>1. PICK arrived \in SUBSET {t \in Threads : flush[t].pc = "writing"} :
          \E shape \in [arrived -> Shapes] :
             table' = Inserted(UNION {flush[t].rows \cap shape[t] : t \in arrived})
    BY DEF Crash
  <2>2. PICK shape \in [arrived -> Shapes] :
          table' = Inserted(UNION {flush[t].rows \cap shape[t] : t \in arrived})
    BY <2>1
  <2>3. UNION {flush[t].rows \cap shape[t] : t \in arrived} \subseteq InFlight
    BY DEF InFlight, Hands
  <2> QED BY <2>2, <2>3
<1>2. /\ table' \in [Rows -> Nat]
      /\ \A r \in Rows : table'[r] = IF r \in batch THEN table[r] + 1 ELSE table[r]
  BY <1>1, InsertedType
<1>3. /\ lost' = lost \cup buffer \cup InFlight \cup Missing
      /\ buffer' = {} /\ flush' = [t \in Threads |-> IdleFlush] /\ dropped' = 0
      /\ UNCHANGED <<recorded, unsure>> /\ budget' \in Nat
  BY DEF Crash, Mishap, Typed
<1>4. attempt' \in [Attempts -> Attempt] /\ Offered' = Offered
  <2>1. attempt' = [a \in Attempts |->
          IF attempt[a].pc \in {"looking", "spending", "refused"}
          THEN [attempt[a] EXCEPT !.pc = "gone"] ELSE attempt[a]]
    BY DEF Crash
  <2>2. ASSUME NEW a \in Attempts
        PROVE  attempt'[a] \in Attempt /\ (attempt'[a].pc = "done" <=> attempt[a].pc = "done")
    <3> DEFINE z == [attempt[a] EXCEPT !.pc = "gone"]
    <3>1. attempt[a] \in Attempt
      BY DEF Typed
    <3>2. z \in Attempt /\ z.pc = "gone"
      BY <3>1 DEF Attempt
    <3>3. attempt'[a] = IF attempt[a].pc \in {"looking", "spending", "refused"} THEN z ELSE attempt[a]
      BY <2>1
    <3> HIDE DEF z
    <3> QED BY <3>1, <3>2, <3>3
  <2>3. attempt' \in [Attempts -> Attempt]
    BY <2>1, <2>2
  <2> QED BY <1>3, <2>2, <2>3 DEF Offered
<1>5. InFlight \in SUBSET Rows /\ Missing \in SUBSET Rows /\ Offered \in SUBSET Rows
  BY DEF InFlight, Hands, Typed, FlushType, Missing, Offered, Rows
<1>6. Typed'
  BY <1>2, <1>3, <1>4, <1>5 DEF Typed, FlushType, IdleFlush
<1>7. \A t \in Threads : Hands(t)' = {} /\ flush'[t] = IdleFlush
  BY <1>3 DEF Hands, IdleFlush
<1>8. FlushShape'
  BY <1>7 DEF FlushShape, IdleFlush
<1>9. ASSUME NEW r \in Rows PROVE RowInv(r)'
  <2>1. RowInv(r) /\ table[r] \in Nat
    BY DEF Typed
  <2>2. r \in batch => \E t \in Threads : r \in Hands(t)
    BY <1>1 DEF InFlight
  <2> QED BY <2>1, <2>2, <1>2, <1>3, <1>4, <1>7 DEF RowInv
<1>10. Missing' = {}
  <2> SUFFICES ASSUME NEW r \in Offered', r \notin lost', table'[r] = 0 PROVE FALSE
    BY DEF Missing
  <2>1. r \in Rows /\ table[r] = 0
    BY <1>2, <1>4, <1>5 DEF Typed
  <2>2. r \in Missing
    BY <1>3, <1>4, <2>1 DEF Missing
  <2> QED BY <1>3, <2>2
<1>11. DropsAreCounted' /\ Cardinality(buffer') <= MaxPending
  BY <1>3, <1>10, FS_EmptySet, AiAssumption DEF DropsAreCounted
<1> QED BY <1>6, <1>8, <1>9, <1>11

(* The guard's own steps before the audit leave the rows alone.             *)
LEMMA GuardKeeps ==
    ASSUME AiInv, attempt' \in [Attempts -> Attempt],
           \A a \in Attempts : attempt'[a].pc = "done" <=> attempt[a].pc = "done",
           budget' \in Nat, UNCHANGED <<recorded, buffer, flush, table, dropped, unsure, lost>>
    PROVE  AiInv'
<1> USE DEF AiInv
<1>1. Offered' = Offered
  BY DEF Offered
<1>2. Typed'
  BY DEF Typed
<1>3. FlushShape' /\ \A r \in Rows : RowInv(r)'
  BY <1>1 DEF FlushShape, RowInv, Hands
<1>4. Missing' = Missing
  BY <1>1 DEF Missing, InFlight, Hands
<1> QED BY <1>2, <1>3, <1>4 DEF DropsAreCounted

(* One attempt changes.                                                     *)
LEMMA OneAttempt ==
    ASSUME attempt \in [Attempts -> Attempt], NEW a \in Attempts, NEW z \in Attempt,
           attempt' = [attempt EXCEPT ![a] = z]
    PROVE  /\ attempt' \in [Attempts -> Attempt]
           /\ attempt'[a] = z
           /\ \A b \in Attempts \ {a} : attempt'[b] = attempt[b]
OBVIOUS

LEMMA LookKeeps ==
    ASSUME AiInv, NEW a \in Attempts, Look(a)
    PROVE  AiInv'
<1> DEFINE seen == [r \in Rows |-> IF r \in Counted THEN table[r] ELSE 0]
           alone == Quiet /\ \A t \in Threads : flush[t].pc = "idle"
           z == [attempt[a] EXCEPT !.pc = "looking", !.seen = seen, !.alone = alone]
<1>1. alone \in BOOLEAN /\ seen \in [Rows -> Nat] /\ attempt \in [Attempts -> Attempt]
  BY DEF Quiet, Calm, AiInv, Typed, Rows
<1>2. attempt[a] \in Attempt /\ attempt[a].pc = "idle"
  BY <1>1 DEF Look
<1>3. attempt' = [attempt EXCEPT ![a] = z]
  BY DEF Look
<1> HIDE DEF seen, alone
<1>4. z \in Attempt /\ z.pc = "looking"
  BY <1>1, <1>2 DEF Attempt
<1> HIDE DEF z
<1>5. \A b \in Attempts : attempt'[b].pc = "done" <=> attempt[b].pc = "done"
  BY <1>1, <1>2, <1>3, <1>4, OneAttempt
<1>6. attempt' \in [Attempts -> Attempt]
  BY <1>1, <1>3, <1>4, OneAttempt
<1> QED BY <1>5, <1>6, GuardKeeps DEF Look, AiInv, Typed

LEMMA LookFailsKeeps ==
    ASSUME AiInv, NEW a \in Attempts, LookFails(a)
    PROVE  AiInv'
<1> DEFINE z == [attempt[a] EXCEPT !.pc = "looking"]
<1>1. attempt \in [Attempts -> Attempt]
  BY DEF AiInv, Typed
<1>2. attempt[a] \in Attempt /\ attempt[a].pc = "idle"
  BY <1>1 DEF LookFails
<1>3. attempt' = [attempt EXCEPT ![a] = z]
  BY DEF LookFails
<1>4. z \in Attempt /\ z.pc = "looking"
  BY <1>1, <1>2 DEF Attempt
<1> HIDE DEF z
<1>5. \A b \in Attempts : attempt'[b].pc = "done" <=> attempt[b].pc = "done"
  BY <1>1, <1>2, <1>3, <1>4, OneAttempt
<1>6. attempt' \in [Attempts -> Attempt]
  BY <1>1, <1>3, <1>4, OneAttempt
<1> QED BY <1>5, <1>6, GuardKeeps DEF LookFails, Mishap, AiInv, Typed

LEMMA DecideKeeps ==
    ASSUME AiInv, NEW a \in Attempts, Decide(a)
    PROVE  AiInv'
<1> DEFINE allow == RecentCalls(a) < MaxCalls
           pc == IF allow THEN "spending" ELSE "refused"
           ahead == IF allow THEN Allowed ELSE {}
           alone == allow /\ attempt[a].alone /\ Quiet
           z == [attempt[a] EXCEPT !.pc = pc, !.allow = allow, !.seen = Nothing,
                                   !.ahead = ahead, !.alone = alone]
<1>1. /\ allow \in BOOLEAN /\ alone \in BOOLEAN
      /\ ahead \in SUBSET Attempts /\ pc \in {"spending", "refused"}
      /\ Nothing \in [Rows -> Nat] /\ attempt \in [Attempts -> Attempt]
  BY DEF Quiet, Calm, Allowed, Nothing, AiInv, Typed
<1>2. attempt[a] \in Attempt /\ attempt[a].pc = "looking"
  BY <1>1 DEF Decide
<1>3. attempt' = [attempt EXCEPT ![a] = z]
  BY DEF Decide
<1> HIDE DEF allow, pc, ahead, alone
<1>4. z \in Attempt /\ z.pc # "done"
  BY <1>1, <1>2 DEF Attempt
<1> HIDE DEF z
<1>5. \A b \in Attempts : attempt'[b].pc = "done" <=> attempt[b].pc = "done"
  BY <1>1, <1>2, <1>3, <1>4, OneAttempt
<1>6. attempt' \in [Attempts -> Attempt]
  BY <1>1, <1>3, <1>4, OneAttempt
<1> QED BY <1>5, <1>6, GuardKeeps DEF Decide, AiInv, Typed

LEMMA AuditKeeps ==
    ASSUME AiInv, NEW a \in Attempts, Audit(a)
    PROVE  AiInv'
<1> DEFINE z == [attempt[a] EXCEPT !.pc = "done"]
<1>1. attempt \in [Attempts -> Attempt] /\ Typed
  BY DEF AiInv, Typed
<1>2. attempt[a] \in Attempt /\ attempt[a].pc # "done"
  BY <1>1 DEF Audit
<1>3. attempt' = [attempt EXCEPT ![a] = z]
  BY DEF Audit
<1>4. z \in Attempt /\ z.pc = "done"
  BY <1>1, <1>2 DEF Attempt
<1> HIDE DEF z
<1>5. attempt' \in [Attempts -> Attempt] /\ \A b \in Attempts : attempt'[b].pc = "done" <=> attempt[b].pc = "done" \/ b = a
  BY <1>1, <1>2, <1>3, <1>4, OneAttempt
<1>6. Enqueue(a) /\ UNCHANGED <<recorded, flush, table, budget, unsure, lost>>
  BY DEF Audit
<1>7. a \in Rows /\ a \notin Offered /\ Offered' = Offered \cup {a}
  BY <1>1, <1>2, <1>5, <1>6, AiAssumption DEF Offered, Rows, Typed
<1>8. Typed'
  BY <1>1, <1>5, <1>6, <1>7, EnqueueType DEF Typed
<1> QED BY <1>6, <1>7, <1>8, Offer DEF AiInv

LEMMA RecordKeeps ==
    ASSUME AiInv, NEW f \in Features, Record(f)
    PROVE  AiInv'
<1> USE DEF AiInv
<1>1. Offered' = Offered \cup {f} /\ f \notin Offered /\ f \in Rows
  BY AiAssumption DEF Record, Typed, Offered, Rows
<1>2. Enqueue(f) /\ UNCHANGED <<attempt, flush, table, budget, unsure, lost>> /\ recorded' = recorded \cup {f}
  BY DEF Record
<1>3. Typed'
  BY <1>1, <1>2, EnqueueType DEF Typed
<1> QED BY <1>1, <1>2, <1>3, Offer

-----------------------------------------------------------------------------
(* The whole.                                                                *)

LEMMA AiInvariant == AiSpec => []AiInv
<1>1. ASSUME AiInv, [AiNext]_vars PROVE AiInv'
  <2>1. CASE \E a \in Attempts : Look(a) \/ LookFails(a) \/ Decide(a) \/ Audit(a)
    BY <1>1, <2>1, LookKeeps, LookFailsKeeps, DecideKeeps, AuditKeeps
  <2>2. CASE \E f \in Features : Record(f)
    BY <1>1, <2>2, RecordKeeps
  <2>3. CASE \E t \in Threads : \/ Drain(t) \/ NoClient(t) \/ FlushStep(t)
                               \/ \E shape \in Shapes : InsertFails(t, shape)
    BY <1>1, <2>3, DrainKeeps, NoClientKeeps, RestoreKeeps, InsertKeeps, InsertFailsKeeps DEF FlushStep
  <2>4. CASE Crash
    BY <1>1, <2>4, CrashKeeps
  <2>5. CASE UNCHANGED vars
    <3>1. Missing' = Missing /\ Offered' = Offered
      BY <2>5 DEF vars, Missing, Offered, InFlight, Hands
    <3> QED BY <1>1, <2>5, <3>1 DEF vars, AiInv, Typed, FlushShape, RowInv, Hands, DropsAreCounted
  <2> QED BY <1>1, <2>1, <2>2, <2>3, <2>4, <2>5 DEF AiNext
<1> QED BY InvInit, <1>1, PTL DEF AiSpec

(* Types, and the ceiling: the buffer never holds more rows than it may,    *)
(* however enqueues and restores interleave.  (ai_meter.py 142-166, 203-212)*)
THEOREM AiTypeCorrect == AiSpec => []AiTypeOK
<1>1. AiInv => AiTypeOK
  BY DEF AiInv, Typed, AiTypeOK, Attempt, FlushType
<1> QED BY <1>1, AiInvariant, PTL

(* No accepted row disappears uncounted, whatever fails.                    *)
(* (ai_meter.py 55-60, 203-212)                                             *)
THEOREM DropsCounted == AiSpec => []DropsAreCounted
<1>1. AiInv => DropsAreCounted
  BY DEF AiInv
<1> QED BY <1>1, AiInvariant, PTL

(* Whatever flushes run on whatever threads, a row is stored once unless an *)
(* insert committed whose caller saw it fail.  (ai_meter.py 196-245)        *)
THEOREM StoredOnce == AiSpec => []StoredOnceUnlessUnsure
<1>1. ASSUME AiInv PROVE StoredOnceUnlessUnsure
  <2>1. \A r : (\A t \in Threads : r \notin Hands(t)) => r \notin InFlight
    BY DEF InFlight
  <2> QED BY <1>1, <2>1 DEF AiInv, RowInv, StoredOnceUnlessUnsure
<1> QED BY <1>1, AiInvariant, PTL

-----------------------------------------------------------------------------
(* The cap.                                                                  *)

(* Rows that were seen stored are no more than the stored rows found.       *)
LEMMA FoundCounts ==
    ASSUME Typed, NEW a \in Attempts, NEW S \in SUBSET Rows, \A r \in S : attempt[a].seen[r] # 0
    PROVE  /\ Cardinality(S) <= Cardinality(Found(a))
           /\ Cardinality(Found(a)) \in Nat
<1> DEFINE copies == [r \in Rows |-> {r} \X (1 .. attempt[a].seen[r])]
           first == [r \in S |-> <<r, 1>>]
           sets == {copies[r] : r \in Rows}
<1>1. attempt[a].seen \in [Rows -> Nat]
  BY DEF Typed, Attempt
<1>2. IsFiniteSet(sets)
  <2>1. copies \in Surjection(Rows, sets)
    BY DEF Surjection
  <2> QED BY <2>1, RowsFinite, FS_Surjection
<1>3. \A T \in sets : IsFiniteSet(T)
  <2> SUFFICES ASSUME NEW r \in Rows PROVE IsFiniteSet({r} \X (1 .. attempt[a].seen[r]))
    OBVIOUS
  <2>1. attempt[a].seen[r] \in Int /\ 1 \in Int
    BY <1>1
  <2>2. IsFiniteSet(1 .. attempt[a].seen[r])
    BY <2>1, FS_Interval
  <2>3. IsFiniteSet({r})
    BY FS_Singleton
  <2> QED BY <2>2, <2>3, FS_Product
<1>4. Found(a) = UNION sets
  BY DEF Found
<1>5. first \in Injection(S, Found(a))
  <2>1. \A r \in S : <<r, 1>> \in Found(a)
    BY <1>1 DEF Found
  <2>2. first \in [S -> Found(a)]
    BY <2>1
  <2>3. \A r, s \in S : first[r] = first[s] => r = s
    OBVIOUS
  <2> QED BY <2>2, <2>3 DEF Injection, IsInjective
<1> HIDE DEF copies, sets, first
<1>6. IsFiniteSet(Found(a))
  BY <1>2, <1>3, <1>4, FS_UNION
<1> QED BY <1>5, <1>6, FS_Injection, FS_CardinalityType

(* A call that was quiet until it is decided has counted all allowed ones.  *)
LEMMA AllCounted ==
    ASSUME CapInv, NEW a \in Attempts, attempt[a].pc = "looking", attempt[a].alone, Quiet
    PROVE  Cardinality(Allowed) <= RecentCalls(a)
<1> DEFINE stored == Allowed \ buffer
           waiting == Allowed \cap buffer
<1>1. Typed /\ Allowed \in SUBSET Rows /\ stored \in SUBSET Rows /\ waiting \in SUBSET Rows
  BY DEF CapInv, AiInv, Typed, Allowed, Rows
<1>2. \A b \in stored : attempt[a].seen[b] # 0
  BY DEF CapInv, SoundLook, Quiet, Spending, Allowed
<1>3. Cardinality(stored) <= Cardinality(Found(a)) /\ Cardinality(Found(a)) \in Nat
  BY <1>1, <1>2, FoundCounts
<1>4. waiting \subseteq buffer \cap Counted /\ buffer \cap Counted \in SUBSET Rows
  BY <1>1 DEF Counted, Typed
<1>5. Cardinality(waiting) <= Cardinality(buffer \cap Counted)
  BY <1>4, Fewer
<1>6. Cardinality(stored \cup waiting) <= Cardinality(stored) + Cardinality(waiting) /\ stored \cup waiting = Allowed
  BY <1>1, AtMostTheSum
<1> HIDE DEF stored, waiting
<1>7. /\ Cardinality(stored) \in Nat /\ Cardinality(waiting) \in Nat /\ Cardinality(Allowed) \in Nat
      /\ Cardinality(buffer \cap Counted) \in Nat
  BY <1>1, <1>4, RowsFinite
<1>8. Cardinality(Allowed) <= Cardinality(stored) + Cardinality(waiting)
  BY <1>6
<1>9. Cardinality(stored) + Cardinality(waiting) <= Cardinality(Found(a)) + Cardinality(buffer \cap Counted)
  BY <1>3, <1>5, <1>7
<1> QED BY <1>3, <1>7, <1>8, <1>9 DEF RecentCalls

(* What a look finds when nothing is under way: every audited call.         *)
LEMMA LookFinds ==
    ASSUME CapInv, Quiet, \A t \in Threads : flush[t].pc = "idle", NEW b \in Allowed
    PROVE  table[b] # 0 \/ b \in buffer
<1> USE DEF CapInv, AiInv
<1>1. b \in Rows /\ b \in Attempts /\ attempt[b].pc = "done"
  BY DEF Quiet, Spending, Allowed, Rows
<1>2. InFlight = {} /\ lost = {}
  BY DEF FlushShape, InFlight, Quiet
<1>3. Missing \in SUBSET Rows
  BY DEF Missing, Offered, Typed, Rows
<1>4. Cardinality(Missing) \in Nat /\ IsFiniteSet(Missing)
  BY <1>3, RowsFinite
<1>5. Missing = {}
  BY <1>4, FS_EmptySet DEF DropsAreCounted, Quiet
<1> QED BY <1>1, <1>2, <1>5 DEF Missing, Offered

(* A step that leaves the calls and the bound alone, and empties no buffer. *)
LEMMA CapKept ==
    ASSUME CapInv, AiInv', UNCHANGED <<attempt, budget, lost>>, buffer \subseteq buffer',
           dropped' = 0 => dropped = 0 /\ ((\A t \in Threads : flush[t].pc = "idle") => UNCHANGED flush)
    PROVE  CapInv'
<1> USE DEF CapInv
<1>1. ASSUME NEW a \in Attempts PROVE SoundLook(a)'
  BY DEF SoundLook, Calm, Allowed
<1> QED BY <1>1 DEF Calm, QuietCallKeepsTheCap

(* After a mishap nothing is promised any more.                             *)
LEMMA MishapKeepsCap ==
    ASSUME CapInv, AiInv', Mishap,
           \A a \in Attempts : /\ attempt'[a].allow = attempt[a].allow /\ attempt'[a].ahead = attempt[a].ahead
                               /\ attempt'[a].alone = attempt[a].alone
                               /\ attempt[a].allow => attempt'[a].pc \in {"spending", "done", "gone"}
    PROVE  CapInv'
<1> USE DEF CapInv
<1>1. budget' <= Mishaps /\ ~Calm'
  BY AiAssumption DEF Mishap, Calm, AiInv, Typed
<1> QED BY <1>1 DEF SoundLook, QuietCallKeepsTheCap

LEMMA LookKeepsCap ==
    ASSUME CapInv, AiInv', NEW a \in Attempts, Look(a)
    PROVE  CapInv'
<1> USE DEF CapInv
<1>1. /\ Typed /\ UNCHANGED <<recorded, buffer, flush, table, dropped, budget, unsure, lost>>
      /\ attempt[a].pc = "idle" /\ ~attempt[a].allow
      /\ \A b \in Attempts \ {a} : attempt'[b] = attempt[b]
  BY DEF Look, AiInv, Typed
<1>2. /\ attempt'[a].pc = "looking" /\ attempt'[a].allow = attempt[a].allow
      /\ attempt'[a].seen = [r \in Rows |-> IF r \in Counted THEN table[r] ELSE 0]
      /\ attempt'[a].ahead = attempt[a].ahead
      /\ attempt'[a].alone <=> Quiet /\ \A t \in Threads : flush[t].pc = "idle"
  <2> DEFINE seen == [r \in Rows |-> IF r \in Counted THEN table[r] ELSE 0]
             alone == Quiet /\ \A t \in Threads : flush[t].pc = "idle"
             z == [attempt[a] EXCEPT !.pc = "looking", !.seen = seen, !.alone = alone]
  <2>1. attempt' = [attempt EXCEPT ![a] = z]
    BY DEF Look
  <2> HIDE DEF seen, alone
  <2>2. attempt[a] \in Attempt
    BY <1>1 DEF Typed
  <2>3. z.pc = "looking" /\ z.allow = attempt[a].allow /\ z.ahead = attempt[a].ahead /\ z.seen = seen /\ z.alone = alone
    BY <2>2 DEF Attempt
  <2> HIDE DEF z
  <2>4. attempt'[a] = z
    BY <1>1, <2>1, OneAttempt DEF Typed
  <2> QED BY <2>3, <2>4 DEF seen, alone
<1>3. Allowed' = Allowed
  BY <1>1, <1>2 DEF Allowed
<1>4. SoundLook(a)'
  <2> SUFFICES ASSUME attempt'[a].alone
               PROVE  /\ \A t \in Threads : flush'[t].pc = "idle"
                      /\ \A b \in Allowed : attempt'[a].seen[b] # 0 \/ b \in buffer'
    BY <1>3 DEF SoundLook
  <2>1. Quiet /\ \A t \in Threads : flush[t].pc = "idle"
    BY <1>2
  <2>2. \A b \in Allowed : table[b] # 0 \/ b \in buffer
    BY <2>1, LookFinds
  <2>3. \A b \in Allowed : b \in Rows /\ b \in Counted
    BY DEF Allowed, Counted, Rows
  <2> QED BY <1>1, <1>2, <2>1, <2>2, <2>3
<1>5. ASSUME NEW b \in Attempts \ {a} PROVE SoundLook(b)'
  <2>1. SoundLook(b) /\ attempt'[b] = attempt[b]
    BY <1>1
  <2>2. \A x \in Allowed : x # a
    BY <1>1 DEF Allowed
  <2>3. \A x \in Allowed : attempt'[x] = attempt[x]
    BY <1>1, <2>2 DEF Allowed
  <2> QED BY <1>1, <1>3, <2>1, <2>3 DEF SoundLook, Calm
<1>6. \A b \in Attempts : attempt'[b].allow => attempt'[b].pc \in {"spending", "done", "gone"}
  BY <1>1, <1>2
<1>7. Calm' => lost' = {} /\ \A b \in Attempts : attempt'[b].pc # "gone"
  BY <1>1, <1>2 DEF Calm
<1>8. QuietCallKeepsTheCap'
  BY <1>1, <1>2 DEF QuietCallKeepsTheCap
<1> QED BY <1>1, <1>4, <1>5, <1>6, <1>7, <1>8

LEMMA DecideKeepsCap ==
    ASSUME CapInv, AiInv', NEW a \in Attempts, Decide(a)
    PROVE  CapInv'
<1> USE DEF CapInv
<1>1. /\ Typed /\ UNCHANGED <<recorded, buffer, flush, table, dropped, budget, unsure, lost>>
      /\ attempt[a].pc = "looking"
      /\ \A b \in Attempts \ {a} : attempt'[b] = attempt[b]
  BY DEF Decide, AiInv, Typed
<1>2. /\ attempt'[a].allow = (RecentCalls(a) < MaxCalls)
      /\ attempt'[a].pc = IF RecentCalls(a) < MaxCalls THEN "spending" ELSE "refused"
      /\ attempt'[a].ahead = IF RecentCalls(a) < MaxCalls THEN Allowed ELSE {}
      /\ attempt'[a].alone = (RecentCalls(a) < MaxCalls /\ attempt[a].alone /\ Quiet)
  BY <1>1 DEF Decide, Typed, Attempt
<1>3. \A b \in Allowed' : b \in Allowed \/ (b = a /\ attempt'[a].pc = "spending")
  BY <1>1, <1>2 DEF Allowed
<1>4. a \notin Allowed
  BY <1>1 DEF Allowed
<1>5. ASSUME NEW b \in Attempts PROVE SoundLook(b)'
  <2>1. CASE b = a
    BY <1>2, <2>1 DEF SoundLook
  <2>2. CASE b # a
    <3>1. SoundLook(b) /\ attempt'[b] = attempt[b]
      BY <1>1, <2>2
    <3>2. \A x \in Allowed : x \in Attempts /\ attempt'[x] = attempt[x]
      BY <1>1, <1>4 DEF Allowed
    <3> QED BY <1>1, <1>3, <3>1, <3>2 DEF SoundLook, Calm
  <2> QED BY <2>1, <2>2
<1>6. attempt'[a].allow /\ attempt'[a].alone => Cardinality(attempt'[a].ahead) < MaxCalls
  <2> SUFFICES ASSUME RecentCalls(a) < MaxCalls, attempt[a].alone, Quiet
               PROVE  Cardinality(Allowed) < MaxCalls
    BY <1>2
  <2>1. Cardinality(Allowed) <= RecentCalls(a)
    BY <1>1, AllCounted
  <2>2. Cardinality(Allowed) \in Nat /\ MaxCalls \in Nat
    BY RowsFinite, AiAssumption DEF Allowed, Rows
  <2>3. Cardinality(Found(a)) \in Nat /\ Cardinality(buffer \cap Counted) \in Nat
    <3>1. {} \in SUBSET Rows /\ buffer \cap Counted \in SUBSET Rows
      BY <1>1 DEF Typed
    <3> QED BY <1>1, <3>1, FoundCounts, RowsFinite
  <2> QED BY <2>1, <2>2, <2>3 DEF RecentCalls
<1>7. QuietCallKeepsTheCap'
  BY <1>1, <1>6 DEF QuietCallKeepsTheCap
<1>8. \A b \in Attempts : attempt'[b].allow => attempt'[b].pc \in {"spending", "done", "gone"}
  BY <1>1, <1>2
<1>9. Calm' => lost' = {} /\ \A b \in Attempts : attempt'[b].pc # "gone"
  BY <1>1, <1>2 DEF Calm
<1> QED BY <1>1, <1>5, <1>7, <1>8, <1>9
LEMMA LookFailsKeepsCap ==
    ASSUME CapInv, AiInv', NEW a \in Attempts, LookFails(a)
    PROVE  CapInv'
<1>1. Typed /\ attempt[a].pc = "idle" /\ ~attempt[a].allow
  BY DEF CapInv, AiInv, LookFails
<1>2. \A b \in Attempts : /\ attempt'[b].allow = attempt[b].allow /\ attempt'[b].ahead = attempt[b].ahead
                           /\ attempt'[b].alone = attempt[b].alone
                           /\ attempt[b].allow => attempt'[b].pc = attempt[b].pc
  BY <1>1 DEF LookFails, Typed, Attempt
<1>3. \A b \in Attempts : attempt[b].allow => attempt[b].pc \in {"spending", "done", "gone"}
  BY DEF CapInv
<1> QED BY <1>2, <1>3, MishapKeepsCap DEF LookFails

(* An audit moves its call from "spending" into the buffer, or is counted    *)
(* as dropped.                                                               *)
LEMMA AuditKeepsCap ==
    ASSUME CapInv, AiInv', NEW a \in Attempts, Audit(a)
    PROVE  CapInv'
<1> USE DEF CapInv
<1>1. /\ Typed /\ UNCHANGED <<flush, table, budget, lost>> /\ a \in Rows
      /\ attempt'[a].pc = "done" /\ attempt'[a].allow = attempt[a].allow
      /\ attempt'[a].ahead = attempt[a].ahead /\ attempt'[a].alone = attempt[a].alone
      /\ \A b \in Attempts \ {a} : attempt'[b] = attempt[b]
  BY DEF Audit, AiInv, Typed, Attempt, Rows
<1>2. Allowed' = Allowed
  BY <1>1 DEF Allowed
<1>3. dropped' = 0 => dropped = 0 /\ buffer' = buffer \cup {a}
  BY <1>1, EnqueueType DEF Audit, Typed
<1>4. ASSUME NEW b \in Attempts PROVE SoundLook(b)'
  <2> SUFFICES ASSUME attempt'[b].pc = "looking", attempt'[b].alone, Calm', dropped' = 0
               PROVE  /\ \A t \in Threads : flush'[t].pc = "idle"
                      /\ \A x \in Allowed : attempt'[x].pc = "spending" \/ attempt'[b].seen[x] # 0 \/ x \in buffer'
    BY <1>2 DEF SoundLook
  <2>1. b # a /\ attempt'[b] = attempt[b] /\ Calm /\ SoundLook(b)
    BY <1>1 DEF Calm
  <2>2. \A t \in Threads : flush[t].pc = "idle"
    BY <1>3, <2>1 DEF SoundLook
  <2>3. \A x \in Allowed : attempt[x].pc = "spending" \/ attempt[b].seen[x] # 0 \/ x \in buffer
    BY <1>3, <2>1 DEF SoundLook
  <2>4. \A x \in Allowed : x = a \/ attempt'[x] = attempt[x]
    BY <1>1 DEF Allowed
  <2> QED BY <1>1, <1>3, <2>1, <2>2, <2>3, <2>4
<1>5. QuietCallKeepsTheCap'
  BY <1>1 DEF QuietCallKeepsTheCap
<1>6. \A b \in Attempts : attempt'[b].allow => attempt'[b].pc \in {"spending", "done", "gone"}
  BY <1>1
<1>7. Calm' => lost' = {} /\ \A b \in Attempts : attempt'[b].pc # "gone"
  BY <1>1 DEF Calm
<1> QED BY <1>1, <1>4, <1>5, <1>6, <1>7

LEMMA RecordKeepsCap ==
    ASSUME CapInv, AiInv', NEW f \in Features, Record(f)
    PROVE  CapInv'
<1>1. Typed /\ f \in Rows
  BY DEF CapInv, AiInv, Rows
<1>2. buffer \subseteq buffer' /\ (dropped' = 0 => dropped = 0)
  BY <1>1, EnqueueType DEF Record, Typed
<1> QED BY <1>2, CapKept DEF Record

(* A drain disturbs every look.                                              *)
LEMMA DrainKeepsCap ==
    ASSUME CapInv, AiInv', NEW t \in Threads, Drain(t)
    PROVE  CapInv'
<1> USE DEF CapInv
<1>1. /\ Typed /\ UNCHANGED <<budget, lost>>
      /\ \A a \in Attempts :
            \/ attempt'[a] = attempt[a] /\ attempt[a].pc # "looking"
            \/ /\ attempt'[a].pc = "looking" /\ attempt[a].pc = "looking"
               /\ attempt'[a].allow = attempt[a].allow /\ attempt'[a].alone = FALSE
  BY DEF Drain, AiInv, Typed, Attempt
<1>2. \A a \in Attempts : SoundLook(a)'
  BY <1>1 DEF SoundLook
<1>3. QuietCallKeepsTheCap'
  BY <1>1 DEF QuietCallKeepsTheCap
<1>4. \A a \in Attempts : attempt'[a].allow => attempt'[a].pc \in {"spending", "done", "gone"}
  BY <1>1
<1>5. Calm' => lost' = {} /\ \A a \in Attempts : attempt'[a].pc # "gone"
  BY <1>1 DEF Calm
<1> QED BY <1>1, <1>2, <1>3, <1>4, <1>5

LEMMA InsertKeepsCap ==
    ASSUME CapInv, AiInv', NEW t \in Threads, NEW shape \in Shapes, Insert(t, shape)
    PROVE  CapInv'
<1>1. flush[t].pc # "idle"
  BY DEF Insert
<1> QED BY <1>1, CapKept DEF Insert

LEMMA RestoreKeepsCap ==
    ASSUME CapInv, AiInv', NEW t \in Threads, Restore(t)
    PROVE  CapInv'
<1>1. flush[t].pc # "idle" /\ Typed
  BY DEF Restore, CapInv, AiInv
<1>2. PICK keep \in SUBSET flush[t].failed : /\ buffer' = buffer \cup keep
                                             /\ dropped' = dropped + Cardinality(flush[t].failed) - Cardinality(keep)
  BY DEF Restore
<1>3. flush[t].failed \in SUBSET Rows
  BY <1>1 DEF Typed, FlushType
<1>4. Cardinality(keep) <= Cardinality(flush[t].failed)
  BY <1>3, Fewer
<1>5. Cardinality(keep) \in Nat /\ Cardinality(flush[t].failed) \in Nat /\ dropped \in Nat
  BY <1>1, <1>3, RowsFinite DEF Typed
<1>6. dropped' = 0 => dropped = 0
  BY <1>2, <1>4, <1>5
<1> QED BY <1>1, <1>2, <1>6, CapKept DEF Restore

LEMMA CrashKeepsCap ==
    ASSUME CapInv, AiInv', Crash
    PROVE  CapInv'
<1>1. Typed
  BY DEF CapInv, AiInv
<1>2. \A a \in Attempts : /\ attempt'[a].allow = attempt[a].allow /\ attempt'[a].ahead = attempt[a].ahead
                           /\ attempt'[a].alone = attempt[a].alone
                           /\ attempt'[a].pc \in {attempt[a].pc, "gone"}
  BY <1>1 DEF Crash, Typed, Attempt
<1>3. \A a \in Attempts : attempt[a].allow => attempt[a].pc \in {"spending", "done", "gone"}
  BY DEF CapInv
<1> QED BY <1>2, <1>3, MishapKeepsCap DEF Crash

LEMMA FailureKeepsCap ==
    ASSUME CapInv, AiInv', NEW t \in Threads, NoClient(t) \/ \E shape \in Shapes : InsertFails(t, shape)
    PROVE  CapInv'
<1>1. Mishap /\ attempt' = attempt
  BY DEF NoClient, InsertFails
<1>2. \A a \in Attempts : attempt[a].allow => attempt[a].pc \in {"spending", "done", "gone"}
  BY DEF CapInv
<1> QED BY <1>1, <1>2, MishapKeepsCap

LEMMA CapInvariant == AiSpec => []CapInv
<1>1. AiInit => CapInv
  <2> SUFFICES ASSUME AiInit PROVE CapInv
    OBVIOUS
  <2>1. AiInv /\ budget = Mishaps /\ Mishaps \in Nat /\ lost = {}
    BY InvInit, AiAssumption DEF AiInit
  <2>2. \A a \in Attempts : attempt[a].pc = "idle" /\ attempt[a].allow = FALSE
    BY DEF AiInit
  <2> QED BY <2>1, <2>2 DEF CapInv, SoundLook, QuietCallKeepsTheCap
<1>2. ASSUME CapInv, AiInv', [AiNext]_vars PROVE CapInv'
  <2>1. CASE \E a \in Attempts : Look(a) \/ LookFails(a) \/ Decide(a) \/ Audit(a)
    BY <1>2, <2>1, LookKeepsCap, LookFailsKeepsCap, DecideKeepsCap, AuditKeepsCap
  <2>2. CASE \E f \in Features : Record(f)
    BY <1>2, <2>2, RecordKeepsCap
  <2>3. CASE \E t \in Threads : \/ Drain(t) \/ NoClient(t) \/ FlushStep(t)
                               \/ \E shape \in Shapes : InsertFails(t, shape)
    BY <1>2, <2>3, DrainKeepsCap, FailureKeepsCap, RestoreKeepsCap, InsertKeepsCap DEF FlushStep
  <2>4. CASE Crash
    BY <1>2, <2>4, CrashKeepsCap
  <2>5. CASE UNCHANGED vars
    BY <1>2, <2>5, CapKept DEF vars
  <2> QED BY <1>2, <2>1, <2>2, <2>3, <2>4, <2>5 DEF AiNext
<1> QED BY <1>1, <1>2, AiInvariant, PTL DEF AiSpec

(* A call that is allowed while nothing disturbs its look keeps the cap,     *)
(* for any cap, any ceiling and any threads: what the look found stored and  *)
(* what still waits in the buffer cover every call allowed before.           *)
(* (ai_gate.py 121-159, control_box.py 862-871)                              *)
THEOREM QuietKeepsTheCap == AiSpec => []QuietCallKeepsTheCap
<1>1. CapInv => QuietCallKeepsTheCap
  BY DEF CapInv
<1> QED BY <1>1, CapInvariant, PTL

=============================================================================
