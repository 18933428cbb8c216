------------------------- MODULE DerivedBuilds_proofs --------------------------
(* Proofs about DerivedBuilds, for any number of landings, threads, processes, *)
(* parts, presses and mishaps.                                                 *)
EXTENDS DerivedBuilds, TLAPS

States == {"idle", "due", "claimed", "requeue", "started", "read", "inserting", "ended", "failed", "dead"}

Builder == [pc : States, time : Nat, on : BOOLEAN, press : BOOLEAN, covers : SUBSET Landings,
            saw : SUBSET Landings, part : 1..Parts]

(* What stands whoever builds: a press is a build, and is counted.          *)
PressCounted ==
    /\ presses <= Presses
    /\ \A t \in Threads : builder[t].press => Building(t) /\ presses < Presses

BasicInv == BuildTypeOK /\ PressCounted

LEMMA InitialBuilderType == InitialBuilder \in Builder /\ Parts \in Nat \ {0}
BY BuildsAssumption DEF InitialBuilder, Builder, States

LEMMA BasicInit == BuildInit => BasicInv
<1> SUFFICES ASSUME BuildInit PROVE BasicInv
  OBVIOUS
<1>1. BuildTypeOK
  BY InitialBuilderType, BuildsAssumption DEF BuildInit, BuildTypeOK, Builder, States, NoTime
<1>2. PressCounted
  BY BuildsAssumption DEF BuildInit, PressCounted, InitialBuilder
<1> QED BY <1>1, <1>2 DEF BasicInv

(* What stands while the builds come from the threads of one process: one   *)
(* of them builds, its process is in the running set, it read all that any  *)
(* finished build read, and once it has deleted, the rows are its own.      *)
AloneInv ==
    /\ \A t, u \in Threads : Building(t) /\ Building(u) => t = u
    /\ \A t \in Threads : Building(t) => home[t] \in running
    /\ built \subseteq data
    /\ \A t \in Threads : builder[t].pc \in {"read", "inserting", "ended"} =>
          built \subseteq builder[t].saw /\ builder[t].saw \subseteq data
    /\ \A t \in Threads : builder[t].pc \in {"inserting", "ended"} =>
          \A r \in ledger : r.by = t /\ r.saw = builder[t].saw
    /\ OneBuildsRows
    /\ \A r \in ledger : built \subseteq r.saw

BuildInv == BasicInv /\ (Alone => AloneInv)

(* A step that rewrites one builder, within the type and the count.         *)
LEMMA BuilderStep ==
    ASSUME BasicInv, NEW t \in Threads, NEW b \in Builder,
           builder' = [builder EXCEPT ![t] = b],
           b.press => b.pc \in {"started", "read", "inserting", "ended", "failed"} /\ presses' < Presses,
           presses' \in Nat, presses' <= presses
    PROVE  /\ builder' \in [Threads -> Builder]
           /\ PressCounted'
<1>1. builder \in [Threads -> Builder] /\ presses \in Nat /\ Presses \in Nat
  BY BuildsAssumption DEF BasicInv, BuildTypeOK, Builder, States
<1>2. builder' \in [Threads -> Builder]
  BY <1>1
<1>3. ASSUME NEW u \in Threads, builder'[u].press PROVE Building(u)' /\ presses' < Presses
  BY <1>1, <1>3 DEF BasicInv, PressCounted, Building
<1> QED BY <1>1, <1>2, <1>3 DEF BasicInv, PressCounted

LEMMA BasicStep == BasicInv /\ [BuildNext]_vars => BasicInv'
<1> SUFFICES ASSUME BasicInv, [BuildNext]_vars PROVE BasicInv'
  OBVIOUS
<1>t. /\ builder \in [Threads -> Builder]
      /\ home \in [Threads -> Processes] /\ now \in Nat /\ data \in SUBSET Landings
      /\ request \in Nat \cup {NoTime}
      /\ lander \in [Landings -> [pc : {"idle", "written", "hooked", "queued", "off", "failed"}, time : Nat]]
      /\ running \in SUBSET Processes /\ ledger \in SUBSET Rows /\ on \in BOOLEAN
      /\ presses \in Nat /\ budget \in Nat
      /\ answered \in SUBSET Landings /\ built \in SUBSET Landings
      /\ Parts \in Nat \ {0} /\ Presses \in Nat
      /\ presses <= Presses
      /\ \A t \in Threads : builder[t].press => Building(t) /\ presses < Presses
  BY BuildsAssumption DEF BasicInv, BuildTypeOK, PressCounted, Builder, States
<1> USE <1>t
<1>1. ASSUME UNCHANGED <<builder, presses, running, ledger, answered, built>>,
             home' = home, now' \in Nat, data' \in SUBSET Landings, request' \in Nat \cup {NoTime},
             lander' \in [Landings -> [pc : {"idle", "written", "hooked", "queued", "off", "failed"}, time : Nat]],
             on' \in BOOLEAN, budget' \in Nat
      PROVE  BasicInv'
  BY <1>1 DEF BasicInv, BuildTypeOK, PressCounted, Builder, States, Building
<1>2. ASSUME NEW l \in Landings, Land(l) \/ LanderStep(l) \/ HookFails(l) PROVE BasicInv'
  BY <1>1, <1>2 DEF Land, LanderStep, Hook, QueueLanding, HookFails, Mishap
<1> DEFINE Frame ==
      /\ UNCHANGED <<home, now, data, lander, on>>
      /\ request' \in Nat \cup {NoTime} /\ running' \in SUBSET Processes /\ ledger' \in SUBSET Rows
      /\ presses' \in Nat /\ presses' <= presses /\ budget' \in Nat
      /\ answered' \in SUBSET Landings /\ built' \in SUBSET Landings
<1>3. ASSUME NEW t \in Threads, NEW b \in Builder, builder' = [builder EXCEPT ![t] = b],
             b.press => b.pc \in {"started", "read", "inserting", "ended", "failed"} /\ presses' < Presses, Frame
      PROVE  BasicInv'
  <2>1. builder' \in [Threads -> Builder] /\ PressCounted'
    BY BuilderStep, <1>3
  <2> QED BY <2>1, <1>3 DEF BasicInv, BuildTypeOK, Builder, States
<1> HIDE DEF Frame
<1> DEFINE F(t, b) ==
      /\ b \in Builder /\ builder' = [builder EXCEPT ![t] = b]
      /\ b.press => b.pc \in {"started", "read", "inserting", "ended", "failed"} /\ presses' < Presses
<1> USE InitialBuilderType
<1>4. ASSUME NEW t \in Threads, Scan(t) PROVE BasicInv'
  <2>1. F(t, [InitialBuilder EXCEPT !.pc = "due", !.time = request, !.on = on])
    BY <1>4 DEF Scan, Builder, States, Building, InitialBuilder, Queued, Mishap, Claimable, Pending, NoTime
  <2>2. PICK b \in Builder : F(t, b)
    BY <2>1
  <2>3. Frame
    BY <1>4 DEF Frame, Scan, Row, Rows, Builder, States, Mishap, NoTime
  <2> QED BY <1>3, <2>2, <2>3
<1>5. ASSUME NEW t \in Threads, Claim(t) PROVE BasicInv'
  <2>1. F(t, [builder[t] EXCEPT !.pc = "claimed", !.covers = Queued, !.time = 0]) \/ F(t, InitialBuilder)
    BY <1>5 DEF Claim, Builder, States, Building, InitialBuilder, Queued, Mishap, Claimable, Pending, NoTime
  <2>2. PICK b \in Builder : F(t, b)
    BY <2>1
  <2>3. Frame
    BY <1>5 DEF Frame, Claim, Row, Rows, Builder, States, Mishap, NoTime
  <2> QED BY <1>3, <2>2, <2>3
<1>6. ASSUME NEW t \in Threads, ClaimFails(t) PROVE BasicInv'
  <2>1. F(t, InitialBuilder)
    BY <1>6 DEF ClaimFails, Builder, States, Building, InitialBuilder, Queued, Mishap, Claimable, Pending, NoTime
  <2>2. PICK b \in Builder : F(t, b)
    BY <2>1
  <2>3. Frame
    BY <1>6 DEF Frame, ClaimFails, Row, Rows, Builder, States, Mishap, NoTime
  <2> QED BY <1>3, <2>2, <2>3
<1>7. ASSUME NEW t \in Threads, RunOne(t) PROVE BasicInv'
  <2>1. F(t, InitialBuilder) \/ F(t, [builder[t] EXCEPT !.pc = "requeue", !.time = now]) \/ F(t, [builder[t] EXCEPT !.pc = "started"])
    BY <1>7 DEF RunOne, Builder, States, Building, InitialBuilder, Queued, Mishap, Claimable, Pending, NoTime
  <2>2. PICK b \in Builder : F(t, b)
    BY <2>1
  <2>3. Frame
    BY <1>7 DEF Frame, RunOne, Row, Rows, Builder, States, Mishap, NoTime
  <2> QED BY <1>3, <2>2, <2>3
<1>8. ASSUME NEW t \in Threads, QueueAgain(t) PROVE BasicInv'
  <2>1. F(t, InitialBuilder)
    BY <1>8 DEF QueueAgain, Builder, States, Building, InitialBuilder, Queued, Mishap, Claimable, Pending, NoTime
  <2>2. PICK b \in Builder : F(t, b)
    BY <2>1
  <2>3. Frame
    BY <1>8 DEF Frame, QueueAgain, Row, Rows, Builder, States, Mishap, NoTime
  <2> QED BY <1>3, <2>2, <2>3
<1>9. ASSUME NEW t \in Threads, RequeueFails(t) PROVE BasicInv'
  <2>1. F(t, InitialBuilder)
    BY <1>9 DEF RequeueFails, Builder, States, Building, InitialBuilder, Queued, Mishap, Claimable, Pending, NoTime
  <2>2. PICK b \in Builder : F(t, b)
    BY <2>1
  <2>3. Frame
    BY <1>9 DEF Frame, RequeueFails, Row, Rows, Builder, States, Mishap, NoTime
  <2> QED BY <1>3, <2>2, <2>3
<1>10. ASSUME NEW t \in Threads, Press(t) PROVE BasicInv'
  <2>1. F(t, [builder[t] EXCEPT !.pc = "started", !.press = TRUE])
    BY <1>10 DEF Press, Builder, States, Building, InitialBuilder, Queued, Mishap, Claimable, Pending, NoTime
  <2>2. PICK b \in Builder : F(t, b)
    BY <2>1
  <2>3. Frame
    BY <1>10 DEF Frame, Press, Row, Rows, Builder, States, Mishap, NoTime
  <2> QED BY <1>3, <2>2, <2>3
<1>11. ASSUME NEW t \in Threads, ReadInputs(t) PROVE BasicInv'
  <2>1. F(t, [builder[t] EXCEPT !.pc = "read", !.saw = data])
    BY <1>11 DEF ReadInputs, Builder, States, Building, InitialBuilder, Queued, Mishap, Claimable, Pending, NoTime
  <2>2. PICK b \in Builder : F(t, b)
    BY <2>1
  <2>3. Frame
    BY <1>11 DEF Frame, ReadInputs, Row, Rows, Builder, States, Mishap, NoTime
  <2> QED BY <1>3, <2>2, <2>3
<1>12. ASSUME NEW t \in Threads, DeleteRows(t) PROVE BasicInv'
  <2>1. F(t, [builder[t] EXCEPT !.pc = "inserting", !.part = 1])
    BY <1>12 DEF DeleteRows, Builder, States, Building, InitialBuilder, Queued, Mishap, Claimable, Pending, NoTime
  <2>2. PICK b \in Builder : F(t, b)
    BY <2>1
  <2>3. Frame
    BY <1>12 DEF Frame, DeleteRows, Row, Rows, Builder, States, Mishap, NoTime
  <2> QED BY <1>3, <2>2, <2>3
<1>13. ASSUME NEW t \in Threads, InsertBatch(t) PROVE BasicInv'
  <2>1. F(t, [builder[t] EXCEPT !.part = @ + 1]) \/ F(t, [builder[t] EXCEPT !.pc = "ended"])
    <3>1. /\ builder[t] \in Builder /\ builder[t].pc = "inserting" /\ UNCHANGED presses
          /\ builder[t].press => presses < Presses
      BY <1>13 DEF InsertBatch
    <3>2. CASE builder[t].part < Parts /\ builder' = [builder EXCEPT ![t].part = @ + 1]
      <4>1. [builder[t] EXCEPT !.part = @ + 1] \in Builder
        BY <3>1, <3>2 DEF Builder, States
      <4>2. builder' = [builder EXCEPT ![t] = [builder[t] EXCEPT !.part = @ + 1]]
        BY <3>2
      <4> QED BY <3>1, <4>1, <4>2
    <3>3. CASE builder' = [builder EXCEPT ![t].pc = "ended"]
      BY <3>1, <3>3 DEF Builder, States
    <3> QED BY <1>13, <3>2, <3>3 DEF InsertBatch
  <2>2. PICK b \in Builder : F(t, b)
    BY <2>1
  <2>3. Frame
    BY <1>13 DEF Frame, InsertBatch, Row, Rows, Builder, States, Mishap, NoTime
  <2> QED BY <1>3, <2>2, <2>3
<1>14. ASSUME NEW t \in Threads, BuildFails(t) PROVE BasicInv'
  <2>1. F(t, [builder[t] EXCEPT !.pc = "failed"])
    BY <1>14 DEF BuildFails, Builder, States, Building, InitialBuilder, Queued, Mishap, Claimable, Pending, NoTime
  <2>2. PICK b \in Builder : F(t, b)
    BY <2>1
  <2>3. Frame
    BY <1>14 DEF Frame, BuildFails, Row, Rows, Builder, States, Mishap, NoTime
  <2> QED BY <1>3, <2>2, <2>3
<1>15. ASSUME NEW t \in Threads, EndBuild(t) PROVE BasicInv'
  <2>1. F(t, InitialBuilder)
    BY <1>15 DEF EndBuild, Builder, States, Building, InitialBuilder, Queued, Mishap, Claimable, Pending, NoTime
  <2>2. PICK b \in Builder : F(t, b)
    BY <2>1
  <2>3. Frame
    BY <1>15 DEF Frame, EndBuild, Row, Rows, Builder, States, Mishap, NoTime
  <2> QED BY <1>3, <2>2, <2>3
<1>16. ASSUME NEW t \in Threads, Boot(t) PROVE BasicInv'
  <2>1. F(t, InitialBuilder)
    BY <1>16 DEF Boot, Builder, States, Building, InitialBuilder, Queued, Mishap, Claimable, Pending, NoTime
  <2>2. PICK b \in Builder : F(t, b)
    BY <2>1
  <2>3. Frame
    BY <1>16 DEF Frame, Boot, Row, Rows, Builder, States, Mishap, NoTime
  <2> QED BY <1>3, <2>2, <2>3
<1>17. ASSUME NEW q \in Processes, Die(q) PROVE BasicInv'
  <2>1. builder' \in [Threads -> Builder]
    BY <1>17 DEF Die, Builder, States, InitialBuilder
  <2>2. \A t \in Threads : builder'[t].press => builder'[t] = builder[t]
    BY <1>17 DEF Die, InitialBuilder
  <2> QED BY <1>17, <2>1, <2>2 DEF Die, Mishap, BasicInv, BuildTypeOK, PressCounted, Builder, States, Building
<1>18. CASE Tick \/ Switch
  <2>1. on' \in BOOLEAN
    BY <1>18, Zenon DEF Tick, Switch
  <2> QED BY <1>1, <1>18, <2>1 DEF Tick, Switch, Mishap
<1>19. CASE UNCHANGED vars
  BY <1>1, <1>19 DEF vars
<1> QED
  BY <1>2, <1>4, <1>5, <1>6, <1>7, <1>8, <1>9, <1>10, <1>11, <1>12, <1>13, <1>14, <1>15, <1>16, <1>17, <1>18, <1>19 DEF BuildNext, PollerStep, BuildStep

(* A press is never taken back: builds that come from one process now came  *)
(* from one process before.                                                 *)
LEMMA AloneBefore == BasicInv /\ [BuildNext]_vars /\ Alone' => Alone /\ home' = home
<1> SUFFICES ASSUME BasicInv, [BuildNext]_vars, Alone' PROVE Alone /\ home' = home
  OBVIOUS
<1>1. presses' <= presses /\ home' = home /\ presses \in Nat /\ Presses \in Nat /\ presses <= Presses
  <2>t. presses \in Nat /\ Presses \in Nat /\ presses <= Presses
    BY BuildsAssumption DEF BasicInv, BuildTypeOK, PressCounted
  <2> USE <2>t
  <2>1. ASSUME NEW l \in Landings, Land(l) \/ LanderStep(l) \/ HookFails(l)
        PROVE  presses' <= presses /\ home' = home
    BY <2>1 DEF Land, LanderStep, Hook, QueueLanding, HookFails
  <2>3. ASSUME NEW t \in Threads, PollerStep(t) \/ ClaimFails(t) \/ RequeueFails(t) \/ Boot(t)
        PROVE  presses' <= presses /\ home' = home
    BY <2>3 DEF PollerStep, Scan, Claim, ClaimFails, RunOne, QueueAgain, RequeueFails, Boot
  <2>4. ASSUME NEW t \in Threads, BuildStep(t) \/ BuildFails(t) \/ Press(t)
        PROVE  presses' <= presses /\ home' = home
    BY <2>4 DEF Press, BuildStep, ReadInputs, DeleteRows, InsertBatch, BuildFails, EndBuild
  <2>5. CASE (\E q \in Processes : Die(q)) \/ Tick \/ Switch
    BY <2>5 DEF Die, Tick, Switch
  <2>2. CASE UNCHANGED vars
    BY <2>2 DEF vars
  <2> QED BY <2>1, <2>2, <2>3, <2>4, <2>5 DEF BuildNext
<1> QED BY <1>1 DEF Alone

LEMMA AloneStep ==
    ASSUME BasicInv, Alone, Alone', AloneInv, [BuildNext]_vars
    PROVE  AloneInv'
<1>t. /\ builder \in [Threads -> Builder]
      /\ home \in [Threads -> Processes]
      /\ running \in SUBSET Processes /\ ledger \in SUBSET Rows
      /\ built \in SUBSET Landings /\ data \in SUBSET Landings
      /\ \A t, u \in Threads : home[t] = home[u]
      /\ \A t \in Threads : ~builder[t].press
      /\ presses' = presses /\ home' = home
  <2>1. presses <= Presses /\ presses \in Nat /\ Presses \in Nat
    BY BuildsAssumption DEF BasicInv, BuildTypeOK, PressCounted
  <2>2. presses' = presses /\ presses = Presses /\ home' = home
    BY AloneBefore DEF Alone
  <2> QED BY <2>1, <2>2 DEF BasicInv, BuildTypeOK, PressCounted, Builder, States, Alone
<1>0. ASSUME UNCHANGED <<builder, running, ledger, built>>, data \subseteq data'
      PROVE  AloneInv'
  BY <1>t, <1>0 DEF AloneInv, Building, OneBuildsRows
<1>1. ASSUME NEW l \in Landings, Land(l) \/ LanderStep(l) \/ HookFails(l) PROVE AloneInv'
  BY <1>0, <1>1 DEF Land, LanderStep, Hook, QueueLanding, HookFails
<1>2. CASE Tick \/ Switch \/ UNCHANGED vars
  BY <1>0, <1>2 DEF Tick, Switch, vars
(* A step outside the build: the thread was not building and is not.        *)
<1>3. ASSUME NEW t \in Threads, NEW b \in Builder, builder' = [builder EXCEPT ![t] = b],
             b.pc \notin {"started", "read", "inserting", "ended", "failed"},
             UNCHANGED <<running, ledger, built, data>>
      PROVE  AloneInv'
  BY <1>t, <1>3 DEF AloneInv, Building, OneBuildsRows
<1> DEFINE G(t, b) ==
      /\ b \in Builder /\ builder' = [builder EXCEPT ![t] = b]
      /\ b.pc \notin {"started", "read", "inserting", "ended", "failed"}
<1>4. ASSUME NEW t \in Threads, Scan(t) PROVE AloneInv'
  <2>1. G(t, [InitialBuilder EXCEPT !.pc = "due", !.time = request, !.on = on])
    BY <1>4, <1>t, InitialBuilderType DEF Scan, Builder, States, InitialBuilder, Queued, Claimable, Pending, NoTime, BasicInv, BuildTypeOK
  <2>2. PICK b \in Builder : G(t, b)
    BY <2>1
  <2> QED BY <1>3, <1>4, <2>2 DEF Scan
<1>5. ASSUME NEW t \in Threads, Claim(t) PROVE AloneInv'
  <2>1. G(t, [builder[t] EXCEPT !.pc = "claimed", !.covers = Queued, !.time = 0]) \/ G(t, InitialBuilder)
    BY <1>5, <1>t, InitialBuilderType DEF Claim, Builder, States, InitialBuilder, Queued, Claimable, Pending, NoTime, BasicInv, BuildTypeOK
  <2>2. PICK b \in Builder : G(t, b)
    BY <2>1
  <2> QED BY <1>3, <1>5, <2>2 DEF Claim
<1>6. ASSUME NEW t \in Threads, ClaimFails(t) PROVE AloneInv'
  <2>1. PICK b \in Builder : /\ builder' = [builder EXCEPT ![t] = b]
                             /\ b.pc \notin {"started", "read", "inserting", "ended", "failed"}
    BY <1>6, <1>t, InitialBuilderType DEF ClaimFails, Builder, States, InitialBuilder, Queued, Claimable, Pending, NoTime, BasicInv, BuildTypeOK
  <2> QED BY <1>3, <1>6, <2>1 DEF ClaimFails
<1>7. ASSUME NEW t \in Threads, QueueAgain(t) PROVE AloneInv'
  <2>1. PICK b \in Builder : /\ builder' = [builder EXCEPT ![t] = b]
                             /\ b.pc \notin {"started", "read", "inserting", "ended", "failed"}
    BY <1>7, <1>t, InitialBuilderType DEF QueueAgain, Builder, States, InitialBuilder, Queued, Claimable, Pending, NoTime, BasicInv, BuildTypeOK
  <2> QED BY <1>3, <1>7, <2>1 DEF QueueAgain
<1>8. ASSUME NEW t \in Threads, RequeueFails(t) PROVE AloneInv'
  <2>1. PICK b \in Builder : /\ builder' = [builder EXCEPT ![t] = b]
                             /\ b.pc \notin {"started", "read", "inserting", "ended", "failed"}
    BY <1>8, <1>t, InitialBuilderType DEF RequeueFails, Builder, States, InitialBuilder, Queued, Claimable, Pending, NoTime, BasicInv, BuildTypeOK
  <2> QED BY <1>3, <1>8, <2>1 DEF RequeueFails
<1>9. ASSUME NEW t \in Threads, Boot(t) PROVE AloneInv'
  <2>1. PICK b \in Builder : /\ builder' = [builder EXCEPT ![t] = b]
                             /\ b.pc \notin {"started", "read", "inserting", "ended", "failed"}
    BY <1>9, <1>t, InitialBuilderType DEF Boot, Builder, States, InitialBuilder, Queued, Claimable, Pending, NoTime, BasicInv, BuildTypeOK
  <2> QED BY <1>3, <1>9, <2>1 DEF Boot
<1>10. ASSUME NEW t \in Threads, RunOne(t) PROVE AloneInv'
  <2>1. CASE UNCHANGED running
    <3>1. G(t, InitialBuilder) \/ G(t, [builder[t] EXCEPT !.pc = "requeue", !.time = now])
      BY <1>10, <1>t, <2>1, InitialBuilderType DEF RunOne, Busy, Builder, States, InitialBuilder, BasicInv, BuildTypeOK
    <3>2. PICK b \in Builder : G(t, b)
      BY <3>1
    <3> QED BY <1>3, <1>10, <2>1, <3>2 DEF RunOne
  <2>2. CASE ~UNCHANGED running
    <3>1. /\ ~Busy(t) /\ running' = running \cup {home[t]}
          /\ builder' = [builder EXCEPT ![t].pc = "started"]
          /\ UNCHANGED <<ledger, built, data>>
      BY <1>10, <2>2 DEF RunOne
    <3>2. \A u \in Threads : ~Building(u)
      BY <1>t, <3>1 DEF AloneInv, Busy
    <3> QED BY <1>t, <3>1, <3>2 DEF AloneInv, Building, OneBuildsRows
  <2> QED BY <2>1, <2>2
<1>11. ASSUME NEW t \in Threads, ReadInputs(t) PROVE AloneInv'
  BY <1>11, <1>t DEF ReadInputs, AloneInv, Building, OneBuildsRows, Busy, InitialBuilder, Row
<1>12. ASSUME NEW t \in Threads, DeleteRows(t) PROVE AloneInv'
  BY <1>12, <1>t DEF DeleteRows, AloneInv, Building, OneBuildsRows, Busy, InitialBuilder, Row
<1>13. ASSUME NEW t \in Threads, InsertBatch(t) PROVE AloneInv'
  <2>1. /\ builder[t].pc = "inserting" /\ Building(t)
        /\ \A r \in ledger : r.by = t /\ r.saw = builder[t].saw
        /\ built \subseteq builder[t].saw
        /\ UNCHANGED <<running, data, built>>
    BY <1>13, <1>t DEF InsertBatch, AloneInv, Building
  <2>2. \A r \in ledger' : r.by = t /\ r.saw = builder[t].saw
    BY <1>13, <2>1 DEF InsertBatch, Row
  <2>3. /\ \A u \in Threads : u # t => builder'[u] = builder[u]
        /\ builder'[t].saw = builder[t].saw
    BY <1>13, <1>t DEF InsertBatch, Builder
  <2>4. builder'[t].pc \in {"inserting", "ended"}
    BY <1>13, <1>t DEF InsertBatch, Builder
  <2>5. \A u, w \in Threads : Building(u) /\ Building(w) => u = w
    BY DEF AloneInv
  <2>6. ASSUME NEW u \in Threads, u # t PROVE ~(Building(u)')
    <3>1. ~Building(u) /\ builder'[u] = builder[u]
      BY <2>1, <2>3, <2>5, <2>6
    <3> QED BY <3>1 DEF Building
  <2>7. home[t] \in running'
    BY <2>1 DEF AloneInv
  <2>8. \A u \in Threads : builder'[u].pc \in {"read", "inserting", "ended"} => u = t
    BY <2>6 DEF Building
  <2>9. built' \subseteq builder'[t].saw /\ builder'[t].saw \subseteq data' /\ built' \subseteq data'
    <3>1. builder[t].saw \subseteq data /\ built \subseteq data
      BY <2>1 DEF AloneInv
    <3>2. builder'[t].saw = builder[t].saw /\ built' = built /\ data' = data
      BY <2>1, <2>3
    <3> QED BY <2>1, <3>1, <3>2
  <2>a. \A u, w \in Threads : Building(u)' /\ Building(w)' => u = w
    BY <2>6
  <2>b. \A u \in Threads : Building(u)' => home'[u] \in running'
    BY <1>t, <2>6, <2>7
  <2>c. OneBuildsRows' /\ \A r \in ledger' : built' \subseteq r.saw
    BY <2>1, <2>2 DEF OneBuildsRows
  <2>d. /\ \A u \in Threads : builder'[u].pc \in {"read", "inserting", "ended"} =>
              built' \subseteq builder'[u].saw /\ builder'[u].saw \subseteq data'
        /\ \A u \in Threads : builder'[u].pc \in {"inserting", "ended"} =>
              \A r \in ledger' : r.by = u /\ r.saw = builder'[u].saw
    BY <2>2, <2>3, <2>8, <2>9
  <2> QED BY <2>9, <2>a, <2>b, <2>c, <2>d DEF AloneInv
<1>14. ASSUME NEW t \in Threads, BuildFails(t) PROVE AloneInv'
  BY <1>14, <1>t DEF BuildFails, AloneInv, Building, OneBuildsRows, Busy, InitialBuilder, Row
<1>15. ASSUME NEW t \in Threads, EndBuild(t) PROVE AloneInv'
  BY <1>15, <1>t DEF EndBuild, AloneInv, Building, OneBuildsRows, Busy, InitialBuilder, Row
<1>16. ASSUME NEW t \in Threads, Press(t) PROVE AloneInv'
  BY <1>16, <1>t, BuildsAssumption DEF Press, BasicInv, BuildTypeOK
<1>17. ASSUME NEW q \in Processes, Die(q) PROVE AloneInv'
  BY <1>17, <1>t DEF Die, AloneInv, Building, OneBuildsRows, InitialBuilder
<1> QED
  BY <1>1, <1>2, <1>4, <1>5, <1>6, <1>7, <1>8, <1>9, <1>10, <1>11, <1>12, <1>13, <1>14, <1>15, <1>16, <1>17 DEF BuildNext, PollerStep, BuildStep

LEMMA BuildInvariant == BuildsSpec => []BuildInv
<1>1. BuildInit => BuildInv
  <2> SUFFICES ASSUME BuildInit PROVE BuildInv
    OBVIOUS
  <2>1. AloneInv
    BY DEF BuildInit, AloneInv, Building, OneBuildsRows, InitialBuilder
  <2> QED BY <2>1, BasicInit DEF BuildInv
<1>2. BuildInv /\ [BuildNext]_vars => BuildInv'
  BY BasicStep, AloneBefore, AloneStep DEF BuildInv
<1> QED BY <1>1, <1>2, PTL DEF BuildsSpec

(* The rows, the requests and the threads keep their types.                 *)
THEOREM BuildTypeCorrect == BuildsSpec => []BuildTypeOK
<1>1. BuildInv => BuildTypeOK
  BY DEF BuildInv, BasicInv
<1> QED BY <1>1, BuildInvariant, PTL

(* Whatever number of threads of one process poll, claim, fail and are      *)
(* restarted, the ledger never holds rows of two builds.                    *)
THEOREM OneProcessNeverDoubles == BuildsSpec => []NeverDoubled
<1>1. BuildInv => NeverDoubled
  BY DEF BuildInv, AloneInv, NeverDoubled
<1> QED BY <1>1, BuildInvariant, PTL

(* ... and never a row older than what a finished build read.               *)
THEOREM OneProcessNeverGoesBack == BuildsSpec => []NeverOlder
<1>1. BuildInv => NeverOlder
  BY DEF BuildInv, AloneInv, NeverOlder
<1> QED BY <1>1, BuildInvariant, PTL

-----------------------------------------------------------------------------
(* Who owes a landing.                                                       *)

Kept(l) == Accounted(l)' \/ budget' < budget

LEMMA AccountedStep ==
    ASSUME BasicInv, [BuildNext]_vars, NEW l \in Queued',
           l \in Queued => Accounted(l)
    PROVE  Kept(l)
<1>t. /\ builder \in [Threads -> Builder]
      /\ lander \in [Landings -> [pc : {"idle", "written", "hooked", "queued", "off", "failed"}, time : Nat]]
      /\ now \in Nat /\ budget \in Nat
      /\ \A t \in Threads : builder[t].press => Building(t)
  BY DEF BasicInv, BuildTypeOK, PressCounted, Builder, States
<1> USE <1>t
<1>1. ASSUME Mishap PROVE Kept(l)
  BY <1>1 DEF Mishap, Kept
<1>2. ASSUME NEW k \in Landings, QueueLanding(k) PROVE Kept(l)
  <2>1. request' \in Nat
    BY <1>2 DEF QueueLanding
  <2> QED BY <2>1 DEF Kept, Accounted, Pending, NoTime
<1>3. ASSUME NEW t \in Threads, QueueAgain(t) PROVE Kept(l)
  <2>1. request' \in Nat
    BY <1>3 DEF QueueAgain, Builder
  <2> QED BY <2>1 DEF Kept, Accounted, Pending, NoTime
(* Nobody else makes a landing queued, so it was accounted for.              *)
<1>4. ASSUME UNCHANGED <<builder, request, answered>>, Queued' \subseteq Queued PROVE Kept(l)
  <2>1. Accounted(l)
    BY <1>4
  <2> QED BY <1>4, <2>1 DEF Kept, Accounted, Pending, Owes, Building
<1>5. ASSUME NEW k \in Landings, Land(k) \/ Hook(k) PROVE Kept(l)
  <2>1. Queued' \subseteq Queued
    BY <1>5 DEF Land, Hook, Queued
  <2> QED BY <1>4, <1>5, <2>1 DEF Land, Hook
<1>6. CASE Tick \/ UNCHANGED vars
  BY <1>4, <1>6 DEF Tick, vars, Queued
(* One thread moves and goes on owing what it owed.                          *)
<1>7. ASSUME NEW t \in Threads, UNCHANGED <<request, lander>>, answered \subseteq answered',
             \A u \in Threads : u # t => builder'[u] = builder[u],
             Owes(t) => \/ Owes(t)' /\ builder'[t].covers = builder[t].covers
                        \/ builder[t].covers \subseteq answered'
      PROVE  Kept(l)
  <2>1. l \in Queued /\ Accounted(l)
    BY <1>7 DEF Queued
  <2>2. CASE l \in answered \/ Pending
    BY <1>7, <2>2 DEF Kept, Accounted, Pending
  <2>3. CASE \E u \in Threads : Owes(u) /\ l \in builder[u].covers
    <3>1. PICK u \in Threads : Owes(u) /\ l \in builder[u].covers
      BY <2>3
    <3>2. CASE u = t
      BY <1>7, <3>1, <3>2 DEF Kept, Accounted
    <3>3. CASE u # t
      BY <1>7, <3>1, <3>3 DEF Kept, Accounted, Owes, Building
    <3> QED BY <3>2, <3>3
  <2> QED BY <2>1, <2>2, <2>3 DEF Accounted
<1>8. ASSUME NEW t \in Threads, Scan(t) PROVE Kept(l)
  <2>1. \A u \in Threads : u # t => builder'[u] = builder[u]
    BY <1>8 DEF Scan, Builder
  <2>2. Owes(t) => \/ Owes(t)' /\ builder'[t].covers = builder[t].covers
                   \/ builder[t].covers \subseteq answered'
    BY <1>8 DEF Scan, Owes, Building, Builder
  <2> QED BY <1>7, <1>8, <2>1, <2>2 DEF Scan
<1>9. ASSUME NEW t \in Threads, RunOne(t) PROVE Kept(l)
  <2>1. \A u \in Threads : u # t => builder'[u] = builder[u]
    BY <1>9 DEF RunOne, Builder
  <2>2. Owes(t) => \/ Owes(t)' /\ builder'[t].covers = builder[t].covers
                   \/ builder[t].covers \subseteq answered'
    BY <1>9 DEF RunOne, Owes, Building, Builder
  <2> QED BY <1>7, <1>9, <2>1, <2>2 DEF RunOne
<1>10. ASSUME NEW t \in Threads, Press(t) PROVE Kept(l)
  <2>1. \A u \in Threads : u # t => builder'[u] = builder[u]
    BY <1>10 DEF Press, Builder
  <2>2. Owes(t) => \/ Owes(t)' /\ builder'[t].covers = builder[t].covers
                   \/ builder[t].covers \subseteq answered'
    BY <1>10 DEF Press, Owes, Building, Builder
  <2> QED BY <1>7, <1>10, <2>1, <2>2 DEF Press
<1>11. ASSUME NEW t \in Threads, ReadInputs(t) PROVE Kept(l)
  <2>1. \A u \in Threads : u # t => builder'[u] = builder[u]
    BY <1>11 DEF ReadInputs, Builder
  <2>2. Owes(t) => \/ Owes(t)' /\ builder'[t].covers = builder[t].covers
                   \/ builder[t].covers \subseteq answered'
    BY <1>11 DEF ReadInputs, Owes, Building, Builder
  <2> QED BY <1>7, <1>11, <2>1, <2>2 DEF ReadInputs
<1>12. ASSUME NEW t \in Threads, DeleteRows(t) PROVE Kept(l)
  <2>1. \A u \in Threads : u # t => builder'[u] = builder[u]
    BY <1>12 DEF DeleteRows, Builder
  <2>2. Owes(t) => \/ Owes(t)' /\ builder'[t].covers = builder[t].covers
                   \/ builder[t].covers \subseteq answered'
    BY <1>12 DEF DeleteRows, Owes, Building, Builder
  <2> QED BY <1>7, <1>12, <2>1, <2>2 DEF DeleteRows
<1>13. ASSUME NEW t \in Threads, InsertBatch(t) PROVE Kept(l)
  <2>1. \A u \in Threads : u # t => builder'[u] = builder[u]
    BY <1>13 DEF InsertBatch, Builder
  <2>2. Owes(t) => \/ Owes(t)' /\ builder'[t].covers = builder[t].covers
                   \/ builder[t].covers \subseteq answered'
    BY <1>13 DEF InsertBatch, Owes, Building, Builder
  <2> QED BY <1>7, <1>13, <2>1, <2>2 DEF InsertBatch
<1>14. ASSUME NEW t \in Threads, EndBuild(t) PROVE Kept(l)
  <2>1. \A u \in Threads : u # t => builder'[u] = builder[u]
    BY <1>14 DEF EndBuild, Builder
  <2>2. Owes(t) => \/ Owes(t)' /\ builder'[t].covers = builder[t].covers
                   \/ builder[t].covers \subseteq answered'
    BY <1>14 DEF EndBuild, Owes, Building, Builder
  <2> QED BY <1>7, <1>14, <2>1, <2>2 DEF EndBuild
<1>15. ASSUME NEW t \in Threads, Boot(t) PROVE Kept(l)
  <2>1. \A u \in Threads : u # t => builder'[u] = builder[u]
    BY <1>15 DEF Boot, Builder
  <2>2. Owes(t) => \/ Owes(t)' /\ builder'[t].covers = builder[t].covers
                   \/ builder[t].covers \subseteq answered'
    BY <1>15 DEF Boot, Owes, Building, Builder
  <2> QED BY <1>7, <1>15, <2>1, <2>2 DEF Boot
<1>16. ASSUME NEW t \in Threads, Claim(t) PROVE Kept(l)
  <2>1. l \in Queued
    BY <1>16 DEF Claim, Queued
  <2>2. CASE builder' = [builder EXCEPT ![t].pc = "claimed", ![t].covers = Queued, ![t].time = 0]
    <3>1. Owes(t)' /\ l \in builder'[t].covers
      BY <2>1, <2>2 DEF Owes, Builder
    <3> QED BY <3>1 DEF Kept, Accounted
  <2>3. CASE builder' = [builder EXCEPT ![t] = InitialBuilder] /\ UNCHANGED request
    <3>1. ~Owes(t)
      BY <1>16 DEF Claim, Owes, Building
    <3> QED BY <1>7, <1>16, <2>3, <3>1 DEF Claim
  <2> QED BY <1>16, <2>2, <2>3 DEF Claim
<1>17. ASSUME NEW k \in Landings, HookFails(k) PROVE Kept(l)
  BY <1>1, <1>17 DEF HookFails
<1>18. ASSUME NEW t \in Threads, ClaimFails(t) \/ RequeueFails(t) \/ BuildFails(t) PROVE Kept(l)
  BY <1>1, <1>18 DEF ClaimFails, RequeueFails, BuildFails
<1>19. CASE (\E q \in Processes : Die(q)) \/ Switch
  BY <1>1, <1>19 DEF Die, Switch
<1> QED
  BY <1>2, <1>3, <1>5, <1>6, <1>8, <1>9, <1>10, <1>11, <1>12, <1>13, <1>14, <1>15, <1>16, <1>17, <1>18, <1>19
     DEF BuildNext, LanderStep, PollerStep, BuildStep

(* A queued landing is forgotten only in the step of a mishap.               *)
THEOREM ForgottenOnlyThen == BuildsSpec => ForgottenOnlyByMishap
<1>1. BuildInv /\ [BuildNext]_vars =>
        [\A l \in Queued' :
           (l \in Queued => Accounted(l)) => Accounted(l)' \/ budget' < budget]_vars
  BY AccountedStep DEF BuildInv, Kept
<1> QED BY <1>1, BuildInvariant, PTL DEF BuildsSpec, ForgottenOnlyByMishap
=============================================================================
