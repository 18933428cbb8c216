-------------------------- MODULE Timekeeping_proofs --------------------------
(* Proofs about the two components that put hours on a payroll: the held     *)
(* second session, for any number of decision calls on either surface, any   *)
(* number of clock-outs, and any faults; and the approval of a period's      *)
(* hours, for any overlapping decide calls, dispatches and upsets.           *)
EXTENDS SecondSession, PayrollApproval, TLAPS

-----------------------------------------------------------------------------
(* The held second session.                                                  *)

(* Before the session is opened nothing is decided and nothing counts.       *)
LEMMA SessionStart == SessionInit => DecisionInv
  <1> SUFFICES ASSUME SessionInit PROVE DecisionInv
    OBVIOUS
  <1>1. SessionTypeOK
    BY DEF SessionInit, SessionTypeOK, Status
  <1> QED
    BY <1>1 DEF SessionInit, DecisionInv, StampedMeansDecided, CountedOnlyOnceDecided,
       Decided, PastPermit

(* A permission, once decided, stays decided: a decision call only ever      *)
(* replaces it by its own choice.                                            *)
LEMMA DecidedStays ==
  ASSUME SessionTypeOK, [SessionNext]_sessionVars,
         arrival \in {"start", "punched"} => perm = "none",
         perm \in Decided
  PROVE  perm' \in Decided
  <1>1. ASSUME NEW d \in Deciders, Decide(d) PROVE perm' \in Decided
    BY <1>1 DEF Decide, OpenRequest, Look, OpenPermission, StampPermission, ReadPunch, Flip,
       StampRequest, FindRequest, MirrorDecision, DecisionFault, SessionTypeOK
  <1>2. CASE ClockIn
    BY <1>2 DEF ClockIn, OpenPunch, AskPermission, Intimate, Decided
  <1>3. ASSUME NEW c \in ClockOuts, ClockOut(c) PROVE perm' \in Decided
    BY <1>3 DEF ClockOut, ReadOpenPunch, WritePunch
  <1>4. ASSUME NEW s \in Sweeps, ForceClockOut(s) PROVE perm' \in Decided
    BY <1>4 DEF ForceClockOut, ReadOverdue, ForceOut
  <1> QED
    BY <1>1, <1>2, <1>3, <1>4 DEF SessionNext, sessionVars

LEMMA DecisionStep == DecisionInv /\ [SessionNext]_sessionVars => DecisionInv'
  <1> SUFFICES ASSUME DecisionInv, [SessionNext]_sessionVars PROVE DecisionInv'
    OBVIOUS
  <1>d. perm \in Decided => perm' \in Decided
    BY DecidedStays DEF DecisionInv
  <1> USE SessionAssumption, <1>d
      DEF DecisionInv, SessionTypeOK, StampedMeansDecided, CountedOnlyOnceDecided, Status,
          Decided, PastPermit, Goto, sweepVars
  <1>1. CASE OpenPunch
    BY <1>1 DEF OpenPunch
  <1>2. CASE AskPermission
    BY <1>2 DEF AskPermission
  <1>3. CASE Intimate
    BY <1>3 DEF Intimate
  <1>4. ASSUME NEW d \in Deciders, OpenRequest(d) PROVE DecisionInv'
    BY <1>4 DEF OpenRequest
  <1>5. ASSUME NEW d \in Deciders, Look(d) PROVE DecisionInv'
    BY <1>5 DEF Look
  <1>6. ASSUME NEW d \in Deciders, OpenPermission(d) PROVE DecisionInv'
    BY <1>6 DEF OpenPermission
  <1>7. ASSUME NEW d \in Deciders, StampPermission(d) PROVE DecisionInv'
    BY <1>7 DEF StampPermission
  <1>8. ASSUME NEW d \in Deciders, ReadPunch(d) PROVE DecisionInv'
    BY <1>8 DEF ReadPunch
  <1>f. ASSUME NEW d \in Deciders
        PROVE  Flipped(d) \in [status : Status, closed : BOOLEAN, counted : BOOLEAN]
    BY DEF Flipped
  <1>9. ASSUME NEW d \in Deciders, Flip(d) PROVE DecisionInv'
    BY <1>9, <1>f DEF Flip
  <1>10. ASSUME NEW d \in Deciders, StampRequest(d) PROVE DecisionInv'
    BY <1>10 DEF StampRequest
  <1>11. ASSUME NEW d \in Deciders, FindRequest(d) PROVE DecisionInv'
    BY <1>11 DEF FindRequest
  <1>12. ASSUME NEW d \in Deciders, MirrorDecision(d) PROVE DecisionInv'
    BY <1>12 DEF MirrorDecision
  <1>13. ASSUME NEW d \in Deciders, DecisionFault(d) PROVE DecisionInv'
    <2>1. /\ UNCHANGED <<arrival, choice, owes, leave, holds, sweepVars, crossed>>
          /\ step' \in [Deciders -> {"idle", "look", "permit", "punch", "flip", "stamp",
                                     "sync", "mirror", "refused", "ended", "failed"}]
          /\ \A e \in Deciders : step'[e] \in {step[e], "ended", "failed"}
      BY <1>13 DEF DecisionFault
    <2>2. CASE UNCHANGED <<punch, perm, request>>
      BY <2>1, <2>2
    <2>3. CASE step[d] = "permit" /\ perm' = choice[d] /\ UNCHANGED <<punch, request>>
      BY <2>1, <2>3
    <2>4. CASE step[d] = "flip" /\ punch' = Flipped(d) /\ UNCHANGED <<perm, request>>
      BY <1>f, <2>1, <2>4 DEF Flipped
    <2>5. CASE step[d] \in {"stamp", "mirror"} /\ request' = choice[d] /\ UNCHANGED <<punch, perm>>
      BY <2>1, <2>5
    <2> QED
      BY <1>13, <2>2, <2>3, <2>4, <2>5 DEF DecisionFault
  <1>14. ASSUME NEW c \in ClockOuts, ReadOpenPunch(c) PROVE DecisionInv'
    <2>1. UNCHANGED <<arrival, punch, perm, request, step, choice, owes, sweepVars>>
      BY <1>14 DEF ReadOpenPunch
    <2>2. /\ leave' \in [ClockOuts -> {"idle", "write", "ended"}]
          /\ holds' \in SUBSET ClockOuts /\ crossed' \in BOOLEAN
      BY <1>14 DEF ReadOpenPunch
    <2>3. punch.status \notin Decided => punch.status = "pending"
      BY <1>14 DEF ReadOpenPunch
    <2>4. ASSUME NEW e \in ClockOuts, leave'[e] = "write", e \notin holds'
          PROVE  perm \in Decided
      <3>1. CASE e = c
        BY <1>14, <2>3, <2>4, <3>1 DEF ReadOpenPunch
      <3>2. CASE e # c
        BY <1>14, <2>4, <3>2 DEF ReadOpenPunch
      <3> QED
        BY <3>1, <3>2
    <2> QED
      BY <2>1, <2>2, <2>4
  <1>15. ASSUME NEW c \in ClockOuts, WritePunch(c) PROVE DecisionInv'
    <2>1. CASE UNCHANGED punch
      BY <1>15, <2>1 DEF WritePunch
    <2>2. CASE punch' = Closed(c)
      <3>1. /\ punch' \in [status : Status, closed : BOOLEAN, counted : BOOLEAN]
            /\ punch'.status = punch.status /\ (punch'.counted => c \notin holds)
        BY <2>2 DEF Closed
      <3>2. /\ UNCHANGED <<arrival, perm, request, step, choice, owes, holds, sweepVars, crossed>>
            /\ leave[c] = "write" /\ leave' = [leave EXCEPT ![c] = "ended"]
        BY <1>15 DEF WritePunch
      <3> QED
        BY <3>1, <3>2
    <2> QED
      BY <1>15, <2>1, <2>2 DEF WritePunch
  <1>16. ASSUME NEW s \in Sweeps, ForceClockOut(s) PROVE DecisionInv'
    <2>1. CASE ReadOverdue(s)
      BY <2>1 DEF ReadOverdue
    <2>2. CASE ForceOut(s)
      <3>1. /\ UNCHANGED <<arrival, perm, request, step, choice, owes, leave, holds, crossed>>
            /\ sweep' = [sweep EXCEPT ![s] = "ended"]
        BY <2>2 DEF ForceOut
      <3>2. CASE UNCHANGED <<punch, swept>>
        BY <3>1, <3>2
      <3>3. CASE punch' = [punch EXCEPT !.closed = TRUE, !.counted = TRUE] /\ swept' = TRUE
        <4>1. /\ punch' \in [status : Status, closed : BOOLEAN, counted : BOOLEAN]
              /\ punch'.status = punch.status /\ punch'.counted
          BY <3>3
        <4> QED
          BY <3>1, <3>3, <4>1
      <3> QED
        BY <2>2, <3>2, <3>3 DEF ForceOut
    <2> QED
      BY <1>16, <2>1, <2>2 DEF ForceClockOut
  <1>17. CASE UNCHANGED sessionVars
    BY <1>17 DEF sessionVars, sweepVars
  <1> QED
    BY <1>1, <1>2, <1>3, <1>4, <1>5, <1>6, <1>7, <1>8, <1>9, <1>10, <1>11, <1>12, <1>13,
       <1>14, <1>15, <1>16, <1>17
    DEF SessionNext, ClockIn, Decide, ClockOut

LEMMA SessionInvariant == SessionSpec => []DecisionInv
  BY SessionStart, DecisionStep, PTL DEF SessionSpec

(* The session's rows keep their types.                                      *)
THEOREM SessionTypeCorrect == SessionSpec => []SessionTypeOK
  <1>1. DecisionInv => SessionTypeOK
    BY DEF DecisionInv
  <1> QED
    BY <1>1, SessionInvariant, PTL

(* The inbox never shows a decision the permission does not carry one of.    *)
THEOREM InboxFollowsEffect == SessionSpec => []StampedMeansDecided
  <1>1. DecisionInv => StampedMeansDecided
    BY DEF DecisionInv
  <1> QED
    BY <1>1, SessionInvariant, PTL

(* Held hours are never counted before a manager decided.                    *)
THEOREM HeldUntilDecided == SessionSpec => []CountedOnlyOnceDecided
  <1>1. DecisionInv => CountedOnlyOnceDecided
    BY DEF DecisionInv
  <1> QED
    BY <1>1, SessionInvariant, PTL

(* A flip and a clock-out's write that are under way together have crossed.  *)
LEMMA CrossStep == DecisionInv /\ CrossInv /\ [SessionNext]_sessionVars => CrossInv'
  <1> SUFFICES ASSUME DecisionInv, CrossInv, [SessionNext]_sessionVars PROVE CrossInv'
    OBVIOUS
  <1> USE DEF DecisionInv, SessionTypeOK, CrossInv, Status, Decided, Goto, sweepVars
  <1>1. CASE OpenPunch
    BY <1>1 DEF OpenPunch
  <1>2. CASE AskPermission
    BY <1>2 DEF AskPermission
  <1>3. CASE Intimate
    BY <1>3 DEF Intimate
  <1>4. ASSUME NEW d \in Deciders, OpenRequest(d) PROVE CrossInv'
    BY <1>4 DEF OpenRequest
  <1>5. ASSUME NEW d \in Deciders, Look(d) PROVE CrossInv'
    BY <1>5 DEF Look
  <1>6. ASSUME NEW d \in Deciders, OpenPermission(d) PROVE CrossInv'
    BY <1>6 DEF OpenPermission
  <1>7. ASSUME NEW d \in Deciders, StampPermission(d) PROVE CrossInv'
    BY <1>7 DEF StampPermission
  <1>8. ASSUME NEW d \in Deciders, ReadPunch(d) PROVE CrossInv'
    BY <1>8 DEF ReadPunch
  <1>9. ASSUME NEW d \in Deciders, Flip(d) PROVE CrossInv'
    BY <1>9 DEF Flip, Flipped
  <1>10. ASSUME NEW d \in Deciders, StampRequest(d) PROVE CrossInv'
    BY <1>10 DEF StampRequest
  <1>11. ASSUME NEW d \in Deciders, FindRequest(d) PROVE CrossInv'
    BY <1>11 DEF FindRequest
  <1>12. ASSUME NEW d \in Deciders, MirrorDecision(d) PROVE CrossInv'
    BY <1>12 DEF MirrorDecision
  <1>13. ASSUME NEW d \in Deciders, DecisionFault(d) PROVE CrossInv'
    BY <1>13 DEF DecisionFault, Flipped
  <1>14. ASSUME NEW c \in ClockOuts, ReadOpenPunch(c) PROVE CrossInv'
    <2>1. UNCHANGED <<punch, step>> /\ (crossed => crossed')
      BY <1>14 DEF ReadOpenPunch
    <2>2. \A e \in ClockOuts \ {c} : leave'[e] = leave[e] /\ (e \in holds' <=> e \in holds)
      BY <1>14 DEF ReadOpenPunch
    <2>3. leave[c] = "idle" /\ leave'[c] # "idle"
      BY <1>14 DEF ReadOpenPunch
    <2>4. leave'[c] = "write" =>
             /\ (\E d \in Deciders : step[d] = "flip") => crossed'
             /\ c \in holds' => punch.status = "pending"
      BY <1>14 DEF ReadOpenPunch
    <2> QED
      BY <2>1, <2>2, <2>3, <2>4
  <1>15. ASSUME NEW c \in ClockOuts, WritePunch(c) PROVE CrossInv'
    <2>1. UNCHANGED <<step, holds, crossed>> /\ leave' = [leave EXCEPT ![c] = "ended"]
      BY <1>15 DEF WritePunch
    <2>2. leave[c] = "write" /\ punch' \in {punch, Closed(c)}
      BY <1>15 DEF WritePunch
    <2>3. \A e \in ClockOuts : leave'[e] = "write" => e # c /\ leave[e] = "write"
      BY <2>1
    <2>4. punch'.status = punch.status
      BY <2>2 DEF Closed
    <2> QED
      BY <2>1, <2>2, <2>3, <2>4
  <1>16. ASSUME NEW s \in Sweeps, ForceClockOut(s) PROVE CrossInv'
    <2>1. CASE ReadOverdue(s)
      BY <2>1 DEF ReadOverdue
    <2>2. CASE ForceOut(s)
      <3>1. /\ UNCHANGED <<arrival, perm, request, step, choice, owes, leave, holds, crossed>>
            /\ sweep' = [sweep EXCEPT ![s] = "ended"]
        BY <2>2 DEF ForceOut
      <3>2. CASE UNCHANGED <<punch, swept>>
        BY <3>1, <3>2
      <3>3. CASE punch' = [punch EXCEPT !.closed = TRUE, !.counted = TRUE] /\ swept' = TRUE
        <4>1. /\ punch' \in [status : Status, closed : BOOLEAN, counted : BOOLEAN]
              /\ punch'.status = punch.status /\ punch'.counted
          BY <3>3
        <4> QED
          BY <3>1, <3>3, <4>1
      <3> QED
        BY <2>2, <3>2, <3>3 DEF ForceOut
    <2> QED
      BY <1>16, <2>1, <2>2 DEF ForceClockOut
  <1>17. CASE UNCHANGED sessionVars
    BY <1>17 DEF sessionVars, sweepVars
  <1> QED
    BY <1>1, <1>2, <1>3, <1>4, <1>5, <1>6, <1>7, <1>8, <1>9, <1>10, <1>11, <1>12,
       <1>13, <1>14, <1>15, <1>16, <1>17
    DEF SessionNext, ClockIn, Decide, ClockOut

(* Calls that agree at the end of a step agreed before it: no call takes a   *)
(* failure back, is as if never made, or changes its mind.                   *)
LEMMA AgreedBefore ==
  ASSUME SessionTypeOK, [SessionNext]_sessionVars, NEW v \in Decided, Agreed(v)'
  PROVE  Agreed(v)
  <1>1. choice' = choice
    BY DEF SessionNext, ClockIn, OpenPunch, AskPermission, Intimate, Decide, OpenRequest, Look,
       OpenPermission, StampPermission, ReadPunch, Flip, StampRequest, FindRequest,
       MirrorDecision, DecisionFault, ClockOut, ReadOpenPunch, WritePunch,
       ForceClockOut, ReadOverdue, ForceOut, sessionVars, sweepVars
  <1>2. ASSUME NEW d \in Deciders, Decide(d), NEW e \in Deciders
        PROVE  (step[e] = "failed" => step'[e] = "failed") /\ (step'[e] = "idle" => step[e] = "idle")
    BY <1>2 DEF SessionTypeOK, Decide, OpenRequest, Look, OpenPermission, StampPermission,
       ReadPunch, Flip, StampRequest, FindRequest, MirrorDecision, DecisionFault, Goto
  <1>3. \/ step' = step
        \/ \E d \in Deciders : Decide(d)
    BY DEF SessionNext, ClockIn, OpenPunch, AskPermission, Intimate, ClockOut, ReadOpenPunch,
       WritePunch, ForceClockOut, ReadOverdue, ForceOut, sessionVars, sweepVars
  <1>4. \A e \in Deciders : /\ step[e] = "failed" => step'[e] = "failed"
                            /\ step'[e] = "idle" => step[e] = "idle"
    BY <1>2, <1>3
  <1> QED
    BY <1>1, <1>4 DEF Agreed

LEMMA WholeStep ==
  ASSUME DecisionInv, CrossInv, [SessionNext]_sessionVars,
         NEW v \in Decided, Agreed(v), WholeSoFar(v), Agreed(v)'
  PROVE  WholeSoFar(v)'
  <1> USE DEF DecisionInv, SessionTypeOK, CrossInv, Status, Decided, PastPermit, Goto, Agreed,
          WholeSoFar, sweepVars
  <1>1. CASE OpenPunch
    BY <1>1 DEF OpenPunch
  <1>2. CASE AskPermission
    BY <1>2 DEF AskPermission
  <1>3. CASE Intimate
    BY <1>3 DEF Intimate
  <1>4. ASSUME NEW d \in Deciders, OpenRequest(d) PROVE WholeSoFar(v)'
    BY <1>4 DEF OpenRequest
  <1>5. ASSUME NEW d \in Deciders, Look(d) PROVE WholeSoFar(v)'
    BY <1>5 DEF Look
  <1>6. ASSUME NEW d \in Deciders, OpenPermission(d) PROVE WholeSoFar(v)'
    BY <1>6 DEF OpenPermission
  <1>7. ASSUME NEW d \in Deciders, StampPermission(d) PROVE WholeSoFar(v)'
    BY <1>7 DEF StampPermission
  <1>8. ASSUME NEW d \in Deciders, ReadPunch(d) PROVE WholeSoFar(v)'
    BY <1>8 DEF ReadPunch
  <1>9. ASSUME NEW d \in Deciders, Flip(d) PROVE WholeSoFar(v)'
    BY <1>9 DEF Flip, Flipped
  <1>10. ASSUME NEW d \in Deciders, StampRequest(d) PROVE WholeSoFar(v)'
    BY <1>10 DEF StampRequest
  <1>11. ASSUME NEW d \in Deciders, FindRequest(d) PROVE WholeSoFar(v)'
    BY <1>11 DEF FindRequest
  <1>12. ASSUME NEW d \in Deciders, MirrorDecision(d) PROVE WholeSoFar(v)'
    BY <1>12 DEF MirrorDecision
  <1>13. ASSUME NEW d \in Deciders, DecisionFault(d) PROVE WholeSoFar(v)'
    BY <1>13 DEF DecisionFault, Flipped
  <1>14. ASSUME NEW c \in ClockOuts, ReadOpenPunch(c) PROVE WholeSoFar(v)'
    BY <1>14 DEF ReadOpenPunch
  <1>15. ASSUME NEW c \in ClockOuts, WritePunch(c) PROVE WholeSoFar(v)'
    <2>1. UNCHANGED <<perm, step, owes, crossed>> /\ punch'.status = punch.status
      BY <1>15 DEF WritePunch, Closed
    <2>2. CASE punch' = Closed(c)
      <3>1. punch'.counted = (c \notin holds)
        BY <2>2 DEF Closed
      <3>2. leave[c] = "write"
        BY <1>15 DEF WritePunch
      <3>3. \A d \in Deciders : step[d] = "flip" => crossed
        BY <3>2
      <3>4. punch.status = v /\ ~crossed => c \notin holds
        BY <3>2
      <3> QED
        BY <2>1, <3>1, <3>3, <3>4
    <2>3. CASE UNCHANGED punch
      BY <2>1, <2>3
    <2> QED
      BY <1>15, <2>2, <2>3 DEF WritePunch
  <1>16. ASSUME NEW s \in Sweeps, ForceClockOut(s) PROVE WholeSoFar(v)'
    <2>1. CASE ReadOverdue(s)
      BY <2>1 DEF ReadOverdue
    <2>2. CASE ForceOut(s)
      <3>1. /\ UNCHANGED <<arrival, perm, request, step, choice, owes, leave, holds, crossed>>
            /\ sweep' = [sweep EXCEPT ![s] = "ended"]
        BY <2>2 DEF ForceOut
      <3>2. CASE UNCHANGED <<punch, swept>>
        BY <3>1, <3>2
      <3>3. CASE punch' = [punch EXCEPT !.closed = TRUE, !.counted = TRUE] /\ swept' = TRUE
        <4>1. /\ punch' \in [status : Status, closed : BOOLEAN, counted : BOOLEAN]
              /\ punch'.status = punch.status /\ punch'.counted
          BY <3>3
        <4> QED
          BY <3>1, <3>3, <4>1
      <3> QED
        BY <2>2, <3>2, <3>3 DEF ForceOut
    <2> QED
      BY <1>16, <2>1, <2>2 DEF ForceClockOut
  <1>17. CASE UNCHANGED sessionVars
    BY <1>17 DEF sessionVars, sweepVars
  <1> QED
    BY <1>1, <1>2, <1>3, <1>4, <1>5, <1>6, <1>7, <1>8, <1>9, <1>10, <1>11, <1>12,
       <1>13, <1>14, <1>15, <1>16, <1>17
    DEF SessionNext, ClockIn, Decide, ClockOut

LEMMA AgreedInvariant == SessionSpec => []AgreedInv
  <1>1. SessionInit => AgreedInv
    <2>1. SessionInit => DecisionInv
      BY SessionStart
    <2> QED
      BY <2>1 DEF SessionInit, AgreedInv, CrossInv, WholeSoFar, Decided
  <1>2. AgreedInv /\ [SessionNext]_sessionVars => AgreedInv'
    <2> SUFFICES ASSUME AgreedInv, [SessionNext]_sessionVars PROVE AgreedInv'
      OBVIOUS
    <2>1. DecisionInv' /\ CrossInv'
      BY DecisionStep, CrossStep DEF AgreedInv
    <2>2. ASSUME NEW v \in Decided, Agreed(v)' PROVE WholeSoFar(v)'
      <3>1. Agreed(v)
        BY <2>2, AgreedBefore DEF AgreedInv, DecisionInv
      <3> QED
        BY <2>2, <3>1, WholeStep DEF AgreedInv
    <2>3. \A v \in Decided : Agreed(v)' => WholeSoFar(v)'
      BY <2>2
    <2> QED
      BY <2>1, <2>3 DEF AgreedInv, Decided
  <1> QED
    BY <1>1, <1>2, PTL DEF SessionSpec

(* Calls that all decide the same and do not fail leave permission and punch *)
(* agreeing, and an approved session that closed counts, for any number of   *)
(* managers, surfaces and clock-outs.                                        *)
THEOREM AgreedIsWhole == SessionSpec => []AgreedDecisionIsWhole
  <1>1. AgreedInv => AgreedDecisionIsWhole
    BY DEF AgreedInv, AgreedDecisionIsWhole, Agreed, WholeSoFar, AtRest
  <1> QED
    BY <1>1, AgreedInvariant, PTL

-----------------------------------------------------------------------------
(* The approval of a period's hours.                                         *)

(* What the functions of a decide call return.                               *)
LEMMA AskTypes ==
  ASSUME PayrollTypeOK, NEW c \in Calls
  PROVE  /\ Ask(c).stage \in {"dm", "hr"}
         /\ Ask(c).action \in {"approve", "send_back", "reset", "save"}
         /\ Ask(c).adj \in Nat \cup {None}
         /\ Ask(c).hours \in Nat \cup {None, Cleared}
  BY DEF PayrollTypeOK, CallRecords, Ask, Askable

LEMMA UpsertedType ==
  ASSUME PayrollTypeOK, NEW c \in Calls
  PROVE  Upserted(c) \in Rows
  <1>1. Adjustment(c) \in Nat
    BY AskTypes DEF Adjustment, PayrollTypeOK, CallRecords, Rows
  <1>2. Correction(c) \in Nat \cup {None}
    BY AskTypes DEF Correction, PayrollTypeOK, CallRecords, Rows
  <1>3. Word(c) \in Verdicts
    BY DEF Word, Verdicts
  <1>4. row \in Rows
    BY DEF PayrollTypeOK
  <1> QED
    BY <1>1, <1>2, <1>3, <1>4 DEF Upserted, Rows, Verdicts

LEMMA QuietType == Quiet \in CallRecords /\ NoSend \in SendRecords
  BY DEF Quiet, NoSend, CallRecords, SendRecords, Askable, Rows, Fresh, Verdicts, Figures, None

LEMMA MovedFigures ==
  ASSUME NEW c, NEW cur
  PROVE  Moved(c, cur) \subseteq Figures
  BY DEF Moved

(* The upsert, whether it is mirrored or has raised.                         *)
LEMMA CommitType ==
  ASSUME PayrollTypeOK, NEW c \in Calls, Commit(c, "idle") \/ Commit(c, MirrorAt(c))
  PROVE  /\ row' \in Rows /\ call' \in [Calls -> CallRecords] /\ released' \in BOOLEAN /\ muddled' \in BOOLEAN
         /\ send' \in [Sends -> SendRecords]
  <1>1. row' \in Rows
    BY UpsertedType DEF Commit
  <1>2. ASSUME NEW d \in Calls PROVE call'[d] \in CallRecords
    <2>1. MirrorAt(c) \in {"find", "sync", "idle"}
      BY DEF MirrorAt
    <2>2. [call[d] EXCEPT !.stale = @ \/ Started(d)] \in CallRecords
      BY DEF PayrollTypeOK, CallRecords, Started
    <2>3. \A pc \in {"find", "sync", "idle"} : [call[c] EXCEPT !.pc = pc] \in CallRecords
      BY DEF PayrollTypeOK, CallRecords
    <2> QED
      BY <2>1, <2>2, <2>3, QuietType DEF Commit
  <1>3. call' \in [Calls -> CallRecords]
    BY <1>2 DEF Commit
  <1>4. released' \in BOOLEAN /\ muddled' \in BOOLEAN
    BY DEF Commit, PayrollTypeOK, CallRecords, Stamps
  <1>5. \A d \in Sends : send[d] \in SendRecords /\ [send[d] EXCEPT !.withdrawn = TRUE] \in SendRecords
    BY DEF PayrollTypeOK, SendRecords
  <1>6. send' \in [Sends -> SendRecords]
    BY <1>5 DEF Commit
  <1> QED
    BY <1>1, <1>3, <1>4, <1>6

LEMMA UpsetType ==
  ASSUME PayrollTypeOK, Upset
  PROVE  budget' \in Nat
  BY DEF PayrollTypeOK, Upset

(* Types survive every step.                                                 *)
LEMMA PayrollTypeStep ==
  ASSUME PayrollTypeOK, [PayrollNext]_payVars
  PROVE  PayrollTypeOK'
  <1> USE PayrollAssumption, UpsetType DEF PayrollTypeOK
  <1>1. ASSUME NEW c \in Calls, NEW a \in Asks, ReadHours(c, a) PROVE PayrollTypeOK'
    <2>1. [Quiet EXCEPT !.pc = "rows", !.ask = a, !.src = src] \in CallRecords
      BY QuietType DEF CallRecords
    <2> QED
      BY <1>1, <2>1 DEF ReadHours
  <1>2. ASSUME NEW c \in Calls, ReadRow(c) PROVE PayrollTypeOK'
    <2>1. \A p \in {"write", "log"} :
             [call[c] EXCEPT !.pc = p, !.cur = row, !.due = Moved(c, row)] \in CallRecords
      BY MovedFigures DEF CallRecords
    <2>2. UNCHANGED <<src, row, entry, send, released, muddled, smooth, sent, count, budget>>
      BY <1>2 DEF ReadRow
    <2>3. \/ call' = [call EXCEPT ![c] = Quiet]
          \/ \E p \in {"write", "log"} :
                call' = [call EXCEPT ![c] = [call[c] EXCEPT !.pc = p, !.cur = row, !.due = Moved(c, row)]]
      BY <1>2 DEF ReadRow
    <2>4. call' \in [Calls -> CallRecords]
      BY <2>1, <2>3, QuietType
    <2> QED
      BY <2>2, <2>4
  <1>13. ASSUME NEW c \in Calls, Refuse(c) PROVE PayrollTypeOK'
    BY <1>13, QuietType DEF Refuse
  <1>3. ASSUME NEW c \in Calls, Write(c) PROVE PayrollTypeOK'
    <2>1. /\ row' \in Rows /\ call' \in [Calls -> CallRecords]
          /\ released' \in BOOLEAN /\ muddled' \in BOOLEAN /\ send' \in [Sends -> SendRecords]
      BY <1>3, CommitType DEF Write
    <2>2. smooth' \in BOOLEAN /\ UNCHANGED <<src, entry, sent, count, budget>>
      BY <1>3 DEF Write
    <2> QED
      BY <2>1, <2>2
  <1>4. ASSUME NEW c \in Calls, WriteFails(c) PROVE PayrollTypeOK'
    <2>1. /\ row' \in Rows /\ call' \in [Calls -> CallRecords]
          /\ released' \in BOOLEAN /\ muddled' \in BOOLEAN /\ send' \in [Sends -> SendRecords]
      BY <1>4, CommitType, QuietType DEF WriteFails
    <2>2. smooth' \in BOOLEAN /\ budget' \in Nat /\ UNCHANGED <<src, entry, sent, count>>
      BY <1>4 DEF WriteFails, Mishap
    <2> QED
      BY <2>1, <2>2
  <1>5. ASSUME NEW c \in Calls, NEW f \in Figures, Log(c, f) \/ LogFails(c, f) PROVE PayrollTypeOK'
    <2>1. LeftToLog(c, f) \in CallRecords
      BY DEF LeftToLog, CallRecords
    <2>2. /\ [LeftToLog(c, f) EXCEPT !.logged = @ \cup {f}] \in CallRecords
          /\ [LeftToLog(c, f) EXCEPT !.lost = TRUE] \in CallRecords
      BY <2>1 DEF CallRecords
    <2> QED
      BY <1>5, <2>2 DEF Log, LogFails, Mishap
  <1>6. ASSUME NEW c \in Calls, FindLive(c) \/ FindPending(c) PROVE PayrollTypeOK'
    <2>1. \A p \in {"create", "update"} : [call[c] EXCEPT !.pc = p] \in CallRecords
      BY DEF CallRecords
    <2> QED
      BY <1>6, <2>1, QuietType DEF FindLive, FindPending, GoesOn
  <1>7. ASSUME NEW c \in Calls, CreateRequest(c) \/ UpdateRequest(c) \/ MirrorFails(c)
        PROVE  PayrollTypeOK'
    BY <1>7, QuietType DEF CreateRequest, UpdateRequest, MirrorFails, Mirrored, Closes, Mishap
  <1>8. ASSUME NEW d \in Sends, List(d) \/ Mail(d) PROVE PayrollTypeOK'
    <2>1. /\ \A o \in BOOLEAN : [send[d] EXCEPT !.pc = "mail", !.over = o] \in SendRecords
          /\ row.over \in BOOLEAN
          /\ [NoSend EXCEPT !.pc = "stamp"] \in SendRecords
          /\ [NoSend EXCEPT !.pc = "stamp", !.outcome = "failed"] \in SendRecords
      BY QuietType DEF SendRecords, Rows
    <2>2. On(d) \in Grounds
      BY DEF On, Grounds
    <2>3. CASE List(d)
      BY <2>1, <2>3 DEF List
    <2>4. CASE Mail(d)
      BY <2>1, <2>2, <2>4 DEF Mail, Mishap
    <2> QED
      BY <1>8, <2>3, <2>4
  <1>9. ASSUME NEW d \in Sends, StampSent(d) PROVE PayrollTypeOK'
    <2>1. [row EXCEPT !.dispatch = send[d].outcome] \in Rows
      BY DEF Rows, SendRecords
    <2> QED
      BY <1>9, <2>1, QuietType DEF StampSent, Mishap
  <1>10. ASSUME NEW h \in Computed, EditPunch(h) PROVE PayrollTypeOK'
    BY <1>10 DEF EditPunch
  <1>11. CASE Override
    <2>1. [row EXCEPT !.over = ~@] \in Rows
      BY DEF Rows
    <2> QED
      BY <1>11, <2>1 DEF Override
  <1>12. CASE UNCHANGED payVars
    BY <1>12 DEF payVars
  <1> QED
    BY <1>1, <1>2, <1>3, <1>4, <1>5, <1>6, <1>7, <1>8, <1>9, <1>10, <1>11, <1>12, <1>13
    DEF PayrollNext, DecideStep

(* What a call knows changes only with the call and the columns it decides   *)
(* on.                                                                       *)
SameRow == row'.dm = row.dm /\ row'.hr = row.hr /\ row'.adj = row.adj /\ row'.hours = row.hours

LEMMA SoundKept ==
  ASSUME NEW d \in Calls, SoundCall(d), call'[d] = call[d], SameRow
  PROVE  SoundCall(d)'
  BY DEF SoundCall, Deciding, Gated, Moved, Ask, SameRow

(* Whoever had read the row before another wrote it is stale from then on.   *)
LEMMA SoundStale ==
  ASSUME PayrollTypeOK, NEW d \in Calls, SoundCall(d),
         call'[d] = [call[d] EXCEPT !.stale = @ \/ Started(d)]
  PROVE  SoundCall(d)'
  <1>1. /\ call'[d].pc = call[d].pc /\ call'[d].ask = call[d].ask /\ call'[d].src = call[d].src
        /\ call'[d].cur = call[d].cur /\ call'[d].due = call[d].due
        /\ call'[d].logged = call[d].logged /\ call'[d].lost = call[d].lost
        /\ Deciding(d) => call'[d].stale
    BY DEF PayrollTypeOK, CallRecords, Started, Deciding
  <1> QED
    BY <1>1 DEF SoundCall, Deciding, Gated, Moved, Ask

(* Of a call that decides on nothing nothing is asked.                       *)
LEMMA SoundElsewhere ==
  ASSUME NEW d \in Calls, call'[d].pc \notin {"log", "write"}
  PROVE  SoundCall(d)'
  BY DEF SoundCall, Deciding

LEMMA CommitSound ==
  ASSUME PayrollTypeOK, NEW c \in Calls, \A d \in Calls : SoundCall(d),
         Commit(c, "idle") \/ Commit(c, MirrorAt(c))
  PROVE  \A d \in Calls : SoundCall(d)'
  <1>1. ASSUME NEW d \in Calls, d # c PROVE SoundCall(d)'
    <2>1. call'[d] = [call[d] EXCEPT !.stale = @ \/ Started(d)]
      BY <1>1 DEF Commit
    <2> QED
      BY <2>1, SoundStale
  <1>2. call'[c].pc \in {"idle", "find", "sync"}
    BY DEF Commit, MirrorAt, Quiet, PayrollTypeOK, CallRecords
  <1> QED
    BY <1>1, <1>2, SoundElsewhere

(* What every call knows survives every step of every call.                 *)
LEMMA SoundCallStep ==
  ASSUME PayrollTypeOK, \A d \in Calls : SoundCall(d), [PayrollNext]_payVars
  PROVE  \A d \in Calls : SoundCall(d)'
  <1> USE DEF PayrollTypeOK
  <1>a. ASSUME NEW c \in Calls, \A d \in Calls \ {c} : call'[d] = call[d], SameRow, SoundCall(c)'
        PROVE  \A d \in Calls : SoundCall(d)'
    BY <1>a, SoundKept
  <1>b. UNCHANGED row => SameRow
    BY DEF SameRow
  <1>1. ASSUME NEW c \in Calls, NEW a \in Asks, ReadHours(c, a) PROVE \A d \in Calls : SoundCall(d)'
    <2>1. call'[c].pc = "rows" /\ UNCHANGED row /\ \A d \in Calls \ {c} : call'[d] = call[d]
      BY <1>1 DEF ReadHours, Quiet
    <2> QED
      BY <2>1, <1>a, <1>b, SoundElsewhere
  <1>2. ASSUME NEW c \in Calls, ReadRow(c) PROVE \A d \in Calls : SoundCall(d)'
    <2>1. UNCHANGED row /\ \A d \in Calls \ {c} : call'[d] = call[d]
      BY <1>2 DEF ReadRow
    <2>2. CASE call' = [call EXCEPT ![c] = Quiet]
      <3>1. call'[c].pc = "idle"
        BY <2>2 DEF Quiet
      <3> QED
        BY <2>1, <3>1, <1>a, <1>b, SoundElsewhere
    <2>3. CASE /\ ~Gated(c, row)
               /\ call' = [call EXCEPT ![c].pc = IF Moved(c, row) = {} THEN "write" ELSE "log",
                                       ![c].cur = row, ![c].due = Moved(c, row)]
      <3>1. /\ call'[c].ask = call[c].ask /\ call'[c].src = call[c].src /\ call'[c].cur = row
            /\ call'[c].due = Moved(c, row)
            /\ call'[c].pc = IF Moved(c, row) = {} THEN "write" ELSE "log"
        <4>1. call[c] \in CallRecords
          OBVIOUS
        <4>2. call'[c] = [call[c] EXCEPT !.pc = IF Moved(c, row) = {} THEN "write" ELSE "log",
                                         !.cur = row, !.due = Moved(c, row)]
          BY <2>3
        <4> QED
          BY <4>1, <4>2 DEF CallRecords
      <3>2. Moved(c, call[c].cur)' = Moved(c, row) /\ Gated(c, call[c].cur)' = Gated(c, row)
        BY <3>1, <2>1 DEF Moved, Gated, Ask
      <3>3. /\ call'[c].cur.dm = row'.dm /\ call'[c].cur.hr = row'.hr
            /\ call'[c].cur.adj = row'.adj /\ call'[c].cur.hours = row'.hours
        BY <2>1, <3>1
      <3>4. ~Gated(c, call[c].cur)'
        BY <2>3, <3>2
      <3>5. /\ Moved(c, call[c].cur)' \subseteq call'[c].due
            /\ call'[c].pc = "write" => call'[c].due = {}
        BY <3>1, <3>2
      <3>6. SoundCall(c)'
        BY <3>3, <3>4, <3>5 DEF SoundCall
      <3> QED
        BY <2>1, <3>6, <1>a, <1>b
    <2> QED
      BY <1>2, <2>2, <2>3 DEF ReadRow
  <1>11. ASSUME NEW c \in Calls, Refuse(c) PROVE \A d \in Calls : SoundCall(d)'
    <2>1. call'[c].pc = "idle" /\ UNCHANGED row /\ \A d \in Calls \ {c} : call'[d] = call[d]
      BY <1>11 DEF Refuse, Quiet
    <2> QED
      BY <2>1, <1>a, <1>b, SoundElsewhere
  <1>3. ASSUME NEW c \in Calls, Write(c) PROVE \A d \in Calls : SoundCall(d)'
    BY <1>3, CommitSound DEF Write
  <1>4. ASSUME NEW c \in Calls, WriteFails(c) PROVE \A d \in Calls : SoundCall(d)'
    <2>1. CASE Commit(c, "idle")
      BY <2>1, CommitSound
    <2>2. CASE call' = [call EXCEPT ![c] = Quiet] /\ UNCHANGED row
      <3>1. call'[c].pc = "idle" /\ \A d \in Calls \ {c} : call'[d] = call[d]
        BY <2>2 DEF Quiet
      <3> QED
        BY <2>2, <3>1, <1>a, <1>b, SoundElsewhere
    <2> QED
      BY <1>4, <2>1, <2>2 DEF WriteFails
  <1>5. ASSUME NEW c \in Calls, NEW f \in Figures, Log(c, f) \/ LogFails(c, f)
        PROVE  \A d \in Calls : SoundCall(d)'
    <2>1. UNCHANGED row /\ \A d \in Calls \ {c} : call'[d] = call[d]
      BY <1>5 DEF Log, LogFails
    <2>0. /\ LeftToLog(c, f) \in CallRecords
          /\ LeftToLog(c, f).ask = call[c].ask /\ LeftToLog(c, f).src = call[c].src
          /\ LeftToLog(c, f).cur = call[c].cur /\ LeftToLog(c, f).stale = call[c].stale
          /\ LeftToLog(c, f).lost = call[c].lost /\ LeftToLog(c, f).logged = call[c].logged
          /\ LeftToLog(c, f).due = call[c].due \ {f}
          /\ LeftToLog(c, f).pc = IF call[c].due = {f} THEN "write" ELSE "log"
      BY DEF LeftToLog, CallRecords
    <2>2. /\ call'[c].ask = call[c].ask /\ call'[c].src = call[c].src /\ call'[c].cur = call[c].cur
          /\ call'[c].stale = call[c].stale
          /\ call'[c].due = call[c].due \ {f}
          /\ call'[c].pc = IF call[c].due = {f} THEN "write" ELSE "log"
          /\ call'[c].lost \/ (call'[c].lost = call[c].lost /\ call'[c].logged = call[c].logged \cup {f})
      BY <1>5, <2>0 DEF Log, LogFails, CallRecords
    <2>3. Moved(c, call[c].cur)' = Moved(c, call[c].cur) /\ Gated(c, call[c].cur)' = Gated(c, call[c].cur)
      BY <2>2 DEF Moved, Gated, Ask
    <2>4. Deciding(c)
      BY <1>5 DEF Log, LogFails, Deciding
    <2>5. SoundCall(c)'
      BY <2>1, <2>2, <2>3, <2>4 DEF SoundCall, Deciding
    <2> QED
      BY <2>1, <2>5, <1>a, <1>b
  <1>6. ASSUME NEW c \in Calls, FindLive(c) \/ FindPending(c) \/ CreateRequest(c) \/ UpdateRequest(c) \/ MirrorFails(c)
        PROVE  \A d \in Calls : SoundCall(d)'
    <2>1. UNCHANGED row /\ \A d \in Calls \ {c} : call'[d] = call[d]
      BY <1>6 DEF FindLive, FindPending, CreateRequest, UpdateRequest, MirrorFails, GoesOn, Mirrored
    <2>2. call'[c].pc \in {"idle", "create", "update"}
      BY <1>6 DEF FindLive, FindPending, CreateRequest, UpdateRequest, MirrorFails, GoesOn, Mirrored,
         Quiet, CallRecords
    <2> QED
      BY <2>1, <2>2, <1>a, <1>b, SoundElsewhere
  <1>7. ASSUME NEW d \in Sends, List(d) \/ Mail(d) \/ StampSent(d) PROVE \A e \in Calls : SoundCall(e)'
    <2>1. UNCHANGED call /\ SameRow
      BY <1>7 DEF List, Mail, StampSent, SameRow, Rows
    <2> QED
      BY <2>1, SoundKept
  <1>8. ASSUME NEW h \in Computed, EditPunch(h) PROVE \A d \in Calls : SoundCall(d)'
    <2>1. UNCHANGED call /\ SameRow
      BY <1>8 DEF EditPunch, SameRow
    <2> QED
      BY <2>1, SoundKept
  <1>9. CASE Override
    <2>1. UNCHANGED call /\ SameRow
      BY <1>9 DEF Override, SameRow, Rows
    <2> QED
      BY <2>1, SoundKept
  <1>10. CASE UNCHANGED payVars
    <2>1. UNCHANGED call /\ SameRow
      BY <1>10 DEF payVars, SameRow
    <2> QED
      BY <2>1, SoundKept
  <1> QED
    BY <1>1, <1>2, <1>3, <1>4, <1>5, <1>6, <1>7, <1>8, <1>9, <1>10, <1>11 DEF PayrollNext, DecideStep

LEMMA UpsertedFields ==
  ASSUME PayrollTypeOK, NEW c \in Calls
  PROVE  /\ Upserted(c).adj = Adjustment(c)
         /\ Upserted(c).hours = Correction(c)
         /\ Upserted(c).dm = IF Stamps(c, "dm") THEN Word(c) ELSE row.dm
         /\ Upserted(c).hr = IF Stamps(c, "hr") THEN Word(c)
                             ELSE IF Withdraws(c) THEN "pending" ELSE row.hr
  BY DEF Upserted, PayrollTypeOK, Rows

(* A call that is not stale leaves HR's approval only where the DM's stands, *)
(* as the release it was given as.                                           *)
LEMMA CommitRelease ==
  ASSUME PayrollTypeOK, NEW c \in Calls, SoundCall(c), Deciding(c), ~muddled => ReleaseStands,
         Commit(c, "idle") \/ Commit(c, MirrorAt(c)), ~muddled'
  PROVE  ReleaseStands'
  <1>1. ~muddled /\ ~call[c].stale
    BY DEF Commit, PayrollTypeOK, CallRecords
  <1>2. /\ row' = Upserted(c)
        /\ released' = (Upserted(c).dm = "approved" /\ Upserted(c).hr = "approved"
                          /\ (released \/ Stamps(c, "hr")))
    BY DEF Commit
  <1>3. /\ row.hr = "approved" => row.dm = "approved" /\ released
        /\ call[c].cur.dm = row.dm /\ call[c].cur.hr = row.hr
        /\ ~Gated(c, call[c].cur)
    BY <1>1 DEF ReleaseStands, SoundCall
  <1> SUFFICES ASSUME Upserted(c).hr = "approved"
               PROVE  Upserted(c).dm = "approved" /\ (released \/ Stamps(c, "hr"))
    BY <1>2 DEF ReleaseStands
  <1>4. CASE Stamps(c, "hr")
    <2>1. Ask(c).stage = "hr" /\ Ask(c).action = "approve"
      BY <1>4, UpsertedFields, AskTypes DEF Stamps, Word
    <2>2. row.dm = "approved"
      BY <2>1, <1>3 DEF Gated
    <2> QED
      BY <1>4, <2>1, <2>2, UpsertedFields DEF Stamps
  <1>5. CASE ~Stamps(c, "hr")
    <2>1. row.hr = "approved" /\ ~Withdraws(c)
      BY <1>5, UpsertedFields
    <2>2. row.dm = "approved" /\ released
      BY <1>3, <2>1
    <2>3. Stamps(c, "dm") => Word(c) = "approved"
      BY <1>3, <2>1, AskTypes DEF Stamps, Withdraws, Word
    <2> QED
      BY <2>2, <2>3, UpsertedFields
  <1> QED
    BY <1>4, <1>5

(* Nothing but an upsert moves a verdict.                                    *)
LEMMA ReleaseStep ==
  ASSUME DecideInv, [PayrollNext]_payVars
  PROVE  ~muddled' => ReleaseStands'
  <1> USE DEF DecideInv
  <1> DEFINE Commits ==
               \E c \in Calls : call[c].pc = "write" /\ (Commit(c, "idle") \/ Commit(c, MirrorAt(c)))
             Stays == row'.dm = row.dm /\ row'.hr = row.hr /\ UNCHANGED <<released, muddled>>
  <1>1. CASE Commits
    BY <1>1, CommitRelease DEF Deciding
  <1>2. CASE Stays
    BY <1>2 DEF ReleaseStands
  <1>3. Stays \/ Commits
    <2>1. ASSUME NEW c \in Calls, DecideStep(c) PROVE Stays \/ Commits
      BY <2>1 DEF DecideStep, ReadHours, ReadRow, Refuse, Write, WriteFails, Log, LogFails, FindLive, CreateRequest,
         FindPending, UpdateRequest, MirrorFails
    <2>2. ASSUME NEW d \in Sends, List(d) \/ Mail(d) \/ StampSent(d) PROVE Stays
      BY <2>2 DEF List, Mail, StampSent, PayrollTypeOK, Rows
    <2>3. CASE Override
      BY <2>3 DEF Override, PayrollTypeOK, Rows
    <2> QED
      BY <2>1, <2>2, <2>3 DEF PayrollNext, EditPunch, payVars
  <1> QED
    BY <1>1, <1>2, <1>3

(* A dispatch lists what HR has released, or on an override.                 *)
LEMMA DispatchStep ==
  ASSUME DecideInv, [PayrollNext]_payVars
  PROVE  (\A d \in Sends : SoundSend(d)') /\ StatementNeedsRelease'
  <1> USE DEF DecideInv
  <1>1. ASSUME muddled => muddled', UNCHANGED sent, NEW d \in Sends,
               UNCHANGED <<send[d], released>>
        PROVE  SoundSend(d)' /\ StatementNeedsRelease'
    BY <1>1 DEF SoundSend, StatementNeedsRelease
  <1>2. ASSUME NEW c \in Calls, Commit(c, "idle") \/ Commit(c, MirrorAt(c)), UNCHANGED sent
        PROVE  (\A d \in Sends : SoundSend(d)') /\ StatementNeedsRelease'
    <2>1. muddled => muddled'
      BY <1>2 DEF Commit
    <2>2. ASSUME NEW d \in Sends PROVE SoundSend(d)'
      <3>1. CASE send[d].pc = "mail" /\ released /\ ~released'
        <4>1. send'[d].withdrawn
          BY <1>2, <3>1 DEF Commit, PayrollTypeOK, SendRecords
        <4> QED
          BY <4>1 DEF SoundSend
      <3>2. CASE ~(send[d].pc = "mail" /\ released /\ ~released')
        <4>1. send'[d] = send[d]
          BY <1>2, <3>2 DEF Commit
        <4> QED
          BY <2>1, <3>2, <4>1 DEF SoundSend
      <3> QED
        BY <3>1, <3>2
    <2> QED
      BY <1>2, <2>1, <2>2 DEF StatementNeedsRelease
  <1>3. ASSUME NEW d \in Sends, List(d)
        PROVE  (\A e \in Sends : SoundSend(e)') /\ StatementNeedsRelease'
    <2>1. send'[d].over = row.over /\ (~row.over /\ ~muddled => released)
      BY <1>3 DEF List, PayrollTypeOK, SendRecords, Payable, ReleaseStands
    <2>2. UNCHANGED <<sent, muddled, released>> /\ \A e \in Sends \ {d} : send'[e] = send[e]
      BY <1>3 DEF List, PayrollTypeOK
    <2> QED
      BY <2>1, <2>2 DEF SoundSend, StatementNeedsRelease
  <1>4. ASSUME NEW d \in Sends, Mail(d) \/ StampSent(d)
        PROVE  (\A e \in Sends : SoundSend(e)') /\ StatementNeedsRelease'
    <2>1. /\ send'[d].pc # "mail" /\ \A e \in Sends \ {d} : send'[e] = send[e]
          /\ UNCHANGED <<muddled, released>>
      <3>1. CASE Mail(d)
        <4>1. \A o \in {"sent", "failed"} : [NoSend EXCEPT !.pc = "stamp", !.outcome = o].pc = "stamp"
          BY DEF NoSend
        <4>2. [NoSend EXCEPT !.pc = "stamp"].pc = "stamp"
          BY DEF NoSend
        <4> QED
          BY <3>1, <4>1, <4>2 DEF Mail, PayrollTypeOK
      <3>2. CASE StampSent(d)
        BY <3>2 DEF StampSent, NoSend, PayrollTypeOK
      <3> QED
        BY <1>4, <3>1, <3>2
    <2>2. sent' \subseteq sent \cup {On(d)} /\ (sent' = sent \/ send[d].pc = "mail")
      BY <1>4 DEF Mail, StampSent
    <2>3. send[d].pc = "mail" /\ On(d) = "neither" => muddled
      BY DEF On, SoundSend
    <2> QED
      BY <2>1, <2>2, <2>3 DEF SoundSend, StatementNeedsRelease
  <1>5. CASE \/ Override \/ (\E h \in Computed : EditPunch(h)) \/ UNCHANGED payVars
    <2>1. UNCHANGED <<muddled, released, send, sent>>
      BY <1>5 DEF Override, EditPunch, payVars
    <2> QED
      BY <2>1 DEF SoundSend, StatementNeedsRelease
  <1>6. ASSUME NEW c \in Calls, DecideStep(c)
        PROVE  (\A d \in Sends : SoundSend(d)') /\ StatementNeedsRelease'
    <2>1. \/ UNCHANGED <<muddled, released, send, sent>>
          \/ (Commit(c, "idle") \/ Commit(c, MirrorAt(c))) /\ UNCHANGED sent
      BY <1>6 DEF DecideStep, ReadHours, ReadRow, Refuse, Write, WriteFails, Log, LogFails, FindLive,
         CreateRequest, FindPending, UpdateRequest, MirrorFails
    <2>2. CASE UNCHANGED <<muddled, released, send, sent>>
      BY <2>2 DEF SoundSend, StatementNeedsRelease
    <2> QED
      BY <1>2, <2>1, <2>2
  <1> QED
    BY <1>3, <1>4, <1>5, <1>6 DEF PayrollNext

(* At first no call and no dispatch is under way, and nothing is approved.   *)
LEMMA PayrollStart == PayrollInit => InboxInv
  <1> SUFFICES ASSUME PayrollInit PROVE InboxInv
    OBVIOUS
  <1> USE DEF PayrollInit
  <1>1. PayrollTypeOK
    BY PayrollAssumption, QuietType DEF PayrollTypeOK, Rows, Fresh, Verdicts
  <1>2. /\ \A c \in Calls : call[c].pc = "idle" /\ ~call[c].stale
        /\ \A d \in Sends : send[d].pc = "idle"
    BY DEF Quiet, NoSend
  <1>3. DecideInv
    BY <1>1, <1>2 DEF DecideInv, SoundCall, Deciding, SoundSend, ReleaseStands, StatementNeedsRelease, Fresh
  <1> QED
    BY <1>2, <1>3 DEF InboxInv, OneMirror, Accorded, Mirroring, Opening, Closing, Fresh

LEMMA DecideInvariant == PayrollSpec => []DecideInv
  <1>1. PayrollInit => DecideInv
    BY PayrollStart DEF InboxInv
  <1>2. DecideInv /\ [PayrollNext]_payVars => DecideInv'
    BY PayrollTypeStep, SoundCallStep, ReleaseStep, DispatchStep DEF DecideInv
  <1> QED
    BY <1>1, <1>2, PTL DEF PayrollSpec

(* The row, the calls and the dispatches keep their types, whatever fails:   *)
(* no adjustment is negative and no correction is stored as it was typed.    *)
THEOREM PayrollTypeCorrect == PayrollSpec => []PayrollTypeOK
  <1>1. DecideInv => PayrollTypeOK
    BY DEF DecideInv
  <1> QED
    BY <1>1, DecideInvariant, PTL

(* For any number of calls and dispatches, a statement is mailed only on an  *)
(* override its dispatch listed, on a release that stands, or on one         *)
(* withdrawn since that dispatch listed it, unless a call has acted on a row *)
(* changed under it.                                                         *)
THEOREM StatementsStandOnRelease == PayrollSpec => []StatementNeedsRelease
  <1>1. DecideInv => StatementNeedsRelease
    BY DEF DecideInv
  <1> QED
    BY <1>1, DecideInvariant, PTL

(* Only an upsert moves a figure, and it has left "write" by then.          *)
LEMMA OnlyCommitsMove ==
  ASSUME PayrollTypeOK, [PayrollNext]_payVars
  PROVE  \/ SameRow
         \/ \E c \in Calls : Writing(c) /\ row' = Upserted(c)
  <1> USE DEF PayrollTypeOK
  <1>1. ASSUME NEW c \in Calls, Write(c) \/ WriteFails(c)
        PROVE  SameRow \/ (Writing(c) /\ row' = Upserted(c))
    <2>1. ASSUME Commit(c, "idle") \/ Commit(c, MirrorAt(c)) PROVE row' = Upserted(c) /\ call'[c].pc # "write"
      BY <2>1 DEF Commit, MirrorAt, Quiet, CallRecords
    <2> QED
      BY <1>1, <2>1 DEF Write, WriteFails, Writing, SameRow
  <1>2. ASSUME NEW c \in Calls, DecideStep(c)
        PROVE  UNCHANGED row \/ Write(c) \/ WriteFails(c)
    BY <1>2 DEF DecideStep, ReadHours, ReadRow, Refuse, Log, LogFails, FindLive, CreateRequest, FindPending,
       UpdateRequest, MirrorFails
  <1>3. ASSUME NEW d \in Sends, List(d) \/ Mail(d) \/ StampSent(d) PROVE SameRow
    BY <1>3 DEF List, Mail, StampSent, SameRow, Rows
  <1>4. ASSUME NEW h \in Computed, EditPunch(h) PROVE SameRow
    BY <1>4 DEF EditPunch, SameRow
  <1>5. CASE Override
    BY <1>5 DEF Override, SameRow, Rows
  <1>6. CASE UNCHANGED payVars
    BY <1>6 DEF payVars, SameRow
  <1>7. ASSUME NEW c \in Calls, DecideStep(c)
        PROVE  SameRow \/ (Writing(c) /\ row' = Upserted(c))
    <2>1. UNCHANGED row => SameRow
      BY DEF SameRow
    <2> QED
      BY <1>1, <1>2, <1>7, <2>1
  <1> QED
    BY <1>3, <1>4, <1>5, <1>6, <1>7 DEF PayrollNext

(* A figure an upsert moves is one the call knew it moved, and had logged.   *)
LEMMA NamedStep ==
  ASSUME DecideInv, [PayrollNext]_payVars
  PROVE  MovesByName
  <1>1. CASE SameRow
    BY <1>1 DEF SameRow, MovesByName
  <1>2. ASSUME NEW c \in Calls, Writing(c), row' = Upserted(c) PROVE MovesByName
    <2>1. /\ row'.adj = Adjustment(c) /\ row'.hours = Correction(c)
          /\ SoundCall(c) /\ Deciding(c) /\ call[c].pc = "write"
      BY <1>2, UpsertedFields DEF DecideInv, Deciding, Writing
    <2>2. call[c].lost \/ Moved(c, call[c].cur) \subseteq call[c].logged
      BY <2>1 DEF SoundCall
    <2>3. ~call[c].stale => call[c].cur.adj = row.adj
      BY <2>1 DEF SoundCall
    <2>4. ASSUME row'.adj # row.adj
          PROVE  \/ "adj" \in call[c].logged \/ call[c].lost
                 \/ call[c].stale /\ row'.adj = call[c].cur.adj
      BY <2>1, <2>2, <2>3, <2>4 DEF Adjustment, Moved, Figures, Ask
    <2>5. ASSUME row'.hours # row.hours
          PROVE  "hours" \in call[c].logged \/ call[c].lost \/ call[c].ask.hours = call[c].src
      BY <2>1, <2>2, <2>5 DEF Correction, Moved, Figures, Ask
    <2> QED
      BY <1>2, <2>4, <2>5 DEF MovesByName
  <1> QED
    BY <1>1, <1>2, OnlyCommitsMove DEF DecideInv

(* No payroll number moves without a name, but for the exceptions the        *)
(* property names, for any overlapping calls and any failures.               *)
THEOREM NoAnonymousFigure == PayrollSpec => FiguresMoveByName
  <1>1. DecideInv /\ [PayrollNext]_payVars => [MovesByName]_payVars
    BY NamedStep
  <1> QED
    BY <1>1, DecideInvariant, PTL DEF PayrollSpec, FiguresMoveByName

(* A step that leaves the inbox, the verdicts and who is at the inbox alone. *)
LEMMA InboxKept ==
  ASSUME OneMirror, Accorded, ~muddled,
         row'.dm = row.dm, row'.hr = row.hr, UNCHANGED <<entry, muddled>>,
         \A d \in Calls : /\ ~call'[d].stale
                          /\ \/ call'[d] = call[d]
                             \/ ~Mirroring(d) /\ ~Mirroring(d)'
  PROVE  ~muddled' /\ OneMirror' /\ Accorded'
  <1>1. \A d \in Calls : /\ (Mirroring(d)' <=> Mirroring(d)) /\ (Opening(d)' <=> Opening(d))
                         /\ (Closing(d)' <=> Closing(d)) /\ (call'[d].pc = "create" <=> call[d].pc = "create")
    BY DEF Mirroring, Opening, Closing, Ask
  <1>2. OneMirror'
    BY <1>1 DEF OneMirror
  <1>3. Accorded'
    BY <1>1 DEF Accorded
  <1> QED
    BY <1>2, <1>3

(* The one call at the inbox makes its step there.                          *)
LEMMA InboxOnly ==
  ASSUME PayrollTypeOK, OneMirror, NEW c \in Calls, Mirroring(c), ~call'[c].stale,
         call'[c].pc \in {"idle", "create", "update"}, call'[c].pc # "idle" => call'[c].ask = call[c].ask,
         call'[c].pc = "create" => entry' = "none" /\ Opening(c), UNCHANGED row,
         Opening(c)' /\ row.hr = "approved" => entry' # "none",
         \A d \in Calls \ {c} : call'[d] = call[d]
  PROVE  /\ OneMirror'
         /\ \A d \in Calls \ {c} : ~Mirroring(d) /\ ~Mirroring(d)'
  <1>1. \A d \in Calls \ {c} : ~Mirroring(d)
    BY DEF OneMirror
  <1>2. \A d \in Calls \ {c} : ~Mirroring(d)' /\ ~Opening(d)' /\ call'[d].pc # "create" /\ ~call'[d].stale
    BY <1>1 DEF Mirroring, Opening, OneMirror
  <1> QED
    BY <1>1, <1>2 DEF OneMirror

(* The inbox keeps up with the row as long as all goes smoothly.             *)
LEMMA InboxStep ==
  ASSUME InboxInv, [PayrollNext]_payVars, smooth'
  PROVE  ~muddled' /\ OneMirror' /\ Accorded'
  <1> DEFINE Kept == ~muddled' /\ OneMirror' /\ Accorded'
  <1> USE DEF InboxInv, DecideInv, PayrollTypeOK
  <1>s. smooth
    BY DEF PayrollNext, DecideStep, ReadHours, ReadRow, Refuse, Write, WriteFails, Log, LogFails, FindLive,
       CreateRequest, FindPending, UpdateRequest, MirrorFails, Mishap, List, Mail, StampSent, EditPunch,
       Override, payVars
  <1>o. ~muddled /\ OneMirror /\ Accorded /\ ReleaseStands
    BY <1>s
  <1>c. \A c \in Calls : ~call[c].stale
    BY <1>o DEF OneMirror
  <1>1. ASSUME NEW c \in Calls,
               (\E a \in Asks : ReadHours(c, a)) \/ ReadRow(c) \/ Refuse(c) \/ \E f \in Figures : Log(c, f)
        PROVE  Kept
    <2>1. UNCHANGED <<row, entry, muddled>> /\ \A d \in Calls \ {c} : call'[d] = call[d]
      BY <1>1 DEF ReadHours, ReadRow, Refuse, Log
    <2>2. CASE \E a \in Asks : ReadHours(c, a)
      <3>1. call[c].pc = "idle" /\ call'[c].pc = "rows" /\ ~call'[c].stale
        BY <2>2 DEF ReadHours, Quiet
      <3> QED
        BY <1>o, <1>c, <2>1, <3>1, InboxKept DEF Mirroring
    <2>3. CASE ReadRow(c)
      <3>1. call[c].pc = "rows" /\ call'[c].pc \in {"idle", "log", "write"} /\ ~call'[c].stale
        <4>1. CASE call' = [call EXCEPT ![c] = Quiet]
          BY <2>3, <4>1 DEF ReadRow, Quiet
        <4>2. ASSUME NEW p \in {"write", "log"},
                     call' = [call EXCEPT ![c].pc = p, ![c].cur = row, ![c].due = Moved(c, row)]
              PROVE  call'[c].pc \in {"log", "write"} /\ ~call'[c].stale
          BY <1>c, <2>3, <4>2 DEF ReadRow, CallRecords
        <4> QED
          BY <2>3, <4>1, <4>2 DEF ReadRow
      <3> QED
        BY <1>o, <1>c, <2>1, <3>1, InboxKept DEF Mirroring
    <2>5. CASE Refuse(c)
      <3>1. call[c].pc = "log" /\ call'[c].pc = "idle" /\ ~call'[c].stale
        BY <2>5 DEF Refuse, Quiet
      <3> QED
        BY <1>o, <1>c, <2>1, <3>1, InboxKept DEF Mirroring
    <2>4. ASSUME NEW f \in Figures, Log(c, f) PROVE Kept
      <3>1. /\ LeftToLog(c, f) \in CallRecords /\ LeftToLog(c, f).stale = call[c].stale
            /\ LeftToLog(c, f).pc \in {"log", "write"}
        BY DEF LeftToLog, CallRecords
      <3>2. call[c].pc = "log" /\ call'[c].pc \in {"log", "write"} /\ ~call'[c].stale
        BY <1>c, <2>4, <3>1 DEF Log, CallRecords
      <3> QED
        BY <1>o, <1>c, <2>1, <3>2, InboxKept DEF Mirroring
    <2> QED
      BY <1>1, <2>2, <2>3, <2>4, <2>5
  <1>2. ASSUME NEW c \in Calls, Write(c) PROVE Kept
    <2>1. \A d \in Calls \ {c} : call[d].pc \in {"idle", "rows"}
      BY <1>2 DEF Write, Started
    <2>2. \A d \in Calls \ {c} : call'[d].pc \in {"idle", "rows"} /\ ~call'[d].stale
      BY <1>2, <1>c, <2>1 DEF Write, Commit, CallRecords, Started
    <2>3. /\ call[c].pc = "write"
          /\ call'[c] = IF MirrorAt(c) = "idle" THEN Quiet ELSE [call[c] EXCEPT !.pc = MirrorAt(c)]
          /\ row' = Upserted(c) /\ UNCHANGED entry /\ muddled' = (muddled \/ call[c].stale)
      BY <1>2 DEF Write, Commit
    <2>4. /\ call'[c].pc = MirrorAt(c) /\ ~call'[c].stale
          /\ MirrorAt(c) # "idle" => call'[c].ask = call[c].ask
      BY <1>c, <2>3 DEF Quiet, CallRecords
    <2>5. /\ SoundCall(c) /\ Deciding(c)
          /\ call[c].cur.hr = row.hr
      BY <1>c, <2>3 DEF SoundCall, Deciding
    <2>6. /\ row.dm = "approved" => entry # "none"
          /\ row.hr = "approved" => entry # "pending"
      BY <1>o, <2>1, <2>3 DEF Accorded, Opening, Closing
    <2>7. row'.hr = "approved" /\ MirrorAt(c) = "find" => entry # "none"
      BY <1>o, <2>3, <2>6, UpsertedFields DEF MirrorAt, Stamps, ReleaseStands, Withdraws
    <2>8. OneMirror'
      BY <2>2, <2>3, <2>4, <2>7 DEF OneMirror, Mirroring, Opening, MirrorAt
    <2>9. row'.dm = "approved" => entry' # "none" \/ Opening(c)'
      BY <2>3, <2>4, <2>6, UpsertedFields, AskTypes DEF Stamps, Word, MirrorAt, Opening
    <2>10. row'.hr = "approved" => entry' # "pending" \/ Closing(c)'
      BY <2>3, <2>4, <2>6, UpsertedFields, AskTypes DEF Stamps, Word, MirrorAt, Closing, Ask
    <2> QED
      BY <1>o, <1>c, <2>3, <2>8, <2>9, <2>10 DEF Accorded
  <1>3. ASSUME NEW c \in Calls, FindLive(c) PROVE Kept
    <2>1. /\ Mirroring(c) /\ Opening(c) /\ ~Closing(c) /\ UNCHANGED <<row, entry, muddled>>
          /\ \A d \in Calls \ {c} : call'[d] = call[d]
      BY <1>3 DEF FindLive, GoesOn, Mirroring, Opening, Closing
    <2>2. /\ call'[c].pc = IF entry = "none" THEN "create" ELSE "idle"
          /\ ~call'[c].stale /\ (call'[c].pc # "idle" => call'[c].ask = call[c].ask)
      BY <1>c, <1>3 DEF FindLive, GoesOn, Quiet, CallRecords
    <2>3. row.hr = "approved" => entry # "none"
      BY <1>o, <2>1 DEF OneMirror
    <2>4. OneMirror' /\ \A d \in Calls \ {c} : ~Mirroring(d) /\ ~Mirroring(d)'
      BY <1>o, <2>1, <2>2, <2>3, InboxOnly
    <2>5. entry = "none" => Opening(c)'
      BY <2>2 DEF Opening
    <2>6. \A d \in Calls : Closing(d) => Mirroring(d)
      BY DEF Closing, Mirroring
    <2> QED
      BY <1>o, <2>1, <2>4, <2>5, <2>6 DEF Accorded
  <1>4. ASSUME NEW c \in Calls, CreateRequest(c) PROVE Kept
    <2>1. /\ Mirroring(c) /\ Opening(c) /\ entry = "none" /\ UNCHANGED <<row, muddled>>
          /\ \A d \in Calls \ {c} : call'[d] = call[d]
      BY <1>o, <1>4 DEF CreateRequest, Mirrored, Mirroring, Opening, OneMirror
    <2>2. call'[c].pc = "idle" /\ ~call'[c].stale /\ entry' = "pending"
      BY <1>4, <2>1 DEF CreateRequest, Mirrored, Quiet
    <2>3. row.hr # "approved"
      BY <1>o, <2>1 DEF OneMirror
    <2>4. OneMirror'
      BY <1>o, <2>1, <2>2, <2>3, InboxOnly
    <2> QED
      BY <1>o, <2>1, <2>2, <2>3, <2>4 DEF Accorded
  <1>5. ASSUME NEW c \in Calls, FindPending(c) PROVE Kept
    <2>1. /\ Mirroring(c) /\ ~Opening(c) /\ UNCHANGED <<row, entry, muddled>>
          /\ \A d \in Calls \ {c} : call'[d] = call[d]
      BY <1>5 DEF FindPending, GoesOn, Mirroring, Opening
    <2>2. /\ call'[c].pc = IF entry = "pending" THEN "update" ELSE "idle"
          /\ ~call'[c].stale /\ (call'[c].pc # "idle" => call'[c].ask = call[c].ask)
      BY <1>c, <1>5 DEF FindPending, GoesOn, Quiet, CallRecords
    <2>3. OneMirror' /\ \A d \in Calls \ {c} : ~Mirroring(d) /\ ~Mirroring(d)'
      BY <1>o, <2>1, <2>2, InboxOnly DEF Opening
    <2>4. entry = "pending" /\ Closing(c) => Closing(c)'
      BY <2>2 DEF Closing, Ask
    <2>5. \A d \in Calls : Closing(d) \/ Opening(d) => Mirroring(d)
      BY DEF Closing, Opening, Mirroring
    <2> QED
      BY <1>o, <2>1, <2>3, <2>4, <2>5 DEF Accorded
  <1>6. ASSUME NEW c \in Calls, UpdateRequest(c) PROVE Kept
    <2>1. /\ Mirroring(c) /\ UNCHANGED <<row, muddled>>
          /\ \A d \in Calls \ {c} : call'[d] = call[d]
      BY <1>6 DEF UpdateRequest, Mirrored, Mirroring
    <2>2. call'[c].pc = "idle" /\ ~call'[c].stale /\ entry' \in {"approved", "denied"}
      BY <1>6 DEF UpdateRequest, Mirrored, Quiet, Closes
    <2>3. OneMirror'
      BY <1>o, <2>1, <2>2, InboxOnly DEF Opening
    <2> QED
      BY <1>o, <2>1, <2>2, <2>3 DEF Accorded
  <1>7. CASE /\ UNCHANGED <<call, entry, muddled>>
             /\ row'.dm = row.dm /\ row'.hr = row.hr
    BY <1>7, <1>c, <1>o, InboxKept
  <1>8. ASSUME NEW d \in Sends, List(d) \/ Mail(d) \/ StampSent(d) PROVE Kept
    <2>1. UNCHANGED <<call, entry, muddled>> /\ row'.dm = row.dm /\ row'.hr = row.hr
      BY <1>8 DEF List, Mail, StampSent, Rows
    <2> QED
      BY <2>1, <1>7
  <1>9. CASE Override \/ (\E h \in Computed : EditPunch(h)) \/ UNCHANGED payVars
    <2>1. UNCHANGED <<call, entry, muddled>> /\ row'.dm = row.dm /\ row'.hr = row.hr
      BY <1>9 DEF Override, EditPunch, payVars, Rows
    <2> QED
      BY <2>1, <1>7
  <1>10. ASSUME NEW c \in Calls, WriteFails(c) \/ MirrorFails(c) \/ \E f \in Figures : LogFails(c, f)
         PROVE  Kept
    BY <1>10 DEF WriteFails, MirrorFails, LogFails, Mishap
  <1> QED
    BY <1>1, <1>2, <1>3, <1>4, <1>5, <1>6, <1>8, <1>9, <1>10 DEF PayrollNext, DecideStep

LEMMA InboxInvariant == PayrollSpec => []InboxInv
  <1>1. InboxInv /\ [PayrollNext]_payVars => InboxInv'
    BY PayrollTypeStep, SoundCallStep, ReleaseStep, DispatchStep, InboxStep DEF InboxInv, DecideInv
  <1> QED
    BY <1>1, PayrollStart, PTL DEF PayrollSpec

(* Hours that HR has released do not wait for HR in the inbox, as long as    *)
(* nothing failed and no call wrote beside another.                          *)
THEOREM ReleasedLeavesTheInbox == PayrollSpec => []ReleasedIsNotLeftWaiting
  <1>1. InboxInv => ReleasedIsNotLeftWaiting
    BY DEF InboxInv, Accorded, Closing, ReleasedIsNotLeftWaiting
  <1> QED
    BY <1>1, InboxInvariant, PTL
=============================================================================
