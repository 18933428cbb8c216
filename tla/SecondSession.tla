---------------------------- MODULE SecondSession ----------------------------
(***************************************************************************)
(* A rep's second session of a day: the punch that is held until a manager *)
(* permits it, the permission that manager decides on the time-clock board *)
(* or in the unified approvals inbox, the inbox request that mirrors the   *)
(* permission, and the sweep that clocks out overdue punches.              *)
(*                                                                         *)
(* Nothing here is conditional on what was read: every handler reads a     *)
(* row, decides, and updates the row by its id.  The module is about the   *)
(* interleavings of those reads and writes, and about what is left behind  *)
(* when one of them fails.                                                 *)
(***************************************************************************)
EXTENDS Naturals, FiniteSets

CONSTANTS Inbox,      \* decision calls made in the unified inbox
          Board,      \* decision calls made on the time-clock board
          ClockOuts,  \* clock-out calls of the rep (the call and its retries)
          Sweeps,     \* passes of the forced clock-out
          Faults      \* may a call fail, before or after its commit?

ASSUME SessionAssumption == Inbox \cap Board = {} /\ Faults \in BOOLEAN

VARIABLES arrival,  \* the clock-in call that opens the session
          punch,    \* the timelog row: status, closed, counted (hours IS NOT NULL)
          perm,     \* the timeclock_permission row's status
          request,  \* the approval_requests row's status
          step,     \* where each decision call is
          choice,   \* what each decision call decides
          owes,     \* the decision calls that found the punch closed and uncounted
          leave,    \* where each clock-out call is
          holds,    \* the clock-out calls that found the session pending
          sweep,    \* where each pass of the forced clock-out is
          swept,    \* history: a pass has clocked the session out
          crossed   \* history: a clock-out and a punch flip read before either wrote

sweepVars == <<sweep, swept>>
sessionVars ==
    <<arrival, punch, perm, request, step, choice, owes, leave, holds, sweepVars, crossed>>

Deciders == Inbox \cup Board
Decided == {"approved", "denied"}
Status == {"none", "pending"} \cup Decided
AtRest(d) == step[d] \in {"idle", "refused", "ended", "failed"}

SessionTypeOK ==
    /\ arrival \in {"start", "punched", "asked", "done"}
    /\ punch \in [status : Status, closed : BOOLEAN, counted : BOOLEAN]
    /\ perm \in Status
    /\ request \in Status
    /\ step \in [Deciders -> {"idle", "look", "permit", "punch", "flip", "stamp",
                              "sync", "mirror", "refused", "ended", "failed"}]
    /\ choice \in [Deciders -> Decided]
    /\ owes \in SUBSET Deciders
    /\ leave \in [ClockOuts -> {"idle", "write", "ended"}]
    /\ holds \in SUBSET ClockOuts
    /\ sweep \in [Sweeps -> {"idle", "write", "ended"}]
    /\ swept \in BOOLEAN
    /\ crossed \in BOOLEAN

SessionInit ==
    /\ arrival = "start"
    /\ punch = [status |-> "none", closed |-> FALSE, counted |-> FALSE]
    /\ perm = "none"
    /\ request = "none"
    /\ step = [d \in Deciders |-> "idle"]
    /\ choice \in [Deciders -> Decided]
    /\ owes = {}
    /\ leave = [c \in ClockOuts |-> "idle"]
    /\ holds = {}
    /\ sweep = [s \in Sweeps |-> "idle"]
    /\ swept = FALSE
    /\ crossed = FALSE

-----------------------------------------------------------------------------
(* The clock-in.  The punch is inserted first; the permission and the inbox *)
(* request that follow are best effort and never fail the punch.            *)
OpenPunch ==
    /\ arrival = "start"
    /\ arrival' = "punched"
    /\ punch' = [punch EXCEPT !.status = "pending"]
    /\ UNCHANGED <<perm, request, step, choice, owes, leave, holds, sweepVars, crossed>>

AskPermission ==
    /\ arrival = "punched"
    /\ \/ perm' = "pending" /\ arrival' = "asked"
       \/ Faults /\ perm' \in {"none", "pending"} /\ arrival' = "done"
    /\ UNCHANGED <<punch, request, step, choice, owes, leave, holds, sweepVars, crossed>>

Intimate ==
    /\ arrival = "asked"
    /\ arrival' = "done"
    /\ \/ request' = "pending"
       \/ Faults /\ UNCHANGED request
    /\ UNCHANGED <<punch, perm, step, choice, owes, leave, holds, sweepVars, crossed>>

ClockIn == OpenPunch \/ AskPermission \/ Intimate

-----------------------------------------------------------------------------
Goto(d, label) == step' = [step EXCEPT ![d] = label]

(* The inbox reads its request; it goes on only while it is pending.        *)
OpenRequest(d) ==
    /\ d \in Inbox /\ step[d] = "idle" /\ request # "none"
    /\ Goto(d, IF request = "pending" THEN "look" ELSE "refused")
    /\ UNCHANGED <<arrival, punch, perm, request, choice, owes, leave, holds, sweepVars, crossed>>

(* Mutant: the request is stamped before its effect ran.                    *)
LookStamped(d) ==
    /\ step[d] = "look"
    /\ request' = choice[d]
    /\ Goto(d, IF perm = "pending" THEN "permit" ELSE "stamp")
    /\ UNCHANGED <<arrival, punch, perm, choice, owes, leave, holds, sweepVars, crossed>>

(* The adapter reads the permission: a decided one is left alone.           *)
Look(d) ==
    /\ step[d] = "look"
    /\ Goto(d, IF perm = "pending" THEN "permit" ELSE "stamp")
    /\ UNCHANGED <<arrival, punch, perm, request, choice, owes, leave, holds, sweepVars, crossed>>

(* The board reads the permission: a decided one is refused.                *)
OpenPermission(d) ==
    /\ d \in Board /\ step[d] = "idle" /\ perm # "none"
    /\ Goto(d, IF perm = "pending" THEN "permit" ELSE "refused")
    /\ UNCHANGED <<arrival, punch, perm, request, choice, owes, leave, holds, sweepVars, crossed>>

(* The shared effect: stamp the permission, read the punch, flip the punch. *)
StampPermission(d) ==
    /\ step[d] = "permit"
    /\ perm' = choice[d]
    /\ Goto(d, "punch")
    /\ UNCHANGED <<arrival, punch, request, choice, owes, leave, holds, sweepVars, crossed>>

ReadPunch(d) ==
    /\ step[d] = "punch"
    /\ owes' = IF punch.closed /\ ~punch.counted THEN owes \cup {d} ELSE owes
    /\ crossed' = (crossed \/ \E c \in ClockOuts : leave[c] = "write")
    /\ Goto(d, "flip")
    /\ UNCHANGED <<arrival, punch, perm, request, choice, leave, holds, sweepVars>>

(* Mutant: the hours of a session that had already closed are not stamped.  *)
FlippedUnstamped(d) ==
    [punch EXCEPT !.status = choice[d], !.counted = @ /\ choice[d] = "approved"]

Flipped(d) ==
    [punch EXCEPT !.status = choice[d],
                  !.counted = choice[d] = "approved" /\ (@ \/ d \in owes)]

Flip(d) ==
    /\ step[d] = "flip"
    /\ punch' = Flipped(d)
    /\ Goto(d, IF d \in Inbox THEN "stamp" ELSE "sync")
    /\ UNCHANGED <<arrival, perm, request, choice, owes, leave, holds, sweepVars, crossed>>

(* The engine stamps the request, whatever the effect found to do.          *)
StampRequest(d) ==
    /\ step[d] = "stamp"
    /\ request' = choice[d]
    /\ Goto(d, "ended")
    /\ UNCHANGED <<arrival, punch, perm, choice, owes, leave, holds, sweepVars, crossed>>

(* sync_source_decision: the board's decision is copied onto the request it *)
(* finds pending.                                                           *)
FindRequest(d) ==
    /\ step[d] = "sync"
    /\ Goto(d, IF request = "pending" THEN "mirror" ELSE "ended")
    /\ UNCHANGED <<arrival, punch, perm, request, choice, owes, leave, holds, sweepVars, crossed>>

MirrorDecision(d) ==
    /\ step[d] = "mirror"
    /\ request' = choice[d]
    /\ Goto(d, "ended")
    /\ UNCHANGED <<arrival, punch, perm, choice, owes, leave, holds, sweepVars, crossed>>

(* A call of the decision raises, before or after its commit.  In the       *)
(* effect or the stamp it aborts the decision; in the sync it is swallowed. *)
DecisionFault(d) ==
    /\ Faults
    /\ \/ step[d] \in {"look", "punch"} /\ UNCHANGED <<punch, perm, request>>
       \/ step[d] = "permit" /\ perm' \in {perm, choice[d]} /\ UNCHANGED <<punch, request>>
       \/ step[d] = "flip" /\ punch' \in {punch, Flipped(d)} /\ UNCHANGED <<perm, request>>
       \/ /\ step[d] \in {"stamp", "mirror"}
          /\ request' \in {request, choice[d]}
          /\ UNCHANGED <<punch, perm>>
       \/ step[d] = "sync" /\ UNCHANGED <<punch, perm, request>>
    /\ Goto(d, IF step[d] \in {"sync", "mirror"} THEN "ended" ELSE "failed")
    /\ UNCHANGED <<arrival, choice, owes, leave, holds, sweepVars, crossed>>

Decide(d) ==
    \/ OpenRequest(d) \/ Look(d) \/ OpenPermission(d) \/ StampPermission(d)
    \/ ReadPunch(d) \/ Flip(d) \/ StampRequest(d) \/ FindRequest(d)
    \/ MirrorDecision(d) \/ DecisionFault(d)

-----------------------------------------------------------------------------
(* The clock-out reads the open punch; a closed one is replayed as done or  *)
(* not found, and the closing gate may turn the call away.                  *)
ReadOpenPunch(c) ==
    /\ leave[c] = "idle" /\ punch.status # "none"
    /\ \/ leave' = [leave EXCEPT ![c] = "ended"] /\ UNCHANGED <<holds, crossed>>
       \/ /\ ~punch.closed
          /\ leave' = [leave EXCEPT ![c] = "write"]
          /\ holds' = IF punch.status = "pending" THEN holds \cup {c} ELSE holds
          /\ crossed' = (crossed \/ \E d \in Deciders : step[d] = "flip")
    /\ UNCHANGED <<arrival, punch, perm, request, step, choice, owes, sweepVars>>

(* Mutant: the clock-out stamps the hours of a held session.                *)
ClosedCounting(c) == [punch EXCEPT !.closed = TRUE, !.counted = TRUE]

Closed(c) == [punch EXCEPT !.closed = TRUE, !.counted = c \notin holds]

(* Its update closes the punch by id: hours are NULL when it was held.      *)
WritePunch(c) ==
    /\ leave[c] = "write"
    /\ \/ punch' = Closed(c)
       \/ Faults /\ UNCHANGED punch
    /\ leave' = [leave EXCEPT ![c] = "ended"]
    /\ UNCHANGED <<arrival, perm, request, step, choice, owes, holds, sweepVars, crossed>>

ClockOut(c) == ReadOpenPunch(c) \/ WritePunch(c)

-----------------------------------------------------------------------------
(* The forced clock-out reads the open punches, and closes by id those that *)
(* began before a scheduled end which is past with its grace.  A held       *)
(* session is one of them when a later shift of the day or an approved      *)
(* extension ends after it began; its permission is not looked at.          *)
ReadOverdue(s) ==
    /\ sweep[s] = "idle" /\ punch.status # "none" /\ ~punch.closed
    /\ sweep' = [sweep EXCEPT ![s] = "write"]
    /\ UNCHANGED <<arrival, punch, perm, request, step, choice, owes, leave, holds, swept, crossed>>

ForceOut(s) ==
    /\ sweep[s] = "write"
    /\ sweep' = [sweep EXCEPT ![s] = "ended"]
    /\ \/ punch' = [punch EXCEPT !.closed = TRUE, !.counted = TRUE] /\ swept' = TRUE
       \/ Faults /\ UNCHANGED <<punch, swept>>
    /\ UNCHANGED <<arrival, perm, request, step, choice, owes, leave, holds, crossed>>

ForceClockOut(s) == ReadOverdue(s) \/ ForceOut(s)

SessionNext ==
    \/ ClockIn
    \/ \E d \in Deciders : Decide(d)
    \/ \E c \in ClockOuts : ClockOut(c)
    \/ \E s \in Sweeps : ForceClockOut(s)

SessionSpec == SessionInit /\ [][SessionNext]_sessionVars

-----------------------------------------------------------------------------
(* An inbox request that shows a decision stands on a decided permission:   *)
(* the effect runs first, and only then the stamp, from whichever of the    *)
(* two surfaces it comes and whichever call fails.                          *)
(* (approvals/engine.py 171-178, 204-221)                                   *)
StampedMeansDecided == request \in Decided => perm \in Decided

(* A held session does not reach pay before a manager decided, but by the   *)
(* forced clock-out: the hours a rep's own clock-out stamps are never those *)
(* of a pending permission, however it and the decisions interleave.        *)
(* (storeops/router.py 5698-5702, 7583-7590)                                *)
CountedOnlyOnceDecided == punch.counted => perm \in Decided \/ swept

(* When every decision call asks for the same outcome and none failed, that *)
(* outcome is whole: permission and punch agree, and an approved session    *)
(* that is closed counts.  The window it excepts is a clock-out and a punch *)
(* flip that both read before either wrote.                                 *)
(* (storeops/router.py 7561-7600, 5671-5748)                                *)
AgreedDecisionIsWhole ==
    \A v \in Decided :
        /\ perm \in Decided
        /\ \A d \in Deciders : /\ AtRest(d) /\ step[d] # "failed"
                               /\ step[d] # "idle" => choice[d] = v
        => /\ perm = v /\ punch.status = v
           /\ v = "approved" /\ punch.closed /\ ~crossed => punch.counted

(* A session that is pending or denied stays out of pay.                   *)
(* (storeops/router.py 7362-7364)                                           *)
HeldHoursStayOut ==
    (\A d \in Deciders : AtRest(d)) =>
        (punch.status \in {"pending", "denied"} => ~punch.counted)

-----------------------------------------------------------------------------
(* The inductive strengthening: whoever is past the permission's stamp, or  *)
(* saw a punch that is no longer pending, saw the work of a decision.       *)
PastPermit(d) == step[d] \in {"punch", "flip", "stamp", "sync", "mirror"}

DecisionInv ==
    /\ SessionTypeOK
    /\ StampedMeansDecided
    /\ CountedOnlyOnceDecided
    /\ punch.status \in Decided => perm \in Decided
    /\ arrival = "start" => punch.status = "none"
    /\ arrival \in {"start", "punched"} => perm = "none" /\ request = "none"
    /\ \A d \in Deciders : step[d] = "permit" => perm # "none"
    /\ \A d \in Deciders : step[d] = "look" => perm # "none"
    /\ arrival = "asked" => perm # "none"
    /\ request # "none" => perm # "none"
    /\ \A d \in Deciders : PastPermit(d) => perm \in Decided
    /\ \A c \in ClockOuts : leave[c] = "write" /\ c \notin holds => perm \in Decided

(* For the whole outcome: a flip and a clock-out under way together have    *)
(* crossed, and so has a clock-out that holds the hours of what is decided. *)
CrossInv ==
    /\ \A d \in Deciders, c \in ClockOuts : step[d] = "flip" /\ leave[c] = "write" => crossed
    /\ \A c \in ClockOuts : leave[c] = "write" /\ c \in holds /\ punch.status \in Decided => crossed
    /\ \A c \in ClockOuts : leave[c] = "idle" => c \notin holds

Agreed(v) == \A d \in Deciders : step[d] # "failed" /\ (step[d] # "idle" => choice[d] = v)

(* Between the permission's stamp and the flip somebody is on the way, and  *)
(* hours closed before the flip are known to whoever flips.                 *)
WholeSoFar(v) ==
    /\ perm \in Decided => perm = v /\ (punch.status = v \/ \E d \in Deciders : step[d] \in {"punch", "flip"})
    /\ punch.status \in Decided => punch.status = v
    /\ v = "approved" /\ punch.closed /\ ~crossed =>
          /\ punch.status = v => punch.counted
          /\ \A d \in Deciders : step[d] = "flip" => punch.counted \/ d \in owes

AgreedInv ==
    /\ DecisionInv
    /\ CrossInv
    /\ \A v \in Decided : Agreed(v) => WholeSoFar(v)
=============================================================================
