---------------------------- MODULE PayrollApproval ----------------------------
(***************************************************************************)
(* The two-stage approval of one employee's hours for one pay period: the  *)
(* calls of decide by which the district manager (DM) corrects, approves,  *)
(* bounces or re-opens the hours and HR releases them, the entry of the    *)
(* unified inbox that mirrors the release, the admin's override, and the   *)
(* dispatch that mails the statement to whoever pays.                      *)
(*                                                                         *)
(* A call decides on a row it read and upserts the columns it names; every *)
(* figure it moves it logs first, and a log that fails is swallowed.       *)
(* Adjustments are not negative here: one that would bring the hours below *)
(* zero is refused and changes nothing.                                    *)
(***************************************************************************)
EXTENDS Integers

CONSTANTS Calls,      \* the decide calls that may overlap
          Asks,       \* what a call may ask for
          Sends,      \* the dispatches that may overlap
          Computed,   \* the hours the clock may compute
          Count,      \* bound on the decide calls
          Upsets      \* bound on punch edits, overrides and failing calls, together

None == -1      \* no corrected hours; or a figure the call does not mention
Cleared == -2   \* the corrected hours, given as an empty value

(* Refused outright, and not asked here: a save by HR.                      *)
Askable == [stage : {"dm"}, action : {"approve", "send_back", "reset", "save"},
            adj : Nat \cup {None}, hours : Nat \cup {None, Cleared}]
      \cup [stage : {"hr"}, action : {"approve", "send_back", "reset"}, adj : {None}, hours : {None}]

ASSUME PayrollAssumption ==
    /\ Asks \subseteq Askable
    /\ Computed \cup {Count, Upsets} \subseteq Nat

VARIABLES src,        \* actual_hours, as the clock computes it now
          row,        \* the payroll_approval row; as good as absent at first
          entry,      \* the approval_requests row's status
          call,       \* the decide calls
          send,       \* the dispatches
          released,   \* history: HR approved, and the DM has not withdrawn since
          muddled,    \* history: a call has upserted a row that had changed under it
          smooth,     \* history: no call has failed, or written while another was under way
          sent,       \* history: what statements went out on
          count, budget

payVars == <<src, row, entry, call, send, released, muddled, smooth, sent, count, budget>>

Verdicts == {"pending", "approved", "sent_back"}
Figures == {"adj", "hours"}
Rows == [dm : Verdicts, hr : Verdicts, adj : Nat, hours : Nat \cup {None}, over : BOOLEAN,
         dispatch : {"none", "sent", "failed"}]
Grounds == {"override", "released", "withdrawn", "neither"}

CallRecords == [pc : {"idle", "rows", "log", "write", "find", "create", "sync", "update"},
                ask : Askable, src : Nat, cur : Rows, due : SUBSET Figures, logged : SUBSET Figures,
                lost : BOOLEAN, stale : BOOLEAN]
SendRecords == [pc : {"idle", "mail", "stamp"}, over : BOOLEAN, withdrawn : BOOLEAN,
                outcome : {"sent", "failed"}]

PayrollTypeOK ==
    /\ src \in Nat
    /\ row \in Rows
    /\ entry \in {"none", "pending", "approved", "denied"}
    /\ call \in [Calls -> CallRecords]
    /\ send \in [Sends -> SendRecords]
    /\ released \in BOOLEAN /\ muddled \in BOOLEAN /\ smooth \in BOOLEAN
    /\ sent \subseteq Grounds
    /\ count \in Nat /\ budget \in Nat

Fresh == [dm |-> "pending", hr |-> "pending", adj |-> 0, hours |-> None, over |-> FALSE,
          dispatch |-> "none"]

(* lost: the log of a figure failed; stale: the row changed since it was    *)
(* read.                                                                    *)
Quiet == [pc |-> "idle", ask |-> [stage |-> "hr", action |-> "reset", adj |-> None, hours |-> None],
          src |-> 0, cur |-> Fresh, due |-> {}, logged |-> {}, lost |-> FALSE, stale |-> FALSE]

(* over: listed on an override; withdrawn: the release has ended since the  *)
(* listing.                                                                 *)
NoSend == [pc |-> "idle", over |-> FALSE, withdrawn |-> FALSE, outcome |-> "sent"]

PayrollInit ==
    /\ src \in Computed
    /\ row = Fresh
    /\ entry = "none"
    /\ call = [c \in Calls |-> Quiet]
    /\ send = [d \in Sends |-> NoSend]
    /\ released = FALSE
    /\ muddled = FALSE
    /\ smooth = TRUE
    /\ sent = {}
    /\ count = Count
    /\ budget = Upsets

Upset == budget > 0 /\ budget' = budget - 1
Mishap == Upset /\ smooth' = FALSE

-----------------------------------------------------------------------------
(* decide: the reads, and what the row it read lets the call do.            *)

ReadHours(c, a) ==
    /\ call[c].pc = "idle"
    /\ count > 0
    /\ count' = count - 1
    /\ call' = [call EXCEPT ![c] = [Quiet EXCEPT !.pc = "rows", !.ask = a, !.src = src]]
    /\ UNCHANGED <<src, row, entry, send, released, muddled, smooth, sent, budget>>

Ask(c) == call[c].ask

(* The figures the call moves, as far as it knows: a correction is measured *)
(* against the computed hours, an adjustment against the stored one.        *)
Moved(c, cur) ==
    {f \in Figures :
        \/ f = "adj" /\ Ask(c).adj \notin {None, cur.adj}
        \/ f = "hours" /\ Ask(c).hours = Cleared /\ cur.hours # None
        \/ f = "hours" /\ Ask(c).hours \notin {None, Cleared, call[c].src}}

(* HR is the second gate.                                                   *)
Gated(c, cur) == Ask(c).stage = "hr" /\ Ask(c).action = "approve" /\ cur.dm # "approved"

(* An adjustment moved without a reason is refused as well, or a correction *)
(* that is the only figure moved.                                           *)
ReadRow(c) ==
    /\ call[c].pc = "rows"
    /\ \/ /\ ~Gated(c, row)
          /\ call' = [call EXCEPT ![c].pc = IF Moved(c, row) = {} THEN "write" ELSE "log",
                                  ![c].cur = row, ![c].due = Moved(c, row)]
       \/ /\ Gated(c, row) \/ Moved(c, row) # {}
          /\ call' = [call EXCEPT ![c] = Quiet]
    /\ UNCHANGED <<src, row, entry, send, released, muddled, smooth, sent, count, budget>>

(* The adjustment is logged before the correction.                          *)
NextLog(c, f) == f \in call[c].due /\ (f = "adj" \/ "adj" \notin call[c].due)

LeftToLog(c, f) == [call[c] EXCEPT !.due = @ \ {f}, !.pc = IF call[c].due = {f} THEN "write" ELSE "log"]

Log(c, f) ==
    /\ call[c].pc = "log"
    /\ NextLog(c, f)
    /\ call' = [call EXCEPT ![c] = [LeftToLog(c, f) EXCEPT !.logged = @ \cup {f}]]
    /\ UNCHANGED <<src, row, entry, send, released, muddled, smooth, sent, count, budget>>

LogFails(c, f) ==
    /\ Mishap
    /\ call[c].pc = "log"
    /\ NextLog(c, f)
    /\ call' = [call EXCEPT ![c] = [LeftToLog(c, f) EXCEPT !.lost = TRUE]]
    /\ UNCHANGED <<src, row, entry, send, released, muddled, sent, count>>

(* A correction without a reason is refused only here: the adjustment of    *)
(* the same call has been logged by now, and is not written.                *)
Refuse(c) ==
    /\ call[c].pc = "log"
    /\ "hours" \in call[c].due /\ "adj" \notin call[c].due
    /\ call' = [call EXCEPT ![c] = Quiet]
    /\ UNCHANGED <<src, row, entry, send, released, muddled, smooth, sent, count, budget>>

-----------------------------------------------------------------------------
(* decide: the upsert of the columns the call names.                        *)

(* Mutant: a call that does not mention the adjustment stores none.         *)
AdjustmentDropped(c) == IF Ask(c).adj # None THEN Ask(c).adj ELSE 0

Adjustment(c) == IF Ask(c).adj # None THEN Ask(c).adj ELSE call[c].cur.adj

(* Clearing what was no correction when it was read names no column.        *)
Correction(c) ==
    IF Ask(c).hours = Cleared THEN (IF call[c].cur.hours # None THEN None ELSE row.hours)
    ELSE IF Ask(c).hours # None THEN Ask(c).hours ELSE row.hours

(* Mutant: HR's approval is left standing.                                  *)
WithdrawsNothing(c) == FALSE

(* A DM who bounces or re-opens the hours takes HR's approval with him.     *)
Withdraws(c) ==
    Ask(c).stage = "dm" /\ Ask(c).action \in {"send_back", "reset"} /\ call[c].cur.hr = "approved"

Stamps(c, stage) == Ask(c).stage = stage /\ Ask(c).action # "save"

Word(c) ==
    CASE Ask(c).action = "approve"   -> "approved"
      [] Ask(c).action = "send_back" -> "sent_back"
      [] OTHER                       -> "pending"

Upserted(c) ==
    [row EXCEPT !.adj = Adjustment(c),
                !.hours = Correction(c),
                !.dm = IF Stamps(c, "dm") THEN Word(c) ELSE @,
                !.hr = IF Stamps(c, "hr") THEN Word(c) ELSE IF Withdraws(c) THEN "pending" ELSE @]

Started(d) == call[d].pc \notin {"idle", "rows"}

(* The upsert has committed; c goes on at pc, and whoever has read the row  *)
(* before works on an old one.                                              *)
Commit(c, pc) ==
    /\ row' = Upserted(c)
    /\ call' = [d \in Calls |->
                  IF d # c THEN [call[d] EXCEPT !.stale = @ \/ Started(d)]
                  ELSE IF pc = "idle" THEN Quiet ELSE [call[c] EXCEPT !.pc = pc]]
    /\ released' = (Upserted(c).dm = "approved" /\ Upserted(c).hr = "approved"
                      /\ (released \/ Stamps(c, "hr")))
    /\ muddled' = (muddled \/ call[c].stale)
    /\ send' = [d \in Sends |-> IF send[d].pc = "mail" /\ released /\ ~released'
                                THEN [send[d] EXCEPT !.withdrawn = TRUE] ELSE send[d]]

(* What the inbox is told: a DM's approval opens the request, HR closes it. *)
MirrorAt(c) ==
    IF Ask(c).stage = "dm" /\ Ask(c).action = "approve" THEN "find"
    ELSE IF Ask(c).stage = "hr" /\ Ask(c).action # "reset" THEN "sync" ELSE "idle"

Write(c) ==
    /\ call[c].pc = "write"
    /\ Commit(c, MirrorAt(c))
    /\ smooth' = (smooth /\ \A d \in Calls \ {c} : ~Started(d))
    /\ UNCHANGED <<src, entry, sent, count, budget>>

(* An upsert that raises, committed or not, is reported and not mirrored.   *)
WriteFails(c) ==
    /\ Mishap
    /\ call[c].pc = "write"
    /\ \/ Commit(c, "idle")
       \/ call' = [call EXCEPT ![c] = Quiet] /\ UNCHANGED <<row, send, released, muddled>>
    /\ UNCHANGED <<src, entry, sent, count>>

-----------------------------------------------------------------------------
(* The mirror in the unified inbox; none of its errors reaches the caller.  *)

Mirrored(c, status) ==
    /\ entry' = status
    /\ call' = [call EXCEPT ![c] = Quiet]

GoesOn(c, on, pc) ==
    /\ call' = [call EXCEPT ![c] = IF on THEN [call[c] EXCEPT !.pc = pc] ELSE Quiet]
    /\ UNCHANGED entry

(* create_request: a request that was ever decided still counts as live.    *)
FindLive(c) ==
    /\ call[c].pc = "find"
    /\ GoesOn(c, entry = "none", "create")
    /\ UNCHANGED <<src, row, send, released, muddled, smooth, sent, count, budget>>

(* A second insert runs into the unique index, and leaves the first.        *)
CreateRequest(c) ==
    /\ call[c].pc = "create"
    /\ Mirrored(c, IF entry = "none" THEN "pending" ELSE entry)
    /\ UNCHANGED <<src, row, send, released, muddled, smooth, sent, count, budget>>

(* sync_source_decision: only a pending request is found.                   *)
FindPending(c) ==
    /\ call[c].pc = "sync"
    /\ GoesOn(c, entry = "pending", "update")
    /\ UNCHANGED <<src, row, send, released, muddled, smooth, sent, count, budget>>

(* Mutant: the release is mirrored as a request still waiting.              *)
ClosesNothing(c) == "pending"

Closes(c) == IF Ask(c).action = "approve" THEN "approved" ELSE "denied"

UpdateRequest(c) ==
    /\ call[c].pc = "update"
    /\ Mirrored(c, Closes(c))
    /\ UNCHANGED <<src, row, send, released, muddled, smooth, sent, count, budget>>

MirrorFails(c) ==
    /\ Mishap
    /\ call[c].pc \in {"find", "create", "sync", "update"}
    /\ \/ Mirrored(c, entry)
       \/ call[c].pc = "create" /\ entry = "none" /\ Mirrored(c, "pending")
       \/ call[c].pc = "update" /\ Mirrored(c, Closes(c))
    /\ UNCHANGED <<src, row, send, released, muddled, sent, count>>

-----------------------------------------------------------------------------
(* Punches and lunch change after the fact; an admin overrides, or withdraws*)
(* an override.                                                             *)

EditPunch(h) ==
    /\ Upset
    /\ src' = h
    /\ UNCHANGED <<row, entry, call, send, released, muddled, smooth, sent, count>>

Override ==
    /\ Upset
    /\ row' = [row EXCEPT !.over = ~@]
    /\ UNCHANGED <<src, entry, call, send, released, muddled, smooth, sent, count>>

-----------------------------------------------------------------------------
(* dispatch: list, mail, stamp.  (Which hours the statement shows is read   *)
(* with the row and the clock; the properties are about whether it goes.)   *)

Payable == row.over \/ (row.dm = "approved" /\ row.hr = "approved")

List(d) ==
    /\ send[d].pc = "idle"
    /\ Payable
    /\ send' = [send EXCEPT ![d].pc = "mail", ![d].over = row.over]
    /\ UNCHANGED <<src, row, entry, call, released, muddled, smooth, sent, count, budget>>

(* What the statement is mailed on; nobody looks at the row again.          *)
On(d) ==
    CASE send[d].over      -> "override"
      [] released          -> "released"
      [] send[d].withdrawn -> "withdrawn"
      [] OTHER             -> "neither"

(* The mail goes out, and may raise all the same.                           *)
Mail(d) ==
    /\ send[d].pc = "mail"
    /\ \/ /\ sent' = sent \cup {On(d)}
          /\ send' = [send EXCEPT ![d] = [NoSend EXCEPT !.pc = "stamp"]]
          /\ UNCHANGED <<smooth, budget>>
       \/ /\ Mishap
          /\ sent' \in {sent, sent \cup {On(d)}}
          /\ send' = [send EXCEPT ![d] = [NoSend EXCEPT !.pc = "stamp", !.outcome = "failed"]]
    /\ UNCHANGED <<src, row, entry, call, released, muddled, count>>

StampSent(d) ==
    /\ send[d].pc = "stamp"
    /\ \/ row' = [row EXCEPT !.dispatch = send[d].outcome] /\ UNCHANGED <<smooth, budget>>
       \/ Mishap /\ UNCHANGED row
    /\ send' = [send EXCEPT ![d] = NoSend]
    /\ UNCHANGED <<src, entry, call, released, muddled, sent, count>>

-----------------------------------------------------------------------------

DecideStep(c) ==
    \/ \E a \in Asks : ReadHours(c, a)
    \/ ReadRow(c) \/ Refuse(c) \/ Write(c) \/ WriteFails(c)
    \/ \E f \in Figures : Log(c, f) \/ LogFails(c, f)
    \/ FindLive(c) \/ CreateRequest(c) \/ FindPending(c) \/ UpdateRequest(c) \/ MirrorFails(c)

PayrollNext ==
    \/ \E c \in Calls : DecideStep(c)
    \/ \E d \in Sends : List(d) \/ Mail(d) \/ StampSent(d)
    \/ \E h \in Computed \ {src} : EditPunch(h)
    \/ Override

PayrollSpec == PayrollInit /\ [][PayrollNext]_payVars

-----------------------------------------------------------------------------
(* HR's sign-off does not survive the removal of the thing it was signing   *)
(* off on (939-943).  A statement is mailed on an override its dispatch     *)
(* listed, on a release that HR gave on the DM's standing approval and that *)
(* still stands, or on one that was withdrawn after this dispatch listed it *)
(* (1224, 1272): never on one that had ended before.  The exception is a    *)
(* call that acted on a row another had changed since it was read.          *)
StatementNeedsRelease == "neither" \in sent => muddled

(* A payroll number does not move without a name (16-17, 849-850, 876-882): *)
(* whoever changes the adjustment or the corrected hours has logged it.  The*)
(* exceptions are a log that failed, a call that carries back the adjustment*)
(* it read before another changed it, and a typed correction that equals    *)
(* the computed hours.                                                      *)
Writing(c) == call[c].pc = "write" /\ call'[c].pc # "write"

MovesByName ==
    /\ row'.adj # row.adj =>
          \E c \in Calls : /\ Writing(c)
                           /\ \/ "adj" \in call[c].logged \/ call[c].lost
                              \/ call[c].stale /\ row'.adj = call[c].cur.adj
    /\ row'.hours # row.hours =>
          \E c \in Calls : /\ Writing(c)
                           /\ \/ "hours" \in call[c].logged \/ call[c].lost
                              \/ call[c].ask.hours = call[c].src

FiguresMoveByName == [][MovesByName]_payVars

(* While nothing has failed and no call has written beside another, hours   *)
(* that HR has released are not left waiting for HR in the inbox (749-757). *)
ReleasedIsNotLeftWaiting ==
    smooth /\ (\A c \in Calls : call[c].pc = "idle")
        => (row.hr = "approved" => entry # "pending")

-----------------------------------------------------------------------------
(* The inductive strengthenings.                                            *)

(* A call that is not stale decides on the row as it stands, but for what   *)
(* the admin and the dispatch write; HR's approval has passed the gate; and *)
(* what the call moves is logged, lost, or still to be logged.              *)
Deciding(c) == call[c].pc \in {"log", "write"}

SoundCall(c) ==
    /\ Deciding(c) /\ ~call[c].stale =>
          /\ call[c].cur.dm = row.dm /\ call[c].cur.hr = row.hr
          /\ call[c].cur.adj = row.adj /\ call[c].cur.hours = row.hours
    /\ Deciding(c) => ~Gated(c, call[c].cur)
    /\ Deciding(c) => call[c].lost \/ Moved(c, call[c].cur) \subseteq call[c].due \cup call[c].logged
    /\ call[c].pc = "write" => call[c].due = {}

(* HR's approval stands on the DM's, and both are a release.                *)
ReleaseStands == row.hr = "approved" => row.dm = "approved" /\ released

SoundSend(d) == send[d].pc = "mail" /\ ~send[d].over => released \/ send[d].withdrawn \/ muddled

DecideInv ==
    /\ PayrollTypeOK
    /\ \A c \in Calls : SoundCall(c)
    /\ ~muddled => ReleaseStands
    /\ \A d \in Sends : SoundSend(d)
    /\ StatementNeedsRelease

(* While all goes smoothly one call at a time is at the inbox, no call is   *)
(* stale, a DM's approval is in the inbox or on its way there, and so is    *)
(* HR's end of it.                                                          *)
Mirroring(c) == call[c].pc \in {"find", "create", "sync", "update"}
Opening(c) == call[c].pc \in {"find", "create"}
Closing(c) == call[c].pc \in {"sync", "update"} /\ Ask(c).action = "approve"

OneMirror ==
    /\ \A c, d \in Calls : Mirroring(c) /\ Mirroring(d) => c = d
    /\ \A c \in Calls : /\ ~call[c].stale
                        /\ Opening(c) /\ row.hr = "approved" => entry # "none"
                        /\ call[c].pc = "create" => entry = "none"

Accorded ==
    /\ row.dm = "approved" => entry # "none" \/ \E c \in Calls : Opening(c)
    /\ row.hr = "approved" => entry # "pending" \/ \E c \in Calls : Closing(c)

InboxInv ==
    /\ DecideInv
    /\ smooth => ~muddled /\ OneMirror /\ Accorded
=============================================================================
