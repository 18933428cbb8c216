--------------------------- MODULE MCPayrollApproval ---------------------------
(* TLC instances of PayrollApproval.                                          *)
EXTENDS PayrollApproval, TLC

Plain(s, a) == [stage |-> s, action |-> a, adj |-> None, hours |-> None]
With(a, adj, hours) == [stage |-> "dm", action |-> a, adj |-> adj, hours |-> hours]

(* The DM approves, re-opens, adjusts, corrects (to what the clock has, or    *)
(* not) and clears; HR approves and bounces.                                  *)
EveryKind ==
    {Plain("dm", "approve"), Plain("dm", "reset"), Plain("hr", "approve"), Plain("hr", "send_back"),
     With("save", 1, 1), With("save", None, 2), With("save", None, Cleared)}

Clocked == {1, 2}
AnyCall == Permutations(Calls)
=============================================================================
