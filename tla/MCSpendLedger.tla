--------------------------- MODULE MCSpendLedger ---------------------------
(* Two tenants, two attempts for the first and one for the second, so that a    *)
(* refusal on either counter can meet a hold of the same tenant and of another. *)
EXTENDS SpendLedger

CONSTANTS a1, a2, b1, ta, tb

MCJobs == {a1, a2, b1}
MCTenants == {ta, tb}
MCTenantOf == [j \in MCJobs |-> IF j = b1 THEN tb ELSE ta]
MCBudgets == {0, 3}

\* Three attempts of one tenant, for the refusal that erodes another attempt's hold.
OneTenant == {ta}
OneTenantOf == [j \in MCJobs |-> ta]
OneBudget == {5}
=============================================================================
