SPECIFICATION FairSpec
CONSTANTS
    a1 = a1
    a2 = a2
    b1 = b1
    ta = ta
    tb = tb
    Jobs <- MCJobs
    Platform = platform
    Estimate = 2
    Costs = {1, 2}
    Tenants <- OneTenant
    TenantOf <- OneTenantOf
    Budgets <- OneBudget
    CompiledCap = 9
    PlatformCap = 9
PROPERTIES
    AbandonedHoldReconciled
CHECK_DEADLOCK FALSE
