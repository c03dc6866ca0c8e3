SPECIFICATION Spec
CONSTANTS
    a1 = a1
    a2 = a2
    b1 = b1
    ta = ta
    tb = tb
    Jobs <- MCJobs
    Platform = platform
    Estimate = 2
    Costs = {1, 2}
    Tenants <- MCTenants
    TenantOf <- MCTenantOf
    Budgets <- MCBudgets
    CompiledCap = 2
    PlatformCap = 4
CHECK_DEADLOCK FALSE
INVARIANTS
    HoldsCountedButForMinted
    SettledIsLedgered
PROPERTIES
    CalledIsNeverRefunded
