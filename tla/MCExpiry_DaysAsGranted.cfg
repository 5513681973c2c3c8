SPECIFICATION ExpirySpec
CONSTANTS
    Servers = {s1}
    Hosts = {h1}
    VmIds <- MCVmIds
    VmidOf <- MCVmidOf
    PlanCpu = 1
    PlanDisk = 2
    PlanDays = 1
    None = None
    Ops = {o1}
    Kinds <- MCExtend
    AddCpu = 1
    AddDisk = 1
    MoreDays = 1
    Serial = TRUE
    Warning = 1
    AgeCap = 3
INVARIANTS
    DaysAsGranted
