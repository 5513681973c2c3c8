SPECIFICATION OpsSpec
CONSTANTS
    Servers = {s1}
    Hosts = {h1}
    VmIds <- MCVmIds
    VmidOf <- MCVmidOf
    PlanCpu = 1
    PlanDisk = 2
    PlanDays = 1
    None = None
    Ops = {o1, o2}
    Kinds <- MCAllKinds
    AddCpu = 1
    AddDisk = 1
    MoreDays = 1
    Serial = FALSE
SYMMETRY MCSymmetry
INVARIANTS
    OpsTypeOK
    OrderedSizesKept
    OpsInv
