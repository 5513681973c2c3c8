SPECIFICATION Spec
CONSTANTS
    Servers = {s1, s2}
    Hosts = {h1}
    VmIds <- MCVmIds
    VmidOf <- MCVmidOf
    PlanCpu = 1
    PlanDisk = 2
    PlanDays = 1
    None = None
PROPERTIES
    RequestsSettle
    PromiseKept
