SPECIFICATION IntakeSpec
CONSTANTS
    Requests = {r1, r2, r3}
    None = None
    basic = basic
    default = default
    pve = pve
    Accounts = {alice, bob}
    Plans <- MCPlans
    Hosts <- MCHosts
    Upgrades <- MCNobody
    Specs <- MCSpecs
    DefaultPlans <- MCPlans
    DefaultHost = default
    DefaultSpec = "built in"
    Offers <- MCOffers
SYMMETRY MCSymmetry
INVARIANTS
    IntakeTypeOK
    UncontestedKeepServers
    AdminEntriesKept
    DefaultPlansReady
    IntakeInv
