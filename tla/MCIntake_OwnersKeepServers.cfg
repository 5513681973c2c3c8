SPECIFICATION IntakeSpec
CONSTANTS
    Requests = {r1, r2}
    None = None
    basic = basic
    default = default
    pve = pve
    Accounts = {alice}
    Plans <- MCPlans
    Hosts <- MCHosts
    Upgrades <- MCNobody
    Specs <- MCSpecs
    DefaultPlans <- MCPlans
    DefaultHost = default
    DefaultSpec = "built in"
    Offers <- MCOffers
INVARIANTS
    OwnersKeepServers
