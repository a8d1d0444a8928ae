SPECIFICATION Spec
CONSTANTS
    Sessions = {s1, s2}
    Instruments = {btc}
    Caps = {1, 2}
    PHASE4_SMALL_FUND_MAX_NOTIONAL_CAP = 2
    Duration = 1
    Campaigns <- MCCampaigns
SYMMETRY Symmetry
INVARIANTS
    TypeOK
    WindowCoversOrder
    ApprovedBeforeRestart
    EvidenceChain
    EvidenceIsCurrent
