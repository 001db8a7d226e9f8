SPECIFICATION Spec
CONSTANTS
    offer = offer
    welcome = welcome
    p1 = p1
    p2 = p2
    r1 = r1
    r2 = r2
    None = None
    Actions = {offer, welcome}
    Automations = {welcome}
    Autopilot = {offer, welcome}
    Proposals = {p1, p2}
    Reviews = {r1, r2}
    MaxDecisions = 2
    MaxFaults = 1
SYMMETRY Symmetry
CHECK_DEADLOCK FALSE
INVARIANTS
    TypeOK
    OneCampaignPerApproval
    CampaignOfOnePayload

    
