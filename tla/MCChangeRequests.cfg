SPECIFICATION Spec
CONSTANTS
    Users = {ann, bob}
    NoUser = none
    Clients = {c1, c2}
    Organisations <- MCOrganisations
    Resolutions <- MCResolutions
    ReviewDecisions <- MCReviewDecisions
    MaxAudit = 4
    MaxReorganised = 1
SYMMETRY MCSymmetry
CHECK_DEADLOCK FALSE
INVARIANTS
    SavesAreFresh
    DecisionIsOnRecord
PROPERTY
    FinalIsLeftByReopenIfFresh
