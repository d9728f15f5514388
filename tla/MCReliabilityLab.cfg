CONSTANTS
    None = None
    Workers = {w1, w2}
    Orgs = {orgA, orgB}
    RunIds = {a, b, c}
    Keep = 2
    IsProd = FALSE

SYMMETRY Symmetry

SPECIFICATION LabSpec

INVARIANTS
    GateIsOwnEvidence

PROPERTY EvidenceIsKept

CHECK_DEADLOCK FALSE
