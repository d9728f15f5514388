SPECIFICATION Spec
CONSTANTS
    Orgs = {"org1", "org2"}
    Scope <- MCScope
    Merchants = {"kirana", "travel"}
    OrgOf <- MCOrgOf
    Mode <- MCMode
    Total <- MCTotal
    Best <- MCBest
    Asked = {"notify_customer"}
    Policies <- MCPolicies
    Hours = {14, 22}
    Outcomes = {"FAILED_RETRYABLE"}
    Sweepers = {"worker", "demo"}
    Operators = {"asha", "ravi"}
    MaxPerMerchant = 1
    MaxOperations <- MCMaxOperations
INVARIANT  DraftIsNotLaxer
PROPERTY AutopilotWithinRules OutageBecomesIncident
CHECK_DEADLOCK FALSE
