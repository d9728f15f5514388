----------------------------- MODULE MCIncident ------------------------------
(***************************************************************************)
(* Two organizations with one merchant each; a worker sweeps both and the  *)
(* demo the first.  A slice of the first merchant's outage is more than    *)
(* half the cap of its live policy, so it takes an approval; the second's  *)
(* is within half of the default cap.                                      *)
(***************************************************************************)
EXTENDS Incident

MCOrgOf  == [m \in Merchants |-> IF m = "kirana" THEN "org1" ELSE "org2"]
MCScope  == [s \in Sweepers |-> IF s = "worker" THEN <<"org1", "org2">> ELSE <<"org1">>]
MCMode   == [m \in Merchants |-> BoundedAutopilot]
MCTotal  == [m \in Merchants |-> 8]

MCBest   == [m \in Merchants |-> IF m = "kirana" THEN {"payment_link"}
                                             ELSE {"retry_burst"}]
MCMaxOperations == [m \in Merchants |-> IF m = "kirana" THEN 2 ELSE 0]

Row(human, version, status, rules) ==
    [merchant |-> "kirana", human |-> human, version |-> version, status |-> status, rules |-> rules]

MCPolicies ==
    { Row(7, 1, "archived", [amount_cap |-> 1]),
      Row(7, 2, "live", [amount_cap |-> 3]),
      Row(10, 1, "live", [amount_cap |-> 100]) }

==============================================================================
