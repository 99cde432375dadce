SPECIFICATION frSpec
CONSTANTS
    RuleLists <- MCRuleLists
    Flows <- MCFlows
INVARIANTS
    ProxyAll
