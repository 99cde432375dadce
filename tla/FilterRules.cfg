SPECIFICATION frSpec
CONSTANTS
    RuleLists <- MCRuleLists
    Flows <- MCFlows
INVARIANTS
    ExemptNeverRedirected
    RedirectsTheRest
