CONSTANTS
    Nodes <- MCNodes
    Calls <- TokenCalls
    Contents <- MCContents
    SizeMax = 15
    ConstAnno = "node_type"
SPECIFICATION Spec
INVARIANTS EveryPlanIsRight
