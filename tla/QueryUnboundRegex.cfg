CONSTANTS
    Nodes <- MCNodes
    Calls <- UnboundCalls
    Contents <- MCContents
    SizeMax = 15
    ConstAnno = "node_type"
SPECIFICATION Spec
INVARIANTS EveryPlanIsRight
