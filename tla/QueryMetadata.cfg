CONSTANTS
    Nodes <- MCNodes
    Calls <- MetadataCalls
    Contents <- MCContents
    SizeMax = 15
    ConstAnno = "node_type"
SPECIFICATION Spec
INVARIANTS EveryPlanIsRight
