CONSTANTS
    Nodes <- MCNodes
    Calls <- TriangleCalls
    Contents <- MCContents
    SizeMax = 15
    ConstAnno = "node_type"
SPECIFICATION Spec
INVARIANTS NotTheSameMatch
