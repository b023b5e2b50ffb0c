CONSTANTS
    Nodes <- MCNodes
    Calls <- OddCalls
    Contents <- MCContents
    SizeMax = 15
    ConstAnno = "node_type"
SPECIFICATION FairSpec
PROPERTIES FindEndsWithAnyTasks
