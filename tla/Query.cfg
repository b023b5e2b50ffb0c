CONSTANTS
    Nodes <- MCNodes
    Calls <- MCCalls
    Contents <- MCContents
    SizeMax = 15
    ConstAnno = "node_type"
SPECIFICATION FairSpec
INVARIANTS PositionsNumberNodes AnswersAreTheQuery OneParallelJoin PageIsRight
PROPERTIES FindEnds
