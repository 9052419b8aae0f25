SPECIFICATION Spec
CONSTANTS
    ElemId = {e1, e2, e3}
    Key = {k1}
    Val = {1}
    OpVersion = {1, 2}
    Patch <- MCPatch
    IdList <- MCIdList
    Documents <- MCDocuments
    MaxVersion = 2
SYMMETRY Symmetry
INVARIANTS
    TypeOK
    UniqueIds
    RestartTransparent
    ReorderAsLoop
PROPERTY
    ImplementsElementMap
