SPECIFICATION Spec
CONSTANTS
    FreshFormats <- BoundaryFormats
    Formats <- ReuseFormats
    NestedFormats <- SmallFormats
    Signatures = {78}
    MaxDepth = 2
    MaxItems = 2
INVARIANT LoadsAll
