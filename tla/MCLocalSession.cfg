\* two processes that share the file and one that does not, and as many states as
\* it takes for two servers to refresh the same one
SPECIFICATION Spec
CONSTANTS
    Processes = {p1, p2, p3}
    Ephemeral = {p3}
    MaxTokens = 3
    None = None
SYMMETRY Symmetry
INVARIANTS
    
    CarriedOutOnce
    LocalInv
