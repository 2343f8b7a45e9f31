SPECIFICATION Spec
CONSTANTS
    Calculation = {"sum"}
    Closable = {"sum"}
    Title = {"t1", "t2"}
    r1 = r1
    r2 = r2
    Request <- MCRequest
    MaxVersion = 2
INVARIANT PublishedIsExact
