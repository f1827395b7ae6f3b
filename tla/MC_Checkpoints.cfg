\* A message captured, others after it, one edited; edits and failures anywhere.
SPECIFICATION Spec
CONSTANTS
    m1 = m1
    m2 = m2
    m3 = m3
    file = file
    inner = inner
    other = other
    c1 = c1
    c2 = c2
    Link = Link
    Odd = Odd
    None = None
    Messages <- ThreeMessages
    Paths <- ThreePaths
    Under <- FileOrDirectory
    Contents <- TwoContents
    MaxEdits = 3
    MaxFaults = 2
SYMMETRY Alike
INVARIANTS RestoreIsExact AdvertisedIsWhole
CHECK_DEADLOCK FALSE
