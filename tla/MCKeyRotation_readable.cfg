CONSTANTS
    k1 = k1
    k2 = k2
    v1 = v1
    v2 = v2
    w1 = w1
    Keys <- MCKeys
    Values <- MCValues
    Writers <- MCOneWriter
    Absent = Absent
    NoPut = NoPut
    MaxGen = 1
SPECIFICATION Spec
SYMMETRY MCSymmetry
INVARIANTS
    RotationKeepsDataReadable
