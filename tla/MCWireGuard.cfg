SPECIFICATION Spec
CONSTANTS
    c1 = c1
    c2 = c2
    c3 = c3
    addr1 = addr1
    addr2 = addr2
    Blank = Blank
    NoLink = NoLink
    NoInterface = NoInterface
    Caller <- MCCaller
    Address <- MCAddress
SYMMETRY CallerSymmetry
INVARIANTS
    WgTypeOK
    HandleMeansOwnLink
    ResidueIsBare
    StatusNeverContradicts
