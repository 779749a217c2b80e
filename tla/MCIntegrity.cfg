SPECIFICATION Spec
CONSTANTS
    Components = {gateway, worker}
    Versions = {v1, v2}
    Roots = {r1, r2}
    Digests = {d1}
    PolicyHashes = {h1}
    AgeInputs = {0, 60}
    DefaultAge = 3600
    SeqInputs = {0, 1, 2}
    Tokens = {unset}
    UnsetToken = unset
    NoVal = NoVal
SYMMETRY MCSymmetry
INVARIANTS
    IndexesAgree
    TrustedAnswers
PROPERTIES
    ReleaseHistory
    FailClosed
    NoSeqCommittedTwice
