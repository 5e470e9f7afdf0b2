SPECIFICATION Spec
CONSTANTS
    None = None
    Arch = "amd64"
    ArchOf <- MCArchOf
    ConfigPlatform <- MCConfigPlatform
    Rank <- MCRank
    Payloads <- MCPayloads
    Histories <- SignedHistories
    MaxFailures = 0
INVARIANT
    SignaturesByDigest
