SPECIFICATION Spec
CONSTANTS
    None = None
    Arch = "amd64"
    ArchOf <- MCArchOf
    ConfigPlatform <- MCConfigPlatform
    Rank <- MCRank
    Payloads <- MCPayloads
    Histories <- MCHistories
    MaxFailures = 2
INVARIANTS
    DeployedAsListed
    IndexesSound
    Trusted
PROPERTY
    Converges
