SPECIFICATION ToolkitSpec
CONSTANTS
    full = full
    other = other
    late = late
    lean = lean
    p1 = p1
    h1 = h1
    u1 = u1
    u2 = u2
    Unset = Unset
    NoRedis = NoRedis
    Inputs <- MCInputs
    PartOf <- MCPartOf
    CacheOf <- MCCacheOf
    Prefixes <- MCPrefixes
    Holders <- MCHolders
    PrefixOf <- MCPrefixOf
    Urls <- MCUrls
    MaxMade = 4
    s1 = s1
    s2 = s2
    s3 = s3
    N = 5
    BatchConfigs <- MCBatchConfigs
    Lengths = {0, 4}
    Policies <- MCPolicies
    Servers <- MCServers
    HasherOf <- MCHasherOf
    MaxTyped = 74
INVARIANTS OneConfiguration ClientOfConfig OneMemoryLevel HeldIsCurrent
INVARIANTS EachItemOnce CountsAddUp PoliciesAgree
PROPERTIES LoginsSettle
