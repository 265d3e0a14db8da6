\* Two workers, two tenants with slugs of their own; once, an operation dies
\* half-way or a second one is started beside it on the same tenant.
CONSTANTS
    Domains = {d1, d2}
    SlugOf <- DistinctSlugs
    Backed = {d1}
    SshPorts <- TwoPorts
    Workers = {w1, w2}
    MaxUpsets = 1
    NoDomain = NoDomain
    NoPort = NoPort
SYMMETRY WorkerSymmetry
SPECIFICATION Spec
INVARIANTS
    JailsAreLive
    LiveIsWhole
    PortsAgree
    DestroyNeverRefused
PROPERTIES
    RowOutlivesResources
    ImplementsDirectory
    TablesFollowRegistry
