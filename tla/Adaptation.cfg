SPECIFICATION Spec
CONSTANTS
    Service = {"s", "t"}
    Default = "d"
    Builtin <- MCBuiltin
    Env <- MCEnv
    File <- MCFile
    MaxItems = 2
    Stripped <- StripFields
    Skeletal <- MakeSkeleton
    NodesOf <- Nodes
    Discoverable = {"t"}
    Public = "public"
    Upstream <- MCUpstream
    Accept <- MCAccept
    Mode = {"full", "compression", "removal", "combined", "adaptive"}
INVARIANTS
    OneDocument
    OneConfiguration
    OnlyOptionalRemoved
    ChangesMarked
    CodingPermitted
