SPECIFICATION Spec
CONSTANTS
    p = p
    q = q
    c1 = c1
    c2 = c2
    c3 = c3
    s1 = s1
    s2 = s2
    s3 = s3
    a = a
    b = b
    Peers <- MCPeers
    Conns <- MCConns
    Streams <- MCStreams
    Addresses <- MCAddresses
    PeerOf <- MCPeerOf
    ConnOf <- MCConnOf
    AddressOf <- MCAddressOf
    MaxFinalized = 1
    MaxStats = 1
    KeepStats = 0
    MaxCloseEvents = 1
INVARIANT CountsExact
INVARIANT OpenStreamsTracked
PROPERTY FlaggedStreamsOpen
PROPERTY SweepsReconcile
