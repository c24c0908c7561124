SPECIFICATION ReportsSpec
CONSTANTS
    p = p
    q = q
    c1 = c1
    c2 = c2
    c3 = c3
    s1 = s1
    s2 = s2
    a = a
    b = b
    i1 = i1
    i2 = i2
    i3 = i3
    i4 = i4
    kad = kad
    ping = ping
    NoConn = NoConn
    UnknownProtocol = UnknownProtocol
    Peers <- MCPeers
    Conns <- MCConns
    Streams <- MCStreams
    Addresses <- MCAddresses
    PeerOf <- MCPeerOf
    ConnOf <- MCConnOf
    AddressOf <- MCAddressOf
    Directions <- MCDirections
    DirectionOf <- MCDirectionOf
    Protocols <- MCProtocols
    ProtocolOf <- MCProtocolOf
    Ids <- MCIds
    ObjectOf <- MCObjectOf
    MuxedOf <- MCMuxedOf
    LinkOf <- MCLinkOf
    MaxFinalized = 1
    MaxStats = 1
    KeepStats = 0
    MaxMeta = 1
    MayBeUnheard = {c3, s1}
    MayBeSilent = {c1}
    KnownAtOnce = {s2}
    MaxCloseEvents = 1
CONSTRAINT FewObjects
INVARIANT StreamReportAgrees
INVARIANT ConnectionReportAgrees
