CONSTANTS
    U32 = 65536
    Iface <- MCIface
    IfaceIps <- MCIfaceIps
    IfaceMac <- MCIfaceMac
    Mtu = 1500
    Decisions <- MCDecisions
    Workers = 2
    InitialFiles <- MCInitialFiles
    Yaml <- MCYaml
    SocketArg = FALSE
    Datagrams <- MCDatagrams
    LateDatagrams <- MCLateDatagrams
    MaxReady = 1
    MaxFailures = 1
    MaxCrashes = 1
    MaxEdits = 1
    MaxOthers = 1
SPECIFICATION Spec
INVARIANTS SocketReachable ConfigHonoured
    ReplyReachesClient ReplyReadable FrameAccepted
PROPERTIES DatagramsTaken ListenerSurvives Recovers
