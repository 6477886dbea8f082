CONSTANTS
    U32 = 65536
    Iface <- MCIface
    IfaceIps <- MCIfaceIps
    IfaceMac <- MCIfaceMac
    Mtu = 1500
    Decisions <- MCDecisions
    Workers = 1
    InitialFiles <- MCInitialFiles
    Yaml <- MCYaml
    SocketArg = FALSE
    Datagrams = {}
    LateDatagrams = {}
    MaxReady = 1
    MaxFailures = 0
    MaxCrashes = 0
    MaxEdits = 0
    MaxOthers = 0
SPECIFICATION GenerousSpec
PROPERTY TasksProgress
CHECK_DEADLOCK FALSE
