SPECIFICATION Spec
CONSTANTS
    Services = {"web", "db"}
    Networks = {"net"}
    Overlay = {"net"}
    AutoSubnet = AutoSubnet
    Kind <- MCKind
    Policy <- MCPolicy
    DependsOn <- MCDepends
    HostPorts <- MCPorts
    Subnet <- MCSubnet
    Probed = {"web"}
    Retries = 1
    MaxFails = 1
    MaxPid = 3
    SubnetCount = 2
    HostLimit = 4
    Hosts <- MCHosts
    MaxUps = 1
INVARIANTS RunsSound AddressesSound LinksSound DownSound
CHECK_DEADLOCK FALSE
