SPECIFICATION Spec
CONSTANTS
    erx = erx
    etx = etx
    phy = phy
    tcpip = tcpip
    app = app
    Nobody = Nobody
    Stack <- MCStack
    priority <- MCPriority
    MailMax = 1
    ETH_RXBUFNB = 2
    ETH_TXBUFNB = 1
    Loads <- MCLoads
    RT_SEM_VALUE_MAX = 2
    Uses = {"ethernet"}
PROPERTY LinkDownIsSeen
