\* A port of which only the cold connect or the grant echo is seen.
SPECIFICATION RoleSpec
CONSTANTS
  m10 = m10
  m20 = m20
  b10 = b10
  console = console
  stagebox = stagebox
  Ports <- MCPorts
  Masters = {m10, m20}
  Mac <- MCMac
  Vlan <- MCVlan
  PeerOf <- MCPeerOf
  Channels <- MCChannels
  OuterTags = {20, 30}
  None = None
  MaxSeen = 2
INVARIANT
  GrantScoresNothing
