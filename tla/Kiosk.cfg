SPECIFICATION SpecKiosk
CONSTANTS
  ProxyConf = {p}
  NoProxy = NoProxy
INVARIANTS
  ProxyIsKnown
PROPERTIES
  PageComesBack
  PortalIsOffered
