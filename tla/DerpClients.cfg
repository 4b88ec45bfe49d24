CONSTANTS
  nodeKey = nodeKey
  peerKey = peerKey
  c1 = c1
  c2 = c2
  c3 = c3
  m = m
  Keys = {nodeKey, peerKey}
  Conns = {c1, c2, c3, m}
  KeyOf <- MCKeyOf
  MeshConns = {m}
  Forwarders = {f, g}
  Remote = {nodeKey}
  Dests = {peerKey}
  Policies = {"lastWriterIsActive", "disableFighters"}
  IdxMod = 256
SPECIFICATION Spec
SYMMETRY Duplicates
INVARIANTS RegistrySound GaugesExact PeersAware
