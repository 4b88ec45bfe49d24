--------------------------- MODULE MCDerpClients ---------------------------
(* Three connections of one key, which two forwarders offer as well, and a *)
(* mesh peer that watches.                                                 *)
EXTENDS DerpClients, TLC

CONSTANTS nodeKey, peerKey, c1, c2, c3, m

MCKeyOf == (c1 :> nodeKey) @@ (c2 :> nodeKey) @@ (c3 :> nodeKey) @@ (m :> peerKey)

Duplicates == Permutations({c1, c2, c3}) \cup Permutations(Forwarders)
=============================================================================
