-------------------------- MODULE MC_PeerDirectory --------------------------
(* Two BLE keys and three nodes, each interchangeable.                     *)
EXTENDS PeerDirectory

DirectorySymmetry == Permutations(Ble) \cup Permutations(Node)
=============================================================================
