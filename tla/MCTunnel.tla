------------------------------ MODULE MCTunnel ------------------------------
(***************************************************************************)
(* Instances of the tunnel's way to the client.                            *)
(***************************************************************************)
EXTENDS Tunnel, TLC

Changes == {{}, {"client_inner_ip"}}
Behind == -1

Symmetry == Permutations(Activations)
=============================================================================
