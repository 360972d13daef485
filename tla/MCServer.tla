------------------------------ MODULE MCServer ------------------------------
(* Server on two listeners; connections are interchangeable.               *)
EXTENDS Server, TLC

Conns == Permutations(Conn)
=============================================================================
