-------------------------- MODULE MCSessionBuffers --------------------------
(* Model values for checking SessionBuffers with TLC: the largest body, one *)
(* too big, and negative sizes: a header, and more, before it.              *)
EXTENDS SessionBuffers

MCBodies == {-3, -2, 1, 2}
=============================================================================
