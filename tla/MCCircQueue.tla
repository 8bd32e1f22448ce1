----------------------------- MODULE MCCircQueue -----------------------------
(* A ring of four slots: three elements fit, a buffer of four never does.  *)
EXTENDS CircQueue

MCValue   == {1, 2}
MCBuffers == {<<>>, <<1, 2>>, <<2, 1, 1, 2>>}
MCWants   == {0, 1, 4}
=============================================================================
