---------------------------- MODULE MCNetChannel ----------------------------
(* Small instances of NetChannel: the sizes of what is sent. *)
EXTENDS NetChannel

Sizes0 == {0}
Sizes1 == {1}
Sizes12 == {1, 2}
Sizes23 == {2, 3}
Sizes14 == {1, 4}
Sizes02 == {0, 2}
NoSizes == {}
=============================================================================
