--------------------------- MODULE MCRemoteBitbang ---------------------------
(* Clients that clock a 1 through the TAP, from TCK at 1 as rbs_init has it. *)
EXTENDS RemoteBitbang

TwoLevels == {<<0, 0, 1>>, <<1, 0, 1>>}
=============================================================================
