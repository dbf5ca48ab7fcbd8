------------------------- MODULE MCRandomGenerators -------------------------
(* Four sources, one of which runs two commands.                           *)
EXTENDS RandomGenerators

MCSources == <<"device", "unix", "ftw", "timer">>
=============================================================================
