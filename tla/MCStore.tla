-------------------------------- MODULE MCStore --------------------------------
(***************************************************************************)
(* A small instance of Store: two processes, one after another under each  *)
(* name; no cassette at first, or one with a turn and a contract.          *)
(***************************************************************************)
EXTENDS Store

CONSTANTS p1, p2, c1

MCInitFiles == {NoFile, [turns |-> <<p1>>, expect |-> c1]}
===============================================================================
