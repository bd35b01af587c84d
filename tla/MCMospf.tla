--------------------------------- MODULE MCMospf ---------------------------------
(* Three routers in a ring: one link may fail and they are still connected.      *)
EXTENDS Mospf

Ring == {{1, 2}, {1, 3}, {2, 3}}
================================================================================
