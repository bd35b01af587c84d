---------------------------------- MODULE MCStp ----------------------------------
(* The four switches of 06-stp/four_node_ring.py.                                 *)
EXTENDS Stp

Ring == {<<<<1, 1>>, <<2, 1>>>>, <<<<1, 2>>, <<3, 1>>>>,
         <<<<2, 2>>, <<4, 1>>>>, <<<<3, 2>>, <<4, 2>>>>}
================================================================================
