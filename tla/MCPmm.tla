------------------------------- MODULE MCPmm -------------------------------
(* Pmm and its refinement of PmmSpec on a small instance: zones of three frames
   and of one that adjoin and may be added in either order.  As in platform.c the
   second mapping covers the beginning of the first; neither reaches the frame of
   the zone "high". *)
EXTENDS PmmRefinement

MCBase == [z \in Zones |-> IF z = "low" THEN 1 ELSE 4]
MCFrames == [z \in Zones |-> IF z = "low" THEN 3 ELSE 1]
MCMappings == <<[phys |-> 0, virt |-> 10, size |-> 4], [phys |-> 0, virt |-> 50, size |-> 2]>>
=============================================================================
