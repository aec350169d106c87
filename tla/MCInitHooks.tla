----------------------------- MODULE MCInitHooks -----------------------------
(* Five hooks: two that hook_cmp cannot tell apart, one of the same stage with
   another priority, one after them, and one of INIT_STAGE_NONE, which
   REGISTER_INIT_HOOK accepts. *)
EXTENDS InitHooks

MCHooks == {"none", "con1", "con2", "con3", "heap"}

MCStageOf == [h \in MCHooks |-> CASE h = "none" -> 0
                                  [] h = "heap" -> 4
                                  [] OTHER -> 2]

MCPriorityOf == [h \in MCHooks |-> IF h \in {"none", "con3"} THEN 2 ELSE 1]
=============================================================================
