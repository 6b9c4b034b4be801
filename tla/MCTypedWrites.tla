--------------------------- MODULE MCTypedWrites ---------------------------
(* The writes an owner answers for, in one run: the audited mutations and     *)
(* their event store, the workflow runs, what waits for review, and the path  *)
(* of a page write.  They share no state; a behaviour is one of theirs, and   *)
(* the others rest.                                                           *)
EXTENDS MCMutations, MCWorkflow, MCStaging, PageWrites

VARIABLE part

WritesInit ==
    /\ part \in {"audit", "workflow", "staging", "pages"}
    /\ AuditInit /\ WorkflowInit /\ StagingInit /\ PageInit
    /\ part # "audit" => other = [e \in Endpoints |-> Initial]
    /\ part # "workflow" => profile = d1
    /\ part # "staging" => queue = <<>>

WritesNext ==
    /\ UNCHANGED part
    /\ \/ part = "audit" /\ AuditNext /\ UNCHANGED <<workflowVars, stagingVars, pageVars>>
       \/ part = "workflow" /\ WorkflowNext /\ UNCHANGED <<auditVars, stagingVars, pageVars>>
       \/ part = "staging" /\ StagingNext /\ UNCHANGED <<auditVars, workflowVars, pageVars>>
       \/ part = "pages" /\ PageNext /\ UNCHANGED <<auditVars, workflowVars, stagingVars>>

WritesSpec == WritesInit /\ [][WritesNext]_<<part, auditVars, workflowVars, stagingVars, pageVars>>
=============================================================================
