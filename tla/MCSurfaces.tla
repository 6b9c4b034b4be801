----------------------------- MODULE MCSurfaces -----------------------------
(* What a user asks of a project, in one run: the context pack, the upkeep     *)
(* commands, the profile, the workflow surfaces and the interlinks.  They      *)
(* share no state; a behaviour is one of theirs, and the others rest.          *)
EXTENDS MCContext, MCProject, MCProfile, MCActions, MCLinks

VARIABLE part

ContextRests == asked = Plain /\ stage = "idle" /\ pack = <<>> /\ trimmed = {}

ProjectRests == ProjectInit /\ focus = "none"

ProfileRests ==
    /\ saved = None /\ edits = MaxEdits /\ verdict = [kind |-> "none"]
    /\ folder = [d \in AllDirs |-> "missing"] /\ notes = Fresh /\ links = {} /\ health = Sound

ActionsRest ==
    /\ activePack = "q1" /\ config = [status |-> "absent"] /\ record = [r \in RecordIds |-> Unset]
    /\ call = [c \in Callers |-> NoCall] /\ ownerEdits = 0 /\ proven = {}

SurfacesInit ==
    \/ part = "context" /\ ContextInit /\ ProjectRests /\ ProfileRests /\ ActionsRest /\ LinksInit
    \/ part = "project" /\ ContextRests /\ MCInit /\ ProfileRests /\ ActionsRest /\ LinksInit
    \/ part = "profile" /\ ContextRests /\ ProjectRests /\ ProfileInit /\ ActionsRest /\ LinksInit
    \/ part = "actions" /\ ContextRests /\ ProjectRests /\ ProfileRests /\ ActionsInit /\ LinksInit
    \/ part = "links" /\ ContextRests /\ ProjectRests /\ ProfileRests /\ ActionsRest /\ LinksInit

SurfacesNext ==
    /\ UNCHANGED part
    /\ \/ part = "context" /\ ContextNext
          /\ UNCHANGED <<projectVars, focus, profileVars, actionsVars, linksVars>>
       \/ part = "project" /\ MCNext
          /\ UNCHANGED <<contextVars, profileVars, actionsVars, linksVars>>
       \/ part = "profile" /\ ProfileNext
          /\ UNCHANGED <<contextVars, projectVars, focus, actionsVars, linksVars>>
       \/ part = "actions" /\ ActionsNext
          /\ UNCHANGED <<contextVars, projectVars, focus, profileVars, linksVars>>
       \/ part = "links" /\ LinksNext
          /\ UNCHANGED <<contextVars, projectVars, focus, profileVars, actionsVars>>

SurfacesSpec ==
    SurfacesInit
    /\ [][SurfacesNext]_<<part, contextVars, projectVars, focus, profileVars, actionsVars, linksVars>>
=============================================================================
