----------------------------- MODULE MCProject -----------------------------
EXTENDS Project

CONSTANT p1

\* Two sources that share concept 1 until one of them changes.
ExtractValues == [c \in Origins \X Versions |->
    IF c = <<1, 1>> THEN {1} ELSE IF c = <<2, 1>> THEN {1, 2} ELSE IF c = <<1, 2>> THEN {2} ELSE {1}]
ServedValues == {<<1, 1, 1>>, <<1, 1, 2>>, <<1, 2, 1>>, <<2, 1, 1>>}

(* A behaviour keeps to one part of the project's life, so that it can be long:
   ingests that overlap; one author who compiles, reviews and repairs; or
   everything, in few commands. *)
VARIABLE focus
MCInit == ProjectInit /\ focus \in {"ingest", "repair", "all"}
Within ==
    /\ focus' = focus
    /\ focus = "ingest" => db' = db /\ pending' = pending /\ lintCache' = lintCache /\ moves' <= 6
    /\ focus = "repair" =>
         /\ lintCache' = lintCache /\ bak' = bak
         /\ \A p \in Ingesters : ing'[p] # Absent => p = p1 /\ ing'[p].doc.title = 1
    /\ focus # "all" => \A p \in Ingesters : ing'[p] # Absent => ing'[p].then = "nothing"
    /\ focus = "all" => moves' <= 3 /\ \A p \in Ingesters : ing'[p] # Absent => p = p1
MCNext == ProjectNext /\ Within
MCSpec == MCInit /\ [][MCNext]_<<projectVars, focus>>
=============================================================================
