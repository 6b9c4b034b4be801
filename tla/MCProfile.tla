----------------------------- MODULE MCProfile -----------------------------
EXTENDS Profile, TLC

Field(type) == [type |-> type, required |-> FALSE, enum |-> {}, range |-> "none", scope |-> Unscoped]
Req(rel, role, types, states, min) == [relation |-> rel, role |-> role, types |-> types, states |-> states, min |-> min]

Papers == [field |-> "status", initial |-> "draft", terminal |-> {"accepted"}, transitions |-> {<<"draft", "accepted">>},
           evidence |-> "accepted" :> {"score"}, relationReqs |-> "accepted" :> {Req("cites", "from", {"claim"}, {"held"}, 1)},
           artifactReqs |-> "accepted" :> {[field |-> "report", artifact |-> "report"]}]
Claims == [field |-> "status", initial |-> "open", terminal |-> {}, transitions |-> {<<"open", "held">>},
           evidence |-> NoEntries, relationReqs |-> "held" :> {Req("cites", "to", Unscoped, Unscoped, 1)},
           artifactReqs |-> NoEntries]

Paper == [directory |-> "wiki/papers", required |-> {"title"}, tiers |-> <<"title", "body">>, lifecycle |-> <<Papers>>,
          fields |-> "title" :> Field("string") @@ "score" :> Field("integer") @@ "report" :> Field("artifactRef")]
Claim == [directory |-> "wiki/claims", required |-> {"title"}, tiers |-> <<>>, lifecycle |-> <<Claims>>,
          fields |-> "title" :> Field("string") @@ "status" :> [Field("enum") EXCEPT !.enum = {"open", "held"}]]

Input(type) == [type |-> type, required |-> TRUE, default |-> "absent", types |-> {}]
Submit == [reserved |-> FALSE, workflow |-> "review", operation |-> "submit", gate |-> <<"agent", "ok">>, trustGate |-> <<>>,
           inputs |-> "runId" :> Input("string") @@ "entityType" :> Input("string") @@ "slug" :> Input("string")
                      @@ "body" :> Input("string")]
Stage(id) == [id |-> id, reads |-> {"paper"}, writes |-> {"paper"}, artifactWrites |-> {}, gate |-> <<"human", "ok">>, previous |-> {}]

Base == [inherits |-> FALSE, id |-> "research", entities |-> "paper" :> Paper @@ "claim" :> Claim,
         relations |-> "cites" :> [from |-> {"paper"}, to |-> {"claim"}, direction |-> "directed", attributes |-> {}, required |-> {}],
         artifacts |-> "report" :> [fileName |-> "json", contentKind |-> "json", maxBytes |-> "within", metadata |-> <<>>]
                       @@ "data" :> [fileName |-> "text", contentKind |-> "text", maxBytes |-> "within", metadata |-> <<>>],
         workflows |-> "review" :> <<Stage("one"), [Stage("two") EXCEPT !.artifactWrites = {"report"}]>>,
         actions |-> "submit" :> Submit, connectors |-> NoEntries]

(* One section of the pack at a time takes every value of a small set. *)
FieldCases ==
    {[Base EXCEPT !.entities["paper"].fields["score"] = [f EXCEPT !.required = r, !.range = g],
                  !.entities["paper"].required = q] :
        f \in {Field("integer"), Field("boolean"), Field("date"), Field("string[]"), Field("artifactRef"),
               Field("artifactRef[]"), [Field("artifactRef") EXCEPT !.scope = {"report"}],
               [Field("string") EXCEPT !.scope = {"report"}], Field("enum"), [Field("enum") EXCEPT !.enum = {"low", "high"}]},
        r \in BOOLEAN, g \in {"none", "ok", "empty", "infinite"},
        q \in {{"title"}, {"title", "report"}}}

LifecycleCases ==
    {[Base EXCEPT !.entities["paper"].lifecycle = <<[Papers EXCEPT !.initial = i, !.terminal = t, !.transitions = e,
                  !.evidence = v, !.relationReqs = IF Cardinality(DOMAIN v) = 2 THEN NoEntries ELSE @]>>,
                  !.entities["paper"].fields = fs] :
        i \in {"draft", "nowhere"}, t \in {{"accepted"}, {"draft"}, {}},
        e \in {{<<"draft", "accepted">>}, {<<"draft", "accepted">>, <<"accepted", "draft">>}},
        v \in {NoEntries, "accepted" :> {"score"}, "accepted" :> {"status"}, "nowhere" :> {"score"}, "accepted" :> {"report"},
               "draft" :> {"title"} @@ "accepted" :> {"title"}},
        fs \in {Paper.fields, "status" :> [Field("enum") EXCEPT !.enum = {"draft", "accepted"}] @@ Paper.fields,
                "status" :> [Field("enum") EXCEPT !.enum = {"draft"}] @@ Paper.fields,
                "status" :> Field("integer") @@ Paper.fields}}

RelationCases ==
    {[Base EXCEPT !.relations["cites"] = [from |-> f, to |-> t, direction |-> d, attributes |-> {"why"}, required |-> {"why"}],
                  !.entities["paper"].lifecycle = <<[Papers EXCEPT !.relationReqs = s :> {Req(n, r, ts, ss, m)}]>>] :
        f \in {{"paper"}, {"claim"}}, t \in {{"claim"}, {"paper", "claim"}, {"ghost"}}, d \in {"directed", "symmetric"},
        s \in {"accepted", "nowhere"}, n \in {"cites", "quotes"}, r \in {"from", "to"},
        ts \in {Unscoped, {"claim"}, {"paper"}}, ss \in {Unscoped, {"held"}, {"draft"}}, m \in 0..1}

ArtifactCases ==
    {[Base EXCEPT !.entities["paper"].lifecycle = <<[Papers EXCEPT !.artifactReqs = s :> q]>>,
                  !.entities["paper"].fields["report"] = f, !.artifacts["data"] = a] :
        s \in {"accepted", "nowhere"},
        q \in {{[field |-> "report", artifact |-> "data"]}, {[field |-> "score", artifact |-> "data"]},
               {[field |-> "report", artifact |-> "gone"]},
               {[field |-> "report", artifact |-> "data"], [field |-> "report", artifact |-> "report"]}},
        f \in {Field("artifactRef"), [Field("artifactRef") EXCEPT !.scope = {"report"}], Field("artifactRef[]")},
        a \in [fileName : {"json"}, contentKind : {"json", "text"}, maxBytes : {"within", "over"}, metadata : {<<>>, <<"string">>, <<"artifactRef">>}]}

ActionCases ==
    {[Base EXCEPT !.actions["submit"] = [Submit EXCEPT !.operation = o, !.gate = g, !.trustGate = u, !.reserved = x,
                  !.inputs = ns]] :
        o \in {"submit", "gate", "advance", "status", "start"}, g \in {<<"agent", "ok">>, <<>>, <<"trust", "ok">>},
        u \in {<<>>, <<"trust", "ok">>}, x \in BOOLEAN,
        ns \in {Submit.inputs, "runId" :> Input("string"), "runId" :> Input("number"), NoEntries,
                "runId" :> [Input("string") EXCEPT !.required = FALSE], "runId" :> [Input("string") EXCEPT !.default = "good"],
                [Submit.inputs EXCEPT !["slug"] = Input("number")],
                "artifactType" :> Input("string") @@ Submit.inputs,
                "runId" :> Input("string") @@ "who" :> [Input("entityRef") EXCEPT !.types = {"claim"}],
                "runId" :> Input("string") @@ "who" :> [Input("entityRef") EXCEPT !.types = {"ghost"}]}}

OtherCases ==
    {[Base EXCEPT !.entities["paper"].required = q, !.entities["paper"].tiers = c, !.relations["cites"].required = w] :
        q \in {{"title"}, {"nowhere"}}, c \in {<<"body", "title">>, <<"body", "body">>, <<"score", "nowhere">>},
        w \in {{}, {"how"}}}
    \cup {[Base EXCEPT !.workflows["review"][2] = [Stage(i) EXCEPT !.gate = g, !.writes = w, !.previous = {q}],
                  !.inherits = h, !.id = n] :
        i \in {"one", "two"}, g \in {<<>>, <<"trust", "ok">>, <<"other", "ok">>}, w \in {{}, {"paper"}, {"ghost"}},
        q \in {"old", "one"}, h \in BOOLEAN, n \in {"research", "default"}}
    \cup {[Base EXCEPT !.connectors = "web" :> [registered |-> r, entity |-> e, fields |-> "t" :> f, emitted |-> {"t"}, content |-> c]] :
        r \in BOOLEAN, e \in {"paper", "ghost"}, f \in {"title", "nowhere"}, c \in {"", "t", "u"}}

Refless == {[Base EXCEPT !.artifacts = NoEntries, !.workflows["review"] = <<Stage("one")>>,
                        !.entities["paper"].lifecycle = <<[Papers EXCEPT !.artifactReqs = NoEntries]>>,
                        !.entities["paper"].fields["report"] = [Field(f) EXCEPT !.required = r]] :
               f \in RefTypes, r \in BOOLEAN}

Cases == Refless \cup FieldCases \cup LifecycleCases \cup RelationCases \cup ArtifactCases \cup ActionCases \cup OtherCases

Other == {[Base EXCEPT !.entities["claim"].directory = "wiki/notes"],
          [Base EXCEPT !.entities["claim"].directory = "wiki/papers"],
          [Base EXCEPT !.entities["claim"].directory = "wiki/papers", !.entities["paper"].directory = "wiki/claims"],
          [Base EXCEPT !.entities = "paper" :> Paper, !.relations = NoEntries,
                       !.entities["paper"].lifecycle = <<[Papers EXCEPT !.relationReqs = NoEntries]>>]}
AllDiffs == Other \cup {Base}

Title == "title" :> <<"string", "s">>
Draft == "status" :> <<"string", "draft">> @@ Title
Held == "status" :> <<"string", "held">> @@ Title
Accepted == "status" :> <<"string", "accepted">> @@ "score" :> <<"number", "n">> @@ "report" :> <<"ref", "report">> @@ Title
PageOf(sl, f, r) == [slug |-> sl, front |-> f, readable |-> r]
SomeNotes == {PageOf("none", Held, TRUE), PageOf("same", Accepted, TRUE), PageOf("none", Draft, TRUE),
              PageOf("other", Held, TRUE), PageOf("none", Held, FALSE)}
AllDirs == {"wiki/papers", "wiki/claims", "wiki/notes", "wiki/concepts", "wiki/queries"}
Safe == {"wiki/papers", "wiki/claims", "wiki/notes"}
AllStems == {"a", "b", "X"}
SomeLinks == {[type |-> "cites", from |-> <<"paper", s>>, to |-> <<"claim", "a">>] : s \in {"a", "b"}}
Starters == "notes" :> "wiki/notes"

Fresh == [k \in AllDirs \X AllStems |-> None]
Seeded == [Fresh EXCEPT ![<<"wiki/papers", "a">>] = PageOf("same", Accepted, TRUE), ![<<"wiki/claims", "a">>] = PageOf("none", Held, TRUE),
                       ![<<"wiki/papers", "X">>] = PageOf("none", Draft, TRUE)]
Sound == [relations |-> "ok", events |-> "ok", artifacts |-> {"report"}]

\* Every pack that a run starts from has the shape that the schema gives it.
ASSUME CasesAssumption == \A p \in Cases \cup AllDiffs : WellShaped(p)

ProfileInit ==
    /\ verdict = [kind |-> "none"]
    /\ \/ /\ saved \in Cases /\ edits = MaxEdits
          /\ folder = [d \in AllDirs |-> "missing"] /\ notes = Fresh /\ links = {} /\ health = Sound
       \/ /\ saved = Base /\ edits = 0
          /\ folder = [d \in AllDirs |-> IF d = "wiki/notes" THEN "missing" ELSE "ok"]
          /\ notes = Seeded /\ links \in {{}, SomeLinks} /\ health = Sound
       \/ /\ saved = None /\ edits = 0
          /\ folder \in {[d \in AllDirs |-> "missing"], [d \in AllDirs |-> IF d = "wiki/notes" THEN "ok" ELSE "missing"]}
          /\ notes = Fresh /\ links = {}
          /\ health \in {Sound, [Sound EXCEPT !.events = "empty", !.artifacts = {}]}
=============================================================================
