--------------------------- MODULE ProjectRevisions ---------------------------
(***************************************************************************)
(* The configuration of one project module: operators upload documents,    *)
(* which are validated and become numbered revisions, and WASM modules for *)
(* their hooks; a discovery prepares its records by the active revision,   *)
(* and an execution builds its manifest and its graph by the revision that *)
(* it pinned.  (crates/beampipe-project, crates/beampipe-orchestration,    *)
(* crates/beampipe-jobs/src/lib.rs, crates/beampipe-db/src/repo.rs)        *)
(*                                                                         *)
(* A document is kept as far as one part of it names another or something  *)
(* outside it; of rules about one value alone it only says whether it      *)
(* keeps them.  A digest is what it is the digest of.  Records are told    *)
(* apart by the revision and the hook that prepared them.  What a handler  *)
(* without a lease may still write is in ExecutionLedger and Preparation.  *)
(***************************************************************************)
EXTENDS Integers, Sequences, FiniteSets

CONSTANTS
    Documents,      \* the documents that operators upload
    Modules,        \* WASM modules that compile
    Exports,        \* by module, the hooks it exports
    Overrides,      \* by module, the graph overrides that its hooks write
    Adapters,       \* names of TAP endpoints
    Contents,       \* what may be served as the project's graph
    WithIngest,     \* contents with a node that takes the manifest
    FieldsOf,       \* by content, the <<node, field>> pairs of the graph
    Clients,        \* concurrent requests of operators
    Executions,
    MaxRevisions, MaxUploads, MaxAttempts,      \* bounds
    None

Hooks == {"prepare_metadata", "manifest", "graph_patches"}
Identities == {"group_key", "record_id"}

VARIABLES
    revisions,  \* project_configs with their project_config_wasm, by version
    request,    \* what each request read before it writes
    uploads,    \* modules uploaded so far
    hosted,     \* what the graph's url or path serves now
    discovery,  \* a discovery of the project's source
    records,    \* what the last discovery registered
    execution   \* executions, and what their handler holds

vars == <<revisions, request, uploads, hosted, discovery, records, execution>>

----------------------------------------------------------------------------
\* Documents, and the rules they are validated by.

\* What a transform of a kind cannot do without
Needs == [identity |-> {}, trim |-> {}, strip_prefix |-> {"prefix"},
          add_prefix |-> {"prefix"}, add_suffix |-> {"suffix"}, replace |-> {"from"},
          default_if_empty |-> {"default"}, split_last |-> {"separators"},
          regex_extract |-> {"pattern"}, chain |-> {"steps"}]

OutputFields == {"groups", "group_key", "records"}
Outputs == [required : BOOLEAN, patterns : SUBSET {"relative", "unsafe"}]
Origins == {"source", "row"}     \* or the name of an enrichment
Graph == [from : SUBSET {"url", "path"}, sha256 : Contents \cup {None}]
Values == {"$count", "one", "two", "unknown"} \cup Modules

\* graph_patches of one node and one field each
Patch == [node : {"app"}, field : {"cores", "memory"}, value : Values]

\* A mapped field has where its value is from and the transforms it runs, an
\* enrichment its name, its endpoint and the field it is asked for each value of.
IsField(f) == f.from \in STRING /\ f.runs \subseteq STRING
IsEnrichment(e) ==
    e.name \in STRING /\ e.adapter \in Adapters /\ (e.over # None => e.over \in STRING)

\* What a document may say.  Named transforms are of a kind, with the parameters
\* given and the steps they run.  The mapping is prepare_metadata, or none.
IsDocument(d) ==
    /\ d.parses \in BOOLEAN
    /\ d.named \subseteq {"apiVersion", "kind", "id"}
    /\ d.limits \subseteq Int
    /\ d.outputs \in Outputs
    /\ d.manifest \in {None} \cup SUBSET OutputFields
    /\ {d.required, d.endpoints, d.queries} \subseteq SUBSET Adapters
    /\ d.archive \in Adapters \cup {None}
    /\ d.graph \in Graph \cup {None}
    /\ \A e \in d.enrichments : IsEnrichment(e)
    /\ \A t \in DOMAIN d.transforms : d.transforms[t].kind \in DOMAIN Needs \cup {"unknown"}
    /\ d.mapping # None => \A f \in DOMAIN d.mapping : IsField(d.mapping[f])
    /\ d.hooks \subseteq Hooks \cup {"unknown"}
    /\ d.module \in Modules \cup {None}
    /\ d.patches \in Seq(Patch)

ASSUME DocumentsAssumption == \A d \in Documents : IsDocument(d)

\* The field_map of prepare_metadata
Fields(d) == IF d.mapping = None THEN {} ELSE DOMAIN d.mapping

\* apply_steps: with a chain, a run has the chain's steps.
Runs(d, run) == \A t \in run \cap DOMAIN d.transforms : d.transforms[t].steps \subseteq run

\* apply_named: the least run that the names begin
AllRuns(d, names) ==
    LET steps == UNION {d.transforms[t].steps : t \in DOMAIN d.transforms}
        known == names \cup steps
    IN {t \in known : \A run \in SUBSET known : names \subseteq run /\ Runs(d, run) => t \in run}

NamesItself(d, t) ==
    t \in DOMAIN d.transforms /\ t \in AllRuns(d, d.transforms[t].steps)

\* from_slice, which denies unknown fields, and the JSON schema
FitsSchema(d) == d.parses

Identified(d) == d.named = {"apiVersion", "kind", "id"}

\* Automation's limits and polling periods are positive.
LimitsArePositive(d) == \A limit \in d.limits : limit > 0

AdaptersHaveEndpoints(d) ==
    /\ d.required # {}
    /\ d.required \subseteq d.endpoints

ArchiveIsRequired(d) == d.archive # None => d.archive \in d.required

OutputsCanMatch(d) ==
    /\ d.outputs.required => d.outputs.patterns # {}
    /\ "unsafe" \notin d.outputs.patterns

\* One place to get the graph from, and the digest of what is there.
GraphIsPinned(d) ==
    d.graph # None =>
        /\ Cardinality(d.graph.from) = 1
        /\ d.graph.sha256 # None

\* Defect for a mutant run: enrichments are not looked at.
QueriesAloneHaveEndpoints(d) == d.queries \subseteq d.endpoints

\* That the field an enrichment is asked for is mapped is not looked at.
QueriesHaveEndpoints(d) ==
    /\ d.queries \subseteq d.endpoints
    /\ \A e \in d.enrichments : e.adapter \in d.endpoints /\ e.over # None

HooksAreKnown(d) == d.hooks \subseteq Hooks

\* Every kind is known and has the parameters that it needs.
ParametersAreGiven(d) ==
    \A t \in DOMAIN d.transforms :
        /\ d.transforms[t].kind # "unknown"
        /\ Needs[d.transforms[t].kind] \subseteq d.transforms[t].given

ManifestIsNamed(d) == d.manifest # None => d.manifest = OutputFields

\* validate_transform_refs: every name is defined.  A chain may name itself, and
\* a field be from an enrichment that there is not.
TransformsAreDefined(d) ==
    /\ \A f \in Fields(d) : d.mapping[f].runs \subseteq DOMAIN d.transforms
    /\ \A t \in DOMAIN d.transforms : d.transforms[t].steps \subseteq DOMAIN d.transforms

\* A patch sets a field to a constant, or to a count or a sum of the manifest.
PatchesAreExpressions(d) ==
    \A i \in DOMAIN d.patches : d.patches[i].value # "unknown"

\* Where there is a mapping: a document without one is not asked for identities.
IdentityIsMapped(d) == d.mapping # None => Identities \subseteq Fields(d)

Valid(d) ==
    /\ FitsSchema(d)
    /\ Identified(d)
    /\ LimitsArePositive(d)
    /\ AdaptersHaveEndpoints(d)
    /\ ArchiveIsRequired(d)
    /\ OutputsCanMatch(d)
    /\ GraphIsPinned(d)
    /\ QueriesHaveEndpoints(d)
    /\ HooksAreKnown(d)
    /\ ParametersAreGiven(d)
    /\ ManifestIsNamed(d)
    /\ TransformsAreDefined(d)
    /\ PatchesAreExpressions(d)
    /\ IdentityIsMapped(d)

----------------------------------------------------------------------------
Versions == 1..MaxRevisions
Active == {v \in DOMAIN revisions : revisions[v].active}

\* get_active_project_config; the partial unique index leaves one row at most.
ActiveVersion == CHOOSE v \in Active : TRUE

Revision == [doc : Documents, active : BOOLEAN, modules : SUBSET Modules]
Ran == SUBSET [hook : Hooks, module : Modules]

NoRequest == [pc |-> "idle"]
NoDiscovery == [pc |-> "idle", version |-> 0, outcome |-> "none",
                identified |-> FALSE, dropped |-> {}]
NoRecords == [version |-> 0, module |-> None]

Request ==
    {NoRequest} \cup [pc : {"config"}, doc : Documents, version : Versions]
                \cup [pc : {"wasm"}, module : Modules, version : Versions]

Outcomes == {"none", "metadata", "nothing", "no_queries",
             "missing_adapter", "missing_iteration", "no_identity", "overflow"}
Failures == {"none", "hook", "no_graph", "no_digest", "graph", "digest", "patch",
             "records", "submission"}

Stages == {"absent", "queued", "staged", "built", "hooked", "patched", "complete",
           "translated", "stored", "submitted", "failed"}

\* What a manifest and a translated graph are told apart by
Records == [version : 0..MaxRevisions, module : Modules \cup {None}]
Override == [node : {"app"}, field : {"cores", "memory"}, value : Values, of : Records]
Manifest == [records : Records, overrides : Seq(Override)]
Translation == [content : Contents, embeds : Records,
                fields : UNION {[FieldsOf[c] -> Override \cup {None}] : c \in Contents}]

NoManifest == [records |-> NoRecords, overrides |-> <<>>]

Execution == [pc : Stages, pinned : 0..MaxRevisions, attempts : 0..MaxAttempts,
              failure : Failures, ran : Ran, manifest : Manifest,
              graph : Translation \cup {None}, stored : Manifest \cup {None},
              sent : Seq(Translation)]

ASSUME RevisionsAssumption ==
    /\ Exports \in [Modules -> SUBSET Hooks]
    /\ Overrides \in [Modules -> Seq(Override)]
    /\ WithIngest \subseteq Contents
    /\ MaxRevisions \in Nat
    /\ MaxUploads \in Nat
    /\ MaxAttempts \in Nat
    /\ None \notin Modules \cup Contents \cup Manifest \cup Override \cup Translation

TypeOK ==
    /\ revisions \in Seq(Revision) /\ Len(revisions) <= MaxRevisions
    /\ request \in [Clients -> Request]
    /\ uploads \in 0..MaxUploads
    /\ hosted \in Contents
    /\ discovery \in [pc : {"idle", "query", "prepare"}, version : 0..MaxRevisions,
                      outcome : Outcomes, identified : BOOLEAN,
                      dropped : SUBSET UNION {Fields(d) : d \in Documents}]
    /\ records \in Records
    /\ execution \in [Executions -> Execution]

NewExecution ==
    [pc |-> "absent", pinned |-> 0, attempts |-> 0, failure |-> "none",
     ran |-> {}, manifest |-> NoManifest, graph |-> None, stored |-> None,
     sent |-> <<>>]

Init ==
    /\ revisions = <<>>
    /\ request = [c \in Clients |-> NoRequest]
    /\ uploads = 0
    /\ hosted \in Contents
    /\ discovery = NoDiscovery
    /\ records = NoRecords
    /\ execution = [e \in Executions |-> NewExecution]

----------------------------------------------------------------------------
\* Operators: revisions and modules.

use == <<hosted, discovery, records, execution>>

\* upload_project_config, to the version that its transaction reads
BeginUpload(c, d) ==
    /\ request[c] = NoRequest
    /\ Len(revisions) < MaxRevisions
    /\ Valid(d)
    /\ request' = [request EXCEPT ![c] =
                     [pc |-> "config", doc |-> d, version |-> Len(revisions) + 1]]
    /\ UNCHANGED <<revisions, uploads, use>>

Deactivated == [v \in DOMAIN revisions |-> [revisions[v] EXCEPT !.active = FALSE]]

NewRevision(d) == [doc |-> d, active |-> TRUE, modules |-> {}]

\* Defect for a mutant run: no unique version, and the update of the other rows
\* does not see the one that was inserted meanwhile.
CommitUploadTwice(c) ==
    /\ request[c].pc = "config"
    /\ revisions' = Append([v \in DOMAIN revisions |->
                              IF v < request[c].version THEN Deactivated[v] ELSE revisions[v]],
                           NewRevision(request[c].doc))
    /\ Len(revisions) < MaxRevisions
    /\ request' = [request EXCEPT ![c] = NoRequest]
    /\ UNCHANGED <<uploads, use>>

\* insert_project_config: a version that was taken meanwhile fails the insert.
CommitUpload(c) ==
    /\ request[c].pc = "config"
    /\ revisions' = IF request[c].version = Len(revisions) + 1
                    THEN Append(Deactivated, NewRevision(request[c].doc))
                    ELSE revisions
    /\ request' = [request EXCEPT ![c] = NoRequest]
    /\ UNCHANGED <<uploads, use>>

\* upload_project_config_wasm, to the revision that is active when it starts
BeginModule(c, m) ==
    /\ request[c] = NoRequest
    /\ Active # {}
    /\ uploads < MaxUploads
    /\ uploads' = uploads + 1
    /\ request' = [request EXCEPT ![c] =
                     [pc |-> "wasm", module |-> m, version |-> ActiveVersion]]
    /\ UNCHANGED <<revisions, use>>

CommitModule(c) ==
    /\ request[c].pc = "wasm"
    /\ revisions' = [revisions EXCEPT ![request[c].version].modules = @ \cup {request[c].module}]
    /\ request' = [request EXCEPT ![c] = NoRequest]
    /\ UNCHANGED <<uploads, use>>

Operate ==
    \E c \in Clients :
        \/ \E d \in Documents : BeginUpload(c, d)
        \/ CommitUpload(c)
        \/ \E m \in Modules : BeginModule(c, m)
        \/ CommitModule(c)

\* Whoever keeps the graph changes what is served.
Publish ==
    /\ hosted' \in Contents \ {hosted}
    /\ UNCHANGED <<revisions, request, uploads, discovery, records, execution>>

----------------------------------------------------------------------------
\* Hooks.

\* load_wasm_bytes: the module that the document declares, where it was uploaded
\* for the revision that is active now.
Load(d) ==
    IF /\ d.module # None
       /\ Active # {}
       /\ d.module \in revisions[ActiveVersion].modules
    THEN d.module
    ELSE None

\* maybe_apply_hook calls it only when the document lists the hook.
Called(d, hook) == IF hook \in d.hooks THEN Load(d) ELSE None

CallFails(m, hook) == m # None /\ hook \notin Exports[m]

----------------------------------------------------------------------------
\* A discovery; the batch reads the active revision once.

system == <<revisions, request, uploads, hosted>>

StartDiscovery ==
    /\ discovery.pc = "idle"
    /\ Active # {}
    /\ discovery' = [NoDiscovery EXCEPT !.pc = "query", !.version = ActiveVersion]
    /\ UNCHANGED <<system, records, execution>>

\* apply_transform_spec gives nothing without what the kind needs; these two
\* kinds do without.
Applies(transform) ==
    /\ transform.kind # "unknown"
    /\ transform.kind \in {"default_if_empty", "split_last"}
          \/ Needs[transform.kind] \subseteq transform.given

\* apply_field_transform; a name without a definition gives nothing either.
Resolves(d, names) ==
    LET run == AllRuns(d, names)
    IN run \subseteq DOMAIN d.transforms /\ \A t \in run : Applies(d.transforms[t])

\* field_map_value is asked before the enrichments are, and not told the source:
\* of that only a transform may make something.
Early(d, f) ==
    \/ d.mapping[f].from = "row"
    \/ d.mapping[f].from = "source" /\ d.mapping[f].runs # {}

\* iteration_values: an enrichment is asked for the values of its field in the
\* rows; of a field that is not mapped there are none.
Asked(d, given) == {e \in d.enrichments : \E f \in given : e.over = f /\ Early(d, f)}

\* mapped_value, up to the transforms: the fields that may be given a value.  The
\* source is known, the archive has the column or not, and an enrichment is looked
\* up under the group key, if it was asked at all.
MayBeGiven(d, given) ==
    /\ \A f \in Fields(d) : d.mapping[f].from = "source" => f \in given
    /\ \A f \in given : d.mapping[f].from \notin Origins =>
          /\ "group_key" \in given /\ Early(d, "group_key")
          /\ \E e \in Asked(d, given) : e.name = d.mapping[f].from

\* What ends a discovery of archive rows, whichever comes first
Errors(d, given) ==
    {x \in {"overflow", "missing_adapter", "missing_iteration"} :
        \/ x = "overflow" /\ \E f \in given : \E t \in AllRuns(d, d.mapping[f].runs) :
                                NamesItself(d, t)
        \/ x = "missing_adapter" /\ \E e \in Asked(d, given) : e.adapter \notin d.endpoints
        \/ x = "missing_iteration" /\ \E e \in d.enrichments : e.over = None}

Ends(outcome) == [outcome |-> outcome, identified |-> FALSE, dropped |-> {}]

\* prepare_metadata_record: what was given loses its value where a transform does
\* not resolve.  An identity that is not given, or that a transform makes nothing
\* of, is that of the archive's column of its name, if it has one.
Prepared(d, given) ==
    LET sure == {f \in given \cap Identities : d.mapping[f].runs = {}}
        drop == {f \in given : ~ Resolves(d, d.mapping[f].runs)}
    IN IF Errors(d, given) # {} THEN {Ends(x) : x \in Errors(d, given)}
       ELSE {[outcome |-> "none", identified |-> all, dropped |-> drop] :
                all \in {Identities \subseteq sure, TRUE}}

\* discover_from_config on an archive that answers or not, with rows or without.
\* A query that is not required may lack its endpoint unnoticed; these are.
Discovered(d) ==
    IF d.queries = {} THEN {Ends("no_queries")}
    ELSE IF ~ d.queries \subseteq d.endpoints THEN {Ends("missing_adapter")}
    ELSE {Ends("nothing")} \cup
         UNION {Prepared(d, given) : given \in {g \in SUBSET Fields(d) : MayBeGiven(d, g)}}

Query ==
    /\ discovery.pc = "query"
    /\ \E found \in Discovered(revisions[discovery.version].doc) :
        discovery' = [discovery EXCEPT
            !.pc = IF found.outcome = "none" THEN "prepare" ELSE "idle",
            !.outcome = found.outcome, !.identified = found.identified,
            !.dropped = found.dropped]
    /\ UNCHANGED <<system, records, execution>>

\* apply_wasm_prepare_metadata, with what it fails for ignored by its caller: a
\* hook may add identities or lose them.  canonicalize_prepared_metadata_identities
\* then refuses records without them; the others are registered.
Prepare ==
    /\ discovery.pc = "prepare"
    /\ \E lost, identified \in BOOLEAN :
        LET m == Called(revisions[discovery.version].doc, "prepare_metadata")
            ran == ~ (lost \/ m = None \/ CallFails(m, "prepare_metadata"))
        IN /\ ran \/ identified = discovery.identified
           /\ discovery' = [discovery EXCEPT !.pc = "idle", !.identified = FALSE,
                 !.outcome = IF identified THEN "metadata" ELSE "no_identity"]
           /\ records' = IF ~ identified THEN records
                         ELSE [version |-> discovery.version,
                               module |-> IF ran THEN m ELSE None]
    /\ UNCHANGED <<system, execution>>

Discover == StartDiscovery \/ Query \/ Prepare

----------------------------------------------------------------------------
\* An execution.

Doc(e) == revisions[execution[e].pinned].doc

Become(e, row) ==
    /\ execution' = [execution EXCEPT ![e] = row]
    /\ UNCHANGED <<system, discovery, records>>

Fail(e, why) == Become(e, [execution[e] EXCEPT !.pc = "failed", !.failure = why])

\* The active revision is pinned when the execution is created.
Create(e) ==
    /\ execution[e].pc = "absent"
    /\ Active # {}
    /\ Become(e, [NewExecution EXCEPT !.pc = "queued", !.pinned = ActiveVersion])

\* run_execute_body: a manifest that was stored is used again, or one is built
\* of the registered records.
Start(e) ==
    /\ execution[e].pc = "queued"
    /\ execution[e].attempts < MaxAttempts
    /\ \/ /\ execution[e].stored # None
          /\ Become(e, [execution[e] EXCEPT !.attempts = @ + 1,
                          !.pc = "complete", !.manifest = execution[e].stored])
       \/ /\ execution[e].stored = None
          /\ records # NoRecords
          /\ Become(e, [execution[e] EXCEPT !.attempts = @ + 1,
                          !.pc = "staged", !.manifest.records = records])

\* build_manifest_from_config, or the generic manifest: none without a record in
\* a group that staging has not skipped
Build(e) ==
    /\ execution[e].pc = "staged"
    /\ \/ Fail(e, "records")
       \/ Become(e, [execution[e] EXCEPT !.pc = "built"])

\* A hook returns the whole manifest, its graph overrides with it.
Hooked(e, hook, next) ==
    LET m == Called(Doc(e), hook)
        row == [execution[e] EXCEPT !.pc = next]
    IN IF m = None THEN Become(e, row)
       ELSE IF CallFails(m, hook) THEN Fail(e, "hook")
       ELSE Become(e, [row EXCEPT !.ran = @ \cup {[hook |-> hook, module |-> m]},
                                  !.manifest.overrides = Overrides[m]])

ManifestHook(e) ==
    /\ execution[e].pc = "built"
    /\ Hooked(e, "manifest", "hooked")

\* evaluate_expression on the manifest's first source: a count is told apart by
\* the records it counts.
Evaluated(patch, manifest) ==
    [node |-> patch.node, field |-> patch.field, value |-> patch.value,
     of |-> IF patch.value = "$count" THEN manifest.records ELSE NoRecords]

\* Defect for a mutant run: overrides that are there already are left.
ApplyProjectPatchesOnce(e) ==
    /\ execution[e].pc = "hooked"
    /\ LET manifest == execution[e].manifest
           patches == [i \in DOMAIN Doc(e).patches |-> Evaluated(Doc(e).patches[i], manifest)]
       IN Become(e, [execution[e] EXCEPT !.pc = "patched",
                       !.manifest.overrides = IF @ = <<>> THEN patches ELSE @])

\* apply_project_graph_patches replaces the overrides if it has any.
ApplyProjectPatches(e) ==
    /\ execution[e].pc = "hooked"
    /\ LET manifest == execution[e].manifest
           patches == [i \in DOMAIN Doc(e).patches |-> Evaluated(Doc(e).patches[i], manifest)]
       IN Become(e, [execution[e] EXCEPT !.pc = "patched",
                       !.manifest.overrides = IF patches = <<>> THEN @ ELSE patches])

GraphPatchesHook(e) ==
    /\ execution[e].pc = "patched"
    /\ Hooked(e, "graph_patches", "complete")

\* fetch_graph or read_graph, within their limits
Served(d) == IF d.graph = None \/ d.graph.from = {} THEN {"no_graph"} ELSE {"graph", "none"}

\* verify_graph_digest
Verified(d) ==
    IF d.graph.sha256 = None THEN "no_digest"
    ELSE IF d.graph.sha256 # hosted THEN "digest" ELSE "none"

Lands(patch, content) == <<patch.node, patch.field>> \in FieldsOf[content]

\* apply_manifest_graph_overrides: in order, so the last one of a field stays,
\* and a field without one is as it was
Patched(content, overrides) ==
    [f \in FieldsOf[content] |->
        LET hits == {i \in DOMAIN overrides :
                        <<overrides[i].node, overrides[i].field>> = f}
        IN IF hits = {} THEN None
           ELSE overrides[CHOOSE i \in hits : \A j \in hits : j <= i]]

\* inject_manifest_config_into_graph; without the node nothing is embedded.
Embedded(manifest, content) ==
    IF content \in WithIngest THEN manifest.records ELSE NoRecords

\* prepare_graph_for_manifest
Translated(e) ==
    [content |-> hosted, embeds |-> Embedded(execution[e].manifest, hosted),
     fields |-> Patched(hosted, execution[e].manifest.overrides)]

Translate(e) ==
    /\ execution[e].pc = "complete"
    /\ LET overrides == execution[e].manifest.overrides
       IN \E served \in Served(Doc(e)) :
             IF served # "none" THEN Fail(e, served)
             ELSE IF Verified(Doc(e)) # "none" THEN Fail(e, Verified(Doc(e)))
             ELSE IF \E i \in DOMAIN overrides : ~ Lands(overrides[i], hosted)
                  THEN Fail(e, "patch")
             ELSE Become(e, [execution[e] EXCEPT !.pc = "translated",
                                                 !.graph = Translated(e)])

\* The manifest is stored with the phase before anything is sent.
Store(e) ==
    /\ execution[e].pc = "translated"
    /\ Become(e, [execution[e] EXCEPT !.pc = "stored", !.stored = execution[e].manifest])

\* The backend accepts the graph or refuses it for certain.
Submit(e) ==
    /\ execution[e].pc = "stored"
    /\ \E accepted \in BOOLEAN :
        Become(e, [execution[e] EXCEPT
            !.sent = Append(@, execution[e].graph),
            !.pc = IF accepted THEN "submitted" ELSE "failed",
            !.failure = IF accepted THEN "none" ELSE "submission"])

\* retry_execution keeps the pinned revision and the stored manifest.
Retry(e) ==
    /\ execution[e].pc = "failed"
    /\ Become(e, [execution[e] EXCEPT !.pc = "queued", !.failure = "none",
                    !.manifest = NoManifest, !.graph = None])

\* The handler is lost, and the job delivered again.
Redeliver(e) ==
    /\ execution[e].pc \in Stages \ {"absent", "queued", "submitted", "failed"}
    /\ Become(e, [execution[e] EXCEPT !.pc = "queued", !.manifest = NoManifest,
                                      !.graph = None])

Execute(e) ==
    \/ Redeliver(e) \/ Create(e) \/ Start(e) \/ Build(e) \/ ManifestHook(e) \/ ApplyProjectPatches(e)
    \/ GraphPatchesHook(e) \/ Translate(e) \/ Store(e) \/ Submit(e) \/ Retry(e)

----------------------------------------------------------------------------
Next == Operate \/ Publish \/ Discover \/ (\E e \in Executions : Execute(e))

Spec == Init /\ [][Next]_vars

----------------------------------------------------------------------------
\* Properties.

\* insert_project_config: whoever uploads at once, the newest revision and no
\* other is active, so every reader of the active row reads the same one.
NewestIsActive ==
    revisions # <<>> => Active = {Len(revisions)}

\* load_wasm_bytes: whatever module is uploaded meanwhile, a hook that ran is of
\* the module that the revision in use declares, and that revision lists it.
HooksAreDeclared ==
    /\ records.module # None =>
          LET d == revisions[records.version].doc
          IN records.module = d.module /\ "prepare_metadata" \in d.hooks
    /\ \A e \in Executions : \A r \in execution[e].ran :
          r.module = Doc(e).module /\ r.hook \in Doc(e).hooks

\* validate_report_against: with a document it accepts, discovery meets no endpoint
\* that is missing, no enrichment without a field to ask it for, and no transform
\* that would take a field's value away by being undefined or without what its
\* kind needs; translation meets no graph without a place or a digest.  That a
\* field or an enrichment that is named is there, and that records then have an
\* identity, it does not ensure.
AcceptedIsUsable ==
    /\ discovery.outcome \notin {"missing_adapter", "missing_iteration"}
    /\ discovery.dropped = {}
    /\ \A e \in Executions :
          execution[e].failure \in {"no_graph", "no_digest"} => Doc(e).graph = None

\* run_execute_body: whatever is uploaded, published or discovered between them,
\* all attempts of an execution send the same graph with the same records.
AttemptsSendOneGraph ==
    \A e \in Executions :
        \A i, j \in DOMAIN execution[e].sent : execution[e].sent[i] = execution[e].sent[j]

IsLast(patches, i) ==
    \A j \in DOMAIN patches :
        patches[j].node = patches[i].node /\ patches[j].field = patches[i].field => j <= i

\* apply_project_graph_patches: a graph that was sent has the pinned content and
\* every patch of the pinned revision, evaluated on the stored records; only
\* a graph_patches hook may have changed that, and a manifest hook may not.
PatchesLand ==
    \A e \in Executions : \A i \in DOMAIN execution[e].sent :
        LET graph == execution[e].sent[i]
            patches == Doc(e).patches
        IN /\ graph.content = Doc(e).graph.sha256
           /\ \/ \E r \in execution[e].ran : r.hook = "graph_patches"
              \/ \A k \in DOMAIN patches : IsLast(patches, k) =>
                    graph.fields[<<patches[k].node, patches[k].field>>]
                        = Evaluated(patches[k], execution[e].stored)
============================================================================
