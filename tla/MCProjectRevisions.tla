---- MODULE MCProjectRevisions ----
(***************************************************************************)
(* Instances of ProjectRevisions for TLC: two documents that declare hooks *)
(* and patches, of which one has no mapping; one that names what it does   *)
(* not have; and for every rule of the validation one that breaks it.      *)
(***************************************************************************)
EXTENDS ProjectRevisions, TLC

CONSTANTS tap, other, g1, g2, m1, m2

Set(field, value) == [node |-> "app", field |-> field, value |-> value]

Strip == [kind |-> "strip_prefix", given |-> {"prefix"}, steps |-> {}]
Chain(steps) == [kind |-> "chain", given |-> {"steps"}, steps |-> steps]

From(origin, transforms) == [from |-> origin, runs |-> transforms]
Each(name, adapter, field) == [name |-> name, adapter |-> adapter, over |-> field]

Plain ==
    [parses |-> TRUE, named |-> {"apiVersion", "kind", "id"}, limits |-> {1, 10},
     outputs |-> [required |-> TRUE, patterns |-> {"relative"}], manifest |-> OutputFields,
     required |-> {tap}, endpoints |-> {tap}, archive |-> tap,
     graph |-> [from |-> {"url"}, sha256 |-> g1],
     queries |-> {tap}, enrichments |-> {Each("context", tap, "group_key")},
     transforms |-> [strip |-> Strip, both |-> Chain({"strip"})],
     mapping |-> [group_key |-> From("row", {"both"}), record_id |-> From("source", {}),
                  label |-> From("context", {"strip"})],
     hooks |-> Hooks, module |-> m1, patches |-> <<Set("cores", "$count")>>]

\* There is no mapping, hence not of the field the enrichment is asked for either,
\* and the module lacks the hook that would prepare the records.
Second ==
    [Plain EXCEPT !.module = m2, !.hooks = {"prepare_metadata", "manifest"},
                  !.mapping = None, !.patches = <<Set("cores", "one"), Set("cores", "two")>>]

\* A chain names itself, and the group key is from an enrichment that there is not.
Loose ==
    [Plain EXCEPT !.transforms = [strip |-> Chain({"both"}), both |-> Chain({"strip"})],
                  !.mapping = [group_key |-> From("catalog", {}), record_id |-> From("source", {}),
                               label |-> From("row", {"both"})],
                  !.hooks = {}, !.module = None, !.patches = <<>>]

Broken ==
    {[Plain EXCEPT !.parses = FALSE],
     [Plain EXCEPT !.named = {"apiVersion"}],
     [Plain EXCEPT !.limits = {0, 1}],
     [Plain EXCEPT !.outputs.patterns = {}],
     [Plain EXCEPT !.outputs.patterns = {"unsafe"}],
     [Plain EXCEPT !.manifest = {"groups"}],
     [Plain EXCEPT !.transforms.strip.given = {}],
     [Plain EXCEPT !.transforms.strip.kind = "unknown"],
     [Plain EXCEPT !.required = {}, !.archive = None],
     [Plain EXCEPT !.required = {other}],
     [Plain EXCEPT !.archive = other],
     [Plain EXCEPT !.graph.from = {}],
     [Plain EXCEPT !.graph.from = {"url", "path"}],
     [Plain EXCEPT !.graph.sha256 = None],
     [Plain EXCEPT !.queries = {other}],
     [Plain EXCEPT !.enrichments = {Each("context", other, "group_key")}],
     [Plain EXCEPT !.enrichments = {Each("context", tap, None)}],
     [Plain EXCEPT !.hooks = {"unknown"}],
     [Plain EXCEPT !.mapping.group_key.runs = {"absent"}],
     [Plain EXCEPT !.transforms.both.steps = {"absent"}],
     [Plain EXCEPT !.patches = <<Set("cores", "unknown")>>],
     [Plain EXCEPT !.mapping = [group_key |-> From("row", {})]]}

MCDocuments == {Plain, Second, Loose} \cup Broken

MCExports == (m1 :> Hooks) @@ (m2 :> {"manifest"})
MCOverrides == (m1 :> <<Evaluated(Set("cores", m1), NoManifest)>>)
            @@ (m2 :> <<Evaluated(Set("memory", m2), NoManifest)>>)
MCFields == (g1 :> {<<"app", "cores">>}) @@ (g2 :> {<<"app", "cores">>, <<"app", "memory">>})
MCSymmetry == Permutations(Clients)
====
