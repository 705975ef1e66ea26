------------------------ MODULE ProjectRevisionsProofs ------------------------
(***************************************************************************)
(* Proofs about ProjectRevisions for every set of documents, modules,      *)
(* contents, requests and executions, and every bound.  The argument: a    *)
(* revision's document never changes and was valid when it was accepted;   *)
(* an execution's pinned document and its stored manifest, once there, are *)
(* what every later attempt translates and sends.                          *)
(***************************************************************************)
EXTENDS ProjectRevisions, FiniteSetTheorems, WellFoundedInduction, TLAPS

\* The overrides that apply_project_graph_patches writes
Expected(d, manifest) ==
    [i \in DOMAIN d.patches |-> Evaluated(d.patches[i], manifest)]

\* The manifest has the overrides of its document's patches, if it has any.
Follows(d, manifest) ==
    d.patches = <<>> \/ manifest.overrides = Expected(d, manifest)

GraphHookRan(x) == \E r \in x.ran : r.hook = "graph_patches"

\* The graph of a manifest, of the content that its document pins
GraphOf(d, manifest) ==
    [content |-> d.graph.sha256, embeds |-> Embedded(manifest, d.graph.sha256),
     fields |-> Patched(d.graph.sha256, manifest.overrides)]

Sendable(d, graph, manifest) ==
    /\ d.graph # None /\ graph # None
    /\ graph = GraphOf(d, manifest)
    /\ \A i \in DOMAIN manifest.overrides : Lands(manifest.overrides[i], d.graph.sha256)

\* What is true of an execution x that pinned the document d.
RanInv(x, d) == \A r \in x.ran : r.module = d.module /\ r.hook \in d.hooks

FailureInv(x, d) == x.failure \in {"no_graph", "no_digest"} => d.graph = None

StoredInv(x) ==
    /\ x.pc \in {"staged", "built", "hooked", "patched"} => x.stored = None
    /\ x.pc \in {"complete", "translated", "stored"} =>
         x.stored \in {None, x.manifest}
    /\ x.pc = "stored" => x.stored = x.manifest
    /\ x.sent # <<>> => x.stored # None

PatchedInv(x, d) ==
    /\ x.pc = "patched" => Follows(d, x.manifest)
    /\ x.pc \in {"complete", "translated", "stored"} =>
         GraphHookRan(x) \/ Follows(d, x.manifest)
    /\ x.stored # None => GraphHookRan(x) \/ Follows(d, x.stored)

SentInv(x, d) ==
    /\ x.pc \in {"translated", "stored"} => Sendable(d, x.graph, x.manifest)
    /\ \A i \in DOMAIN x.sent : Sendable(d, x.sent[i], x.stored)

RowInv(x, d) ==
    /\ x.pc = "absent" => x = NewExecution
    /\ RanInv(x, d)
    /\ FailureInv(x, d)
    /\ StoredInv(x)
    /\ PatchedInv(x, d)
    /\ SentInv(x, d)

PinnedInv(e) == execution[e].pc # "absent" => execution[e].pinned \in DOMAIN revisions

ExecutionInv == \A e \in Executions : PinnedInv(e) /\ RowInv(execution[e], Doc(e))

DiscoveryType ==
    [pc : {"idle", "query", "prepare"}, version : 0..MaxRevisions, outcome : Outcomes,
     identified : BOOLEAN, dropped : SUBSET UNION {Fields(d) : d \in Documents}]

\* Every revision was accepted, and so was what a request still holds.
RevisionInv == \A v \in DOMAIN revisions : Valid(revisions[v].doc)

RequestInv ==
    \A c \in Clients :
        /\ request[c].pc = "config" => Valid(request[c].doc)
        /\ request[c].pc = "wasm" => request[c].version \in DOMAIN revisions

DiscoveryInv ==
    /\ discovery.pc # "idle" => discovery.version \in DOMAIN revisions
    /\ discovery.outcome \notin {"missing_adapter", "missing_iteration"}
    /\ discovery.dropped = {}

RecordsInv ==
    records.module # None =>
        /\ records.version \in DOMAIN revisions
        /\ LET d == revisions[records.version].doc
           IN records.module = d.module /\ "prepare_metadata" \in d.hooks

IInv ==
    /\ TypeOK
    /\ RevisionInv
    /\ RequestInv
    /\ NewestIsActive
    /\ DiscoveryInv
    /\ RecordsInv
    /\ ExecutionInv

\* Revisions are only added, and what they say is not changed.
Kept ==
    \A v \in DOMAIN revisions :
        v \in DOMAIN revisions' /\ revisions'[v].doc = revisions[v].doc

----------------------------------------------------------------------------
\* Operators.

\* Of the overrides of one field there is a last one.
LEMMA LastHit ==
    ASSUME NEW n \in Nat, NEW hits \in SUBSET (1..n), hits # {}
    PROVE  \E i \in hits : \A j \in hits : j <= i
<1>1. IsWellFoundedOn(OpToRel(<, Nat), Nat)
  BY NatLessThanWellFounded
<1> DEFINE Left == {n - i : i \in hits}
<1>2. Left \subseteq Nat /\ Left # {}
  <2>1. \A i \in hits : n - i \in Nat
    OBVIOUS
  <2>2. Left \subseteq Nat
    BY <2>1
  <2>3. PICK i \in hits : TRUE
    OBVIOUS
  <2>4. n - i \in Left
    BY <2>3
  <2> QED BY <2>2, <2>4
<1>3. PICK x \in Left : \A y \in Left : ~ (<<y, x>> \in OpToRel(<, Nat))
  <2> HIDE DEF Left
  <2> QED BY <1>1, <1>2, WFMin
<1>4. PICK i \in hits : x = n - i
  OBVIOUS
<1>5. ASSUME NEW j \in hits
      PROVE  j <= i
  <2>1. n - j \in Left /\ n - j \in Nat /\ x \in Nat
    OBVIOUS
  <2>2. ~ (n - j < x)
    BY <1>3, <2>1 DEF OpToRel
  <2> QED BY <2>2, <1>4
<1> QED BY <1>5

\* The overrides of a field, and what a graph is written with
LEMMA PatchedTypes ==
    ASSUME NEW content \in Contents, NEW overrides \in Seq(Override)
    PROVE  Patched(content, overrides) \in [FieldsOf[content] -> Override \cup {None}]
<1> SUFFICES ASSUME NEW f \in FieldsOf[content]
             PROVE  Patched(content, overrides)[f] \in Override \cup {None}
  BY DEF Patched
<1> DEFINE hits == {i \in DOMAIN overrides : <<overrides[i].node, overrides[i].field>> = f}
           last == CHOOSE i \in hits : \A j \in hits : j <= i
<1>1. Patched(content, overrides)[f] = IF hits = {} THEN None ELSE overrides[last]
  BY DEF Patched
<1>2. CASE hits = {}
  BY <1>1, <1>2
<1>3. CASE hits # {}
  <2>1. DOMAIN overrides = 1..Len(overrides) /\ Len(overrides) \in Nat
    OBVIOUS
  <2>2. hits \in SUBSET (1..Len(overrides))
    BY <2>1
  <2>3. \E i \in hits : \A j \in hits : j <= i
    <3> HIDE DEF hits
    <3> QED BY <2>1, <2>2, <1>3, LastHit
  <2>4. last \in hits
    <3> HIDE DEF hits
    <3> QED BY <2>3
  <2>5. overrides[last] \in Override
    BY <2>4, <2>1
  <2> HIDE DEF last, hits
  <2> QED BY <1>1, <1>3, <2>5
<1> QED BY <1>2, <1>3

\* The last override of a field is what the graph has there.
LEMMA LastLands ==
    ASSUME NEW content, NEW overrides, DOMAIN overrides \subseteq Int,
           NEW k \in DOMAIN overrides,
           <<overrides[k].node, overrides[k].field>> \in FieldsOf[content],
           \A j \in DOMAIN overrides :
               overrides[j].node = overrides[k].node /\ overrides[j].field = overrides[k].field
                   => j <= k
    PROVE  Patched(content, overrides)[<<overrides[k].node, overrides[k].field>>] = overrides[k]
<1> DEFINE f == <<overrides[k].node, overrides[k].field>>
           hits == {i \in DOMAIN overrides : <<overrides[i].node, overrides[i].field>> = f}
           last == CHOOSE i \in hits : \A j \in hits : j <= i
<1>1. Patched(content, overrides)[f] = IF hits = {} THEN None ELSE overrides[last]
  BY DEF Patched
<1>2. k \in hits /\ \A j \in hits : j <= k
  OBVIOUS
<1>3. last \in hits /\ k <= last
  <2> HIDE DEF hits
  <2> QED BY <1>2
<1>4. last = k
  BY <1>2, <1>3
<1> HIDE DEF last, hits, f
<1>5. Patched(content, overrides)[f] = overrides[k]
  BY <1>1, <1>2, <1>4
<1> QED BY <1>5 DEF f

LEMMA RecordsTypes == NoRecords \in Records /\ NoManifest \in Manifest
<1>1. NoRecords \in Records
  BY RevisionsAssumption DEF NoRecords, Records
<1>2. <<>> \in Seq(Override)
  OBVIOUS
<1> QED BY <1>1, <1>2 DEF NoManifest, Manifest

LEMMA EvaluatedTypes ==
    ASSUME NEW patch \in Patch, NEW manifest \in Manifest
    PROVE  Evaluated(patch, manifest) \in Override
<1>1. patch.node \in {"app"} /\ patch.field \in {"cores", "memory"} /\ patch.value \in Values
  BY DEF Patch
<1>2. (IF patch.value = "$count" THEN manifest.records ELSE NoRecords) \in Records
  <2>1. manifest.records \in Records
    BY DEF Manifest
  <2> QED BY <2>1, RecordsTypes
<1> HIDE DEF Values
<1> QED BY <1>1, <1>2 DEF Evaluated, Override

LEMMA ExpectedTypes ==
    ASSUME NEW d \in Documents, NEW manifest \in Manifest
    PROVE  /\ DOMAIN d.patches = 1..Len(d.patches)
           /\ Expected(d, manifest) \in Seq(Override)
           /\ Expected(d, manifest) = <<>> <=> d.patches = <<>>
<1>1. d.patches \in Seq(Patch)
  BY DocumentsAssumption DEF IsDocument
<1>2. DOMAIN d.patches = 1..Len(d.patches) /\ Len(d.patches) \in Nat
  BY <1>1
<1>3. \A i \in DOMAIN d.patches : Evaluated(d.patches[i], manifest) \in Override
  BY <1>1, EvaluatedTypes
<1>4. Expected(d, manifest) \in [1..Len(d.patches) -> Override]
  BY <1>2, <1>3 DEF Expected
<1>5. Expected(d, manifest) \in Seq(Override)
  BY <1>2, <1>4
<1>6. Expected(d, manifest) = <<>> <=> d.patches = <<>>
  BY <1>1, <1>2, <1>4, <1>5
<1> QED BY <1>2, <1>5, <1>6

LEMMA EmbeddedTypes ==
    ASSUME NEW content, NEW manifest \in Manifest
    PROVE  Embedded(manifest, content) \in Records
BY RecordsTypes DEF Embedded, Manifest

----------------------------------------------------------------------------
\* What validation accepts.

\* Whatever names a mapped field runs, each transform is there and applies.
LEMMA AcceptedIsMapped ==
    ASSUME NEW d, Valid(d), NEW f \in Fields(d)
    PROVE  Resolves(d, d.mapping[f].runs)
<1> DEFINE names == d.mapping[f].runs
           known == names \cup UNION {d.transforms[t].steps : t \in DOMAIN d.transforms}
           run == AllRuns(d, names)
<1>1. TransformsAreDefined(d) /\ ParametersAreGiven(d)
  BY DEF Valid
<1>2. known \subseteq DOMAIN d.transforms /\ names \subseteq known
  BY <1>1 DEF TransformsAreDefined
<1>3. Runs(d, known)
  BY DEF Runs
<1>4. run \subseteq known
  BY DEF AllRuns
<1>5. ASSUME NEW t \in run
      PROVE  Applies(d.transforms[t])
  BY <1>1, <1>2, <1>4 DEF ParametersAreGiven, Applies
<1>6. Resolves(d, names) <=>
        run \subseteq DOMAIN d.transforms /\ \A t \in run : Applies(d.transforms[t])
  BY DEF Resolves
<1> HIDE DEF run
<1> QED BY <1>2, <1>4, <1>5, <1>6

\* Of rows of the archive an accepted document loses no value and meets no
\* enrichment that it cannot ask, whatever fields are given.
LEMMA AcceptedIsPrepared ==
    ASSUME NEW d, Valid(d), NEW given \in SUBSET Fields(d), NEW found \in Prepared(d, given)
    PROVE  /\ found.outcome \in {"none", "overflow"}
           /\ found.identified \in BOOLEAN
           /\ found.dropped = {}
<1>1. \A e \in d.enrichments : e.adapter \in d.endpoints /\ e.over # None
  BY DEF Valid, QueriesHaveEndpoints
<1>2. Errors(d, given) \subseteq {"overflow"}
  BY <1>1 DEF Errors, Asked
<1> DEFINE sure == {f \in given \cap Identities : d.mapping[f].runs = {}}
           drop == {f \in given : ~ Resolves(d, d.mapping[f].runs)}
<1>3. drop = {}
  BY AcceptedIsMapped
<1>4. CASE Errors(d, given) # {}
  <2>1. PICK x \in Errors(d, given) : found = Ends(x)
    BY <1>4 DEF Prepared
  <2> QED BY <2>1, <1>2 DEF Ends
<1>5. CASE Errors(d, given) = {}
  <2>1. PICK all \in {Identities \subseteq sure, TRUE} :
          found = [outcome |-> "none", identified |-> all, dropped |-> drop]
    BY <1>5 DEF Prepared
  <2>2. all \in BOOLEAN
    BY <2>1
  <2> HIDE DEF sure, drop
  <2> QED BY <2>1, <2>2, <1>3
<1> QED BY <1>4, <1>5

\* Discovery by an accepted document misses nothing.
LEMMA AcceptedIsDiscovered ==
    ASSUME NEW d, Valid(d), NEW found \in Discovered(d)
    PROVE  /\ found.outcome \in {"none", "nothing", "no_queries", "overflow"}
           /\ found.identified \in BOOLEAN
           /\ found.dropped = {}
<1>1. d.queries \subseteq d.endpoints
  BY DEF Valid, QueriesHaveEndpoints
<1>2. ASSUME NEW outcome \in {"nothing", "no_queries"}, found = Ends(outcome)
      PROVE  found.outcome = outcome /\ found.identified = FALSE /\ found.dropped = {}
  BY <1>2 DEF Ends
<1>3. CASE \E given \in SUBSET Fields(d) : found \in Prepared(d, given)
  BY <1>3, AcceptedIsPrepared
<1> QED BY <1>1, <1>2, <1>3 DEF Discovered

\* An accepted document that has a graph has its place and its digest.
LEMMA AcceptedIsServed ==
    ASSUME NEW d, Valid(d)
    PROVE  /\ "no_graph" \in Served(d) => d.graph = None
           /\ "none" \in Served(d) => d.graph # None
           /\ d.graph # None => Verified(d) # "no_digest"
           /\ Verified(d) = "none" => d.graph.sha256 = hosted
           /\ Served(d) \subseteq {"no_graph", "graph", "none"}
           /\ Verified(d) \in {"no_digest", "digest", "none"}
<1>1. d.graph # None => Cardinality(d.graph.from) = 1 /\ d.graph.sha256 # None
  BY DEF Valid, GraphIsPinned
<1>2. d.graph # None => d.graph.from # {}
  BY <1>1, FS_EmptySet
<1> QED BY <1>1, <1>2 DEF Served, Verified

\* A hook that ran is of the module that the document declares.
LEMMA CalledIsDeclared ==
    ASSUME NEW d, NEW hook, Called(d, hook) # None
    PROVE  Called(d, hook) = d.module /\ hook \in d.hooks
BY DEF Called, Load

\* The active revision is one of them.
LEMMA ActiveExists ==
    ASSUME Active # {}
    PROVE  ActiveVersion \in DOMAIN revisions
<1>1. ActiveVersion \in Active
  BY DEF ActiveVersion
<1> QED BY <1>1 DEF Active

----------------------------------------------------------------------------
\* An execution's step, as a change of its row alone.

LEMMA NewRowInv ==
    ASSUME NEW d
    PROVE  /\ RowInv(NewExecution, d)
           /\ \A v : RowInv([NewExecution EXCEPT !.pc = "queued", !.pinned = v], d)
BY DEF RowInv, RanInv, FailureInv, StoredInv, PatchedInv, SentInv, NewExecution

LEMMA RowTypes ==
    ASSUME NEW x \in Execution
    PROVE  /\ x.pc \in Stages /\ x.pinned \in 0..MaxRevisions
           /\ x.attempts \in 0..MaxAttempts /\ x.failure \in Failures
           /\ x.ran \in Ran /\ x.manifest \in Manifest
           /\ x.graph \in Translation \cup {None} /\ x.stored \in Manifest \cup {None}
           /\ x.sent \in Seq(Translation)
<1> HIDE DEF Stages, Failures, Ran, Manifest, Translation
<1> QED BY DEF Execution

\* Fail
LEMMA FailRow ==
    ASSUME NEW x \in Execution, NEW d, RowInv(x, d),
           NEW why \in Failures, why \in {"no_graph", "no_digest"} => d.graph = None
    PROVE  LET row == [x EXCEPT !.pc = "failed", !.failure = why]
           IN  row \in Execution /\ row.pinned = x.pinned /\ row.pc = "failed" /\ RowInv(row, d)
<1> DEFINE row == [x EXCEPT !.pc = "failed", !.failure = why]
<1>1. row \in Execution
  <2> HIDE DEF Failures, Ran, Manifest, Translation
  <2> QED BY DEF Execution, Stages
<1>2. /\ row.pc = "failed" /\ row.failure = why /\ row.ran = x.ran /\ row.stored = x.stored
      /\ row.sent = x.sent /\ row.pinned = x.pinned
  BY DEF Execution
<1> HIDE DEF row
<1>3. RowInv(row, d)
  BY <1>2 DEF RowInv, RanInv, FailureInv, StoredInv, PatchedInv, SentInv, GraphHookRan
<1> QED BY <1>1, <1>2, <1>3 DEF row

\* Start with the stored manifest
LEMMA StartStoredRow ==
    ASSUME NEW x \in Execution, NEW d, RowInv(x, d), x.pc = "queued",
           x.attempts < MaxAttempts, x.stored # None
    PROVE  LET row == [x EXCEPT !.attempts = @ + 1, !.pc = "complete", !.manifest = x.stored]
           IN  row \in Execution /\ row.pinned = x.pinned /\ row.pc = "complete" /\ RowInv(row, d)
<1> DEFINE row == [x EXCEPT !.attempts = @ + 1, !.pc = "complete", !.manifest = x.stored]
<1>1. row \in Execution
  <2>1. x.attempts + 1 \in 0..MaxAttempts
    BY RowTypes, RevisionsAssumption
  <2>2. x.stored \in Manifest
    BY RowTypes
  <2> HIDE DEF Failures, Ran, Manifest, Translation
  <2> QED BY <2>1, <2>2 DEF Execution, Stages
<1>2. /\ row.pc = "complete" /\ row.failure = x.failure /\ row.ran = x.ran
      /\ row.stored = x.stored /\ row.manifest = x.stored
      /\ row.sent = x.sent /\ row.pinned = x.pinned
  BY DEF Execution
<1> HIDE DEF row
<1>3. RowInv(row, d)
  BY <1>2 DEF RowInv, RanInv, FailureInv, StoredInv, PatchedInv, SentInv, GraphHookRan
<1> QED BY <1>1, <1>2, <1>3 DEF row

\* Start with what discovery registered
LEMMA StartNewRow ==
    ASSUME NEW x \in Execution, NEW d, RowInv(x, d), x.pc = "queued",
           x.attempts < MaxAttempts, x.stored = None, NEW registered \in Records
    PROVE  LET row == [x EXCEPT !.attempts = @ + 1, !.pc = "staged",
                                !.manifest.records = registered]
           IN  row \in Execution /\ row.pinned = x.pinned /\ row.pc = "staged" /\ RowInv(row, d)
<1> DEFINE row == [x EXCEPT !.attempts = @ + 1, !.pc = "staged",
                            !.manifest.records = registered]
<1>1. row \in Execution
  <2>1. x.attempts + 1 \in 0..MaxAttempts
    BY RowTypes, RevisionsAssumption
  <2>2. [x.manifest EXCEPT !.records = registered] \in Manifest
    <3>1. x.manifest \in Manifest
      BY RowTypes
    <3> HIDE DEF Records, Override
    <3> QED BY <3>1 DEF Manifest
  <2> HIDE DEF Failures, Ran, Manifest, Translation
  <2> QED BY <2>1, <2>2 DEF Execution, Stages
<1>2. /\ row.pc = "staged" /\ row.failure = x.failure /\ row.ran = x.ran
      /\ row.stored = None /\ row.sent = x.sent /\ row.pinned = x.pinned
  BY DEF Execution
<1> HIDE DEF row
<1>3. RowInv(row, d)
  BY <1>2 DEF RowInv, RanInv, FailureInv, StoredInv, PatchedInv, SentInv, GraphHookRan
<1> QED BY <1>1, <1>2, <1>3 DEF row

\* Retry and Redeliver
LEMMA QueuedAgainRow ==
    ASSUME NEW x \in Execution, NEW d, RowInv(x, d),
           NEW why \in {x.failure, "none"}
    PROVE  LET row == [x EXCEPT !.pc = "queued", !.failure = why,
                                !.manifest = NoManifest, !.graph = None]
           IN  row \in Execution /\ row.pinned = x.pinned /\ row.pc = "queued" /\ RowInv(row, d)
<1> DEFINE row == [x EXCEPT !.pc = "queued", !.failure = why,
                            !.manifest = NoManifest, !.graph = None]
<1>1. row \in Execution
  <2>1. why \in Failures
    BY RowTypes DEF Failures
  <2> HIDE DEF Failures, Ran, Manifest, Translation
  <2> QED BY <2>1, RecordsTypes DEF Execution, Stages
<1>2. /\ row.pc = "queued" /\ row.failure \in {x.failure, "none"} /\ row.ran = x.ran
      /\ row.stored = x.stored /\ row.sent = x.sent /\ row.pinned = x.pinned
  BY DEF Execution
<1> HIDE DEF row
<1>3. RowInv(row, d)
  BY <1>2 DEF RowInv, RanInv, FailureInv, StoredInv, PatchedInv, SentInv, GraphHookRan
<1> QED BY <1>1, <1>2, <1>3 DEF row

\* A step to the next stage that leaves everything else: Build, and a hook that
\* the document does not declare
LEMMA NextRow ==
    ASSUME NEW x \in Execution, NEW d, RowInv(x, d), NEW next \in Stages,
           \/ x.pc = "staged" /\ next = "built"
           \/ x.pc = "built" /\ next = "hooked"
           \/ x.pc = "patched" /\ next = "complete"
    PROVE  LET row == [x EXCEPT !.pc = next]
           IN  row \in Execution /\ row.pinned = x.pinned /\ row.pc = next /\ RowInv(row, d)
<1> DEFINE row == [x EXCEPT !.pc = next]
<1>1. row \in Execution
  <2> HIDE DEF Stages, Failures, Ran, Manifest, Translation
  <2> QED BY DEF Execution
<1>2. /\ row.pc = next /\ row.failure = x.failure /\ row.ran = x.ran
      /\ row.stored = x.stored /\ row.manifest = x.manifest /\ row.graph = x.graph
      /\ row.sent = x.sent /\ row.pinned = x.pinned
  BY DEF Execution
<1> HIDE DEF row
<1>3. RowInv(row, d)
  BY <1>2 DEF RowInv, RanInv, FailureInv, StoredInv, PatchedInv, SentInv, GraphHookRan
<1> QED BY <1>1, <1>2, <1>3 DEF row

\* A hook that ran, and wrote its overrides
HookedRow(x, hook, m, next) ==
    [[x EXCEPT !.pc = next] EXCEPT
        !.ran = @ \cup {[hook |-> hook, module |-> m]},
        !.manifest.overrides = Overrides[m]]

LEMMA HookRow ==
    ASSUME NEW x \in Execution, NEW d, RowInv(x, d), NEW m \in Modules, NEW hook \in Hooks,
           m = d.module, hook \in d.hooks, NEW next \in Stages,
           \/ x.pc = "built" /\ next = "hooked" /\ hook = "manifest"
           \/ x.pc = "patched" /\ next = "complete" /\ hook = "graph_patches"
    PROVE  LET row == HookedRow(x, hook, m, next)
           IN  row \in Execution /\ row.pinned = x.pinned /\ row.pc = next /\ RowInv(row, d)
<1> DEFINE call == [hook |-> hook, module |-> m]
           row == [[x EXCEPT !.pc = next] EXCEPT
                      !.ran = @ \cup {call},
                      !.manifest.overrides = Overrides[m]]
<1>1. row \in Execution
  <2>1. x.ran \cup {call} \in Ran
    BY RowTypes DEF Ran
  <2>2. [x.manifest EXCEPT !.overrides = Overrides[m]] \in Manifest
    <3>1. x.manifest \in Manifest /\ Overrides[m] \in Seq(Override)
      BY RowTypes, RevisionsAssumption
    <3> HIDE DEF Records, Override
    <3> QED BY <3>1 DEF Manifest
  <2> HIDE DEF Stages, Failures, Ran, Manifest, Translation, call
  <2> QED BY <2>1, <2>2 DEF Execution
<1>2. /\ row.pc = next /\ row.failure = x.failure /\ row.ran = x.ran \cup {call}
      /\ row.stored = x.stored /\ row.graph = x.graph
      /\ row.sent = x.sent /\ row.pinned = x.pinned
  BY DEF Execution
<1> HIDE DEF row
<1>3. call \in row.ran /\ \A r \in x.ran : r \in row.ran
  BY <1>2
<1>4. RanInv(row, d)
  BY <1>2 DEF RowInv, RanInv
<1>5. next = "complete" => GraphHookRan(row)
  BY <1>3 DEF GraphHookRan
<1>6. GraphHookRan(x) => GraphHookRan(row)
  BY <1>3 DEF GraphHookRan
<1> HIDE DEF call
<1>7. RowInv(row, d)
  BY <1>2, <1>4, <1>5, <1>6 DEF RowInv, FailureInv, StoredInv, PatchedInv, SentInv
<1> QED BY <1>1, <1>2, <1>7 DEF row, call, HookedRow

\* ApplyProjectPatches
LEMMA PatchRow ==
    ASSUME NEW x \in Execution, NEW d \in Documents, RowInv(x, d), x.pc = "hooked"
    PROVE  LET patches == [i \in DOMAIN d.patches |-> Evaluated(d.patches[i], x.manifest)]
               row == [x EXCEPT !.pc = "patched",
                         !.manifest.overrides = IF patches = <<>> THEN @ ELSE patches]
           IN  row \in Execution /\ row.pinned = x.pinned /\ row.pc = "patched" /\ RowInv(row, d)
<1> DEFINE patches == Expected(d, x.manifest)
           overrides == IF patches = <<>> THEN x.manifest.overrides ELSE patches
           manifest == [x.manifest EXCEPT !.overrides = overrides]
           row == [x EXCEPT !.pc = "patched", !.manifest = manifest]
<1>1. x.manifest \in Manifest
  BY RowTypes
<1>2. patches \in Seq(Override) /\ (patches = <<>> <=> d.patches = <<>>)
  BY <1>1, ExpectedTypes
<1>3. overrides \in Seq(Override)
  <2>1. x.manifest.overrides \in Seq(Override)
    BY <1>1 DEF Manifest
  <2> HIDE DEF patches
  <2> QED BY <1>2, <2>1
<1>4. /\ manifest \in Manifest /\ manifest.records = x.manifest.records
      /\ manifest.overrides = overrides
  <2> HIDE DEF overrides, Records, Override
  <2> QED BY <1>1, <1>3 DEF Manifest
<1>5. Follows(d, manifest)
  <2>1. Expected(d, manifest) = patches
    <3> HIDE DEF manifest
    <3> QED BY <1>4 DEF Expected, Evaluated
  <2>2. d.patches # <<>> => overrides = patches
    BY <1>2
  <2> HIDE DEF manifest, overrides, patches
  <2> QED BY <1>4, <2>1, <2>2 DEF Follows
<1> HIDE DEF manifest
<1>6. row \in Execution
  <2> HIDE DEF Failures, Ran, Manifest, Translation
  <2> QED BY <1>4 DEF Execution, Stages
<1>7. /\ row.pc = "patched" /\ row.failure = x.failure /\ row.ran = x.ran
      /\ row.stored = x.stored /\ row.manifest = manifest /\ row.graph = x.graph
      /\ row.sent = x.sent /\ row.pinned = x.pinned
  BY DEF Execution
<1>8. [x EXCEPT !.pc = "patched",
                !.manifest.overrides = IF patches = <<>> THEN @ ELSE patches] = row
  <2> HIDE DEF patches
  <2> QED BY DEF manifest, Execution
<1>9. RowInv(row, d)
  <2> HIDE DEF row
  <2> QED BY <1>5, <1>7 DEF RowInv, RanInv, FailureInv, StoredInv, PatchedInv, SentInv
<1> HIDE DEF row
<1> QED BY <1>6, <1>7, <1>8, <1>9 DEF patches, Expected

\* Translate
LEMMA TranslateRow ==
    ASSUME NEW x \in Execution, NEW d \in Documents, RowInv(x, d), x.pc = "complete",
           d.graph # None, d.graph.sha256 \in Contents,
           \A i \in DOMAIN x.manifest.overrides : Lands(x.manifest.overrides[i], d.graph.sha256)
    PROVE  LET row == [x EXCEPT !.pc = "translated", !.graph = GraphOf(d, x.manifest)]
           IN  row \in Execution /\ row.pinned = x.pinned /\ row.pc = "translated" /\ RowInv(row, d)
<1> DEFINE row == [x EXCEPT !.pc = "translated", !.graph = GraphOf(d, x.manifest)]
<1>1. x.manifest \in Manifest /\ x.manifest.overrides \in Seq(Override)
  BY RowTypes DEF Manifest
<1>2. GraphOf(d, x.manifest) \in Translation
  <2>1. Embedded(x.manifest, d.graph.sha256) \in Records
    BY <1>1, EmbeddedTypes
  <2>2. Patched(d.graph.sha256, x.manifest.overrides)
          \in UNION {[FieldsOf[c] -> Override \cup {None}] : c \in Contents}
    <3>1. Patched(d.graph.sha256, x.manifest.overrides)
            \in [FieldsOf[d.graph.sha256] -> Override \cup {None}]
      BY <1>1, PatchedTypes
    <3> QED BY <3>1
  <2> HIDE DEF Records
  <2> QED BY <2>1, <2>2 DEF GraphOf, Translation
<1>3. row \in Execution
  <2> HIDE DEF Failures, Ran, Manifest, Translation, GraphOf
  <2> QED BY <1>2 DEF Execution, Stages
<1>4. /\ row.pc = "translated" /\ row.failure = x.failure /\ row.ran = x.ran
      /\ row.stored = x.stored /\ row.manifest = x.manifest
      /\ row.graph = GraphOf(d, x.manifest)
      /\ row.sent = x.sent /\ row.pinned = x.pinned
  BY DEF Execution
<1> HIDE DEF row
<1>5. Sendable(d, row.graph, row.manifest)
  BY <1>2, <1>4, RevisionsAssumption DEF Sendable
<1>6. RowInv(row, d)
  BY <1>4, <1>5 DEF RowInv, RanInv, FailureInv, StoredInv, PatchedInv, SentInv, GraphHookRan
<1> QED BY <1>3, <1>4, <1>6 DEF row

\* Store: a manifest that was stored before is the same.
LEMMA StoreRow ==
    ASSUME NEW x \in Execution, NEW d, RowInv(x, d), x.pc = "translated"
    PROVE  LET row == [x EXCEPT !.pc = "stored", !.stored = x.manifest]
           IN  row \in Execution /\ row.pinned = x.pinned /\ row.pc = "stored" /\ RowInv(row, d)
<1> DEFINE row == [x EXCEPT !.pc = "stored", !.stored = x.manifest]
<1>1. x.manifest \in Manifest /\ x.manifest # None /\ x.sent \in Seq(Translation)
  BY RowTypes, RevisionsAssumption
<1>2. row \in Execution
  <2> HIDE DEF Failures, Ran, Manifest, Translation
  <2> QED BY <1>1 DEF Execution, Stages
<1>3. /\ row.pc = "stored" /\ row.failure = x.failure /\ row.ran = x.ran
      /\ row.stored = x.manifest /\ row.manifest = x.manifest /\ row.graph = x.graph
      /\ row.sent = x.sent /\ row.pinned = x.pinned
  BY DEF Execution
<1>4. x.sent # <<>> => x.stored = x.manifest
  BY DEF RowInv, StoredInv
<1>5. x.sent = <<>> => DOMAIN x.sent = {}
  OBVIOUS
<1> HIDE DEF row
<1>6. SentInv(row, d)
  BY <1>3, <1>4, <1>5 DEF RowInv, SentInv
<1>7. RanInv(row, d) /\ FailureInv(row, d) /\ StoredInv(row)
  BY <1>1, <1>3 DEF RowInv, RanInv, FailureInv, StoredInv
<1>8. PatchedInv(row, d)
  BY <1>3 DEF RowInv, PatchedInv, GraphHookRan
<1>9. RowInv(row, d)
  BY <1>3, <1>6, <1>7, <1>8 DEF RowInv
<1> QED BY <1>2, <1>3, <1>9 DEF row

\* Submit: what is sent is the graph of the stored manifest.
LEMMA SubmitRow ==
    ASSUME NEW x \in Execution, NEW d, RowInv(x, d), x.pc = "stored", NEW accepted \in BOOLEAN
    PROVE  LET row == [x EXCEPT !.sent = Append(@, x.graph),
                                !.pc = IF accepted THEN "submitted" ELSE "failed",
                                !.failure = IF accepted THEN "none" ELSE "submission"]
           IN  row \in Execution /\ row.pinned = x.pinned /\ row.pc # "absent" /\ RowInv(row, d)
<1> DEFINE pc == IF accepted THEN "submitted" ELSE "failed"
           failure == IF accepted THEN "none" ELSE "submission"
           sent == Append(x.sent, x.graph)
           row == [x EXCEPT !.sent = sent, !.pc = pc, !.failure = failure]
<1>1. pc \in {"submitted", "failed"} /\ failure \in {"none", "submission"}
  OBVIOUS
<1>2. x.stored = x.manifest /\ Sendable(d, x.graph, x.stored)
  BY DEF RowInv, StoredInv, SentInv
<1>3. x.stored # None /\ x.graph \in Translation
  <2>1. x.manifest # None
    BY RowTypes, RevisionsAssumption
  <2>2. x.graph # None
    BY <1>2 DEF Sendable
  <2> QED BY <1>2, <2>1, <2>2, RowTypes
<1>4. x.sent \in Seq(Translation)
  BY RowTypes
<1>5. sent \in Seq(Translation)
  BY <1>3, <1>4
<1>6. \A i \in DOMAIN sent : sent[i] = x.graph \/ (i \in DOMAIN x.sent /\ sent[i] = x.sent[i])
  BY <1>3, <1>4
<1> HIDE DEF pc, failure, sent
<1>7. row \in Execution
  <2>1. pc \in Stages /\ failure \in Failures
    BY <1>1 DEF Stages, Failures
  <2> HIDE DEF Stages, Failures, Ran, Manifest, Translation
  <2> QED BY <2>1, <1>5 DEF Execution
<1>8. /\ row.pc = pc /\ row.failure = failure /\ row.ran = x.ran
      /\ row.stored = x.stored /\ row.manifest = x.manifest /\ row.graph = x.graph
      /\ row.sent = sent /\ row.pinned = x.pinned
  BY DEF Execution
<1> HIDE DEF row
<1>9. SentInv(row, d)
  BY <1>1, <1>2, <1>6, <1>8 DEF RowInv, SentInv
<1>10. RanInv(row, d) /\ FailureInv(row, d) /\ StoredInv(row)
  BY <1>1, <1>3, <1>8 DEF RowInv, RanInv, FailureInv, StoredInv
<1>11. PatchedInv(row, d)
  BY <1>1, <1>8 DEF RowInv, PatchedInv, GraphHookRan
<1>12. RowInv(row, d)
  BY <1>1, <1>8, <1>9, <1>10, <1>11 DEF RowInv
<1> QED BY <1>1, <1>7, <1>8, <1>12 DEF row, pc, failure, sent

----------------------------------------------------------------------------
\* Steps.

LEMMA InitStep == Init => IInv
<1> SUFFICES ASSUME Init PROVE IInv
  OBVIOUS
<1>1. NewExecution \in Execution /\ NewExecution.pc = "absent"
  <2>1. {} \in Ran /\ <<>> \in Seq(Translation)
    BY DEF Ran
  <2>2. 0 \in 0..MaxRevisions /\ 0 \in 0..MaxAttempts
    BY RevisionsAssumption
  <2> HIDE DEF Ran, Manifest, Translation
  <2> QED BY <2>1, <2>2, RecordsTypes DEF NewExecution, Execution, Stages, Failures
<1>2. TypeOK
  <2>1. <<>> \in Seq(Revision) /\ Len(<<>>) <= MaxRevisions /\ 0 \in 0..MaxUploads
    BY RevisionsAssumption
  <2>2. NoDiscovery \in DiscoveryType
    BY RevisionsAssumption DEF NoDiscovery, Outcomes, DiscoveryType
  <2>3. NoRequest \in Request
    BY DEF Request
  <2>4. request \in [Clients -> Request]
    BY <2>3 DEF Init
  <2>5. execution \in [Executions -> Execution]
    BY <1>1 DEF Init
  <2> HIDE DEF Revision, Request, Execution, Records, NoDiscovery, NoRecords
  <2> QED BY <2>1, <2>2, <2>4, <2>5, RecordsTypes DEF Init, TypeOK, DiscoveryType
<1>3. RevisionInv /\ NewestIsActive
  BY DEF Init, RevisionInv, NewestIsActive
<1>4. RequestInv
  BY DEF Init, RequestInv, NoRequest
<1>5. DiscoveryInv /\ RecordsInv
  BY DEF Init, DiscoveryInv, RecordsInv, NoDiscovery, NoRecords
<1>6. ExecutionInv
  BY <1>1, NewRowInv DEF Init, ExecutionInv, PinnedInv
<1> QED BY <1>2, <1>3, <1>4, <1>5, <1>6 DEF IInv

LEMMA DocTypes ==
    ASSUME TypeOK, NEW v \in DOMAIN revisions
    PROVE  revisions[v].doc \in Documents /\ v \in 1..MaxRevisions
<1>1. revisions \in Seq(Revision) /\ Len(revisions) <= MaxRevisions /\ MaxRevisions \in Nat
  BY RevisionsAssumption DEF TypeOK
<1>2. revisions[v] \in Revision /\ v \in 1..Len(revisions) /\ Len(revisions) \in Nat
  BY <1>1
<1>3. revisions[v].doc \in Documents
  BY <1>2 DEF Revision
<1> QED BY <1>1, <1>2, <1>3

\* A row that did not change, with revisions that are kept
LEMMA RowsKept ==
    ASSUME ExecutionInv, Kept, UNCHANGED execution
    PROVE  ExecutionInv'
<1> SUFFICES ASSUME NEW e \in Executions
             PROVE  PinnedInv(e)' /\ RowInv(execution[e], Doc(e))'
  BY DEF ExecutionInv
<1>1. PinnedInv(e) /\ RowInv(execution[e], Doc(e))
  BY DEF ExecutionInv
<1>2. PinnedInv(e)'
  BY <1>1 DEF PinnedInv, Kept
<1>3. CASE execution[e].pc = "absent"
  <2>1. execution'[e] = NewExecution
    BY <1>1, <1>3 DEF RowInv
  <2>2. RowInv(NewExecution, Doc(e)')
    BY NewRowInv
  <2> QED BY <1>2, <2>1, <2>2
<1>4. CASE execution[e].pc # "absent"
  <2>1. execution' = execution /\ execution[e].pinned \in DOMAIN revisions
    BY <1>1, <1>4 DEF PinnedInv
  <2>2. revisions'[execution[e].pinned].doc = revisions[execution[e].pinned].doc
    BY <2>1 DEF Kept
  <2>3. Doc(e)' = Doc(e)
    BY <2>1, <2>2 DEF Doc
  <2> QED BY <1>1, <1>2, <2>1, <2>3
<1> QED BY <1>2, <1>3, <1>4

LEMMA RecordsKept ==
    ASSUME RecordsInv, Kept, UNCHANGED records
    PROVE  RecordsInv'
BY DEF RecordsInv, Kept

\* What Become does, given what the row is.
LEMMA Becomes ==
    ASSUME IInv, NEW e \in Executions, NEW row \in Execution, Become(e, row),
           row.pc # "absent", row.pinned \in DOMAIN revisions,
           RowInv(row, revisions[row.pinned].doc)
    PROVE  IInv' /\ Kept
<1>1. /\ UNCHANGED <<revisions, request, uploads, hosted, discovery, records>>
      /\ execution' = [execution EXCEPT ![e] = row]
  BY DEF Become, system
<1>2. Kept
  BY <1>1 DEF Kept
<1>3. execution \in [Executions -> Execution]
  BY DEF IInv, TypeOK
<1>4. TypeOK'
  <2>1. execution' \in [Executions -> Execution]
    BY <1>1, <1>3
  <2> HIDE DEF Execution, Request, Revision, Records
  <2> QED BY <1>1, <2>1 DEF IInv, TypeOK
<1>5. (RevisionInv /\ RequestInv /\ NewestIsActive /\ DiscoveryInv /\ RecordsInv)'
  BY <1>1 DEF IInv, RevisionInv, RequestInv, NewestIsActive, Active, DiscoveryInv, RecordsInv
<1>6. ASSUME NEW f \in Executions
      PROVE  PinnedInv(f)' /\ RowInv(execution[f], Doc(f))'
  <2>1. CASE f = e
    <3>1. execution'[f] = row
      BY <1>1, <1>3, <2>1
    <3>2. Doc(f)' = revisions[row.pinned].doc
      BY <1>1, <3>1 DEF Doc
    <3> QED BY <1>1, <3>1, <3>2 DEF PinnedInv
  <2>2. CASE f # e
    <3>1. execution'[f] = execution[f]
      BY <1>1, <1>3, <2>2
    <3>2. Doc(f)' = Doc(f)
      BY <1>1, <3>1 DEF Doc
    <3>3. PinnedInv(f) /\ RowInv(execution[f], Doc(f))
      BY DEF IInv, ExecutionInv
    <3> QED BY <1>1, <3>1, <3>2, <3>3 DEF PinnedInv
  <2> QED BY <2>1, <2>2
<1> QED BY <1>2, <1>4, <1>5, <1>6 DEF IInv, ExecutionInv

----------------------------------------------------------------------------
\* An execution's actions.

\* What its action has of an execution that exists
LEMMA RowOf ==
    ASSUME IInv, NEW e \in Executions, execution[e].pc # "absent"
    PROVE  /\ execution[e] \in Execution
           /\ execution[e].pinned \in DOMAIN revisions
           /\ Doc(e) = revisions[execution[e].pinned].doc
           /\ Doc(e) \in Documents /\ Valid(Doc(e))
           /\ RowInv(execution[e], Doc(e))
<1>1. execution[e] \in Execution
  BY DEF IInv, TypeOK
<1>2. PinnedInv(e) /\ RowInv(execution[e], Doc(e))
  BY DEF IInv, ExecutionInv
<1>3. execution[e].pinned \in DOMAIN revisions
  BY <1>2 DEF PinnedInv
<1>4. Doc(e) \in Documents /\ Valid(Doc(e))
  BY <1>3, DocTypes DEF IInv, RevisionInv, Doc
<1> QED BY <1>1, <1>2, <1>3, <1>4 DEF Doc

LEMMA FailStep ==
    ASSUME IInv, NEW e \in Executions, execution[e].pc # "absent", NEW why \in Failures,
           why \in {"no_graph", "no_digest"} => Doc(e).graph = None, Fail(e, why)
    PROVE  IInv' /\ Kept
<1> DEFINE row == [execution[e] EXCEPT !.pc = "failed", !.failure = why]
<1>1. /\ row \in Execution /\ row.pinned = execution[e].pinned
      /\ row.pc = "failed" /\ RowInv(row, Doc(e))
  <2>1. execution[e] \in Execution /\ RowInv(execution[e], Doc(e))
    BY RowOf
  <2>2. ASSUME NEW x \in Execution, NEW d, RowInv(x, d),
               why \in {"no_graph", "no_digest"} => d.graph = None
        PROVE  LET next == [x EXCEPT !.pc = "failed", !.failure = why]
               IN  /\ next \in Execution /\ next.pinned = x.pinned
                   /\ next.pc = "failed" /\ RowInv(next, d)
    BY <2>2, FailRow
  <2> QED BY <2>1, <2>2
<1>2. Become(e, row)
  BY DEF Fail
<1> HIDE DEF row
<1> QED BY <1>1, <1>2, RowOf, Becomes

LEMMA CreateStep ==
    ASSUME IInv, NEW e \in Executions, Create(e)
    PROVE  IInv' /\ Kept
<1> DEFINE row == [NewExecution EXCEPT !.pc = "queued", !.pinned = ActiveVersion]
<1>1. Active # {} /\ Become(e, row) /\ execution[e].pc = "absent"
  BY DEF Create
<1>2. ActiveVersion \in DOMAIN revisions /\ ActiveVersion \in 0..MaxRevisions
  BY <1>1, ActiveExists, DocTypes DEF IInv
<1>3. NewExecution \in Execution
  BY <1>1 DEF IInv, TypeOK, ExecutionInv, RowInv
<1>4. row \in Execution
  <2> HIDE DEF Failures, Ran, Manifest, Translation
  <2> QED BY <1>2, <1>3 DEF Execution, Stages
<1>5. row.pc = "queued" /\ row.pinned = ActiveVersion
  BY DEF NewExecution
<1>6. RowInv(row, revisions[ActiveVersion].doc)
  BY NewRowInv
<1> HIDE DEF row
<1> QED BY <1>1, <1>2, <1>4, <1>5, <1>6, Becomes

LEMMA StartStep ==
    ASSUME IInv, NEW e \in Executions, Start(e)
    PROVE  IInv' /\ Kept
<1>1. execution[e].pc = "queued" /\ execution[e].attempts < MaxAttempts
  BY DEF Start
<1>2. CASE execution[e].stored # None
  <2> DEFINE row == [execution[e] EXCEPT !.attempts = @ + 1, !.pc = "complete",
                                         !.manifest = execution[e].stored]
  <2>1. /\ row \in Execution /\ row.pinned = execution[e].pinned
        /\ row.pc = "complete" /\ RowInv(row, Doc(e))
    BY <1>1, <1>2, RowOf, StartStoredRow
  <2>2. Become(e, row)
    BY <1>2 DEF Start
  <2> HIDE DEF row
  <2> QED BY <1>1, <2>1, <2>2, RowOf, Becomes
<1>3. CASE execution[e].stored = None
  <2> DEFINE row == [execution[e] EXCEPT !.attempts = @ + 1, !.pc = "staged",
                                         !.manifest.records = records]
  <2>1. records \in Records
    BY DEF IInv, TypeOK
  <2>2. /\ row \in Execution /\ row.pinned = execution[e].pinned
        /\ row.pc = "staged" /\ RowInv(row, Doc(e))
    BY <1>1, <1>3, <2>1, RowOf, StartNewRow
  <2>3. Become(e, row)
    BY <1>3 DEF Start
  <2> HIDE DEF row
  <2> QED BY <1>1, <2>2, <2>3, RowOf, Becomes
<1> QED BY <1>2, <1>3

LEMMA BuildStep ==
    ASSUME IInv, NEW e \in Executions, Build(e)
    PROVE  IInv' /\ Kept
<1>1. execution[e].pc = "staged"
  BY DEF Build
<1>2. CASE Fail(e, "records")
  BY <1>1, <1>2, FailStep DEF Failures
<1>3. CASE Become(e, [execution[e] EXCEPT !.pc = "built"])
  <2> DEFINE row == [execution[e] EXCEPT !.pc = "built"]
  <2>1. /\ row \in Execution /\ row.pinned = execution[e].pinned
        /\ row.pc = "built" /\ RowInv(row, Doc(e))
    <3>1. "built" \in Stages
      BY DEF Stages
    <3> QED BY <1>1, <3>1, RowOf, NextRow
  <2>2. Become(e, row)
    BY <1>3
  <2> HIDE DEF row
  <2> QED BY <1>1, <2>1, <2>2, RowOf, Becomes
<1> QED BY <1>2, <1>3 DEF Build

\* ManifestHook and GraphPatchesHook
LEMMA HookedStep ==
    ASSUME IInv, NEW e \in Executions, NEW hook \in Hooks, NEW next \in Stages,
           \/ execution[e].pc = "built" /\ next = "hooked" /\ hook = "manifest"
           \/ execution[e].pc = "patched" /\ next = "complete" /\ hook = "graph_patches",
           Hooked(e, hook, next)
    PROVE  IInv' /\ Kept
<1> DEFINE m == Called(Doc(e), hook)
           row == [execution[e] EXCEPT !.pc = next]
           ran == HookedRow(execution[e], hook, m, next)
<1>1. execution[e].pc # "absent" /\ next # "absent"
  OBVIOUS
<1>2. CASE m = None
  <2>1. row \in Execution /\ row.pinned = execution[e].pinned /\ row.pc = next /\ RowInv(row, Doc(e))
    BY <1>1, RowOf, NextRow
  <2>2. Become(e, row)
    BY <1>2 DEF Hooked
  <2> HIDE DEF row
  <2> QED BY <1>1, <2>1, <2>2, RowOf, Becomes
<1>3. CASE m # None /\ CallFails(m, hook)
  <2>1. Fail(e, "hook")
    BY <1>3 DEF Hooked
  <2> QED BY <1>1, <2>1, FailStep DEF Failures
<1>4. CASE m # None /\ ~ CallFails(m, hook)
  <2>1. m = Doc(e).module /\ hook \in Doc(e).hooks
    BY <1>4, CalledIsDeclared
  <2>2. m \in Modules
    BY <1>1, <1>4, <2>1, RowOf, DocumentsAssumption DEF IsDocument
  <2>3. ran \in Execution /\ ran.pinned = execution[e].pinned /\ ran.pc = next /\ RowInv(ran, Doc(e))
    <3>1. execution[e] \in Execution /\ RowInv(execution[e], Doc(e))
      BY <1>1, RowOf
    <3> QED BY <2>1, <2>2, <3>1, HookRow
  <2>4. Become(e, ran)
    BY <1>4 DEF Hooked, HookedRow
  <2> HIDE DEF ran, row, m
  <2> QED BY <1>1, <2>3, <2>4, RowOf, Becomes
<1> QED BY <1>2, <1>3, <1>4

LEMMA PatchStep ==
    ASSUME IInv, NEW e \in Executions, ApplyProjectPatches(e)
    PROVE  IInv' /\ Kept
<1> DEFINE patches == [i \in DOMAIN Doc(e).patches |->
                          Evaluated(Doc(e).patches[i], execution[e].manifest)]
           row == [execution[e] EXCEPT !.pc = "patched",
                      !.manifest.overrides = IF patches = <<>> THEN @ ELSE patches]
<1>1. execution[e].pc = "hooked" /\ Become(e, row)
  BY DEF ApplyProjectPatches
<1>2. /\ execution[e] \in Execution /\ RowInv(execution[e], Doc(e))
      /\ Doc(e) \in Documents
  BY <1>1, RowOf
<1>3. /\ row \in Execution /\ row.pinned = execution[e].pinned
      /\ row.pc = "patched" /\ RowInv(row, Doc(e))
  BY <1>1, <1>2, PatchRow
<1> HIDE DEF row
<1> QED BY <1>1, <1>3, RowOf, Becomes

LEMMA TranslateStep ==
    ASSUME IInv, NEW e \in Executions, Translate(e)
    PROVE  IInv' /\ Kept
<1>1. execution[e].pc = "complete"
  BY DEF Translate
<1>2. /\ execution[e] \in Execution /\ RowInv(execution[e], Doc(e))
      /\ Doc(e) \in Documents /\ Valid(Doc(e))
  BY <1>1, RowOf
<1>3. PICK served \in Served(Doc(e)) :
        IF served # "none" THEN Fail(e, served)
        ELSE IF Verified(Doc(e)) # "none" THEN Fail(e, Verified(Doc(e)))
        ELSE IF \E i \in DOMAIN execution[e].manifest.overrides :
                    ~ Lands(execution[e].manifest.overrides[i], hosted)
             THEN Fail(e, "patch")
        ELSE Become(e, [execution[e] EXCEPT !.pc = "translated", !.graph = Translated(e)])
  BY DEF Translate
<1>4. CASE served # "none"
  <2>1. Fail(e, served) /\ served \in {"no_graph", "graph"}
    BY <1>2, <1>3, <1>4, AcceptedIsServed
  <2>2. served = "no_graph" => Doc(e).graph = None
    BY <1>2, AcceptedIsServed
  <2> QED BY <1>1, <2>1, <2>2, FailStep DEF Failures
<1>5. CASE served = "none" /\ Verified(Doc(e)) # "none"
  <2>1. Fail(e, Verified(Doc(e))) /\ Doc(e).graph # None
    BY <1>2, <1>3, <1>5, AcceptedIsServed
  <2>2. Verified(Doc(e)) = "digest"
    BY <1>2, <1>5, <2>1, AcceptedIsServed
  <2> QED BY <1>1, <2>1, <2>2, FailStep DEF Failures
<1>6. CASE /\ served = "none" /\ Verified(Doc(e)) = "none"
           /\ \E i \in DOMAIN execution[e].manifest.overrides :
                    ~ Lands(execution[e].manifest.overrides[i], hosted)
  <2>1. Fail(e, "patch")
    BY <1>3, <1>6
  <2> QED BY <1>1, <2>1, FailStep DEF Failures
<1>7. CASE /\ served = "none" /\ Verified(Doc(e)) = "none"
           /\ \A i \in DOMAIN execution[e].manifest.overrides :
                    Lands(execution[e].manifest.overrides[i], hosted)
  <2> DEFINE row == [execution[e] EXCEPT !.pc = "translated",
                                         !.graph = GraphOf(Doc(e), execution[e].manifest)]
  <2>1. Doc(e).graph # None /\ Doc(e).graph.sha256 = hosted /\ hosted \in Contents
    BY <1>2, <1>7, AcceptedIsServed DEF IInv, TypeOK
  <2>2. Translated(e) = GraphOf(Doc(e), execution[e].manifest)
    BY <2>1 DEF Translated, GraphOf
  <2>3. Become(e, row)
    BY <1>3, <1>7, <2>2
  <2>4. /\ row \in Execution /\ row.pinned = execution[e].pinned
        /\ row.pc = "translated" /\ RowInv(row, Doc(e))
    <3>1. \A i \in DOMAIN execution[e].manifest.overrides :
              Lands(execution[e].manifest.overrides[i], Doc(e).graph.sha256)
      BY <1>7, <2>1
    <3> QED BY <1>1, <1>2, <2>1, <3>1, TranslateRow
  <2> HIDE DEF row
  <2> QED BY <1>1, <2>3, <2>4, RowOf, Becomes
<1> QED BY <1>4, <1>5, <1>6, <1>7

LEMMA StoreStep ==
    ASSUME IInv, NEW e \in Executions, Store(e)
    PROVE  IInv' /\ Kept
<1> DEFINE row == [execution[e] EXCEPT !.pc = "stored", !.stored = execution[e].manifest]
<1>1. execution[e].pc = "translated" /\ Become(e, row)
  BY DEF Store
<1>2. execution[e] \in Execution /\ RowInv(execution[e], Doc(e))
  BY <1>1, RowOf
<1>3. /\ row \in Execution /\ row.pinned = execution[e].pinned
      /\ row.pc = "stored" /\ RowInv(row, Doc(e))
  BY <1>1, <1>2, StoreRow
<1> HIDE DEF row
<1> QED BY <1>1, <1>3, RowOf, Becomes

LEMMA SubmitStep ==
    ASSUME IInv, NEW e \in Executions, Submit(e)
    PROVE  IInv' /\ Kept
<1>1. execution[e].pc = "stored"
  BY DEF Submit
<1>2. PICK accepted \in BOOLEAN :
        Become(e, [execution[e] EXCEPT
            !.sent = Append(@, execution[e].graph),
            !.pc = IF accepted THEN "submitted" ELSE "failed",
            !.failure = IF accepted THEN "none" ELSE "submission"])
  BY DEF Submit
<1> DEFINE row == [execution[e] EXCEPT
                     !.sent = Append(@, execution[e].graph),
                     !.pc = IF accepted THEN "submitted" ELSE "failed",
                     !.failure = IF accepted THEN "none" ELSE "submission"]
<1>3. execution[e] \in Execution /\ RowInv(execution[e], Doc(e))
  BY <1>1, RowOf
<1>4. /\ row \in Execution /\ row.pinned = execution[e].pinned
      /\ row.pc # "absent" /\ RowInv(row, Doc(e))
  BY <1>1, <1>3, SubmitRow
<1>5. Become(e, row)
  BY <1>2
<1> HIDE DEF row
<1> QED BY <1>1, <1>4, <1>5, RowOf, Becomes

\* Retry and Redeliver
LEMMA QueuedAgainStep ==
    ASSUME IInv, NEW e \in Executions, Retry(e) \/ Redeliver(e)
    PROVE  IInv' /\ Kept
<1>1. execution[e].pc # "absent"
  BY DEF Retry, Redeliver
<1>2. execution[e] \in Execution /\ RowInv(execution[e], Doc(e))
  BY <1>1, RowOf
<1>3. PICK why \in {execution[e].failure, "none"} :
        Become(e, [execution[e] EXCEPT !.pc = "queued", !.failure = why,
                                       !.manifest = NoManifest, !.graph = None])
  <2>1. CASE Retry(e)
    BY <2>1 DEF Retry
  <2>2. CASE Redeliver(e)
    <3>1. [execution[e] EXCEPT !.pc = "queued", !.manifest = NoManifest, !.graph = None]
          = [execution[e] EXCEPT !.pc = "queued", !.failure = execution[e].failure,
                                 !.manifest = NoManifest, !.graph = None]
      BY <1>2 DEF Execution
    <3> QED BY <2>2, <3>1 DEF Redeliver
  <2> QED BY <2>1, <2>2
<1> DEFINE row == [execution[e] EXCEPT !.pc = "queued", !.failure = why,
                                       !.manifest = NoManifest, !.graph = None]
<1>4. /\ row \in Execution /\ row.pinned = execution[e].pinned
      /\ row.pc = "queued" /\ RowInv(row, Doc(e))
  BY <1>2, QueuedAgainRow
<1>5. Become(e, row)
  BY <1>3
<1> HIDE DEF row
<1> QED BY <1>1, <1>4, <1>5, RowOf, Becomes

----------------------------------------------------------------------------
\* Operators and discovery.

LEMMA RequestTypes ==
    ASSUME IInv, NEW c \in Clients
    PROVE  /\ request[c] \in Request
           /\ request[c].pc = "config" =>
                /\ request[c].doc \in Documents /\ request[c].version \in Versions
                /\ Valid(request[c].doc)
           /\ request[c].pc = "wasm" =>
                request[c].module \in Modules /\ request[c].version \in DOMAIN revisions
<1>1. request[c] \in Request
  BY DEF IInv, TypeOK
<1> QED BY <1>1 DEF Request, NoRequest, IInv, RequestInv

\* What an operator's step leaves of the invariant, given the revisions
LEMMA Operates ==
    ASSUME IInv, UNCHANGED use, Kept, revisions' \in Seq(Revision), Len(revisions') <= MaxRevisions,
           request' \in [Clients -> Request], uploads' \in 0..MaxUploads,
           RevisionInv', RequestInv', NewestIsActive'
    PROVE  IInv' /\ Kept
<1>1. UNCHANGED <<hosted, discovery, records, execution>>
  BY DEF use
<1>2. TypeOK'
  <2> HIDE DEF Revision, Request, Execution, Records
  <2> QED BY <1>1 DEF IInv, TypeOK
<1>3. DiscoveryInv'
  BY <1>1 DEF IInv, DiscoveryInv, Kept
<1>4. RecordsInv' /\ ExecutionInv'
  BY <1>1, RecordsKept, RowsKept DEF IInv
<1> QED BY <1>2, <1>3, <1>4 DEF IInv

LEMMA BeginUploadStep ==
    ASSUME IInv, NEW c \in Clients, NEW d \in Documents, BeginUpload(c, d)
    PROVE  IInv' /\ Kept
<1> DEFINE row == [pc |-> "config", doc |-> d, version |-> Len(revisions) + 1]
<1>1. /\ UNCHANGED <<revisions, uploads, use>> /\ Valid(d)
      /\ Len(revisions) < MaxRevisions /\ request' = [request EXCEPT ![c] = row]
  BY DEF BeginUpload
<1>2. /\ revisions \in Seq(Revision) /\ Len(revisions) <= MaxRevisions /\ uploads \in 0..MaxUploads
      /\ request \in [Clients -> Request]
  <2> HIDE DEF Revision, Request
  <2> QED BY DEF IInv, TypeOK
<1>3. row \in Request
  BY <1>1, <1>2, RevisionsAssumption DEF Request, Versions
<1>4. request' \in [Clients -> Request]
  <2> HIDE DEF Request, row
  <2> QED BY <1>1, <1>2, <1>3
<1>5. RevisionInv' /\ NewestIsActive' /\ Kept
  BY <1>1 DEF IInv, RevisionInv, NewestIsActive, Active, Kept
<1>6. RequestInv'
  BY <1>1, <1>2 DEF IInv, RequestInv
<1>7. UNCHANGED use
  BY <1>1
<1> QED BY <1>1, <1>2, <1>4, <1>5, <1>6, <1>7, Operates

LEMMA CommitUploadStep ==
    ASSUME IInv, NEW c \in Clients, CommitUpload(c)
    PROVE  IInv' /\ Kept
<1> DEFINE d == request[c].doc
           next == Append(Deactivated, NewRevision(d))
<1>1. /\ request[c].pc = "config" /\ UNCHANGED uploads /\ UNCHANGED use
      /\ request' = [request EXCEPT ![c] = NoRequest]
      /\ revisions' = IF request[c].version = Len(revisions) + 1 THEN next ELSE revisions
  BY DEF CommitUpload
<1>2. /\ revisions \in Seq(Revision) /\ Len(revisions) <= MaxRevisions /\ uploads \in 0..MaxUploads
      /\ request \in [Clients -> Request]
  <2> HIDE DEF Revision, Request
  <2> QED BY DEF IInv, TypeOK
<1>3. d \in Documents /\ Valid(d) /\ request[c].version \in Versions
  BY <1>1, RequestTypes
<1>4. request' \in [Clients -> Request] /\ uploads' \in 0..MaxUploads
  <2>1. NoRequest \in Request
    BY DEF Request
  <2> HIDE DEF Request, NoRequest
  <2> QED BY <1>1, <1>2, <2>1
<1>5. /\ \A v \in DOMAIN revisions :
           /\ Deactivated[v] \in Revision /\ Deactivated[v].doc = revisions[v].doc
           /\ Deactivated[v].active = FALSE
      /\ Deactivated \in Seq(Revision) /\ Len(Deactivated) = Len(revisions)
  <2>1. DOMAIN revisions = 1..Len(revisions) /\ Len(revisions) \in Nat
    BY <1>2
  <2>2. ASSUME NEW v \in DOMAIN revisions
        PROVE  /\ Deactivated[v] \in Revision /\ Deactivated[v].doc = revisions[v].doc
               /\ Deactivated[v].active = FALSE
    <3>1. revisions[v] \in Revision
      BY <1>2, <2>1
    <3> QED BY <3>1 DEF Deactivated, Revision
  <2>3. Deactivated \in [1..Len(revisions) -> Revision]
    <3> HIDE DEF Revision
    <3> QED BY <2>1, <2>2 DEF Deactivated
  <2>4. Deactivated \in Seq(Revision)
    <3> HIDE DEF Revision, Deactivated
    <3> QED BY <2>1, <2>3
  <2>5. Len(Deactivated) = Len(revisions)
    <3>1. DOMAIN Deactivated = 1..Len(revisions)
      BY <2>1 DEF Deactivated
    <3> HIDE DEF Revision, Deactivated
    <3> QED BY <2>1, <2>4, <3>1
  <2> QED BY <2>2, <2>4, <2>5
<1>6. /\ NewRevision(d) \in Revision /\ NewRevision(d).doc = d /\ NewRevision(d).active = TRUE
  BY <1>3 DEF NewRevision, Revision
<1>7. CASE request[c].version = Len(revisions) + 1
  <2>1. /\ revisions' = next /\ revisions' \in Seq(Revision)
        /\ Len(revisions') = Len(revisions) + 1
        /\ DOMAIN revisions = 1..Len(revisions) /\ DOMAIN revisions' = 1..Len(revisions) + 1
        /\ \A v \in DOMAIN revisions : revisions'[v] = Deactivated[v]
        /\ revisions'[Len(revisions) + 1] = NewRevision(d)
    <3> HIDE DEF Revision, d
    <3> QED BY <1>1, <1>2, <1>5, <1>6, <1>7
  <2>2. Len(revisions') <= MaxRevisions
    BY <1>3, <1>7, <2>1 DEF Versions
  <2>3. Kept
    BY <1>2, <1>5, <2>1 DEF Kept
  <2>4. RevisionInv'
    <3>1. \A v \in DOMAIN revisions' : v \in DOMAIN revisions \/ v = Len(revisions) + 1
      BY <1>2, <2>1
    <3> QED BY <1>3, <1>5, <1>6, <2>1, <3>1 DEF IInv, RevisionInv
  <2>5. NewestIsActive'
    <3>1. \A v \in DOMAIN revisions' : v \in DOMAIN revisions \/ v = Len(revisions) + 1
      BY <1>2, <2>1
    <3>2. \A v \in DOMAIN revisions' : revisions'[v].active <=> v = Len(revisions) + 1
      BY <1>2, <1>5, <1>6, <2>1, <3>1
    <3>3. Len(revisions) + 1 \in DOMAIN revisions'
      BY <1>2, <2>1
    <3> QED BY <2>1, <3>2, <3>3 DEF NewestIsActive, Active
  <2>6. RequestInv'
    <3> SUFFICES ASSUME NEW b \in Clients
                 PROVE  /\ request'[b].pc = "config" => Valid(request'[b].doc)
                        /\ request'[b].pc = "wasm" => request'[b].version \in DOMAIN revisions'
      BY DEF RequestInv
    <3>1. request'[b] = IF b = c THEN NoRequest ELSE request[b]
      BY <1>1, <1>2
    <3> QED BY <2>3, <3>1 DEF IInv, RequestInv, NoRequest, Kept
  <2> HIDE DEF next, d
  <2> QED BY <1>1, <1>4, <2>1, <2>2, <2>3, <2>4, <2>5, <2>6, Operates
<1>8. CASE request[c].version # Len(revisions) + 1
  <2>1. UNCHANGED revisions
    BY <1>1, <1>8
  <2>2. RevisionInv' /\ NewestIsActive' /\ Kept
    BY <2>1 DEF IInv, RevisionInv, NewestIsActive, Active, Kept
  <2>3. RequestInv'
    BY <1>1, <1>2, <2>1 DEF IInv, RequestInv, NoRequest
  <2>4. revisions' \in Seq(Revision) /\ Len(revisions') <= MaxRevisions
    BY <1>2, <2>1
  <2> HIDE DEF next, d
  <2> QED BY <1>1, <1>4, <2>2, <2>3, <2>4, Operates
<1> QED BY <1>7, <1>8

LEMMA BeginModuleStep ==
    ASSUME IInv, NEW c \in Clients, NEW m \in Modules, BeginModule(c, m)
    PROVE  IInv' /\ Kept
<1> DEFINE row == [pc |-> "wasm", module |-> m, version |-> ActiveVersion]
<1>1. /\ UNCHANGED revisions /\ UNCHANGED use /\ Active # {}
      /\ uploads < MaxUploads /\ uploads' = uploads + 1
      /\ request' = [request EXCEPT ![c] = row]
  BY DEF BeginModule
<1>2. /\ revisions \in Seq(Revision) /\ Len(revisions) <= MaxRevisions /\ uploads \in 0..MaxUploads
      /\ request \in [Clients -> Request]
  <2> HIDE DEF Revision, Request
  <2> QED BY DEF IInv, TypeOK
<1>3. ActiveVersion \in DOMAIN revisions /\ ActiveVersion \in Versions
  BY <1>1, ActiveExists, DocTypes DEF IInv, Versions
<1>4. request' \in [Clients -> Request] /\ uploads' \in 0..MaxUploads
  <2>1. row \in Request
    BY <1>3 DEF Request
  <2> HIDE DEF Request, row
  <2> QED BY <1>1, <1>2, <2>1, RevisionsAssumption
<1>5. RevisionInv' /\ NewestIsActive' /\ Kept
  BY <1>1 DEF IInv, RevisionInv, NewestIsActive, Active, Kept
<1>6. RequestInv'
  BY <1>1, <1>2, <1>3 DEF IInv, RequestInv
<1> HIDE DEF row
<1> QED BY <1>1, <1>2, <1>4, <1>5, <1>6, Operates

LEMMA CommitModuleStep ==
    ASSUME IInv, NEW c \in Clients, CommitModule(c)
    PROVE  IInv' /\ Kept
<1> DEFINE v == request[c].version
           m == request[c].module
           row == [revisions[v] EXCEPT !.modules = @ \cup {m}]
<1>1. /\ request[c].pc = "wasm" /\ UNCHANGED uploads /\ UNCHANGED use
      /\ request' = [request EXCEPT ![c] = NoRequest]
      /\ revisions' = [revisions EXCEPT ![v] = row]
  BY DEF CommitModule
<1>2. /\ revisions \in Seq(Revision) /\ Len(revisions) <= MaxRevisions /\ uploads \in 0..MaxUploads
      /\ request \in [Clients -> Request]
  <2> HIDE DEF Revision, Request
  <2> QED BY DEF IInv, TypeOK
<1>3. m \in Modules /\ v \in DOMAIN revisions
  BY <1>1, RequestTypes
<1>4. request' \in [Clients -> Request] /\ uploads' \in 0..MaxUploads
  <2>1. NoRequest \in Request
    BY DEF Request
  <2> HIDE DEF Request, NoRequest
  <2> QED BY <1>1, <1>2, <2>1
<1>5. row \in Revision /\ row.doc = revisions[v].doc /\ row.active = revisions[v].active
  <2>1. revisions[v] \in Revision
    BY <1>2, <1>3
  <2> HIDE DEF v, m
  <2> QED BY <1>3, <2>1 DEF Revision
<1> HIDE DEF row, v
<1>6. revisions' \in Seq(Revision) /\ Len(revisions') = Len(revisions)
      /\ DOMAIN revisions' = DOMAIN revisions
  <2> HIDE DEF Revision
  <2> QED BY <1>1, <1>2, <1>3, <1>5
<1>7. \A w \in DOMAIN revisions : /\ revisions'[w].doc = revisions[w].doc
                                  /\ revisions'[w].active = revisions[w].active
  BY <1>1, <1>2, <1>5
<1>8. RevisionInv' /\ Kept
  BY <1>6, <1>7 DEF IInv, RevisionInv, Kept
<1>9. NewestIsActive'
  <2>1. Active' = Active
    BY <1>6, <1>7 DEF Active
  <2>2. revisions' # <<>> => revisions # <<>>
    BY <1>2, <1>6
  <2> QED BY <1>6, <2>1, <2>2 DEF IInv, NewestIsActive
<1>10. RequestInv'
  BY <1>1, <1>2, <1>6 DEF IInv, RequestInv, NoRequest
<1> QED BY <1>1, <1>2, <1>4, <1>6, <1>8, <1>9, <1>10, Operates

LEMMA OperateStep ==
    ASSUME IInv, Operate
    PROVE  IInv' /\ Kept
<1>1. PICK c \in Clients :
        \/ \E d \in Documents : BeginUpload(c, d)
        \/ CommitUpload(c)
        \/ \E m \in Modules : BeginModule(c, m)
        \/ CommitModule(c)
  BY DEF Operate
<1> QED BY <1>1, BeginUploadStep, CommitUploadStep, BeginModuleStep, CommitModuleStep

\* Publish
LEMMA PublishStep ==
    ASSUME IInv, Publish
    PROVE  IInv' /\ Kept
<1>1. /\ UNCHANGED <<revisions, request, uploads, discovery, records, execution>>
      /\ hosted' \in Contents
  BY DEF Publish
<1>2. TypeOK'
  <2> HIDE DEF Revision, Request, Execution, Records
  <2> QED BY <1>1 DEF IInv, TypeOK
<1>3. (RevisionInv /\ RequestInv /\ NewestIsActive /\ DiscoveryInv /\ RecordsInv)' /\ Kept
  BY <1>1 DEF IInv, RevisionInv, RequestInv, NewestIsActive, Active, DiscoveryInv, RecordsInv, Kept
<1>4. ExecutionInv'
  BY <1>1, <1>3, RowsKept DEF IInv
<1> QED BY <1>2, <1>3, <1>4 DEF IInv

\* What a step of a discovery leaves of the invariant
LEMMA Discovers ==
    ASSUME IInv, UNCHANGED system, UNCHANGED execution, records' \in Records,
           discovery' \in DiscoveryType,
           DiscoveryInv', RecordsInv'
    PROVE  IInv' /\ Kept
<1>1. UNCHANGED <<revisions, request, uploads, hosted>>
  BY DEF system
<1>2. TypeOK'
  <2> HIDE DEF Revision, Request, Execution, Records, Outcomes
  <2> QED BY <1>1 DEF IInv, TypeOK, DiscoveryType
<1>3. (RevisionInv /\ RequestInv /\ NewestIsActive)' /\ Kept
  BY <1>1 DEF IInv, RevisionInv, RequestInv, NewestIsActive, Active, Kept
<1>4. ExecutionInv'
  BY <1>3, RowsKept DEF IInv
<1> QED BY <1>2, <1>3, <1>4 DEF IInv

LEMMA DiscoverStep ==
    ASSUME IInv, Discover
    PROVE  IInv' /\ Kept
<1>1. records \in Records /\ discovery \in DiscoveryType
  BY DEF IInv, TypeOK, DiscoveryType
<1>2. CASE StartDiscovery
  <2>1. /\ UNCHANGED <<system, records, execution>> /\ Active # {}
        /\ discovery' = [NoDiscovery EXCEPT !.pc = "query", !.version = ActiveVersion]
    BY <1>2 DEF StartDiscovery
  <2>2. ActiveVersion \in DOMAIN revisions /\ ActiveVersion \in 0..MaxRevisions
    BY <2>1, ActiveExists, DocTypes DEF IInv
  <2>3. discovery' \in DiscoveryType
    BY <2>1, <2>2 DEF Outcomes, NoDiscovery, DiscoveryType
  <2>4. UNCHANGED revisions
    BY <2>1 DEF system
  <2>5. DiscoveryInv'
    BY <2>1, <2>2, <2>4 DEF DiscoveryInv, NoDiscovery
  <2>6. RecordsInv'
    BY <2>1, <2>4 DEF IInv, RecordsInv
  <2> HIDE DEF Outcomes, Records
  <2> QED BY <1>1, <2>1, <2>3, <2>5, <2>6, Discovers
<1>3. CASE Query
  <2>1. discovery.pc = "query" /\ UNCHANGED <<system, records, execution>>
    BY <1>3 DEF Query
  <2>2. PICK found \in Discovered(revisions[discovery.version].doc) :
          discovery' = [discovery EXCEPT
              !.pc = IF found.outcome = "none" THEN "prepare" ELSE "idle",
              !.outcome = found.outcome, !.identified = found.identified,
              !.dropped = found.dropped]
    BY <1>3 DEF Query
  <2>3. discovery.version \in DOMAIN revisions
    BY <2>1 DEF IInv, DiscoveryInv
  <2>4. /\ found.outcome \in {"none", "nothing", "no_queries", "overflow"}
        /\ found.identified \in BOOLEAN /\ found.dropped = {}
    <3>1. Valid(revisions[discovery.version].doc)
      BY <2>3 DEF IInv, RevisionInv
    <3> QED BY <2>2, <3>1, AcceptedIsDiscovered
  <2>5. discovery' \in DiscoveryType
    BY <1>1, <2>2, <2>4 DEF Outcomes, DiscoveryType
  <2>6. /\ discovery'.version = discovery.version /\ discovery'.outcome = found.outcome
        /\ discovery'.dropped = found.dropped
    BY <1>1, <2>2 DEF DiscoveryType
  <2>7. UNCHANGED revisions
    BY <2>1 DEF system
  <2>8. DiscoveryInv'
    BY <2>3, <2>4, <2>6, <2>7 DEF DiscoveryInv
  <2>9. RecordsInv'
    BY <2>1, <2>7 DEF IInv, RecordsInv
  <2> HIDE DEF Outcomes, Records
  <2> QED BY <1>1, <2>1, <2>5, <2>8, <2>9, Discovers
<1>4. CASE Prepare
  <2> DEFINE d == revisions[discovery.version].doc
             m == Called(d, "prepare_metadata")
  <2>1. discovery.pc = "prepare" /\ UNCHANGED <<system, execution>>
    BY <1>4 DEF Prepare
  <2>2. PICK lost \in BOOLEAN, identified \in BOOLEAN :
          /\ discovery' = [discovery EXCEPT !.pc = "idle", !.identified = FALSE,
                !.outcome = IF identified THEN "metadata" ELSE "no_identity"]
          /\ records' = IF ~ identified THEN records
                        ELSE [version |-> discovery.version,
                              module |-> IF ~ (lost \/ m = None \/ CallFails(m, "prepare_metadata"))
                                         THEN m ELSE None]
    BY <1>4 DEF Prepare
  <2>3. discovery.version \in DOMAIN revisions
    BY <2>1 DEF IInv, DiscoveryInv
  <2>4. \/ UNCHANGED records
        \/ records'.version = discovery.version /\ records'.module \in {None, m}
    BY <2>2
  <2>5. m # None => m = d.module /\ "prepare_metadata" \in d.hooks
    BY CalledIsDeclared
  <2>6. d \in Documents
    BY <2>3, DocTypes DEF IInv
  <2>7. m \in Modules \cup {None}
    BY <2>5, <2>6, DocumentsAssumption DEF IsDocument
  <2>8. records' \in Records
    <3>1. discovery.version \in 0..MaxRevisions
      BY <1>1 DEF DiscoveryType
    <3> HIDE DEF m
    <3> QED BY <1>1, <2>2, <2>7, <3>1 DEF Records
  <2>9. discovery' \in DiscoveryType
    BY <1>1, <2>2 DEF DiscoveryType, Outcomes
  <2>10. UNCHANGED revisions
    BY <2>1 DEF system
  <2>11. DiscoveryInv'
    <3>1. /\ discovery'.pc = "idle" /\ discovery'.outcome \in {"metadata", "no_identity"}
          /\ discovery'.dropped = discovery.dropped
      BY <1>1, <2>2 DEF DiscoveryType
    <3> QED BY <3>1 DEF IInv, DiscoveryInv
  <2>12. RecordsInv'
    <3> HIDE DEF m
    <3> QED BY <2>3, <2>4, <2>5, <2>10 DEF RecordsInv, IInv
  <2> HIDE DEF Outcomes, Records, m, d
  <2> QED BY <2>1, <2>8, <2>9, <2>11, <2>12, Discovers
<1> QED BY <1>2, <1>3, <1>4 DEF Discover

LEMMA ExecuteStep ==
    ASSUME IInv, NEW e \in Executions, Execute(e)
    PROVE  IInv' /\ Kept
<1>1. CASE ManifestHook(e)
  <2>1. execution[e].pc = "built" /\ Hooked(e, "manifest", "hooked")
    BY <1>1 DEF ManifestHook
  <2> QED BY <2>1, HookedStep DEF Hooks, Stages
<1>2. CASE GraphPatchesHook(e)
  <2>1. execution[e].pc = "patched" /\ Hooked(e, "graph_patches", "complete")
    BY <1>2 DEF GraphPatchesHook
  <2> QED BY <2>1, HookedStep DEF Hooks, Stages
<1>3. CASE Retry(e) \/ Redeliver(e)
  BY <1>3, QueuedAgainStep
<1> QED BY <1>1, <1>2, <1>3, CreateStep, StartStep, BuildStep, PatchStep, TranslateStep,
           StoreStep, SubmitStep DEF Execute

LEMMA NextStep ==
    ASSUME IInv, [Next]_vars
    PROVE  IInv' /\ Kept
<1>1. CASE Next
  BY <1>1, OperateStep, PublishStep, DiscoverStep, ExecuteStep DEF Next
<1>2. CASE UNCHANGED vars
  <2>1. UNCHANGED <<revisions, request, uploads, hosted, discovery, records, execution>>
    BY <1>2 DEF vars
  <2>2. (RevisionInv /\ RequestInv /\ NewestIsActive /\ DiscoveryInv /\ RecordsInv)' /\ Kept
    BY <2>1 DEF IInv, RevisionInv, RequestInv, NewestIsActive, Active, DiscoveryInv, RecordsInv,
                Kept
  <2>3. ExecutionInv'
    BY <2>1, <2>2, RowsKept DEF IInv
  <2>4. TypeOK'
    <3> HIDE DEF Revision, Request, Execution, Records
    <3> QED BY <2>1 DEF IInv, TypeOK
  <2> QED BY <2>2, <2>3, <2>4 DEF IInv
<1> QED BY <1>1, <1>2

----------------------------------------------------------------------------
\* The invariant, and what follows from it.

\* Every operation keeps the inductive invariant: what is a revision was
\* validated, and what an execution stored is what it sends.
THEOREM RevisionsInvariant == Spec => []IInv
<1>1. IInv /\ [Next]_vars => IInv'
  BY NextStep
<1> QED BY InitStep, <1>1, PTL DEF Spec

\* upload_project_config_wasm, insert_project_config and every handler of an
\* execution keep the types of what they write.
THEOREM RevisionsTypes == Spec => []TypeOK
<1>1. IInv => TypeOK
  BY DEF IInv
<1> QED BY RevisionsInvariant, <1>1, PTL

\* insert_project_config, of any number of uploads at once: the newest revision
\* and no other is active.
THEOREM OneActive == Spec => []NewestIsActive
<1>1. IInv => NewestIsActive
  BY DEF IInv
<1> QED BY RevisionsInvariant, <1>1, PTL

\* insert_project_config only adds: no later upload changes what a discovery or
\* an execution reads of the revision that it noted.
THEOREM RevisionsStay == Spec => [][Kept]_vars
<1>1. IInv /\ [Next]_vars => [Kept]_vars
  BY NextStep
<1> QED BY RevisionsInvariant, <1>1, PTL DEF Spec

\* load_wasm_bytes, whatever is uploaded meanwhile: a hook that ran is of the
\* module that the revision in use declares.
THEOREM HooksDeclared == Spec => []HooksAreDeclared
<1>1. ASSUME IInv PROVE HooksAreDeclared
  <2>1. ASSUME NEW e \in Executions, NEW r \in execution[e].ran
        PROVE  r.module = Doc(e).module /\ r.hook \in Doc(e).hooks
    BY <1>1, <2>1 DEF IInv, ExecutionInv, RowInv, RanInv
  <2> QED BY <1>1, <2>1 DEF IInv, RecordsInv, HooksAreDeclared
<1> QED BY RevisionsInvariant, <1>1, PTL

\* validate_report_against, for every document it accepts: discovery meets no
\* endpoint that is missing, no enrichment without a field to ask it for, and no
\* transform that takes a value away; translation no graph without place or digest.
THEOREM AcceptedUsable == Spec => []AcceptedIsUsable
<1>1. ASSUME IInv PROVE AcceptedIsUsable
  <2>1. ASSUME NEW e \in Executions, execution[e].failure \in {"no_graph", "no_digest"}
        PROVE  Doc(e).graph = None
    BY <1>1, <2>1 DEF IInv, ExecutionInv, RowInv, FailureInv
  <2> QED BY <1>1, <2>1 DEF IInv, DiscoveryInv, AcceptedIsUsable
<1> QED BY RevisionsInvariant, <1>1, PTL

\* run_execute_body, of any number of attempts: all of an execution's attempts
\* send the same graph with the same records.
THEOREM OneGraph == Spec => []AttemptsSendOneGraph
<1>1. ASSUME IInv PROVE AttemptsSendOneGraph
  <2> SUFFICES ASSUME NEW e \in Executions,
                      NEW i \in DOMAIN execution[e].sent, NEW j \in DOMAIN execution[e].sent
               PROVE  execution[e].sent[i] = execution[e].sent[j]
    BY DEF AttemptsSendOneGraph
  <2>1. SentInv(execution[e], Doc(e))
    BY <1>1 DEF IInv, ExecutionInv, RowInv
  <2> QED BY <2>1 DEF SentInv, Sendable
<1> QED BY RevisionsInvariant, <1>1, PTL

\* apply_project_graph_patches, of any patches: in a graph that was sent, the
\* last patch of each field is there with its value on the stored records.
THEOREM PatchesLanded == Spec => []PatchesLand
<1>1. ASSUME IInv PROVE PatchesLand
  <2> SUFFICES ASSUME NEW e \in Executions, NEW i \in DOMAIN execution[e].sent,
                      ~ \E r \in execution[e].ran : r.hook = "graph_patches"
               PROVE  \A k \in DOMAIN Doc(e).patches : IsLast(Doc(e).patches, k) =>
                        execution[e].sent[i].fields[<<Doc(e).patches[k].node, Doc(e).patches[k].field>>]
                          = Evaluated(Doc(e).patches[k], execution[e].stored)
    <3>1. ASSUME NEW e \in Executions, NEW i \in DOMAIN execution[e].sent
          PROVE  execution[e].sent[i].content = Doc(e).graph.sha256
      <4>1. SentInv(execution[e], Doc(e))
        BY <1>1 DEF IInv, ExecutionInv, RowInv
      <4>2. execution[e].sent[i] = GraphOf(Doc(e), execution[e].stored)
        BY <4>1 DEF SentInv, Sendable
      <4> QED BY <4>2 DEF GraphOf
    <3> QED BY <3>1 DEF PatchesLand
  <2> SUFFICES ASSUME NEW k \in DOMAIN Doc(e).patches, IsLast(Doc(e).patches, k)
               PROVE  execution[e].sent[i].fields[<<Doc(e).patches[k].node, Doc(e).patches[k].field>>]
                          = Evaluated(Doc(e).patches[k], execution[e].stored)
    OBVIOUS
  <2> DEFINE d == Doc(e)
             m == execution[e].stored
             o == Expected(d, m)
             f == <<d.patches[k].node, d.patches[k].field>>
  <2>1. execution[e] \in Execution /\ RowInv(execution[e], d)
    BY <1>1 DEF IInv, TypeOK, ExecutionInv
  <2>2. execution[e].sent # <<>>
    OBVIOUS
  <2>3. m # None /\ m \in Manifest
    BY <2>1, <2>2, RowTypes DEF RowInv, StoredInv
  <2>4. d \in Documents
    <3>1. execution[e].pc # "absent"
      BY <2>1, <2>2 DEF RowInv, NewExecution
    <3> QED BY <1>1, <3>1, RowOf
  <2>5. m.overrides = o
    <3>1. Follows(d, m)
      BY <2>1, <2>3 DEF RowInv, PatchedInv, GraphHookRan
    <3>2. d.patches # <<>>
      OBVIOUS
    <3> QED BY <3>1, <3>2 DEF Follows
  <2>6. Sendable(d, execution[e].sent[i], m)
    BY <2>1 DEF RowInv, SentInv
  <2>7. DOMAIN o = DOMAIN d.patches /\ DOMAIN o \subseteq Int
    <3>1. DOMAIN d.patches = 1..Len(d.patches)
      BY <2>3, <2>4, ExpectedTypes
    <3>2. DOMAIN o = DOMAIN d.patches
      BY DEF Expected
    <3>3. d.patches \in Seq(Patch)
      BY <2>4, DocumentsAssumption DEF IsDocument
    <3>4. Len(d.patches) \in Nat
      BY <3>3
    <3> HIDE DEF d, o
    <3> QED BY <3>1, <3>2, <3>4
  <2>8. \A j \in DOMAIN o : o[j] = Evaluated(d.patches[j], m)
                              /\ o[j].node = d.patches[j].node /\ o[j].field = d.patches[j].field
    BY DEF Expected, Evaluated
  <2>9. <<o[k].node, o[k].field>> \in FieldsOf[d.graph.sha256]
    BY <2>5, <2>6, <2>7 DEF Sendable, Lands
  <2>10. \A j \in DOMAIN o : o[j].node = o[k].node /\ o[j].field = o[k].field => j <= k
    BY <2>7, <2>8 DEF IsLast
  <2>11. Patched(d.graph.sha256, o)[<<o[k].node, o[k].field>>] = o[k]
    <3>1. k \in DOMAIN o
      BY <2>7
    <3> HIDE DEF o, d, m
    <3> QED BY <2>7, <2>9, <2>10, <3>1, LastLands
  <2>12. execution[e].sent[i].fields = Patched(d.graph.sha256, o)
    BY <2>5, <2>6 DEF Sendable, GraphOf
  <2> QED BY <2>7, <2>8, <2>11, <2>12
<1> QED BY RevisionsInvariant, <1>1, PTL

===============================================================================
