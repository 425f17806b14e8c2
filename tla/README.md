# Schema Field Mapper: TLA+ models, checks and proofs

The service maps every field of a source database schema to a field of a
destination schema. A LangGraph graph does the work; below a tenant's
confidence threshold it pauses for a reviewer. An HTTP API with API keys, roles
and a rate limit drives it for several tenants, a command line drives the same
runs from a terminal, and an evaluation scores what comes out. This directory
holds models of the parts with state, the TLC runs that check them, and TLAPS
proofs about five of them. Paths such as `nodes.py` are under `src/app/`.

## 1. Inventory

| Component | State | Operations | Interacts with |
|---|---|---|---|
| Graph nodes (`graph/nodes.py`, `state.py`) | the graph state: tables with their field lists, pending reviews, decisions, document, report | seven nodes, one routing function | reasoning, rules, schemas, validation, providers |
| Graph wiring (`graph/build_graph.py`) | latest checkpoint of each thread (SQLite) | run, interrupt, resume | nodes; called by API, CLI, evaluation |
| Run endpoints (`api/main.py`) | none of their own | run, get, resume, evaluate | authentication, graph |
| Reasoning (`graph/reasoning.py`) | none | table match, field match, each with a fallback | providers, retriever |
| Document, validation (`core/`) | none | model bounds, JSON schema, coverage | nodes |
| Rules (`rules/type_transforms.py`) | none | transform of a pair of fields | nodes |
| Authentication, limiter (`tenancy/auth.py`) | one token bucket per tenant, in memory, unlocked | resolve a key, require a role, check the limit | registry |
| Registry (`tenancy/registry.py`) | tenants, configurations, keys (SQLite) | create or migrate the file, create a tenant, read and set a configuration, seed; issue, resolve, revoke keys | admin endpoints, load_config, seeding script |
| Chat providers (`providers/`) | client, `last_error` | complete_json, complete_text | vendor services |
| Provider selection, embeddings, retriever (`providers/factory.py`, `embeddings.py`, `retrieval/`) | client, two matrices | select; embed; rank candidates | environment variables |
| Command line (`cli/main.py`) | the file it writes | start, resume, prompt, finish | graph |
| Golden builder, fresh run, evaluation (`evals/`) | golden file, report | build; score against golden; two engines of quality scores | graph, providers |
| Self-test, observability | none | one call each; logging, tracing | everything |

What is hard: requests run in a thread pool, so two resumes of a run, or two
requests of a tenant, overlap; terminals are processes of their own over the
same checkpoints; a run lives across requests and processes, in its
checkpoint; a node may raise after earlier nodes were checkpointed; answers of
models are arbitrary; reviewers send partial, repeated, stale or surplus
decisions; the registry migrates its file at every call, statement by
statement, under other callers; retries hide which error mattered; a judge may
fail for one mapping and not for the next. The properties these components
should have are listed with the modules below, the places where the code is
exposed to each hazard in `PROJECT.json`.

## 2. Modules

| Module | Models |
|---|---|
| `GraphNodes` | what each node does to the graph state, as operators |
| `MappingRun` | one run: checkpoint, invocations, requests, crash |
| `TypeTransforms` | `infer_type_transform`, by cases; gives the instances of `MappingRun` their transforms |
| `ReviewPromise` | what a run promises its clients, abstractly |
| `CliSession` | `MappingRun` shared by terminals, the golden builder and the API |
| `Registry` | the tenant registry under several callers, statement by statement |
| `RunConfig` | `Registry` with a run that loads its configuration and selects providers and vector spaces |
| `TenantGate` | authentication, rate limit, admin endpoints |
| `ChatProvider` | successive calls of one provider object |
| `Scoring`, `Evaluation` | the regression score; evaluations with judges that fail |
| `MappingRunProofs`, `ReviewPromiseProofs`, `CliSessionProofs`, `RunConfigProofs`, `TenantGateProofs`, `ChatProviderProofs`, `EvaluationProofs` | the theorems |
| `GraphNodesProofs` | lemmas about documents that several of them use |
| `MC...` | instances for TLC |

`MappingRun`, `Scoring` and `Evaluation` are built on `GraphNodes`;
`CliSession` extends `MappingRun`, `RunConfig` extends `Registry`, and
`MappingRun` implements `ReviewPromise`.

### GraphNodes and MappingRun

The variable `checkpoint` is the latest checkpoint of the run's thread: the
next node, the graph state, who wrote it, and whether an interrupt is stored
with it. `invocation[w]` is the graph invocation that request thread `w`
executes: its current node, its own graph state in memory, and the decisions of
the resume, which only the node that is resumed can consume. `reply[w]` is the
status last answered.

A table's `field_mappings` and `unmapped_source_fields` are one *ledger*: for
each source field, the outcomes recorded for it in order. A field that is
neither mapped nor reported has the empty sequence. `pending` gives each field
its review item or `Null`. The decision list of a resume is split by field,
which keeps the order that matters (several decisions on one field).
Confidences are thousandths, and `RoundConf` is `round(c, 2)`. It sends ties
up where Python's `round` depends on the binary value; the instances have no ties
whose direction matters.

A model's answer is a member of `TableMatches` or `FieldMatches`, or `Null`
where the code raises on it (a confidence that `float` refuses, JSON that is
not an object). `reasoned = FALSE` is an empty reasoning, which the JSON schema
rejects at the end. A confidence above 1 stands for all that `match_fields`
accepts and `FieldMapping` rejects (a NaN is one). A fallback answer is one of the
collection's fields; `shared` says that the two names share a business token.

Each action of `MappingRun` is a whole node with the checkpoint that follows it.
Putting the two in one step loses nothing: a node reads only the state its
invocation holds, so it commutes with the steps of the other invocations, and a
crash between the node and its checkpoint is a crash before the node. A request answers
after its checkpoints are written. `PauseForReview` is `interrupt()` without a
value; it stores the interrupt with the checkpoint its own invocation wrote, and
leaves a checkpoint of another invocation alone.

Assumed: a run id is new, so its thread is fresh; tenant ids contain no `:`, so
threads of different tenants differ; the decision list of
a resume is not the empty list, which the library may treat as no resume value
(a list without a decision on any pending field is included). A node that raises leaves
the checkpoint and may be executed again by a resume.

Properties, each with the code it is about in the module's comments:
`NoFieldLost`, `CoverageSound`, `NotSilentlyAccepted`, `VerdictsHonoured`,
`ItemsAreWhatIsOpen`, `DestinationsAccounted` (invariants), `CompletedStays`,
`RecordedStays`, `DoomedStays` (action properties), and `KeepsPromise`, the
refinement below.

### TypeTransforms

A type transform is the declared type of the source, whether it is a code, and
what it becomes. `InferTypeTransform` has the branches of the code that differ
in one of these; branches that differ in their notes only are one. It is not a
specification of its own: it fills the constant `Transform` of the instances,
so that `TransformFollowsPair` is checked with the transforms the code infers.

### ReviewPromise

A run is absent, working, waiting, reviewed or published, with the set of
fields that have no outcome. Fields are settled at once, all that stay open wait for one
review, which leaves none open, and a document is published once. `MappingRun`
implements it through the mapping `Phase` and the fields with an empty ledger
entry. This holds for one request at a time. When two resumes overlap, the later one
writes checkpoints of earlier nodes over a finished run; `CompletedStays`,
`RecordedStays` and `KeepsPromise` are therefore checked with one worker only.

### CliSession

A session is a process at a terminal: it invokes the graph, prompts while the
invocation pauses, and writes a file. Its actions are `StartRun`, `StartBuild`,
`StartResume`, one node of its invocation (`SessionNode`), `Decide` at a prompt, `Finish`,
and `Quit` at any point. The API's requests and nodes are those of
`MappingRun`, on the same checkpoint and beside the sessions; `ApiCrash` ends
them and leaves the sessions alone. A worker of both `Terminals` and `Threads`
is one or the other at a time.

`thread` says whose thread the checkpoint is. On a run's, sessions and requests
overlap freely: the items a prompt shows are those of the invocation that paused, and
by the time they are answered another reviewer may have finished the run
(`Decide` then only returns its values). On the builder's thread, whose name is
fixed, `StartBuild` starts the graph over on whatever an earlier, interrupted
or overlapping build left; `LoadConfig` and the nodes replace what they replace and the
rest stays. `Finish` writes the document the session got; the builder asserts a report that is
ok first, while the command line writes before it looks into the document, so that a resume of a run that
never started leaves a file that holds null.

Properties: `FileSound`, `GoldenTrusted`, `SessionReturns`, and those of
`MappingRun` that hold for overlapping invocations.

### Registry and RunConfig

Every registry function calls `init_db` first, whose statements commit one by
one: create the tables, look at the columns, add the missing one to a file of
the older version. The function's own statements are one transaction. A caller executes a
list of such functions (`Seed`, `Update`, `Load`), and
`set_tenant_config` is two transactions, a read and a write of all columns. The
seeding script removes the file and starts over; a connection that was open
then is to an unlinked file (`unlinked`), on which the model lets the ALTER
either succeed without effect or raise. A task records whether any other was
active at the same time (`alone`), as history. One tenant stands for all: no
statement touches the rows of two.

A run's part: `LoadConfig` takes what `get_tenant_config` returned, or the
defaults where it returned nothing or raised, and stores the name of the
provider it selected. `MatchTables` and `MatchFields` select again, from the
stored names and the environment of the process that executes them, and build
the retriever anew; each of its two embedding calls may fail. `Restart` gives the API process
another environment and drops its unfinished registry calls; the run goes on from its
checkpoint. `held` is history: the configurations the registry has held before
the run loaded one.

Properties: `RowsTogether`, `AloneExact` of the registry; `SnapshotWhole`,
`DefaultsOnlyByRace`, `OfflineStays`, `RecordedUnlessRestarted`, `OneSpace` of
a run.

### TenantGate

A request goes through the registry lookup of its key, the role check and
`RateLimiter.check`, and then, for the two admin endpoints, the handler. Each
registry function is one transaction and one action here; `set_tenant_config` is two
(read the row, write all of it); what `init_db` adds is in `Registry`. The limiter is split at its calls, where a
thread can lose the interpreter: between them it reads and writes its shared
bucket in one go. Token counts are exact integers in units of 1/TicksPerMinute.
`revoke_api_key` has no endpoint and is an operator's action. `checked` is history:
of every decision of the limiter, the limit it was taken at, its time and whether
the request passed.

`RateKept` is about one request at a time: between any two requests no more pass
than a bucket filled at the limit of the first and a refill at the highest limit
in between pay for, so that a lowered limit counts from the next request on.
With overlapping requests it fails (section 4). `LockedStays` and
`NoAdminNoChange` are about overlapping requests. The latter says what a revoked
key can still do: a request that had its key looked up before goes on, and
changes something at most once.

### ChatProvider

One provider object over successive calls: retries, the second name of the
token limit, the plain request without JSON mode, JSON extraction, and
`last_error`, which survives calls. The service is external: which parameters it
takes is fixed, when it has a bad moment is free. The Anthropic provider is the
same machine without the two further ways of asking. Properties: `Reached`,
`ErrorIsOwn`, `CallReturns`.

### Scoring and Evaluation

`Scoring` is `score_against_golden` on the documents of `GraphNodes`: which
mappings are right, the false positives and negatives the code counts (a field
the candidate leaves out is both; section 4), its ratios with an empty denominator, F1 of the two rounded numbers, and the list
of mismatches. Scores are thousandths, rounded half up; Python's `round` can
differ only where the denominator is a multiple of 16.

`Evaluation` is the script and the endpoint around it. The candidate is scored against the golden
file; then an engine judges one mapping at a time. A DeepEval judge may leave
no score; what raises outside the judge calls switches to the heuristic engine, which starts over
(`FallBack`); the heuristic engine with a live provider may raise on a score
that is no number (`JudgeRaises`). What a judge scores is a free choice. `Rebuild` lets the golden file change between
evaluations.

Documents are as `assemble` makes them (`Published`): an entry for each field, a
transform exactly where there is a path. Properties: `NothingSlips`, `FixShows` of the score; `HeuristicComplete`,
`MeanWithin`, `EvaluationEnds` of the evaluation.

## 3. Runs that pass

| Run | Instance | Shows |
|---|---|---|
| `solo` | one thread; a table with a primary key and two more fields; collections with the fields _id, p, q and _id, p, and an unknown one; thresholds 0.845 and 0.95; seven field answers, five table answers, sixteen decision lists (about 39,700 states) | every invariant and action property of `MappingRun`, and the refinement |
| `session` | two terminals, one of which is also a request thread; a table with its key and one column; both kinds of thread | what overlapping sessions and requests record and leave on disk, and that they return |
| `config` | one seeding script, one administrator, one run; no file, and one of the older version; three environments (about 820,000 states) | the properties of `Registry` and `RunConfig` |
| `rate` | one thread; one tenant with an administrator's key and a viewer's; limits 0, 1 and 3; clock 0 to 3 | `RateKept` across a raised and a lowered limit |
| `gate` | two threads (symmetric), two tenants, three administrators' keys, one issued in the run, and a viewer's (about 587,000 states) | `LockedStays`, `NoAdminNoChange` |
| `provider` | every kind of service, three attempts | `Reached`, `ErrorIsOwn`, `CallReturns` |
| `eval` | three fields in two tables, two golden documents, 36 candidates, scores 0.2 and 1 | the properties of `Scoring` and `Evaluation` |

Why the bounds are enough. In `solo`, two ordinary fields of one table are what a
duplicate destination, a partial decision list and a split review need; a
table does not read another table's lists, so a second table adds no interaction. The
answers contain one member of each class the code tells apart: below, between and above the
thresholds, a path outside the collection, a fallback with and without a shared token,
an empty reasoning, a confidence out of range, an answer that raises. Decision
lists contain none, one and two decisions on a field, overrides to a claimed,
a free and an unknown path, and a decision on a field that is not pending.

In `session`, two workers suffice for one invocation to overtake another, and
one pending field for a stale prompt. Two bounds are named in the module: builds
overlap only until one has assembled a document (`FirstBuilds`; later builds
come one after the other, and start on what is there), and nobody names a run
before it exists (`Unnamed`), which the code's random run ids justify. Neither
is a bound on `CliSessionProofs`' number of workers.

In `config`, one caller of each kind meets every other in every order; callers
of one kind run the same list. The registry rests once the run has loaded
(`RegistryWatched`), because no later node reads it. The theorems hold for any
number of callers.

In `rate`, the clock bound (`MaxClock`) covers a bucket that is full, empty and refilled, and
`MaxChecked` (decisions, refused ones included) a burst that spends a bucket of the
highest limit, a lowered limit and what still passes after it. `gate` keeps the clock still: its
properties do not depend on refills, and the races on the bucket remain.

In `eval`, the candidates contain a right mapping, a swapped pair, a right
destination with another transform, a field left out, an override with the transform of the proposal, one to a path that is not
there, and a field decided on twice; one golden document maps everything and
one leaves a field out.

Fairness. `SessionReturns` assumes that a process or thread that executes the
graph, or is about to write its file, keeps running (weak fairness of
`Act(w)`, per worker); nobody has to answer a prompt, send a request, or crash.
`CallReturns` assumes that a request to a vendor's service ends, with
an answer or an exception, as the SDK's own timeouts provide.
`EvaluationEnds` assumes that the sequential program goes on (`Working`); `FallBack` is not part of
it, as nothing has to raise.

## 4. Disagreements

Runs that find a violation of what the repository says:

| Run | What the repository says | What the code does |
|---|---|---|
| `transform` | `rules/type_transforms.py:4-6`: the transform follows from the pair | an override keeps the transform of the proposed destination |
| `rate_overlap` | `README.md:270-271`: the limiter applies the tenant's limit | two overlapping requests spend one token |
| `blip` | `README.md:217-221`: a transient error does not demote a run | one at the last attempt hides the rejected parameter, and the call gives up |
| `silent` | `graph/nodes.py:11-13`: anything below the tenant's threshold is not silently accepted | a registry call that raises in a race is swallowed, and the run goes on with the default threshold |
| `outage` | `README.md:221-225`: with an unreachable provider the judges fall back to the heuristic metrics | DeepEval's judges keep no score, nothing raises, and the report is one of DeepEval with means of zero |

The race in `silent` needs an older file or a seeding script beside the run. It can be
met from the command line or `run_eval.py`, whose run makes no registry call
before `load_config`; a request to the API has resolved its key by then, which
has migrated the file, so that there only the removal of the file remains.

Met on the way and without a run of their own:

- `api/main.py:116` takes a run with a next node to be paused on human_review; so is a
  run that failed or was cut off after its review. `ItemsAreWhatIsOpen` says
  what is still true of the items shown.
- `README.md:225-226` says that nothing hard-crashes because of an external API. A malformed
  answer fails the request, and once it is checkpointed the run, at every
  resume; `DoomedStays` checks that.
- `README.md:317-318` and `evals/metrics.py:8` say that precision, recall and F1 are about
  whether a field is mapped at all, against golden's mapped/unmapped split. The code
  compares destinations: a field mapped to another place than golden's is no true
  positive and a false negative (`metrics.py:67-75`), so that a document which maps
  exactly the fields golden maps, one of them elsewhere, has a recall below 1. And under
  the comment "candidate mapped a field golden says is unmapped" (line 82) it also
  counts what the candidate left out as false positives (lines 83-84), which its own note calls a false
  negative already. `Scoring` has what the code does. `FixShows` claims nothing that
  depends on the reading: a rise of accuracy where a destination becomes right, and of precision only
  where a field golden leaves unmapped is no longer mapped.
- `providers/base.py:11-14` promises a parsed dict or None; a JSON array is returned as a list
  (`Parsed` in `ChatProvider` has both).
- `README.md:209-211` speaks of a provider resolved once. Each node selects it again, from the stored name and the
  environment of its process; after a restart with other credentials another one may
  be asked than the document names (`RecordedUnlessRestarted` is what remains),
  and the retrieval back end can differ between the two nodes.
- `cli/main.py:78` promises a resume. It works for a run that waits at its prompt; one that failed elsewhere has no
  stored interrupt and the session fails on the empty list (`StartResume`),
  although the API can resume it.

## 5. Proofs

**`MappingRunProofs`**, for any number of workers, any finite schema and any
answers and decisions, from `SchemaAssumption`, `NullAssumption` and
`RunAssumption`. `NoFieldLost`, `CoverageSound` and the others are not
inductive: after a crash or by an overlapping resume, any state in a checkpoint
or in memory can become the input of the next node. `IInv` therefore says
`Sound(node, s)` of each of them, with the node that comes next: types; before
the review, each field pending or recorded once; from `apply_rules` on, each
recorded; from `validate` on, the document has them too, and a transform
exactly where it has a path (`Published`); at the end, an ok
report means no problems; what is recorded without a reviewer reached the
stored threshold (`Thresholded`), what is recorded for a decision is that decision
(`Honoured`, which needs that nothing is overridden before the review), and from `assemble` on every destination is claimed or
reported (`Accounted`). One lemma per node shows that it turns a sound state
into one that is sound for its successor; requests and crashes only copy states. Hence
`TypeCorrect`, `FieldsKept`, `CoverageIsSound`, `VerdictsAreHonoured`,
`DestinationsAreAccounted`, `NothingSilentlyAccepted`. `CoverageIsSound` rests
on a counting argument: if no field has an empty entry list and a table's
number of entries is its number of fields, each list has length one
(`SlotsExact` in `GraphNodesProofs`). This is why the code may compare counts
only. `DocumentsArePublished` states `Published` of every complete run, since
`Evaluation` assumes it.

Two more results are about what no passing run states. `OnlyRedirectedDiffer`
delimits the first disagreement of section 4 for all instances: a recorded
transform that is not that of its pair belongs to an entry of a reviewer who
approved the field and gave it that destination (`Redirected`); a model, the
fallback, the structural rule and a plain approval never produce one. Its
invariant (`Paired`) is about proposals too, and needs `Sound` where decisions
are appended: a decision's position is its entry's only because a pending field
has no entry before. `InvocationsGoForward` is an action property: every step of
an invocation that is under way lowers the number of nodes before it
(`NodesLeft`), so that it executes each at most once, whatever other
invocations do. With fairness, which the prover has no rule for, this is what
`SessionReturns` rests on.

**`CliSessionProofs`**, also from `SessionAssumption`. `SInv` is `IInv` with
what a session holds: a session that finishes holds a document with an outcome for every
field, or no document and the run never began (`Writable`), and so does the
file (`Written`); on the builder's thread a verified one has no problems. The
lemmas of `MappingRunProofs` about nodes and requests are used as they are, and `StartBuild` needs only that any sound
state is sound for `load_config`. Hence `SessionsTyped`, `FilesAreSound`,
`GoldenIsTrusted`, `FilesArePublished` (what is written can be evaluated), and that the properties of a run survive sessions
(`SessionsKeepFields`, `SessionsHonour`, `SessionsAccount`).

**`RunConfigProofs`**, for any number of callers of each kind and any
configurations, from `RegistryAssumption` and `RunConfigAssumption`. `RegInv`
says of every task that what it has left to do is the end of its caller's
list (`Fits`), and what a task may rely on while it is alone (`Relies`): the
schema it saw is the schema there is, the row it read is the row. `CInv` adds what a run is
before and after its load (`Unloaded`, `Loaded`) and that both matrices are in one space. Hence `TypeCorrect`,
`RowsStayTogether`, `SnapshotsAreWhole`, `DefaultsComeOfRaces`,
`OfflineRunsStay` (`OfflineStays`), `ProvidersAreRecorded` (`RecordedUnlessRestarted`),
`SpacesAreOne`, and the action property `AloneExact` (`AloneIsExact`).

**`TenantGateProofs`**, for any number of threads, tenants and keys, from
`GateAssumption`. `GInv` adds to the types what a request knows at each point
(`Knows`): its key, the thread whose bucket it uses, that what reaches a handler
was accepted with an admin key, and the row it is to write. With it,
`LimitZeroIsFinal` (`LockedStays`) needs only that a refill at a limit of 0
never reaches a token (`NothingToSpend`), and `WithoutAdminFixed`
(`NoAdminNoChange`) that a request at a handler was accepted with an admin key of its
tenant (`HandlerStep`), and that without a valid one none is accepted any more and
those under way only end (`NoAdminStep`).

Its second part proves `RateKept`, also from `GateAssumption`, for one request thread
(`OneThread`). `RateKept` speaks of pairs of requests and is not inductive. `RInv`
adds an account of each bucket: the requests let through since any earlier one,
with the tokens that are left, are paid for by a bucket filled at the limit of that one and
the refill since then, at any limit that covers those in between
(`Account`), and what a request carries from reading the limit to storing the bucket
(`Timed`: its limit is the one the tenant has, the elapsed time and the tokens it
computed are those of the bucket as it is). `Timed` is what an overlapping request breaks, as the run `rate_overlap` shows.
A step is arithmetic from there: a refill never leaves more than the
request's own limit (`RefilledBound`), which starts a new account; in the older ones refills add up, as a
limit that covers the past and the request is at least the request's (`PaidLater`), and a
request costs the token it takes (`PaidSpend`). Hence `OneThreadKeepsRate`.

**`ReviewPromiseProofs`**, from the assumptions of `MappingRunProofs`. With one
thread (`OneThread`) an invocation always works on the latest checkpoint
(`Following`, `WorksOnLatest`), so a step leaves the checkpointed values alone,
starts the run or is the next node on them (`Steps`); `Moves` says what a node
makes of them. Hence `CompletedIsFinal`, `RecordedIsFinal`, `LostStaysLost` and
`PromiseKept`: each node maps to `Settle`, `Review` or `Publish` or to a stutter.
With any number of threads an interrupt is stored at `human_review` only, since
whoever wrote the latest checkpoint works on it (`Marked`); hence `ShownIsOpen`.

**`ChatProviderProofs`** proves `TypeCorrect` and `OwnError` (`ErrorIsOwn`) for any
set of services and any number of attempts, from `ProviderAssumption`, and
`ReachesService` (`Reached`) also from `AnthropicTakesMaxTokens`: the Anthropic
provider knows one name of the token limit only. Its invariant (`Tried`) says
that where the first way of asking is right only bad moments use up its
attempts, and where it is not the next one is. `CallsAreShort` gives
`CallReturns` a number: a call makes at most `2 * Attempts + 1` requests (seven,
by default, for Azure), since each uses up one of `RequestsLeft`.

**`EvaluationProofs`**, for any documents, judgements and schema, from
`EvaluationAssumption` and `SchemaAssumption`. `EInv` adds to the types that the regression score is that of
the two documents, that the heuristic engine leaves no score out, and that a
report is written when no mapping is left. Hence `TypeCorrect` and
`HeuristicReportsAreComplete`. `EvaluationsAreShort` gives `EvaluationEnds` its
measure: a mapping is judged once by each engine and DeepEval is left once.

- `MeansAreWithin` (`MeanWithin`) is about a sum over a set, which the library
  defines by recursion. The recursive function is shown to exist and to be the
  only one by taking a smallest subset on which two candidates differ
  (`SmallestSubset`, a first-order consequence of the well-foundedness of strict
  inclusion among finite sets; `SumsExist`, `SumsAgree`). The sum of `n` scores
  is then between `n` times the least and `n` times the greatest, and rounding
  does not leave an interval of integers (`RoundedMean`).
- `NothingSlipsThrough` (`NothingSlips`) is about counted fields (`Counted`: right,
  wrongly unmapped and wrongly mapped ones are disjoint) and about ratios of them
  in thousandths. Rounding makes it false for large schemas; the bound of 2000
  fields is the best there is, as scores are rounded here: 1999 of 2000 rounds to full marks.
- `FixesLowerNothing` has no bound: a field that is given golden's mapping lowers no score
  of a document of any size. A quotient that does not fall does not fall when it is
  rounded, nor when it becomes empty (`PartMonotone`), and the harmonic mean of two rounded numbers that do not fall
  does not fall when it is rounded again (`F1Monotone`).
- `FixesShow` (`FixShows`) adds that the correction shows. It holds up to 34 fields,
  and only precision needs a bound that small: with 35, one surplus field
  less changes it from 1/35 to 1/34, both 0.029. The repository's schema
  has 34 fields (19, 7 and 8), so a correction shows in it, with nothing to spare.
- `GoldenAgainstItself`: without a bound, a document without problems scores full
  marks against itself, in each table, with no mismatch.

The assumption that documents are `Published` is proved of what complete runs
and sessions produce (`DocumentsArePublished`, `FilesArePublished`); a file that
`run_eval.py --input` is given and that something else wrote may not be.

Every safety property and every action property of the passing runs is thus
stated by a theorem. Model-checked only are the liveness properties `SessionReturns`,
`CallReturns` and `EvaluationEnds`: the prover has no rule for fairness or
`ENABLED`. What it can show of them, that each step lowers a natural number, is
proved (`InvocationsGoForward`, `CallsAreShort`, `EvaluationsAreShort`). The
library's induction theorems take an operator as a parameter and cannot be
used; well-founded induction as the existence of a minimal element can, and is
how the recursion of the sum is dealt with.
`KeepsPromise`, `CompletedStays`, `RecordedStays`, `DoomedStays` and `RateKept`
are proved for one thread, as they are checked; with more they do not hold.

## 6. Not modelled, and why

- Numeric similarity (TF-IDF, cosine, embeddings) and text normalisation: real
  numbers and strings. Their effect is a free choice of the candidate.
- Prompts, wording, notes, logging, tracing, the layout of reports.
- The provider self-test: one call of each provider, printed.
- A resume through the API of a run id that does not exist: the outcome is the
  library's alone.
- The keys that seeding issues, the lists of tenants and keys, and the check
  that a file exists before it is removed.
- Floating-point rounding of tokens; a reasoning that is not a string.
- A file that is only half written: it is written in one step here.
- What SQLite says in `init_db` of a file that is removed meanwhile: only adding
  the column may raise here, never the creation of the tables or the commit.
- The 34 fields of the two schemas: they are parameters.

## 7. Plan

1. `RunConfig` composed with `MappingRun`: the threshold that reaches a review
   as the one the registry held; and with it the second half of
   `DefaultsComeOfRaces`, that a run nothing races with accepts nothing below it.
2. The change of a session's answers into a file: that a document the command
   line writes is one a complete run had.
