# TLA+ models of DMKit

DMKit is a dialog management server: a request carries a user's query, DMKit
has Baidu's UNIT cloud understand it, selects a dialog policy that fits the
understood intent and the state of the dialog, and answers with the policy's
output. This directory models the parts of it where the order of events
matters, checks them with TLC, and proves what TLAPS can.

Paths such as `file_watcher.cpp` are below `src/` of the repository.
`PROJECT.json` maps every definition to the lines it models.

## 1. The system

| Component | State | Operations | Interacts with |
|---|---|---|---|
| `FileWatcher` (singleton) | `_file_info`, `_is_running`, `_watcher_thread`, `_mutex` | `register_file`, `unregister_file`, the thread's poll every second | calls the managers' `reload` under its mutex |
| `TokenManager` | client keys (shared_ptr), token cache and its mutex | `get_access_token`, `reload` | OAuth service through `RemoteServiceManager` |
| `RemoteServiceManager` | channel map (shared_ptr) | `call`, `reload` | HTTP by BRPC or curl |
| `PolicyManager` | policy dict (shared_ptr), user functions | load and `reload`; `resolve`: select, rank, resolve the output | user functions, which call remote services |
| `DialogManager` | the three managers; no state per dialog | `run` per request: session, token, UNIT, policy, reply; a second attempt with `rewrite_query` | all of the above |
| `Policy`, `PolicyOutputSession` | values | parse from configuration; session to and from JSON | |
| `QuResult` | values | parse UNIT's dialog state | |
| `UserFunctionManager`, `user_function/` | a table filled at start-up | pure functions on strings, HTTP calls | `RemoteServiceManager` |
| `AppContainer`, `server.cpp` | the application | start, serve, shut down | BRPC |
| `language_compiler/` | none | translates a drawn dialog flow into policies, offline | `PolicyManager` loads what it writes |
| `tools/` | none | a console client, a mock service | the client carries the session |

Threads: the main thread starts and destroys the managers; BRPC's worker
threads run `DialogManager::run` concurrently on the one application object;
the watcher thread reloads configurations. The session of a dialog is not kept
in the server: it travels in `bot_session` to the client and back.

What is hard, and what makes each part correct:

- *Reloads against requests and shutdown.* Changes must be noticed and loaded,
  a bad file must not replace a good configuration and must be retried, no
  destroyed manager may be called back, the thread must be joined, the shutdown
  must end, and a request must keep the configuration it started with.
- *Cached tokens.* A token from the cache must be accepted by UNIT when it is
  used; after a reload, tokens of old keys must be gone.
- *Selection of a policy.* Within a domain: the best candidate by state, slots
  and position, the fallback only when none fits. Over domains, met in hash
  order: ranked by score, the dialog in progress first, none lost.
- *Loading.* Several files are read one after the other while they are edited;
  bad products fail the load, bad domains are skipped. Nothing is lost or freed
  too early, and what is in use is what the files hold.
- *The output of a policy.* Values pass through splits and resolutions and may
  be empty, contain commas or look like parameters; each parameter, assertion
  and text must mean what is written.
- *Drawn flows.* Compiled policies are selected one by one, and must add up to a
  walk over the chart, in whatever order the compiler met the arrows.
- *The session.* What a turn writes is what the next one reads, however many
  failed or clarifying turns lie between, and the session does not grow.

`PROJECT.json` lists these hazards at their lines, also those no property covers.

## 2. Modules

| Module | What it models |
|---|---|
| `PolicyMatching` | when a trigger fits and which of two policies is preferred |
| `PolicyChoice` | abstract: the right candidate is chosen in one step |
| `PolicySelection` | `find_best_policy` and `find_best_policy_from_candidates` as loops |
| `PolicyResolve` | `PolicyManager::resolve` over all domains of a product |
| `FileWatcher` | the watcher thread, the main thread's start-up and shutdown, the operators who edit files |
| `TokenManager` | request threads, the watcher thread's reload, the clock, the OAuth service |
| `SharedConf` | copies and resets of a `std::shared_ptr` member, word by word |
| `DialogSession` | the session over the turns of a dialog, with the client |
| `PolicyLoading` | `load_policy_dict`, its failures, its objects, and when the watcher repeats it |
| `PolicyTemplates` | texts with parameters, lists of them, as loops over tokens and as what they mean |
| `PolicyOutput` | `resolve_policy_output`: parameters, assertions, texts; user functions |
| `DrawnCharts` | a drawn dialog flow and the rules for drawing one |
| `DialogChart` | abstract: the dialog walks over the chart |
| `LanguageCompiler` | the policies that `compiler_xml.py` writes, and the dialog by them |
| `MC*` | instances for TLC |
| `*Proofs` | theorems about the module they extend; `PolicySelectionProofs` has those of `PolicySelection` and of `PolicyResolve` |

`PolicyMatching` is the vocabulary of the two levels of policy selection:
`PolicySelection` implements `PolicyChoice` (checked and proved), and
`PolicyResolve` uses what `PolicyChoice` promises (`IsBestAt`) in place of the
loop. `FileWatcher`, `TokenManager` and `SharedConf` look at the same reload
from three sides: who runs it and when; its effect on the token cache; and the
copy of the pointer, which is one step in the other two. `DialogSession` leaves
open which of the policies whose state trigger agrees is selected; which one is
the subject of `PolicyResolve`. `PolicyLoading` takes up the callback where
`FileWatcher` leaves it and looks inside the load. `PolicyOutput` is the step
that `PolicyResolve` leaves open (`ResolveOutput` or `ResolveFails`).
`LanguageCompiler` composes the compiler with selection (`IsBestAt` again) and
with as much of `PolicyOutput` as compiled policies use, and implements
`DialogChart`.

Definitions named `Mutant` in their comment are plausible errors of the
definition below or above them. No specification uses them; put in its place,
each makes a property fail, which shows that the property depends on that code.

### How state and actions correspond to the code

**PolicySelection.** `scanning`, `next` and `best` are the vector passed to
`find_best_policy_from_candidates`, the position of its range-for loop and
`policy_result`. One action is one turn of the loop. The multiset comparison is
`SlotsSupplied`.

**PolicyResolve.** `visited` records the order in which the hash map yields its
domains, which is any order; `top` is `state_domain_policy` and `state_policy`;
`ranked` is the `forward_list`. `VisitDomain` is one turn of the first loop
(pass over, keep for the top, insert by score), `RankTop` the insertion after
it, `ResolveOutput` and `ResolveFails` one turn of the last loop. Whether
`resolve_policy_output` succeeds is nondeterministic.

**FileWatcher.** `main` runs, for each manager in order: load the file
(`LoadConf`), stat it in `register_file` before the lock (`StatConf`), and
register it under the lock (`RegisterFile`). On shutdown or failed start-up,
for each manager: the destructor frees what it frees first (`ReleaseFirst`),
unregisters (`UnregisterFile`, or `UnregisterLast` then `JoinWatcher` for the
last file) and is gone. The watcher tests the flag, takes the lock, stats each
file, calls back, releases. `mutex` names the holder; `UnregisterLast` keeps it
while main is in `join()`. A file's content is the number of its edit, the
second of the edit and whether it can be loaded. `ctime()` formats into a
static buffer: while main is in `register_file` and the watcher in a poll,
each may read any time (`TimesRead`).

**TokenManager.** A request thread computes `expire_guard` (`Begin`), looks up
the cache under its mutex (`LookupHit`, `LookupMiss`), copies the client key
(`CopyKey`), calls the service (`Issue` and `Receive` are the two ends of the
call, `CallFails`), and stores the token (`Store`). The reload is three steps:
load, replace the map, clear the cache. `expire` is the code's `expire_time`,
`until` the moment at which the service stops to accept the token.

**SharedConf.** A shared_ptr is the words `map` and `block`. A copy reads both,
in either order, then increments the count; a reset swaps both with a
temporary, in either order, and then releases the old block. When freed memory
is accessed `fault` is set and the model stops: anything may happen then.

**DialogSession.** `dmSession` is `dm_session`, and `Send` the part of
`DialogManager::run` up to its extraction; `pc` tells the two calls of
`process_request` apart. `Fails` stands for every way a call ends without a
DMKit response and with an error, `Clarify` for `handle_unsatisfied_intent`,
`Answer` for a resolved policy, `Deliver` for the client's handling of the
reply in `tools/bot_emulator.py`. `NextSession` is what `resolve_policy_output`
and `set_dm_response` put into the session: the output's own context first,
then every `dmkit_param_context_` parameter, then the last text. The output's
own context is a list, as in the code: the keys in its entries are templates,
so two of them may come out the same, and any may be `dmkit_param_last_tts`
(`Written`); so may the state (`states`).

**PolicyLoading.** `pc` says which loop a load is in: `ReadProducts`, then for
each product `BeginProduct` and for each domain `LoadDomain` or `SkipDomain`,
`EndProduct`, and `Swap` at the end; `ReadFails` and `ProductFails` are the
returns of nullptr. `member` and `entry` are the positions in the two loops.
Each domain file is read when its turn comes, so edits fall between. The maps
are bare pointers in the code: `heap` says what each allocated address holds,
`building` is `product_policy_map`, `current` the `domain_policy_map` of the
product the loop is in. `Push` is one turn of the innermost loop, over the
policies of a file, which is a step of `LoadDomain`. `seen` is the time that the
watcher has recorded for products.json, and `polled` the one it has read before
the reload. Both are seconds, as the `ctime()` strings are that the code
compares (`file_watcher.cpp` 46 and 93): an edit is in the second of the one
before or in a later one, and a reload is due only when the seconds differ. A
later edit never has an earlier time; a file that is replaced by an older one
with its old time is outside the model.

**PolicyTemplates, PolicyOutput.** A text is a sequence of tokens; `{%}` is one,
because there the code's unsigned `i - last_index` wraps. `ScanText` is the loop
of `try_resolve_params` over the tokens, `Resolve` its result, `ResolveList` and
`SplitList` are `try_resolve_param_list` and the splits; `IsResolvable` and
`Filled` say what was meant, position by position. In `PolicyOutput` one action
is one turn of the loop over the parameters or over the outputs, or the filling
of the selected output's texts; `params` is `param_map`. What
`resolve_policy_output` returns as nullptr is `NoAnswer`. The value of a
`func_val` parameter is one text: `FunctionName` and `FunctionArgs` split it at
its first colon, as lines 661 to 677 do.

**LanguageCompiler.** `order` is the order in which the compiler's dict of
arrows yields them, which in Python 2 is any. `ToNodes` and `FromNodes` are the
connections, `StateOf` the numbering, `PoliciesOf` the policies of an ellipse,
`OutputsOfArrow` the assertions of an arrow out of a rhombus. `SelectedFor` is
the policy that DMKit selects among those of an intent, and `Selected` the one
for the user's intent or else for `dmkit_intent_fallback`. `Answer` and
`NoAnswer` are a turn of the dialog by those policies. `session` and `context`
are the state and the context of DMKit's session. The state of an output is a
template, which `Answer` resolves: the chart of `conf/app/demo` has STATE lines
`{%state%}` (the state before) and `{%dmkit_param_context_state%}` (one kept
from an earlier turn), of which the second and third kind of charts in the run
are made. What a parameter's value is made of is abstracted to its source; the
text of the last answer is one value, `Spoken`; of the default parameters
`dmkit_param_slot_` is left out; a STATE line that is a template is one
parameter and nothing else. The visual tool's outputs have no context of their
own.

## 3. What TLC checks

| Run | Bounds | Shows |
|---|---|---|
| `selection` | two vectors of up to 3 candidates out of 4 triggers, 3 QU results, 3 session states | best candidate so far; slot counting equals a one-to-one matching; the loops implement the one-step choice |
| `resolve` | up to 3 domains of 4 configurations, 2 scores, every session and `domain` parameter | sorted by score and then by visit, nothing found is lost or ranked twice, the dialog in progress first |
| `watcher` | 2 files, 2 edits, removals, 2 seconds | the watcher's loop sees one map, no callback after destruction, thread joined, which edits can go unnoticed; a valid change is loaded in the end; destruction ends, or is stuck in the `join()` named below |
| `token` | 1 bot, 2 threads, margin 2, latency and lookup 1, lifetimes 1 and 3, 5 seconds, 1 reload | cached tokens are alive when used; stale only by a late store |
| `shared_conf` | 2 threads, 3 loads | counts are exact whatever interleaves; copies no reset overlaps keep their map |
| `session` | 2 bots, 2 keys and the last text's, 2 values, policies that write by parameters, by entries, by both or twice, dialogs of any length | the session is that of the last answer; what reads return; it does not grow |
| `loading` | 2 domain files of 2 contents, 5 contents of products.json, 3 and 2 versions in up to 3 seconds, 9 addresses | no object is lost or freed in use; what is in use is what the files hold; a loadable products.json is loaded in the end, unless its time is that of the one in use |
| `output` | every text of up to 3 tokens (4 after `{%`), each type of parameter and assertion, 5 request values, 2 normalized values, lists of 1 to 4 | parameters, assertions and answers mean what is written, and which failures leave a request unanswered |
| `flow` | 4 charts, every order of their arrows, 3 intents, 2 values of 2 sources, dialogs of any length | the dialog by the compiled policies implements the walk over the chart, with values kept, STATE lines that are templates, and the fallback intent |

Why these bounds are enough: in `selection` a third candidate meets a best one
that has itself replaced another, and triggers repeat a slot. In `resolve` three
domains tie, do not tie, and have the session's domain among them. In `watcher`
two files make the difference between the last and another one, and two edits in
two seconds are enough for a bad edit and the good one after it, in one poll or
in two, and in one second or in two. In `token` the margin is exactly the sum of
the delays, so one second less would show. In `shared_conf` a copy can be
overtaken by two reloads. `session` and `flow` have no bound on turns: their
state space is finite because the session is. In `loading` three versions of
products.json are a good one, one that fails after a domain is built or is
skipped, and one that repeats a domain's or the product's name; nine addresses
hold the dict in use, the one being built, and what one repeated name after
another loses. In `output` four tokens hold `{%a%}` with a token to spare, and
values that are empty, a list, a number with fewer digits, or a parameter
themselves.

What the properties exempt is named in them. `NothingLeaks` exempts documents
that repeat the name of a product or of a domain (`clash`): the pointer that
`FlatMap::insert` overwrites is never freed. `AssertionsReadAsWritten` exempts
lists whose values bring in commas or delimiters, or whose last element is
empty (`IsPlain`): an assertion is resolved before it is split, and the split
drops an empty last element. `FollowsChart` is about drawings that the visual
tool can save (`IsDrawing`) and that follow the rules of `docs/visual_tool.md`,
a condition using the parameters of its rhombus among them. It needs four more
rules, which the document does not state and the compiler does not check
(`ChartsAssumption`):

- An arrow that leaves a rhombus has a condition.
- Cells whose parameters come together in one policy do not give one name two
  sources: the later parameter would count in every branch of the rhombus.
- The bot cells behind a rhombus do not use one another's parameters, and what
  the context is to keep is given its name in the rhombus (`BranchesApart`): the
  parameters of all branches come together in one policy, and are set and kept
  whichever branch is taken.
- From a bot cell whose STATE line is a template no arrow leaves: the dialog
  goes on from the cell that the state names. An arrow would compile into a
  policy for a state with `{%` in it, which is never the session's.

STATE lines need not differ: the dialog is then at all cells of the state
(`Places`). The second and the third rule, and that conditions use the rhombus's
own parameters, came out of proving the refinement.

Deadlock is not checked where the behaviour ends: a selection or a resolution
returns, the program exits, the start of the server fails, an output is
resolved, or a fault stops the model of `SharedConf`. In `token`, `session`
and `flow` it is checked.

Three runs check a statement of the repository that the code does not keep; each
counterexample is short and reads as a story.

| Run | Statement | What happens |
|---|---|---|
| `watcher_quit` | after Ctrl-C the server stops and main returns (`server.cpp` 110) | the server has started and is asked to quit (`HasServed`); the last `unregister_file` joins the thread under the mutex the thread waits for |
| `shared_conf_race` | one application for all threads, thread safe (`application_base.h` 24) | a copy of the shared_ptr overlaps a reset and uses freed memory |
| `session_template` | stored context is used next turn (`docs/tutorial.md` 73, 104) | the template reads the older of two entries of a key |

More facts of this kind are in the models without a run of their own. An
edit between the load in a manager's `init` and the stat in `register_file`
counts as seen, so it is not loaded before the next one: for that reason
`UnnoticedOnlyWithinSecond` speaks of files that the watcher has reloaded, and
`ChangeIsLoaded` leaves that start-up out (`Behind`). And after "Reload
finished." a request that copied its client key before may still store a token
of the old key: `StaleOnlyByLateStore` says that nothing else can. An edit of
products.json in the second of the one that is loaded, which is likely while it
is being loaded, is lost until its next edit: `QuietMeansLoaded` and
`LoadableIsLoaded` name it as the one exception. And twice the tutorial says
something else than `resolve_policy_output` does:

- `docs/tutorial.md` 85 has the value of a `func_val` parameter as a list joined
  by commas whose first element is the function's name. The code splits the name
  off at a colon (`policy_manager.cpp` 661 to 674), as the configuration in
  `conf/app/demo` and `docs/faq.md` 39 have it. `ParamsReadAsWritten` says what
  becomes of both: with the comma no function is called.
- `docs/tutorial.md` 66 has a policy return nothing when a required parameter is
  empty. The code does so only when the parameter cannot be resolved; one that
  is resolved to an empty text is kept (lines 607 to 612, 626 to 631, 651 to
  656). `AnswerReadsAsWritten` lists the reasons, and this is not one.

**Fairness.** `FairSpec` of `FileWatcher`: `WF_vars(Watcher)`, for
a thread that is scheduled, and `SF_vars(Main)`, because main's wait for the
mutex is interrupted by the watcher's polls, but the watcher sleeps for a whole
second without the mutex after each of them, so main gets it. `FairSpec` of
`PolicyLoading`: `WF_vars(Reload)`, for the watcher thread keeps polling and a
load is a loop that waits for nobody. Nothing is assumed of operators, of the
clock or of Ctrl-C. `watcher_quit` refutes termination under the same fairness.

## 4. What is proved

For every value of the constants, from the assumptions named in the modules:

- `PolicySelectionProofs`, of the scans: `ScanTypeCorrect`, `ScanCorrect`,
  `SelectionImplementsChoice` and `SlotsOneToOne`. The inductive invariant is
  `ScanInv`: `best` is right among the candidates before `next`, and the fallback
  vector is scanned only when no candidate of the intent fits. It is needed
  because the result is right only at the end. The step lemma `VisitKeepsBest`
  rests on `Outranks` being a strict order that is total up to ties
  (`OutranksOrder`). A `Return` step maps to `Answer` of the abstract
  specification, every other to a stutter. `SlotsOneToOne` puts together, key by
  key, the injections that the counts allow (`SmallerFitsIn`): no two keys meet
  in one place.
- `PolicySelectionProofs`, of the resolution over domains: `TypeCorrect`,
  `SortedByScore`, `FoundAreRanked` and `SessionFirst`, for any domains,
  configurations and visiting orders. The invariant `ResolveInv` says at every
  turn of the first loop which entries are ranked, that they belong to visited
  domains, each once, and that no visited domain's policy is missing: sortedness
  alone is not inductive, since ties are ordered by the visit. `InsertAtIs` and
  `HasMin` say what the insertion does, `FoundIs` that a domain answers with one
  policy at most.
- `FileWatcherProofs`: `PollsOneMap`, `CallbackSafe`, `ExitJoined`,
  `WatcherInvariant`, `TypeCorrect` and `UnnoticedWithinSecond`, for any
  number of files and any orders of initialisation and destruction. `Inv` is
  `WatcherInv` with the typing it needs: who holds the mutex, that
  registered files are among those still to be destroyed, and that the thread
  runs exactly while a file is registered. Without the last part a file could
  be unregistered with no thread left to join. `Times` adds that what is loaded
  is not older than the time recorded for it, which `UnnoticedWithinSecond`
  rests on; it needs that each file is initialised once (`OrderAssumption`).
- `PolicyLoadingProofs`: `TypeCorrect`, `QuietLoaded`, `ServedAlive`,
  `NothingLost` and `InUseAsPromised`, for any documents and any number of
  edits. `LoadInv` says that a load of the products.json on disk took the domain
  files as they were at its last edit or later, and that the second that was
  polled is not later than that of the document read after it; `HeapInv`, that
  what the dict in use and the one being built reach is allocated and that the
  two share nothing, so that freeing one leaves the other; `OwnerInv`, that
  nothing else is allocated as long as no document repeats a name, for which
  it must know that the names in a map are those of members already passed.
  `RightInv` is about the loops: after n members, what is built is right for
  every name whose files nobody has edited since the load began, of several
  members of a name the last that can be loaded; an edit only makes its
  premise false. The vectors of one file are `IntentMapPromised`, by induction
  over its policies: exactly the valid ones of each intent, in file order.
- `SharedConfProofs`: `TypeCorrect`, `FreedWithLast` and `CopyOutlives`, for any
  finite number of requests (`RequestAssumption`) and any number of loads.
  `Shape` says which load each word of the pointer is of at each point of a
  reset; `Counts`, that each count is the cardinality of its holders.
- `TokenManagerProofs`: `TypeCorrect`, `TimesBounded`, `HitsAreAlive` and
  `StaleOnlyByLate`. `TimeInv` bounds how late `expire_time` can be, in the
  cache and in each thread; the alive token follows from
  `MarginAssumption`: `MaxLatency + MaxLookup <= Margin`. The code's margin is
  60 seconds; `conf/app/remote_services.json` gives the call 3 seconds and one
  retry.
- `DialogSessionProofs`: `TypeCorrect`, `LastAnswerHeld`, `ParamWritesStay`,
  `LastAnswerRead` and `ContextBounded`, for any bots, keys, values and
  policies (each of finitely many keys), and dialogs of any length. The invariant
  says that a session and the memory of its dialog agree: which keys it has, in
  which order they were put there, what a read of each returns. It holds of the
  client's session, of the one in a response, and of the server's while it serves
  the request; all that is hard is one answer (`AnswerAgrees`). An answer may
  write a key several times, so the bound is one entry of a key more than the
  last answer itself has written.
- `PolicyOutputProofs`: `TypeCorrect`, `ParamsAsWritten`, `AssertionsAsWritten`
  and `AnswerAsWritten`, for any policies, requests and answers of services, and
  for texts of any length. They rest on two theorems about the loops over a
  text, each by induction over it. `ResolveReadsAsWritten`: the scan of
  `try_resolve_params` succeeds exactly on well-formed texts, and yields them
  filled in; what the loop has resolved is the text up to the last delimiter
  (`ScanAgrees`). `ListReadsAsWritten`: a list that is resolved as a whole, then
  split, then resolved part by part is the list that is written, if no value
  brings in a comma or a delimiter; the scan of the whole and the scan of a part
  differ by a prefix that is cut into the parts before (`Mirrors`). That premise
  is `IsPlain` in the property, and section 3 says why it is needed.
  `SelectionInv` carries the outputs that the loop has passed by.
  `OutputAssumption` types the policies and requests and says that the names
  DMKit gives to context and slot parameters differ, as they do by their
  prefixes.

- `LanguageCompilerProofs`: `TypeCorrect` and `CompilerFollowsChart`, for any
  drawings by the rules, however large, any order of their arrows, anything the
  user may say and dialogs of any length, as long as there are numbers for the
  bot cells and no STATE line is one of them (`NumbersAssumption`).
  `CompilerFollowsChart` is the refinement of `DialogChart`; its mapping labels
  the bot cells with the states that the compiler gives them, which is a
  labelling of the chart because a cell without a STATE line has a state that no
  other has and that is no template (`OwnState`: the numbering counts these
  cells, and the count grows at each of them). The lists that the compiler joins are first taken apart into what they contain
  (`FlattenIs`, `KeptIs`, `MergeIs`), so that the order of the arrows is gone:
  `PoliciesAre` (one policy for each arrow into an ellipse, no others),
  `ParamsAre` and `OutputsAre` (what follows an ellipse). Then, step by step: the
  selected policy is that of an ellipse the dialog may take, and there is one
  wherever there is such an ellipse, for the user's intent and for the fallback
  (`SelectedIsHeard`, which needs `BestExists`); an output of a rhombus holds
  exactly where its arrow's condition is true, one of `||`'s outputs where one of
  the alternatives is (`HoldsIfTrue`); the parameters of the policy give what the
  cell uses, and what is kept, the values that the cells on the way give them
  (`DirectWay`, `BranchWay`), so text, state and context are the same
  (`MatchIs`). `Answer` maps to an answer of the chart, `NoAnswer` to one of its
  three ways not to reply (`AnswerFollows`, `NoAnswerFollows`), `Say` to `Say`.

Every invariant, action property and refinement that a passing run checks is
stated by one of these theorems. Only model-checked are the liveness properties
`ChangeIsLoaded`, `QuitsUnlessJoinDeadlock` and `LoadableIsLoaded`: liveness and
`ENABLED` are out of the prover's reach. The three runs that refute a statement
have nothing to prove.

## 5. What is not modelled

- `RemoteServiceManager::call` and the settings it loads: which client is used,
  headers, time-outs. A call is one that succeeds or fails at any moment;
  `max_retry` is BRPC's, and curl ignores it. BRPC's server and its own
  shutdown, which is over before the managers are destroyed.
- Request validation, reply formats and the JSON of sessions and outputs.
- User functions other than `choose_if_equal`, `replace` and one that calls a
  service: they compute on numbers, dates and encodings.
- The compiler's parsing of cell texts and `run.py`, which runs it on the files
  of a directory.
- Answers of UNIT and of the OAuth service outside their data contract.
- `TokenManager`'s destructor frees its cache before it unregisters:
  `FileWatcher` exempts such managers (`ReleasesFirst`) from
  `CallbackFindsManager`; no module looks at the freed cache.
- Logging, thread data, the request context and the mock service.
- The vendored RapidJSON under `src/thirdparty`, which is about 14,000 of the
  repository's 19,600 lines of C++ and Python: third-party code that DMKit uses
  as it is. A parse yields the document or fails. DMKit's own lines are some
  5,100, of which the definitions map about 2,000; what is left are mostly the
  points above, headers and includes.

## 6. Plan

Extending the model, as far as more runs are worth their time:

1. Shutdown of `TokenManager` with its cache and lock, composed with the watcher.
2. `RemoteServiceManager`: the loaded channels (a service named twice loses its
   second channel), and `call` over the copied map.
3. `DialogManager::run` as a pipeline that composes token, UNIT, resolve and
   session; a specification of one request that it implements.

Proving more: that what `PolicyResolve` leaves open (`ResolveOutput` or
`ResolveFails`) is what `PolicyOutput` decides, and that the sum of the two and
of `DialogSession` is one turn of a request.
