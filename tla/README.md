# PrivAiTe: TLA+ models, checks and proofs

PrivAiTe is a proxy between a client and an LLM provider. It finds personal data in a
request, sends the provider placeholders or fakes instead, and puts the client's own
values back into the reply, also when the reply is streamed. This directory holds TLA+
models of that code, the TLC configurations that check them on small instances, and
proofs, checked by TLAPS, of what must hold for every instance.

    tlc -workers 2 -config MCAnonymizer.cfg MCAnonymizer     # one run
    tlapm AnonymizerProofs.tla                               # one proof module

`PROJECT.json` lists the components, the runs, for every property a mutant of the code
that breaks it, the source lines of every definition, the findings, the hazards and the
theorems. Paths below are relative to the repository.

## 1. Inventory

| component | state | operations | what is hard | what makes it correct |
|---|---|---|---|---|
| Scrubbing core: `pii/anonymizer.py`, `mapping.py`, `deanonymizer.py`, `faker_providers.py`, request path of `engine.py` | per request: two maps (original to fake, fake to original), type of each original, counts, reserved placeholders, known secrets | reserve, shield, anonymize a text, retry a fake, restore | the order of texts; client text that looks like a placeholder; colliding fakes; the same value under two types | exact restore; a detected value never leaves; a known credential is masked in every later text |
| Engine start and validation: `engine.py:94-299` | detectors, languages, producible types | initialize, warmup, validate | a detector that fails to load | blocked types are producible, or start-up fails |
| Structured documents: `engine.py:528-687` | none | scrub, gate and restore JSON-like trees | values nested in encoded JSON | every text leaf is scrubbed once |
| Detection cache: `pii/cache.py` and its use in `engine.py:762-853` | LRU map with time stamps, under a lock | get, put, sweep, clear | awaits between key and store; expiry; limit; configuration changes; shutdown | a hit is complete, in time and of its configuration |
| Window cache: `pii/window_cache.py` | per request: map, closed flag; a context variable | scope, get, put | threads that outlive a cancelled request; nested scopes | nothing outlives the request; no sharing between requests |
| Windowed detectors: `detector_onnx.py`, `detector_minilm.py` | the loaded model | windows, inference, stitching, decoding | seams between windows; empty tokens; labels that are not well formed | each token is labelled once, each labelled word is in a span |
| Entity merge: `pii/entity.py` | none | union, intersection, overlap contest | chains of overlaps, ties | no overlap left, no detection uncovered, the strictest policy wins |
| Allow list: `pii/allow_list.py` | compiled rules | check, compile, apply | a span that is only partly exempt | a span is let through only when all of it is exempt |
| Hold-back buffer: `streaming/buffer.py` | text held back, trie of fakes | feed, flush | a fake cut by chunk borders | no text lost, delayed for good or repeated |
| Streaming handler: `streaming/handler.py`, `sse.py` | a buffer per choice and channel, finished choices | chunk, finish, drain, failure | interleaved choices and channels, missing finish, failing upstream | what the client reads is the restore of the whole text |
| SSE restorer: `gateway/restore.py`, `protocols.py` | a buffer per channel | delta, stop, completion, end of stream; restore of a whole body | held text against stop events; JSON fragments | at a stop the text is final; nothing trails it |
| Request pipeline: `api/pipeline.py`, `chat.py`, `completions.py`, `embeddings.py`, `inspect.py`, `models.py`, `health.py`, `router.py`, `dependencies.py` | per request | validate, scrub, call, restore, count | partial failure under `on_error` | never a half-masked request; restore or withhold |
| Gateway: `gateway/routes.py`, `relay.py` | per request; upstream connection | as above for raw protocol bodies | stream or body, opaque replies, connections to give back | as above |
| Gateway scrubbing: `gateway/scrub.py` | none: the client keeps the history | which leaves of a body are scrubbed, gated, relayed, reserved | what was restored in a reply comes back in the next request | scrub coverage matches restore coverage; what is signed is left alone |
| Open WebUI filter: `integrations/openwebui` | one engine, its key, a lock; a map in the metadata | inlet, outlet, build | valves change at every await; builds fail or are cancelled | engine of the policy in force; map lives between the hooks |
| LiteLLM guardrail: `integrations/litellm` | engines by key; a mapping per call | pre-call, post-call, streaming, failure hooks | the hooks of one call are separate callbacks | as the pipeline |
| Session statistics: `pii/tracker.py` | sessions, by age | record, get, evict | eviction during use | the sum is that of the counted requests |
| Recognizers, boundaries: `pii/recognizer_*.py`, `boundaries.py` | word lists, patterns | match | string matching | precision of patterns |
| Other detectors: `detector_presidio.py`, `detector_gliner.py`, `detector_bert_ner.py`, `detector_base.py`, `detector_mlmodel.py` | a loaded model | detect | third-party models | answer or fail |
| Middleware: `middleware/auth.py`, `limits.py` | bytes counted | check a key, bound a body | bodies without a declared length, clients that leave in the middle | nothing is held of a body whose sender is not admitted, and never more than the limit |
| Provider router: `providers/router.py` | none | one LiteLLM call | | |
| Application: `app.py` | the engine, the router | start, stop | a failing start-up step | what was opened is closed |
| Configuration, command line, `verify.py`, utilities | none | load, validate, print | | |

How they interact. A route of the pipeline or of the gateway calls the engine once per
request; the engine opens one mapping, passes every text through the detectors (cached
across requests by the detection cache, within one request by the window cache), merges
what they report, applies the allow list and calls the anonymizer. The reply goes through
the restore of the whole body, or through a streaming restorer which owns hold-back
buffers over the same mapping. The Open WebUI filter and the LiteLLM guardrail wrap the
same engine for other hosts. Everything runs on one event loop but for model inference,
which runs in threads and shares the window cache.

## 2. Modules and code

| module | models | state and actions |
|---|---|---|
| `Anonymizer` | `PIIEngine._process_request`, `_anonymize_text`, `Anonymizer.anonymize`, `PIIMapping`, exact restore | `fakeOf`/`originalOf` are the two dicts, `counts`, `reserved` and `known` the sets beside them. `StartText` reads a text with what the detectors say of it (an environment choice), `Shield...` and `Replace...` are the loops of the anonymizer, then the request is forwarded, blocked or failed |
| `HoldbackBuffer` | `StreamingDeAnonymizer.feed` and `flush` | operators only; the trie is the set of fakes |
| `StreamRestorer` | `StreamingHandler.stream_response` | a chunk arrives with any tokens and finish reasons; its feed loops run one channel at a time; drain, end, failure |
| `SSERestorer` | `restore_sse_stream`, `_SSERestorer`, the event plans | an event gives blocks (synthetic deltas, then the event) that are yielded one by one. It has no `Spec` of its own: `StreamInit` and `Streaming` are parts of `Conversation`; `StreamSpec` is the stream alone, for the proofs |
| `ScrubScope` | the walkers of `gateway/scrub.py`, `restore_tree`, `engine.py` (messages, tool calls, documents), `api/chat.py` | operators only: a place is the path of a leaf; `Scrubbed`, `Gated` and `Restored` say what is done with it in each protocol and under each passthrough option |
| `Conversation` | several requests of one client, over `ScrubScope` and `SSERestorer` | the client writes, forgets, sends; the leaves are relayed, masked or rejected one by one; the model repeats a text it has read anywhere in its reply; the reply is restored whole or as a stream and joins the history |
| `RestorePromise` | the promise of the three restorers | `exact` text per channel, `read` by the client: text is only appended, and is the exact restore when the reply ends |
| `DetectionCache` | `DetectionCache`, `_detect_all_detailed`, `shutdown` | calls as little programs: key, lookup, detectors, merge, store. Clock, configuration and shutdown are actions of their own |
| `WindowCache` | `WindowCache`, `inference_request`, `_run_window` | tasks enter and leave scopes, threads start, look up, predict, store; a cancelled task leaves its threads running |
| `OpenWebUIFilter` | `Filter.inlet`, `outlet`, `_engine_for`, `_build` | an action is what runs between two awaits; valves change at any of them |
| `EntityMerge` | `merge_entities`, `_type_priorities`, `apply_allow_list` | the detections still to be merged, the merged spans, what the allow list found; an action is one turn of the merge loop (`MergeOne`) or of the allow list's (`Weigh`) |
| `TokenWindows` | `_run_inference` of both windowed detectors | `FirstOf`/`LastOf` are the window ranges, `TokensCovered`/`TextCovered` the checks that refuse a text, `Stitched` the stitching; `DecodeLabel` and `DecodeOutside` are one turn of the BIOES decoder, `Snapped` and `ToWholeWords` what happens to its spans |
| `Detection` | the two composed, as `_detect_all_detailed` does behind its cache | the windowed detector, if any, answers or refuses the text; the others report anything; merge and allow list follow |
| `GuardrailStream` | `_StreamRestorer`, the streaming hook of the LiteLLM guardrail | a chunk is restored and yielded in one step, a finish drops the buffers of its choice, tails are drained in clones of the last chunk |
| `Guardrail` | the hooks of one call, over `GuardrailStream` | the request's fields and the proxy's copy of them, the metadata's map; the fields are scanned one by one, the hooks after the call take the map |
| `Exchange` | both middlewares and the pipeline of chat, completions, embeddings, gateway, dry run, model list | one request: authenticate, receive its body frame by frame under the limit, validate, scan part by part, reject, fail, forward, call, answer, restore or relay or withhold, count, give the connection back |

Composition. `HoldbackBuffer` is shared by the three restorers; all implement
`RestorePromise` (`Promise == INSTANCE RestorePromise WITH ...`, property `PromiseKept`).
`Conversation` extends `SSERestorer` and `ScrubScope`: what one request restored is input
of the next. `Guardrail` extends `GuardrailStream`, `Detection` composes `TokenWindows` and
`EntityMerge`, whose contest of a known copy with a detection `Anonymizer` shares.
`MC*` modules give constants to the modules they extend; `*Proofs` modules extend the
module they prove about. Modules whose constants are plain values are checked as they
are. Caches, anonymizer and restorers share no variable in the code: the engine calls
them through values (a list of entities, a mapping), so they are composed by assumption:
`Anonymizer` takes any list of entities, `HoldbackBuffer` any set of fakes that
`Anonymizer` may issue, `Exchange` any outcome of a scan.

## 3. Runs

| run | checks | what it shows |
|---|---|---|
| `anonymizer` | `IssuedNotReserved`, `RestoreExact`, `DetectedNeverSent`, `KnownNeverVerbatim`, `KnownNeverReversible` | one request of two texts with fakes that collide, words shaped like placeholders and a credential |
| `stream` | `FlushedWhenFinished`, `PromiseKept`, `HandlerEnds` | every cut into chunks of a reply with two choices and three channels; the refinement of `RestorePromise`; every stream ends |
| `conversation` | `MeaningKept`, `SignedUntouched`, `EchoMasked`, `StopSeesWhole`, `NothingAfterStop`, `PromiseKept` | conversations in each protocol with every place a client or a model writes; every sequence of deltas, stops and completions of a relayed stream |
| `cache` | `AnswersComplete`, `HitsInTime`, `HitsFresh`, `WritesSweep`, `EvictsLeastRecent` | two concurrent detections, a clock, one change of configuration, shutdown |
| `window_cache` | `ClosedStaysEmpty`, `OpenWhileRunning`, `Isolated`, `PredictionExact` | two tasks and two threads, nested scopes, eviction |
| `openwebui` | `PolicyInForce`, `MapLifetime`, `NeverBuiltTwice`, `Answered` | two concurrent requests, changing valves, failing builds |
| `exchange` | `FailClosed`, `RestoredOrWithheld`, `CountedOnce`, `Released`, `BodyWithinLimit` | one request at every endpoint under every configuration, its body in any frames, any failure, any moment for the client to leave |
| `detection` | `StitchExact`, `LabelledCovered`, `MergeExact`, `PolicyWins`, `LetThroughExactly` | every tokenization of two texts through windows, stitching, decoding and merge; every report of up to three detections through merge and allow list under every configuration |
| `guardrail` | `ForwardedMasked`, `OwnMapConsumed`, `PromiseKept` | one call through the hooks of the LiteLLM guardrail with up to two fields and any failure; every cut of a short streamed reply, with text behind a finish |
| `stream_overlap` (violated) | `SameAsWhole` | with fakes "Ann" and "Anna" the stream differs from the whole restore |
| `openwebui_valve` (violated) | `RestoredWhenOn` | the restore valve is read twice, around an await |
| `conversation_echo` (violated) | `ScrubMatchesRestore` | a value restored in a citation goes out raw when the client sends the reply back |

The type invariants of `Anonymizer`, `StreamRestorer`, `OpenWebUIFilter` and `Exchange` are
theorems (section 4) and not run; those of the other modules are part of the invariants of
their proofs. The specifications of `OpenWebUIFilter`, `WindowCache` and `EntityMerge` are
called `FilterSpec`, `CacheSpec` and `MergeSpec`, as other modules extend them.

The three violated runs check what a doc, a comment or a field description of the
repository says, quoted under `findings` in `PROJECT.json`. `stream_overlap` needs the
`fake_replacement` method, `openwebui_valve` a valve flipped while a first build is waiting.
`conversation_echo` needs no option. `EchoMasked` states where the comment it refutes does hold:
where a reply speaks (`Speaks`), which is its texts, its calls at any depth, the results of
the provider's tools, and of a block of an unknown type the fields that hold text or data by
their names. Elsewhere it says nothing, and there the proxy does relay what it restored: the
restore takes every string of a reply, the scrub only the fields it knows. `MCSettings` has
both kinds of places, among the latter citations and annotations, the `lines` and the
`error_message` of a tool result, the `pending_safety_checks` of a computer call, the error
of an MCP call, the items relayed whole, and the calls of a chat under the passthrough of
`tool_calls`.

Two behaviours the models show and no property forbids, as nothing in the repository
speaks of them:

* Under `on_error: "allow"` a failing scan ends the walk of a request, and with it the
  search for blocked types (`api/pipeline.py:171`): the raw request may hold one.
  `FailClosed` takes the opt-out as `docs/configuration.md` describes it.
* When the upstream body of the gateway cannot be read (`gateway/routes.py:155`) the client
  gets a bare 500 and not the documented error shape; when it leaves before the first byte
  of a streamed reply the generator that closes the connection never starts. `Released`
  says that the connection is given back at every other end.

### Bounds

* `anonymizer`: 2 texts of 2 words, numbers up to 6, 1 retry (10 in the code), 3 values of
  which one is a credential and one can also come out of Faker, 2 placeholder-shaped words,
  four types of which one is irreversible, one faked and one blocked. Two words are enough
  for a value beside a literal, two texts for a credential met late and a literal that
  clashes with an issued number; the numbers 1 to 6 cover every placeholder those can take.
* `stream` and the streamed reply of `conversation`: 3 characters in all, tokens of 2, fakes
  `<l r>` and `<l d r>`: enough to cut a fake everywhere and put a non-fake prefix beside it.
  One original needs escaping in JSON. Stream: two choices, three channels. SSE: three
  channels, two blocks.
* `conversation`: 2 requests, a history of 3 entries that may be forgotten from its oldest,
  2 values, placeholders up to 4, one of them a string of the client's own. A value
  must be restored in one request and come back in the next, beside a placeholder of an
  earlier request that was never restored; that takes two requests and three entries. The
  settings pair every place where a client writes with one of the model's and every place
  where the model writes with one of the client's, with the prompts, the block list, the
  restore switch and the passthrough options on top.
* `cache`: 2 calls, 2 texts, 2 configurations, 2 detectors, 2 entries, time to live 1,
  clock to 2, one change. A third key (text and configuration) meets a full cache.
  One change of the configuration: a call can meet another one than it began with. A second,
  which can take it back, makes the run too long; `HitsFresh` makes its exception for that
  case, and `HitsAreFresh` is proved for any number of changes.
* `window_cache`: 2 tasks, 2 threads, 2 models, 2 inputs, 2 windows, depth 2, 2 caches.
* `openwebui`: 2 requests, 2 policies; valves change without bound.
* `detection`: texts of 3 and 4 characters (a word, white space, a path separator), up to 4
  tokens of up to 2 characters in any order, windows of 2 and 3 tokens with overlaps of 1
  and 2, so up to three windows, seams of one and two shared tokens, odd and even halves;
  5 labels of two types. Reports of up to 3 detections from 24 (four types of three
  policies, two detectors, two scores, six spans): chains, nests and crossings of three.
* `guardrail`: every request of up to 2 of the 9 fields, each with clean text, a value, a
  value of a blocked type or token IDs: two are enough for one field scrubbed before another
  fails. Streams as for `stream`, two choices and three channels, for chats of one message.
* `exchange`: 2 parts of 7 kinds; one to find and one to fail, in both orders. Bodies of
  up to 3 under a limit of 2, whole or in frames of any length, declared or not.

Deadlock is checked but for the two caches, where every call may be over and the clock and
the counters at their bounds, and `detection`, which ends when the text has its report.

### Fairness

* `stream`: weak fairness of the handler's own steps. The handler is one generator whose
  steps wait for nobody but the provider; the provider is assumed nothing, and the bound
  on the stream ends it.
* `openwebui`: weak fairness of taking a free lock and of the end of a build. The event
  loop runs every task that can run, an `asyncio.Lock` is first come first served, and
  loading models returns or raises. Clients, the model and the valves are assumed nothing.

## 4. Proofs

All theorems are for any values of the constants that satisfy the modules' named
assumptions: `ConstantsOK`, `FakesOK`, `SymbolsOK`, `SettingsOK`, `NoneOK`, `BoundsOK`,
`MergeConstantsOK`, `WindowConstantsOK`, `DetectionConstantsOK`, `StreamConstantsOK` and
`MaxFieldsOK`. They say of what sort a constant is, that symbols for different things
differ (`SymbolsOK`), that windows overlap by at least one token and by less than their size,
as `_window_geometry` makes them, and that an empty token lies between its neighbours.

One hypothesis is more than that. `Apart`, of the theorems that a stream shows the restore
of the whole text: no fake lies inside another one. Numbered placeholders are bracketed, so
they are; the modules `MC*` check it of their fakes. The names of `fake_replacement` need
not be, and the run `stream_overlap` shows that the theorem is false of them.

| module | theorems | argument |
|---|---|---|
| `AnonymizerProofs` | `TypeCorrect`, `MapsStayInverse`, `NeverIssuesReserved`, `RestoresExactly`, `DetectedNeverLeaves`, `KnownNeverLeaves`, `KnownStaysIrreversible` | `IInv == TypeOK /\ Safe /\ Settling`. `Settling` says each word of the text that the loops have passed is settled for good: what stands for it is its fake, its mask, itself when nothing was detected; literals are accounted for. Without it, exact restore is not inductive: a later word could be given a number that an earlier, still unmapped literal shows. `KnownCovered` adds that every copy of a known credential in the current text is under an entity, and under an irreversible one if its type is |
| `RestoreProofs` | lemmas about the hold-back buffer, for the three restorers | the functions of `HoldbackBuffer` recurse on what is left of a text. `Recursion` shows that they are defined, and `FeedRestores` what they compute: the restore of what was held, the new text and whatever follows is what the feed shows, then the restore of what it keeps and what follows. By a smallest counterexample, with the well-founded induction of the library |
| `StreamRestorerProofs` | `TypeCorrect`, `LosesNothing`, `HoldsOnlyPrefixes`, `FlushesEverything`, `ShowsTheWhole`, `KeepsThePromise` | the invariants, plus `DrainedSoFar`: channels the drain has passed hold nothing. For the refinement of `RestorePromise`: what was read of a channel, followed by the restore of what it holds and of what is to come, is the restore of the whole |
| `ConversationProofs` | `OneMeaning`, `SignedIsUntouched`, `EchoIsMasked`, `SilentAfterStop`, `StopsWithTheWhole`, `KeepsThePromise`, and the last three again `...InConversation` | for any settings and places: what is issued is fresh, so the placeholders of the client and of earlier requests keep the meaning they had; what is signed is skipped on both ways; what was restored lies where the model writes, and where a reply speaks the scrub goes down to and reads (`SpeaksWithin`, `ReplyCover`), in calls at any depth. For the stream: `Shape`, `StoppedIsEmpty` (nothing of a stopped channel is on its way), `StoppingIsFlushed` (what an event about to be yielded stops holds nothing), and the account of each channel as above, with what is flushed but not yet yielded. A conversation runs the restorer, so all of it holds there |
| `DetectionCacheProofs` | `AnswersAreComplete`, `NothingServedLate`, `HitsAreFresh`, `WritesLeaveNoneExpired`, `LeastRecentGoFirst` | every result, in an entry or in flight, is complete and of its text (`Complete`); as long as nothing changed since its run began it stands for the live configuration (`Since`, `Stands`); no entry is stored after it is written. `InOrder`: the order lists the entries, each once, and any two of them as they were last used; it needs what `OnlyIn`, `MoveToEnd` and `Evict` leave of an order. For any number of calls and changes |
| `DetectionProofs`, windows | `StitchesExactly`, `CoversLabelled` | `WindowInv`. `Encoded` says that tokens and geometry are such as the code makes them. The rank of a token is how many that show text there are up to it; a row has the ranks of its window, so what two windows share is known (`SharedIs`), the cuts tile the ranks, and the parts joined up to each window are the ranks up to its cut. `Decoding`: each token labelled so far is under a span that was flushed or in the run being collected, and neither cutting a span to its value nor widening it to whole words uncovers a word |
| `DetectionProofs`, merge | `MergesExactly`, `StrictestPolicyWins`, `LetsThroughExactly`, `RefusedIsMasked`, `DetectionMerges` | `MergeInv`: what is merged is in order and disjoint, ends where no later detection can begin before (`Frontier`), covers what was taken (`Covered`) with nothing added (`Grounded`), and carries the type of a detection under it and the strictest priority (`Named`, `Strictest`); `AllowInv`: the verdicts are those of the detections weighed so far, found by the two searches exactly when spans overlap. For every set of detections. `DetectionMerges`: the whole of detection implements the merge, so they hold of it |
| `DetectionProofs`, window cache | `NothingOutlivesTheRequest`, `ScopeLastsAsLongAsTheRequest`, `RequestsShareNothing`, `ReuseIsExact` | threads keep the cache of the task that started them; entries are exact; only made caches have content |
| `IntegrationProofs`, Open WebUI | `TypeCorrect`, `PolicyKept`, `MapOwnedAndConsumed`, `BuildsOnce` | the engine in the slot is of its key's policy, one request builds at a time and holds the lock, a waiting request's key is of the policy it came under, the metadata holds the own map between the hooks only |
| `IntegrationProofs`, LiteLLM | `SendsOnlyMasked`, `MapConsumed`, `KeepsThePromise` | `CallInv`: the fields that were scanned are masked and the copy of the proxy follows them, the metadata hold the call's own map from the sending on until a hook takes it, and no other once the engine is asked for (`MapInTime`). The stream as in `RestoreProofs`, with a segment of text for every time a finish drops the buffers |
| `ExchangeProofs` | `TypeCorrect`, `NeverHalfMasked`, `NoPlaceholderLeft`, `CountsRequestsOnce`, `ConnectionReleased`, `LimitHolds` | a request about to be sent is all masked, as it came under the opt-out, or has no body; each phase of the request fixes what is known, what is held of its body and whether its connection is open |

Every safety property and action property of the passing runs is a theorem, for all values of
the constants. Only model-checked are `HandlerEnds` and `Answered`: liveness, out of the
prover's reach.

## 5. Abstractions

* Detection is an environment choice: any word may be reported under any type some
  detector can give it, or missed. So no property depends on the quality of a model.
* A word is a value or a placeholder-shaped literal; an entity covers one word. Texts are
  not cut into characters but in the restorers, where the borders matter.
* `StreamRestorer` appends the tokens of a chunk at once; channels do not read each other.
* `SSERestorer` restores an event in one step and leaves the order among the channels
  flushed together open; what is yielded is one step each.
* `Exchange` is one request. Its scans run one after the other, as in the code; which parts
  fail is chosen when its body is read. What a body says and how long it is are two choices;
  headers are left out. The provider is honest about whether its answer is a stream and
  JSON, but may leave the content type out. A declared length is that of the body, which
  the HTTP server sees to. Parts masked by placeholders are told from parts masked for good,
  as the mapping is: the latter are counted and need no restore.
* In `DetectionCache` no call begins after the shutdown: the server has stopped taking
  requests by then. Those in flight go on.
* In `EntityMerge` detections are a set; the order of those with the same span, which is
  the detectors', is left open. An entry of the allow list matches the spans of its value;
  strings, lengths and compiled patterns are left out.
* In `TokenWindows` a text is a sequence of character classes and a token its offsets. The
  label of a token is chosen when the decoder reads it; scores are left out, and any span
  may fall below the threshold. A tokenizer may report any offsets, in any order, but an
  empty token lies between its neighbours. The trailing marks and the reach limit of
  MiniLM's whole words are left out; `refine_spans`, which cuts spans on lines of `.env`
  files, has nothing to do in the texts used. The windowed detector runs under the
  default merge configuration, the other detectors' reports under every one.
* The digest of a cache key is injective; a configuration is a value.
* `Guardrail` is one call; the engine it shares with others is ready or cannot be built, as
  its settings never change. A client that leaves before the first chunk of a stream leaves
  the map in the metadata; `OwnMapConsumed` says so. A map is issued exactly when something
  was masked: the method is always `placeholder`. Its text behind a finish is a segment of
  its own, restored by itself.
* In `Conversation` an entry of the history is one leaf and holds one value or one string
  shaped like a placeholder; all values are of one type. A client that edits its
  history is one that forgets and writes. The model repeats texts it has read; what else it
  writes is no business of the proxy.
* In `ScrubScope` lists are left out of paths, and a type the walkers have no rule for is
  "other". Bodies that are not well formed are left out.
* In `OpenWebUIFilter` a policy is the preset, languages and block list as one value.

## 6. Not modelled

* Recognizers, boundaries and the third-party detectors: string matching and models. Every
  answer they can give is covered by the environment choice of `Anonymizer`,
  `DetectionCache` and `Detection`.
* Configuration, command line, `verify.py` and utilities: validation and printing, without
  state. The values of the configuration are constants or initial choices of the modules.
* The provider router: one call, whose failures are in `Exchange`.
* `app.py` and `PIIEngine.initialize`: they run once, in order, before the first request is
  taken; a failure of `initialize` ends the process, one of the warm-up is ignored. No other actor takes part.
* `PIITracker`: `Exchange` says what is recorded, and that it is recorded once; the sums and
  the eviction by age are one critical section each.
* The fuzzy restore (`deanonymizer.py:47-118`): a similarity of strings decides, off by default.
* `materialize_package` (`detector_minilm.py:172`): files of the hub cache put in place for
  Core ML by processes that may run at the same time or die in between. Listed as a
  hazard; it needs a model of the file system which nothing else here uses.
* The framing of SSE events, JSON recoding, headers, `refine_spans`, the shape of replies.

What a next version of this directory would take up first: the files of the Core ML
package.
