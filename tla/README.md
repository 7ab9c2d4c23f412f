# Verification of intelligence-cloud-go

TLA+ models of the Intelligence Cloud Go SDK and of `icctl`, checked with TLC;
their safety and action properties are proved with TLAPS as well. Every definition is translated from the Go
source; `PROJECT.json` maps each one to its lines. Paths below are relative to
the root of the repository.

## 1. Inventory

### The SDK

| Component | State | Operations | What is hard | Correct when |
|---|---|---|---|---|
| `internal/transport/transport.go`: a RoundTripper shared by goroutines | `t.cached`, `t.cachedExp`, `t.mu`; per call: attempt, token, last answer, context | `RoundTrip`, `getToken`, `invalidateToken`, `handle401` | the 401 path runs without the mutex that the normal path holds; retries, cancellation and re-authentication meet in one loop | bounded sends, every call ends, the verdict fits the last answer and what the backend did, no call fails because of what another did to the cache |
| `internal/transport/retry.go`, `retry.go`: when to retry, how long to sleep | policy, `lastResp` | `shouldRetry`, `computeBackoff`, `retryAfterDelay`, `Validate` | int64 overflow, an untrusted `Retry-After`, a hint that outlives its answer | no sleep above `MaxDelay`; the documented delay |
| `auth`: credential providers | `p.cached`, `p.valid`, `p.mu` | `Token`; the caller's callback | a second cache under the transport's, with its own mutex and margin | one refresh at a time; a 401 leads to a usable token |
| `pagination.go`: `Iterator[T]` | page buffer, position, token, counters, `done` | `Next`, `Value`, `Err`, `PageInfo`, `Close` | a long protocol over page boundaries, caps, failures | each item once, in order; pages on demand; the loop ends |
| `services.go`, `options.go`, `client.go`: one call of a resource method | none that calls share | four hand-written ways to send a request | error paths, contexts, bodies, four status mappings | typed result fits the answer; body closed; context ends the call |
| `errors.go` | none | constructors | - | one kind per status |
| `telemetry.go`, `redact.go`, `context.go` | none | spans, redaction | strings only | not modelled |

`NewClient` stores a retry policy and never builds a `transport.Transport`:
today's services talk to `http.Client` directly, through `Client.do`,
`genClient` or `httpClient.Do`. `Transport` and `Services` are therefore two
models of two things, and the gap between them accounts for several of the
disagreements of section 3.

### The CLI

| Component | State | Operations | What is hard | Correct when |
|---|---|---|---|---|
| `cmd/icctl/profile/store.go` | `config.yaml` | `Save`, `Remove`, `SetDefault`, `Get`, `List`, `Default` | load-change-truncate-write with no lock; a crash in between; two processes | a readable file has its default profile; operations are atomic for one process |
| `cmd/icctl/profile/secret.go`, `file.go` | keychain and `credentials.yaml` | `Get`, `Set`, `Delete` | two stores never reconciled, a keychain that comes and goes | nothing lost, nothing resurrected |
| `cmd/icctl/cmd/root.go`, `profile.go` | the profiles and tokens behind two interfaces | `resolveState`; `profile add/set-default/set-token/remove/test` | four layers of settings, two lookups by one name, commands of two steps | URL and token from one profile; no orphan token used |
| `cmd/icctl/main.go`, `cmd`, `confirm`, `tui`, `exitcode.go` | one run of the program | twenty subcommands: settings, flags, file, client, requests, pages, preview, prompt, output, exit code | Ctrl-C anywhere, lost answers, listings that break off, output that cannot be written, the order of consent, checks and request | no harm without consent; mistakes cost nothing; a part is not printed as the whole; the exit code tells the truth |
| `output` | none | JSON and tables | only one of the two reports that it cannot write | with `-o json`, exit code 0 means that it was shown (in `Invocation`) |
| `version`, `completion` | none | constant text | - | not modelled |

`main.go` passes no stores to `NewRootCmd`, and `profile.Store` does not have
the methods of `cmd.ProfileStore` (a comment expects it "at merge"). The two
sides of that seam are modelled separately: `ProfileStore` and `SecretStore` at
the API of package `profile`, `Settings` at the interfaces of package `cmd`.

The hazards that follow from this are listed in `PROJECT.json`, each at its
line, with the properties that would catch it going wrong.

## 2. Modules

```
Call     <--refines-- Transport <--extends-- AuthStack, Delivery   Backoff
Errand   <--refines-- Delivery                                     Services
Stream   <--refines-- Pagination                                   Invocation
Registry <--refines-- ProfileStore
Vault    <--refines-- SecretStore
Registry x Vault <--refines-- Settings
```

`Call`, `Errand`, `Stream`, `Registry` and `Vault` are abstract specifications: what a
caller may rely on. `Registry` and `Vault` are met from both sides: the stores
implement them, and the commands of `Settings` need nothing else. The others are the code. An `MC*` module gives a specification its
finite instance, and states what a document says where the code disagrees.
`*Proofs` modules hold the theorems. Definitions under a comment that begins
with "Mutant" are not part of a specification: each is a plausible mistake, and
`PROJECT.json` names the property that notices it.

**Transport** - one action per stretch of `RoundTrip`, `getToken` and
`handle401` between two points where another goroutine can be seen: locking
`t.mu`, calling the provider, sending, waking up. `pc` names the place, `lock`
is `t.mu` while it is held across `Provider.Token` (everything else under the
mutex is one step). The provider returns any token or fails and the backend
answers anything; token ages are 0, 1, 2 for before, at and after the safety
margin, because `getToken` and `RefreshFunc` compare with it differently. A
sleep may be over at any time: durations are in `Backoff`.

**AuthStack** - `Transport` over `auth.RefreshFunc` (`mode.adapter = "refresh"`),
`auth.StaticToken` (`"static"`: always the same token, which never expires, and
never an error) or a provider of the user's that asks each time (`"direct"`, which is
external), with a backend that accepts one token at a time and answers 401 to any
other, and that may or may not drop a token before it expires (`mode.early`). Each
step is a step of `Transport` with the provider's part conjoined. The identity
service may keep a caller waiting for as long as that caller's context is alive.
Nothing can follow a fixed token that is refused from some time on: with
`StaticToken` and early revocation TLC refutes `NoSpuriousAuthFailure`, as it should,
and every call ends all the same (`stack_live`).

**Delivery** - `Transport` over a backend whose effects count. Each send puts a copy
of the request on the wire, with the key that `req.Clone` gives it; the backend may perform a copy before it answers,
after it answered 5xx, after the connection broke, or when the call is over. It
performs what it confirms with 2xx, never what it answers with 3xx or 4xx, and
one copy of a key: that much is assumed of it, because research.md:55 leaves
duplicates to it. Each step is a step of `Transport`, with the wire observed. Without
sends and answers what is left is an `Errand`: how often the request has been
performed, and what the call came to.

**Backoff** - one call's sleeps as numbers: an integer of a configurable width
(`MaxInt`) stands for int64 nanoseconds and `Second` for 1e9, so that overflow
happens within a few attempts. `Wrap` is Go's wrapping product, `FromFloat` the
conversion as amd64 does it: out of range becomes the most negative integer.
Random draws are nondeterministic choices from the range of the draw.

**Pagination** - the fields of `Iterator`, one action per way through `Next`. The
backend's catalogue is a sequence of page ends, so an item is a number and the
order is visible. `ListByCompany`, which requests the first page at once, is the
"eager" source.

**Services** - a call of one method. Each of the 22 methods is a record: the way
it sends ("gen", "list", "login", "do"), the options it takes and the ones it
heeds, and whether it checks its arguments or expects a body. A call has a
method, options and any status for an answer; the response body is a resource
that is open or closed.

**ProfileStore** - load and change are one step (nothing shared is written),
truncation and writing are two, so that processes can overlap and die in
between; `Overlaid` is a file in which the end of another's longer text stayed
behind. The writing of the text itself is taken to be one `write(2)`. `alone`
says whether one process runs at a time; the abstract `Registry` is claimed only
then.

**SecretStore** - the same file discipline under a keychain that is "up",
"absent" (an error for which the code falls back) or "locked" (any other one),
and that stays so or changes (`flaky`). A crash in the middle of a
write does lose the file's entries; `latest` then says Unknown, and the
properties claim that nothing else loses or revives a credential. To a user whose
keychain stays as it is, the two stores are one `Vault`: what he sees is what
`Get` returns (`Seen`), a save counting from the moment the old file is cut.

**Settings** - each profile command is a step per store it touches; it may stop
in between. `resolveState` is a family of operators over the inputs, because it
changes nothing. The commands are given which profile is asked for, which is all
they look at; `UsesWhatWasTested` ranges over every flag and variable for base
URL and environment. The two stores are seen as a `Registry` and a `Vault` that
`Settings` instantiates: a command is a sequence of their operations.

**Invocation** - a run of `icctl`. A subcommand is the sequence of the steps of its
run function, in that order (`ResellersDeactivate ==
<<"flags", "client", "read", "preview", "confirm", "write", "print">>`), and there
is one action per kind of step; so the twenty run functions, which repeat the
same lines by hand, are compared line by line and not merged into one. `performed`
is the backend's side: it may act although its answer is lost, and later than the
run's end. It may also redirect a write (`redirected`), and is then taken not to act
on it: `http.Client` follows by a GET whose answer passes for that of the write, and
`Client.do` (services.go:230) takes a 3xx that is not followed for a success. A listing
ends by its last page, by `--max-items` or at a page without items that names another
one (`ended`), for all of which `Err` is nil. Which of the steps derive a context with `--timeout` is part of the
sequence ("timed"), because only some commands do.

## 3. Runs

Each configuration checks for deadlock unless a call, a run of the program or an
unreadable file really ends the behaviour (said in the `.cfg`).

| Run | Shows | Bounds |
|---|---|---|
| `transport` | RefreshOnlyOnMiss, CancelBoundsSends, refinement of `Call`, which bounds the sends and says when a call may give up; no call turns back | 2 goroutines, 2 tokens (one without expiry), 2 attempts, statuses of the four kinds: success, 401, final, retryable |
| `stack` | single flight; no circular wait for the two mutexes; no spurious authentication failure, over `RefreshFunc` and `StaticToken` with tokens that live until they expire and over a direct provider with early revocation | 2 goroutines, a fixed and 2 successive tokens, 2 attempts |
| `stack_live` | a call waits for ever only if some caller asks the identity service for ever under a context that stays alive | the same, `RefreshFunc` and `StaticToken`, early revocation, 1 attempt |
| `delivery` | a success is one; failures by clear answers changed nothing; refinement of `Errand`, where a key means once | 1 call, 2 tokens, 3 attempts and a resend, 7 statuses: two successes, a redirect, 401, a refusal, a retried and a final 5xx |
| `stack_revoked` | over `RefreshFunc` with early revocation a call does fail: see below | as `stack` |
| `pagination` | order, demand, page info, refinement of `Stream`; the loop ends | 3 pages, 4 items, every cap, empty pages anywhere |
| `profiles` | the default survives; refinement of `Registry` | 2 processes that overlap or take turns, 2 names, 2 settings |
| `secrets` | last set wins while the keychain is steady; nothing lost; no resurrection; refinement of `Vault` while the keychain stays as it is | 2 profiles, 2 credentials, keychain steady or changing |
| `settings` | tested credentials are the used ones; orphans stay idle; refinement of `Registry` and `Vault` | 2 profiles, 2 environments, 2 URLs, 2 tokens |
| `invocation` | consent; interrupts in time; exit codes; no listing that a failure broke off; mistakes before requests; nothing repeated; termination | every distinct sequence of steps, every combination of the inputs, listings of up to 2 pages |
| `services` | result, body, context | every method and option, 13 statuses: each case of each mapping |
| `backoff` | bounded sleeps; documented sleeps | 7-bit integer, 8 attempts, 3 base delays, 8 hints |

Why the bounds are enough: the interference between calls of the transport is by
pairs (one holds `t.mu` or has just been refused, the other one replaces the
token), two tokens are an old and a new one, and two attempts have a first, a
last and the resend. A call's effects depend on the other calls only through the
tokens, which are arbitrary in `Delivery`, so one caller is enough there, and
three attempts leave two open answers behind a clear one. Three pages have a first, a middle (which may be empty) and
a last one. Two processes suffice for an overlap, two profiles for a mix-up. Two names
are enough for a change to hit the wrong one. In
`Backoff` the eighth attempt is past the overflow for every base delay. Where a
theorem covers the property, the bound is irrelevant.

`Modes <- TrustyModes` (or `RevokingModes`, `LiveModes`), `Policies <- MCPolicies`,
`Hints <- MCHints`, `UrlOf <- MCUrlOf` and `Statuses <- MCStatuses` in the configurations give values to constants; nothing is overridden.

### Disagreements with the documents

One run expects a violation, of a sentence that the documents state and on which
callers depend; `PROJECT.json` quotes it:

- `stack_revoked`: after a 401 the transport asks `RefreshFunc` again and gets
  the refused token from its cache (auth/refresh.go:38), so a token revoked
  early makes every call fail until it expires.

Further sentences that the code does not keep are defined in the `MC*` modules,
under a comment that quotes them, and are in no configuration. TLC refutes each
when it takes the place of the properties in the module's passing configuration
(without SYMMETRY for a liveness property), with the constants noted:

| Definition | Module | Code | Says | Does |
|---|---|---|---|---|
| `RateLimitOnlyWhenExhausted` | MCTransport | internal/transport/transport.go:613 | spec.md:84 "a typed rate-limit error is surfaced only after retries are exhausted (or disabled)" | a 429 that answers the resend of `handle401` is returned with attempts left (`Statuses` with 429, 4 attempts) |
| `ClientErrorsNotRetried` | MCTransport | internal/transport/retry.go:30 | data-model.md:77 "Non-429 4xx responses are never retried regardless of `RetryableStatus`" | any listed status is retried (409 in `Statuses` and `RetryableStatus`) |
| `CtxErrorSurfaced` | MCTransport | internal/transport/transport.go:282 | data-model.md:74 "If `ctx.Err() != nil` the current attempt aborts and the ctx error is surfaced" | a context done inside `Provider.Token` or before the resend comes back as an AuthenticationError |
| `CancelledCallEnds` | MCTransport | internal/transport/transport.go:109 | spec.md:13 "context deadline always wins" | a cancelled call waits for `t.mu` while another one holds it in a provider that does not answer (`LazyProviderSpec`) |
| `ValueKeptAtTheEnd` | MCPagination | pagination.go:105 | pagination.go:146 "After Next returns false, Value returns the last successfully yielded item" | it returns the zero value |
| `EndsForAReason` | MCPagination | pagination.go:135 | pagination.go:83 "either all items exhausted, maxItems reached, or an error occurred" | an empty page ends the iteration although it names a next page |
| `OnePageHeld` | MCPagination | services.go:1107 | Pagination.md:44 "holds at most one page of items plus the next-page token in memory" | `ListByCompany`'s closure keeps the first page |
| `SilentDeleteIsComplete` | MCSecretStore | cmd/icctl/profile/secret.go:120 | data-model.md:164 "failure to delete the keychain entry is logged as a warning" | the keychain's error is dropped without a word |
| `EnvironmentFlagDecides` | MCSettings | cmd/icctl/cmd/root.go:149 | cli-schema.md:14 `--environment` "Resolves `--base-url`", :23 "flag > environment variable > profile > built-in default" | the profile's base URL wins over the flag |
| `DocumentedExitCode` | MCInvocation | cmd/icctl/cmd/exitcode.go:25 | cli-schema.md:70-75, the table of exit codes | only 0, 1, 124 and 130 are returned |
| `RefusedBeforeAnyCall` | MCInvocation | cmd/icctl/cmd/resellers.go:390 | data-model.md:268 "rejects before any API call" | `resellers deactivate` gets the reseller first |
| `TerminalUserIsAsked` | MCInvocation | cmd/icctl/cmd/resellers.go:426 | spec.md:118 "The CLI MUST then prompt the operator for interactive confirmation on a TTY" | only the hidden `--force-tty` leads to a prompt |
| `InterruptEnds` | MCInvocation | cmd/icctl/confirm/prompt.go:55 | tasks.md:1291 "SIGINT → exit 130" | at the prompt nobody listens to the context |
| `TimeoutGoverns` | MCInvocation | cmd/icctl/cmd/resellers.go:180 | cli-schema.md:21 "Per-call timeout" | the resellers and me commands derive no context from `--timeout` |
| `ListingsAreWhole` | MCInvocation | pagination.go:135 | pagination.go:83, as for `EndsForAReason` | a listing that stopped at an empty page is printed as if it were whole, with exit code 0 |
| `ZeroIsSuccess` | MCInvocation | services.go:230 | cli-schema.md:68, exit code 0 is "Success" | a write that was redirected and not done ends with 0 |
| `SingleDocument` | MCInvocation | cmd/icctl/cmd/resellers.go:415 | cli-schema.md:89 "Every response is a single JSON document" | a destructive command prints the preview and the result |
| `TokenBeforeRequest` | MCServices | services.go:110 | Authentication.md:49 "The `Token` method is called before each API request (subject to caching)." | Me, Resellers and the lists never ask the credential provider |
| `RateLimitIsTyped` | MCServices | services.go:240 | Error Hierarchy.md:70 "`*RateLimitError` / `ErrRateLimit` / 429" | `mapHTTPError` has no case for 429 |
| `KeyIsSent` | MCServices | services.go:380 | options.go:48 "sets the X-Idempotency-Key header on the outgoing request" | Me, Resellers and Login ignore it |
| `TimeoutEndsCall` | MCServices | services.go:380 | options.go:58 "applies a per-call timeout via context.WithTimeout" | Me and Resellers ignore it |
| `TransientIsRetried` | MCServices | services.go:225 | spec.md:107 "The SDK MUST automatically retry transient failures" | `Client.do` sends once, and nothing wires the retrying transport |
| `HintIsClamped` | MCBackoff | internal/transport/retry.go:53 | Retry Policy.md:102 "If `Retry-After` exceeds `MaxDelay`, the SDK sleeps for `MaxDelay`" | the product with a second wraps for a large hint |
| `NoJitterFormula` | MCBackoff | internal/transport/retry.go:95 | Retry Policy.md:85 "delay = min(MaxDelay, BaseDelay * 2^attempt)" | after an overflow there is no sleep at all |

### Fairness

- Transport, AuthStack: a runnable goroutine runs and a timer fires (WF); Go's
  mutex hands itself to a waiter that has starved for a millisecond, so a waiter
  is not passed over for ever (SF); the layer below answers, by `http.Client`'s
  timeout at the latest (WF). A provider, and the identity service behind
  `RefreshFunc`, is only known to return once its own context is done
  (`LazyProviderSpec`, `StackFairSpec`): that is all that `CredentialProvider`
  asks of it; `StaticToken` just returns (WF). `OnlyTheAskerBlocks` says what is left of progress then; its premise
  is that nobody asks for ever under a living context.
- Delivery: safety only; the backend owes no effect.
- Pagination: a loop calls `Next` again and again.
- Services: the goroutine runs; net/http gives up what a done context covers.
  The backend owes nothing.
- Invocation: the program runs and a request ends by the 30s of `http.Client`.
  The user owes nothing, neither an answer nor a Ctrl-C.

## 4. Proofs

Every invariant and action property of the runs that expect no violation is a
theorem for every value of the constants, from the named assumptions in the modules
(their `ASSUME`s, which TLC evaluates). What follows says for each module what is
proved and why the properties are not inductive alone.

**TransportProofs, the transport.** Type correctness, the two other invariants of
the run, `Spec => Promise!CallSpec`, and two consequences of it stated directly: the
bound on sends (`BudgetHolds`), and that a call gives up a retryable failure only
when it has spent its budget or went through the 401 path (`SpentBeforeGivingUp`).
The inductive invariant `IInv` says who may hold `t.mu` and that the cache is a miss
while it is held (`Locked`), and per call how `sends` follows from `attempt` and the
place (`Counted`), how many sends can still follow a cancellation (`Cancelled`), what
was last heard at each place (`Told`) and why a call ended (`Spent`). None of the
properties is inductive alone: a budget needs the relation of sends to attempts, a
cancellation needs to know who is past the check.
`CallsAdvance` is the variant behind "every call ends": each step of a call raises
`Progress`, ten times the attempt and the place in it, and no step of another call
touches it; that it stays below `10 * Budget` needs `Counted`. With `NoDeadlock` it
is what can be proved of termination without fairness.

**TransportProofs, the compositions.** Both implement `Transport`
(`StackImplements`, `DeliveryImplements`), so its theorems hold of them. For the
stack:

- single flight (`Guarded`: a caller in the callback holds `p.mu`, and the cache was
  a miss when it entered and stays one);
- `NoDeadlock`: nobody who holds one of the mutexes waits for somebody who waits for
  it. The order t.mu before p.mu, which the code keeps by habit and states nowhere,
  follows from `HolderAsks`: the holder of `p.mu` is in the callback, and the callback
  takes no mutex; `handle401` holds neither when it asks for `p.mu`;
- `OnlyRotationFailsAuth`. It rests on `CacheCurrent`, what `RefreshFunc` would hand
  out of its cache, or `StaticToken`, is what the backend accepts, and on `Innocent`: a
  call during which the backend kept its token was refused with another one and resends
  with that one. Its premise `Honoured` is that a token which one of the two keeps is
  accepted until it expires, the fixed one for ever; `stack_revoked` shows that it is
  needed.

For the effects: `DInv`, per call, says that copies are faithful and none is newer
than the last send (`Copied`), that no copy is performed twice, and keyed ones once
in all (`Once`), that a clear send is out only while the call waits or has succeeded
(`Accounted`), and that the awaited copy is on the wire unless something was
performed (`Real`).
`IsErrand` is the refinement of `Errand`: of all that `Delivery` does, only
performing a copy and the last step of a call are seen. What is hard is the bound. A call
sends once more than its budget if a 401 intervenes, but performs no more than the
budget, because the send that met the 401 was declined and is off the wire: `Few`
counts the copies on the wire or performed against the attempts. The
bound is tight: TLC refutes the refinement with one less. That
nothing is performed after a call was "undone" needs that its wire is empty
(`Accounted`), and `Redirected` tells the redirects, which the transport takes for
successes, from answers that performed something.

**PaginationProofs.** Type correctness, order, demand, page info and the refinement
of `Stream`. `IInv` ties the cursor to the catalogue (`Cursor`), the delivered items
to pages and position (`Placed`) and the requests to the pages fetched
(`Requested`).

**ProfileStoreProofs.** The default has its profile for any number of processes;
inductive once it also holds of every snapshot in memory, because a snapshot may be
written at any time. `IsRegistry` is the refinement: commits of a process that is
alone are the atomic steps of `Registry`, everything else a stutter, which needs
that its snapshot is the file with its change applied (`Made`, `Alone`).

**SecretStoreProofs.** For any profiles and credentials, the three properties of
the two stores. The invariant says what the operation at work has in memory
(`Working`), where a credential is held (`Held`) and no longer held (`Gone`) while
no operation is in the middle of it, and that a keychain which stays as it is leaves
one of the places unused (`Steady`). `IsVault` is the refinement: with such a
keychain what `Get` returns changes at one name at a time. That needs `OneProfile`, an
operation at work is about one profile, besides `Working`, the rest of the file is in
its memory; a file that was cut is read as what is about to be written, so that the write itself
is a stutter and only a death in between is `Lose`.

**SettingsProofs.** `CurrentExists` strengthens the types: no name of a removed
profile survives in `current_profile`. From it, `resolveState` settles on a name
whose profile exists, or on "default" (`NameSettled`). `UsesTested` is then a case
analysis of the four layers, over all flags and variables: where the base URL can
come from (`BaseURLComes`) and that a token the user left to the stores is the one
stored under the settled name (`TokenIsStored`). `CommandsKeepToStores` maps each
command to a step of `Registry` or of `Vault` that leaves the other one alone;
profile remove is two of them, which is why it may end between the two, and
`OrphansStayIdle` says that this does no harm. The layering is: `ProfileStore`
implements `Registry`, `SecretStore` implements `Vault`, and the commands do nothing
that the two do not allow. The step that is missing is in the code: the adapter
between the packages.

**InvocationProofs.** The five invariants of the run, for listings of any length.
The invariant says where in its command a run is at each place (`Placed`), that
each request sent belongs to a step reached (`SentBefore`), that each step behind
it did its part (`Kept`: a write was performed or redirected, a listing ended without
an error), that a writing request has been agreed to and no
interrupt came in time before it (`Consented`), and which errors a backend that
acted, or still may, leaves (`Excused`). Nothing of it looks at which commands
there are but for `MistakesCostNothing` and consent, where the order of the
steps is the argument. `NothingIsRepeated` is the variant of a run: the step of the
command, then the pages received, then the place within the step.

**ServicesProofs.** For any statuses, at most one request, results that fit the
answer, and no body left open. The invariant says what a call knows of the answer at
each place (`Stages`) and that an outcome is what the mapping of its way made of that
answer (`Outcome`); `FourWays` is where the table of the methods comes in.

**BackoffProofs.** Sleeps lie between the least integer and `MaxDelay`, whatever
overflows; needs that clamping comes after every product, and a case per jitter
strategy. Where BaseDelay * 2^attempt fits, they are the documented ones
(`Documented`), because the hint kept is that of the very last answer (`HintIsLast`).

Type correctness is checked by TLC for `Pagination`, where it bounds the token that the
iterator goes on with. For the other modules it is only proved: TLC spends its time on
the other properties, and `TypeOK` of each is there to be added to a configuration.

Only model-checked: the four liveness properties under fairness,
`OnlyTheAskerBlocks`, `LoopEnds`, `EndsUnlessAsking` and `ContextEndsCall`. The
prover has no rule for fairness or ENABLED. Of the first and the third the part that
needs none is proved (`CallsAdvance`, `NoDeadlock`, `NothingIsRepeated`). It has no
induction over data and no recursive operators either; the modules with theorems use
none of them.

## 5. Not modelled

Telemetry, redaction, logging, the layout of output, help, version and
completion (no state, no order). Marshalling, URL building and the generated
client. The texts and fields of errors. The adapter between package `profile` and
package `cmd`, which does not exist. In `Invocation`: a broken pipe, which kills
the process (SIGPIPE) instead of failing a write, and a `--from-file` that names a pipe nobody writes
to. In `Delivery`: a backend that forgets a key. In `Invocation`: a backend that redirects a write and acts on it all the same. `version`, `completion` and the
profile commands are no subcommands of `Invocation`: they send nothing, and the
latter are `Settings`.

## 6. Plan

Written in this order: Transport, Call, AuthStack; Pagination, Stream;
ProfileStore, Registry; SecretStore; Services; Backoff; Settings; Invocation;
Delivery; SecretStoreProofs, InvocationProofs, ServicesProofs; Vault and Errand,
and what the proofs say of them.
What is left:

1. A composition of Services with Pagination (a page fetch whose context ends
   half-way).
2. The commands of Settings over ProfileStore and SecretStore themselves, once the
   adapter between the two packages exists; until then they meet at `Registry` and
   `Vault`.
