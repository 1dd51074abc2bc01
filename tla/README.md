# WiseGuard in TLA+

WiseGuard is a TCP server that hands out a random quote to a client that solves a
proof-of-work challenge, with a client library and two load tools. The modules in this
directory model its server process, its limiters, its protection layer, its proof-of-work
service, its client and its load tools; TLC checks them on small instances and TLAPS proves
the main properties for every instance.

## 1. The system

### Parts, state and operations

| Part | Source | State | Operations |
|---|---|---|---|
| Server core | `pkg/server/server.go`, `cmd/server/main.go` | listener, WaitGroup `activeConns`, atomics `currentConns` and `difficulty`, cancelled context | `Run` (accept loop), one handler goroutine per connection, `adjustDifficulty` (ticker), `Shutdown`, `main` |
| Session | `pkg/server/messages.go`, `handleConnection` | one connection and its deadlines | send challenge, read solution, send quote or error |
| Connection limiter | `pkg/server/ratelimit/connection_limiter.go` | map ip -> count, lastReset | `AllowConnection`, `RemoveConnection`, periodic `cleanup` |
| Rate limiter | `pkg/server/ratelimit/limiter.go` | map ip -> tokens, lastReset, blocked, attempts | `AllowConnection`, periodic `cleanup` |
| Token bucket | `pkg/server/protection/token_bucket.go` | map address -> tokens, lastUpdate | `Take`, `refillAll`, `cleanup`, `Start`, `Stop` |
| Failed attempts | `pkg/server/protection/failed_attempts.go` | map address -> count, lastFail, blockedAt | `RegisterFailure`, `IsBlocked`, `cleanup`, `ResetFailures` |
| Protection facade | `pkg/server/protection/types.go` | the mechanisms above, IP filter, memory monitor | `Start`, `Stop`, `IsAllowed`, `ProtectedConn`, `RegisterFailure` |
| PoW service | `pkg/pow/service.go` | map nonce -> challenge | `CreateChallenge`, `VerifySolution`, delayed deletion |
| PoW solver | `pkg/utils/pow.go` | worker goroutines, result and error channels | `SolvePoW` |
| Protocol | `pkg/protocol` | none | `Marshal`, `Unmarshal`, validation |
| Client | `pkg/client`, `cmd/client/main.go` | one connection | `Connect`, `GetQuote`, `Close` |
| Load tools | `tools/ddos`, `tools/protection` | atomic counters of how requests end, connections kept open | client loops, slowloris' writing goroutines, the reporter, `main`'s totals |
| Quotes, logger, configuration | `pkg/quotes`, `pkg/logger`, `pkg/config` | a shuffled list; none | - |

The part "Protocol" stands for framing (8-byte header, version, type, length at most
64 KB), JSON payloads and their `Validate` methods.

### How the parts interact

* `main` builds the server, runs `Run` in a goroutine and waits for a signal or for `Run`'s
  error; on a signal it cancels the context and calls `Shutdown`, which closes the listener
  and waits for the handlers' WaitGroup or for its own context.
* `Run` accepts a connection and decides on it by itself, one call after the other:
  protection (`IsAllowed`, `ProtectedConn`), connection limiter, rate limiter, capacity.
  A connection that passes gets a handler goroutine; the handler's deferred function gives
  everything back. A handler that returns an error registers a failure with the protection.
* Handlers share the challenge table of the proof-of-work service, the atomic difficulty
  that `adjustDifficulty` moves with the load, and the limiters' maps.
* Each limiter has goroutines of its own: cleanups on tickers, the token bucket's refills.
  `CreateChallenge` starts one goroutine per challenge, which deletes it after the TTL.
* `Run`'s deferred `Protection.Stop` closes the channels on which the memory monitor's and the
  token bucket's goroutines wait.
* A load tool runs many clients in goroutines until its context times out; a reporter prints
  what they have counted, and `main` waits for the clients and prints the totals.
* The client reads the challenge, calls `SolvePoW` (one worker goroutine per CPU), sends the
  solution and reads the answer.

### What is hard about it

* Interleavings: `Run`, handlers, the adjuster, the limiters' goroutines and `Shutdown` share
  counters and maps; checks and the updates they lead to are separate steps.
* Shutdown at every moment, between `Accept` and `activeConns.Add(1)` in particular.
* Seven early exits, each of which has to give back what the connection holds.
* Windows, blocks, TTLs and refills: integer time, lazy and periodic updates of one entry,
  cleanups that remove what is still in use.
* Messages that arrive in parts or not at all, deadlines renewed per read, peers that leave,
  challenges that expire while they are solved.
* Channels with a buffer of one, closed while a select may still choose among them.
* Counters that are loaded one by one while others increment them, and goroutines that
  nobody waits for.

### What makes each part correct

| Part | Correct if |
|---|---|
| Server core | the counters agree with the handlers; no more than `MaxConnections` served; every accepted connection is closed; a shutdown ends, and leaves at most the connection `Run` has in hand |
| Connection limiter | no entry counts more than is live; an IP is refused only with `maxPerIP` connections live; its callers give back each slot once, and one that is not given back is forgiven after the TTL |
| Rate limiter | at most two bursts per window length; refusals and blocks exactly when they are due, the refusals of all windows counted; no block for ever |
| Token bucket | an address is let in for a whole token, earned by time at the fill rate, and refused only while none has been earned since it was last let in; an address without tokens earns new ones |
| Protection | of the answers "not blocked" that `Run` acts on, at most one per block is out of date; an address that keeps failing is blocked; a block lasts its time and no longer; failures are forgotten; `Stop` ends what `Start` has started |
| Proof-of-work service, session, client | an unexpired challenge's solution is accepted; nobody waits for ever; a peer cannot draw a session out; challenges are forgotten; a quote is granted only for a live challenge that was issued, by one judgement, and a client has one only if it was granted to it |
| Solver | no candidate with two workers and no solution passed over, no send on a closed channel, a solution unless cancelled, no goroutine left after a cancellation |
| Load tools | the totals and the intervals' differences count every request once; the tool ends |

## 2. The modules

```
GoMap --- ConnectionLimiter --+-- SlotDiscipline --- SlotDisciplineProofs
      |                       |     ^ instance       (ConnectionLimiterProofs)
      |                       +-- Server --- SlotLeaks --- ServerProofs
      |                             |  \--- MCServer --- MCSlotLeaks
      |                             |implements
      |                           ConnectionService
      +-- IPRateLimiter ---- RateDiscipline --- RateDisciplineProofs
      +-- TokenBucket ------ TokenFlow --- TokenMeter -------------------------+
      |                        |implements TokenBudget                         |
      |                        +-- Protection --- FailureStreaks --- ProtectionProofs
      +-- FailedAttempts ------+                        |
      |   (RemoteAddrs)                            MCProtection
      +-- PoWService --- Session --- Exchange --- SessionTime --- ExchangeProofs
                                       |implements     MCExchange
                                     QuoteService
SolvePoW --- SolvePoWProofs
LoadTools --- LoadToolsProofs
```

A limiter or table is a module that defines its methods as actions on its one variable
(`ConnectionLimiter`, `IPRateLimiter`, `TokenBucket`, `FailedAttempts`, `PoWService`). Each
of them is one critical section in the code, under one mutex or one `sync.Map` operation,
and so one action. A second module runs them: with callers that are as free as possible
(`SlotDiscipline`, `RateDiscipline`, `TokenFlow`) or with the program's real caller
(`Server`, `Protection`, `Exchange`).

Four modules add a history to a specification, without restricting it, to state what cannot be
said of single states: `SlotLeaks` (how long ago a slot was forgotten), `FailureStreaks` (how
often an address has failed on end, and what `Run` has done for it since it was blocked), `TokenMeter` (what a bucket has let in, and for how long it
has not) and `SessionTime` (how long a handler and a client have waited in all). The runs
`server` and `protection` check the first two; the properties of the other two are proved and
have no run.

Time is kept as ages: a map entry holds the number of clock ticks since the instant the
code stored, up to a bound from which on the code does not tell ages apart. A tick is an
action and may come between any two other steps.

| Module | Code | Correspondence |
|---|---|---|
| `GoMap` | built-in maps | a function on the keys present; put, delete and delete-while-ranging |
| `ConnectionLimiter` | `connection_limiter.go` | `Admit` and `Refuse` are the two outcomes of `AllowConnection`, `RemoveConnection` and `Cleanup` the methods of that name |
| `SlotDiscipline` | the same, with callers that close each admitted connection once | `live` counts the connections of each IP |
| `Server` | `server.go`, `cmd/server/main.go` | one program counter per goroutine (`run`, `handler[c]`, `adjuster`, `main`, `waiter`), named after the operation it does next; the deferred function of a handler is five steps, in the code's order; the verdicts of protection and rate limiter and the outcome of the exchange are arbitrary |
| `SlotLeaks` | the same, with a clock per IP | `sinceLeak` counts the ticks since `Run` last dropped an admitted connection of the IP |
| `ConnectionService` | abstract | taking, refusing, serving and finishing connections, draining and halting |
| `IPRateLimiter`, `RateDiscipline` | `limiter.go` | `Spend`, `RefuseBlocked` and `CountAttempt` are the three outcomes of `AllowConnection`; two histories: `admitted` holds the ages of the last admissions of an IP, as many as could matter, and `refused` counts its refusals since its bucket was last forgotten |
| `TokenBucket`, `TokenFlow` | `token_bucket.go` | `Take`, `TakeFails`, `GetTokens`, `Cleanup`, `RefillAll`; the two ticker goroutines run until `Stop` |
| `TokenMeter` | the same, with what each bucket has let in | `taken`, `elapsed` and `waited` count admissions, ticks, and ticks since the last admission |
| `TokenBudget` | abstract | credit that time earns and admissions spend |
| `FailedAttempts` | `failed_attempts.go` | `RegisterFailure`, `IsBlocked` (which deletes old entries), `cleanup` |
| `Protection` | `types.go`, `ip_filter.go`, `memory_monitor.go`, `Run`'s first checks | `Passes` is the IP filter; `IsAllowed` lock by lock (`Accept`, `CheckFailed`, `Overloaded`, `CheckTokens`), `Wrap` for `ProtectedConn`, `LimitsDrop` and `Serve` for what `Run` does next; `serving` counts the handlers of an address that may still call `RegisterFailure` (`HandlerFails`) or return without (`HandlerSucceeds`), however many there are: a handler outlives its peer's connection; `Stop`, and the ends of the goroutines that `Start` has started |
| `FailureStreaks` | the same, with the failures of each address on end | `streak` holds the length of a series of failures, each within the block time of the last, and the age of the latest; `late` counts the tokens taken and the handlers started for an address while it is blocked |
| `RemoteAddrs` | `net.Addr` | the key of both maps is ip and port |
| `PoWService` | `pow/service.go` | the table by nonce; `Forget` is what the goroutine of a challenge does when it wakes |
| `Session` | `handleConnection`, `messages.go`, `protocol`, `utils/network.go` | `handler[c]` names the step: create, send challenge, read header, read payload, verify, reply, close; deadlines are ticks left |
| `Exchange` | `client.go`, `client/messages.go` | `peer[c]` is the client in `GetQuote`, with both reads of a message and a deadline for each (`ReceiveHeader`, then `ReceiveChallenge` or `ReceiveAnswer` for the payload), or another program that sends any message, or none, and leaves at any time |
| `SessionTime` | the same, with the time that both sides have waited | `reading[c]` and `waiting[c]` count the ticks in which a handler or a client was in a read, over a whole session |
| `QuoteService` | abstract | what a connection, its challenge, its answer and its peer go through: one challenge, one judgement, at most one answer |
| `SolvePoW` | `utils/pow.go` | workers, the goroutine that closes the channels, the caller's select, the context |
| `LoadTools` | `tools/ddos/main.go`, `tools/protection/main.go` | `tool` chooses the program and its attack; `client[c]`, `writer[w]`, `reporter` and `main` are the places of the goroutines; a request ends as `Ends` allows for the tool, and is counted in a step of its own |

Two modules see the handler from two sides. `Server` has all steps before and after the
exchange and leaves the exchange open (it may fail or succeed, at any time); `Session` has
the exchange and leaves admission open (a handler starts at any time, on any number of
connections). They meet in `handleConnection`'s call and its error result.

## 3. The runs

Run a check with `tlc -config <cfg> <module>`, a proof with `tlapm <module>.tla`.

| Run (cfg, module) | What it checks | Bounds, and why they are enough |
|---|---|---|
| `slots` (SlotDiscipline.cfg) | `CountsOnlyLive`, `RefusalJustified` for callers that give every slot back once | two IPs, limit 2, TTL 2 ticks, four live connections in all: an entry can be forgotten with two connections live and filled again by two more |
| `server` (Server.cfg, MCSlotLeaks) | `LeaksHeal`, `OnlyLateDropsLeak`, `CountersAgree`, `ConnectionCap`, `NoSocketLeak`, `AtMostOneStraggler`, and `ImplementsService`: the server refines `ConnectionService` | three connections of one IP, `MaxConnections` and `MaxPerIP` 2: one connection too many for both limits. One IP, as the limiter keeps IPs apart (`slots` has two) and what matters is that connections compete. Connections are symmetric |
| `server_liveness` (ServerLiveness.cfg, MCServer) | `EveryConnectionCloses`, `ShutdownEnds`, `DifficultySettles`, `NoPermanentLockout` | two connections, no symmetry; `MaxPerIP` 1, so that one leaked slot locks the IP out; `MaxConnections` 3, so that one connection is a load below the adjuster's lower threshold and two are one above it. The run does not reach the level two above the initial one, which needs three; that branch differs in a constant only |
| `rate` (RateDiscipline.cfg) | `RefusalsAddUp`, `AtMostTwoBursts`, `RefusedOnlyAfterBurst`, `BlockedUntilStale`, `BlockingIsTemporary` | two IPs, burst 2, window 2, TTL 3 ticks: the block needs five refusals, which may lie in several windows, windows straddle resets, and a bucket outlives its window |
| `protection` (Protection.cfg, MCProtection) | `OneSlipsThrough`, `StreaksBlocked`, `BlockEndsWithTimeOnly`, `BlockingIsTemporary`, `FailuresForgotten`, `ImplementsBudget` (refinement of `TokenBudget`), `TokensComeBack`, `StopEndsRoutines` | one address, with up to three handlers at once; block after three failures for three ticks, two tokens, half a token per tick: failures of earlier handlers arrive between the checks of the connection in hand, a fraction of a token is cut off at every other tick, and a bucket can be removed and come back. The tables keep addresses apart, and addresses have nothing in common but `Run`, which has one connection in hand, and the capacity; the proofs are for any set of them |
| `solver` (SolvePoW.cfg) | `NoSendOnClosed`, `CandidatesSharedOut`, `SolvedUnlessCancelled`, `SearchEnds`, `CancelStopsAll` | three workers, candidates 0 to 6, of which 4 and 5 are solutions of different workers: two find one, the buffer holds one, the third finds none |
| `exchange` (Exchange.cfg, MCExchange) | `NoMutualWait`, `SolutionHonoured` | two sessions, two nonces, TTL 2 ticks, timeouts of one; connections and nonces symmetric. Each session may be with a client or another program, many times over, and a challenge may outlive its session or expire in it; with both nonces in use the creation of a third challenge fails. There is one difficulty but zero: that a change of the difficulty does no harm to a challenge given out before rests on the proof of `SolutionHonoured` |
| `exchange_liveness` (ExchangeLiveness.cfg, Exchange) | `SessionsEnd`, `ClientReturns`, `ChallengesForgotten`, and `ImplementsService`: sessions and peers refine `QuoteService` | one connection, time and again; sessions share nothing but the table, in which a second nonce, of an earlier session, may linger. Timeouts of two ticks. That concurrent sessions refine `QuoteService` rests on the proof |
| `load_tools` (LoadTools.cfg) | `FinalStatsComplete`, `DifferencesAddUp`, `ToolEnds` | all five tools; two clients, two goroutines of slowloris with two writes each, three requests and writes in all when one more starts: both clients and both goroutines can be between a request and its counting when the reporter loads, when the time is up and when `main` prints |
| `shutdown_panic` (ServerPanic.cfg, MCServer) | finding: `NeverPanics` is violated | as `server` |
| `slot_leak` (ServerSlotLeak.cfg, MCServer) | finding: `RefusalJustified` is violated | as `server` |
| `blocked_ports` (ProtectionPorts.cfg, MCProtection) | finding: `IPBlockedAfterFailures` is violated | two ports of one IP, block after two failures for two ticks |

The `TypeOK` of every module that has variables of its own is proved, and therefore checked by
no run. In it the bounds say more than types where the code has a limit: no count of zero is
stored, tokens stay between zero and the capacity, the difficulty between the initial one and
two above it, no challenge in the table has difficulty zero.

Bounds in the models, beside the constants of the runs: ages stop at the bound from which on
the code treats all ages alike; `MaxLive` in `SlotDiscipline`; `MaxCandidate` in `SolvePoW`
(a worker that has passed it only polls the context); `Writers` and `MaxRequests` in
`LoadTools`; `AgeBound` in `TokenBucket`; `Nonces` and `Zeros` in `PoWService` and `Session`.

A definition with the longer name of two neighbours (`ForgetEarly` beside `Forget`,
`PollForever` beside `Poll`) is a variant with a mistake that one could make in the code;
PROJECT.json pairs each property with one that breaks it, which shows that the property
depends on that line.

### Fairness, and why the code justifies it

* A goroutine that is not blocked goes on: weak fairness of each goroutine's steps
  (`RunStep`, `HandlerStep(c)`, `AdjusterStep`, `MainStep`, `WaiterStep`, `WorkerStep(w)`,
  `CallerStep`, `CloserStep`, `Serve(c)`, `ClientGoes(c)`, `RoutineReturns`; in `LoadTools`, `ClientStep(c)`).
  A select with several ready cases gets fairness as a whole and never for one of its cases.
* Time passes and tickers, sleeps and contexts with a timeout end: weak fairness of the ticks,
  of `Timeout` in `LoadTools`, of `ForgetChallenge` and of those periodic cleanups and refills
  that a property needs.
* Blocking calls return only for the reasons the code provides: `Accept` when a connection
  is in the backlog or the listener is closed, a read when data is there, the deadline has
  passed or the peer is gone.
* Nothing is assumed of connections, of what a peer sends or when it leaves, of the network's
  delivery in either direction (a client's reads of what has arrived, and of the server's close,
  are in `ClientReads`, which has no fairness: only its deadlines are sure to end its waits), of
  signals, of cancellations, of the shutdown's timeout, of spurious errors of `Accept`, of the
  load tools' reporters and of slowloris' goroutines, whose writes may block, or, in `Exchange`,
  of a connection's being taken up by the server.
* A goroutine of the token bucket whose channel is closed returns, although its select may
  prefer a tick that is ready as well: such ticks are seconds or minutes apart, and between
  two of them only the closed channel is ready.

Deadlock checking is off where the system may stop: the server after its exit, the solver
when it has returned, a load tool that has ended.

## 4. Findings

Where a run contradicts what the repository says:

* **Shutdown can crash** (`shutdown_panic`, server.go:159). `Run` calls `activeConns.Add(1)`
  for the connection it has in hand after the last handler's `Done` has released
  `Wait`, which panics when it finds the counter raised. `CrashExplained` shows that it is always
  this one connection, and `QuietShutdown` that a shutdown cannot crash, nor report its completion
  too early, if `Run` has no connection in hand when the listener is closed.
* **Leaked limiter slots** (`slot_leak`, server.go:142). A connection that the connection
  limiter let in and the rate limiter or the capacity check turns down keeps its slot.
  `OnlyLateDropsLeak` shows that these two refusals are the only steps that leak, `RefusalsCorrect`
  that an IP none of whose connections is refused so late keeps the limiter's promise, whatever
  happens to other IPs, and `LeaksHeal` that the damage is undone when the TTL has passed.
* **Failures are counted per port** (`blocked_ports`, failed_attempts.go:43), so those of one
  IP never add up; the token bucket has the same key. Failures of one port do lead to a block:
  `StreaksBlocked`.

Seen while modelling, without a run:

* With one CPU, `SolvePoW` can return an empty solution and no error (utils/pow.go:57): the
  caller's select can take the closed error channel although a solution is buffered. With two
  workers or more `SolvedUnlessCancelled` holds.
* A search's goroutines end with its context, not with its solution: with three workers or more
  some are left until a cancellation (`OnlyCancelEnds`), polling or waiting at the full buffer.
* `IsBlocked` deletes entries under a read lock (failed_attempts.go:60, :76). Nothing comes of
  it only because `Run`'s goroutine is its one caller and the other methods take the lock for
  writing; a second caller would race.
* The attack `invalid_pow` sends no invalid proof of work: it drops the message it builds
  (tools/protection/main.go:51) and asks for a quote as every client does.
* `Shutdown` can log "shutdown complete" with one connection still to be served, the one
  `Run` had in hand; `AtMostOneStraggler` bounds it to one.
* A solution found invalid is no failure for the protection: `handleConnection` returns what
  `sendError` returns, nil when the error message could be written, and `Run` registers a
  failure only for an error (server.go:171, :215). src/README.md:56 says that failed
  authentication attempts are tracked and limited; those counted are time-outs, malformed
  messages and broken connections.
* The difficulty counts zeros of the hash in hexadecimal (pow/service.go:130), where
  src/README.md:19 speaks of zero bits; a level more is sixteen times the work.
* `cleanup` of the token bucket removes no bucket at the configured rates, as every refill
  by the ticker renews the `lastUpdate` it looks at.
* The configured maximal difficulty is not used; no IP lists reach the filter;
  `Protection.Stop` does not reach the goroutine of the failed attempts; `WriteTimeout` is
  not used by the server, whose write deadline is the one set when the handler starts, so
  that a solution that arrives late, but within the read deadlines, can be verified and its
  quote not be written; `RetryConfig` is not used by the client.

## 5. The proofs

The proofs hold for all constants that satisfy the modules' assumptions: any number of
connections, addresses, workers and nonces (finite where sets are counted), any limits,
timeouts and rates. The assumptions are named in the modules (`LimiterAssumption`
and so on): limits and times are naturals, positive where the configuration needs it, and
markers such as `None` are not values. One is about the configuration: `FillAssumption`, a
bucket fills up within the time after which the cleanup takes it for unused, without which a
removal would give tokens away (the defaults, 100 tokens at 10 a second and 5 minutes,
satisfy it).

| Module | Proved | Inductive invariant and argument |
|---|---|---|
| `ConnectionLimiterProofs`, `SlotDisciplineProofs` | `TypeOK`, `CountsOnlyLive`, `RefusalJustified` | counts are at most the live connections; a limiter that forgets only lowers counts |
| `RateDisciplineProofs` | `TypeOK`, `AtMostTwoBursts`, `RefusedOnlyAfterBurst`, `RefusalsAddUp`, `BlockedUntilStale` | the attempts of a bucket are the refusals of its IP since it was forgotten, which every step keeps (`Remembered`), and it is blocked when they are above the limit; for the bursts, see below |
| `SolvePoWProofs` | `TypeOK`, `NoSendOnClosed`, `CandidatesSharedOut`, `SolvedUnlessCancelled`; with three workers or more only a cancellation ends all goroutines (`OnlyCancelEnds`) | channels are closed last; candidates of worker w are those equal to w modulo the workers, from the first to its present one; a second finder can only wait while the first one's solution is buffered, and a solution that the buffer has taken stays there or is the caller's |
| `ServerProofs` | `TypeOK`, `CountersAgree`, `ConnectionCap`, `NoSocketLeak`, `AtMostOneStraggler`, `ImplementsService`, `OnlyLateDropsLeak`, `LeaksHeal`; refinement of `SlotDiscipline` while nobody is refused late (`SlotsImplemented`), the limiter's promise to each IP that is not (`RefusalsCorrect`), when a shutdown crashes (`CrashExplained`, `QuietShutdown`) | see below |
| `ProtectionProofs` | `TokensType` and `ImplementsBudget` of `TokenFlow` alone and of the composition, `TypeOK`, `OneSlipsThrough`, `BlockEndsWithTimeOnly`, `StreaksBlocked` and that such an address is let past neither check of failures (`StreaksShutOut`); `AdmissionsBounded`, `RefusedOnlyAfterAdmission` of `TokenMeter` | see below; credit of an address: its tokens and what its age has earned, or a full bucket; every operation keeps it or lowers it as the abstract step allows; every step of the composition is a token step or none |
| `ExchangeProofs` | `TypeOK`, `NoMutualWait`, `SolutionHonoured`, `ImplementsService`; `ReadingBounded`, `WaitingBounded`, `SessionsAdvance` of `SessionTime` | see below |
| `LoadToolsProofs` | `TypeOK`, `FinalStatsComplete`, `DifferencesAddUp` | see below |

*Server.* The counters can only be shown to stay in step with the handlers together with who
owns a connection (`Ownership`) and what is open (`NoSocketLeak`). `ConnectionCap` is not
inductive: when `Run` has passed the capacity check, its later `Add` needs room that no other
step takes; that is `Reservation`, as only `Run` raises the counter. `AtMostOneStraggler`
needs that no new connection is accepted after the listener is closed (`Dismantling`) and
that the waiter was woken at zero (`Drained`). The refinement maps the WaitGroup's view of
the handlers to the abstract `serving`, the connection in hand to `pending`, and the listener
and `main` to the phase.

*Slots.* `Holders(ip)` is the set of connections that the limiter should be counting: the one `Run`
has in hand once the limiter has let it in, and those whose handler has yet to call
`RemoveConnection`. Every step of the server takes a slot for one connection, gives one back,
moves none, or is a late drop (`SlotShape`): that is `OnlyLateDropsLeak`, and without late drops
a refinement of `SlotDiscipline` with the sizes of these sets as `live`. An entry that counts
its holders and no more (`CountsOnlyHolders`) is kept so by every step but a late drop of the
same IP. One that counts more is as old as the drop or older (`RenewedCounts`), as neither
`AllowConnection` nor `RemoveConnection` renews an entry that has not expired; so it expires
no later than a TTL after the drop, and the admission that resets it counts a holder.

*Crashes.* When the waiter has been released only the connection in hand can raise the WaitGroup
(`Drained`), so that a crash finds exactly this one. If nothing is in hand when the listener is
closed, nothing will be (`QuietDrain`).

*Failures.* `StreaksBlocked` needs that the table forgets nothing that a streak still counts: an
address with a streak has an entry that counts at least as many failures, and whose last one is
no older. `IsBlocked` and the cleanup delete only entries whose last failure is older than the
block time, when the streak is over as well.

*Stale answers.* `IsBlocked` answers with the table as it is, and failures registered by other
handlers of the address come after it. While the address is blocked, what has been done for it
and what the connection in hand may still get add up to one at most: a connection that was
past the first check when the block began may take its token, but does not pass the second; one past the second
may get its handler; one accepted later gets neither.

*Tokens.* What has been taken and what a bucket is worth never exceed a full bucket and what time has
earned: `TokenBudget`'s argument, summed up over any stretch. A refill that adds tokens drops the fraction
earned beyond them, so that an address may get less than the fill rate; what is proved in this direction is
that nobody waits longer than one token takes (`RefusedOnlyAfterAdmission`). It needs that a bucket
without a token is at least as old as the time its address has waited (`Patient`): a refill that adds no
whole token leaves `lastUpdate` alone, and one that adds some leaves a bucket that is not dry.

*Exchange.* `Tabled` relates two copies of a challenge: the one a handler holds and the one
in the table are the same until it has expired, since only expired ones are deleted and a
nonce in the table is not given again. `Agreed` follows a challenge along one connection, step by step: what
is on its way to a client is what the handler holds (`TellsHeld`), so is what a client is
solving (`ToldHeld`), and what it has sent solves it (`SolvesHeld`). `NothingEarly`,
`NothingUnsolved` and `NothingLeft` exclude messages out of turn and those of an earlier
connection; `OnItsWay` is what `NoMutualWait` needs. A step of one connection leaves the
parts of the others alone, except for the table.

*Time in a session.* A read starts with a deadline of `ReadTimeout` (the client's: `ClientTimeout`) and
the server has two of them in a session and the client four, as each message takes one for its header and one for
its payload. So the time waited and the time left in the present read stay below two timeouts, and four,
at every place: that is the invariant, place by place. With
`SessionsAdvance`, a measure that every step of a handler lowers and no other step raises, it
is the safety core of `SessionsEnd`: what is left to the model checker is that steps which can
be taken are taken.

The refinement of `QuoteService` adds `Unanswered`: a handler that has not replied has no
answer on its way, and what it is about to verify is a solution that somebody has sent. What
the abstract service judges, the set of live challenges that a peer's message solves, is read
off the handler's and the network's messages and the table, so that a judgement of
`VerifySolution` is one of `Judge`, and an answer that a client waits for is one that was
granted on its connection.

*Rate limiter.* `AtMostTwoBursts` speaks of admissions and the bucket of tokens and the age of
its window. `Fits` ties the two: as many admissions as tokens have been spent, and no more, lie
within the bucket's window, those before are at least as old as its reset, and all but one
burst of these are out of the window. The admissions are kept as a function on positions, the latest first, so that one more
is a shift, and no induction over a sequence is needed.

*Load tools.* `Counted`: of every kind, what has been made is what has been counted and those
clients and goroutines that have yet to count it. Once all clients have returned only the
goroutines of slowloris are left. `OneWriteEach` bounds what the totals miss: each missed write
has its own goroutine, which is about to count it or has ended or, the time being up, will
end at its next look at the context; what a goroutine has yet to do weighs no more than one,
and no goroutine begins a write any more. `Loaded` and the equality of what was reported with
what is kept give `DifferencesAddUp`.

Only model-checked: the properties under fairness (`EveryConnectionCloses`, `ShutdownEnds`,
`DifficultySettles`, `NoPermanentLockout`, `BlockingIsTemporary`, `SearchEnds`, `CancelStopsAll`,
`FailuresForgotten`, `TokensComeBack`, `StopEndsRoutines`, `SessionsEnd`, `ClientReturns`,
`ChallengesForgotten`, `ToolEnds`): liveness is out of the prover's reach here. Every invariant and
every action property that a passing run checks is proved, and by `TypeOK` the difficulty
never leaves the two levels above the initial one. The properties of `TokenMeter` and
`SessionTime` are proved and have no run.

## 6. Not modelled

* The bytes of messages, their framing and the JSON in them: `Session` has what the checks
  decide, and the two reads that each message takes on either side.
* The slow-request wrapper: the server reads from the connection it wraps, so that the
  wrapper's `Read` is never called.
* What the memory monitor does at a tick (a garbage collection), and the memory it measures:
  the verdict is arbitrary.
* Quotes: a list that is shuffled when it is loaded and read at random. Configuration and
  logging. The retry configuration, which nothing reads.
* Methods without a caller: `ResetFailures` and `Stop` of the failed attempts.
* Pauses of the load tools and what they derive from the counters in printing; a total that is
  loaded several times in one report is loaded once in the model.
* The race on the listener variable between `Run` and `Shutdown` is modelled by its outcomes:
  `Shutdown` sees no listener, or the one stored.

## 7. Plan

Done, in this order: the connection limiter and its callers; the server core with the
abstract service; the rate limiter; the solver; the protection layer with the token budget;
the proof-of-work service, the session and the client; the abstract quote service; the IP
filter, the memory monitor and the stopping of the protection layer; the load tools; proofs
along with each; the server as a caller of the limiter, and the histories of leaked slots,
failures, tokens and waiting times with what is proved of them.

To come:

1. Framing as operators on small messages (`Marshal`, `Unmarshal`, `readMessage`), checked
   against a reference definition at the length limits.
2. A composition of `Server`'s handlers with `Session`, to close the gap between the admission of a
   connection and its exchange: the time bounds of `SessionTime` would then bound a shutdown.
3. The load tools' requests as those of `Exchange`'s clients.
