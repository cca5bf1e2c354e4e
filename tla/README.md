# Verification of the skaidb Rust driver

TLA+ models of the driver in `src/`, model-checked with TLC on small instances, with
the safety properties that matter most proved with TLAPS for every instance. Paths and
line numbers refer to `src/src/lib.rs` unless another file is named.

## The system

| Part | State | What makes it hard | Module |
|---|---|---|---|
| Factory pool (`Pool::new`, 1440-1622) | `closed`, `idle`, two mutexes | critical sections of different threads interleave between the two locks | `FactoryPool`, `PoolSpec` |
| Balanced pool (`Balancer`, 1624-2863) | members, idle connections, affinity map, maintainer, behind one mutex; a link in every connection | dials, statements and probes run without the lock and report to state that has moved on; listings rename, merge and drop members with connections out | `Balancer` |
| Latency of a member (2516-2620) | average, samples, ejections | smoothing, clamping, saturation | `Latency` |
| Client session (`Client`, `RowStream`, 84-1118) | stream, endpoints, database, scan budget, prepared handles | the server answers or goes away between any two frames; a failover must put the session back and retry once | `ClientSession` |
| Handshakes (1120-1376, `skaidb-auth/scram.rs`, `skaidb-gssapi`) | process-wide cache of salted passwords | several threads share the cache while the member's verifier changes | `Handshake` |
| Roles (`skaidb-auth/rbac.rs`) | roles, grants, inheritance | cyclic graphs, names of dropped roles | `Rbac` |
| Frames, messages (`skaidb-proto`) | stream, reused buffer | short writes, cuts, nested wrappers | `Framing`, `Messages` |
| Values, keys, rows, JSON (`skaidb-types`) | none | order of encoded keys, overflow, five walks over one encoding | `KeyEncoding`, `Codec`, `JsonMapping` |
| Directory size (`skaidb-types/dir_size.rs`) | three atomics | readers race for the refresh flag, the spawn may fail | `DirSize` |
| C library (`skaidb-ffi`) | boxed objects | pointers the header still promises | `Ffi` |

The client reports to the balanced pool through its `PoolLink` (round trips, failures,
moves, writes) and asks it for the order to dial in; the pool dials clients and keeps
them. `Balancer` models a pooled connection from the pool's side, `ClientSession` one
connection from its user's side.

## Modules

**FactoryPool** has one action per critical section (`AcquireAdmitted` / `AcquirePop`,
`ReleaseCheck` / `ReleasePush`, `CloseMark` / `CloseClear`) and one for the closure. `pc`
says between which two locks a thread stands, `held` which connection it owns.
**PoolSpec** is the abstract pool: a bounded stack, calls that take effect in one step, none
begun after the close.

**Balancer** has one action per critical section of the pool's mutex, and the dials and
statements between them:

* `known`, `member` are `BalancerState::members`; a record holds `seed`, `canonical`,
  `listed`, `errors`, `ejected`, `inUse`, `probing` and whether the latency is seeded. `idle`,
  `affinity`, `discoveryOff`, `refresh`, `closed` and `maintainer` are the fields of these
  names, `thread` and `due` the background thread and the probes of its round.
* A caller (a checkout slot, or the maintainer) has a `pc`, a `link` (the `PoolLink` of the
  connection it holds), the `order` left to dial and the attempts left. `Attempt` is
  checkout's first lock, `DialAnswers` / `DialFails` are `Client::open`, `Bind` the USE of a new
  connection, `DiscoverThrough`, `FoldListing`, `ListThrough` discovery on it, `Count` the
  second lock. `StatementAnswered` / `StatementLost`, `Redial`, `RedialAnswers`, `Replay` are a
  statement and its failover; `Wrote`, `Checkin`, `Discard`, `Close` complete the user's side;
  `Tick`, `ProbeAnswered`, `ProbeFailed`, `ProbeGone`, `Refresh` the maintainer's.
* `Applied` is `apply_listing`, split as the function is: `Named`, `ByName`, `Kept`,
  `RowsOf`, `Listed`, `Unlisted`.
* Abstractions: a deadline is `"waiting"` or `"due"` and an elapse action moves it; latency
  values are left to **Latency**, so a latency policy may pick any usable member and a
  round trip may or may not be slow enough to eject. `HashMap` order, the random policy
  and the round-robin cursor are arbitrary choices; the runs use the random policy, which
  allows every order the others give.

**Latency** computes, for one member whose peers keep their averages, what Balancer leaves
open: seeding from the least of the first samples, the clamped moving average, the
judgement against the peers' median, the back-off with its saturating power, doubled by
each ejection and each failed probe and started over after a healthy while.

**ClientSession**: a call is a sequence of exchanges (hello, database, budget, prepare, main)
on one stream, each a number of `WriteFrame` steps and then one step per frame read. `Lost`
is the transport error in each exchange; `FailOver`, `Redial`, `DialAnswers`, `Replayed` are
`reconnect`. `LargeAt` says which requests of a call may exceed a frame: `write_frame` refuses
these before it writes a byte (`WriteRefused`), on a stream that goes on working. A connection
holds `Window` frames in each direction; a write waits for room, the server's too. `Decoded`
is what `Response::decode` makes of an answer, a tagged one met by an untagged call included.
The server is external: `Serve` answers or refuses, `ServeRows` streams, `Break`
goes away and loses any suffix of what it has sent; a write to a stream the server closed
fails or vanishes. Prepared ids are any id not in use on that connection. The order of
endpoints is arbitrary, the endpoint just lost last.

**Handshake**: the SCRAM, EXTERNAL and GSSAPI exchanges frame by frame for several threads.
Hashes are terms. The cache lookup, the derivation and the insertion are separate steps,
as they are separate locks. The member is external: it stores one verifier, which
`SetPassword` replaces, is `current`, `old` or `trusting`, and may go away.

**Rbac**: every change of `RoleStore` is an action. A query (`has_privilege`, `columns`,
`mqtt_filters`) borrows the store, so no change happens until it returns, and walks it in
steps: `Visit` is one call of `check`, `collect_columns` or `collect_mqtt_filters`, `Back` its return.
`pending` is the call stack, each call with the parents it has still to look at, and `visited`
the set all branches share. The abstract answer is `Held`: the grants of the roles in every
set that holds the role and is closed under the edges SHOW GRANTS lists.

**Ffi**: a slot holds a boxed object, a promise is a pointer the header still allows the
caller to read. Calls end promises as the header says and free memory as the code does.

**DirSize**: each access to an atomic is a step.

**KeyEncoding, Codec, JsonMapping, Messages** are operators on byte sequences, **Framing** a
state machine of both ends of a stream. A word has eight bits, a word on the wire one
byte, a 16-bit count wraps at 3. The length prefix of a frame has two bytes, four in the
code; `FramingAssumption` keeps `MAX_FRAME_LEN` below what it can hold, as the code's 64 MiB is
below 2^32.

**MC modules** give constants, inputs and symmetry. `MCClients` runs two and
`MCBalancerHeal` three instances of their specification, chosen in the initial state. `MCServices` runs the parts
that share no state with one another: a behaviour runs one of them and leaves the rest
as they were. The theorems are in **BalancerTypes**, **BalancerProofs**, **ClientSessionInvariant**,
**ClientSessionProofs**, **HandshakeProofs**, **ServicesProofs**, **RbacProofs** and **FramingProofs**.

## Runs

| Run | Instance | Shows |
|---|---|---|
| `health` | 2 endpoints, 2 tasks and the maintainer, a database, read-your-writes, ejection by latency, no discovery, spawns may fail | exact counts, the idle bound, close, some member always usable, probes alone re-eject, no mark left set, one maintainer |
| `discovery` | 2 endpoints, 1 configured, listings in which either comes and goes | counts never too high, `PoolKept` (types, close, probing marks, maintainer), a configured endpoint remains |
| `heal` | read-your-writes with a map of 1 for 2 keys; 2 tasks without keys; and 1 endpoint with discovery, a database, dials that break, 2 attempts | reads follow writes, open windows survive the sweep; an ejected member is probed; no checkout, failover or release runs for ever |
| `clients` | 2 servers; 2 handles over 2 ids; and 2 databases, 2 budgets, batches of 2, streams up to 2 chunks, a window of 1 frame; the first request of a call may be too large | request boundary, own answers, at most one retry, retries in the session and with the handle's statement, every call returns |
| `formats` | values, decimals, rows, damaged rows, messages, frames of `MCFormats` | order and equality of keys, numbers, round trips, agreement of the partial walks, reused buffers, messages cut short, frames over short writes and cuts |
| `services` | see Bounds | the factory pool refines `PoolSpec`; roles explained by SHOW GRANTS, nothing revived; logins mutual, dials end; no promised pointer dangles; the refresh flag; one slow round trip harmless, a slow member out |
| `factory_close`, `stale_handle`, `refused_replay`, `old_server`, `refused_batch`, `key_collision` | violations | see Findings |

`CallsReturn` names two properties, one of the pool's calls and one of the client's.

Bounds. Two members are the fewest between which a connection can move and of which one
can be ejected; two tasks and the maintainer give every pair of concurrent reporters.
`MaxSize` and the strikes that eject are small enough to be reached in every run; `Attempts`
is `CHECKOUT_ATTEMPTS`, smaller, `MaxReplay` the most statements a re-dial replays. `health`
judges a member's latency from its first round trip (`MinSamples` 0): a larger number only
forbids some ejections, so every history of the pool under one is a history of this run; the
count of samples is `Latency`'s. A pipeline of
two has an answer that is not its first and fills a window of one in each direction, a stream of two chunks can be dropped before, between and after them,
and two ids are the fewest that two handles can exchange. In `services`: three threads on
a factory pool of two (two returns race for the last place while a third takes); three
roles, three edges and one grant at a time (a cycle, a diamond's shared ancestor, a dropped
name in between); two threads dialing twice each, two salts, a cache of one entry, one
change of the verifier, three GSSAPI legs (an entry is evicted between another thread's
lookup and insertion); two callers, three boxes, two kept pointers; two readers, time up
to 5 with a refresh interval of 2; the code's latency defaults (factor 3, three seed
samples, ten before judging, a floor of 50 ms) with up to 30 samples, and a doubling that
saturates at 2 bits. In `formats` the inputs hold the extremes of an eight-bit word, both
zeros, NaN, empty and zero-byte strings, nested containers, and every row with a byte cut,
added or changed; `COALESCE_LIMIT` and `MAX_FRAME_LEN` are 1 and 3 so that payloads lie on both
sides of each.

Fairness. `heal`, for its calls, and `clients` assume that a thread inside a call keeps taking steps, and
that a server answers or closes the connection: the driver sets no read timeout, so a
peer that does neither holds the call for ever. `heal` assumes that the maintainer keeps
running and that its park times out. `services` assumes that a
dialing thread runs on and the member answers what it reads. No fairness is assumed of
users, failures or listings.

Deadlock is checked in every run except `formats` and `key_collision`, whose behaviours end
when their inputs are picked, and `services`, whose bounded parts end.

## Findings

1. `factory_close`: `release` reads `closed` and pushes under different locks (1546-1552).
2. `stale_handle`: a handle is re-prepared only by a failover of its own call. After one of
   another call it carries the old connection's id, and with ids that count per
   connection it may run another handle's statement.
3. `refused_replay`: `reconnect` keeps the new stream when USE is refused on it; the next
   statement runs in the default database.
4. `old_server`: `pipeline` leaves the rest of a refused batch's answers unread.
5. `refused_batch`: a statement of a pipeline is refused for its size when the ones before it
   are on the stream already. The refusal is an `Io` error, so `reconnect` runs; if it reaches
   no endpoint the old stream stays, and if it does the retry is refused on the new one.
   Either stream works and holds answers nobody has read, and the next call takes them. The
   run `clients` and the theorems therefore let only the first request of a call exceed a frame.
6. `key_collision`: the byte that ends an array also encodes NULL, so `[[NULL]]` and
   `[[], NULL]` have one exact key. The passing key properties speak of values in which
   nothing inside a container reads like its terminator (`Unambiguous`). The same sentence of
   the doc fails the other way for the zeros of f64: `Value`'s derived equality makes 0.0 and
   -0.0 equal, and `encode_f64` gives each its own key. `KeysTellApart` says so outright: among
   values without NaN and minus zero keys are equal exactly when the values are, and floats are
   keyed by their bits. (Of decimals the doc means the number, 1.0 and 1.00 being one key, where
   the derived equality compares mantissa and scale; `Same` follows the doc.)

`CallsReturn` of the client holds for batches of at most `2 * Window` statements. `try_pipeline`
writes a whole batch before it reads, with no limit on its length; one that fills both
directions of the connection leaves client and server waiting for each other (with a window
of 1, a batch of 3).

What discovery weakens, and why some properties are only stated without it: an entry that
is dropped takes its count with it, and one listed again starts at `in_use` 0, so
`InUseBounded` replaces `InUseExact`; listings alone can leave no member ready, and a probe that
outlives its entry writes its failure to the new one without `eject`'s guard (2691-2694), so
`SomeUsable` needs discovery off; two configured endpoints of one server are merged into one
entry (2815), so `SeedRemains` speaks of some configured endpoint, not of each.

## Proofs

Each theorem holds for every value of the constants that satisfies the named assumption of
its component, which says what the code enforces or what makes the constants meaningful
(`BalancerAssumption`: finite non-empty seeds, `maxsize` and `eject_errors` at least one, as
`PoolBuilder::build` enforces, listings of distinct names; `SessionAssumption`: finitely many
endpoints, batches of at least one; `HandshakeAssumption`: some password besides the empty
one, a cache limit of at least one; `RbacAssumption`: finitely many role names, in an order;
`FramingAssumption`: payloads of bytes, a limit the prefix can carry).

**Balanced pool** (`BalancerTypes`, `BalancerProofs`), with any listings unless stated:

* `TypeCorrect`: `Types`, the type invariant split by what changes together, is inductive.
  Each lemma says what a shared helper (`Failed`, `RoundTrip`, `Eject`, `Applied`, ...) may
  change, so that an action's proof cites its helpers.
* `IdleNeverOverflows`, `CloseIsFinal`: the two ways into the idle list, checkin and a
  successful probe, test the bound and `closed` in the critical section that pushes.
* `InUseNeverHigh`, `InUseIsExact` (discovery off): a bare count is not inductive. `Control`
  says at which program points a link is counted (`out`) and whose it may be, `Counted`
  that `inUse` equals the links out; with discovery equality weakens to at most.
* `NeverAllEjected` (discovery off): `Rotation`, some member is usable; `Eject` needs another
  usable member, and a failed probe only touches a member that was ejected already, which
  `Control` supplies.
* `AtMostOneThread`: only `ensure_maintainer` starts a thread, when there is no handle of one,
  and only `close` gives the handle up.
* `ProbingNeverStuck`: `Probes` adds to `ProbingIsDue` that outside its probes the background
  thread owes none; lemmas say which members' `probing` and `ejected` a step can touch
  (`Unmoved`, `Reported`, `Relisted`). `ReEjectedByProbesAlone` is the action property read off
  the same lemmas.
* `AlwaysSomewhereToDial`: of the seeds under one name a listing keeps the last, which exists
  because they are finitely many (`GreatestExists`), and a seed without a name is never
  merged (`AppliedKeepsASeed`).
* `PoolAlwaysKept`: `TypeCorrect`, `CloseIsFinal`, `ProbingNeverStuck`, `AtMostOneThread` together.
* `WritesAreFollowed`, `WritesAreRemembered`: every dialing order starts with the endpoint asked
  for (`OrderStartsWithFirst`); the sweep removes expired windows only.

**Client session** (`ClientSessionInvariant`: the invariant and the client's steps;
`ClientSessionProofs`: the server's and the theorems), all five under `Old = {}`, every server
knows tagged requests, and `LargeAt \subseteq {1}`, of a call only the first request may exceed a
frame (a batch may have any length). The runs `old_server` and `refused_batch` show that both
are needed.

* `Inv` is the inductive invariant. `Types`, `CallOK`, `PhaseOK` tie the call to its phase. `Talk`
  is the heart: during an exchange there is a `k` such that the client has read `k` answers,
  the stream holds the answers to the next requests and then the requests still to be
  served, in order and with their tags (`Conversation(k)`), or a row stream is open and what
  is left of it is a run of chunks with at most one last frame (`Opened`, `Flow`); between
  calls the stream is `Quiet`. `RunsOK` bounds how often each statement has run by whether
  the retry is still to come. `SessionOK` says how much of the session the replay has put
  back at each of its exchanges.
* A request refused for its size is then the first of its exchange (`RefusedInv`): nothing of
  the call is on the stream, which is `Quiet` still.
* `SessionTyped`, `AlwaysPositioned`, `AnswersAreOwn`, `AtMostOneRetry`, `RetriesAreFaithful` follow
  from it. None of these properties is inductive alone: that a call takes its own answers
  needs the position of every frame on the stream, and that a statement runs at most
  twice needs to know which requests the server has not yet seen.

**Handshake** (`HandshakeProofs`): `LoginsAreMutual`. The lemmas on terms say that a hash
determines what it was made from, hence that a proof verifies exactly when the verifier is
of the login's password (`Verified`, `Signed`, `Stored`). `CacheOK` says that every cached
entry is what its key derives to; `Dialog(t)` follows one dial frame by frame: what is under
way, and that both ends speak of the same salt, iterations and nonce from the challenge
on. The frames of other dials and changes of the verifier leave a dial's `Dialog` alone,
because the member remembers the credential it challenged with.

**Roles** (`RbacProofs`): `RolesExplained`, for any finite set of names and any graph. The code
walks depth first and marks names it has met; that this misses nothing is not plain, since
a name may be met on a branch that is not finished. `RbacInv` says why it does not: every
name met or awaited is reached (`WalkReached`); every parent of a role met is met, or awaited
by some open call, unless a check has already succeeded (`WalkCloses`); what was found is
what the roles met grant (`WalkFinds`); and each open call but the first belongs to a name met
that no other belongs to, which bounds the recursion (`WalkDepth`). When the stack is empty
nothing is awaited, so the names met are closed under the edges, and the least closed set is
among them. `RolesNeverRevived`, an action property, adds `CleanSlate`: a role that is gone has
left nothing behind, so that what the stale names in other roles' `inherits` reach is empty.

**Frames** (`FramingProofs`): `FramesAlwaysArrive`. `Tiled(bs, fs)` says that the bytes `bs` are the
pieces `fs` one after the other, by the offset at which each starts. The invariant
(`FramesOwed`) is that the prefix the reader has taken, the bytes on the stream and the bytes
the writer has still to write tile into the frames accepted and not yet received. A broken
writer owes some completion that never comes. A writer's step moves bytes from one of these
to the next (`WriterMoves`) or adds a frame at the end (`WriterAccepts`, `TiledOn`); a reader's
takes the first two bytes, which `TiledFirst` makes the length of the next payload, or that
payload, after which the other frames follow (`TiledRest`). So the length test of
`read_frame_into` never fails on what `write_frame` sent. `TiledIsJoined` turns tiling into the
concatenation the property speaks of. That lemma is an induction on the number of frames,
by the least counterexample: `LeastNatural` gets it from the library's well-foundedness
theorem, whose parameters are sets.

The other four are in `ServicesProofs`.

**Factory pool**: `PoolTyped`, `PoolBounded`, `ClosedToNewCalls` from `TypeOK /\ IdleBounded`, and
`PoolImplemented`: each critical section is a step of `PoolSpec` or a stutter.

**Latency**: `OneSlowNeverEjects`, for a factor and a number of seed samples of at least two.
`Harmless` bounds the average while at most one sample was slow.

**Directory size**: `FlagAlwaysWalk`, with `FlagIsWalk` taken apart per thread.

**C library**: `NothingDangles`; a promise is of a box that holds something, and
only of a kind its calls free as the header says.

Model-checked only:

* liveness (`CallsReturn`, `EjectedIsProbed`, `DialsEnd`): fairness is out of the prover's reach;
* everything in `formats` but `FramesArrive`: the encodings of values, rows and messages are
  RECURSIVE operators on nested values, for which the prover has no backend;
* `SlowIsOut`: it needs powers of two, which the provers do not know, and a bound on the
  number of samples by induction over a decaying average;
* `ClientTypeOK`, which speaks of the two instances of one run: `SessionTyped` is the theorem,
  for every instance with `Old = {}` and `LargeAt \subseteq {1}`.

## Not modelled

Cryptography (fixed functions with test vectors), TLS configuration and socket options,
formatting and logging, consistency levels and the multi-set frames of CALL in a session,
the truth tables of three-valued logic, the text form of a stored credential, the C++
wrapper, the server itself. Frames that decode to nothing are left out where several are
expected: on one, `try_pipeline` (653) and `next_frame` (1068) return an error and leave what
follows on the stream, since `next` marks the stream done on any error (1097-1101) and `Drop`
then drains nothing. The server is external here and sends frames that decode. `src/crates/skaidb-types` also holds code only the server uses
(slow log, disk-full guard).
