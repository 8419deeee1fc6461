# TLA+ models of `org`

`org` (src/) is a synchronous Rust command line client for org-mcp, an MCP
server inside Emacs. One invocation spawns the server, shakes hands, makes one
request over newline-delimited JSON-RPC, prints one JSON envelope, kills the
server and exits with a status callers act on. The code is small. What is hard
is in the seams: a child process, two pipes, a reader thread, a channel, a
timeout, a drop order, and two hand-written tables that have to agree.

## 1. Inventory

| Part | State it keeps | Operations | What makes it hard, and what must hold |
|---|---|---|---|
| **Transport** `src/mcp/transport.rs` | child, its stdin, its stdout (moved into the reader thread), the channel's receiver, the timeout | `spawn`, `set_timeout`, `send`, `ensure_reader`, the reader loop, `recv`, `kill`, `Drop` | Two threads, a kernel and a server interleave. No line lost, torn or reordered; end of file never early; no error without its cause; `recv` returns by its deadline, if one was asked for; two full pipes never hold each other up; drop always reaps. |
| **Client** `src/mcp/client.rs` | the transport, `next_id` | `connect_with_timeout`, `request`, `notify`, `handshake`, `tools_list`, `tools_call` | The next line is taken for the answer, whatever it is. No call before the handshake; no stray line reported as success. |
| **Errors and envelope** `src/mcp/error.rs`, `src/output.rs` | none | `exit_code`, `kind_str`, `rpc_code`, `print_success`, `print_error` | Envelope, exit code and effect must agree. `println!` panics when stdout is closed, and blocks while nobody reads it. |
| **Invocation** `src/main.rs` `main`, `run`, `connect`, `handle_mcp_error` | the timeout, the exit code | one run of the process | Every way out (success, error, failed handshake, panic) must leave no child behind. A signal runs no destructor: the request lives on in the pipe, and what the exit status says must still be true when the server gets to it. |
| **Dispatch** `src/main.rs` `cmd_*`, `src/cli.rs`, `src/uri.rs` | none | 33 subcommands, `normalize_for_tool`, `parse_set_pairs`, `validate_outline_path` | Each command names its tool and keys by hand. One `org://` is cut off a URI, and off URI options only. clap refuses what it takes for an option. |
| **Contract registry** `src/contract.rs` | the constant table `COMMANDS` | `serialize_all`, `serialize_one` | A second hand-written list of the same tools and keys, and the one callers are shown. |
| **Callers** (agents and scripts; `edit body --old`) | what they last read | read, edit, look at the exit code, repeat | Several at once, and runs whose outcome nobody knows: no text overwritten, no edit done twice. |
| **argv sentinel** `src/argv.rs` | none | `split_sentinel` | Finds `--` by position before clap sees the arguments. |
| **Result extraction** `src/main.rs:850-925` | none | `extract_result`, `map_content_item` | Scalar or array, JSON or wrapped text, depending on the content. No item out of place; what is read of an item comes out as what it is (what is not read, as the blob of a resource, is lost). |
| **MCP server** (another repository; `tests/fixtures/mock_org_mcp`) | the documents | reads a line, answers a line | May refuse, stay silent, crash, close one pipe, write lines nobody asked for. |
| **Live test runner** `scripts/run-live-tests.sh` | a daemon, a temporary directory | make a workspace, set the trap, start, probe, test, clean up | Cleanup on every exit, signals included; green only for a suite that ran; no waiting for ever. |
| Build, packaging, CI, tests | none | | Not modelled. |

How they interact: `main` calls `run`, `run` a `cmd_` function, which owns a
`Client`, which owns a `Transport`. The transport's reader thread shares only
the mpsc channel with the main thread. The server shares only the two pipes with
the CLI. The caller of the CLI sees stdout and the exit status.

The hazards, each at its line of the source and with the properties aimed at it,
are in `PROJECT.json` under `hazards`.

## 2. Modules

    LineChannel        Rpc            Contract   Values
         ^              ^                 ^       ^   ^
         | implements   |                 |  Arguments |
     Transport ---------+                 |   ^   ^   Results
      ^     ^                           Dispatch  |
   Client Server                                  |
      ^     ^                                   Agents
      OrgCli --- implements ---> Invocation <-----+ uses

    on their own: Argv, LiveTests;  for TLC: MCTransport, MCOrgCli,
    MCDispatch, MCArgv, MCResults, MCAgents, MCLiveTests
    proofs: TransportProofs, OrgCliProofs (extends it), DispatchProofs,
    ArgvProofs, ResultsProofs, AgentsProofs, LiveTestsProofs, NumberLemmas

* **Rpc**: the values the others share: messages, what a transport call
  returns, the error classes with exit code, kind and code, and the rule by
  which a response is matched to a request (`ResponseErrors`). A JSON field
  that may be absent is a set with at most one element.
* **Transport**: the variables are the fields of `struct Transport` and what
  they stand for in the kernel: `proc` is `child`; `stdin`, `stdout` the pipes'
  contents; `tail` a line whose newline is not out yet; `inOpen`, `outOpen`
  whether anyone still holds the server's ends; `reader`, `held`, `chan` the
  thread, the line in its hand and the channel; `gated` the timeout; `op`,
  `unsent`, `ret` where the main thread is inside a call. `asked` (the seconds
  its user gave), `sent`, `heard`, `written`, `got`, `ended` are histories. `send` is one `Send` and as many
  `WriteChunk`s as the pipe makes of it, because another party can act between
  two writes; `recv` is `Recv` followed by one of `RecvLine`, `RecvTimeout`,
  `RecvDisconnected`; drop is `Drop`, `Kill`, `Wait`. The server's side is
  unconstrained and may outlive the child, as the launcher is a shell script
  that forks.
* **LineChannel**: the abstract promise: lines come out in the order they went
  in; end of file only when the other side is closed and everything was
  received, or after a line that is not UTF-8; nothing after it. `Channel` in
  Transport is the refinement mapping (`closed` is "spawned, and nobody holds
  the write end").
* **Client**: handshake and requests, one action per point where the code can
  wait or return. The JSON of a result is abstracted to what the code tests.
* **Server**: the environment: a sequential loop that applies the effect of a
  tool call before it answers, and may fail at any point.
* **OrgCli**: one process from `run` to exit: what is refused locally, the
  connection, the call, the envelope, the panic, the drop at the end of the
  scope, the exit code. `applied` (Server) is the ground truth of the effect.
  `Signalled` ends it at any point; the server goes on.
* **Invocation**: what a caller may rely on of such a run, in two variables: how
  often the call took effect, and what the exit code says of it. `Conclusion`
  in OrgCli reads the exit code (0 of a tool call: applied; 1, 2, 4: unchanged;
  3, a panic, a signal: unknown), `Promise` is the refinement mapping.
* **Values**: JSON values, tagged; `Field` and `++` are `json!` of one member and the
  members of two objects. **Arguments**: each `cmd_` function as the
  arguments it builds, a function of the words given for every option.
* **Agents**: several callers of `org read` and `org edit body --old`. Their
  requests are the ones of Arguments, their runs behave as Invocation allows (its
  `MayTakeEffect` and `MayConclude` are the guards), so Agents composes what the
  two say. The request of a run that ended "unknown" without an effect stays in
  `late` and can reach the server at any time. The callers and the guard inside
  org-mcp are external.
* **Results**: from the result of a `tools/call` to the printed data. The server
  puts an answer together item by item (`AddItem`), the command extracts it. Which
  texts are JSON, and what they parse to, is the constant `JsonOf`. `Says` is what
  an item says in the members that the comment on `extract_result` lists; items also
  carry members it does not list (`blob`, `title`, `annotations`).
* **LiveTests**: `scripts/run-live-tests.sh`, one action per command; `at` is the
  next one, `handler` what brought cleanup on, `status` and `rc` are `$?` and the
  local of that name. Any command before the suite can fail, and one INT or TERM
  can come between any two commands. cleanup runs twice after a signal, as its own
  `exit` sets off the EXIT trap.
* **Contract**, **Dispatch**: the registry as data, the clap grammar as data. A command line is typed
  option by option, parsed, then refused, answered locally or sent. `given` is what
  its caller means. `misread` is set when clap takes a word for something else: a
  value that begins with a dash and is not joined to its option by `=` (only
  `--server-arg` has `allow_hyphen_values`), or, with an expression in front of it,
  a subcommand of `query`. A command line with such a word is refused. A URI is an id
  with any number of `org://` in front of it, of which `normalize_for_tool` takes one
  off. `--set` values have an `=` or not; `--args` is JSON or not; other text is
  opaque but for its leading dash.
* **Argv**: `split_sentinel` before clap: `i` is its index, `found` its
  `sentinel_idx`, `result` the pair it returns. One action per turn of the loop
  and per way out.
* The **MC** modules: small instances for TLC.
* The **Proofs** modules: theorems about the module they extend, see section 4.
  **NumberLemmas**: the least and the greatest of a set of numbers.

## 3. Runs

| Run | Question | Bounds, and why they are enough |
|---|---|---|
| `transport_lines` | `TypeOK`, `NothingLost`, `HeardInOrder`, `FailsForCause`, `Delivers`, `RecvReturns`, `DropReturns`, `PipeDrains` | 3 lines through a pipe of 1: the pipe fills, and lines can be in the pipe, the reader's hand, the channel and with the caller at once. 2 messages, one longer than the stdin pipe: a write can fail half way and be followed by another. Lines: JSON, garbage, not UTF-8. A timeout of 0 and one of 30. |
| `orgcli_safety` | `CliTypeOK`, `OneEnvelope`, `ChildReaped`, `CallAfterHandshake`, `SuccessIsTheAnswer`, `Promised` | The tool call takes 2 chunks, the stdin pipe holds 2; one unsolicited line of five kinds at any moment, enough to take the place of either response; a signal at any moment. |
| `orgcli_liveness` | `Terminates`, `ResponsiveTerminates` | tool call of 2 chunks through pipes of 1 and up to 3 unsolicited notifications: both pipes are full at once, and `send` can block. |
| `dispatch_registry` | `DispatchTypeOK`, `RequestAsRegistered`, `PropertiesMerged`, `AcceptedAsRegistered` | All command lines of up to 6 options: every option of `todo add`, the longest, together; repeated, missing and malformed ones; two texts and two property keys, so that order and overwriting show; one of each begins with a dash. URIs with up to 2 `org://`: none, the one that is cut off, and one too many. |
| `argv_split` | `SentinelIsFirstTopLevel`, `PartsRejoin` | All command lines of up to 6 tokens, the empty one included: `--`, two value flags, a subcommand, a plain token. Three flags in a row, a flag at the end, two `--`, and a `--` after the subcommand all occur. |
| `results_items` | `ItemsInPlace`, `ToldApart` | Answers of up to 2 items: pairs are what both properties compare. 306 items: every content type, each member missing or one of two texts, with and without a blob, a title or annotations, texts that are JSON (an array and null among them), an unknown type, no type, no object. |
| `agents_edits` | `EditedOnce`, `DoneMeansDone`, `NoUpdateLost`, `EveryoneGetsThrough` | 3 callers, so that an edit can be outrun twice; 3 runs that fail or end unknown, so that one caller can have several requests under way, or each caller one. |
| `livetests_teardown` | `LiveTypeOK`, `OwnedTornDown`, `GreenMeansTested`, `SettledEnds` | 3 probes instead of 60: a first, a middle and a last one. |
| `orgcli_exittable`, `dispatch_documented`, `results_livetests`, `livetests_torndown` | one documented statement each | expected to be violated, see section 5 |

The bounds are on histories (`MaxLines`, `MaxSends`, `MaxNoise`, `MaxWords`,
`MaxItems`, `MaxTrouble`), on the prefixes of a URI (`MaxPrefixes`) and on
`MaxProbes`, which is 60 in the script. Deadlock is not checked: the process ends, and so do the bounded
server, the command line, the callers and the script.

What the properties say, beyond the comment at each:

* `NothingLost` is one equation: what the server wrote is the concatenation of
  what recv returned, the channel, the reader's hand, the pipe and the
  unfinished line. `Delivers` adds what may be said at the end of the stream.
* `Promised` is what callers retry on: at most one effect, "applied" only when
  there was one, and after exit 1, 2 or 4 none, then or later. Exit 3, a panic and
  a signal say nothing: the call may have taken effect or still may. The model's
  server refuses without effect; the property is about the client side of it, that
  no code path reports a lost answer as a refusal.
* `NoUpdateLost` and `EditedOnce` hold because of `--old` alone: a late request and
  its repetition name the same old body, so at most one of them matches. Callers
  only add text here. One that removes text could bring an old body back, and a
  late request would match again; `todo state --from` has that weakness always,
  with its few states, and `edit body --append` has no guard at all.
* `ToldApart` is about the members that `main.rs:839-845` lists: two items come out
  alike exactly when they agree on them. So none of these is dropped or mistaken, and
  what differs in another member only (the blob of an embedded resource, title and
  size of a link, annotations, `_meta`) is the same to a caller: the code drops those.
  It leaves out JSON texts, which may come out as anything, an image object included
  (that is what the CLI is for), and resource items without a resource.
* `FailsForCause` is for a caller who reads the message of an exit 3: no timeout
  without a deadline asked for (`--timeout 0` is none), no end of file from a sound
  stream that can still be written, no failed write while somebody can read.
* `GreenMeansTested` leaves out a signal: `$?` can be 0 when TERM comes, and cleanup
  then exits with 0.
* `SuccessIsTheAnswer` admits two things the code does: a `tools/call` result
  with `isError: true` is exit 0, and exit 0 of `tools list` has no effect.
* `SentinelIsFirstTopLevel` says which `--` is meant without scanning: a row of
  value flags pairs up from its first one, so a token is a value exactly when the
  row before it is odd. A `--` after the subcommand counts as top-level, as in
  the code: what follows it goes to the launcher.
* `RequestAsRegistered` has the registry as reference definition: the value
  expected under each key is computed from the registry row alone. A URI goes out
  without its first `org://`, so it is bare if it was typed with one at most;
  `ToolInputsAreBare` is about the others.
* `AcceptedAsRegistered` does not say that a caller who follows the registry is never
  refused. It says that there are three reasons to be refused and no other: the
  registry is not followed, a value is bad (no `=`, no JSON, a prefixed outline), or
  clap takes a word for something else. Of the last the registry says nothing:
  `org edit body ID --new "- item"` exits with 2, `--new="- item"` does not.

### Fairness

`SystemFairness`: the main thread, the reader thread and the kernel's delivery
of SIGKILL each get weak fairness. They are threads of a live process that
never wait for a lock; `recv_timeout` has a deadline, so `RecvTimeout` belongs
to the main thread's steps. Nothing is assumed of the server. `Terminates` holds
under that alone when the timeout is on, with two exceptions it names: `send` has no
timeout, and a server that never reads can hold a request larger than the pipe for
ever; nor has `println!`, and a consumer that keeps the CLI's stdout open and does
not read it can hold the envelope. `CliFairness` therefore gives the main thread no
fairness while it prints to such a consumer. `ResponsiveTerminates` assumes
`ServerFairness` (a server that keeps reading, answering and finishing its lines, and
whose remains close when it dies) and `ConsumerReads`, and then needs neither timeout
nor small requests. `FairCliSpec` has no signals:
a signal would end the run.

Agents: callers do not give up, and a server acts on a run that has no trouble;
troubles are finite. LiveTests: commands end, `cargo test` among them (`Script`),
and an Emacs that starts comes up or dies, and dies when asked to
(`DaemonFairness`). `SettledEnds` needs both; section 5 says why they are not enough
when the daemon is slow.

## 4. Proofs

Every invariant and every safety property that a passing run checks is also a
theorem, for every value of the constants. What the constants must satisfy:
Transport's three assumptions (the sorts of line differ, sizes and capacities are
positive), Agents' and LiveTests' on their bounds,
Results' `ItemsMayCome` (its bound is a number and some JSON exists), Dispatch's
`PrefixesAreCounted` (its bound is a number), and three of OrgCli that tie its
constants together:

* `MessagesAreTheClients`, `ResponsesAreJson`: the messages are what the client can
  send, and an answer is a line that parses.
* `NoiseAnswersNothing`: an unsolicited line has neither of the ids 1 and 2, and one
  without an id has neither result nor error. It is what "unsolicited" means. Of a
  server that answers twice, or answers before it is asked, nothing is claimed.

**TransportProofs**

* `TypeCorrect`. Inductive as it stands (`TypeInductive`).
* `LinesKept` (`NothingLost`). Given the types it is inductive: every action moves
  a line from one stage of the pipeline to the next, or adds one at its end. The
  lemmas `MoveHead` and `ConcatSingleton` say that such a move keeps the
  concatenation.
* `ImplementsChannel` (`Delivers`). Needs one more invariant, `StreamInv`, because
  LineChannel may end only when everything was received or the stream is broken:
  either nothing undecodable was met and a stopped reader means that nobody can
  write and pipe, tail and hand are empty (`StreamReadable`), or the undecodable
  line is the last one in the channel (`StreamFailing`), or it was the last one
  received (`StreamFailed`). `ChannelStep` maps every action to a LineChannel action
  or a stutter; the interesting ones are `RecvLine` and `RecvDisconnected`.
* `SentIsHeard` (`HeardInOrder`), from `StdinInv`: what is in the stdin pipe and what
  is unsent are the rest of the messages of `sent`, in order, of which the server is
  still to read. Once nobody can read stdin the rest of a message may be lost, but
  then nothing more is read either.

* `FailuresJustified` (`FailsForCause`): `StreamInv` says why a reader stopped, and
  `GateAsAsked` that there is a deadline exactly when one was asked for.

**OrgCliProofs**: one invocation, with a signal at any moment. Every step is one of
Transport or leaves Transport alone (`TransportStep`), so what was proved of
Transport holds here. `CliInv` adds a part for each party:

* `ControlInv`: where `run` is, where the client is, and how many messages were sent
  determine each other. `ReapInv`: the child of a dropped transport is reaped.
* `ServedInv`: what the server has decided and done follows from how many messages
  it has served. `LinesInv`: every line on its way is one of its answers or noise.
* `OutcomeInv`: what the library returned was matched by id, so it is the answer to
  the last request, or an error that says nothing. `EnvelopeInv`: the envelope is
  justified by that outcome, and the exit code is the envelope's.

From it `CliTypeCorrect`, `EnvelopeMatchesExit`, `NoChildLeft`, `HandshakeComesFirst`
and `SuccessIsEarned` follow by cases. `ImplementsInvocation` (`Promised`) also needs
that what the exit code says was true when it was said (`ExitCodeIsTrue`) and stays
true while the server goes on (`ToldStays`): exit 1, 2 and 4 come from an error the
server gave, or from before the call was sent.

**AgentsProofs**: `AgentsInv` says that every request under way or left behind
carries the text it was made from as its guard, and adds a mark that text does not
have. Hence a request that is late finds either that very text, or is refused:
`NobodyOverwritten`, `RepeatedIsEditedOnce`, `ToldIsDone`.

**LiveTestsProofs**: `LiveTypeCorrect`; `TornDownIfOwned` from `Teardown` (the
workspace lasts from mktemp to rm, and rm comes only when a known daemon is gone);
`GreenIsEarned` from `Verdict` (the status that cleanup keeps is 0 only for the
suite's, or because a signal found `$?` so).

**ArgvProofs**: `SentinelFound` from `Scanned`: a token is looked at only when the
row of flags before it is even, and no top-level `--` was passed by; that the row of flags before a token has one length, and that
it grows with the scan, is what ties the scan to the definition.
`NothingLostBySplitting` (`PartsRejoin`).

**ResultsProofs**: `EveryItemInPlace`; `ItemsToldApart` from `Shapes` (every item
comes out in one of five shapes, with the members of its type) and
`KindsDiffer` (no two shapes are alike) one way, and from `MadeOfSaid` (what an item
becomes is a function of what it says) the other.

**DispatchProofs**: `Typed` (what was typed for an option are words for it) and
`Judged` (nothing is refused or passed without a reason) are the invariants.

* `EveryKeyMeansOneThing` (`PropertiesMerged`), from `MergedKeys` and `MergedValues`.
* `RegistryDecides` (`AcceptedAsRegistered`), dashes included: `GrammarRegistered` says
  that every form of command line has an entry that agrees with it on each option.
* `SentIsRegistered` (`RequestAsRegistered`) and `DispatchTypeCorrect`: one lemma per
  command compares the arguments its `cmd_` function builds with what is due of its
  entry's parameters, for any words and any number of prefixes. That a tool's input is
  bare is not among them: it is not true (section 5).

Three things the provers made necessary. The induction theorems of the library
cannot be used; NumberLemmas gets the least number of a set from the theorem that
`<` is well founded on finite sets of numbers, which is enough for `Max`, `Min` and
the scans. `:>` and `@@` are opaque to the provers, so Values defines `Field` and `++`.
CASE with arms that overlap means "one of them": `Conclusion` and `Expected` are
written with IF.

Only model-checked: the liveness properties `RecvReturns`, `DropReturns`,
`PipeDrains`, `Terminates`, `ResponsiveTerminates`, `EveryoneGetsThrough`,
`SettledEnds`. Fairness and ENABLED are out of the proof system's reach. The four
runs that expect a violation refute what a document says; there is nothing to prove.

## 5. Where code and documents disagree

Each run states one documented promise. Where several things break it, TLC reports
the shortest way; the others were found by checking the conjuncts alone.

`ExitCodeTable` (README.md:72-78, the exit codes):

* With stdout closed, `println!` (`output.rs:69-75`) panics: exit 101 and no
  envelope, though `output.rs:3` says every command emits one. The child is still
  reaped (`ChildReaped`).
* A JSON-RPC error in answer to `initialize` is exit 1, "tool error", although no
  tool was asked (`client.rs:71`).

`DispatchAsDocumented` has two parts. `RegistryIsExact` (`contract.rs:3-5`, a registry
"of every CLI command" with "the exact tool target, parameter shapes"):

* `KeysAsRegistered`: `org query` sends `ql_expr` (`main.rs:261`), the registry says
  `query` (`contract.rs:239`).
* `UriRulesHold`: `todo add --after` takes `org://` URIs (`main.rs:414-417`,
  documented so in `cli.rs`), the registry says bare only (`contract.rs:462`).
* `CommandsRegistered`: `org schema query run` is an unknown command path, though
  the CLI has it and the README lists it.
* `InternalStaysLocal`: the registry calls `tools list` and `tools call` internal,
  "handled entirely by the CLI without server IO" (`contract.rs:20`); both spawn
  the server (`main.rs:71`).

And `ToolInputsAreBare` (`uri.rs:3`, "Tool inputs must be bare", by a normalization
"applied before every tool call", `uri.rs:16`): `strip_prefix` takes off one prefix
(`uri.rs:18`), so `org read org://org://id` asks for `org://id`; and the files of a
query are sent as typed (`main.rs:256-262`), `--files org://f` with its prefix.

`MutatingTestsFindAChild` (`live_org_mcp.rs:50`): the live tests that should change a
node look for `children` in what `tools_call` returns, which is the content array
(`client.rs:171`); they find none, skip, and pass (`live_org_mcp.rs:605`). A server
that answers with the bare object, without content, would be tested.

`TornDown` (README.md:214-224, "tears the daemon and tmpdir down on exit"):

* The workspace is made 34 lines before the trap is set, and a signal between `&`
  and `DAEMON_PID=$!` runs cleanup with no pid (`run-live-tests.sh:55`, `:103`).
  `OwnedTornDown` is what does hold.
* The probes are capped ("Cap at ~30s", `:105`), cleanup is not: a daemon that comes
  up only after cleanup's `emacsclient` has failed is waited for without end (`:82`).

## 6. Not modelled, and why

* Wording of messages, error data, `--compact`, pretty printing, value types and
  output shapes of the registry: no property depends on them.
* clap itself: the grammar is taken from the derive attributes, parsing is what
  they mean (needed, once, many, a dash in front of a value, the subcommands of `query`
  that conflict with its expression). Global options are not part of a command line
  in Dispatch; the timeout is chosen in OrgCli. `--files` in front of a subcommand of
  `query`, `--` between arguments and `--help` are left out.
* Members of a content item that the CLI does not read, beyond that they make no
  difference (`ToldApart`).
* What becomes of the server when a signal has ended the CLI: it finds its stdin
  closed and leaves, or not; that is outside the repository. What it may still do
  to the documents before is modelled.
* What `cargo test` does inside; a second signal, or one during cleanup; the
  building of the environment.
* The JSON that `org schema` prints of the registry (`serialize_*`): it renames
  each field once and decides nothing.
* stderr, which the child inherits; the documents behind the server.
* `server_has_tool`, which the binary never calls.

## 7. Plan

Done: all modules of section 2, and the theorems of section 4.

What is left is beyond the safety properties of one component:

1. The callers over real invocations: Agents uses the guards of Invocation. That each
   caller's run is an OrgCli with its own transport is an argument of this file, by
   `ImplementsInvocation`; a module of several OrgCli processes at one server would
   make it a theorem.
2. The weaker guard of `todo state --from`, composed as `edit body` is.
3. The steps of the liveness arguments that are safety: that the reader is never
   disabled while the pipe is full, and what a `send` that does not return waits for.
