# Scrooge DLP: a TLA+ verification project

Scrooge DLP is a data-loss-prevention system: agents on workstations detect
sensitive data and enforce policies, a manager keeps the policies, pushes them to
the agents and collects the agents' events, and administrators work through a REST
API and a dashboard. This directory models the parts of the program in which
several actors share state across failures, checks them with TLC on small
instances and proves their main safety properties with TLAPS for every value of the
constants.

Paths below are relative to the repository; `grpc.rs` is
`crates/scrooge-manager-bin/src/grpc.rs`, `stream.rs` is
`crates/scrooge-agent-bin/src/stream.rs`, `policies.rs` is
`crates/scrooge-manager-api/src/handlers/policies.rs`.

## 1. Inventory

| Component | State it keeps | Operations | Where it is hard | What makes it correct |
|---|---|---|---|---|
| Policy tables and REST handlers (`policies.rs`, `migrations/…04_policies.sql`) | tables `policies`, `policy_history`; channel of `PolicyPushRequest` | create, update, rollback, delete, notify | several statements per request with no transaction; requests interleave; a request may be cut short; the channel drops when full | every row in force is on the audit trail; versions rise, up to the limit of i32 and but for requests that race; a version stands for one document |
| Policy distribution (`grpc.rs`, `stream.rs`) | `AgentRegistry`, session channels, `policy_assignments`, policy files on the agents | Stream accept, initial push, broadcast bridge, acknowledgement, agent's `handle_inbound`, disconnect | two tasks push to one session; sessions break and overlap; late acknowledgements; restarts | acknowledgements are true; no update is missed; agents hold only audited policies; live sessions stay registered |
| Event pipeline (`scrooge-agent-bin/src/main.rs`, `scrooge-agent-core/src/queue.rs`, `event_uploader.rs`, `grpc.rs`) | detector channel, sqlite queue, batches in flight, table `events` | emit, enqueue, take, send, mark, insert | crashes and aborts between send and mark; batches repeated on a new session; failing transactions | at most one row per event; order; nothing skipped; the queue drains, although heartbeats and answers share its channels |
| Enrolment (`install.rs`, `grpc.rs` Enroll, `enroll.rs`, `state.rs`) | `enrollment_tokens`, `agents`, three files on the machine | issue, check, sign and insert, count, save, load | check-then-act on the token; crash between or inside the three writes | a running agent's files belong together and the manager knows them; identity is kept |
| Stream plumbing (`stream.rs`, `grpc.rs`) | backoff, heartbeat task, channels of 64 and 16 messages | connect, reconnect, heartbeat, shutdown | back-pressure in both directions | the backoff counts failures; a shutdown stops the agent; the two sides do not wait for each other |
| Commands (`agents.rs`, `grpc.rs`) | command channel | send_command, bridge | one bridge for all agents; an agent leaves meanwhile | delivered at most once, in order, to the right agent; none stays in the bridge |
| Dashboard authentication (`auth.rs`) | `users`, `refresh_tokens`, access tokens handed out | login, refresh, bearer check, bootstrap-admin | rotation is check-then-act; claims are signed statements after the row was read | a login has one usable refresh token; a disabled user is served only for a bounded time |
| Detectors (`scrooge-agent-linux`) | last clipboard, watched directories | poll, inspect, emit | full channel, merged notifications, a file that changes while it is read | a text on the clipboard is reported once; the last event about a file is true |
| Classifiers (`scrooge-agent-core/src/modules/classifier`) | none | Luhn, PESEL, NIP, IBAN | boundaries, separators, digits outside ASCII | agree with the standard's definition |
| Policy language (`scrooge-policy`) | none | parse, validate, compile, parse_size | defaults, number edges, what a scalar without quotes means | only well-formed policies are accepted |
| Policy editor (`static/policy-editor`) | mode, form, text, preview timer | open, edit, switch, validate, save, close | asynchronous answers out of order; two codecs that must agree with the manager's parser | what is stored is valid, under its own name and was on display; the form gives back what it was given |
| CLI, CA, configuration, crypto, pages, installer templates, placeholder crates | files, configuration | one-shot writes, rendering | | pure I/O or library calls |

Interactions: REST handlers notify the bridge through a bounded channel
(`try_send`); the bridge and the Stream handler share the registry and the
database; manager and agent exchange messages on one bidirectional stream per
session; agent tasks share the sqlite queue; everything survives a crash only in
PostgreSQL, sqlite or files.

## 2. Plan

Done, in this order, the most important behaviour first:

1. `PolicyStore`: tables and write handlers.
2. `PolicyDistribution` (extends `PolicyStore`): registry, sessions, pushes, acknowledgements, agents' disks.
3. `EventPipeline`, with the abstract `EventDelivery` it implements.
4. `Enrollment`.
5. Proof modules for the four.
6. `Classifiers`.
7. `AuthTokens`, with its proofs.
8. `StreamFlow`.
9. `Detectors` (extends `EventPipeline`).
10. `PolicyLanguage` and `PolicyEditor` (extends it).
11. Proofs of the versions (`PolicyStore_proofs`), of the registry and of the delivery
    of updates (`PolicyDistribution_proofs`), of a token's uses (`Enrollment_proofs`).
12. `StreamFlow_proofs`, `Detectors_proofs`, `PolicyEditor_proofs`.
13. The invariants that say what a computation returns: the doubled backoff
    (`StreamFlow_proofs`), the round trip of the editor's codecs
    (`PolicyEditor_proofs`), the regular expressions and check digits
    (`Classifiers_proofs`).

Every safety invariant and action property that a passing run checks is proved. Worth
doing next: the same conclusions from weaker hypotheses where the code allows it
(several handlers that work on different policies, for `VersionsAreUnambiguous`; the
agents whose session did not break late, for `SessionsStayRegistered`).

## 3. Modules

### PolicyStore

`policies` and `history` are sets of rows (name, version, content). A request is a
handler `r` with a program counter `pc[r]` and the row it is about to write
`arg[r]`; each action is one SQL statement, so that requests interleave between
statements exactly as on pooled connections without a transaction. `CreateCheck`
and `CreateInsert` are `create`; `UpdateRead`, `UpdateWrite` are `update`;
`RollbackFind`, `RollbackRead` and then the statements of an update are
`rollback`; `DeleteRow` is `delete_`; all four end in `HistoryInsert` (not the
delete) and `Notify`, the `try_send` on the bounded channel. `Abort` is a failing
statement or a dropped handler. Requests that the code refuses before they change
anything (invalid YAML, name taken, 404) are not steps. `DbVersion` and `Bump`
keep the code's i32 conversions; `I32Max` is a constant so that TLC, whose own
integers are 32 bits wide, can hold it. `Policy::validate` bounds no version, so
`YamlVersions` may have `I32Max` itself, from which `Bump` wraps, and more, which
`DbVersion` makes 1. `raced` is a history variable: the handlers whose row was written
or deleted after they read its version.

### PolicyDistribution

A session is `<<agent, k>>`. `link[s]` is the connection; the manager's inbound
task (`inbound[s]`) and the agent's reader loop (`reader[s]`) notice a broken one
independently (`InboundEnd`, `AgentClose`), so an old session may still be served
when the next one is open. With `"halfopen"` not in `Faults` the manager always
notices first. `OpenStream` is accept, register and spawn; `job[p]` is what pusher
`p` (the initial push of a session, or the bridge) is doing: `PushLoad`
(`load_pending_policies`), `PushMark` (one `mark_assigned`), `PushSend`
(`tx.send().await`, which waits for room). `BridgeRecv` and `BridgeVisit` are the
loop of `run_policy_push_bridge`. On the agent `AgentReceive` and `AgentApply` are
`handle_inbound`, one file at a time; `AgentAck` is the `tx_ack.send().await` of its
acknowledgement, which waits for room on the channel the heartbeats and event batches
use too. Both channels of a session, `up` and `down`, are bounded. `InboundAck` is
`mark_acked`; `AgentOther` and `InboundOther` are any other message of the agent, of
which a heartbeat has to be answered, and `InboundAnswer` is that answer
(`tx.send(HeartbeatAck).await`), during which the inbound task reads nothing;
`CommandSent` is another message on the way to the agent. `Traffic` says which of these
a run has. `ManagerRestart` keeps only the tables. `applied` is a history variable.

### EventPipeline and EventDelivery

`Emit`/`EmitTestEvent`, `Collect`, then the uploader's `Take`, `Send`, `MarkSent`
and `UploaderExit`, and the manager's `InsertBatch`. `SendOther` is a heartbeat or an
acknowledgement on the same channel; `InboundOther` takes it, and `InboundAnswer` is the
answer to a heartbeat, which may have to wait for room on the way to the agent; until it
is sent, no batch is stored. The queue is append-only and a
row's id is its position (`purge_sent` has no caller in the agent). A session that
breaks aborts the uploader wherever it is; a crash loses everything but the
queue. `EventDelivery` says what a reader of the table may rely on: a row is an
emitted event, an event has at most one row and keeps it. The refinement mapping
is `known <- emitted, table <- rows`.

### Enrollment

Attempt number `i` stands for the key pair, certificate, agent id and files that
belong to one Enroll call. `EnrollCheck`, `EnrollInsert` and `EnrollCount` are the
handler's statements; `SaveCert`, `SaveKey`, `SaveId` the three writes of
`AgentState::save`; `StartEnrolled` and `StartEnrolling` the two outcomes of
`AgentState::load`. A crash inside `fs::write` leaves a `Torn` file.

### Classifiers

Texts are sequences of character classes; `CardRegex`, `PeselRegex`, `NipRegex` and
`IbanRegex` say which substrings the four expressions accept, `FindIter` which of
them `find_iter` returns (leftmost, longest, without overlap, at word boundaries),
`LuhnCheck` … `IbanCheck` are the check digits as the code computes them, and
`ScanAll` is the registry. What the code computes along a text (the filter that drops
separators, a sum, the remainder modulo 97, the search for matches) is a function of
how far it has come: `Strips`, `Sums`, `Remainders`, `Finds`. The behaviours are a valid
number and a few edits of it. `Valid` defines the check digits the way the standards do:
the digit sum of a doubled digit, a weighted sum that is 0 with the check digit, the
whole IBAN as one number whose places have the values of `PlaceValues`.
`\d` of the regex crate accepts every decimal digit of Unicode, so the characters
include foreign digits of two, three and four bytes. The filter of a card number drops
them, after which `ScanCard` checks the length again, as the code does; PESEL and NIP
compute with ASCII digits only; the IBAN has no filter, and `iban_check` splits its text
at byte four: `IbanPanics` says when that byte is inside a character, and `ScanPanics`
when the whole scan ends so.

### AuthTokens

`login` is `LoginCheck`, `LoginStamp` and `IssueTokens`; `refresh` is `RefreshRead`,
`RefreshRevoke` and the same `IssueTokens`; each action is one statement, and a
handler keeps in `handlers[h]` what it read before. `Abort` cuts a handler off
between statements. `Tick` moves one clock for manager and database; `AlterUser` is
a change made in the database, `BootstrapAdmin` the command-line tool. `Accepted` is
the check of a bearer token, which looks nothing up. `lastGood` (when a user with a
role was last vouched for) and `raced` (logins of which two requests read the same
token) are history variables. Passwords, signatures and hashes are taken to work.
There is no logout in the manager: the dashboard forgets its tokens, and the
refresh token stays usable until it expires.

### StreamFlow

`phase[a]` is where `run_with_reconnect` of agent `a` is; `Connect`, `ConnectFails`,
`SleepOver`, `SessionEnds`, `StopSession` and `Shutdown` are its steps.
`ReaderTakes` and `ReaderAcks` are `handle_inbound`, `InboundTakes` and
`InboundAcks` the manager's inbound task, `SendCommand`, `BridgeTakes` and
`BridgeSends` the way of a command. Each direction of a session is one bounded
queue. What the queues carry for policies and events is modelled in
`PolicyDistribution` and `EventPipeline`; here the messages are told apart by who
has to answer them.

### Detectors

Extends `EventPipeline`: `ClipSend` and `FileSend` are its `Emit` with a content;
`Collected` and `Restart` contain its `Collect` and `Crash`. `ClipPoll` is one poll of the clipboard.
A file inspection is `FileMeta` and `FileRead`, so that the file may change in
between. `Notify` puts a path in the queue of notifications, merges it with an
equal last one or loses it when the queue is full. With `OpenReported` inotify may
report that the monitor itself opened the file. `Restart` starts the detectors that
can start (a clipboard or a directory may be missing). What a scan finds is given with
the content; the contents have no foreign digits, so that no scan panics
(`PlainTextsAnswered`), and the end of a detector's task by such a panic is not modelled
here.

### PolicyLanguage and PolicyEditor

`PolicyLanguage` is pure: a text (which keys the YAML has, and how each scalar is
written: bare, in double quotes as it stands, or otherwise), a policy (`ReadPolicy`, what
serde makes of it with the defaults, `Valid` what `validate` refuses, `parse_size` with
its width) and a form, with `formToYaml`, `parsedToFormState` and `listUnsupported` of
the dashboard. Strings are told apart by what YAML makes of them: `NotStrings` (null,
true, 123), a lone dash, a line break, a control character, an ordinary phrase.
`yamlString` writes some bare and the others in double quotes, without escaping more than
backslashes and quotes; `Content` is what YAML reads (a line break is folded), and
`InBrackets`, `OnLine` and `AsKey` say where it reads it at all. `Grain` is the distance
between two JavaScript numbers, which doubles at 2^53, 2^54 and so on up to 2^64;
`JsNumber` is the one `JSON.parse` picks, and `Printed` the decimal JavaScript prints for
it, the shortest that reads as the same number. `IsDocument` says what a text holds where
a codec computes with it.
`PolicyEditor` has the editor's fields as variables; a handler that waits for an
answer is a record in `calls`, answers come in any order or never, and what a
handler reads after an `await` is the field of that moment. `seen[c]` and `session`
are history variables.

`FormForgets` is the list of documents that the form calls friendly and does not
give back; `FormKeepsExactly` says that the list is complete and contains nothing
else. The documents are: a version other than 1; a disabled rule; a rule without
name; no rule at all (the form adds one); empty or null texts; a lone dash as a name, a
text or the value of a tag; a line break or a control character in any text; an empty
list in a source that requires one; a list of a source or destination with a bare number,
boolean or null; conditions without content; a size beyond 2^53 that no JavaScript
number has, or that JavaScript prints as a shorter decimal (a multiple of 1024 escapes
this: it is printed with a unit).

## 4. Runs

| Run | Instance | Shows |
|---|---|---|
| dist_all_faults | 1 agent, 2 sessions, every fault, create and delete | types (of the store too); `AckHonest` |
| dist_audit | 2 handlers of the four endpoints, POSTed versions the largest of i32 and one beyond, 1 session, failing file writes | `RowsAudited`, `DiskAudited`, `VersionRises` |
| dist_nothing_missed | 1 handler, 2 documents, POSTed versions 1 and one beyond i32, 2 overlapping sessions, restarts, channel of one slot | `NothingMissed`, `AckedIsWritten` |
| dist_clean_reconnect | 2 sessions, heartbeats and commands, both channels of one slot, fairness | `StillRegistered`, `PoliciesReachAgents` |
| dist_stale_disk (violation) | initial push and bridge, a session that breaks | `StaleIsPending` fails |
| events | 3 events, 2 sessions, every fault, heartbeats, fairness | types, `HandedInOrder`, refinement of `EventDelivery`, `QueueDrains`, `BacklogGetsStored` |
| enroll_faulty | 2 machines, one token, crashes, failing statements, torn writes, expiry; fairness | types, `RunningIsEnrolled`, `UsesAccounted`, `IdentityKept`, `EventuallyRunning` |
| auth | 1 user, 2 roles, 2 handlers, 3 refresh tokens, 1 change of the user | types, `AccessBounded`, `OneLivePerLogin` |
| stream | 1 agent, 2 sessions, 2 commands, an update of 2 policies, queues of one slot, fairness | types, `CommandsInOrder`, `BackoffCountsEnds`, `CommandsSettled`, `InboundAnswers`, `ShutdownStops` |
| detectors | 2 texts, 2 files, contents that are readable, unreadable and too large, 3 events, channel of one slot, a restart | types, `ClipboardReported`, `ClipboardOnce`, `FileLastWord` |
| editor | 2 policies, about two thousand sample texts, 2 waiting handlers, 3 calls, 2 edits | types, `NamesMatch`, `StoredIsValid`, `SavedWasShown`, `FormKeepsExactly` |
| classifiers | 5 numbers of the unit tests, 2 edits, foreign digits among the keys | `SlipsCaught`, `FormattedFound`, `ReportsAreNumbers` |

**Bounds.** Requests, sessions, attempts, failures, edits, calls, copies and writes
are capped by named constants (`Max…`); the last session a
bound allows does not break, so that runs end in a state the system can stay in,
and deadlock checking is off because a bounded instance may stop when its budget is
spent. Channel capacities are 1 or 2 so that full channels occur. Two handlers
suffice for a lost update, two sessions for an overlap, two pushers exist already
with one agent. In `events` one session breaks, which is enough for a batch that is repeated,
or extended by a newer row, while the manager still stores its first copy; three events
are enough for a batch that is cut at its limit of two. Agents share no state but the
policy tables and the bridge, which is why the distribution runs have one. In `editor` the factor between units is 16,
sizes wrap at 8192 and numbers are exact below 256 (for 1024, 2^64 and 2^53): enough
binary digits above 256 for numbers that JavaScript rounds (257), prints exactly (258) and
prints as a shorter decimal (552, for which it prints 550), and the samples reach both
sides of each bound. `stream` has one agent; its invariants
also hold, by TLC, with two (1.1 million states), where the liveness properties take
too long for a run kept here. In `detectors` three events are enough for the two
matches of a text and one file event, or a match and its repetition.

dist_nothing_missed leaves DELETE out: a policy that is deleted and created again
starts its numbering anew while the history keeps the old entries, so a version
number identifies a document only within one life of the policy. An acknowledgement
carries the number only. The delete cascades to `policy_assignments`, but an
acknowledgement still under way is recorded in the row that the push of the new policy
has made: `AckHonest`, which dist_all_faults checks with deletion and re-creation, is
therefore about names and numbers and says nothing of documents; `AckedIsWritten` is about
the document, holds without DELETE (dist_nothing_missed) and, by TLC, fails as soon as
DELETE is among the requests.

dist_audit POSTs the limit of i32 itself and one beyond it, which `DbVersion` makes 1.
`VersionRises` names the two ways a version falls or stays: the row changed between the
handler's SELECT and its UPDATE, or it had the largest version. Without either exception
TLC gives a counterexample of two PUTs at once, or of one POST and one PUT.

**Fairness.** Weak fairness of the tasks of both processes, of the stream's
delivery while it is up, of the reconnect loop, which never gives up
(`run_with_reconnect`), of the uploader's tick and of the service manager that
restarts the agent. In `StreamFlow` a send that waits for room is strongly fair:
several tasks send on one tokio channel, whose waiters are served first come, first
served; so are the sends on the channels of `PolicyDistribution` and the uploader's `Send`.
In `EventPipeline`, which has no reader, the answer to a heartbeat is fair outside a
circular wait: that it then goes out is what `InboundAnswers` of `StreamFlow` checks.
Nothing is assumed of requests, detections, heartbeats, commands, breaks, shutdowns, crashes and faults. `EventuallyRunning` also assumes that an administrator
issues the token. No liveness is claimed of the detectors, which may be kept busy by
their own notifications, nor of the editor, whose calls may stay unanswered.

**Exceptions stated by name.** `CircularWait`: the agent's reader waits for room for an
acknowledgement, the manager's inbound task for room for the answer to a heartbeat, both
channels are full, and each reads only after it has sent. Nothing in the code ends this
while the connection lasts. Every liveness property that uses a session excepts a session
that stays in it: `CommandsSettled`, `InboundAnswers` and `ShutdownStops` of `StreamFlow`,
`PoliciesReachAgents` of `PolicyDistribution` (the bridge that waits for room in that
session visits no other agent either), `QueueDrains` and `BacklogGetsStored` of
`EventPipeline`, where it shows as an inbound task that waits while the shared channel is
full. The last two also except `UploaderStuck`: after an sqlite error the uploader of a
session ends, and only the next session starts another.

**Findings.** dist_stale_disk shows a disagreement between a comment and the code, which
`PROJECT.json` quotes: an older policy can overwrite a newer one on the agent, and once the
acknowledgement is lost `load_pending_policies` never returns it, though it is documented
to return every policy whose current version the agent does not have.

Other behaviours of the code that a reader may not expect are exceptions that the
properties name, or lie outside the instance of a run; `PROJECT.json` lists them as hazards.
The following contradict a comment:

- two PUTs at once give two documents one version, and the first is lost, though an update
  "Bumpuje version w DB" (`policies.rs:342`);
- a PUT after a POST of 2147483647, which `validate` accepts, makes the version negative
  (in a debug build it panics);
- the acknowledgement of a deleted document counts for the one created meanwhile under its
  name and number, which is then pushed to that agent no more, though the record means that
  the agent has loaded it (`grpc.rs:320`);
- a foreign digit among the check digits of an IBAN makes `iban_check` panic, though other
  characters are answered with `false` (`iban.rs:94`);
- a size above 2^53 that is no multiple of 1024 may be written as another one, though
  `prettySize` is documented as exact (`yamlToForm.js:128`);
- null and texts with a line break come back from the form as something else, though
  `yamlString` is documented to quote safely (`formToYaml.js:170`).

The others:

- the end of an old session unregisters the new one when the manager notices it late;
- a token enrols as many machines beyond its limit as attempts overlap;
- events are marked sent before any manager has them, which the uploader's own comment
  accepts: `BacklogGetsStored` therefore speaks of the events that no session had been
  given when the lasting one opened;
- two refreshes of one token at once both succeed; one that is cut off between its
  statements logs the client out;
- the answer to a switch to the form replaces what was typed meanwhile, and the editor
  keeps no copy of the hidden sections that its dialog promises to restore
  (`PolicyEditor.js:231`; the field it fills is never read).

## 5. Proofs

Every theorem is for all values of the constants that satisfy the named
assumptions of the modules (`StoreAssumption`, `DistributionAssumption`,
`PipelineAssumption`, `EnrollmentAssumption`, `AuthAssumption`, `StreamAssumption`,
`DetectorsAssumption`, `LanguageAssumption`, `EditorAssumption`, `TextsAssumption`,
`ClassifierAssumption`). These say that bounds
and capacities are numbers, that the limits of the backoff and of the integers are in
their order, that machines have tokens, that "admin" is a role, that a placeholder
("none") is no name, machine or event and 0 no agent, and that the policies the editor
finds at first are documents the manager accepts under their names. `LanguageAssumption`
also says that the factor between units is a power of two up to 1024, that it divides
the bound of exact numbers, and that the width of sizes is twice their product
(1024, 2^53 and 2^64), `TextsAssumption` that the texts of the editor have the shape of a document, accepted or
not, and `ClassifierAssumption` that the seeds are numbers by the standards, written
alone and grouped as their kind may be. TLC evaluates all of them in the runs.

Some theorems have a hypothesis more, named in their statement:

- "abort" not in `Faults`: no handler is cut short between its statements. "db" and
  "write" are failing statements and failing writes of a policy file. A request that
  ends between its row and its history entry leaves the row off the audit trail, and
  an update whose notification or file is lost is owed to nobody until the next session.
- `OneAtATime`: at most one request is handled at a time, policies are not deleted, and
  every version that is POSTed leaves room for all requests below the limit of i32, which
  `Policy::validate` does not ask for. Each part is needed for the conclusion: two PUTs at
  once may reuse a version, a deleted policy starts its numbering anew, and `Bump` wraps
  at the limit. `VersionsRise` and `SystemVersionsRise` need none of it.
- "halfopen" not in `Faults`: the manager notices a broken session no later than its
  agent. Otherwise the end of the old session removes the new one from the registry.

The runs of the same properties satisfy these hypotheses, so none is vacuous; faults
that a hypothesis does not name may all occur. `VersionNamesContent` and
`SentWasHanded` are proved and have no run of their own: what they are for is checked by
`AckedIsWritten` and `HandedInOrder`.

| Theorem | Module | Argument |
|---|---|---|
| `StoreTypes` | PolicyStore_proofs | `StoreTypeOK` is inductive: one row per name because an INSERT needs an absent name and an UPDATE replaces the row |
| `RowsAreAudited` (no aborts) | PolicyStore_proofs | inductive with the types: a handler that has just written a row is at its history statement with that very row |
| `Types` | PolicyDistribution_proofs | inductive; the store part is a lemma about `HandlerStep`, reused |
| `AcksAreHonest` | PolicyDistribution_proofs | strengthened by: every positive acknowledgement in a session's queue is of a reference the agent has written |
| `DisksAreAudited` (no aborts, no restarts) | PolicyDistribution_proofs | strengthened along the path of a reference: pushers' batches, messages under way, the update being applied and the disk all hold only audited references |
| `PipelineTypes`, `UploadsInOrder`, `SentRowsWereHanded` | Detectors_proofs | `PInv`: rows handed are closed downwards, the uploader's batch extends them without a gap, and sent rows were handed |
| `PipelineDelivers` | Detectors_proofs | from `PInv`, which says that channel, queue and wires hold only emitted events and a row count is 0 or 1, every step is a step of `EventDelivery` or a stutter |
| `EnrollmentTypes`, `RunningAgentsAreEnrolled`, `IdentityIsKept` | Enrollment_proofs | `IInv`: the id file is written last, so its presence implies the other two, and an intact one those of its own attempt; a process that enrols has no id file; the handler replies only after the insert |
| `AuthTypes`, `AccessIsBounded` | AuthTokens_proofs | `Timely`: handlers act only for users they found enabled, and every access token ends within its lifetime of the moment its user and role were last vouched for |
| `RotationKeepsOne` | AuthTokens_proofs | `OnePlace`: the right to a live token of a login is in one row, or with the one handler that has revoked it and not yet inserted the next; `LoginsIssued` keeps a new login apart from old ones |
| `VersionsRise` | PolicyStore_proofs | no hypothesis; `FreshInv`: a handler that is to write and is not in `raced` holds the bump of the row that is there, and `Bump` raises every version but the largest |
| `VersionsAreUnambiguous` (`OneAtATime`) | PolicyStore_proofs | `VersionInv`: every entry of the history, and the row a handler is about to enter, is behind the current row or equal to it (`Past`), and no version is above `Ceiling`, so that `Bump` really raises it |
| `SystemVersionsRise`; `SystemVersionsAreUnambiguous` (`OneAtATime`) | PolicyDistribution_proofs | every step of the system, a manager's restart included, is a step of the store, or leaves the versions alone |
| `AcknowledgedAreWritten` (`OneAtATime`) | PolicyDistribution_proofs | what an agent has written belongs to the past of its policy (`Past`), so a number equal to the current version stands for the current document; `AckHonest` gives the number |
| `SessionsStayRegistered` (no "halfopen") | PolicyDistribution_proofs | `RegistryInv`: a session that is up is served, at most one session of an agent is served, and that one is in the registry |
| `NoUpdateIsMissed` (`OneAtATime`; no "abort", "db", "write") | PolicyDistribution_proofs | `DeliveryInv`: for every connected session and every row in force, the agent has written it, or it is `Due` from a request, the channel, the bridge's visit, a pusher, the wire or the reader; all references on their way belong to the past (`Past`, from `VersionInv`), so an acknowledgement of the current version is of the current document, and what `load_pending_policies` leaves out needs no push (`AckHonest`) |
| `StreamTypes` | StreamFlow_proofs | inductive |
| `CommandsArriveInOrder` | StreamFlow_proofs | `OrderInv`: what was handed to sessions is below the command in the bridge, that one below those in the channel, those below the ones still to be accepted; within a session what the agent has received is below what is on its way; and a queued command is for the agent that owns the session |
| `BackoffCounts` | StreamFlow_proofs | `BackoffFollows`: in a sleep the backoff is that of the attempts that ended before the last one, afterwards that of all of them, each time the doubled minimum cut off at the maximum |
| `UsesAreAccountedFor` | Enrollment_proofs | `UsesInv` counts, per token, the attempts that are past the count and the abandoned ones whose handler still runs; a crash (one of `failures`) pays in advance for the attempt it abandons, because the handler of a machine that died may still insert and be dropped before it counts |
| `DetectorsFeedThePipeline` | Detectors_proofs | every step of the detectors is a step of `EventPipeline` or leaves its variables alone, hence `PInv` holds here too |
| `DetectorsTypes`, `ClipboardIsReported`, `ClipboardIsReportedOnce`, `LastWordIsTrue` | Detectors_proofs | `DInv`: the matches of the last text are pending or events; reports of a text are bounded by its stays on the clipboard; an inspection with no further notification of its file waiting has read what the file is now |
| `EditorTypes`, `NamesStayMatched`, `OnlyValidIsStored`, `SavesWhatWasShown` | PolicyEditor_proofs | `EdInv`: a waiting handler's session is no later than the current one, and every session was opened by some call (`SessionsCounted`); for a save whose session lasts, the editor is shown under the name of the click and the text on display is among those it has seen (`SavesFollow`) |
| `RoundTrip` | PolicyEditor_proofs | for every accepted, form-friendly document, field by field: `formToYaml`, `ReadPolicy` and `parsedToFormState` give back the policy unless `FormForgets` names the document, and change or lose it if it does. For texts: what `yamlString` writes and `Content` reads (`Written`), on a line, in brackets, as a tag. For sizes: the unit `prettySize` picks divides the number; what is printed with a unit has at most one bit more than the exact numbers and comes back (`PrintedExact`), what is printed in bytes comes back as its shortest decimal (`PrintedIs`: one exists, since a number is a decimal of itself), and what the rounding changes the wrap of u64 does not undo |
| `FormKeeps` | PolicyEditor_proofs | from `RoundTrip` and `TextsOK`: every text stored, on display or in an answer under way is a document, and what a switch will show was accepted |
| `ChecksAreRight` | Classifiers_proofs | on every match, foreign digits included: what is left of it without separators, and for a card without foreign digits (`NumberIn`), is kept exactly when it is a number by the standard; a doubled digit above 9 minus 9 is its digit sum; the remainder taken character by character is that of the sum of the digits times their place values; a foreign digit that reaches a check fails it, or panics |
| `PlainTextsAnswered` | Classifiers_proofs | a match of the IBAN's expression without foreign digits has one byte for each of its first four characters |
| `ReportsNumbers` | Classifiers_proofs | a match is between two boundaries and `find_iter` never starts one before the last has ended (`Finds`, by induction on the place); `ChecksAreRight` does the rest. A card that is reported may have foreign digits inside, which the filter drops: the number is what is left |
| `NumbersFound` | Classifiers_proofs | `AloneRead`: in a text that is a number between separators, no match begins before it, and the longest that begins with it is the whole of it |
| `SlipsAreCaught` | Classifiers_proofs | a slip leaves the grouping as it was, so the edited number is the only match (`AloneRead`); it changes the sum by a digit's difference times a weight that is prime to the modulus, or by the difference of two digits times that of two weights. For an IBAN the weights modulo 97 are powers of 10, and the two digits may be the fourth and fifth, which the code moves to both ends: 10 has order 96 modulo 97, and an IBAN spells at most 66 decimals |

`VersionInv`, `OrderInv`, `UsesInv`, `DInv`, `EdInv`, `BackoffFollows` and `TextsOK`
were found with TLC: each was an invariant of a run on the instance of its component
before it was proved. `Classifiers` needs no invariant but its types: its theorems are
facts about every text, and therefore about every text the edits reach.

**Recursion.** The provers have no induction scheme that takes a predicate, so induction
is over sets: the least number outside the set of numbers for which a fact holds
(`Least`, and the greatest decimal of `PrintedIs`, from the well-foundedness of < on the
naturals). A recursive definition
f[k \in 0 .. n] is a CHOOSE, which has the value its equation asks for only if some
function solves the equation; `Recursion` in `Classifiers_proofs` builds one, and
`DoublingsDef` in `StreamFlow_proofs` does so for the backoff. No module with a theorem,
and none that it extends, declares a RECURSIVE operator.

Only model-checked: the liveness properties (`PoliciesReachAgents`, `QueueDrains`,
`BacklogGetsStored`, `EventuallyRunning`, `CommandsSettled`, `InboundAnswers`,
`ShutdownStops`), which rest on fairness, and what dist_stale_disk shows. Whether the regular expressions of
the model are those of the code, and `FindIter` what the regex crate does, is a matter of
reading, not of proof.

## 6. Not modelled

- Read-only endpoints (listings of events, agents and policies, history, downloads)
  and the columns only they read, such as those a heartbeat updates.
- Encodings: msgpack and the hash of a compiled policy (`compile.rs`), protobuf, the
  redacted text of a match, the layout of YAML.
- TLS and certificates beyond "which agent is this", the CA, password hashing,
  configuration files, logging: library calls and one-shot writes with no protocol.
- The installer templates (text substitution; the token they carry is issued in
  `Enrollment`), the `init-ca` and `migrate` commands, dashboard pages.
- `EventQueue::purge_sent`, which has no caller in the agent, and queue rows that do
  not decode, which `enqueue` never writes.
- The detectors' device control, network inspection and `execute_action`, and the
  placeholder crates: stubs that only log.
