# stmp2log in TLA+

stmp2log receives alert mails over SMTP, stores them in an append-only log,
classifies them, pushes notifications to channels (ntfy, Bark, mail, ...) and
to another stmp2log, and serves all of it on a web page. This directory holds
TLA+ models of its stateful parts and of its algorithms, the TLC runs that check
them, and proofs checked by TLAPS. Paths below are relative to `src/`; `retry.rs`
and the other files without a directory are in `crates/stmp2log/src/`, those of
the store in `crates/s2l-store/src/`.

## The system

| Part | State | Operations | What makes it correct |
|---|---|---|---|
| SMTP server (`s2l-smtp`) | per connection: greeting, login, envelope; a semaphore for connections; the current configuration | SMTP commands, DATA, STARTTLS; `set_runtime` | envelope and login never leak across RSET, DATA, STARTTLS; 250 only for what was queued; the size limit |
| Intake (`pipeline.rs` run, ingest, accept_push) | a channel of 256 messages | take one, parse, filter, classify, store, start a notify task | each accepted message is stored once, in order; nothing rejected is stored |
| Log store (`s2l-store` lib.rs, seg.rs, rec.rs) | segment files; index, next id, retention in memory, one mutex | open, append, delete, clear, set_group, set_retention; get, query, stats, attachment | what was acknowledged survives any crash; what was removed stays removed; bodies are where the index says; ids are unique |
| Queries and matching (`query.rs`, `match_.rs`) | none | filter, page, glob, rules | agrees with the meaning of the patterns |
| Notify tasks (`pipeline.rs` notify, forward, enqueue) | one task per message; cooldowns; a log of the last notifications | deliver with several attempts, queue on a retryable failure | no alert disappears between delivery and queue |
| Retry queue and flusher (`retry.rs`, `pipeline.rs` run_retry, flush) | a deque, two `Notify` permits, a counter; the backoff | push, trim, pop, requeue, kick, recovered | no lost wake-up, one holder per alert, bounded memory, every alert ends |
| Configuration (`state.rs`, `config.rs`, `api.rs`) | `state.json`, `config.ini`, their copies in memory (`ArcSwap`) | mutate, put_settings, regroup | no lost update; file and memory agree |
| Web sessions (`s2l-web/auth.rs`) | nonces, sessions, failures, one mutex | challenge, login, verify, logout | a nonce is good for one login; bounded tables; the throttle |
| Web server (`s2l-web/server.rs`) | one broadcast channel; per stream a place in it | route, check the token, `stream_events` | a slow page is told what it missed |
| Mail client (`s2l-notify/smtp.rs`, `lib.rs` deliver) | one dialog; the attempts of a delivery | greeting, EHLO, STARTTLS, AUTH, envelope, body; retry | encryption is not given up silently; an attempt's result is true |
| HTTP notifications (`http.rs`, `providers.rs`) | none | build, exchange, redirect, dechunk, check | "delivered" means that the service took it |
| Mail parser (`s2l-mail/parse.rs`) | none | headers, words, parts, encodings | reads what mailers write |
| Compatibility TLS, start-up, logging | a library's, or none | | tests, not models |

**How they interact.** A connection task hands a message to the intake through a
bounded channel without waiting (`try_send`: 451 when it is full). The intake
takes messages one by one, stores each on a blocking thread and starts a notify
task. Notify tasks share the retry queue with one flusher and with API requests
that change its limit or kick it. API requests change configuration that all
tasks read through `ArcSwap` snapshots, so a task may work with one that is no
longer current. The store is behind one mutex. The runtime is multi-threaded
(`main.rs:148`), so everything else interleaves.

**What is hard here.** (1) The retry queue: three kinds of actors, a mutex that
is let go of between the change, the signal, the count and the log, and two
permits. (2) The store: deletions, evictions and regroupings are lines in
whatever segment is current, segments are unlinked whole, and a crash may come
between any two writes. (3) Read-modify-write of the configuration without a
lock, through one temporary file. (4) SMTP sessions whose clients pipeline,
stall, vanish or change to TLS, and a mail client on the other side that must
tell an accepted message from a refused one. (5) Bounded tables in memory that
displace somebody. (6) Texts that are written by one part and read by another.
All hazards, with their lines, are in `PROJECT.json`.

## Modules

| Module | What it is |
|---|---|
| `AlertLedger` | abstract: what the retry machinery promises about each alert |
| `RetryQueue` | detailed: queue, notify tasks, flusher, settings requests; `RetryQueueProofs` its theorems |
| `LogStore` | the store's files and memory, with crashes; `LogStoreProofs` its theorems |
| `SmtpServer` | accept loops, dialog, login, DATA, STARTTLS, the channel to the intake |
| `MailClient` | the dialog with which stmp2log mails an alert, and its attempts |
| `Intake` | what becomes of an accepted message; pushes between nodes |
| `MailPath` | `SmtpServer`, `MailClient` and `Intake` composed; `MailPathProofs` and `MailDeliveryProofs` its theorems |
| `ConfigState` | API requests, state file, settings file, groups of messages, restarts; `ConfigStateProofs` its theorems |
| `WebAuth` | nonces, sessions and the throttle of the web login |
| `Lists` | what `retain` leaves of a list; `ListProofs` its theorem, used by the other proofs |
| `EventFeed` | the stream of new messages to the web page |
| `Console` | `WebAuth` and `EventFeed` composed; `ConsoleProofs` its theorems |
| `Matching` | conditions, glob, access list, classification (pure) |
| `Queries` | filter, order and pages of the store's query (pure) |
| `ConfigFile` | reading, changing and writing `config.ini` (pure) |
| `Replies` | HTTP notifications from the request to the verdict (pure) |
| `MailText` | writing and reading mails (pure) |
| `Questions` | puts questions to `Matching`, `Queries` and `Replies`; `QuestionProofs` its theorems |
| `Texts` | puts questions to the other pure modules as well |
| `MC...` | the instances of these for TLC |

Operators marked "Slip" are wrong variants of the definition that follows them.
Nothing uses them; they say which mistake each property is there to notice (the
pairs are listed under "mutants" in `PROJECT.json`).

### RetryQueue

An alert is one message for one target, with a notify task of its own. (In the
code one task serves its targets in turn; separate tasks allow every order of
those and more.) A step is what happens between two uses of the queue's mutex,
of a `Notify`, of a snapshot, or of an await:

| Code | Actions |
|---|---|
| `notify`, `forward` | `Begin` (configuration snapshot), `Deliver` (one attempt ends) |
| `enqueue`, `Queue::push`, `record` | `LoadLimit`, `Push` (under the mutex), `Signal` (count, `notify_one`), `LogQueued` |
| `put_settings`, `trim_retry`, `Queue::trim` | `StoreLimit`, `Trim` (under the mutex), `LogTrim` |
| `retry_now`, `kick` | `Kick` |
| channels deleted, disabled, enabled | `EditChannel` |
| `run_retry`, `wait_for_work`, `wait_backoff` | `CheckEmpty`, `WorkArrives`, `BackoffEnds` |
| `flush`, `pop`, `send_queued`, `requeue` | `Pop`, `Drained`, `LookUp`, `Resent`, `GiveUp`, `Requeue` |

A `Notify` used with `notify_one` and one waiter is a permit: `work` and `up`
are Booleans. The network is external: an attempt is accepted, accepted with
the answer lost, retryable, or refused (`deliver`, `PushError::retryable`). The
clock is abstracted: `At` orders the alerts and a sleep ends at any moment.

`LedgerKept` is the refinement: `fate`, `limited`, `received` and `lostAnswers` of
`AlertLedger` are functions of `RetryQueue`'s state (`Fate`, `Ledger`), and TLC
checks that every step is a step or a stutter of the ledger.

### LogStore

`disk` maps a segment's number to its lines, how its meta file ends, the length
of its body file and the messages in it. Every operation holds the mutex, so
one is in progress at most (`op`), and each write is an action of its own so
that `Crash` can come in between: `TakeId`, `WriteBody`, `WriteMeta` for append;
`Delete`, `Clear`, `SetGroup`, `SetRetention` change the memory and leave lines
for `WriteLine`; `DropSegment` and `EndReclaim` are reclaim; `Open` is
`Store::open`, whose reading of the files is the operator `Replay`. A crash is
the end of the process: what was written stays in order, and `RolledOnly` covers
a segment made for a write that never came. Loss of writes by the
operating system, and file system errors, are not modelled. `Tears` says how else
a crash can leave the line it interrupts: cut in the midst, cut in the midst of a
UTF-8 character, or without its newline (`Tails`, `TornOff`). Nothing repairs such
a tail: `Written` says what the next line becomes. The clock is abstracted: with
`ByAge` the age limit may evict any number of the oldest messages.

### SmtpServer, MailClient, Intake, MailPath

A session is one task; one line read, acted on and answered is one step. A line
is a member of a small vocabulary, and a sender or a recipient is the number of
the line it came in, so that a message shows which commands made it.

| Code | Actions |
|---|---|
| the accept loop, `set_runtime` (`s2l-smtp/lib.rs`) | `Accept` (a permit, the configuration of the moment, or 421), `SetRuntime` |
| the peer and the network | `DeviceSends`, `HangsUp` |
| `run` (`session.rs`): EHLO/HELO, RSET, NOOP/VRFY/HELP/blank/unknown, QUIT | `Hello`, `Reset`, `Nothing`, `Quit` |
| MAIL, RCPT, DATA | `Refuse530`, `MailFrom`, `RcptTo`, `BadAddress`, `Data` |
| `handle_auth`, `read_auth_line` | `AuthAsks`, `AuthAtOnce`, `AuthAnswer` with `Conclude` |
| `read_data` and what follows it | `BodyLine`, `FinalDot`, `Deliver` with `Verdict` |
| STARTTLS, `accept_tls`, `handshake_failed` | `StartTls`, `HandshakeDone`, `HandshakeFailed` |
| end of file, timeouts, errors of a read | `EndOfInput`, `Timeout`, `ReadError` |
| `deliver` (`s2l-notify/lib.rs`), `send`, connect | `Dial`, `DialAgain`, `Connected`, `NoConnection`, `OutOfTime` |
| `converse` (`smtp.rs`) | `Greeted`, `Helloed`, `HelloRefused`, `HelloAgain`, `TlsGranted`, `Upgraded`, `NotUpgraded`, `LoggedIn`, `ToRecipients`, `Body`, `Dot`, `Accepted`, `Finished`, `Refused`, `EndOfAnswers` |
| `Pipeline::run`, `ingest_from` | `Take`, `Ingest` (`Stored` or `SetAside`) |
| `forward`, `send_queued` of pushes | `PushNowhere`, `PushFails`, `PushRefused`, `PushAgain` |
| `accept_push` of the far node | `PushArrives` |
| `put_settings` of `push_url` | `SetPushUrl` |

How much of the input the `BufReader` holds matters at STARTTLS only, so
`StartTls` chooses there how many of the following lines had been read ahead.
What an access list says, whether the disk takes a message and whether a push
gets through are choices. The mail client's connections and the devices' share
the server. A handshake is one step of both ends.

### ConfigState

| Code | Actions |
|---|---|
| `mutate` with the handlers of groups, channels, rules, the access list | `Mutate` (load, edit a copy, 404), then `Open`, `Write`, `Rename` (`State::save`), `StoreState` |
| `delete_group` after its `mutate` | `Find`, `Ungroup` |
| `regroup` | `Regroup`, `FindAll`, `Sort` |
| `set_group`, `delete_one`, `bulk_delete` of messages | `SetGroup`, `DeleteMessages` |
| `put_settings` | `PutSettings`, `Open`, `Write`, `Rename` (`config::update`), `SetRuntime`, `StoreSettings`, `SetRetention` |
| `ingest_from` (classification) | `TakeMessage`, `StoreMessage` |
| `State::load`, `config::load` after a crash | `Restart` |

A request occupies a worker thread until it awaits something, so at most
`Workers` are between two such points at a time. An inode is a value of its own:
two requests that opened the same temporary file write the same inode, and a
rename moves whatever it holds. A file that is being written is `Torn`. The handlers'
`retain` is that of `Lists`. A rule names any channels of `NamedUses`, there or not, as
`add_rule` and `update_rule` store what they are given; `dead` notes which of them had
been deleted by then. `set_group` stores any group, too; `astray` notes the messages
whose group nobody looked up.

Of the message store there is the `group` of each message and, in `lines`, every group
a line on disk ever gave it. Lines go with the segment they are in (`StoreComesBack`),
so `Restart` may find any of them to be the last (`Found`), of deleted messages too.
Which of them it can be is for `LogStore` to say. Messages that the store evicts, or
loses with a torn line, name no group any more; deletions stand for that here.

### WebAuth, EventFeed, Console

Each operation of the login holds the mutex and is one step: `Challenge`,
`LoginBarred`, `LoginBadNonce`, `LoginBadProof`, `LoginWorks`, `Use` (`verify`),
`Logout`, `Tick`. The tables are lists by age (`Retain` of `Lists` takes elements out),
and the elements they displace are those the code looks for. `random_hex` may return the empty string. A console
without a password, where `verify` says yes to all, is not modelled.
`EventFeed` has `Announce`, `Subscribe`, `Recv` (an event, the number of those
gone, or a keepalive), `Written` and `WriteFails`; the broadcast channel is
tokio's and external. In `Console` a stream checks its token once, when it opens.

### The parts that only compute

`Matching`, `Queries`, `ConfigFile`, `Replies` and `MailText` are operators that
follow `match_.rs`, `query.rs`, `config.rs`, `s2l-notify` and `s2l-mail`, each with
a statement of what it is for next to it: `Glob`, its loop pass by pass, against what
the pattern says (a text parts into one piece for each character), the place a message gets at the intake against the one a regroup gives
it, pages against the list, a settings change against what a restart reads, the
verdict about a reply against what the service did, what is written into a mail
against what is read from it. Letters are members of small alphabets; case folding
is `Lower` on two of them, and a byte of a mail is a number.

`Preview` is `preview_of`: the lines without blanks around them, the blank ones left
out, joined with a blank and cut with a mark. `Exchange` reads a reply to the end of its
connection, whatever the reply says of its length, so a connection is ended, broken
off, or left open until the time is up (`Ends`). `Parse` is `parse` with what a page
shows for a mail without a text (`HtmlToText`), and with the panic of `percent_decode`.
A number above 255 stands for a name that is written out in a mail; tags that do the
same share one (`Br`, `Td`, `Script`), and three of the seven entities stand for all.

## Runs

| Run | Shows | Bounds |
|---|---|---|
| `RetryBacklog` | `TypeOK`, `OneHolder`, `QueueBound`: no interleaving loses or doubles an alert; the limit is exceeded by one at most | 3 alerts of different ages, 2 targets, limit 1 |
| `RetrySettings` | `NoLostWakeup`, `DroppedIsExact`, `OrderedUnlessTried`, `LedgerKept`: the wake-up, the counter, the order, the refinement | 2 alerts, 1 settings request, limits 0 and 1, one lost answer each |
| `RetryLiveness` | `BacklogIsRetried`, `EveryAlertSettles` | 2 alerts, limit 0 or 1 |
| `RetryHeadOfLine` | violated: an unreachable channel at the front blocks the others (`readme.md:124`) | 2 alerts, no limit |
| `StoreSafe` | `TypeOK`, `NoLoss`, `BodyThere`, `EvictionIsFinal`, `IdsNotReused` | 3 messages of 1 or 3 units, segments of 3 units or 2 records, 2 entries kept and any number evicted by age, 2 edits, 2 crashes |
| `StoreTorn` | `TornLineCostsTwo`, every way to tear a line, also twice | 5 messages of 1 unit, up to 4 kept, 1 edit, 2 crashes |
| `StoreComesBack` | violated: unlinking a segment undoes deletions and regroupings written in it (tests at `s2l-store/src/lib.rs:738` and `:768`) | 3 messages, 2 edits, no crash |
| `StoreOversize` | violated: attachments larger than a segment never get stored (`readme.md:93`, `:107`) | messages of 1 and 4 units |
| `Mail` | `EnvelopeOfOneTransaction`, `LoginOfThisSession`, `PlaintextStaysOut`: what a message is made of; `NoDowngrade`, `AttemptsTellTheTruth`: the mail client; `StoredInOrder`, `NoForwardingLoop`: the intake and the pushes; `SlotComesBack`: connections end | 1 device with 4 lines, 2 attempts of the mail client or 1 with implicit TLS, 2 permits, a channel of 1, 2 recipients, messages of 1 line, 2 nodes, 1 lost answer |
| `Config` | `EditsStay`, `TornNeedsOverlap`, `IdsKeepTheirMeaning`, `GroupsOfMessagesExist`, `SettingsAgree`: what edits, files and ids can lose, and to what only | 3 requests of 16 kinds, 2 named ids, rules for 2 channels, 2 workers, 2 messages, pages of 1, 1 crash |
| `Console` | `OneSessionPerNonce`, `GuessesSlowDown`, `ChallengeHolds`, `SessionsLast`: the tables and the throttle; `NoSilentGap`: a slow page | tables of 2, a clock of 3, 3 nonces and tokens, 1 blank, a channel of 1, 2 events |
| `Text` | `SameVerdicts`, `PagesCoverOnce`, `SettingsSurvive`, `RepliesJudged`, `MailReadsBack` | 52 749 questions, listed in `MCTexts` |

**Why the bounds are enough to be interesting.** Limit 1 with three alerts makes
every push on a full queue evict and lets an entry be put back on a queue that
filled meanwhile. Two alerts are the fewest for which order, eviction of
oneself and of another, and a race of two pushers exist; three put an alert
between the two. One settings request overlaps with every step of the tasks.
`MaxDelay = 2 * FirstDelay` reaches the ceiling after one doubling, as the code
does after four. In the store, three messages in segments of two records make
the store roll over, empty a segment and unlink it; two crashes cover a crash
while recovering from one (`Open` itself evicts and writes).

In `Mail` four lines are enough for a login and an envelope, an envelope before
and after a reset, a message and the next one, or STARTTLS with a line behind it;
two permits let the mail client come while a device is served and be turned away
while two are; a channel of one is full as soon as one message waits. `Ahead`
names the pairs of lines a device pipelines: those where it matters that the
second was sent before the first was answered. So that not every dialog is crossed
with everything else, devices say less when the mail client dials (`FewLines`) and
where pushes are on (`PushLines`, `PushWords`), and settings change while no
connection is open: one that is open has read what it uses of them, so a change
commutes with its steps. In `Config` three requests are the fewest of which two
overlap and a third finds the result; a page of one with two messages is one the
limit cuts off. Two ids are the first two that are given out, so a request may name a
group, a channel or a rule that is there, that is gone, or that is something else; more
ids to name only add requests that are answered 404 or point nowhere. In `Console` tables of two hold an older and a younger entry, and
a third displaces one; the clock passes every limit of time. It has one address and a
longest wait of 1, so that the wait grows with each failure, and that one address does
not count for another, rests on `GuessesSlowDownHolds`. `RetryBacklog` never changes its
limit: that a limit read before it changed is kept to is checked by `RetrySettings` and,
for the bound, proved in `BoundTheorem`. The questions of
`Text` are all texts up to a length over an alphabet that has each letter the code
treats differently; the mails with parts are trees of up to two levels, with texts,
pages, attachments and names of each sort.

**Symmetry.** `Config` treats requests alike (`Alike`): nothing compares them, all
start alike, and only invariants are checked. No other run uses symmetry.

**Deadlock** is not checked: a store that reached the bounds, or whose
`ensure_open` does not return, has no next step, and an idle queue waits for
mail; connections and requests are used once, so `Mail` and `Config` come to an end;
in `Console` the clock, the nonces and the events run out; in `Text` one question is
asked.

**Fairness.** `RetryQueue!FairSpec` is weak fairness of each notify task, of a
settings request that has begun, and of the flusher: the runtime polls a task
that is ready, a sleep ends, and every attempt has a timeout. Users
and the network owe nothing. `EveryAlertSettles` additionally assumes
`NetworkRecovers` (strong fairness of an attempt that is not answered "later"),
as a premise of the property and not of the specification. `LogStore!FairSpec`
is weak fairness of the thread that holds the mutex. `MailPath!Fairness` is weak
fairness of the task that serves a device's connection: it is ready when there is
a line, and every read of the dialog has a timeout (`session.rs:125`). The TLS
handshake has none (`lib.rs:304`), and nothing is assumed of it: `SlotComesBack`
speaks of the dialog only. The writes of a session have none either: a peer that never
reads its answers can hold a permit for as long as its connection lasts, which this
fairness passes over.

## Proofs

The theorems hold for every value of the constants; TLC checks the same formulas
on the instances above. Only the named assumptions of the modules are used.

**The retry queue** (`ConstantsAssumption`; any finite or infinite set of alerts, any
channels, limits, ages, delays and number of requests). `RetryQueueProofs`:

- `TypeCorrect`: `[]TypeOK`. `TypeOK` alone is not inductive: `TypeInv` adds
  that a thread between reading a limit and applying it has one (`LimitsRead`)
  and that the flusher holds an entry exactly when it looks one up or sends it.
- `WakeupTheorem`: `[]NoLostWakeup`, inductive together with `TypeInv`: a task
  that has pushed and not yet signalled is itself the promise of a permit.
- `BoundTheorem`: `[]QueueBound`. The bound counts the entry in hand, because
  pop and requeue move it without changing the sum.
- `OrderTheorem`: `[]OrderedUnlessTried`, with `Places`: what waits was pushed by
  its own task and waits once, so an insertion never meets itself, and what the
  flusher has settled leaves `tried` only when it has left the queue.

It goes on from there with `LedgerInv`: `TypeInv`, `Places`,
`StepsInv` (a thread has an eviction list only between its push or trim and its log
entry) and `Owned` (which of the places an alert is in, said place by place). The
actions are sorted by what they move (`Rests`, `SplitsOff`, `Records`, `Pops`,
`PutsBack`, `Settles`), and `Owned` is shown to survive each move.

- `OneHolderTheorem`: `[]OneHolder`, the five places exclude each other.
- `DroppedTheorem`: `[]DroppedIsExact`. `CountInv` says that the counted alerts are
  finitely many and as many as the counter says; an eviction list has no alert
  twice and none that was counted before.
- `LedgerTheorem`: `Spec => LedgerKept`, the refinement. `FateNow` reads the fate
  of an alert off the places `Owned` names, and each move becomes a step of the
  ledger or a stutter (`AsSettle`, `AsFail`, `AsResend`, `AsGiveUp`, `AsEvict`,
  `SilentStep`). A push with a limit of 0, read or set, evicts nothing.

**The log store** (`StoreAssumption`; any groups, sizes, limits and number of
messages, edits and crashes). `LogStoreProofs`:

- `TypesCorrect`: `[]TypeOK`, whether or not lines are torn, with the lines on disk
  (`DiskTyped`) and the operation in progress (`OpTyped`).
- `StoreInvTheorem`, `TornLineTheorem` (`[]TornLineCostsTwo`), however crashes tear
  lines. The invariant `Kept(V)` has a part said of the disk alone (`DiskInv`: all
  lines of a message that was never taken out name one segment, which has its body
  and a line of it after every deletion of its number, and no floor is above it), which
  a crash cannot disturb; a part that says memory agrees with it (`MemInv`); and one
  that says the operation in progress will write nothing that contradicts it
  (`OpInv`). Of the messages in `V` it asks less. An action leaves the lines alone
  (`SameLines`), adds one (`Grows`), unlinks a segment (`Shrinks`), or, on a torn tail,
  takes one off (`Cuts`), and `DiskInv` is shown to survive each, for every `V` that
  the lost line's message is in (`Lost`).
  `StoreInv` says that there is such a set of two parts. One has at most two
  messages per crash (`Costs`): it grows by the line a write to a torn tail takes off
  and by that write's own, and since that write ends the tail, the two can be charged
  to the crash that tore it; while the last segment is torn two are set aside
  (`TornLast`). The other has what was written to segments where a character was cut
  (`Spoilt`), which nothing bounds.
- `NoLossTheorem`, `BodyThereTheorem`, assuming that no line is torn (`Tears = {}`; of a
  torn line they are not true): then both parts are empty (`WholeInv`).

- `EvictionTheorem`, `IdsTheorem`, for `Tears = {}`, from `EvictInv`, which speaks of the
  time that nobody deletes by hand: the index is what the highest
  floor on disk leaves of the messages there (`Stays`, `MemEvict`), less what a
  floor still to be written takes. A reclaim runs only once a floor at least as
  high as all others is in the segment in use, which it does not touch (`OpEvict`), so
  nothing comes back; and what was taken out has a line left or a floor above it
  (`Remembered`), so open counts on from beyond it.

**The mail path** (`ServerAssumption`, `PathAssumption`, `PartsAssumption`; any number
of connections, permits, lines, attempts and nodes). `MailPathProofs`:

- `SessionsCorrect`, `OneTransaction`, `LoginIsTrue`: `SessionInv` says of every session
  that the envelope lies within its transaction (`Enclosed`) and that its user is one
  whose login was shown on this layer (`Known`). `MessagesInv` then follows a message
  from the session through the channel, the intake's hand, the shelf and the
  pushes, none of which changes the envelope.
- `PlaintextIsLeft`, `NeverDowngraded`: `WireInv` relates the two ends and the wire
  between them: a line on the wire is of the layer both ends are on (`SameLayer`), the
  ends agree where they stand (`Agreed`), and a client that insists has said nothing
  in the clear but EHLO and STARTTLS (`Guarded`).
- `TypesCorrect`: `MailPath!TypeOK`, with `TroubleInv`.

`MailDeliveryProofs`:

- `OrderTheorem`: `[]StoredInOrder`. A message carries the number of the line its body
  ended with, and its session has read on since (`BehindSessions`); so what a session
  accepts next comes after all that is on the channel (`SinkOrdered`), in the intake's
  hand and on the shelf (`ShelfOrdered`).
- `ForwardTheorem`: `[]NoForwardingLoop`. Only what came in by mail is pushed, and one
  push at most exists of a message (`PushesAreOfMail`); the copies that were pushed are
  as many as the lost answers, and one more only once the push is over (`Counted`).
  That a message is on one shelf once as mailed follows from the order.
- `AttemptTheorem`: `[]AttemptsTellTheTruth`. `AttemptInv` says of a connection that was
  not tried yet that nothing happened on it, of one whose attempt is over that what the
  attempt ended with is so (`Outcome`), and of the one in use how far the dialog is
  (`Talk`). Up to DATA it is the client's turn or the server's, never both (`InTurn`), so an
  answer belongs to the line said last, and after a 250 to a RCPT the session has as many
  recipients as the client counts. From DATA on the session has everybody (`AtData`), and
  the answer after 354 is the verdict on the message (`AtBody`). A connection that is
  `Silent`, without DATA on the wire or a body being read, makes no message any more,
  however the server empties it. What the server may do to a connection is put once, as
  `Does`, and what it answers as `Rules`.

**The configuration** (`ConfigAssumption`, with `None` no request, kind or inode, and as a premise `Marks`:
the marks `None` and `Torn` are neither a state nor settings; any number of requests, workers, messages
and restarts). `ConfigStateProofs` has `ConfigInv`, of three parts. `FilesInv`: the four
names are those of different inodes, what a request has open is never the other file
(`OpenApart`), and while requests for a file came one at a time the one under way finds
in the temporary file what it wrote (`Undisturbed`). There is always an inode to create
a file with: names take four, and each request on a worker one (`FreeInode`).

- `TornTheorem`: `[]TornNeedsOverlap`, with `StateWhole`. The formula alone is not
  inductive: a rename moves what the temporary file holds, and why that is whole is
  `Undisturbed`.
- `SettingsTheorem`: `[]SettingsAgree`, with `SettingsOnTheirWay`: the new settings are in
  the file first, and then get to the SMTP server, the memory and the store in that
  order.
- `IdsTheorem`: `[]IdsKeepTheirMeaning`. What a save may still put in the file is
  `Sources`: what the file is, what the temporary file has while a request is about to
  rename it, and the copies of the requests under way. No step adds to them but a
  request that begins, with an edited copy of memory, and a rename without rivals
  leaves its own copy alone. `IdsInv` says that an id that was given out is below the
  next one in all of them and in memory; and that who is about to give one out will give
  a larger one.
- `EditsTheorem`: `[]EditsStay`. By `EditsInv` the edit of a request that overlapped with
  no other is in the file and, once it got there, in memory (`EditKept`); and in all
  `Sources`, or a request is under way that undoes it. What an edit leaves of another
  one is `EditKeepsShown`, over what the handlers make of the lists (`EditFacts`): a rule
  that is written later can name a deleted channel again, but then it is among its
  `dead`.
- `GroupsTheorem`: `[]GroupsOfMessagesExist`. `OneState` says that a restart loads what is
  in memory, or the copy that is about to be, which lacks no group but the one the
  request deletes; `Sorted` says that the groups a sorting has seen are in memory or
  noted, and that a message is in one of these or waits for the deletion that will find
  it (`Waiting`). What a request put into a group that is not there, and what a restart
  found otherwise than it was, is `astray` until somebody looks the group up.

**The console** (`WebAuthAssumption`, `FeedAssumption`; any number of streams, events,
addresses, nonces and tokens, any limits). `ConsoleProofs`:

- `NoSilentGapHolds`: `[]NoSilentGap`. `FeedInv` counts a frame that is being written as
  told.
- `GuessesSlowDownHolds`: `[]GuessesSlowDown`. `ThrottleInv` says that what is counted
  of an address are its failures in a row, or nothing once the last is long ago; so
  the row that `hasty` judges by is the one `failed_too_often` judges by.
- `ChallengeHoldsAlways`, `OneSessionPerNonceHolds`: the nonces are in their order of age
  (`NonceInv`), a challenge that may still be answered has at most as many behind it
  in the list as came after it (`FairInv`), and the nonce of a session is not in the
  list any more (`SpentInv`).
- `SessionsLastHolds`: by `SessionInv` what is behind a token in the list was used or
  given out since the token was (`Followed`). When a full list makes room, the eldest
  has all the others behind it, which are different, and the new one comes on top.
- `TypesCorrect`: `Console!TypeOK`, from all of these.

They rest on `ListProofs!RetainPicks`: what `retain` leaves of a list are the elements
of the set, in their order, none of them farther from the end. `Retain` is a recursive
function instead of `SelectSeq`, of which the library has no facts; its recursion is
followed with the least number at which it would go wrong.

**Matching, queries and replies** (`QuestionsAssumption`: conditions have one of the
fields there are, groups and stored messages have ids of their own, times and ids are
numbers, a page may have one message at least, a script has an entry and a reply has a
status; any texts, patterns, mails, groups, stores, queries, notifications and scripts,
any number of attempts and redirects). `QuestionsSpec` asks one question out of any sets
of them; `Texts` extends it.
`QuestionProofs`:

- `GlobMeans`: the loop of `glob` ends, and says whether the text is what the pattern says.
  Without a star, whether the whole fits is whether the rest fits; with one, it is
  whether what follows the last star fits from `starHi` or a later place, and what has
  been compared since then fits at `starHi` (`LoopInv`, `WithStar`). So a star before
  the last need not be taken back. Each pass adds to `Height`, which has a bound
  (`HeightBound`): `Passes` are enough. The loop and the offsets are recursive functions,
  shown to exist by induction over the number of passes with `ListProofs!Downwards`.
- `VerdictsTheorem` (`[]SameVerdicts`): what a condition answers depends on its field only
  (`HoldsAlike`), and the targets of the intake and of the rules agree in all fields but
  those that `Asks` excepts (`RuleSeesTheSame`). For `regroup` the body is its preview: a
  text of one line without blanks around it is its own (`PlainPreview`), a word is in
  the preview of a text that fits if and only if it is in the text (`WordInPreview`,
  `WordInText`: nothing within a line moves, and no word reaches over a blank), and one is
  blank when the other is (`BlankPreview`). `Answerable` lists these conditions, and the
  group stays if all conditions are such (`GroupStays`).
- `PagesTheorem` (`[]PagesCoverOnce`): a message has its place in the list by how many come
  before it (`PlacesTaken`: everybody one, and each is taken). When the newest come
  first and only the oldest go, who was before a message that stays is still there, so
  its place does not come closer (`PlaceStays`); a page that does not show it ends before
  it (`BeyondThePage`). So it is always ahead of the next offset, where nothing is once
  a page is empty. That the oldest go is the premise `OldestGo`: `enforce` and `clear`
  take from the front of the index, where the time is not later unless the clock was set
  back. With the oldest first an eviction does make a reader miss a message, and so does
  a deletion by hand of what was already shown.
- `RepliesTheorem` (`[]RepliesJudged`): what has come of a reply in chunks (`Framed`) is a
  body only when all of it has come, and fails otherwise, whatever piece is the last
  (`DechunkMeans`). So a reply that is not an error has the status that was sent, and
  the fields if it came whole; only one without chunks can lack something unnoticed
  (`ExchangeMeans`, `Tells`); and one whose connection stays open is none. All exchanges of an attempt but the last have sent on, and
  the last too if the redirects were too many (`FollowMeans`); none of those is a
  verdict (`ForwardsIsNone`). So while the notification may be sent again no verdict has
  come (`TryInv`), and whoever sends one ends it (`VerdictEnds`).

**Only model-checked**: `SettingsSurvive` and `MailReadsBack`, which are about readers and
writers of texts: their definitions are recursive operators, which the prover does not
take, and what they compute is shown by induction over the text, which it cannot do for a
parser in general. Liveness, which is out of the prover's reach.

## What the code does not keep

Three runs end in a violation; `PROJECT.json` has the quotes. One unreachable
channel blocks the backlog. Reclaiming a segment undoes deletions and regroupings.
A message whose attachments exceed a segment makes `ensure_open` recurse without
end while the mutex is held.

What else the code does, met while modelling, is not against its documents; the
properties say how far it goes:

- `requeue` puts an entry back on a full queue; `QueueBound` allows one more.
- A text that has a `*` of its own where the pattern has one is compared letter by
  letter: `glob` does not match "\*ba" with "\*a" (`match_.rs:172`). `GlobAgrees`
  excepts texts with stars.
- A rule sees neither recipients nor headers (`Asks` in `RuleAgrees`), and a regroup sees
  no headers and the preview instead of the text, in which lines are trimmed and
  joined: a short body of two lines equals "a b" for a regroup and did not for the
  intake (`rec.rs:91`). `Answerable` names the conditions for which `StaysInGroup` holds. `regroup` and `delete_group` ask for all
  messages and the query returns 500 at most (`query.rs:67`): older ones keep
  their group (`past.left` of `GroupsOfMessagesExist`). `set_group` takes the id of any
  group (`api.rs:250`), and rules the ids of any channels (`api.rs:571`, `:586`): a
  channel that was deleted can be named again.
- `ini_safe` allows blanks and quotes at the ends that the file cannot hold
  (`Holdable`); a bare port overrides an address in a later line (`config.rs:409`,
  `OrderIsFree`).
- Two requests at once can lose an edit, give one id out twice, or leave a torn
  file; one at a time cannot (`EditsStay`, `IdsKeepTheirMeaning`, `TornNeedsOverlap`).
- A body that ends in a timeout or a hang-up is kept as a message on purpose (the
  test at `session.rs:1364`) and answered 250. A mail client that was suspended for
  longer than that limit would take the answer for the whole message, so "yes" in
  `AttemptsTellTheTruth` says that a message was accepted for all recipients, not how
  much of it. QUIT is inside the mail client's limit of time, so a message that was
  accepted may be sent again.
- An address whose handshake was refused is not offered STARTTLS any more
  (`tls_trouble`); a client that insists fails (`NoDowngrade`).
- A reply whose end is missing is judged by its status if it is not chunked; a
  redirect with 301 to 303 becomes an empty GET whose 200 counts (`Replies`). Neither
  Content-Length nor the last chunk ends a reply, only its connection (`http.rs:198`):
  a service that accepts a notification and leaves the connection open, though asked to
  close it, is a timeout, which is tried again (`http.rs:89`, `lib.rs:84`), so it gets the
  notification once per attempt. `NothingAfterTheVerdict` speaks of replies whose
  connection ends.
- `percent_decode` cuts two letters out of a text by their bytes (`parse.rs:423`), and
  panics when that is in the midst of a character: a name or boundary in the extended
  form with a percent sign, a letter and a wide character. `Cargo.toml:71` has
  `panic = "abort"` for releases, so the process ends there; a debug build logs it
  (`pipeline.rs:110`). `PartsAreFound` says that no other name does this.
- `forward` reads `push_url` when it sends, so a message may go to a target set
  after it came in.
- The message after a torn line is acknowledged but skipped at the next restart,
  and with it the one before, if only its newline was missing: two per crash at most
  (`TornLineCostsTwo`). Unless the crash cut a character: `read_meta` stops at a line
  that is not UTF-8 (`seg.rs:97`), so everything that segment is given afterwards is
  acknowledged and skipped at every restart. Torn lines also take deletions and
  floors with them; what that brings back is not bounded here.

## Plan

Done: `RetryQueue` with its abstract specification, its safety properties and the
refinement proved; `LogStore` with its theorems; the mail path, the configuration, the
console, matching and queries with their theorems; and the parts that read and write
texts. Next:

1. Orphaned bodies (`seg.rs:178`) together with the search in bodies, which would
   join `LogStore` and `Queries`.

## Not modelled

The compatibility TLS stack (a wrapper around a library: an end of a handshake in
`SmtpServer`), the parsing of HTTP requests, routing, compression and static files,
the fields of each provider's request and their signatures, addresses, dates,
the charset parameter and charsets other than UTF-8 in the mail parser, the text
templates of rules, their cooldown and the cap of the notification log, start-up
wiring, command line and logging. They keep no state that another part depends on,
or are formats that unit tests reach. Persistence of the retry queue and of the intake
channel: there is none, a crash loses what they hold, so there is no recovery to check.
Loss of writes by the operating system, and errors of the file system in the store.
