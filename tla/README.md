# Prompt-Patrol: specifications

TLA+ models of Prompt-Patrol's stateful core, the TLC configurations that check
them on small instances, and TLAPS proofs of their main safety properties for
instances of any size: every safety invariant that a run checks is also a
theorem.  Paths below are relative to `src/apps/` unless they begin
with `src/` or `ml-training/` (which is `src/ml-training/`).

Contents: [the system](#1-the-system), [how the modules read the
code](#2-how-the-modules-read-the-code), [runs](#3-runs),
[bounds](#4-bounds), [fairness](#5-fairness), [proofs](#6-proofs),
[disagreements](#7-where-code-and-documents-disagree), [what is not
modelled](#8-what-is-not-modelled), [plan](#9-plan).

To repeat a run: `tlc -workers 2 -config BatchOne.cfg MCBatchPipeline`.  To
repeat the proofs: `tlapm BatchPipelineProofs.tla` (likewise the other modules
whose name ends in `Proofs`).

## 1. The system

Prompt-Patrol tells instructors how likely a text was written by a language
model.  An instructor submits one text or a CSV *batch*; a Worker scores a
batch's rows with the Detector; teaching assistants (TAs) work under the
instructors who supervise them; root admins manage the accounts.  Offline, a data
pipeline buys answers from model providers and builds a corpus, `ml-training`
fine-tunes two detectors on it, and a release puts both, with a threshold, into
the Detector.

| Component | State it keeps | Operations | Talks to |
| --- | --- | --- | --- |
| Batch API (`api/app/services/batches_service.py`) | `batches`, `batch_row_failures`, `cancelled_at` | create, progress, cancel | PostgreSQL, S3, SQS |
| Row queue (`infra/queues.tf`, `services/aws_clients.py`) | messages, visibility, receive counts, DLQ | send, receive, delete, purge by batch | external: Amazon SQS |
| Worker (`worker/worker/main.py`) | a page of messages, the row in hand | `poll_once`: receive, score, delete, drain the DLQ | SQS, PostgreSQL, Detector |
| Checks (`services/checks_service.py`) | `checks` | `create_check`, paged listing, `_decide` | PostgreSQL, Detector |
| Accounts (`services/users_service.py`) | `users`, `user_status_events` | deactivate, reactivate, delete, role, name, read | PostgreSQL |
| Supervision (same file) | `supervisions` | link, end, add a TA, end all links of a user | PostgreSQL, sessions |
| Provisioning (same file, `auth/management.py`) | a `users` row and an Auth0 credential | create, replace a stale credential, undo, delete | PostgreSQL, Auth0 |
| Sessions (`services/sessions.py`, `routes/auth_routes.py`) | `sessions`: two deadlines, `revoked_at` | create, touch, revoke, purge | PostgreSQL, Auth0, browser |
| Authorization (`auth/dependencies.py`) | none: reads role and status per request | require role, require active | sessions, accounts |
| Web client (`web/src`) | per tab: cached session, countdown, calls in flight | renew, warn, check at zero, tell other tabs | API |
| Detector (`detector/app`) | loaded models, warm-up state, a lock | score, health | API, Worker |
| Data pipeline (`data-pipeline/app`) | run folders, sheets, the corpus and its manifest, styled answers | buy answers, edit, filter, build, splice, attach | providers, files |
| ML training (`ml-training`) | adapters, scores files, settings | fine-tune, calibrate, release, compare | files, MLflow |
| Infrastructure, migrations, tests | deployment, files | - | - |

How the parts interact.  The API and the Worker share the database and the
queue, and nothing else: a cancel reaches the Worker only through
`cancelled_at` and through messages that are no longer there.  Deleting a user
is the widest operation.  It locks the user's row, revokes the user's sessions,
ends the user's links, signs out TAs left alone and cancels unfinished batches
in one transaction; then it removes the Auth0 credential, writes the row again
and purges the queue, each of which may fail by itself.  A row of `users` is
re-used when its address is invited again, so checks and batches that carry its
id are told apart by time alone (`reprovisioned_at`).  Offline, the tools meet
only in files: a tool reads what others wrote at any earlier time, and nothing
but the tool itself stops it from reading files of two different builds.  The
last file, the detector's `ensemble.json`, reaches the API's threshold by hand.

What is hard in it, component by component, and what makes it correct:

* **Batches.** Database commits and SQS calls are not atomic, messages are
  delivered at least once and in any order, and a Worker dies between any two
  steps.  Correct: no row of an accepted batch is lost or left pending, its
  counts overshoot by no more than the faults, and a cancelled or deleted batch
  stops producing checks.
* **Accounts, links, transactions.** READ COMMITTED transactions with three
  strengths of row lock run side by side.  Correct: a status changes only along
  `_ALLOWED_TRANSITIONS` and is audited, an account that is not active has no
  session, links join an instructor to a TA, and a TA without an active
  supervisor is signed out while others are spared.
* **Accounts, permissions.** A request decides on rows it read when it was
  authenticated.  Correct: somebody can always administer, reading and listing
  agree on who sees whom, and the next holder of an address inherits nothing.
* **Provisioning.** Two stores without a common transaction, compensations that
  may fail, and no lock per address.  Correct: account and credential exist
  together, an address has one live account, and a deleted account's credential
  never opens the next one.
* **Sessions and tabs.** Two deadlines, a sliding one written at most once per
  minute, and tabs that count down to what they last heard from the server or
  from each other.  Correct: no request is served after a deadline, a dead session
  stays dead, countdowns are honest, a person who is there stays signed in, and the
  client's own checks do not keep an abandoned session alive.
* **Checks and Detector.** Requests during the warm-up, callers that give up,
  pages over equal timestamps, thresholds fitted with other models.  Correct:
  nothing hangs, the pages show each check once, the promised rate of false alarms
  holds for what was released.
* **Paid generation.** Runs are stopped and killed, lines may be cut in half.
  Correct: nothing is paid for twice, the report keeps the folder's spend, every
  run ends.
* **Corpus and training.** Files of different builds lie side by side.  Correct:
  no question is trained on and measured on, also in other words; the epoch that
  was kept is the one that is scored and shipped.

`PROJECT.json` lists every component with its status, and every hazard at the
line where it bites with the properties that watch it.

## 2. How the modules read the code

| Module | Part | Composes |
| --- | --- | --- |
| `RowQueue` | the batches queue and its dead-letter queue | - |
| `BatchPipeline` | upload, Worker, cancel, the batches side of a user's deletion | extends `RowQueue` |
| `BatchContract` | what the batches API promises of a row; abstract | implemented by `BatchPipeline` |
| `Teams` | accounts, supervision, sessions' creation and revocation, transaction by transaction | - |
| `Directory` | who may read and change whom; stale reads of one's own row | - |
| `Console` | whose checks and batches an account finds | extends `Directory` |
| `Provisioning` | one email address in PostgreSQL and Auth0 | - |
| `Sessions` | rows of `sessions` in time | - |
| `WebSession` | the tabs of a browser | extends `Sessions` |
| `Metrics` | the operating point of a detector | - |
| `Experiments` | fine-tuning, calibration, release | extends `Metrics` |
| `Detector` | warm-up, lock, caches, refused settings | - |
| `Checks` | `POST /checks`, the verdict, the history's pages | extends `Detector` |
| `Scoring` | from an adapter to a verdict in the history | extends `Experiments`, `Checks` |
| `Generation` | the three paid, resumable runs | - |
| `Edits` | sheets, the edited set, the paraphrase filter | extends `Generation` |
| `Corpus` | corpus, styled answers, splices, extended set | - |
| `Evaluation` | training runs, scores files, tables | extends `Corpus` |
| `MC...` | values of the constants, symmetry | extend the above |
| `...Proofs` | theorems | extend the above and `TLAPS` |

An operator `X_Slip`, or `X_` with the slip's name, is `X` with a plausible
mistake; section 3 says what for.
### RowQueue

One message per valid CSV row, so a row names its message.  `place` says where
it is (`unsent`, `refused` by SQS, `queue`, `hidden` by its visibility timeout,
`dlq`, `dlqHidden`, `gone`), `receives` is `ApproximateReceiveCount`, `holder`
is the receiver with the latest receipt handle.  A receive returns any visible
messages; deleting with an old receipt may or may not work; `Redrive` is the
`redrive_policy` of `infra/queues.tf`.  SQS is external and modelled as its
callers use it.

### BatchPipeline

A step is one database commit or one SQS call: between two of them anything
else may happen, a crash included.

| Variable | In the code |
| --- | --- |
| `submit[b]` | how far `create_batch` is: `parsing`, committed and `queueing`, `done`, or `dead` when the request ended in between |
| `cancelled[b]`, `checks[r]`, `failures[r]` | `batches.cancelled_at`; how many `checks` and `batch_row_failures` rows stand for the row (nothing in the schema ties a check to its row) |
| `live[u]` | the owner is not deleted |
| `worker[w]` | `pc` in `poll_once`, the page `hold`, the row in hand `cur` |
| `request[q]` | a cancel or a delete: its batches, what it holds, iterations left of `MAX_CANCEL_DRAIN_ITERATIONS` |
| `faults`, `late` | how many faults so far; history that only properties read |

`Submit`, `CommitBatch`, `EnqueueRow`, `RefuseRow`, `FinishEnqueue` are
`create_batch`; the rejected rows of the CSV are committed with the batch and are
a number, `Rejected[b]`.  `FinishEnqueue` records the rows whose send raised: the
refused ones, and any that SQS had taken although its answer was lost, each of
which is a fault: the row is on its way and may be scored by then.  `CancelBatch`,
`PurgeReceive`, `PurgeDelete`, `EndPurge` are `cancel_batch` with
`purge_batch_messages`; `DeleteOwner` and `SelectCancelled` are the batches side
of `delete_user`.  `ReceiveRows`, `ReadRow`, `StoreCheck`, `StoreCancelled`,
`RaiseRow`, `AckRow` are `poll_once` and `process_message`; `ReadRow` decides on
the `cancelled_at` it reads and `StoreCheck` comes after the Detector's answer. 
`ReceiveDlq`, `RecordDlq`, `BreakDrain`, `AckDlq` are `drain_dlq_once`, which uses
one session for a whole page.  A Detector call that fails (`RaiseRow`) is not a
fault but a choice, available every time; crashes, commits that raise and messages
that reappear while somebody works on them are faults and bounded by `MaxFaults`.

### BatchContract

No queue, page, receipt or crash: a batch is accepted, cancelled; a row of an
accepted, uncancelled batch is claimed by a Worker; a check is the end of such a
claim; a row is closed only with an outcome or in a cancelled batch.
`BatchPipeline` implements it under the mapping *accepted* = the committed
batches, *claims* = the row of a Worker that is scoring, *closed* = the rows
whose message is gone (`Contract`, `ImplementsContract`).  It is the shortest
statement of two promises: the decision to score precedes the cancel, and no
message is deleted before the outcome of its row is stored.

### Teams

`status`, `role`, `link`, `session` and `audit` are what has been committed.
`tx[q]` is a request in the middle of its transaction: what it has read (`from`,
`tas`), what it has written and nobody else sees (`ends`, `revokes`, `out`), and
where it stands.  Holding a lock is being in `Writing` with the row in one of
those sets.  Three locks matter and are told apart:

* `SELECT ... FOR UPDATE` of `_transition` (`ForUpdate`) keeps out other writers
  of the user and inserts whose foreign key names the user;
* the `UPDATE` of `change_user_role` keeps out other writers only;
* the `UPDATE`s of links and sessions keep out other writers of those rows.

`LockUser`, `RevokeOwn`, `EndLinks`, `SelectOut`, `Commit` are `_transition` with
`_revoke_sessions`, `_end_links` and `_sign_out_unsupervised`; `ReadRole` and
`WriteRole` lead `change_user_role` into the same tail; `ReadLink` and `EndOne`
do so for `end_supervision`.  `LoadTa` ... `InsertLink` are `link_supervisor` and
`add_teaching_assistant` of an existing TA, in the order each reads its two
users.  `ResolveUser` and `CreateSession` are the OAuth callback, `ReadSession`
and `RevokeAll` are sign-out everywhere.  `Abort` is any rollback, PostgreSQL's
choice of a deadlock victim included; a request that PostgreSQL makes wait is one
whose action is not enabled.  `since[q]` records what others committed while `q`
was in its transaction, so that a property can say "unless it raced".

### Provisioning

One address.  `account` holds its `users` rows, `credential` the one credential
Auth0 keeps for it, `req[q]` a request between two awaits.  `ReadRows`,
`FindStale`, `Replace`, `Invite`, `InviteAgain`, `SendInvite`, `CommitRow`, `Undo`
are `_provision` with `invite_user`, whose attempts are counted (`tries`), because
Auth0 may refuse an address for a moment after its credential was deleted
(`settling`); `MarkDeleted`, `Refresh`, `DropCredential`,
`ClearSub` are `delete_user` after its own transaction (which `Teams` models).
`Auth0Fails` may have had its effect, `CommitLost` may have committed, `Crash`
stops a request anywhere.  A re-used row goes from deleted to active here, which
is the one status change outside `_ALLOWED_TRANSITIONS` and not in `Teams`.


### Directory and Console

`Directory` is what a request may do and to whom.  `users[u]` is the row of an
address, `request[c]` an open request with `self`, its person's row, and `team`,
the active supervisors, both as they were when `get_current_session` read them;
it acts later, on rows others have changed meanwhile.  `Authenticate` is the gate
of the route (`require_role`, `require_screening_access`), each other action a
service function: `Deactivate`, `Reactivate`, `ChangeUserRole`,
`UpdateDisplayName`, `MarkFirstLogin`, `LinkSupervisor`, `EndSupervision`,
`Invite`, `Stamp` (`reprovisioned_at` is taken once Auth0 has answered) and
`Provision` (the commit).  `Row(c, u)` is `_load_manageable`: for oneself the row the
session has read, for others the current one.  `GetUserById` and `ListUsers` are
the two ways to read a user, and `CanViewUser` and the query of the second are
two formulations of one rule (`ReadsAgree`).  What the transactions do inside is
`Teams`', what Auth0 does is `Provisioning`'s; here each is one step.

`Console` adds what an account finds: `checks`, `batch`, the Worker with one row
in hand.  A value written for holder *h* carries *h*, and `Late` when the account
was deleted or had changed hands by then.  `ParseAndValidate` is the CSV parser,
reduced to lengths of fields; `Owns` is `User.owns`, and `clock` moves with each
stamp of a re-used row only, as nothing else is compared with `reprovisioned_at`.

### Sessions and WebSession

`Sessions` is discrete time: `Outcome(s)` is what `authenticate_session` answers,
in the order it looks; `Authenticate` with `touch` moves the stamp when the last
one is at least `Resolution` old; `SignOutEverywhere`, `PurgeExpired`,
`Deactivate` are the rest of the file and its callers.  A sign-in takes two steps,
as the callback does (`routes/auth_routes.py:80-89`): `Admit` reads the status, `CreateSession`
inserts the row later without looking again.  `used` and `stray` are history: when
a request that counts as activity was last served, and which rows were inserted
while the account was off.

`WebSession` is the tabs of one browser over it.  `SignIn` leaves for Auth0,
`Arrive` comes back with the cookie.  A call goes out (`Sent`), is served at some
later instant (`ServeRead`, `ServeProbe`) and answered later still (`ReceiveRead`,
`ReceiveProbe`) or fails (`FailRead`, which may ask again as `queryClient.ts`
does, and `FailProbe`).  `PageRequest` is any other request of a page, with touch:
of a person, or of the page itself, which polls the detector's status and a
batch's progress whether or not somebody is there.  `tab[t]` is what the hook
keeps: page, cached session, deadline, `act` (last activity), `renewAt`, the flags
of the warning.  `Evaluate` is one pass of the timer: `Expire` asks with the probe
that does not touch, `Renew` refetches with touch, `Warn` shows or hides the
warning.  `Deliver` is a message of another tab. `Pass` is time, which waits for
messages, for calls that have not been given up and for the timers of tabs that
are not throttled.  What happens elsewhere (another device, an administrator) and
failing calls are `mishaps`.

### Detector, Checks, Experiments, Scoring

`Detector` is one container: a warm-up thread and a thread per request take turns
at `_lock`; `Attempt` is `ensemble.score`, which refuses settings of another
desklib and loads what the caches do not hold, failing or not.  `Checks` is
`create_check` around it (`Ask`, `TimeOut`, `Hear`, `Save`): the API gives up after
10 s and the detector goes on.  `NextPage` is the keyset pagination, `Beyond` its
comparison.  `Experiments` is the terminal of `ml-training`: `RadarSelect`,
`DesklibSelect` and `TrialSelect` are the three ways to keep an epoch, followed by
the same stages in each tool; `Calibrate` and the two steps of `--release`.
Weights are named by their epoch, and the scores a pair of models gives the
validation answers are a table.  `Metrics` is `roc_curve` with its dropped points,
`threshold_at_fpr` and the operating point, as counts.  `Scoring` joins them:
`Deploy` builds a container from whatever the folder holds, between the two steps
of a release too; `ConfigureApi` is the threshold, typed in by hand.

### Generation and Edits

`Generation` has one run folder of one of the three tools.  `proc` is the running
process: what is still to do, what the folder held when it started, the call in
hand, Python's buffer and the report in memory.  `NextCall`, `CallFails`,
`CallReturnsNothing` and `CountEmpty`, `CallReturnsText`, `WriteRecord`,
`CountRecord`, `CountTokens`, `Finish` are a run, in the order of the statements
of each tool: the harness writes and flushes a line, then counts it, then its
tokens; the other two add the tokens first and do not flush (`Flushed`).  Between
any two `Interrupt` runs the `finally`, `Kill` does not and keeps any prefix of
the buffer, perhaps with half a line.  `bill` is history: what was charged, what
an interrupt left uncounted (`dropped`) and whether it fell between a line and its
count (`cuts`). Prompt and completion tokens are one number, 1 per charged call. 
`Edits` puts the tools around it: `Assign` and `Collect` with sheets of different
deals, `Build` of the edited set, `RunFilter` with its three files, each also
while a run is still writing.

### Corpus and Evaluation

`Corpus` has `disk`, files by name with the build they were made from, and `job`,
the writes the running tool has still to make; `Die` stops it between them, or
within one that has no temporary name.  `Built` is `corpus/build.py` as a function
of sources and seed: `Roots` joins twins, `PartitionOf` cuts the shuffled groups,
`Kept`, `LongEnough` and `Capped` are the selection, `Sound` its own check.
`AttachStyle`, `BuildSpliced` and `BuildExtended` are the three tools that add to
it; `Select` is the flow with augmenting paths of `splicer/select.py`, over an
input, `Reaches`, that says which splices fall into which band: a path begins at
a model without an answer (`Begun`), takes a base from a model that holds it
(`Further`), any number of times, and ends at a base with a use left; `Swaps` is
what it changes.  A seeded draw is
a `CHOOSE`: arbitrary and repeatable.  `CombinedLoads` and `ExtendedLoads` are what
the loaders of `combined_data.py` accept.  `splices` in a file is history: the
build whose spliced answers are among its rows.  A splice's id is its number in its
partition and band (`Numbered`), so that two builds give one id to different
answers.  `Evaluation` adds a training run or one
of an untouched model (`Run`: the questions trained on, the answers scored), the
checks of `harness.py` on a scores file, which look at id, split and label and at
nothing else (`AttachMeta`, `Matched`), and every table it can make of the files
(`Table`), with or without short answers (`Filters`), at any later time.  `mixed`
says of a run that it used files of several builds, `known` of a table that every
question it scores also has an answer whose id is its own.


## 3. Runs

States are distinct states; times are with two TLC workers.

| Run | Instance | Checks | States |
| --- | --- | --- | --- |
| `batch_one` | 1 batch of 2 valid rows and 1 rejected, 1 Worker, 1 request, 1 fault, `FairSpec` | `ImplementsContract`; `OvershootBounded`: every outcome beyond one per row costs a fault; `EveryRowSettles`, `CancelledRowsLeave` | 99 K |
| `batch_shared` | 2 users' batches of 1 row on one queue, 2 Workers, 1 request, 1 fault | `NoRowLost`; `LateChecksBounded`: after a cancel each Worker stores at most one more check; `DeleteCancelsTheUnfinished`: a delete cancels the unfinished batches of its user and no finished one | 1.32 M |
| `teams_overlap` | 2 instructors, 1 TA, 2 requests of deactivate, delete, link, end, login and logout, 2 links, 1 session | `SignsOutUnsupervised`, `SparesSupervised`: the sign-out of a TA left alone is exact, short of the races the code's comments accept | 2.4 M |
| `teams_lifecycle` | 1 instructor, 1 TA, 2 requests of every operation but `end` and `logout`, 1 link, 1 session | `LifecycleAudited`, `ExitSignsOut`, `SignsOutUnsupervised` | 2.9 M |
| `prov` | 3 requests, each provisioning or deleting one address, 3 attempts, 2 refusals while a deletion settles, every fault | `OneLiveAccount`, `ClosedStaysClosed` whatever overlaps and fails; `NoLockoutAlone`, `TogetherOrNotAtAll`, `RetryNotRefused` for requests that do not overlap | 1.0 M |
| `session_tabs` | 1 session, 2 tabs, one of them throttled in the background, 1 mishap, times of a few units | `IdleLimitFollowsUse`, `DeadStaysDead`: the server's two deadlines; `CountdownHonest`, `LeavesForAReason`, `PresentPersonStays`, `ExtendedForSomebody`: what the tabs make of them | 4.35 M |
| `console` | 2 root admins, an instructor, a TA, an address nobody has; 4 requests, 2 at a time; 1 batch, 1 Worker crash | `NothingCarriesOver`, `AdminsRunOutOnlyTogether`, `ReadsAgree` | 0.19 M |
| `generation` | 2 generators, up to 2 questions or 3 answers, half of each stratum drawn, 2 runs of each tool, 1 stop, 2 deals of sheets, 2 filter runs | `PaidOnce`, `ReportAddsUp`, `MadeAsPlanned`, `EachAnswerOnce`, `RunEnds` | 0.68 M |
| `corpus` | 4 questions in 2 revisions (one returns under another id as a listed twin, one is replaced), 3 students, 2 models, 2 builds, 2 shuffles, 2 runs | `NothingMeasuredWasSeen`, `TrainNotMostlyHuman`, `StylesFollowSources`, `SpliceStopsOnlyIfImpossible`, `RawIsNotASource` | 0.26 M |
| `scoring` | 6 answers, 2 desklib versions, RADAR with 2 seeds and up to 3 epochs; 2 checks at a time, a walk through the history | `KeptEpochShips`, `BudgetKept`, `WalkShowsEachOnce`, `NothingHangs` | 0.23 M |
| `teams_role_link`, `prov_two_invites` | | expected violations, [section 7](#7-where-code-and-documents-disagree) | |

`NoLockoutAlone` says of `NoLockout` when it holds: no two requests at once and no
connection lost during COMMIT.  `AdminsRunOutOnlyTogether` likewise names the one
way in which nobody is left, and `NothingCarriesOver` exempts what was under way
(`Late`); each exemption is a disagreement of section 7.  In the same way
`BudgetKept` is about images whose parts belong together (`Untorn`), and
`ExtendedForSomebody` about what tabs ask about the session itself, as long as no
call fails; `ReportAddsUp` about runs that were not killed; `DeadStaysDead` spares
rows inserted behind a deactivation (`stray`), and `NothingMeasuredWasSeen` speaks of
runs that meet as far as ids tell their questions apart (`known`).

Each property of a passing run has a mutant: an operator such as
`FinishEnqueue_LogsOnly`, written next to the definition it replaces, that
changes it like a plausible bug and breaks the property in the same run.

## 4. Bounds

| Constant | Checked | In production | Why it is enough |
| --- | --- | --- | --- |
| `Rows` | 2 | up to the CSV limit | rows meet only in a page, a purge and a count; two give partial pages, a finished and an unfinished row of one batch, and another batch's row in a purge |
| `Workers`, `Requests` | 1-2 | tasks, coroutines | properties speak of one actor against another |
| `MaxReceive` | 2 | 5 | 2 separates first delivery, redelivery and redrive |
| `PageMax` | 2 | 10 | no page is cut short by it: two rows fit, and smaller pages are choices |
| `DrainMax` | 1-2 | 200 | the purge may end early in every state anyway |
| `MaxFaults` | 1 | unbounded | one crash separates each commit from the message's deletion; the proofs need no bound |
| `Links`, `Sessions` (`Teams`) | 1-2, 1 | unbounded | ids are not re-used; two links are two supervisors of one TA |
| `RowMax`, `Credentials` | 2, 3 | unbounded | a second row exists only through a race; a third credential is a second invitation beside an orphan |
| `Attempts`, `Settling` | 3, 2 | 3, unknown | as many refusals as the attempts outlast |
| `IdleTTL`, `AbsoluteTTL`, `Resolution` | 3, 5, 1 | 30 min, 4 h, 60 s | the idle limit slides, and slides again into the absolute one; one unit is the resolution |
| `Tabs`, `PromptTabs` | 2, 1 | a few | a throttled tab is late for as long as it likes; what one prompt tab and one late tab can tell each other happens, and a tab differs from another in nothing else |
| `Latency` | 0 | 15 s | an answer may still be served before and received after anything else of the same instant, messages of other tabs included |
| `MaxMishaps` | 1 | unbounded | each clause that exempts mishaps needs one |
| `MaxRequests`, `Callers` (`Console`) | 4, 2 | unbounded | delete, invite and two requests of old or new holder |
| `MaxRuns`, `MaxStops` | 2, 1 | unbounded | a stopped run and the one that takes it up |
| `MaxAttempts`, `MaxStreak` | 2, 2 | 5, 3 | one failure that is tried again, one that ends a turn |
| `MaxBuilds`, revisions | 2, 2 | unbounded | files of two builds lie side by side; a twin moves once |
| questions, students, models (`Corpus`) | 4, 3, 2 | more | every slice, band, tier and both kinds of twins occur; percentages round up, down and at a half |
| runs (`Evaluation`) | 2 | many | a row of a table is of one run or of two; the second is desklib's tuned one and nothing is rebuilt after it |
| `MaxEpochs`, `Measures` | 3, 3 values | up to 10, reals | two epochs can drift down along ties and a third win |
| `MaxEffort` | 4 | unbounded | what is started by hand: calibrate, adopt, deploy, a walk counts as three |

The safety properties that are proved hold without these bounds.

Symmetry is used where values are interchangeable and only safety is checked:
Workers in `batch_shared`; ids of links, sessions, requests, credentials and
callers elsewhere.  Runs with liveness use none.

## 5. Fairness

`batch_one` uses `FairSpec` of `BatchPipeline`: weak fairness of each
Worker's own steps (`run_forever` loops, ECS restarts the task: the service has a
desired count), of visibility timeouts and redrives (SQS timers), of a started
`create_batch` and of the end of a purge (the event loop resumes a request that
was started).  Nothing makes a user submit or cancel, a Detector call succeed or
a fault happen.  One strong fairness remains: a dead letter is received
eventually.  The drain short-polls, SQS may return nothing though a message is
there, and weak fairness would let it miss the same one for ever; that SQS
samples its hosts at random is the reason it does not.  A message reappears by
fairness only while nobody works on it.

`generation` uses `FairEditsSpec`: weak fairness of what the running process does
by itself (`Steps`), and of the end of a call whose client has a time limit
(`TimesOut`).  The Anthropic and OpenAI clients give up after ten minutes, their
default; `genai.Client()` (`harness/clients.py:131`) is made without a limit and has
none by default.  A call to it may stay out for ever, and `RunEnds` says that a run
ends or is left waiting for such a call.  Nobody has to start a run.

`scoring` uses weak fairness of each request's thread in the detector, of its
10 s timer or the detector's answer, and of the warm-up thread.  Weak is enough
for `_lock`, though threads compete for it: requests are finitely many, so it is
free for good at some point for whoever is left.  Nobody has to submit, train or
deploy.

`Teams`, `Provisioning`, `Console`, `WebSession` and `Corpus` have no liveness
property: a request, a tab or a tool may be abandoned anywhere, and that is the
point of checking them.

## 6. Proofs

All for any values of the constants that satisfy the named assumptions
(`QueueAssumption`, `PipelineAssumption`, `TeamsAssumption`,
`ProvisioningAssumption`, `SettlingAssumption`, `DirectoryAssumption`, `ConsoleAssumption`,
`SessionsAssumption`, `WebAssumption`, `TimesAssumption`, `ExperimentsAssumption`,
`ChecksAssumption`, `ScoringAssumption`, `EarlierRowsAssumption`,
`GenerationAssumption`, `CorpusAssumption`, `TwinsAssumption`).  They say: types;
finitely many rows, Workers, questions, students, models and answers;
distinctness of null values; positive limits; one root admin to begin with and
none made through the API; an abstention band at least as wide as the noise; a
deletion that settles in Auth0 in fewer refusals than an invitation makes attempts; no
generator twice in one configuration, which `generate.py` refuses; an explanation
for what the history holds to begin with; answers of a revision belong to its
questions, a share to be kept is between 1 and 100 per cent, and listed twins are
questions of the corpus, or else `question_groups` stops.  TLC evaluates each in a run.

| Theorem | States | Rests on |
| --- | --- | --- |
| `TypeCorrect` | `Spec => []TypeOK` of the pipeline | a lemma per action |
| `NoRowLostTheorem` | `Spec => []NoRowLost` | `Invariance` |
| `LateChecksTheorem` | `Spec => []LateChecksBounded` | `Invariance` |
| `Refinement` | `Spec => ImplementsContract` | `Invariance`, `ContractStep` |
| `EveryExtraIsPaidFor`, `OvershootTheorem` | `Spec => []CInv`, `Spec => []OvershootBounded` | `CInv` of `BatchPipelineProofs` |
| `DeleteCancelsTheorem` | `Spec => DeleteCancelsTheUnfinished` | `CInv` |
| `TeamsTyped` | `Spec => []TypeOK` of `Teams` | a lemma per action |
| `UnsupervisedAreSignedOut`, `SupervisedAreSpared` | `Spec => SignsOutUnsupervised`, `Spec => SparesSupervised` | `SignOutKnown` |
| `Audited` | `Spec => LifecycleAudited` | `Locks` |
| `ExitEndsSessions` | `Spec => ExitSignsOut` | `Locks` |
| `ProvisioningTyped`, `AddressIsUnique`, `OldCredentialsStayOut` | `[]TypeOK`, `[]OneLiveAccount`, `[]ClosedStaysClosed` | `Custody` |
| `AloneNobodyIsLockedOut`, `LandsTogether`, `LeftoversDoNotRefuse` | `[]NoLockoutAlone`, `[]TogetherOrNotAtAll`, `[]RetryNotRefused` | `KnowsTheAddress` |
| `SessionsTyped`, `IdleLimit`, `NoneComesBack` | `SessionsSpec => []SessionsTypeOK`, `[]IdleLimitFollowsUse`, `DeadStaysDead` | `IInv` of `SessionsProofs` |
| `TabsImplementSessions` | `Spec => SessionsSpec` of `WebSession` | a lemma per kind of step |
| `TabsIdleLimit`, `TabsNoneComesBack` | the same two of `WebSession`'s `Spec` | the three above |
| `CountdownTheorem`, `LeavingTheorem` | `Spec => []CountdownHonest`, `Spec => LeavesForAReason` of `WebSession` | `BrowserInvariance` (`WInv`) |
| `ExtensionTheorem` | `Spec => ExtendedForSomebody` of `WebSession` | `CalmInvariance` (`XInv`), `TimesAssumption` |
| `SomebodyAdministers`, `OneAnswer` | `[]AdminsRunOutOnlyTogether`, `[]ReadsAgree` of `Console` | `AdminInvariance` |
| `AddressInheritsNothing` | `[]NothingCarriesOver` | `CarryInit`, `CarryNext` |
| `AnswersArePaidOnce`, `AnswersAreMadeAsPlanned` | `EditsSpec => []PaidOnce`, `[]MadeAsPlanned` | `EditsInvariant` (`PaidInv`) |
| `FilesHoldAnswersOnce` | `EditsSpec => []EachAnswerOnce` | `EditsInvariant` (`SetsInv`) |
| `ReportsAddUp` | `EditsSpec => []ReportAddsUp` | `ReportInv` |
| `TypeTheorem`, `BalancedTheorem`, `StylesTheorem`, `RawTheorem` | `[]TypeOK`, `[]TrainNotMostlyHuman`, `[]StylesFollowSources`, `[]RawIsNotASource` of `Corpus` | `CorpusInv` |
| `SpliceTheorem` | `[]SpliceStopsOnlyIfImpossible` | `CorpusInv`, a cut |
| `MeasuredTheorem` | `EvaluationSpec => []NothingMeasuredWasSeen` | `EvaluationIsACorpus`, `CorpusInv` |
| `KeptEpoch` | `[]KeptEpochShips` of `Scoring` | `TrainInv` |
| `FalseAlarmsKept` | `[]BudgetKept` | `ScoreInv`, `ThresholdKeepsBudget` |
| `HistoryWalks` | `[]WalkShowsEachOnce` | `PagesInv` |

**Pipeline.** `NoRowLost` is not inductive: it says nothing of a row whose
message is about to be deleted.  The invariant `IInv` adds, part by part, why
each deletion is justified: a Worker about to delete has stored an outcome
(`AckOK`), a purge holds rows of cancelled batches only (`PurgeOK`), so a gone
message is accounted for (`GoneOK`); a returned `create_batch` has tried every
row and recorded the refused ones (`UnsentOK`); only committed batches have
messages, and only sent rows are in hand (`SentOK`, `HeldOK`).  `LateOK` is what
bounds late checks: a Worker about to store a check of a cancelled batch read
`cancelled_at` before the cancel, so it has not stored a late one yet.  That
outcomes and cancels never go back (`LastingStep`) carries most steps.
`Refinement` shows that each step is one contract step or leaves the mapped
variables alone.

`OvershootBounded` compares a sum over rows with the faults, so the invariant has
to say what a row may still become.  `Chances(r)` counts what is stored of the row,
the Workers that may still store something of it, and one more if its message
comes back to somebody; `CInv` has that the chances beyond one, summed over all
rows, are at most the faults (`PaidOK`).  An ordinary step turns one chance into
another, a fault adds one at most.  `DeleteCancelsTheorem` reads the same bound
without faults: an unfinished batch has a row with nothing stored, so its counts
are short of its total.

**Teams.** `ExitSignsOut` must hold of the commit, but the sessions were selected
several steps before.  `RevokesAll` says that from the revocation on, every live
session of the user is in the transaction's set; it survives because
`CreateSession` has to wait for the row lock.  `OneTransition` is that lock,
`DecisionStands` says that the status read under it is still the status.

Who else is signed out is read even longer before the commit, without a lock.
`SignOutInv` says what such a reading is worth: as long as nobody else has
changed an assistant's supervisors (`since`), the team the transaction has read
holds everybody its user supervises (`TeamKnown`), and of those it signs out
exactly the ones its own writes leave without an active supervisor (`OutKnown`,
`OutOnly`).  `OneLinkPerPair` is the partial unique index: ending the one link
that was read does end the supervision.  `Inside` and `Outside` split the steps
of a transaction into those nobody else can see and those that change tables.

**Provisioning.** A credential that a request is about to store is known to no
row and to no other request, and is not buried (`HeldAlone`), because Auth0 does
not give an id twice (`KnownIds`).  With the unique index this gives
`OneLiveAccount`, and with it `ClosedStaysClosed`, through every fault.

Requests that follow one another (`~raced`) can be told more, by how much has
failed before (`AloneInv`).  Whatever failed, one request is under way at most,
and the id it carries is the credential Auth0 holds at present, so that what a
failure left behind is found and replaced, and it has an attempt more left than a
settling deletion may still refuse (`AtMostOne`, `Carried`).  If no answer
of a COMMIT was lost, no row is live under a request at work, and a live row's
credential exists (`Opened`); a removal that undoes a failed commit can therefore
not take the credential of a stored row.  If nothing failed, a credential without
a live row exists only while somebody is between the two stores (`Matched`).

**Sessions.** The idle limit is about use, the code about a stamp:
`StampFollowsUse` says that the stamp lags by less than `Resolution`, and
`OffIsRevoked` that who is not active has no session that could work, without
which a reactivation could bring one back; the rows it exempts are `stray`, the very
ones that do come back (section 7).  `WebSession` changes `Sessions`'
variables by that module's actions only (`TabsImplementSessions`), so both
properties hold whatever the tabs do.

What tabs believe is harder, because an answer may be about the session before
the present one, and a deadline travels from tab to tab before it is used.  `WInv`
says that no claim, in a tab or in a message, exceeds the deadline of the
cookie's row by more than `Latency` (`ClaimsHonest`).  That survives a new sign-in
because the cookie's row is the newest (`CookieNewest`) and requests of an earlier
cookie are older than its last use (`Asked`); it survives answers because a served
request promises what the row then had, and rows are only extended (`RowsMove`).
A refusal stays true (`CallsHonest`), so a tab that leaves on one has a reason
whenever it hears of it.  `TimersRun` says that a tab in the app has a timer that is
due, a countdown that has not ended, or a probe on its way.  `AllMoves` lifts what
one tab does (`OneTabMoves`) to all of them and to the inboxes.

Who extends a session by asking about it takes a second invariant, `XInv`, of the
time before the first mishap; what a page requests is another matter
(`AbandonedTabEnds`, section 7).  A call that will touch was sent by a tab somebody is at
(`Attended`), or touches nothing of use (`Harmless`): its session is over or about
to be, is being signed out, or was touched so lately that the stamp stays.  The
last is `Spent`, and stays true (`SpentStays`).  The one request nobody makes is the
answer to news of another tab, so the proof has to show that the news is true of
the *cookie's* session though the check that brought it asked about an earlier one
(`OutMeansSpent`).  What orders two sessions is that one of them began
after the other's request was sent (`OutOfDate`, `Apart`), that a sign-out revokes
every session there is (`EndedTogether`), and that an answer with little left is
from a session nearly at its end (`Heard`).  `TimesAssumption` is what this needs of
the times, and the code's have it: twice the client's timeout (15 s) is less than
the stamp's resolution (60 s), and a new session outlives a timeout and the useful
rest (5 s).

**Directory and Console.** `AdminInv` says what a stale read is still good for:
root admins are root admins for life (`RolesOK`), who asks was active when the
row was read and only a root admin asks to deactivate (`SelfOK`), an invitation
never re-uses a root admin's row (`InvitesOK`), and as long as no two of them
overlapped, whoever is about to deactivate a root admin is still active
(`RemoversOK`).  `CarryInv` is about time: what names a holder was written while
that holder had the account, and is older than the row's stamp as soon as another
one has it, or older than every stamp still to be committed (`Told`).  For a batch
this needs its counts: a row that is queued or in hand belongs to the present
holder's batch or to a cancelled one (`CountsOK`, `WorkerOK`), because the delete
finds every batch unfinished whose counts no crash has spoilt.

**Paid runs and the tools around them.** `PaidInv` reads a folder as its lines
followed by what Python has buffered (`Written`).  No answer has two lines there,
and what is to be asked for, being asked for or held has none, unless the run
will pass over it because it had read it at the start (`OnceOK`).  Hence an answer
bought is a line, in the process's hand, or lost with a buffer or a process
(`BillOK`), and a resumed run cannot buy it again.  Every line names the prompt of
the run, or, of a simulation, its place in the selection it was drawn from
(`HowLines`), because the number of draws is at each moment the place reached in
the plan, passed-over answers included (`HowRun`).  That a plan asks for nothing
twice, and for a sample's answers in their order, is arithmetic: the quotient and
the remainder by the sample's size, and the rank of an answer in a finite set
(`PlanTyped`, `EditorsPlan`, `NthHasRank`).  The files made from a folder hold
each answer once because a reader sees a beginning of `Written` (`VisibleOnce`),
however much of the buffer Python has put on disk.

`ReportInv` keeps books per generator (`Books`): its lines, what was charged, the
entry's `succeeded` and `tokens`, and what is bought and not yet written, written
and not yet counted, or charged and not yet billed.  `Add` says how these add up,
with what kills and interrupts took away; a running process's entry is exact for
every generator it asks (`Exact`), and the one on disk claims no more than there
is (`Older`).  Each step moves the books in one of four ways (`Bought`, `Noted`,
`CountedOne`, `Billed`), which keep them right (`BooksMove`); an interrupt turns
what was under way into `dropped` or `cuts`, and a resumed run recounts from the
lines it finds.

**Corpus and evaluation.** The files on disk may come from several builds, so
`CorpusInv` speaks of each file and of each build.  A file that can be read was
made whole by one run of one tool (`FilesOK`); files of the build the corpus on
disk comes from fit that corpus (`SameBuildFits`: the same answers, partition and
text); and all files of one build lie in one placement of questions that keeps
texts, twins and groups together (`BuildsFair`).  The writes of a tool that is
still running satisfy the same (`WritesOK`), so that it may die between any two.
What has to be shown of `Built` itself is that its own check (`Sound`) passes a
fair corpus only, and that its cap leaves no train question with more human than
AI answers.  `MeasuredTheorem` adds the training runs: each was fair to the files it
read (`FairRun`).  Two runs meet by ids, and a splice's id says nothing of its
question; but the id of a raw answer does.  Every question of `val` and `test` of one
build has a raw answer there (`PartLike`), so an unmixed run scores
one (`Named`), and two such runs that score the same ids ask the same questions
(`NamedAskTheSame`).

`SpliceTheorem` says that `Select` gives up on a question only if no selection
exists.  When no augmenting path is left, the models that can be reached from an
unserved one and the bases they could use form a cut: every base there is used up,
by models that are there too.  Any other selection has to serve those models from
the same bases, and serves no more of them (`MaxBaseUses` times the bases, counted
both ways).

Several of these proofs need a least element or an induction over a finite set:
the sum of a function over a set, the number of draws of a seeded shuffle, the
roots that joining twins reaches, the number of models served.  The library's
induction theorems take an operator and cannot be instantiated here, but a set of
counterexamples can: `WFMin` and the well-foundedness of strict inclusion on finite
sets give a smallest one, and the step excludes it.

**From an adapter to a verdict.** `TrainInv` bounds how far the epoch that is kept
may lie behind another: one `PaurocTie` for each tie that AUROC decided, and one
for an epoch that tied and lost; and it says what each stage of a tool has already
put where.  `ScoreInv` follows a check: while a request waits, the score under way
is that of the text the row will name, by a detector that accepts its settings,
within the noise of the table the settings were fitted on.  A verdict
`ai_generated` takes a score above the threshold by more than the band, and the
band absorbs the noise (`Explained`).  That it does is an assumption
(`ScoringAssumption`): nothing in the code compares the two, and on CUDA the
settings are fitted on scores under bfloat16 autocast
(`ml-training/radar.py:142`).  `ThresholdKeepsBudget` is the lemma about the
operator: for any finite table of scores, no more of the students' answers reach
what `threshold_at_fpr` returns than the budget allows.  `PagesInv` says that
nothing shown is older than the cursor's row and that what was there at the start
and has not been shown is older still, in the total order by time and id. That a
finite set has a newest row or a highest threshold comes from the well-foundedness
of strict inclusion (`Extremal`).

**Model-checked only.** Liveness and what rests on fairness
(`EveryRowSettles`, `CancelledRowsLeave`, `RunEnds`, `NothingHangs`), which the
prover does not handle; and `PresentPersonStays` of the web client: whether
it holds depends on how the client's times (renewal band, activity window,
cooldown, useful rest) lie to each other and to the server's.  The activity window
has to exceed an answer's time and the idle limit the band by more than the
resolution; and when answers take time (`Latency` > 0, which the run's instance has
not), the news of another tab that found too little left drops a renewal that is on
its way, hence the margin of `MinUseful`.  The code's times agree (60 s, 15 s;
1800 s, 300 s, 60 s), but an invariant over all times that agree is not written.

## 7. Where code and documents disagree

Two runs expect a violation; each quotes the sentence it tests in
`PROJECT.json`.

| Run | The document says | What happens |
| --- | --- | --- |
| `teams_role_link` | "A link means instructor-supervises-TA; neither end survives a role swap" (`users_service.py`, `change_user_role`) | a link whose role check came before the change is inserted after it |
| `prov_two_invites` | "A local row without a credential is a permanent lockout, so a failed commit removes the credential again" (`_provision`) | two invitations of one address: the second replaces the first's fresh credential as stale, then fails on the unique index and removes its own; the first's row is live without one |

The models also violate the following sentences.  The properties are in the
modules and no run of the project names them; each is violated in the instance
given.

| Property | Instance | What happens |
| --- | --- | --- |
| `CountsAddUp` | `BatchOne.cfg` | "`completed + failed + pending == row_total` always holds" (`docs/openapi.yaml:2212`): a Worker stops between the check's commit and the message's deletion; the row is scored again and counted twice |
| `NeverPendingForever` | `BatchOne.cfg` | the API stops after the batch's commit: rows that were not sent yet have no message, no check, no failure |
| `NoCheckForDeletedOwner` | `BatchOne.cfg`, `MaxFaults = 0` | a row in the Detector while its owner is deleted is stored afterwards; `LateChecksBounded` says how many |
| `NoLinksOfDeleted` | `TeamsRoleLink.cfg`, `Operations = {"delete", "link"}` | the insert of a link waits for a delete that has already ended the user's links |
| `OldSessionsStayRevoked` | `TeamsRoleLink.cfg`, `Operations = {"deactivate", "reactivate", "login"}` | a sign-in that overlaps a deactivation creates a session that works again after the reactivation; such rows are `stray` in `Sessions` |
| `AbandonedTabEnds` | `SessionTabs.cfg` | the probe does not touch because "an abandoned tab would never time out" (`docs/openapi.yaml:918-923`, likewise `services/sessions.py:80-84`); but a visible page polls with requests that do (`useChecks.ts:43-52`, `useBatches.ts:65-87`): a tab nobody is at lives on to the absolute limit of 4 h |
| `RoleWriteSignsOut` | `TeamsRoleLink.cfg`, `Operations = {"role", "link", "login"}` | a second change to the same role, decided on the old one, ends the new TA's links and leaves the session |
| `NoLockout` | `ProvTwoInvites.cfg`, `Provisioners = {q1}`, `Deleters = {q2}` | `delete_user`'s second commit clears the credential id that an invitation has just stored in the re-used row |
| `NoLockout` | `ProvTwoInvites.cfg`, `Provisioners = {q1}`, `Faults = {"commit"}` | the commit succeeded, its answer was lost, and the credential is removed |
| `StuckUntilCleaned` | `ProvTwoInvites.cfg`, `Provisioners = {q1}`, `Deleters = {q2}`, `Faults = {"auth0"}` | "re-provisioning this email will fail until it's deleted manually" (`users_service.py:343-346`), "this email is now stuck ... and must be cleaned up manually" (`auth/management.py:157-160`): the next invitation finds the credential that could not be deleted and deletes it as stale |
| `PairedAnswersAreTheSame` | `Corpus.cfg` | "checking they cover the same answers with the same labels" (`ml-training/ensemble_scores.py:64-65`): splices of two builds that share a positional id (`splicer/build_spliced.py:185`) are paired, whatever question they answer |
| `NoQuestionLeaks` | `Corpus.cfg` | a build stops on what "would make the evaluation unfair", one text in two partitions included (`corpus/build.py:211-218`), the loaders compare question ids only (`ml-training/combined_data.py:70-73`): the splices of an earlier build hold a text for test that the corpus has in train under another id |
| `NothingIsUncounted` | `Generation.cfg` | "a crash mid-run must not lose the bookkeeping for paid calls" (`harness/generate.py:290`): an interrupt between an answer and its count leaves its tokens out of the report |
| `CanBeTakenUp` | `Generation.cfg` | half a line of a killed run stops every later reader; "a rerun into the same folder skips paid work instead of repeating it" needs an edit by hand first |

What the properties exempt, found while stating them:

* A purge receives other users' rows too, and each receive counts towards
  `maxReceiveCount`: enough purges send a row nobody tried to the dead-letter
  queue, recorded as failed "after repeated retries", though a purge is to leave
  "every other message untouched".
* "The row never reaches the Worker" (`batches_service.py:190`) is said of every row
  whose send raised.  SQS may have taken it and its answer been lost: the row is recorded
  as failed and scored all the same.  `OvershootBounded` counts that as a fault, and
  `CountsAddUp` fails of it too.
* A row counted twice makes a batch look finished, so that a delete leaves it
  uncancelled (`DeleteCancelsTheUnfinished` with `faults = 0`).
* Two root admins can deactivate each other and leave none
  (`users_service.py:193-197`, `docs/openapi.yaml:1465-1466` take it for
  impossible): `together` in `AdminsRunOutOnlyTogether`.
* "Nothing personal carries over" (`users_service.py:600-602`) is not true of
  what was under way: a check inserted, a batch committed, a rename or a first
  sign-in marked after the account changed hands is the new holder's (`Late` in
  `NothingCarriesOver`).  So is what is written between the stamp and the commit
  of a second invitation that races the first; and a session made by a sign-in
  that overlaps the delete opens the account again once it is re-provisioned.
* `get_user_by_id` refuses an instructor who was deactivated during the request,
  `list_users` does not (`ReadsAgree` asks for an active one).
* `scripts/provision_user.py` invites a new credential although a row exists,
  and leaves it beside that row.
* A tab whose check at zero fails, or finds too little time left, tells the
  others that the session has ended; they ask again, with touch, and extend an
  abandoned session once (`docs/openapi.yaml:918-923`; `mishaps` and the useful
  rest in `ExtendedForSomebody`).  A throttled tab whose renewal failed does so with
  a deadline long past, and a late answer to its check signs a tab out although
  somebody has signed in again meanwhile (`LeavesForAReason` admits an answer about
  the session before).  "signed-out" is published before the sign-out
  is served, a deadline told by another tab overwrites that of a newer sign-in,
  and one failing poll forgets the stored active batch.
* The report of a run that was killed does not carry "the folder's full spend"
  (`harness/generate.py:203-205`): empty answers of that run are charged and
  counted nowhere (`kills = 0` in `ReportAddsUp`).  Nor does that of a run interrupted
  between a line's flush and its count (lines 284-287): it is one record short, so the
  next run counts the records anew and drops the empty answers (`cuts`).
* "So one source never carries both" (`human_edit/simulate.py`) holds of what
  `build` accepts, not of what `simulate` pays for: sheets that come back later
  make `build` refuse for good.  A new deal overwrites the manifest, so that a
  sheet of the old one can be collected against it, and what was collected
  before is dropped.
* The corpus, its manifest and the extended files are written in place, one after
  another.  The loaders compare question ids, not texts; `finetune_radar.py`
  reads the styled sets by their own partition column and
  `calibrate_ensemble.py` takes any adapter, neither compared with the corpus on
  disk (`OneBuild` and `mixed` in `NothingMeasuredWasSeen`).  `harness.py:82-94` and
  `:244-245` match answers by id, split and label: the scores of another build's
  splices are accepted, compared and combined (`known`).
* `compare_models` puts runs measured on different answers into one table; only
  `compare_pair` refuses.  A smoke run and a run with other hyperparameters keep
  the name of the real one, and overwrite its file.
* A release between its two copies can be built and deployed (`Untorn` in
  `BudgetKept`), against `ensemble.py:48-49`; the file that is checked is the
  settings', whose desklib is right.
* In `train_model` the best score may drift down by one tie after another, though
  "the tie goes to the higher plain val AUROC" (`finetune_radar.py:171-173`):
  `ties` in `KeptEpochShips`.  `threshold_at_fpr` returns the highest, not the
  "lowest threshold", of those that catch the most.
* "So no request has to pay for it" (`detector/app/baseline.py`, `warm_up`) is not
  so after a warm-up that failed; and the status then stays `failed` though a
  later request loads the model.
* "The app marks shorter ones uncertain without scoring them"
  (`finetune_radar.py:262`): `create_check` scores first, and counts the words of
  the raw text, the corpus those of the cleaned one.

## 8. What is not modelled

* Presigned uploads and the S3 read: before the first commit and without shared
  state.  The bytes of a CSV file: a row is the lengths of its fields.
* Retention limits of the queue, message bodies and their decoding.
* What botocore itself tries again: a send it repeats may leave two messages of a row.
  The model has one message per row, which may be delivered any number of times.
* `resend_invite`, the Auth0 token cache, OIDC and the state cookie.
* The Detector's numerics: scores are a table, with a bound on the noise.  Area
  measures, calibration errors, temperature, bootstrap intervals and plots of
  `ml-training`: nothing decides on them.
* `eval_meld_zeroshot.py` (leaves no scores file), `--train-on`, `--no-spliced`
  and smoke runs of the training tools, `logo_folds.py`.
* Two processes in one run folder, which nothing prevents; the price of a call that
  timed out or was interrupted while it was out, which nobody can know.
* The two files of an adapter are released in one step (`calibrate_ensemble.py:262-263`),
  `ensemble.json` in another; the release of a full model (lines 257-266), which writes
  `ensemble.json` beside an unchanged LoRA adapter, is left out.
* Cleaning of text and tables, sentence segmentation: functions of a text.
* The web client's stored active batch: one tab's own.
* An answer's body comes with its headers: `client.ts:94-104` stops its clock at the
  headers, so that a slow body may take longer than `Latency`.  A sign-in's answer is
  received in the step that inserts the row, and not while a sign-out of the same
  browser is on its way.  Hidden tabs poll like visible ones in the model, though their
  queries pause.
* Routes' validation, schemas, middleware, configuration, migrations,
  deployment, pages and components, load test and its report: no concurrent state
  of their own.  `PROJECT.json` gives the reason for each.

## 9. Plan

The batch pipeline and its contract came first, then accounts and teams, then
provisioning; after them sessions with their tabs, the directory and what an
account finds, the paid runs, the corpus and its evaluation, and the way from an
adapter to a verdict.  What is left:

1. An abstract specification of `Teams` in which a transition is one step,
   implemented by `Teams` with its transactions.
2. A proof of `PresentPersonStays`, under assumptions that relate the client's
   times to the server's.
3. The first administrator's script (`provision_user.py`) among `Provisioning`'s
   requests.
