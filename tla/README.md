# swf-remote in TLA+

swf-remote is the devcloud gateway of the ePIC production system: a Django
site that proxies swf-monitor through an SSH tunnel, keeps its own accounts
and tokens, and owns the stage-out bucket's index. This directory holds TLA+
models of the parts that keep state, TLC configurations that check them on
small instances, and proofs that TLAPS checks for all instances. Paths below
are relative to the repository.

## Inventory

| Component | State | Operations | Interacts with | What is hard | What makes it correct |
|---|---|---|---|---|---|
| Sweep ingest (`src/remote_app/views.py`, `stageout_sweep_pass`) | spool directory | post a pass record | sweeper over HTTP; spool shared with apply | death or power loss between write, sync, rename and answer; a lost 202 | an accepted record is never lost and never half written |
| Index (`scripts/stageout_index.py`: drain, apply, reconcile, wipe) | SQLite tables `objects`, `status_writes`, `passes`, `state` | the four modes | S3, SQS, spool | at-least-once delivery, stale listings, two processes on one table, partial deletes | no event lost, no standing object's row dropped, index converges to the bucket |
| Guard (same file: guard, key_status, disable_reporting_key) | `daily`, `last_guard`; IAM keys | nightly count, disable keys | IAM, operators, the index's rows | calls failing between keys, an operator at the same keys | a recorded stop is true; a breach ends the writing |
| Watch (same file: sweep_state, summary) | none of its own | read | everything above | three states of a sweeper, wipes in the same table, five signals and one verdict | silence is noticed, no signal hides a graver one |
| TeamComms (`src/remote_app/teamcomms.py`) | auth references, tokens, sessions | proxy, introspect, CSRF supply | monitor over the tunnel | reference used after revocation or expiry; purge beside use | an identity is attested only while it is current, and only for its own request |
| Tokens (`src/remote_app/token_auth.py`, account page in `views.py`, `models.py`) | `api_token` | issue, resolve, revoke | login wall, TeamComms | revocation beside use; last_used writes | a revoked token authenticates nothing |
| Login wall (`src/swf_remote_project/login_wall.py`, `settings.py`) | none | let through or redirect | every view | middleware order, path prefixes | what the anonymous ask for crosses the tunnel only on the open paths |
| Authority (`src/remote_app/authority.py`, `scripts/backfill_authority.py`) | local status copy; record upstream | check at sign-in, record, backfill | GitHub, monitor | lost answers, overlapping sign-ins | no answer writes nothing; every check ends in a record or a reported failure |
| Monitor client (`src/remote_app/monitor_client.py`) | nav cache | proxy, SSE, nav, JSON calls | monitor; pages made here, whose menu it fetches | streams that outlive a view, cache expiry and last-copy fallback, rewriting | no connection outlives its request; a held nav survives an outage; rewriting leaves foreign URLs alone |
| MCP policy, proxy identity (`mcp_policy.py`, `proxy_identity.py`) | none | admit or refuse a call | MCP relay | batches, streams | calls outside the external set are never relayed |
| Entry store and alarm views (`signals.py`, `alarm_views.py`, `alarms_data.py`) | `entry`, `entry_version` | edit, restore, version | alarm engine on the same rows | version numbers under concurrent saves | no substantive change without its snapshot |
| Alarm engine (`alarms/swf_alarms`; kept for rollback, cron disabled) | events, engine runs in `entry` | one run | monitor API, SES | death between mail and stamp, overlapping runs, failed fetch, a task listed twice | each further event or mail of a task has its cause; failures clear nothing; a sound run mails what fires and clears what is quiet |

All of these are modelled, in whole or in part, except the entry store with its
alarm views, the user sync and migrations, the deployment and check scripts,
and the templates; see "Not modelled" for these and for what is left out of
the others.

## Modules

| Module | Models | Proofs |
|---|---|---|
| `PassLedger` | what the sweeper is promised about a pass record | |
| `CrashLedger` | the same promise by a host that may lose power; extends `PassLedger` | |
| `SweepSpool` | ingest and apply over the spool directory | `SweepSpool_proofs` |
| `StageoutIndex` | bucket, queue, index, sweeper; drain, apply, reconcile, wipe | `StageoutIndex_proofs` |
| `StageoutGuard` | counts, keys, guard run | `StageoutGuard_proofs` |
| `StageoutWatch` | stall text and verdict | `StageoutWatch_proofs` |
| `AlarmLog` | what the event rows promise a reader of an alarm's page | |
| `AlarmEngine` | one alarm of the engine: config, events, runs, mail | `AlarmEngine_proofs` |
| `Accounts` | users, tokens, sessions, and what changes them | |
| `RequestGate` | a request through middleware, wall, view and tunnel; extends `Accounts` | `RequestGate_proofs` |
| `TeamComms` | the TeamComms view and introspection; extends `RequestGate` | `TeamComms_proofs` |
| `AuthorityRecord` | what the monitor's record of an account and the menu's copy promise | |
| `Authority` | sign-in checks and the backfill against GitHub and the monitor | `Authority_proofs` |

`MCx` gives module `x` its small sets. `StageoutWatch` needs none. A definition
commented as a slip is no part of a model: it is the same definition with a
likely mistake in it, put in its place to see that a property would notice.

### SweepSpool

*State.* `dir` is the spool directory as processes see it (absent, `.json`,
`.rejected`), `disk` the same as the disk holds it, `file` the state of each
record's bytes. `worker[w]` is a web worker's place in `stageout_sweep_pass`,
`applier[a]` a process's place in `apply_passes`; `passes` is the pass_id
column. A record is a name with a *shape*: what the view refuses, what both
accept, and what the view accepts but `apply_passes` cannot digest.

*Actions.* Post, Dump, Fsync, Rename, Answer are the view's steps in order;
SpoolFails its OSError branch. ListSpool, Open, MoveAside, Commit, Remove,
Finish are the apply loop; Stumble is the exception a misshapen record raises
outside the `try`. Cron's drain and a manual `apply` share no lock, hence
several appliers. A host crash may put any directory entry back to what the
disk had and cuts unsynced files short; committed SQLite rows survive it.

*Refinement.* `Ledger` maps `passes`, `dir` to the standing of each id.
`ImplementsLedger` says a record is acknowledged only once held, applied at
most once and never forgotten. A record may be applied after it was set
aside: an applier that had opened it before its rename still commits it.
`CrashLedger` says what is left of this where power may go: a loss of power
may put each record back to what the disk holds of it, never touches what is
applied, and between two losses the ledger goes on as promised.
`ImplementsCrashLedger` has as its durable part the ids whose name has reached
the disk (`journaled`).

### StageoutIndex

*State.* Puts are numbered by time, so a number stands for an object version,
its event, its size and its LastModified. `bucket[k]` and `index[k]` hold the
version of the object and of the row; `queue` holds undelivered or
undeleted events. `drain`, `rec`, `wipe` are the three runs with what each
has read. `aged` is the grace period's horizon.

*Actions.* One per step between which another process can act: receive,
commit, delete; each page of a listing, the read of the index, the commit;
each page of a wipe, its delete, its commit. The drain ends with the pass
records, as in `main`. `flock` keeps drains apart; a second apply by hand is
`SweepSpool`'s subject. Put, Age, Sweep and Expire are the world outside.

*Healing.* `Calm(k)` says that nothing under way is out of date about a key: no
announcement of an absent object, no pass record or wiped page that names a
present one, no old listing. `CalmKeysSettle` says that such a key stays calm
until its own object changes, agrees with the bucket after the next cross-check
to finish, and goes on agreeing. `EventuallyAgrees` says that it comes to that.

### StageoutGuard, StageoutWatch

The guard's tables are counts by age. The relative ceiling is compared
multiplied out, so no division is involved. Byte ceilings are compared as
object ceilings are and are left out, as are the daily history and warnings.
The watch has ages capped just past the stall threshold, where `sweep_state`
tells them no further apart, and the other signals as free variables.

### AlarmEngine

*State.* `task[t]` is the status in which a task crosses the threshold, or
`quiet`. `config` holds what the engine reads of the alarm's entry, `event`
the event rows (whose task, active, `last_notified` as missing, within the
window, or older). `run[r]` is a process's place in `main`: the rows it read
as `active_by_key` (`seen`), the next status (`at`), what a listing returned
and is not yet handled (`page`), `detected_keys`, and the two bundles as one.
In the phase `clear`, `page` is what is left to clear.

*Standing.* The engine is kept for rollback. Its cron is disabled
(`docs/alarms.md:18`, `alarms/README.md:11`, `alarms/deploy/crontab.example:3`),
and it fetches anonymously below `/api/panda/` (`fetch.py:49`), which the login
wall redirects (`login_wall.py:66`): a run started by hand today is one whose
scan fails. The model says what the code does, today and if it were restored.
No liveness is claimed, since nothing keeps starting runs; instead two action
properties say what one run leaves behind that went through by itself.

*Actions.* Each is one database statement or one call of `main`: Begin,
ReadActive (or its swallowed failure), ListTasks per status, Detect, ScanFails,
EndScan, Clear, Send or SendFails, Stamp, Finish; Die anywhere. Runs share no
lock, so several overlap. `TaskChanges`, `EditConfig` and `Elapse` (a window
goes by) are the world outside.

*History.* The variables from `lapsed` to `unsure`, and `alone` and `sound` of
a run: no guard reads them, the properties do. Overlap, a failed query of the
active events and a task listed twice in one scan do raise a second event, and
a lost answer or stamp a second mail. Rather than exempt these, the properties
count them: `causes[t]` and `unsure[e]` go up by one for each such mishap, and
`OneActive` and `OneMailPerWindow` say that events and mails exceed one by no
more than that. `causes` starts over when no run is about and the task has no
active event, `unsure` when the window has elapsed. A run is `alone` if no
other was about at any time, `sound` if no call of its own failed but that of
the mail. `RunMailsFiring` says that such a run, mails on, leaves no steadily
firing task unmailed; `RunClearsQuiet`, that it takes an active event from each
quiet task.

*Abstractions.* One alarm: an engine run goes through all alarms in turn, and
to each of them it is a run of its own. A status is listed at one moment,
whatever the number of its pages, while a failure may hit between pages. A
statement that fails has not taken effect. Recipients, texts, `last_seen`,
the `engine_run` row and configurations that name no module are left out.

*Refinement.* `AlarmLog` has `Raise`, `Clear` and `Tell`: an event is raised
once for one task, stays that task's, never comes back once cleared, and nobody
is told of an event never raised. `ImplementsLog` maps `event` and `mailed` to
it.

### Accounts and RequestGate

*State.* `active`, `token`, `session` are the rows of Django's users,
`api_token` and the session store. Requests take no lock on them, so account
steps happen between any two steps of a request. `request[r]` is how far a
request is and whom it speaks for; `relay[r]` is what crossed the tunnel for
it, `connection[r]` whether an upstream stream is open. `caller[r]`, a history
variable, is whom the presented credential spoke for on arrival.

*Actions.* Arrive; Authenticate (session and token middleware, in the order of
`settings.MIDDLEWARE`); Enter (login wall, then the view up to its upstream
call, which reads nothing that changes meanwhile); Return, ReturnMcp and
ReturnNav (the upstream's answer, its redirect, its failure); Iterate,
StreamEnds, LeaveEarly for responses that outlive the view. Issue, Revoke,
Login, Logout, Deactivate change the accounts.

*The menu.* Pages made here within `base.html` carry the monitor's menu: the MCP
setup page, the token page, sign-in and its relatives (kind `accounts`).
`monitor_nav` takes it from a cache or else fetches the monitor's hub through
the tunnel, with `X-Remote-Access: anonymous` and no credential, whoever asks
(`monitor_client.py:365`). `FetchNav` is that fetch, `ReturnNav` the page that
goes out with the menu, an old copy or none. How old the cache is decides
nothing here: any such page may fetch or not. So `AnonymousStaysOut` does not
say that an anonymous page costs no fetch. It says that what the anonymous ask
for crosses only at the open records and interfaces, and that the fetch of the
menu, beside it, carries nobody's name and no credential and is made for an
anonymous request only at those pages.

*Abstractions.* Paths under one gate are one kind (`Visits` names the kinds a
request may ask for). A JSON-RPC body is whether it parses and whether it calls
tools inside or outside the external set. Django's site-wide CSRF middleware is
left out of the gate: without it the model allows more requests than the site
does; the check TeamComms makes itself is in. A GET below `mcp/`, which the
relay answers 405, is read as the setup page. `last_used`, labels and token
kinds decide nothing here.

### TeamComms

*State.* `reference[r]` is the row of `TeamCommsAuthReference` made for request
`r`, `expired[r]` the rows that had expired when `r` took the time, `inquiry`
the monitor's question in progress. Purge deletes the rows of `expired[r]` that
are left, by their expiry alone as the code does. A row is new whatever row had
its id before, so Create takes `r` out of everybody's `expired`. The row keeps,
as history, for whom the request came and whether its CSRF token was good.

*Actions.* Admit and Unfit, Create, Purge, Relayed are the view `proxy` from
`_authenticated_request` to the response; then the stream is the gate's. Ask,
Attest, Close are `introspect`: one query for the row, its token and user; for
a session's row a second look at the store and the user. Expire is sixty
seconds gone by. Accounts change between any two.

*Abstractions.* That a purge spares live rows is no property: the delete's
condition says it and no later step could undo it. What is checked is that an
inquiry under way survives the loss of its row. The service credential that the
view and the introspection check is taken to be configured and right. Request
hashes, header lists and the wording of an identity are left out.

### Authority

*State.* `upstream[a]` is the monitor's record of an account (`eic`, `rights`,
whether a failed check was reported); `status[a]` is `AuthorityStatus`, the
menu's copy; `wire` holds posts whose outcome is open. `check[c]` is the place
of one sign-in in `refresh_for`, `backfill` that of `backfill_authority.py`.
`observed`, `accepted`, `decided`, `settled` are history.

*Actions.* SignIn, Look, Ask, Record, Save, Report follow `refresh_for`,
`record_membership`, `report_failure` and the exception path of
`refresh_on_login`, which reports once more. A post ends in Accept, Refuse or
GiveUp (30 s): one that nobody waits for any more is lost or applied later, in
any order. Plan, Turn, SaveListed, Grant, Stop are the backfill in both its
forms. Die ends a worker anywhere. Move, Link and Decide are the world outside.

*Abstractions.* The monitor is taken to do what `authority.py` relies on: an
`eic` write clears a reported failure, a report leaves the `eic` alone, a
rights write touches only rights. An invitation is no membership. The backfill
goes through its plan in any order; its dry run writes nothing and is left out.

*Refinement.* `AuthorityRecord` has one action per field: an `eic` is set only
as observed and clears the failure, rights and a reported failure leave `eic`
alone, and the menu shows what the record took. `ImplementsRecord` maps
`observed`, `upstream`, `accepted` and `status` to it.

## Runs

| Run | Instance | Shows |
|---|---|---|
| `SpoolRaces` | 2 workers, 2 appliers, 2 ids, 2 records (one refused), 2 faults | nothing accepted is lost; races alone set nothing aside; ledger implemented; accepted records settle |
| `SpoolPower` | 1 worker, 2 appliers, 2 ids, a misshapen record, 2 faults | a record on disk stays until committed; no partial record; crash ledger implemented |
| `SpoolMisshapen` | no faults | *violated*: a misshapen record is retried forever and blocks the rest |
| `IndexRaces` | 2 keys, status and noise, 1 pass record, 2 puts, batches of 2, 1 fault | no event lost or status write uncounted; cross-check and passes spare standing rows; calm keys settle |
| `IndexWipe` | 2 keys, wipe, 2 puts, 1 fault | wipe spares the rows of what it did not delete |
| `IndexHeals` | 1 key, pass, expiry, 2 puts, 1 fault, fairness | index converges; warning clears |
| `GuardStop` | 2 keys, 3-tick week, 2 rows, 2 operator acts, 1 fault, fairness | recorded stops true; only a breached, armed run takes keys, and all of them before it records; breach stops writing |
| `Watch` | stall of 2 ticks | stall text, verdict, silence noticed |
| `AlarmTicks` | 1 task, 2 statuses, 2 runs, 6 rows, 3 changes, 1 fault, no fairness | further events and mails each have a cause; `AlarmLog` implemented; only lapsed cleared; a lone sound run mails what fires and clears what is quiet |
| `Gate` | 1 request of every kind, 2 users, 1 token, 1 session | the tunnel carries the caller's name; the anonymous stay at the open records, the menu's fetch apart |
| `Comms` | 2 TeamComms requests, 2 users, 1 token, 1 session | attested is what stands and who called, with CSRF checked; no leak |
| `Authority` | 1 account, 2 sign-ins, backfill, 1 late write | no answer made up; decisions stand; `AuthorityRecord` implemented; a lone check settles; no silence |

*Why the bounds are enough.* Two appliers and two ids give every race for a
file and every order of two records in a listing; a third id repeats them.
Two puts give a key an old and a new version, or two keys one each, which is
what a stale listing, a late pass record or a redelivery can confuse. One
fault is one crash in any place; two in the spool let the retry of a crashed
step crash too. Week = 3 days gives a day, and two days of norm.

In `AlarmTicks` tasks do not affect each other, so one shows what becomes of
it. Three changes let it fire, move and recover, or an operator switch mails
off and on, or runs overlap; starting beside another run and dry runs count
as changes too. Six rows are more than these changes and one fault can fill.

In `Gate` requests do not read each other's state, so one beside changing
accounts is enough; two users tell a caller from another, and one token and one
session let a request carry both. In `Comms` two requests meet: one's purge,
the other's row and the monitor's question about it. `MaxEntering` lets one
request at a time be between its arrival and its row, since those phases write
nothing the other reads; the proofs do without it. `Authority` has what can
interleave on one account; with another account only the backfill's listing is
shared, which the proofs cover. One late write (`MaxLate`) arrives after, or
between, two sign-ins' own. People decide one value (`Decisions`), other than
what the backfill grants.

*Fairness.* Cron starts each of its modes again after it has ended, and a
started run continues (WF). A receive may return nothing while messages are
in flight, so a given message is received only if it can be again and again
(SF). The guard's run starts are strongly fair because an unarmed run by hand
may interleave with cron's. None is assumed of the alarm engine, whose cron
is disabled, nor of jobs, tasks, the sweeper, operators, web workers, expiry,
requests, sign-ins or the monitor: what is claimed of the engine, the gate,
TeamComms and the authority is safety. Deadlock is checked in every run.

*Beyond the properties.* PROJECT.json lists hazards that no property covers:
the code does what the hazard says, or says nothing that could be held against
it. These are a record applied twice under two ids, the guard's stale
`last_guard` after an operator's switch and its count of rows still there, the
older of two sizes kept, an object rewritten during a wipe, a stall called
because an apply was not reached, a purge beside other requests (above), the
overwriting of a newer check by an older one, and the full backfill's rights
over a decision taken meanwhile. A few more are covered in part. Each has a
note on why.

*Symmetry* is used where keys, users, requests or sign-ins are interchangeable
and no liveness is checked.

## Where code and comment differ

- `scripts/stageout_index.py:331` raises on a record whose `window` is no
  object or whose `filed` has no length, though the view accepted it. The
  file stays and every later run ends at it (`SpoolMisshapen`).

The models contain the following too, without a run of their own.

- Stage-out: a redelivered event inserts a row that was retired meanwhile,
  though the docstring calls a repeat a no-op (`:236`); a redelivered status
  event is counted twice (`:229`); the guard counts rows still in the index, so
  what was swept the same day does not count toward the day's ceiling
  (`:416`); a row is dropped for an object written and drained during the
  listing, and restored the next night (`:372`); an object is called unheard
  whose row a pass record naming its key had retired (`:377`); the directory is
  not synced before the 202, so that only what the file system has written by
  itself survives power loss (`views.py:504`; `SpoolPower` shows what remains
  true). `IndexHeals` shows the cross-check mending the first and the fourth.
- Alarm engine: `run.py:185` looks a detection up among the rows read at the
  start, which `create_event` does not extend. A task that changes status
  between two listings of one scan has two events (counted in `causes`), and
  each lone sound run that finds it quiet takes one (`RunClearsQuiet`).
- `views.py:214` expects service consumers without a sign-in at
  `/api/panda/`; the login wall does not list that path and redirects them, the
  alarm engine's fetches with them.
- `login_wall.py:8` refuses the anonymous "before they cost an upstream page
  build". The sign-in and setup pages they are shown may fetch the menu all the
  same, as `README.md:139` describes (`FetchNav`).
- `token_auth.py:9` says that a token never crosses the tunnel. Where a token
  authenticates, it does not (`McpKeepsToTheSet`, and `Create` of TeamComms);
  on any other path an `Authorization` header is passed on as it came, for the
  monitor to judge (`monitor_client.py:252`).
- `mcp_policy.py:10` says `tools/list` results are filtered; an answer that is
  an event stream passes as it is (`:97`). Calls are refused either way.
- `authority.py:250` names two outcomes of a check. A third is left: the
  database fails the check, or reading both login and token, and nothing is
  said upstream. `NeverSilent` holds of every check it did not fail.
- A lost membership shows at the next sign-in only if that check has the
  account to itself and its write is accepted (`LoneCheckSettles`). Of two
  overlapping checks the later write wins, not the later answer.
- `alarms_data.quiet_alarms` (not modelled) speaks of the last successful runs
  and counts failed ones among them (`:339`).

## Proofs

The eight `_proofs` modules prove, for all values of the constants, type
correctness of every module, every safety property the passing runs check, and
four refinements: that `SweepSpool` implements `PassLedger` and `CrashLedger`,
`AlarmEngine` implements `AlarmLog`, and `Authority` implements
`AuthorityRecord`. Proved without a run of their own are `McpKeepsToTheSet`,
`MenuSaysTheAccepted` (which `AuthorityRecord` implies), that a row never holds
a size its object never had (`RowsHoldOwnVersions`), and all types but those of
the spool and TeamComms. The proofs assume only the ASSUMEs of the modules; two
results take a host that does not lose power as a hypothesis (`~
HostMayCrash`).

*SweepSpool.* `AcceptedKept` is not inductive: it needs to know where each
worker and applier stands. The invariant says that a worker's id is its own
and not yet visible before Rename, that a `.json` entry has complete bytes,
that an applier past its commit has the row in `passes`, and that what an
applier holds in `todo` was a `.json` entry once. Then removing a file keeps
its record, because the row came first. `JournaledKept` strengthens this with
the relation of `dir` to `disk` that power loss may fall back on. The
refinement theorem maps each step to a ledger step or a stutter.
`AsideOnlyOnFault` needs that, without faults, an applier refuses only a record
whose file is gone (`NoFaultNoAside`), which no worker can bring back.
`ImplementsCrashLedger` needs no host that stays up: between losses of power its
steps are the ledger's, by the invariants of the first refinement, which a loss
keeps because it ends every worker and applier that could have relied on what it
took (`NamedKept`, `ReadKept`); and what the disk shows has been journaled, and
shows as set aside only what the directory does (`DiskBehind`), so that a loss
only ever takes something back.

*StageoutIndex.* `NoEventLost` needs that the batch is recorded once the drain
is past its commit. `PruneSparesStanding` needs that what the listing says of a
visited key, if the key is absent from it, was true after the run began, hence
an object there now is younger; the other two action properties rest on the
same argument for the sweeper's time and the wipe's start. `CalmKeysSettle`
needs that the drain holds nothing which queue and spool do not hold too
(`DrainHolds`): then whatever a mode does to the row of a calm key makes it
agree (`CalmRow`), and from that follows the rest. `RowsHoldOwnVersions` needs
the same of the bucket and of what a listing shows (`VersionsInv`).

*AlarmEngine.* `OneActive` bounds the active events of a task; the invariant
(`CountInv`) bounds them together with the runs that may yet raise one, those
that know no row of the task and have not detected it (`Makers`). A run that
creates an event is a maker no more, and whatever makes another, an overlapping
start, a failed query, a second listing, adds to `causes`. It needs that a run's
known row of a task is the task's own (`SeenOwn`).
`OneMailPerWindow` needs that a mailed event is stamped or being stamped, and
that a lone run which is not stamping has fresh knowledge of it (`Settled`,
`Apart`). `RunMailsFiring` needs that a scan past a status has detected what
fired in it (`Listed`), that a detected task's event is in the bundle or mailed
(`Attended`), and that after sending the bundle has been (`ToldMailed`);
`RunClearsQuiet`, that no listing shows a task which never fired (`Unlisted`)
and that what is no longer to be cleared has been (`Swept`).
`ClearsOnlyLapsed` needs that a scan past a status has listed every task that
fires in it since before the run (`Listed`), so that at the end of the scan
what is left to clear has lapsed. `ImplementsLog` rests on the same knowledge:
what a run clears is a row of the task it clears (`SeenOwn`, `ClearKnown`), and
what it mails is in use (`InUse`); a row that another run has cleared meanwhile
makes the step a stutter.

*Guard.* `RecordedStopHolds` needs that a run which says it stopped the keys,
or found none active, is right while nobody switches one on (`StopInv`), and
that a run at its disabling loop still has every active key on its list
(`TodoInv`). `BreachBeforeCommit` needs that only an armed run which breached
reaches that loop (`ArmedInv`), hence that nothing else takes a key
(`OnlyBreachTakes`), and that an armed breached run at its commit has none left
(`CommitInv`).

*Watch.* The age the stall is judged by is that of the younger of the two
kinds of pass (`HeardInv`), whatever wipes write to the same table.

*RequestGate.* All facts are per request. `Asked` says that whom a credential
may still speak for is whom it spoke for on arrival. Tokens get an owner once,
revocation and deactivation are for good, an ended session's key never comes
back, so accounts only shrink for a credential that was presented
(`AccountsShrink`). `Crossed` ties the relay to the phase the request is in.

*TeamComms.* On top of the gate's lemmas: what the view admitted is a user's
(`Admitted`), a row is its caller's by a credential that can speak for nobody
else (`SoundRow`), and the row an inquiry holds stays sound after its reference
is gone (`SoundInquiry`).

*Authority.* `EicIsObserved` is inductive only together with where each write
came from: a write that is waited for is the only one of its writer and still
says what the writer has to say (`FlowInv`), and what a writer is about to send
was observed (`ValuesInv`). On this rest `GrantInv` (while a grant may come,
no decision is promised), `MenuInv` (who is about to save has been accepted),
`SilentInv`, and `LoneInv` (nobody else has a write under way for the account
of a lone check, and nobody works on a settled one). `ImplementsRecord` takes
what the monitor accepts from `EicIsObserved` and `ValuesInv`, and what the menu
is given from `MenuInv`.

Only model-checked: liveness (`AcceptedSettles`, `EventuallyAgrees`,
`WarningClears`, `BreachStops`, `SilenceIsNoticed`), which is beyond the
prover.

## Not modelled

- *Alarm views, entry versions, dashboard readings* (`alarm_views.py`,
  `signals.py`, `alarms_data.py`): `urls.py` proxies `alarms/` to the monitor;
  the local views are unrouted and kept for a rollback. What an editor does
  to the engine's configuration is `EditConfig` of `AlarmEngine`.
- *Parts of the monitor client*: URL and page rewriting, and of the menu's
  cache its age and fallback copy (that a fetch may happen is modelled); the
  JSON reads, which nothing served calls; the unpacking in `view_text`.
- *MCP*: `filter_tools_list` and correlation ids.
- *Guard and watch*: byte ceilings (compared as the object ceilings are), the
  daily history, warnings and totals.
- *Alarm engine*: recipients, texts, the `engine_run` row and its health,
  `last_seen`, and alarms whose entry names no module, which are skipped.
- *User sync, migrations, deployment and check scripts, templates*: one-shot
  or layout; nothing of the running system interacts with them.

What could still be added, would the rollback become the rule: an
`EntryVersions` module for editors and the engine on the same entries.
