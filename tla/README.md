# chatflow-ai: verification project

chatflow-ai is a FastAPI application with a Celery worker behind it. Companies create
chat bots (Telegram, Yandex Messenger, MAX) in a web cabinet; people link their messenger
account to a user with a six-digit code and then send the bots texts and files, which are
collected into a batch ("estimator" bots) or processed one by one by an AI provider
("finance" bots).

This directory holds TLA+ models of the parts of that program whose correctness depends on
interleaving, failure and time, the TLC configurations that check them, and machine-checked
proofs. Every path below is relative to the repository; the implementation is in `src/src/`
as seen from the directory above this one.

## 1. Inventory of the system

| Component | State it keeps | Operations | What makes it hard | What makes it correct |
|---|---|---|---|---|
| `SessionService` (`core/services/session.py`) | Redis keys `session:{user}:state`, `:payload`, each with a TTL | `handle_new`, `accumulate`, `handle_compile`, `get_state` | coroutines of the API process interleave at each await; keys expire | an accumulated item is handed over once, in order, from the right batch; nothing stays in Redis for ever |
| `HookRouterService` (`infrastructure/services/hook_router.py`) | none of its own | `process_webhook`: bot lookup, parsing, user resolution, OTP interception, estimator and finance dispatch | decisions on state read earlier; a broker that is down; repeated updates | an update is done twice only after real trouble; what was accepted and answered is accounted for |
| `OTPService` (`core/services/otp.py`) | `otp:{user}`, `otp_reverse:{code}`, `otp_rate:{user}`, `invite:{code}`, each with a TTL | `generate_code`, `verify_code`, `verify_code_by_value`, `generate_invite_code`, `verify_invite_code` | check and write are different awaits; collisions; two indexes of one fact; an answer that is lost after the write | a code leads to a user it was shown to, once, for five minutes |
| `MessengerLinkService` (`infrastructure/services/messenger_link.py`) | users table, one unique column per messenger | `link_by_otp` | Redis and the database are changed in different steps; locks; the commit follows the response; the cabinet edits and deletes the same rows | a code links one account to its own user; an account has one user |
| Celery tasks (`infrastructure/task_queue/tasks.py`) | `projects` rows, CSV files | `compile_session`, `process_stream_item`, `generate_report` | retries, soft and hard limits, a second session for the failure, delivery after the commit | one project per task; the user hears once, of committed work; a report covers its period and arrives once |
| Media and AI pipeline (`tasks.py`, `infrastructure/ai/`, `stt/`, `parsers/`) | temporary files | download, transcribe, parse, primary and fallback provider | each file fails on its own; files to remove on every path | a result, an apology or an exception; no file left |
| Delivery (`infrastructure/services/delivery.py`) | the artifact on disk | `_send_text_message`, `_deliver_artifact` | the messenger may fail after it accepted the message | the artifact is removed either way |
| Bot administration (`presentation/web/pages.py`) | `bot_instances` rows, the subscription at MAX | `create_bot`, `edit_bot`, `toggle_bot` | two systems to keep equal, without a transaction over both | the secret the bot checks is the one MAX sends |
| Messenger adapters (`infrastructure/messengers/`) | one lazily created HTTP client each | `parse_webhook`, `send_text`, `send_file`, `download_file`, `register_webhook` ... | which exception becomes which; upload retries of MAX; what kind of id a number is | a file arrives once, where it was asked for; a type given here is understood there |
| Speech to text, document parsers (`infrastructure/stt/`, `parsers/`) | Riva's channel, conversion directories | `transcribe`, `aclose`, `process_document` | tables in eight modules that do not agree on everything; cleanup on every path | what the bot understands is read, but for named exceptions; nothing stays open |
| Database sessions (`infrastructure/database/session.py`) | module-level engines and factories | `get_db_session`, lazy initialisation | double-checked locking; exit code after the response | one engine; every session closed |
| Users and authentication (`infrastructure/auth/`, the fastapi-users routers `main.py` mounts) | users table, companies | register, `PATCH` and `DELETE` of `/users` | they change the account and the company of a user without any code, while codes are redeemed | what they change is never undone or brought back by a redemption that read it earlier |
| Repositories, start-up | - | - | wiring, stateless calls | - |

How they interact: a webhook (`presentation/api/hooks.py`) opens one database session for
the whole request and calls `process_webhook`. That reads the bot row, resolves the user,
and either links the account (`link_by_otp`, which redeems a code in Redis and then writes
the users table) or dispatches: the estimator branch works on the session keys in Redis and
ends in `send_task("compile_session")`, the finance branch sends `process_stream_item` or
`generate_report`. The worker writes the `projects` table and answers through the messenger
itself. API process and worker share nothing but Redis (broker included) and the database.

## 2. Modules

| Module | Models | Runs |
|---|---|---|
| `Batching` | the abstract batch: what the accumulation promises one user, without keys, TTLs or requests in flight | property of `session` |
| `Session`, `MCSession` | `SessionService` and `_dispatch_estimator` | `session` |
| `SessionProofs` | theorems about `Session`, among them that it implements `Batching` | - |
| `Webhook`, `MCWebhook` | deliveries of updates, `parse_webhook` of the three adapters, `process_webhook` and both dispatches, with `Session` as an instance | `webhook` |
| `WebhookProofs` | theorems about `Webhook`, with `SessionProofs` as an instance | - |
| `OTP`, `MCOTP` | `generate_code`, `verify_code`, `verify_code_by_value` | `otp` |
| `OTPProofs` | theorems about `OTP` | - |
| `AccountLink`, `MCAccountLink` | `process_webhook` for accounts without a user, `link_by_otp`, `/otp/verify`, `get_db_session`, the register and users routers | `account_link`, `telegram_gets_200` |
| `AccountLinkProofs` | theorems about `AccountLink` | - |
| `Tasks`, `MCTasks` | `compile_session`, `process_stream_item`, the outcomes of the handlers, delivery | `tasks_all_faults`, `failure_is_recorded`, `provider_failure_is_told` |
| `TasksProofs` | theorems about `Tasks` | - |
| `Report`, `MCReport` | `_parse_report_period`, `generate_report`, `_deliver_artifact` and `send_file` of the three adapters | `report` |
| `ReportProofs` | theorems about `Report` | - |
| `BotAdmin`, `MCBotAdmin` | `create_bot`, `edit_bot`, `toggle_bot`, the subscription at MAX, and the checks at the head of `process_webhook` | `bot_admin` |
| `BotAdminProofs` | theorems about `BotAdmin` | - |
| `FinancePipeline` | one call of `_finance_module_handler`: downloads, media, both providers, the CSV | `finance_pipeline` |
| `FinancePipelineProofs` | theorems about `FinancePipeline` and `MediaFiles`, among them that the second implements the first | - |
| `MediaFiles`, `MCMediaFiles` | what the pipeline leaves open about one file: its type, category and extension, both STT adapters, the parsers, the encoding of images; implements `FinancePipeline` | `media_files` |

Each operator whose name ends in what a slip would do (`HandleNewKeepsPayload`,
`WriteWithoutTTL`, ...) is a mutated form of the definition after it. No run uses it; it is
there to show that the property named beside it in `PROJECT.json` notices the slip.

### Session

State: the two keys with their TTL counters, a program counter and a snapshot per request,
the messages the broker accepted, and a log of the changes in their order (history only).
One action per stretch of code between two awaits: `Receive` is `get_state` and the branch
of `_dispatch_estimator`; `HandleNew`, `Accumulate` are one MULTI each; `handle_compile` is
two actions, because it awaits `get_state` (`CompileCheck`) before the MULTI
(`CompileTake`); `Enqueue` and `BrokerUnavailable` are the two ends of `send_task`; `Abort`
is a Redis error or the end of the process at any await; `Tick` ages both TTLs.
A repeated update is one more request, since the code recognises no repetition.

Two facts about this component that no property states: `accumulate` does not look at the
state key, so a message that saw the session collecting may be pushed into a payload whose
session a `/compile` has just taken; the next `/new` deletes it. And nothing is put back
when the broker refuses a snapshot.

Keys of different users are disjoint, so one user is modelled. The files key is never
written and has no variable. Replies are the final values of the program counter.

### Webhook

State: the variables of `Session`, and for each update what the adapter makes of it
(`reads`), for each delivery where its handler is (`at`) and what the messenger heard
(`heard`); the messages of finance bots the broker accepted; and the history `trouble`. A
delivery is a request of `Session`, because the code recognises no repetition. `Arrive` is
everything up to the resolved user, with the status an update no adapter reads is answered
with (`handle_webhook` makes 200 of it for Telegram, 400 otherwise); `AnswerCallback` the
call that must precede the dispatch; `Estimator` any step of `Session`, which the handler
follows through `Stage`; `Count` the LLEN after an item was stored; `Publish`,
`PublishRefused`, `Help`, `Ignore` the finance branch; `UnknownModule` the rest; `Reply` is
`_safe_send`, which swallows what the messenger raises; `Respond` the end of the request.
HTTP clients have no variable: the `finally` that closes the adapter is on every way out of
the handler. `StepFails` and `AnswerLost` are a Redis or database error before and after its
effect, `StopWaiting` a messenger that gives up, `Die` the end of the process. Accounts
without a user leave at `Arrive` for `AccountLink`; the checks of the bot's row before it
are `BotAdmin`'s.

### OTP

State: the three keys with TTLs; per request the program counter, the number of collisions
and the chosen code; three histories, `shown` (which user may still use which code),
`untold` (codes written for somebody who was never told) and `sinceIssue`. `CheckRate`,
`PickFree` / `PickCollides` / `PickFromClock`, and `Write` are the awaits of
`generate_code`; `WriteAnswerLost` is a MULTI that ran although its answer, or the response
after it, was lost; both verifications are one atomic step, as in Redis. The rate limit does
not hold for requests that overlap, since the rate key is read in one await and written in a
later one: both tabs get a code. `RateLimitGate` says that overlap is the only way.
`CodeIsTheUsers` speaks of the user a code leads to: that user was shown it, or nobody was.
It does not deny that another user still has it on the screen, whose code it was before a
racing tab, or the clock after ten collisions, chose the same value; nothing in the
repository denies it either. Invite codes are issued in `AccountLink` over whatever their
key held, which allows more than the collision loop of `generate_invite_code` does.
`verify_code` is public and tested but nothing in the application calls it; the constant
`CabinetVerify` says whether it is.

### AccountLink

State: the two indexes of codes, the committed users and the ids of deleted ones (`gone`),
and per request its position, the code it redeemed and the row its transaction writes. A
transaction sees committed rows; the row and the unique value it has flushed are locked
until it ends (`Blocked`), and a value another committed row holds makes the flush fail
(`Taken`, `LinkViolatesUnique`). People who registered before are in `Members`; `Register`,
`EditUser` and `DeleteUser` are the routers of fastapi-users, each one short transaction:
`UserUpdate` lets a person change the own account and company without any code, and a
superuser everybody's. `link_by_otp` therefore reads the row of its user in a step of its
own: `Find` may see another account or company than the code was issued under, `FindNobody`
a user who is gone (the code is used up all the same), and between the read and the flush
the row may still be changed (its new values are overwritten) or deleted (`LinkLosesRow`,
SQLAlchemy's `StaleDataError`). `Respond` comes before `Commit`: FastAPI runs the exit code
of a dependency with `yield` after the response is sent. How codes come to be is `OTP`'s
matter; here a code is issued over whatever its key held and lapses at any time, which
allows all that `OTP` allows. A request of an account the bot knows leaves this module at
`Resolve`; its dispatch is `Session`'s or `Tasks`'.

### Tasks

State: per message where it is and its retry count; the one attempt the worker child runs
(position, whether the project was flushed, exception in flight, handler result); committed
status per attempt; files; messages the user received. `CreateProject`, the `Handle...`
outcomes, `Commit`, `Send`, `Return` are the body; a finance handler with rows opens its CSV
(`HandleRows`), writes it (`WriteCsv`) or fails at it and leaves it torn (`WriteFails`);
`SoftLimit` raises anywhere in it; `RecordFailure` is the except branch with its second
session; `Reraise` is Celery's `autoretry_for`; `Kill` is the hard limit or the end of the
process, after which nobody repeats the message, because it is acknowledged when an attempt
starts. Two histories, `cut` and `unrecorded`, name the second faults that keep the code
from its repairs.

### Report

State: the clock, the worker's queue and the items waiting for their retry; what became of
each item and when it completed; per report its chat, the arguments the router published,
how far its task is, the rows, the file, the tries and where copies arrived; the histories
`retried` and `past`. `Ask` computes the dates of `_parse_report_period`; `Collect` is the
query, `Write` the CSV, `Deliver` the checks of `_deliver_artifact`, `Prepare`, `Post`,
`NotReady`, `CallFails`, `AnswerLost` are the calls of `send_file`; `Close` is the `finally`
that closes the adapter and then removes the file, in this order, so that a soft limit, or
an error of `aclose`, between the two leaves it (`unclosed`); `SoftLimit` and `Kill` strike
anywhere. `Process` is the whole task of an item in one step, whose inside is `Tasks`.

The dates are those of the asking, the query is made later: an item that was still queued at
midnight is completed on a day the report does not cover, and an item under retry is simply
not there. `SentBeforeIsReported` names these cases. On MAX an id of more than eight digits
is taken for a chat's: a user with a long number and a group with a short one are addressed
wrongly (`Misaddressed`). The retry decorator of `generate_report` never fires, because
`send_file` turns network errors into `ValueError` and `OperationalError` is kombu's, not the
database's; so no report arrives twice.

### BotAdmin

State: the row and the subscription of each bot; per request of the cabinet its position,
the row it read and the row it wants; per update of the messenger the secret in its header
and the status it was answered with; five histories. A request reads the row in its first
action (`Create`, `Edit`, `Toggle`), calls the messenger in `Unregister` and `Register`,
each of which may fail before or after it took effect, and writes in `Commit` only the
columns it changed (`Written`), which is what SQLAlchemy's UPDATE does. `create_bot` gives
up when the registration fails, `edit_bot` logs it and saves (`RegisterFails`). `Answer` is
the sequence of checks of the row in `process_webhook`; from its 200 on, `AccountLink` and
`Session` go on. What MAX does with a second registration of one URL is not documented in
the repository, so `Register` allows both answers.

### FinancePipeline

State: what each file is and what the configuration holds (drawn in `Init`), the position
of the pipeline's thread and of the file loop, the texts and images gathered, the temporary
files on disk, and whether the task's thread still waits. Per file: `Download` or
`DownloadFails`, then `KeepImage`, `SkipUnknown`, or `Parse` / `ParseFails` for audio and
documents, with the STT adapter started at the first audio file. Then `Merge`, `Answers`,
`PrimaryFails`, `FallbackFails`, `AskRaises`, and the CSV. The soft limit strikes the thread
that waits for the executor; the pipeline does not notice, and leaving the `with` block
waits for it, so its cleanup still happens. What the handler ends with (`outcome`) are the
cases `Tasks` distinguishes in its `Handle...` actions.

### MediaFiles

Extends `FinancePipeline` and changes nothing in it: each of its actions is one of the
pipeline's with more said about it, or a step the pipeline does not see (`Convert`, `Load`).
State: the attachment each file came as, which files are too large, which STT provider is
configured; whether Riva has the bytes, the conversion directories on disk, Riva's channel;
the histories `read` and `missed`. The tables are operators: `TelegramType`, `YandexType`,
`MaxType` (what `parse_webhook` puts into `file_type`), `CategoryOf` and `Extension`
(`_get_file_info`), `Supported` and `NeedConversion` (the adapters). That a bot receives only
what its adapter extracts is part of it: Telegram's voice messages have no `file_id` and
never come here at all.

A content stands for the types all tables treat alike. A sender may give the type of the
content, an alias of it (`image/jpg`, `audio/x-wav`, `audio/opus`), which no table has and
which therefore counts as the unknown of its kind (`AsNamed`), or none; a type of the wrong
kind, as a picture declared to be audio, is not modelled.

What the tables do to a file: Yandex' `.opus` and other names outside its table become
octet-streams, which are downloaded and ignored; recordings outside the mapping get the
extension `.bin`, which both STT adapters refuse. That is the fate of flac, although both
adapters list it, and of every alias; an image is kept whatever its type is called. webm is
mapped and accepted. An image above the limit fails both providers and so costs all the
rows; `_convert_to_wav` leaves its directory when ffmpeg fails. Removing a file is taken to
succeed. `ReadersAgree` names all of this as exceptions: it says that a file which is
understood is not lost in any other way, not that the tables agree.

## 3. Runs and their bounds

| Run | What it shows | Bounds and why they are enough |
|---|---|---|
| `session` | `TypeOK`, `HandedOverOnce`, `KeysExpireTogether`, `NoItemVanishes`, the refinement `ImplementsBatching` and the liveness `StaleKeysAreCleaned` | two requests of each kind that changes the keys: two race for one batch, and a batch can be opened, taken and opened again around them; TTL 2, so that a key can be refreshed half-way |
| `otp` | `TypeOK`, `CodeIsTheUsers`, `RateLimitGate` | two users in two tabs each and two codes: same-user and cross-user races, collision, exhaustion of the tries (2), the fallback, a lost answer; OTP TTL 3 > rate TTL 2, so a second code exists while the first is alive |
| `account_link` | `TypeOK`, `OneLinkPerCode`, `AccountResolvesToOne`, `OnlyOwnCodeMovesAccount`, `EveryRequestEnds` | an update, delivered up to twice, and a call of the endpoint, two accounts, a user in each of two companies, two issues over one value, so that user code and invite share their digits; one user is there from the start, the other registers, is edited and deleted at any time (the theorems hold for any who are); every fault |
| `webhook` | `TypeOK`, `TwiceOnlyAfterTrouble`, `AcceptedIsAccountedFor` | one update of each kind, every one delivered up to twice, one repetition in a behaviour (two would only combine the same cases); the `/compile` may be a button; TTL 1, so that a session expires between any two steps; three modules; every fault |
| `tasks_all_faults` | `TypeOK`, `OneProjectPerTask`, `ToldOnceAfterCommit`, `FailedTaskHasNoCompletedProject`, `CompileLeavesNoFile`, `EveryTaskEnds` | a finance stream task, a finance and an estimator compile task, two retries (the third is like the second), all faults |
| `report` | `TypeOK`, `CoversThePeriod`, `SentBeforeIsReported`, `ArrivesOnce`, `NoReportLeft` | one item for the bot and one for another, one report, so that both meet it at every place of the queue; half days up to hour 60, so that the default of a week clips nothing and "1d" clips; "0d" for the clamp; an item is retried once; every kind of chat; every fault. The theorems hold for any of these |
| `bot_admin` | `TypeOK`, `RegisteredBeforeVisible`, `NobodyIsTurnedAway`, `LoneRequestsCount` | one bot, seeded by the migration or not, since bots never touch each other's row; one creation, two edits, two toggles, so that each kind races with itself and the others; one update on its way; three secrets, two forms; every fault |
| `finance_pipeline` | `TypeOK`, `ImagesAreThere`, `LeavesFew`, `GivesUpOnlyOnNothing` | three files in every combination of categories, with and without text, fallback and STT; every fault. Two files already meet each other in every order; the theorems hold for any number |
| `media_files` | `NothingOpen`, `ReadersAgree`, the refinement `ImplementsPipeline` | two files of one messenger, out of 33 attachments that meet every row of every table and every exception; either provider, both sizes. The disk faults are left to `finance_pipeline` |

In `bot_admin` only a request for a MAX bot carries a secret, as the docstring of
`create_bot` says; the pages of the cabinet have no field for it at all. The server takes
one for every type, stores it, and would demand it of messengers that were never told: with
Telegram in `SecretTypes`, `NobodyIsTurnedAway` fails.

`LeavesFew` names the three kinds of files that do stay behind: files of an unknown
category, recordings when no STT provider is configured (both contrary to the "proper
resource cleanup via finally blocks" of `_download_and_parse_media`), and parts of failed
writes. Nothing else does.

Fairness. In `Session` only the clock is fair: Redis expires keys, nobody has to send
anything. In `AccountLink` a handler that can run is run, faults are not required to
happen, and nobody has to send anything. In `Tasks` the worker is fair (`restart: always` in
`docker-compose.yml` keeps one running) and the router is not obliged to publish.

`CHECK_DEADLOCK FALSE` stands where every request or message may have ended and nothing is
left to do; in `OTP` the clock never stops, so deadlock is checked.

### What the code does not do although it says so

Three runs expect a violation. Each checks one sentence of a docstring or a test.

- `telegram_gets_200`: "For TG: always returns 200" does not hold when linking violates the
  unique column, and neither when a prompt meets an HTTP error.
- `failure_is_recorded`: a handler that raises leaves no project with status failed; the
  flushed row was rolled back before the except branch looks for it.
- `provider_failure_is_told`: the apology for two failed providers is never sent, since the
  handler drops the flag that asks for it.

## 4. Proofs

`SessionProofs` proves, for any sets of requests and any `SessionTTL` > 0:

- `TypeCorrect`: `Spec => []TypeOK`.
- `KeysExpireTogetherAlways`: `Spec => []KeysExpireTogether`.
- `HandedOverOnceAlways`: `Spec => []HandedOverOnce`.
- `NoItemVanishesEver`: `Spec => NoItemVanishes`.
- `Refinement`: `Spec => ImplementsBatching`.

`TypeOK` is inductive as it stands, and `KeysExpireTogether` relative to it. The third is
not: the code allows a request's item into the payload because its program counter still
says "accumulate", so the invariant must say that the items in payload and snapshots are
those of requests that have ended, and that a snapshot is empty before its request took it.
For the refinement the abstract state is the log and the snapshots. The step that matters is
`CompileTake`, which must take what `Batching` would; the invariant behind it says that the
payload is exactly the part of the log after its last entry that is not a message, and that
each request is in the log only once, after its step. `NoItemVanishes` needs that a
`/compile` has drained nothing before it takes, so that no snapshot is overwritten (`Ledger`).
`Ledger` says besides where an accepted item is: in the payload, in a snapshot, or before a
`/new` or an expiry in the log. `Session` alone has no property about that; `Webhook` has.

`WebhookProofs` proves, for any updates and any number of deliveries of each:

- `TypeCorrect`, `TwiceOnlyAfterTroubleAlways`, `AcceptedIsAccountedForAlways`: the three
  properties of `webhook`.

A delivery is a request of `Session`, and `SessionProofs` holds for any requests: the module
takes it as the instance `Proven`, with the deliveries for the requests, and cites its lemmas
about a step of the session (`TypeNext`, `LogNext`, `LedgerNext`). Its own invariant says
the rest. `Hearing`: a delivery still being served has heard nothing, or its messenger has
stopped waiting. `InOrder`: every earlier delivery of an update went wrong. `Settled`: a
delivery that made its change is past the places where an error is answered, unless it came
to harm. Of two deliveries that both made a change, the earlier was answered an error, which
is `TwiceOnlyAfterTrouble`. `Draining`: a `/compile` that holds a snapshot is on its way to the
broker, has been there, or came to harm; with `Ledger` that is `AcceptedIsAccountedFor`. The
steps are reduced to two forms first, `Turn` (what one step does to its delivery) and `Books`
(what it does to the session), so that the invariant is shown to be kept once and not for
every branch of the dispatch.

`AccountLinkProofs` proves, for any accounts, companies, users, codes and requests:

- `TypeCorrect`, `OneLinkPerCodeAlways`, `AccountResolvesToOneAlways`,
  `OnlyOwnCodeMovesAccountAlways`: the safety properties of `account_link`.

`AccountResolvesToOne` is where the check before the flush would not do: what another
transaction commits in between is invisible to it. `Locks` is what holds instead, from the
flush to the commit: two open writes differ in their rows and in their accounts, the account
of an open write is no other user's, and a user whose row is being written is not deleted
meanwhile. The routers of the cabinet keep this because they wait for the same locks.
`NewUsers` adds that the user an invite will create is nobody else's and no deleted one. The
other two are about issues: `OnePlace` says that an issue is under one key, or in the hands
of one request, or used; `RightKind` that its place tells whom it was issued to; `InOrder`
that the next number is new.

`BotAdminProofs` proves, for any bots, requests, forms, secrets and updates:

- `TypeCorrect`, `RegisteredBeforeVisibleAlways`, `LoneRequestsCountAlways`: `Spec =>` the
  properties of `bot_admin`.
- `NobodyIsTurnedAwayAlways`: if `SecretTypes \subseteq {"MX"}`, then
  `Spec => []NobodyIsTurnedAway`.

The row a request commits was read some steps ago. `Changing` and `ByKind` say what of it
can still be relied on, `Meeting` that requests which overlap have met, `StillSo` that what
a request read is unchanged when it met none of a kind: hence `LoneRequestsCount`. For the
messenger, `CleanRotation` follows a rotation that runs alone and unharmed from one call to
the next, `TrustIsDeserved` keeps what it arrived at, and `CalmIsWelcome` carries it to the
updates on their way. The hypothesis is the one the run has: only for MAX does the
docstring of `create_bot` speak of a secret. Without it the theorem is false, see section 3.

`FinancePipelineProofs` proves, for any number of files and any subset of the faults:

- `TypeCorrect`, `ImagesAreThereAlways`, `LeavesFewAlways`, `GivesUpOnlyOnNothingAlways`:
  `Spec => []` of the properties the run checks.

None of the last three is inductive. That images are there at the fallback needs that no
step before `Finish` removes one (`ImagesKept`), and for that, that the file at hand is none
of the images yet (`FileAtHand`). That few files are left needs a reason for each file on
disk at every step, the file just downloaded included (`Accounted`). That the handler gives
up on nothing only needs that whatever was said is still among the parts, and that the loop
was left after the last file (`AllHeard`). The invariant `IInv` is the conjunction of these
with `TypeOK` and `GivesUpOnlyOnNothing`.

Of `MediaFiles` it proves, for any attachments and either STT provider:

- `MediaImplementsPipeline`: `MediaSpec => ImplementsPipeline`. Each action of `MediaFiles`
  is one of the pipeline's or leaves its variables alone, so that `IInv`, and with it the
  theorems above, hold of the handler with its readers spelled out.
- `NothingOpenAlways`, `ReadersAgreeAlways`: `MediaSpec => []` of the properties the run checks.

The tables are compared in lemmas without variables (`AttachmentForms`, `TypeOfAttachment`,
`UnknownIsExcepted`, `RefusedIsExcepted`, `ConvertedIsAudio`): whatever a form and a name
may make of a content, the type that results is the content's or one of a few, and what the
tables behind it do not know is not understood or among the exceptions, flac and the aliases
included. The invariant carries this along the loop: no file is passed over but for a reason
(`Passed`), none is read before its turn (`ReadBefore`, so that a conversion directory is
never one of a file already read), and once there are rows the images have been read
(`ImagesRead`).

`ReportProofs` proves, for any items, reports, commands, clock and faults:

- `DatesCoverPeriod`: for any hour and any number of days, the dates of a report, read as
  the query reads them, span the hours asked for and at most a day more.
- `TypeCorrect`, `PeriodIsCovered`, `SentBeforeReported`, `ReportArrivesOnce`,
  `ReportIsRemoved`: `Spec => []` of the five properties the run checks.

Again only `TypeOK` is inductive. The invariant `Strong` adds `QueueOK` (a task is in one
place: a message is in the queue once, and a queued item is in it or waits for its retry),
`AheadOK` (for each report in the queue, every item that was published before it is either
in front of it, or done, or was retried), and `History` (a report that has not been taken
has no rows, file or copies; its dates are those of the hour it was asked in; what it found
completed stays completed). When the query runs nothing is in front of it, so `AheadOK`
turns into `SentBeforeIsReported`; `DatesCoverPeriod` and `History` give `CoversThePeriod`.
The arithmetic of days and hours is in two lemmas at the head of the module.

`OTPProofs` proves, for any users, tabs, codes, number of tries and times to live:

- `TypeCorrect`, `CodeIsTheUsersAlways`, `RateLimitGateAlways`: the three properties of `otp`.

That a code is the user's needs, beyond the types, that a request about to write has a code
(`Chosen`), although the loop may end without one; a code whose answer was lost is in
`untold` until it is used, expires or is shown to somebody. The rate limit reads a key that
expires, the property a clock since the latest code: `RateClock` says that the two always
add up to `RATE_LIMIT_TTL`, so that a key that is gone means a code that old.

`TasksProofs` proves, for any messages, any `max_retries` and every fault:

- `TypeCorrect`, `OneProjectPerTaskAlways`, `ToldOnceAfterCommitAlways`,
  `FailedTaskHasNoCompletedProjectAlways`, `CompileLeavesNoFileAlways`: `Spec => []` of the
  safety properties `tasks_all_faults` checks.

The reason behind the first two is in `OnlyTheLatest` and `CommitsLast`: an attempt has
nothing in the database before its commit, and what is retried failed before it, so that
only a task's latest attempt can have a project, and the retried one has none. `SaysItOnce`
adds that nothing was said when the send begins. `Corrected` carries what the except branch
has seen to over to the task that failed, which needs `KnowsItsProject`: an attempt that has
committed still has the id of its project. `FilesAreDelivered` gives each CSV a reason at
every step.

Assumed are the named ASSUMEs of the modules (disjoint kinds of requests, a positive TTL, a
number of files, values that stand for nothing and are none of the values beside them),
which TLC evaluates in the runs. Two were added for the proofs: `SessionConstants` of
`Webhook` (the commands are different updates, and the clock's entry in the log is none of
them) and `NoneIsNoRecord` of `BotAdmin`. The invariants were checked by TLC on the instances
of the runs before they were proved.

Model-checked only: the liveness properties `StaleKeysAreCleaned`, `EveryRequestEnds` and
`EveryTaskEnds`, since fairness and ENABLED are outside what the prover handles. Every
invariant and every other action property or refinement of a passing run is stated by one of
the theorems.

## 5. Not modelled

- What the AI returns, the wording of messages, the CSV format: data without control.
- The adapters' HTTP traffic beyond its outcomes; keyboards, which nothing in the application
  sends; the registration of Telegram and Yandex bots, where no secret must be kept equal.
- JWT authentication, passwords, permissions, and the company a registration creates: what
  remains of third-party code once its routers' changes of the users table are in
  `AccountLink`. The refusal to delete a user who owns projects is left out, which only
  allows more deletions.
- Repositories, which the application does not use; the pages that only read.
- The double-checked initialisation of `session.py` and `base.py`: it never meets a second
  thread, since the API is one event loop per process and the worker runs one task per
  process (`--concurrency=1`), with a new event loop and a new adapter for each coroutine.
- The collision loop of `generate_invite_code`, see `OTP`.
- An `unlink` that fails: the code logs or ignores it wherever it may happen.

## 6. Plan

1. `ChatFlow`: `Webhook` and `Tasks` composed through the broker: what the user accumulated
   is in at most one project, with the abstract promise from update to answer.
2. `FinancePipeline` as the handler of `Tasks`, with an abstract handler both agree on.
3. Invite codes in `OTP`, generated with their own collision loop, racing for one value.

Next theorems: those of the modules above. `ChatFlow` can take `WebhookProofs` and
`TasksProofs` as instances, the way `WebhookProofs` takes `SessionProofs`.
