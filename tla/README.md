# ownsms in TLA+

ownsms is a Django application that turns Android phones into SMS gateways: a
developer's service posts messages and campaigns over HTTP, a paired phone polls
for jobs, sends them over its SIM and reports what became of each, and webhooks
tell the developer. This directory holds a model of that program: TLA+ modules,
TLC configurations that check them on small instances, and proofs checked by
TLAPS. Source paths below are relative to `src/src/ownsms/`.

## 1. The system

| Component | State it keeps | Operations | What makes it correct |
|---|---|---|---|
| dispatch (`services/dispatch.py`, `views/device.py`, `ownsms_housekeeping`) | message rows: status, error, timestamps, lease | `claim_jobs` in a long poll, `report_status`, `expire_and_reclaim` | no SMS twice; a row never claims more than the phone did; every message ends; every event told |
| messaging (`services/messaging.py`, `views/messages.py`) | message rows, idempotency key | create, cancel, list | one message per idempotency key; a canceled message is never sent; a list read page by page misses nothing |
| campaigns (`services/campaigns.py`, `views/campaigns.py`) | campaign status, total, key | create, pause, resume, cancel, detail (which completes) | canceled and completed campaigns have nothing left to hand out; a finished one completes |
| webhooks (`services/webhooks.py`, `views/webhooks.py`, `ownsms_webhooks`) | configuration, deliveries | `enqueue`, `send_pending`, configure | rows tell what was POSTed; retries are bounded, spaced and end |
| registration (`services/registration.py`) | accounts, devices, SIMs, pairing codes | register, pair, make a code, create SIMs | a code pairs one device |
| keys and authentication (`auth.py`, `views/keys.py`, `tokens.py`) | API keys: scopes, revoked, allowlist | resolve, mint, revoke | scopes never grow along a chain of keys |
| device management and presence (`views/devices.py`, `views/device.py`) | device status, `last_seen_at` | activate, deactivate, poll, heartbeat | an inactive device opens no poll and makes no report; a polling phone counts as online |
| SIMs (`models.py`) | `is_default` | save, delete | one default per device |
| segments, templating, phone numbers (`segments.py`, `services/templating.py`, `phone.py`) | none | pure functions | no text counts more segments than it takes; a campaign's texts are its recipients' own |
| lists (`views/messages.py`, `views/campaigns.py`, `views/webhooks.py`) | none | a page after a cursor | nothing missed, nothing twice |
| admin (`admin.py`) | none of its own | bulk actions, forms, deletion | what holds elsewhere holds in spite of them |
| audit, docs, settings, migrations | logs and static data | - | - |

How they interact. All state is in the database and all coordination goes
through it. A web thread serves each request; cron starts the two management
commands, and a slow run may overlap the next. `claim_jobs` reads the campaign's
status; `campaigns.control` updates message rows; `report_status` and
`expire_and_reclaim` call `webhooks.enqueue`, which reads the webhook's
configuration and inserts a delivery that `send_pending` later reads.

What is hard. Only `claim_jobs`, `create_campaign`, registration and the forms of
the admin run in a transaction; every other handler is a sequence of statements between which any
other thread may run, and several save what they read some time before:
`report_status` (the row), `_maybe_complete` (the campaign), `send_pending` (the
deliveries), `expire_and_reclaim` (the list of queued rows). A poll outlives a
lost connection while the phone polls again. A reply with claimed jobs may be
lost and the phone's app may be killed, so a lease decides that such jobs failed
and a late report may prove the guess wrong. Phones repeat and reorder reports.
`PROJECT.json` lists these hazards one by one, each at its line.

## 2. Modules

| Module | Models | Extends | Proofs |
|---|---|---|---|
| `Lifecycle` | the stages of one message, abstractly | | |
| `Dispatch` | claim, report, expiry, lease, cancel | | `DispatchProofs` |
| `Campaigns` | the status of a campaign | `Dispatch` | `CampaignProofs` |
| `Delivery` | the attempts and the end of one event, abstractly | | |
| `Webhooks` | the delivery of events | | `WebhookProofs` |
| `Composing` | segments, templates, the choice of a SIM | | `ComposingProofs` |
| `Sending` | how messages and campaigns are created | `Composing` | `SendingProofs` |
| `Listings` | lists page by page, the counts of a campaign | | `ListingsProofs` |
| `Accounts` | registration, pairing, API keys | | `AccountsProofs` |
| `Devices` | presence, the seconds of a long poll, SIMs | | `DevicesProofs` |

**`Lifecycle`** and **`Delivery`** are the abstract specifications. `Lifecycle` has the
stages of one message and the edges between them; a message failed with
`lease_timeout` is in a stage of its own, `presumed`, since reports may correct it.
`Delivery` has the attempts of one webhook event: while pending it may be tried, up to
the limit, and it ends delivered if an attempt was acknowledged, or failed if the limit
is reached. `Dispatch` implements the first (`Refines`), `Webhooks` the second
(`KeepsPromise`), each under the condition its proof names.

**`Dispatch`** is the core. One action is one SQL statement or one transaction
with the Python around it, which is the grain at which the threads interleave.

| Variable | In the code |
|---|---|
| `rows` | `Message.status`, `error_code`, is `sent_at` set, is `delivered_at` set; `none` is a row not yet inserted |
| `left` | minutes left until `created_at + ttl`, `scheduled_at`, `lease_expires_at`; `Tick` counts them down, so `<= now` reads `= 0` |
| `gate` | is the campaign's status one `claim_jobs` excludes (paused, canceled)? |
| `control` | the developer's thread between the two statements of a campaign's cancel |
| `active` | `Device.status` |
| `poll` | each long poll: idle, looping, about to reply with its claimed jobs |
| `report` | each thread in `report_status`: the copy of the row it read, whether it has saved |
| `run` | each `expire_and_reclaim`: the overdue rows not yet handled, the lapsed leases, the row not yet told |
| `phone`, `radio` | outside the repository: what the phone knows of a job and how often the SMS went out |
| `outbox` | calls of `webhooks.enqueue`, counted by message and event |

Actions: `Insert` (`create_message`, `create_campaign`), `MessageCancel`,
`CancelQueued` (the admin's bulk action), `ControlSave` / `ControlCancelMessages` /
`ControlCancelSave` (`control`), `DeviceAction`, `PollStart` / `ClaimJobs` /
`PollTimeout` / `PollReply` / `PollReplyLost` (`poll`), `ReportRead` / `ReportSave` /
`ReportNotify` / `ReportCrash` (`report_status`), `RunStart` / `RunExpire` /
`RunNotify` / `RunReclaim` / `RunCrash` (`expire_and_reclaim`), `PhoneSend` /
`PhoneReceipt` / `PhoneDies`, `Tick`. The constant `Faults` says which of lost
replies, crashes, dying phones and deactivation an instance has; `Overlap` says
whether two reports on one message may be served at the same time.

**`Campaigns`** extends `Dispatch` with the status of the campaign and the
viewers of its detail, which complete it on the way (`Detail`, `Check`, `Complete`).
Each of its actions is an action of `Dispatch` (or leaves its variables alone),
conjoined with what happens to the status; `CampaignNext` composes the two, and
`Rest` is what `Dispatch` does without the campaign's status.

**`Webhooks`** models the configuration (`Put`), the delivery table (`Enqueue`, to a
message's `callback_url` or the account's) and the runs of `send_pending`
(`SendStart`, `Post`, `SendSave`, `SendEnd`, `Crash`). Time is in minutes: `wait` is
what is left until `next_retry_at`, and a run carries its age because a retry is
counted from the run's start. `posted`, `heard` and `since` observe the attempts
and how each ended (`Ends`): without a POST, with its answer lost, with a 2xx, or with a
redirect that urllib follows to a 2xx. `Passes` is the check of a url, on sending. `Backoff`
is `2**attempts`.

**`Composing`** holds what is pure: `CountSegments` and the reference `CountedRight` it
should meet, `Render` and `Bad` (a template against the variables of each
recipient), `ResolveSim` and `SimOf` (which SIM a message goes out over) and
`Compose`, the messages of a campaign. A text is the number of its basic, extended,
other and astral characters: `count_segments` looks at no more, and takes the last two for the
same (`Length`). The reference does not use the code's length. It asks how many
SMS there must be (`CanHold`, in septets or UCS-2 units) and how many are enough in whatever order
the characters come (`Holds`), given that neither an escaped character nor a surrogate pair is divided
between two segments.

**`Sending`** models how rows come into being: `create_message` and
`create_campaign` as threads that refuse what is malformed (`Reject`), look the
idempotency key up (`Lookup`), refuse what is invalid (`Decline`), insert
(`InsertMessage`, `InsertCampaign`, `Commit`) and, stopped by the unique constraint,
ask for the row in the way (`Requery`). `messages` and `campaigns` are the two
tables as sequences, whose index is the primary key; a campaign is visible to others
only when its transaction commits. `thread` holds the request, the copy of the
device row that came with the API key, and what equal requests had been told when
this one began; `answered` holds the 202 answers that arrived. `Crash` is also the
loss of an answer. A request names a body; what the body says (recipient, text,
sender, template) is `Letter` and `Draft`; that both are texts and templates of the
kind the views let through, and that a device has finitely many SIMs, is the module's
`ASSUME`.

**`Listings`** models the lists of messages, of a campaign's messages and of
deliveries: `table` with rows inserted, committed, rolled back, moved and deleted
(`Insert`, `Commit`, `Rollback`, `Move`, `Delete`), and one developer's `walk` along
the cursor (`StartWalk`, `Page`). It remembers in `stayed` which rows its list has
shown all along. `Progress` is the counts of a campaign's detail.

**`Accounts`** models registration, pairing codes and API keys: `device`, `apiKey` and
`code` are the tables, `thread` the threads that hold a pairing code's lock or an
API key they have read. `PairRead` waits for the lock (`select_for_update`), as
PostgreSQL does. `RevokePicked` is the admin's bulk action.

**`Devices`** has two halves. Presence: `seen` (seconds since `last_seen_at`), the
device's status with the time since it was deactivated, and the long polls second by
second (`PollStart`, `PollTurn`, `PollWakes`, `Second`, `Seen`, `SetStatus`). SIMs:
the table `sim` and the transaction of each administrator in `editor`, with the two
statements of `Sim.save` (`SimWrite`; `SimClear` takes its list, `SimCleared` writes
it), `Commit`, `Abort` and `SimDelete`; `CreateSims` is how registration leaves them.

The eight modules named `...Proofs` hold the theorems, the modules named `MC...` the
constants of the instances. Operators marked "mutant" are plausible bugs; each
property is known to fail when the operator named in `PROJECT.json` takes the place
of the one it mutates.

### Decisions about the model

- The transaction of `claim_jobs` is one action: `SELECT ... FOR UPDATE` holds its
  rows until the `UPDATE`. Another poll waits for those rows and then takes what is
  still queued; which rows it waits for makes no difference to what it may take.
- A bulk `UPDATE` is one action. So is the `UPDATE` of one row in the expiry loop,
  whose status guard is evaluated by the database at that moment.
- `RunReclaim` fails the leases that had lapsed at the run's start: the code
  compares with the `now` it was given, not with the clock.
- A device never reports the error code `lease_timeout` itself; that string is
  the server's. The phone reports only outcomes the job has had, again and in any
  order.
- A report that is refused, a poll that finds nothing and a view of a closed
  campaign change nothing and are stuttering steps.
- `outbox` counts the calls of `enqueue` as if the account's webhook were
  subscribed to everything. That `enqueue` itself swallows errors is outside the
  model. `Webhooks` begins where such a call makes a delivery.
- `Sending`: a lost race on a test key ends in an uncaught `IntegrityError`, which is
  an answer like a refusal. Live and test keys share the idempotency keys of the
  account, as in the code.
- `Accounts`: a call acts on the key it read at its start; a revocation in between
  does not stop it.
- One campaign, one pending cancel of it at a time.
- The messages of a test key are not in `Dispatch`: `create_message` inserts them already
  delivered, with no SMS and no event, and no handler changes them again. `Sending` has them,
  for their idempotency keys.
- The admin's form may move a SIM to another device; `Devices` keeps `DeviceOf` fixed.
- SIM transactions run at READ COMMITTED, PostgreSQL's default: a statement sees the
  rows committed when it begins, over those of its own transaction, and waits for
  rows another transaction has written. So two administrators may insert two default
  SIMs of one device side by side without seeing each other. `rivals` names such
  pairs, and the property allows for nothing else.
- `Listings`: one table stands for the table of the list walked through, since
  nothing relates the rows of two lists. A campaign's messages commit together.
- A run of `send_pending` stops 50 s after its start plus one POST with a timeout
  of 5 s, so the clock passes a full minute at most once while a run works
  (`MaxAge`). An endpoint that trickles its answer byte by byte could take longer;
  that is not modelled.

## 3. What TLC checks

| Run | Instance | What it shows |
|---|---|---|
| `dispatch_safety` | 1 message of a campaign, 2 polls, 2 report threads, 2 housekeeping runs, lost replies, dying phone, crashes, deactivation, overlapping reports | `AtMostOnce`: no SMS goes out twice. `NeverHandedOut`: what is called queued, canceled or expired is in nobody's hands. `RowsConsistent`: timestamps and error agree with the status, stale saves included. `NothingInvented`: rows and events claim only what the phone did. `ExpiredEventOnce`, `FinalRows`: expiry happens once and canceled and expired rows never change. |
| `dispatch_liveness` | 1 message, fair | `EverySettles`: housekeeping ends every message even if the campaign is paused and the phone dead. `TruthPrevails`: a delivery the phone knows of ends up in the row although the lease lapsed first. |
| `campaigns` | 2 messages of a campaign, 1 each of poll (batch 1), report thread, housekeeping run and viewer; lost replies, dying phone, fair views | `CompletedIsOver`, `CancelHolds`: a completed or canceled campaign has nothing left to hand out, whatever ran between the statements of a view or a cancel; what the phone of a completed one still holds is presumed lost. `NeverStuckOpen`: a campaign with nothing under way completes if somebody looks. `Refines`: every step of the whole system moves messages along edges of `Lifecycle`. `EventOnce`, `NoLostEvent`: each event is enqueued once, and none is missing. |
| `webhooks_overlap` | 1 delivery, 2 overlapping runs that may crash; public and private urls | `TypeOK`, `HonestRows`: delivered means that a POST was answered with 2xx, by the url or by where it redirects; failed means tried as often as promised; and no row counts past the limit. |
| `webhooks_single` | 2 deliveries, 1 run, reading 1 per run, fair | `KeepsPromise`: what the runs do is what `Delivery` promises: at most `MAX_ATTEMPTS` POSTs, of pending events only, and an end that the POSTs justify. `BackedOff`: they are spaced by the doubling backoff. `DoneIsDone`: what is done is not sent again. `EverySettles`: every event is delivered or given up. |
| `sending` | 2 threads, 1 key, 2 SIMs; messages (immediate, queued, test) and campaigns, good and bad ones, with texts on the boundaries of the segments | `RetriesAgree`: all accepted requests with a key are told one row. `KeptPromise`: a repeat of an answered request is told the same, be the device offline by now. `KeylessNeverCollide`: requests without a key never share a row. `SegmentsRight`: what is stored as the number of segments is never more than the text takes, and enough for texts without astral characters (in any order, if no boundary can meet an escaped one). `WholeOrNothing`: each recipient gets one message with its own text, or nobody does. `EvenShares`: SIMs that take turns carry equal loads. |
| `listings` | 3 rows, 2 of a campaign, through all seven statuses; pages of 1, 2 and 3 | `NothingMissed`, `NoRepeats`: a walk lists what was there all along, once. `ProgressAgrees`: the counts of a campaign agree with its list under each public status. `WalkEnds`: every walk is answered to its end. |
| `accounts` | 2 accounts, 3 devices, 4 keys, 1 code, 2 threads | `PairedOnce`: a code brings in one device. `OneAccount`: a key sends through a device of its own account. `RevokedForGood`: when an account's last key with some scope is revoked and the calls begun with it are over, no key of other scopes brings it back, only a pairing does. |
| `devices` | 1 connection, polls of 2 s and turns of 1 s, online for 5 s; 2 SIMs of the device, 1 of another, 2 administrators | `OnlineWhilePolling`: a phone that polls counts as online all the time. `OffInTime`: deactivation ends what a device is given within the length of a poll. `OneDefault`: a device has one default SIM, rivals excepted. `DefaultStays`: a SIM loses its default only to a save of it or of another one of its device. |

Three runs end in a counterexample: the code does something other than a document
or a test says.

| Run | What the trace shows |
|---|---|
| `scheduled_expires_early` | The ttl counts from the creation even if `send_at` is later. With the default of 24 h a message scheduled two days ahead expires before it is due. |
| `lease_timeout_untold` | The lease reclaim fails messages without enqueueing `message.failed`, unlike every other failure. |
| `stale_report_undoes_failure` | Two reports on one message served at once: the thread that read the row first saves `sent` over the failure. |

The properties that hold say what the code does, which is in places less than one might
expect. These limits are stated in the properties and the hazards, and the model has their
behaviours:

- A campaign may say completed while the phone still holds a job whose lease has lapsed, and
  sends it afterwards. `CompletedIsOver` allows for no other job in hand.
- A canceled campaign can be resumed and then says running; it finds nothing to send.
- `count_segments` counts an emoji as one unit though it takes two, and does not see that an
  escaped character cannot be divided between two segments. `EmojiUndercounted` proves the
  first; `tests/test_properties.py` at the top of the repository asserts the opposite ("Any text up
  to 70 chars always fits in exactly 1 SMS segment."), in the code's own count.
- urllib follows a redirect of a POST (301, 302, 303) with a GET without a body. If that is
  answered with 2xx the delivery is saved as delivered, although nobody took the event.
- Overlapping runs of `send_pending` may POST an event more often than `MAX_ATTEMPTS`.
- A crash between a save and its `enqueue` loses the event.
- Two SIMs made default at once, each by a transaction that does not see the other's, both stay
  default (`rivals`).

A campaign counts its messages that are `sent` as under way, so it stays running until
their delivery reports come; `NeverStuckOpen` speaks of campaigns with nothing under way
in that sense.

**Bounds.** Messages are independent of each other except through batches, the
campaign's gate and one run's list, for which two suffice. Two of each thread is
what an interleaving on one row needs. A message has at most one minute to live, to wait
or on lease (two minutes in two of the counterexamples), which already gives every
order of ttl, schedule and lease, since threads may act before and after each tick; a
countdown at 0 stays there, so time needs no further bound. With a `BatchSize` of 1 a queue of two is
longer than the batch, and one of one is not. `MAX_ATTEMPTS` is 3 instead of 5: the
first, a middle and the last attempt. `posted` is bounded by `MaxPosts` = 5, and only
where runs overlap or die, because there the code sets no bound. In `sending` the
tables have at most `MaxRows` = 2 rows in all, enough for two requests that should
share a row and do not; the sizes of segments are the real ones, and the texts of
`MCSending` fill one, fill two and run over. In `listings` three rows and pages of up to
three give walks of several pages, full ones at the end of the list, and rows that
show up above and below the cursor. In `accounts` the primary keys are the bound: a
device and a key for each account, one more device to pair, and two more keys to mint
or provision. In `devices` the seconds are scaled down; ages and `seen` stop counting
where the code no longer tells them apart.

Symmetry is used in runs without liveness only: over threads, connections, runs,
administrators and workers, and in `accounts` over accounts, devices and keys. They
differ in name alone.

**Deadlock** is checked in every run.

**Fairness.** `Dispatch`: time passes; cron starts housekeeping again and a run
goes on (weak fairness of `Progress`); a thread serving a report goes on; the phone
repeats a report until it is taken (strong fairness of `ReportRead`, since other
reports may occupy the threads). Nothing is assumed of the developer, of polls or
of the phone's sending. `Campaigns`: somebody looks at the campaign now and then
(weak fairness of `View`). `Webhooks`: time passes and cron runs the command.
`Listings`: a developer who has begun a walk asks for the next page (weak fairness of
`Page`). There is no crash in the liveness runs: a run that always crashes settles
nothing.

## 4. What is proved

TLAPS checks these theorems for every value of the constants that meets the
`ASSUME` of the module (types, and what the settings must satisfy). Each is about the
specification the runs check.

| Theorems | State | Beyond the module's assumption |
|---|---|---|
| `TypeCorrect`, `NeverSentTwice`, `CancelIsTrue`, `RowsAgree`, `OnlyTheTruth`, `ExpiresOnce` | `[]` of `TypeOK`, `AtMostOnce`, `NeverHandedOut`, `RowsConsistent`, `NothingInvented`, `ExpiredEventOnce` | - |
| `FinalStays` | `FinalRows` | - |
| `NothingUntold`, `EventsOnce` | `[]NoLostEvent`, `[]EventOnce` | the first property speaks of instances without crashes, the second of those without overlapping reports |
| `ImplementsLifecycle` | `Spec => Refines` | no overlapping reports |
| `PhoneIsHeard` | `[]NeverRefused`: an outcome of the phone that the row does not show yet has a report the server would take | - |
| `GivenUpInTime` | `[]DeadlinesKept`: nothing expires before its ttl is over, no job is presumed lost while its lease runs | - |
| `FailureStays` | `GenuineFailureStays`, which the run `stale_report_undoes_failure` refutes | no overlapping reports |
| `ExpiresAfterDue` | `[]ExpireOnlyAfterDue`, which the run `scheduled_expires_early` refutes | no message is scheduled for later than its ttl |
| `CampaignIsDispatch` | `CampaignSpec => Spec`, which carries the theorems above over to campaigns | - |
| `CompletedHasEnded`, `CanceledStays` | `[]CompletedIsOver`, `CancelHolds` | - |
| `TypeCorrect`, `RowsAreHonest`, `AttemptLeft` (`WebhookProofs`) | `[]TypeOK`, `[]HonestRows`; a pending delivery has an attempt left | - |
| `DoneStays` | `DoneIsDone` | one worker |
| `ImplementsPromise`, `PostsBounded`, `RetriesSpaced` | `Spec => KeepsPromise`, at most `MAX_ATTEMPTS` POSTs, `BackedOff` | one worker that does not crash |
| `AccountsType`, `CodeSpentOnce`, `KeyAndDevice`, `RightsStayRevoked` | `[]AccountsTypeOK`, `[]PairedOnce`, `[]OneAccount`, `RevokedForGood` | - |
| `StaysOnline`, `SoonOff` | `[]OnlineWhilePolling`, `[]OffInTime` | the module assumes that a poll, a turn of its loop and `Gap` together are shorter than `DEVICE_ONLINE_SECONDS` |
| `OneDefaultHolds`, `DefaultIsKept` | `[]OneDefault`, `DefaultStays` | - |
| `WalksMissNothing`, `WalksRepeatNothing` | `[]NothingMissed`, `[]NoRepeats` | - |
| `WalksGoDown` | no page is an error, and each ends the walk or takes the cursor strictly down | - |
| `CountsAgree` | `[]ProgressAgrees` | no public status is the value for "no filter" |
| `OneRowPerKey`, `PromisesKept`, `KeylessApart`, `CampaignsWhole` | `[]RetriesAgree`, `[]KeptPromise`, `[]KeylessNeverCollide`, `[]WholeOrNothing` | - |
| `TypeCorrect`, `SegmentsCounted`, `SharedEvenly` (`SendingProofs`) | `[]SendingTypeOK`, `[]SegmentsRight`, `[]EvenShares` | - |
| `CountIsRight`, `NeverCheaper` | `CountSegments` is never more than the text needs, and enough without astral characters if no boundary can meet an escaped one; more text never counts fewer | - |
| `EmojiUndercounted` | 36 to 70 emoji (with the real sizes) count as one SMS, which cannot hold them | - |
| `OneSim` | `ResolveSim` finds one SIM at most, none only if none matches, and the default if nothing else is asked | - |

The arguments.

**`DispatchProofs`.** `TypeOK` is inductive as it stands; the others are not. `IInv` adds
what the code relies on without saying so:

- `Hands`: a message is in at most one place, on one reply or with the phone, and
  only once it has left the queue; it went out at most once, and not at all while
  the phone merely holds it. This gives `AtMostOnce` and `NeverHandedOut`.
- `Copies`: a thread serves a report the phone may make, of a message that was
  handed out, and the copy it holds, however stale, is a consistent row that lets
  the report in. This makes a stale save harmless to `RowsConsistent`.
- `Truth`: rows and events against the phone's knowledge, which only grows.
- `Expiry`: events and pending notices of expiry are together at most one per
  message and only for expired rows.

Without overlapping reports `Alone` says that the copy a thread holds is the row but for
a lease that lapsed meanwhile; on it rest `Once` (an event enqueued, or about to be, is of
the past of its row) and the steps of `Refines` (`StageStep`: one case per action).
`NoneForgotten` and `Told` are for `NoLostEvent`: whatever was
saved and not told yet, a thread or a run still holds.
`PhoneIsHeard` follows from `IInv` alone, so it holds with overlapping reports too: it is
the safety half of `TruthPrevails`, to which the run adds that the phone makes the report.
For the deadlines, `ReadInTime` says that what a housekeeping run holds had run out when
it was read and has run out for good: a claimed row is never claimed again, so nothing
sets its lease twice. Two of the three findings are bounded by a theorem: without overlapping
reports no failure is undone, and with no schedule beyond the ttl nothing expires early.

**`CampaignProofs`.** `StepsOfDispatch` shows that each step is one of `Dispatch` or a
stutter of it. `CInv` is about threads between two statements: what a viewer or a cancel
found of the messages stays true, since no message comes back to the queue. `HandsShow` says
of a job that the phone still has that its row is dispatched or presumed lost.

**`WebhookProofs`.** `Left` (a pending row has attempts left) and `Held` (a run holds only
rows that were pending with an attempt left, the attempts it read were made, and what it
is about to save was POSTed) are kept by any overlap of
runs. With one worker, `Fresh` says that what it read is still so, and `Counted` that
a row counts every POST, which bounds them; with `OneAtATime` (a run saves one row at a
time) they give `ImplementsPromise`, one lemma per action: `Enqueue` is `Accept`, `Post` is
`Try`, `SendSave` is `Settle` or, when a retry is left, a stutter.
`Spaced` is for the waits: what rests in the table has waited `2^n` minutes since its last
POST, or will have when `next_retry_at` comes, give or take the minute of a run. It needs
what `Backoff` computes (`BackoffFacts`, `BackoffGrows`). The prover cannot instantiate the
library's induction theorems with a predicate, so `Induction` is proved here about a set
of numbers, from their well-foundedness; that the recursive function satisfies its equation
is shown by building its finite tables one entry at a time (`PowersExist`, `PowersUnique`).

**`AccountsProofs`.** `Locked`: one thread at most is past the check of a code, which is
unused. `Spent`: a code that brought in a device is used. `Owned`: keys, and what threads
have read, belong with devices of the account. For `RevokedForGood`, each step is shown to give a
scope only to whom a key or a call of the account has it already, or by pairing.

**`DevicesProofs`.** `Young`: a poll saw the device when it began and is never older than
its longest. For the SIMs, `Apart` (no row is written by two transactions), `Form`,
`Within`, `Over` and `Beside` say who still owes the clearing of which rows, inside one
transaction, towards the committed table, and between two transactions.

**`ListingsProofs`.** `OnTheWay`: nothing below the cursor has been listed, and above it
nothing that stayed is missing. That a full page has a last row is the least element of a
set of numbers, from the well-foundedness of the naturals. `WalksGoDown` is the safety half
of `WalkEnds`: a page is never empty and full at once (`PagesAreNotEmpty`: `?limit=0` counts as
1), so each page has a last row below the cursor or ends the walk.

**`SendingProofs`.** `Unique` (a constrained key is in one row of a table at most),
`Alone` (one open transaction holds a campaign's key), `Honest` (what was answered is in
the tables, which only grow) and `Sound`, which says of each thread what its position
entitles it to believe. `Composed` adds that every campaign was made by `Compose` from its body
and some order of the device's SIMs, and `Metered` that every message counts the segments
of its letter. `SegmentsRight` then rests on `RenderType` (a rendered template is a text) and
`CountIsRight`; `EvenShares` on `TurnsEven`: among `n` turns of `k` SIMs each SIM has as
many as any other, or one more, which an injection of its turns into those of the
other shows.

**`ComposingProofs`.** Rounding up by division, once, as a lemma on numbers: the count is
the least by the code's length (`CountIsFewest`), and `CodeLength` compares that length with the
units the text takes; the theorems on segments follow. `RenderType` is an induction over the placeholders of a template,
through the tables of the fold that `Render` is (`Sums`, `SumsExist`), in the same way as `Backoff`
above.

Only model-checked: liveness (`EverySettles` twice, `TruthPrevails`, `NeverStuckOpen`,
`WalkEnds`), since fairness and `ENABLED` are beyond the prover. Every invariant and every
action property that a passing run checks, and both refinements, are proved. In return
`NeverRefused`, `DeadlinesKept`, `NoError` and `Descends`, the bound on POSTs and what
`ComposingProofs` says of its operators are stated as theorems only.

## 5. What is left out

- HTTP and JSON parsing, and the wording of errors: what reaches the handlers is
  enumerated in the form they act on.
- `phone.py` wraps a library whose tables are not here; numbers are valid or not.
- The hashing of tokens, the IP allowlist and the signature of deliveries are pure
  functions on data no property tells apart.
- The audit log is only appended to, and shown.
- The generic forms of the admin may write any column of any row; its bulk actions, its SIM
  forms and deletion are modelled.
- Documentation pages, settings (constants here), routes and migrations have no state of
  their own.
- Subscription of the webhook to single events, and secrets: the model asks only
  whether the webhook is enabled.

What a next step would be: a composition of `Dispatch` and `Webhooks` through `enqueue`,
with a specification of what a developer hears of each message; several campaigns at
once.
