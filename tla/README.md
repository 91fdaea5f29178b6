# Metoer in TLA+

Metoer is the "Ring" service: it stores notifications, pushes them to devices (FCM, APNs, unified
push, and SOP, its own server-sent-events protocol), sends emails at once or in paced plans, and
offers all of it over gRPC and HTTP. This directory holds TLA+ modules that model its core, the
configurations with which TLC model-checks them, and theorems about them with proofs that TLAPS
checks. It is kept beside the code: a definition is translated from the Go source, `PROJECT.json`
("map") names the lines it stands for, and this file says what is modelled, what the checks and
the proofs show, and what is left out.

    tlc -config MCEmailPlanSequential.cfg MCEmailPlan.tla      model-check one run
    tlapm SubscriptionsProofs.tla                              check the proofs of one module

Contents: [1 The system](#1-the-system) - [2 Modules and code](#2-modules-and-code) -
[3 Runs](#3-runs) - [4 Fairness](#4-fairness) - [5 Proofs](#5-proofs) -
[6 Disagreements found](#6-disagreements-found) - [7 Not modelled](#7-not-modelled) -
[8 Plan](#8-plan)

## 1 The system

Paths are below `src/`. "State" is what outlives one request or is shared by several goroutines.

| Component | Code | State | Operations |
|---|---|---|---|
| Email sending plans | `internal/email/plan.go`, `internal/store/emailplans.go`, `httpserver/adminctl` | rows of plan, recipients, advances | create, pause, resume, manual and scheduled advance |
| SMTP sender | `internal/email/email.go` | none | one SMTP conversation |
| SOP streams | `internal/push/streams.go`, SSE handler of `httpserver/sopctl` | registry by account; per stream a queue, a mutex, a condition variable | subscribe, WaitToRead, TryRead, broadcast, unsubscribe |
| Async dispatcher | `internal/queue/queue.go` | a channel of 1024 jobs, a worker pool | enqueue, dispatch |
| Process lifecycle | `cmd/metoer/main.go` | server running or shutting down | wiring, signal, graceful stop |
| gRPC service | `internal/grpcserver` | none | send email, send push to user(s), connected devices, capabilities |
| Scheduler | `internal/scheduler` | timers | plan advance each minute, removal flush each five minutes, two daily clean-ups |
| Push delivery | `internal/push/push.go`, `senders.go`, `apps.go` | none of its own | deliver one notification, a batch; choose devices, exclude connected ones |
| Push subscriptions, token removal | `push.go`, `flush.go`, `store/subscriptions.go`, `notificationctl` | rows of `push_subscriptions`; the removal buffer | subscribe, unsubscribe, report a token invalid, flush |
| SOP replay buffer | `internal/push/replay.go`, `sop.go` | a cached list of at most 100 per account | append, remove, list |
| Notifications store | `internal/store/notifications.go` | rows of notifications | save, page, count, mark viewed, retain 100 |
| Preferences | `internal/store/preferences.go` | rows by account and topic | get, set, delete, batch lookup |
| Service discovery | `internal/discovery` | `registered`, the lease in the registry | register, renew, back off, deregister |
| Last-active publisher | `internal/middleware/lastactive.go` | a cached throttle flag per account | check, publish, set |
| Delivery observability | `internal/observability`, `store/observability.go`, `store/admin.go` | delivery and send records | record, promote Held to Success, statistics |
| Authentication, permissions | `internal/middleware/auth.go`, `permission.go` | none | one remote call per request |
| Event bus adapters | `internal/events` | none | websocket envelope over NATS; a listener that ignores its event |
| Provider clients | `internal/push/fcm.go`, `apns.go` | none | one HTTP request per push |
| Infrastructure | `config`, `db`, `redis`, `grpcclient`, `migrate`, `store/entities.go`, `codec.go` | none | connections, migrations, conversions |

How they interact:

- **By rows.** HTTP handlers, gRPC handlers, queue workers and scheduler loops of every running
  instance read and write the same PostgreSQL rows. Except for the insert of a plan with its
  recipients nothing is done in a transaction, nothing is locked, and updates say `WHERE id = ?`
  without comparing what they overwrite. The interleavings of statements are therefore the heart
  of the plan and the subscription models.
- **By a channel.** A gRPC call enqueues into the dispatcher and returns; a worker later runs the
  email or push handler with its own context.
- **By mutex and condition variable.** A delivery broadcasts into the SOP streams of an account
  while the SSE requests of its devices read them, disconnect and unsubscribe.
- **By the removal buffer.** A failed push puts the row's id into an in-memory set; the five-minute
  flush deletes the rows.
- **By remote calls.** Contacts and account queries over gRPC (a failure reads as "no contact"),
  websocket packets over NATS, pushes over HTTP, mails over SMTP, the replay list in Redis under a
  lease lock, registration with the discovery service.

What makes each hard, and what "correct" means for it:

- *Plans*: an advance lasts as long as its SMTP conversations (minutes), meanwhile an administrator
  pauses, resumes or advances by hand, another instance's scheduler lists the same plan, the clock
  passes midnight, a database call fails or the process dies. Correct: nobody is emailed twice
  (or at most as often as the overlap allows), the daily limit and the pace are kept, Completed and
  Paused stay, Completed means nobody is left, the recorded advances add up, a plan ends.
- *SOP streams*: lost wake-ups, cancellation against `cond.Wait`, writing to a stream that
  completes. Correct: each stream is a lossless channel, broadcasts reach every open stream, a
  disconnected client's request ends.
- *Dispatcher and shutdown*: a full channel, workers that stop while calls still enqueue,
  `GracefulStop` without a deadline, which waits for every call and stream. Correct: each job handled
  once and in order, lost only with the process; what can hold the shutdown up is known.
- *Subscriptions*: two registrations of one device race each other statement by statement; a push
  fails long after the row it was listed with changed. Correct: rows do not pile up, the newest
  token wins, a device stays reachable, only invalid tokens are removed and none is forgotten.
- *Delivery and replay*: who is connected is looked up, piece by piece, while devices connect,
  disconnect and list, and in another namespace than packets are sent to; the choice for one device
  depends on the whole account. Correct: a device that stays as it was gets each notification, over one
  path, as far as the namespaces allow; a SOP device that got nothing finds it later; the replay buffer
  loses only what is listed or displaced; a receipt means the device read it.
- *Preferences and notifications*: a setting is looked up and then written, without a key that keeps
  two first settings apart; pages are cut by an offset while notifications arrive, are marked and leave
  the replay buffer; retention partitions by the stored app, lists fold the empty one into the default
  app. Correct: a settled preference is honoured, a call that failed and is made again leaves nothing
  half stored, a client that pages to the end has seen the list, only what was listed becomes viewed,
  and retention deletes nothing that a list shows among its newest.
- *Discovery*: registrations, renewals, a back-off and the shutdown's deregistration race, calls are lost
  or take effect late, the registry forgets its leases. Correct: a failing call does not cost the listing,
  an instance that lost it comes back soon, one that left is not listed.
- *Last-active*: a throttle checked, an event published and a flag set in three steps (not modelled).

`PROJECT.json` lists these hazards one by one, each at its line, with the properties that would
catch it going wrong, or why none does yet.

## 2 Modules and code

| Module | Stands for | Lines of code mapped from |
|---|---|---|
| `EmailPlan` | one plan with the requests that act on it | `email/plan.go`, `store/emailplans.go`, `email/email.go`, `scheduler.go`, `adminctl.go` |
| `EmailPlanProofs`, `EmailPlanSafety` | theorems about it | |
| `SopStreams` | the live streams of one account | `push/streams.go`, `sopctl.go` |
| `SopChannel` | abstract: what one stream promises its reader | |
| `JobQueue` | dispatcher, its callers, shutdown | `queue/queue.go`, `cmd/metoer/main.go`, `grpcserver/ring.go` |
| `JobDelivery` | abstract: what the dispatcher promises for a job | |
| `JobQueueProofs` | theorems about `JobQueue` | |
| `Subscriptions` | push subscription rows, removal buffer and flush | `push/push.go`, `flush.go`, `store/subscriptions.go`, `notificationctl/handlers.go`, `scheduler.go` |
| `SubscriptionsProofs` | theorems about it | |
| `Delivery` | delivery of a notification or a batch, with its devices and the replay buffers | `push/push.go`, `replay.go`, `sop.go`, `streams.go`, `sopctl.go`, `observability.go` |
| `DeliveryProofs` | theorems about it | |
| `SopStreamsProofs` | theorems about `SopStreams` and its channel | |
| `Discovery` | the registration of one instance, with its registry | `discovery/registration.go`, `cmd/metoer/main.go` |
| `DiscoveryProofs` | theorems about it | |
| `Preferences` | the preference rows of one account and topic | `store/preferences.go` |
| `Inbox` | the calls that send notifications to an account, and the reading, marking and retention of its list | `push/push.go`, `sop.go`, `store/notifications.go`, `notificationctl/handlers.go`, `sopctl.go`, `scheduler.go` |
| `InboxProofs` | theorems about it | |
| `MC...` | instances for TLC, views, symmetry and constraints | |

Definitions whose comment starts with "Faulty:" are not part of any specification: each is a
definition of the model changed as a plausible mistake in the code would change it. One mutant
belongs to each property of each passing run; replacing the definition by its faulty form makes
TLC find that property violated, which shows that the property can tell.

### EmailPlan

One plan, since requests of different plans share nothing. `plan` holds the columns that
`UpdateEmailPlanStatus` writes (status, advanced count, `next_interval_at`, and whether `paused_at`
and `completed_at` are set), `params` the limits fixed at creation, `recipient` the status per
account, `advances` the rows of `email_sending_plan_advances`, `attemptedOn` what
`SumAttemptedToday` would sum for each day.

A request is a member of `Jobs` (a scheduler loop of an instance), `Clicks` (manual advance) or
`Toggles` (pause or resume). Its program counter moves through
`load, count, capacity, list, loop, send, update, save`: a step is one database statement, account
service call or SMTP conversation, with the computation in memory that follows it. `copy` is the
request's Go copy of the plan, `started` its `now`, `left` the remaining daily capacity, `todo` the
listed recipients not processed, `tally` its counts. `AdvancedRow` is lines 347-371 of `plan.go`,
`CompletedRow`, `CappedRow`, `PausedRow`, `ResumedRow` the other assignments to the copy.
`UpdateEmailPlanStatus` writes the whole copy over the row, compared with nothing: that is the code.

`Conversations` gives an SMTP conversation three outcomes; the third (accepted by the server,
reported as an error because QUIT failed) is what `email.go` does. `Abort` is every early
`return err` and every crash of an instance at any step. `emailed`, `attemptsOn` and `faults`
are history.

Time is an abstract clock; `DayLength` ticks make a UTC day.

### SopStreams, SopChannel

`registry`, `items`, `closed` are the maps and fields of `streams.go`; a step is one critical
section, and `cond.Wait` is two (`TestItems` leaves, `WakeUp` comes back). `watcher` is the
goroutine each `WaitToRead` starts to watch the context, `leftover` those of earlier calls that
have not yet seen their `stop`. The request of a stream is `streamBySopToken` with its loop of
WaitToRead and TryRead and its deferred unsubscribe. `BeginBroadcast` takes the snapshot under the
registry lock, `TryWrite` writes to its streams in any order after the lock is released.

`SopChannel` is an unbounded queue with a reader that asks, is answered true only if there is
something, false only on completion or cancellation. `ImplementsChannel` says that each stream,
under the mapping `ReaderOf`, takes a step of its channel or none in every step.

### JobQueue, JobDelivery

`buffer` is the channel. `caller` and `ctxDone` are the goroutine of a call and its context; with
room in the channel and a context that is done both cases of the select are enabled (`Send`,
`GiveUp`), as in Go. A worker's select likewise: a job, or the end (`Take`, `StopWorker`).
`server` follows `main`: signal (workers' context done), deregistration and HTTP shutdown,
`GracefulStop`, exit; `Crash` at any time. `open` are the streams of the health and reflection services
that `Register` mounts beside Ring's own: they open while gRPC takes calls and end when their clients
like (`OpenStream`, `CloseStream`), since nothing calls `Shutdown` of the health server. `Exit` waits for
every call and stream, as `GracefulStop` does. `accepted`, `taken`, `handled` are history.
A handler's error is logged and dropped, so `Dispatch` has one outcome.

`JobDelivery` moves each job from unsent to refused, or to accepted, started, done; the end of the
process turns what is accepted and not done into lost. `ImplementsDelivery` is the refinement.

### Subscriptions

`rows` maps ids to slot, token and activity. A slot is the triple (account, device id, provider)
that `SubscribeDevice` looks up. Ids double as the order of `created_at`, which the code fixes where
the id is chosen. A registration runs `deactivate, find, update | insert`, one database statement
each. An update of a row deleted meanwhile changes nothing and reports success, as gorm's does. SOP
registrations are the same path with a fresh token that no provider revokes.

A push remembers the id and token it was listed with; `SendPushNotification` decides what the
answer does to the removal buffer, the record of its outcome is left to the observability
component. The buffer is a set, since the flush removes duplicates before it uses it. `Drain` takes
the buffer under its mutex, the delete follows without it; when the delete fails, or its answer is
lost after it took effect, the ids return. `Crash` empties memory and keeps rows.

The history variables say what the properties need: `promised` (the tokens the latest
registrations of a slot stored), `broken` (slots that lost a row or whose registration failed
half-way), `held` (the tokens each row ever held), `reported` (ids queued since the last crash).

### Delivery

The two delivery functions have the same body, a single delivery being a batch of one account, so a
delivery here is the loop of `SendNotificationBatch`: `NextAccount` looks at the open streams,
`AppendReplay`, `Broadcast`, `AskPresence`, `HoldSops`, `PublishWebSocket` and `Push` are the calls in
the order of the code, each one step between which anything may happen. `sops` and `online` are what
the delivery saw, `stream` and `socket` what is. `Compatible`, `Priority` and `Chosen` translate
`selectSubscriptionsByDevice` and its helpers; they are computed in `Push`, as they depend on nothing
that changes after `online` is known. What a notification is (a batch, stored, a VoIP call) and who
receives it is chosen initially; a notification without recipients is never sent. The list of recipients
is a bag, `todo`: `send` hands `SendNotificationBatch` the accounts as they were posted, and an account
named twice has two turns. The sends exclude no device, as all callers pass none. A delivery ends at an
error of the subscription list or the websocket (`Fail`), goes on without the replay buffer or presence
if those fail.

A websocket is connected in a namespace. `AskPresence` passes none and is answered for `Solian`, the
namespace that `ResolveNamespace` gives for an empty name; `PublishWebSocket` sends to the namespace named
like the notification's app (`app`), which is Solian only if an app is configured under that name. `socket`
has the namespaces of each device, of which these two are all that matters.

A device connects by its SOP token or by a session, which needs no SOP subscription; it has one
stream at a time, whose written items are a set (`SopStreams` has their order). `Read` is one round of
the inner loop, `MarkRead` the receipts of a round. A list is `List`, `MarkListed`, `RemoveListed`;
`shown` holds what a device was given, whether or not the bytes arrive, as the code does not learn
that. Rows stored for a batch have ids of their own, so that listing them marks nothing.

The buffer's read-modify-write is one step, as it runs under the cache's lock; not getting the lock
within two seconds is the failing alternative, which the callers do not notice. `record` is the outcome
last recorded for a subscription. `steady`, `sent`, `shown` and `fate` are history; of `steady` and `sent`
the next turn of the same delivery begins anew.

### Discovery

The goroutine of `Run` is `pc`: waiting for its retry delay, registering, waiting a third of the
lease, renewing, returned. `timer` is what is left of its `time.After`, `retryDelay` the variable of that
name, `registered` the field that `Deregister` reads from main's goroutine without a lock. A call
(`call`, `dereg`) is sent, takes effect at the registry (`Arrive`) and is answered, three steps; its
caller may give it up, and then it may still take effect (`stray`, `ArriveStray`). `lease` is the
registry's, `Wipe` its restart. This half is external: it is modelled from what the code expects of
`Register`, `Renew` (NotFound when the lease is gone) and `Deregister`.

A tick is one second. The clock does not pass a due timer or a call older than `MaxLatency`; a call
takes less than the first retry delay, so that a call given up has arrived before the next one is sent.
The history variables say how long the instance has been unlisted, how many calls of `Run` failed in a
row, whether the registry forgot it, and whether a registration was under way at the signal.

### Preferences, Inbox

`Preferences` has the rows of one account and topic and the requests that write them: each looks up a
row, then updates, inserts or deletes, two steps with others in between. `GetPreference` reads the oldest
row (`LevelFound`); the lookup for many accounts keeps whichever row of an account comes last
(`LevelsFoundByMany`). `settled` is the level last written by a request that met no other.

`Inbox` EXTENDS it. A call (`Ask`, `SaveNotification`, `HandOn` and their failures) is `SendNotification`
or, for one of its accounts, `SendNotificationBatch`; `id` is the notification's id and, as ids grow, its
place in the order of `created_at`. A call that failed may be made again, with a new id, as the callers
would. `Deliver` is the job of the queue, of which only the append to the replay buffer matters here.
A reader pages until a page is empty. Over HTTP a request is `ListNotifications`, then `MarkPage`; with
a SOP token `ReadReplay`, `ListNotificationsForSop`, `RemoveListed`. `MergedPage` is `sop.go` 29-79,
`VisibleOf` is `applyAppFilter`, `Slice` is ORDER BY, OFFSET, LIMIT. `Excess` is the window function of
`DeleteExcessNotifications`. `asked`, `inserted`, `handed`, `before`, `cut`, `gone`, `covered` are history.

## 3 Runs

Bounds are constants of the modules or of the configuration; none is hidden in a definition.

| Run | Checks | States | Result |
|---|---|---|---|
| `email_plan_sequential` | `TypeOK`, `DailyCap`, `Accounted`, `Paced`, `CompletedIsFinal`, `PauseHolds` | 2,991,767 | pass |
| `email_plan_concurrent` | `CompletedMeansDrained`, `BoundedDuplicates`, `RecordedCap` | 1,166,910 | pass |
| `email_plan_liveness` | `Completes` | 157,448 | pass |
| `sop_streams` | `Reached`, `OnceInOrder`, `NoMissedSignal`, `ImplementsChannel`, `Served` | 238,038 | pass |
| `job_queue` | `TypeOK`, `ImplementsDelivery`, `Delivered`, `ShutdownEnds` | 45,010 | pass |
| `subscriptions` | `BoundedRows`, `LatestTokenOnly`, `StaysReachable`, `RemovalJustified`, `NothingForgotten` | 536,824 | pass |
| `delivery` | `TypeOK`, `Kept`, `ReceiptsTrue`, `Reached`, `OnlyOnce`, `Recoverable` | 1,699,035 | pass |
| `discovery` | `TypeOK`, `StaysListed`, `BackSoon`, `CleanExit` | 74,784 | pass |
| `inbox` | `TypeOK`, `PreferenceHonoured`, `StoredOrReplayed`, `PagesCover`, `ViewedWasListed`, `RetentionKeepsNewest` | 775,124 | pass |
| `email_plan_completed` | `CompletedIsFinal` | | violated |
| `sop_streams_cancel` | `WaitToReadAnswers` | | violated |
| `subscriptions_flush` | `OnlyInvalidRemoved` | | violated |

States are distinct states.

**`email_plan_sequential`** - one request at a time (`MaxOverlap = 1`), none cut short: what the
service promises. Three recipients (any non-empty subset is targeted), limits per interval 0, 1, 2,
intervals of 0, 1 and 3 ticks, daily limits none, 1, 2, a planned start later than now, a clock of
five ticks over three days of two ticks, so that an interval may be shorter or longer than a day, an
advance may run past midnight (`MaxLag = 1` tick), and the limit may end an advance before, at or
after the interval's limit. `Accounted` ties the recorded advances to the recipients' rows, so it also
has every recipient processed once and the intervals numbered one by one.
`DailyCap` is the honest one, by the clock: on one day `perDay` attempts and at most one interval
on top, of an advance that began before midnight, since the code counts an attempt under the day its
advance started.

**`email_plan_concurrent`** - two requests in flight at once out of a scheduler loop, a manual
advance and a pause or resume, one of them cut short (`FewFaults`: in that case
without the last tick of the clock).
What survives the races: Completed means no Pending recipient, a recipient gets at most `MaxOverlap + faults`
emails, the recorded attempts of a day exceed the limit by at most one interval for each other
advance in flight. Two recipients and limits of one are enough for requests to meet between any two
of their statements; the duplicate bound is reached. That the status columns always agree (a Scheduled
row without `next_interval_at` would never be listed as due again) is the theorem `RowStaysConsistent`. The view `Essence` drops from the state the
recorded advances, which no action reads, and of each request the variables it will assign before it
reads them; no property of this run looks at what is dropped.

**`email_plan_liveness`** - the scheduler alone, one advance cut short. Every scheduled plan with a
limit of at least one is completed, past daily limits and midnights. `Horizon = 9` is long enough
that the slowest plan (two recipients, one a day, start at 1, one aborted advance) ends before the
clock stops; a limit of zero never completes and is accepted by the handler (see hazards).

**`sop_streams`** - two streams, two notifications, clients that may come, read and disconnect at
any time. Two streams are needed for a broadcast that is between its snapshot and its last write,
two notifications for order and for overlapping broadcasts. Leftover watchers are bounded by the
number of WaitToRead calls, thus by the notifications.

**`job_queue`** - three calls, two workers, a channel with room for one, one stream. Capacity 1 stands for
1024: the code looks at the capacity only where it blocks on a full channel, and one job fills it while a
second caller waits and a third is behind it. Streams share nothing but the shutdown that waits for
them, so one shows what any number does. The proofs of section 5 hold for every capacity and number of streams.

**`subscriptions`** - one slot, two tokens, two overlapping registrations, one push, three inserted
rows, one fault (`ThirdRow`: behaviours with a third row are explored without failures and revoked
tokens, those with two rows with all of them). Slots share nothing but the buffer and the device id of an unsubscribe, which the
proofs cover for any number. Three inserts allow two rows from a race and a third after an unsubscribe.
`Symmetry` permutes tokens and requests, which are interchangeable constants that no property tells
apart and there is no liveness property in this run. The view drops the token of an inactive row (an
update overwrites it with the activity, and a push is only started to an active row) and, of a row
that has held a revoked token, what else it held.

**`delivery`** - two devices, all their sets of SOP, Apple and Appk subscriptions (alerts and calls
rank these in all ways Google and UnifiedPush could), two events at any step (`FewEvents`): connections,
disconnections or lists, one of them perhaps a failing call or a crash. Two devices are enough for the account-wide parts of a choice (another
device's Appk, stream or list); two moves for a stream that opens and closes around a look at it.
`Instances` in `MCDelivery` keeps combinations apart that do not interact: two accounts share the devices only
without Appk subscriptions; an account is named twice where one of its devices has SOP; a second
notification, older or newer than what a buffer with room for one holds, is sent only where all
subscriptions are SOP ones and nothing is stored. The app is Solian, or another whose websockets presence does not
see, for plain deliveries to one account, another in the rest. `OnlyOnce` names its exceptions, each a case in
which the code does send twice within a turn: a stream opened by a session on a device without a SOP
subscription, and a websocket of the app that the presence lookup did not return because it failed or, the
app not being Solian, because it asked for another namespace. `Reached` counts as ways to reach a device what
the code treats as such: no push for one seen on a Solian websocket, also where the packet goes to another
namespace (section 6), and no ringing of an Apple device if any device of the account has Appk. With the app
Solian a websocket is one thing again, the first of these limits is void and `OnlyOnce` excepts only a failed lookup.

**`discovery`** - the default lease of 30 seconds (`config.go`), the code's delays of 5 and 30, calls that
take up to a second, three calls that fail or are answered too late and a registry that forgets twice.
Three failures in a row reach the retry delay of 20, a gap in which the lease does run out; one or two
leave others for the deregistration. `StaysListed` asks for a lease longer than a renewal interval, the first two retry
delays and four calls: with a second per call, from 29 seconds on. `Validate` accepts 3; an instance
with a shorter lease may drop out of the registry when a call or two fail, and nothing in the repository says it does not.

**`inbox`** - one account and topic: two writers of the preference, one message of every kind that may
be sent again, one reader of every kind with pages of one, up to three rows from before, one failing
statement, marking all and retention (`Keep = 2`) at any time. Three old rows of which retention keeps two
of each stored app give pages that shift while they are read; one message is enough, as calls share
nothing but the preference rows, the list and the buffer. `Instances` and `Apart` keep combinations apart that do not
interact: writers of the preference matter to a call alone, so they run where nothing is read; a list
is read by every kind of client where the call is a single one to the default app.
`PagesCover` counts what a client misses: nothing over HTTP, and with a SOP token at most as many
as left the replay buffer while it read.

Deadlock checking is off, except in `discovery` and `inbox`, because each system may come to rest: a
Completed plan when the modelled time is over, clients gone, the process ended, every token revoked, all
notifications sent.

## 4 Fairness

- `EmailPlan`: the clock runs; the scheduler's ticker keeps firing (`WF` of `ListDuePlans`); a
  goroutine that can take its next step takes it (database, account service and SMTP calls return or
  fail; an error is `Abort`, which is never forced). Nothing makes an administrator act. That a send
  ends is an assumption: `email.go` dials (lines 74, 80) without a deadline, so a server that accepts the
  connection and stays silent in the TLS handshake would hold up the advance, and `Completes` with it.
- `SopStreams`: every runnable goroutine runs: handlers, watchers, leftovers, broadcasts in progress.
  Clients need not connect or disconnect, deliveries need not begin.
- `JobQueue`: handlers end, a worker whose select has a ready case takes one, a call that can go on
  does, `main` runs. A call need not be made, cancelled, nor have a deadline; a stream need not end; no
  worker is promised any particular case of its select. That handlers end is an assumption about what they
  call: pushes have a client with a timeout of 30 seconds (`fcm.go:53`, `main.go:133`), the dial of an email has
  none (as above), so `Delivered` holds as far as the SMTP server answers. The other gRPC calls are
  taken to end as well.
- `Subscriptions`, `Delivery`, `Inbox`, `Discovery`: safety only, so none. `Discovery` says when something
  happens by its clock, which passes neither a due timer nor a call older than `MaxLatency`: that is why
  `BackSoon`, a bound in seconds, is an invariant. `MaxLatency` is an assumption about the registry and the
  network, not the code: `Register` and `Renew` are called without a deadline (`registration.go:90`, `110`).

Weak fairness suffices everywhere: no action that a property relies on is disabled again and again
by others, except a blocked `Send`, which is why `Delivered` speaks of accepted jobs and
`ShutdownEnds` names the blocked call, beside the stream that its client keeps open.

## 5 Proofs

Theorems hold for every value of the constants that satisfies the module's assumption
(`PlanConstants`, `QueueConstants`, `SubscriptionConstants`, `DeliveryConstants`,
`DiscoveryConstants`, `PreferenceConstants`, `InboxConstants`); TLC evaluates these assumptions in
every run. They say that sets of actors are finite, that actors of different kinds differ, that
bounds are naturals and that "none" is not a value. Limits and intervals of a plan may be any
integers, negative ones included, as the handlers allow.

| Theorem | States | Along |
|---|---|---|
| `EmailPlanProofs!TypesCorrect` | `[]TypeOK` | inductive by itself |
| `EmailPlanSafety!RowStaysConsistent` | `[]RowConsistent` | `RowInv` |
| `EmailPlanSafety!CompletedPlansAreDrained` | `[]CompletedMeansDrained` | `RowInv` |
| `EmailPlanSafety!DuplicatesAreBounded` | `[]BoundedDuplicates` | `RowInv`, `EmailInv` |
| `EmailPlanSafety!CompletedStays` | `CompletedIsFinal` if `MaxOverlap = 1` | `AloneInv` |
| `EmailPlanSafety!PausesHold` | `PauseHolds` if `MaxOverlap = 1` | `AloneInv` |
| `EmailPlanSafety!RecordsAreCapped` | `[]RecordedCap` while the interval's limit is not negative | `CapInv` |
| `EmailPlanSafety!DaysAreCapped` | `[]DailyCap`, likewise, if `MaxOverlap = 1` and `MaxFaults = 0` | `CapInv`, `DayInv` |
| `EmailPlanSafety!AdvancesArePaced` | `[]Paced` if `MaxOverlap = 1` and `MaxFaults = 0` | `PaceInv` |
| `EmailPlanSafety!AdvancesAreNumbered` | `[]Numbered` if `MaxOverlap = 1` and `MaxFaults = 0` | `PaceInv` |
| `EmailPlanSafety!AdvancesAreAccounted` | `[]Accounted` if `MaxOverlap = 1` and `MaxFaults = 0` | `PaceInv`, `AccountInv` |
| `JobQueueProofs!QueueTyped` | `[]TypeOK` | inductive by itself |
| `JobQueueProofs!QueueIsFirstInFirstOut` | `[]FirstInFirstOut` | with `TypeOK` |
| `JobQueueProofs!JobsAreHandledOnce` | `[]HandledOnce` | `QueueInv` |
| `JobQueueProofs!DispatcherDelivers` | `ImplementsDelivery` | `TakenInv` |
| `SopStreamsProofs!StreamsTyped` | `[]TypeOK` | inductive by itself |
| `SopStreamsProofs!BroadcastsReach` | `[]Reached` | `IInv` |
| `SopStreamsProofs!StreamsKeepOrder` | `[]OnceInOrder` | `IInv` |
| `SopStreamsProofs!SignalsAreNotMissed` | `[]NoMissedSignal` | `IInv` |
| `SopStreamsProofs!StreamsAreChannels` | `ImplementsChannel` | `IInv` |
| `SubscriptionsProofs!SubscriptionsTyped` | `[]TypeOK` | `Structure` |
| `SubscriptionsProofs!RowsAreBounded` | `[]BoundedRows` | `Structure` |
| `SubscriptionsProofs!LatestTokenWins` | `[]LatestTokenOnly` | `Latest` |
| `SubscriptionsProofs!SlotsStayReachable` | `[]StaysReachable` | `Safe(s)` |
| `SubscriptionsProofs!RemovalsAreJustified` | `[]RemovalJustified` | `Justified` |
| `SubscriptionsProofs!NothingIsForgotten` | `[]NothingForgotten` | inductive by itself |
| `DeliveryProofs!TypesHold` | `[]TypeOK` | `ReceiptsInv`, `BufferInv` |
| `DeliveryProofs!NobodyLeftOut` | `Reached` | `TurnInv` |
| `DeliveryProofs!NobodyTwice` | `OnlyOnce` | `TurnInv` |
| `DeliveryProofs!NothingUnrecoverable` | `Recoverable` | `SecuredInv` |
| `DeliveryProofs!BuffersKeep` | `[]Kept` | `BufferInv` |
| `DeliveryProofs!ReceiptsAreTrue` | `[]ReceiptsTrue` | `ReceiptsInv` |
| `DiscoveryProofs!TypesHold` | `[]TypeOK` | `Inv` |
| `DiscoveryProofs!StaysListedThroughFailures` | `[]StaysListed` | `Inv` |
| `DiscoveryProofs!ListedAgainSoon` | `[]BackSoon` | `Inv` |
| `DiscoveryProofs!ExitIsClean` | `[]CleanExit` | `Inv` |
| `InboxProofs!InboxTyped` | `[]TypeOK` | `Typed` |
| `InboxProofs!PreferencesAreHonoured` | `[]PreferenceHonoured` | `Inv` |
| `InboxProofs!StoredNotReplayed` | `[]StoredOrReplayed` | `Inv` |
| `InboxProofs!OnlyListedIsViewed` | `[]ViewedWasListed` | `Covers` |
| `InboxProofs!NewestAreKept` | `RetentionKeepsNewest` | one step, with `Typed` |
| `InboxProofs!PagesAreCovered` | `[]PagesCover` | `Inv`, `PagesInv` |

The arguments:

- **Plan row.** `RowConsistent` speaks of the row, but a request will write its copy, so the copies
  must be consistent too (`RowsConsistent`), at every label where they can be. A copy about to be
  saved as Completed is safe only if no recipient is Pending by then, and no step makes a recipient
  Pending again: `Drained` says so of the row and of the copies on their way to it, and of the
  lists that requests work off. `Lifecycle` ties labels, the existence of the plan and the kinds of
  requests together. `RowInv` is their conjunction with `TypeOK`; there is one lemma for each group of actions.
- **Duplicates.** For an account `a`, `Sending(a)` are the requests between the SMTP conversation
  and the recipient's update, `Holding(a)` those that still have it in their list. While the row is
  Pending, every email is owed to a request that is still sending or to a fault: `emailed[a]` is at
  most their number. Once the row is final nobody new lists the account, and `emailed[a]` plus the
  requests still holding it is at most `MaxOverlap + faults`. `Bounded(a)` says both; `Slots` limits
  the requests in flight to `MaxOverlap`.
- **One request at a time.** `CompletedIsFinal` and `PauseHolds` fail when requests overlap (section 6), and
  are theorems of `MaxOverlap = 1`: while a request works on its copy nobody else writes the row
  (`OneInFlight`), so the copy tells what the row says (`Undisturbed`), through errors and crashes.
- **Limits.** `Counting(d)` are the advances that have read the sum of day `d` and not added to it. Of
  those, at least one accounts for itself by the sum it read (`Fits`): what is recorded, what it may still
  attempt and an interval for each of the others stay below the cap. An advance that begins to count
  reads the present sum and takes that part over; one that ends records no more than it may attempt
  (`TallyFits`), one cut short records nothing. `CapInv` says so at every moment; at a day without
  such advances it is the cap itself. A negative limit per interval would make the cap's slack negative, hence the condition.
  `DayInv` adds the clock, one request at a time: the attempts made on a day are those recorded for
  it, those of the advance at work, and at most one interval of an advance that began before
  (`Spilled`), as no attempt is counted twice and none is lost.
- **Pace.** While an advance is at work its copy is the row and no recorded advance began after it (`Current`).
  Whatever is written back, after an advance, a pause or a resume, is due only when the last recorded
  advance has rested (`RowPaced`, `Rested`): an interval, or until a later day. The row's count is the
  number of records, so the next number is free (`Numbered`).
- **Accounts.** `Books(p)`: of the advance at work, what is recorded and what it has counted is on the
  recipients' rows, but for the row it is about to write (`Unwritten`); its list holds the Pending
  recipients; as long as it counted nothing the last record tells how many those are. A sum is its running totals
  (`RunningTotals`), which exist for every sequence and agree (`TotalsExist`, `TotalsAgree`, by a least
  counterexample): appending a record adds its count to the sum (`TotalsAdd`).
- **Queue.** `FirstInFirstOut` is inductive with the types: every action moves one job across the
  equation `accepted = taken \o buffer`. `HandledOnce` needs that a job is in one place at a time
  (`OnePlace`): unsent, in the buffer at one index, in one worker's hands, or handled. The refinement
  maps each job to its place (`StateOf`); `TakenInv` says that a job taken is out of the buffer for good,
  so that a step moves one job as `JobDelivery` allows (`MoveIsStep`) and leaves the others where they are.
- **Streams.** What a stream received is what was read from it followed by what waits in it
  (`Received`); only `TryWrite` adds to it (`WriteAdds`), reading moves an item across (`ReadKeeps`).
  `IInv` adds to the properties that a stream whose request is over is closed, that a broadcast has yet
  to write only to streams of its snapshot and wrote once to each of the others. `NoMissedSignal` is
  inductive because the test and the wait are one critical section. The refinement is a case per step.
- **Subscriptions.** `Structure` adds to the types which locals a registration at each label has
  (`Busy`), that ids are handed out once (`Fresh`), that a known id is at most `lastId` (`Known`) and
  that a found row, as long as it exists, belongs to the slot that found it (`Found`).
  `BoundedRows` counts pending inserts along with rows: a registration begins an insert only when
  it saw no row, so all there is to count are overlapping inserts. `Latest` adds that a registration
  that was alone from its start sees, past its first statement, no active row of its slot
  (`Solitary`). `Safe(s)` says that a registered and unbroken slot has an active row or a
  registration that will write one (`Restoring`), having deactivated the others. `Justified` adds
  that the token of a row or a push in flight is among those its row has held (`Remembered`).
- **Delivery.** `TurnInv`: while a device stays as it was (`steady`), what the delivery saw of it is what
  it is, and what was sent to it in this turn is determined by that and by how far the turn is (`Seen`),
  as a turn begins with nothing sent. The rest is the choice of a provider:
  `SomePushChosen` goes through the ranks of alerts and calls from the top, `OnlySopChosen` says that 5
  beats every other rank. `BufferInv`: a fate goes from none to kept or lost, from lost or taken back to kept
  when the account has another turn, and from kept to taken, so that the ones a buffer was ever given only
  grow (`Since`), and each that the cap cuts off has `MaxReplay` newer ones among them. `NewestIsCapped`
  bounds a buffer by counting what is newer than its oldest.
- **Discovery.** `Stages` says how goroutine, call and registry stand to each other, `Delays` that the
  retry delay tells how many calls failed and that a registration given up arrives before the next is
  sent (`timer + age >= FirstDelay`: it needs `MaxLatency < FirstDelay`). `Lasts` is an account of the lease: what is left, beyond the time until the
  next call ends, is at least a full lease less a renewal interval, a call, and a call with its delay for
  each failure (`Allowance`). `Comes` is the same account for the time an instance is not listed. `Exit`
  follows a registration through the signal: it outlives it only if it was under way or had failed.
- **Preferences and inbox.** `Alone`: a writer that met no other found the row it writes, and nothing is
  settled while one is at work; `Shown`: what is settled is what both lookups find. `Progress` and
  `Stored` follow a call: its notification is inserted, queued or handed on only at the stages where the
  code does so, under an id of its own (`OwnIds`), which is why nothing stored is ever put in the replay buffer. `Covers` adds
  the page that a request is about to mark. Retention needs that the rows of one stored app are fewer
  than those of the list that shows them (`MoreAreNewer`).
- **Pages.** What a client may miss before its offset and what has left the list since it began are together
  no more than what was taken from the replay buffer (`Short`). Arrivals move the rest down, never up
  (`PageCovers`); each row that leaves moves it up by one (`FewMoveUp`). Over SOP a page is merged from the buffer, read
  first, and the rows, queried later: the sum is kept for the list between the two (`MergeTakesEnough`), and
  a page once made is as good as one cut from some list of which the sum held (`Answerable`), whatever
  happens before it is given. That needs that what is on its way to a list was never on it (`Unborn`): a notification
  read from the buffer does not come back as a row. Steps of others only drift (`Drifted`, `DriftKeeps`).

Every proof module EXTENDS the component's module, so the definitions proved about are the ones TLC runs.

Only model-checked:

- Liveness (`Completes`, `Served`, `Delivered`, `ShutdownEnds`): TLAPS 1.4.5 has no rules for
  fairness and ENABLED. Every other property of the passing runs is a theorem.
- The properties of the three runs of section 6 are false, and no theorem could state them; `CompletedIsFinal`
  is one where requests do not overlap.

The conditions of the theorems about plans are those of the service's own promises, and none can be left out. Two
overlapping advances record the same number and write back the row each of them loaded; one cut short between two
statements leaves recipients marked that no record counts, and attempts that no sum of the day contains.
`email_plan_sequential` is the instance of these conditions; `RecordedCap`, which holds through races and
faults, has the concurrent run.

Induction over data takes an operator as a parameter, which the provers here cannot instantiate. The sums of
`Accounted` do without: a claim about all lengths of a sequence is refuted at the least length where
it fails, which exists by the library's theorem on well-founded orders (`LeastNumber`).

Theorems that no run states, because the run's other properties would not hold without them:
`RowStaysConsistent`, `AdvancesAreNumbered`, `QueueIsFirstInFirstOut`, `JobsAreHandledOnce`, `StreamsTyped`,
`SubscriptionsTyped`.

## 6 Disagreements found

Each is a run of its own that ends with a counterexample; `PROJECT.json` ("findings") quotes the text
that the code contradicts.

1. `email_plan_completed` - a pause or resume loaded before an advance completed the plan is
   written back after it: a Completed plan is Paused or Scheduled again (`emailplans.go:112`). In the
   same way an advance that was running takes back a pause.
2. `sop_streams_cancel` - `WaitToRead` misses a cancellation that comes after its goroutine was
   started and before it is in `cond.Wait`; the request of the disconnected client stays, with its
   device counted as connected, until the next notification (`streams.go:71`).
3. `subscriptions_flush` - the flush deletes by row id: a device that registers a new token between
   a failed push and the flush loses the new registration (`push.go:127`). What does hold is
   `RemovalJustified`: a row deleted has held an invalid token.

Met while modelling and not runs of their own:

- Two overlapping advances record the same interval number; the unique index that should forbid it
  includes a column that is null in all rows it covers, so PostgreSQL rejects nothing
  (`0001_initial.sql:140`). The index on preferences is of the same kind: two first settings may leave two
  rows, and the lookup for one account and the one for many then differ. So are both unique indexes of
  `push_subscriptions` (`0001_initial.sql:54-60`): overlapping registrations leave several rows of one slot,
  as `Subscriptions` has it.
- Presence is asked of the namespace Solian (`push.go:792`, `websocket.go:128-131`), packets are published to the
  namespace of the app (`push.go:769`), which in the legacy layout is `_default` (`apps.go:100`). Unless the
  app is called like Solian, a device whose only websocket is a Solian one counts as online: it gets no
  push, and the packet goes past it. One on a websocket of the app is never seen online and gets the packet
  and a push. No call need fail for either. No text in the repository says otherwise, so it is no run of its
  own: `Reached` and `OnlyOnce` state it as what they except.
- Recipients are not deduplicated (`handlers.go:345`, `push.go:485-517`): an account named twice is stored,
  broadcast and pushed to twice. `OnlyOnce` is therefore about a turn, and what `SopStreams` has reach a stream
  once is a broadcast, not a notification.
- The shutdown waits for streams that nothing ends: a client that watches the health service or keeps a
  reflection stream open holds `GracefulStop` (`main.go:318`) until it leaves, as `hs` of `ring.go:59` is never
  shut down and no deadline follows. `ShutdownEnds` names it.
- An enqueue with a context already done may succeed, the select's choice being random; the test asserts
  an error (`queue.go:98`, `queue_test.go:82`).
- A client that pages with a SOP token skips as many notifications as its own reading took out of the
  replay buffer (`sopctl.go:142`); `PagesCover` bounds it.

## 7 Not modelled

- Text, MIME, JSON, SQL text, HTTP status codes, logging, metrics and configuration.
- The read-only views: plan lists and counts, subscription lists, statistics.
- The account service behind `resolveTargetAccounts`: a plan's targets are any of the accounts asked for
  that the service knows (`ResolvedTargets`), its queries page by page are not told apart.
- Authentication and permissions: one remote call and a decision for each request, no state.
- Event bus adapters, provider clients, infrastructure: I/O and conversions without behaviour
  over time; their outcomes appear as choices in the models that use them.
- The exit of `main` when a listener fails (`main.go:323`), which neither deregisters nor waits for calls:
  to the dispatcher it is a `Crash`, `Discovery` does not have it.
- Notifications of several apps at once: `Delivery` has one app for a whole behaviour, and the subscriptions
  in it are those that serve that app or the default one.
- Preference levels out of range, which a request may store (`handlers.go:435`): a single delivery treats one
  as Silent (`push.go:364`), a batch as Normal (`push.go:519`).
- Of deliveries: payloads, the choice of an app's provider client, send records, the records of pushes,
  websockets and skips, and the account id of the one `Notification` object, which a batch overwrites (`push.go:518`) while
  streams of earlier accounts may still hold it. Of the replay buffer: its thirty days, and a lock that
  expires while its ten seconds' work is still going on.
- The last-active publisher (`lastactive.go:54`): an event for each request at most once a minute, throttled by a flag in Redis
  that is checked, followed by the publish, and then set, each attempt swallowing its errors. Simultaneous
  requests publish more than once, a publish that fails is throttled all the same. The consumer is another
  service and each event carries its own time; no state of this program depends on it, and the only
  properties would restate these three steps.
- Negative offsets and page lengths of a list, for which gorm leaves the clause out, and several topics of
  one account, which share nothing.
- Configuration of discovery (`config.go`) except the lease and what `Validate` demands of it.
- Transactions are assumed atomic, single statements linearizable, the mutexes and channels of Go
  correct, and the clock of all instances the same.

## 8 Plan

Done in this order, the most important first: plans, streams, dispatcher, subscriptions, delivery with
the replay buffer, discovery, preferences and the inbox; the two refinements and all safety properties of
the passing runs proved. Next:

1. **Replay** in detail (`replay.go`): the lease lock that expires while its work goes on, as a refinement
   of the atomic buffer of `Delivery` where the lease holds.
2. **Delivery and Inbox composed**: the replay buffer's cap of `Delivery` under the pages of `Inbox`.

New modules are written to be proved about: no RECURSIVE operators, one action per operation,
invariants of named parts.
