# Polarix: models and proofs

Polarix is a QQ bot framework in Go: it receives events over a webhook or a
WebSocket gateway, dispatches them to plugins, and talks back through the
platform's HTTP API. This directory holds TLA+ models of the parts whose
correctness depends on interleavings, order or arithmetic at a boundary, the TLC
configurations that check them, and TLAPS proofs about them.

`tlc -config X.cfg M` runs a configuration (table below); `tlapm P.tla` checks a
proof module.

## 1. The system

| component | state | operations | what is hard |
|---|---|---|---|
| SSH login approval, `plugins/sshauth` | `pendingMap`, `pendingCounter`, per connection `pending` and `active`, per request `resolved`, `status`, `timer`, `msg`; `currentConn`, `workerStopCh`, `config` | a request arrives over the socket, is posted to a group, and is decided by a click, the timer, the loss of the connection or a restart | five kinds of goroutine race for one request; the post may be retried or its answer lost; a restart sweeps what others clean up |
| Callback table, `lib/buttons/callback.go` | ring `CallbackMap` with `startIndex`, `nowIndex`, one mutex | register, look up and run | two cursors and index arithmetic at the wrap; an error return inside the critical section; ids in shown messages outlive the process |
| Keyboard builder, `lib/buttons` | a keyboard under construction | rows, buttons, `SetCallback` | registration only (above) |
| WebSocket gateway, `lib/gateway` | `conn`, `sessionID`, `latestSeq`, `canResume`, `stopped`, a heartbeat goroutine per connection | dial, greet, identify or resume, read, heartbeat, reconnect, stop | three goroutines close one connection; resumption must neither lose nor repeat events; silent peers |
| Scheduler, `lib/schedule` | job table, per job `cancel`, `paused`, `lastFire`; `started`, `cronLoopOn`, `stopCh` | register, cancel, pause, resume, start, stop, fire; parse and match a cron expression | table and flags under two locks; goroutines read `stopCh` unlocked; late ticks; the ends of ranges and steps |
| Messages, `lib/message` | reply counter shared by the messages of one event, with a lock that one of its writers does not take | send a reply or an initiative message, recall | several goroutines answer one event; the number returned is read again after the counter has moved; the limit is off by one against its text |
| Plugins and configuration, `lib/plugin`, `lib/config`, `lib/admin` | plugin table, settings and access rules in memory, `config.json` | load at start; prepare, save, apply a change | three steps under two locks, each of which may fail; the file is emptied before it is written; requests overlap |
| Temporary web routes, `lib/context/web.go` | token table with expiry | register, remove, serve, expire | a link is asked for twice at once, by a scanner, too late, or under another plugin's name |
| Group guard, `plugins/group` | the switch, in the store; who is muted and has a link | toggle, admit a member, lift the mute | admission is seven calls that fail one by one; the switch is read, then written |
| Push, `plugins/push` | key and consent, in the store | the owner's commands, a post over HTTP | two look-ups between which a command runs; which file the store reads |
| Platform API, `lib/qqapi` | access token and its expiry, under a read and write lock | refresh, request | many callers refresh; the token expires between check and use; the lock is held for a whole request |
| Storage, `lib/storage` | the handle of a lazily opened file | open, get, has, set, delete, close | open against close; a handle is used after the lock is released |
| Event dispatch, `lib/middleware` | none of its own | route an event to a command or callback, ask role and access rules | the text is parsed twice, by different code; the rules change meanwhile |
| HTTP client, `lib/requests` | none | request with retries | a repeated POST |
| Echo, bind, uptime, imagegen; templates, images, mail, parsing, constants; `main.go` | little | linear handlers, formatting, wiring | nothing of their own |

How they interact: `main.go` starts the scheduler, the router and the gateway.
An event reaches `middleware.ProcessPayload` in a goroutine of its own, from the
webhook or from `Gateway`; a click on a button reaches `InvokeCallback`
(`CallbackRing`). The buttons of the approval plugin go the same way: it
registers `handleApprovalCallback` with `SetCallback`, and `SshAuth` begins a
click where that handler is called, taking for granted that it is called for its
own button, which `CallbackRing` shows until the table wraps. Plugins register
handlers, jobs and configuration handlers in their `init`. Every message ends in
`qqapi` and `requests` (`Sending` over `PlatformClient`; `SshAuth` has the
retries of its own post). The guard and the push plugin share the store and the
links (`GroupPlugins` over `Storage` and `TempRoutes`).

The correctness each needs: a login request is decided once and by somebody who
may, its message does not stay behind, its place is given back, and it is
settled in the end; a click runs its own button's handler; the gateway hands
over each event of a session once, leaves nothing open, leaves a silent peer and
comes back; a registered job is run by one goroutine that ends when it should,
and a cron job fires once in a minute, in the minutes its expression names;
reply numbers are not used twice, a request known to be carried out is not sent
again, and every call returns; nobody enters a guarded group unmuted without
having followed the link, and who is muted has a way out; a push needs the key
and the consent; what the file holds is what the process goes by and can be
started with, but for the cases section 4 names; what the access rules judged is
what runs; a token is fresh when used. `PROJECT.json` lists the hazards one by
one, with the line where each bites and the properties that cover it.

## 2. Modules

| module | models or proves |
|---|---|
| `ApprovalPromise` | abstract: what the approval plugin promises, without goroutines, maps or connections |
| `SshAuth` | `plugins/sshauth/sshauth.go` and the retry loop of `lib/requests` for its post |
| `MCSshAuth` | instances of `SshAuth`: identifiers, configurations, clickers, symmetry of connections |
| `SshAuthSafety` | proofs about `SshAuth`: types, answers, timers, messages, identifiers |
| `SshAuthPromise` | proofs about `SshAuth`: the refinement of `ApprovalPromise`, the counter and the limit, clean-ups and restarts |
| `CallbackRing` | `lib/buttons/callback.go`, `SetCallback` and the delivery of a click |
| `CallbackRingProofs` | proofs about `CallbackRing` |
| `Gateway` | `lib/gateway/client.go` |
| `GatewayProofs` | proofs about `Gateway` |
| `Scheduler` | `lib/schedule/schedule.go` |
| `CronExpr` | `lib/schedule/cron.go` as operators, and what `docs/schedule.md` says of an expression |
| `CronScheduler` | `Scheduler` whose cron jobs are due when `CronExpr` says so |
| `SchedulerProofs` | proofs about `Scheduler`, `CronExpr` and `CronScheduler` |
| `MCScheduler` | an instance of `CronScheduler`: an interval and a cron job under one identifier |
| `PlatformClient` | one call of the platform: the token cache of `lib/qqapi/client.go` and the retry loop of `lib/requests/requests.go` |
| `Sending` | extends `PlatformClient` by `Message.Send` and the reply counter of `lib/message` |
| `SendingProofs` | proofs about `Sending` and `PlatformClient` |
| `Storage` | `lib/storage/storage.go` |
| `TempRoutes` | `lib/context/web.go` |
| `GroupPlugins` | extends both by `plugins/group`, `plugins/push` and the opening and closing in `main.go` |
| `MCGroupPlugins` | an instance: two files, one member, two keys, symmetry of goroutines |
| `GroupProofs` | proofs about `GroupPlugins`, `TempRoutes` and `Storage` |
| `PluginConfig` | a change on the administration panel: `lib/admin/admin.go`, the settings and access rules of `lib/plugin/register.go`, `lib/config/config.go`, the loading in `main.go` |
| `CommandDispatch` | extends `PluginConfig` by the way of a message to its command's handler: `lib/middleware/handle.go`, `CanUse` and the two parsers of `lib/plugin/register.go` |
| `MCCommandDispatch` | an instance of both: a plugin with a tree of commands, another with one, four forms |
| `ConfigProofs` | proofs about `PluginConfig` and `CommandDispatch` |

Operators called `...Late`, `...Forgotten`, `...Unchecked` and the like, each
under a comment that begins with "Mutant", are faulty variants of the definition
that follows. They occur in no specification; put in the place of that
definition, each makes TLC find the property broken that `PROJECT.json` pairs it
with. A module that has a proof module states its types in `TypeOK`; the proofs
establish it, and only some runs check it as well.

### SshAuth

A step is one access that another goroutine can see: an atomic operation, one
operation of a `sync.Map`, one critical section, one call of the HTTP API, one
write to the socket. `pc[r]` is the goroutine `processApprovalRequest` of a
request; `by[r]` is the swapped flag `resolved` together with who swapped it;
`settle[r]` is the winner's way through `cleanup`, the answer and the recall;
`walk[t]` is a `Range` loop of a clean-up, which sees the entries that stay for
its whole duration and may see those that come or go. `worker[w]` is a connector
worker, `restart` the goroutine of `applyConfig` and `restartWorker`. A click is
two steps, the permission check (`Press`) and the swap (`Resolve`), so that a
configuration may change in between. `Refuse`, `SendReturns` and `AnswerLost` are
the outcomes of one attempt of the HTTP client; with `LossySend` the platform may
carry out the post and its answer be lost. The timer is a goroutine that may run
at any moment after it is armed. Left out: the wording of messages, the path of
the socket, and `statusCommand`, which reads only.

`ApprovalPromise` sees three functions: the decision on a request, the reply to
ssh-qqauth and the notice in the group. `SshAuth` maps its state to them
(`Promise == INSTANCE ApprovalPromise WITH Req <- Req, decision <- decision,
reply <- reply, notice <- notice`) and `KeepsPromise` says that it implements
the abstract specification.

### CallbackRing

The mutex is held for the whole of a registration or look-up, neither of which
waits inside, so each is one step; `held` is true when an operation has returned
without unlocking. `InternalNumber` is the number the look-up reads from the
oldest slot: `SetCallback` leaves the button's own name there, none of the names
the plugins use is a number, and `Atoi` yields zero. `Click` and `Invoke` are
apart because the platform delivers later, perhaps to the next process
(`Restart`), which begins with an empty table and the button of `plugins/echo`.

### Gateway

`pc` is the goroutine of `Start`, split at each unlocked use of `c.conn`
(`SetDeadline`, `AwaitHello`, `ClearDeadline`, `Read`) and each call of the
network; `beat[c]` the heartbeat goroutine of each connection; `stop` the caller
of `Stop` between its three steps. `socket[c]` is what the connection itself is,
`conn` what the field holds. The server is part of the model and not trusted to
answer: it may send any message, reset the connection, or say nothing. `serving`,
`next` and `refused` are its side of the session; what it has sent before a reset
may still arrive after `closeConn`. Time is counted in heartbeat ticks since the
last acknowledgement (`quiet`), three in the code. The shared field
`lastAckReceived` is read without a lock; both of its writers store a monotonic
time, of which the comparison uses one word, so a torn read shows an old or a new
value, and either is a number of ticks the model allows. Left out: the address of
the gateway, the JSON forms, and the lengths of the back-off. A READY that does
not parse is not modelled.

### Scheduler

A job is one successful `Register`. The model keeps the two critical sections of
`Register` apart (`RegisterTable` under `jobsLock`, `RegisterLoop` under
`startMu`), likewise the two halves of `Start`, and lets every goroutine read
`stopCh` afresh each time it comes round (`Select`), as the code does. A cron
tick is received and acted upon in two steps, and may have been sent at any time
since the one before (the ticker's buffer of one). Wall-clock changes are not
modelled. `Due` says in which minutes a job's expression matches. A job object
nobody refers to any more may stand for a new `Register`, so the number of
registrations is not bounded.

`CronScheduler` says that `Due` is what `CronExpr` makes of each job's
expression. A field is a set of parts, read already as start, end and step,
because what is no such part is refused before anything is computed. `Count` is
the loop of `parseField` on integers of `Bits` bits. `MeansDocs` and `MetByDocs`
say independently what `docs/schedule.md` says: a part stands for a set of
values, all fields must match.

### PlatformClient and Sending

`accessToken`, `expireIn` and `lock` are the cache and its write lock, held from
`Lock` to the end of a refresh, retries included, while the others wait in
`Check` and `Lock`. `ReadToken` is a step of its own because `getAccessToken`
returns the field after it has released the read lock. `StartCall` is
`generateHeader`, whose token every attempt of the request carries; `Answered`,
`Refused`, `CallFails` are the outcomes of an attempt, `Again` the end of the
pause. `fate` is what has become of the request: carried out with an answer that
was lost, or known to the client. Time is counted in ticks of the HTTP client's
timeout, as what is left of each token, so that it has no bound. Every method of
the client is such a request; `GetGateway`, which may send two of them on one
header (eight attempts, at most 43 s of the 50 s by which a token is given up
early), is one request here.

`Sending` adds `Message.Send`: `Count` under its lock, `Number`, which reads the
counter again for the number it returns (both wrap around at 256), `Marshal`,
where an initiative message clears the counter without the lock. Recalls, mutes
and answers to clicks are requests without a number.

### Storage, TempRoutes and GroupPlugins

A handle is the path and how many were opened before it; `hold[t]` is what
`ensureDB` gave goroutine `t`, which may be closed when it is used (`Fails`).
`Peek` and `OpenFirst` are the read-locked and the write-locked half of
`ensureDB`. The table of links is one lock; the handler runs after it
(`ServeHandler` starts it). An expired route stays until it is asked for.

`GroupPlugins` follows a goroutine through its handler, one access to the store,
one call of the platform or one change of the links a step. `Calls` is such a
call: it succeeds, fails, or fails though it was carried out; `failed` notes the
last two. `Ban` lifts a mute before it sets one, as `BanUser` does. The answer of
a command is what the owner knows of the setting (`agreed`, `keySet`), and
`held` gathers what of it stood since a push came; an answer counts when the
process serves or the goroutine holds the configured file, because what is
written to the default file before or after is not what the owner will be asked
for. `EarlyAccess` is a plugin's
`init` that reads the store before `main` has opened it, `Leave` the closing
while goroutines are still there, `Restart` a crash. `OtherLink` stands for a
plugin outside the repository that keeps a link until it removes it. `Expire`
ends a link after its ten minutes, `MuteEnds` a mute after its thirty days, by
when no handler about the member is still running and the link is over; `lapsed`
notes whose mute has ended so. `CallGlobalJoinGroupHandle` runs the handlers of
requests to join under a lock, one after the other; the model lets them overlap,
which only adds behaviours.
`Storage.Clear`, which nothing but a test calls, is left out, so are the group's
rules and `/testverify`.

### PluginConfig and CommandDispatch

`PUT /api/plugins/:id` and `PUT /api/plugins/:id/access` each go through three
critical sections: `Put` (prepare, under the registry's read lock), `Truncate`
and `Write` or their failures (save, under `configLock`), `Apply` (the
registry's lock). `os.WriteFile` opens the file with truncation, so the file is
empty between `Truncate` and `Write` (`intact`), and stays empty when the disk
is full (`WriteFails`) or the process ends there (`Crash`). The variable `file`
keeps what stood there before, which is what the writer has read and nobody else
can: `EntryValue` is what the loaders make of it, `Loaded` is the same while
`intact` and nothing otherwise, as `InitConfig` ends the process on an empty
file. `Start` needs `Loaded` for each page and no refusal. `unapplied` notes the
pages that were saved and then refused by `ApplyConfig`, or not brought to it
before the process ended, `torn` that a write failed or was cut short. An error
on closing the file after all has been written is not modelled. The hooks
`ValidateConfig` and `ApplyConfig` are sets of settings given as constants. A
page's settings are one password and one value standing for all other fields;
the conversion of numbers is left out, and so is the hook `ConfigSaved`, which
no plugin sets. The rules of a plugin may name its own commands only
(`CommandPaths`).

`CommandDispatch` adds messages. `Admitted` is the part of `ProcessPayload` up to
the start of the goroutine, which looks at the access rules once; `Handled` is
what the goroutine runs: for a command with subcommands,
`subCommandHandleFunc`, which parses the raw text again. The rules belong to
`PluginConfig` and change between any two messages. The custom parsers and the
events that are no messages are left out.

`SavedIsInEffect`, `SecretSurvivesBlank` and `StartsFollowThePanel` speak of
pages whose requests have not overlapped (`crossed`), see section 4.

## 3. Runs

| run | shows | bounds |
|---|---|---|
| `ring_core` | the table forgets only the oldest (`KeepsNewest`), the look-up inverts the registration until the table wraps (`OwnHandlerBeforeWrap`), no click on a message of this process panics | 3 slots, 5 handlers, 1 restart: two registrations past the wrap, both cursors wrap |
| `ring_crosstalk` | violation: after the wrap a click runs another button's handler | 3 slots |
| `ssh_core` | one answer at most and only for a click; no message left; counter exact; capacity kept | 2 requests for 1 place, 1 connection, 2 clicks between check and swap |
| `ssh_restart` | clean-ups overlook no open request; open requests are listed; no click decides under a configuration that refuses it once the restart is over | 1 request, 2 connections, 2 workers, 2 configurations, 2 attempts; connections symmetric |
| `ssh_live` | every registered request is settled, every restart ends, the plugin implements its promise | 1 request, a restart that disables the plugin, answers may be lost |
| `ssh_capacity` | violation: the counter does not return to zero | 1 request, 1 restart |
| `gateway_core` | nothing left open; one heartbeat at most; each event once and in order; no refused session resumed; a silent peer is left; the client dials again | 3 connections (a loss after a loss, with a heartbeat of either), 2 sessions (refused, then new), 2 events each, 2 silent ticks |
| `gateway_panic` | violation: the reader dereferences the field the heartbeat has cleared | as above, no `Stop` |
| `sched_core` | every registered job is served, by one goroutine, once in a minute, until the second start; goroutines end after cancel and stop; fields of a cron expression mean what the documentation says, and a cron job fires in no other minute (`CronMeansDocs`) | an interval and a cron job that replace each other any number of times, 2 minutes across a year's end, 2 goroutines at a time, 2 starts; fields of one and two parts over the ranges 0-4 and 1-5, one with numbers to 6 and steps to 63, one with numbers to 3 and steps to 2, on integers of 7 bits, where the largest steps reach the end of int; the expression `* 0,23 * 1-12/11 6,0` |
| `admin_core` | while the file is whole, what a restart would load is in effect (`SavedIsInEffect`), and only an emptied file or a refusal by `ApplyConfig` keeps the process from starting again (`StartsAgain`), through failed saves and crashes; a blank password changes nothing; what was judged is what runs, and by the rules the panel shows | 3 requests in all (two for the settings, which may overlap, one for the rules), 2 starts of the process (one crash), 1 message at a time out of 56 (7 texts with one and two mentions, private or not, 2 roles, 2 senders), a tree of commands three deep, a second plugin whose command one of the 4 forms names |
| `send_core` | no attempt carries an expired token; a call that reports success was carried out, and a request known to be carried out is not sent again; the numbers of replies differ; every call returns | 2 goroutines, 2 sends of three kinds, 2 attempts each, tokens of 6 and 8 ticks given up 5 early (two refreshes per send, tokens that never count as fresh and tokens that do), an event with 2 or 3 replies before (the limit is met) |
| `group_core` | a one-time link runs its handler once and never when it is over; nobody is in without a mute or the link before the thirty days are over; who is muted has a way out; a push needs key and consent | 2 goroutines, 3 handlers, 1 member, 1 link of another plugin, 2 keys, 2 files opened 3 times, 1 crash; goroutines symmetric |

Two of everything that races is enough for each race the hazards name: two
clicks, two requests, a connection and its successor, a worker and the one that
replaces it, a start and the one after it. More of one kind adds no new pair of
steps, and for most of the safety properties the theorems cover every number.
Symmetry is used in `ssh_restart` and `group_core`, which check safety only, over
connections and goroutines that only equality tells apart. Deadlock is not
checked: requests, connections and clicks are finite in the models, and each
system really may come to rest (or die of a panic).

### Fairness

* `SshAuth`: the goroutine of a request, of its winner and of each `Range` loop
  go on; timers fire (`time.AfterFunc`); a dial ends; a closed connection fails
  its read; the stop watcher and the restarting goroutine go on. No fairness for
  clicks, arriving requests, the peer, or applying a configuration.
* `Gateway`: goroutines go on, the dialling and the greeting have deadlines
  (10 s, 15 s), the back-off ends, tickers tick, and a read of a reset or closed
  connection fails. Nothing is assumed of the server.
* `Scheduler`: goroutines go on and handlers return. Leaving a `select` is
  strongly fair: Go picks uniformly among the ready channels, and a closed one
  is ready every time. No fairness for ticks or for the callers.
* `Sending`: every goroutine that can go on does: locks are handed on (Go's
  mutexes do not starve a waiter), and a request ends by its timeout if by
  nothing else. Nothing is assumed of the platform, and nothing of the handlers
  that send.

## 4. What disagrees with the code's own words

Found by the violation runs (details under "findings" in `PROJECT.json`):
`InvokeCallback` mixes up handlers after the wrap; `restartWorker` resets a
counter that others have yet to decrease; the reader of the gateway can
dereference nil.

Met while modelling, and not runs of their own:

* The error return of `InvokeCallback` (`callback.go:59`) leaves the mutex locked;
  `plugins/echo` shows such a button. Every later click and registration waits.
* When the answer to the post of a login request is lost for good, its message
  stays in the group: the plugin has no id to recall it by.
* After a restart of the process a click on an old button panics
  (`callback.go:66`) or runs another handler: `NeverPanicsBeforeRestart` stops
  at the restart.
* `cleanup` deletes by identifier (`sshauth.go:134-136`). If ssh-qqauth uses an
  identifier again while a restart is sweeping, the new request's entry may go;
  `OneOpenPerId` and `OpenIsListed` are stated within these limits.
* Two `PUT`s of the same page may save in one order and apply in the other, or
  prepare before the other applies. The file and the memory then differ until the
  next start, and an older password can come back, while `README.md:52` says that
  a change takes effect at once. `crossed` names those pages.
* A crash or a full disk inside `os.WriteFile` (`config.go:107`, `144`) leaves an
  empty `config.json`, with which the process does not start. Settings that
  `ApplyConfig` refuses have been saved by then (`admin.go:55-63`), so that the
  next start ends with an error (`register.go:116-118`, `main.go:36`).
  `StartsAgain` names both (`torn`, `unapplied`) and excludes any other cause.
* `Stop` between `Dial` and `setConn` finds no connection to close
  (`client.go:107`, `185`): the client goes on serving until the peer hangs up.
  `LeavesSilentPeer` and `RedialsAfterLoss` say nothing after `Stop`.
* `Start` launches every job of the table again (`schedule.go:216-228`), while
  `docs/schedule.md:210` says it will not. `EveryJobIsServed` ends at the second
  start and takes neither side. A goroutine that is running a handler
  when `Stop` and `Start` come reads the new `stopCh` and lives on beside the one
  `Start` launches; two cron goroutines with a late tick can fire a job twice in
  a minute. `OneRunnerEach` and `OncePerMinute` therefore speak of the time
  before a second start, too. An interval job whose `Register` is halfway when
  `Start` copies the table gets two goroutines; `straddled` names those jobs.
* A step close to the largest int makes `v += step` wrap around (`cron.go:83`),
  and the loop practically never ends; `CronMeansDocs` leaves such steps out
  (`Fits`).
* Every event is handled in a goroutine of its own (`client.go:467`), so that two
  commands of one user may be carried out in either order, by design.
* The text of `ReplyMessageReachLimit` says five (`errors.go:34`); the counter
  begins at one and stops at five, so an event has four replies. An
  initiative message sets it to zero without its lock (`base.go:69`): later
  replies repeat numbers, and a reply counting at that moment may get 255. The
  messages of an event create the counter lazily and without a lock
  (`messageManager.go:31`). `Message.used` is never set, so `MessageUsed` never
  comes, and after a send that failed `DeleteMessage` recalls the message of the
  user that was answered.
* The guard ignores the errors of the mute and of its lifting (`guard.go:198`,
  `208`), returns before the mail when its notice fails, and its links are lost
  with the process while the mutes stay for thirty days: a member may be in
  unmuted, or muted with no way out but an administrator.
  `NobodyEntersUnverified` and `MutedHasWayOut` name these cases (`failed`,
  `over`). The mute is for 43200 minutes (`guard.go:198`): after thirty days
  whoever never followed the link can speak (`lapsed`). A request for the token
  under another plugin's name deletes the link (`web.go:95-96`, `wrongly`).
* `/guard` ignores the error of its write and says "enabled" all the same; two at
  once lose one, and a request to join or `/guardstatus` that finds no setting
  writes "off" over one that has just been switched on (`guard.go:146-151`,
  `175`).
* An access after `Close` opens the default file again (`storage.go:279-300`).
  `PushIsAllowed` speaks of the time before.

## 5. Proofs

All proofs are for every value of the constants that satisfies the named
assumptions of the module (finite sets of requests, positive bounds, null values
outside the sets they extend), and use no other.

**SshAuth.** `TypeCorrect`: `TypeOK` is not inductive, because a worker's
connection is followed and an attempt is counted; `TypeInv` adds `ConnInv` (who
uses a connection has one) and `AttemptInv` (a request that may post has an
attempt left). `AnsweredOnce` adds `AnswerInv`: nobody has won exactly when no
winner is under way, and an answer needs a click that won. `TimerCorrect` adds
`TimerInv`, `MessageWithdrawn` adds `MessageInv` and assumes `~LossySend`, as it
must: a message whose answer is lost stays (section 4). `OneOpenEach` adds
`AdmitInv` (an entry of a map is registered and under its own identifier) and
`EntryInv`, and speaks of the time before a configuration is applied.
`CounterCorrect` and `CapacityKept` count with cardinalities: `EarlyInv`,
`CalmInv`, `CountInv`, `PlaceInv`, where only three actions change the set and
each changes it by one. `Refinement` shows that every step is a step of
`ApprovalPromise` or a stutter under `AllInv`, which adds `ReplyInv` (no reply
before the winner has come to it).

`OpenListed`, `SweepComplete` and `DecisionFollows` have a hypothesis, `Distinct`:
ssh-qqauth never uses an identifier twice. It cannot be dropped. `cleanup` and
the `Range` loops delete by identifier, so that the late delete of a settled
request takes the entry of a new one with the same identifier (section 4).
`ListInv` joins four parts. `VisitInv`: where a `Range` loop has invalidated a
request and has yet to delete, that request is settled, so the deletion hits
no open one. `OpenIsListed` itself. `SweepInv`: while a worker cleans up, its
connection is closed, and each open request past its own look at the connection
is still to come in the loop (`due` without `seen`); the lemma `SweepNext` is the
race of the `Store` and the look against the close and the `Range`. `StaleInv`:
for a click checked under an earlier configuration, the restart has yet to walk
the global map, or has the request still to come, or the request is settled.
`StillToCome` says once what a step of a loop does to the entries it has not
seen; `ClicksDecide` says that nothing but a click approves or denies.

Frame lemmas (`AnswerFrame`, `TimerFrame`,
`MessageFrame`, `OthersFrame`, `MapsFrame`, `PromiseFrame`) say once what a step
that leaves certain variables alone keeps.

**Gateway.** `TypeCorrect` needs `Dialled` (between `SetConn` and the deferred
close there is a connection). `ConnectionsClosed` follows from `WireInv`: what the
field holds is the last connection, and an open connection is the last one and
either in the field or about to be put there; `Closes` says once what `closeConn`
achieves, for its four callers. `HeartbeatsEnd`: `OneHeartbeat` is inductive with
the types. `EventsOnce` and `RefusedForgotten` follow from `SessionInv`: a stored
session can be resumed, is not refused, and its last handled event is
`latestSeq`; while the client reads, the stored session is the one served.

**CallbackRing.** `RingInv` joins the types, `NewestInv` (each of the newest
registrations lies as many slots before `nowIndex` as it is old, for any size),
`EchoInv` (the button of `plugins/echo` has the first slot), `FilledInv` (which
slots are filled before `startIndex` first moves) and `WaitingInv` (only what has
been shown is clicked). From it follow `NewestKept`, `OwnHandler` and
`NeverPanics`.

**Sending.** Two assumptions carry the token: `BufferAssumption`, a token is given
up more than two ticks per attempt early (ten against eight in the code), and
`GrantAssumption`, the platform grants longer tokens than that (two hours).
`CacheInv` says what the cache promises: a token that is not given up yet lives
for `Buffer` ticks more, short of the one for which its answer may have been on
the way. `LockInv` (who refreshes holds the lock), `ReadInv`, `HeaderInv` and
`FetchInv` follow a goroutine from the check through its attempts: a token in a
header lives for a tick per attempt and pause that may still come. `AnswersTrue`
is inductive with the types; `NumbersDiffer` follows from `NumberInv`: the
counter is ahead of every number given out, by two while a goroutine is between
counting and reading.

**Scheduler.** `TableInv` (what the table holds is registered there and not
cancelled) and `StateInv` (the flags; stop channels count starts) carry
`ServedInv` (until the second start), whose argument is that `Register` and
`Start` look at the table and at `started` in opposite order, so that one of
them launches the goroutine; `LiveStays` says once that a goroutine nobody has
ended goes on. `RunnerInv`: until a second start nothing runs before the launch,
and a job that is not `straddled` has none until its `Register` is over.
`FiredInv` compares clocks: the only cron goroutine never goes back, so its tick
is not older than any `lastFire`. `SlotExists` and `Launched` say what the go
statements do, for any number of jobs (assumed finite).

**GroupPlugins.** `TypeInv` joins the types of the three modules; `SubjectInv`
says whom or what each handler is about, and `DiskInv` that only the guard writes
its setting. `LinksOnce` follows from `RouteInv`, which compares the table with
what was ever issued: an entry that may be used once has not been used, and
only an entry that is over may be expired. `Verified` and `WayOut` rest on
`EnterInv` (who is being let in by the link has followed it; `LapsedKept`: only
time ends a mute of its own accord), `JoinInv` (at most
one goroutine handles a member's request to join, and it draws the token) and
`WayInv` (who is muted and has a link can use it, is just being unmuted, or is
one of the named cases). `PushAllowed` adds `StoreInv` (only the handle in the
package variable is open, and in a process that serves it is the configured
file, which holds what the owner was told) and `PushInv`, which says what is known
of a push at each of its three steps. `StepKinds` names once the few ways in
which a step changes `pc` and `subject`. Two assumptions are added:
`SettingAssumption`, the values a key may have contain the switches and the keys
of pushes, and a file found at the start holds a switch or nothing for the guard,
as nothing else writes that key (`guard.go:146-151`, `175`);
`RouteAssumption`, which names the plugin identifiers and the method in use
(`guard.go` registers `GET` links).

**PluginConfig and CommandDispatch.** A value is `Stable` when a process that
loads it takes it as it is. The lemmas `SettingsStable` and `AccessStable` show
that what `Prepare` lets through is stable whatever the form says and whatever
is in memory, so that preparing twice changes nothing; `ValueInv` follows the
value through request, file and memory. `TornInv` (an empty file has a writer,
or one that failed) and `RefusalInv` (an entry that would be refused is on its
way to `ApplyConfig`, has been there, or the process ended before) give
`Starts`. `WriterInv` (`OneWriter`): whoever has emptied the file holds
`configLock`, so each write ends an emptying of its own. `AloneInv`: where no
two requests have overlapped, the file holds what a request between save and
apply brings; its third part, `EffectInv`, is `SavedIsInEffect` for what the
file holds or held before it was emptied, which carries it through a write.
`BlankInv`: a form without a password carries the one in memory
(`SecretSurvives`). `StartsFollow` combines `EffectInv` with `CanUse`: the rules
the panel shows are those a start would load (`ShownLoaded`), and while nothing
is under way those in memory. `RunsJudged` is about two parsers:
`ResolveCommand` walks the text without its leading mention, the handler the raw
text with all mentions filtered out (`FilterAt`). `WalkLeads` says that a walk
ends at a command made of the first words, `LeafWalk` that it ends at once at a
command without subcommands, `Agree` puts both parsers together. How far a walk
leads is named as the greatest length that is a command (`LastExists`), not by
recursion. The assumptions are `FormAssumption` (the fields of an access form
are a mode and lists; any word is a mode), `NullAssumption` (the null value is
no request and no setting), `OwnerAssumption` (each command has its plugin),
`DefaultAssumption` (a plugin takes its own default settings),
`MessageAssumption` (texts are sequences of words), `MentionAssumption` (no
command is named like a mention of the bot, which holds for every plugin of the
repository and which the registry does not check) and `SentAssumption` (the
bound is a number).

**Cron expressions.** `CronAsDocumented` is about a loop, `Count`, whose number
of rounds has no bound. The function it calls itself by is defined on all
integers and need not exist when a step takes int around; `LoopExists` writes
one down (`Series`, and one step more below the least int) where none does, with
`Wrapped` for the arithmetic of int and `StepKeepsRemainder` for that of `%`.
`LoopMeans` shows that it is the only one: the numbers at which another one
differs would have a last one, and the number after it would differ too. That
least-element argument takes the place of an induction. `FieldMeans` and
`MatchMeans` carry the result to fields and expressions, the invariant
`FiredWhenDue` to the jobs. `WidthAssumption` states of the powers of two that
bound an int what holds for every width (the provers know no powers);
`MatchAssumption` defines `Due`; `ExprAssumption` and `FieldAssumption` say that
parts have been read, and that a field's range is one of ints (0-59, 0-23, 1-31,
1-12, 0-6 in the code).

**Only model-checked.** All liveness (`EveryRequestSettles`, `RestartCompletes`,
`LeavesSilentPeer`, `RedialsAfterLoss`, `CancelEndsLoop`, `StopEndsLoops`,
`EverySendEnds`), which the proof system does not reach. Every invariant, every
action property and the refinement that a passing run checks are theorems.
`OneOpenPerId` is the other way round: it needs two requests with one
identifier, which no run has, and rests on `OneOpenEach` alone. `ssh_restart`
has one request, for which `Distinct` holds by itself; the theorems cover any
number of requests that differ in their identifiers.

## 6. Plan

Done: the approval plugin with its promise, the callback table, the gateway, the
scheduler and its cron expressions, the configuration and the dispatch of
commands, the platform client with the messages, the store, the links and the
plugins on top of them. Left, in this order:

1. An abstract specification of a saved page (one value, changed by one request
   at a time) that `PluginConfig` implements while requests do not overlap.
2. The custom parsers and the handlers for joining members in
   `CommandDispatch`, and the approval plugin over the callback table: two ways
   to a button's handler.

Not modelled and not planned: formatting (templates, keyboards, mail), images,
the signature check, the constants and data carriers, and handlers that run one
call after the other without shared state (`echo`, `bind`, `uptime`,
`imagegen`, which removes its temporary file on every return). `PROJECT.json`
gives the reason for each component.
