# MicroChat: a TLA+ verification project

MicroChat is a Windows messaging client: `MicroChatSDK` (a DLL that speaks the
protocol on top of Tencent's `mars` network library), `MicroChat` (the window
application, on DuiLib), and vendored code. This directory models the SDK's own
logic - tasks and threads, login, message synchronisation, the local database,
packet headers - and the long link of mars it depends on, checks them with TLC and
proves their safety with TLAPS.

Paths below are relative to the repository (`src/`).

## 1. The system

| Component | State | Operations | Correct when |
|---|---|---|---|
| **Task table** `MicroChatSDK/Wrapper/NetworkService.cpp` | `map_task_` (task id -> `CGITask*`), the callback | `startTask`, `Req2Buf`, `Buf2Resp`, `OnTaskEnd`, `OnPush`, `stop` | the table holds exactly mars' tasks; no task is used after it is deleted; each is released |
| **mars/stn** `mars/stn/src` | message queue, task lists, retry counts, long link | start, pack, send, retry, time out, answer, end, reset | every task it accepts ends exactly once |
| **Message sync** `Business/NewSyncCGITask.cpp`, `ReportSyncKVCGITask.cpp`, `interface.cpp` | `s_bSyncing`, `s_bNeedReSync` | `NewSync`, `IsSyncing`, `IsNeedReSync`, `ReportSyncKV` | one sync at a time; a request made meanwhile is served |
| **First initialisation** `Business/NewInitCGITask.cpp`, `LoadFromDB` | - | `LoadFromDB`, `NewInit` | afterwards the database holds key, contacts and messages |
| **Timing sync** `mars/stn/src/timing_sync.cc` | alarm | fires while the long link is down | messages come in without the long link |
| **Local database** `MicroChatSDK/db`, `Business/AuthInfo.cpp` | tables `synckey`, `contact`, `msg` | `Init`, `ClearDB`, `GetSyncKey`, `UpdateSyncKey`, `AddMsg`, `LoadContact` | the key tells what is stored, also after the process has ended anywhere |
| **Packet headers** `Business/MakeHeader.cpp`, `ManualAuthCGITask.cpp`, `bindCGITask.cpp`, `fun.cpp` | cookie, session key | `MakeHeader`, `UnPackHeader`, `Dword2String`, `String2Dword` | client and server read what the other wrote |
| **Login** `ManualAuthCGITask.cpp`, `bindCGITask.cpp`, `LoginWnd.cpp` | `CAuthInfo`, keys of the task | `Login`, mobile verification | a success leaves a usable session |
| **Application callbacks** `MicroChat/business/callback.cpp` | - | `SDKCallBack`, `HandleCallBackError`, `ForceQuit` | every result reaches its window |
| **Long link** `mars/stn/src/longlink.cc`, `longlink_connect_monitor.cc` | `connectstatus_`, `disconnectinternalcode_`, `lstsenddata_`, the thread, the alarm | `MakeSureConnected`, `Disconnect`, `Send`, `__Run`, `__RunReadWrite`, noops | requests arrive whole; no task is forgotten or given a stale answer; a dead or lost connection is replaced |
| **Framing** `PublicComponentV2/longlink_packer.cc` | - | `longlink_pack`, `longlink_unpack` | frames survive any cutting of the stream |
| **Windows, crypto, protobuf, DuiLib, boost, sqlite3** | - | - | not modelled (section 8) |

How they interact. A window calls an exported function of `interface.cpp`, which
creates a `CGITask` and calls `startTask`; that puts the task in the table and
posts it to `NetCore`. From then on everything runs on the thread of NetCore's
message queue, called **Net** here: the task managers call `Req2Buf` to pack the
request, `Buf2Resp` with the answer (which stores data and calls the
application's callback), `OnTaskEnd` when the task is over and `OnPush` when the
server pushes. Handlers on Net themselves call `NewSync`, `ReportSyncKV` and
`RecvMobileVerifyCode`, so `startTask` is entered from the UI thread, the alarm
thread and Net. The long link has a thread of its own, **Link**, for each connection.
Net starts it, gives it frames through a list under a mutex, and joins it when it gives
a connection up; Link tells Net its status, its errors and the answers by messages.

What is hard: three threads ask for a sync; `Buf2Resp` uses its task after
releasing the lock; the flags of a sync are released by the end of *another*
task, which is started on only one path through the answer; retries pack and
send again; a task may time out before it was ever sent; the key is saved
before the data, each in a committed statement of its own, in a process that
ends itself with `TerminateProcess` on a protocol error; a connection may break at any
byte while Net is sending, cancelling or starting the next one, with messages of the old
connection still in the queue. PROJECT.json lists
these hazards at their lines.

## 2. Modules

| Module | Models | Uses |
|---|---|---|
| `NetworkService` | task table, threads in `startTask`, mars' life of a task | instantiates `TaskLife` |
| `NetworkService_proofs` | theorems about `NetworkService` | extends it |
| `TaskLife` | abstract specification of a task manager | - |
| `LongLink` | long link, its framing, task manager and connect monitor | instantiates `TaskLife` |
| `LongLink_proofs` | theorems about `LongLink` | extends it |
| `SyncGate` | abstract specification of the sync flags | - |
| `SyncService` | login, initialisation, sync, report, callbacks, on top of the task table | extends `NetworkService`, instantiates `SyncGate` |
| `SyncService_proofs` | theorems about `SyncService` | extends it and `NetworkService_proofs` |
| `MCSyncService` | symmetry for TLC | extends `SyncService` |
| `Login` | login window, ManualAuth and Bind tasks, mobile code dialogue, on top of the task table | extends `NetworkService` |
| `Login_proofs` | theorems about `Login` | extends it and `NetworkService_proofs` |
| `MCLogin` | symmetry for TLC | extends `Login` |
| `SyncStore` | the database statement by statement, crashes | - |
| `SyncStore_proofs` | theorems about `SyncStore` | extends it |
| `BaseHeader` | packet headers and variable-length integers | - |
| `BaseHeader_proofs` | theorems about `BaseHeader` | extends it |
| `MCBaseHeader` | lengths for TLC | extends `BaseHeader` |

Definitions named "Variant" in a comment are the mutants: plausible mistakes in
the code that each property must catch. No specification uses them.

### NetworkService

A step ends where the code releases `m_cs`, posts a message or returns to the
message loop. A thread in `startTask` goes through `NewTask` (the task is
created), `InsertTask` (under `m_cs`) and `PostTask`. Net takes its next event
(`NetIdle`) only when the last handler has returned and every task that ended
has been reported with `OnTaskEnd`. `map_task_` is the set of ids in the table;
a `CGITask` is alive exactly while its id is there, because `OnTaskEnd` deletes
and erases under one lock. `RunOnStartTask` is one turn of `__RunOnStartTask` for
one task: a long-link task is packed once although the link is down
(`antiavalanche_checked`), waits, and is packed again when it is sent; a short-link
task is packed and sent at once; a `send_only` task ends when it is sent. `LinkSend` is
what `LongLink::Send` returns: it may refuse what was just packed, and then the task waits as
before, with all its retries, and is packed again. `connected` stays set until Net takes the
error of the link: a link that has ended by itself, or that a time check has dropped
(`LongLink`, `OnTimerCheckSuc`), still counts, and all that is noticed of it is sends that fail
and answers that do not come.
`RetryOrEnd` is the effect of an error on a set of tasks. `TaskTimeout` ends a task
whether it was sent or not and, on the long link, breaks the link for all.
`StopSDK` releases NetCore on its own thread: messages are cancelled, listed tasks
end. `ForceQuit` keeps Net for three seconds, then the process is gone.

Abstracted: ids are reused when nothing refers to them any more (the code counts
up); all timeouts are "may happen now"; of `__ValidAndInitDefault` and the channel
checks only that no task of the SDK fails them.

`LeftOver` is the one way a task that is not running gets an answer: the error of a
connection was taken after the next one had come up (below, `resent`).

`TableLifeSpec` says that the two task managers, as the SDK sees them here, behave as `TaskLife`
(below) allows: `ListedLife` and `RetriesLeft` map the lists to it. A task whose end is decided
counts as finished at once, although `OnTaskEnd` has still to take it off the list.

### LongLink and TaskLife

Two threads and a server. `net` says where Net is: in its message loop, in a turn of
`__RunLoop` (`RunLoop`, `start`, `check`, `send`), inside `MakeSureConnected` with `mutex_`
held (`lock...`), or in `Disconnect`, joining (`join...`). `link` says where Link is. A step
ends where the other thread can see the difference: `thread_.start` and the reset after it
are two steps (`StartThread`, `ResetLink`), so are the check of the status and `Send`,
`__ConnectStatus(kDisConnected)` (`Close`) and the error that follows it (`ReportError`), and
each `send`, `recv` and turn of the unpacking loop.

| Model | Code |
|---|---|
| `StartTask`, `RunLoopDue`, `RunOnTimeout...`, `SkipTask`, `PackFails`, `VisitTask`, `CheckStatus`, `Send`, `RunLoopEnd` | `LongLinkTaskManager::StartTask` and one turn of `__RunLoop` |
| `BatchErrorRespHandle`, `Disconnect`, `Joined` | `__BatchErrorRespHandle`: retries or ends, `LongLink::Disconnect`, `CancelMessage` |
| `OnStatusChanged`, `OnAlarm` | `LongLinkConnectMonitor` |
| `OnSocketError`, `OnUnpackError`, `OnResponse` | `__OnResponse` on Net |
| `OnTimerCheckSuc` | `NetCore::__OnTimerCheckSuc`: `Disconnect` alone, no task fails and no message is cancelled |
| `Run`, `ConnectFails`, `Connected`, `Close`, `ReportError`, `ThreadEnds` | `__Run`, `__RunConnect` |
| `NoopReq`, `Write`, `Recv`, `Unpack`, `UserDisconnect`, `NoopTimeout`, `SocketError` | `__RunReadWrite` |
| `ServerTakes`, `ServerAnswers`, `ServerSends` | external: the server, which owes nothing |

Data. A request is two units on the wire, so that its write can stop half way. A frame of
the server has a header of two units and a body of one or none, so that a `recv` may end in a
header, before a body or behind a frame. A request carries the number of retries its task had
left, which tells one sending of a task from another; the code has no such mark, and no guard
of the model looks at it. `mq` is Net's queue; `loopAt` is the place of the delayed `__RunLoop`
message in it. A cancelled message keeps its place and is passed over. `resent` is a history
variable: the tasks that were sent again while the connection of their first sending was up;
`dropped` is another: the running tasks whose connection a time check has dropped.

`Disconnect` is called for errors and timeouts (`BatchErrorRespHandle`) and for a time check that
found a better address (`net_core.cc:718`; `netsource_timercheck.cc:105-135`, 158-173). Its other
callers are the destructor (`StopSDK` in `NetworkService`), `__ResetLongLink` (only on Apple),
`RedoTasks` and `NetworkChange` (never called by the SDK).

Abstracted: `OnSend`, `OnRecv`, the `kConnecting` status and pushes post messages that change
nothing here and are left out. Timers and intervals may be over at any time, and the alarm's
message may be taken ahead of others. Link may write and read a few more times after
`Disconnect` than in the code, where each turn of the loop looks at the code first. The server
sends by itself only when nothing else is on its way. On Windows one frame is written at a
time, which is what is modelled. Destructors are `NetworkService`'s matter (`StopSDK`).

`TaskLife` is what the SDK relies on: a task waits, is sent and is finished; a network error
sends it back to waiting at most `RetryCount` times, and nothing is sent after the end.
`LifeOf` maps the lists of the manager to it, and `LifeSpec` says that whatever the two threads
do is a step of `TaskLife` or none. `NetworkService`, whose mars has neither link nor messages,
implements the same specification, so that the simple picture on which `SyncService` and `Login`
are built makes no promise the detailed one does not keep.

### SyncService and SyncGate

`SyncService` adds to every step of `NetworkService` what the SDK and the
application do in it. `NewSync(th)` is `NewSync()` on thread `th`: `IsSyncing`
tests and sets the flag under `s_cs`. A handler on Net is several steps, so that
other threads run in between; `todo` says what it has still to do. Messages are
numbered in server order, a key is the last number it covers, and an answer
holds what the server had at some moment since the request was sent. The login
button stays active: `logins` counts its clicks, `succ` the `WM_LOGIN_SUCC` messages
that wait, and a second one loads the database again (`LoginSucc`).

`SyncGate` is what the flags should amount to: `open`, `busy`, `again`, and `lost`
for a sync that ended without reaching its report. `SyncWork` is the set of tasks
that hold the gate; `Gate` maps a state of `SyncService` to one of `SyncGate`, and
`GateRefined` says that every step maps to a step of the gate or to none.

### Login

`task` holds the members of the ManualAuth and Bind tasks that matter: the password
as the number of times it was hashed, the keys as the number of the packing that made
them, number and ticket of a Bind task. `Send` is one packing, with or without a send.
`wire` is what was sent and can still be answered, answers posted to Net included;
a send that the link refuses adds nothing to it, but the keys are new and the password is hashed
once more. `BreakLink` and `DeleteShortLink` empty it as `Disconnect` and `CancelMessage` do, unless the
error is late and another connection is up (`resent` remembers the tasks of this case). Net
sets ticket and number in two steps, and `SendMobileVerifyCode` reads them in two steps
on the UI thread (a string torn within one assignment is not modelled). `inbox` is the
login window's message queue; every window's loop serves it, since modal windows are
nested and none disables another (they are created without an owner). `again` records
that the button was clicked while a login was under way.

### SyncStore

`InitDB` opens the database, and from then on Net's statements are carried out; the
tables follow one by one (`CreateTable`; `created` says which there are). `Ready` is what a
statement needs to have an effect, `Rows` its effect: nobody looks at the result.
`UpdateSyncKey` is two statements (`DeleteKey`, `InsertKey`), `ClearDB` three,
`AddContact` and `AddMsg` one each, and `Crash` may come between any two. Two
threads write: the UI thread in `LoadFromDB`, Net in an answer; only
`GetSyncKey` and `SetSyncKey` exclude each other. `Unstorable` messages and `Quoted`
contacts are those whose insert statement SQLite rejects because their text or nickname
holds a quote. `NewInitFails` is a NewInit that ends with nothing stored: a body that
decrypts and does not parse (the callback goes on to `NewSync` all the same), one that
decrypts to nothing, or no answer. Three variables record history: `early`, that the alarm has
asked for a sync before the client was initialised; `hasty`, that a key was saved when the
table of the messages was not there; `unfilled`, that a NewInit has failed. A first login
starts without tables, a later one with what an orderly run has left.
The user's own messages, which `NewSendMsgCGITask.cpp:40` stores when they have been sent,
have no number from the server and do not touch the key; they are left out.
Which syncs can be in flight is `SyncService`'s matter (`SingleFlight`): here one is
asked for whenever none is. One login per process: the second `LoadFromDB` that two
logins in flight cause is in `SyncService`, where keys are, and not here, where rows are.

### BaseHeader

The three `MakeHeader`s and `UnPackHeader`s, byte by byte where a length or an
integer is concerned; version and uin are filler. `DigitStep` is one
turn of the loop of `Dword2String`; numbers have at most four digits to base 0x80
(below 256 MB), so that four turns are all there are. `Trailer` is what stands behind the
integers: it matters, because a reader who has taken too many bytes for one integer ends up
there. `TopBits` is what `String2Dword` keeps of a fifth byte before the `DWORD` overflows.
The uncompressed and the compressed length are independent of each other.
The server's side (`ServerPack`) is external:
the same layout with proper integers. Two assumptions about the server: a login
that succeeds brings a cookie, and a cookie has the 15 bytes of the protocol.

## 3. Runs

| Run | Module, cfg | Result | Shows |
|---|---|---|---|
| `task_table` | `NetworkService` | pass | `NetTypeOK`, `TableMatchesMars`, `PTaskAlive`, that both channels implement `TaskLife` (`TableLifeSpec`), and, with fairness, `EveryTaskReleased` |
| `task_callback` | `NetworkService`, `...Callback.cfg` | violation | a task that cannot be packed, or times out, ends without the promised callback |
| `sync_gate` | `MCSyncService` | pass | `SingleFlight`, `NeedReSyncOnlyWhileSyncing`, `GateRefined`, `ReportNeverLosesGate` with faults, retries and three requesting threads |
| `resync_delivers` | `MCSyncService`, `...Live.cfg` | pass | the sync that follows a report brings in everything the server had |
| `resync_follows` | `...ReSync.cfg` | violation | an answer without messages leaves the flags set for ever |
| `store` | `SyncStore` | pass | `StoredOnce`, `NothingBeyondKey`, `PostedIsStored` through crashes; `KeyTellsStore`, `NothingMissed` without one; with tables created one by one and inserts that fail |
| `store_friends` | `SyncStore`, `...Friends.cfg` | violation | a process that ends during `NewInit` leaves an incomplete friend list for good |
| `login` | `MCLogin` | pass | `AnswerFitsTask`, `TicketOfNumber`, `OneMainWindow` with two logins in flight, retries, broken links and refused sends |
| `login_password` | `MCLogin`, `...Password.cfg` | violation | a login that is packed twice sends the MD5 of the MD5 |
| `long_link` | `LongLink` | pass | `WholeRequests`, `FramesWhole`, `StatusTrue`, `RunningHasFate`, `AnswerToLastSending`, and that the manager implements `TaskLife` (`LifeSpec`) |
| `long_link_live` | `LongLink`, `...Live.cfg` | pass | `Disconnect` returns (`JoinEnds`), a dead peer is noticed (`HearsOrDrops`), the link is brought back (`LinkComesBack`) |
| `headers` | `MCBaseHeader` | pass | header lengths are true, answers are understood, requests are understood exactly when their integers are "regular" |

What the violations quote is in PROJECT.json under `findings`. Further observations,
most of which the passing properties state as their limits:

* `RequestUnderstoodIffRegular`: `Dword2String` drops zero digits and writes `0x80`
  (and its like) as one byte, so a request whose length is, say, 16385 states
  another length.
* `StoredOnce`, `NothingBeyondKey` and `KeyTellsStore` need `~early`: a sync that the
  alarm starts before `LoadFromDB` and `NewInit` are done can store messages twice,
  or leave a key without contacts.
* `NothingMissed` excepts `hasty`: on a first login the database is open before its tables are
  there (`sql.cpp:41`, `db.cpp:33-65`). A sync decoded in between saves its key once `synckey`
  exists and loses its messages until `msg` does; `LoadFromDB` then finds a key and never calls
  `NewInit`. It also excepts a NewInit that fails after an early alarm, since what was cleared
  under the sync is not brought back.
* `KeyTellsStore` leaves out `Unstorable` messages and `Quoted` contacts, which are lost for good
  (`db.cpp:150`, `NewInitCGITask.cpp:118`), and the contacts altogether when NewInit failed
  (`unfilled`): a body that cannot be parsed counts as a success (`NewInitCGITask.cpp:66`), the sync
  that follows saves a key, and no later login repeats the NewInit.
* `RunningHasFate` says less of the tasks in `dropped`: after a time check (`net_core.cc:718`) Link
  ends without an error and no task is failed, so a task that was running waits for its timeout
  although a new connection may long be up.
* Nothing bounds how often a request is packed: a `Send` that the link refuses
  (`longlink_task_manager.cc:359`) costs no retry, and each packing hashes the password again.
* `KeyTellsStore` and `NothingMissed` are about runs without a crash: after one, the
  key may cover messages that were never stored, and they are not fetched again.
* `TicketOfNumber` is about the request for a code only: `SendMobileVerifyCode` may pair
  the number of one account with the ticket of another when two logins overlap, and
  `OneMainWindow` needs `~again`.
* `AnswerToLastSending` and `AnswerFitsTask` except the tasks of `resent`. An error message does
  not say which connection it is about. If the next connection is up when Net takes it, the
  tasks already sent on that one are failed too (`longlink_task_manager.cc:516`), lose a retry
  and are sent again on the same connection; the answer to the first sending then ends the task.
* `LinkComesBack` excepts `AlarmSpent`: if the alarm goes off before the last thread has ended,
  `MakeSureConnected` does nothing, `__IntervalConnect` returns 0 all the same
  (`longlink_connect_monitor.cc:174`) and the alarm is not set again. The next task brings
  the link back, or nothing does.
* The periodic sync is there for the time without a long link (`NetworkService.cpp:272`), but
  `NewSync` makes a task of the long channel only (`interface.cpp:161`): it waits for the link.
* `NewInit` goes over the short link and a sync of the alarm over the long link; each answer
  overwrites the key (`NewInitCGITask.cpp:69`), so the later one may take it back. `NothingMissed`
  and `StoredOnce` hold nevertheless where they claim to.

### Bounds

The safety properties of all runs are proved for all sizes as well (section 4). The
bounds below are there to check the model and its liveness, and the inductive invariants before they were proved.

* `task_table`: two callers and Net, two tasks, one retry: a task answered while
  another is inserted, posted, retried or timed out, and a task started inside a
  handler. Two tasks keep the liveness check small.
* `sync_gate`: three tasks are a sync, its report and a third (`NewInit`, a second
  login or a task that should not exist); one message tells an empty answer from one
  that starts a report; one retry; two clicks on the login button. Fresh ids are the only bound on requests.
* `resync_*`: as above without faults and retries.
* `login`: three tasks (a login, a second one, a Bind task), two accounts, two clicks on
  the login button and one on the button that sends the code, one retry. `MaxPack` bounds the
  packings of a task, which nothing but its total time bounds in the code, to four: one while the
  link is down, one that the link refuses, one sent and one for the retry, in any order that the
  link allows.
* `store`: three messages (one before, one in, one after an answer; message 2 cannot
  be stored), two contacts (a crash between them; one cannot be stored), two crashes (one
  during the recovery from another).
* `long_link`: two tasks, one of which expects no answer, and one retry: a task in the middle of
  its write while another waits, is sent, answered or retried, on one connection after the other.
  `MaxBacklog` bounds the messages Net has not taken when something new begins (a thread, a task,
  a frame the server sends by itself) to one: enough for an error or a status of the last
  connection to be taken during the next. What follows posts as many messages as it may; time and
  retries are free.
* `long_link_live`: one task, one retry and no backlog; liveness is about the link, not the tasks.
* `headers`: lengths at, one below and one above every point where an integer gets a digit or a
  digit becomes zero, up to four digits, in all pairs.

`CHECK_DEADLOCK FALSE` is set where the process may end (`ForceQuit`, `StopSDK`).

### Fairness

`NetFairness`: a thread inside `startTask` finishes it (no step of it waits); handlers
on Net return - strong fairness, since a handler may start tasks a finite but
unmodelled number of times; posted messages are taken; `OnTaskEnd` is called; a
listed task is timed out in the end, because `__RunLoop` posts itself again every
second while a task is listed and every task has a total timeout. Nothing is
assumed of the server, the link or the user.

`SyncFairness` (runs without faults): in addition requests are sent and answered, and
the alarm fires while it is armed (`__OnAlarm` starts it again). `FairSyncSpec` adds
that the long link comes up again and again.

`LinkFairness`: both threads go on (weak fairness of what they do outside a wait); an attempt to
connect ends, because `ComplexConnect` has a timeout; every turn of the read-write loop looks at
the disconnect code, at the interval of the noops and at the list to write, so that these three
are strongly fair, and so is Net in taking messages. The alarms of the noop and of the monitor go
off if they stay set. Nothing is assumed of the server, of new tasks, or of the timeouts of tasks.

## 4. Proofs

`NetworkService_proofs`, for every set of callers and task ids and every retry count
(from `NetworkAssumption`: Net is no caller, `NoTask` no id, `RetryCount` a natural):

* `NetTypes`: `NetSpec => []NetTypeOK`
* `TableAlwaysMatches`: `NetSpec => []TableMatchesMars`
* `PTaskAlwaysAlive`: `NetSpec => []PTaskAlive`
* `TableImplementsLife`: `NetSpec => TableLifeSpec`

All rest on `NetInvariant`, `NetSpec => []NetInv`. `TableMatchesMars` is not inductive: when
`OnTaskEnd` erases an entry one must know that the id is in no message and that no
thread is starting it. `StartersOwnTask` says that a thread in `startTask` is the only
one to know its id; `ListsConsistent` that a message and a listed task are never the
same, that running and ended tasks are listed, and that the task at hand is listed
with no end pending. `PTaskAlive` follows. There is one lemma per action;
`RetryOrEndTypes` covers the three actions that retry. For the refinement each action is shown to
be `Start`, `Sent`, `Settle` or no step of `TaskLife`; `NetInv` is needed because a task that fails
must be listed and running, and one that starts must not be listed. With `SyncImplementsTable` and
`LoginImplementsTable` below the result carries over to `SyncSpec` and `LoginSpec`.

`LongLink_proofs`, for every set of tasks, any of them without answer, every retry count and
every backlog (from `LinkAssumption`):

* `LinkTypes`: `Spec => []LinkTypeOK`
* `RequestsAlwaysWhole`: `Spec => []WholeRequests`
* `FramesAlwaysWhole`: `Spec => []FramesWhole`
* `StatusAlwaysTrue`: `Spec => []StatusTrue`
* `SentAlwaysHasFate`: `Spec => []RunningHasFate`
* `AnswersToLastSending`: `Spec => []AnswerToLastSending`
* `LinkImplementsLife`: `Spec => LifeSpec`

They rest on `LinkInvariant`, `Spec => []LinkInv`. What has to be added to the properties:

* `ThreadInv`: while Net holds `mutex_` over several steps the thread has just been started and
  does nothing; Link is asked to stop only while Net waits for it, when no task is running or,
  for a time check, all that run are in `dropped`; a connection that ends without an error was asked
  to. `StatusTrue` and `RunningHasFate` need it.
* `ListInv`: which task `__RunOnStartTask` is at, that an unlisted task has no retries, and that
  `__RunLoop` is posted or under way (`Watched`) while a task is listed: this is what the tasks in
  `dropped` depend on.
* `WireInv`: a connection begins with nothing to write and nothing on the wire. This is where the
  reset in `MakeSureConnected` enters, and what makes `WholeRequests` hold across connections.
* `InFlightInv`: wherever a request or its answer is - in the list, on the wire, in a buffer, in
  a message - it is that of the last sending, except while Net is joining after an error: then
  messages of the connection that was dropped are still there, and `CancelMessage` after the join
  removes them. After a time check nothing is cancelled, and nothing has to be, since the tasks are
  still running.
* `DroppedInv`: nothing of a task in `dropped` is on the connection that follows, so that a late error
  which fails the tasks does not make it one that was sent twice there.
* `StreamInv`: what was received and what is on its way are together whole frames in a row, so
  that `bufrecv` starts at a frame whatever `recv` took.

There is one lemma per action and group of conjuncts it can disturb; the refinement maps each
action to `Start`, `Sent` or `Settle` of `TaskLife`, or to no step.

`SyncService_proofs`, for every set of task ids, retry count, number of messages and of clicks, with
and without network faults (from `NetworkAssumption` and `SyncAssumption`: the callers are the UI
and the alarm thread, there is at least one click):

* `SyncImplementsTable`: `SyncSpec => NetSpec`
* `SyncTypes`: `SyncSpec => []SyncTypeOK`
* `OneSyncAtATime`: `SyncSpec => []SingleFlight`
* `RequestsNeverLeak`: `SyncSpec => []NeedReSyncOnlyWhileSyncing`
* `GateIsRefined`: `SyncSpec => GateRefined`
* `ReportKeepsGate`: `SyncSpec => ReportNeverLosesGate`

Every action of `SyncService` contains one of `NetworkService` or leaves the table alone, so `NetInv`
carries over, and with it every theorem about the table. `SyncInvariant` adds to it and to the
properties `EndedTaskGone` (the report whose `OnTaskEnd` takes the gate over is on no list any more,
else the sync that it starts would be a second one) and `LoginsCounted` (each click leads to at most
one `WM_LOGIN_SUCC`). What a step does to the gate is one of five cases (`Shrinks`, `Merges`, `Starts`,
`PassesOn`, `Finishes`); one lemma per action says which, and each case keeps `SingleFlight`
and is a step of `SyncGate` or none.

`Login_proofs`, for every set of accounts and task ids, any number of clicks, retries and packings (from
`NetworkAssumption` and `LoginAssumption`: the UI thread is the caller, `NoUser` no account):

* `LoginImplementsTable`: `LoginSpec => NetSpec`
* `LoginTypes`: `LoginSpec => []LoginTypeOK`
* `AnswerAlwaysFits`: `LoginSpec => []AnswerFitsTask`
* `TicketAlwaysOfNumber`: `LoginSpec => []TicketOfNumber`
* `OnlyOneMainWindow`: `LoginSpec => []OneMainWindow`

`LoginInvariant` adds:

* `OneAnswer`: a task that was not sent twice on one connection has one answer to come, and none while
  that answer is handled. `AnswerFitsTask` needs it when the next packing makes new keys.
* `HandlerFits`: between the two assignments of ticket and number, and until the Bind task has been
  made of them, nobody else writes them. `TicketOfNumber` needs it.
* `OneLogin`: without an early click a login is under way, or its success waits in the queue of the
  window, or the main window is there, and never two of these with a login that may still succeed.
* `ClicksCounted`: open tasks, waiting messages and windows together are at most the clicks.

`SyncStore_proofs`, for any number of messages, contacts and crashes and whichever messages and contacts SQLite
rejects (`StoreAssumption` only gives the constants their types):

* `StoreTypes`: `StoreSpec => []StoreTypeOK`
* `NothingStoredBeyondKey`: `StoreSpec => []NothingBeyondKey`
* `StoredAtMostOnce`: `StoreSpec => []StoredOnce`
* `KeyAlwaysTellsStore`: `StoreSpec => []KeyTellsStore`
* `NothingEverMissed`: `StoreSpec => []NothingMissed`
* `PostedAlwaysStored`: `StoreSpec => []PostedIsStored`

The properties speak of the moment between two answers; `StoreInvariant` says what holds inside one.
`TablesMade` says which tables are there at which point of `LoadFromDB`, and that a table that is not
there has no rows; `Positions` orders request, answer and server; `Orderly` says that without an early alarm a sync and
the first initialisation exclude each other, the tables are there when Net needs them, and a request
goes on from the stored key; `StoredTo`
bounds what is stored from above, through crashes; `StoredFrom` bounds it from below, without one.
`HeldToPositions` is for `NothingMissed`, which holds with an early alarm too: `LoadFromDB` clears the
tables under a running sync, `NewInit` fills them again, and every position in use - the key, the one
a request goes on from, the one an answer has come to - covers only messages that are stored or that
the `NewInit` under way will bring; `hasty` and a failed `NewInit` are what would break it.

`BaseHeader_proofs`, for all cgi types and lengths below 128^4 (`HeaderAssumption`):

* `HeaderLengthAlwaysTrue`: `HeaderSpec => []HeaderLengthTrue`
* `AnswersAlwaysUnderstood`: `HeaderSpec => []AnswerUnderstood`
* `RegularRequestsUnderstood`: `HeaderSpec => []RegularUnderstood`, which adds that the body
  starts where it should
* `RequestsUnderstoodIffRegular`: `HeaderSpec => []RequestUnderstoodIffRegular`

`HeaderInvariant` needs little of the state - a session key comes with a cookie of 15 bytes - and
much about the bytes: a header has at most 56 of them, so its length fits into six bits;
`String2Dword` inside a packet reads back what a proper encoder wrote and stops behind it; for a
regular number `Dword2String` leaves out a division only above the highest digit, so it is such an
encoder.

The other direction is the harder one, since a number that is written wrongly could still be read
rightly with the help of the bytes behind it, and the reader then starts the next integer at the
wrong place. Suppose a request is read as it was meant. An irregular number has too few bytes, and if
one of them ends the integer, what is read is smaller than what was meant (`IrregularReads`). Only 128
and 16384 are written without such a byte; they are read rightly only if the lowest digit of the next
integer is a one, and then they swallow that integer whole (`ReadsTwo`). If the cgi type does this, the
compressed length is read for the uncompressed one and has a one for its lowest digit too
(`OneReads`); if the uncompressed length does it, the compressed one has that digit by itself. In both
cases the compressed length is then read from the trailing block, which gives 0 or 158
(`LOGIN_RSA_VER`), and the lowest digit of neither is a one. The compressed length itself, when
irregular, has the trailing block behind it and no one there.

Only model-checked: liveness under fairness, which this prover has no rules for, that is
`EveryTaskReleased`, `ReSyncDelivers`, `JoinEnds`, `HearsOrDrops` and `LinkComesBack`. Every safety
property of a passing run is the statement of a theorem.

## 5. Running

`tlc -config <cfg> <module>`, with the pairs of PROJECT.json; `tlapm <module>` for the six modules
`*_proofs.tla`. The longest run is `long_link` (two to four minutes). The
proofs of the task table take seconds, those of the other modules one to three minutes each, those of
the long link some minutes.

## 6. Plan

All steps are done.

1. `NetworkService` - task table and mars. *done*
2. `SyncGate`, `SyncService` - sync flags, composed with the task table. *done*
3. `SyncStore` - database and crashes. *done*
4. `BaseHeader` - headers and integers. *done*
5. `NetworkService_proofs` - safety of the task table. *done*
6. `Login` - password, keys and the mobile code dialogue. *done*
7. `LongLink`, `TaskLife`, `LongLink_proofs` - the long link with its framing, what its task
   manager promises, and the proofs. *done*
8. `SyncService_proofs`, `Login_proofs`, `SyncStore_proofs`, `BaseHeader_proofs`: `SyncSpec` and
   `LoginSpec` implement `NetSpec` step by step, so that `NetInv` carries over; then the safety
   properties of each. *done*
9. The "only if" half of `RequestUnderstoodIffRegular`, and the task table as an implementation of
   `TaskLife`. *done*

## 7. Correspondence to the code

PROJECT.json `map` gives for each definition the file, lines and function it
translates. Names follow the source; where TLA+ needs another name the comment says
which function is meant.

## 8. Not modelled

* Windows: `Login` has the login and code windows and the creation of the main window. The
  lists of `MainWnd` and `friendWnd` and the life of the window objects are left out.
* Cryptography and compression: no state; a failure is a failed packing or an error
  while decoding.
* Generated protobuf code and vendored libraries (DuiLib, boost, OpenSSL, sqlite3, the
  rest of mars).
* `GetLonglinkIdentifyCheckBuffer`: returns `kCheckNever` in its first line.
* Memory of results handed to windows (`m_res`, `SafeFree`).
* The asynchronous queue of `Sql3` (`db/sql.cpp`): every caller uses the synchronous `ExecSQL`, so
  the queue is never filled. Messages the user sends (`NewSendMsgCGITask.cpp:40`) are not in `SyncStore`.
* Operations of mars the SDK never calls: `StopTask`, `RedoTasks`, `RetryTasks`, `NetworkChange`,
  `KeepSignal`; zombie tasks (no task of the SDK is saved as one), the lengths of heartbeat and
  reconnection intervals, DNS and the choice of an address (of the time check for a better one only its
  effect on the link), the threads of short links.
* `shortlink_packer.cc`: it formats an HTTP request and keeps nothing.
