------------------------------ MODULE LongLink ------------------------------
(***************************************************************************)
(* The long link of mars: LongLink (mars/stn/src/longlink.cc), its packer  *)
(* (PublicComponentV2/longlink_packer.cc), its task manager and its        *)
(* connect monitor.                                                        *)
(*                                                                         *)
(*   Net    the thread of the message queue: the task manager's loop, the  *)
(*          monitor, and every handler of a message the link posted        *)
(*   Link   the thread of the link (LongLink::__Run), started by           *)
(*          MakeSureConnected, alive for one connection                    *)
(*   server the other end of the socket; it owes nothing                   *)
(*                                                                         *)
(* Net and Link share lstsenddata_ under mutex_, and connectstatus_ and    *)
(* disconnectinternalcode_ with no lock.  Link talks to Net by messages,   *)
(* which Net takes in the order of posting; the RunLoop message is delayed *)
(* and may be taken, when it is due, ahead of messages posted after it.    *)
(*                                                                         *)
(* A request on the wire is two units (its write may stop in between).  A  *)
(* frame from the server has a header of two units and a body of one or    *)
(* none, so that a recv may end in a header, in front of a body, or hold   *)
(* several frames.  Packing and decoding are NetworkService's business.    *)
(***************************************************************************)
EXTENDS Integers, Sequences, FiniteSets

CONSTANTS
    Task,           \* tasks of the long channel; an id is reused only when nothing refers to it
    SendOnly,       \* those that expect no answer
    NoTask,
    RetryCount,     \* DEF_TASK_RETRY_COUNT
    MaxBacklog      \* bound: messages Net has not taken when a thread or a task is
                    \* started or the server sends by itself

ASSUME LinkAssumption ==
    /\ SendOnly \subseteq Task
    /\ NoTask \notin Task
    /\ RetryCount \in Nat
    /\ MaxBacklog \in Nat

VARIABLES
    \* Net: LongLinkTaskManager and LongLinkConnectMonitor
    lst_cmd_,           \* tasks the manager holds
    running_id,         \* those handed to the link
    remain_retry_count,
    net,                \* where Net is
    todo,               \* tasks __RunOnStartTask has not visited yet
    cur,                \* the task it visits
    mq,                 \* messages posted to Net and not taken
    loopAt,             \* how many of them are ahead of the RunLoop message; -1: there is none
    alarm_,             \* the monitor's alarm is set
    resent,             \* history: tasks sent again on a connection that was still up
    dropped,            \* history: running tasks whose connection a time check has dropped
    \* shared
    connectstatus_,
    disconnectinternalcode_,    \* Net asked Link to stop
    lstsenddata_,       \* frames to write
    pos,                \* units of the first one already written
    \* Link
    link,               \* where Link is; "none": there is no thread
    errtype,            \* why the connection ends
    nooping,            \* a noop waits for its answer
    bufrecv,            \* units received and not unpacked
    \* the socket
    part,               \* the request the server has begun to receive
    asked,              \* requests the server has and has not answered
    down                \* units on their way from the server

mgrVars == <<lst_cmd_, running_id, remain_retry_count, resent, dropped>>
netVars == <<net, todo, cur, alarm_>>
msgVars == <<mq, loopAt>>
sharedVars == <<connectstatus_, disconnectinternalcode_, lstsenddata_, pos>>
threadVars == <<link, errtype, nooping, bufrecv>>
wireVars == <<part, asked, down>>
linkVars == <<lst_cmd_, running_id, remain_retry_count,
              resent, dropped, net, todo, cur, alarm_, mq, loopAt, connectstatus_,
              disconnectinternalcode_, lstsenddata_, pos, link, errtype, nooping,
              bufrecv, part, asked, down>>

-----------------------------------------------------------------------------
(***************************************************************************)
(* Frames.  A request is told from another sending of the same task by the *)
(* retries it had left; the server echoes the id (st.seq) it was sent.     *)
(***************************************************************************)
Request == [t : Task, r : 0..RetryCount]
Noop == [t |-> NoTask, r |-> 0]
Answer == {[k |-> "resp", t |-> q.t, r |-> q.r] : q \in Request}
Other(k) == [k |-> k, t |-> NoTask, r |-> 0]
ServerFrame == Answer \cup {Other("push"), Other("noop"), Other("bad")}

RequestLen == 2
HeadLen == 2

(* st.pack_length: a noop is a bare header. *)
PackLen(f) == HeadLen + (IF f.k = "resp" THEN 1 ELSE 0)

Units(f, n) == [i \in 1..n |-> [f |-> f, i |-> i]]
ServerUnit == [f : ServerFrame, i : 1..(HeadLen + 1)]

(* Variant: the length of the package is compared one off. *)
unpack_testStrict(buf) ==
    IF Len(buf) < HeadLen THEN "CONTINUE"
    ELSE IF buf[1].f.k = "bad" \/ buf[1].i # 1 THEN "FALSE"
    ELSE IF PackLen(buf[1].f) >= Len(buf) THEN "CONTINUE"
    ELSE "OK"

(* __unpack_test: a frame of another version or of more than a megabyte    *)
(* ("bad"), or bytes that are no header, are refused.                      *)
unpack_test(buf) ==
    IF Len(buf) < HeadLen THEN "CONTINUE"
    ELSE IF buf[1].f.k = "bad" \/ buf[1].i # 1 THEN "FALSE"
    ELSE IF PackLen(buf[1].f) > Len(buf) THEN "CONTINUE"
    ELSE "OK"

-----------------------------------------------------------------------------
StatusMsg == [m : {"status"}, s : {"Connected", "ConnectFailed", "DisConnected"}]
ErrorMsg == [m : {"error"}, e : {"socket", "xp"}]
ResponseMsg == [m : {"OnResponse"}, f : ServerFrame, body : Seq(ServerUnit)]
Cancelled == [m |-> "cancelled"]
Message == StatusMsg \cup ErrorMsg \cup ResponseMsg \cup {Cancelled}

(* CancelMessage(asyncreg_, 0): it removes the messages the task manager   *)
(* was posted without a title.  Here their places stay, and Net passes     *)
(* over them.                                                              *)
CancelMessage(q) ==
    [i \in 1..Len(q) |-> IF q[i].m \in {"error", "OnResponse"} THEN Cancelled ELSE q[i]]

Up == {"noop", "rw", "unpack", "closing"}
Cancelling == {"joinTimeout", "joinResponse"}
Joining == Cancelling \cup {"joinCheck"}
Locking == {"lockStart", "lockVisit", "lockAlarm"}

LinkTypeOK ==
    /\ lst_cmd_ \subseteq Task
    /\ running_id \subseteq lst_cmd_
    /\ resent \subseteq Task
    /\ dropped \subseteq running_id
    /\ remain_retry_count \in [Task -> 0..RetryCount]
    /\ net \in {"loop", "RunLoop", "start", "check", "send"} \cup Joining \cup Locking
    /\ todo \subseteq lst_cmd_
    /\ cur \in Task \cup {NoTask}
    /\ mq \in Seq(Message)
    /\ loopAt \in -1..Len(mq)
    /\ alarm_ \in BOOLEAN
    /\ connectstatus_ \in {"ConnectIdle", "Connecting", "Connected", "ConnectFailed", "DisConnected"}
    /\ disconnectinternalcode_ \in BOOLEAN
    /\ lstsenddata_ \in Seq(Request \cup {Noop})
    /\ pos \in 0..(RequestLen - 1)
    /\ link \in Up \cup {"none", "start", "connect", "report", "end"}
    /\ errtype \in {"ok", "socket", "xp"}
    /\ nooping \in BOOLEAN
    /\ bufrecv \in Seq(ServerUnit)
    /\ part \subseteq Request \cup {Noop}
    /\ asked \subseteq Request \cup {Noop}
    /\ down \in Seq(ServerUnit)

Init ==
    /\ lst_cmd_ = {}
    /\ running_id = {}
    /\ resent = {}
    /\ dropped = {}
    /\ remain_retry_count = [t \in Task |-> 0]
    /\ net = "loop"
    /\ todo = {}
    /\ cur = NoTask
    /\ mq = <<>>
    /\ loopAt = -1
    /\ alarm_ = FALSE
    /\ connectstatus_ = "ConnectIdle"
    /\ disconnectinternalcode_ = FALSE
    /\ lstsenddata_ = <<>>
    /\ pos = 0
    /\ link = "none"
    /\ errtype = "ok"
    /\ nooping = FALSE
    /\ bufrecv = <<>>
    /\ part = {}
    /\ asked = {}
    /\ down = <<>>

-----------------------------------------------------------------------------
(***************************************************************************)
(* Net: LongLink::MakeSureConnected and Disconnect, as their callers see   *)
(* them.                                                                   *)
(***************************************************************************)

(* Nobody but Net in MakeSureConnected holds mutex_ over several steps. *)
MutexFree == net \notin Locking

(* MakeSureConnected, up to thread_.start(&newone): a thread is created    *)
(* unless the last one is still ending.  Net holds mutex_ from here on.    *)
StartThread(pc) ==
    /\ connectstatus_ \notin {"Connecting", "Connected"}
    /\ link = "none"
    /\ Len(mq) <= MaxBacklog
    /\ link' = "start"
    /\ net' = pc

(* Where Net goes on after MakeSureConnected. *)
AfterLock == IF net = "lockStart" THEN "RunLoop" ELSE IF net = "lockVisit" THEN "check" ELSE "loop"

(* Variant: what was left to write stays for the next connection. *)
ResetLinkKeepData ==
    /\ net \in Locking
    /\ connectstatus_' = "ConnectIdle"
    /\ disconnectinternalcode_' = FALSE
    /\ net' = AfterLock
    /\ UNCHANGED <<mgrVars, todo, cur, alarm_, msgVars, lstsenddata_, pos, threadVars, wireVars>>

(* The rest of MakeSureConnected: the state of the last connection is      *)
(* reset and mutex_ released.                                              *)
ResetLink ==
    /\ net \in Locking
    /\ connectstatus_' = "ConnectIdle"
    /\ disconnectinternalcode_' = FALSE
    /\ lstsenddata_' = <<>>
    /\ pos' = 0
    /\ net' = AfterLock
    /\ UNCHANGED <<mgrVars, todo, cur, alarm_, msgVars, threadVars, wireVars>>

(* Variant: the thread is joined and not told to stop. *)
DisconnectUnheard == UNCHANGED disconnectinternalcode_

(* Disconnect, up to thread_.join(). *)
Disconnect == disconnectinternalcode_' = (disconnectinternalcode_ \/ link # "none")

(* Variant: the messages of the connection that was dropped stay posted. *)
JoinedNoCancel ==
    /\ net \in Joining
    /\ link = "none"
    /\ net' = IF net = "joinTimeout" THEN "start" ELSE "loop"
    /\ todo' = IF net = "joinTimeout" THEN lst_cmd_ ELSE {}
    /\ UNCHANGED <<mgrVars, cur, alarm_, msgVars, sharedVars, threadVars, wireVars>>

(* The thread has ended.  The task manager cancels whatever it posted      *)
(* meanwhile: __RunOnTimeout goes on with __RunOnStartTask, __OnResponse   *)
(* returns.  A time check cancels nothing.                                 *)
Joined ==
    /\ net \in Joining
    /\ link = "none"
    /\ mq' = IF net \in Cancelling THEN CancelMessage(mq) ELSE mq
    /\ net' = IF net = "joinTimeout" THEN "start" ELSE "loop"
    /\ todo' = IF net = "joinTimeout" THEN lst_cmd_ ELSE {}
    /\ UNCHANGED <<mgrVars, cur, alarm_, loopAt, sharedVars, threadVars, wireVars>>

-----------------------------------------------------------------------------
(***************************************************************************)
(* Net: the task manager.                                                  *)
(***************************************************************************)

(* NetworkService::start asks for the link once; the monitor keeps it.     *)
MakesureLonglinkConnected ==
    /\ net = "loop"
    /\ connectstatus_ = "ConnectIdle"
    /\ StartThread("lockAlarm")
    /\ UNCHANGED <<mgrVars, todo, cur, alarm_, msgVars, sharedVars, errtype, nooping, bufrecv, wireVars>>

(* Task ids come from an atomic counter: a new one is nowhere in use. *)
Fresh(t) ==
    /\ t \notin lst_cmd_
    /\ link \in Up => \A i \in 1..Len(lstsenddata_) : lstsenddata_[i].t # t
    /\ \A q \in asked \cup part : q.t # t
    /\ \A i \in 1..Len(bufrecv) : bufrecv[i].f.t # t
    /\ \A i \in 1..Len(down) : down[i].f.t # t
    /\ \A i \in 1..Len(mq) : mq[i].m = "OnResponse" => mq[i].f.t # t

(* NetCore::StartTask asks the monitor for the link (in the foreground, if *)
(* the last attempt is long enough ago), then gives the task to the        *)
(* manager, which runs its loop.                                           *)
StartTask(t) ==
    /\ net = "loop"
    /\ Fresh(t)
    /\ Len(mq) <= MaxBacklog
    /\ lst_cmd_' = lst_cmd_ \cup {t}
    /\ remain_retry_count' = [remain_retry_count EXCEPT ![t] = RetryCount]
    /\ \/ net' = "RunLoop" /\ UNCHANGED link
       \/ StartThread("lockStart")
    /\ UNCHANGED <<running_id, resent, dropped, todo, cur, alarm_, msgVars,
                   sharedVars, errtype, nooping, bufrecv, wireVars>>

(* The manager reports the tasks of S as ended and drops them. *)
EndTasks(S) ==
    /\ lst_cmd_' = lst_cmd_ \ S
    /\ resent' = resent \ S
    /\ dropped' = dropped \ S
    /\ remain_retry_count' =
         [t \in Task |-> IF t \in S THEN 0 ELSE remain_retry_count[t]]

(* The RunLoop message is due. *)
RunLoopDue ==
    /\ net = "loop"
    /\ loopAt = 0
    /\ loopAt' = -1
    /\ net' = "RunLoop"
    /\ UNCHANGED <<mgrVars, todo, cur, alarm_, mq, sharedVars, threadVars, wireVars>>

(* Variant: a task with no retry left is retried. *)
BatchErrorRespHandleOnce(T, again) ==
    /\ lst_cmd_' = lst_cmd_ \ T
    /\ running_id' = {}
    /\ remain_retry_count' =
         [t \in Task |-> IF t \in T THEN 0
                         ELSE IF t \in running_id THEN remain_retry_count[t] - 1
                         ELSE remain_retry_count[t]]
    /\ resent' = (resent \cup again) \ T
    /\ dropped' = {}

(* Variant: retries are not counted. *)
BatchErrorRespHandleUncounted(T, again) ==
    /\ lst_cmd_' = lst_cmd_ \ T
    /\ running_id' = {}
    /\ remain_retry_count' = [t \in Task |-> IF t \in T THEN 0 ELSE remain_retry_count[t]]
    /\ resent' = (resent \cup again) \ T
    /\ dropped' = {}

(* __SingleRespHandle with a network error for every running task: those   *)
(* with retries left wait again, the others and those of T end.  The tasks *)
(* of again had been sent on a connection that is still up.                *)
BatchErrorRespHandle(T, again) ==
    LET over == T \cup {t \in running_id : remain_retry_count[t] = 0}
    IN  /\ lst_cmd_' = lst_cmd_ \ over
        /\ running_id' = {}
        /\ remain_retry_count' =
             [t \in Task |-> IF t \in over THEN 0
                             ELSE IF t \in running_id THEN remain_retry_count[t] - 1
                             ELSE remain_retry_count[t]]
        /\ resent' = (resent \cup again) \ over
        /\ dropped' = {}

(* __RunOnTimeout finds nothing; __RunOnStartTask begins. *)
RunOnTimeoutNone ==
    /\ net = "RunLoop"
    /\ net' = IF lst_cmd_ = {} THEN "loop" ELSE "start"
    /\ todo' = lst_cmd_
    /\ UNCHANGED <<mgrVars, cur, alarm_, msgVars, sharedVars, threadVars, wireVars>>

(* __RunOnTimeout: the total time of the tasks of T is over, or a task     *)
(* whose sending began waits too long for its answer.  Either way the      *)
(* connection is given up.                                                 *)
RunOnTimeout(T) ==
    /\ net = "RunLoop"
    /\ T # {} \/ running_id # {}
    /\ BatchErrorRespHandle(T, {})
    /\ Disconnect
    /\ net' = "joinTimeout"
    /\ UNCHANGED <<todo, cur, alarm_, msgVars, connectstatus_, lstsenddata_, pos,
                   threadVars, wireVars>>

(* __RunOnStartTask passes over a task: it is running, or it waits for the *)
(* retry interval.                                                         *)
SkipTask(t) ==
    /\ net = "start"
    /\ t \in todo
    /\ t \in running_id \/ remain_retry_count[t] < RetryCount
    /\ todo' = todo \ {t}
    /\ UNCHANGED <<mgrVars, net, cur, alarm_, msgVars, sharedVars, threadVars, wireVars>>

(* Req2Buf or the anti-avalanche check failed: the task ends. *)
PackFails(t) ==
    /\ net = "start"
    /\ t \in todo \ running_id
    /\ todo' = todo \ {t}
    /\ EndTasks({t})
    /\ UNCHANGED <<running_id, net, cur, alarm_, msgVars, sharedVars, threadVars,
                   wireVars>>

(* The monitor's MakeSureConnected for a task: nothing to do, too early    *)
(* for another attempt, or a new thread.                                   *)
VisitTask(t) ==
    /\ net = "start"
    /\ t \in todo \ running_id
    /\ cur' = t
    /\ \/ net' = "check" /\ UNCHANGED link
       \/ StartThread("lockVisit")
    /\ UNCHANGED <<mgrVars, todo, alarm_, msgVars, sharedVars, errtype, nooping, bufrecv, wireVars>>

(* kConnected == longlink_.ConnectStatus(): send the task or leave it. *)
CheckStatus ==
    /\ net = "check"
    /\ \/ /\ connectstatus_ = "Connected"
          /\ net' = "send"
          /\ UNCHANGED <<todo, cur>>
       \/ /\ connectstatus_ # "Connected"
          /\ net' = "start"
          /\ todo' = todo \ {cur}
          /\ cur' = NoTask
    /\ UNCHANGED <<mgrVars, alarm_, msgVars, sharedVars, threadVars, wireVars>>

(* LongLink::Send, which looks at the status again under mutex_; a task    *)
(* that expects no answer ends at once.                                    *)
Send ==
    /\ net = "send"
    /\ IF connectstatus_ = "Connected"
       THEN /\ lstsenddata_' = Append(lstsenddata_, [t |-> cur, r |-> remain_retry_count[cur]])
            /\ running_id' = IF cur \in SendOnly THEN running_id ELSE running_id \cup {cur}
            /\ EndTasks({cur} \cap SendOnly)
       ELSE UNCHANGED <<lstsenddata_, mgrVars>>
    /\ net' = "start"
    /\ todo' = todo \ {cur}
    /\ cur' = NoTask
    /\ UNCHANGED <<alarm_, msgVars, connectstatus_, disconnectinternalcode_, pos,
                   threadVars, wireVars>>

(* The end of __RunLoop: FasterMessage keeps a RunLoop that is posted. *)
RunLoopEnd ==
    /\ net = "start"
    /\ todo = {}
    /\ net' = "loop"
    /\ loopAt' = IF lst_cmd_ # {} /\ loopAt = -1 THEN Len(mq) ELSE loopAt
    /\ UNCHANGED <<mgrVars, todo, cur, alarm_, mq, sharedVars, threadVars, wireVars>>

-----------------------------------------------------------------------------
(***************************************************************************)
(* Net: messages from the link and from the monitor's alarm.               *)
(***************************************************************************)
Taking(m) == net = "loop" /\ mq # <<>> /\ Head(mq).m = m

Pos(n) == IF n > 0 THEN n - 1 ELSE n
Take == mq' = Tail(mq) /\ loopAt' = Pos(loopAt)

PassOver ==
    /\ Taking("cancelled")
    /\ Take
    /\ UNCHANGED <<mgrVars, netVars, sharedVars, threadVars, wireVars>>

(* Variant: the alarm is set only when an attempt to connect failed. *)
OnStatusChangedFailed ==
    /\ Taking("status")
    /\ Take
    /\ alarm_' = (Head(mq).s = "ConnectFailed")
    /\ net' = IF Head(mq).s = "Connected" THEN "RunLoop" ELSE "loop"
    /\ UNCHANGED <<mgrVars, todo, cur, sharedVars, threadVars, wireVars>>

(* SignalConnection: the monitor sets its alarm, the manager runs its loop *)
(* when the link is up.                                                    *)
OnStatusChanged ==
    /\ Taking("status")
    /\ Take
    /\ alarm_' = (Head(mq).s \in {"ConnectFailed", "DisConnected"})
    /\ net' = IF Head(mq).s = "Connected" THEN "RunLoop" ELSE "loop"
    /\ UNCHANGED <<mgrVars, todo, cur, sharedVars, threadVars, wireVars>>

(* The alarm goes off: __AutoIntervalConnect finds that it is too early    *)
(* (the alarm is set again), that there is nothing to do or the thread is  *)
(* still ending (it is not set again), or starts a thread.  In the code    *)
(* its message is taken after those posted before it; here at any time.    *)
OnAlarm ==
    /\ net = "loop"
    /\ alarm_
    /\ \/ /\ connectstatus_ \in {"Connecting", "Connected"} \/ link # "none"
          /\ alarm_' = FALSE
          /\ UNCHANGED <<net, link>>
       \/ /\ alarm_' = FALSE
          /\ StartThread("lockAlarm")
    /\ UNCHANGED <<mgrVars, todo, cur, msgVars, sharedVars, errtype, nooping, bufrecv, wireVars>>

(* NetCore::__OnTimerCheckSuc: the speed test has found a better address,  *)
(* and the connection is given up whatever runs on it.  In the code its    *)
(* message is taken after those posted before it; here at any time.        *)
OnTimerCheckSuc ==
    /\ net = "loop"
    /\ link # "none"
    /\ Disconnect
    /\ dropped' = running_id
    /\ net' = "joinCheck"
    /\ UNCHANGED <<lst_cmd_, running_id, remain_retry_count, resent, todo, cur, alarm_, msgVars,
                   connectstatus_, lstsenddata_, pos, threadVars, wireVars>>

(* __OnResponse with a socket error: the link has closed itself, so there  *)
(* is no Disconnect.  If another connection is up by now, the tasks sent   *)
(* on it are sent again on it.                                             *)
OnSocketError ==
    /\ Taking("error")
    /\ Head(mq).e = "socket"
    /\ BatchErrorRespHandle({}, IF connectstatus_ = "Connected" THEN running_id \ dropped ELSE {})
    /\ mq' = CancelMessage(Tail(mq))
    /\ loopAt' = Pos(loopAt)
    /\ UNCHANGED <<netVars, sharedVars, threadVars, wireVars>>

(* __OnResponse with an unpacking error: the link is also disconnected,    *)
(* whichever connection is up by now.                                      *)
OnUnpackError ==
    /\ Taking("error")
    /\ Head(mq).e = "xp"
    /\ BatchErrorRespHandle({}, {})
    /\ Disconnect
    /\ Take
    /\ net' = "joinResponse"
    /\ UNCHANGED <<todo, cur, alarm_, connectstatus_, lstsenddata_, pos, threadVars, wireVars>>

(* __OnResponse with a frame: the answer of a listed task, which ends; an  *)
(* unknown id is ignored.                                                  *)
OnResponse ==
    /\ Taking("OnResponse")
    /\ Take
    /\ EndTasks({Head(mq).f.t})
    /\ running_id' = running_id \ {Head(mq).f.t}
    /\ UNCHANGED <<netVars, sharedVars, threadVars, wireVars>>

-----------------------------------------------------------------------------
(***************************************************************************)
(* Link: LongLink::__Run.                                                  *)
(***************************************************************************)
Post(msg) == mq' = Append(mq, msg) /\ UNCHANGED loopAt

(* __ConnectStatus: the status, and a message that tells it to Net. *)
ConnectStatus(s) ==
    /\ connectstatus_' = s
    /\ Post([m |-> "status", s |-> s])

(* Variant: the thread does not wait for the reset of MakeSureConnected. *)
RunNoSync ==
    /\ link = "start"
    /\ connectstatus_' = "Connecting"
    /\ link' = "connect"
    /\ UNCHANGED <<mgrVars, netVars, msgVars, disconnectinternalcode_, lstsenddata_, pos, errtype,
                   nooping, bufrecv, wireVars>>

(* The thread waits for mutex_, so that the reset is over, and connects. *)
Run ==
    /\ link = "start"
    /\ MutexFree
    /\ connectstatus_' = "Connecting"
    /\ link' = "connect"
    /\ UNCHANGED <<mgrVars, netVars, msgVars, disconnectinternalcode_, lstsenddata_, pos, errtype,
                   nooping, bufrecv, wireVars>>

(* __RunConnect failed.  The error is reported if there was no address     *)
(* (noAddress), or if it was not Net that broke the attempt off.           *)
ConnectFails(noAddress) ==
    /\ link = "connect"
    /\ connectstatus_' = "ConnectFailed"
    /\ LET status == [m |-> "status", s |-> "ConnectFailed"]
           error == [m |-> "error", e |-> "socket"]
       IN  mq' = mq \o IF noAddress \/ ~disconnectinternalcode_ THEN <<status, error>>
                                                                 ELSE <<status>>
    /\ link' = "end"
    /\ UNCHANGED <<mgrVars, netVars, loopAt, disconnectinternalcode_, lstsenddata_, pos, errtype,
                   nooping, bufrecv, wireVars>>

(* __RunConnect has a socket; __RunReadWrite starts with empty locals. *)
Connected ==
    /\ link = "connect"
    /\ ConnectStatus("Connected")
    /\ link' = "noop"
    /\ UNCHANGED <<mgrVars, netVars, disconnectinternalcode_, lstsenddata_, pos, errtype,
                   nooping, bufrecv, wireVars>>

(* Variant: a noop that was sent is not waited for. *)
NoopReqForgets ==
    /\ link = "noop" \/ (link = "rw" /\ ~nooping)
    /\ MutexFree
    /\ link' = "rw"
    /\ lstsenddata_' = IF lstsenddata_ = <<>> THEN <<Noop>> ELSE lstsenddata_
    /\ UNCHANGED <<mgrVars, netVars, msgVars, connectstatus_, disconnectinternalcode_, pos,
                   errtype, nooping, bufrecv, wireVars>>

(* The top of the loop when no interval alarm waits: at once on a new      *)
(* connection, later when the interval is over.  __NoopReq sends a noop    *)
(* only if there is nothing else to send.                                  *)
NoopReq ==
    /\ link = "noop" \/ (link = "rw" /\ ~nooping)
    /\ MutexFree
    /\ link' = "rw"
    /\ LET suc == connectstatus_ = "Connected" /\ lstsenddata_ = <<>>
       IN  /\ lstsenddata_' = IF suc THEN <<Noop>> ELSE lstsenddata_
           /\ nooping' = (nooping \/ suc)
    /\ UNCHANGED <<mgrVars, netVars, msgVars, connectstatus_, disconnectinternalcode_, pos,
                   errtype, bufrecv, wireVars>>

(* The socket delivers units a..b of a request: the server puts it         *)
(* together if they continue what it has.                                  *)
ServerTakes(f, a, b) ==
    LET fits == part = IF a = 1 THEN {} ELSE {f}
    IN  /\ part' = IF fits THEN IF b = RequestLen THEN {} ELSE {f}
                   ELSE part \cup {f}
        /\ asked' = IF fits /\ b = RequestLen /\ f.t \notin SendOnly THEN asked \cup {f} ELSE asked

(* The socket takes n units of the first frame (on Windows one frame at a  *)
(* time).  OnSend tells Net when the first unit is written; for a noop it  *)
(* finds no task and is left out.  The loop looks at the disconnect code   *)
(* before each write, so at most one more follows a Disconnect in the      *)
(* code; here any number may, until UserDisconnect.                        *)
Write(n) ==
    /\ link = "rw"
    /\ MutexFree
    /\ lstsenddata_ # <<>>
    /\ pos + n <= RequestLen
    /\ ServerTakes(Head(lstsenddata_), pos + 1, pos + n)
    /\ IF pos + n = RequestLen
       THEN lstsenddata_' = Tail(lstsenddata_) /\ pos' = 0
       ELSE pos' = pos + n /\ UNCHANGED lstsenddata_
    /\ UNCHANGED <<mgrVars, netVars, msgVars, connectstatus_, disconnectinternalcode_, threadVars, down>>

(* recv returns n units; the unpacking loop follows. *)
Recv(n) ==
    /\ link = "rw"
    /\ n <= Len(down)
    /\ bufrecv' = bufrecv \o SubSeq(down, 1, n)
    /\ down' = SubSeq(down, n + 1, Len(down))
    /\ link' = "unpack"
    /\ UNCHANGED <<mgrVars, netVars, msgVars, sharedVars, errtype, nooping, part, asked>>

(* One turn of the unpacking loop: wait for more, give up, take a noop's   *)
(* answer, or post a frame and its body to Net.  A push is posted as well; *)
(* Net does nothing with it here (OnPush is NetworkService's business), so *)
(* its message is left out.                                                *)
Unpack ==
    /\ link = "unpack"
    /\ LET f == bufrecv[1].f
           len == PackLen(f)
       IN  \/ /\ unpack_test(bufrecv) = "CONTINUE"
              /\ link' = "rw"
              /\ UNCHANGED <<errtype, nooping, bufrecv, msgVars>>
           \/ /\ unpack_test(bufrecv) = "FALSE"
              /\ link' = "closing"
              /\ errtype' = "xp"
              /\ UNCHANGED <<nooping, bufrecv, msgVars>>
           \/ /\ unpack_test(bufrecv) = "OK"
              /\ bufrecv' = SubSeq(bufrecv, len + 1, Len(bufrecv))
              /\ nooping' = (nooping /\ f.k # "noop")
              /\ IF f.k = "resp"
                 THEN Post([m |-> "OnResponse", f |-> f, body |-> SubSeq(bufrecv, HeadLen + 1, len)])
                 ELSE UNCHANGED msgVars
              /\ UNCHANGED <<link, errtype>>
    /\ UNCHANGED <<mgrVars, netVars, sharedVars, wireVars>>

(* After select: Net asked to disconnect. *)
UserDisconnect ==
    /\ link = "rw"
    /\ disconnectinternalcode_
    /\ link' = "closing"
    /\ UNCHANGED <<mgrVars, netVars, msgVars, sharedVars, errtype, nooping, bufrecv, wireVars>>

(* The noop's answer did not come in time. *)
NoopTimeout ==
    /\ link = "rw"
    /\ nooping
    /\ link' = "closing"
    /\ errtype' = "socket"
    /\ UNCHANGED <<mgrVars, netVars, msgVars, sharedVars, nooping, bufrecv, wireVars>>

(* select, send or recv failed, or the server closed the connection. *)
SocketError ==
    /\ link = "rw"
    /\ link' = "closing"
    /\ errtype' = "socket"
    /\ UNCHANGED <<mgrVars, netVars, msgVars, sharedVars, nooping, bufrecv, wireVars>>

(* The socket is closed (what it still held is only logged), then the      *)
(* status is changed.                                                      *)
Close ==
    /\ link = "closing"
    /\ link' = "report"
    /\ part' = {}
    /\ asked' = {}
    /\ down' = <<>>
    /\ bufrecv' = <<>>
    /\ nooping' = FALSE
    /\ ConnectStatus("DisConnected")
    /\ UNCHANGED <<mgrVars, netVars, disconnectinternalcode_, lstsenddata_, pos, errtype>>

(* Variant: only an error of the socket is reported. *)
ReportSocketError ==
    /\ link = "report"
    /\ link' = "end"
    /\ IF errtype = "socket" THEN Post([m |-> "error", e |-> errtype]) ELSE UNCHANGED msgVars
    /\ UNCHANGED <<mgrVars, netVars, sharedVars, errtype, nooping, bufrecv, wireVars>>

(* __RunResponseError, unless Net asked for the end. *)
ReportError ==
    /\ link = "report"
    /\ link' = "end"
    /\ IF errtype # "ok" THEN Post([m |-> "error", e |-> errtype]) ELSE UNCHANGED msgVars
    /\ UNCHANGED <<mgrVars, netVars, sharedVars, errtype, nooping, bufrecv, wireVars>>

(* tracker_.reset() under mutex_, and the thread is over. *)
ThreadEnds ==
    /\ link = "end"
    /\ MutexFree
    /\ link' = "none"
    /\ errtype' = "ok"
    /\ UNCHANGED <<mgrVars, netVars, msgVars, sharedVars, nooping, bufrecv, wireVars>>

-----------------------------------------------------------------------------
(***************************************************************************)
(* The server, as the code above relies on it: it answers whole requests   *)
(* with the id it got, answers noops, notifies, and may send what is no    *)
(* frame of this version.  It may also do none of it, ever.                *)
(***************************************************************************)
ServerAnswers(q) ==
    /\ link \in Up
    /\ q \in asked
    /\ asked' = asked \ {q}
    /\ LET a == IF q = Noop THEN Other("noop") ELSE [k |-> "resp", t |-> q.t, r |-> q.r]
       IN  down' = down \o Units(a, PackLen(a))
    /\ UNCHANGED <<mgrVars, netVars, msgVars, sharedVars, threadVars, part>>

ServerSends(k) ==
    /\ link \in Up
    /\ bufrecv = <<>> /\ down = <<>>
    /\ Len(mq) <= MaxBacklog
    /\ down' = down \o Units(Other(k), PackLen(Other(k)))
    /\ UNCHANGED <<mgrVars, netVars, msgVars, sharedVars, threadVars, part, asked>>

-----------------------------------------------------------------------------
ManagerStep ==
    \/ MakesureLonglinkConnected
    \/ \E t \in Task : StartTask(t)
    \/ RunLoopDue
    \/ RunOnTimeoutNone
    \/ \E T \in SUBSET lst_cmd_ : RunOnTimeout(T)
    \/ \E t \in Task : SkipTask(t)
    \/ \E t \in Task : PackFails(t)
    \/ \E t \in Task : VisitTask(t)
    \/ ResetLink
    \/ CheckStatus
    \/ Send
    \/ RunLoopEnd
    \/ Joined
    \/ OnAlarm
    \/ OnTimerCheckSuc

MessageStep ==
    \/ PassOver
    \/ OnStatusChanged
    \/ OnSocketError
    \/ OnUnpackError
    \/ OnResponse

ThreadStep ==
    \/ Run
    \/ \E noAddress \in BOOLEAN : ConnectFails(noAddress)
    \/ Connected
    \/ NoopReq
    \/ \E n \in 1..RequestLen : Write(n)
    \/ \E n \in 1..Len(down) : Recv(n)
    \/ Unpack
    \/ UserDisconnect
    \/ NoopTimeout
    \/ SocketError
    \/ Close
    \/ ReportError
    \/ ThreadEnds

ServerStep ==
    \/ \E q \in Request \cup {Noop} : ServerAnswers(q)
    \/ \E k \in {"push", "bad"} : ServerSends(k)

Next == ManagerStep \/ MessageStep \/ ThreadStep \/ ServerStep

Spec == Init /\ [][Next]_linkVars

(***************************************************************************)
(* Fairness: both threads are scheduled, an attempt to connect ends one    *)
(* way or the other (its timeout), and the socket accepts what is written. *)
(* Each turn of the read-write loop looks at the disconnect code, the      *)
(* interval of the noops and the list to write, whatever it received       *)
(* before: these are strongly fair, and so is Net in taking messages.  A   *)
(* timer that stays set goes off, whatever happens meanwhile (the last     *)
(* two: weak fairness, but for the moments a thread looks elsewhere).      *)
(* Nothing is assumed of the server, of new tasks, nor of which timeouts   *)
(* of tasks strike.                                                        *)
(***************************************************************************)
LinkFairness ==
    /\ WF_linkVars(Run \/ Connected \/ ConnectFails(FALSE) \/ Unpack \/ Close
                     \/ ReportError \/ ThreadEnds)
    /\ SF_linkVars(NoopReq)
    /\ SF_linkVars(\E n \in 1..RequestLen : Write(n))
    /\ SF_linkVars(UserDisconnect)
    /\ WF_linkVars(ResetLink \/ CheckStatus \/ Send \/ RunLoopEnd \/ Joined \/ RunOnTimeoutNone
                     \/ \E t \in Task : VisitTask(t) \/ SkipTask(t))
    /\ SF_linkVars(MessageStep)
    /\ []<>~nooping \/ []<><<NoopTimeout>>_linkVars
    /\ []<>~alarm_ \/ []<><<OnAlarm>>_linkVars

FairSpec == Spec /\ LinkFairness

-----------------------------------------------------------------------------
(* The server never sees a torn request: what it has begun to receive is   *)
(* the request whose rest is the first thing to write.  A frame half       *)
(* written when a connection breaks must not be continued on the next one. *)
WholeRequests ==
    link \in Up => part = IF pos = 0 THEN {} ELSE {Head(lstsenddata_)}

(* However recv cuts the stream, every frame reaches Net with its own body *)
(* and none is left in bufrecv once it is complete: bufrecv starts at a    *)
(* frame and, while the link waits for more, holds less than one.          *)
FramesWhole ==
    /\ \A i \in 1..Len(mq) : mq[i].m = "OnResponse" =>
         mq[i].body = SubSeq(Units(mq[i].f, PackLen(mq[i].f)), HeadLen + 1, PackLen(mq[i].f))
    /\ link \in Up /\ bufrecv # <<>> => bufrecv[1].i = 1
    /\ link = "rw" /\ bufrecv # <<>> => Len(bufrecv) < PackLen(bufrecv[1].f)

(* The status others see is the state of the thread: while it serves a     *)
(* connection the status is kConnected, and nothing else sets it so.       *)
(* MakeSureConnected resets the status after the thread was started.       *)
StatusTrue ==
    /\ link \in Up <=> connectstatus_ = "Connected"
    /\ link = "connect" <=> connectstatus_ = "Connecting"

(* A task handed to the link is never forgotten: the connection is up, or  *)
(* Net will hear of its end.  The status is changed before the error is    *)
(* reported; in the other order a task could be sent, and put on a list    *)
(* nobody writes, after the only error that would have brought it back.    *)
(* A task whose connection a time check dropped has no such error coming:  *)
(* what brings it back is the timeout of __RunLoop, which is posted or     *)
(* under way as long as there is one.                                      *)
ErrorPosted == \E i \in 1..Len(mq) : mq[i].m = "error"
Watched == loopAt # -1 \/ net \notin {"loop", "lockAlarm", "joinResponse", "joinCheck"}
RunningHasFate ==
    /\ running_id \ dropped # {} =>
          \/ link \in Up /\ (disconnectinternalcode_ => errtype # "ok")
          \/ link = "report" /\ errtype # "ok"
          \/ ErrorPosted
    /\ dropped # {} => Watched

(* An answer that ends a task answers its last sending, not an earlier one *)
(* that was packed with other keys: the messages of a connection that was  *)
(* dropped do not survive it.  The one exception is a task that was sent   *)
(* twice on one connection, because the error of the connection before it  *)
(* was taken after the new one came up.                                    *)
Fits(q) ==
    q.t \in lst_cmd_ \ resent => q.t \in running_id /\ q.r = remain_retry_count[q.t]
AnswerToLastSending == Taking("OnResponse") => Fits(Head(mq).f)

(***************************************************************************)
(* What makes these inductive.                                             *)
(***************************************************************************)

(* MakeSureConnected, Disconnect, and the errors that end a connection. *)
ThreadInv ==
    /\ net \in Locking => link = "start"
    /\ disconnectinternalcode_ /\ link # "none" => net \in Joining \cup Locking
    /\ net \in Cancelling => running_id = {}
    /\ net = "joinCheck" => running_id = dropped
    /\ link \in {"closing", "report"} /\ errtype = "ok" => disconnectinternalcode_

(* The loop over the tasks. *)
ListInv ==
    /\ net \notin {"start", "check", "send", "lockVisit"} => todo = {}
    /\ net \in {"check", "send", "lockVisit"} => cur \in todo \ running_id
    /\ \A t \in Task \ lst_cmd_ : remain_retry_count[t] = 0
    /\ lst_cmd_ # {} => Watched

(* A connection begins with nothing to write and nothing on the wire. *)
WireInv ==
    /\ link \notin Up => part = {} /\ asked = {} /\ down = <<>>
    /\ link \notin Up \ {"noop"} => bufrecv = <<>>
    /\ link = "connect" \/ (link = "start" /\ net \notin Locking) => lstsenddata_ = <<>> /\ pos = 0
    /\ link \in Up /\ pos # 0 => lstsenddata_ # <<>>

(* Wherever a request or its answer is, it is that of the last sending. *)
InFlightInv ==
    net \notin Cancelling =>
        /\ link \in Up => \A i \in 1..Len(lstsenddata_) : Fits(lstsenddata_[i])
        /\ \A q \in part \cup asked : Fits(q)
        /\ \A i \in 1..Len(bufrecv) : Fits(bufrecv[i].f)
        /\ \A i \in 1..Len(down) : Fits(down[i].f)
        /\ \A i \in 1..Len(mq) : mq[i].m = "OnResponse" => Fits(mq[i].f)

(* Nothing of a task that a time check has dropped is on the connection    *)
(* that follows.                                                           *)
DroppedInv ==
    net # "joinCheck" =>
        /\ link \in Up => \A i \in 1..Len(lstsenddata_) : lstsenddata_[i].t \notin dropped
        /\ \A q \in part \cup asked : q.t \notin dropped
        /\ \A i \in 1..Len(bufrecv) : bufrecv[i].f.t \notin dropped
        /\ \A i \in 1..Len(down) : down[i].f.t \notin dropped

(* What comes from the server is whole frames, one after the other. *)
Follows(u, v) ==
    IF u.i = PackLen(u.f) THEN v.i = 1 ELSE v = [f |-> u.f, i |-> u.i + 1]
Stream == bufrecv \o down
StreamInv ==
    /\ \A i \in 1..Len(Stream) : Stream[i].i \in 1..PackLen(Stream[i].f)
    /\ Stream # <<>> => Stream[1].i = 1 /\ Stream[Len(Stream)].i = PackLen(Stream[Len(Stream)].f)
    /\ \A i \in 1..(Len(Stream) - 1) : Follows(Stream[i], Stream[i + 1])

LinkInv ==
    /\ LinkTypeOK
    /\ StatusTrue
    /\ ThreadInv
    /\ RunningHasFate
    /\ ListInv
    /\ WireInv
    /\ WholeRequests
    /\ InFlightInv
    /\ DroppedInv
    /\ StreamInv
    /\ FramesWhole

-----------------------------------------------------------------------------
(* Disconnect always returns: Net waits for the thread without holding     *)
(* what the thread needs to end.                                           *)
JoinEnds == net \in Joining ~> net \notin Joining

(* A dead peer is noticed: a connection that stays up hears from the       *)
(* server again and again, if only the answers to its noops.               *)
HearsOrDrops == []<>(link \notin Up) \/ []<>(down # <<>>)

(* A link that went down is brought up again, with tasks or without.  The  *)
(* exception: the alarm went off before the thread had ended, when         *)
(* MakeSureConnected does nothing and the alarm is not set again.          *)
AlarmSpent ==
    /\ link = "end"
    /\ ~alarm_
    /\ \A i \in 1..Len(mq) : mq[i].m # "status"
LinkComesBack == link = "report" ~> (link = "connect" \/ AlarmSpent)

(* Where a task is in its life, as its manager's lists tell. *)
LifeOf ==
    [t \in Task |-> IF t \notin lst_cmd_ THEN "idle"
                    ELSE IF t \in running_id THEN "sent" ELSE "waiting"]

Life == INSTANCE TaskLife WITH life <- LifeOf, left <- remain_retry_count

(* The manager keeps the promise of TaskLife: whatever the threads and the *)
(* connections do, a listed task is sent again only after a network error, *)
(* at most RetryCount times, and never after it ended.                     *)
LifeSpec == Life!Spec
=============================================================================
