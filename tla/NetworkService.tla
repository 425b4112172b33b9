--------------------------- MODULE NetworkService ---------------------------
(***************************************************************************)
(* The task table of the SDK (MicroChatSDK/Wrapper/NetworkService.cpp) and *)
(* the part of mars/stn it talks to.                                       *)
(*                                                                         *)
(* Any thread may call startTask: the UI threads and the timing-sync alarm *)
(* (Caller), and the thread of NetCore's message queue (Net), which calls  *)
(* it from inside its own callbacks.  startTask inserts the CGITask in     *)
(* map_task_ under m_cs, then posts StartTask to NetCore.  Everything else *)
(* runs on Net: the task managers' lists, Req2Buf, Buf2Resp, the callback  *)
(* to the upper layer, OnTaskEnd (which deletes the CGITask) and OnPush.   *)
(*                                                                         *)
(* A step ends where the code releases m_cs, posts a message or returns to *)
(* the message loop, so the steps of different threads interleave exactly  *)
(* where the code lets them.                                               *)
(***************************************************************************)
EXTENDS Integers, FiniteSets

CONSTANTS
    Caller,         \* threads other than Net that call into the SDK
    Net,            \* the thread of NetCore's message queue
    TaskId,         \* task ids; an id is reused only when nothing refers to it
    NoTask,
    RetryCount      \* DEF_TASK_RETRY_COUNT: sends after the first one

ASSUME NetworkAssumption ==
    /\ Net \notin Caller
    /\ NoTask \notin TaskId
    /\ RetryCount \in Nat

Thread == Caller \cup {Net}

(***************************************************************************)
(* The CGI tasks, told apart by what mars does with them: the channel the  *)
(* SDK selects and whether a response is expected.                         *)
(***************************************************************************)
Cgi == {"ManualAuth", "NewSync", "ReportSyncKV", "NewInit", "ShortCgi"}
LongConn == {"ManualAuth", "NewSync", "ReportSyncKV"}
SendOnly == {"ReportSyncKV"}

VARIABLES
    map_task_,              \* ids of the CGITasks in the table (alive exactly while in it)
    cgi,                    \* id -> which CGI task it is
    starting,               \* thread -> how far it is in startTask
    arg,                    \* thread -> the task it is starting
    queue,                  \* StartTask messages posted to NetCore
    lst_cmd_,               \* tasks the task managers hold
    running_id,             \* those that have been sent and await an answer
    antiavalanche_checked,  \* long-link tasks packed once already
    remain_retry_count,
    connected,              \* the long link is up, or Net has not been told that it ended
    net,                    \* where Net is: its loop or one of the SDK's handlers
    cur,                    \* the task the handler works on (pTask, _taskid)
    ending,                 \* tasks whose OnTaskEnd Net still has to call
    stopped                 \* NetCore was released by StopSDK

startVars == <<starting, arg>>
marsVars == <<lst_cmd_, running_id, antiavalanche_checked, remain_retry_count>>
netVars == <<map_task_, cgi, starting, arg, queue, lst_cmd_, running_id,
             antiavalanche_checked, remain_retry_count, connected, net, cur,
             ending, stopped>>

Handler == {"Buf2Resp", "DoCallBack", "OnPush", "OnTaskEnd"}

NetTypeOK ==
    /\ map_task_ \subseteq TaskId
    /\ cgi \in [TaskId -> Cgi]
    /\ starting \in [Thread -> {"no", "insert", "post"}]
    /\ arg \in [Thread -> TaskId \cup {NoTask}]
    /\ queue \subseteq TaskId
    /\ lst_cmd_ \subseteq TaskId
    /\ running_id \subseteq TaskId
    /\ antiavalanche_checked \subseteq TaskId
    /\ remain_retry_count \in [TaskId -> 0..RetryCount]
    /\ connected \in BOOLEAN
    /\ net \in Handler \cup {"loop", "ForceQuit"}
    /\ cur \in TaskId \cup {NoTask}
    /\ ending \subseteq TaskId
    /\ stopped \in BOOLEAN

NetInit ==
    /\ map_task_ = {}
    /\ cgi = [t \in TaskId |-> "ShortCgi"]
    /\ starting = [th \in Thread |-> "no"]
    /\ arg = [th \in Thread |-> NoTask]
    /\ queue = {}
    /\ lst_cmd_ = {}
    /\ running_id = {}
    /\ antiavalanche_checked = {}
    /\ remain_retry_count = [t \in TaskId |-> 0]
    /\ connected = FALSE
    /\ net = "loop"
    /\ cur = NoTask
    /\ ending = {}
    /\ stopped = FALSE

-----------------------------------------------------------------------------
(***************************************************************************)
(* startTask, on any thread.                                               *)
(***************************************************************************)

(* Task ids come from an atomic counter: a new one is nowhere in use. *)
Fresh(t) ==
    /\ t \notin map_task_ \cup queue \cup lst_cmd_
    /\ cur # t
    /\ \A th \in Thread : arg[th] # t

(* Net calls the SDK only from inside a handler. *)
MayCall(th) ==
    /\ starting[th] = "no"
    /\ th = Net => net \in Handler

(* A caller allocates the CGITask, fills it in and enters startTask. *)
NewTask(th, t, k) ==
    /\ MayCall(th)
    /\ Fresh(t)
    /\ cgi' = [cgi EXCEPT ![t] = k]
    /\ starting' = [starting EXCEPT ![th] = "insert"]
    /\ arg' = [arg EXCEPT ![th] = t]
    /\ UNCHANGED <<map_task_, queue, marsVars, connected, net, cur, ending, stopped>>

(* Variant: the task is posted to NetCore before it is in the table. *)
InsertTaskAfterPost(th) ==
    /\ starting[th] = "insert"
    /\ queue' = queue \cup {arg[th]}
    /\ starting' = [starting EXCEPT ![th] = "post"]
    /\ UNCHANGED <<map_task_, cgi, arg, marsVars, connected, net, cur, ending, stopped>>

(* map_task_[ctask.taskid] = task, under m_cs. *)
InsertTask(th) ==
    /\ starting[th] = "insert"
    /\ map_task_' = map_task_ \cup {arg[th]}
    /\ starting' = [starting EXCEPT ![th] = "post"]
    /\ UNCHANGED <<cgi, arg, queue, marsVars, connected, net, cur, ending, stopped>>

(* mars::stn::StartTask: a message to NetCore, dropped when there is none. *)
PostTask(th) ==
    /\ starting[th] = "post"
    /\ queue' = IF stopped THEN queue ELSE queue \cup {arg[th]}
    /\ starting' = [starting EXCEPT ![th] = "no"]
    /\ arg' = [arg EXCEPT ![th] = NoTask]
    /\ UNCHANGED <<map_task_, cgi, marsVars, connected, net, cur, ending, stopped>>

-----------------------------------------------------------------------------
(***************************************************************************)
(* The message loop of Net.  It takes the next event only when the last    *)
(* handler has returned and every task that ended has been reported.       *)
(***************************************************************************)
NetIdle ==
    /\ net = "loop"
    /\ ending = {}
    /\ starting[Net] = "no"
    /\ ~stopped

(* NetCore::StartTask hands the task to the manager of its channel.  None  *)
(* of the SDK's tasks fails its parameter checks.                          *)
NetCoreStartTask(t) ==
    /\ NetIdle
    /\ t \in queue
    /\ queue' = queue \ {t}
    /\ lst_cmd_' = lst_cmd_ \cup {t}
    /\ remain_retry_count' = [remain_retry_count EXCEPT ![t] = RetryCount]
    /\ UNCHANGED <<map_task_, cgi, startVars, running_id, antiavalanche_checked,
                   connected, net, cur, ending, stopped>>

(* NetworkService::Req2Buf: packs the request if the table holds the task; *)
(* packed says whether the CGI's own Req2Buf (and the anti-avalanche check *)
(* after it) succeeded.                                                    *)
Req2Buf(t, packed) == t \in map_task_ /\ packed

(* A long-link task is packed on the first pass of the loop even when the  *)
(* link is down, and packed again when it can be sent.                     *)
NeedsPacking(t) ==
    \/ cgi[t] \notin LongConn
    \/ t \notin antiavalanche_checked
    \/ connected

(* What sending a packed request can return.  A short link is started in   *)
(* any case.  LongLink::Send refuses when the link is not up: it may have  *)
(* ended after MakeSureConnected, or been dropped by a time check.         *)
LinkSend(t) ==
    IF cgi[t] \in LongConn THEN {FALSE, connected} ELSE {TRUE}

(* __RunOnStartTask for one listed task: packing failed, the task waits    *)
(* for the long link, or it was sent (a send_only task ends at once).  A   *)
(* task that was packed and refused by the link waits as before, with all  *)
(* its retries, and is packed again.                                       *)
RunOnStartTask(t, packed) ==
    /\ NetIdle
    /\ t \in lst_cmd_ \ running_id
    /\ NeedsPacking(t)
    /\ \E accepted \in LinkSend(t) :
         LET ok == Req2Buf(t, packed)
             sent == ok /\ accepted
         IN  /\ antiavalanche_checked' =
                  IF ok /\ cgi[t] \in LongConn THEN antiavalanche_checked \cup {t}
                                               ELSE antiavalanche_checked
             /\ running_id' = IF sent THEN running_id \cup {t} ELSE running_id
             /\ ending' = IF ~ok \/ (sent /\ cgi[t] \in SendOnly) THEN {t} ELSE {}
    /\ UNCHANGED <<map_task_, cgi, startVars, queue, lst_cmd_, remain_retry_count,
                   connected, net, cur, stopped>>

(* Variant: a task is sent again whatever its retry count. *)
RetryAlways(S, T) ==
    /\ ending' = T
    /\ running_id' = running_id \ S
    /\ remain_retry_count' =
         [t \in TaskId |-> IF t \in S \ T THEN remain_retry_count[t] - 1
                                        ELSE remain_retry_count[t]]

(* __SingleRespHandle with a network error for the tasks of S: those with  *)
(* retries left will be sent again, the others and those of T end.         *)
RetryOrEnd(S, T) ==
    LET over == T \cup {t \in S : remain_retry_count[t] = 0}
    IN  /\ ending' = over
        /\ running_id' = running_id \ (S \ over)
        /\ remain_retry_count' =
             [t \in TaskId |-> IF t \in S \ over THEN remain_retry_count[t] - 1
                                                 ELSE remain_retry_count[t]]

(* Variant: the tasks that wait for the link are taken for failed ones. *)
ListedLong == {t \in lst_cmd_ : cgi[t] \in LongConn}

RunningLong == {t \in running_id : cgi[t] \in LongConn}

(* __BatchErrorRespHandle: the long link broke (error from the link, or a  *)
(* first-package, package or read-write timeout): every running long task  *)
(* fails, and the link is closed.  The error may be that of the connection *)
(* before, taken when another is up already, which then stays (see         *)
(* LongLink).                                                              *)
LinkError ==
    /\ NetIdle
    /\ connected
    /\ RetryOrEnd(RunningLong, {})
    /\ connected' \in BOOLEAN
    /\ UNCHANGED <<map_task_, cgi, startVars, queue, lst_cmd_, antiavalanche_checked,
                   net, cur, stopped>>

(* A short-link task fails alone: socket error or one of its timeouts. *)
ShortLinkError(t) ==
    /\ NetIdle
    /\ t \in running_id
    /\ cgi[t] \notin LongConn
    /\ RetryOrEnd({t}, {})
    /\ UNCHANGED <<map_task_, cgi, startVars, queue, lst_cmd_, antiavalanche_checked,
                   connected, net, cur, stopped>>

(* Variant: only tasks that have been sent time out. *)
SentTaskTimeout(t) ==
    /\ NetIdle
    /\ t \in running_id
    /\ RetryOrEnd(IF cgi[t] \in LongConn THEN RunningLong \ {t} ELSE {}, {t})
    /\ connected' = (connected /\ cgi[t] \notin LongConn)
    /\ UNCHANGED <<map_task_, cgi, startVars, queue, lst_cmd_, antiavalanche_checked,
                   net, cur, stopped>>

(* __RunOnTimeout: the task's total time is over, sent or not; it ends     *)
(* whatever retries it has, and a long-link task takes the link with it.   *)
TaskTimeout(t) ==
    /\ NetIdle
    /\ t \in lst_cmd_
    /\ RetryOrEnd(IF cgi[t] \in LongConn THEN RunningLong \ {t} ELSE {}, {t})
    /\ connected' = (connected /\ cgi[t] \notin LongConn)
    /\ UNCHANGED <<map_task_, cgi, startVars, queue, lst_cmd_, antiavalanche_checked,
                   net, cur, stopped>>

(* The long-link thread establishes the connection. *)
Connect ==
    /\ ~connected
    /\ ~stopped
    /\ connected' = TRUE
    /\ UNCHANGED <<map_task_, cgi, startVars, queue, marsVars, net, cur, ending, stopped>>

-----------------------------------------------------------------------------
(***************************************************************************)
(* The SDK's handlers, called on Net.                                      *)
(***************************************************************************)

(* A task that failed although its connection stayed up may get the answer *)
(* to its first sending: __OnResponse asks only whether it is listed.      *)
LeftOver(t) ==
    /\ t \in lst_cmd_
    /\ cgi[t] \in LongConn
    /\ connected
    /\ remain_retry_count[t] < RetryCount

(* The answer to a task that was sent: Buf2Resp looks pTask up under m_cs  *)
(* and goes on with the bare pointer after the lock is released.           *)
Buf2Resp(t) ==
    /\ NetIdle
    /\ t \in running_id \/ LeftOver(t)
    /\ net' = IF t \in map_task_ THEN "Buf2Resp" ELSE "loop"
    /\ cur' = IF t \in map_task_ THEN t ELSE NoTask
    /\ ending' = IF t \in map_task_ THEN {} ELSE {t}
    /\ UNCHANGED <<map_task_, cgi, startVars, queue, marsVars, connected, stopped>>

(* pTask->Buf2Resp has returned; DoCallBack(pTask->m_res, ...) is next. *)
DoCallBack ==
    /\ net = "Buf2Resp"
    /\ starting[Net] = "no"
    /\ net' = "DoCallBack"
    /\ UNCHANGED <<map_task_, cgi, startVars, queue, marsVars, connected, cur, ending, stopped>>

(* The callback returned: Buf2Resp reports no error, so the task ends. *)
CallBackReturn ==
    /\ net = "DoCallBack"
    /\ starting[Net] = "no"
    /\ net' = "loop"
    /\ cur' = NoTask
    /\ ending' = {cur}
    /\ UNCHANGED <<map_task_, cgi, startVars, queue, marsVars, connected, stopped>>

(* The callback met an error code that ends the process: it sleeps three   *)
(* seconds on Net, then calls TerminateProcess.                            *)
ForceQuit ==
    /\ net = "DoCallBack"
    /\ starting[Net] = "no"
    /\ net' = "ForceQuit"
    /\ UNCHANGED <<map_task_, cgi, startVars, queue, marsVars, connected, cur, ending, stopped>>

(* OnTaskEnd: delete the CGITask and erase it, under m_cs; the manager     *)
(* drops its own entry.  The error type and code are not looked at.        *)
OnTaskEnd(t) ==
    /\ net = "loop"
    /\ starting[Net] = "no"
    /\ t \in ending
    /\ map_task_' = map_task_ \ {t}
    /\ lst_cmd_' = lst_cmd_ \ {t}
    /\ running_id' = running_id \ {t}
    /\ antiavalanche_checked' = antiavalanche_checked \ {t}
    /\ remain_retry_count' = [remain_retry_count EXCEPT ![t] = 0]
    /\ ending' = ending \ {t}
    /\ net' = "OnTaskEnd"
    /\ cur' = t
    /\ UNCHANGED <<cgi, startVars, queue, connected, stopped>>

(* The server pushed a notification over the long link. *)
OnPush ==
    /\ NetIdle
    /\ connected
    /\ net' = "OnPush"
    /\ UNCHANGED <<map_task_, cgi, startVars, queue, marsVars, connected, cur, ending, stopped>>

(* OnTaskEnd or OnPush returns to the loop. *)
HandlerReturn ==
    /\ net \in {"OnTaskEnd", "OnPush"}
    /\ starting[Net] = "no"
    /\ net' = "loop"
    /\ cur' = NoTask
    /\ UNCHANGED <<map_task_, cgi, startVars, queue, marsVars, connected, ending, stopped>>

(* Variant: StopSDK ends the tasks on the thread that calls it. *)
StopSDKOnCaller ==
    /\ ~stopped
    /\ stopped' = TRUE
    /\ connected' = FALSE
    /\ queue' = {}
    /\ map_task_' = map_task_ \ lst_cmd_
    /\ lst_cmd_' = {}
    /\ running_id' = {}
    /\ ending' = {}
    /\ UNCHANGED <<cgi, startVars, antiavalanche_checked, remain_retry_count, net, cur>>

(* StopSDK: NetCore is released on its own thread; posted messages are     *)
(* cancelled and every task the managers hold ends.                        *)
StopSDK ==
    /\ NetIdle
    /\ stopped' = TRUE
    /\ connected' = FALSE
    /\ queue' = {}
    /\ ending' = lst_cmd_
    /\ UNCHANGED <<map_task_, cgi, startVars, marsVars, net, cur>>

-----------------------------------------------------------------------------
StartStep(th) == InsertTask(th) \/ PostTask(th)

CallStep ==
    \/ \E th \in Thread, t \in TaskId, k \in Cgi : NewTask(th, t, k)
    \/ \E th \in Thread : InsertTask(th)
    \/ \E th \in Thread : PostTask(th)

MarsStep ==
    \/ \E t \in TaskId : NetCoreStartTask(t)
    \/ \E t \in TaskId, packed \in BOOLEAN : RunOnStartTask(t, packed)
    \/ \E t \in TaskId : ShortLinkError(t)
    \/ \E t \in TaskId : TaskTimeout(t)
    \/ LinkError
    \/ Connect

HandlerStep ==
    \/ \E t \in TaskId : Buf2Resp(t)
    \/ DoCallBack
    \/ CallBackReturn
    \/ ForceQuit
    \/ \E t \in TaskId : OnTaskEnd(t)
    \/ OnPush
    \/ HandlerReturn
    \/ StopSDK

NetNext == CallStep \/ MarsStep \/ HandlerStep

NetSpec == NetInit /\ [][NetNext]_netVars

-----------------------------------------------------------------------------
(***************************************************************************)
(* Fairness.  Threads run to the end of what they are doing: a thread      *)
(* inside startTask finishes it, handlers make finitely many calls and     *)
(* return, the message loop takes posted messages and calls OnTaskEnd.  A  *)
(* listed task is eventually timed out: __RunLoop reposts itself every     *)
(* second while a task is listed.  The network, the server and the user    *)
(* owe nothing.                                                            *)
(***************************************************************************)
NetFairness ==
    /\ \A th \in Thread : WF_netVars(StartStep(th))
    /\ SF_netVars(DoCallBack \/ CallBackReturn \/ ForceQuit \/ HandlerReturn)
    /\ \A t \in TaskId : /\ WF_netVars(OnTaskEnd(t))
                         /\ SF_netVars(NetCoreStartTask(t))
                         /\ SF_netVars(TaskTimeout(t))

FairNetSpec == NetSpec /\ NetFairness

-----------------------------------------------------------------------------
(* Tasks a thread has inserted in the table and not yet posted. *)
Posting == {arg[th] : th \in {x \in Thread : starting[x] = "post"}}

(* Every CGITask in the table is one that mars has, will get, or is        *)
(* getting, and the other way round: no callback of mars meets an unknown  *)
(* id, and no CGITask outlives its task (until StopSDK cancels messages).  *)
(* It rests on startTask inserting before it posts, on every thread.       *)
TableMatchesMars ==
    /\ queue \cup lst_cmd_ \cup Posting \subseteq map_task_
    /\ ~stopped => map_task_ = queue \cup lst_cmd_ \cup Posting

(* Buf2Resp and the callback use pTask after m_cs was released: no other   *)
(* step may delete it before they return, not even one for a task that     *)
(* timed out while its answer was being handled.                           *)
PTaskAlive == net \in {"Buf2Resp", "DoCallBack"} => cur \in map_task_ \cap lst_cmd_

(* What makes the two above inductive.  A thread in startTask owns its     *)
(* task: nobody else starts it and mars does not have it yet, nor the      *)
(* table before it is inserted.  A message and a listed task are different *)
(* tasks, so OnTaskEnd of one never erases another's entry.  The task at   *)
(* hand is still listed, and no other end is pending while it is handled.  *)
StartersOwnTask ==
    \A th \in Thread : starting[th] # "no" =>
        /\ arg[th] \in TaskId \ (queue \cup lst_cmd_)
        /\ starting[th] = "insert" => arg[th] \notin map_task_
        /\ \A other \in Thread \ {th} : arg[other] # arg[th]

ListsConsistent ==
    /\ queue \cap lst_cmd_ = {}
    /\ running_id \subseteq lst_cmd_
    /\ ending \subseteq lst_cmd_
    /\ net \in {"Buf2Resp", "DoCallBack", "ForceQuit"} => cur \in lst_cmd_ /\ ending = {}

NetInv ==
    /\ NetTypeOK
    /\ TableMatchesMars
    /\ StartersOwnTask
    /\ ListsConsistent

(* A CGITask is released in the end, whatever the network does, unless the *)
(* process is going down: no path through retry, timeout, failed packing   *)
(* or nested startTask forgets OnTaskEnd.                                  *)
EveryTaskReleased ==
    \A t \in TaskId :
        t \in map_task_ ~> (t \notin map_task_ \/ net = "ForceQuit" \/ stopped)

(* interface.h:192 says of the callback that it reports the result to the  *)
(* upper layer once the task has ended: every task that expects an answer  *)
(* is followed by its callback.                                            *)
EndedTaskCallsBack ==
    \A t \in TaskId :
        (t \in lst_cmd_ /\ cgi[t] \notin SendOnly)
            ~> ((net = "DoCallBack" /\ cur = t) \/ net = "ForceQuit" \/ stopped)

-----------------------------------------------------------------------------
(***************************************************************************)
(* The two task managers as TaskLife sees them.  A task that has ended is  *)
(* done with when mars decides so: the managers never look at it again     *)
(* before OnTaskEnd takes it off their lists.                              *)
(***************************************************************************)
ListedLife ==
    [t \in TaskId |-> IF t \notin lst_cmd_ \ ending THEN "idle"
                      ELSE IF t \in running_id THEN "sent" ELSE "waiting"]

RetriesLeft == [t \in TaskId |-> IF t \in ending THEN 0 ELSE remain_retry_count[t]]

TableLife == INSTANCE TaskLife WITH Task <- TaskId, life <- ListedLife, left <- RetriesLeft

(* Whatever the callers, the network and the handlers do, on both          *)
(* channels: a task is sent only while it is listed, a failed sending and  *)
(* nothing else costs a retry, and a task that has ended, for whatever     *)
(* reason, is never sent again.  It is what LongLink's manager promises    *)
(* too, with its threads and messages.                                     *)
TableLifeSpec == TableLife!Spec
=============================================================================
