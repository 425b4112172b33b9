---------------------------- MODULE SyncService -----------------------------
(***************************************************************************)
(* Login, first initialisation and message synchronisation, on top of the  *)
(* task table: interface.cpp, NewSyncCGITask.cpp, ReportSyncKVCGITask.cpp, *)
(* NewInitCGITask.cpp, the handlers of NetworkService.cpp and the          *)
(* callbacks of MicroChat/business/callback.cpp that call back into them.  *)
(*                                                                         *)
(* Three threads ask for a sync through NewSync(): the UI thread when it   *)
(* loads the database, the timing-sync alarm while the long link is down,  *)
(* and Net on a push, after NewInit and after a report.  s_bSyncing lets   *)
(* one sync task run at a time; s_bNeedReSync remembers requests made      *)
(* meanwhile.  The flags are released by OnTaskEnd of the ReportSyncKV     *)
(* task that a sync starts once it has stored new messages.                *)
(*                                                                         *)
(* Messages are numbered in the order the server receives them, and a sync *)
(* key is the number of the last message it covers.                        *)
(***************************************************************************)
EXTENDS NetworkService

CONSTANTS
    UI, Alarm,      \* the two threads of Caller
    MaxMsg,         \* bound on the messages the server receives
    MaxLogin,       \* bound on the times the login button is clicked
    NetFaults       \* whether the network and the server may fail

ASSUME SyncAssumption ==
    /\ Caller = {UI, Alarm}
    /\ UI # Alarm
    /\ MaxMsg \in Nat
    /\ MaxLogin \in Nat \ {0}
    /\ NetFaults \in BOOLEAN

VARIABLES
    s_bSyncing,     \* a sync task runs or is about to: start no other
    s_bNeedReSync,  \* another sync was asked for meanwhile
    todo,           \* what the handler on Net has still to do
    session,        \* pAuthInfo->m_Session is set: requests can be encrypted
    ui,             \* how far the UI thread has come
    logins,         \* times the login button was clicked
    succ,           \* WM_LOGIN_SUCC messages waiting for the UI thread
    key,            \* the sync key in the database
    svr,            \* number of messages the server has
    sentKey,        \* task -> the position its request asked from
    sentSvr         \* task -> what the server had when the request was sent

gateVars == <<s_bSyncing, s_bNeedReSync>>
uiVars == <<ui, logins, succ>>
dataVars == <<key, svr, sentKey, sentSvr>>
appVars == <<todo, session, ui, logins, succ, s_bSyncing, s_bNeedReSync, key, svr, sentKey, sentSvr>>
vars == <<netVars, appVars>>

(* An empty sync key. *)
NoKey == -1

SyncTypeOK ==
    /\ NetTypeOK
    /\ s_bSyncing \in BOOLEAN
    /\ s_bNeedReSync \in BOOLEAN
    /\ todo \in {"none", "decode", "ok", "fail", "err", "sync", "resync"}
    /\ session \in BOOLEAN
    /\ ui \in {"login", "succ", "opened", "clear", "main"}
    /\ logins \in 0..MaxLogin
    /\ succ \in 0..MaxLogin
    /\ svr \in 0..MaxMsg
    /\ key \in -1..svr
    /\ sentKey \in [TaskId -> 0..MaxMsg]
    /\ sentSvr \in [TaskId -> 0..MaxMsg]

(* The program starts, or a login has succeeded and its task has ended.    *)
(* The database may hold a key from an earlier run of the program.         *)
Started(loggedIn) ==
    /\ NetInit
    /\ s_bSyncing = FALSE
    /\ s_bNeedReSync = FALSE
    /\ todo = "none"
    /\ session = loggedIn
    /\ ui = "login"
    /\ logins = IF loggedIn THEN MaxLogin ELSE 0
    /\ succ = IF loggedIn THEN 1 ELSE 0
    /\ svr \in 0..MaxMsg
    /\ key \in -1..svr
    /\ sentKey = [t \in TaskId |-> 0]
    /\ sentSvr = [t \in TaskId |-> 0]

SyncInit == Started(FALSE)

-----------------------------------------------------------------------------
(* Variant: the position saved is the one after the last message. *)
SetNextSyncKey(k) == key' = IF ui \in {"opened", "clear", "main"} THEN k + 1 ELSE key

(* The database is opened by LoadFromDB; before that GetSyncKey reads an   *)
(* empty key and SetSyncKey writes nothing.                                *)
DbOpen == ui \in {"opened", "clear", "main"}
GetSyncKey == IF DbOpen THEN key ELSE NoKey
SetSyncKey(k) == key' = IF DbOpen THEN k ELSE key

(* Without a key the request asks for everything from position 0. *)
Position(k) == IF k = NoKey THEN 0 ELSE k

(* Variant: the test of s_bSyncing does not set it. *)
NewSyncUnmarked(th) ==
    /\ MayCall(th)
    /\ IF s_bSyncing
       THEN s_bNeedReSync' = TRUE /\ UNCHANGED netVars
       ELSE s_bNeedReSync' = s_bNeedReSync /\ \E t \in TaskId : NewTask(th, t, "NewSync")
    /\ UNCHANGED s_bSyncing

(***************************************************************************)
(* NewSync(), on thread th: IsSyncing tests and sets s_bSyncing under      *)
(* s_cs; the sync task is created when it was not set.                     *)
(***************************************************************************)
NewSync(th) ==
    /\ MayCall(th)
    /\ \/ /\ s_bSyncing
          /\ s_bNeedReSync' = TRUE
          /\ UNCHANGED <<s_bSyncing, netVars>>
       \/ /\ ~s_bSyncing
          /\ s_bSyncing' = TRUE
          /\ s_bNeedReSync' = s_bNeedReSync
          /\ \E t \in TaskId : NewTask(th, t, "NewSync")

(* Variants: the request that waits is forgotten; or it is kept and the    *)
(* gate opened.                                                            *)
IsNeedReSyncForgets ==
    /\ net = "OnTaskEnd"
    /\ todo = "resync"
    /\ s_bSyncing' = FALSE
    /\ s_bNeedReSync' = FALSE
    /\ todo' = "none"
    /\ UNCHANGED <<netVars, session, uiVars, dataVars>>

IsNeedReSyncOpens ==
    /\ net = "OnTaskEnd"
    /\ todo = "resync"
    /\ s_bSyncing' = FALSE
    /\ todo' = "none"
    /\ UNCHANGED <<netVars, s_bNeedReSync, session, uiVars, dataVars>>

(* IsNeedReSync, called when a ReportSyncKV task has ended. *)
IsNeedReSync ==
    /\ net = "OnTaskEnd"
    /\ todo = "resync"
    /\ starting[Net] = "no"
    /\ \/ /\ s_bNeedReSync
          /\ s_bSyncing' = TRUE
          /\ \E t \in TaskId : NewTask(Net, t, "NewSync")
       \/ /\ ~s_bNeedReSync
          /\ s_bSyncing' = FALSE
          /\ UNCHANGED netVars
    /\ s_bNeedReSync' = FALSE
    /\ todo' = "none"
    /\ UNCHANGED <<session, uiVars, dataVars>>

-----------------------------------------------------------------------------
(***************************************************************************)
(* The UI thread.                                                          *)
(***************************************************************************)

(* Login(): the button stays active, so it may be clicked again before the *)
(* first login is answered.                                                *)
Login ==
    /\ ui = "login"
    /\ logins < MaxLogin
    /\ logins' = logins + 1
    /\ \E t \in TaskId : NewTask(UI, t, "ManualAuth")
    /\ UNCHANGED <<todo, session, ui, succ, gateVars, dataVars>>

(* WM_LOGIN_SUCC: the login window is hidden and the main window created;  *)
(* its InitWindow calls LoadFromDB, which closes the database it may have  *)
(* open.  The main window's own message loop takes a second such message.  *)
LoginSucc ==
    /\ ui \in {"login", "main"}
    /\ succ > 0
    /\ starting[UI] = "no"
    /\ ui' = "succ"
    /\ succ' = succ - 1
    /\ UNCHANGED <<netVars, todo, session, logins, gateVars, dataVars>>

(* LoadFromDB opens the database named after the uin. *)
OpenDB ==
    /\ ui = "succ"
    /\ ui' = "opened"
    /\ UNCHANGED <<netVars, todo, session, logins, succ, gateVars, dataVars>>

(* With a key: LoadContact hands the contacts to the NewInit callback,     *)
(* which requests a sync, on this thread.                                  *)
LoadContact ==
    /\ ui = "opened"
    /\ key # NoKey
    /\ NewSync(UI)
    /\ ui' = "main"
    /\ UNCHANGED <<todo, session, logins, succ, dataVars>>

(* Without a key: clear the database, then NewInit. *)
NoSyncKey ==
    /\ ui = "opened"
    /\ key = NoKey
    /\ ui' = "clear"
    /\ UNCHANGED <<netVars, todo, session, logins, succ, gateVars, dataVars>>

ClearDBAndNewInit ==
    /\ ui = "clear"
    /\ key' = NoKey
    /\ ui' = "main"
    /\ \E t \in TaskId : NewTask(UI, t, "NewInit")
    /\ UNCHANGED <<todo, session, logins, succ, gateVars, svr, sentKey, sentSvr>>

(* The alarm of TimingSync, armed while the long link is down.  With       *)
(* faults the link may be down and Net not told, with tasks still running. *)
RequestSync ==
    /\ ~connected \/ (NetFaults /\ RunningLong # {})
    /\ ~stopped
    /\ NewSync(Alarm)
    /\ UNCHANGED <<todo, session, uiVars, dataVars>>

(* The server receives a message for this account. *)
ServerMsg ==
    /\ svr < MaxMsg
    /\ svr' = svr + 1
    /\ UNCHANGED <<netVars, todo, session, uiVars, gateVars, key, sentKey, sentSvr>>

-----------------------------------------------------------------------------
(***************************************************************************)
(* Net: sending.                                                           *)
(***************************************************************************)

(* Packing NewSync and NewInit needs the session key. *)
CanPack(t, packed) ==
    /\ (cgi[t] \in {"NewSync", "NewInit"} /\ ~session) => ~packed
    /\ packed \/ NetFaults \/ (cgi[t] \in {"NewSync", "NewInit"} /\ ~session)

(* Without faults a link that is up takes what is sent. *)
SendTask(t, packed) ==
    /\ CanPack(t, packed)
    /\ RunOnStartTask(t, packed)
    /\ (packed /\ connected /\ ~NetFaults) => t \in running_id'
    /\ sentKey' = IF t \in running_id' /\ cgi[t] = "NewSync"
                  THEN [sentKey EXCEPT ![t] = Position(GetSyncKey)] ELSE sentKey
    /\ sentSvr' = IF t \in running_id' /\ remain_retry_count[t] = RetryCount
                  THEN [sentSvr EXCEPT ![t] = svr] ELSE sentSvr
    /\ UNCHANGED <<todo, session, uiVars, gateVars, key, svr>>

(* Mars steps that the SDK does not see. *)
MarsOnly ==
    /\ \/ \E t \in TaskId : NetCoreStartTask(t)
       \/ Connect
    /\ UNCHANGED appVars

Fault ==
    /\ NetFaults
    /\ \/ \E t \in TaskId : ShortLinkError(t)
       \/ \E t \in TaskId : TaskTimeout(t)
       \/ LinkError
    /\ UNCHANGED appVars

(* startTask's two steps, on any thread. *)
StartTask ==
    /\ \/ \E th \in Thread : InsertTask(th)
       \/ \E th \in Thread : PostTask(th)
    /\ UNCHANGED appVars

-----------------------------------------------------------------------------
(***************************************************************************)
(* Net: answers.  A reply holds what the server had at some moment after   *)
(* the request was sent first.                                             *)
(***************************************************************************)
Reply == sentSvr[cur]..svr

Answer(t) ==
    /\ Buf2Resp(t)
    /\ todo' = "decode"
    /\ UNCHANGED <<session, uiVars, gateVars, dataVars>>

Decoding(k) ==
    /\ net = "Buf2Resp"
    /\ todo = "decode"
    /\ cgi[cur] = k

(* ManualAuth: the login succeeded and the session key is kept, or the     *)
(* server wants something else (the login window is told).                 *)
DecodeManualAuth ==
    /\ Decoding("ManualAuth")
    /\ \/ session' = TRUE /\ todo' = "ok"
       \/ session' = session /\ todo' = "fail"
    /\ UNCHANGED <<netVars, uiVars, gateVars, dataVars>>

(* NewInit: the key is saved and all contacts and messages are stored; a   *)
(* body that does not parse is taken for a success; an empty one is        *)
(* CGI_CODE_LOGIN_FAIL.                                                    *)
DecodeNewInit ==
    /\ Decoding("NewInit")
    /\ \/ \E p \in Reply : SetSyncKey(p) /\ todo' = "ok"
       \/ key' = key /\ NetFaults /\ todo' \in {"ok", "fail"}
    /\ UNCHANGED <<netVars, session, uiVars, gateVars, svr, sentKey, sentSvr>>

(* NewSync: the key is saved; if there are messages they are stored and a  *)
(* ReportSyncKV task is started.                                           *)
DecodeNewSync ==
    /\ Decoding("NewSync")
    /\ \E p \in Reply :
         /\ SetSyncKey(p)
         /\ IF p > sentKey[cur]
            THEN \E r \in TaskId : NewTask(Net, r, "ReportSyncKV")
            ELSE UNCHANGED netVars
    /\ todo' = "ok"
    /\ UNCHANGED <<session, uiVars, gateVars, svr, sentKey, sentSvr>>

(* Header, decryption or protobuf error, before or after the key is saved. *)
DecodeError ==
    /\ NetFaults
    /\ \E k \in Cgi : Decoding(k)
    /\ todo' = "err"
    /\ \/ key' = key
       \/ cgi[cur] # "ManualAuth" /\ \E p \in Reply : SetSyncKey(p)
    /\ UNCHANGED <<netVars, session, uiVars, gateVars, svr, sentKey, sentSvr>>

CallBack ==
    /\ todo \in {"ok", "fail", "err"}
    /\ DoCallBack
    /\ UNCHANGED appVars

(* SDKCallBack: a success of ManualAuth posts WM_LOGIN_SUCC, a success of  *)
(* NewInit requests a sync, protocol errors end the process.               *)
LoginCallBack ==
    /\ net = "DoCallBack"
    /\ todo = "ok"
    /\ cgi[cur] = "ManualAuth"
    /\ succ' = succ + 1
    /\ todo' = "none"
    /\ UNCHANGED <<netVars, session, ui, logins, gateVars, dataVars>>

NewInitCallBack ==
    /\ net = "DoCallBack"
    /\ todo = "ok"
    /\ cgi[cur] = "NewInit"
    /\ NewSync(Net)
    /\ todo' = "none"
    /\ UNCHANGED <<session, uiVars, dataVars>>

OtherCallBack ==
    /\ net = "DoCallBack"
    /\ \/ todo = "fail"
       \/ todo = "ok" /\ cgi[cur] = "NewSync"
    /\ todo' = "none"
    /\ UNCHANGED <<netVars, session, uiVars, gateVars, dataVars>>

HandleCallBackError ==
    /\ todo = "err"
    /\ ForceQuit
    /\ todo' = "none"
    /\ UNCHANGED <<session, uiVars, gateVars, dataVars>>

CallBackDone ==
    /\ todo = "none"
    /\ CallBackReturn
    /\ UNCHANGED appVars

-----------------------------------------------------------------------------
(***************************************************************************)
(* Net: end of a task, push.                                               *)
(***************************************************************************)
(* Variant: the end of a report is treated like that of any other task. *)
TaskEndPlain(t) ==
    /\ OnTaskEnd(t)
    /\ todo' = "none"
    /\ UNCHANGED <<session, uiVars, gateVars, dataVars>>

(* What the request was sent with goes with the CGITask. *)
TaskEnd(t) ==
    /\ OnTaskEnd(t)
    /\ todo' = IF cgi[t] = "ReportSyncKV" THEN "resync" ELSE "none"
    /\ sentKey' = [sentKey EXCEPT ![t] = 0]
    /\ sentSvr' = [sentSvr EXCEPT ![t] = 0]
    /\ UNCHANGED <<session, uiVars, gateVars, key, svr>>

Push ==
    /\ OnPush
    /\ todo' = IF GetSyncKey # NoKey THEN "sync" ELSE "none"
    /\ UNCHANGED <<session, uiVars, gateVars, dataVars>>

PushSync ==
    /\ net = "OnPush"
    /\ todo = "sync"
    /\ NewSync(Net)
    /\ todo' = "none"
    /\ UNCHANGED <<session, uiVars, dataVars>>

HandlerDone ==
    /\ todo = "none"
    /\ HandlerReturn
    /\ UNCHANGED appVars

Stop ==
    /\ StopSDK
    /\ UNCHANGED appVars

-----------------------------------------------------------------------------
UiStep == Login \/ LoginSucc \/ OpenDB \/ LoadContact \/ NoSyncKey \/ ClearDBAndNewInit

DecodeStep == DecodeManualAuth \/ DecodeNewInit \/ DecodeNewSync \/ DecodeError

CallBackStep ==
    \/ CallBack \/ LoginCallBack \/ NewInitCallBack \/ OtherCallBack
    \/ HandleCallBackError \/ CallBackDone

TaskStep ==
    \/ StartTask
    \/ MarsOnly
    \/ Fault
    \/ \E t \in TaskId, packed \in BOOLEAN : SendTask(t, packed)
    \/ \E t \in TaskId : Answer(t)
    \/ \E t \in TaskId : TaskEnd(t)

SyncNext ==
    \/ UiStep
    \/ RequestSync
    \/ ServerMsg
    \/ TaskStep
    \/ DecodeStep
    \/ CallBackStep
    \/ IsNeedReSync
    \/ Push
    \/ PushSync
    \/ HandlerDone
    \/ Stop

SyncSpec == SyncInit /\ [][SyncNext]_vars

-----------------------------------------------------------------------------
(***************************************************************************)
(* Fairness, for a network without faults (NetFaults = FALSE).  As for      *)
(* NetFairness, threads finish what they are doing and the message loop    *)
(* takes what was posted; requests are sent when their channel is up, and  *)
(* what was sent is answered.  The alarm keeps firing while it is          *)
(* armed.  FairSyncSpec adds that the long link comes up again and again.  *)
(* It begins when the login has succeeded: no new login then takes the     *)
(* task ids that a sync needs.                                             *)
(***************************************************************************)
HandlerStepDone ==
    DecodeStep \/ CallBackStep \/ IsNeedReSync \/ PushSync \/ HandlerDone

SyncFairness ==
    /\ \A th \in Thread : WF_vars(StartStep(th) /\ UNCHANGED appVars)
    /\ SF_vars(HandlerStepDone)
    /\ WF_vars(\E t \in TaskId : TaskEnd(t))
    /\ SF_vars(\E t \in TaskId : NetCoreStartTask(t) /\ UNCHANGED appVars)
    /\ SF_vars(\E t \in TaskId, packed \in BOOLEAN : SendTask(t, packed))
    /\ SF_vars(\E t \in TaskId : Answer(t))
    /\ SF_vars(RequestSync)

FairSyncSpec ==
    /\ Started(TRUE)
    /\ [][SyncNext]_vars
    /\ SyncFairness
    /\ SF_vars(Connect /\ UNCHANGED appVars)

-----------------------------------------------------------------------------
(***************************************************************************)
(* Who holds the gate: the tasks that keep a sync going, from the moment   *)
(* IsSyncing grants it until IsNeedReSync decides what follows.  A sync    *)
(* task holds it until its answer is decoded or it fails; then the report  *)
(* it started does.                                                        *)
(***************************************************************************)
SyncChain == {"NewSync", "ReportSyncKV"}

(* The sync task whose answer has been decoded and that is about to end. *)
Decoded ==
    IF net \in {"DoCallBack", "ForceQuit"} \/ (net = "Buf2Resp" /\ todo # "decode")
    THEN {cur} ELSE {}

SyncWork ==
    {arg[th] : th \in {x \in Thread : starting[x] # "no" /\ cgi[arg[x]] \in SyncChain}}
    \cup {t \in queue \cup lst_cmd_ : cgi[t] = "ReportSyncKV"}
    \cup {t \in queue \cup (lst_cmd_ \ (ending \cup Decoded)) : cgi[t] = "NewSync"}
    \cup (IF net = "OnTaskEnd" /\ todo = "resync" THEN {cur} ELSE {})

(* NewSyncCGITask.h:19: one sync task at a time.  Requests from three      *)
(* threads, retries and the restart after a report never make two, and     *)
(* while one is going on the gate is closed to all others.                 *)
SingleFlight ==
    /\ \A t, u \in SyncWork : t = u
    /\ SyncWork # {} => s_bSyncing

(* A request is remembered only while the gate is closed: it never leaks   *)
(* into a later, unrelated sync.                                           *)
NeedReSyncOnlyWhileSyncing == s_bNeedReSync => s_bSyncing

(* The gate as SyncGate sees it. *)
Gate ==
    IF SyncWork # {} THEN (IF s_bNeedReSync THEN "again" ELSE "busy")
    ELSE IF s_bSyncing THEN "lost" ELSE "open"

AbstractGate == INSTANCE SyncGate WITH gate <- Gate

(* The flags, the tasks and the threads implement the gate: whatever the    *)
(* interleaving, a request that waits is served by a sync of its own, the  *)
(* gate never opens under a running sync, and a gate that is lost stays    *)
(* lost.                                                                   *)
GateRefined == AbstractGate!Spec

Gone == stopped \/ net = "ForceQuit"

Reporting == \E t \in map_task_ : cgi[t] = "ReportSyncKV"

(* Once a sync has got as far as its report, the gate cannot be lost any    *)
(* more: whatever happens to the report, the request that waits is served  *)
(* or the gate opens.                                                      *)
ReportNeverLosesGate ==
    [][(\E t \in SyncWork : cgi[t] = "ReportSyncKV") => (Gate' # "lost" \/ Gone')]_vars

(* On a network without faults the sync that follows the report brings in  *)
(* everything the server had when the request was made.                    *)
ReSyncDelivers ==
    \A n \in 1..MaxMsg :
        (s_bNeedReSync /\ Reporting /\ session /\ ui = "main" /\ svr >= n)
            ~> (key >= n \/ Gone)

(* NewSyncCGITask.h:24 and NewSyncCGITask.cpp:178: when s_bNeedReSync is   *)
(* set, the running sync is followed by another one.                       *)
ReSyncFollows == s_bNeedReSync ~> (~s_bNeedReSync \/ Gone)

-----------------------------------------------------------------------------
(***************************************************************************)
(* What makes these inductive.                                             *)
(***************************************************************************)

(* The task whose OnTaskEnd is being handled is on no list and in nobody's *)
(* hands any more.                                                         *)
EndedTaskGone ==
    net = "OnTaskEnd" =>
        /\ cur \notin queue \cup lst_cmd_
        /\ \A th \in Thread : starting[th] # "no" => arg[th] # cur

(* Logins that may still succeed. *)
CalledBack == IF net = "DoCallBack" /\ todo = "none" THEN {cur} ELSE {}

OpenLogins ==
    {t \in TaskId :
        /\ cgi[t] = "ManualAuth"
        /\ \/ \E th \in Thread : starting[th] # "no" /\ arg[th] = t
           \/ t \in queue \cup (lst_cmd_ \ (ending \cup CalledBack))}

(* Each click leads to at most one WM_LOGIN_SUCC. *)
LoginsCounted ==
    /\ IsFiniteSet(OpenLogins)
    /\ succ + Cardinality(OpenLogins) <= logins

SyncInv ==
    /\ NetInv
    /\ SyncTypeOK
    /\ EndedTaskGone
    /\ SingleFlight
    /\ NeedReSyncOnlyWhileSyncing
    /\ LoginsCounted
=============================================================================
