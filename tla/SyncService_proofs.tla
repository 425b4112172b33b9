------------------------- MODULE SyncService_proofs -------------------------
(***************************************************************************)
(* Login and message synchronisation, for every number of task ids,        *)
(* retries, messages and clicks, with and without network faults.          *)
(*                                                                         *)
(* Every step is a step of the task table, so NetInv holds and with it     *)
(* that a task is in one place at a time.  On top of it SyncInv needs that *)
(* the task whose end is handled is nowhere else any more (EndedTaskGone): *)
(* otherwise the sync that IsNeedReSync starts could meet the report it    *)
(* follows.  What a step does to the tasks that hold the gate is one of    *)
(* five things, Shrinks to Finishes; each keeps SingleFlight and is a step *)
(* of SyncGate.  LoginsCounted, the tasks of clicks that may still         *)
(* succeed, bounds the messages to the login window.                       *)
(***************************************************************************)
EXTENDS SyncService, NetworkService_proofs, FiniteSetTheorems

(* The callers of the SDK are threads of the task table. *)
LEMMA SyncThreads == UI \in Thread /\ Alarm \in Thread /\ Net \in Thread
  BY SyncAssumption DEF Thread

(* NewSync() starts at most one task, of kind NewSync. *)
LEMMA NewSyncIsNetStep ==
    ASSUME NEW th \in Thread, NewSync(th)
    PROVE  [NetNext]_netVars
  BY DEF NewSync, NetNext, CallStep, Cgi

(* Every step of login and synchronisation is a step of the task table or  *)
(* leaves it alone: nothing above the table reaches into it.               *)
LEMMA SyncIsNetStep ==
    ASSUME [SyncNext]_vars
    PROVE  [NetNext]_netVars
  <1> USE SyncThreads
  <1>1. CASE UiStep
    <2>1. CASE Login
      BY <2>1 DEF Login, NetNext, CallStep, Cgi
    <2>2. CASE LoadContact
      BY <2>2, NewSyncIsNetStep DEF LoadContact
    <2>3. CASE ClearDBAndNewInit
      BY <2>3 DEF ClearDBAndNewInit, NetNext, CallStep, Cgi
    <2> QED
      BY <1>1, <2>1, <2>2, <2>3 DEF UiStep, LoginSucc, OpenDB, NoSyncKey
  <1>2. CASE RequestSync \/ PushSync
    BY <1>2, NewSyncIsNetStep DEF RequestSync, PushSync
  <1>3. CASE ServerMsg
    BY <1>3 DEF ServerMsg
  <1>4. CASE TaskStep
    <2>1. CASE StartTask
      BY <2>1 DEF StartTask, NetNext, CallStep
    <2>2. CASE MarsOnly \/ Fault
      BY <2>2 DEF MarsOnly, Fault, NetNext, MarsStep
    <2>3. CASE \E t \in TaskId, packed \in BOOLEAN : SendTask(t, packed)
      BY <2>3 DEF SendTask, NetNext, MarsStep
    <2>4. CASE \E t \in TaskId : Answer(t)
      BY <2>4 DEF Answer, NetNext, HandlerStep
    <2>5. CASE \E t \in TaskId : TaskEnd(t)
      BY <2>5 DEF TaskEnd, NetNext, HandlerStep
    <2> QED
      BY <1>4, <2>1, <2>2, <2>3, <2>4, <2>5 DEF TaskStep
  <1>5. CASE DecodeStep
    <2>1. CASE DecodeNewSync
      BY <2>1 DEF DecodeNewSync, NetNext, CallStep, Cgi
    <2> QED
      BY <1>5, <2>1 DEF DecodeStep, DecodeManualAuth, DecodeNewInit, DecodeError
  <1>6. CASE CallBackStep
    <2>1. CASE CallBack \/ HandleCallBackError \/ CallBackDone
      BY <2>1 DEF CallBack, HandleCallBackError, CallBackDone, NetNext, HandlerStep
    <2>2. CASE NewInitCallBack
      BY <2>2, NewSyncIsNetStep DEF NewInitCallBack
    <2> QED
      BY <1>6, <2>1, <2>2 DEF CallBackStep, LoginCallBack, OtherCallBack
  <1>7. CASE IsNeedReSync
    BY <1>7 DEF IsNeedReSync, NetNext, CallStep, Cgi
  <1>8. CASE Push \/ HandlerDone \/ Stop
    BY <1>8 DEF Push, HandlerDone, Stop, NetNext, HandlerStep
  <1>9. CASE UNCHANGED vars
    BY <1>9 DEF vars
  <1> QED
    BY <1>1, <1>2, <1>3, <1>4, <1>5, <1>6, <1>7, <1>8, <1>9 DEF SyncNext

(* The task Net decodes or calls back for is a listed one. *)
LEMMA CurIsTask ==
    ASSUME NetInv, net \in {"Buf2Resp", "DoCallBack"}
    PROVE  cur \in TaskId /\ cur \in lst_cmd_ /\ ending = {} /\ cur \notin queue
           /\ \A th \in Thread : starting[th] # "no" => arg[th] # cur
  BY DEF NetInv, NetTypeOK, ListsConsistent, StartersOwnTask

(* The types of the variables above the task table; the bound on succ      *)
(* comes from LoginsCounted.                                               *)
AppTypes ==
    /\ s_bSyncing \in BOOLEAN
    /\ s_bNeedReSync \in BOOLEAN
    /\ todo \in {"none", "decode", "ok", "fail", "err", "sync", "resync"}
    /\ session \in BOOLEAN
    /\ ui \in {"login", "succ", "opened", "clear", "main"}
    /\ logins \in 0..MaxLogin
    /\ succ \in Nat
    /\ svr \in 0..MaxMsg
    /\ key \in -1..svr
    /\ sentKey \in [TaskId -> 0..MaxMsg]
    /\ sentSvr \in [TaskId -> 0..MaxMsg]

(* A position that is asked from, or that a reply covers, is one the       *)
(* server has reached.                                                     *)
LEMMA PositionTypes ==
    ASSUME AppTypes
    PROVE  /\ Position(GetSyncKey) \in 0..MaxMsg
           /\ \A t \in TaskId : sentSvr[t]..svr \subseteq 0..svr
           /\ MaxMsg \in Nat /\ MaxLogin \in Nat
  <1>1. MaxMsg \in Nat /\ MaxLogin \in Nat
    BY SyncAssumption
  <1>2. svr \in 0..MaxMsg /\ key \in -1..svr
    BY DEF AppTypes
  <1>3. \A t \in TaskId : sentSvr[t] \in 0..MaxMsg
    BY DEF AppTypes
  <1>4. Position(GetSyncKey) \in 0..MaxMsg
    BY <1>1, <1>2 DEF Position, GetSyncKey, NoKey
  <1> QED
    BY <1>1, <1>2, <1>3, <1>4

(* Every step keeps these types: a reply never covers more than the      *)
(* server has, so no key runs ahead of it.                               *)
LEMMA AppTypeStep ==
    ASSUME NetInv, AppTypes, [SyncNext]_vars
    PROVE  AppTypes'
  <1> USE DEF AppTypes
  <1>1. CASE UiStep
    <2>1. CASE Login
      BY <2>1, PositionTypes DEF Login, gateVars, dataVars
    <2>2. CASE LoadContact
      BY <2>2 DEF LoadContact, NewSync, dataVars
    <2>3. CASE ClearDBAndNewInit
      <3>1. key' \in -1..svr
        BY <2>3, PositionTypes DEF ClearDBAndNewInit, NoKey
      <3> QED
        BY <2>3, <3>1 DEF ClearDBAndNewInit, gateVars
    <2>4. CASE LoginSucc
      BY <2>4 DEF LoginSucc, gateVars, dataVars
    <2>5. CASE OpenDB \/ NoSyncKey
      BY <2>5 DEF OpenDB, NoSyncKey, gateVars, dataVars
    <2> QED
      BY <1>1, <2>1, <2>2, <2>3, <2>4, <2>5 DEF UiStep
  <1>2. CASE RequestSync \/ PushSync
    BY <1>2 DEF RequestSync, PushSync, NewSync, uiVars, dataVars
  <1>3. CASE ServerMsg
    BY <1>3, PositionTypes DEF ServerMsg, uiVars, gateVars
  <1>4. CASE TaskStep
    <2>1. CASE StartTask \/ MarsOnly \/ Fault
      BY <2>1 DEF StartTask, MarsOnly, Fault, appVars
    <2>2. ASSUME NEW t \in TaskId, NEW packed \in BOOLEAN, SendTask(t, packed)
          PROVE  AppTypes'
      <3>1. sentKey' \in [TaskId -> 0..MaxMsg]
        BY <2>2, PositionTypes DEF SendTask
      <3>2. sentSvr' \in [TaskId -> 0..MaxMsg]
        BY <2>2 DEF SendTask
      <3> QED
        BY <2>2, <3>1, <3>2 DEF SendTask, uiVars, gateVars
    <2>3. CASE \E t \in TaskId : Answer(t)
      BY <2>3 DEF Answer, uiVars, gateVars, dataVars
    <2>4. CASE \E t \in TaskId : TaskEnd(t)
      <3>1. 0 \in 0..MaxMsg
        BY PositionTypes
      <3> QED
        BY <2>4, <3>1 DEF TaskEnd, uiVars, gateVars
    <2> QED
      BY <1>4, <2>1, <2>2, <2>3, <2>4 DEF TaskStep
  <1>5. CASE DecodeStep
    <2>1. Reply \subseteq -1..svr
      <3>1. cur \in TaskId
        BY <1>5, CurIsTask DEF DecodeStep, DecodeManualAuth, DecodeNewInit, DecodeNewSync,
           DecodeError, Decoding
      <3>2. 0..svr \subseteq -1..svr
        OBVIOUS
      <3> QED
        BY <3>1, <3>2, PositionTypes DEF Reply
    <2>2. CASE DecodeManualAuth
      BY <2>2 DEF DecodeManualAuth, uiVars, gateVars, dataVars
    <2>3. CASE DecodeNewInit
      BY <2>1, <2>3 DEF DecodeNewInit, SetSyncKey, uiVars, gateVars
    <2>4. CASE DecodeNewSync
      BY <2>1, <2>4 DEF DecodeNewSync, SetSyncKey, uiVars, gateVars
    <2>5. CASE DecodeError
      BY <2>1, <2>5 DEF DecodeError, SetSyncKey, uiVars, gateVars
    <2> QED
      BY <1>5, <2>2, <2>3, <2>4, <2>5 DEF DecodeStep
  <1>6. CASE CallBackStep
    <2>1. CASE NewInitCallBack
      BY <2>1 DEF NewInitCallBack, NewSync, uiVars, dataVars
    <2>2. CASE LoginCallBack
      BY <2>2 DEF LoginCallBack, gateVars, dataVars
    <2> QED
      BY <1>6, <2>1, <2>2 DEF CallBackStep, CallBack, OtherCallBack, HandleCallBackError,
         CallBackDone, appVars, uiVars, gateVars, dataVars
  <1>7. CASE IsNeedReSync
    BY <1>7 DEF IsNeedReSync, uiVars, dataVars
  <1>8. CASE Push \/ HandlerDone \/ Stop
    BY <1>8 DEF Push, HandlerDone, Stop, appVars, uiVars, gateVars, dataVars
  <1>9. CASE UNCHANGED vars
    BY <1>9 DEF vars, appVars
  <1> QED
    BY <1>1, <1>2, <1>3, <1>4, <1>5, <1>6, <1>7, <1>8, <1>9 DEF SyncNext

(* While the end of a task is handled, no step gives the task to anybody.  *)
LEMMA EndedTaskStep ==
    ASSUME NetInv, EndedTaskGone, [NetNext]_netVars
    PROVE  EndedTaskGone'
  <1>1. ASSUME NEW th \in Thread, NEW t \in TaskId, NEW k \in Cgi, NewTask(th, t, k)
        PROVE  EndedTaskGone'
    BY <1>1 DEF NetInv, NetTypeOK, EndedTaskGone, NewTask, Fresh, marsVars
  <1>2. ASSUME NEW th \in Thread, InsertTask(th) PROVE EndedTaskGone'
    BY <1>2 DEF NetInv, NetTypeOK, EndedTaskGone, InsertTask, marsVars
  <1>3. ASSUME NEW th \in Thread, PostTask(th) PROVE EndedTaskGone'
    BY <1>3 DEF NetInv, NetTypeOK, EndedTaskGone, PostTask, marsVars
  <1>4. CASE MarsStep
    BY <1>4 DEF EndedTaskGone, MarsStep, NetCoreStartTask, RunOnStartTask, ShortLinkError,
       TaskTimeout, LinkError, Connect, NetIdle, marsVars, startVars
  <1>5. ASSUME NEW t \in TaskId, OnTaskEnd(t) PROVE EndedTaskGone'
    BY <1>5 DEF NetInv, StartersOwnTask, ListsConsistent, EndedTaskGone, OnTaskEnd, startVars
  <1>6. CASE HandlerStep /\ ~(\E t \in TaskId : OnTaskEnd(t))
    BY <1>6 DEF HandlerStep, Buf2Resp, DoCallBack, CallBackReturn, ForceQuit, OnPush,
       HandlerReturn, StopSDK, NetIdle, EndedTaskGone
  <1>7. CASE UNCHANGED netVars
    BY <1>7 DEF netVars, EndedTaskGone
  <1> QED
    BY <1>1, <1>2, <1>3, <1>4, <1>5, <1>6, <1>7 DEF NetNext, CallStep, HandlerStep

(***************************************************************************)
(* What a step does to the tasks that hold the gate.                       *)
(***************************************************************************)

(* Nobody new holds the gate, and the flags stay as they are. *)
Shrinks == SyncWork' \subseteq SyncWork /\ UNCHANGED gateVars

(* A request is merged with the sync that is going on. *)
Merges ==
    /\ SyncWork' = SyncWork
    /\ s_bSyncing /\ s_bSyncing' = s_bSyncing
    /\ s_bNeedReSync' = TRUE

(* A request starts a sync task. *)
Starts ==
    /\ ~s_bSyncing /\ s_bSyncing' = TRUE
    /\ s_bNeedReSync' = s_bNeedReSync
    /\ \E t : SyncWork' = {t}

(* The sync task passes the gate on to its report. *)
PassesOn ==
    /\ SyncWork # {}
    /\ \E r : SyncWork' = {r}
    /\ UNCHANGED gateVars

(* The report has ended. *)
Finishes ==
    /\ SyncWork # {}
    /\ s_bNeedReSync' = FALSE
    /\ \/ s_bNeedReSync /\ s_bSyncing' = TRUE /\ \E t : SyncWork' = {t}
       \/ ~s_bNeedReSync /\ s_bSyncing' = FALSE /\ SyncWork' = {}

(* Who is in SyncWork, before a step and after it. *)
LEMMA WorkOf ==
    \A t : t \in SyncWork <=>
        \/ \E th \in Thread : starting[th] # "no" /\ arg[th] = t /\ cgi[t] \in SyncChain
        \/ t \in queue \cup lst_cmd_ /\ cgi[t] = "ReportSyncKV"
        \/ t \in queue \cup (lst_cmd_ \ (ending \cup Decoded)) /\ cgi[t] = "NewSync"
        \/ net = "OnTaskEnd" /\ todo = "resync" /\ t = cur
  BY DEF SyncWork

(* The same after a step. *)
LEMMA WorkOfNext ==
    \A t : t \in SyncWork' <=>
        \/ \E th \in Thread : starting'[th] # "no" /\ arg'[th] = t /\ cgi'[t] \in SyncChain
        \/ t \in queue' \cup lst_cmd_' /\ cgi'[t] = "ReportSyncKV"
        \/ t \in queue' \cup (lst_cmd_' \ (ending' \cup Decoded')) /\ cgi'[t] = "NewSync"
        \/ net' = "OnTaskEnd" /\ todo' = "resync" /\ t = cur'
  BY DEF SyncWork

(* A new task joins those that hold the gate if it is one of the chain. *)
LEMMA NewTaskWork ==
    ASSUME NetInv, NEW th \in Thread, NEW t \in TaskId, NEW k \in Cgi, NewTask(th, t, k),
           Decoded \subseteq Decoded', net = "OnTaskEnd" /\ todo' = "resync" => todo = "resync"
    PROVE  /\ SyncWork' \subseteq SyncWork \cup {t}
           /\ t \in SyncWork' <=> k \in SyncChain
           /\ t \notin SyncWork
  <1>1. /\ \A x \in Thread : starting'[x] = IF x = th THEN "insert" ELSE starting[x]
        /\ \A x \in Thread : arg'[x] = IF x = th THEN t ELSE arg[x]
        /\ \A u \in TaskId : cgi'[u] = IF u = t THEN k ELSE cgi[u]
    BY DEF NetInv, NetTypeOK, NewTask
  <1>2. /\ UNCHANGED <<queue, lst_cmd_, ending, net, cur>>
        /\ t \notin queue \cup lst_cmd_ /\ cur # t /\ \A x \in Thread : arg[x] # t
    BY DEF NewTask, Fresh, marsVars
  <1>3. \A x \in Thread : starting[x] # "no" => arg[x] \in TaskId
    BY DEF NetInv, StartersOwnTask
  <1>4. queue \subseteq TaskId /\ lst_cmd_ \subseteq TaskId
    BY DEF NetInv, NetTypeOK
  <1>5. t \in SyncWork' <=> k \in SyncChain
    BY <1>1, <1>2, WorkOfNext
  <1>6. t \notin SyncWork
    BY <1>2, WorkOf
  <1>7. ASSUME NEW u \in SyncWork', u # t PROVE u \in SyncWork
    <2>1. CASE \E x \in Thread : starting'[x] # "no" /\ arg'[x] = u /\ cgi'[u] \in SyncChain
      BY <1>1, <1>3, <1>7, <2>1, WorkOf
    <2>2. CASE u \in queue' \cup lst_cmd_' /\ cgi'[u] = "ReportSyncKV"
      BY <1>1, <1>2, <1>4, <1>7, <2>2, WorkOf
    <2>3. CASE u \in queue' \cup (lst_cmd_' \ (ending' \cup Decoded')) /\ cgi'[u] = "NewSync"
      BY <1>1, <1>2, <1>4, <1>7, <2>3, WorkOf
    <2>4. CASE net' = "OnTaskEnd" /\ todo' = "resync" /\ u = cur'
      BY <1>2, <2>4, WorkOf
    <2> QED
      BY <1>7, <2>1, <2>2, <2>3, <2>4, WorkOfNext
  <1> QED
    BY <1>5, <1>6, <1>7

(* NewSync() merges the request or starts the one sync. *)
LEMMA NewSyncWork ==
    ASSUME NetInv, SingleFlight, NEW th \in Thread, NewSync(th),
           Decoded' = Decoded, net = "OnTaskEnd" => todo' = todo
    PROVE  Merges \/ Starts
  <1>1. CASE s_bSyncing
    <2>1. /\ s_bSyncing' = s_bSyncing /\ s_bNeedReSync' = TRUE
          /\ UNCHANGED netVars
      BY <1>1 DEF NewSync
    <2>2. \A u : u \in SyncWork' <=> u \in SyncWork
      BY <1>1, <2>1, WorkOf, WorkOfNext DEF netVars
    <2> QED
      BY <1>1, <2>1, <2>2 DEF Merges
  <1>2. CASE ~s_bSyncing
    <2>1. PICK t \in TaskId : NewTask(th, t, "NewSync")
      BY <1>2 DEF NewSync
    <2>2. SyncWork = {}
      BY <1>2 DEF SingleFlight
    <2>3. SyncWork' = {t}
      BY <2>1, <2>2, NewTaskWork DEF Cgi, SyncChain
    <2> QED
      BY <1>2, <2>3 DEF NewSync, Starts
  <1> QED
    BY <1>1, <1>2

(* A step that leaves the flags alone and neither starts a task of the     *)
(* chain nor ends a report gives the gate to nobody.                       *)
LEMMA OtherWork ==
    ASSUME NetInv, UNCHANGED gateVars, UNCHANGED cgi,
           \A th \in Thread : starting'[th] # "no" => starting[th] # "no" /\ arg'[th] = arg[th],
           \A t \in queue' : t \in queue \/ \E th \in Thread : starting[th] # "no" /\ arg[th] = t,
           \A t \in lst_cmd_' : t \in queue \cup lst_cmd_,
           \A t \in lst_cmd_ \cap lst_cmd_' :
               t \in ending \cup Decoded => t \in ending' \cup Decoded',
           net' = "OnTaskEnd" /\ todo' = "resync" =>
               \/ net = "OnTaskEnd" /\ todo = "resync" /\ cur' = cur
               \/ cur' \in lst_cmd_ /\ cgi[cur'] = "ReportSyncKV"
    PROVE  Shrinks
  <1>1. ASSUME NEW u \in SyncWork' PROVE u \in SyncWork
    <2>1. CASE \E x \in Thread : starting'[x] # "no" /\ arg'[x] = u /\ cgi'[u] \in SyncChain
      BY <2>1, WorkOf
    <2>2. CASE u \in queue' \cup lst_cmd_' /\ cgi'[u] = "ReportSyncKV"
      BY <2>2, WorkOf DEF SyncChain
    <2>3. CASE u \in queue' \cup (lst_cmd_' \ (ending' \cup Decoded')) /\ cgi'[u] = "NewSync"
      BY <2>3, WorkOf DEF SyncChain
    <2>4. CASE net' = "OnTaskEnd" /\ todo' = "resync" /\ u = cur'
      BY <2>4, WorkOf
    <2> QED
      BY <1>1, <2>1, <2>2, <2>3, <2>4, WorkOfNext
  <1> QED
    BY <1>1 DEF Shrinks

(* The steps of the task table that no handler of the SDK takes part in. *)
LEMMA TaskWork ==
    ASSUME NetInv, TaskStep
    PROVE  Shrinks
  <1>1. ASSUME NEW th \in Thread, InsertTask(th) \/ PostTask(th), UNCHANGED appVars PROVE Shrinks
    <2>1. /\ UNCHANGED <<gateVars, cgi, lst_cmd_, ending, net, cur, todo>> /\ Decoded' = Decoded
          /\ \A x \in Thread : starting'[x] # "no" => starting[x] # "no" /\ arg'[x] = arg[x]
          /\ queue' \subseteq queue \cup {arg[th]} /\ starting[th] # "no"
      BY <1>1 DEF NetInv, NetTypeOK, InsertTask, PostTask, appVars, gateVars, marsVars, Decoded
    <2> QED
      BY <2>1, OtherWork
  <1>2. ASSUME NEW t \in TaskId, NetCoreStartTask(t), UNCHANGED appVars PROVE Shrinks
    <2>1. /\ UNCHANGED <<gateVars, cgi, startVars, ending, net, cur, todo>> /\ Decoded' = Decoded
          /\ queue' \subseteq queue /\ lst_cmd_' \subseteq queue \cup lst_cmd_
      BY <1>2 DEF NetCoreStartTask, appVars, gateVars, Decoded
    <2> QED
      BY <2>1, OtherWork DEF startVars
  <1>3. CASE MarsOnly
    <2>1. CASE Connect /\ UNCHANGED appVars
      <3>1. /\ UNCHANGED <<gateVars, cgi, startVars, queue, lst_cmd_, ending, net, cur, todo>>
            /\ Decoded' = Decoded
        BY <2>1 DEF Connect, marsVars, appVars, gateVars, Decoded
      <3> QED
        BY <3>1, OtherWork DEF startVars
    <2> QED
      BY <1>2, <1>3, <2>1 DEF MarsOnly
  <1>4. CASE Fault \/ \E t \in TaskId, packed \in BOOLEAN : SendTask(t, packed)
    <2>1. /\ UNCHANGED <<gateVars, cgi, startVars, queue, lst_cmd_, net, todo>>
          /\ net = "loop" /\ ending = {}
      BY <1>4 DEF Fault, SendTask, LinkError, ShortLinkError, TaskTimeout, RunOnStartTask, NetIdle,
         appVars, gateVars
    <2>2. Decoded = {}
      BY <2>1 DEF Decoded
    <2> QED
      BY <2>1, <2>2, OtherWork DEF startVars
  <1>5. ASSUME NEW t \in TaskId, Answer(t) PROVE Shrinks
    <2>1. /\ UNCHANGED <<gateVars, cgi, startVars, queue, lst_cmd_>>
          /\ net' # "OnTaskEnd" /\ net = "loop" /\ ending = {}
      BY <1>5 DEF Answer, Buf2Resp, NetIdle, marsVars, gateVars
    <2>2. Decoded = {}
      BY <2>1 DEF Decoded
    <2> QED
      BY <2>1, <2>2, OtherWork DEF startVars
  <1>6. ASSUME NEW t \in TaskId, TaskEnd(t) PROVE Shrinks
    <2>1. /\ UNCHANGED <<gateVars, cgi, startVars, queue>> /\ lst_cmd_' = lst_cmd_ \ {t}
          /\ ending' = ending \ {t} /\ cur' = t /\ net = "loop" /\ t \in ending
          /\ todo' = IF cgi[t] = "ReportSyncKV" THEN "resync" ELSE "none"
      BY <1>6 DEF TaskEnd, OnTaskEnd, gateVars
    <2>2. Decoded = {} /\ t \in lst_cmd_
      BY <2>1 DEF Decoded, NetInv, ListsConsistent
    <2> QED
      BY <2>1, <2>2, OtherWork DEF startVars
  <1> QED
    BY <1>1, <1>2, <1>3, <1>4, <1>5, <1>6 DEF TaskStep, StartTask

(* Every step shrinks, merges, starts, passes on or finishes. *)
LEMMA WorkStep ==
    ASSUME NetInv, EndedTaskGone, SingleFlight, [SyncNext]_vars
    PROVE  Shrinks \/ Merges \/ Starts \/ PassesOn \/ Finishes
  <1> USE SyncThreads
  <1>1. ASSUME UNCHANGED <<netVars, gateVars>>,
               Decoded \subseteq Decoded', net = "OnTaskEnd" /\ todo' = "resync" => todo = "resync"
        PROVE  Shrinks
    BY <1>1, OtherWork DEF netVars
  <1>2. ASSUME NEW th \in Thread, NEW t \in TaskId, NEW k \in Cgi \ SyncChain, NewTask(th, t, k),
               UNCHANGED <<gateVars, todo>>
        PROVE  Shrinks
    <2>1. Decoded' = Decoded
      BY <1>2 DEF NewTask, Decoded
    <2> QED
      BY <1>2, <2>1, NewTaskWork DEF Shrinks
  <1>3. CASE UiStep
    <2>1. CASE Login
      BY <1>2, <2>1 DEF Login, gateVars, Cgi, SyncChain
    <2>2. CASE LoadContact
      <3>1. Decoded' = Decoded
        BY <2>2 DEF LoadContact, NewSync, NewTask, Decoded, netVars
      <3> QED
        BY <2>2, <3>1, NewSyncWork DEF LoadContact
    <2>3. CASE ClearDBAndNewInit
      BY <1>2, <2>3 DEF ClearDBAndNewInit, gateVars, Cgi, SyncChain
    <2>4. CASE LoginSucc \/ OpenDB \/ NoSyncKey
      BY <1>1, <2>4 DEF LoginSucc, OpenDB, NoSyncKey, gateVars, Decoded, netVars
    <2> QED
      BY <1>3, <2>1, <2>2, <2>3, <2>4 DEF UiStep
  <1>4. CASE RequestSync
    <2>1. Decoded' = Decoded
      BY <1>4 DEF RequestSync, NewSync, NewTask, Decoded, netVars
    <2> QED
      BY <1>4, <2>1, NewSyncWork DEF RequestSync
  <1>5. CASE ServerMsg
    BY <1>1, <1>5 DEF ServerMsg, gateVars, Decoded, netVars
  <1>6. CASE TaskStep
    BY <1>6, TaskWork
  <1>7. CASE DecodeStep
    <2>1. CASE DecodeNewSync
      <3>1. net = "Buf2Resp" /\ todo = "decode" /\ cgi[cur] = "NewSync" /\ todo' = "ok"
        BY <2>1 DEF DecodeNewSync, Decoding
      <3>2. Decoded = {} /\ net' = "Buf2Resp" /\ cur' = cur
        BY <2>1, <3>1 DEF DecodeNewSync, NewTask, Decoded, netVars
      <3>3. CASE UNCHANGED netVars
        BY <1>1, <2>1, <3>1, <3>2, <3>3 DEF DecodeNewSync, gateVars
      <3>4. CASE \E r \in TaskId : NewTask(Net, r, "ReportSyncKV")
        <4>1. PICK r \in TaskId : NewTask(Net, r, "ReportSyncKV")
          BY <3>4
        <4>2. cur \in SyncWork /\ cur \in TaskId
          BY <3>1, <3>2, CurIsTask, WorkOf
        <4>3. SyncWork' \subseteq {cur, r} /\ r \in SyncWork' /\ cur # r
          BY <3>1, <3>2, <4>1, <4>2, NewTaskWork DEF SingleFlight, Cgi, SyncChain
        <4>4. cur \notin SyncWork'
          <5>1. cgi'[cur] = "NewSync" /\ cur \in Decoded' /\ cur \notin queue'
            BY <3>1, <3>2, <4>1, <4>2, <4>3, CurIsTask
               DEF NetInv, NetTypeOK, NewTask, Decoded
          <5>2. \A x \in Thread : starting'[x] # "no" => arg'[x] # cur
            BY <3>1, <4>1, <4>3, CurIsTask DEF NetInv, NetTypeOK, NewTask
          <5> QED
            BY <3>2, <5>1, <5>2, WorkOfNext
        <4> QED
          BY <2>1, <4>2, <4>3, <4>4 DEF DecodeNewSync, PassesOn, gateVars
      <3> QED
        BY <2>1, <3>3, <3>4 DEF DecodeNewSync
    <2>2. CASE DecodeManualAuth \/ DecodeNewInit \/ DecodeError
      <3>1. UNCHANGED <<netVars, gateVars>> /\ net = "Buf2Resp" /\ todo = "decode"
        BY <2>2 DEF DecodeManualAuth, DecodeNewInit, DecodeError, Decoding, gateVars
      <3>2. Decoded = {}
        BY <3>1 DEF Decoded
      <3> QED
        BY <1>1, <3>1, <3>2
    <2> QED
      BY <1>7, <2>1, <2>2 DEF DecodeStep
  <1>8. CASE CallBackStep
    <2>1. CASE CallBack \/ HandleCallBackError
      <3>1. /\ UNCHANGED <<gateVars, cgi, startVars, queue, lst_cmd_, ending, cur>>
            /\ net' \in {"DoCallBack", "ForceQuit"}
        BY <2>1 DEF CallBack, HandleCallBackError, DoCallBack, ForceQuit, marsVars, appVars, gateVars
      <3>2. Decoded \subseteq Decoded'
        BY <3>1 DEF Decoded
      <3> QED
        BY <3>1, <3>2, OtherWork DEF startVars
    <2>2. CASE NewInitCallBack
      <3>1. Decoded' = Decoded /\ net = "DoCallBack"
        BY <2>2 DEF NewInitCallBack, NewSync, NewTask, Decoded, netVars
      <3> QED
        BY <2>2, <3>1, NewSyncWork DEF NewInitCallBack
    <2>3. CASE LoginCallBack \/ OtherCallBack
      <3>1. UNCHANGED <<netVars, gateVars>> /\ net = "DoCallBack" /\ todo' = "none"
        BY <2>3 DEF LoginCallBack, OtherCallBack, gateVars
      <3>2. Decoded' = Decoded
        BY <3>1 DEF Decoded, netVars
      <3> QED
        BY <1>1, <3>1, <3>2
    <2>4. CASE CallBackDone
      <3>1. /\ UNCHANGED <<gateVars, cgi, startVars, queue, lst_cmd_>>
            /\ net = "DoCallBack" /\ net' = "loop" /\ ending' = {cur}
        BY <2>4 DEF CallBackDone, CallBackReturn, marsVars, appVars, gateVars
      <3>2. ending = {} /\ Decoded \subseteq {cur}
        BY <3>1, CurIsTask DEF Decoded
      <3> QED
        BY <3>1, <3>2, OtherWork DEF startVars
    <2> QED
      BY <1>8, <2>1, <2>2, <2>3, <2>4 DEF CallBackStep
  <1>9. CASE IsNeedReSync
    <2>1. net = "OnTaskEnd" /\ todo = "resync" /\ todo' = "none" /\ s_bNeedReSync' = FALSE
      BY <1>9 DEF IsNeedReSync
    <2>2. SyncWork = {cur}
      BY <2>1, WorkOf DEF SingleFlight
    <2>3. Decoded = {}
      BY <2>1 DEF Decoded
    <2>4. CASE ~s_bNeedReSync
      <3>1. UNCHANGED netVars /\ s_bSyncing' = FALSE
        BY <1>9, <2>4 DEF IsNeedReSync
      <3>2. SyncWork' \subseteq SyncWork
        <4>1. Decoded' = {}
          BY <2>1, <3>1 DEF Decoded, netVars
        <4> QED
          BY <2>1, <2>3, <3>1, <4>1, WorkOf, WorkOfNext DEF netVars
      <3>3. cur \notin SyncWork'
        BY <2>1, <3>1, WorkOfNext DEF EndedTaskGone, netVars
      <3> QED
        BY <2>1, <2>2, <2>4, <3>1, <3>2, <3>3 DEF Finishes
    <2>5. CASE s_bNeedReSync
      <3>1. s_bSyncing' = TRUE /\ \E t \in TaskId : NewTask(Net, t, "NewSync")
        BY <1>9, <2>5 DEF IsNeedReSync
      <3>2. PICK t \in TaskId : NewTask(Net, t, "NewSync")
        BY <3>1
      <3>3. SyncWork' \subseteq {cur, t} /\ t \in SyncWork'
        BY <2>1, <2>2, <2>3, <3>2, NewTaskWork DEF Cgi, SyncChain
      <3>4. cur \notin SyncWork'
        <4>1. cur # t /\ UNCHANGED <<queue, lst_cmd_>>
          BY <3>2 DEF NewTask, Fresh, marsVars
        <4>2. \A x \in Thread : starting'[x] # "no" => arg'[x] # cur
          BY <2>1, <3>2, <4>1 DEF EndedTaskGone, NetInv, NetTypeOK, NewTask
        <4> QED
          BY <2>1, <4>1, <4>2, WorkOfNext DEF EndedTaskGone
      <3> QED
        BY <2>1, <2>2, <2>5, <3>1, <3>3, <3>4 DEF Finishes
    <2> QED
      BY <2>4, <2>5
  <1>10. CASE PushSync
    <2>1. Decoded' = Decoded /\ net = "OnPush"
      BY <1>10 DEF PushSync, NewSync, NewTask, Decoded, netVars
    <2> QED
      BY <1>10, <2>1, NewSyncWork DEF PushSync
  <1>11. CASE Push \/ HandlerDone \/ Stop
    <2>1. /\ UNCHANGED <<gateVars, cgi, startVars, lst_cmd_>> /\ queue' \subseteq queue
          /\ net' # "OnTaskEnd" /\ net \in {"loop", "OnTaskEnd", "OnPush"}
          /\ ending \subseteq ending'
      <3>1. CASE Push
        BY <3>1 DEF Push, OnPush, NetIdle, marsVars, gateVars
      <3>2. CASE HandlerDone
        BY <3>2 DEF HandlerDone, HandlerReturn, marsVars, appVars, gateVars
      <3>3. CASE Stop
        BY <3>3 DEF Stop, StopSDK, NetIdle, marsVars, appVars, gateVars
      <3> QED
        BY <1>11, <3>1, <3>2, <3>3
    <2>2. Decoded = {}
      BY <2>1 DEF Decoded
    <2> QED
      BY <2>1, <2>2, OtherWork DEF startVars
  <1>12. CASE UNCHANGED vars
    BY <1>1, <1>12 DEF vars, appVars, gateVars, Decoded, netVars
  <1> QED
    BY <1>3, <1>4, <1>5, <1>6, <1>7, <1>8, <1>9, <1>10, <1>11, <1>12 DEF SyncNext

(* What a class of steps makes of the gate. *)
LEMMA GateStep ==
    ASSUME AppTypes, SingleFlight, NeedReSyncOnlyWhileSyncing,
           Shrinks \/ Merges \/ Starts \/ PassesOn \/ Finishes
    PROVE  /\ SingleFlight'
           /\ NeedReSyncOnlyWhileSyncing'
           /\ [AbstractGate!Next]_Gate
  <1> USE DEF SingleFlight, NeedReSyncOnlyWhileSyncing, AppTypes
  <1>1. CASE Shrinks
    <2>1. SingleFlight' /\ NeedReSyncOnlyWhileSyncing'
      BY <1>1 DEF Shrinks, gateVars
    <2>2. CASE SyncWork = {}
      <3>1. SyncWork' = {} /\ UNCHANGED gateVars
        BY <1>1, <2>2 DEF Shrinks
      <3>2. Gate' = Gate
        BY <2>2, <3>1 DEF Gate, gateVars
      <3> QED
        BY <2>1, <3>2
    <2>3. CASE SyncWork # {}
      <3>1. s_bSyncing /\ UNCHANGED gateVars
        BY <1>1, <2>3 DEF Shrinks
      <3>2. Gate \in {"busy", "again"} /\ (Gate' = "lost" \/ Gate' = Gate)
        BY <2>3, <3>1 DEF Gate, gateVars
      <3> QED
        BY <2>1, <3>2 DEF AbstractGate!Next, AbstractGate!Lose
    <2> QED
      BY <2>2, <2>3
  <1>2. CASE Merges
    <2>1. SingleFlight' /\ NeedReSyncOnlyWhileSyncing'
      BY <1>2 DEF Merges
    <2>2. CASE SyncWork = {}
      BY <1>2, <2>1, <2>2 DEF Merges, Gate
    <2>3. CASE SyncWork # {}
      <3>1. Gate \in {"busy", "again"} /\ Gate' = "again"
        BY <1>2, <2>3 DEF Merges, Gate
      <3> QED
        BY <2>1, <3>1 DEF AbstractGate!Next, AbstractGate!Request
    <2> QED
      BY <2>2, <2>3
  <1>3. CASE Starts
    <2>1. SingleFlight' /\ NeedReSyncOnlyWhileSyncing'
      BY <1>3 DEF Starts
    <2>2. Gate = "open" /\ Gate' = "busy"
      BY <1>3 DEF Starts, Gate
    <2> QED
      BY <2>1, <2>2 DEF AbstractGate!Next, AbstractGate!Request
  <1>4. CASE PassesOn
    <2>1. SingleFlight' /\ NeedReSyncOnlyWhileSyncing'
      BY <1>4 DEF PassesOn, gateVars
    <2>2. Gate' = Gate
      BY <1>4 DEF PassesOn, Gate, gateVars
    <2> QED
      BY <2>1, <2>2
  <1>5. CASE Finishes
    <2>1. SingleFlight' /\ NeedReSyncOnlyWhileSyncing'
      BY <1>5 DEF Finishes
    <2>2. \/ Gate = "busy" /\ Gate' = "open"
          \/ Gate = "again" /\ Gate' = "busy"
      BY <1>5 DEF Finishes, Gate
    <2> QED
      BY <2>1, <2>2 DEF AbstractGate!Next, AbstractGate!Finish
  <1> QED
    BY <1>1, <1>2, <1>3, <1>4, <1>5

(***************************************************************************)
(* Logins.                                                                 *)
(***************************************************************************)

(* Tasks go from startTask to the queue and from there to the lists, and   *)
(* one that is about to end leaves the list by ending.                     *)
ListsMove ==
    /\ UNCHANGED cgi
    /\ \A th \in Thread : starting'[th] # "no" => starting[th] # "no" /\ arg'[th] = arg[th]
    /\ \A t \in queue' : t \in queue \/ \E th \in Thread : starting[th] # "no" /\ arg[th] = t
    /\ lst_cmd_' \subseteq queue \cup lst_cmd_
    /\ ending \cap lst_cmd_' \subseteq ending'

(* Every step of the table but the creation of a task moves tasks that way. *)
LEMMA ListsMoveStep ==
    ASSUME NetInv,
           \/ \E th \in Thread : InsertTask(th) \/ PostTask(th)
           \/ MarsStep
           \/ HandlerStep
           \/ UNCHANGED netVars
    PROVE  ListsMove
  <1>1. ASSUME NEW th \in Thread, InsertTask(th) PROVE ListsMove
    BY <1>1 DEF InsertTask, ListsMove, NetInv, NetTypeOK, marsVars
  <1>2. ASSUME NEW th \in Thread, PostTask(th) PROVE ListsMove
    <2>1. /\ UNCHANGED <<cgi, lst_cmd_, ending>> /\ starting[th] # "no"
          /\ queue' \subseteq queue \cup {arg[th]}
      BY <1>2 DEF PostTask, marsVars
    <2>2. \A x \in Thread : starting'[x] # "no" => starting[x] # "no" /\ arg'[x] = arg[x]
      BY <1>2 DEF PostTask, NetInv, NetTypeOK
    <2> QED
      BY <2>1, <2>2 DEF ListsMove
  <1>3. CASE MarsStep
    BY <1>3 DEF MarsStep, NetCoreStartTask, RunOnStartTask, ShortLinkError, TaskTimeout,
       LinkError, Connect, NetIdle, ListsMove, startVars, marsVars
  <1>4. CASE HandlerStep
    BY <1>4 DEF HandlerStep, Buf2Resp, DoCallBack, CallBackReturn, ForceQuit, OnTaskEnd, OnPush,
       HandlerReturn, StopSDK, NetIdle, ListsMove, NetInv, ListsConsistent, startVars, marsVars
  <1>5. CASE UNCHANGED netVars
    BY <1>5 DEF netVars, ListsMove
  <1> QED
    BY <1>1, <1>2, <1>3, <1>4, <1>5

(* Fewer open logins and no new success keep the count. *)
LEMMA CountKept ==
    ASSUME AppTypes, LoginsCounted, succ' \in Nat,
           OpenLogins' \subseteq OpenLogins, succ' <= succ, logins' = logins
    PROVE  LoginsCounted'
  <1>1. IsFiniteSet(OpenLogins') /\ Cardinality(OpenLogins') <= Cardinality(OpenLogins)
    BY FS_Subset DEF LoginsCounted
  <1>2. Cardinality(OpenLogins) \in Nat /\ Cardinality(OpenLogins') \in Nat
    BY <1>1, FS_CardinalityType DEF LoginsCounted
  <1>3. succ \in Nat /\ logins \in Int /\ succ + Cardinality(OpenLogins) <= logins
    BY DEF AppTypes, LoginsCounted
  <1>4. succ' + Cardinality(OpenLogins') <= logins'
    BY <1>1, <1>2, <1>3
  <1> QED
    BY <1>1, <1>4 DEF LoginsCounted

(* A task that moves on does not become an open login again. *)
LEMMA MovedLogins ==
    ASSUME NetInv, ListsMove, CalledBack \subseteq ending' \cup CalledBack'
    PROVE  OpenLogins' \subseteq OpenLogins
  BY DEF ListsMove, OpenLogins

(* A new task of another kind is no login. *)
LEMMA NewTaskLogins ==
    ASSUME NetInv, NEW th \in Thread, NEW t \in TaskId, NEW k \in Cgi, NewTask(th, t, k),
           CalledBack' = CalledBack
    PROVE  /\ OpenLogins' \subseteq OpenLogins \cup {t}
           /\ k # "ManualAuth" => t \notin OpenLogins'
           /\ t \notin OpenLogins
  <1>1. /\ \A x \in Thread : starting'[x] = IF x = th THEN "insert" ELSE starting[x]
        /\ \A x \in Thread : arg'[x] = IF x = th THEN t ELSE arg[x]
        /\ \A u \in TaskId : cgi'[u] = IF u = t THEN k ELSE cgi[u]
    BY DEF NetInv, NetTypeOK, NewTask
  <1>2. /\ UNCHANGED <<queue, lst_cmd_, ending>>
        /\ t \notin queue \cup lst_cmd_ /\ \A x \in Thread : arg[x] # t
    BY DEF NewTask, Fresh, marsVars
  <1>3. OpenLogins' \subseteq OpenLogins \cup {t}
    BY <1>1, <1>2 DEF OpenLogins
  <1> QED
    BY <1>1, <1>2, <1>3 DEF OpenLogins

(* A click adds one open login, a success takes one away, and no other     *)
(* step touches the count.                                                 *)
LEMMA LoginsStep ==
    ASSUME NetInv, AppTypes, LoginsCounted, [SyncNext]_vars
    PROVE  LoginsCounted'
  <1> USE SyncThreads
  <1>0. succ' \in Nat /\ succ \in Nat /\ logins \in Int
    BY AppTypeStep DEF AppTypes
  <1>1. ASSUME ListsMove, CalledBack \subseteq ending' \cup CalledBack',
               succ' <= succ, logins' = logins
        PROVE  LoginsCounted'
    BY <1>0, <1>1, MovedLogins, CountKept
  <1>2. ASSUME NEW th \in Thread, NEW t \in TaskId, NEW k \in Cgi \ {"ManualAuth"},
               NewTask(th, t, k), CalledBack' = CalledBack, UNCHANGED <<succ, logins>>
        PROVE  LoginsCounted'
    <2>1. OpenLogins' \subseteq OpenLogins
      BY <1>2, NewTaskLogins
    <2> QED
      BY <1>0, <1>2, <2>1, CountKept
  <1>3. ASSUME UNCHANGED <<netVars, logins>>, succ' <= succ, CalledBack \subseteq CalledBack'
        PROVE  LoginsCounted'
    BY <1>1, <1>3, ListsMoveStep
  <1>4. ASSUME NEW th \in Thread, NewSync(th), CalledBack \subseteq CalledBack',
               ~s_bSyncing => CalledBack' = CalledBack, UNCHANGED <<succ, logins>>
        PROVE  LoginsCounted'
    <2>1. CASE s_bSyncing
      BY <1>0, <1>3, <1>4, <2>1 DEF NewSync
    <2>2. CASE ~s_bSyncing
      BY <1>2, <1>4, <2>2 DEF NewSync, Cgi
    <2> QED
      BY <2>1, <2>2
  <1>5. CASE UiStep
    <2>1. CASE Login
      <3>1. PICK t \in TaskId : NewTask(UI, t, "ManualAuth")
        BY <2>1 DEF Login
      <3>2. CalledBack' = CalledBack /\ succ' = succ /\ logins' = logins + 1
        BY <2>1, <3>1 DEF Login, NewTask, CalledBack
      <3>3. OpenLogins' \subseteq OpenLogins \cup {t} /\ t \notin OpenLogins
        BY <3>1, <3>2, NewTaskLogins DEF Cgi
      <3>4. /\ IsFiniteSet(OpenLogins \cup {t})
            /\ Cardinality(OpenLogins \cup {t}) = Cardinality(OpenLogins) + 1
            /\ Cardinality(OpenLogins) \in Nat
        BY <3>3, FS_AddElement, FS_CardinalityType DEF LoginsCounted
      <3>5. /\ IsFiniteSet(OpenLogins') /\ Cardinality(OpenLogins') \in Nat
            /\ Cardinality(OpenLogins') <= Cardinality(OpenLogins) + 1
        BY <3>3, <3>4, FS_Subset, FS_CardinalityType
      <3>6. succ + Cardinality(OpenLogins) <= logins
        BY DEF LoginsCounted
      <3>7. succ' + Cardinality(OpenLogins') <= logins'
        BY <1>0, <3>2, <3>4, <3>5, <3>6
      <3> QED
        BY <3>5, <3>7 DEF LoginsCounted
    <2>2. CASE LoadContact
      <3>1. CalledBack' = CalledBack
        BY <2>2 DEF LoadContact, NewSync, NewTask, CalledBack, netVars
      <3> QED
        BY <1>4, <2>2, <3>1 DEF LoadContact
    <2>3. CASE ClearDBAndNewInit
      <3>1. PICK t \in TaskId : NewTask(UI, t, "NewInit")
        BY <2>3 DEF ClearDBAndNewInit
      <3>2. CalledBack' = CalledBack
        BY <2>3, <3>1 DEF ClearDBAndNewInit, NewTask, CalledBack
      <3> QED
        BY <1>2, <2>3, <3>1, <3>2 DEF ClearDBAndNewInit, Cgi
    <2>4. CASE LoginSucc \/ OpenDB \/ NoSyncKey
      <3>1. UNCHANGED <<netVars, logins, todo>> /\ succ' <= succ
        BY <1>0, <2>4 DEF LoginSucc, OpenDB, NoSyncKey
      <3>2. CalledBack' = CalledBack
        BY <3>1 DEF CalledBack, netVars
      <3> QED
        BY <1>3, <3>1, <3>2
    <2> QED
      BY <1>5, <2>1, <2>2, <2>3, <2>4 DEF UiStep
  <1>6. CASE RequestSync
    <2>1. CalledBack' = CalledBack
      BY <1>6 DEF RequestSync, NewSync, NewTask, CalledBack, netVars
    <2> QED
      BY <1>4, <1>6, <2>1 DEF RequestSync, uiVars
  <1>7. CASE ServerMsg
    BY <1>0, <1>3, <1>7 DEF ServerMsg, CalledBack, netVars, uiVars
  <1>8. CASE TaskStep
    <2>1. CASE StartTask
      <3>1. CalledBack' = CalledBack /\ UNCHANGED <<succ, logins>>
        BY <2>1 DEF StartTask, InsertTask, PostTask, CalledBack, appVars
      <3> QED
        BY <1>0, <1>1, <2>1, <3>1, ListsMoveStep DEF StartTask
    <2>2. CASE MarsOnly \/ Fault \/ \E t \in TaskId, packed \in BOOLEAN : SendTask(t, packed)
      <3>1. MarsStep /\ UNCHANGED <<succ, logins, todo>>
        BY <2>2 DEF MarsOnly, Fault, SendTask, MarsStep, appVars, uiVars
      <3>2. CalledBack \subseteq CalledBack'
        BY <3>1 DEF MarsStep, NetCoreStartTask, RunOnStartTask, ShortLinkError, TaskTimeout,
           LinkError, Connect, NetIdle, CalledBack
      <3> QED
        BY <1>0, <1>1, <3>1, <3>2, ListsMoveStep
    <2>3. CASE \E t \in TaskId : Answer(t) \/ TaskEnd(t)
      <3>1. HandlerStep /\ UNCHANGED <<succ, logins>> /\ net = "loop"
        BY <2>3 DEF Answer, TaskEnd, HandlerStep, Buf2Resp, OnTaskEnd, NetIdle, uiVars
      <3>2. CalledBack = {}
        BY <3>1 DEF CalledBack
      <3> QED
        BY <1>0, <1>1, <3>1, <3>2, ListsMoveStep
    <2> QED
      BY <1>8, <2>1, <2>2, <2>3 DEF TaskStep
  <1>9. CASE DecodeStep
    <2>1. net = "Buf2Resp" /\ UNCHANGED <<succ, logins>>
      BY <1>9 DEF DecodeStep, DecodeManualAuth, DecodeNewInit, DecodeNewSync, DecodeError,
         Decoding, uiVars
    <2>2. CASE UNCHANGED netVars
      <3>1. CalledBack = {}
        BY <2>1 DEF CalledBack
      <3> QED
        BY <1>0, <1>3, <2>1, <2>2, <3>1
    <2>3. CASE \E r \in TaskId : NewTask(Net, r, "ReportSyncKV")
      <3>1. CalledBack' = CalledBack
        BY <2>1, <2>3 DEF CalledBack, NewTask
      <3> QED
        BY <1>2, <2>1, <2>3, <3>1 DEF Cgi
    <2> QED
      BY <1>9, <2>2, <2>3 DEF DecodeStep, DecodeManualAuth, DecodeNewInit, DecodeNewSync,
         DecodeError
  <1>10. CASE CallBackStep
    <2>1. CASE CallBack \/ HandleCallBackError
      <3>1. HandlerStep /\ UNCHANGED <<succ, logins>> /\ todo # "none"
        BY <2>1 DEF CallBack, HandleCallBackError, HandlerStep, appVars, uiVars
      <3>2. CalledBack = {}
        BY <3>1 DEF CalledBack
      <3> QED
        BY <1>0, <1>1, <3>1, <3>2, ListsMoveStep
    <2>2. CASE LoginCallBack
      <3>1. /\ net = "DoCallBack" /\ todo = "ok" /\ todo' = "none" /\ cgi[cur] = "ManualAuth"
            /\ succ' = succ + 1 /\ UNCHANGED <<netVars, logins>>
        BY <2>2 DEF LoginCallBack
      <3>2. CalledBack = {} /\ CalledBack' = {cur}
        BY <3>1 DEF CalledBack, netVars
      <3>3. cur \in OpenLogins
        BY <3>1, <3>2, CurIsTask DEF OpenLogins
      <3>4. OpenLogins' \subseteq OpenLogins \ {cur}
        BY <3>1, <3>2, CurIsTask DEF OpenLogins, netVars
      <3>5. /\ IsFiniteSet(OpenLogins \ {cur})
            /\ Cardinality(OpenLogins \ {cur}) = Cardinality(OpenLogins) - 1
            /\ Cardinality(OpenLogins) \in Nat
        BY <3>3, FS_RemoveElement, FS_CardinalityType DEF LoginsCounted
      <3>6. /\ IsFiniteSet(OpenLogins') /\ Cardinality(OpenLogins') \in Nat
            /\ Cardinality(OpenLogins') <= Cardinality(OpenLogins) - 1
        BY <3>4, <3>5, FS_Subset, FS_CardinalityType
      <3>7. succ + Cardinality(OpenLogins) <= logins
        BY DEF LoginsCounted
      <3>8. succ' + Cardinality(OpenLogins') <= logins'
        BY <1>0, <3>1, <3>5, <3>6, <3>7
      <3> QED
        BY <3>6, <3>8 DEF LoginsCounted
    <2>3. CASE NewInitCallBack
      <3>1. CalledBack = {} /\ UNCHANGED <<succ, logins>> /\ net = "DoCallBack"
        BY <2>3 DEF NewInitCallBack, CalledBack, uiVars
      <3>2. CASE s_bSyncing
        BY <1>0, <1>3, <2>3, <3>1, <3>2 DEF NewInitCallBack, NewSync
      <3>3. CASE ~s_bSyncing
        <4>1. PICK t \in TaskId : NewTask(Net, t, "NewSync")
          BY <2>3, <3>3 DEF NewInitCallBack, NewSync
        <4>2. \A u \in OpenLogins' : u \in OpenLogins
          <5>1. /\ \A x \in Thread : starting'[x] = IF x = Net THEN "insert" ELSE starting[x]
                /\ \A x \in Thread : arg'[x] = IF x = Net THEN t ELSE arg[x]
                /\ \A u \in TaskId : cgi'[u] = IF u = t THEN "NewSync" ELSE cgi[u]
            BY <4>1 DEF NetInv, NetTypeOK, NewTask
          <5>2. UNCHANGED <<queue, lst_cmd_, ending>>
            BY <4>1 DEF NewTask, marsVars
          <5> QED
            BY <3>1, <5>1, <5>2 DEF OpenLogins
        <4> QED
          BY <1>0, <3>1, <4>2, CountKept
      <3> QED
        BY <3>2, <3>3
    <2>4. CASE OtherCallBack
      <3>1. CalledBack = {}
        BY <2>4 DEF OtherCallBack, CalledBack
      <3> QED
        BY <1>0, <1>3, <2>4, <3>1 DEF OtherCallBack, uiVars
    <2>5. CASE CallBackDone
      <3>1. HandlerStep /\ UNCHANGED <<succ, logins>> /\ ending' = {cur}
        BY <2>5 DEF CallBackDone, CallBackReturn, HandlerStep, appVars
      <3>2. CalledBack \subseteq ending'
        BY <3>1 DEF CalledBack
      <3> QED
        BY <1>0, <1>1, <3>1, <3>2, ListsMoveStep
    <2> QED
      BY <1>10, <2>1, <2>2, <2>3, <2>4, <2>5 DEF CallBackStep
  <1>11. CASE IsNeedReSync
    <2>1. CalledBack = {} /\ UNCHANGED <<succ, logins>> /\ net = "OnTaskEnd"
      BY <1>11 DEF IsNeedReSync, CalledBack, uiVars
    <2>2. CASE ~s_bNeedReSync
      BY <1>0, <1>3, <1>11, <2>1, <2>2 DEF IsNeedReSync
    <2>3. CASE s_bNeedReSync
      <3>1. PICK t \in TaskId : NewTask(Net, t, "NewSync")
        BY <1>11, <2>3 DEF IsNeedReSync
      <3>2. CalledBack' = CalledBack
        BY <2>1, <3>1 DEF NewTask, CalledBack
      <3> QED
        BY <1>2, <2>1, <3>1, <3>2 DEF Cgi
    <2> QED
      BY <2>2, <2>3
  <1>12. CASE PushSync
    <2>1. CalledBack' = CalledBack
      BY <1>12 DEF PushSync, NewSync, NewTask, CalledBack, netVars
    <2> QED
      BY <1>4, <1>12, <2>1 DEF PushSync, uiVars
  <1>13. CASE Push \/ HandlerDone \/ Stop
    <2>1. HandlerStep /\ UNCHANGED <<succ, logins>> /\ net # "DoCallBack"
      BY <1>13 DEF Push, HandlerDone, Stop, HandlerStep, OnPush, HandlerReturn, StopSDK, NetIdle,
         appVars, uiVars
    <2>2. CalledBack = {}
      BY <2>1 DEF CalledBack
    <2> QED
      BY <1>0, <1>1, <2>1, <2>2, ListsMoveStep
  <1>14. CASE UNCHANGED vars
    BY <1>0, <1>3, <1>14 DEF vars, appVars, CalledBack, netVars
  <1> QED
    BY <1>5, <1>6, <1>7, <1>8, <1>9, <1>10, <1>11, <1>12, <1>13, <1>14 DEF SyncNext

(***************************************************************************)
(* The report.                                                             *)
(***************************************************************************)

(* A task in somebody's hands, posted or listed stays so until OnTaskEnd,  *)
(* unless StopSDK cancels it.                                              *)
InHands(t) ==
    \/ \E th \in Thread : starting[th] # "no" /\ arg[th] = t
    \/ t \in queue \cup lst_cmd_

(* No step of the table drops such a task, and none changes what it is. *)
LEMMA TaskNotDropped ==
    ASSUME NetInv, NEW t \in TaskId, InHands(t), [NetNext]_netVars, ~stopped'
    PROVE  cgi'[t] = cgi[t] /\ (InHands(t)' \/ OnTaskEnd(t))
  <1>1. ASSUME NEW th \in Thread, NEW u \in TaskId, NEW k \in Cgi, NewTask(th, u, k)
        PROVE  cgi'[t] = cgi[t] /\ InHands(t)'
    <2>1. u # t
      BY <1>1 DEF NewTask, Fresh, InHands
    <2>2. \A x \in Thread : starting[x] # "no" => starting'[x] # "no" /\ arg'[x] = arg[x]
      BY <1>1 DEF NewTask, MayCall, NetInv, NetTypeOK
    <2>3. cgi'[t] = cgi[t] /\ UNCHANGED <<queue, lst_cmd_>>
      BY <1>1, <2>1 DEF NewTask, NetInv, NetTypeOK, marsVars
    <2> QED
      BY <2>2, <2>3 DEF InHands
  <1>2. ASSUME NEW th \in Thread, InsertTask(th)
        PROVE  cgi'[t] = cgi[t] /\ InHands(t)'
    <2>1. \A x \in Thread : starting[x] # "no" => starting'[x] # "no" /\ arg'[x] = arg[x]
      BY <1>2 DEF InsertTask, NetInv, NetTypeOK
    <2> QED
      BY <1>2, <2>1 DEF InHands, InsertTask, marsVars
  <1>3. ASSUME NEW th \in Thread, PostTask(th)
        PROVE  cgi'[t] = cgi[t] /\ InHands(t)'
    <2>1. \A x \in Thread \ {th} : starting[x] # "no" => starting'[x] # "no" /\ arg'[x] = arg[x]
      BY <1>3 DEF PostTask, NetInv, NetTypeOK
    <2>2. queue' = queue \cup {arg[th]} /\ UNCHANGED <<cgi, lst_cmd_>>
      BY <1>3 DEF PostTask, marsVars
    <2> QED
      BY <2>1, <2>2 DEF InHands
  <1>4. CASE MarsStep
    BY <1>4 DEF MarsStep, NetCoreStartTask, RunOnStartTask, ShortLinkError, TaskTimeout, LinkError,
       Connect, InHands, startVars, marsVars
  <1>5. CASE HandlerStep
    BY <1>5 DEF HandlerStep, Buf2Resp, DoCallBack, CallBackReturn, ForceQuit, OnTaskEnd, OnPush,
       HandlerReturn, StopSDK, InHands, startVars, marsVars
  <1>6. CASE UNCHANGED netVars
    BY <1>6 DEF netVars, InHands
  <1> QED
    BY <1>1, <1>2, <1>3, <1>4, <1>5, <1>6 DEF NetNext, CallStep

(* Net enters OnTaskEnd by TaskEnd only, and what IsNeedReSync is to       *)
(* decide waits for it.                                                    *)
LEMMA OnlyTaskEnd ==
    ASSUME SyncNext, NEW t \in TaskId, OnTaskEnd(t)
    PROVE  TaskEnd(t)
  <1> USE SyncThreads
  <1>1. net = "loop" /\ net' = "OnTaskEnd" /\ cur' = t
    BY DEF OnTaskEnd
  <1>2. ~(UNCHANGED net)
    BY <1>1
  <1>3. ~UiStep /\ ~RequestSync /\ ~ServerMsg
    BY <1>2 DEF UiStep, Login, LoginSucc, OpenDB, LoadContact, NoSyncKey, ClearDBAndNewInit,
       RequestSync, ServerMsg, NewSync, NewTask, netVars
  <1>4. ~DecodeStep /\ ~CallBackStep /\ ~IsNeedReSync /\ ~PushSync
    BY <1>1 DEF DecodeStep, DecodeManualAuth, DecodeNewInit, DecodeNewSync, DecodeError, Decoding,
       CallBackStep, CallBack, DoCallBack, LoginCallBack, NewInitCallBack, OtherCallBack,
       HandleCallBackError, ForceQuit, CallBackDone, CallBackReturn, IsNeedReSync, PushSync
  <1>5. ~Push /\ ~HandlerDone /\ ~Stop
    BY <1>1 DEF Push, OnPush, HandlerDone, HandlerReturn, Stop, StopSDK
  <1>6. ~StartTask /\ ~MarsOnly /\ ~Fault
    BY <1>2 DEF StartTask, InsertTask, PostTask, MarsOnly, NetCoreStartTask, Connect, Fault,
       ShortLinkError, TaskTimeout, LinkError
  <1>7. ~(\E u \in TaskId, packed \in BOOLEAN : SendTask(u, packed)) /\ ~(\E u \in TaskId : Answer(u))
    BY <1>1 DEF SendTask, RunOnStartTask, Answer, Buf2Resp
  <1>8. PICK u \in TaskId : TaskEnd(u)
    BY <1>3, <1>4, <1>5, <1>6, <1>7 DEF SyncNext, TaskStep
  <1> QED
    BY <1>1, <1>8 DEF TaskEnd, OnTaskEnd

(* While IsNeedReSync has still to decide, Net does nothing else. *)
LEMMA ReSyncWaits ==
    ASSUME [SyncNext]_vars, net = "OnTaskEnd", todo = "resync", ~IsNeedReSync
    PROVE  UNCHANGED <<net, cur, todo>>
  <1>1. CASE UiStep \/ RequestSync \/ ServerMsg
    BY <1>1 DEF UiStep, Login, LoginSucc, OpenDB, LoadContact, NoSyncKey, ClearDBAndNewInit,
       RequestSync, ServerMsg, NewSync, NewTask, netVars
  <1>2. ~DecodeStep /\ ~CallBackStep /\ ~PushSync
    BY DEF DecodeStep, DecodeManualAuth, DecodeNewInit, DecodeNewSync, DecodeError, Decoding,
       CallBackStep, CallBack, LoginCallBack, NewInitCallBack, OtherCallBack,
       HandleCallBackError, CallBackDone, PushSync
  <1>3. ~Push /\ ~HandlerDone /\ ~Stop
    BY DEF Push, OnPush, HandlerDone, Stop, StopSDK, NetIdle
  <1>4. CASE TaskStep
    <2>1. CASE StartTask \/ MarsOnly
      BY <2>1 DEF StartTask, InsertTask, PostTask, MarsOnly, NetCoreStartTask, Connect, NetIdle,
         appVars
    <2>2. ~Fault /\ ~(\E u \in TaskId, packed \in BOOLEAN : SendTask(u, packed))
      BY DEF Fault, ShortLinkError, TaskTimeout, LinkError, SendTask, RunOnStartTask, NetIdle
    <2>3. ~(\E u \in TaskId : Answer(u)) /\ ~(\E u \in TaskId : TaskEnd(u))
      BY DEF Answer, Buf2Resp, TaskEnd, OnTaskEnd, NetIdle
    <2> QED
      BY <1>4, <2>1, <2>2, <2>3 DEF TaskStep
  <1>5. CASE UNCHANGED vars
    BY <1>5 DEF vars, netVars, appVars
  <1> QED
    BY <1>1, <1>2, <1>3, <1>4, <1>5 DEF SyncNext

(* A report keeps the gate in somebody's hands until IsNeedReSync opens it *)
(* or starts the next sync.                                                *)
LEMMA ReportStep ==
    ASSUME NetInv, [SyncNext]_vars, NEW t \in SyncWork, cgi[t] = "ReportSyncKV", ~stopped'
    PROVE  Gate' # "lost"
  <1> USE SyncThreads
  <1>1. CASE IsNeedReSync
    <2>1. CASE s_bNeedReSync
      <3>1. PICK u \in TaskId : NewTask(Net, u, "NewSync")
        BY <1>1, <2>1 DEF IsNeedReSync
      <3>2. starting'[Net] = "insert" /\ arg'[Net] = u /\ cgi'[u] = "NewSync"
        BY <3>1 DEF NewTask, NetInv, NetTypeOK
      <3>3. u \in SyncWork'
        BY <3>2, WorkOfNext DEF SyncChain
      <3> QED
        BY <3>3 DEF Gate
    <2>2. CASE ~s_bNeedReSync
      <3>1. s_bSyncing' = FALSE
        BY <1>1, <2>2 DEF IsNeedReSync
      <3> QED
        BY <3>1 DEF Gate
    <2> QED
      BY <2>1, <2>2
  <1>2. CASE ~IsNeedReSync /\ net = "OnTaskEnd" /\ todo = "resync" /\ t = cur
    <2>1. cur' \in SyncWork'
      BY <1>2, ReSyncWaits, WorkOfNext
    <2> QED
      BY <2>1 DEF Gate
  <1>3. CASE ~(net = "OnTaskEnd" /\ todo = "resync" /\ t = cur)
    <2>1. InHands(t)
      BY <1>3, WorkOf DEF InHands
    <2>2. t \in TaskId
      BY <2>1 DEF InHands, NetInv, NetTypeOK, StartersOwnTask
    <2>3. cgi'[t] = "ReportSyncKV" /\ (InHands(t)' \/ OnTaskEnd(t))
      BY <2>1, <2>2, TaskNotDropped, SyncIsNetStep
    <2>4. CASE InHands(t)'
      <3>1. t \in SyncWork'
        BY <2>3, <2>4, WorkOfNext DEF InHands, SyncChain
      <3> QED
        BY <3>1 DEF Gate
    <2>5. CASE OnTaskEnd(t)
      <3>1. net = "loop" /\ net' = "OnTaskEnd" /\ cur' = t
        BY <2>5 DEF OnTaskEnd
      <3>2. TaskEnd(t)
        BY <2>2, <2>5, <3>1, OnlyTaskEnd DEF vars, netVars
      <3>3. t \in SyncWork'
        BY <3>1, <3>2, WorkOfNext DEF TaskEnd
      <3> QED
        BY <3>3 DEF Gate
    <2> QED
      BY <2>3, <2>4, <2>5
  <1> QED
    BY <1>1, <1>2, <1>3

(***************************************************************************)
(* The results.                                                            *)
(***************************************************************************)

(* At the start nothing syncs and nobody has logged in. *)
LEMMA SyncInitInv == SyncInit => SyncInv /\ AppTypes
  <1> SUFFICES ASSUME SyncInit PROVE SyncInv /\ AppTypes
    OBVIOUS
  <1>1. NetInit /\ NetInv
    BY NetInitInv DEF SyncInit, Started
  <1>2. AppTypes
    <2>1. MaxMsg \in Nat /\ MaxLogin \in Nat
      BY SyncAssumption
    <2>2. /\ sentKey \in [TaskId -> 0..MaxMsg] /\ sentSvr \in [TaskId -> 0..MaxMsg]
          /\ logins \in 0..MaxLogin /\ succ \in Nat
      BY <2>1 DEF SyncInit, Started
    <2> QED
      BY <2>2 DEF SyncInit, Started, AppTypes
  <1>3. SyncTypeOK
    BY <1>1, <1>2, SyncAssumption DEF SyncInit, Started, AppTypes, SyncTypeOK, NetInv
  <1>4. EndedTaskGone
    BY <1>1 DEF NetInit, EndedTaskGone
  <1>5. SyncWork = {}
    BY <1>1, WorkOf DEF NetInit
  <1>6. SingleFlight /\ NeedReSyncOnlyWhileSyncing
    BY <1>5 DEF SyncInit, Started, SingleFlight, NeedReSyncOnlyWhileSyncing
  <1>7. OpenLogins = {}
    BY <1>1 DEF NetInit, OpenLogins
  <1>8. LoginsCounted
    BY <1>7, FS_EmptySet DEF SyncInit, Started, LoginsCounted
  <1> QED
    BY <1>1, <1>2, <1>3, <1>4, <1>6, <1>8 DEF SyncInv

(* SyncTypeOK is the types and the bound on succ. *)
LEMMA SyncTypesSplit ==
    ASSUME SyncInv
    PROVE  AppTypes
  BY SyncAssumption DEF SyncInv, SyncTypeOK, AppTypes

(* Each click leads to at most one success, so succ stays within the     *)
(* clicks.                                                               *)
LEMMA SyncTypesJoin ==
    ASSUME NetInv, AppTypes, LoginsCounted
    PROVE  SyncTypeOK
  <1>1. succ \in Nat /\ logins \in 0..MaxLogin /\ MaxLogin \in Nat
    BY SyncAssumption DEF AppTypes
  <1>2. Cardinality(OpenLogins) \in Nat /\ succ + Cardinality(OpenLogins) <= logins
    BY FS_CardinalityType DEF LoginsCounted
  <1>3. succ \in 0..MaxLogin
    BY <1>1, <1>2
  <1> QED
    BY <1>3 DEF AppTypes, SyncTypeOK, NetInv

(* Every step keeps the invariant and is a step of the gate, or none. *)
LEMMA SyncNextInv == SyncInv /\ [SyncNext]_vars => SyncInv' /\ [AbstractGate!Next]_Gate
  <1> SUFFICES ASSUME SyncInv, [SyncNext]_vars PROVE SyncInv' /\ [AbstractGate!Next]_Gate
    OBVIOUS
  <1>1. AppTypes /\ NetInv /\ EndedTaskGone /\ SingleFlight /\ NeedReSyncOnlyWhileSyncing
        /\ LoginsCounted
    BY SyncTypesSplit DEF SyncInv
  <1>2. [NetNext]_netVars
    BY SyncIsNetStep
  <1>3. NetInv' /\ EndedTaskGone'
    BY <1>1, <1>2, NetNextInv, EndedTaskStep
  <1>4. AppTypes' /\ LoginsCounted'
    BY <1>1, AppTypeStep, LoginsStep
  <1>5. SingleFlight' /\ NeedReSyncOnlyWhileSyncing' /\ [AbstractGate!Next]_Gate
    BY <1>1, WorkStep, GateStep
  <1>6. NetInv' /\ AppTypes' /\ LoginsCounted' => SyncTypeOK'
    BY SyncTypesJoin, PTL
  <1> QED
    BY <1>3, <1>4, <1>5, <1>6 DEF SyncInv

(* SyncInv holds in every reachable state, for every number of task ids, *)
(* retries, messages and clicks, with and without network faults.        *)
THEOREM SyncInvariant == SyncSpec => []SyncInv
  BY SyncInitInv, SyncNextInv, PTL DEF SyncSpec

(* Login and synchronisation are one way to use the task table: all that *)
(* is proved of it in NetworkService_proofs holds here, with the         *)
(* handlers of NetworkService.cpp and the callbacks of callback.cpp      *)
(* calling back into it.                                                 *)
THEOREM SyncImplementsTable == SyncSpec => NetSpec
  <1>1. SyncInit => NetInit
    BY DEF SyncInit, Started
  <1>2. [SyncNext]_vars => [NetNext]_netVars
    BY SyncIsNetStep
  <1> QED
    BY <1>1, <1>2, PTL DEF SyncSpec, NetSpec

(* Every variable keeps its type; the key never runs ahead of the server *)
(* and no more WM_LOGIN_SUCC messages wait than the login button was     *)
(* clicked.                                                              *)
THEOREM SyncTypes == SyncSpec => []SyncTypeOK
  <1>1. SyncInv => SyncTypeOK
    BY DEF SyncInv
  <1> QED
    BY SyncInvariant, <1>1, PTL

(* s_bSyncing does what NewSyncCGITask.h:19 says: whatever the           *)
(* interleaving of the UI thread, the alarm and Net, one sync is under   *)
(* way at a time, and the gate is closed while it is.                    *)
THEOREM OneSyncAtATime == SyncSpec => []SingleFlight
  <1>1. SyncInv => SingleFlight
    BY DEF SyncInv
  <1> QED
    BY SyncInvariant, <1>1, PTL

(* s_bNeedReSync is set only while s_bSyncing is: a request is never     *)
(* left over for a later, unrelated sync.                                *)
THEOREM RequestsNeverLeak == SyncSpec => []NeedReSyncOnlyWhileSyncing
  <1>1. SyncInv => NeedReSyncOnlyWhileSyncing
    BY DEF SyncInv
  <1> QED
    BY SyncInvariant, <1>1, PTL

(* The two flags, the tasks and the threads implement SyncGate: a        *)
(* request that waits is served by a sync of its own when the report     *)
(* ends, the gate opens only then, and a gate that is lost stays lost.   *)
THEOREM GateIsRefined == SyncSpec => GateRefined
  <1>1. SyncInit => AbstractGate!Init
    <2> SUFFICES ASSUME SyncInit PROVE AbstractGate!Init
      OBVIOUS
    <2>1. SyncWork = {} /\ ~s_bSyncing
      BY WorkOf DEF SyncInit, Started, NetInit
    <2> QED
      BY <2>1 DEF AbstractGate!Init, Gate
  <1> QED
    BY <1>1, SyncInvariant, SyncNextInv, PTL DEF SyncSpec, GateRefined, AbstractGate!Spec

(* A sync that has got as far as its ReportSyncKV task does not lose the *)
(* gate, whether the report is sent, fails to be packed, or times out:   *)
(* OnTaskEnd ignores the error and calls IsNeedReSync.                   *)
THEOREM ReportKeepsGate == SyncSpec => ReportNeverLosesGate
  <1>1. SyncInv /\ [SyncNext]_vars =>
          [(\E t \in SyncWork : cgi[t] = "ReportSyncKV") => (Gate' # "lost" \/ Gone')]_vars
    <2> SUFFICES ASSUME SyncInv, [SyncNext]_vars, NEW t \in SyncWork, cgi[t] = "ReportSyncKV",
                        ~Gone'
                 PROVE  Gate' # "lost"
      OBVIOUS
    <2> QED
      BY ReportStep DEF SyncInv, Gone
  <1> QED
    BY <1>1, SyncInvariant, PTL DEF SyncSpec, ReportNeverLosesGate
=============================================================================
