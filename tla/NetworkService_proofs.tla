----------------------- MODULE NetworkService_proofs ------------------------
(***************************************************************************)
(* Safety of the task table, for every set of threads and task ids and     *)
(* every retry count.  The argument is one inductive invariant, NetInv:    *)
(* the table matches what mars has (TableMatchesMars), every thread inside *)
(* startTask owns its task (StartersOwnTask), and the lists of mars are    *)
(* consistent with each other and with the task at hand (ListsConsistent). *)
(* One lemma per action shows that it keeps NetInv.  At the end, with the  *)
(* help of NetInv, each action is shown to be a step of TaskLife or none.  *)
(***************************************************************************)
EXTENDS NetworkService, TLAPS

(* Before StartSDK nothing is started, posted or listed: the invariant     *)
(* holds.                                                                  *)
LEMMA NetInitInv == NetInit => NetInv
  <1> SUFFICES ASSUME NetInit PROVE NetInv
    OBVIOUS
  <1>1. NetTypeOK
    <2>1. remain_retry_count \in [TaskId -> 0..RetryCount]
      BY NetworkAssumption DEF NetInit
    <2>2. cgi \in [TaskId -> Cgi] /\ starting \in [Thread -> {"no", "insert", "post"}]
      BY DEF NetInit, Cgi
    <2>3. arg \in [Thread -> TaskId \cup {NoTask}] /\ cur \in TaskId \cup {NoTask}
      BY DEF NetInit
    <2> QED
      BY <2>1, <2>2, <2>3 DEF NetInit, NetTypeOK, Handler
  <1>2. TableMatchesMars
    BY DEF NetInit, TableMatchesMars, Posting
  <1>3. StartersOwnTask
    BY DEF NetInit, StartersOwnTask
  <1>4. ListsConsistent
    BY DEF NetInit, ListsConsistent
  <1> QED
    BY <1>1, <1>2, <1>3, <1>4 DEF NetInv

(* What an error leaves of the tasks of S: retry counts stay in range, no  *)
(* task becomes a running one, and only tasks of S and T end.              *)
LEMMA RetryOrEndTypes ==
    ASSUME NetTypeOK, NEW S, S \subseteq running_id, NEW T, T \subseteq TaskId, RetryOrEnd(S, T)
    PROVE  /\ remain_retry_count' \in [TaskId -> 0..RetryCount]
           /\ running_id' \subseteq running_id
           /\ ending' \subseteq S \cup T
  <1> DEFINE over == T \cup {t \in S : remain_retry_count[t] = 0}
  <1>1. \A t \in S \ over : remain_retry_count[t] - 1 \in 0..RetryCount
    BY NetworkAssumption DEF NetTypeOK
  <1> QED
    BY <1>1 DEF NetTypeOK, RetryOrEnd

(* A thread that enters startTask takes an id nobody uses, so it owns it.  *)
LEMMA NewTaskInv ==
    ASSUME NetInv, NEW th \in Thread, NEW t \in TaskId, NEW k \in Cgi, NewTask(th, t, k)
    PROVE  NetInv'
  <1>1. NetTypeOK'
    BY NetworkAssumption DEF NetInv, NetTypeOK, StartersOwnTask, ListsConsistent, Thread,
       Handler, NewTask, MayCall, Fresh, marsVars, startVars
  <1>2. TableMatchesMars'
    BY DEF NetInv, NetTypeOK, TableMatchesMars, Posting, StartersOwnTask, ListsConsistent,
       NewTask, MayCall, Fresh, marsVars, startVars
  <1>3. StartersOwnTask'
    BY NetworkAssumption DEF NetInv, NetTypeOK, TableMatchesMars, Posting,
       StartersOwnTask, ListsConsistent, NewTask, MayCall, Fresh, marsVars, startVars
  <1>4. ListsConsistent'
    BY DEF NetInv, NetTypeOK, StartersOwnTask, ListsConsistent, NewTask, MayCall, Fresh,
       marsVars, startVars
  <1> QED
    BY <1>1, <1>2, <1>3, <1>4 DEF NetInv

(* startTask puts its task in the table: the thread goes on owning it      *)
(* until it posts.                                                         *)
LEMMA InsertTaskInv ==
    ASSUME NetInv, NEW th \in Thread, InsertTask(th)
    PROVE  NetInv'
  <1>1. NetTypeOK'
    BY NetworkAssumption DEF NetInv, NetTypeOK, StartersOwnTask, ListsConsistent, Thread,
       Handler, InsertTask, marsVars, startVars
  <1>2. TableMatchesMars'
    BY DEF NetInv, NetTypeOK, TableMatchesMars, Posting, StartersOwnTask, ListsConsistent,
       InsertTask, marsVars, startVars
  <1>3. StartersOwnTask'
    BY NetworkAssumption DEF NetInv, NetTypeOK, TableMatchesMars, Posting,
       StartersOwnTask, ListsConsistent, InsertTask, marsVars, startVars
  <1>4. ListsConsistent'
    BY DEF NetInv, NetTypeOK, StartersOwnTask, ListsConsistent, InsertTask, marsVars, startVars
  <1> QED
    BY <1>1, <1>2, <1>3, <1>4 DEF NetInv

(* mars::stn::StartTask hands the task to the queue; the table has it      *)
(* already.                                                                *)
LEMMA PostTaskInv ==
    ASSUME NetInv, NEW th \in Thread, PostTask(th)
    PROVE  NetInv'
  <1>1. NetTypeOK'
    BY NetworkAssumption DEF NetInv, NetTypeOK, StartersOwnTask, ListsConsistent, Thread,
       Handler, PostTask, marsVars, startVars
  <1>2. TableMatchesMars'
    BY DEF NetInv, NetTypeOK, TableMatchesMars, Posting, StartersOwnTask, ListsConsistent,
       PostTask, marsVars, startVars
  <1>3. StartersOwnTask'
    BY NetworkAssumption DEF NetInv, NetTypeOK, TableMatchesMars, Posting,
       StartersOwnTask, ListsConsistent, PostTask, marsVars, startVars
  <1>4. ListsConsistent'
    BY DEF NetInv, NetTypeOK, StartersOwnTask, ListsConsistent, PostTask, marsVars, startVars
  <1> QED
    BY <1>1, <1>2, <1>3, <1>4 DEF NetInv

(* NetCore::StartTask moves a task from the queue to the list of its       *)
(* manager.                                                                *)
LEMMA NetCoreStartTaskInv ==
    ASSUME NetInv, NEW t \in TaskId, NetCoreStartTask(t)
    PROVE  NetInv'
  <1>1. NetTypeOK'
    BY NetworkAssumption DEF NetInv, NetTypeOK, StartersOwnTask, ListsConsistent, Thread,
       Handler, NetCoreStartTask, NetIdle, marsVars, startVars
  <1>2. TableMatchesMars'
    BY DEF NetInv, NetTypeOK, TableMatchesMars, Posting, StartersOwnTask, ListsConsistent,
       NetCoreStartTask, NetIdle, marsVars, startVars
  <1>3. StartersOwnTask'
    BY NetworkAssumption DEF NetInv, NetTypeOK, TableMatchesMars, Posting,
       StartersOwnTask, ListsConsistent, NetCoreStartTask, NetIdle, marsVars, startVars
  <1>4. ListsConsistent'
    BY DEF NetInv, NetTypeOK, StartersOwnTask, ListsConsistent, NetCoreStartTask, NetIdle,
       marsVars, startVars
  <1> QED
    BY <1>1, <1>2, <1>3, <1>4 DEF NetInv

(* __RunOnStartTask packs or sends listed tasks and ends only those.       *)
LEMMA RunOnStartTaskInv ==
    ASSUME NetInv, NEW t \in TaskId, NEW packed \in BOOLEAN, RunOnStartTask(t, packed)
    PROVE  NetInv'
  <1>1. NetTypeOK'
    BY NetworkAssumption DEF NetInv, NetTypeOK, StartersOwnTask, ListsConsistent, Thread,
       Handler, RunOnStartTask, NetIdle, marsVars, startVars
  <1>2. TableMatchesMars'
    BY DEF NetInv, NetTypeOK, TableMatchesMars, Posting, StartersOwnTask, ListsConsistent,
       RunOnStartTask, NetIdle, marsVars, startVars
  <1>3. StartersOwnTask'
    BY NetworkAssumption DEF NetInv, NetTypeOK, TableMatchesMars, Posting,
       StartersOwnTask, ListsConsistent, RunOnStartTask, NetIdle, marsVars, startVars
  <1>4. ListsConsistent'
    BY DEF NetInv, NetTypeOK, StartersOwnTask, ListsConsistent, RunOnStartTask, NetIdle,
       marsVars, startVars
  <1> QED
    BY <1>1, <1>2, <1>3, <1>4 DEF NetInv

(* The error of a short-link task retries or ends that task.               *)
LEMMA ShortLinkErrorInv ==
    ASSUME NetInv, NEW t \in TaskId, ShortLinkError(t)
    PROVE  NetInv'
  <1>1. /\ remain_retry_count' \in [TaskId -> 0..RetryCount]
        /\ running_id' \subseteq running_id
        /\ ending' \subseteq lst_cmd_
    <2> DEFINE S == {t}
    <2>1. S \subseteq running_id /\ S \subseteq lst_cmd_
      BY DEF NetInv, ListsConsistent, ShortLinkError, RunningLong
    <2>2. RetryOrEnd(S, {}) /\ {} \subseteq lst_cmd_ /\ {} \subseteq TaskId
      BY DEF ShortLinkError
    <2> QED
      BY <2>1, <2>2, RetryOrEndTypes DEF NetInv
  <1>2. NetTypeOK'
    BY <1>1 DEF NetInv, NetTypeOK, ShortLinkError, startVars
  <1>3. TableMatchesMars'
    BY DEF NetInv, TableMatchesMars, Posting, ShortLinkError, startVars
  <1>4. StartersOwnTask'
    BY DEF NetInv, StartersOwnTask, ShortLinkError, startVars
  <1>5. ListsConsistent'
    BY <1>1 DEF NetInv, ListsConsistent, ShortLinkError, NetIdle
  <1> QED
    BY <1>2, <1>3, <1>4, <1>5 DEF NetInv

(* A task timeout ends a listed task, and retries or ends the running      *)
(* long-link tasks.                                                        *)
LEMMA TaskTimeoutInv ==
    ASSUME NetInv, NEW t \in TaskId, TaskTimeout(t)
    PROVE  NetInv'
  <1>1. /\ remain_retry_count' \in [TaskId -> 0..RetryCount]
        /\ running_id' \subseteq running_id
        /\ ending' \subseteq lst_cmd_
    <2> DEFINE S == (IF cgi[t] \in LongConn THEN RunningLong \ {t} ELSE {})
    <2>1. S \subseteq running_id /\ S \subseteq lst_cmd_
      BY DEF NetInv, ListsConsistent, TaskTimeout, RunningLong
    <2>2. RetryOrEnd(S, {t}) /\ {t} \subseteq lst_cmd_ /\ {t} \subseteq TaskId
      BY DEF TaskTimeout
    <2> QED
      BY <2>1, <2>2, RetryOrEndTypes DEF NetInv
  <1>2. NetTypeOK'
    BY <1>1 DEF NetInv, NetTypeOK, TaskTimeout, startVars
  <1>3. TableMatchesMars'
    BY DEF NetInv, TableMatchesMars, Posting, TaskTimeout, startVars
  <1>4. StartersOwnTask'
    BY DEF NetInv, StartersOwnTask, TaskTimeout, startVars
  <1>5. ListsConsistent'
    BY <1>1 DEF NetInv, ListsConsistent, TaskTimeout, NetIdle
  <1> QED
    BY <1>2, <1>3, <1>4, <1>5 DEF NetInv

(* An error of the long link retries or ends the running long-link tasks.  *)
LEMMA LinkErrorInv ==
    ASSUME NetInv, LinkError
    PROVE  NetInv'
  <1>1. /\ remain_retry_count' \in [TaskId -> 0..RetryCount]
        /\ running_id' \subseteq running_id
        /\ ending' \subseteq lst_cmd_
    <2> DEFINE S == RunningLong
    <2>1. S \subseteq running_id /\ S \subseteq lst_cmd_
      BY DEF NetInv, ListsConsistent, LinkError, RunningLong
    <2>2. RetryOrEnd(S, {}) /\ {} \subseteq lst_cmd_ /\ {} \subseteq TaskId
      BY DEF LinkError
    <2> QED
      BY <2>1, <2>2, RetryOrEndTypes DEF NetInv
  <1>2. NetTypeOK'
    BY <1>1 DEF NetInv, NetTypeOK, LinkError, startVars
  <1>3. TableMatchesMars'
    BY DEF NetInv, TableMatchesMars, Posting, LinkError, startVars
  <1>4. StartersOwnTask'
    BY DEF NetInv, StartersOwnTask, LinkError, startVars
  <1>5. ListsConsistent'
    BY <1>1 DEF NetInv, ListsConsistent, LinkError, NetIdle
  <1> QED
    BY <1>2, <1>3, <1>4, <1>5 DEF NetInv

(* The long link coming up changes no list.                                *)
LEMMA ConnectInv ==
    ASSUME NetInv, Connect
    PROVE  NetInv'
  BY DEF NetInv, NetTypeOK, Handler, TableMatchesMars, Posting, StartersOwnTask,
         ListsConsistent, Connect, marsVars, startVars

(* Buf2Resp finds the task of a listed id in the table.                    *)
LEMMA Buf2RespInv ==
    ASSUME NetInv, NEW t \in TaskId, Buf2Resp(t)
    PROVE  NetInv'
  BY DEF NetInv, NetTypeOK, Handler, TableMatchesMars, Posting, StartersOwnTask,
         ListsConsistent, Buf2Resp, LeftOver, NetIdle, marsVars, startVars

(* Between Buf2Resp and DoCallBack the task stays listed.                  *)
LEMMA DoCallBackInv ==
    ASSUME NetInv, DoCallBack
    PROVE  NetInv'
  BY DEF NetInv, NetTypeOK, Handler, TableMatchesMars, Posting, StartersOwnTask,
         ListsConsistent, DoCallBack, marsVars, startVars

(* The callback returns and the task that was at hand ends.                *)
LEMMA CallBackReturnInv ==
    ASSUME NetInv, CallBackReturn
    PROVE  NetInv'
  BY DEF NetInv, NetTypeOK, Handler, TableMatchesMars, Posting, StartersOwnTask,
         ListsConsistent, CallBackReturn, marsVars, startVars

(* ForceQuit deletes nothing.                                              *)
LEMMA ForceQuitInv ==
    ASSUME NetInv, ForceQuit
    PROVE  NetInv'
  BY DEF NetInv, NetTypeOK, Handler, TableMatchesMars, Posting, StartersOwnTask,
         ListsConsistent, ForceQuit, marsVars, startVars

(* OnTaskEnd erases one task from the table and from its list, and no      *)
(* other: the id is in no message and no thread is starting it.            *)
LEMMA OnTaskEndInv ==
    ASSUME NetInv, NEW t \in TaskId, OnTaskEnd(t)
    PROVE  NetInv'
  <1>1. NetTypeOK'
    BY NetworkAssumption DEF NetInv, NetTypeOK, StartersOwnTask, ListsConsistent, Thread,
       Handler, OnTaskEnd, marsVars, startVars
  <1>2. TableMatchesMars'
    BY DEF NetInv, NetTypeOK, TableMatchesMars, Posting, StartersOwnTask, ListsConsistent,
       OnTaskEnd, marsVars, startVars
  <1>3. StartersOwnTask'
    BY NetworkAssumption DEF NetInv, NetTypeOK, TableMatchesMars, Posting,
       StartersOwnTask, ListsConsistent, OnTaskEnd, marsVars, startVars
  <1>4. ListsConsistent'
    BY DEF NetInv, NetTypeOK, StartersOwnTask, ListsConsistent, OnTaskEnd, marsVars, startVars
  <1> QED
    BY <1>1, <1>2, <1>3, <1>4 DEF NetInv

(* A push leaves the tasks alone.                                          *)
LEMMA OnPushInv ==
    ASSUME NetInv, OnPush
    PROVE  NetInv'
  BY DEF NetInv, NetTypeOK, Handler, TableMatchesMars, Posting, StartersOwnTask,
         ListsConsistent, OnPush, NetIdle, marsVars, startVars

(* OnTaskEnd and OnPush return to the loop.                                *)
LEMMA HandlerReturnInv ==
    ASSUME NetInv, HandlerReturn
    PROVE  NetInv'
  BY DEF NetInv, NetTypeOK, Handler, TableMatchesMars, Posting, StartersOwnTask,
         ListsConsistent, HandlerReturn, marsVars, startVars

(* StopSDK ends the listed tasks and cancels the messages.                 *)
LEMMA StopSDKInv ==
    ASSUME NetInv, StopSDK
    PROVE  NetInv'
  BY DEF NetInv, NetTypeOK, Handler, TableMatchesMars, Posting, StartersOwnTask,
         ListsConsistent, StopSDK, NetIdle, marsVars, startVars

(* Every step of the threads and of mars keeps the invariant.              *)
LEMMA NetNextInv == NetInv /\ [NetNext]_netVars => NetInv'
  <1> SUFFICES ASSUME NetInv, [NetNext]_netVars PROVE NetInv'
    OBVIOUS
  <1>1. CASE CallStep
    BY <1>1, NewTaskInv, InsertTaskInv, PostTaskInv DEF CallStep
  <1>2. CASE MarsStep
    BY <1>2, NetCoreStartTaskInv, RunOnStartTaskInv, ShortLinkErrorInv, TaskTimeoutInv,
       LinkErrorInv, ConnectInv DEF MarsStep
  <1>3. CASE HandlerStep
    BY <1>3, Buf2RespInv, DoCallBackInv, CallBackReturnInv, ForceQuitInv, OnTaskEndInv,
       OnPushInv, HandlerReturnInv, StopSDKInv DEF HandlerStep
  <1>4. CASE UNCHANGED netVars
    BY <1>4 DEF NetInv, NetTypeOK, TableMatchesMars, Posting, StartersOwnTask,
                ListsConsistent, netVars
  <1> QED
    BY <1>1, <1>2, <1>3, <1>4 DEF NetNext

(* The inductive invariant of the task table, for any number of threads,   *)
(* tasks and retries.                                                      *)
THEOREM NetInvariant == NetSpec => []NetInv
  BY NetInitInv, NetNextInv, PTL DEF NetSpec

(* Every variable keeps its type; in particular no retry count falls below *)
(* zero.                                                                   *)
THEOREM NetTypes == NetSpec => []NetTypeOK
  <1>1. NetInv => NetTypeOK
    BY DEF NetInv
  <1> QED
    BY <1>1, NetInvariant, PTL

(* map_task_ holds exactly the tasks that startTask is posting and that    *)
(* mars has: mars never calls Req2Buf, Buf2Resp or OnTaskEnd with an id    *)
(* the table lacks.                                                        *)
THEOREM TableAlwaysMatches == NetSpec => []TableMatchesMars
  <1>1. NetInv => TableMatchesMars
    BY DEF NetInv
  <1> QED
    BY <1>1, NetInvariant, PTL

(* The CGITask that Buf2Resp and DoCallBack use outside m_cs is not        *)
(* deleted before they return.                                             *)
THEOREM PTaskAlwaysAlive == NetSpec => []PTaskAlive
  <1>1. NetInv => PTaskAlive
    BY DEF NetInv, TableMatchesMars, ListsConsistent, PTaskAlive
  <1> QED
    BY <1>1, NetInvariant, PTL

-----------------------------------------------------------------------------
(***************************************************************************)
(* The table and the managers behind it implement TaskLife.                *)
(***************************************************************************)

(* A step that leaves the managers' lists alone is a stutter of TaskLife. *)
LEMMA LifeKept ==
    ASSUME UNCHANGED <<lst_cmd_, running_id, remain_retry_count, ending>>
    PROVE  UNCHANGED TableLife!lifeVars
  BY DEF ListedLife, RetriesLeft, TableLife!lifeVars

(* Tasks that end, those of T, all listed.  One of them may have become a  *)
(* running task in the same step, as a send_only task does.                *)
LEMMA TasksEndLife ==
    ASSUME NetTypeOK, ending = {}, NEW T \in SUBSET lst_cmd_, ending' = T,
           lst_cmd_' = lst_cmd_, remain_retry_count' = remain_retry_count,
           \A t \in TaskId \ T : t \in running_id' <=> t \in running_id
    PROVE  TableLife!Next
  <1>1. T \in SUBSET TaskId /\ {} \in SUBSET TaskId
    BY DEF NetTypeOK
  <1>2. \A t \in T : ListedLife[t] # "idle"
    BY <1>1 DEF ListedLife
  <1>3. ListedLife' = [t \in TaskId |-> IF t \in T THEN "idle"
                                       ELSE IF t \in {} THEN "waiting" ELSE ListedLife[t]]
    BY DEF ListedLife
  <1>4. RetriesLeft' = [t \in TaskId |-> IF t \in T THEN 0
                                        ELSE IF t \in {} THEN RetriesLeft[t] - 1 ELSE RetriesLeft[t]]
    BY DEF RetriesLeft
  <1>5. TableLife!Settle({}, T)
    BY <1>2, <1>3, <1>4 DEF TableLife!Settle
  <1> QED
    BY <1>1, <1>5 DEF TableLife!Next

(* A network error: of the running tasks in S those with retries left wait *)
(* again, the others and those of T end.                                   *)
LEMMA RetryOrEndLife ==
    ASSUME NetTypeOK, running_id \subseteq lst_cmd_, ending = {},
           NEW S \in SUBSET running_id, NEW T \in SUBSET lst_cmd_, RetryOrEnd(S, T),
           lst_cmd_' = lst_cmd_
    PROVE  TableLife!Next
  <1> DEFINE over == T \cup {t \in S : remain_retry_count[t] = 0}
             back == S \ over
  <1>1. over \in SUBSET TaskId /\ back \in SUBSET TaskId /\ over \subseteq lst_cmd_
    BY DEF NetTypeOK
  <1>2. \A t \in over : ListedLife[t] # "idle"
    BY <1>1 DEF ListedLife
  <1>3. \A t \in back : ListedLife[t] = "sent" /\ RetriesLeft[t] > 0
    BY <1>1, NetworkAssumption DEF ListedLife, RetriesLeft, NetTypeOK
  <1>4. /\ ending' = over
        /\ running_id' = running_id \ back
        /\ remain_retry_count' =
             [t \in TaskId |-> IF t \in back THEN remain_retry_count[t] - 1
                                            ELSE remain_retry_count[t]]
    BY DEF RetryOrEnd
  <1>5. \A t : t \in back => t \in running_id /\ t \in lst_cmd_ /\ t \notin over
    OBVIOUS
  <1> HIDE DEF over, back
  <1>6. ListedLife' = [t \in TaskId |-> IF t \in over THEN "idle"
                                       ELSE IF t \in back THEN "waiting" ELSE ListedLife[t]]
    BY <1>4, <1>5 DEF ListedLife
  <1>7. RetriesLeft' = [t \in TaskId |-> IF t \in over THEN 0
                                        ELSE IF t \in back THEN RetriesLeft[t] - 1
                                        ELSE RetriesLeft[t]]
    BY <1>4, <1>5 DEF RetriesLeft
  <1>8. TableLife!Settle(back, over)
    BY <1>2, <1>3, <1>6, <1>7 DEF TableLife!Settle
  <1> QED
    BY <1>1, <1>8 DEF TableLife!Next

(* NetCore::StartTask lists a task that was not listed. *)
LEMMA NetCoreStartTaskLife ==
    ASSUME NetInv, NEW t \in TaskId, NetCoreStartTask(t)
    PROVE  TableLife!Next
  <1>1. /\ t \notin lst_cmd_ /\ ending = {} /\ ending' = {} /\ running_id \subseteq lst_cmd_
        /\ lst_cmd_' = lst_cmd_ \cup {t} /\ running_id' = running_id
        /\ remain_retry_count' = [remain_retry_count EXCEPT ![t] = RetryCount]
        /\ remain_retry_count \in [TaskId -> 0..RetryCount]
    BY DEF NetInv, NetTypeOK, ListsConsistent, NetCoreStartTask, NetIdle
  <1>2. ListedLife[t] = "idle" /\ ListedLife' = [ListedLife EXCEPT ![t] = "waiting"]
    BY <1>1 DEF ListedLife
  <1>3. RetriesLeft' = [RetriesLeft EXCEPT ![t] = RetryCount]
    BY <1>1 DEF RetriesLeft
  <1>4. TableLife!Start(t)
    BY <1>2, <1>3 DEF TableLife!Start
  <1> QED
    BY <1>4 DEF TableLife!Next

(* __RunOnStartTask sends a waiting task, ends it, or leaves it waiting. *)
LEMMA RunOnStartTaskLife ==
    ASSUME NetInv, NEW t \in TaskId, NEW packed \in BOOLEAN, RunOnStartTask(t, packed)
    PROVE  TableLife!Next \/ UNCHANGED TableLife!lifeVars
  <1> DEFINE ok == Req2Buf(t, packed)
  <1>0. PICK accepted \in LinkSend(t) :
           /\ running_id' = IF ok /\ accepted THEN running_id \cup {t} ELSE running_id
           /\ ending' = IF ~ok \/ ((ok /\ accepted) /\ cgi[t] \in SendOnly) THEN {t} ELSE {}
    BY DEF RunOnStartTask
  <1> DEFINE sent == ok /\ accepted
             ends == ~ok \/ (sent /\ cgi[t] \in SendOnly)
  <1>1. /\ NetTypeOK /\ ending = {} /\ t \in lst_cmd_ \ running_id
        /\ lst_cmd_' = lst_cmd_ /\ remain_retry_count' = remain_retry_count
    BY DEF NetInv, RunOnStartTask, NetIdle
  <1>2. /\ running_id' = IF sent THEN running_id \cup {t} ELSE running_id
        /\ ending' = IF ends THEN {t} ELSE {}
    BY <1>0
  <1> HIDE DEF sent, ends
  <1>3. CASE ends
    <2>1. ending' = {t} /\ {t} \in SUBSET lst_cmd_
      BY <1>1, <1>2, <1>3
    <2>2. \A u \in TaskId \ {t} : u \in running_id' <=> u \in running_id
      BY <1>2
    <2> QED
      BY <1>1, <2>1, <2>2, TasksEndLife
  <1>4. CASE ~ends /\ sent
    <2>1. ending' = {} /\ running_id' = running_id \cup {t}
      BY <1>2, <1>4
    <2>2. ListedLife[t] = "waiting" /\ ListedLife' = [ListedLife EXCEPT ![t] = "sent"]
      BY <1>1, <2>1 DEF ListedLife
    <2>3. RetriesLeft' = RetriesLeft
      BY <1>1, <2>1 DEF RetriesLeft
    <2>4. TableLife!Sent(t)
      BY <2>2, <2>3 DEF TableLife!Sent
    <2> QED
      BY <2>4 DEF TableLife!Next
  <1>5. CASE ~ends /\ ~sent
    BY <1>1, <1>2, <1>5, LifeKept
  <1> QED
    BY <1>3, <1>4, <1>5

(* A task timeout ends a listed task; for a long-link task the running     *)
(* ones fail with it.                                                      *)
LEMMA TaskTimeoutLife ==
    ASSUME NetInv, NEW t \in TaskId, TaskTimeout(t)
    PROVE  TableLife!Next
  <1> DEFINE S == IF cgi[t] \in LongConn THEN RunningLong \ {t} ELSE {}
  <1>1. RetryOrEnd(S, {t}) /\ lst_cmd_' = lst_cmd_ /\ ending = {} /\ {t} \in SUBSET lst_cmd_
    BY DEF TaskTimeout, NetIdle
  <1>2. NetTypeOK /\ running_id \subseteq lst_cmd_
    BY DEF NetInv, ListsConsistent
  <1>3. S \in SUBSET running_id
    BY DEF RunningLong
  <1> HIDE DEF S
  <1> QED
    BY <1>1, <1>2, <1>3, RetryOrEndLife

(* Errors of the two channels. *)
LEMMA ErrorLife ==
    ASSUME NetInv, LinkError \/ \E t \in TaskId : ShortLinkError(t)
    PROVE  TableLife!Next
  <1>1. NetTypeOK /\ running_id \subseteq lst_cmd_ /\ {} \in SUBSET lst_cmd_
    BY DEF NetInv, ListsConsistent
  <1>2. CASE LinkError
    <2>1. RetryOrEnd(RunningLong, {}) /\ lst_cmd_' = lst_cmd_ /\ ending = {}
      BY <1>2 DEF LinkError, NetIdle
    <2>2. RunningLong \in SUBSET running_id
      BY DEF RunningLong
    <2> QED
      BY <1>1, <2>1, <2>2, RetryOrEndLife
  <1>3. CASE \E t \in TaskId : ShortLinkError(t)
    <2>1. PICK t \in TaskId : ShortLinkError(t)
      BY <1>3
    <2>2. RetryOrEnd({t}, {}) /\ lst_cmd_' = lst_cmd_ /\ ending = {} /\ {t} \in SUBSET running_id
      BY <2>1 DEF ShortLinkError, NetIdle
    <2> QED
      BY <1>1, <2>2, RetryOrEndLife
  <1> QED
    BY <1>2, <1>3

(* OnTaskEnd takes a task off the lists that is done with already. *)
LEMMA OnTaskEndLife ==
    ASSUME NetInv, NEW t \in TaskId, OnTaskEnd(t)
    PROVE  UNCHANGED TableLife!lifeVars
  <1>1. /\ t \in ending /\ ending' = ending \ {t} /\ lst_cmd_' = lst_cmd_ \ {t}
        /\ running_id' = running_id \ {t}
        /\ remain_retry_count' = [remain_retry_count EXCEPT ![t] = 0]
        /\ remain_retry_count \in [TaskId -> 0..RetryCount]
    BY DEF NetInv, NetTypeOK, OnTaskEnd
  <1>2. ListedLife' = ListedLife
    BY <1>1 DEF ListedLife
  <1>3. RetriesLeft' = RetriesLeft
    BY <1>1 DEF RetriesLeft
  <1> QED
    BY <1>2, <1>3 DEF TableLife!lifeVars

(* Every step is one of TaskLife or none. *)
LEMMA TableLifeStep ==
    ASSUME NetInv, NetNext
    PROVE  TableLife!Next \/ UNCHANGED TableLife!lifeVars
  <1>1. NetTypeOK
    BY DEF NetInv
  <1>2. CASE CallStep
    BY <1>2, LifeKept DEF CallStep, NewTask, InsertTask, PostTask, marsVars
  <1>3. CASE MarsStep
    <2>1. CASE Connect
      BY <2>1, LifeKept DEF Connect, marsVars
    <2> QED
      BY <1>3, <2>1, NetCoreStartTaskLife, RunOnStartTaskLife, TaskTimeoutLife, ErrorLife
         DEF MarsStep
  <1>4. CASE HandlerStep
    <2>1. ASSUME NEW t \in TaskId, Buf2Resp(t)
          PROVE  UNCHANGED TableLife!lifeVars
      <3>1. t \in map_task_
        BY <2>1 DEF NetInv, TableMatchesMars, ListsConsistent, Buf2Resp, LeftOver
      <3>2. ending = {} /\ ending' = {}
        BY <2>1, <3>1 DEF Buf2Resp, NetIdle
      <3> QED
        BY <2>1, <3>2, LifeKept DEF Buf2Resp, marsVars
    <2>2. CASE CallBackReturn
      <3>1. ending = {} /\ ending' = {cur} /\ {cur} \in SUBSET lst_cmd_
        BY <2>2 DEF CallBackReturn, NetInv, ListsConsistent
      <3>2. /\ lst_cmd_' = lst_cmd_ /\ running_id' = running_id
            /\ remain_retry_count' = remain_retry_count
        BY <2>2 DEF CallBackReturn, marsVars
      <3> QED
        BY <1>1, <3>1, <3>2, TasksEndLife
    <2>3. CASE StopSDK
      <3>1. ending = {} /\ ending' = lst_cmd_
        BY <2>3 DEF StopSDK, NetIdle
      <3>2. /\ lst_cmd_' = lst_cmd_ /\ running_id' = running_id
            /\ remain_retry_count' = remain_retry_count
        BY <2>3 DEF StopSDK, marsVars
      <3> QED
        BY <1>1, <3>1, <3>2, TasksEndLife
    <2>4. CASE DoCallBack \/ ForceQuit \/ OnPush \/ HandlerReturn
      BY <2>4, LifeKept DEF DoCallBack, ForceQuit, OnPush, HandlerReturn, marsVars
    <2> QED
      BY <1>4, <2>1, <2>2, <2>3, <2>4, OnTaskEndLife DEF HandlerStep
  <1> QED
    BY <1>2, <1>3, <1>4 DEF NetNext

(* The task table with the two managers behind it implements TaskLife, for *)
(* any number of threads, tasks and retries: the SDK's view of mars makes  *)
(* the promise that LongLink's manager keeps.                              *)
THEOREM TableImplementsLife == NetSpec => TableLifeSpec
  <1>1. NetInit => TableLife!Init
    BY DEF NetInit, TableLife!Init, ListedLife, RetriesLeft
  <1>2. NetInv /\ [NetNext]_netVars => [TableLife!Next]_(TableLife!lifeVars)
    BY TableLifeStep, LifeKept DEF netVars
  <1> QED
    BY <1>1, <1>2, NetInvariant, PTL DEF NetSpec, TableLifeSpec, TableLife!Spec

=============================================================================
