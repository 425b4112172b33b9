---------------------------- MODULE Login_proofs ----------------------------
(***************************************************************************)
(* Proofs about Login, for any accounts, any number of tasks, clicks and   *)
(* retries.  LoginInv is inductive.  What makes the promises hold:         *)
(*                                                                         *)
(*  - a task has at most one answer to come unless it was sent again over  *)
(*    a connection that stayed up, and that answer is the one to its last  *)
(*    packing (AnswerFitsTask, OneAnswer);                                 *)
(*  - what the handler on Net has written to pAuthInfo is still there when *)
(*    it goes on, whatever the UI thread does (HandlerFits);               *)
(*  - a login that is done stays done, and until its success is handled    *)
(*    there is no other (OneLogin);                                        *)
(*  - each window is paid for by a click (ClicksCounted), which bounds     *)
(*    their number; nothing bounds the packings of a task.                 *)
(***************************************************************************)
EXTENDS Login, NetworkService_proofs, FiniteSetTheorems, FunctionTheorems, SequenceTheorems

(* The two threads. *)
LEMMA LoginThreads == UI \in Thread /\ Net \in Thread
  BY LoginAssumption DEF Thread

(* Every step of the login is a step of the task table or leaves it alone. *)
LEMMA LoginIsNetStep ==
    ASSUME OneAnswer, [LoginNext]_vars
    PROVE  [NetNext]_netVars
  <1> USE LoginThreads
  <1>1. CASE UiStep
    <2>1. CASE \E u \in User : ClickLogin(u)
      BY <2>1 DEF ClickLogin, NetNext, CallStep, Cgi
    <2>2. CASE SendMobileVerifyCode
      BY <2>2 DEF SendMobileVerifyCode, NewBind, NetNext, CallStep, Cgi
    <2>3. CASE Stop
      BY <2>3 DEF Stop, NetNext, HandlerStep
    <2> QED
      BY <1>1, <2>1, <2>2, <2>3 DEF UiStep, ClickSend, CloseVerifyWnd, HandleCustomMessage
  <1>2. CASE TableStep
    BY <1>2 DEF TableStep, NetNext, CallStep, MarsStep
  <1>3. CASE LinkStep
    <2>1. CASE \E t \in TaskId, packed \in BOOLEAN : Send(t, packed)
      BY <2>1 DEF Send, NetNext, MarsStep
    <2>2. CASE BreakLink \/ \E t \in TaskId : DeleteShortLink(t) \/ Timeout(t)
      BY <2>2 DEF BreakLink, DeleteShortLink, Timeout, NetNext, MarsStep
    <2>3. CASE \E t \in TaskId : TaskEnd(t)
      BY <2>3 DEF TaskEnd, NetNext, HandlerStep
    <2>4. CASE \E w \in wire : Answer(w)
      BY <2>4 DEF OneAnswer, Answer, NetNext, HandlerStep
    <2> QED
      BY <1>3, <2>1, <2>2, <2>3, <2>4 DEF LinkStep
  <1>4. CASE AnswerStep
    <2>1. CASE CallBack \/ Quit \/ HandlerDone
      BY <2>1 DEF CallBack, Quit, HandlerDone, NetNext, HandlerStep
    <2>2. CASE RecvMobileVerifyCode
      BY <2>2 DEF RecvMobileVerifyCode, NewBind, NetNext, CallStep, Cgi
    <2> QED
      BY <1>4, <2>1, <2>2 DEF AnswerStep, DecodeManualAuth, SaveMobileNum, DecodeBind,
         LoginCallBack, MobileVerifyCallBack, PostError, Post
  <1>5. CASE UNCHANGED vars
    BY <1>5 DEF vars
  <1> QED
    BY <1>1, <1>2, <1>3, <1>4, <1>5 DEF LoginNext

(* The task Net decodes or calls back for is a listed one, and alive. *)
LEMMA CurIsTask ==
    ASSUME NetInv, net \in {"Buf2Resp", "DoCallBack"}
    PROVE  cur \in TaskId /\ cur \in lst_cmd_ /\ ending = {} /\ Alive(cur)
  BY DEF NetInv, NetTypeOK, ListsConsistent, TableMatchesMars, Alive

(* An answer finds its task. *)
LEMMA AnswerFound ==
    ASSUME NetInv, OneAnswer, NEW w \in wire, Answer(w)
    PROVE  /\ w.task \in TaskId /\ w.task \in lst_cmd_
           /\ net = "loop" /\ net' = "Buf2Resp" /\ cur' = w.task
           /\ ending = {} /\ ending' = {}
           /\ UNCHANGED <<map_task_, cgi, startVars, queue, marsVars, connected, stopped>>
  <1>1. w.task \in TaskId
    BY DEF OneAnswer
  <1>2. w.task \in lst_cmd_ /\ w.task \in map_task_
    BY DEF Answer, Buf2Resp, LeftOver, NetInv, ListsConsistent, TableMatchesMars
  <1> QED
    BY <1>1, <1>2 DEF Answer, Buf2Resp, NetIdle

(***************************************************************************)
(* Which tasks there are.                                                  *)
(***************************************************************************)

(* A step of the table that creates no task brings none to life. *)
LEMMA AliveStep ==
    ASSUME NetInv,
           \/ \E th \in Thread : InsertTask(th) \/ PostTask(th)
           \/ MarsStep
           \/ HandlerStep
           \/ UNCHANGED netVars
    PROVE  UNCHANGED cgi /\ \A t \in TaskId : Alive(t)' => Alive(t)
  <1>1. ASSUME NEW th \in Thread, InsertTask(th)
        PROVE  UNCHANGED cgi /\ \A t \in TaskId : Alive(t)' => Alive(t)
    BY <1>1 DEF InsertTask, Alive, NetInv, NetTypeOK
  <1>2. ASSUME NEW th \in Thread, PostTask(th)
        PROVE  UNCHANGED cgi /\ \A t \in TaskId : Alive(t)' => Alive(t)
    <2>1. UNCHANGED <<cgi, map_task_>>
      BY <1>2 DEF PostTask
    <2>2. \A x \in Thread : starting'[x] # "no" => starting[x] # "no" /\ arg'[x] = arg[x]
      BY <1>2 DEF PostTask, NetInv, NetTypeOK
    <2> QED
      BY <2>1, <2>2 DEF Alive
  <1>3. CASE MarsStep
    BY <1>3 DEF MarsStep, NetCoreStartTask, RunOnStartTask, ShortLinkError, TaskTimeout,
       LinkError, Connect, Alive, startVars
  <1>4. CASE HandlerStep
    BY <1>4 DEF HandlerStep, Buf2Resp, DoCallBack, CallBackReturn, ForceQuit, OnTaskEnd, OnPush,
       HandlerReturn, StopSDK, Alive, startVars
  <1>5. CASE UNCHANGED netVars
    BY <1>5 DEF netVars, Alive
  <1> QED
    BY <1>1, <1>2, <1>3, <1>4, <1>5

(* A new task was not alive before, and it is the only one that is new. *)
LEMMA NewTaskAlive ==
    ASSUME NetInv, NEW th \in Thread, NEW t \in TaskId, NEW k \in Cgi, NewTask(th, t, k)
    PROVE  /\ ~Alive(t) /\ cur # t /\ t \notin lst_cmd_
           /\ \A u \in TaskId \ {t} : (Alive(u)' <=> Alive(u)) /\ cgi'[u] = cgi[u]
           /\ cgi'[t] = k
           /\ UNCHANGED <<net, cur, ending, marsVars>>
  <1>1. /\ \A x \in Thread : starting'[x] = IF x = th THEN "insert" ELSE starting[x]
        /\ \A x \in Thread : arg'[x] = IF x = th THEN t ELSE arg[x]
        /\ \A u \in TaskId : cgi'[u] = IF u = t THEN k ELSE cgi[u]
        /\ starting[th] = "no"
    BY DEF NetInv, NetTypeOK, NewTask, MayCall
  <1>2. /\ UNCHANGED <<map_task_, net, cur, ending, marsVars>>
        /\ t \notin map_task_ /\ t \notin lst_cmd_ /\ cur # t /\ \A x \in Thread : arg[x] # t
    BY DEF NewTask, Fresh
  <1>3. ~Alive(t)
    BY <1>2 DEF Alive
  <1>4. ASSUME NEW u \in TaskId \ {t} PROVE Alive(u)' <=> Alive(u)
    BY <1>1, <1>2 DEF Alive
  <1> QED
    BY <1>1, <1>2, <1>3, <1>4

(* No task is new, and those that are alive keep what they are for. *)
Steady ==
    /\ UNCHANGED cgi
    /\ \A t \in TaskId :
         /\ Alive(t)' => /\ Alive(t)
                         /\ task'[t].user = task[t].user
                         /\ task'[t].option = task[t].option
         /\ \/ task'[t] = NoData
            \/ /\ task'[t].user = task[t].user
               /\ task'[t].option = task[t].option
               /\ task'[t].ticket = task[t].ticket

(* Every step but the three that create a task is of that kind. *)
LEMMA SteadyStep ==
    ASSUME NetInv, LoginTypeOK, OneAnswer, [LoginNext]_vars
    PROVE  \/ Steady
           \/ \E u \in User : ClickLogin(u)
           \/ SendMobileVerifyCode
           \/ RecvMobileVerifyCode
  <1> USE LoginThreads
  <1>1. ASSUME \/ \E th \in Thread : InsertTask(th) \/ PostTask(th)
               \/ MarsStep
               \/ HandlerStep
               \/ UNCHANGED netVars,
               UNCHANGED task
        PROVE  Steady
    BY <1>1, AliveStep DEF Steady
  <1>2. CASE UiStep
    BY <1>1, <1>2 DEF UiStep, ClickSend, CloseVerifyWnd, HandleCustomMessage, Stop, HandlerStep,
       taskVars
  <1>3. CASE TableStep
    BY <1>1, <1>3 DEF TableStep, MarsStep, loginVars
  <1>4. CASE LinkStep
    <2>1. ASSUME NEW t \in TaskId, NEW packed \in BOOLEAN, Send(t, packed) PROVE Steady
      <3>1. MarsStep
        BY <2>1 DEF Send, MarsStep
      <3>2. UNCHANGED cgi /\ \A u \in TaskId : Alive(u)' => Alive(u)
        BY <3>1, AliveStep
      <3>3. \A u \in TaskId : /\ task'[u].user = task[u].user
                              /\ task'[u].option = task[u].option
                              /\ task'[u].ticket = task[u].ticket
        BY <2>1 DEF Send, ManualAuthReq2Buf, BindReq2Buf, LoginTypeOK
      <3> QED
        BY <3>2, <3>3 DEF Steady
    <2>2. CASE BreakLink \/ \E t \in TaskId : DeleteShortLink(t) \/ Timeout(t)
      BY <1>1, <2>2 DEF BreakLink, DeleteShortLink, Timeout, MarsStep
    <2>3. ASSUME NEW t \in TaskId, TaskEnd(t) PROVE Steady
      <3>1. HandlerStep
        BY <2>3 DEF TaskEnd, HandlerStep
      <3>2. UNCHANGED cgi /\ \A u \in TaskId : Alive(u)' => Alive(u)
        BY <3>1, AliveStep
      <3>3. task'[t] = NoData /\ \A u \in TaskId \ {t} : task'[u] = task[u]
        BY <2>3 DEF TaskEnd, LoginTypeOK
      <3>4. t \notin map_task_' /\ t \in lst_cmd_ /\ UNCHANGED startVars
        BY <2>3 DEF TaskEnd, OnTaskEnd, NetInv, ListsConsistent
      <3>5. ~Alive(t)'
        BY <3>4 DEF Alive, NetInv, StartersOwnTask, startVars
      <3> QED
        BY <3>2, <3>3, <3>5 DEF Steady
    <2>4. CASE \E w \in wire : Answer(w)
      BY <1>1, <2>4 DEF OneAnswer, Answer, HandlerStep
    <2> QED
      BY <1>4, <2>1, <2>2, <2>3, <2>4 DEF LinkStep
  <1>5. CASE AnswerStep
    <2>1. CASE CallBack \/ Quit \/ HandlerDone
      BY <1>1, <2>1 DEF CallBack, Quit, HandlerDone, HandlerStep, loginVars, taskVars
    <2> QED
      BY <1>1, <1>5, <2>1 DEF AnswerStep, DecodeManualAuth, SaveMobileNum, DecodeBind,
         LoginCallBack, MobileVerifyCallBack, PostError, Post, taskVars
  <1>6. CASE UNCHANGED vars
    BY <1>1, <1>6 DEF vars, loginVars
  <1> QED
    BY <1>2, <1>3, <1>4, <1>5, <1>6 DEF LoginNext

(* A task that is starting to be done stays so until it is gone. *)
LEMMA DoneStep ==
    ASSUME NetInv, OneAnswer, [LoginNext]_vars, NEW t \in TaskId, Done(t), Alive(t)'
    PROVE  Done(t)'
  <1> USE LoginThreads
  <1>1. CASE t \in ending
    <2>1. t \in ending'
      <3>1. CASE CallStep
        BY <1>1, <3>1 DEF CallStep, NewTask, InsertTask, PostTask
      <3>2. CASE MarsStep
        BY <1>1, <3>2 DEF MarsStep, NetCoreStartTask, RunOnStartTask, ShortLinkError, TaskTimeout,
           LinkError, Connect, NetIdle
      <3>3. CASE HandlerStep
        <4>1. ASSUME NEW u \in TaskId, OnTaskEnd(u) PROVE t \in ending'
          <5>1. CASE u = t
            <6>1. t \notin map_task_' /\ t \in lst_cmd_ /\ UNCHANGED startVars
              BY <1>1, <4>1, <5>1 DEF OnTaskEnd, NetInv, ListsConsistent
            <6>2. ~Alive(t)'
              BY <6>1 DEF Alive, NetInv, StartersOwnTask, startVars
            <6> QED
              BY <6>2
          <5>2. CASE u # t
            BY <1>1, <4>1, <5>2 DEF OnTaskEnd
          <5> QED
            BY <5>1, <5>2
        <4> QED
          BY <1>1, <3>3, <4>1 DEF HandlerStep, Buf2Resp, DoCallBack, CallBackReturn, ForceQuit,
             OnPush, HandlerReturn, StopSDK, NetIdle, NetInv, ListsConsistent
      <3>4. CASE UNCHANGED netVars
        BY <1>1, <3>4 DEF netVars
      <3> QED
        BY <3>1, <3>2, <3>3, <3>4, LoginIsNetStep DEF NetNext
    <2> QED
      BY <2>1 DEF Done
  <1>2. CASE t = cur /\ net = "DoCallBack" /\ todo = "none"
    <2>1. CASE UiStep
      <3>1. ~Stop
        BY <1>2 DEF Stop, StopSDK, NetIdle
      <3>2. UNCHANGED <<net, cur, todo>>
        BY <2>1, <3>1 DEF UiStep, ClickLogin, ClickSend, SendMobileVerifyCode, NewBind,
           CloseVerifyWnd, HandleCustomMessage, NewTask, netVars
      <3> QED
        BY <1>2, <3>2 DEF Done
    <2>2. CASE TableStep
      <3>1. UNCHANGED <<net, cur, todo>>
        BY <2>2 DEF TableStep, InsertTask, PostTask, NetCoreStartTask, Connect, loginVars
      <3> QED
        BY <1>2, <3>1 DEF Done
    <2>3. ~LinkStep
      BY <1>2 DEF LinkStep, Send, RunOnStartTask, BreakLink, LinkError, DeleteShortLink,
         ShortLinkError, Timeout, TaskTimeout, TaskEnd, OnTaskEnd, Answer, Buf2Resp, NetIdle
    <2>4. CASE AnswerStep
      <3>1. HandlerDone
        BY <1>2, <2>4 DEF AnswerStep, DecodeManualAuth, DecodeBind, Decoding, SaveMobileNum,
           CallBack, DoCallBack, LoginCallBack, MobileVerifyCallBack, PostError,
           RecvMobileVerifyCode, Quit
      <3>2. ending' = {cur}
        BY <1>2, <3>1 DEF HandlerDone, CallBackReturn, HandlerReturn
      <3> QED
        BY <1>2, <3>2 DEF Done
    <2>5. CASE UNCHANGED vars
      BY <1>2, <2>5 DEF vars, netVars, loginVars, Done
    <2> QED
      BY <2>1, <2>2, <2>3, <2>4, <2>5 DEF LoginNext
  <1> QED
    BY <1>1, <1>2 DEF Done

(* The members of a new login, and of a new Bind. *)
LEMMA LoginCreated ==
    ASSUME LoginTypeOK, NEW u \in User, ClickLogin(u)
    PROVE  \E t \in TaskId :
             /\ NewTask(UI, t, "ManualAuth")
             /\ \A x \in TaskId \ {t} : task'[x] = task[x]
             /\ task'[t].user = u /\ task'[t].option = 0
             /\ task'[t].m_strPwd = 0 /\ task'[t].m_strAesKey = 0
  <1>1. PICK t \in TaskId : /\ NewTask(UI, t, "ManualAuth")
                            /\ task' = [task EXCEPT ![t] = [NoData EXCEPT !.user = u]]
    BY DEF ClickLogin
  <1>2. (\A x \in TaskId \ {t} : task'[x] = task[x]) /\ task'[t] = [NoData EXCEPT !.user = u]
    BY <1>1 DEF LoginTypeOK
  <1> QED
    BY <1>1, <1>2 DEF NoData

(* The members of a new Bind task: what its creator passed, and no key     *)
(* yet.                                                                    *)
LEMMA BindCreated ==
    ASSUME LoginTypeOK, NEW th, NEW n, NEW k, NEW o, NewBind(th, n, k, o)
    PROVE  \E t \in TaskId :
             /\ NewTask(th, t, "ShortCgi")
             /\ \A x \in TaskId \ {t} : task'[x] = task[x]
             /\ task'[t].user = n /\ task'[t].option = o /\ task'[t].ticket = k
             /\ task'[t].m_strPwd = 0 /\ task'[t].m_strAesKey = 0
  <1> DEFINE d == [NoData EXCEPT !.user = n, !.ticket = k, !.option = o]
  <1>1. PICK t \in TaskId : NewTask(th, t, "ShortCgi") /\ task' = [task EXCEPT ![t] = d]
    BY DEF NewBind
  <1>2. d.user = n
    BY DEF NoData
  <1>3. d.ticket = k
    BY DEF NoData
  <1>4. d.option = o
    BY DEF NoData
  <1>5. d.m_strPwd = 0
    BY DEF NoData
  <1>6. d.m_strAesKey = 0
    BY DEF NoData
  <1> HIDE DEF d
  <1>7. task'[t] = d /\ \A x \in TaskId \ {t} : task'[x] = task[x]
    BY <1>1 DEF LoginTypeOK
  <1> QED
    BY <1>1, <1>2, <1>3, <1>4, <1>5, <1>6, <1>7

(* Logins are for an account, and no other kind of task is ever started. *)
LEMMA KindsStep ==
    ASSUME NetInv, LoginTypeOK, OneAnswer, TaskKinds, [LoginNext]_vars
    PROVE  TaskKinds'
  <1> USE LoginThreads
  <1>1. CASE Steady
    BY <1>1 DEF Steady, TaskKinds
  <1>2. ASSUME NEW u \in User, ClickLogin(u) PROVE TaskKinds'
    <2>1. PICK t \in TaskId : /\ NewTask(UI, t, "ManualAuth")
                              /\ \A x \in TaskId \ {t} : task'[x] = task[x]
                              /\ task'[t].user = u
      BY <1>2, LoginCreated
    <2> QED
      BY <2>1, NewTaskAlive DEF TaskKinds, Cgi
  <1>3. ASSUME NEW th \in Thread, NEW number, NEW ticket, NEW option,
               NewBind(th, number, ticket, option)
        PROVE  TaskKinds'
    <2>1. PICK t \in TaskId : /\ NewTask(th, t, "ShortCgi")
                              /\ \A x \in TaskId \ {t} : task'[x] = task[x]
      BY <1>3, BindCreated
    <2> QED
      BY <2>1, NewTaskAlive DEF TaskKinds, Cgi
  <1> QED
    BY <1>1, <1>2, <1>3, SteadyStep DEF SendMobileVerifyCode, RecvMobileVerifyCode

(* The handler goes on with what it has written, whatever the other thread *)
(* does meanwhile.                                                         *)
LEMMA HandlerFitsStep ==
    ASSUME NetInv, LoginTypeOK, OneAnswer, TaskKinds, HandlerFits, [LoginNext]_vars
    PROVE  HandlerFits'
  <1> USE LoginThreads
  <1>1. ASSUME todo' = "none" PROVE HandlerFits'
    BY <1>1 DEF HandlerFits
  <1>2. ASSUME UNCHANGED <<net, cur, todo, authInfo>>,
               todo # "none" => cgi'[cur] = cgi[cur] /\ task'[cur] = task[cur]
        PROVE  HandlerFits'
    BY <1>2 DEF HandlerFits, authInfo
  <1>3. CASE UiStep
    <2>1. ASSUME NEW th \in Thread, NEW t \in TaskId, NEW k \in Cgi, NewTask(th, t, k),
                 \A x \in TaskId \ {t} : task'[x] = task[x], UNCHANGED <<todo, authInfo>>
          PROVE  HandlerFits'
      <3>1. cur # t /\ UNCHANGED <<net, cur>> /\ \A x \in TaskId \ {t} : cgi'[x] = cgi[x]
        BY <2>1, NewTaskAlive
      <3>2. todo # "none" => cur \in TaskId
        BY CurIsTask DEF HandlerFits
      <3> QED
        BY <1>2, <2>1, <3>1, <3>2
    <2>2. CASE \E u \in User : ClickLogin(u)
      <3>1. UNCHANGED <<todo, authInfo>>
        BY <2>2 DEF ClickLogin
      <3> QED
        BY <2>1, <2>2, <3>1, LoginCreated DEF Cgi
    <2>3. CASE SendMobileVerifyCode
      <3>1. UNCHANGED <<todo, authInfo>>
        BY <2>3 DEF SendMobileVerifyCode
      <3> QED
        BY <2>1, <2>3, <3>1, BindCreated DEF SendMobileVerifyCode, Cgi
    <2>4. CASE ClickSend \/ CloseVerifyWnd \/ HandleCustomMessage \/ Stop
      BY <1>2, <2>4 DEF ClickSend, CloseVerifyWnd, HandleCustomMessage, Stop, StopSDK, netVars,
         taskVars
    <2> QED
      BY <1>3, <2>2, <2>3, <2>4 DEF UiStep
  <1>4. CASE TableStep
    BY <1>2, <1>4 DEF TableStep, InsertTask, PostTask, NetCoreStartTask, Connect, loginVars,
       authInfo
  <1>5. CASE LinkStep
    <2>1. net = "loop" /\ todo = "none"
      BY <1>5 DEF LinkStep, Send, RunOnStartTask, BreakLink, LinkError, DeleteShortLink,
         ShortLinkError, Timeout, TaskTimeout, TaskEnd, OnTaskEnd, Answer, Buf2Resp, NetIdle,
         HandlerFits
    <2>2. CASE \E w \in wire : Answer(w)
      <3>1. net' = "Buf2Resp" /\ todo' = "decode"
        BY <2>2, AnswerFound DEF Answer
      <3> QED
        BY <3>1 DEF HandlerFits
    <2> QED
      BY <1>1, <1>5, <2>1, <2>2 DEF LinkStep, Send, BreakLink, DeleteShortLink, Timeout, TaskEnd
  <1>6. CASE AnswerStep
    <2>1. CASE DecodeManualAuth
      <3>1. /\ net = "Buf2Resp" /\ cgi[cur] = "ManualAuth" /\ UNCHANGED <<net, cur, cgi, task>>
            /\ todo' \in {"succ", "number", "qrcode", "fail", "quit"}
        BY <2>1 DEF DecodeManualAuth, Decoding, netVars
      <3>2. task[cur].user \in User /\ task[cur].user # NoUser
        BY <3>1, CurIsTask, LoginAssumption DEF TaskKinds
      <3>3. todo' = "number" => m_mobilecode_authticket' = task[cur].user
        BY <2>1 DEF DecodeManualAuth
      <3>4. todo' = "succ" => m_Session' = task[cur].user
        BY <2>1 DEF DecodeManualAuth
      <3> QED
        BY <3>1, <3>2, <3>3, <3>4 DEF HandlerFits
    <2>2. CASE SaveMobileNum
      <3>1. /\ todo = "number" /\ todo' = "mobile" /\ m_mobileNum' = task[cur].user
            /\ UNCHANGED <<net, cur, cgi, task, m_mobilecode_authticket>>
        BY <2>2 DEF SaveMobileNum, netVars, taskVars
      <3>2. net = "Buf2Resp" /\ cgi[cur] = "ManualAuth" /\ m_mobilecode_authticket = task[cur].user
        BY <3>1 DEF HandlerFits
      <3>3. task[cur].user # NoUser
        BY <3>2, CurIsTask, LoginAssumption DEF TaskKinds
      <3> QED
        BY <3>1, <3>2, <3>3 DEF HandlerFits
    <2>3. CASE DecodeBind
      <3>1. net' = "Buf2Resp" /\ todo' \in {"bind", "fail", "quit"}
        BY <2>3 DEF DecodeBind, Decoding, netVars
      <3> QED
        BY <3>1 DEF HandlerFits
    <2>4. CASE CallBack
      <3>1. /\ net' = "DoCallBack" /\ todo \notin {"decode", "number"}
            /\ UNCHANGED <<cur, cgi, todo, authInfo>>
        BY <2>4 DEF CallBack, DoCallBack, loginVars, authInfo
      <3> QED
        BY <3>1 DEF HandlerFits, authInfo
    <2>5. CASE LoginCallBack \/ MobileVerifyCallBack \/ PostError \/ RecvMobileVerifyCode \/ Quit
      BY <1>1, <2>5 DEF LoginCallBack, MobileVerifyCallBack, PostError, Post,
         RecvMobileVerifyCode, Quit
    <2>6. CASE HandlerDone
      BY <1>1, <2>6 DEF HandlerDone, loginVars
    <2> QED
      BY <1>6, <2>1, <2>2, <2>3, <2>4, <2>5, <2>6 DEF AnswerStep
  <1>7. CASE UNCHANGED vars
    BY <1>2, <1>7 DEF vars, netVars, loginVars, authInfo
  <1> QED
    BY <1>3, <1>4, <1>5, <1>6, <1>7 DEF LoginNext

(* The Bind task that asks for a code names one account only. *)
LEMMA TicketStep ==
    ASSUME NetInv, LoginTypeOK, OneAnswer, HandlerFits, TicketOfNumber, [LoginNext]_vars
    PROVE  TicketOfNumber'
  <1> USE LoginThreads
  <1> USE DEF TicketOfNumber, MakeReq
  <1>1. CASE Steady
    <2>1. NoData.option # 10
      BY DEF NoData
    <2> QED
      BY <1>1, <2>1 DEF Steady
  <1>2. CASE \E u \in User : ClickLogin(u)
    BY <1>2, LoginCreated
  <1>3. CASE SendMobileVerifyCode
    BY <1>3, BindCreated DEF SendMobileVerifyCode
  <1>4. CASE RecvMobileVerifyCode
    <2>1. m_mobileNum # NoUser /\ m_mobilecode_authticket = m_mobileNum
      BY <1>4 DEF RecvMobileVerifyCode, HandlerFits
    <2> QED
      BY <1>4, <2>1, BindCreated DEF RecvMobileVerifyCode
  <1> QED
    BY <1>1, <1>2, <1>3, <1>4, SteadyStep

(***************************************************************************)
(* Answers.                                                                *)
(***************************************************************************)

(* An answer that can still come is the one to the last packing. *)
LEMMA WireStep ==
    ASSUME NetInv, LoginTypeOK, TaskKinds, AnswerFitsTask, OneAnswer, [LoginNext]_vars
    PROVE  AnswerFitsTask' /\ OneAnswer'
  <1> USE LoginThreads
  <1>1. ASSUME wire' \subseteq wire, resent \subseteq resent',
               \A w \in wire' : w.task \notin resent' =>
                   /\ w.task \in running_id' \ ending'
                   /\ task'[w.task] = task[w.task]
                   /\ net' \in {"Buf2Resp", "DoCallBack"} => w.task # cur'
        PROVE  AnswerFitsTask' /\ OneAnswer'
    BY <1>1 DEF AnswerFitsTask, OneAnswer
  <1>2. ASSUME wire' \subseteq wire, resent' = resent, ending' = ending,
               UNCHANGED <<running_id, task, net, cur>>
        PROVE  AnswerFitsTask' /\ OneAnswer'
    BY <1>1, <1>2 DEF AnswerFitsTask, OneAnswer
  <1>3. ASSUME NEW th \in Thread, NEW t \in TaskId, NEW k \in Cgi, NewTask(th, t, k),
               \A x \in TaskId \ {t} : task'[x] = task[x], UNCHANGED <<wire, resent>>
        PROVE  AnswerFitsTask' /\ OneAnswer'
    <2>1. t \notin running_id /\ UNCHANGED <<running_id, ending, net, cur>>
      BY <1>3, NewTaskAlive DEF marsVars, NetInv, ListsConsistent
    <2> QED
      BY <1>1, <1>3, <2>1 DEF AnswerFitsTask, OneAnswer
  <1>4. CASE UiStep
    <2>1. CASE \E u \in User : ClickLogin(u)
      <3>1. UNCHANGED <<wire, resent>>
        BY <2>1 DEF ClickLogin
      <3> QED
        BY <1>3, <2>1, <3>1, LoginCreated DEF Cgi
    <2>2. CASE SendMobileVerifyCode
      <3>1. UNCHANGED <<wire, resent>>
        BY <2>2 DEF SendMobileVerifyCode
      <3> QED
        BY <1>3, <2>2, <3>1, BindCreated DEF SendMobileVerifyCode, Cgi
    <2>3. CASE ClickSend \/ CloseVerifyWnd \/ HandleCustomMessage
      BY <1>2, <2>3 DEF ClickSend, CloseVerifyWnd, HandleCustomMessage, netVars, taskVars
    <2>4. CASE Stop
      BY <1>1, <2>4 DEF Stop
    <2> QED
      BY <1>4, <2>1, <2>2, <2>3, <2>4 DEF UiStep
  <1>5. CASE TableStep
    BY <1>2, <1>5 DEF TableStep, InsertTask, PostTask, NetCoreStartTask, Connect, loginVars,
       marsVars
  <1>6. ASSUME NEW t \in TaskId, NEW packed \in BOOLEAN, Send(t, packed)
        PROVE  AnswerFitsTask' /\ OneAnswer'
    <2> DEFINE d == IF cgi[t] = "ManualAuth" THEN ManualAuthReq2Buf(t) ELSE BindReq2Buf(t)
               r == MakeAccountReq(t, d)
    <2>1. /\ t \notin running_id /\ ending = {} /\ net' = "loop"
          /\ running_id' \in {running_id, running_id \cup {t}}
          /\ ending' \subseteq {t} /\ UNCHANGED <<resent>>
          /\ wire' = IF t \in running_id' THEN wire \cup {r} ELSE wire
          /\ task' = [task EXCEPT ![t] = d]
      BY <1>6 DEF Send, RunOnStartTask, NetIdle
    <2>2. t \in running_id' => ending' = {}
      <3>1. cgi[t] \notin SendOnly
        BY DEF TaskKinds, SendOnly
      <3> QED
        BY <1>6, <2>1, <3>1 DEF Send, RunOnStartTask
    <2>3. task'[t] = d /\ \A x \in TaskId \ {t} : task'[x] = task[x]
      BY <2>1 DEF LoginTypeOK
    <2>4. r.task = t /\ r.m_strAesKey = d.m_strAesKey
      BY DEF MakeAccountReq
    <2>5. \A w \in wire : w.task = t => w.task \in resent
      BY <2>1 DEF AnswerFitsTask
    <2> HIDE DEF d, r
    <2>6. ASSUME NEW w \in wire', w.task \notin resent'
          PROVE  w.task \in running_id' \ ending' /\ w.m_strAesKey = task'[w.task].m_strAesKey
      BY <2>1, <2>2, <2>3, <2>4, <2>5, <2>6 DEF AnswerFitsTask, OneAnswer
    <2>7. AnswerFitsTask'
      BY <2>6 DEF AnswerFitsTask
    <2>8. OneAnswer'
      BY <2>1, <2>4, <2>5 DEF OneAnswer
    <2> QED
      BY <2>7, <2>8
  <1>7. CASE BreakLink
    <2>1. /\ ending = {} /\ net' = "loop" /\ UNCHANGED task /\ ending' \subseteq RunningLong
          /\ running_id \ RunningLong \subseteq running_id'
      BY <1>7 DEF BreakLink, LinkError, NetIdle, RetryOrEnd
    <2>2. CASE ~connected'
      <3>1. wire' = Without(OnLink) /\ UNCHANGED resent
        BY <1>7, <2>2 DEF BreakLink
      <3>2. \A w \in wire' : w \in wire /\ w.task \notin RunningLong
        BY <3>1 DEF Without, OnLink, RunningLong, OneAnswer
      <3> QED
        BY <1>1, <2>1, <3>1, <3>2 DEF AnswerFitsTask
    <2>3. CASE connected'
      <3>1. wire' \subseteq wire /\ resent' = resent \cup RunningLong
        BY <1>7, <2>3 DEF BreakLink
      <3> QED
        BY <1>1, <2>1, <3>1 DEF AnswerFitsTask
    <2> QED
      BY <2>2, <2>3
  <1>8. ASSUME NEW t \in TaskId, DeleteShortLink(t)
        PROVE  AnswerFitsTask' /\ OneAnswer'
    <2>1. /\ ending = {} /\ net' = "loop" /\ UNCHANGED <<task, resent>> /\ ending' \subseteq {t}
          /\ running_id \ {t} \subseteq running_id' /\ wire' = Without({t})
      BY <1>8 DEF DeleteShortLink, ShortLinkError, NetIdle, RetryOrEnd
    <2>2. \A w \in wire' : w \in wire /\ w.task # t
      BY <2>1 DEF Without
    <2> QED
      BY <1>1, <2>1, <2>2 DEF AnswerFitsTask
  <1>9. ASSUME NEW t \in TaskId, Timeout(t)
        PROVE  AnswerFitsTask' /\ OneAnswer'
    <2> DEFINE S == IF cgi[t] \in LongConn THEN RunningLong ELSE {}
    <2>1. /\ ending = {} /\ net' = "loop" /\ UNCHANGED <<task, resent>>
          /\ ending' \subseteq S \cup {t} /\ running_id \ (S \cup {t}) \subseteq running_id'
          /\ wire' = Without(IF cgi[t] \in LongConn THEN OnLink ELSE {t})
      BY <1>9 DEF Timeout, TaskTimeout, NetIdle, RetryOrEnd
    <2>2. \A w \in wire' : w \in wire /\ w.task \notin S \cup {t}
      BY <2>1 DEF Without, OnLink, RunningLong, OneAnswer
    <2> HIDE DEF S
    <2> QED
      BY <1>1, <2>1, <2>2 DEF AnswerFitsTask
  <1>10. ASSUME NEW t \in TaskId, TaskEnd(t)
         PROVE  AnswerFitsTask' /\ OneAnswer'
    <2>1. /\ net' = "OnTaskEnd" /\ wire' = Without({t}) /\ resent' = resent \ {t}
          /\ running_id' = running_id \ {t} /\ ending' = ending \ {t}
          /\ \A x \in TaskId \ {t} : task'[x] = task[x]
      BY <1>10 DEF TaskEnd, OnTaskEnd, LoginTypeOK
    <2>2. \A w \in wire' : w \in wire /\ w.task # t
      BY <2>1 DEF Without
    <2> QED
      BY <2>1, <2>2 DEF AnswerFitsTask, OneAnswer
  <1>11. ASSUME NEW w \in wire, Answer(w)
         PROVE  AnswerFitsTask' /\ OneAnswer'
    <2>1. /\ wire' = wire \ {w} /\ ending' = {} /\ cur' = w.task
          /\ UNCHANGED <<task, resent, running_id>>
      BY <1>11, AnswerFound DEF Answer, marsVars
    <2>2. \A v \in wire' : v \in wire /\ (v.task \notin resent => v.task # w.task)
      BY <2>1 DEF OneAnswer
    <2> QED
      BY <1>1, <2>1, <2>2 DEF AnswerFitsTask
  <1>12. CASE AnswerStep
    <2>1. UNCHANGED <<wire, resent>>
      BY <1>12 DEF AnswerStep, DecodeManualAuth, SaveMobileNum, DecodeBind, CallBack,
         LoginCallBack, MobileVerifyCallBack, PostError, Post, RecvMobileVerifyCode, Quit,
         HandlerDone, loginVars, taskVars
    <2>2. CASE RecvMobileVerifyCode
      BY <1>3, <2>1, <2>2, BindCreated DEF RecvMobileVerifyCode, Cgi
    <2>3. CASE CallBack \/ Quit
      <3>1. /\ UNCHANGED <<running_id, ending, cur, task>> /\ net \in {"Buf2Resp", "DoCallBack"}
        BY <2>3 DEF CallBack, DoCallBack, Quit, ForceQuit, marsVars, loginVars, taskVars
      <3> QED
        BY <1>1, <2>1, <3>1 DEF AnswerFitsTask, OneAnswer
    <2>4. CASE HandlerDone
      <3>1. UNCHANGED <<running_id, task>> /\ net' = "loop"
        BY <2>4 DEF HandlerDone, CallBackReturn, HandlerReturn, marsVars, loginVars
      <3>2. ending' = ending \/ (net = "DoCallBack" /\ ending' = {cur})
        BY <2>4 DEF HandlerDone, CallBackReturn, HandlerReturn
      <3> QED
        BY <1>1, <2>1, <3>1, <3>2 DEF AnswerFitsTask, OneAnswer
    <2>5. CASE \/ DecodeManualAuth \/ SaveMobileNum \/ DecodeBind
               \/ LoginCallBack \/ MobileVerifyCallBack \/ PostError
      <3>1. UNCHANGED <<running_id, ending, net, cur, task>>
        BY <2>5 DEF DecodeManualAuth, SaveMobileNum, DecodeBind, LoginCallBack,
           MobileVerifyCallBack, PostError, Post, netVars, taskVars
      <3> QED
        BY <1>2, <2>1, <3>1
    <2> QED
      BY <1>12, <2>2, <2>3, <2>4, <2>5 DEF AnswerStep
  <1>13. CASE UNCHANGED vars
    BY <1>2, <1>13 DEF vars, netVars, loginVars
  <1> QED
    BY <1>4, <1>5, <1>6, <1>7, <1>8, <1>9, <1>10, <1>11, <1>12, <1>13 DEF LoginNext, LinkStep

(***************************************************************************)
(* One login.                                                              *)
(***************************************************************************)

(* Which messages are successes after one was posted, and after one was    *)
(* taken.                                                                  *)
LEMMA SucceededAppend ==
    ASSUME inbox \in Seq(Message), NEW m \in Message, inbox' = Append(inbox, m), NEW i
    PROVE  Succeeded(i)' => Succeeded(i) \/ (i = Len(inbox) + 1 /\ m = "WM_LOGIN_SUCC")
  <1>1. /\ Len(inbox') = Len(inbox) + 1 /\ Len(inbox) \in Nat
        /\ \A j \in 1..Len(inbox) : inbox'[j] = inbox[j]
        /\ inbox'[Len(inbox) + 1] = m
    BY AppendProperties
  <1>2. ASSUME i \in 1..(Len(inbox) + 1) PROVE i \in 1..Len(inbox) \/ i = Len(inbox) + 1
    BY <1>1, <1>2
  <1> QED
    BY <1>1, <1>2 DEF Succeeded

(* The same after the login window has taken the first message. *)
LEMMA SucceededTail ==
    ASSUME inbox \in Seq(Message), inbox # <<>>, inbox' = Tail(inbox)
    PROVE  /\ Head(inbox) = "WM_LOGIN_SUCC" <=> Succeeded(1)
           /\ \A i : Succeeded(i)' => i \in Nat \ {0} /\ Succeeded(i + 1)
  <1>1. /\ Len(inbox') = Len(inbox) - 1 /\ Len(inbox) \in Nat \ {0}
        /\ \A j \in 1..Len(inbox') : inbox'[j] = inbox[j + 1]
    BY HeadTailProperties, EmptySeq
  <1>2. Head(inbox) = inbox[1]
    OBVIOUS
  <1>3. 1 \in 1..Len(inbox)
    BY <1>1
  <1>4. ASSUME NEW i, Succeeded(i)' PROVE i \in Nat \ {0} /\ Succeeded(i + 1)
    <2>1. i \in 1..(Len(inbox) - 1) /\ inbox[i + 1] = "WM_LOGIN_SUCC"
      BY <1>1, <1>4 DEF Succeeded
    <2>2. i \in Nat \ {0} /\ i + 1 \in 1..Len(inbox)
      BY <1>1, <2>1
    <2> QED
      BY <2>1, <2>2 DEF Succeeded
  <1> QED
    BY <1>2, <1>3, <1>4 DEF Succeeded

(* A step that adds no login, no success and no window keeps it one. *)
LEMMA OneLoginKept ==
    ASSUME NetInv, OneAnswer, OneLogin, [LoginNext]_vars,
           \A t \in TaskId : IsLogin(t)' => IsLogin(t),
           \A i : Succeeded(i)' => Succeeded(i),
           again' = again, mainWnd' = mainWnd,
           m_Session' = m_Session \/ m_Session' # NoUser
    PROVE  OneLogin'
  <1>1. \A t \in TaskId : IsLogin(t)' /\ Done(t) => Done(t)'
    BY DoneStep DEF IsLogin
  <1>2. \A i : Succeeded(i)' => i \in 1..Len(inbox)
    BY DEF Succeeded
  <1> QED
    BY <1>1, <1>2 DEF OneLogin

(* The login button is clicked while nothing of an earlier login is left,  *)
(* or again is set.                                                        *)
LEMMA OneLoginClick ==
    ASSUME NetInv, LoginTypeOK, NEW u \in User, ClickLogin(u)
    PROVE  OneLogin'
  <1> USE LoginThreads
  <1> SUFFICES ASSUME ~again' PROVE OneLogin'
    BY DEF OneLogin
  <1>1. ~LoginUnderWay /\ mainWnd' = 0 /\ UNCHANGED inbox
    BY DEF ClickLogin
  <1>2. PICK t \in TaskId : NewTask(UI, t, "ManualAuth")
    BY LoginCreated
  <1>3. \A x \in TaskId : ~IsLogin(x)
    BY <1>1, NetworkAssumption DEF LoginUnderWay, IsLogin, Alive
  <1>4. \A x \in TaskId : IsLogin(x)' => x = t
    BY <1>2, <1>3, NewTaskAlive DEF IsLogin, Cgi
  <1>5. \A i : ~Succeeded(i)'
    BY <1>1 DEF LoginUnderWay, Succeeded
  <1> QED
    BY <1>1, <1>4, <1>5 DEF OneLogin

(* The callback posts the success of the only login, which is then done. *)
LEMMA OneLoginPosted ==
    ASSUME NetInv, LoginTypeOK, OneAnswer, HandlerFits, OneLogin, LoginCallBack
    PROVE  OneLogin'
  <1> SUFFICES ASSUME ~again PROVE OneLogin'
    BY DEF OneLogin, LoginCallBack, Post, uiVars
  <1>1. /\ todo = "succ" /\ todo' = "none" /\ net = "DoCallBack"
        /\ inbox' = Append(inbox, "WM_LOGIN_SUCC")
        /\ UNCHANGED <<netVars, m_Session, mainWnd, again>>
    BY DEF LoginCallBack, Post, authInfo, uiVars
  <1>2. cgi[cur] = "ManualAuth" /\ m_Session # NoUser
    BY <1>1 DEF HandlerFits
  <1>3. cur \in TaskId /\ Alive(cur) /\ ending = {}
    BY <1>1, CurIsTask
  <1>4. IsLogin(cur) /\ ~Done(cur)
    BY <1>1, <1>2, <1>3 DEF IsLogin, Done
  <1>5. mainWnd \in Nat /\ mainWnd # 1 /\ mainWnd <= 1 /\ \A i \in 1..Len(inbox) : ~Succeeded(i)
    BY <1>3, <1>4 DEF OneLogin, LoginTypeOK
  <1>6. \A i : Succeeded(i)' => i = Len(inbox) + 1
    <2>1. inbox \in Seq(Message) /\ "WM_LOGIN_SUCC" \in Message
      BY DEF LoginTypeOK, Message
    <2> QED
      BY <1>1, <1>5, <2>1, SucceededAppend DEF Succeeded
  <1>7. \A t \in TaskId : IsLogin(t)' => t = cur
    <2>1. \A t \in TaskId : IsLogin(t)' => IsLogin(t)
      BY <1>1 DEF IsLogin, Alive, netVars
    <2> QED
      BY <1>3, <1>4, <2>1 DEF OneLogin
  <1>8. Done(cur)' /\ cur' = cur
    BY <1>1 DEF Done, netVars
  <1> QED
    BY <1>1, <1>2, <1>3, <1>5, <1>6, <1>7, <1>8 DEF OneLogin

(* The login window handles a success: it was the only one. *)
LEMMA OneLoginHandled ==
    ASSUME NetInv, LoginTypeOK, OneLogin, HandleCustomMessage
    PROVE  OneLogin'
  <1> SUFFICES ASSUME ~again PROVE OneLogin'
    BY DEF OneLogin, HandleCustomMessage
  <1>1. /\ inbox \in Seq(Message) /\ inbox # <<>> /\ inbox' = Tail(inbox)
        /\ mainWnd' = mainWnd + (IF Head(inbox) = "WM_LOGIN_SUCC" THEN 1 ELSE 0)
        /\ UNCHANGED <<netVars, todo, m_Session, again>>
    BY DEF HandleCustomMessage, LoginTypeOK, authInfo
  <1>2. /\ Head(inbox) = "WM_LOGIN_SUCC" <=> Succeeded(1)
        /\ \A i : Succeeded(i)' => i \in Nat \ {0} /\ Succeeded(i + 1)
    BY <1>1, SucceededTail
  <1>3. \A t \in TaskId : (IsLogin(t)' <=> IsLogin(t)) /\ (Done(t)' <=> Done(t))
    BY <1>1 DEF IsLogin, Alive, Done, netVars
  <1>4. mainWnd \in Nat /\ mainWnd <= 1
    BY DEF OneLogin, LoginTypeOK
  <1>5. \A i : Succeeded(i) => i \in 1..Len(inbox)
    BY DEF Succeeded
  <1>6. CASE Succeeded(1)
    <2>1. mainWnd = 0 /\ mainWnd' = 1
      BY <1>1, <1>2, <1>4, <1>5, <1>6 DEF OneLogin
    <2>2. \A i : ~Succeeded(i)'
      <3>1. ASSUME NEW i \in Nat \ {0}, Succeeded(i + 1) PROVE FALSE
        <4>1. i + 1 = 1
          BY <1>5, <1>6, <3>1 DEF OneLogin
        <4> QED
          BY <4>1
      <3> QED
        BY <1>2, <3>1
    <2> QED
      BY <1>1, <1>3, <1>5, <1>6, <2>1, <2>2 DEF OneLogin
  <1>7. CASE ~Succeeded(1)
    <2>1. mainWnd' = mainWnd
      BY <1>1, <1>2, <1>4, <1>7
    <2>2. \A i, j : Succeeded(i)' /\ Succeeded(j)' => i = j
      <3>1. ASSUME NEW i \in Nat \ {0}, NEW j \in Nat \ {0}, Succeeded(i + 1), Succeeded(j + 1)
            PROVE  i = j
        <4>1. i + 1 = j + 1
          BY <1>5, <3>1 DEF OneLogin
        <4> QED
          BY <4>1
      <3> QED
        BY <1>2, <3>1
    <2> QED
      BY <1>1, <1>2, <1>3, <1>5, <2>1, <2>2 DEF OneLogin
  <1> QED
    BY <1>6, <1>7

(* There is one login, unless the button was clicked too early. *)
LEMMA OneLoginStep ==
    ASSUME NetInv, LoginTypeOK, OneAnswer, TaskKinds, HandlerFits, OneLogin, [LoginNext]_vars
    PROVE  OneLogin'
  <1> USE LoginThreads
  <1>1. ASSUME Steady, UNCHANGED <<inbox, again, mainWnd>>,
               m_Session' = m_Session \/ m_Session' # NoUser
        PROVE  OneLogin'
    BY <1>1, OneLoginKept DEF Steady, IsLogin, Succeeded
  <1>2. ASSUME NEW th \in Thread, NEW n, NEW k, NEW o, NewBind(th, n, k, o),
               UNCHANGED <<inbox, again, mainWnd, m_Session>>
        PROVE  OneLogin'
    <2>1. PICK t \in TaskId : NewTask(th, t, "ShortCgi")
      BY <1>2, BindCreated
    <2>2. \A x \in TaskId : IsLogin(x)' => IsLogin(x)
      BY <2>1, NewTaskAlive DEF IsLogin, Cgi
    <2> QED
      BY <1>2, <2>2, OneLoginKept DEF Succeeded
  <1>3. ASSUME NEW m \in Message, m # "WM_LOGIN_SUCC", Post(m) PROVE OneLogin'
    <2>1. inbox' = Append(inbox, m) /\ UNCHANGED <<netVars, again, mainWnd, m_Session>>
      BY <1>3 DEF Post, authInfo, uiVars
    <2>2. \A i : Succeeded(i)' => Succeeded(i)
      BY <1>3, <2>1, SucceededAppend DEF LoginTypeOK
    <2>3. \A x \in TaskId : IsLogin(x)' => IsLogin(x)
      BY <2>1 DEF IsLogin, Alive, netVars
    <2> QED
      BY <2>1, <2>2, <2>3, OneLoginKept
  <1>4. CASE SendMobileVerifyCode \/ RecvMobileVerifyCode
    BY <1>2, <1>4 DEF SendMobileVerifyCode, RecvMobileVerifyCode, authInfo, uiVars
  <1>5. CASE MobileVerifyCallBack \/ PostError
    BY <1>3, <1>5 DEF MobileVerifyCallBack, PostError, Message
  <1>6. CASE Steady /\ ~(LoginCallBack \/ MobileVerifyCallBack \/ PostError \/ HandleCustomMessage
                         \/ SendMobileVerifyCode \/ RecvMobileVerifyCode
                         \/ \E u \in User : ClickLogin(u))
    <2>1. UNCHANGED <<inbox, again, mainWnd>>
      <3>1. CASE UiStep
        BY <1>6, <3>1 DEF UiStep, ClickSend, CloseVerifyWnd, Stop, uiVars
      <3>2. CASE TableStep
        BY <3>2 DEF TableStep, loginVars
      <3>3. CASE LinkStep
        BY <3>3 DEF LinkStep, Send, BreakLink, DeleteShortLink, Timeout, TaskEnd, Answer, uiVars
      <3>4. CASE AnswerStep
        BY <1>6, <3>4 DEF AnswerStep, DecodeManualAuth, SaveMobileNum, DecodeBind, CallBack, Quit,
           HandlerDone, uiVars, loginVars
      <3>5. CASE UNCHANGED vars
        BY <3>5 DEF vars, loginVars
      <3> QED
        BY <3>1, <3>2, <3>3, <3>4, <3>5 DEF LoginNext
    <2>2. CASE DecodeManualAuth
      <3>1. task[cur].user # NoUser
        <4>1. net = "Buf2Resp" /\ cgi[cur] = "ManualAuth"
          BY <2>2 DEF DecodeManualAuth, Decoding
        <4> QED
          BY <4>1, CurIsTask, LoginAssumption DEF TaskKinds
      <3>2. m_Session' = m_Session \/ m_Session' = task[cur].user
        BY <2>2 DEF DecodeManualAuth
      <3> QED
        BY <1>1, <1>6, <2>1, <3>1, <3>2
    <2>3. CASE ~DecodeManualAuth
      <3>1. UNCHANGED m_Session
        <4>1. CASE UiStep
          BY <1>6, <4>1 DEF UiStep, ClickSend, CloseVerifyWnd, Stop, authInfo
        <4>2. CASE TableStep
          BY <4>2 DEF TableStep, loginVars
        <4>3. CASE LinkStep
          BY <4>3 DEF LinkStep, Send, BreakLink, DeleteShortLink, Timeout, TaskEnd, Answer,
             authInfo
        <4>4. CASE AnswerStep
          BY <1>6, <2>3, <4>4 DEF AnswerStep, SaveMobileNum, DecodeBind, CallBack, Quit,
             HandlerDone, authInfo, loginVars
        <4>5. CASE UNCHANGED vars
          BY <4>5 DEF vars, loginVars
        <4> QED
          BY <4>1, <4>2, <4>3, <4>4, <4>5 DEF LoginNext
      <3> QED
        BY <1>1, <1>6, <2>1, <3>1
    <2> QED
      BY <2>2, <2>3
  <1> QED
    BY <1>4, <1>5, <1>6, SteadyStep, OneLoginClick, OneLoginPosted, OneLoginHandled

(***************************************************************************)
(* Windows are paid for by clicks.                                         *)
(***************************************************************************)

(* A subset of a finite set is finite and has no more elements. *)
LEMMA CountSubset ==
    ASSUME NEW S, IsFiniteSet(S), NEW T, T \subseteq S
    PROVE  IsFiniteSet(T) /\ Cardinality(T) \in Nat /\ Cardinality(T) <= Cardinality(S)
  BY FS_Subset, FS_CardinalityType

(* One more element adds at most one. *)
LEMMA CountWith ==
    ASSUME NEW S, IsFiniteSet(S), NEW x, NEW T, T \subseteq S \cup {x}
    PROVE  IsFiniteSet(T) /\ Cardinality(T) \in Nat /\ Cardinality(T) <= Cardinality(S) + 1
  <1>1. /\ IsFiniteSet(S \cup {x}) /\ Cardinality(S) \in Nat /\ Cardinality(S \cup {x}) \in Nat
        /\ Cardinality(S \cup {x}) <= Cardinality(S) + 1
    BY SMTT(30), FS_AddElement, FS_CardinalityType
  <1>2. IsFiniteSet(T) /\ Cardinality(T) \in Nat /\ Cardinality(T) <= Cardinality(S \cup {x})
    BY <1>1, CountSubset
  <1> QED
    BY <1>1, <1>2

(* A set that has lost an element is smaller. *)
LEMMA CountWithout ==
    ASSUME NEW S, IsFiniteSet(S), NEW x \in S, NEW T, T \subseteq S \ {x}
    PROVE  IsFiniteSet(T) /\ Cardinality(T) \in Nat /\ Cardinality(T) + 1 <= Cardinality(S)
  <1>1. /\ IsFiniteSet(S \ {x}) /\ Cardinality(S) \in Nat /\ Cardinality(S \ {x}) \in Nat
        /\ Cardinality(S \ {x}) = Cardinality(S) - 1
    BY FS_RemoveElement, FS_CardinalityType
  <1>2. IsFiniteSet(T) /\ Cardinality(T) \in Nat /\ Cardinality(T) <= Cardinality(S \ {x})
    BY <1>1, CountSubset
  <1> QED
    BY <1>1, <1>2

(* The messages that open a window, and where they are. *)
Opening == {"WM_LOGIN_SUCC", "WM_MOBILE_VERIFY 10"}
(* Where in the queue s such a message is. *)
Waits(s) == {i \in 1..Len(s) : s[i] \in Opening}

(* There are finitely many. *)
LEMMA WaitsFinite ==
    ASSUME NEW s \in Seq(Message)
    PROVE  IsFiniteSet(Waits(s)) /\ Cardinality(Waits(s)) \in Nat
  <1>1. Len(s) \in Nat
    OBVIOUS
  <1>2. IsFiniteSet(1..Len(s))
    BY <1>1, FS_Interval
  <1> QED
    BY <1>2, CountSubset DEF Waits

(* Posting a message adds one if it opens a window. *)
LEMMA WaitsAppend ==
    ASSUME NEW s \in Seq(Message), NEW m \in Message
    PROVE  Cardinality(Waits(Append(s, m)))
             <= Cardinality(Waits(s)) + (IF m \in Opening THEN 1 ELSE 0)
  <1>1. /\ Len(Append(s, m)) = Len(s) + 1 /\ Len(s) \in Nat
        /\ \A j \in 1..Len(s) : Append(s, m)[j] = s[j]
        /\ Append(s, m)[Len(s) + 1] = m
    BY AppendProperties
  <1>2. \A i \in 1..(Len(s) + 1) : i \in 1..Len(s) \/ i = Len(s) + 1
    BY <1>1
  <1>3. IsFiniteSet(Waits(s)) /\ Cardinality(Waits(s)) \in Nat
    BY WaitsFinite
  <1>4. CASE m \in Opening
    <2>1. Waits(Append(s, m)) \subseteq Waits(s) \cup {Len(s) + 1}
      BY <1>1, <1>2 DEF Waits
    <2>2. Cardinality(Waits(Append(s, m))) <= Cardinality(Waits(s)) + 1
      BY <1>3, <2>1, CountWith
    <2> QED
      BY <1>4, <2>2
  <1>5. CASE m \notin Opening
    <2>1. Waits(Append(s, m)) \subseteq Waits(s)
      BY <1>1, <1>2, <1>5 DEF Waits
    <2>2. Cardinality(Waits(Append(s, m))) <= Cardinality(Waits(s))
      BY <1>3, <2>1, CountSubset
    <2> QED
      BY <1>3, <1>5, <2>2
  <1> QED
    BY <1>4, <1>5

(* Taking the first message takes one away if it opens a window: the       *)
(* others move up by one, one to one.                                      *)
LEMMA WaitsTail ==
    ASSUME NEW s \in Seq(Message), s # <<>>
    PROVE  Cardinality(Waits(Tail(s))) + (IF Head(s) \in Opening THEN 1 ELSE 0)
             <= Cardinality(Waits(s))
  <1>1. /\ Tail(s) \in Seq(Message)
        /\ Len(Tail(s)) = Len(s) - 1 /\ Len(s) \in Nat \ {0}
        /\ \A j \in 1..Len(Tail(s)) : Tail(s)[j] = s[j + 1]
    BY HeadTailProperties, EmptySeq
  <1>2. Head(s) = s[1]
    OBVIOUS
  <1>3. IsFiniteSet(Waits(s)) /\ Cardinality(Waits(s)) \in Nat /\ Cardinality(Waits(Tail(s))) \in Nat
    BY <1>1, WaitsFinite
  <1> DEFINE Rest == Waits(s) \ {1}
             shift == [i \in Waits(Tail(s)) |-> i + 1]
  <1>4. /\ IsFiniteSet(Rest) /\ Cardinality(Rest) \in Nat
        /\ Cardinality(Rest) =
              IF 1 \in Waits(s) THEN Cardinality(Waits(s)) - 1 ELSE Cardinality(Waits(s))
    BY <1>3, FS_RemoveElement, FS_CardinalityType
  <1>5. Head(s) \in Opening => 1 \in Waits(s)
    <2>1. 1 \in 1..Len(s)
      BY <1>1
    <2> QED
      BY <1>2, <2>1 DEF Waits
  <1>6. ASSUME NEW i \in Waits(Tail(s)) PROVE i \in Int /\ i + 1 \in Rest
    <2>1. i \in 1..(Len(s) - 1) /\ s[i + 1] \in Opening
      BY <1>1 DEF Waits
    <2>2. i \in Int /\ i + 1 \in 1..Len(s) /\ i + 1 # 1
      BY <1>1, <2>1
    <2> QED
      BY <2>1, <2>2 DEF Waits
  <1>7. shift \in Injection(Waits(Tail(s)), Rest)
    <2>1. shift \in [Waits(Tail(s)) -> Rest]
      BY <1>6
    <2>2. ASSUME NEW a \in Waits(Tail(s)), NEW b \in Waits(Tail(s)), shift[a] = shift[b] PROVE a = b
      BY <1>6, <2>2
    <2> HIDE DEF shift, Rest
    <2> QED
      BY <2>1, <2>2, Fun_IsInj
  <1> HIDE DEF shift, Rest
  <1>8. Cardinality(Waits(Tail(s))) <= Cardinality(Rest)
    BY <1>4, <1>7, FS_Injection
  <1> QED
    BY <1>3, <1>4, <1>5, <1>8

(* What ClicksCounted counts are numbers. *)
LEMMA CountsType ==
    ASSUME LoginTypeOK, ClicksCounted
    PROVE  /\ Awaited = Waits(inbox)
           /\ IsFiniteSet(OpenTasks) /\ Cardinality(OpenTasks) \in Nat
           /\ inbox \in Seq(Message) /\ Cardinality(Waits(inbox)) \in Nat
           /\ verifyWnd \in Nat /\ mainWnd \in Nat /\ logins \in Nat
           /\ Cardinality(OpenTasks) + Cardinality(Waits(inbox)) + verifyWnd + mainWnd <= logins
  <1>1. Awaited = Waits(inbox)
    BY DEF Awaited, Waits, Opening
  <1>2. inbox \in Seq(Message) /\ verifyWnd \in Nat /\ mainWnd \in Nat /\ logins \in Nat
    BY LoginAssumption DEF LoginTypeOK
  <1>3. IsFiniteSet(OpenTasks) /\ Cardinality(OpenTasks) \in Nat
    BY FS_CardinalityType DEF ClicksCounted
  <1> QED
    BY <1>1, <1>2, <1>3, WaitsFinite DEF ClicksCounted

(* What a step may do to the counts. *)
LEMMA ClicksKept ==
    ASSUME LoginTypeOK, ClicksCounted, OpenTasks' \subseteq OpenTasks, inbox' = inbox,
           verifyWnd' \in Nat, verifyWnd' <= verifyWnd, mainWnd' = mainWnd, logins' = logins
    PROVE  ClicksCounted'
  <1>1. IsFiniteSet(OpenTasks') /\ Cardinality(OpenTasks') \in Nat
        /\ Cardinality(OpenTasks') <= Cardinality(OpenTasks)
    BY CountsType, CountSubset
  <1>2. Awaited' = Waits(inbox)
    BY DEF Awaited, Waits, Opening
  <1>3. Cardinality(OpenTasks') + Cardinality(Awaited') + verifyWnd' + mainWnd' <= logins'
    BY <1>1, <1>2, CountsType
  <1> QED
    BY <1>1, <1>3 DEF ClicksCounted

(* The tasks that may still open a window: no other step adds one. *)
LEMMA OpenKept ==
    ASSUME NetInv, OneAnswer, [LoginNext]_vars, Steady
    PROVE  OpenTasks' \subseteq OpenTasks
  <1>1. ASSUME NEW t \in TaskId, Alive(t)', ~Done(t)',
               cgi'[t] = "ManualAuth" \/ task'[t].option = 10
        PROVE  t \in OpenTasks
    <2>1. Alive(t) /\ cgi[t] = cgi'[t] /\ task'[t].option = task[t].option
      BY <1>1 DEF Steady
    <2>2. ~Done(t)
      BY <1>1, DoneStep
    <2> QED
      BY <1>1, <2>1, <2>2 DEF OpenTasks
  <1> QED
    BY <1>1 DEF OpenTasks

(* A new task, and the others. *)
LEMMA OpenNew ==
    ASSUME NetInv, OneAnswer, [LoginNext]_vars, NEW th \in Thread, NEW t \in TaskId, NEW k \in Cgi,
           NewTask(th, t, k), \A x \in TaskId \ {t} : task'[x] = task[x]
    PROVE  OpenTasks' \subseteq OpenTasks \cup {t}
  <1>1. ASSUME NEW x \in TaskId \ {t}, Alive(x)', ~Done(x)',
               cgi'[x] = "ManualAuth" \/ task'[x].option = 10
        PROVE  x \in OpenTasks
    <2>1. Alive(x) /\ cgi[x] = cgi'[x] /\ task'[x] = task[x]
      BY <1>1, NewTaskAlive
    <2>2. ~Done(x)
      BY <1>1, DoneStep
    <2> QED
      BY <1>1, <2>1, <2>2 DEF OpenTasks
  <1> QED
    BY <1>1 DEF OpenTasks

(* The callback for a task that may still open a window. *)
LEMMA ClicksPosted ==
    ASSUME NetInv, LoginTypeOK, OneAnswer, ClicksCounted, [LoginNext]_vars,
           NEW m \in Message, Post(m), todo # "none",
           m \in Opening => cgi[cur] = "ManualAuth" \/ task[cur].option = 10
    PROVE  ClicksCounted'
  <1>1. /\ net = "DoCallBack" /\ inbox' = Append(inbox, m) /\ todo' = "none"
        /\ UNCHANGED <<netVars, task, verifyWnd, mainWnd, logins>>
    BY DEF Post, taskVars, uiVars
  <1>2. cur \in TaskId /\ Alive(cur) /\ ending = {}
    BY <1>1, CurIsTask
  <1>3. OpenTasks' \subseteq OpenTasks
    <2>1. Steady
      BY <1>1 DEF Steady, Alive, netVars
    <2> QED
      BY <2>1, OpenKept
  <1>4. /\ IsFiniteSet(OpenTasks') /\ Cardinality(OpenTasks') \in Nat
        /\ Cardinality(OpenTasks') + (IF m \in Opening THEN 1 ELSE 0) <= Cardinality(OpenTasks)
    <2>1. CASE m \in Opening
      <3>1. cur \in OpenTasks
        BY <1>1, <1>2, <2>1 DEF OpenTasks, Done
      <3>2. cur \notin OpenTasks'
        BY <1>1 DEF OpenTasks, Done, netVars
      <3>3. OpenTasks' \subseteq OpenTasks \ {cur}
        BY <1>3, <3>2
      <3> QED
        BY <2>1, <3>1, <3>3, CountsType, CountWithout
    <2>2. CASE m \notin Opening
      <3>1. /\ IsFiniteSet(OpenTasks') /\ Cardinality(OpenTasks') \in Nat
            /\ Cardinality(OpenTasks') <= Cardinality(OpenTasks)
        BY <1>3, CountsType, CountSubset
      <3> QED
        BY <2>2, <3>1
    <2> QED
      BY <2>1, <2>2
  <1>5. Awaited' = Waits(Append(inbox, m))
    BY <1>1 DEF Awaited, Waits, Opening
  <1>6. /\ Cardinality(Waits(Append(inbox, m))) \in Nat
        /\ Cardinality(Waits(Append(inbox, m)))
              <= Cardinality(Waits(inbox)) + (IF m \in Opening THEN 1 ELSE 0)
    <2>1. inbox \in Seq(Message) /\ Append(inbox, m) \in Seq(Message)
      BY AppendProperties DEF LoginTypeOK
    <2> QED
      BY <2>1, WaitsFinite, WaitsAppend
  <1>7. Cardinality(OpenTasks') + Cardinality(Awaited') + verifyWnd' + mainWnd' <= logins'
    BY SMTT(30), <1>1, <1>4, <1>5, <1>6, CountsType
  <1> QED
    BY <1>4, <1>7 DEF ClicksCounted

(* The login window handles a message: one window for one message. *)
LEMMA ClicksHandled ==
    ASSUME NetInv, LoginTypeOK, OneAnswer, ClicksCounted, HandleCustomMessage
    PROVE  ClicksCounted'
  <1>1. /\ inbox # <<>> /\ inbox' = Tail(inbox)
        /\ verifyWnd' = verifyWnd + MobileVerify(Head(inbox))
        /\ mainWnd' = mainWnd + (IF Head(inbox) = "WM_LOGIN_SUCC" THEN 1 ELSE 0)
        /\ UNCHANGED <<netVars, task, todo, logins>>
    BY DEF HandleCustomMessage, taskVars
  <1> DEFINE open == IF Head(inbox) \in Opening THEN 1 ELSE 0
  <1>2. verifyWnd' \in Nat /\ mainWnd' \in Nat /\ verifyWnd' + mainWnd' = verifyWnd + mainWnd + open
    <2>1. verifyWnd \in Nat /\ mainWnd \in Nat
      BY CountsType
    <2>2. CASE Head(inbox) = "WM_LOGIN_SUCC"
      <3>1. verifyWnd' = verifyWnd + 0 /\ mainWnd' = mainWnd + 1 /\ open = 1
        BY <1>1, <2>2 DEF MobileVerify, Opening
      <3> QED
        BY <2>1, <3>1
    <2>3. CASE Head(inbox) = "WM_MOBILE_VERIFY 10"
      <3>1. verifyWnd' = verifyWnd + 1 /\ mainWnd' = mainWnd + 0 /\ open = 1
        BY <1>1, <2>3 DEF MobileVerify, Opening
      <3> QED
        BY <2>1, <3>1
    <2>4. CASE Head(inbox) \notin Opening
      <3>1. verifyWnd' = verifyWnd + 0 /\ mainWnd' = mainWnd + 0 /\ open = 0
        BY <1>1, <2>4 DEF MobileVerify, Opening
      <3> QED
        BY <2>1, <3>1
    <2> QED
      BY <2>2, <2>3, <2>4 DEF Opening
  <1>3. OpenTasks' = OpenTasks
    BY <1>1 DEF OpenTasks, Alive, Done, netVars
  <1>4. Awaited' = Waits(Tail(inbox))
    BY <1>1 DEF Awaited, Waits, Opening
  <1>5. /\ Cardinality(Waits(Tail(inbox))) \in Nat
        /\ Cardinality(Waits(Tail(inbox))) + open <= Cardinality(Waits(inbox))
    <2>1. inbox \in Seq(Message) /\ Tail(inbox) \in Seq(Message)
      BY <1>1, HeadTailProperties DEF LoginTypeOK
    <2> QED
      BY <1>1, <2>1, WaitsFinite, WaitsTail
  <1>6. open \in Nat
    OBVIOUS
  <1> HIDE DEF open
  <1>7. Cardinality(OpenTasks') + Cardinality(Awaited') + verifyWnd' + mainWnd' <= logins'
    <2>1. logins' = logins
      BY <1>1
    <2>2. /\ Cardinality(OpenTasks') = Cardinality(OpenTasks)
          /\ Cardinality(Awaited') = Cardinality(Waits(Tail(inbox)))
      BY <1>3, <1>4
    <2>3. /\ Cardinality(OpenTasks) \in Nat /\ Cardinality(Waits(inbox)) \in Nat
          /\ verifyWnd \in Nat /\ mainWnd \in Nat /\ logins \in Nat
          /\ Cardinality(OpenTasks) + Cardinality(Waits(inbox)) + verifyWnd + mainWnd <= logins
      BY CountsType
    <2> DEFINE o == Cardinality(OpenTasks)
               a == Cardinality(Waits(inbox))
               b == Cardinality(Waits(Tail(inbox)))
    <2>4. /\ o \in Nat /\ a \in Nat /\ b \in Nat /\ b + open <= a
          /\ o + a + verifyWnd + mainWnd <= logins
      BY <1>5, <2>3
    <2>5. Cardinality(OpenTasks') = o /\ Cardinality(Awaited') = b
      BY <2>2
    <2> HIDE DEF o, a, b
    <2>6. ASSUME NEW v \in Nat, NEW w \in Nat, v + w = verifyWnd + mainWnd + open
          PROVE  o + b + v + w <= logins
      BY <1>6, <2>3, <2>4, <2>6
    <2> QED
      BY <1>2, <2>1, <2>5, <2>6
  <1> QED
    BY <1>3, <1>7, CountsType DEF ClicksCounted

(* Each step keeps the windows that are open or can still open within the  *)
(* number of clicks: a login turns into a Bind task, into a message and    *)
(* into a window, never into two of them.                                  *)
LEMMA ClicksStep ==
    ASSUME NetInv, LoginTypeOK, OneAnswer, HandlerFits, ClicksCounted, [LoginNext]_vars
    PROVE  ClicksCounted'
  <1> USE LoginThreads
  <1>1. ASSUME NEW u \in User, ClickLogin(u) PROVE ClicksCounted'
    <2>1. PICK t \in TaskId : /\ NewTask(UI, t, "ManualAuth")
                              /\ \A x \in TaskId \ {t} : task'[x] = task[x]
      BY <1>1, LoginCreated
    <2>2. OpenTasks' \subseteq OpenTasks \cup {t}
      BY <2>1, OpenNew DEF Cgi
    <2>3. /\ IsFiniteSet(OpenTasks') /\ Cardinality(OpenTasks') \in Nat
          /\ Cardinality(OpenTasks') <= Cardinality(OpenTasks) + 1
      BY <2>2, CountsType, CountWith
    <2>4. logins' = logins + 1 /\ UNCHANGED <<inbox, verifyWnd, mainWnd>>
      BY <1>1 DEF ClickLogin
    <2>5. Awaited' = Waits(inbox)
      BY <2>4 DEF Awaited, Waits, Opening
    <2>6. Cardinality(OpenTasks') + Cardinality(Awaited') + verifyWnd' + mainWnd' <= logins'
      BY SMTT(30), <2>3, <2>4, <2>5, CountsType
    <2> QED
      BY <2>3, <2>6 DEF ClicksCounted
  <1>2. CASE SendMobileVerifyCode
    <2>1. PICK t \in TaskId : /\ NewTask(UI, t, "ShortCgi")
                              /\ \A x \in TaskId \ {t} : task'[x] = task[x]
                              /\ task'[t].option = 11
      BY <1>2, BindCreated DEF SendMobileVerifyCode
    <2>2. OpenTasks' \subseteq OpenTasks \cup {t}
      BY <2>1, OpenNew DEF Cgi
    <2>3. t \notin OpenTasks'
      <3>1. cgi'[t] = "ShortCgi"
        BY <2>1, NewTaskAlive DEF Cgi
      <3> QED
        BY <2>1, <3>1 DEF OpenTasks
    <2>4. UNCHANGED <<inbox, verifyWnd, mainWnd, logins>>
      BY <1>2 DEF SendMobileVerifyCode
    <2> QED
      BY <2>2, <2>3, <2>4, CountsType, ClicksKept
  <1>3. CASE RecvMobileVerifyCode
    <2>1. PICK t \in TaskId : /\ NewTask(Net, t, "ShortCgi")
                              /\ \A x \in TaskId \ {t} : task'[x] = task[x]
      BY <1>3, BindCreated DEF RecvMobileVerifyCode
    <2>2. OpenTasks' \subseteq OpenTasks \cup {t}
      BY <2>1, OpenNew DEF Cgi
    <2>3. /\ net = "DoCallBack" /\ todo = "mobile" /\ todo' = "none" /\ cgi[cur] = "ManualAuth"
          /\ UNCHANGED <<net, cur, inbox, verifyWnd, mainWnd, logins>>
      BY <1>3, <2>1 DEF RecvMobileVerifyCode, HandlerFits, NewTask, uiVars
    <2>4. cur \in OpenTasks
      BY <2>3, CurIsTask DEF OpenTasks, Done
    <2>5. cur \notin OpenTasks'
      BY <2>3 DEF OpenTasks, Done
    <2>6. OpenTasks' \subseteq (OpenTasks \ {cur}) \cup {t}
      BY <2>2, <2>5
    <2>7. /\ IsFiniteSet(OpenTasks \ {cur}) /\ Cardinality(OpenTasks \ {cur}) \in Nat
          /\ Cardinality(OpenTasks \ {cur}) + 1 <= Cardinality(OpenTasks)
      BY <2>4, CountsType, CountWithout
    <2>8. /\ IsFiniteSet(OpenTasks') /\ Cardinality(OpenTasks') \in Nat
          /\ Cardinality(OpenTasks') <= Cardinality(OpenTasks \ {cur}) + 1
      BY <2>6, <2>7, CountWith
    <2>9. Awaited' = Waits(inbox)
      BY <2>3 DEF Awaited, Waits, Opening
    <2>10. Cardinality(OpenTasks') + Cardinality(Awaited') + verifyWnd' + mainWnd' <= logins'
      BY <2>3, <2>7, <2>8, <2>9, CountsType
    <2> QED
      BY <2>8, <2>10 DEF ClicksCounted
  <1>4. CASE LoginCallBack \/ MobileVerifyCallBack \/ PostError
    <2>1. PICK m \in Message :
            /\ Post(m) /\ todo # "none"
            /\ m \in Opening => cgi[cur] = "ManualAuth" \/ task[cur].option = 10
      <3>1. CASE LoginCallBack
        BY <3>1 DEF LoginCallBack, Message, HandlerFits
      <3>2. CASE MobileVerifyCallBack
        BY <3>2 DEF MobileVerifyCallBack, Message, Opening
      <3>3. CASE PostError
        BY <3>3 DEF PostError, Message, Opening
      <3> QED
        BY <1>4, <3>1, <3>2, <3>3
    <2> QED
      BY <2>1, ClicksPosted
  <1>5. CASE Steady /\ ~(LoginCallBack \/ MobileVerifyCallBack \/ PostError \/ HandleCustomMessage
                         \/ SendMobileVerifyCode \/ RecvMobileVerifyCode
                         \/ \E u \in User : ClickLogin(u))
    <2>1. /\ UNCHANGED <<inbox, mainWnd, logins>>
          /\ verifyWnd' = verifyWnd \/ (verifyWnd > 0 /\ verifyWnd' = verifyWnd - 1)
      <3>1. CASE UiStep
        BY <1>5, <3>1 DEF UiStep, ClickSend, CloseVerifyWnd, Stop, uiVars
      <3>2. CASE TableStep
        BY <3>2 DEF TableStep, loginVars
      <3>3. CASE LinkStep
        BY <3>3 DEF LinkStep, Send, BreakLink, DeleteShortLink, Timeout, TaskEnd, Answer, uiVars
      <3>4. CASE AnswerStep
        BY <1>5, <3>4 DEF AnswerStep, DecodeManualAuth, SaveMobileNum, DecodeBind, CallBack, Quit,
           HandlerDone, uiVars, loginVars
      <3>5. CASE UNCHANGED vars
        BY <3>5 DEF vars, loginVars
      <3> QED
        BY <3>1, <3>2, <3>3, <3>4, <3>5 DEF LoginNext
    <2>2. verifyWnd' \in Nat /\ verifyWnd' <= verifyWnd
      BY <2>1, CountsType
    <2> QED
      BY <1>5, <2>1, <2>2, OpenKept, ClicksKept
  <1> QED
    BY <1>1, <1>2, <1>3, <1>4, <1>5, SteadyStep, ClicksHandled

(***************************************************************************)
(* Types.                                                                  *)
(***************************************************************************)
(* The members of a task. *)
Data == [user : Account, m_strPwd : Nat, m_strAesKey : Nat, option : {0, 10, 11},
         ticket : Account]
(* What is sent. *)
Request == [task : TaskId \cup {NoTask}, m_strPwd : Nat, m_strAesKey : Nat]

(* The values at the start are of these types. *)
LEMMA NoDataType == NoData \in Data /\ NoResp \in Request
  BY DEF NoData, NoResp, Data, Request, Account

(* So are the members of a new Bind task. *)
LEMMA BindData ==
    ASSUME NEW n \in Account, NEW k \in Account, NEW o \in {10, 11}
    PROVE  [NoData EXCEPT !.user = n, !.ticket = k, !.option = o] \in Data
  <1>1. [NoData EXCEPT !.user = n] \in Data
    BY NoDataType DEF Data
  <1>2. ASSUME NEW d \in Data PROVE [d EXCEPT !.ticket = k] \in Data
    BY DEF Data
  <1>3. ASSUME NEW d \in Data PROVE [d EXCEPT !.option = o] \in Data
    BY DEF Data
  <1>4. [[[NoData EXCEPT !.user = n] EXCEPT !.ticket = k] EXCEPT !.option = o] \in Data
    BY <1>1, <1>2, <1>3
  <1> QED
    BY <1>4

(* The members of the tasks. *)
LEMMA TaskTypeStep ==
    ASSUME LoginTypeOK, OneAnswer, [LoginNext]_vars
    PROVE  task' \in [TaskId -> Data]
  <1> USE LoginThreads
  <1>1. task \in [TaskId -> Data]
    BY DEF LoginTypeOK, Data
  <1>2. ASSUME NEW u \in User, ClickLogin(u) PROVE task' \in [TaskId -> Data]
    <2>1. [NoData EXCEPT !.user = u] \in Data
      BY NoDataType DEF Data, Account
    <2> QED
      BY <1>1, <1>2, <2>1 DEF ClickLogin
  <1>3. ASSUME NEW th \in Thread, NEW n \in Account, NEW k \in Account, NEW o \in {10, 11},
               NewBind(th, n, k, o)
        PROVE  task' \in [TaskId -> Data]
    <2> DEFINE d == [NoData EXCEPT !.user = n, !.ticket = k, !.option = o]
    <2>1. d \in Data
      BY BindData
    <2>2. PICK t \in TaskId : task' = [task EXCEPT ![t] = d]
      BY <1>3 DEF NewBind
    <2> HIDE DEF d
    <2> QED
      BY <1>1, <2>1, <2>2
  <1>4. ASSUME NEW t \in TaskId, NEW packed \in BOOLEAN, Send(t, packed)
        PROVE  task' \in [TaskId -> Data]
    <2> DEFINE d == IF cgi[t] = "ManualAuth" THEN ManualAuthReq2Buf(t) ELSE BindReq2Buf(t)
    <2>1. task' = [task EXCEPT ![t] = d]
      BY <1>4 DEF Send
    <2>2. task[t] \in Data /\ task'[t] = d
      BY <1>1, <2>1
    <2>3. d \in Data
      <3>1. CASE cgi[t] = "ManualAuth"
        <4>1. task[t].m_strPwd + 1 \in Nat /\ task[t].m_strAesKey + 1 \in Nat
          BY <2>2 DEF Data
        <4> QED
          BY <2>2, <3>1, <4>1 DEF ManualAuthReq2Buf, Data
      <3>2. CASE cgi[t] # "ManualAuth"
        BY <2>2, <3>2 DEF BindReq2Buf, Data
      <3> QED
        BY <3>1, <3>2
    <2> QED
      BY <1>1, <2>1, <2>3
  <1>5. ASSUME NEW t \in TaskId, TaskEnd(t) PROVE task' \in [TaskId -> Data]
    BY <1>1, <1>5, NoDataType DEF TaskEnd
  <1>6. CASE SendMobileVerifyCode \/ RecvMobileVerifyCode
    BY <1>3, <1>6 DEF SendMobileVerifyCode, RecvMobileVerifyCode, LoginTypeOK
  <1>7. ASSUME UNCHANGED task PROVE task' \in [TaskId -> Data]
    BY <1>1, <1>7
  <1>8. CASE UiStep
    BY <1>2, <1>6, <1>7, <1>8 DEF UiStep, ClickSend, CloseVerifyWnd, HandleCustomMessage, Stop,
       taskVars
  <1>9. CASE LinkStep
    BY <1>4, <1>5, <1>7, <1>9 DEF LinkStep, BreakLink, DeleteShortLink, Timeout, Answer
  <1>10. CASE AnswerStep
    BY <1>6, <1>7, <1>10 DEF AnswerStep, DecodeManualAuth, SaveMobileNum, DecodeBind, CallBack,
       LoginCallBack, MobileVerifyCallBack, PostError, Post, Quit, HandlerDone, loginVars, taskVars
  <1>11. CASE TableStep \/ UNCHANGED vars
    BY <1>7, <1>11 DEF TableStep, vars, loginVars
  <1> QED
    BY <1>8, <1>9, <1>10, <1>11 DEF LoginNext

(* The requests, and the tasks that were sent again. *)
LEMMA WireTypeStep ==
    ASSUME LoginTypeOK, OneAnswer, task' \in [TaskId -> Data], NetInv, [LoginNext]_vars
    PROVE  /\ \A w \in wire' \cup {resp'} : w \in Request
           /\ resent' \subseteq TaskId
  <1>1. (\A w \in wire \cup {resp} : w \in Request) /\ resent \subseteq TaskId /\ NoResp \in Request
    BY NoDataType DEF LoginTypeOK, Request
  <1>2. ASSUME NEW t \in TaskId, NEW packed \in BOOLEAN, Send(t, packed)
        PROVE  wire' \subseteq Request /\ UNCHANGED <<resp, resent>>
    <2> DEFINE d == IF cgi[t] = "ManualAuth" THEN ManualAuthReq2Buf(t) ELSE BindReq2Buf(t)
    <2>1. /\ task' = [task EXCEPT ![t] = d] /\ UNCHANGED <<resp, resent>>
          /\ wire' \subseteq wire \cup {MakeAccountReq(t, d)}
      BY <1>2 DEF Send
    <2>2. task'[t] = d /\ task'[t] \in Data
      BY <2>1 DEF LoginTypeOK
    <2> HIDE DEF d
    <2>3. MakeAccountReq(t, d) \in Request
      BY <2>2 DEF MakeAccountReq, Data, Request
    <2> QED
      BY <1>1, <2>1, <2>3
  <1>3. RunningLong \subseteq TaskId
    BY DEF RunningLong, NetInv, NetTypeOK
  <1>4. CASE \E w \in wire : Answer(w)
    BY <1>1, <1>4 DEF Answer
  <1>5. CASE UiStep
    BY <1>1, <1>5 DEF UiStep, ClickLogin, ClickSend, SendMobileVerifyCode, CloseVerifyWnd,
       HandleCustomMessage, Stop, taskVars
  <1>6. CASE BreakLink
    BY <1>1, <1>3, <1>6 DEF BreakLink, Without
  <1>7. CASE \E t \in TaskId : DeleteShortLink(t) \/ Timeout(t) \/ TaskEnd(t)
    BY <1>1, <1>7 DEF DeleteShortLink, Timeout, TaskEnd, Without
  <1>8. CASE LinkStep
    BY <1>1, <1>2, <1>4, <1>6, <1>7, <1>8 DEF LinkStep
  <1>9. CASE AnswerStep
    <2>1. UNCHANGED <<wire, resent>> /\ resp' \in {resp, NoResp}
      BY <1>9 DEF AnswerStep, DecodeManualAuth, SaveMobileNum, DecodeBind, CallBack,
         LoginCallBack, MobileVerifyCallBack, PostError, Post, RecvMobileVerifyCode, Quit,
         HandlerDone, loginVars, taskVars
    <2> QED
      BY <1>1, <2>1
  <1>10. CASE TableStep \/ UNCHANGED vars
    BY <1>1, <1>10 DEF TableStep, vars, loginVars
  <1> QED
    BY <1>5, <1>8, <1>9, <1>10 DEF LoginNext

(* What Net does next, and pAuthInfo. *)
LEMMA AuthTypeStep ==
    ASSUME LoginTypeOK, OneAnswer, NetInv, HandlerFits, [LoginNext]_vars
    PROVE  /\ todo' \in {"none", "decode", "number", "mobile", "qrcode", "fail", "quit",
                         "succ", "bind"}
           /\ m_mobilecode_authticket' \in Account /\ m_mobileNum' \in Account
           /\ m_Session' \in Account /\ phone' \in Account
  <1> DEFINE Todo == {"none", "decode", "number", "mobile", "qrcode", "fail", "quit", "succ",
                      "bind"}
             Good == /\ todo' \in Todo /\ phone' \in Account
                     /\ m_mobilecode_authticket' \in Account /\ m_mobileNum' \in Account
                     /\ m_Session' \in Account
  <1>1. /\ todo \in Todo /\ phone \in Account /\ NoUser \in Account
        /\ m_mobilecode_authticket \in Account /\ m_mobileNum \in Account /\ m_Session \in Account
    BY DEF LoginTypeOK, Account
  <1>2. ASSUME UNCHANGED <<authInfo, phone>>, todo' = todo \/ todo' = "none" \/ todo' \in Todo
        PROVE  Good
    BY <1>1, <1>2 DEF authInfo
  <1>3. \A t \in TaskId : task[t].user \in Account
    BY DEF LoginTypeOK
  <1>4. CASE UiStep
    BY <1>1, <1>4 DEF UiStep, ClickLogin, ClickSend, SendMobileVerifyCode, CloseVerifyWnd,
       HandleCustomMessage, Stop, authInfo, uiVars
  <1>5. CASE LinkStep
    BY <1>2, <1>5 DEF LinkStep, Send, BreakLink, DeleteShortLink, Timeout, TaskEnd, Answer, uiVars
  <1>6. CASE DecodeManualAuth
    <2>1. cur \in TaskId
      BY <1>6, CurIsTask DEF DecodeManualAuth, Decoding
    <2>2. task[cur].user \in Account
      BY <1>3, <2>1
    <2> QED
      BY <1>1, <1>6, <2>2 DEF DecodeManualAuth, uiVars
  <1>7. CASE SaveMobileNum
    <2>1. cur \in TaskId
      BY <1>7, CurIsTask DEF SaveMobileNum, HandlerFits
    <2>2. task[cur].user \in Account
      BY <1>3, <2>1
    <2> QED
      BY <1>1, <1>7, <2>2 DEF SaveMobileNum, uiVars
  <1>8. CASE AnswerStep /\ ~DecodeManualAuth /\ ~SaveMobileNum
    BY <1>2, <1>8 DEF AnswerStep, DecodeBind, CallBack, LoginCallBack, MobileVerifyCallBack,
       PostError, Post, RecvMobileVerifyCode, Quit, HandlerDone, loginVars, authInfo, uiVars
  <1>9. CASE TableStep \/ UNCHANGED vars
    BY <1>2, <1>9 DEF TableStep, vars, loginVars, authInfo
  <1> QED
    BY <1>4, <1>5, <1>6, <1>7, <1>8, <1>9 DEF LoginNext

(* The windows and the clicks. *)
LEMMA WindowTypeStep ==
    ASSUME LoginTypeOK, ClicksCounted', [LoginNext]_vars
    PROVE  /\ inbox' \in Seq(Message)
           /\ verifyWnd' \in 0..MaxLogin /\ mainWnd' \in 0..MaxLogin
           /\ logins' \in 0..MaxLogin /\ sends' \in 0..MaxSend /\ again' \in BOOLEAN
  <1> DEFINE Good == /\ inbox' \in Seq(Message) /\ verifyWnd' \in Nat /\ mainWnd' \in Nat
                     /\ logins' \in 0..MaxLogin /\ sends' \in 0..MaxSend
             Flag == again' = again \/ again' = (again \/ LoginUnderWay)
  <1>1. /\ inbox \in Seq(Message) /\ verifyWnd \in Nat /\ mainWnd \in Nat
        /\ logins \in 0..MaxLogin /\ sends \in 0..MaxSend
        /\ MaxLogin \in Nat /\ MaxSend \in Nat
    BY LoginAssumption DEF LoginTypeOK
  <1>2. ASSUME UNCHANGED <<inbox, uiVars>> PROVE Good /\ Flag
    BY <1>1, <1>2 DEF uiVars
  <1>3. ASSUME NEW m \in Message, Post(m) PROVE Good /\ Flag
    <2>1. inbox' = Append(inbox, m) /\ UNCHANGED uiVars
      BY <1>3 DEF Post
    <2>2. inbox' \in Seq(Message)
      BY <1>1, <2>1, AppendProperties
    <2> QED
      BY <1>1, <2>1, <2>2 DEF uiVars
  <1>4. ASSUME NEW u \in User, ClickLogin(u) PROVE Good /\ Flag
    <2>1. /\ logins < MaxLogin /\ logins' = logins + 1
          /\ UNCHANGED <<inbox, verifyWnd, mainWnd, sends>>
      BY <1>4 DEF ClickLogin
    <2>2. Flag
      BY <1>4 DEF ClickLogin
    <2>3. logins' \in 0..MaxLogin
      BY <1>1, <2>1
    <2> HIDE DEF Flag
    <2> QED
      BY <1>1, <2>1, <2>2, <2>3
  <1>5. ASSUME ClickSend PROVE Good /\ Flag
    <2>1. /\ sends < MaxSend /\ sends' = sends + 1
          /\ UNCHANGED <<inbox, verifyWnd, mainWnd, logins, again>>
      BY <1>5 DEF ClickSend
    <2>2. sends' \in 0..MaxSend
      BY <1>1, <2>1
    <2> QED
      BY <1>1, <2>1, <2>2
  <1>6. ASSUME CloseVerifyWnd PROVE Good /\ Flag
    <2>1. /\ verifyWnd > 0 /\ verifyWnd' = verifyWnd - 1
          /\ UNCHANGED <<inbox, mainWnd, logins, sends, again>>
      BY <1>6 DEF CloseVerifyWnd
    <2>2. verifyWnd' \in Nat
      BY <1>1, <2>1
    <2> QED
      BY <1>1, <2>1, <2>2
  <1>7. ASSUME SendMobileVerifyCode \/ Stop PROVE Good /\ Flag
    <2>1. UNCHANGED <<inbox, verifyWnd, mainWnd, logins, sends, again>>
      BY <1>7 DEF SendMobileVerifyCode, Stop, uiVars
    <2> QED
      BY <1>1, <2>1
  <1>8. ASSUME HandleCustomMessage PROVE Good /\ Flag
    <2>1. /\ inbox # <<>> /\ inbox' = Tail(inbox) /\ UNCHANGED <<logins, sends, again>>
          /\ verifyWnd' = verifyWnd + MobileVerify(Head(inbox))
          /\ mainWnd' = mainWnd + (IF Head(inbox) = "WM_LOGIN_SUCC" THEN 1 ELSE 0)
      BY <1>8 DEF HandleCustomMessage
    <2>2. inbox' \in Seq(Message)
      BY <1>1, <2>1, HeadTailProperties
    <2>3. verifyWnd' \in Nat
      <3>1. MobileVerify(Head(inbox)) \in Nat
        BY DEF MobileVerify
      <3> QED
        BY <1>1, <2>1, <3>1
    <2>4. mainWnd' \in Nat
      BY <1>1, <2>1
    <2> QED
      BY <1>1, <2>1, <2>2, <2>3, <2>4
  <1> HIDE DEF Good, Flag
  <1>9. ASSUME LinkStep PROVE Good /\ Flag
    BY <1>2, <1>9 DEF LinkStep, Send, BreakLink, DeleteShortLink, Timeout, TaskEnd, Answer
  <1>10. ASSUME AnswerStep PROVE Good /\ Flag
    <2>1. ASSUME LoginCallBack \/ MobileVerifyCallBack \/ PostError PROVE Good /\ Flag
      BY <1>3, <2>1 DEF LoginCallBack, MobileVerifyCallBack, PostError, Message
    <2> QED
      BY <1>2, <1>10, <2>1 DEF AnswerStep, DecodeManualAuth, SaveMobileNum, DecodeBind, CallBack,
         RecvMobileVerifyCode, Quit, HandlerDone, loginVars, uiVars
  <1>11. ASSUME TableStep \/ UNCHANGED vars PROVE Good /\ Flag
    BY <1>2, <1>11 DEF TableStep, vars, loginVars, uiVars
  <1>12. Good /\ Flag
    BY <1>4, <1>5, <1>6, <1>7, <1>8, <1>9, <1>10, <1>11 DEF LoginNext, UiStep
  <1> USE DEF Good
  <1>13. again' \in BOOLEAN
    BY <1>12, Zenon DEF Flag, LoginTypeOK
  <1>14. verifyWnd' + mainWnd' <= logins'
    <2>1. Awaited' = Waits(inbox')
      BY DEF Awaited, Waits, Opening
    <2>2. /\ IsFiniteSet(OpenTasks')
          /\ Cardinality(OpenTasks') + Cardinality(Awaited') + verifyWnd' + mainWnd' <= logins'
      BY DEF ClicksCounted
    <2>3. Cardinality(OpenTasks') \in Nat /\ Cardinality(Awaited') \in Nat
      BY <1>12, <2>1, <2>2, WaitsFinite, FS_CardinalityType
    <2>4. ASSUME NEW v \in Nat, NEW w \in Nat, NEW l \in Nat,
                 Cardinality(OpenTasks') + Cardinality(Awaited') + v + w <= l
          PROVE  v + w <= l
      BY <2>3, <2>4
    <2>5. verifyWnd' \in Nat /\ mainWnd' \in Nat /\ logins' \in Nat
      BY <1>1, <1>12
    <2> QED
      BY <2>2, <2>4, <2>5
  <1>15. ASSUME NEW v \in Nat, NEW w \in Nat, NEW l \in 0..MaxLogin, v + w <= l
         PROVE  v \in 0..MaxLogin /\ w \in 0..MaxLogin
    BY <1>1, <1>15
  <1> QED
    BY <1>12, <1>13, <1>14, <1>15

(* Together: every variable keeps its type. *)
LEMMA LoginTypesStep ==
    ASSUME NetInv, NetInv', LoginTypeOK, OneAnswer, HandlerFits, ClicksCounted', [LoginNext]_vars
    PROVE  LoginTypeOK'
  <1>1. NetTypeOK'
    BY DEF NetInv
  <1>2. task' \in [TaskId -> Data]
    BY TaskTypeStep
  <1>3. (\A w \in wire' \cup {resp'} : w \in Request) /\ resent' \subseteq TaskId
    BY <1>2, WireTypeStep
  <1> QED
    BY <1>1, <1>2, <1>3, AuthTypeStep, WindowTypeStep DEF LoginTypeOK, Data, Request

(***************************************************************************)
(* The invariant.                                                          *)
(***************************************************************************)
(* The invariant holds when the login window opens. *)
LEMMA LoginInitInv == LoginInit => LoginInv
  <1> SUFFICES ASSUME LoginInit PROVE LoginInv
    OBVIOUS
  <1>1. NetInv
    BY NetInitInv DEF LoginInit
  <1>2. /\ cgi = [t \in TaskId |-> "ShortCgi"] /\ task = [t \in TaskId |-> NoData]
        /\ map_task_ = {} /\ starting = [th \in Thread |-> "no"] /\ lst_cmd_ = {} /\ net = "loop"
    BY DEF LoginInit, NetInit
  <1>3. \A t \in TaskId : ~Alive(t) /\ cgi[t] = "ShortCgi" /\ task[t] = NoData
    BY <1>2 DEF Alive
  <1>4. LoginTypeOK
    <2>1. task \in [TaskId -> Data] /\ resp \in Request
      BY <1>2, NoDataType DEF LoginInit
    <2>2. inbox \in Seq(Message) /\ NoUser \in Account
      BY DEF LoginInit, Account
    <2>3. 0 \in 0..MaxLogin /\ 0 \in 0..MaxSend
      BY LoginAssumption
    <2>4. wire \cup {resp} = {resp}
      BY DEF LoginInit
    <2> QED
      BY <1>1, <2>1, <2>2, <2>3, <2>4 DEF LoginInit, LoginTypeOK, Data, Request, NetInv
  <1>5. TaskKinds
    BY <1>3 DEF TaskKinds
  <1>6. HandlerFits /\ AnswerFitsTask /\ OneAnswer
    BY DEF LoginInit, HandlerFits, AnswerFitsTask, OneAnswer
  <1>7. TicketOfNumber
    BY <1>3 DEF TicketOfNumber, NoData
  <1>8. Len(inbox) = 0 /\ \A i : ~Succeeded(i)
    BY DEF LoginInit, Succeeded
  <1>9. OneLogin
    BY <1>3, <1>8 DEF OneLogin, IsLogin, LoginInit
  <1>10. ClicksCounted
    <2>1. OpenTasks = {} /\ Awaited = {}
      BY <1>3, <1>8 DEF OpenTasks, Awaited
    <2>2. IsFiniteSet({}) /\ Cardinality({}) = 0
      BY FS_EmptySet
    <2>3. IsFiniteSet(OpenTasks) /\ Cardinality(OpenTasks) = 0 /\ Cardinality(Awaited) = 0
      BY <2>1, <2>2
    <2> QED
      BY <2>3 DEF ClicksCounted, LoginInit
  <1> QED
    BY <1>1, <1>4, <1>5, <1>6, <1>7, <1>9, <1>10 DEF LoginInv

(* Every step keeps it. *)
LEMMA LoginNextInv == LoginInv /\ [LoginNext]_vars => LoginInv'
  <1> SUFFICES ASSUME LoginInv, [LoginNext]_vars PROVE LoginInv'
    OBVIOUS
  <1>1. /\ NetInv /\ LoginTypeOK /\ TaskKinds /\ HandlerFits /\ AnswerFitsTask /\ OneAnswer
        /\ TicketOfNumber /\ OneLogin /\ ClicksCounted
    BY DEF LoginInv
  <1>2. NetInv'
    BY <1>1, LoginIsNetStep, NetNextInv
  <1>3. TaskKinds' /\ HandlerFits' /\ TicketOfNumber'
    BY <1>1, KindsStep, HandlerFitsStep, TicketStep
  <1>4. AnswerFitsTask' /\ OneAnswer'
    BY <1>1, WireStep
  <1>5. OneLogin' /\ ClicksCounted'
    BY <1>1, OneLoginStep, ClicksStep
  <1>6. LoginTypeOK'
    BY <1>1, <1>2, <1>5, LoginTypesStep
  <1> QED
    BY <1>2, <1>3, <1>4, <1>5, <1>6 DEF LoginInv

(* LoginInv always holds. *)
THEOREM LoginInvariant == LoginSpec => []LoginInv
  BY LoginInitInv, LoginNextInv, PTL DEF LoginSpec

(* The login dialogue uses the task table as any program may: it           *)
(* implements NetSpec, so that everything proved of the table              *)
(* (TableMatchesMars, PTaskAlive) holds while logging in.                  *)
THEOREM LoginImplementsTable == LoginSpec => NetSpec
  <1>1. LoginInit => NetInit
    BY DEF LoginInit
  <1>2. LoginInv /\ [LoginNext]_vars => [NetNext]_netVars
    BY LoginIsNetStep DEF LoginInv
  <1> QED
    BY LoginInvariant, <1>1, <1>2, PTL DEF LoginSpec, NetSpec

(* Every variable keeps its type: no more windows are open than the login  *)
(* button was clicked, for the answer to a Bind task opens one only when   *)
(* the task was started by a login (option 10).                            *)
THEOREM LoginTypes == LoginSpec => []LoginTypeOK
  <1>1. LoginInv => LoginTypeOK
    BY DEF LoginInv
  <1> QED
    BY LoginInvariant, <1>1, PTL

(* An answer that can still reach Net belongs to a task that waits for it  *)
(* and was encrypted with the keys the task has now, although Req2Buf      *)
(* makes new keys for every packing; but for a task that failed by the     *)
(* late error of the connection before.                                    *)
THEOREM AnswerAlwaysFits == LoginSpec => []AnswerFitsTask
  <1>1. LoginInv => AnswerFitsTask
    BY DEF LoginInv
  <1> QED
    BY LoginInvariant, <1>1, PTL

(* RecvMobileVerifyCode always names the ticket and the number of one      *)
(* account, however many logins are under way.                             *)
THEOREM TicketAlwaysOfNumber == LoginSpec => []TicketOfNumber
  <1>1. LoginInv => TicketOfNumber
    BY DEF LoginInv
  <1> QED
    BY LoginInvariant, <1>1, PTL

(* WM_LOGIN_SUCC creates one main window, for the account that has the     *)
(* session, unless the login button is clicked while a login is under way. *)
THEOREM OnlyOneMainWindow == LoginSpec => []OneMainWindow
  <1>1. LoginInv => OneMainWindow
    <2> SUFFICES ASSUME LoginInv, ~again PROVE OneMainWindow
      BY DEF OneMainWindow
    <2>1. \A t \in map_task_ : t \in TaskId /\ Alive(t)
      BY DEF LoginInv, NetInv, NetTypeOK, Alive
    <2>2. /\ mainWnd <= 1
          /\ mainWnd = 1 => m_Session # NoUser /\ \A t \in TaskId : IsLogin(t) => Done(t)
      BY DEF LoginInv, OneLogin
    <2> QED
      BY <2>1, <2>2 DEF OneMainWindow, IsLogin, Done
  <1> QED
    BY LoginInvariant, <1>1, PTL
=============================================================================
