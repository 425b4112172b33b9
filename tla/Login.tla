------------------------------- MODULE Login --------------------------------
(***************************************************************************)
(* Logging in: the login window (LoginWnd.cpp), the ManualAuth task, and    *)
(* the dialogue in which a new device is authorised with a code sent to a  *)
(* mobile phone (the Bind task), on top of the task table.                 *)
(*                                                                         *)
(* Req2Buf makes the keys of a request and hashes the password, and it is  *)
(* called for each packing: once while the long link is down, again when   *)
(* the request is sent and again for each retry.  Buf2Resp decodes the     *)
(* answer with the keys that the task then has.  Net writes the ticket and *)
(* the number for the code to pAuthInfo; the UI thread reads them without  *)
(* a lock.                                                                 *)
(***************************************************************************)
EXTENDS NetworkService, Sequences

CONSTANTS
    UI,             \* the only thread of Caller
    User,           \* accounts
    NoUser,
    MaxLogin,       \* bound on clicks on the login button
    MaxSend,        \* bound on clicks on the button that sends the code
    MaxPack         \* bound on the packings of a task

ASSUME LoginAssumption ==
    /\ Caller = {UI}
    /\ NoUser \notin User
    /\ MaxLogin \in Nat
    /\ MaxSend \in Nat
    /\ MaxPack \in Nat

VARIABLES
    task,           \* id -> members of the ManualAuth or Bind task
    wire,           \* requests sent: their answers are under way or posted to Net
    resp,           \* the request whose answer Buf2Resp decodes
    todo,           \* what the handler on Net has still to do
    m_mobilecode_authticket,  \* the account the ticket was issued for
    m_mobileNum,
    m_Session,      \* the account whose session key pAuthInfo holds
    inbox,          \* messages posted to the login window
    verifyWnd,      \* number of code windows that are open
    mainWnd,        \* number of times the main window was created
    phone,          \* the number SendMobileVerifyCode has read
    logins, sends,  \* clicks on the two buttons
    resent,         \* history: tasks that failed while their connection stayed up
    again           \* history: a login was started while another was under way

taskVars == <<task, wire, resp, resent>>
authInfo == <<m_mobilecode_authticket, m_mobileNum, m_Session>>
uiVars == <<verifyWnd, mainWnd, phone, logins, sends, again>>
loginVars == <<task, wire, resp, resent, todo, m_mobilecode_authticket, m_mobileNum, m_Session,
               inbox, verifyWnd, mainWnd, phone, logins, sends, again>>
vars == <<netVars, loginVars>>

Account == User \cup {NoUser}

(* m_strPwd: how often MD5 was applied to what was typed; m_strAesKey: the *)
(* number of the packing that made the AES and ECDH keys.  A Bind task     *)
(* keeps its number (m_strPhoneNum) in user.                               *)
NoData == [user |-> NoUser, m_strPwd |-> 0, m_strAesKey |-> 0, option |-> 0, ticket |-> NoUser]
NoResp == [task |-> NoTask, m_strPwd |-> 0, m_strAesKey |-> 0]

Message == {"WM_SHOW_LOGIN_RESULT", "WM_LOGIN_SCAN_QRCODE", "WM_LOGIN_SUCC",
            "WM_MOBILE_VERIFY 10", "WM_MOBILE_VERIFY"}

LoginTypeOK ==
    /\ NetTypeOK
    /\ task \in [TaskId -> [user : Account, m_strPwd : Nat, m_strAesKey : Nat,
                            option : {0, 10, 11}, ticket : Account]]
    /\ \A w \in wire \cup {resp} :
         w \in [task : TaskId \cup {NoTask}, m_strPwd : Nat, m_strAesKey : Nat]
    /\ resent \subseteq TaskId
    /\ todo \in {"none", "decode", "number", "mobile", "qrcode", "fail", "quit", "succ", "bind"}
    /\ m_mobilecode_authticket \in Account
    /\ m_mobileNum \in Account
    /\ m_Session \in Account
    /\ inbox \in Seq(Message)
    /\ verifyWnd \in 0..MaxLogin
    /\ mainWnd \in 0..MaxLogin
    /\ phone \in Account
    /\ logins \in 0..MaxLogin
    /\ sends \in 0..MaxSend
    /\ again \in BOOLEAN

LoginInit ==
    /\ NetInit
    /\ task = [t \in TaskId |-> NoData]
    /\ wire = {}
    /\ resp = NoResp
    /\ resent = {}
    /\ todo = "none"
    /\ m_mobilecode_authticket = NoUser
    /\ m_mobileNum = NoUser
    /\ m_Session = NoUser
    /\ inbox = <<>>
    /\ verifyWnd = 0
    /\ mainWnd = 0
    /\ phone = NoUser
    /\ logins = 0
    /\ sends = 0
    /\ again = FALSE

-----------------------------------------------------------------------------
(***************************************************************************)
(* The UI thread.  Every window has the same message loop, nested in the   *)
(* handler that opened it, so messages and clicks are handled whatever     *)
(* window is open.                                                         *)
(***************************************************************************)
UiIdle == starting[UI] = "no" /\ phone = NoUser /\ ~stopped

NewBind(th, number, ticket, option) ==
    \E t \in TaskId :
        /\ NewTask(th, t, "ShortCgi")
        /\ task' = [task EXCEPT ![t] = [NoData EXCEPT !.user = number, !.ticket = ticket,
                                                      !.option = option]]

(* What the request of a Bind task names. *)
MakeReq(t) == [mobilenum |-> task[t].user, option |-> task[t].option, authticket |-> task[t].ticket]

(* A login is under way until the login window has handled its success. *)
LoginUnderWay ==
    \/ \E th \in Thread : arg[th] # NoTask /\ cgi[arg[th]] = "ManualAuth"
    \/ \E t \in map_task_ : cgi[t] = "ManualAuth"
    \/ \E i \in 1..Len(inbox) : inbox[i] = "WM_LOGIN_SUCC"

(* Variant: the login window is not hidden. *)
ClickLoginBehind(u) ==
    /\ UiIdle
    /\ logins < MaxLogin
    /\ \E t \in TaskId :
         /\ NewTask(UI, t, "ManualAuth")
         /\ task' = [task EXCEPT ![t] = [NoData EXCEPT !.user = u]]
    /\ logins' = logins + 1
    /\ again' = (again \/ LoginUnderWay)
    /\ UNCHANGED <<wire, resp, resent, todo, authInfo, inbox, verifyWnd, mainWnd, phone, sends>>

(* The login button calls Login(); the window is hidden once a login has   *)
(* succeeded.                                                              *)
ClickLogin(u) ==
    /\ UiIdle
    /\ mainWnd = 0
    /\ logins < MaxLogin
    /\ \E t \in TaskId :
         /\ NewTask(UI, t, "ManualAuth")
         /\ task' = [task EXCEPT ![t] = [NoData EXCEPT !.user = u]]
    /\ logins' = logins + 1
    /\ again' = (again \/ LoginUnderWay)
    /\ UNCHANGED <<wire, resp, resent, todo, authInfo, inbox, verifyWnd, mainWnd, phone, sends>>

(* The code window calls SendMobileVerifyCode, which reads the number and  *)
(* then the ticket.                                                        *)
ClickSend ==
    /\ UiIdle
    /\ verifyWnd > 0
    /\ sends < MaxSend
    /\ sends' = sends + 1
    /\ phone' = m_mobileNum
    /\ UNCHANGED <<netVars, taskVars, todo, authInfo, inbox, verifyWnd, mainWnd, logins, again>>

SendMobileVerifyCode ==
    /\ phone # NoUser
    /\ NewBind(UI, phone, m_mobilecode_authticket, 11)
    /\ phone' = NoUser
    /\ UNCHANGED <<wire, resp, resent, todo, authInfo, inbox, verifyWnd, mainWnd, logins, sends, again>>

CloseVerifyWnd ==
    /\ UiIdle
    /\ verifyWnd > 0
    /\ verifyWnd' = verifyWnd - 1
    /\ UNCHANGED <<netVars, taskVars, todo, authInfo, inbox, mainWnd, phone, logins, sends, again>>

(* Variant: the code window is opened for every answer of a Bind task. *)
MobileVerifyAnyOption(m) == IF m \in {"WM_MOBILE_VERIFY 10", "WM_MOBILE_VERIFY"} THEN 1 ELSE 0

(* MobileVerify opens the code window when a code is on its way (option    *)
(* 10, no error); every other result is only shown.                        *)
MobileVerify(m) == IF m = "WM_MOBILE_VERIFY 10" THEN 1 ELSE 0

(* HandleCustomMessage: results and the page to scan are only shown; a      *)
(* success hides the login window and creates the main window.             *)
HandleCustomMessage ==
    /\ UiIdle
    /\ inbox # <<>>
    /\ inbox' = Tail(inbox)
    /\ verifyWnd' = verifyWnd + MobileVerify(Head(inbox))
    /\ mainWnd' = mainWnd + (IF Head(inbox) = "WM_LOGIN_SUCC" THEN 1 ELSE 0)
    /\ UNCHANGED <<netVars, taskVars, todo, authInfo, phone, logins, sends, again>>

(* The login window was closed: wWinMain calls StopSDK. *)
Stop ==
    /\ UiIdle
    /\ StopSDK
    /\ wire' = {}
    /\ UNCHANGED <<task, resp, resent, todo, authInfo, inbox, uiVars>>

-----------------------------------------------------------------------------
(***************************************************************************)
(* Net: sending, retries and ends of tasks.                                *)
(***************************************************************************)

(* ManualAuth: GenPwd replaces the password by its MD5, and GenAesKey and  *)
(* GenEcdh replace the keys, before anything can fail.                     *)
ManualAuthReq2Buf(t) == [task[t] EXCEPT !.m_strPwd = @ + 1, !.m_strAesKey = @ + 1]

(* Bind: GenAesKey replaces the key. *)
BindReq2Buf(t) == [task[t] EXCEPT !.m_strAesKey = @ + 1]

(* What a request made from the members d tells the server: the keys and,  *)
(* in MakeAccountReq, the password.  The device is always the same.        *)
MakeAccountReq(t, d) == [task |-> t, m_strPwd |-> d.m_strPwd, m_strAesKey |-> d.m_strAesKey]

(* The request is packed; it may or may not be sent.  Nothing but the      *)
(* task's total time bounds how often: a link that refuses a packed        *)
(* request costs no retry.                                                 *)
Send(t, packed) ==
    LET d == IF cgi[t] = "ManualAuth" THEN ManualAuthReq2Buf(t) ELSE BindReq2Buf(t)
    IN  /\ RunOnStartTask(t, packed)
        /\ d.m_strAesKey <= MaxPack
        /\ task' = [task EXCEPT ![t] = d]
        /\ wire' = IF t \in running_id' THEN wire \cup {MakeAccountReq(t, d)} ELSE wire
        /\ UNCHANGED <<resp, resent, todo, authInfo, inbox, uiVars>>

Without(S) == {w \in wire : w.task \notin S}
OnLink == {t \in TaskId : cgi[t] \in LongConn}

(* Variant: answers that were received before the error are not cancelled. *)
BreakLinkOnly ==
    /\ LinkError
    /\ UNCHANGED loginVars

(* The connection is over, and CancelMessage removes the answers it has    *)
(* posted.  If another one is up by now (the error was taken late), the    *)
(* answers on their way over it are still to come.                         *)
BreakLink ==
    /\ LinkError
    /\ \/ /\ ~connected'
          /\ wire' = Without(OnLink)
          /\ UNCHANGED resent
       \/ /\ connected'
          /\ \E posted \in SUBSET (wire \ Without(OnLink)) : wire' = wire \ posted
          /\ resent' = resent \cup RunningLong
    /\ UNCHANGED <<task, resp, todo, authInfo, inbox, uiVars>>

(* __DeleteShortLink closes the connection of the task and cancels what it *)
(* has posted.                                                             *)
DeleteShortLink(t) ==
    /\ ShortLinkError(t)
    /\ wire' = Without({t})
    /\ UNCHANGED <<task, resp, resent, todo, authInfo, inbox, uiVars>>

(* Disconnect waits for the thread that reads the link, and CancelMessage  *)
(* removes the answers it has posted.                                      *)
Timeout(t) ==
    /\ TaskTimeout(t)
    /\ wire' = Without(IF cgi[t] \in LongConn THEN OnLink ELSE {t})
    /\ UNCHANGED <<task, resp, resent, todo, authInfo, inbox, uiVars>>

(* An answer that comes later finds no task. *)
TaskEnd(t) ==
    /\ OnTaskEnd(t)
    /\ task' = [task EXCEPT ![t] = NoData]
    /\ wire' = Without({t})
    /\ resent' = resent \ {t}
    /\ UNCHANGED <<resp, todo, authInfo, inbox, uiVars>>

(* Steps that concern neither the keys nor the windows. *)
TableStep ==
    /\ \/ \E th \in Thread : InsertTask(th)
       \/ \E th \in Thread : PostTask(th)
       \/ \E t \in TaskId : NetCoreStartTask(t)
       \/ Connect
    /\ UNCHANGED loginVars

-----------------------------------------------------------------------------
(***************************************************************************)
(* Net: answers.                                                           *)
(***************************************************************************)
Answer(w) ==
    /\ w \in wire
    /\ Buf2Resp(w.task)
    /\ wire' = wire \ {w}
    /\ resp' = w
    /\ todo' = "decode"
    /\ UNCHANGED <<task, resent, authInfo, inbox, uiVars>>

Decoding(k) ==
    /\ net = "Buf2Resp"
    /\ todo = "decode"
    /\ cgi[cur] = k

(* The answer is encrypted with the keys of the request. *)
Decrypts == resp.m_strAesKey = task[cur].m_strAesKey

(* The server knows the account by the MD5 of its password. *)
PasswordRight == resp.m_strPwd = 1

(* ManualAuth: a session key; a ticket for the code; a page to scan; or a   *)
(* failure.  An answer that cannot be read, or lacks what it should hold,  *)
(* ends the process.                                                       *)
DecodeManualAuth ==
    /\ Decoding("ManualAuth")
    /\ \/ /\ Decrypts /\ PasswordRight
          /\ \/ /\ m_Session' = task[cur].user
                /\ todo' = "succ"
                /\ UNCHANGED m_mobilecode_authticket
             \/ /\ m_mobilecode_authticket' = task[cur].user
                /\ todo' = "number"
                /\ UNCHANGED m_Session
       \/ /\ \/ Decrypts /\ todo' \in {"qrcode", "fail"}
             \/ todo' = "quit"
          /\ UNCHANGED <<m_mobilecode_authticket, m_Session>>
    /\ resp' = NoResp
    /\ UNCHANGED <<netVars, task, wire, resent, m_mobileNum, inbox, uiVars>>

(* Variant: the number is set once. *)
SaveFirstMobileNum ==
    /\ todo = "number"
    /\ m_mobileNum' = IF m_mobileNum = NoUser THEN task[cur].user ELSE m_mobileNum
    /\ todo' = "mobile"
    /\ UNCHANGED <<netVars, taskVars, m_mobilecode_authticket, m_Session, inbox, uiVars>>

SaveMobileNum ==
    /\ todo = "number"
    /\ m_mobileNum' = task[cur].user
    /\ todo' = "mobile"
    /\ UNCHANGED <<netVars, taskVars, m_mobilecode_authticket, m_Session, inbox, uiVars>>

(* Bind: a result; a body that is empty or cannot be decrypted is          *)
(* CGI_CODE_LOGIN_FAIL; another error ends the process.                    *)
DecodeBind ==
    /\ Decoding("ShortCgi")
    /\ \/ Decrypts /\ todo' = "bind"
       \/ todo' \in {"fail", "quit"}
    /\ resp' = NoResp
    /\ UNCHANGED <<netVars, task, wire, resent, authInfo, inbox, uiVars>>

CallBack ==
    /\ todo \notin {"decode", "number"}
    /\ DoCallBack
    /\ UNCHANGED loginVars

Post(m) ==
    /\ net = "DoCallBack"
    /\ inbox' = Append(inbox, m)
    /\ todo' = "none"
    /\ UNCHANGED <<netVars, taskVars, authInfo, uiVars>>

(* SDKCallBack and HandleCallBackError. *)
LoginCallBack == todo = "succ" /\ Post("WM_LOGIN_SUCC")

MobileVerifyCallBack ==
    /\ todo = "bind"
    /\ \/ task[cur].option = 10 /\ Post("WM_MOBILE_VERIFY 10")
       \/ Post("WM_MOBILE_VERIFY")

PostError ==
    \/ todo = "qrcode" /\ Post("WM_LOGIN_SCAN_QRCODE")
    \/ todo = "fail" /\ Post("WM_SHOW_LOGIN_RESULT")

RecvMobileVerifyCode ==
    /\ net = "DoCallBack"
    /\ todo = "mobile"
    /\ NewBind(Net, m_mobileNum, m_mobilecode_authticket, 10)
    /\ todo' = "none"
    /\ UNCHANGED <<wire, resp, resent, authInfo, inbox, uiVars>>

Quit ==
    /\ todo = "quit"
    /\ ForceQuit
    /\ todo' = "none"
    /\ UNCHANGED <<taskVars, authInfo, inbox, uiVars>>

HandlerDone ==
    /\ todo = "none"
    /\ CallBackReturn \/ HandlerReturn
    /\ UNCHANGED loginVars

-----------------------------------------------------------------------------
UiStep ==
    \/ \E u \in User : ClickLogin(u)
    \/ ClickSend
    \/ SendMobileVerifyCode
    \/ CloseVerifyWnd
    \/ HandleCustomMessage
    \/ Stop

LinkStep ==
    \/ \E t \in TaskId, packed \in BOOLEAN : Send(t, packed)
    \/ BreakLink
    \/ \E t \in TaskId : DeleteShortLink(t)
    \/ \E t \in TaskId : Timeout(t)
    \/ \E t \in TaskId : TaskEnd(t)
    \/ \E w \in wire : Answer(w)

AnswerStep ==
    \/ DecodeManualAuth
    \/ SaveMobileNum
    \/ DecodeBind
    \/ CallBack
    \/ LoginCallBack
    \/ MobileVerifyCallBack
    \/ PostError
    \/ RecvMobileVerifyCode
    \/ Quit
    \/ HandlerDone

LoginNext == UiStep \/ TableStep \/ LinkStep \/ AnswerStep

LoginSpec == LoginInit /\ [][LoginNext]_vars

-----------------------------------------------------------------------------
(* An answer that can still reach Net belongs to a task that waits for it  *)
(* and was encrypted with the keys which that task has now, although every *)
(* packing makes new ones: whatever is retried, no answer to an earlier    *)
(* request is left over, but for the task that failed by the late error of *)
(* the connection before (LongLink, AnswerToLastSending).                  *)
AnswerFitsTask ==
    \A w \in wire : w.task \notin resent =>
        /\ w.task \in running_id \ ending
        /\ w.m_strAesKey = task[w.task].m_strAesKey

(* RecvMobileVerifyCode asks for a code with the ticket of the account     *)
(* whose number it names, even while logins of several accounts are under  *)
(* way: Net sets and reads both without another answer in between.  For    *)
(* the code itself this does not hold: SendMobileVerifyCode runs on the UI *)
(* thread.                                                                 *)
TicketOfNumber ==
    \A t \in TaskId : task[t].option = 10 =>
        LET req == MakeReq(t) IN req.mobilenum # NoUser /\ req.authticket = req.mobilenum

(* The main window is created, and with it the database loaded, once, and  *)
(* the session is that of its account, unless the login button was clicked *)
(* again before the window was there.                                      *)
OneMainWindow ==
    ~again => /\ mainWnd <= 1
              /\ mainWnd = 1 => m_Session # NoUser
              /\ \A t \in map_task_ : mainWnd = 1 => (cgi[t] = "ManualAuth" => t \in ending \/ t = cur)

(* ManualAuthCGITask.h:21: the password that is sent is the MD5 of the one *)
(* that was typed.                                                         *)
PasswordSentIsMd5 ==
    \A w \in wire : cgi[w.task] = "ManualAuth" => w.m_strPwd = 1

-----------------------------------------------------------------------------
(***************************************************************************)
(* What makes these inductive.                                             *)
(***************************************************************************)

(* A thread is starting the task, or the table has it. *)
Alive(t) ==
    \/ t \in map_task_
    \/ \E th \in Thread : starting[th] # "no" /\ arg[th] = t

(* The callback for the task has been made, or the task has failed. *)
Done(t) == t \in ending \/ (t = cur /\ net = "DoCallBack" /\ todo = "none")

(* Every task is a login or a Bind; a login is for an account. *)
TaskKinds ==
    \A t \in TaskId :
        /\ cgi[t] \in {"ManualAuth", "ShortCgi"}
        /\ Alive(t) /\ cgi[t] = "ManualAuth" => task[t].user \in User

(* What the handler has still to do fits its task, and what it has written *)
(* to pAuthInfo is still there.                                            *)
HandlerFits ==
    /\ todo # "none" => net \in {"Buf2Resp", "DoCallBack"}
    /\ todo \in {"decode", "number"} => net = "Buf2Resp"
    /\ todo \in {"number", "mobile", "succ"} => cgi[cur] = "ManualAuth"
    /\ todo = "number" => m_mobilecode_authticket = task[cur].user
    /\ todo = "mobile" => m_mobileNum # NoUser /\ m_mobilecode_authticket = m_mobileNum
    /\ todo = "succ" => m_Session # NoUser

(* A task that was not sent again has one answer to come, and none while   *)
(* that answer is handled.                                                 *)
OneAnswer ==
    \A w \in wire :
        /\ w.task \in TaskId
        /\ w.task \notin resent =>
              /\ \A v \in wire : v.task = w.task => v = w
              /\ net \in {"Buf2Resp", "DoCallBack"} => w.task # cur

(* One login at a time, when the button is not clicked too early: it is    *)
(* under way, or its success waits for the login window, or the main       *)
(* window is there.                                                        *)
Succeeded(i) == i \in 1..Len(inbox) /\ inbox[i] = "WM_LOGIN_SUCC"
IsLogin(t) == Alive(t) /\ cgi[t] = "ManualAuth"

OneLogin ==
    ~again =>
        /\ \A t, u \in TaskId : IsLogin(t) /\ IsLogin(u) => t = u
        /\ \A i, j \in 1..Len(inbox) : Succeeded(i) /\ Succeeded(j) => i = j
        /\ mainWnd <= 1
        /\ mainWnd = 1 \/ (\E i \in 1..Len(inbox) : Succeeded(i)) =>
              /\ m_Session # NoUser
              /\ \A t \in TaskId : IsLogin(t) => Done(t)
        /\ mainWnd = 1 => \A i \in 1..Len(inbox) : ~Succeeded(i)

(* Each click leads to at most one window: the main window, or a code      *)
(* window by way of a Bind task.                                           *)
OpenTasks ==
    {t \in TaskId : Alive(t) /\ ~Done(t) /\ (cgi[t] = "ManualAuth" \/ task[t].option = 10)}

Awaited ==
    {i \in 1..Len(inbox) : inbox[i] \in {"WM_LOGIN_SUCC", "WM_MOBILE_VERIFY 10"}}

ClicksCounted ==
    /\ IsFiniteSet(OpenTasks)
    /\ Cardinality(OpenTasks) + Cardinality(Awaited) + verifyWnd + mainWnd <= logins

LoginInv ==
    /\ NetInv
    /\ LoginTypeOK
    /\ TaskKinds
    /\ HandlerFits
    /\ AnswerFitsTask
    /\ OneAnswer
    /\ TicketOfNumber
    /\ OneLogin
    /\ ClicksCounted
=============================================================================
