--------------------------- MODULE LongLink_proofs ---------------------------
(***************************************************************************)
(* Proofs about LongLink, for any set of tasks, any number of retries and  *)
(* any backlog of messages.                                                *)
(*                                                                         *)
(* Everything rests on the inductive invariant LinkInv.  Its conjuncts are *)
(* kept by every step for reasons of their own, and each has a lemma here  *)
(* (StatusStep, ThreadInvStep, ...) that assumes all of LinkInv:           *)
(*                                                                         *)
(*   status and thread   the thread waits for mutex_ before it begins, so  *)
(*                       that the reset comes before kConnecting           *)
(*   fate of a task      a posted error is kept until Net takes it         *)
(*                       (ErrorKept), and the status changes before the    *)
(*                       error is posted                                   *)
(*   whole requests      the list to write is cleared between connections  *)
(*   last sending        what flies after a step flew before it, or is     *)
(*                       being sent (Origin); a step that changes a task's *)
(*                       retries leaves nothing of it flying (FitsKept)    *)
(*   dropped tasks       nothing of a task that a time check has dropped   *)
(*                       is on the next connection (DroppedStep)           *)
(*   whole frames        the stream is frames end to end, so that the      *)
(*                       accepted frame is at the front (FrontFrame)       *)
(*                                                                         *)
(* From it follow the safety properties of the runs, and that the manager  *)
(* implements TaskLife.                                                    *)
(***************************************************************************)
EXTENDS LongLink, TLAPS, SequenceTheorems

USE DEF mgrVars, netVars, msgVars, sharedVars, threadVars, wireVars

(* The manager touches neither the socket nor what the thread has          *)
(* received, and posts nothing but its own loop.                           *)
LEMMA ManagerFrame ==
    ASSUME ManagerStep
    PROVE  UNCHANGED <<errtype, nooping, bufrecv, part, asked, down>>
  BY DEF ManagerStep, MakesureLonglinkConnected, StartTask, RunLoopDue, RunOnTimeoutNone,
     RunOnTimeout, SkipTask, PackFails, VisitTask, ResetLink, CheckStatus, Send, RunLoopEnd,
     Joined, OnAlarm, OnTimerCheckSuc

(* The handler of a message changes nothing of the link but the code that  *)
(* asks it to stop.                                                        *)
LEMMA MessageFrame ==
    ASSUME MessageStep
    PROVE  UNCHANGED <<todo, cur, connectstatus_, lstsenddata_, pos, link, errtype, nooping, bufrecv,
                       part, asked, down>>
  BY DEF MessageStep, PassOver, OnStatusChanged, OnSocketError, OnUnpackError, OnResponse

(* The thread changes nothing of the manager. *)
LEMMA ThreadFrame ==
    ASSUME ThreadStep
    PROVE  UNCHANGED <<lst_cmd_, running_id, remain_retry_count, resent, dropped, net, todo, cur,
                       alarm_, loopAt, disconnectinternalcode_>>
  BY DEF ThreadStep, Run, ConnectFails, Connected, NoopReq, Write, Recv, Unpack, UserDisconnect,
     NoopTimeout, SocketError, Close, ReportError, ThreadEnds, ConnectStatus, Post

(* The server changes only what is on the wire. *)
LEMMA ServerStepFrame ==
    ASSUME ServerStep
    PROVE  UNCHANGED <<mgrVars, netVars, msgVars, sharedVars, threadVars, part>>
  BY DEF ServerStep, ServerAnswers, ServerSends

-----------------------------------------------------------------------------
(* Every step keeps the status the state of the thread. *)
LEMMA StatusStep ==
    ASSUME LinkInv, Next
    PROVE  StatusTrue'
  <1> USE DEF LinkInv, StatusTrue, ThreadInv, LinkTypeOK, Up, Cancelling, Joining, Locking
  <1>1. CASE ManagerStep
    BY <1>1 DEF ManagerStep, MakesureLonglinkConnected, StartTask, StartThread,
       RunLoopDue, RunOnTimeoutNone, RunOnTimeout, SkipTask, PackFails, VisitTask, ResetLink,
       CheckStatus, Send, RunLoopEnd, Joined, OnAlarm, OnTimerCheckSuc
  <1>2. CASE MessageStep
    BY <1>2, MessageFrame
  <1>3. CASE ThreadStep
    BY <1>3 DEF ThreadStep, Run, ConnectFails, Connected, NoopReq, Write, Recv, Unpack,
       UserDisconnect, NoopTimeout, SocketError, Close, ReportError, ThreadEnds, ConnectStatus
  <1>4. CASE ServerStep
    BY <1>4, ServerStepFrame
  <1> QED
    BY <1>1, <1>2, <1>3, <1>4 DEF Next

(* Every step keeps MakeSureConnected, Disconnect and the error codes in   *)
(* step.                                                                   *)
LEMMA ThreadInvStep ==
    ASSUME LinkInv, Next
    PROVE  ThreadInv'
  <1> USE DEF LinkInv, StatusTrue, ThreadInv, LinkTypeOK, Up, Cancelling, Joining, Locking
  <1>1. CASE ManagerStep
    <2>1. CASE MakesureLonglinkConnected \/ OnAlarm \/ (\E t \in Task : StartTask(t) \/ VisitTask(t))
      BY <2>1 DEF MakesureLonglinkConnected, OnAlarm, StartTask, VisitTask, StartThread
    <2>2. CASE RunLoopDue \/ RunOnTimeoutNone \/ CheckStatus \/ RunLoopEnd
      BY <2>2 DEF RunLoopDue, RunOnTimeoutNone, CheckStatus, RunLoopEnd
    <2>7. CASE \E t \in Task : SkipTask(t) \/ PackFails(t)
      BY <2>7 DEF SkipTask, PackFails
    <2>3. CASE \E T \in SUBSET lst_cmd_ : RunOnTimeout(T)
      BY <2>3 DEF RunOnTimeout, BatchErrorRespHandle, Disconnect
    <2>4. CASE ResetLink
      BY <2>4 DEF ResetLink, AfterLock
    <2>5. CASE Send
      BY <2>5 DEF Send
    <2>6. CASE Joined
      BY <2>6 DEF Joined
    <2>8. CASE OnTimerCheckSuc
      BY <2>8 DEF OnTimerCheckSuc, Disconnect
    <2> QED
      BY <1>1, <2>1, <2>2, <2>3, <2>4, <2>5, <2>6, <2>7, <2>8 DEF ManagerStep
  <1>2. CASE MessageStep
    <2>1. CASE PassOver \/ OnStatusChanged \/ OnResponse
      BY <2>1 DEF PassOver, OnStatusChanged, OnResponse, Taking
    <2>2. CASE OnSocketError
      BY <2>2 DEF OnSocketError, BatchErrorRespHandle
    <2>3. CASE OnUnpackError
      BY <2>3 DEF OnUnpackError, BatchErrorRespHandle, Disconnect, Taking
    <2> QED
      BY <1>2, <2>1, <2>2, <2>3 DEF MessageStep
  <1>3. CASE ThreadStep
    <2>1. CASE Run \/ Connected \/ NoopReq \/ \E b \in BOOLEAN : ConnectFails(b)
      BY <2>1 DEF Run, ConnectFails, Connected, NoopReq, MutexFree
    <2>2. CASE \E n \in 1..RequestLen : Write(n)
      BY <2>2 DEF Write
    <2>6. CASE \E n \in 1..Len(down) : Recv(n)
      BY <2>6 DEF Recv
    <2>3. CASE Unpack
      BY <2>3 DEF Unpack
    <2>4. CASE UserDisconnect \/ NoopTimeout \/ SocketError
      BY <2>4 DEF UserDisconnect, NoopTimeout, SocketError
    <2>5. CASE Close \/ ReportError \/ ThreadEnds
      BY <2>5 DEF Close, ReportError, ThreadEnds
    <2> QED
      BY <1>3, <2>1, <2>2, <2>3, <2>4, <2>5, <2>6 DEF ThreadStep
  <1>4. CASE ServerStep
    BY <1>4, ServerStepFrame
  <1> QED
    BY <1>1, <1>2, <1>3, <1>4 DEF Next

(* Every step keeps the manager's loop within its list. *)
LEMMA ListInvStep ==
    ASSUME LinkInv, Next
    PROVE  ListInv'
  <1> USE DEF LinkInv, LinkTypeOK, Cancelling, Joining, Locking, ListInv, Watched
  <1>1. CASE ManagerStep
    <2>1. CASE MakesureLonglinkConnected \/ OnAlarm \/ RunLoopDue \/ RunOnTimeoutNone \/ RunLoopEnd \/ Joined
      BY <2>1 DEF MakesureLonglinkConnected, OnAlarm, RunLoopDue, RunOnTimeoutNone, RunLoopEnd,
         Joined, StartThread
    <2>2. CASE \E t \in Task : StartTask(t)
      BY <2>2 DEF StartTask, StartThread
    <2>3. CASE CheckStatus \/ \E t \in Task : SkipTask(t) \/ VisitTask(t)
      BY <2>3 DEF CheckStatus, SkipTask, VisitTask, StartThread
    <2>4. CASE ResetLink
      BY <2>4 DEF ResetLink, AfterLock
    <2>5. CASE Send
      BY <2>5 DEF Send, EndTasks
    <2>6. CASE \E t \in Task : PackFails(t)
      BY <2>6 DEF PackFails, EndTasks
    <2>7. CASE \E T \in SUBSET lst_cmd_ : RunOnTimeout(T)
      BY <2>7 DEF RunOnTimeout, BatchErrorRespHandle
    <2>8. CASE OnTimerCheckSuc
      BY <2>8 DEF OnTimerCheckSuc
    <2> QED
      BY <1>1, <2>1, <2>2, <2>3, <2>4, <2>5, <2>6, <2>7, <2>8 DEF ManagerStep
  <1>2. CASE MessageStep
    <2>1. net = "loop" /\ net' \in {"loop", "RunLoop", "joinResponse"} /\ todo' = {}
      BY <1>2, MessageFrame DEF MessageStep, PassOver, OnStatusChanged, OnSocketError, OnUnpackError,
         OnResponse, Taking
    <2>2. lst_cmd_ = {} => lst_cmd_' = {}
      BY <1>2 DEF MessageStep, PassOver, OnStatusChanged, OnSocketError, OnUnpackError, OnResponse,
         BatchErrorRespHandle, EndTasks
    <2>3. \A t \in Task \ lst_cmd_' : remain_retry_count'[t] = 0
      BY <1>2 DEF MessageStep, PassOver, OnStatusChanged, OnSocketError, OnUnpackError, OnResponse,
         BatchErrorRespHandle, EndTasks
    <2>4. loopAt' = Pos(loopAt)
      BY <1>2 DEF MessageStep, PassOver, OnStatusChanged, OnSocketError, OnUnpackError, OnResponse, Take
    <2>5. loopAt # -1 => loopAt' # -1
      BY <2>4 DEF Pos
    <2> QED
      BY <2>1, <2>2, <2>3, <2>5
  <1>3. CASE ThreadStep
    BY <1>3, ThreadFrame
  <1>4. CASE ServerStep
    BY <1>4, ServerStepFrame
  <1> QED
    BY <1>1, <1>2, <1>3, <1>4 DEF Next

-----------------------------------------------------------------------------
(***************************************************************************)
(* Types.                                                                  *)
(***************************************************************************)

(* What is on Net's list: the loop over the tasks, retries and ends. *)
ManagerTypes ==
    /\ lst_cmd_ \subseteq Task
    /\ running_id \subseteq lst_cmd_
    /\ resent \subseteq Task
    /\ dropped \subseteq running_id
    /\ remain_retry_count \in [Task -> 0..RetryCount]
    /\ todo \subseteq lst_cmd_
    /\ cur \in Task \cup {NoTask}

(* What ending tasks leaves is of the right types. *)
LEMMA EndTasksTypes ==
    ASSUME LinkTypeOK, NEW S, EndTasks(S)
    PROVE  /\ lst_cmd_' = lst_cmd_ \ S
           /\ resent' \subseteq Task
           /\ dropped' = dropped \ S
           /\ remain_retry_count' \in [Task -> 0..RetryCount]
  BY LinkAssumption DEF LinkTypeOK, EndTasks

(* A network error leaves the right types: no retry counter goes below 0. *)
LEMMA BatchErrorTypes ==
    ASSUME LinkTypeOK, NEW T \in SUBSET lst_cmd_, NEW again \in SUBSET running_id,
           BatchErrorRespHandle(T, again)
    PROVE  /\ lst_cmd_' \subseteq lst_cmd_
           /\ running_id' = {}
           /\ resent' \subseteq Task
           /\ dropped' = {}
           /\ remain_retry_count' \in [Task -> 0..RetryCount]
  <1>1. \A t \in running_id : remain_retry_count[t] # 0 => remain_retry_count[t] - 1 \in 0..RetryCount
    BY LinkAssumption DEF LinkTypeOK
  <1> QED
    BY <1>1, LinkAssumption DEF LinkTypeOK, BatchErrorRespHandle

(* Every step keeps the types of the manager's lists. *)
LEMMA ManagerTypesStep ==
    ASSUME LinkInv, Next
    PROVE  ManagerTypes'
  <1> USE DEF LinkInv, LinkTypeOK, ManagerTypes
  <1>1. CASE ManagerStep
    <2>1. CASE MakesureLonglinkConnected \/ RunLoopDue \/ RunOnTimeoutNone \/ ResetLink \/ CheckStatus
                 \/ RunLoopEnd \/ Joined \/ OnAlarm \/ OnTimerCheckSuc
      BY <2>1 DEF MakesureLonglinkConnected, RunLoopDue, RunOnTimeoutNone, ResetLink, CheckStatus,
         RunLoopEnd, Joined, OnAlarm, OnTimerCheckSuc
    <2>2. CASE \E t \in Task : StartTask(t)
      BY <2>2, LinkAssumption DEF StartTask
    <2>3. CASE \E T \in SUBSET lst_cmd_ : RunOnTimeout(T)
      <3>1. PICK T \in SUBSET lst_cmd_ : RunOnTimeout(T)
        BY <2>3
      <3> QED
        BY <3>1, BatchErrorTypes DEF RunOnTimeout, ListInv
    <2>4. CASE \E t \in Task : SkipTask(t) \/ VisitTask(t)
      BY <2>4 DEF SkipTask, VisitTask
    <2>5. CASE \E t \in Task : PackFails(t)
      BY <2>5, EndTasksTypes DEF PackFails
    <2>6. CASE Send
      <3>1. cur \in lst_cmd_ \ running_id /\ cur' = NoTask /\ todo' = todo \ {cur}
        BY <2>6 DEF Send, ListInv
      <3>2. CASE connectstatus_ = "Connected"
        <4>1. /\ lst_cmd_' = lst_cmd_ \ ({cur} \cap SendOnly)
              /\ resent' \subseteq Task
              /\ dropped' = dropped \ ({cur} \cap SendOnly)
              /\ remain_retry_count' \in [Task -> 0..RetryCount]
          BY <2>6, <3>2, EndTasksTypes DEF Send
        <4>2. running_id \subseteq running_id' /\ running_id' \subseteq lst_cmd_'
          BY <2>6, <3>1, <3>2, <4>1 DEF Send
        <4> QED
          BY <3>1, <4>1, <4>2
      <3>3. CASE connectstatus_ # "Connected"
        BY <2>6, <3>1, <3>3 DEF Send
      <3> QED
        BY <3>2, <3>3
    <2> QED
      BY <1>1, <2>1, <2>2, <2>3, <2>4, <2>5, <2>6 DEF ManagerStep
  <1>2. CASE MessageStep
    <2>1. todo = {} /\ todo' = {} /\ UNCHANGED cur
      BY <1>2, MessageFrame DEF MessageStep, PassOver, OnStatusChanged, OnSocketError, OnUnpackError,
         OnResponse, Taking, ListInv
    <2>2. CASE PassOver \/ OnStatusChanged
      BY <2>1, <2>2 DEF PassOver, OnStatusChanged
    <2>3. CASE OnSocketError \/ OnUnpackError
      <3>1. \E again \in SUBSET running_id : BatchErrorRespHandle({}, again)
        BY <2>3 DEF OnSocketError, OnUnpackError
      <3> QED
        BY <2>1, <3>1, BatchErrorTypes
    <2>4. CASE OnResponse
      BY <2>1, <2>4, EndTasksTypes DEF OnResponse
    <2> QED
      BY <1>2, <2>2, <2>3, <2>4 DEF MessageStep
  <1>3. CASE ThreadStep
    BY <1>3, ThreadFrame
  <1>4. CASE ServerStep
    BY <1>4, ServerStepFrame
  <1> QED
    BY <1>1, <1>2, <1>3, <1>4 DEF Next

(***************************************************************************)
(* The queue of Net: what taking, posting and cancelling do to it.         *)
(***************************************************************************)
QueueTypes == mq \in Seq(Message) /\ loopAt \in -1..Len(mq)

(* Taking a message shifts the queue by one. *)
LEMMA TakeFacts ==
    ASSUME QueueTypes, mq # <<>>, Take
    PROVE  /\ QueueTypes'
           /\ Head(mq) = mq[1] /\ Len(mq) \in Nat \ {0}
           /\ Len(mq') = Len(mq) - 1
           /\ \A i \in 1..Len(mq') : mq'[i] = mq[i + 1]
  <1>1. /\ Tail(mq) \in Seq(Message)
        /\ Len(Tail(mq)) = Len(mq) - 1
        /\ \A i \in 1..Len(Tail(mq)) : Tail(mq)[i] = mq[i + 1]
    BY HeadTailProperties DEF QueueTypes
  <1>2. Len(mq) \in Nat \ {0} /\ Head(mq) = mq[1]
    BY EmptySeq DEF QueueTypes
  <1> QED
    BY <1>1, <1>2 DEF QueueTypes, Take, Pos

(* Posting adds one message at the end. *)
LEMMA PostFacts ==
    ASSUME QueueTypes, NEW msg \in Message, Post(msg)
    PROVE  /\ QueueTypes'
           /\ Len(mq') = Len(mq) + 1
           /\ \A i \in 1..Len(mq) : mq'[i] = mq[i]
           /\ mq'[Len(mq) + 1] = msg
  <1>1. /\ mq' \in Seq(Message)
        /\ Len(mq') = Len(mq) + 1
        /\ \A i \in 1..Len(mq) : mq'[i] = mq[i]
        /\ mq'[Len(mq) + 1] = msg
    BY AppendProperties DEF QueueTypes, Post
  <1> QED
    BY <1>1 DEF QueueTypes, Post

(* Cancelling leaves places, and neither errors nor answers. *)
LEMMA CancelFacts ==
    ASSUME NEW q \in Seq(Message)
    PROVE  /\ CancelMessage(q) \in Seq(Message)
           /\ Len(CancelMessage(q)) = Len(q)
           /\ \A i \in 1..Len(q) : CancelMessage(q)[i].m \notin {"error", "OnResponse"}
  <1>1. Cancelled \in Message /\ Len(q) \in Nat /\ \A i \in 1..Len(q) : q[i] \in Message
    BY DEF Message
  <1> QED
    BY <1>1 DEF CancelMessage, Cancelled

(* The two messages of an attempt to connect that failed. *)
LEMMA ConnectFailsFacts ==
    ASSUME QueueTypes, NEW b \in BOOLEAN, ConnectFails(b)
    PROVE  /\ QueueTypes'
           /\ Len(mq') >= Len(mq)
           /\ \A i \in 1..Len(mq) : mq'[i] = mq[i]
           /\ \A i \in (Len(mq) + 1)..Len(mq') : mq'[i].m \in {"status", "error"}
  <1> DEFINE status == [m |-> "status", s |-> "ConnectFailed"]
             error == [m |-> "error", e |-> "socket"]
  <1>1. status \in Message /\ error \in Message
    BY DEF Message, StatusMsg, ErrorMsg
  <1>2. PICK tail : /\ tail = <<status, error>> \/ tail = <<status>>
                    /\ mq' = mq \o tail
    BY DEF ConnectFails
  <1>3. /\ tail \in Seq(Message) /\ Len(tail) \in 1..2
        /\ \A i \in 1..Len(tail) : tail[i].m \in {"status", "error"}
    BY <1>1, <1>2
  <1>4. /\ mq' \in Seq(Message)
        /\ Len(mq') = Len(mq) + Len(tail)
        /\ \A i \in 1..(Len(mq) + Len(tail)) :
             mq'[i] = IF i <= Len(mq) THEN mq[i] ELSE tail[i - Len(mq)]
    BY <1>2, <1>3, ConcatProperties DEF QueueTypes
  <1>5. Len(mq) \in Nat
    BY DEF QueueTypes
  <1> QED
    BY <1>3, <1>4, <1>5 DEF QueueTypes, ConnectFails

(***************************************************************************)
(* What comes from the server.                                             *)
(***************************************************************************)
StreamTypes == bufrecv \in Seq(ServerUnit) /\ down \in Seq(ServerUnit)

(* The length and the fields of a frame from the server. *)
LEMMA FrameFacts ==
    ASSUME NEW f \in ServerFrame
    PROVE  /\ PackLen(f) \in HeadLen..(HeadLen + 1)
           /\ f.k # "resp" => f.t = NoTask /\ PackLen(f) = HeadLen
           /\ f.t \in Task \cup {NoTask}
           /\ f.r \in 0..RetryCount
  BY LinkAssumption DEF ServerFrame, Answer, Other, Request, PackLen, HeadLen

(* A frame on the wire is a sequence of its units. *)
LEMMA UnitsFacts ==
    ASSUME NEW f \in ServerFrame
    PROVE  /\ Units(f, PackLen(f)) \in Seq(ServerUnit)
           /\ Len(Units(f, PackLen(f))) = PackLen(f)
           /\ \A i \in 1..PackLen(f) : Units(f, PackLen(f))[i] = [f |-> f, i |-> i]
  <1>1. PackLen(f) \in Nat /\ 1..PackLen(f) \subseteq 1..(HeadLen + 1)
    BY FrameFacts DEF HeadLen
  <1>2. \A i \in 1..PackLen(f) : [f |-> f, i |-> i] \in ServerUnit
    BY <1>1 DEF ServerUnit
  <1> HIDE DEF ServerUnit
  <1> QED
    BY <1>1, <1>2 DEF Units

(* The two parts of the stream, as one. *)
LEMMA StreamFacts ==
    ASSUME StreamTypes
    PROVE  /\ Stream \in Seq(ServerUnit)
           /\ Len(bufrecv) \in Nat /\ Len(down) \in Nat
           /\ Len(Stream) = Len(bufrecv) + Len(down)
           /\ \A i \in 1..Len(bufrecv) : Stream[i] = bufrecv[i]
           /\ \A i \in 1..Len(down) : Stream[Len(bufrecv) + i] = down[i]
           /\ \A i \in 1..Len(Stream) : Stream[i] \in ServerUnit
  <1>1. /\ Stream \in Seq(ServerUnit)
        /\ Len(Stream) = Len(bufrecv) + Len(down)
        /\ \A i \in 1..Len(bufrecv) + Len(down) : Stream[i] =
             IF i <= Len(bufrecv) THEN bufrecv[i] ELSE down[i - Len(bufrecv)]
    BY ConcatProperties DEF StreamTypes, Stream
  <1>2. Len(bufrecv) \in Nat /\ Len(down) \in Nat
    BY DEF StreamTypes
  <1>3. \A i \in 1..Len(Stream) : Stream[i] \in ServerUnit
    BY <1>1, ElementOfSeq
  <1> QED
    BY <1>1, <1>2, <1>3

(* recv moves units from one part to the other. *)
LEMMA RecvFacts ==
    ASSUME StreamTypes, NEW n \in 1..Len(down), Recv(n)
    PROVE  /\ StreamTypes'
           /\ Stream' = Stream
           /\ Len(bufrecv') = Len(bufrecv) + n
  <1> DEFINE got == SubSeq(down, 1, n)
             rest == SubSeq(down, n + 1, Len(down))
  <1>1. Len(down) \in Nat /\ Len(bufrecv) \in Nat /\ n \in Nat
    BY DEF StreamTypes
  <1>2. \A i \in 1..Len(down) : down[i] \in ServerUnit
    BY DEF StreamTypes
  <1>3. got \in Seq(ServerUnit) /\ Len(got) = n
    BY <1>1, <1>2, SubSeqProperties
  <1>4. rest \in Seq(ServerUnit)
    BY <1>1, <1>2, SubSeqProperties
  <1>5. got \o rest = down
    <2>1. got \o rest = SubSeq(down, 1, Len(down))
      BY <1>1, ConcatAdjacentSubSeq DEF StreamTypes
    <2> QED
      BY <2>1, SubSeqFull DEF StreamTypes
  <1>6. bufrecv' = bufrecv \o got /\ down' = rest
    BY DEF Recv
  <1> HIDE DEF got, rest
  <1>7. (bufrecv \o got) \o rest = bufrecv \o (got \o rest)
    <2>1. bufrecv \in Seq(ServerUnit)
      BY DEF StreamTypes
    <2> QED
      BY SMTT(30), <1>3, <1>4, <2>1, ConcatAssociative
  <1>8. bufrecv \o got \in Seq(ServerUnit) /\ Len(bufrecv \o got) = Len(bufrecv) + n
    BY <1>3, ConcatProperties DEF StreamTypes
  <1> QED
    BY <1>4, <1>5, <1>6, <1>7, <1>8 DEF StreamTypes, Stream

(* A frame that is unpacked leaves the front of the stream. *)
LEMMA UnpackFacts ==
    ASSUME StreamTypes, Unpack, unpack_test(bufrecv) = "OK"
    PROVE  LET f == bufrecv[1].f
               len == PackLen(f)
           IN  /\ f \in ServerFrame
               /\ len \in HeadLen..Len(bufrecv)
               /\ StreamTypes'
               /\ Len(bufrecv') = Len(bufrecv) - len
               /\ \A i \in 1..Len(bufrecv') : bufrecv'[i] = bufrecv[len + i]
               /\ Len(Stream') = Len(Stream) - len
               /\ \A i \in 1..Len(Stream') : Stream'[i] = Stream[len + i]
               /\ SubSeq(bufrecv, HeadLen + 1, len) \in Seq(ServerUnit)
  <1> DEFINE f == bufrecv[1].f
             len == PackLen(f)
  <1>1. Len(bufrecv) \in Nat /\ ~(Len(bufrecv) < HeadLen) /\ ~(len > Len(bufrecv))
    BY DEF StreamTypes, unpack_test
  <1>2. \A i \in 1..Len(bufrecv) : bufrecv[i] \in ServerUnit
    BY DEF StreamTypes
  <1>3. f \in ServerFrame
    BY <1>1, <1>2 DEF HeadLen, ServerUnit
  <1>4. len \in HeadLen..Len(bufrecv) /\ len \in Nat
    BY <1>1, <1>3, FrameFacts DEF HeadLen
  <1> HIDE DEF len
  <1>5. bufrecv' = SubSeq(bufrecv, len + 1, Len(bufrecv)) /\ down' = down
    BY DEF Unpack, len
  <1>6. /\ bufrecv' \in Seq(ServerUnit)
        /\ Len(bufrecv') = Len(bufrecv) - len
        /\ \A i \in 1..Len(bufrecv') : bufrecv'[i] = bufrecv[len + i]
    <2>1. /\ SubSeq(bufrecv, len + 1, Len(bufrecv)) \in Seq(ServerUnit)
          /\ Len(SubSeq(bufrecv, len + 1, Len(bufrecv))) =
               IF len + 1 <= Len(bufrecv) THEN Len(bufrecv) - (len + 1) + 1 ELSE 0
          /\ \A i \in 1..Len(bufrecv) - (len + 1) + 1 :
               SubSeq(bufrecv, len + 1, Len(bufrecv))[i] = bufrecv[len + 1 + i - 1]
      BY <1>1, <1>2, <1>4, SubSeqProperties
    <2> QED
      BY <1>1, <1>4, <1>5, <2>1
  <1>7. SubSeq(bufrecv, HeadLen + 1, len) \in Seq(ServerUnit)
    BY <1>1, <1>2, <1>4, SubSeqProperties DEF HeadLen
  <1>8. StreamTypes'
    BY <1>5, <1>6 DEF StreamTypes
  <1>9. /\ Len(Stream') = Len(Stream) - len
        /\ \A i \in 1..Len(Stream') : Stream'[i] = Stream[len + i]
    <2>1. /\ Len(Stream') = Len(bufrecv') + Len(down')
          /\ Len(bufrecv') \in Nat /\ Len(down') \in Nat
          /\ \A i \in 1..Len(bufrecv') : Stream'[i] = bufrecv'[i]
          /\ \A i \in 1..Len(down') : Stream'[Len(bufrecv') + i] = down'[i]
      <3>1. /\ Stream' \in Seq(ServerUnit)
            /\ Len(Stream') = Len(bufrecv') + Len(down')
            /\ \A i \in 1..Len(bufrecv') + Len(down') : Stream'[i] =
                 IF i <= Len(bufrecv') THEN bufrecv'[i] ELSE down'[i - Len(bufrecv')]
        BY <1>8, ConcatProperties DEF StreamTypes, Stream
      <3>2. Len(bufrecv') \in Nat /\ Len(down') \in Nat
        BY <1>8 DEF StreamTypes
      <3> QED
        BY SMTT(30), <3>1, <3>2
    <2>2. SUFFICES ASSUME NEW i \in 1..Len(Stream') PROVE Stream'[i] = Stream[len + i]
      BY <1>4, <1>5, <1>6, <2>1, StreamFacts
    <2>3. CASE i <= Len(bufrecv')
      BY <1>4, <1>6, <2>1, <2>3, StreamFacts
    <2>4. CASE i > Len(bufrecv')
      <3> DEFINE j == i - Len(bufrecv')
      <3>4. down' = down
        BY <1>5
      <3>1. j \in 1..Len(down) /\ i = Len(bufrecv') + j
        BY <2>1, <2>4, <3>4
      <3>2. Stream'[i] = down[j]
        BY <2>1, <3>1, <3>4
      <3>3. len + i = Len(bufrecv) + j
        BY SMTT(30), <1>1, <1>4, <1>6, <3>1
      <3> QED
        BY <3>1, <3>2, <3>3, StreamFacts
    <2> QED
      BY <2>1, <2>3, <2>4
  <1> QED
    BY <1>3, <1>4, <1>6, <1>7, <1>8, <1>9 DEF len

(***************************************************************************)
(* Types of the shared and of the wire's variables.                        *)
(***************************************************************************)
RequestTypes ==
    /\ lstsenddata_ \in Seq(Request \cup {Noop})
    /\ pos \in 0..(RequestLen - 1)
    /\ part \subseteq Request \cup {Noop}
    /\ asked \subseteq Request \cup {Noop}

(* The type invariant, in parts. *)
LEMMA TypeParts ==
    ASSUME LinkTypeOK
    PROVE  ManagerTypes /\ QueueTypes /\ StreamTypes /\ RequestTypes
  BY DEF LinkTypeOK, ManagerTypes, QueueTypes, StreamTypes, RequestTypes

(* Every step keeps the type of Net's queue. *)
LEMMA QueueTypesStep ==
    ASSUME LinkInv, Next
    PROVE  QueueTypes'
  <1>1. QueueTypes /\ StreamTypes
    BY TypeParts DEF LinkInv
  <1>2. CASE ManagerStep
    <2>1. CASE RunLoopDue \/ RunLoopEnd
      BY <1>1, <2>1 DEF RunLoopDue, RunLoopEnd, QueueTypes
    <2>2. CASE Joined
      BY <1>1, <2>2, CancelFacts DEF Joined, QueueTypes
    <2>3. CASE ~(RunLoopDue \/ RunLoopEnd \/ Joined)
      BY <1>1, <1>2, <2>3 DEF ManagerStep, MakesureLonglinkConnected, StartTask, RunOnTimeoutNone,
         RunOnTimeout, SkipTask, PackFails, VisitTask, ResetLink, CheckStatus, Send, OnAlarm,
         OnTimerCheckSuc, QueueTypes
    <2> QED
      BY <2>1, <2>2, <2>3
  <1>3. CASE MessageStep
    <2>1. mq # <<>>
      BY <1>3 DEF MessageStep, PassOver, OnStatusChanged, OnSocketError, OnUnpackError, OnResponse, Taking
    <2>2. CASE Take
      BY <1>1, <2>1, <2>2, TakeFacts
    <2>3. CASE OnSocketError
      <3>1. Tail(mq) \in Seq(Message) /\ Len(Tail(mq)) = Len(mq) - 1 /\ Len(mq) \in Nat \ {0}
        BY <1>1, <2>1, HeadTailProperties, EmptySeq DEF QueueTypes
      <3>2. mq' \in Seq(Message) /\ Len(mq') = Len(mq) - 1
        BY <2>3, <3>1, CancelFacts DEF OnSocketError
      <3> QED
        BY <1>1, <2>3, <3>1, <3>2 DEF OnSocketError, Pos, QueueTypes
    <2> QED
      BY <1>3, <2>2, <2>3 DEF MessageStep, PassOver, OnStatusChanged, OnUnpackError, OnResponse
  <1>4. CASE ThreadStep
    <2>1. CASE \E b \in BOOLEAN : ConnectFails(b)
      BY <1>1, <2>1, ConnectFailsFacts
    <2>2. CASE \E msg \in Message : Post(msg)
      BY <1>1, <2>2, PostFacts
    <2>3. CASE UNCHANGED msgVars
      BY <1>1, <2>3 DEF QueueTypes
    <2>4. CASE Connected \/ Close
      <3>1. \E s \in {"Connected", "DisConnected"} : Post([m |-> "status", s |-> s])
        BY <2>4 DEF Connected, Close, ConnectStatus
      <3> QED
        BY <2>2, <3>1 DEF Message, StatusMsg
    <2>5. CASE ReportError
      <3>1. errtype \in {"ok", "socket", "xp"}
        BY DEF LinkInv, LinkTypeOK
      <3> QED
        BY <2>2, <2>3, <2>5, <3>1 DEF ReportError, Message, ErrorMsg
    <2>6. CASE Unpack
      <3>1. CASE unpack_test(bufrecv) = "OK"
        BY <1>1, <2>2, <2>3, <2>6, <3>1, UnpackFacts DEF Unpack, Message, ResponseMsg
      <3>2. CASE unpack_test(bufrecv) # "OK"
        BY <2>3, <2>6, <3>2 DEF Unpack
      <3> QED
        BY <3>1, <3>2
    <2> QED
      BY <1>4, <2>1, <2>3, <2>4, <2>5, <2>6 DEF ThreadStep, Run, NoopReq, Write, Recv, UserDisconnect,
         NoopTimeout, SocketError, ThreadEnds
  <1>5. CASE ServerStep
    BY <1>1, <1>5, ServerStepFrame DEF QueueTypes
  <1> QED
    BY <1>2, <1>3, <1>4, <1>5 DEF Next

(* The frame that answers a request carries its id. *)
LEMMA AnswerFacts ==
    ASSUME NEW q \in Request \cup {Noop}, NEW a,
           a = IF q = Noop THEN Other("noop") ELSE [k |-> "resp", t |-> q.t, r |-> q.r]
    PROVE  a \in ServerFrame /\ a.t = q.t /\ a.r = q.r
  BY DEF Request, Noop, Other, ServerFrame, Answer

(* Every step keeps the type of the stream. *)
LEMMA StreamTypesStep ==
    ASSUME LinkInv, Next
    PROVE  StreamTypes'
  <1>1. StreamTypes /\ asked \subseteq Request \cup {Noop}
    BY TypeParts DEF LinkInv, RequestTypes
  <1>2. CASE UNCHANGED <<bufrecv, down>>
    BY <1>1, <1>2 DEF StreamTypes
  <1>3. CASE ThreadStep
    <2>1. CASE \E n \in 1..Len(down) : Recv(n)
      BY <1>1, <2>1, RecvFacts
    <2>2. CASE Unpack
      BY <1>1, <1>2, <2>2, UnpackFacts DEF Unpack
    <2>3. CASE Close
      BY <2>3 DEF Close, StreamTypes
    <2> QED
      BY <1>2, <1>3, <2>1, <2>2, <2>3 DEF ThreadStep, Run, ConnectFails, Connected, NoopReq, Write,
         UserDisconnect, NoopTimeout, SocketError, ReportError, ThreadEnds
  <1>4. CASE ServerStep
    <2>1. PICK a \in ServerFrame : down' = down \o Units(a, PackLen(a)) /\ UNCHANGED bufrecv
      <3>1. CASE \E q \in Request \cup {Noop} : ServerAnswers(q)
        BY <3>1, AnswerFacts DEF ServerAnswers
      <3>2. CASE \E k \in {"push", "bad"} : ServerSends(k)
        BY <3>2 DEF ServerSends, ServerFrame
      <3> QED
        BY <1>4, <3>1, <3>2 DEF ServerStep
    <2> QED
      BY <1>1, <2>1, UnitsFacts, ConcatProperties DEF StreamTypes
  <1> QED
    BY <1>2, <1>3, <1>4, ManagerFrame, MessageFrame DEF Next

(* A request that is sent, written and taken by the server. *)
LEMMA ServerTakesTypes ==
    ASSUME RequestTypes, NEW f \in Request \cup {Noop}, NEW a, NEW b, ServerTakes(f, a, b)
    PROVE  part' \subseteq Request \cup {Noop} /\ asked' \subseteq Request \cup {Noop}
  BY DEF RequestTypes, ServerTakes

(* Every step keeps the types of what is to be written and on the wire. *)
LEMMA RequestTypesStep ==
    ASSUME LinkInv, Next
    PROVE  RequestTypes'
  <1>1. RequestTypes /\ ManagerTypes
    BY TypeParts DEF LinkInv
  <1>2. CASE UNCHANGED <<lstsenddata_, pos, part, asked>>
    BY <1>1, <1>2 DEF RequestTypes
  <1>3. CASE ManagerStep
    <2>1. CASE ResetLink
      BY <1>1, <2>1 DEF ResetLink, RequestTypes, RequestLen
    <2>2. CASE Send
      <3>1. cur \in Task
        BY <1>1, <2>2 DEF Send, LinkInv, ListInv, ManagerTypes
      <3>2. [t |-> cur, r |-> remain_retry_count[cur]] \in Request \cup {Noop}
        BY <1>1, <3>1 DEF ManagerTypes, Request
      <3> QED
        BY <1>1, <2>2, <3>2, AppendProperties DEF Send, RequestTypes
    <2> QED
      BY <1>2, <1>3, <2>1, <2>2 DEF ManagerStep, MakesureLonglinkConnected, StartTask, RunLoopDue,
         RunOnTimeoutNone, RunOnTimeout, SkipTask, PackFails, VisitTask, CheckStatus, RunLoopEnd,
         Joined, OnAlarm, OnTimerCheckSuc
  <1>4. CASE ThreadStep
    <2>1. CASE NoopReq
      <3>1. lstsenddata_' \in {<<Noop>>, lstsenddata_} /\ UNCHANGED <<pos, part, asked>>
        BY <2>1 DEF NoopReq
      <3>2. <<Noop>> \in Seq(Request \cup {Noop})
        OBVIOUS
      <3> QED
        BY <1>1, <3>1, <3>2 DEF RequestTypes
    <2>2. CASE \E n \in 1..RequestLen : Write(n)
      <3>1. PICK n \in 1..RequestLen : Write(n)
        BY <2>2
      <3>2. Head(lstsenddata_) \in Request \cup {Noop} /\ Tail(lstsenddata_) \in Seq(Request \cup {Noop})
        BY <1>1, <3>1, HeadTailProperties DEF Write, RequestTypes
      <3>3. part' \subseteq Request \cup {Noop} /\ asked' \subseteq Request \cup {Noop}
        BY <1>1, <3>1, <3>2, ServerTakesTypes DEF Write
      <3> QED
        BY <1>1, <3>1, <3>2, <3>3 DEF Write, RequestTypes, RequestLen
    <2>3. CASE Close
      BY <1>1, <2>3 DEF Close, RequestTypes
    <2> QED
      BY <1>2, <1>4, <2>1, <2>2, <2>3 DEF ThreadStep, Run, ConnectFails, Connected, Recv, Unpack,
         UserDisconnect, NoopTimeout, SocketError, ReportError, ThreadEnds
  <1>5. CASE ServerStep
    BY <1>1, <1>5 DEF ServerStep, ServerAnswers, ServerSends, RequestTypes
  <1> QED
    BY <1>2, <1>3, <1>4, <1>5, MessageFrame DEF Next

(* Where the two threads are, and the flags they set. *)
PlaceTypes ==
    /\ net \in {"loop", "RunLoop", "start", "check", "send"} \cup Joining \cup Locking
    /\ alarm_ \in BOOLEAN
    /\ connectstatus_ \in {"ConnectIdle", "Connecting", "Connected", "ConnectFailed", "DisConnected"}
    /\ disconnectinternalcode_ \in BOOLEAN
    /\ link \in Up \cup {"none", "start", "connect", "report", "end"}
    /\ errtype \in {"ok", "socket", "xp"}
    /\ nooping \in BOOLEAN

(* Every step keeps the threads at their places. *)
LEMMA PlaceTypesStep ==
    ASSUME LinkInv, Next
    PROVE  PlaceTypes'
  <1> USE DEF PlaceTypes, Cancelling, Joining, Locking, Up
  <1>1. PlaceTypes
    BY DEF LinkInv, LinkTypeOK
  <1>2. CASE ManagerStep
    <2>1. CASE MakesureLonglinkConnected \/ \E t \in Task : StartTask(t) \/ VisitTask(t)
      BY <1>1, <2>1 DEF MakesureLonglinkConnected, StartTask, VisitTask, StartThread
    <2>5. CASE OnAlarm
      BY <1>1, <2>5 DEF OnAlarm, StartThread
    <2>2. CASE RunLoopDue \/ RunOnTimeoutNone \/ CheckStatus \/ Send \/ RunLoopEnd \/ Joined
      BY <1>1, <2>2 DEF RunLoopDue, RunOnTimeoutNone, CheckStatus, Send, RunLoopEnd, Joined
    <2>3. CASE \E t \in Task : SkipTask(t) \/ PackFails(t)
      BY <1>1, <2>3 DEF SkipTask, PackFails
    <2>4. CASE ResetLink \/ \E T \in SUBSET lst_cmd_ : RunOnTimeout(T)
      BY <1>1, <2>4 DEF ResetLink, AfterLock, RunOnTimeout, Disconnect
    <2>6. CASE OnTimerCheckSuc
      BY <1>1, <2>6 DEF OnTimerCheckSuc, Disconnect
    <2> QED
      BY <1>2, <2>1, <2>2, <2>3, <2>4, <2>5, <2>6 DEF ManagerStep
  <1>3. CASE MessageStep
    <2>1. CASE PassOver \/ OnSocketError \/ OnResponse
      BY <1>1, <2>1 DEF PassOver, OnSocketError, OnResponse
    <2>2. CASE OnStatusChanged
      BY <1>1, <2>2 DEF OnStatusChanged
    <2>3. CASE OnUnpackError
      BY <1>1, <2>3 DEF OnUnpackError, Disconnect
    <2> QED
      BY <1>3, <2>1, <2>2, <2>3 DEF MessageStep
  <1>4. CASE ThreadStep
    <2>1. CASE Run \/ Connected \/ NoopReq \/ \E b \in BOOLEAN : ConnectFails(b)
      BY <1>1, <2>1 DEF Run, ConnectFails, Connected, NoopReq, ConnectStatus
    <2>2. CASE (\E n \in 1..RequestLen : Write(n)) \/ (\E n \in 1..Len(down) : Recv(n))
      BY <1>1, <2>2 DEF Write, Recv
    <2>3. CASE Unpack
      BY ZenonT(40), <1>1, <2>3 DEF Unpack
    <2>4. CASE UserDisconnect \/ NoopTimeout \/ SocketError \/ Close \/ ReportError \/ ThreadEnds
      BY <1>1, <2>4 DEF UserDisconnect, NoopTimeout, SocketError, Close, ReportError, ThreadEnds,
         ConnectStatus
    <2> QED
      BY <1>4, <2>1, <2>2, <2>3, <2>4 DEF ThreadStep
  <1>5. CASE ServerStep
    BY <1>1, <1>5, ServerStepFrame
  <1> QED
    BY <1>2, <1>3, <1>4, <1>5 DEF Next

(* Every step keeps the types. *)
LEMMA TypeStep ==
    ASSUME LinkInv, Next
    PROVE  LinkTypeOK'
  BY ManagerTypesStep, QueueTypesStep, StreamTypesStep, RequestTypesStep, PlaceTypesStep
     DEF LinkTypeOK, ManagerTypes, QueueTypes, StreamTypes, RequestTypes, PlaceTypes

-----------------------------------------------------------------------------
(***************************************************************************)
(* A sent task has a fate.                                                 *)
(***************************************************************************)

(* A posted error stays posted until Net takes it. *)
LEMMA ErrorKept ==
    ASSUME LinkInv, Next, ErrorPosted, running_id' \ dropped' # {}
    PROVE  ErrorPosted'
  <1>1. QueueTypes /\ StreamTypes /\ Len(mq) \in Nat
    BY TypeParts DEF LinkInv, QueueTypes
  <1>2. PICK i \in 1..Len(mq) : mq[i].m = "error"
    BY DEF ErrorPosted
  <1>3. CASE mq' = mq
    BY <1>2, <1>3 DEF ErrorPosted
  <1>4. CASE QueueTypes' /\ Len(mq') >= Len(mq) /\ \A j \in 1..Len(mq) : mq'[j] = mq[j]
    <2>1. Len(mq') \in Nat
      BY <1>4 DEF QueueTypes
    <2>2. i \in 1..Len(mq') /\ mq'[i].m = "error"
      BY <1>1, <1>2, <1>4, <2>1
    <2> QED
      BY <2>2 DEF ErrorPosted
  <1>5. CASE ManagerStep
    <2>1. CASE Joined
      BY <1>3, <2>1 DEF Joined, LinkInv, ThreadInv
    <2> QED
      BY <1>3, <1>5, <2>1 DEF ManagerStep, MakesureLonglinkConnected, StartTask, RunLoopDue,
         RunOnTimeoutNone, RunOnTimeout, SkipTask, PackFails, VisitTask, ResetLink, CheckStatus, Send,
         RunLoopEnd, OnAlarm, OnTimerCheckSuc
  <1>6. CASE MessageStep
    <2>1. CASE OnSocketError \/ OnUnpackError
      BY <2>1 DEF OnSocketError, OnUnpackError, BatchErrorRespHandle
    <2>2. CASE PassOver \/ OnStatusChanged \/ OnResponse
      <3>1. Take /\ mq # <<>> /\ Head(mq).m # "error"
        BY <2>2 DEF PassOver, OnStatusChanged, OnResponse, Taking
      <3>2. /\ Head(mq) = mq[1] /\ Len(mq) \in Nat \ {0}
            /\ Len(mq') = Len(mq) - 1
            /\ \A j \in 1..Len(mq') : mq'[j] = mq[j + 1]
        BY <1>1, <3>1, TakeFacts
      <3>3. i # 1
        BY <1>2, <3>1, <3>2
      <3>4. i - 1 \in 1..Len(mq') /\ mq'[i - 1] = mq[i]
        BY <1>2, <3>2, <3>3
      <3> QED
        BY <1>2, <3>4 DEF ErrorPosted
    <2> QED
      BY <1>6, <2>1, <2>2 DEF MessageStep
  <1>7. CASE ThreadStep
    <2>1. CASE \E b \in BOOLEAN : ConnectFails(b)
      BY <1>1, <1>4, <2>1, ConnectFailsFacts
    <2>2. CASE \E msg \in Message : Post(msg)
      BY <1>1, <1>4, <2>2, PostFacts
    <2>3. CASE Connected \/ Close
      <3>1. \E s \in {"Connected", "DisConnected"} : Post([m |-> "status", s |-> s])
        BY <2>3 DEF Connected, Close, ConnectStatus
      <3> QED
        BY <2>2, <3>1 DEF Message, StatusMsg
    <2>4. CASE ReportError
      <3>1. errtype \in {"ok", "socket", "xp"}
        BY DEF LinkInv, LinkTypeOK
      <3> QED
        BY <1>3, <2>2, <2>4, <3>1 DEF ReportError, Message, ErrorMsg
    <2>5. CASE Unpack
      <3>1. CASE unpack_test(bufrecv) = "OK"
        BY <1>1, <1>3, <2>2, <2>5, <3>1, UnpackFacts DEF Unpack, Message, ResponseMsg
      <3>2. CASE unpack_test(bufrecv) # "OK"
        BY <1>3, <2>5, <3>2 DEF Unpack
      <3> QED
        BY <3>1, <3>2
    <2> QED
      BY <1>3, <1>7, <2>1, <2>3, <2>4, <2>5 DEF ThreadStep, Run, NoopReq, Write, Recv, UserDisconnect,
         NoopTimeout, SocketError, ThreadEnds
  <1>8. CASE ServerStep
    BY <1>3, <1>8, ServerStepFrame
  <1> QED
    BY <1>5, <1>6, <1>7, <1>8 DEF Next

(* The two ways in which a sent task is cared for while the thread lives. *)
Served ==
    \/ link \in Up /\ (disconnectinternalcode_ => errtype # "ok")
    \/ link = "report" /\ errtype # "ok"

(* Every step keeps a fate for the tasks that were sent. *)
LEMMA FateStep ==
    ASSUME LinkInv, Next
    PROVE  RunningHasFate'
  <1>0. (dropped # {} => Watched)'
    BY ListInvStep, ManagerTypesStep DEF ListInv, ManagerTypes
  <1> SUFFICES ASSUME running_id' \ dropped' # {}, ~ErrorPosted, ~ErrorPosted'
               PROVE  Served'
    BY <1>0, ErrorKept DEF RunningHasFate, Served
  <1> USE DEF Served, Up
  <1>1. running_id \ dropped # {} => Served
    BY DEF LinkInv, RunningHasFate
  <1>2. StatusTrue /\ ThreadInv /\ StatusTrue'
    BY StatusStep DEF LinkInv
  <1>3. CASE ManagerStep
    <2>1. CASE Send
      <3>1. CASE connectstatus_ = "Connected"
        BY <1>2, <2>1, <3>1 DEF Send, StatusTrue, ThreadInv, Cancelling, Joining, Locking
      <3>2. CASE connectstatus_ # "Connected"
        BY <1>1, <2>1, <3>2 DEF Send
      <3> QED
        BY <3>1, <3>2
    <2>2. CASE \E T \in SUBSET lst_cmd_ : RunOnTimeout(T)
      BY <2>2 DEF RunOnTimeout, BatchErrorRespHandle
    <2>3. CASE MakesureLonglinkConnected \/ OnAlarm \/ \E t \in Task : StartTask(t) \/ VisitTask(t)
      BY <1>1, <2>3 DEF MakesureLonglinkConnected, OnAlarm, StartTask, VisitTask, StartThread
    <2>4. CASE ResetLink
      BY <1>1, <1>2, <2>4 DEF ResetLink, ThreadInv
    <2>5. CASE RunLoopDue \/ RunOnTimeoutNone \/ CheckStatus \/ RunLoopEnd \/ Joined
      BY <1>1, <2>5 DEF RunLoopDue, RunOnTimeoutNone, CheckStatus, RunLoopEnd, Joined
    <2>6. CASE \E t \in Task : SkipTask(t) \/ PackFails(t)
      <3>1. running_id' \ dropped' \subseteq running_id \ dropped
        BY <2>6 DEF SkipTask, PackFails, EndTasks
      <3> QED
        BY <1>1, <2>6, <3>1 DEF SkipTask, PackFails
    <2>7. CASE OnTimerCheckSuc
      BY <2>7 DEF OnTimerCheckSuc
    <2> QED
      BY <1>3, <2>1, <2>2, <2>3, <2>4, <2>5, <2>6, <2>7 DEF ManagerStep
  <1>4. CASE MessageStep
    <2>1. CASE OnSocketError \/ OnUnpackError
      BY <2>1 DEF OnSocketError, OnUnpackError, BatchErrorRespHandle
    <2>2. CASE PassOver \/ OnStatusChanged \/ OnResponse
      <3>1. running_id' \ dropped' \subseteq running_id \ dropped
        BY <2>2 DEF PassOver, OnStatusChanged, OnResponse, EndTasks
      <3> QED
        BY <1>1, <2>2, <3>1 DEF PassOver, OnStatusChanged, OnResponse
    <2> QED
      BY <1>4, <2>1, <2>2 DEF MessageStep
  <1>5. CASE ThreadStep
    <2>1. running_id # {} /\ Served /\ UNCHANGED <<net, disconnectinternalcode_>>
      BY <1>1, <1>5, ThreadFrame
    <2>2. CASE Run \/ Connected \/ NoopReq \/ ThreadEnds \/ \E b \in BOOLEAN : ConnectFails(b)
      BY <2>1, <2>2 DEF Run, Connected, NoopReq, ThreadEnds, ConnectFails
    <2>3. CASE (\E n \in 1..RequestLen : Write(n)) \/ (\E n \in 1..Len(down) : Recv(n))
      BY <2>1, <2>3 DEF Write, Recv
    <2>4. CASE Unpack
      BY <2>1, <2>4 DEF Unpack
    <2>5. CASE UserDisconnect \/ NoopTimeout \/ SocketError
      BY <1>2, <2>1, <2>5 DEF UserDisconnect, NoopTimeout, SocketError
    <2>6. CASE Close
      BY <1>2, <2>1, <2>6 DEF Close, ThreadInv
    <2>7. CASE ReportError
      <3>1. errtype \in {"socket", "xp"}
        BY <2>1, <2>7 DEF ReportError, LinkInv, LinkTypeOK
      <3>2. Post([m |-> "error", e |-> errtype]) /\ [m |-> "error", e |-> errtype] \in Message
        BY <2>7, <3>1 DEF ReportError, Message, ErrorMsg
      <3>3. QueueTypes /\ Len(mq) \in Nat
        BY TypeParts DEF LinkInv, QueueTypes
      <3>4. Len(mq') = Len(mq) + 1 /\ mq'[Len(mq) + 1].m = "error"
        BY <3>2, <3>3, PostFacts
      <3>5. ErrorPosted'
        BY <3>3, <3>4 DEF ErrorPosted
      <3> QED
        BY <3>5
    <2> QED
      BY <1>5, <2>2, <2>3, <2>4, <2>5, <2>6, <2>7 DEF ThreadStep
  <1>6. CASE ServerStep
    BY <1>1, <1>6, ServerStepFrame
  <1> QED
    BY <1>3, <1>4, <1>5, <1>6 DEF Next

-----------------------------------------------------------------------------
(***************************************************************************)
(* Requests on the wire.                                                   *)
(***************************************************************************)

(* One write: the server has begun to receive a request exactly while it   *)
(* is partly written.                                                      *)
LEMMA WriteFacts ==
    ASSUME LinkInv, NEW n \in 1..RequestLen, Write(n)
    PROVE  /\ WholeRequests'
           /\ pos' # 0 => lstsenddata_' # <<>>
           /\ part' \subseteq {Head(lstsenddata_)}
           /\ asked' \subseteq asked \cup {Head(lstsenddata_)}
           /\ lstsenddata_ # <<>>
           /\ lstsenddata_' \in {lstsenddata_, Tail(lstsenddata_)}
  <1>1. link = "rw" /\ link' = link /\ lstsenddata_ # <<>> /\ pos \in 0..1 /\ n \in 1..2
    BY DEF Write, LinkInv, LinkTypeOK, RequestLen
  <1>2. part = IF pos = 0 THEN {} ELSE {Head(lstsenddata_)}
    BY <1>1 DEF LinkInv, WholeRequests, Up
  <1>3. ServerTakes(Head(lstsenddata_), pos + 1, pos + n)
    BY DEF Write
  <1>4. CASE pos + n = 2
    <2>1. lstsenddata_' = Tail(lstsenddata_) /\ pos' = 0
      BY <1>4 DEF Write, RequestLen
    <2>2. part' = {} /\ asked' \subseteq asked \cup {Head(lstsenddata_)}
      <3>1. CASE pos = 0
        BY <1>2, <1>3, <1>4, <3>1 DEF ServerTakes, RequestLen
      <3>2. CASE pos = 1
        BY <1>2, <1>3, <1>4, <3>2 DEF ServerTakes, RequestLen
      <3> QED
        BY <1>1, <3>1, <3>2
    <2> QED
      BY <1>1, <2>1, <2>2 DEF WholeRequests
  <1>5. CASE pos + n # 2
    <2>1. pos = 0 /\ n = 1
      BY <1>1, <1>5 DEF Write, RequestLen
    <2>2. pos' = 1 /\ lstsenddata_' = lstsenddata_
      BY <2>1 DEF Write, RequestLen
    <2>3. part' = {Head(lstsenddata_)} /\ asked' = asked
      BY <1>2, <1>3, <2>1 DEF ServerTakes, RequestLen
    <2> QED
      BY <1>1, <2>2, <2>3 DEF WholeRequests
  <1> QED
    BY <1>4, <1>5

(* Every step keeps the list to write and the wire as WireInv and          *)
(* WholeRequests have them.                                                *)
LEMMA WireStep ==
    ASSUME LinkInv, Next
    PROVE  WireInv' /\ WholeRequests'
  <1> USE DEF WireInv, WholeRequests, Up, Locking
  <1>1. /\ WireInv /\ WholeRequests /\ StatusTrue /\ RequestTypes /\ ThreadInv
        /\ pos \in 0..1
    BY TypeParts DEF LinkInv, RequestTypes, RequestLen
  <1>2. CASE ManagerStep
    <2>0. UNCHANGED <<bufrecv, part, asked, down>>
      BY <1>2, ManagerFrame
    <2>1. CASE MakesureLonglinkConnected \/ OnAlarm \/ \E t \in Task : StartTask(t) \/ VisitTask(t)
      BY <1>1, <2>0, <2>1 DEF MakesureLonglinkConnected, OnAlarm, StartTask, VisitTask, StartThread
    <2>2. CASE ResetLink
      BY <1>1, <2>0, <2>2 DEF ResetLink, ThreadInv
    <2>3. CASE Send
      <3>1. CASE connectstatus_ = "Connected"
        <4>1. link \in Up /\ link' = link /\ pos' = pos
          BY <1>1, <2>3, <3>1 DEF Send, StatusTrue
        <4>2. /\ lstsenddata_' = Append(lstsenddata_, [t |-> cur, r |-> remain_retry_count[cur]])
              /\ [t |-> cur, r |-> remain_retry_count[cur]] \in Request \cup {Noop}
          <5>1. cur \in Task
            BY <2>3 DEF Send, LinkInv, ListInv, LinkTypeOK
          <5> QED
            BY <2>3, <3>1, <5>1 DEF Send, Request, LinkInv, LinkTypeOK
        <4>3. lstsenddata_' # <<>> /\ (lstsenddata_ # <<>> => Head(lstsenddata_') = Head(lstsenddata_))
          BY <1>1, <4>2, AppendProperties, EmptySeq, HeadTailProperties DEF RequestTypes
        <4> QED
          BY <1>1, <2>0, <4>1, <4>3
      <3>2. CASE connectstatus_ # "Connected"
        BY <1>1, <2>0, <2>3, <3>2 DEF Send
      <3> QED
        BY <3>1, <3>2
    <2>4. CASE \E T \in SUBSET lst_cmd_ : RunOnTimeout(T)
      BY <1>1, <2>0, <2>4 DEF RunOnTimeout
    <2>5. CASE RunLoopDue \/ RunOnTimeoutNone \/ CheckStatus \/ RunLoopEnd \/ Joined
      BY <1>1, <2>0, <2>5 DEF RunLoopDue, RunOnTimeoutNone, CheckStatus, RunLoopEnd, Joined,
         Cancelling, Joining
    <2>6. CASE \E t \in Task : SkipTask(t) \/ PackFails(t)
      BY <1>1, <2>0, <2>6 DEF SkipTask, PackFails
    <2>7. CASE OnTimerCheckSuc
      BY <1>1, <2>0, <2>7 DEF OnTimerCheckSuc
    <2> QED
      BY <1>2, <2>1, <2>2, <2>3, <2>4, <2>5, <2>6, <2>7 DEF ManagerStep
  <1>3. CASE MessageStep
    <2>1. net \notin Locking
      BY <1>3 DEF MessageStep, PassOver, OnStatusChanged, OnSocketError, OnUnpackError, OnResponse, Taking
    <2> QED
      BY <1>1, <1>3, <2>1, MessageFrame
  <1>4. CASE ThreadStep
    <2>0. UNCHANGED net
      BY <1>4, ThreadFrame
    <2>1. CASE Run \/ Connected \/ \E b \in BOOLEAN : ConnectFails(b)
      BY <1>1, <2>0, <2>1 DEF Run, ConnectFails, Connected, MutexFree
    <2>2. CASE NoopReq
      <3>1. /\ link' = "rw" /\ link \in Up
            /\ UNCHANGED <<pos, bufrecv, part, asked, down>>
        BY <2>2 DEF NoopReq
      <3>2. lstsenddata_' = lstsenddata_ \/ (lstsenddata_ = <<>> /\ lstsenddata_' = <<Noop>>)
        BY <2>2 DEF NoopReq
      <3> QED
        BY <1>1, <2>0, <3>1, <3>2
    <2>3. CASE \E n \in 1..RequestLen : Write(n)
      <3>1. PICK n \in 1..RequestLen : Write(n)
        BY <2>3
      <3>2. link = "rw" /\ link' = "rw"
        BY <3>1 DEF Write
      <3> QED
        BY <3>1, <3>2, WriteFacts
    <2>4. CASE \E n \in 1..Len(down) : Recv(n)
      BY <1>1, <2>0, <2>4 DEF Recv
    <2>5. CASE Unpack
      BY <1>1, <2>0, <2>5 DEF Unpack
    <2>6. CASE UserDisconnect \/ NoopTimeout \/ SocketError
      BY <1>1, <2>0, <2>6 DEF UserDisconnect, NoopTimeout, SocketError
    <2>7. CASE Close \/ ReportError \/ ThreadEnds
      BY <1>1, <2>0, <2>7 DEF Close, ReportError, ThreadEnds
    <2> QED
      BY <1>4, <2>1, <2>2, <2>3, <2>4, <2>5, <2>6, <2>7 DEF ThreadStep
  <1>5. CASE ServerStep
    <2>1. link \in Up
      BY <1>5 DEF ServerStep, ServerAnswers, ServerSends
    <2> QED
      BY <1>1, <1>5, <2>1, ServerStepFrame
  <1> QED
    BY <1>2, <1>3, <1>4, <1>5 DEF Next

-----------------------------------------------------------------------------
(***************************************************************************)
(* Requests and answers on their way are those of the last sending.        *)
(***************************************************************************)

(* q is on the connection, to be written or not yet unpacked. *)
Aboard(q) ==
    \/ link \in Up /\ \E i \in 1..Len(lstsenddata_) : q = lstsenddata_[i]
    \/ q \in part \cup asked
    \/ \E i \in 1..Len(bufrecv) : q = bufrecv[i].f
    \/ \E i \in 1..Len(down) : q = down[i].f

(* q is somewhere between the manager's Send and its __OnResponse. *)
Flying(q) ==
    \/ Aboard(q)
    \/ \E i \in 1..Len(mq) : mq[i].m = "OnResponse" /\ q = mq[i].f

(* InFlightInv is about what is flying. *)
LEMMA FlyingFits ==
    InFlightInv <=> (net \notin Cancelling => \A q : Flying(q) => Fits(q))
  BY DEF InFlightInv, Flying, Aboard

(* The same after a step. *)
LEMMA FlyingFitsNext ==
    InFlightInv' <=> ((net \notin Cancelling)' => \A q : Flying(q)' => Fits(q)')
  BY DEF InFlightInv, Flying, Aboard

(* DroppedInv is about what is on the connection, before a step and after. *)
LEMMA AboardDropped ==
    /\ DroppedInv <=> (net # "joinCheck" => \A q : Aboard(q) => q.t \notin dropped)
    /\ DroppedInv' <=> (net' # "joinCheck" => \A q : Aboard(q)' => q.t \notin dropped')
  BY DEF DroppedInv, Aboard

(* Posting a message that is no answer, or the answer p. *)
LEMMA PostOrigin ==
    ASSUME QueueTypes, NEW msg \in Message, Post(msg),
           NEW i \in 1..Len(mq'), mq'[i].m = "OnResponse"
    PROVE  \/ i \in 1..Len(mq) /\ mq'[i] = mq[i]
           \/ mq'[i] = msg
  <1>1. Len(mq') = Len(mq) + 1 /\ Len(mq) \in Nat
    BY PostFacts DEF QueueTypes
  <1>2. CASE i = Len(mq) + 1
    BY <1>2, PostFacts
  <1>3. CASE i # Len(mq) + 1
    BY <1>1, <1>3, PostFacts
  <1> QED
    BY <1>2, <1>3

(* The answers Net has after a step of the thread: those it had, or the    *)
(* frame at the front of what was received.                                *)
LEMMA ThreadAnswers ==
    ASSUME LinkInv, ThreadStep, NEW i \in 1..Len(mq'), mq'[i].m = "OnResponse"
    PROVE  \/ i \in 1..Len(mq) /\ mq'[i] = mq[i]
           \/ /\ Unpack /\ unpack_test(bufrecv) = "OK"
              /\ mq'[i] = [m |-> "OnResponse", f |-> bufrecv[1].f,
                           body |-> SubSeq(bufrecv, HeadLen + 1, PackLen(bufrecv[1].f))]
  <1>1. QueueTypes /\ StreamTypes /\ Len(mq) \in Nat
    BY TypeParts DEF LinkInv, QueueTypes
  <1>2. CASE \E b \in BOOLEAN : ConnectFails(b)
    <2>1. /\ QueueTypes' /\ Len(mq') >= Len(mq)
          /\ \A j \in 1..Len(mq) : mq'[j] = mq[j]
          /\ \A j \in (Len(mq) + 1)..Len(mq') : mq'[j].m \in {"status", "error"}
      BY <1>1, <1>2, ConnectFailsFacts
    <2>2. i \in 1..Len(mq) \/ i \in (Len(mq) + 1)..Len(mq')
      BY <1>1, <2>1
    <2> QED
      BY <2>1, <2>2
  <1>3. CASE UNCHANGED mq
    BY <1>3
  <1>4. CASE \E msg \in StatusMsg \cup ErrorMsg : Post(msg)
    <2>1. PICK msg \in StatusMsg \cup ErrorMsg : Post(msg)
      BY <1>4
    <2>2. msg \in Message /\ msg.m # "OnResponse"
      BY DEF Message, StatusMsg, ErrorMsg
    <2> QED
      BY <1>1, <2>1, <2>2, PostOrigin
  <1>5. CASE Connected \/ Close
    BY <1>4, <1>5 DEF Connected, Close, ConnectStatus, StatusMsg
  <1>6. CASE ReportError
    <2>1. errtype \in {"ok", "socket", "xp"}
      BY DEF LinkInv, LinkTypeOK
    <2> QED
      BY <1>3, <1>4, <1>6, <2>1 DEF ReportError, ErrorMsg
  <1>7. CASE Unpack
    <2>1. CASE unpack_test(bufrecv) = "OK"
      <3> DEFINE msg == [m |-> "OnResponse", f |-> bufrecv[1].f,
                         body |-> SubSeq(bufrecv, HeadLen + 1, PackLen(bufrecv[1].f))]
      <3>1. UNCHANGED mq \/ Post(msg)
        BY <1>7, <2>1 DEF Unpack
      <3>2. msg \in Message
        BY <1>1, <1>7, <2>1, UnpackFacts DEF Message, ResponseMsg
      <3> HIDE DEF msg
      <3>3. CASE Post(msg)
        BY <1>1, <1>7, <2>1, <3>2, <3>3, PostOrigin DEF msg
      <3> QED
        BY <1>3, <3>1, <3>3
    <2>2. CASE unpack_test(bufrecv) # "OK"
      BY <1>3, <1>7, <2>2 DEF Unpack
    <2> QED
      BY <2>1, <2>2
  <1> QED
    BY <1>2, <1>3, <1>5, <1>6, <1>7 DEF ThreadStep, Run, NoopReq, Write, Recv, UserDisconnect,
       NoopTimeout, SocketError, ThreadEnds

(* The frame q is in two sequences put together if it is in one of them. *)
InEither(q, s, d) ==
    (\E i \in 1..Len(s \o d) : q = (s \o d)[i].f)
       <=> \/ \E i \in 1..Len(s) : q = s[i].f
           \/ \E i \in 1..Len(d) : q = d[i].f

(* This holds of any two parts of the stream. *)
LEMMA StreamParts ==
    \A s, d \in Seq(ServerUnit) : \A q : InEither(q, s, d)
  <1> SUFFICES ASSUME NEW s \in Seq(ServerUnit), NEW d \in Seq(ServerUnit), NEW q
               PROVE  InEither(q, s, d)
    OBVIOUS
  <1> DEFINE c == s \o d
  <1>1. /\ Len(s) \in Nat /\ Len(d) \in Nat
        /\ Len(c) = Len(s) + Len(d)
        /\ \A i \in 1..Len(s) + Len(d) : c[i] = IF i <= Len(s) THEN s[i] ELSE d[i - Len(s)]
    BY ConcatProperties
  <1> HIDE DEF c
  <1>2. ASSUME NEW i \in 1..Len(c), q = c[i].f
        PROVE  (\E j \in 1..Len(s) : q = s[j].f) \/ (\E j \in 1..Len(d) : q = d[j].f)
    <2>1. CASE i <= Len(s)
      BY <1>1, <1>2, <2>1
    <2>2. CASE i > Len(s)
      <3>1. i - Len(s) \in 1..Len(d) /\ c[i] = d[i - Len(s)]
        BY <1>1, <2>2
      <3> QED
        BY <1>2, <3>1
    <2> QED
      BY <1>1, <2>1, <2>2
  <1>3. ASSUME NEW i \in 1..Len(s), q = s[i].f
        PROVE  \E j \in 1..Len(c) : q = c[j].f
    BY <1>1, <1>3
  <1>4. ASSUME NEW i \in 1..Len(d), q = d[i].f
        PROVE  \E j \in 1..Len(c) : q = c[j].f
    <2>1. Len(s) + i \in 1..Len(c) /\ c[Len(s) + i] = d[i]
      BY <1>1
    <2> QED
      BY <1>4, <2>1
  <1> QED
    BY <1>2, <1>3, <1>4 DEF c, InEither

(* A frame of the server is added to the end. *)
LEMMA AppendedUnits ==
    ASSUME StreamTypes, NEW a \in ServerFrame, down' = down \o Units(a, PackLen(a)),
           NEW i \in 1..Len(down')
    PROVE  \/ i \in 1..Len(down) /\ down'[i] = down[i]
           \/ i - Len(down) \in 1..PackLen(a) /\ down'[i] = [f |-> a, i |-> i - Len(down)]
  <1> DEFINE u == Units(a, PackLen(a))
  <1>1. /\ u \in Seq(ServerUnit) /\ Len(u) = PackLen(a) /\ PackLen(a) \in Nat
        /\ \A j \in 1..PackLen(a) : u[j] = [f |-> a, i |-> j]
        /\ down' = down \o u
    BY UnitsFacts, FrameFacts DEF HeadLen
  <1> HIDE DEF u
  <1>2. /\ Len(down') = Len(down) + Len(u) /\ Len(down) \in Nat
        /\ \A j \in 1..Len(down) + Len(u) : down'[j] = IF j <= Len(down) THEN down[j] ELSE u[j - Len(down)]
    <2>1. down \in Seq(ServerUnit) /\ u \in Seq(ServerUnit)
      BY <1>1 DEF StreamTypes
    <2>2. /\ Len(down \o u) = Len(down) + Len(u) /\ Len(down) \in Nat
          /\ \A j \in 1..Len(down) + Len(u) :
               (down \o u)[j] = IF j <= Len(down) THEN down[j] ELSE u[j - Len(down)]
      BY <2>1, ConcatProperties
    <2> QED
      BY <1>1, <2>2
  <1>3. CASE i <= Len(down)
    BY <1>2, <1>3
  <1>4. CASE i > Len(down)
    BY <1>1, <1>2, <1>4
  <1> QED
    BY <1>2, <1>3, <1>4

(* The answers Net has after a step of its own: some of those it had. *)
LEMMA NetAnswers ==
    ASSUME LinkInv, ManagerStep \/ MessageStep, NEW i \in 1..Len(mq'), mq'[i].m = "OnResponse"
    PROVE  \E j \in 1..Len(mq) : mq'[i] = mq[j]
  <1>1. QueueTypes /\ Len(mq) \in Nat
    BY TypeParts DEF LinkInv, QueueTypes
  <1>2. CASE UNCHANGED mq
    BY <1>2
  <1>3. CASE Joined
    BY <1>1, <1>2, <1>3, CancelFacts DEF Joined, QueueTypes
  <1>4. CASE OnSocketError
    <2>1. Tail(mq) \in Seq(Message)
      BY <1>1, <1>4, HeadTailProperties DEF OnSocketError, Taking, QueueTypes
    <2> QED
      BY <1>4, <2>1, CancelFacts DEF OnSocketError
  <1>5. CASE Take /\ mq # <<>>
    BY <1>1, <1>5, TakeFacts
  <1>6. CASE ManagerStep
    BY <1>2, <1>3, <1>6 DEF ManagerStep, MakesureLonglinkConnected, StartTask, RunLoopDue,
       RunOnTimeoutNone, RunOnTimeout, SkipTask, PackFails, VisitTask, ResetLink, CheckStatus, Send,
       RunLoopEnd, OnAlarm, OnTimerCheckSuc
  <1> QED
    BY <1>4, <1>5, <1>6 DEF MessageStep, PassOver, OnStatusChanged, OnUnpackError, OnResponse, Taking

(* The request the manager hands to the link. *)
Sending(q) ==
    Send /\ connectstatus_ = "Connected" /\ q = [t |-> cur, r |-> remain_retry_count[cur]]

(* Where something on the connection comes from: it was there, as itself   *)
(* or as the request it answers, it is sent now, or it belongs to no task. *)
LEMMA AboardOrigin ==
    ASSUME LinkInv, Next, NEW q, Aboard(q)'
    PROVE  \/ \E p : Aboard(p) /\ p.t = q.t /\ p.r = q.r
           \/ Sending(q)
           \/ q.t = NoTask
  <1>0. QueueTypes /\ StreamTypes /\ RequestTypes /\ WireInv /\ StatusTrue
    BY TypeParts DEF LinkInv
  <1>1. CASE ManagerStep
    <2>1. UNCHANGED <<bufrecv, part, asked, down>>
      BY <1>1, ManagerFrame
    <2>3. CASE link' \in Up /\ \E i \in 1..Len(lstsenddata_') : q = lstsenddata_'[i]
      <3>1. CASE Send /\ connectstatus_ = "Connected"
        <4> DEFINE p == [t |-> cur, r |-> remain_retry_count[cur]]
        <4>1. link \in Up
          BY <1>0, <3>1 DEF StatusTrue
        <4>2. lstsenddata_' = Append(lstsenddata_, p)
          BY <3>1 DEF Send
        <4>3. p \in Request \cup {Noop}
          <5>1. cur \in Task
            BY <3>1 DEF Send, LinkInv, ListInv, LinkTypeOK
          <5> QED
            BY <5>1 DEF Request, LinkInv, LinkTypeOK
        <4>4. PICK i \in 1..Len(lstsenddata_') : q = lstsenddata_'[i]
          BY <2>3
        <4> HIDE DEF p
        <4>5. /\ Len(lstsenddata_') = Len(lstsenddata_) + 1 /\ Len(lstsenddata_) \in Nat
              /\ \A j \in 1..Len(lstsenddata_) : lstsenddata_'[j] = lstsenddata_[j]
              /\ lstsenddata_'[Len(lstsenddata_) + 1] = p
          BY <1>0, <4>2, <4>3, AppendProperties DEF RequestTypes
        <4>6. CASE i = Len(lstsenddata_) + 1
          BY <3>1, <4>4, <4>5, <4>6 DEF p, Sending
        <4>7. CASE i # Len(lstsenddata_) + 1
          BY <4>1, <4>4, <4>5, <4>7 DEF Aboard
        <4> QED
          BY <4>6, <4>7
      <3>2. CASE ~(Send /\ connectstatus_ = "Connected")
        <4>1. CASE ResetLink
          BY <2>3, <4>1 DEF ResetLink
        <4>2. CASE ~ResetLink
          <5>1. UNCHANGED lstsenddata_ /\ (link' \in Up => link \in Up)
            BY <1>1, <3>2, <4>2 DEF ManagerStep, MakesureLonglinkConnected, StartTask, RunLoopDue,
               RunOnTimeoutNone, RunOnTimeout, SkipTask, PackFails, VisitTask, CheckStatus, Send,
               RunLoopEnd, Joined, OnAlarm, OnTimerCheckSuc, StartThread, Up
          <5> QED
            BY <2>3, <5>1 DEF Aboard
        <4> QED
          BY <4>1, <4>2
      <3> QED
        BY <3>1, <3>2
    <2> QED
      BY <2>1, <2>3 DEF Aboard
  <1>2. CASE MessageStep
    <2>1. UNCHANGED <<link, lstsenddata_, bufrecv, part, asked, down>>
      BY <1>2, MessageFrame
    <2> QED
      BY <2>1 DEF Aboard
  <1>3. CASE ThreadStep
    <2>2. CASE \/ q \in part' \cup asked'
               \/ link' \in Up /\ \E i \in 1..Len(lstsenddata_') : q = lstsenddata_'[i]
      <3>1. CASE NoopReq
        <4>1. lstsenddata_' \in {<<Noop>>, lstsenddata_} /\ UNCHANGED <<part, asked>> /\ link \in Up
          BY <3>1 DEF NoopReq, Up
        <4> QED
          BY <2>2, <4>1 DEF Aboard, Noop
      <3>2. CASE \E n \in 1..RequestLen : Write(n)
        <4>1. PICK n \in 1..RequestLen : Write(n)
          BY <3>2
        <4>2. /\ part' \subseteq {Head(lstsenddata_)}
              /\ asked' \subseteq asked \cup {Head(lstsenddata_)}
              /\ lstsenddata_ # <<>>
              /\ lstsenddata_' \in {lstsenddata_, Tail(lstsenddata_)}
              /\ link \in Up
          BY <4>1, WriteFacts DEF Write, Up
        <4>3. /\ Len(lstsenddata_) \in Nat \ {0} /\ Head(lstsenddata_) = lstsenddata_[1]
              /\ Len(Tail(lstsenddata_)) = Len(lstsenddata_) - 1
              /\ \A i \in 1..Len(Tail(lstsenddata_)) : Tail(lstsenddata_)[i] = lstsenddata_[i + 1]
          BY <1>0, <4>2, HeadTailProperties, EmptySeq DEF RequestTypes
        <4>4. CASE q = Head(lstsenddata_)
          BY <4>2, <4>3, <4>4 DEF Aboard
        <4>5. CASE \E i \in 1..Len(Tail(lstsenddata_)) : q = Tail(lstsenddata_)[i]
          <5>1. PICK i \in 1..Len(Tail(lstsenddata_)) : q = Tail(lstsenddata_)[i]
            BY <4>5
          <5>2. i + 1 \in 1..Len(lstsenddata_) /\ q = lstsenddata_[i + 1]
            BY <4>3, <5>1
          <5> QED
            BY <4>2, <5>2 DEF Aboard
        <4> QED
          BY <2>2, <4>2, <4>4, <4>5 DEF Aboard
      <3>3. CASE Connected
        <4>1. lstsenddata_ = <<>> /\ lstsenddata_' = <<>> /\ UNCHANGED <<part, asked>>
          BY <1>0, <3>3 DEF Connected, WireInv
        <4> QED
          BY <2>2, <4>1 DEF Aboard
      <3>4. CASE ~(NoopReq \/ Connected \/ \E n \in 1..RequestLen : Write(n))
        <4>1. /\ UNCHANGED lstsenddata_
              /\ link' \in Up => link \in Up
              /\ part' \subseteq part /\ asked' \subseteq asked
          BY <1>3, <3>4 DEF ThreadStep, Run, ConnectFails, Recv, Unpack, UserDisconnect,
             NoopTimeout, SocketError, Close, ReportError, ThreadEnds, Up
        <4> QED
          BY <2>2, <4>1 DEF Aboard
      <3> QED
        BY <3>1, <3>2, <3>3, <3>4
    <2>3. CASE (\E i \in 1..Len(bufrecv') : q = bufrecv'[i].f) \/ (\E i \in 1..Len(down') : q = down'[i].f)
      <3>1. CASE UNCHANGED <<bufrecv, down>>
        BY <2>3, <3>1 DEF Aboard
      <3>2. CASE \E n \in 1..Len(down) : Recv(n)
        <4>1. StreamTypes' /\ Stream' = Stream
          BY <1>0, <3>2, RecvFacts
        <4>2. \E i \in 1..Len(Stream) : q = Stream[i].f
          <5>1. InEither(q, bufrecv', down')
            BY <4>1, StreamParts DEF StreamTypes
          <5> QED
            BY <2>3, <4>1, <5>1 DEF InEither, Stream
        <4> QED
          BY SMTT(30), <1>0, <4>2, StreamParts DEF Aboard, StreamTypes, Stream, InEither
      <3>3. CASE Unpack /\ unpack_test(bufrecv) = "OK"
        <4>1. PICK len \in HeadLen..Len(bufrecv) :
                /\ Len(bufrecv') = Len(bufrecv) - len
                /\ \A i \in 1..Len(bufrecv') : bufrecv'[i] = bufrecv[len + i]
          BY <1>0, <3>3, UnpackFacts
        <4>2. UNCHANGED down /\ Len(bufrecv) \in Nat
          BY <1>0, <3>3 DEF Unpack, StreamTypes
        <4>3. \A i \in 1..Len(bufrecv') : len + i \in 1..Len(bufrecv)
          BY <4>1, <4>2 DEF HeadLen
        <4> QED
          BY <2>3, <4>1, <4>2, <4>3 DEF Aboard
      <3>4. CASE Close
        BY <2>3, <3>4 DEF Close
      <3> QED
        BY <1>3, <3>1, <3>2, <3>3, <3>4 DEF ThreadStep, Run, ConnectFails, Connected, NoopReq, Write,
           Unpack, UserDisconnect, NoopTimeout, SocketError, ReportError, ThreadEnds
    <2> QED
      BY <2>2, <2>3 DEF Aboard
  <1>4. CASE ServerStep
    <2>1. /\ UNCHANGED <<link, lstsenddata_, part, bufrecv>>
          /\ asked' \subseteq asked
      BY <1>4, ServerStepFrame DEF ServerStep, ServerAnswers, ServerSends
    <2>2. CASE \E i \in 1..Len(down') : q = down'[i].f
      <3>1. PICK a \in ServerFrame :
              /\ down' = down \o Units(a, PackLen(a))
              /\ a.t = NoTask \/ \E p \in asked : p.t = a.t /\ p.r = a.r
        <4>1. CASE \E p \in Request \cup {Noop} : ServerAnswers(p)
          <5>1. PICK p \in Request \cup {Noop} : ServerAnswers(p)
            BY <4>1
          <5> DEFINE b == IF p = Noop THEN Other("noop") ELSE [k |-> "resp", t |-> p.t, r |-> p.r]
          <5>2. b \in ServerFrame /\ p.t = b.t /\ p.r = b.r
            BY AnswerFacts
          <5>3. p \in asked /\ down' = down \o Units(b, PackLen(b))
            BY <5>1 DEF ServerAnswers
          <5> QED
            BY <5>2, <5>3
        <4>2. CASE \E k \in {"push", "bad"} : ServerSends(k)
          BY <4>2 DEF ServerSends, ServerFrame, Other
        <4> QED
          BY <1>4, <4>1, <4>2 DEF ServerStep
      <3>2. PICK i \in 1..Len(down') : q = down'[i].f
        BY <2>2
      <3>3. (i \in 1..Len(down) /\ down'[i] = down[i]) \/ q = a
        <4>1. \/ i \in 1..Len(down) /\ down'[i] = down[i]
              \/ i - Len(down) \in 1..PackLen(a) /\ down'[i] = [f |-> a, i |-> i - Len(down)]
          BY <1>0, <3>1, AppendedUnits
        <4> QED
          BY <3>2, <4>1
      <3> QED
        BY <3>1, <3>2, <3>3 DEF Aboard
    <2> QED
      BY <2>1, <2>2 DEF Aboard
  <1> QED
    BY <1>1, <1>2, <1>3, <1>4 DEF Next

(* Where something that flies comes from: it flew already, as itself or as *)
(* the request it answers, it is sent now, or it belongs to no task.       *)
LEMMA Origin ==
    ASSUME LinkInv, Next, NEW q, Flying(q)'
    PROVE  \/ \E p : Flying(p) /\ p.t = q.t /\ p.r = q.r
           \/ Sending(q)
           \/ q.t = NoTask
  <1>1. CASE Aboard(q)'
    BY <1>1, AboardOrigin DEF Flying
  <1>2. CASE \E i \in 1..Len(mq') : mq'[i].m = "OnResponse" /\ q = mq'[i].f
    <2>1. CASE ManagerStep \/ MessageStep
      BY <1>2, <2>1, NetAnswers DEF Flying
    <2>2. CASE ThreadStep
      <3>1. CASE \E i \in 1..Len(mq) : mq[i].m = "OnResponse" /\ q = mq[i].f
        BY <3>1 DEF Flying
      <3>2. CASE unpack_test(bufrecv) = "OK" /\ q = bufrecv[1].f
        <4>1. StreamTypes
          BY TypeParts DEF LinkInv
        <4>2. 1 \in 1..Len(bufrecv)
          BY <3>2, <4>1 DEF unpack_test, HeadLen, StreamTypes
        <4> QED
          BY <3>2, <4>2 DEF Flying, Aboard
      <3> QED
        BY <1>2, <2>2, <3>1, <3>2, ThreadAnswers
    <2>3. CASE ServerStep
      BY <1>2, <2>3, ServerStepFrame DEF Flying
    <2> QED
      BY <2>1, <2>2, <2>3 DEF Next
  <1> QED
    BY <1>1, <1>2 DEF Flying

(* Nothing flies once the thread is gone and its messages are cancelled. *)
LEMMA NothingFlies ==
    ASSUME LinkInv, link \notin Up, (Joined /\ net \in Cancelling) \/ OnSocketError, NEW q
    PROVE  ~Flying(q)'
  <1>1. UNCHANGED <<link, bufrecv, part, asked, down>>
    BY DEF Joined, OnSocketError
  <1>2. part = {} /\ asked = {} /\ down = <<>> /\ bufrecv = <<>>
    BY DEF LinkInv, WireInv
  <1>3. mq \in Seq(Message)
    BY DEF LinkInv, LinkTypeOK
  <1>4. \A i \in 1..Len(mq') : mq'[i].m # "OnResponse"
    <2>1. CASE Joined /\ net \in Cancelling
      BY <1>3, <2>1, CancelFacts DEF Joined
    <2>2. CASE OnSocketError
      <3>1. Tail(mq) \in Seq(Message)
        BY <1>3, <2>2, HeadTailProperties DEF OnSocketError, Taking
      <3> QED
        BY <2>2, <3>1, CancelFacts DEF OnSocketError
    <2> QED
      BY <2>1, <2>2
  <1> QED
    BY <1>1, <1>2, <1>4 DEF Flying, Aboard

(* No answer is left in the queue when Net has taken a socket error. *)
LEMMA AnswersCancelled ==
    ASSUME LinkInv, OnSocketError, NEW q, Flying(q)'
    PROVE  Aboard(q)'
  <1>1. mq \in Seq(Message)
    BY DEF LinkInv, LinkTypeOK
  <1>2. Tail(mq) \in Seq(Message)
    BY <1>1, HeadTailProperties DEF OnSocketError, Taking
  <1>3. \A i \in 1..Len(mq') : mq'[i].m # "OnResponse"
    BY <1>2, CancelFacts DEF OnSocketError
  <1> QED
    BY <1>3 DEF Flying

(* The manager's lists change in three ways that matter here. *)
LEMMA FitsKept ==
    ASSUME LinkInv, Next, NEW q, Flying(q)', net' \notin Cancelling,
           \E p : Flying(p) /\ p.t = q.t /\ p.r = q.r
    PROVE  Fits(q)'
  <1>1. PICK p : Flying(p) /\ p.t = q.t /\ p.r = q.r
    OBVIOUS
  <1>2. ManagerTypes
    BY TypeParts DEF LinkInv
  <1>3. CASE Joined /\ net \in Cancelling
    BY <1>3, NothingFlies DEF Joined, Up
  <1>4. CASE ~(Joined /\ net \in Cancelling)
    <2>1. net \notin Cancelling
      <3>1. CASE ManagerStep
        BY <1>4, <3>1 DEF ManagerStep, MakesureLonglinkConnected, StartTask, RunLoopDue,
           RunOnTimeoutNone, RunOnTimeout, SkipTask, PackFails, VisitTask, ResetLink, CheckStatus, Send,
           RunLoopEnd, OnAlarm, OnTimerCheckSuc, Cancelling, Locking
      <3>2. CASE MessageStep
        BY <3>2 DEF MessageStep, PassOver, OnStatusChanged, OnSocketError, OnUnpackError, OnResponse,
           Taking, Cancelling
      <3> QED
        BY <3>1, <3>2, ThreadFrame, ServerStepFrame DEF Next
    <2>2. Fits(p)
      BY <1>1, <2>1, FlyingFits DEF LinkInv
    <2>3. CASE UNCHANGED <<lst_cmd_, running_id, remain_retry_count, resent>>
      BY <1>1, <2>2, <2>3 DEF Fits
    <2>4. CASE \E t \in Task : StartTask(t)
      <3>1. PICK t \in Task : StartTask(t)
        BY <2>4
      <3>2. p.t # t
        BY <1>1, <3>1 DEF StartTask, Fresh, Flying, Aboard
      <3> QED
        BY <1>1, <1>2, <2>2, <3>1, <3>2 DEF StartTask, Fits, ManagerTypes
    <2>5. CASE Send
      <3>1. cur \in lst_cmd_ \ running_id
        BY <2>5 DEF Send, LinkInv, ListInv, LinkTypeOK
      <3>2. CASE connectstatus_ = "Connected"
        BY <1>1, <1>2, <2>2, <2>5, <3>1, <3>2 DEF Send, EndTasks, Fits, ManagerTypes
      <3>3. CASE connectstatus_ # "Connected"
        BY <2>3, <2>5, <3>3 DEF Send
      <3> QED
        BY <3>2, <3>3
    <2>6. CASE \E t \in Task : PackFails(t)
      BY <1>1, <1>2, <2>2, <2>6 DEF PackFails, EndTasks, Fits, ManagerTypes
    <2>7. CASE OnResponse
      BY <1>1, <1>2, <2>2, <2>7 DEF OnResponse, EndTasks, Fits, ManagerTypes
    <2>8. CASE OnSocketError
      <3>1. CASE connectstatus_ = "Connected"
        <4>1. Aboard(q)' /\ net = "loop" /\ ~Send
          BY <2>8, AnswersCancelled DEF OnSocketError, Taking, Send
        <4>2. CASE q.t = NoTask
          BY <2>8, <4>2, <1>2, LinkAssumption DEF OnSocketError, BatchErrorRespHandle, Fits, ManagerTypes
        <4>3. CASE \E o : Aboard(o) /\ o.t = q.t /\ o.r = q.r
          <5>1. q.t \notin dropped
            BY <4>1, <4>3, AboardDropped DEF LinkInv
          <5> QED
            BY <1>1, <2>2, <2>8, <3>1, <5>1 DEF OnSocketError, BatchErrorRespHandle, Fits
        <4> QED
          BY <4>1, <4>2, <4>3, AboardOrigin DEF Sending
      <3>2. CASE connectstatus_ # "Connected"
        BY <2>8, <3>2, NothingFlies DEF LinkInv, StatusTrue
      <3> QED
        BY <3>1, <3>2
    <2>9. CASE OnUnpackError \/ \E T \in SUBSET lst_cmd_ : RunOnTimeout(T)
      BY <2>9 DEF OnUnpackError, RunOnTimeout, Cancelling
    <2>10. CASE ManagerStep
      BY <2>3, <2>4, <2>5, <2>6, <2>9, <2>10 DEF ManagerStep, MakesureLonglinkConnected,
         RunLoopDue, RunOnTimeoutNone, SkipTask, VisitTask, ResetLink, CheckStatus, RunLoopEnd, Joined,
         OnAlarm, OnTimerCheckSuc
    <2>11. CASE MessageStep
      BY <2>3, <2>7, <2>8, <2>9, <2>11 DEF MessageStep, PassOver, OnStatusChanged
    <2> QED
      BY <2>3, <2>10, <2>11, ThreadFrame, ServerStepFrame DEF Next
  <1> QED
    BY <1>3, <1>4

(* Every step keeps requests and answers those of the last sending. *)
LEMMA InFlightStep ==
    ASSUME LinkInv, Next
    PROVE  InFlightInv'
  <1> SUFFICES ASSUME net' \notin Cancelling, NEW q, Flying(q)'
               PROVE  Fits(q)'
    BY FlyingFitsNext
  <1>1. CASE Sending(q)
    <2>1. cur \in Task
      BY <1>1 DEF Sending, Send, LinkInv, ListInv, LinkTypeOK
    <2> QED
      BY <1>1, <2>1 DEF Sending, Send, EndTasks, Fits, LinkInv, LinkTypeOK
  <1>2. CASE q.t = NoTask
    <2>1. lst_cmd_' \subseteq Task
      BY ManagerTypesStep DEF ManagerTypes
    <2> QED
      BY <1>2, <2>1, LinkAssumption DEF Fits
  <1> QED
    BY <1>1, <1>2, Origin, FitsKept

(* Only a time check drops tasks, and when its thread has ended nothing is *)
(* left of them but what is in Net's queue.                                *)
LEMMA DroppedStep ==
    ASSUME LinkInv, Next
    PROVE  DroppedInv'
  <1> SUFFICES ASSUME net' # "joinCheck", NEW q, Aboard(q)' PROVE q.t \notin dropped'
    BY AboardDropped
  <1>1. ManagerTypes /\ ManagerTypes'
    BY TypeParts, ManagerTypesStep DEF LinkInv
  <1>2. net # "joinCheck"
    <2>1. CASE Joined
      <3>1. link = "none" /\ UNCHANGED <<link, bufrecv, part, asked, down>>
        BY <2>1 DEF Joined
      <3> QED
        BY <3>1 DEF Aboard, LinkInv, WireInv, Up
    <2>2. CASE ManagerStep /\ ~Joined
      BY <2>2 DEF ManagerStep, MakesureLonglinkConnected, StartTask, RunLoopDue, RunOnTimeoutNone,
         RunOnTimeout, SkipTask, PackFails, VisitTask, ResetLink, CheckStatus, Send, RunLoopEnd,
         OnAlarm, OnTimerCheckSuc, Locking
    <2>3. CASE MessageStep
      BY <2>3 DEF MessageStep, PassOver, OnStatusChanged, OnSocketError, OnUnpackError, OnResponse,
         Taking
    <2> QED
      BY <2>1, <2>2, <2>3, ThreadFrame, ServerStepFrame DEF Next
  <1>3. dropped' \subseteq dropped
    <2>1. CASE ManagerStep
      BY <2>1 DEF ManagerStep, MakesureLonglinkConnected, StartTask, RunLoopDue, RunOnTimeoutNone,
         RunOnTimeout, BatchErrorRespHandle, SkipTask, PackFails, EndTasks, VisitTask, ResetLink,
         CheckStatus, Send, RunLoopEnd, Joined, OnAlarm, OnTimerCheckSuc
    <2>2. CASE MessageStep
      BY <2>2 DEF MessageStep, PassOver, OnStatusChanged, OnSocketError, OnUnpackError, OnResponse,
         BatchErrorRespHandle, EndTasks
    <2> QED
      BY <2>1, <2>2, ThreadFrame, ServerStepFrame DEF Next
  <1>4. CASE \E p : Aboard(p) /\ p.t = q.t /\ p.r = q.r
    BY <1>2, <1>3, <1>4, AboardDropped DEF LinkInv
  <1>5. CASE Sending(q)
    BY <1>1, <1>3, <1>5 DEF Sending, Send, LinkInv, ListInv, ManagerTypes
  <1>6. CASE q.t = NoTask
    BY <1>1, <1>6, LinkAssumption DEF ManagerTypes
  <1> QED
    BY <1>4, <1>5, <1>6, AboardOrigin

-----------------------------------------------------------------------------
(***************************************************************************)
(* The stream is whole frames, however it is cut.                          *)
(***************************************************************************)

(* The frame that unpack_test accepts is at the front, unit by unit. *)
LEMMA FrontFrame ==
    ASSUME StreamTypes, StreamInv, unpack_test(bufrecv) = "OK"
    PROVE  LET f == bufrecv[1].f
           IN  /\ f \in ServerFrame
               /\ PackLen(f) \in HeadLen..Len(bufrecv)
               /\ \A j \in 1..PackLen(f) : bufrecv[j] = [f |-> f, i |-> j]
               /\ PackLen(f) < Len(Stream) => Stream[PackLen(f) + 1].i = 1
  <1> DEFINE f == bufrecv[1].f
  <1>1. Len(bufrecv) \in Nat /\ ~(Len(bufrecv) < 2) /\ ~(PackLen(f) > Len(bufrecv))
    BY DEF StreamTypes, unpack_test, HeadLen
  <1>2. bufrecv[1] \in ServerUnit
    BY <1>1 DEF StreamTypes
  <1>3. f \in ServerFrame /\ PackLen(f) \in 2..3
    BY <1>2, FrameFacts DEF ServerUnit, HeadLen
  <1>4. /\ Len(Stream) \in Nat /\ Len(Stream) >= Len(bufrecv)
        /\ \A i \in 1..Len(bufrecv) : Stream[i] = bufrecv[i]
    BY StreamFacts
  <1>5. Stream[1] = bufrecv[1] /\ Stream[1].i = 1 /\ Stream[1].f = f
    BY <1>1, <1>4 DEF StreamInv
  <1>6. \A i \in 1..(Len(Stream) - 1) : Follows(Stream[i], Stream[i + 1])
    BY DEF StreamInv
  <1> HIDE DEF f
  <1>7. Stream[1] = [f |-> f, i |-> 1]
    BY <1>2, <1>5 DEF ServerUnit
  <1>8. Stream[2] = [f |-> f, i |-> 2]
    <2>1. Follows(Stream[1], Stream[1 + 1])
      BY <1>1, <1>4, <1>6
    <2> QED
      BY <1>3, <1>7, <2>1 DEF Follows
  <1>9. CASE PackLen(f) = 2
    <2>1. 2 < Len(Stream) => Stream[3].i = 1
      <3>1. 2 < Len(Stream) => Follows(Stream[2], Stream[2 + 1])
        BY <1>4, <1>6
      <3> QED
        BY <1>8, <1>9, <3>1 DEF Follows
    <2> QED
      BY <1>1, <1>3, <1>4, <1>7, <1>8, <1>9, <2>1 DEF f, HeadLen
  <1>10. CASE PackLen(f) = 3
    <2>1. Stream[3] = [f |-> f, i |-> 3]
      <3>1. Follows(Stream[2], Stream[2 + 1])
        BY <1>1, <1>4, <1>6, <1>10
      <3> QED
        BY <1>8, <1>10, <3>1 DEF Follows
    <2>2. 3 < Len(Stream) => Stream[4].i = 1
      <3>1. 3 < Len(Stream) => Follows(Stream[3], Stream[3 + 1])
        BY <1>4, <1>6
      <3> QED
        BY <1>10, <2>1, <3>1 DEF Follows
    <2> QED
      BY <1>1, <1>3, <1>4, <1>7, <1>8, <1>10, <2>1, <2>2 DEF f, HeadLen
  <1> QED
    BY <1>3, <1>9, <1>10

(* A frame the server sends goes to the end of the stream. *)
LEMMA SentFacts ==
    ASSUME StreamTypes, NEW a \in ServerFrame, down' = down \o Units(a, PackLen(a)), bufrecv' = bufrecv
    PROVE  /\ Len(Stream') = Len(Stream) + PackLen(a)
           /\ \A i \in 1..Len(Stream) : Stream'[i] = Stream[i]
           /\ \A i \in 1..PackLen(a) : Stream'[Len(Stream) + i] = [f |-> a, i |-> i]
  <1> DEFINE u == Units(a, PackLen(a))
  <1>1. /\ u \in Seq(ServerUnit) /\ Len(u) = PackLen(a) /\ PackLen(a) \in Nat
        /\ \A j \in 1..PackLen(a) : u[j] = [f |-> a, i |-> j]
        /\ down' = down \o u
    BY UnitsFacts, FrameFacts DEF HeadLen
  <1> HIDE DEF u
  <1>2. bufrecv \in Seq(ServerUnit) /\ down \in Seq(ServerUnit) /\ u \in Seq(ServerUnit)
    BY <1>1 DEF StreamTypes
  <1>3. (bufrecv \o down) \o u = bufrecv \o (down \o u)
    BY SMTT(30), <1>2, ConcatAssociative
  <1>4. Stream' = Stream \o u
    BY <1>1, <1>3 DEF Stream
  <1>5. Stream \in Seq(ServerUnit) /\ Len(Stream) \in Nat
    BY StreamFacts
  <1>6. /\ Len(Stream \o u) = Len(Stream) + Len(u)
        /\ \A j \in 1..Len(Stream) + Len(u) :
             (Stream \o u)[j] = IF j <= Len(Stream) THEN Stream[j] ELSE u[j - Len(Stream)]
    BY <1>2, <1>5, ConcatProperties
  <1> QED
    BY <1>1, <1>4, <1>5, <1>6

(* Every step keeps the stream whole. *)
LEMMA StreamStep ==
    ASSUME LinkInv, Next
    PROVE  StreamInv'
  <1>1. StreamTypes /\ StreamInv /\ asked \subseteq Request \cup {Noop}
    BY TypeParts DEF LinkInv, RequestTypes
  <1>2. /\ Stream \in Seq(ServerUnit) /\ Len(Stream) \in Nat
        /\ \A i \in 1..Len(Stream) : Stream[i] \in ServerUnit
    BY <1>1, StreamFacts
  <1>3. CASE Stream' = Stream
    BY <1>1, <1>3 DEF StreamInv
  <1>4. CASE UNCHANGED <<bufrecv, down>>
    BY <1>3, <1>4 DEF Stream
  <1>5. CASE ThreadStep
    <2>1. CASE \E n \in 1..Len(down) : Recv(n)
      BY <1>1, <1>3, <2>1, RecvFacts
    <2>2. CASE Unpack /\ unpack_test(bufrecv) = "OK"
      <3> DEFINE len == PackLen(bufrecv[1].f)
      <3>1. /\ len \in HeadLen..Len(bufrecv)
            /\ len < Len(Stream) => Stream[len + 1].i = 1
        BY <1>1, <2>2, FrontFrame
      <3>2. /\ Len(Stream') = Len(Stream) - len
            /\ \A i \in 1..Len(Stream') : Stream'[i] = Stream[len + i]
        BY <1>1, <2>2, UnpackFacts
      <3>3. len \in Nat /\ Len(Stream) >= len
        BY <1>1, <3>1, StreamFacts DEF HeadLen
      <3>4. Stream' # <<>> => Len(Stream') > 0
        <4>1. Stream' \in Seq(ServerUnit)
          <5>1. StreamTypes'
            BY StreamTypesStep
          <5> QED
            BY <5>1, ConcatProperties DEF StreamTypes, Stream
        <4> QED
          BY <4>1, EmptySeq
      <3> HIDE DEF len
      <3>5. \A i \in 1..Len(Stream') : Stream'[i].i \in 1..PackLen(Stream'[i].f)
        <4>1. \A i \in 1..Len(Stream') : len + i \in 1..Len(Stream)
          BY <1>2, <3>2, <3>3
        <4> QED
          BY <1>1, <3>2, <4>1 DEF StreamInv
      <3>6. Stream' # <<>> => Stream'[1].i = 1 /\ Stream'[Len(Stream')].i = PackLen(Stream'[Len(Stream')].f)
        <4> SUFFICES ASSUME Stream' # <<>>
                     PROVE  Stream'[1].i = 1 /\ Stream'[Len(Stream')].i = PackLen(Stream'[Len(Stream')].f)
          OBVIOUS
        <4>1. /\ len < Len(Stream) /\ Len(Stream) > 0
              /\ 1 \in 1..Len(Stream') /\ Len(Stream') \in 1..Len(Stream')
          BY <1>2, <3>2, <3>3, <3>4
        <4>2. Stream'[1] = Stream[len + 1] /\ Stream'[Len(Stream')] = Stream[Len(Stream)]
          BY <1>2, <3>2, <3>3, <4>1
        <4>3. Stream # <<>>
          BY <4>1
        <4> QED
          BY <1>1, <3>1, <4>1, <4>2, <4>3 DEF StreamInv
      <3>7. \A i \in 1..(Len(Stream') - 1) : Follows(Stream'[i], Stream'[i + 1])
        <4> SUFFICES ASSUME NEW i \in 1..(Len(Stream') - 1)
                     PROVE  Follows(Stream'[i], Stream'[i + 1])
          OBVIOUS
        <4>1. /\ i \in 1..Len(Stream') /\ i + 1 \in 1..Len(Stream')
              /\ len + i \in 1..(Len(Stream) - 1) /\ len + (i + 1) = (len + i) + 1
          BY <1>2, <3>2, <3>3
        <4>2. Follows(Stream[len + i], Stream[(len + i) + 1])
          BY <1>1, <4>1 DEF StreamInv
        <4>3. Stream'[i] = Stream[len + i] /\ Stream'[i + 1] = Stream[(len + i) + 1]
          BY <3>2, <4>1
        <4> QED
          BY <4>2, <4>3
      <3> QED
        BY <3>5, <3>6, <3>7 DEF StreamInv
    <2>3. CASE Close
      <3>1. Stream' = <<>>
        BY <2>3 DEF Close, Stream
      <3> QED
        BY <3>1 DEF StreamInv
    <2> QED
      BY <1>4, <1>5, <2>1, <2>2, <2>3 DEF ThreadStep, Run, ConnectFails, Connected, NoopReq, Write,
         Unpack, UserDisconnect, NoopTimeout, SocketError, ReportError, ThreadEnds
  <1>6. CASE ServerStep
    <2>1. PICK a \in ServerFrame : down' = down \o Units(a, PackLen(a)) /\ bufrecv' = bufrecv
      <3>1. CASE \E q \in Request \cup {Noop} : ServerAnswers(q)
        BY <3>1, AnswerFacts DEF ServerAnswers
      <3>2. CASE \E k \in {"push", "bad"} : ServerSends(k)
        BY <3>2 DEF ServerSends, ServerFrame
      <3> QED
        BY <1>6, <3>1, <3>2 DEF ServerStep
    <2> DEFINE n == PackLen(a)
    <2>2. n \in 2..3
      BY FrameFacts DEF HeadLen
    <2>3. /\ Len(Stream') = Len(Stream) + n
          /\ \A i \in 1..Len(Stream) : Stream'[i] = Stream[i]
          /\ \A i \in 1..n : Stream'[Len(Stream) + i] = [f |-> a, i |-> i]
      BY <1>1, <2>1, SentFacts
    <2>4. n = PackLen(a)
      OBVIOUS
    <2>5. Stream # <<>> <=> Len(Stream) > 0
      BY <1>2, EmptySeq
    <2> HIDE DEF n
    <2>6. ASSUME NEW i \in 1..Len(Stream')
          PROVE  \/ i \in 1..Len(Stream) /\ Stream'[i] = Stream[i]
                 \/ i - Len(Stream) \in 1..n /\ Stream'[i] = [f |-> a, i |-> i - Len(Stream)]
      <3>1. CASE i <= Len(Stream)
        BY <1>2, <2>2, <2>3, <3>1
      <3>2. CASE i > Len(Stream)
        <4>1. i - Len(Stream) \in 1..n /\ Len(Stream) + (i - Len(Stream)) = i
          BY <1>2, <2>2, <2>3, <3>2
        <4> QED
          BY <2>3, <4>1
      <3> QED
        BY <1>2, <3>1, <3>2
    <2>7. \A i \in 1..Len(Stream') : Stream'[i].i \in 1..PackLen(Stream'[i].f)
      <3> SUFFICES ASSUME NEW i \in 1..Len(Stream')
                   PROVE  Stream'[i].i \in 1..PackLen(Stream'[i].f)
        OBVIOUS
      <3>1. CASE i \in 1..Len(Stream) /\ Stream'[i] = Stream[i]
        BY <1>1, <3>1 DEF StreamInv
      <3>2. CASE i - Len(Stream) \in 1..n /\ Stream'[i] = [f |-> a, i |-> i - Len(Stream)]
        BY <2>4, <3>2
      <3> QED
        BY <2>6, <3>1, <3>2
    <2>8. Stream'[1].i = 1 /\ Stream'[Len(Stream')].i = PackLen(Stream'[Len(Stream')].f)
      <3>1. Stream'[Len(Stream')] = [f |-> a, i |-> n]
        BY <2>2, <2>3
      <3>2. CASE Len(Stream) = 0
        <4>1. 1 \in 1..n /\ Len(Stream) + 1 = 1
          BY <2>2, <3>2
        <4>2. Stream'[Len(Stream) + 1] = [f |-> a, i |-> 1]
          BY <2>3, <4>1, Zenon
        <4> QED
          BY <2>4, <3>1, <4>1, <4>2
      <3>3. CASE Len(Stream) > 0
        <4>1. Stream'[1] = Stream[1] /\ Stream[1].i = 1
          BY <1>1, <1>2, <2>3, <2>5, <3>3 DEF StreamInv
        <4> QED
          BY <2>4, <3>1, <4>1
      <3> QED
        BY <1>2, <3>2, <3>3
    <2>9. \A i \in 1..(Len(Stream') - 1) : Follows(Stream'[i], Stream'[i + 1])
      <3> SUFFICES ASSUME NEW i \in 1..(Len(Stream') - 1)
                   PROVE  Follows(Stream'[i], Stream'[i + 1])
        OBVIOUS
      <3>1. CASE i < Len(Stream)
        <4>1. i \in 1..(Len(Stream) - 1) /\ Stream'[i] = Stream[i] /\ Stream'[i + 1] = Stream[i + 1]
          BY <1>2, <2>3, <3>1
        <4> QED
          BY <1>1, <4>1 DEF StreamInv
      <3>2. CASE i = Len(Stream)
        <4>1. Stream'[i] = Stream[Len(Stream)] /\ Stream'[i + 1] = [f |-> a, i |-> 1]
          BY <1>2, <2>2, <2>3, <3>2
        <4>2. Stream[Len(Stream)].i = PackLen(Stream[Len(Stream)].f)
          BY <1>1, <1>2, <2>5, <3>2 DEF StreamInv
        <4> QED
          BY <4>1, <4>2 DEF Follows
      <3>3. CASE i > Len(Stream)
        <4> DEFINE j == i - Len(Stream)
        <4>1. j \in 1..(n - 1) /\ i = Len(Stream) + j /\ i + 1 = Len(Stream) + (j + 1)
          BY <1>2, <2>2, <2>3, <3>3
        <4> HIDE DEF j
        <4>2. Stream'[i] = [f |-> a, i |-> j] /\ Stream'[i + 1] = [f |-> a, i |-> j + 1]
          <5>1. j \in 1..n /\ j + 1 \in 1..n
            BY <2>2, <4>1
          <5>2. /\ Stream'[Len(Stream) + j] = [f |-> a, i |-> j]
                /\ Stream'[Len(Stream) + (j + 1)] = [f |-> a, i |-> j + 1]
            BY <2>3, <5>1, Zenon
          <5> QED
            BY <4>1, <5>2
        <4>3. j # n
          BY <2>2, <4>1
        <4> QED
          BY <2>4, <4>2, <4>3 DEF Follows
      <3> QED
        BY <1>2, <3>1, <3>2, <3>3
    <2> QED
      BY <2>7, <2>8, <2>9 DEF StreamInv
  <1> QED
    BY <1>4, <1>5, <1>6, ManagerFrame, MessageFrame DEF Next

(* Sequences that agree up to n have the same parts up to n. *)
LEMMA SameSubSeq ==
    ASSUME NEW s \in Seq(ServerUnit), NEW t \in Seq(ServerUnit), NEW m \in Nat \ {0}, NEW n \in Nat,
           n <= Len(s), n <= Len(t), \A j \in 1..n : s[j] = t[j]
    PROVE  SubSeq(s, m, n) = SubSeq(t, m, n)
  <1>1. \A i \in m..n : i \in 1..n /\ s[i] \in ServerUnit /\ t[i] \in ServerUnit
    OBVIOUS
  <1> DEFINE a == SubSeq(s, m, n)
             b == SubSeq(t, m, n)
  <1>2. /\ a \in Seq(ServerUnit) /\ Len(a) = IF m <= n THEN n - m + 1 ELSE 0
        /\ \A i \in 1..n - m + 1 : a[i] = s[m + i - 1]
    BY <1>1, SubSeqProperties
  <1>3. /\ b \in Seq(ServerUnit) /\ Len(b) = IF m <= n THEN n - m + 1 ELSE 0
        /\ \A i \in 1..n - m + 1 : b[i] = t[m + i - 1]
    BY <1>1, SubSeqProperties
  <1> HIDE DEF a, b
  <1>4. \A i \in 1..Len(a) : a[i] = b[i]
    <2>1. CASE m <= n
      <3> SUFFICES ASSUME NEW i \in 1..(n - m + 1) PROVE a[i] = b[i]
        BY <1>2, <2>1
      <3>1. m + i - 1 \in 1..n
        OBVIOUS
      <3>2. s[m + i - 1] = t[m + i - 1]
        BY <3>1
      <3> QED
        BY <1>2, <1>3, <3>2
    <2>2. CASE ~(m <= n)
      BY <1>2, <2>2
    <2> QED
      BY <2>1, <2>2
  <1> QED
    BY <1>2, <1>3, <1>4, SeqEqual DEF a, b

(* The body that goes to Net is the body of the frame. *)
LEMMA BodyWhole ==
    ASSUME StreamTypes, StreamInv, unpack_test(bufrecv) = "OK"
    PROVE  LET f == bufrecv[1].f
           IN  SubSeq(bufrecv, HeadLen + 1, PackLen(f)) =
                 SubSeq(Units(f, PackLen(f)), HeadLen + 1, PackLen(f))
  <1> DEFINE f == bufrecv[1].f
             u == Units(f, PackLen(f))
  <1>1. /\ f \in ServerFrame /\ PackLen(f) \in 2..Len(bufrecv) /\ PackLen(f) \in 2..3
        /\ \A j \in 1..PackLen(f) : bufrecv[j] = [f |-> f, i |-> j]
    <2>1. /\ f \in ServerFrame /\ PackLen(f) \in 2..Len(bufrecv)
          /\ \A j \in 1..PackLen(f) : bufrecv[j] = [f |-> f, i |-> j]
      BY FrontFrame DEF HeadLen
    <2> QED
      BY <2>1, FrameFacts DEF HeadLen
  <1>2. /\ u \in Seq(ServerUnit) /\ Len(u) = PackLen(f)
        /\ \A j \in 1..PackLen(f) : u[j] = [f |-> f, i |-> j]
    BY <1>1, UnitsFacts
  <1>3. bufrecv \in Seq(ServerUnit) /\ Len(bufrecv) \in Nat
    BY DEF StreamTypes
  <1> HIDE DEF f, u
  <1> DEFINE n == PackLen(f)
  <1>4. n \in Nat /\ n <= Len(bufrecv) /\ n <= Len(u) /\ \A j \in 1..n : bufrecv[j] = u[j]
    BY <1>1, <1>2, <1>3
  <1> HIDE DEF n
  <1>5. SubSeq(bufrecv, 3, n) = SubSeq(u, 3, n)
    BY <1>2, <1>3, <1>4, SameSubSeq
  <1>6. 3 = HeadLen + 1
    BY DEF HeadLen
  <1> QED
    BY <1>5, <1>6 DEF n, u, f

(* The answers Net holds have their own bodies. *)
BodiesWhole ==
    \A i \in 1..Len(mq) : mq[i].m = "OnResponse" =>
        mq[i].body = SubSeq(Units(mq[i].f, PackLen(mq[i].f)), HeadLen + 1, PackLen(mq[i].f))

(* Every step keeps frames whole. *)
LEMMA FramesStep ==
    ASSUME LinkInv, Next
    PROVE  FramesWhole'
  <1>1. StreamTypes /\ StreamInv /\ FramesWhole /\ WireInv /\ BodiesWhole
    BY TypeParts DEF LinkInv, FramesWhole, BodiesWhole
  <1>2. BodiesWhole'
    <2> SUFFICES ASSUME NEW i \in 1..Len(mq'), mq'[i].m = "OnResponse"
                 PROVE  mq'[i].body = SubSeq(Units(mq'[i].f, PackLen(mq'[i].f)), HeadLen + 1,
                                             PackLen(mq'[i].f))
      BY DEF BodiesWhole
    <2>1. CASE \E j \in 1..Len(mq) : mq'[i] = mq[j]
      BY <1>1, <2>1 DEF BodiesWhole
    <2>2. CASE ThreadStep
      <3>1. CASE /\ Unpack /\ unpack_test(bufrecv) = "OK"
                 /\ mq'[i] = [m |-> "OnResponse", f |-> bufrecv[1].f,
                              body |-> SubSeq(bufrecv, HeadLen + 1, PackLen(bufrecv[1].f))]
        <4> DEFINE f == bufrecv[1].f
                   body == SubSeq(bufrecv, HeadLen + 1, PackLen(f))
        <4>1. body = SubSeq(Units(f, PackLen(f)), HeadLen + 1, PackLen(f))
          BY <1>1, <3>1, BodyWhole
        <4>2. mq'[i] = [m |-> "OnResponse", f |-> f, body |-> body]
          BY <3>1
        <4> HIDE DEF f, body
        <4>3. mq'[i].f = f /\ mq'[i].body = body
          BY <4>2
        <4> QED
          BY <4>1, <4>3
      <3> QED
        BY <2>1, <2>2, <3>1, ThreadAnswers
    <2>3. CASE ServerStep
      BY <2>1, <2>3, ServerStepFrame
    <2> QED
      BY <2>1, <2>2, <2>3, NetAnswers DEF Next
  <1>3. link' \in Up /\ bufrecv' # <<>> => bufrecv'[1].i = 1
    <2> SUFFICES ASSUME bufrecv' # <<>> PROVE bufrecv'[1].i = 1
      OBVIOUS
    <2>1. bufrecv' \in Seq(ServerUnit) /\ down' \in Seq(ServerUnit)
      BY StreamTypesStep DEF StreamTypes
    <2>2. Len(bufrecv') \in Nat \ {0} /\ Len(down') \in Nat
      BY <2>1, EmptySeq
    <2>3. Len(Stream') = Len(bufrecv') + Len(down') /\ Stream'[1] = bufrecv'[1]
      BY <2>1, <2>2, ConcatProperties DEF Stream
    <2>4. Stream' # <<>>
      BY <2>2, <2>3
    <2> QED
      BY <2>3, <2>4, StreamStep DEF StreamInv
  <1>4. link' = "rw" /\ bufrecv' # <<>> => Len(bufrecv') < PackLen(bufrecv'[1].f)
    <2>1. link = "rw" /\ bufrecv # <<>> => Len(bufrecv) < PackLen(bufrecv[1].f)
      BY <1>1 DEF FramesWhole
    <2>2. CASE UNCHANGED bufrecv /\ (link' = "rw" => link = "rw")
      BY <2>1, <2>2
    <2>3. CASE ManagerStep
      <3>1. link' = "rw" => link = "rw"
        BY <2>3 DEF ManagerStep, MakesureLonglinkConnected, StartTask, RunLoopDue, RunOnTimeoutNone,
           RunOnTimeout, SkipTask, PackFails, VisitTask, ResetLink, CheckStatus, Send, RunLoopEnd,
           Joined, OnAlarm, OnTimerCheckSuc, StartThread
      <3> QED
        BY <2>2, <2>3, <3>1, ManagerFrame
    <2>4. CASE NoopReq
      BY <1>1, <2>1, <2>4 DEF NoopReq, WireInv, Up
    <2>5. CASE Unpack
      <3>1. CASE unpack_test(bufrecv) = "CONTINUE"
        <4>1. Len(bufrecv) < HeadLen \/ PackLen(bufrecv[1].f) > Len(bufrecv)
          BY <3>1 DEF unpack_test
        <4>2. Len(bufrecv) \in Nat /\ (bufrecv # <<>> => bufrecv[1].f \in ServerFrame)
          <5>1. bufrecv \in Seq(ServerUnit)
            BY <1>1 DEF StreamTypes
          <5>2. Len(bufrecv) \in Nat /\ (bufrecv # <<>> => bufrecv[1] \in ServerUnit)
            BY <5>1, EmptySeq
          <5> QED
            BY <5>2 DEF ServerUnit
        <4>3. bufrecv # <<>> => PackLen(bufrecv[1].f) \in 2..3
          BY <4>2, FrameFacts DEF HeadLen
        <4> QED
          BY <2>5, <3>1, <4>1, <4>2, <4>3 DEF Unpack, HeadLen
      <3>2. CASE unpack_test(bufrecv) # "CONTINUE"
        BY <2>5, <3>2 DEF Unpack
      <3> QED
        BY <3>1, <3>2
    <2>6. CASE ThreadStep
      BY <2>2, <2>4, <2>5, <2>6 DEF ThreadStep, Run, ConnectFails, Connected, Write, Recv,
         UserDisconnect, NoopTimeout, SocketError, Close, ReportError, ThreadEnds
    <2> QED
      BY <2>2, <2>3, <2>6, MessageFrame, ServerStepFrame DEF Next
  <1> QED
    BY <1>2, <1>3, <1>4 DEF FramesWhole, BodiesWhole

-----------------------------------------------------------------------------
(***************************************************************************)
(* The inductive invariant and what follows from it.                       *)
(***************************************************************************)

(* It holds before anything was started. *)
LEMMA InitInv ==
    ASSUME Init
    PROVE  LinkInv
  <1> USE LinkAssumption DEF Init
  <1>1. LinkTypeOK
    <2>1. ManagerTypes /\ RequestTypes
      BY DEF ManagerTypes, RequestTypes, RequestLen
    <2>2. PlaceTypes
      BY DEF PlaceTypes, Cancelling, Joining, Locking, Up
    <2>3. QueueTypes /\ StreamTypes
      BY DEF QueueTypes, StreamTypes
    <2> QED
      BY <2>1, <2>2, <2>3 DEF LinkTypeOK, ManagerTypes, RequestTypes, PlaceTypes, QueueTypes, StreamTypes
  <1>2. StatusTrue /\ ThreadInv /\ RunningHasFate /\ ListInv /\ WireInv /\ WholeRequests
    BY DEF StatusTrue, ThreadInv, RunningHasFate, ListInv, WireInv, WholeRequests, Up, Cancelling,
       Joining, Locking
  <1>3. InFlightInv /\ DroppedInv
    BY DEF InFlightInv, DroppedInv, Up
  <1>4. StreamInv /\ FramesWhole
    BY DEF StreamInv, Stream, FramesWhole
  <1> QED
    BY <1>1, <1>2, <1>3, <1>4 DEF LinkInv

(* It survives a stuttering step. *)
LEMMA StutterInv ==
    ASSUME LinkInv, UNCHANGED linkVars
    PROVE  LinkInv'
  <1> USE DEF linkVars
  <1>1. LinkTypeOK'
    BY DEF LinkInv, LinkTypeOK
  <1>2. StatusTrue' /\ ThreadInv' /\ ListInv'
    BY DEF LinkInv, StatusTrue, ThreadInv, ListInv, Watched
  <1>3. RunningHasFate'
    BY DEF LinkInv, RunningHasFate, ErrorPosted, Watched
  <1>4. WireInv' /\ WholeRequests'
    BY DEF LinkInv, WireInv, WholeRequests
  <1>5. InFlightInv' /\ DroppedInv'
    BY DEF LinkInv, InFlightInv, DroppedInv, Fits
  <1>6. StreamInv' /\ FramesWhole'
    BY DEF LinkInv, StreamInv, Stream, FramesWhole
  <1> QED
    BY <1>1, <1>2, <1>3, <1>4, <1>5, <1>6 DEF LinkInv

(* LinkInv is an invariant of the long link: whatever Net, the thread and  *)
(* the server do in whatever order, for any number of tasks and retries.   *)
THEOREM LinkInvariant == Spec => []LinkInv
  <1>1. ASSUME LinkInv, Next PROVE LinkInv'
    BY <1>1, TypeStep, StatusStep, ThreadInvStep, FateStep, ListInvStep, WireStep, InFlightStep,
       DroppedStep, StreamStep, FramesStep DEF LinkInv
  <1>2. LinkInv /\ [Next]_linkVars => LinkInv'
    BY <1>1, StutterInv
  <1> QED
    BY <1>2, InitInv, PTL DEF Spec

(* The types of LongLink, the task manager and the monitor's alarm. *)
THEOREM LinkTypes == Spec => []LinkTypeOK
  BY LinkInvariant, PTL DEF LinkInv

(* A request half written when the connection breaks is never continued on *)
(* the next one: lstsenddata_ is cleared under mutex_ before the new       *)
(* thread can look at it.                                                  *)
THEOREM RequestsAlwaysWhole == Spec => []WholeRequests
  BY LinkInvariant, PTL DEF LinkInv

(* connectstatus_, which two threads write without a lock, always tells    *)
(* whether the thread serves a connection.                                 *)
THEOREM StatusAlwaysTrue == Spec => []StatusTrue
  BY LinkInvariant, PTL DEF LinkInv

(* No sent task is forgotten when its connection ends: the error of the    *)
(* connection or, after a time check, the timeout of __RunLoop brings it   *)
(* back.                                                                   *)
THEOREM SentAlwaysHasFate == Spec => []RunningHasFate
  BY LinkInvariant, PTL DEF LinkInv

(* However recv cuts the stream, frames reach the manager whole. *)
THEOREM FramesAlwaysWhole == Spec => []FramesWhole
  BY LinkInvariant, PTL DEF LinkInv

(* __OnResponse never ends a task with the answer to an earlier sending,   *)
(* unless it was sent twice on one connection.                             *)
THEOREM AnswersToLastSending == Spec => []AnswerToLastSending
  <1>1. ASSUME LinkInv PROVE AnswerToLastSending
    <2> SUFFICES ASSUME Taking("OnResponse") PROVE Fits(Head(mq).f)
      BY DEF AnswerToLastSending
    <2>1. mq \in Seq(Message) /\ mq # <<>> /\ Head(mq).m = "OnResponse" /\ net \notin Cancelling
      BY <1>1 DEF Taking, LinkInv, LinkTypeOK, Cancelling
    <2>2. Len(mq) \in Nat \ {0} /\ Head(mq) = mq[1]
      BY <2>1, EmptySeq
    <2> QED
      BY <1>1, <2>1, <2>2 DEF LinkInv, InFlightInv
  <1> QED
    BY <1>1, LinkInvariant, PTL

-----------------------------------------------------------------------------
(***************************************************************************)
(* The manager implements TaskLife.                                        *)
(***************************************************************************)

(* A step that leaves the manager's lists alone is a stutter of TaskLife. *)
LEMMA LifeKept ==
    ASSUME UNCHANGED <<lst_cmd_, running_id, remain_retry_count>>
    PROVE  UNCHANGED Life!lifeVars
  BY DEF LifeOf, Life!lifeVars

(* Tasks that end, those of S if they are listed. *)
LEMMA EndTasksLife ==
    ASSUME LinkInv, NEW S, EndTasks(S), running_id' = running_id \ S
    PROVE  Life!Next
  <1> DEFINE T == S \cap lst_cmd_
  <1>1. ManagerTypes /\ \A t \in Task \ lst_cmd_ : remain_retry_count[t] = 0
    BY TypeParts DEF LinkInv, ListInv
  <1>2. T \in SUBSET Task /\ {} \in SUBSET Task
    BY <1>1 DEF ManagerTypes
  <1>3. \A t \in T : LifeOf[t] # "idle"
    BY <1>1 DEF LifeOf, ManagerTypes
  <1>4. LifeOf' = [t \in Task |-> IF t \in T THEN "idle" ELSE IF t \in {} THEN "waiting" ELSE LifeOf[t]]
    BY DEF LifeOf, EndTasks
  <1>5. remain_retry_count' = [t \in Task |-> IF t \in T THEN 0
                                 ELSE IF t \in {} THEN remain_retry_count[t] - 1
                                 ELSE remain_retry_count[t]]
    BY <1>1 DEF EndTasks
  <1> HIDE DEF T
  <1>6. Life!Settle({}, T)
    BY <1>3, <1>4, <1>5 DEF Life!Settle
  <1> QED
    BY <1>2, <1>6 DEF Life!Next

(* A network error: the running tasks wait again or end. *)
LEMMA BatchErrorLife ==
    ASSUME LinkInv, NEW T \in SUBSET lst_cmd_, NEW again, BatchErrorRespHandle(T, again)
    PROVE  Life!Next
  <1> DEFINE over == T \cup {t \in running_id : remain_retry_count[t] = 0}
             back == running_id \ over
  <1>1. ManagerTypes
    BY TypeParts DEF LinkInv
  <1>2. over \in SUBSET Task /\ back \in SUBSET Task /\ over \subseteq lst_cmd_
    BY <1>1 DEF ManagerTypes
  <1>3. \A t \in over : LifeOf[t] # "idle"
    BY <1>1 DEF LifeOf, ManagerTypes
  <1>4. \A t \in back : LifeOf[t] = "sent" /\ remain_retry_count[t] > 0
    BY <1>1, LinkAssumption DEF LifeOf, ManagerTypes
  <1>5. /\ lst_cmd_' = lst_cmd_ \ over
        /\ running_id' = {}
        /\ remain_retry_count' =
             [t \in Task |-> IF t \in over THEN 0
                             ELSE IF t \in running_id THEN remain_retry_count[t] - 1
                             ELSE remain_retry_count[t]]
    BY DEF BatchErrorRespHandle
  <1>6. \A t : t \in back <=> t \in running_id /\ t \notin over
    OBVIOUS
  <1> HIDE DEF over, back
  <1>7. LifeOf' = [t \in Task |-> IF t \in over THEN "idle" ELSE IF t \in back THEN "waiting" ELSE LifeOf[t]]
    BY <1>1, <1>2, <1>5, <1>6 DEF LifeOf, ManagerTypes
  <1>8. remain_retry_count' = [t \in Task |-> IF t \in over THEN 0
                                 ELSE IF t \in back THEN remain_retry_count[t] - 1
                                 ELSE remain_retry_count[t]]
    BY <1>5, <1>6
  <1>9. Life!Settle(back, over)
    BY <1>3, <1>4, <1>7, <1>8 DEF Life!Settle
  <1> QED
    BY <1>2, <1>9 DEF Life!Next

(* Every step of the long link is a step of TaskLife or a stutter. *)
LEMMA LifeStep ==
    ASSUME LinkInv, Next
    PROVE  Life!Next \/ UNCHANGED Life!lifeVars
  <1>1. ManagerTypes
    BY TypeParts DEF LinkInv
  <1>2. CASE \E t \in Task : StartTask(t)
    <2>1. PICK t \in Task : StartTask(t)
      BY <1>2
    <2>2. /\ t \notin lst_cmd_ /\ lst_cmd_' = lst_cmd_ \cup {t} /\ running_id' = running_id
          /\ remain_retry_count' = [remain_retry_count EXCEPT ![t] = RetryCount]
      BY <2>1 DEF StartTask, Fresh
    <2>3. LifeOf[t] = "idle" /\ LifeOf' = [LifeOf EXCEPT ![t] = "waiting"]
      BY <1>1, <2>2 DEF LifeOf, ManagerTypes
    <2> QED
      BY <2>2, <2>3 DEF Life!Next, Life!Start
  <1>3. CASE Send
    <2>1. cur \in lst_cmd_ \ running_id /\ cur \in Task
      BY <1>1, <1>3 DEF Send, LinkInv, ListInv, ManagerTypes
    <2>2. CASE connectstatus_ # "Connected"
      BY <1>3, <2>2, LifeKept DEF Send
    <2>3. CASE connectstatus_ = "Connected" /\ cur \in SendOnly
      <3>1. EndTasks({cur}) /\ running_id' = running_id \ {cur}
        <4>1. {cur} \cap SendOnly = {cur}
          BY <2>3
        <4>2. EndTasks({cur} \cap SendOnly) /\ running_id' = running_id
          BY <1>3, <2>3 DEF Send
        <4> QED
          BY <2>1, <4>1, <4>2
      <3> QED
        BY <3>1, EndTasksLife
    <2>4. CASE connectstatus_ = "Connected" /\ cur \notin SendOnly
      <3>1. running_id' = running_id \cup {cur} /\ EndTasks({cur} \cap SendOnly)
        BY <1>3, <2>4 DEF Send
      <3>2. lst_cmd_' = lst_cmd_ /\ remain_retry_count' = remain_retry_count
        BY <1>1, <2>4, <3>1 DEF EndTasks, ManagerTypes
      <3>3. LifeOf[cur] = "waiting" /\ LifeOf' = [LifeOf EXCEPT ![cur] = "sent"]
        BY <1>1, <2>1, <3>1, <3>2 DEF LifeOf, ManagerTypes
      <3> QED
        BY <2>1, <3>2, <3>3 DEF Life!Next, Life!Sent
    <2> QED
      BY <2>2, <2>3, <2>4
  <1>4. CASE \E t \in Task : PackFails(t)
    <2>1. PICK t \in Task : PackFails(t)
      BY <1>4
    <2>2. EndTasks({t}) /\ running_id' = running_id \ {t}
      BY <2>1 DEF PackFails
    <2> QED
      BY <2>2, EndTasksLife
  <1>5. CASE OnResponse
    BY <1>5, EndTasksLife DEF OnResponse
  <1>6. CASE \E T \in SUBSET lst_cmd_ : RunOnTimeout(T)
    BY <1>6, BatchErrorLife DEF RunOnTimeout
  <1>7. CASE OnSocketError \/ OnUnpackError
    BY <1>7, BatchErrorLife DEF OnSocketError, OnUnpackError
  <1>8. CASE ManagerStep
    BY <1>2, <1>3, <1>4, <1>6, <1>8, LifeKept DEF ManagerStep, MakesureLonglinkConnected,
       RunLoopDue, RunOnTimeoutNone, SkipTask, VisitTask, ResetLink, CheckStatus, RunLoopEnd, Joined,
       OnAlarm, OnTimerCheckSuc
  <1>9. CASE MessageStep
    BY <1>5, <1>7, <1>9, LifeKept DEF MessageStep, PassOver, OnStatusChanged
  <1> QED
    BY <1>8, <1>9, LifeKept, ThreadFrame, ServerStepFrame DEF Next

(* LongLinkTaskManager on top of LongLink implements TaskLife: no task is  *)
(* sent again after it ended, nor more often than its retries allow.       *)
THEOREM LinkImplementsLife == Spec => LifeSpec
  <1>1. Init => Life!Init
    BY DEF Init, Life!Init, LifeOf
  <1>2. LinkInv /\ [Next]_linkVars => [Life!Next]_(Life!lifeVars)
    BY LifeStep, LifeKept DEF linkVars
  <1> QED
    BY <1>1, <1>2, LinkInvariant, PTL DEF Spec, LifeSpec, Life!Spec

=============================================================================
