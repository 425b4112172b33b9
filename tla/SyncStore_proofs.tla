-------------------------- MODULE SyncStore_proofs --------------------------
(***************************************************************************)
(* What the database holds of the messages and contacts, for every number  *)
(* of messages and crashes and every set of contacts, and whichever of     *)
(* them SQLite rejects.                                                    *)
(*                                                                         *)
(* The properties are not inductive: they speak of the key and the tables, *)
(* and what the next step writes depends on the position a request on its  *)
(* way asked from and on how far an answer on Net has been stored.         *)
(* StoreInv adds those.  TablesMade says which tables are there at each    *)
(* point of LoadFromDB; Positions orders key, request, answer and server;  *)
(* Orderly says which of them can exist together; StoredTo and StoredFrom  *)
(* bound from above and from below what is stored at each point of an      *)
(* answer; HeldToPositions is the part of the lower bound that an early    *)
(* alarm leaves.  One lemma per part shows that every action keeps it.     *)
(***************************************************************************)
EXTENDS SyncStore, SequenceTheorems, TLAPS

(* Keys that are saved keep their type, and the last one is the one saved. *)
(* What GetSyncKey reads: the sequence of saved keys has a last one      *)
(* unless it is empty.                                                   *)
LEMMA KeyTypes ==
    ASSUME synckey \in Seq(0..MaxMsg)
    PROVE  /\ Len(synckey) \in Nat
           /\ synckey = <<>> <=> Len(synckey) = 0
           /\ synckey # <<>> => Len(synckey) >= 1 /\ LastKey \in 0..MaxMsg
  <1>1. Len(synckey) \in Nat /\ (synckey = <<>> <=> Len(synckey) = 0)
    BY EmptySeq, LenProperties
  <1>2. ASSUME synckey # <<>> PROVE Len(synckey) >= 1 /\ LastKey \in 0..MaxMsg
    <2>1. Len(synckey) >= 1
      BY <1>1, <1>2
    <2>2. synckey \in [1..Len(synckey) -> 0..MaxMsg]
      BY LenProperties
    <2> QED
      BY <1>1, <2>1, <2>2 DEF LastKey
  <1> QED
    BY <1>1, <1>2

(* InsertKey appends a key: it is the one read from then on, and the     *)
(* others stay.                                                          *)
LEMMA KeySaved ==
    ASSUME synckey \in Seq(0..MaxMsg), NEW p \in 0..MaxMsg, synckey' = Append(synckey, p)
    PROVE  /\ synckey' \in Seq(0..MaxMsg)
           /\ synckey' # <<>>
           /\ Len(synckey') = Len(synckey) + 1
           /\ LastKey' = p
           /\ \A i \in 1..Len(synckey) : synckey'[i] = synckey[i]
  <1>1. Len(synckey) \in Nat
    BY LenProperties
  <1>2. /\ synckey' \in Seq(0..MaxMsg)
        /\ Len(synckey') = Len(synckey) + 1
        /\ synckey'[Len(synckey) + 1] = p
        /\ \A i \in 1..Len(synckey) : synckey'[i] = synckey[i]
    BY AppendProperties
  <1>3. LastKey' = p
    BY <1>2 DEF LastKey
  <1>4. synckey' # <<>>
    BY <1>1, <1>2, EmptySeq
  <1> QED
    BY <1>2, <1>3, <1>4

(* DeleteKey and ClearDB leave a table with no key. *)
LEMMA KeyDeleted ==
    ASSUME synckey' = <<>>
    PROVE  synckey' \in Seq(0..MaxMsg) /\ Len(synckey') = 0
  BY EmptySeq

(* Asking for a task changes nothing but an absent request of its kind. *)
LEMMA AskTypes ==
    ASSUME StoreTypeOK, NEW k \in Kind, Ask(k)
    PROVE  /\ asked' \in [Kind -> {None, Queued} \cup 0..MaxMsg]
           /\ asked'[k] = IF asked[k] = None THEN Queued ELSE asked[k]
           /\ \A j \in Kind \ {k} : asked'[j] = asked[j]
  BY DEF StoreTypeOK, Ask, None, Queued

(* The numbers behind StoreTypeOK, in the form that arithmetic needs. *)
LEMMA StoreFacts ==
    ASSUME StoreTypeOK
    PROVE  /\ MaxMsg \in Nat /\ MaxCrash \in Nat
           /\ asked \in [Kind -> Int]
           /\ had \in [Kind -> 0..MaxMsg]
           /\ answer.kind \in Kind /\ answer.from \in 0..MaxMsg /\ answer.key \in 0..MaxMsg
           /\ answer.friends \subseteq Contacts /\ answer.next \in 1..MaxMsg + 1
           /\ svr \in 0..MaxMsg /\ crashes \in 0..MaxCrash
  BY StoreAssumption DEF StoreTypeOK, None, Queued, Kind

(* GetSyncKey finds no key, or a position that a sync can ask from. *)
LEMMA PositionTypes ==
    ASSUME StoreTypeOK
    PROVE  GetSyncKey \in {None} \cup 0..MaxMsg
  BY KeyTypes DEF StoreTypeOK, GetSyncKey, LastKey

(* An answer that Net is storing. *)
AnswerType == [kind : Kind, from : 0..MaxMsg, key : 0..MaxMsg,
               friends : SUBSET Contacts, next : 1..MaxMsg + 1]

(* AddContact stores its contact, unless SQLite rejects it, and no other. *)
LEMMA ContactStored ==
    ASSUME StoreTypeOK, AddContact
    PROVE  /\ contact' \in [Contacts -> Nat]
           /\ \E c \in answer.friends :
                /\ answer'.friends = answer.friends \ {c}
                /\ \A d \in Contacts \ {c} : contact'[d] = contact[d]
                /\ Ready("contact") /\ c \notin Quoted => contact'[c] = contact[c] + 1
           /\ answer'.next = answer.next /\ answer'.from = answer.from
           /\ answer'.key = answer.key /\ answer'.kind = answer.kind
  <1>1. PICK c \in answer.friends :
          /\ contact' = IF c \in Quoted THEN contact
                        ELSE Rows("contact", contact, [contact EXCEPT ![c] = @ + 1])
          /\ answer' = [answer EXCEPT !.friends = @ \ {c}]
    BY DEF AddContact
  <1>2. c \in Contacts /\ contact \in [Contacts -> Nat]
    BY StoreFacts DEF StoreTypeOK
  <1>3. /\ contact' \in [Contacts -> Nat]
        /\ \A d \in Contacts \ {c} : contact'[d] = contact[d]
        /\ Ready("contact") /\ c \notin Quoted => contact'[c] = contact[c] + 1
    BY <1>1, <1>2 DEF Rows
  <1>4. /\ answer'.friends = answer.friends \ {c}
        /\ answer'.next = answer.next /\ answer'.from = answer.from
        /\ answer'.key = answer.key /\ answer'.kind = answer.kind
    BY <1>1 DEF StoreTypeOK
  <1> QED
    BY <1>3, <1>4

(* Every step keeps the variables in their types. *)
LEMMA TypeStep ==
    ASSUME StoreTypeOK, TablesMade, Positions, [StoreNext]_vars
    PROVE  StoreTypeOK'
  <1> USE DEF history
  <1>1. CASE InitDB
    BY <1>1 DEF StoreTypeOK, InitDB, tables
  <1>2. CASE LoadFromDB
    BY <1>2, AskTypes DEF StoreTypeOK, LoadFromDB, tables, Kind
  <1>3. CASE ClearDB
    <2>1. synckey' \in Seq(0..MaxMsg)
      BY <1>3, KeyDeleted DEF StoreTypeOK, ClearDB
    <2>2. msg' \in [Msg -> Nat] /\ contact' \in [Contacts -> Nat]
      BY <1>3 DEF StoreTypeOK, ClearDB
    <2> QED
      BY <1>3, <2>1, <2>2 DEF StoreTypeOK, ClearDB
  <1>4. CASE NewInit
    BY <1>4, AskTypes DEF StoreTypeOK, NewInit, tables, Kind
  <1>5. CASE \E k \in Kind : Req2Buf(k)
    <2> PICK k \in Kind : Req2Buf(k)
      BY <1>5
    <2>1. had' \in [Kind -> 0..MaxMsg]
      BY DEF StoreTypeOK, Req2Buf
    <2>2. (IF k = "NewInit" \/ GetSyncKey = None THEN 0 ELSE GetSyncKey) \in 0..MaxMsg
      BY StoreFacts, PositionTypes
    <2>3. asked' \in [Kind -> {None, Queued} \cup 0..MaxMsg]
      BY <2>2 DEF StoreTypeOK, Req2Buf
    <2> QED
      BY <2>1, <2>3 DEF StoreTypeOK, Req2Buf, tables
  <1>6. CASE \E k \in Kind : Buf2Resp(k)
    <2> PICK k \in Kind : Buf2Resp(k)
      BY <1>6
    <2>1. PICK p \in had[k]..svr :
            answer' = [kind |-> k, from |-> asked[k], key |-> p,
                       friends |-> IF k = "NewInit" THEN Contacts ELSE {},
                       next |-> asked[k] + 1]
      BY DEF Buf2Resp
    <2>2. p \in 0..MaxMsg
      BY StoreFacts
    <2>3. asked[k] \in 0..MaxMsg
      <3>1. asked[k] \in {None, Queued} \cup 0..MaxMsg /\ asked[k] >= 0
        BY DEF StoreTypeOK, Buf2Resp
      <3> QED
        BY <3>1 DEF None, Queued
    <2>4. (IF k = "NewInit" THEN Contacts ELSE {}) \in SUBSET Contacts
      OBVIOUS
    <2>5. answer' \in AnswerType
      BY <2>1, <2>2, <2>3, <2>4, StoreFacts DEF AnswerType
    <2> QED
      BY <2>5 DEF StoreTypeOK, Buf2Resp, tables, AnswerType
  <1>7. CASE DeleteKey
    BY <1>7, KeyDeleted DEF StoreTypeOK, DeleteKey, Rows, Ready
  <1>8. CASE InsertKey
    <2>1. synckey' \in Seq(0..MaxMsg)
      BY <1>8, KeySaved, StoreFacts DEF StoreTypeOK, InsertKey, Rows, Ready
    <2> QED
      BY <1>8, <2>1 DEF StoreTypeOK, InsertKey
  <1>9. CASE AddContact
    <2>1. contact' \in [Contacts -> Nat]
      BY <1>9, ContactStored
    <2>2. PICK c \in answer.friends : answer' = [answer EXCEPT !.friends = @ \ {c}]
      BY <1>9 DEF AddContact
    <2>3. answer' \in AnswerType
      BY <2>2 DEF StoreTypeOK, AnswerType
    <2> QED
      BY <1>9, <2>1, <2>3 DEF StoreTypeOK, AddContact, AnswerType
  <1>10. CASE AddMsg
    <2>1. msg' \in [Msg -> Nat]
      <3>1. answer.next \in Msg
        BY <1>10, StoreFacts DEF AddMsg, Msg
      <3>2. msg' = msg \/ msg' = [msg EXCEPT ![answer.next] = @ + 1]
        BY <1>10 DEF AddMsg, Rows, Ready
      <3>3. msg \in [Msg -> Nat] /\ msg[answer.next] + 1 \in Nat
        BY <3>1 DEF StoreTypeOK
      <3> QED
        BY <3>2, <3>3
    <2>2. answer.next + 1 \in 1..MaxMsg + 1
      BY <1>10, StoreFacts DEF AddMsg
    <2>3. answer' \in AnswerType
      BY <1>10, <2>2 DEF StoreTypeOK, AddMsg, AnswerType
    <2> QED
      BY <1>10, <2>1, <2>3 DEF StoreTypeOK, AddMsg, AnswerType
  <1>11. CASE CallBack
    <2>1. posted' \subseteq Msg
      <3>1. (answer.from + 1)..answer.key \subseteq Msg
        BY StoreFacts DEF Msg
      <3> QED
        BY <1>11, <3>1 DEF StoreTypeOK, CallBack
    <2>2. asked' \in [Kind -> {None, Queued} \cup 0..MaxMsg]
      BY <1>11 DEF StoreTypeOK, CallBack
    <2>3. answer' \in AnswerType
      BY <1>11, StoreFacts DEF CallBack, NoAnswer, AnswerType, Kind
    <2> QED
      BY <1>11, <2>1, <2>3 DEF StoreTypeOK, CallBack, AnswerType, tables
  <1>12. CASE OnPush
    BY <1>12, AskTypes DEF StoreTypeOK, OnPush, tables, Kind
  <1>13. CASE RequestSync
    BY <1>13, AskTypes DEF StoreTypeOK, RequestSync, tables, Kind
  <1>14. CASE ServerMsg
    BY SMTT(30), <1>14, StoreFacts DEF StoreTypeOK, ServerMsg, tables
  <1>15. CASE Crash
    <2>1. answer' \in AnswerType
      BY <1>15, StoreFacts DEF Crash, NoAnswer, AnswerType, Kind
    <2>2. /\ asked' \in [Kind -> {None, Queued} \cup 0..MaxMsg]
          /\ had' \in [Kind -> 0..MaxMsg]
          /\ crashes' \in 0..MaxCrash
      BY <1>15, StoreFacts DEF Crash
    <2> QED
      BY <1>15, <2>1, <2>2 DEF StoreTypeOK, Crash, AnswerType, tables
  <1>16. CASE UNCHANGED vars
    BY <1>16 DEF StoreTypeOK, vars
  <1>17. CASE CreateTable
    BY <1>17 DEF StoreTypeOK, CreateTable, Table
  <1>18. CASE NewInitFails
    BY <1>18 DEF StoreTypeOK, NewInitFails, tables
  <1> QED
    BY <1>1, <1>2, <1>3, <1>4, <1>5, <1>6, <1>7, <1>8, <1>9, <1>10, <1>11, <1>12, <1>13, <1>14,
       <1>15, <1>16, <1>17, <1>18 DEF StoreNext, UiStep, NetStep

(* The tables are made in their order, and rows come after their table. *)
LEMMA TableStep ==
    ASSUME StoreTypeOK, TablesMade, Positions, [StoreNext]_vars
    PROVE  TablesMade'
  <1>1. CASE InitDB
    BY <1>1 DEF TablesMade, Loading, InitDB, tables
  <1>2. CASE CreateTable
    <2>1. UNCHANGED <<synckey, msg>> /\ created \subseteq created' /\ created' \subseteq Table
      BY <1>2 DEF CreateTable, StoreTypeOK, Table
    <2>2. "msg" \in created' => created' = Table
      <3>1. CASE ui = "createMsg"
        BY <1>2, <2>1, <3>1 DEF CreateTable, TablesMade, Table
      <3>2. CASE ui # "createMsg"
        BY <1>2, <2>1, <3>2 DEF CreateTable, TablesMade, Table
      <3> QED
        BY <3>1, <3>2
    <2>3. /\ ui' \notin Loading \cup {"start"} \/ ui' = "load" => "msg" \in created'
          /\ ui' \in {"createContact", "createMsg"} => "synckey" \in created'
          /\ ui' = "createMsg" => "contact" \in created'
      BY <1>2 DEF CreateTable, TablesMade, Loading
    <2> QED
      BY <2>1, <2>2, <2>3 DEF TablesMade
  <1>3. CASE DeleteKey \/ InsertKey
    <2>1. "synckey" \notin created => synckey' = synckey
      BY <1>3 DEF DeleteKey, InsertKey, Rows, Ready
    <2> QED
      BY <1>3, <2>1 DEF TablesMade, DeleteKey, InsertKey
  <1>4. CASE AddMsg
    <2>1. "msg" \notin created => msg' = msg
      BY <1>4 DEF AddMsg, Rows, Ready
    <2> QED
      BY <1>4, <2>1 DEF TablesMade, AddMsg
  <1>5. CASE ClearDB
    BY <1>5 DEF TablesMade, Loading, ClearDB
  <1>6. CASE LoadFromDB \/ NewInit \/ Crash
    BY <1>6 DEF TablesMade, Loading, LoadFromDB, NewInit, Crash, tables
  <1>7. CASE \/ AddContact \/ CallBack \/ OnPush \/ RequestSync \/ ServerMsg \/ NewInitFails
             \/ \E k \in Kind : Req2Buf(k) \/ Buf2Resp(k)
             \/ UNCHANGED vars
    <2>1. UNCHANGED <<synckey, msg, created, ui>>
      BY <1>7 DEF AddContact, CallBack, OnPush, RequestSync, ServerMsg, NewInitFails, Req2Buf,
         Buf2Resp, tables, vars
    <2> QED
      BY <2>1 DEF TablesMade
  <1> QED
    BY <1>1, <1>2, <1>3, <1>4, <1>5, <1>6, <1>7 DEF StoreNext, UiStep, NetStep

(* The key read last stays the same while the table does. *)
LEMMA KeyKept == synckey' = synckey => LastKey' = LastKey
  BY DEF LastKey

(* Asking for one kind, kind by kind. *)
LEMMA AskEach ==
    ASSUME StoreTypeOK
    PROVE  /\ Ask("NewSync") => /\ asked'["NewInit"] = asked["NewInit"]
                                /\ asked'["NewSync"] = IF asked["NewSync"] = None THEN Queued
                                                       ELSE asked["NewSync"]
           /\ Ask("NewInit") => /\ asked'["NewSync"] = asked["NewSync"]
                                /\ asked'["NewInit"] = IF asked["NewInit"] = None THEN Queued
                                                       ELSE asked["NewInit"]
  BY AskTypes DEF Kind

(* The two kinds of requests and the two marks that stand for no         *)
(* position.                                                             *)
LEMMA KindsEach == Kind = {"NewInit", "NewSync"} /\ None = -1 /\ Queued = -2
  BY DEF Kind, None, Queued

(* No step lets a key, a request or an answer run ahead of the server,   *)
(* and the answer on Net stays that of its task.                         *)
LEMMA PositionStep ==
    ASSUME StoreTypeOK, TablesMade, Positions, [StoreNext]_vars
    PROVE  Positions'
  <1> USE KindsEach, StoreFacts DEF history
  <1>1. CASE InitDB
    BY <1>1 DEF Positions, InitDB, tables
  <1>2. CASE LoadFromDB
    <2>1. \A k \in Kind : asked'[k] <= had[k]
      BY <1>2, AskEach DEF Positions, LoadFromDB
    <2>2. asked'["NewInit"] <= 0 /\ (asked'["NewInit"] # None => ui' = "main")
      BY <1>2, AskEach DEF Positions, LoadFromDB
    <2>3. net # "loop" => asked'[answer.kind] = asked[answer.kind]
      BY SMTT(30), <1>2, AskEach DEF Positions, LoadFromDB
    <2> QED
      BY <1>2, <2>1, <2>2, <2>3 DEF Positions, LoadFromDB, tables
  <1>3. CASE ClearDB
    <2>1. CASE synckey' = <<>>
      BY SMTT(30), <1>3, <2>1, KeyDeleted DEF Positions, ClearDB
    <2>2. CASE synckey' = synckey
      BY <1>3, <2>2 DEF Positions, ClearDB
    <2> QED
      BY <1>3, <2>1, <2>2 DEF ClearDB
  <1>4. CASE NewInit
    <2>1. \A k \in Kind : asked'[k] <= had[k]
      BY <1>4, AskEach DEF Positions, NewInit
    <2>2. asked'["NewInit"] <= 0 /\ (asked'["NewInit"] # None => ui' = "main")
      BY <1>4, AskEach DEF Positions, NewInit
    <2>3. net # "loop" => asked'[answer.kind] = asked[answer.kind]
      BY SMTT(30), <1>4, AskEach DEF Positions, NewInit
    <2> QED
      BY <1>4, <2>1, <2>2, <2>3 DEF Positions, NewInit, tables
  <1>5. CASE \E k \in Kind : Req2Buf(k)
    BY <1>5 DEF Positions, Req2Buf, tables, GetSyncKey
  <1>6. CASE \E k \in Kind : Buf2Resp(k)
    <2> PICK k \in Kind : Buf2Resp(k)
      BY <1>6
    <2>1. PICK p \in had[k]..svr :
            answer' = [kind |-> k, from |-> asked[k], key |-> p,
                       friends |-> IF k = "NewInit" THEN Contacts ELSE {},
                       next |-> asked[k] + 1]
      BY DEF Buf2Resp
    <2>2. UNCHANGED <<opened, ui, asked, synckey, svr, had>> /\ net' = "delete" /\ asked[k] >= 0
      BY DEF Buf2Resp, tables
    <2>3. p \in Int /\ had[k] <= p /\ p <= svr /\ asked[k] \in Int /\ asked[k] <= had[k]
      BY DEF Positions
    <2>4. /\ answer'.kind = k /\ answer'.from = asked[k] /\ answer'.key = p
          /\ answer'.next = asked[k] + 1
          /\ answer'.friends = IF k = "NewInit" THEN Contacts ELSE {}
      BY <2>1
    <2>5. asked[k] < asked[k] + 1 /\ asked[k] + 1 <= p + 1
      BY <2>3
    <2> QED
      BY <2>2, <2>3, <2>4, <2>5 DEF Positions
  <1>7. CASE DeleteKey
    BY <1>7 DEF Positions, DeleteKey, Rows, Ready
  <1>8. CASE InsertKey
    BY SMTT(30), <1>8, AskEach, KeyDeleted
    DEF Positions, InsertKey, tables, NoAnswer, Rows, Ready, GetSyncKey,
       LastKey
  <1>9. CASE AddContact
    BY <1>9 DEF Positions, AddContact
  <1>10. CASE AddMsg
    BY SMTT(30), <1>10, KeySaved, KeyDeleted, KeyTypes DEF Positions, AddMsg, StoreTypeOK
  <1>11. CASE CallBack
    <2>1. /\ asked'["NewInit"] \in {asked["NewInit"], None}
          /\ asked'["NewSync"] \in {asked["NewSync"], None, Queued}
      BY <1>11 DEF CallBack
    <2>2. \A k \in Kind : asked'[k] <= had[k]
      BY SMTT(30), <2>1 DEF Positions
    <2> QED
      BY <1>11, <2>1, <2>2 DEF Positions, CallBack, tables
  <1>12. CASE OnPush
    <2>1. \A k \in Kind : asked'[k] <= had[k]
      BY <1>12, AskEach DEF Positions, OnPush
    <2>2. asked'["NewInit"] = asked["NewInit"] /\ net = "loop"
      BY <1>12, AskEach DEF OnPush
    <2> QED
      BY <1>12, <2>1, <2>2 DEF Positions, OnPush, tables
  <1>13. CASE RequestSync
    <2>1. \A k \in Kind : asked'[k] <= had[k]
      BY <1>13, AskEach DEF Positions, RequestSync
    <2>2. asked'["NewInit"] <= 0 /\ (asked'["NewInit"] # None => ui' = "main")
      BY <1>13, AskEach DEF Positions, RequestSync
    <2>3. net # "loop" => asked'[answer.kind] = asked[answer.kind]
      BY SMTT(30), <1>13, AskEach DEF Positions, RequestSync
    <2> QED
      BY <1>13, <2>1, <2>2, <2>3 DEF Positions, RequestSync, tables
  <1>14. CASE ServerMsg
    <2>1. synckey \in [1..Len(synckey) -> 0..MaxMsg]
      BY LenProperties DEF StoreTypeOK
    <2>2. ASSUME NEW i \in 1..Len(synckey) PROVE synckey[i] <= svr + 1
      <3>1. synckey[i] \in 0..MaxMsg /\ synckey[i] <= svr
        BY <2>1 DEF Positions
      <3> QED
        BY SMTT(30), <3>1
    <2>3. \A k \in Kind : had[k] <= svr + 1
      BY DEF Positions
    <2> QED
      BY SMTT(30), <1>14, <2>2, <2>3 DEF Positions, ServerMsg, tables
  <1>15. CASE Crash
    BY <1>15 DEF Positions, Crash, tables
  <1>16. CASE UNCHANGED vars
    BY <1>16 DEF Positions, vars
  <1>17. CASE CreateTable
    BY <1>17 DEF Positions, CreateTable
  <1>18. CASE NewInitFails
    <2>1. /\ asked'["NewInit"] = None
          /\ asked'["NewSync"] \in {asked["NewSync"], Queued}
      BY <1>18 DEF NewInitFails, StoreTypeOK
    <2> QED
      BY SMTT(30), <1>18, <2>1 DEF Positions, NewInitFails, tables
  <1> QED
    BY <1>1, <1>2, <1>3, <1>4, <1>5, <1>6, <1>7, <1>8, <1>9, <1>10, <1>11, <1>12, <1>13, <1>14,
       <1>15, <1>16, <1>17, <1>18 DEF StoreNext, UiStep, NetStep

(* Without an early alarm nothing is on Net while the database is closed   *)
(* or cleared.                                                             *)
LEMMA NetIdleEarly ==
    ASSUME StoreTypeOK, TablesMade, Positions, Orderly, ~early, net # "loop"
    PROVE  /\ opened /\ created = Table /\ \A t \in Table : Ready(t)
           /\ ui \in Loading \cup {"main"} /\ ~Untouched
  <1> USE KindsEach, StoreFacts DEF history
  <1>1. answer.kind \in Kind /\ asked[answer.kind] # None
    <2>1. asked[answer.kind] \in Int /\ answer.kind \in Kind
      OBVIOUS
    <2>2. asked[answer.kind] >= 0
      BY DEF Positions
    <2> QED
      BY <2>1, <2>2
  <1>2. ~Untouched
    BY <1>1 DEF Orderly
  <1> QED
    BY <1>2 DEF Positions, Orderly, Untouched, Loading, Ready

(* Without an early alarm the first initialisation and the syncs exclude *)
(* each other, whatever the user, the alarm, the pushes and the crashes  *)
(* do.                                                                   *)
LEMMA OrderStep ==
    ASSUME StoreTypeOK, TablesMade, Positions, Orderly, [StoreNext]_vars
    PROVE  Orderly'
  <1> USE KindsEach, StoreFacts DEF history
  <1>1. CASE InitDB
    BY <1>1, KeyKept DEF Orderly, Untouched, Loading, Initialised, InitDB, tables
  <1>2. CASE LoadFromDB
    <2>1. CASE GetSyncKey = None
      <3>1. synckey = <<>>
        BY <1>2, <2>1, KeyTypes DEF StoreTypeOK, Positions, LoadFromDB, GetSyncKey, LastKey
      <3> QED
        BY <1>2, <2>1, <3>1
        DEF Positions, Orderly, Untouched, Loading, Initialised, LoadFromDB, tables,
           SyncKeyLocked
    <2>2. CASE GetSyncKey # None
      <3>1. synckey # <<>>
        BY <2>2 DEF GetSyncKey
      <3>2. asked["NewInit"] = None
        BY <1>2 DEF Positions, LoadFromDB
      <3> QED
        BY SMTT(30), <1>2, <2>2, <3>1, <3>2, AskEach, KeyKept
        DEF Orderly, Untouched, Loading, Initialised,
           LoadFromDB, tables
    <2> QED
      BY <2>1, <2>2
  <1>3. CASE ClearDB
    BY <1>3, KeyKept DEF Orderly, Untouched, Loading, Initialised, ClearDB
  <1>4. CASE NewInit
    BY <1>4, AskEach, KeyTypes
    DEF Orderly, Untouched, Loading, Initialised, NewInit, StoreTypeOK, tables
  <1>5. CASE \E k \in Kind : Req2Buf(k)
    <2>1. CASE Req2Buf("NewInit")
      BY <2>1 DEF Orderly, Untouched, Loading, Initialised, Req2Buf, tables
    <2>2. CASE Req2Buf("NewSync")
      <3>1. ~early => opened
        BY <2>2 DEF Positions, Orderly, Untouched, Loading, Req2Buf
      <3>2. ~early => asked'["NewSync"] = IF synckey = <<>> THEN 0 ELSE LastKey
        BY <2>2, <3>1, KeyTypes DEF Req2Buf, GetSyncKey, LastKey, StoreTypeOK
      <3>3. asked'["NewInit"] = asked["NewInit"] /\ asked["NewSync"] # None
        BY <2>2 DEF Req2Buf, StoreTypeOK
      <3>4. /\ UNCHANGED <<synckey, created, ui, net, posted, early, unfilled>>
            /\ LastKey' = LastKey /\ net = "loop"
        BY <2>2, KeyKept DEF Req2Buf, tables
      <3> SUFFICES ASSUME ~early PROVE Orderly'
        BY <3>4 DEF Orderly
      <3>5. ~Untouched /\ (asked["NewInit"] # None => FALSE)
        BY <3>3 DEF Orderly
      <3>6. (Untouched' <=> Untouched) /\ (Initialised' <=> Initialised)
        BY <3>3, <3>4 DEF Untouched, Initialised
      <3> QED
        BY <3>2, <3>3, <3>4, <3>5, <3>6 DEF Orderly
    <2> QED
      BY <1>5, <2>1, <2>2
  <1>6. CASE \E k \in Kind : Buf2Resp(k)
    <2> PICK k \in Kind : Buf2Resp(k)
      BY <1>6
    <2>1. /\ UNCHANGED <<synckey, created, ui, posted, asked, early, unfilled>>
          /\ LastKey' = LastKey
          /\ net = "loop" /\ net' = "delete" /\ asked[k] # None
      BY KeyKept DEF Buf2Resp, tables
    <2> SUFFICES ASSUME ~early PROVE Orderly'
      BY <2>1 DEF Orderly
    <2>2. ~Untouched
      BY <2>1 DEF Orderly
    <2>3. created = Table
      BY <2>1, <2>2 DEF Orderly, Untouched, TablesMade, Loading
    <2>4. (Untouched' <=> Untouched) /\ (Initialised' <=> Initialised)
      BY <2>1 DEF Untouched, Initialised
    <2> QED
      BY <2>1, <2>3, <2>4 DEF Orderly
  <1>7. CASE DeleteKey
    <2> SUFFICES ASSUME ~early PROVE Orderly'
      BY <1>7 DEF Orderly, DeleteKey
    <2>1. ~Untouched /\ created = Table /\ Ready("synckey") /\ ui \in Loading \cup {"main"}
      BY <1>7, NetIdleEarly DEF DeleteKey, Table
    <2>2. /\ synckey' = <<>> /\ Len(synckey') = 0 /\ net' = "insert"
          /\ UNCHANGED <<created, ui, posted, asked, early, unfilled>>
      BY <1>7, <2>1, KeyDeleted DEF DeleteKey, Rows
    <2>3. ~Untouched'
      BY <2>1, <2>2 DEF Untouched, Loading
    <2>4. asked["NewInit"] # None => asked["NewSync"] = None
      BY DEF Orderly
    <2> QED
      BY <2>1, <2>2, <2>3, <2>4 DEF Orderly, Loading
  <1>8. CASE InsertKey
    <2> SUFFICES ASSUME ~early PROVE Orderly'
      BY <1>8 DEF Orderly, InsertKey
    <2>1. ~Untouched /\ created = Table /\ Ready("synckey") /\ ui \in Loading \cup {"main"}
      BY <1>8, NetIdleEarly DEF InsertKey, Table
    <2>2. synckey' = Append(synckey, answer.key) /\ synckey = <<>> /\ Len(synckey) = 0
      BY <1>8, <2>1, EmptySeq DEF Orderly, InsertKey, Rows
    <2>3. synckey' # <<>> /\ LastKey' = answer.key /\ Len(synckey') = 1
      BY <2>2, KeySaved DEF StoreTypeOK
    <2>4. /\ net = "insert" /\ net' = "store" 
          /\ UNCHANGED <<created, ui, posted, asked, answer, early, unfilled>>
      BY <1>8 DEF InsertKey
    <2>5. ~Untouched'
      BY <2>1, <2>3, <2>4 DEF Untouched, Loading
    <2>6. asked["NewInit"] # None => asked["NewSync"] = None
      BY DEF Orderly
    <2> QED
      BY <2>1, <2>3, <2>4, <2>5, <2>6 DEF Orderly, Loading
  <1>9. CASE AddContact
    BY <1>9, KeyKept DEF Orderly, Untouched, Loading, AddContact
  <1>10. CASE AddMsg
    BY <1>10, KeyKept DEF Orderly, Untouched, Loading, AddMsg
  <1>11. CASE CallBack
    <2> SUFFICES ASSUME ~early PROVE Orderly'
      BY <1>11 DEF Orderly, CallBack
    <2>1. /\ net = "store" /\ net' = "loop" /\ UNCHANGED <<synckey, created, ui, early, unfilled>>
          /\ LastKey' = LastKey
      BY <1>11, KeyKept DEF CallBack, tables
    <2>2. ~Untouched /\ ui \in Loading \cup {"main"} /\ synckey # <<>> /\ created = Table
      BY <2>1, NetIdleEarly DEF Orderly
    <2>3. ~Untouched' /\ asked'["NewInit"] = None
      <3>1. asked'["NewInit"] = None
        BY <1>11, <2>1 DEF Positions, Orderly, CallBack, StoreTypeOK
      <3> QED
        BY <2>1, <2>2, <3>1 DEF Untouched
    <2>4. asked'["NewSync"] \in {None, Queued}
      BY <1>11, <2>1 DEF Positions, Orderly, CallBack, StoreTypeOK
    <2>5. Len(synckey') <= 1
      BY <2>1 DEF Orderly
    <2> QED
      BY SMTT(30), <2>1, <2>2, <2>3, <2>4, <2>5 DEF Orderly
  <1>12. CASE OnPush
    BY SMTT(30), <1>12, AskEach
    DEF Positions, Orderly, Untouched, Loading, OnPush, StoreTypeOK, tables, GetSyncKey
  <1>13. CASE RequestSync
    <2> SUFFICES ASSUME ~early, Initialised PROVE Orderly'
      BY <1>13 DEF Orderly, RequestSync
    <2>1. asked'["NewInit"] = None /\ asked'["NewSync"] = Queued /\ ui = "main"
      BY <1>13, AskEach DEF RequestSync, Initialised
    <2> QED
      BY <1>13, <2>1, KeyKept DEF Orderly, Untouched, Loading, RequestSync, tables
  <1>14. CASE ServerMsg
    BY <1>14, KeyKept DEF Orderly, Untouched, Loading, Initialised, ServerMsg, tables
  <1>15. CASE Crash
    BY <1>15 DEF Orderly, Initialised, Crash, tables
  <1>16. CASE UNCHANGED vars
    BY <1>16, KeyKept DEF Orderly, Untouched, Loading, Initialised, vars
  <1>17. CASE CreateTable
    <2>1. /\ UNCHANGED <<synckey, posted, asked, net, answer, early, unfilled>>
          /\ LastKey' = LastKey
          /\ ui \in Loading /\ ui' \in Loading
          /\ created = Table => created' = Table
      BY <1>17, KeyKept DEF CreateTable, Loading, Table
    <2>2. (Untouched' <=> Untouched) /\ ~Initialised'
      BY <2>1 DEF Untouched, Initialised, Loading
    <2> QED
      BY <2>1, <2>2 DEF Orderly, Loading
  <1>18. CASE NewInitFails
    <2> SUFFICES ASSUME ~early PROVE Orderly'
      BY <1>18 DEF Orderly, NewInitFails
    <2>1. /\ asked'["NewInit"] = None /\ asked'["NewSync"] \in {None, Queued}
          /\ ui = "main" /\ net = "loop" /\ synckey = <<>>
      BY <1>18 DEF NewInitFails, StoreTypeOK, Orderly, Positions
    <2> QED
      BY <1>18, <2>1, KeyKept DEF Orderly, Untouched, Loading, Initialised, NewInitFails, tables
  <1> QED
    BY <1>1, <1>2, <1>3, <1>4, <1>5, <1>6, <1>7, <1>8, <1>9, <1>10, <1>11, <1>12, <1>13, <1>14,
       <1>15, <1>16, <1>17, <1>18 DEF StoreNext, UiStep, NetStep

(* AddMsg stores its message, unless SQLite rejects it, and no other. *)
LEMMA MsgStored ==
    ASSUME StoreTypeOK, AddMsg
    PROVE  /\ answer.next \in Msg
           /\ answer'.next = answer.next + 1 /\ answer'.from = answer.from
           /\ answer'.key = answer.key /\ answer'.kind = answer.kind
           /\ answer'.friends = answer.friends
           /\ \A m \in Msg : msg[m] \in Nat /\ msg'[m] \in Nat /\ msg'[m] >= msg[m]
           /\ \A m \in Msg \ {answer.next} : msg'[m] = msg[m]
           /\ answer.next \in Unstorable => msg' = msg
           /\ Ready("msg") /\ answer.next \notin Unstorable =>
                msg'[answer.next] = msg[answer.next] + 1
  <1>1. answer.next \in Msg
    BY StoreFacts DEF AddMsg, Msg
  <1>2. msg' = msg \/ msg' = [msg EXCEPT ![answer.next] = @ + 1]
    BY DEF AddMsg, Rows, Ready
  <1>3. msg \in [Msg -> Nat]
    BY DEF StoreTypeOK
  <1>4. \A m \in Msg : msg[m] \in Nat /\ msg'[m] \in Nat /\ msg'[m] >= msg[m]
    BY <1>1, <1>2, <1>3
  <1>5. \A m \in Msg \ {answer.next} : msg'[m] = msg[m]
    BY <1>1, <1>2, <1>3
  <1>6. /\ answer.next \in Unstorable => msg' = msg
        /\ Ready("msg") /\ answer.next \notin Unstorable => msg'[answer.next] = msg[answer.next] + 1
    BY <1>1, <1>3 DEF AddMsg, Rows
  <1>7. /\ answer'.next = answer.next + 1 /\ answer'.from = answer.from
        /\ answer'.key = answer.key /\ answer'.kind = answer.kind
        /\ answer'.friends = answer.friends
    BY DEF AddMsg, StoreTypeOK
  <1> QED
    BY <1>1, <1>4, <1>5, <1>6, <1>7

(* Without an early alarm nothing is stored above the position in use,   *)
(* and nothing twice.                                                    *)
LEMMA StoredToStep ==
    ASSUME StoreTypeOK, TablesMade, Positions, Orderly, StoredTo, [StoreNext]_vars
    PROVE  StoredTo'
  <1> USE KindsEach, StoreFacts DEF history
  <1>0. ASSUME UNCHANGED <<synckey, msg, net, answer, posted>>, ~early' => ~early,
               asked'["NewInit"] = asked["NewInit"], Initialised' => Initialised \/ synckey # <<>>,
               ui' \in {"clearContact", "clearKey", "newInit"} => ui' = ui
        PROVE  StoredTo'
    BY <1>0, KeyKept DEF StoredTo
  <1>1. CASE InitDB
    BY <1>0, <1>1 DEF InitDB, Initialised, tables
  <1>2. CASE LoadFromDB
    <2>1. CASE GetSyncKey = None
      <3>1. synckey = <<>>
        BY <1>2, <2>1, KeyTypes DEF StoreTypeOK, Positions, LoadFromDB, GetSyncKey, LastKey
      <3>2. /\ UNCHANGED <<synckey, msg, asked, net, answer, posted, early>>
            /\ ui = "load" /\ ui' = "clearMsg"
        BY <1>2, <2>1 DEF LoadFromDB, tables
      <3> QED
        BY <1>0, <3>2 DEF Initialised
    <2>2. CASE GetSyncKey # None
      <3>1. /\ UNCHANGED <<synckey, msg, net, answer, posted, early>>
            /\ asked'["NewInit"] = asked["NewInit"] /\ ui = "load" /\ ui' = "main"
        BY <1>2, <2>2, AskEach DEF LoadFromDB, tables
      <3>2. synckey # <<>>
        BY <2>2 DEF GetSyncKey
      <3> QED
        BY <1>0, <3>1, <3>2
    <2> QED
      BY <2>1, <2>2
  <1>3. CASE ClearDB
    <2> SUFFICES ASSUME ~early PROVE StoredTo'
      BY <1>3 DEF StoredTo, ClearDB
    <2>1. net = "loop" /\ posted = {} /\ synckey = <<>> /\ \A k \in Kind : asked[k] = None
      BY <1>3, NetIdleEarly DEF Orderly, Untouched, Loading, ClearDB, StoreTypeOK
    <2>2. synckey' = <<>> /\ net' = "loop" /\ posted' = {}
      BY <1>3, <2>1 DEF ClearDB
    <2>3. \A m \in Msg : msg'[m] = 0
      BY <1>3, <2>1 DEF StoredTo, ClearDB
    <2> QED
      BY SMTT(30), <2>2, <2>3 DEF StoredTo
  <1>4. CASE NewInit
    BY <1>4 DEF StoredTo, NewInit, tables
  <1>5. CASE \E k \in Kind : Req2Buf(k)
    <2>1. /\ UNCHANGED <<synckey, msg, ui, net, answer, posted, early>>
          /\ asked'["NewInit"] = asked["NewInit"] \/ (asked["NewInit"] # None /\ asked'["NewInit"] = 0)
          /\ Initialised' => Initialised
      BY <1>5 DEF Req2Buf, tables, Initialised, StoreTypeOK
    <2> QED
      BY <2>1, KeyKept DEF StoredTo
  <1>6. CASE \E k \in Kind : Buf2Resp(k)
    <2>1. /\ UNCHANGED <<synckey, msg, ui, asked, posted, early>> /\ net = "loop" /\ net' = "delete"
          /\ Initialised' => Initialised
      BY <1>6 DEF Buf2Resp, tables, Initialised
    <2> QED
      BY <2>1, KeyKept DEF StoredTo
  <1>7. CASE DeleteKey
    <2> SUFFICES ASSUME ~early PROVE StoredTo'
      BY <1>7 DEF StoredTo, DeleteKey
    <2>1. opened /\ ui \in Loading \cup {"main"}
      BY <1>7, NetIdleEarly DEF DeleteKey
    <2>2. \A m \in Msg : m >= answer.next => msg[m] = 0
      <3>1. CASE answer.kind = "NewInit"
        BY <1>7, <3>1 DEF Positions, StoredTo, DeleteKey
      <3>2. CASE answer.kind = "NewSync"
        <4>0. CASE synckey = <<>>
          <5>1. ~Untouched /\ net = "delete" /\ asked["NewSync"] >= 0
            BY <1>7, <3>2, NetIdleEarly DEF Positions, DeleteKey
          <5>2. asked["NewSync"] # None
            BY <5>1
          <5>3. Initialised
            BY <4>0, <5>1, <5>2 DEF Orderly, Untouched, Initialised
          <5> QED
            BY <4>0, <5>1, <5>3 DEF StoredTo
        <4>1. CASE synckey # <<>>
          <5>1. answer.from = LastKey /\ answer.next = LastKey + 1
            BY SMTT(30), <1>7, <2>1, <3>2, <4>1 DEF Positions, Orderly, DeleteKey
          <5>2. \A m \in Msg : msg[m] \in Nat /\ (msg[m] > 0 => m <= LastKey)
            BY <1>7, <4>1 DEF StoreTypeOK, StoredTo, DeleteKey
          <5> QED
            <6>1. ASSUME NEW m \in Msg, m >= answer.next PROVE msg[m] = 0
              <7>1. m \in Nat /\ LastKey \in Int /\ ~(m <= LastKey)
                BY <5>1, <6>1 DEF Msg
              <7> QED
                BY <5>2, <7>1
            <6> QED
              BY <6>1
        <4> QED
          BY <4>0, <4>1
      <3> QED
        BY <3>1, <3>2
    <2>3. asked["NewInit"] # None => \A m \in Msg : msg[m] = 0
      BY <1>7 DEF StoredTo, DeleteKey
    <2> QED
      BY <1>7, <2>1, <2>2, <2>3 DEF StoredTo, DeleteKey
  <1>8. CASE InsertKey
    <2> SUFFICES ASSUME ~early PROVE StoredTo'
      BY <1>8 DEF StoredTo, InsertKey
    <2>1. ui \in Loading \cup {"main"}
      BY <1>8, NetIdleEarly DEF InsertKey
    <2>2. \A m \in Msg : ~(answer.from < m /\ m < answer.next)
      BY SMTT(30), <1>8 DEF Positions, InsertKey, Msg
    <2> QED
      BY <1>8, <2>1, <2>2 DEF StoredTo, InsertKey
  <1>9. CASE AddContact
    BY <1>9 DEF StoredTo, AddContact
  <1>10. CASE AddMsg
    <2> SUFFICES ASSUME ~early PROVE StoredTo'
      BY <1>10 DEF StoredTo, AddMsg
    <2>1. Ready("msg") /\ ui \in Loading \cup {"main"} /\ net = "store" /\ net' = "store"
      BY <1>10, NetIdleEarly DEF AddMsg, Table
    <2> DEFINE n == answer.next
    <2>2. n \in Msg /\ answer'.next = n + 1 /\ answer'.from = answer.from
      BY <1>10, MsgStored
    <2>3. msg[n] = 0 /\ (n \notin Unstorable => msg'[n] = 1) /\ msg'[n] <= 1
      BY <1>10, <2>1, <2>2, MsgStored DEF StoredTo
    <2>4. \A m \in Msg : m \in Nat /\ n \in Nat /\ msg'[m] \in Nat /\ msg'[m] >= msg[m] /\ msg[m]
    \in Nat
                        /\ (m # n => msg'[m] = msg[m])
      BY <1>10, <2>2, MsgStored DEF Msg
    <2> HIDE DEF n
    <2>5. \A m \in Msg : msg'[m] <= 1
      BY <2>3, <2>4 DEF StoredTo
    <2>6. \A m \in Msg : m >= answer'.next => msg'[m] = 0
      <3>1. \A m \in Msg : m >= n => msg[m] = 0
        BY <2>1 DEF StoredTo, n
      <3> QED
        BY <2>2, <2>4, <3>1
    <2>7. \A m \in Msg \ Unstorable : answer'.from < m /\ m < answer'.next => msg'[m] > 0
      <3>1. \A m \in Msg \ Unstorable : answer.from < m /\ m < n => msg[m] > 0
        BY <2>1 DEF StoredTo, n
      <3>2. \A m \in Msg \ Unstorable : m < n + 1 => m < n \/ m = n
        BY <2>4
      <3> QED
        BY <2>2, <2>3, <2>4, <3>1, <3>2
    <2>8. \A m \in posted \ Unstorable : msg'[m] > 0
      <3>1. \A m \in posted \ Unstorable : m \in Msg /\ msg[m] > 0
        BY DEF StoredTo, StoreTypeOK
      <3> QED
        BY <2>4, <3>1
    <2> QED
      BY <1>10, <2>1, <2>5, <2>6, <2>7, <2>8 DEF StoredTo, AddMsg, Loading
  <1>11. CASE CallBack
    <2> SUFFICES ASSUME ~early PROVE StoredTo'
      BY <1>11 DEF StoredTo, CallBack
    <2>1. ui \in Loading \cup {"main"} /\ answer.next = answer.key + 1 /\ LastKey = answer.key
      <3>1. answer.next > answer.key /\ answer.next <= answer.key + 1
        BY <1>11 DEF Positions, CallBack
      <3>2. ui \in Loading \cup {"main"} /\ LastKey = answer.key
        BY <1>11, NetIdleEarly DEF Orderly, CallBack
      <3> QED
        BY <3>1, <3>2
    <2>2. LastKey' = answer.key
      BY <1>11, <2>1, KeyKept DEF CallBack, tables
    <2>3. \A m \in Msg : msg[m] \in Nat /\ (m >= answer.key + 1 => msg[m] = 0)
      BY <1>11, <2>1 DEF StoredTo, CallBack, StoreTypeOK
    <2>4. \A m \in Msg : msg[m] > 0 => m <= answer.key
      BY <2>3 DEF Msg
    <2>5. \A m \in posted' \ Unstorable : msg[m] > 0
      <3>1. \A m \in ((answer.from + 1)..answer.key) \ Unstorable : msg[m] > 0
        BY <1>11, <2>1 DEF StoredTo, CallBack, Msg
      <3> QED
        BY <1>11, <3>1 DEF StoredTo, CallBack
    <2>6. asked'["NewInit"] = None
      BY <1>11 DEF StoreTypeOK, Orderly, Positions, CallBack
    <2>7. synckey' # <<>>
      BY <1>11 DEF Orderly, CallBack, tables
    <2> QED
      BY <1>11, <2>1, <2>2, <2>4, <2>5, <2>6, <2>7 DEF StoredTo, CallBack, Loading, tables
  <1>12. CASE OnPush
    BY <1>0, <1>12, AskEach DEF OnPush, Initialised, tables
  <1>13. CASE RequestSync
    <2>1. /\ UNCHANGED <<synckey, msg, ui, net, answer, posted>>
          /\ asked'["NewInit"] = asked["NewInit"] /\ (~early' => ~early)
      BY <1>13, AskEach DEF RequestSync, tables
    <2> QED
      BY <1>0, <2>1 DEF Initialised
  <1>14. CASE ServerMsg
    BY <1>0, <1>14 DEF ServerMsg, Initialised, tables
  <1>15. CASE Crash
    <2> SUFFICES ASSUME ~early PROVE StoredTo'
      BY <1>15 DEF StoredTo, Crash
    <2>1. LastKey' = LastKey /\ synckey' = synckey /\ msg' = msg
      BY <1>15, KeyKept DEF Crash, tables
    <2>2. /\ net' = "loop" /\ ui' = "start" /\ posted' = {} /\ early' = early
          /\ asked'["NewInit"] = None
      BY <1>15 DEF Crash
    <2>3. synckey # <<>> => \A m \in Msg : msg[m] > 0 => m <= LastKey
      <3>1. CASE net \in {"loop", "delete"}
        BY <3>1 DEF StoredTo
      <3>2. CASE net = "insert"
        BY <3>2 DEF Orderly
      <3>3. CASE net = "store"
        <4>1. answer.next <= LastKey + 1 /\ LastKey = answer.key
          BY <3>3 DEF Positions, Orderly
        <4>2. \A m \in Msg : msg[m] \in Nat /\ (m >= answer.next => msg[m] = 0)
          BY <3>3 DEF StoredTo, StoreTypeOK
        <4>3. ASSUME NEW m \in Msg, msg[m] > 0 PROVE m <= LastKey
          <5>1. m \in Nat /\ ~(m >= answer.next) /\ answer.key \in Nat /\ answer.next \in Nat
            BY <4>2, <4>3 DEF Msg
          <5> QED
            BY <4>1, <5>1
        <4> QED
          BY <4>3
      <3> QED
        BY <3>1, <3>2, <3>3 DEF StoreTypeOK
    <2>4. \A m \in Msg : msg[m] <= 1
      BY DEF StoredTo
    <2> QED
      BY <2>1, <2>2, <2>3, <2>4 DEF StoredTo, Initialised
  <1>16. CASE UNCHANGED vars
    BY <1>0, <1>16 DEF vars, Initialised
  <1>17. CASE CreateTable
    BY <1>0, <1>17 DEF CreateTable, Initialised
  <1>18. CASE NewInitFails
    <2> SUFFICES ASSUME ~early PROVE StoredTo'
      BY <1>18 DEF StoredTo, NewInitFails
    <2>1. /\ net = "loop" /\ asked["NewInit"] # None
          /\ UNCHANGED <<synckey, msg, ui, net, answer, posted, early>>
      BY <1>18 DEF NewInitFails, tables
    <2>2. synckey = <<>> /\ \A m \in Msg : msg[m] = 0
      BY <2>1 DEF Orderly, StoredTo
    <2> QED
      BY <2>1, <2>2 DEF StoredTo
  <1> QED
    BY <1>1, <1>2, <1>3, <1>4, <1>5, <1>6, <1>7, <1>8, <1>9, <1>10, <1>11, <1>12, <1>13, <1>14,
       <1>15, <1>16, <1>17, <1>18 DEF StoreNext, UiStep, NetStep

(* Without an early alarm or a crash everything below the position in    *)
(* use is stored.                                                        *)
LEMMA StoredFromStep ==
    ASSUME StoreTypeOK, TablesMade, Positions, Orderly, StoredTo, StoredFrom, [StoreNext]_vars
    PROVE  StoredFrom'
  <1> USE KindsEach, StoreFacts DEF history
  <1>1. CASE InitDB
    BY <1>1, KeyKept DEF StoredFrom, InitDB, tables
  <1>2. CASE LoadFromDB
    BY <1>2, KeyKept DEF StoredFrom, LoadFromDB, tables
  <1>3. CASE ClearDB
    BY SMTT(30), <1>3, KeySaved, KeyKept
    DEF Positions, Orderly, StoredFrom, Untouched, Loading, ClearDB, StoreTypeOK
  <1>4. CASE NewInit
    BY <1>4, KeyKept DEF StoredFrom, NewInit, tables
  <1>5. CASE \E k \in Kind : Req2Buf(k)
    BY <1>5, KeyKept DEF StoredFrom, Req2Buf, tables
  <1>6. CASE \E k \in Kind : Buf2Resp(k)
    BY <1>6, KeyKept DEF StoredFrom, Buf2Resp, tables
  <1>7. CASE DeleteKey
    <2> SUFFICES ASSUME crashes = 0, ~early PROVE StoredFrom'
      BY <1>7 DEF StoredFrom, DeleteKey
    <2>1. /\ net = "delete" /\ net' = "insert" /\ answer.next = answer.from + 1
          /\ UNCHANGED <<msg, contact, answer, unfilled>>
      BY <1>7 DEF Positions, DeleteKey
    <2>2. answer.kind = "NewInit" => answer.friends = Contacts /\ answer.from <= 0
      BY <2>1 DEF Positions
    <2>3. answer.kind = "NewSync" => answer.friends = {}
      BY <2>1 DEF Positions
    <2>4. CASE synckey = <<>>
      <3>1. answer.from <= 0
        BY <2>1, <2>2, <2>4 DEF Positions, Orderly
      <3>2. \A m \in Msg : ~(m < answer.next)
        BY <2>1, <3>1 DEF Msg
      <3>3. \A c \in Contacts : contact[c] = 0
        BY <2>1, <2>4 DEF StoredFrom
      <3>4. answer.kind = "NewSync" => unfilled
        BY <1>7, <2>1, <2>4, NetIdleEarly DEF Positions, Orderly, Untouched, Initialised
      <3> QED
        BY <2>1, <2>2, <3>2, <3>3, <3>4 DEF StoredFrom
    <2>5. CASE synckey # <<>>
      <3>1. answer.kind = "NewSync" /\ answer.from = LastKey
        BY <2>1, <2>5 DEF Positions, Orderly
      <3>2. /\ ~unfilled => \A c \in Contacts \ Quoted : contact[c] = 1
            /\ \A m \in Msg \ Unstorable : m <= LastKey => msg[m] > 0
        BY <2>1, <2>5 DEF StoredFrom
      <3>3. \A m \in Msg : m < answer.from + 1 => m <= answer.from
        BY DEF Msg
      <3> QED
        BY <2>1, <2>3, <3>1, <3>2, <3>3 DEF StoredFrom
    <2> QED
      BY <2>4, <2>5
  <1>8. CASE InsertKey
    <2> SUFFICES ASSUME crashes = 0, ~early PROVE StoredFrom'
      BY <1>8 DEF StoredFrom, InsertKey
    <2>1. net = "insert" /\ net' = "store" /\ UNCHANGED <<msg, contact, answer, unfilled>>
      BY <1>8 DEF InsertKey
    <2>2. Ready("synckey")
      BY <2>1, NetIdleEarly DEF Table
    <2>3. synckey' # <<>>
      BY <1>8, <2>2, KeySaved DEF StoreTypeOK, InsertKey, Rows
    <2> QED
      BY <2>1, <2>3 DEF StoredFrom
  <1>9. CASE AddContact
    <2> SUFFICES ASSUME crashes = 0, ~early PROVE StoredFrom'
      BY <1>9 DEF StoredFrom, AddContact
    <2>1. net = "store" /\ net' = "store" /\ UNCHANGED <<msg, synckey, unfilled>>
      BY <1>9 DEF AddContact
    <2>2. Ready("contact") /\ synckey # <<>>
      BY <2>1, NetIdleEarly DEF Orderly, Table
    <2>3. PICK c \in answer.friends :
            /\ answer'.friends = answer.friends \ {c}
            /\ \A d \in Contacts \ {c} : contact'[d] = contact[d]
            /\ Ready("contact") /\ c \notin Quoted => contact'[c] = contact[c] + 1
      BY <1>9, ContactStored
    <2>4. answer'.next = answer.next
      BY <1>9, ContactStored
    <2>5. ~unfilled => \A d \in Contacts \ Quoted :
                         contact'[d] = IF d \in answer'.friends THEN 0 ELSE 1
      BY <2>1, <2>2, <2>3 DEF StoredFrom
    <2> QED
      BY <2>1, <2>2, <2>4, <2>5 DEF StoredFrom
  <1>10. CASE AddMsg
    <2> SUFFICES ASSUME crashes = 0, ~early PROVE StoredFrom'
      BY <1>10 DEF StoredFrom, AddMsg
    <2>1. /\ net = "store" /\ net' = "store" /\ UNCHANGED <<synckey, contact, unfilled>>
          /\ answer'.friends = answer.friends
      BY <1>10 DEF AddMsg, StoreTypeOK
    <2>2. Ready("msg") /\ synckey' # <<>>
      BY <2>1, NetIdleEarly DEF Orderly, Table
    <2>3. ASSUME NEW m \in Msg \ Unstorable, m < answer'.next PROVE msg'[m] > 0
      <3>1. m \in Nat /\ answer.next \in Nat /\ answer'.next = answer.next + 1
        BY <1>10, MsgStored DEF Msg
      <3>2. CASE m = answer.next
        BY SMTT(30), <1>10, <2>2, <3>2, MsgStored
      <3>3. CASE m < answer.next
        <4>1. msg[m] > 0
          BY <2>1, <3>3 DEF StoredFrom
        <4> QED
          BY <1>10, <4>1, MsgStored
      <3> QED
        BY <2>3, <3>1, <3>2, <3>3
    <2> QED
      BY <2>1, <2>2, <2>3 DEF StoredFrom
  <1>11. CASE CallBack
    <2> SUFFICES ASSUME crashes = 0, ~early PROVE StoredFrom'
      BY <1>11 DEF StoredFrom, CallBack
    <2>1. synckey # <<>> /\ LastKey = answer.key
      BY <1>11 DEF Orderly, CallBack
    <2>2. LastKey' = answer.key /\ synckey' # <<>> /\ net' = "loop"
      BY <1>11, <2>1, KeyKept DEF CallBack, tables
    <2>3. /\ ~unfilled => \A c \in Contacts \ Quoted : contact[c] = 1
          /\ \A m \in Msg \ Unstorable : m < answer.next => msg[m] > 0
      BY <1>11 DEF StoredFrom, CallBack
    <2>4. \A m \in Msg : m <= answer.key => m < answer.next
      BY <1>11 DEF CallBack, Msg
    <2> QED
      BY <1>11, <2>2, <2>3, <2>4 DEF StoredFrom, CallBack, tables
  <1>12. CASE OnPush
    BY <1>12, KeyKept DEF StoredFrom, OnPush, tables
  <1>13. CASE RequestSync
    BY <1>13, KeyKept DEF StoredFrom, RequestSync, tables
  <1>14. CASE ServerMsg
    BY <1>14, KeyKept DEF StoredFrom, ServerMsg, tables
  <1>15. CASE Crash
    BY <1>15 DEF StoredFrom, Crash
  <1>16. CASE UNCHANGED vars
    BY <1>16, KeyKept DEF StoredFrom, vars
  <1>17. CASE CreateTable
    BY <1>17, KeyKept DEF StoredFrom, CreateTable
  <1>18. CASE NewInitFails
    BY <1>18, KeyKept DEF StoredFrom, NewInitFails, tables
  <1> QED
    BY <1>1, <1>2, <1>3, <1>4, <1>5, <1>6, <1>7, <1>8, <1>9, <1>10, <1>11, <1>12, <1>13, <1>14,
       <1>15, <1>16, <1>17, <1>18 DEF StoreNext, UiStep, NetStep

(* Without a crash everything below a position in use is stored or will  *)
(* be brought again by the NewInit under way, early alarm or not.        *)
LEMMA HeldStep ==
    ASSUME StoreTypeOK, TablesMade, Positions, Orderly, HeldToPositions, [StoreNext]_vars
    PROVE  HeldToPositions'
  <1> USE KindsEach, StoreFacts DEF history
  <1>1. CASE InitDB
    BY <1>1, KeyKept DEF Held, Settled, Loading, Initialised, Positions, Ready, HeldToPositions,
       InitDB, tables
  <1>2. CASE LoadFromDB
    <2>1. CASE GetSyncKey = None
      BY <1>2, <2>1 DEF Positions, HeldToPositions, Settled, Loading, Initialised, LoadFromDB
    <2>2. CASE GetSyncKey # None
      <3>1. /\ asked'["NewInit"] = asked["NewInit"]
            /\ asked'["NewSync"] = asked["NewSync"] \/ asked'["NewSync"] = Queued
        BY <1>2, <2>2, AskEach DEF LoadFromDB
      <3> SUFFICES ASSUME crashes = 0, ~hasty, ~(early /\ unfilled), Settled
                 PROVE  HeldToPositions'
        BY <1>2, <2>2 DEF HeldToPositions, Settled, Loading, LoadFromDB
      <3>2. Held(asked["NewSync"])'
        BY <1>2, <3>1 DEF HeldToPositions, Held, Msg, tables, LoadFromDB
      <3> QED
        BY <1>2, <3>1, <3>2, KeyKept DEF HeldToPositions, Held, Ready, tables, LoadFromDB
    <2> QED
      BY <2>1, <2>2
  <1>3. CASE ClearDB
    <2>1. asked["NewInit"] = None
      BY <1>3 DEF Positions, ClearDB
    <2>2. ~Settled'
      BY SMTT(30), <1>3, <2>1 DEF ClearDB, Settled, Loading, Initialised
    <2> QED
      BY <2>2 DEF HeldToPositions
  <1>4. CASE NewInit
    BY <1>4, AskEach DEF Positions, Settled, Loading, HeldToPositions, Initialised, NewInit
  <1>5. CASE \E k \in Kind : Req2Buf(k)
    <2>1. net = "loop" /\ net' = "loop" /\ synckey' = synckey /\ msg' = msg /\ LastKey' = LastKey
      BY <1>5, KeyKept DEF Req2Buf, tables
    <2>2. CASE Req2Buf("NewInit")
      <3>1. /\ asked'["NewInit"] = 0 /\ had'["NewInit"] = svr
            /\ asked'["NewSync"] = asked["NewSync"]
        BY <2>2 DEF Req2Buf, StoreTypeOK
      <3>2. asked["NewSync"] <= svr
        BY DEF Positions
      <3>3. synckey # <<>> => LastKey \in Int /\ LastKey <= svr
        BY KeyTypes DEF Positions, StoreTypeOK, LastKey
      <3> QED
        BY <2>1, <3>1, <3>2, <3>3 DEF HeldToPositions, Held, Msg
    <2>3. CASE Req2Buf("NewSync")
      <3>1. /\ asked'["NewInit"] = asked["NewInit"] /\ had'["NewInit"] = had["NewInit"]
            /\ \/ asked'["NewSync"] = 0
               \/ synckey # <<>> /\ asked'["NewSync"] = LastKey
        BY <2>3 DEF Req2Buf, StoreTypeOK, GetSyncKey, LastKey
      <3> SUFFICES ASSUME crashes = 0, ~hasty, ~(early /\ unfilled), Settled
                 PROVE  HeldToPositions'
        BY <2>3, <3>1 DEF HeldToPositions, Settled, Loading, Initialised, Req2Buf
      <3>2. Held(asked["NewSync"])'
        BY <2>1, <3>1 DEF HeldToPositions, Held, Msg
      <3> QED
        BY <2>1, <3>1, <3>2 DEF HeldToPositions, Held
    <2> QED
      BY <1>5, <2>2, <2>3
  <1>6. CASE \E k \in Kind : Buf2Resp(k)
    BY <1>6, KeyKept DEF Held, Settled, Loading, HeldToPositions, Initialised, Buf2Resp, tables
  <1>7. CASE DeleteKey
    BY <1>7, KeyKept
    DEF Held, Settled, Loading, HeldToPositions, Initialised, DeleteKey, Rows, Ready
  <1>8. CASE InsertKey
    <2> SUFFICES ASSUME crashes = 0, ~hasty', ~hasty, ~(early /\ unfilled), Settled
                 PROVE  HeldToPositions'
      BY <1>8 DEF HeldToPositions, Settled, Loading, Initialised, InsertKey
    <2>1. /\ net = "insert" /\ net' = "store" /\ UNCHANGED <<msg, asked, had, answer, opened>>
          /\ Ready("msg") <=> Ready("msg")'
      BY <1>8 DEF InsertKey, Ready
    <2>2. answer.kind = "NewInit" => Ready("synckey")
      BY <2>1 DEF Positions, TablesMade, Loading, Ready, Table
    <2>3. CASE Ready("synckey")
      <3>1. synckey' # <<>> /\ LastKey' = answer.key /\ Ready("msg")
        BY <1>8, <2>3, KeySaved DEF InsertKey, Rows, StoreTypeOK
      <3>2. answer.kind = "NewInit" => \A m \in Msg : ~(m < answer.next)
        BY <2>1 DEF Positions, Msg
      <3>3. answer.kind = "NewSync" => Held(answer.next - 1)
        BY SMTT(30), <2>1 DEF Positions, HeldToPositions
      <3>4. answer.kind = "NewInit" => Held(answer.next - 1)
        BY <3>2 DEF Held, Msg
      <3>5. Held(answer.next - 1)' /\ Held(asked["NewSync"])'
        BY <2>1, <3>3, <3>4 DEF HeldToPositions, Held
      <3> QED
        BY <2>1, <3>1, <3>2, <3>5 DEF HeldToPositions
    <2>4. CASE ~Ready("synckey")
      <3>1. synckey' = synckey /\ LastKey' = LastKey /\ answer.kind = "NewSync"
        BY <1>8, <2>2, <2>4, KeyKept DEF InsertKey, Rows
      <3> QED
        BY <2>1, <3>1 DEF HeldToPositions, Held
    <2> QED
      BY <2>3, <2>4
  <1>9. CASE AddContact
    <2>1. /\ UNCHANGED <<net, synckey, msg, asked, had, ui, crashes, history, opened, created>>
          /\ LastKey' = LastKey
      BY <1>9, KeyKept DEF AddContact
    <2>2. answer'.next = answer.next /\ answer'.key = answer.key /\ answer'.kind = answer.kind
      BY <1>9, ContactStored
    <2> QED
      BY <2>1, <2>2 DEF Held, Settled, HeldToPositions, Initialised, Ready
  <1>10. CASE AddMsg
    <2> SUFFICES ASSUME crashes = 0, ~hasty, ~(early /\ unfilled), Settled
                 PROVE  HeldToPositions'
      BY <1>10 DEF HeldToPositions, Settled, Loading, Initialised, AddMsg
    <2>1. /\ net = "store" /\ net' = "store" /\ UNCHANGED <<synckey, asked, had, opened>>
          /\ LastKey' = LastKey /\ (Ready("msg") <=> Ready("msg")')
      BY <1>10, KeyKept DEF AddMsg, Ready
    <2>2. answer.next \in Nat /\ answer'.next = answer.next + 1 /\ answer'.kind = answer.kind
          /\ answer'.key = answer.key
      BY <1>10, MsgStored
    <2>3. \A m \in Msg : m \in Nat /\ (msg[m] > 0 => msg'[m] > 0)
      BY <1>10, MsgStored DEF Msg
    <2>4. Ready("msg") => \A m \in Msg \ Unstorable : m = answer.next => msg'[m] > 0
      BY <1>10, MsgStored
    <2>5. \A m \in Msg : m < answer.next + 1 => m < answer.next \/ m = answer.next
      BY <2>2, <2>3
    <2>6. \A m \in Msg : m <= (answer.next + 1) - 1 => m <= answer.next - 1 \/ m = answer.next
      BY <2>2, <2>3
    <2>7. Held(asked["NewSync"])'
      BY <2>1, <2>3 DEF HeldToPositions, Held
    <2>8. Held(LastKey) => Held(LastKey)'
      BY <2>1, <2>3 DEF Held
    <2>9. Ready("msg") /\ Held(answer.next - 1) => Held(answer.next - 1)'
      BY <2>1, <2>2, <2>3, <2>4, <2>6 DEF Held
    <2>10. answer.kind = "NewInit" => Ready("msg")
      BY <2>1 DEF Positions, TablesMade, Loading, Ready, Table
    <2>11. answer.kind = "NewInit" =>
             \A m \in Msg \ Unstorable : m < answer'.next => msg'[m] > 0
      BY SMTT(30), <2>1, <2>2, <2>3, <2>4, <2>10 DEF HeldToPositions
    <2> QED
      BY <2>1, <2>2, <2>7, <2>8, <2>9, <2>11 DEF HeldToPositions
  <1>11. CASE CallBack
    <2>1. /\ net = "store" /\ net' = "loop" /\ UNCHANGED <<synckey, msg, had, ui, crashes, history>>
          /\ LastKey' = LastKey
      BY <1>11, KeyKept DEF CallBack, tables
    <2>2. \A m \in Msg : m <= answer.key => m < answer.next /\ m <= answer.next - 1
      BY <1>11 DEF CallBack, Msg
    <2>3. CASE answer.kind = "NewSync"
      <3>1. asked'["NewInit"] = asked["NewInit"] /\ asked'["NewSync"] = None
        BY <1>11, <2>3 DEF CallBack, StoreTypeOK
      <3> SUFFICES ASSUME crashes = 0, ~hasty, ~(early /\ unfilled), Settled
                 PROVE  HeldToPositions'
        BY <2>1, <3>1 DEF HeldToPositions, Settled, Loading, Initialised
      <3>2. Held(asked["NewSync"])'
        BY <3>1 DEF Held, Msg
      <3>3. synckey # <<>> => Held(LastKey)'
        BY <2>1, <2>2, <3>1 DEF HeldToPositions, Held
      <3> QED
        BY <2>1, <3>2, <3>3 DEF HeldToPositions
    <2>4. CASE answer.kind = "NewInit"
      <3>1. asked'["NewInit"] = None
        BY <1>11, <2>4 DEF CallBack, StoreTypeOK
      <3>2. asked'["NewSync"] = asked["NewSync"] \/ asked'["NewSync"] = Queued
        BY <1>11, <2>4 DEF CallBack, StoreTypeOK
      <3>3. asked["NewInit"] >= 0 /\ had["NewInit"] <= answer.key
        BY <2>1, <2>4 DEF Positions
      <3> SUFFICES ASSUME crashes = 0, ~hasty, ~(early /\ unfilled)
                   PROVE  HeldToPositions'
        BY <2>1 DEF HeldToPositions
      <3>4. LastKey = answer.key /\ \A m \in Msg \ Unstorable : m <= LastKey => msg[m] > 0
        BY <2>1, <2>2, <2>4, <3>3 DEF HeldToPositions, Settled
      <3>5. Held(asked["NewSync"])
        BY <3>3 DEF HeldToPositions, Settled
      <3>6. \A m \in Msg : m <= had["NewInit"] => m <= LastKey
        BY <3>3, <3>4 DEF Msg
      <3>7. Held(asked["NewSync"])'
        BY <2>1, <3>2, <3>4, <3>5, <3>6 DEF Held, Msg
      <3>8. Held(LastKey)'
        BY <2>1, <3>4 DEF Held
      <3> QED
        BY <2>1, <3>7, <3>8 DEF HeldToPositions
    <2> QED
      BY <2>3, <2>4
  <1>12. CASE OnPush
    <2>1. /\ asked'["NewInit"] = asked["NewInit"]
          /\ asked'["NewSync"] = asked["NewSync"] \/ asked'["NewSync"] = Queued
      BY <1>12, AskEach DEF OnPush
    <2> SUFFICES ASSUME crashes = 0, ~hasty, ~(early /\ unfilled), Settled
                 PROVE  HeldToPositions'
      BY <1>12, <2>1 DEF HeldToPositions, Settled, Loading, Initialised, OnPush
    <2>2. Held(asked["NewSync"])'
      BY <1>12, <2>1 DEF Held, Msg, OnPush
    <2> QED
      BY <1>12, <2>1, <2>2, KeyKept DEF HeldToPositions, Held, Ready, tables, OnPush
  <1>13. CASE RequestSync
    <2>1. /\ asked'["NewInit"] = asked["NewInit"]
          /\ asked'["NewSync"] = asked["NewSync"] \/ asked'["NewSync"] = Queued
      BY <1>13, AskEach DEF RequestSync
    <2> SUFFICES ASSUME crashes = 0, ~hasty, ~(early /\ unfilled), Settled
                 PROVE  HeldToPositions'
      BY <1>13, <2>1 DEF HeldToPositions, Settled, Loading, Initialised, RequestSync
    <2>2. Held(asked["NewSync"])'
      BY <1>13, <2>1 DEF Held, Msg, RequestSync
    <2> QED
      BY <1>13, <2>1, <2>2, KeyKept DEF HeldToPositions, Held, Ready, tables, RequestSync
  <1>14. CASE ServerMsg
    BY <1>14, KeyKept
    DEF Held, Settled, Loading, HeldToPositions, Initialised, Ready, ServerMsg, tables
  <1>15. CASE Crash
    BY <1>15 DEF HeldToPositions, Crash
  <1>16. CASE UNCHANGED vars
    BY <1>16, KeyKept DEF Held, Settled, Loading, HeldToPositions, Initialised, Ready, vars
  <1>17. CASE CreateTable
    BY <1>17, KeyKept DEF Held, Settled, Loading, Initialised, HeldToPositions, Ready, CreateTable
  <1>18. CASE NewInitFails
    <2> SUFFICES ASSUME ~early PROVE HeldToPositions'
      BY <1>18 DEF HeldToPositions, NewInitFails
    <2>1. /\ net = "loop" /\ net' = "loop" /\ asked["NewInit"] # None
          /\ asked'["NewSync"] \in {None, Queued} /\ synckey' = synckey
      BY <1>18 DEF NewInitFails, tables, Orderly, StoreTypeOK
    <2>2. synckey = <<>>
      BY <2>1 DEF Orderly
    <2>3. Held(asked["NewSync"])'
      BY <2>1 DEF Held, Msg
    <2> QED
      BY <2>1, <2>2, <2>3 DEF HeldToPositions
  <1> QED
    BY <1>1, <1>2, <1>3, <1>4, <1>5, <1>6, <1>7, <1>8, <1>9, <1>10, <1>11, <1>12, <1>13, <1>14,
       <1>15, <1>16, <1>17, <1>18 DEF StoreNext, UiStep, NetStep

(* What an orderly earlier run has left fits: the key tells what is stored. *)
LEMMA StoreInitInv == StoreInit => StoreInv
  <1> SUFFICES ASSUME StoreInit PROVE StoreInv
    OBVIOUS
  <1>1. PICK k \in {None} \cup 0..svr :
          /\ synckey = IF k = None THEN <<>> ELSE <<k>>
          /\ msg = [m \in Msg |-> IF m <= k /\ m \notin Unstorable THEN 1 ELSE 0]
          /\ contact = [c \in Contacts |-> IF k # None /\ c \notin Quoted THEN 1 ELSE 0]
          /\ created = IF k = None THEN {} ELSE Table
    BY DEF StoreInit
  <1>2. StoreTypeOK
    <2>1. synckey \in Seq(0..MaxMsg)
      <3>1. CASE k = None
        BY <1>1, <3>1, EmptySeq
      <3>2. CASE k # None
        <4>1. k \in 0..MaxMsg
          BY <3>2, StoreAssumption DEF StoreInit
        <4> QED
          BY <1>1, <3>2, <4>1
      <3> QED
        BY <3>1, <3>2
    <2>2. /\ msg \in [Msg -> Nat] /\ contact \in [Contacts -> Nat] /\ created \subseteq Table
          /\ had \in [Kind -> 0..MaxMsg] /\ crashes \in 0..MaxCrash
      BY <1>1, StoreAssumption DEF StoreInit
    <2>3. answer \in AnswerType
      BY StoreAssumption DEF StoreInit, NoAnswer, AnswerType, Kind
    <2> QED
      BY <2>1, <2>2, <2>3 DEF StoreInit, StoreTypeOK, AnswerType
  <1> USE KindsEach, StoreFacts, <1>2
  <1>3. /\ asked["NewInit"] = None /\ asked["NewSync"] = None
        /\ net = "loop" /\ ui = "start" /\ posted = {} /\ ~opened /\ ~unfilled
    BY DEF StoreInit
  <1>4. synckey # <<>> => /\ Len(synckey) = 1 /\ LastKey = k /\ k \in 0..svr
                          /\ synckey[1] = k /\ created = Table
    BY <1>1 DEF LastKey
  <1>5. synckey = <<>> => Len(synckey) = 0 /\ k = -1 /\ created = {}
    BY <1>1
  <1>6. \A m \in Msg : msg[m] = IF m <= k /\ m \notin Unstorable THEN 1 ELSE 0
    BY <1>1
  <1>7. \A c \in Contacts : contact[c] = IF k # None /\ c \notin Quoted THEN 1 ELSE 0
    BY <1>1
  <1>8. TablesMade
    BY <1>3, <1>4, <1>5, <1>6 DEF TablesMade, Loading, Table, Msg
  <1>9. Positions
    BY <1>3, <1>4, <1>5 DEF StoreInit, Positions
  <1>10. Orderly
    <2>1. \A j \in Kind : asked[j] = None
      BY <1>3
    <2>2. Len(synckey) <= 1
      <3>1. \A n : n = 0 \/ n = 1 => n <= 1
        OBVIOUS
      <3> QED
        BY <1>4, <1>5, <3>1, Zenon
    <2> QED
      BY <1>3, <1>4, <2>1, <2>2 DEF Orderly, Untouched, Loading, Initialised
  <1>11. StoredTo
    BY SMTT(30), <1>3, <1>4, <1>6 DEF StoredTo, Initialised
  <1>12. StoredFrom
    BY <1>3, <1>4, <1>5, <1>6, <1>7 DEF StoredFrom, Msg
  <1>13. HeldToPositions
    BY SMTT(30), <1>3, <1>4, <1>6 DEF HeldToPositions, Held, Msg
  <1> QED
    BY <1>8, <1>9, <1>10, <1>11, <1>12, <1>13 DEF StoreInv

(* The seven parts of the invariant hold together after every step. *)
LEMMA StoreNextInv == StoreInv /\ [StoreNext]_vars => StoreInv'
  BY TypeStep, TableStep, PositionStep, OrderStep, StoredToStep, StoredFromStep, HeldStep
  DEF StoreInv

(* StoreInv holds in every state of every run, over any number of        *)
(* crashes and restarts.                                                 *)
THEOREM StoreInvariant == StoreSpec => []StoreInv
  BY StoreInitInv, StoreNextInv, PTL DEF StoreSpec

(* Every table row, key, request and answer keeps its type (db.cpp). *)
THEOREM StoreTypes == StoreSpec => []StoreTypeOK
  <1>1. StoreInv => StoreTypeOK
    BY DEF StoreInv
  <1> QED
    BY StoreInvariant, <1>1, PTL

(* Unless the alarm asked too early, the database never holds a message  *)
(* beyond the key that GetSyncKey reads: saving the key first means that *)
(* a crash between the two loses messages, and never brings them twice.  *)
THEOREM NothingStoredBeyondKey == StoreSpec => []NothingBeyondKey
  <1>1. StoreInv => NothingBeyondKey
    <2> SUFFICES ASSUME StoreInv, ~early, synckey # <<>>, NEW m \in Msg, msg[m] > 0
                 PROVE  m <= LastKey
      BY DEF NothingBeyondKey, LastKey
    <2> USE KindsEach, StoreFacts DEF StoreInv
    <2>1. CASE net \in {"loop", "delete"}
      BY <2>1 DEF StoredTo
    <2>2. CASE net = "insert"
      BY <2>2 DEF Orderly
    <2>3. CASE net = "store"
      <3>1. answer.next <= LastKey + 1 /\ LastKey = answer.key
        BY <2>3 DEF Positions, Orderly
      <3>2. m \in Nat /\ ~(m >= answer.next) /\ answer.key \in Nat /\ answer.next \in Nat
        <4>1. answer.key \in Nat /\ answer.next \in Nat /\ m \in Nat
          BY SMTT(30) DEF Msg
        <4>2. msg[m] \in Nat /\ msg[m] # 0
          BY DEF StoreTypeOK
        <4>3. m >= answer.next => msg[m] = 0
          BY <2>3 DEF StoredTo
        <4> QED
          BY <4>1, <4>2, <4>3
      <3> QED
        BY SMTT(30), <3>1, <3>2
    <2> QED
      BY <2>1, <2>2, <2>3 DEF StoreTypeOK
  <1> QED
    BY StoreInvariant, <1>1, PTL

(* Unless the alarm asked too early, AddMsg never stores a message a     *)
(* second time, wherever the process ended before.                       *)
THEOREM StoredAtMostOnce == StoreSpec => []StoredOnce
  <1>1. StoreInv => StoredOnce
    BY DEF StoreInv, StoredTo, StoredOnce
  <1> QED
    BY StoreInvariant, <1>1, PTL

(* In a run without a crash and without an early alarm, between two      *)
(* answers the database holds, of the messages that SQLite takes,        *)
(* exactly those up to its one key, each once, and unless NewInit failed *)
(* all the contacts that SQLite takes, each once.                        *)
THEOREM KeyAlwaysTellsStore == StoreSpec => []KeyTellsStore
  <1>1. StoreInv => KeyTellsStore
    <2> SUFFICES ASSUME StoreInv, crashes = 0, ~early, net = "loop", synckey # <<>>
                 PROVE  /\ \A m \in Msg \ Unstorable : msg[m] = IF m <= LastKey THEN 1 ELSE 0
                        /\ ~unfilled => \A c \in Contacts \ Quoted : contact[c] = 1
                        /\ Len(synckey) = 1
      BY DEF KeyTellsStore, LastKey
    <2> USE DEF StoreInv
    <2>1. Len(synckey) = 1
      <3>1. Len(synckey) \in Nat /\ Len(synckey) >= 1
        BY KeyTypes DEF StoreTypeOK
      <3>2. Len(synckey) <= 1
        BY DEF Orderly
      <3>3. \A n \in Nat : n >= 1 /\ n <= 1 => n = 1
        OBVIOUS
      <3> QED
        BY <3>1, <3>2, <3>3, Zenon
    <2>2. \A m \in Msg : msg[m] \in Nat /\ msg[m] <= 1 /\ (msg[m] > 0 => m <= LastKey)
      BY DEF StoreTypeOK, StoredTo
    <2>3. /\ ~unfilled => \A c \in Contacts \ Quoted : contact[c] = 1
          /\ \A m \in Msg \ Unstorable : m <= LastKey => msg[m] > 0
      BY DEF StoredFrom
    <2> QED
      BY <2>1, <2>2, <2>3
  <1> QED
    BY StoreInvariant, <1>1, PTL

(* In a run without a crash no message below the key is missing once the *)
(* client is initialised, even if the alarm asked too early, but for a   *)
(* key saved while CreateTable is at work and a NewInit that failed      *)
(* after such an alarm.                                                  *)
THEOREM NothingEverMissed == StoreSpec => []NothingMissed
  <1>1. StoreInv => NothingMissed
    BY
    DEF StoreInv, HeldToPositions, Settled, Loading, Initialised, Held, NothingMissed, LastKey, None
  <1> QED
    BY StoreInvariant, <1>1, PTL

(* What the callback hands to the main window is in the database, unless *)
(* the alarm asked too early.                                            *)
THEOREM PostedAlwaysStored == StoreSpec => []PostedIsStored
  <1>1. StoreInv => PostedIsStored
    BY DEF StoreInv, StoredTo, PostedIsStored
  <1> QED
    BY StoreInvariant, <1>1, PTL
=============================================================================
