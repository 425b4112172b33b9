----------------------------- MODULE SyncStore ------------------------------
(***************************************************************************)
(* The local database (MicroChatSDK/db) as LoadFromDB, NewInit and NewSync *)
(* use it: the sync key, the messages and the contacts, statement by       *)
(* statement.  Every statement of CMicroChatDB is committed on its own, so *)
(* the process may end between any two of them: ForceQuit, WinMain's       *)
(* StopSDK and exit, or a kill.  What the database holds then is what the  *)
(* next start finds.                                                       *)
(*                                                                         *)
(* Two threads write: the UI thread in LoadFromDB, and Net while it        *)
(* decodes an answer.  LoadFromDB also creates the tables, one by one,     *)
(* when the database is already open for Net.  Which sync may be in flight *)
(* is SyncService's matter: here one may be asked for whenever none is.    *)
(*                                                                         *)
(* Messages are numbered in the order the server receives them, and a sync *)
(* key is the number of the last message it covers.                        *)
(***************************************************************************)
EXTENDS Integers, Sequences

CONSTANTS
    MaxMsg,         \* bound on the messages the server receives
    Contacts,       \* the contacts of the account
    MaxCrash,       \* bound on the times the process ends
    Unstorable,     \* messages whose insert statement SQLite rejects (a quote in the text)
    Quoted          \* contacts whose insert statement SQLite rejects (a quote in the nickname)

ASSUME StoreAssumption ==
    /\ MaxMsg \in Nat
    /\ MaxCrash \in Nat
    /\ Unstorable \subseteq 1..MaxMsg
    /\ Quoted \subseteq Contacts

VARIABLES
    synckey,        \* table synckey: its rows
    msg,            \* table msg: message -> number of rows
    contact,        \* table contact: contact -> number of rows
    created,        \* the tables that exist
    opened,         \* m_pDB is set
    ui,             \* where LoadFromDB is
    asked,          \* kind -> None, Queued, or the position its request was sent with
    had,            \* kind -> what the server had when its request was sent
    net,            \* where Net is in an answer
    answer,         \* the answer: its kind, the messages it holds (from + 1 to key),
                    \* contacts still to store, next message to store
    posted,         \* messages handed to the main window since the start
    svr,            \* number of messages the server has
    crashes,        \* times the process has ended
    early,          \* history: an alarm has fired before the client was initialised
    hasty,          \* history: a key was saved before the table of the messages was there
    unfilled        \* history: a NewInit has ended with nothing stored

history == <<early, hasty, unfilled>>
vars == <<synckey, msg, contact, created, opened, ui, asked, had, net, answer, posted, svr, crashes,
          history>>
tables == <<synckey, msg, contact, created>>

Msg == 1..MaxMsg
None == -1
Queued == -2
Kind == {"NewInit", "NewSync"}
Table == {"synckey", "contact", "msg"}
NoAnswer == [kind |-> "NewSync", from |-> 0, key |-> 0, friends |-> {}, next |-> 1]

StoreTypeOK ==
    /\ synckey \in Seq(0..MaxMsg)
    /\ msg \in [Msg -> Nat]
    /\ contact \in [Contacts -> Nat]
    /\ created \subseteq Table
    /\ opened \in BOOLEAN
    /\ ui \in {"start", "createKey", "createContact", "createMsg", "load", "clearMsg",
               "clearContact", "clearKey", "newInit", "main"}
    /\ asked \in [Kind -> {None, Queued} \cup 0..MaxMsg]
    /\ had \in [Kind -> 0..MaxMsg]
    /\ net \in {"loop", "delete", "insert", "store"}
    /\ answer \in [kind : Kind, from : 0..MaxMsg, key : 0..MaxMsg,
                  friends : SUBSET Contacts, next : 1..MaxMsg + 1]
    /\ posted \subseteq Msg
    /\ svr \in 0..MaxMsg
    /\ crashes \in 0..MaxCrash
    /\ early \in BOOLEAN
    /\ hasty \in BOOLEAN
    /\ unfilled \in BOOLEAN

(* A login on this machine has just succeeded: the first one, with no      *)
(* tables, or a later one that finds what an orderly earlier run has left. *)
StoreInit ==
    /\ svr \in 0..MaxMsg
    /\ \E k \in {None} \cup 0..svr :
         /\ synckey = IF k = None THEN <<>> ELSE <<k>>
         /\ msg = [m \in Msg |-> IF m <= k /\ m \notin Unstorable THEN 1 ELSE 0]
         /\ contact = [c \in Contacts |-> IF k # None /\ c \notin Quoted THEN 1 ELSE 0]
         /\ created = IF k = None THEN {} ELSE Table
    /\ opened = FALSE
    /\ ui = "start"
    /\ asked = [k \in Kind |-> None]
    /\ had = [k \in Kind |-> 0]
    /\ net = "loop"
    /\ answer = NoAnswer
    /\ posted = {}
    /\ crashes = 0
    /\ early = FALSE
    /\ hasty = FALSE
    /\ unfilled = FALSE

-----------------------------------------------------------------------------
(* ExecSQL does nothing while no database is open or the table is not      *)
(* there, and nobody looks at its result.  GetSyncKey and SetSyncKey hold  *)
(* m_cs_syncKey; ClearDB does not.                                         *)
GetSyncKey == IF opened /\ synckey # <<>> THEN synckey[Len(synckey)] ELSE None
SyncKeyLocked == net = "insert"
Ready(t) == opened /\ t \in created
Rows(t, table, new) == IF Ready(t) THEN new ELSE table

(* A task is asked for; a sync only if none is going on (s_bSyncing). *)
Ask(k) == asked' = [asked EXCEPT ![k] = IF @ = None THEN Queued ELSE @]

-----------------------------------------------------------------------------
(***************************************************************************)
(* LoadFromDB, on the UI thread.                                           *)
(***************************************************************************)

(* Sql3::Init: from now on statements of Net are carried out. *)
InitDB ==
    /\ ui = "start"
    /\ opened' = TRUE
    /\ ui' = "createKey"
    /\ UNCHANGED <<tables, asked, had, net, answer, posted, svr, crashes, history>>

(* CreateTable: three statements, which fail on tables that are there. *)
CreateTable ==
    /\ \/ ui = "createKey" /\ ui' = "createContact" /\ created' = created \cup {"synckey"}
       \/ ui = "createContact" /\ ui' = "createMsg" /\ created' = created \cup {"contact"}
       \/ ui = "createMsg" /\ ui' = "load" /\ created' = created \cup {"msg"}
    /\ UNCHANGED <<synckey, msg, contact, opened, asked, had, net, answer, posted, svr, crashes,
                   history>>

(* Variant: the key is read without m_cs_syncKey. *)
LoadFromDBUnlocked ==
    /\ ui = "load"
    /\ IF GetSyncKey = None
       THEN ui' = "clearMsg" /\ UNCHANGED asked
       ELSE ui' = "main" /\ Ask("NewSync")
    /\ UNCHANGED <<tables, opened, had, net, answer, posted, svr, crashes, history>>

(* With a key, the contacts and messages are loaded and a sync requested;  *)
(* without one, the tables are cleared.                                    *)
LoadFromDB ==
    /\ ui = "load"
    /\ ~SyncKeyLocked
    /\ IF GetSyncKey = None
       THEN ui' = "clearMsg" /\ UNCHANGED asked
       ELSE ui' = "main" /\ Ask("NewSync")
    /\ UNCHANGED <<tables, opened, had, net, answer, posted, svr, crashes, history>>

(* ClearDB: three statements. *)
ClearDB ==
    /\ \/ ui = "clearMsg" /\ ui' = "clearContact"
          /\ msg' = [m \in Msg |-> 0] /\ UNCHANGED <<contact, synckey>>
       \/ ui = "clearContact" /\ ui' = "clearKey"
          /\ contact' = [c \in Contacts |-> 0] /\ UNCHANGED <<msg, synckey>>
       \/ ui = "clearKey" /\ ui' = "newInit"
          /\ synckey' = <<>> /\ UNCHANGED <<msg, contact>>
    /\ UNCHANGED <<created, opened, asked, had, net, answer, posted, svr, crashes, history>>

NewInit ==
    /\ ui = "newInit"
    /\ ui' = "main"
    /\ Ask("NewInit")
    /\ UNCHANGED <<tables, opened, had, net, answer, posted, svr, crashes, history>>

-----------------------------------------------------------------------------
(***************************************************************************)
(* Requests from elsewhere.                                                *)
(***************************************************************************)

(* A push is followed by a sync once there is a key. *)
OnPush ==
    /\ net = "loop"
    /\ GetSyncKey # None
    /\ asked["NewSync"] = None
    /\ Ask("NewSync")
    /\ UNCHANGED <<tables, opened, ui, had, net, answer, posted, svr, crashes, history>>

(* LoadFromDB has returned and no NewInit is under way. *)
Initialised == ui = "main" /\ asked["NewInit"] = None

(* The alarm, armed while the long link is down, asks with or without a    *)
(* key.                                                                    *)
RequestSync ==
    /\ asked["NewSync"] = None
    /\ Ask("NewSync")
    /\ early' = (early \/ ~Initialised)
    /\ UNCHANGED <<tables, opened, ui, had, net, answer, posted, svr, crashes, hasty, unfilled>>

ServerMsg ==
    /\ svr < MaxMsg
    /\ svr' = svr + 1
    /\ UNCHANGED <<tables, opened, ui, asked, had, net, answer, posted, crashes, history>>

-----------------------------------------------------------------------------
(***************************************************************************)
(* Net: Req2Buf and Buf2Resp of NewInit and NewSync.                       *)
(***************************************************************************)

(* The request is packed, again when it is sent again: NewSync asks from   *)
(* the key, or from 0 without one, NewInit from 0.                         *)
Req2Buf(k) ==
    /\ net = "loop"
    /\ asked[k] # None
    /\ asked' = [asked EXCEPT ![k] =
                   IF k = "NewInit" \/ GetSyncKey = None THEN 0 ELSE GetSyncKey]
    /\ had' = [had EXCEPT ![k] = svr]
    /\ UNCHANGED <<tables, opened, ui, net, answer, posted, svr, crashes, history>>

(* The answer to a request arrives: what the server had at some moment     *)
(* since, and the key that covers it.                                      *)
Buf2Resp(k) ==
    /\ net = "loop"
    /\ asked[k] >= 0
    /\ \E p \in had[k]..svr :
         answer' = [kind |-> k, from |-> asked[k], key |-> p,
                    friends |-> IF k = "NewInit" THEN Contacts ELSE {},
                    next |-> asked[k] + 1]
    /\ net' = "delete"
    /\ UNCHANGED <<tables, opened, ui, asked, had, posted, svr, crashes, history>>

(* NewInit ends with nothing stored: its answer decrypts but cannot be     *)
(* parsed, and the callback requests a sync all the same; or it decrypts   *)
(* to nothing, or no answer comes in time.  (The other errors in an answer *)
(* make the callback end the process.)  A sync that fails is never asked   *)
(* for again: s_bSyncing stays set.                                        *)
NewInitFails ==
    /\ net = "loop"
    /\ asked["NewInit"] # None
    /\ \/ /\ asked["NewInit"] >= 0
          /\ asked' = [asked EXCEPT !["NewInit"] = None,
                                    !["NewSync"] = IF @ = None THEN Queued ELSE @]
       \/ asked' = [asked EXCEPT !["NewInit"] = None]
    /\ unfilled' = TRUE
    /\ UNCHANGED <<tables, opened, ui, had, net, answer, posted, svr, crashes, early, hasty>>

(* Variants: the old key is not deleted; the key saved is that of the      *)
(* request, or one newer than the answer.                                  *)
DeleteKeyKeeps ==
    /\ net = "delete"
    /\ net' = "insert"
    /\ UNCHANGED <<tables, opened, ui, asked, had, answer, posted, svr, crashes, history>>

InsertKeyOfRequest ==
    /\ net = "insert"
    /\ synckey' = Rows("synckey", synckey, Append(synckey, answer.from))
    /\ net' = "store"
    /\ UNCHANGED <<msg, contact, created, opened, ui, asked, had, answer, posted, svr, crashes,
                   history>>

InsertNewerKey ==
    /\ net = "insert"
    /\ synckey' = Rows("synckey", synckey, Append(synckey, svr))
    /\ net' = "store"
    /\ UNCHANGED <<msg, contact, created, opened, ui, asked, had, answer, posted, svr, crashes,
                   history>>

(* SetSyncKey(UpdateSyncKey): delete, then insert. *)
DeleteKey ==
    /\ net = "delete"
    /\ synckey' = Rows("synckey", synckey, <<>>)
    /\ net' = "insert"
    /\ UNCHANGED <<msg, contact, created, opened, ui, asked, had, answer, posted, svr, crashes,
                   history>>

InsertKey ==
    /\ net = "insert"
    /\ synckey' = Rows("synckey", synckey, Append(synckey, answer.key))
    /\ hasty' = (hasty \/ (Ready("synckey") /\ ~Ready("msg")))
    /\ net' = "store"
    /\ UNCHANGED <<msg, contact, created, opened, ui, asked, had, answer, posted, svr, crashes,
                   early, unfilled>>

(* NewInit's contacts, inserted one by one, among the messages. *)
AddContact ==
    /\ net = "store"
    /\ \E c \in answer.friends :
         /\ contact' = IF c \in Quoted THEN contact
                       ELSE Rows("contact", contact, [contact EXCEPT ![c] = @ + 1])
         /\ answer' = [answer EXCEPT !.friends = @ \ {c}]
    /\ UNCHANGED <<synckey, msg, created, opened, ui, asked, had, net, posted, svr, crashes,
                   history>>

(* Variant: the messages are inserted without looking at their count. *)
AddMsgUncounted ==
    /\ net = "store"
    /\ msg' = IF answer.next \notin Msg \ Unstorable THEN msg
              ELSE Rows("msg", msg, [msg EXCEPT ![answer.next] = @ + 1])
    /\ answer' = [answer EXCEPT !.next = @ + 1]
    /\ UNCHANGED <<synckey, contact, created, opened, ui, asked, had, net, posted, svr, crashes,
                   history>>

(* AddMsg: nothing keeps a message from being inserted twice. *)
AddMsg ==
    /\ net = "store"
    /\ answer.next <= answer.key
    /\ msg' = IF answer.next \in Unstorable THEN msg
              ELSE Rows("msg", msg, [msg EXCEPT ![answer.next] = @ + 1])
    /\ answer' = [answer EXCEPT !.next = @ + 1]
    /\ UNCHANGED <<synckey, contact, created, opened, ui, asked, had, net, posted, svr, crashes,
                   history>>

(* Variant: the callback comes before the messages are stored. *)
CallBackFirst ==
    /\ net = "store"
    /\ posted' = posted \cup (answer.from + 1)..answer.key
    /\ asked' = [asked EXCEPT !["NewSync"] =
                   IF answer.kind = "NewSync" THEN None ELSE IF @ = None THEN Queued ELSE @,
                                 !["NewInit"] = IF answer.kind = "NewInit" THEN None ELSE @]
    /\ answer' = NoAnswer
    /\ net' = "loop"
    /\ UNCHANGED <<tables, opened, ui, had, svr, crashes, history>>

(* The answer is stored; the callback hands its messages to the main       *)
(* window, and NewInit's requests a sync.                                  *)
CallBack ==
    /\ net = "store"
    /\ answer.friends = {}
    /\ answer.next > answer.key
    /\ posted' = posted \cup (answer.from + 1)..answer.key
    /\ asked' = [asked EXCEPT !["NewSync"] =
                   IF answer.kind = "NewSync" THEN None ELSE IF @ = None THEN Queued ELSE @,
                                 !["NewInit"] = IF answer.kind = "NewInit" THEN None ELSE @]
    /\ answer' = NoAnswer
    /\ net' = "loop"
    /\ UNCHANGED <<tables, opened, ui, had, svr, crashes, history>>

-----------------------------------------------------------------------------
(* The process ends, at any statement, and is started again. *)
Crash ==
    /\ crashes < MaxCrash
    /\ crashes' = crashes + 1
    /\ opened' = FALSE
    /\ ui' = "start"
    /\ asked' = [k \in Kind |-> None]
    /\ had' = [k \in Kind |-> 0]
    /\ net' = "loop"
    /\ answer' = NoAnswer
    /\ posted' = {}
    /\ UNCHANGED <<tables, svr, history>>

UiStep == InitDB \/ CreateTable \/ LoadFromDB \/ ClearDB \/ NewInit

NetStep ==
    \/ \E k \in Kind : Req2Buf(k)
    \/ \E k \in Kind : Buf2Resp(k)
    \/ NewInitFails
    \/ DeleteKey
    \/ InsertKey
    \/ AddContact
    \/ AddMsg
    \/ CallBack
    \/ OnPush

StoreNext == UiStep \/ NetStep \/ RequestSync \/ ServerMsg \/ Crash

StoreSpec == StoreInit /\ [][StoreNext]_vars

-----------------------------------------------------------------------------
(* While the key is in its table no message behind it has been stored:     *)
(* wherever the process ends, the next sync asks for nothing that the      *)
(* database already holds.  The exception is a sync that the alarm starts  *)
(* before the client is initialised: its key may be lost, its messages     *)
(* stored.                                                                 *)
NothingBeyondKey ==
    (~early /\ synckey # <<>>) => \A m \in Msg : msg[m] > 0 => m <= synckey[Len(synckey)]

(* A message is never in the database twice, whatever the process ended    *)
(* in the middle of: the key is saved before the messages, and a lost key  *)
(* clears the messages before they are fetched again.                      *)
StoredOnce == ~early => \A m \in Msg : msg[m] <= 1

(* Without a crash and without such a sync the key tells exactly what is   *)
(* stored: between answers every message up to it that can be stored,      *)
(* once, and, unless NewInit failed, every contact that can be stored,     *)
(* once.                                                                   *)
KeyTellsStore ==
    (crashes = 0 /\ ~early /\ net = "loop" /\ synckey # <<>>) =>
        /\ \A m \in Msg \ Unstorable : msg[m] = IF m <= synckey[Len(synckey)] THEN 1 ELSE 0
        /\ ~unfilled => \A c \in Contacts \ Quoted : contact[c] = 1
        /\ Len(synckey) = 1

(* Without a crash nothing is missed, even when the alarm asks for a sync  *)
(* before the database is open, while it is cleared or while NewInit is    *)
(* under way: every message that the key covers and that can be stored is  *)
(* there once the client is initialised.  Two things are excepted: a sync  *)
(* may save its key between the creation of the tables synckey and msg,    *)
(* with nowhere to put its messages, and a NewInit that fails does not     *)
(* bring back what was cleared under such a sync.                          *)
NothingMissed ==
    (/\ crashes = 0 /\ ~hasty /\ ~(early /\ unfilled)
     /\ net = "loop" /\ Initialised /\ synckey # <<>>) =>
        \A m \in Msg \ Unstorable : m <= synckey[Len(synckey)] => msg[m] > 0

(* MainWnd.cpp:258 drops a message of an unknown contact, relying on the   *)
(* database to have it: what the callback hands over has been stored, in   *)
(* this run or, after a crash, before it was asked for again.              *)
PostedIsStored == ~early => \A m \in posted \ Unstorable : msg[m] > 0

(* interface.h:206: a later login loads the friends from the database.     *)
FriendsLoaded ==
    (~early /\ ui = "load" /\ GetSyncKey # None) => \A c \in Contacts : contact[c] > 0

-----------------------------------------------------------------------------
(***************************************************************************)
(* What makes these inductive.                                             *)
(***************************************************************************)
LastKey == synckey[Len(synckey)]
Loading == {"createKey", "createContact", "createMsg", "load"}

(* CreateTable makes the tables in their order, and LoadFromDB goes on     *)
(* when all are there; a table that is not there has no rows.              *)
TablesMade ==
    /\ ui \notin Loading \cup {"start"} \/ ui = "load" => created = Table
    /\ ui \in {"createContact", "createMsg"} => "synckey" \in created
    /\ ui = "createMsg" => "contact" \in created
    /\ "msg" \in created => created = Table
    /\ "synckey" \notin created => synckey = <<>>
    /\ "msg" \notin created => \A m \in Msg : msg[m] = 0

(* Positions never run ahead of the server, and an answer on Net is that   *)
(* of its task's last request.                                             *)
Positions ==
    /\ opened <=> ui # "start"
    /\ asked["NewInit"] # None => ui = "main"
    /\ asked["NewInit"] <= 0
    /\ \A i \in 1..Len(synckey) : synckey[i] <= svr
    /\ \A k \in Kind : asked[k] <= had[k] /\ had[k] <= svr
    /\ net # "loop" =>
          /\ answer.from = asked[answer.kind]
          /\ asked[answer.kind] >= 0
          /\ had[answer.kind] <= answer.key
          /\ answer.key <= svr
          /\ answer.from < answer.next
          /\ answer.next <= answer.key + 1
    /\ net \in {"delete", "insert"} =>
          /\ answer.next = answer.from + 1
          /\ answer.kind = "NewInit" => answer.friends = Contacts
    /\ net # "loop" /\ answer.kind = "NewSync" => answer.friends = {}

(* Nothing has been asked for, and LoadFromDB finds no key if it is still  *)
(* to look.                                                                *)
Untouched ==
    \/ ui \notin Loading \cup {"main"}
    \/ ui \in Loading /\ net # "insert" /\ synckey = <<>>

(* Without an early alarm the syncs and the first initialisation exclude   *)
(* each other, the tables are there when Net needs them, and the key is    *)
(* there from the first answer on.                                         *)
Orderly ==
    ~early =>
        /\ Untouched => posted = {} /\ \A k \in Kind : asked[k] = None
        /\ synckey # <<>> \/ net # "loop" => created = Table
        /\ ui \notin Loading \cup {"start", "main"} => synckey = <<>>
        /\ asked["NewInit"] # None =>
              asked["NewSync"] = None /\ (net # "store" => synckey = <<>>)
        /\ Initialised => unfilled \/ net = "insert" \/ synckey # <<>>
        /\ net = "insert" => synckey = <<>>
        /\ net = "store" => synckey # <<>> /\ LastKey = answer.key
        /\ net \in {"loop", "delete"} /\ asked["NewSync"] >= 0 =>
              asked["NewSync"] = IF synckey = <<>> THEN 0 ELSE LastKey
        /\ Len(synckey) <= 1

(* What is stored above the position, and how often. *)
StoredTo ==
    ~early =>
        /\ \A m \in Msg : msg[m] <= 1
        /\ net \in {"loop", "delete"} /\ synckey # <<>> =>
              \A m \in Msg : msg[m] > 0 => m <= LastKey
        /\ net \in {"insert", "store"} => \A m \in Msg : m >= answer.next => msg[m] = 0
        /\ net = "store" =>
              \A m \in Msg \ Unstorable : answer.from < m /\ m < answer.next => msg[m] > 0
        /\ \/ ui \in {"clearContact", "clearKey", "newInit"}
           \/ asked["NewInit"] # None /\ net # "store"
           \/ Initialised /\ net \in {"loop", "delete"} /\ synckey = <<>>
           => \A m \in Msg : msg[m] = 0
        /\ \A m \in posted \ Unstorable : msg[m] > 0

(* What is stored below the position, when the process has not ended. *)
StoredFrom ==
    crashes = 0 /\ ~early =>
        /\ net # "insert" /\ synckey = <<>> =>
              /\ \A c \in Contacts : contact[c] = 0
              /\ \A m \in Msg : msg[m] = 0
        /\ net \in {"loop", "delete"} /\ synckey # <<>> =>
              /\ ~unfilled => \A c \in Contacts \ Quoted : contact[c] = 1
              /\ \A m \in Msg \ Unstorable : m <= LastKey => msg[m] > 0
        /\ net \in {"insert", "store"} =>
              /\ ~unfilled => \A c \in Contacts \ Quoted :
                                 contact[c] = IF c \in answer.friends THEN 0 ELSE 1
              /\ \A m \in Msg \ Unstorable : m < answer.next => msg[m] > 0

(* The messages up to c are stored, but for those that the NewInit under   *)
(* way brings again.                                                       *)
Held(c) ==
    \A m \in Msg \ Unstorable :
        m <= c => msg[m] > 0 \/ (asked["NewInit"] >= 0 /\ m <= had["NewInit"])

(* The tables have not been cleared, or NewInit's request to fill them     *)
(* again has been sent.                                                    *)
Settled == ui \in Loading \cup {"start"} \/ Initialised \/ asked["NewInit"] >= 0

(* With an early alarm: every position in use covers only what is there,   *)
(* also the one that a sync goes on from while NewInit clears and refills  *)
(* the tables.                                                             *)
HeldToPositions ==
    crashes = 0 /\ ~hasty /\ ~(early /\ unfilled) /\ Settled =>
        /\ Held(asked["NewSync"])
        /\ net # "store" /\ synckey # <<>> => Held(LastKey)
        /\ net = "store" /\ synckey # <<>> =>
              \/ answer.kind = "NewSync" /\ Held(LastKey)
              \/ Ready("msg") /\ LastKey = answer.key /\ Held(answer.next - 1)
        /\ net = "store" /\ answer.kind = "NewInit" =>
              /\ synckey # <<>>
              /\ LastKey = answer.key
              /\ \A m \in Msg \ Unstorable : m < answer.next => msg[m] > 0

StoreInv ==
    /\ StoreTypeOK
    /\ TablesMade
    /\ Positions
    /\ Orderly
    /\ StoredTo
    /\ StoredFrom
    /\ HeldToPositions
=============================================================================
