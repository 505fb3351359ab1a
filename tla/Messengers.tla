-------------------------------- MODULE Messengers --------------------------------
(***************************************************************************)
(* The messenger connections of a tenant. A Slack or Matrix connection is  *)
(* tested and kept. A Telegram bot is kept without a chat: its link code   *)
(* waits in Redis until the bot's webhook hears the code from a chat, which *)
(* becomes the target.                                                     *)
(*                                                                         *)
(* The column config is JSON and is written whole: the status and whether  *)
(* the bot's webhook is registered. Other columns are written when they    *)
(* changed.                                                                *)
(***************************************************************************)
EXTENDS Naturals, FiniteSets

CONSTANTS
    MaxChannels, \* bounds the connections
    Codes,       \* link codes, drawn at random
    Chats,       \* Telegram chats
    Threads,     \* requests at work at one time
    NoChat       \* a connection without a target

ASSUME MessengerConstantsOK == MaxChannels \in Nat /\ NoChat \notin Chats

VARIABLES
    channels, \* the committed connections
    made,     \* connections so far
    keys,     \* the connection of every link code in Redis, 0 for none
    threads,  \* the requests at work
    heard,    \* connections whose chat was told that it is linked
    mixed     \* a link overlapped with another request

chatVars == <<channels, made, keys, threads, heard, mixed>>

Config  == [status : {"pending_link", "active"}, hook : BOOLEAN]
Channel == [id : 1..MaxChannels, bot : BOOLEAN, target : Chats \cup {NoChat}, config : Config]
Blank   == [id |-> 0, bot |-> TRUE, target |-> NoChat,
            config |-> [status |-> "pending_link", hook |-> FALSE]]

\* seen is the connection as the request read it, row as it will be written
Thread == [op : {"none", "init", "renew", "link"}, code : Codes \cup {0},
           chat : Chats \cup {NoChat}, stage : {"idle", "key", "del", "load", "commit"},
           of : 0..MaxChannels, seen : Channel \cup {Blank}, row : Channel \cup {Blank}]

NoThread == [op |-> "none", code |-> 0, chat |-> NoChat, stage |-> "idle", of |-> 0,
             seen |-> Blank, row |-> Blank]

ChatInit ==
    /\ channels = {} /\ made = 0
    /\ keys = [c \in Codes |-> 0]
    /\ threads = [t \in Threads |-> NoThread]
    /\ heard = {} /\ mixed = FALSE

-----------------------------------------------------------------------------

Open(t, q) ==
    /\ threads[t].stage = "idle"
    /\ threads' = [threads EXCEPT ![t] = q]
    /\ mixed' = (mixed \/ \E s \in Threads :
                              threads[s].stage # "idle" /\ "link" \in {q.op, threads[s].op})

Close(t) == threads' = [threads EXCEPT ![t] = NoThread]

\* _telegram_set_webhook: after up to five attempts the webhook is registered or
\* not
SetWebhook == BOOLEAN

\* telegram_init: the bot answers, and its webhook is set
TelegramInit(t, code) ==
    /\ made < MaxChannels /\ made' = made + 1
    /\ \E ok \in SetWebhook :
          Open(t, [NoThread EXCEPT !.op = "init", !.code = code, !.stage = "key",
                     !.row = [Blank EXCEPT !.id = made + 1, !.config.hook = ok]])
    /\ UNCHANGED <<channels, keys, heard>>

\* The link code is stored before the connection is committed
StoreCode(t) ==
    LET q == threads[t]
    IN  /\ q.stage = "key"
        /\ keys' = [keys EXCEPT ![q.code] = q.row.id]
        /\ threads' = [threads EXCEPT ![t].stage = "commit"]
        /\ UNCHANGED <<channels, made, heard, mixed>>

Add(target) ==
    /\ made < MaxChannels /\ made' = made + 1
    /\ channels' = channels \cup {[id |-> made + 1, bot |-> FALSE, target |-> target,
                                   config |-> [status |-> "active", hook |-> FALSE]]}
    /\ UNCHANGED <<keys, threads, heard, mixed>>

\* slack_webhook_init: kept after Slack took a test message, with a channel's
\* name or without
AddSlack == \E target \in Chats \cup {NoChat} : Add(target)

\* matrix_init: kept after the homeserver answered for the room
AddMatrix == \E room \in Chats : Add(room)

\* telegram_retry_webhook: the webhook is set again
RetryWebhook(t, x) ==
    /\ x.bot
    /\ \E ok \in SetWebhook :
          Open(t, [NoThread EXCEPT !.op = "renew", !.stage = "commit", !.seen = x,
                                   !.row = [x EXCEPT !.config.hook = ok]])
    /\ UNCHANGED <<channels, made, keys, heard>>

\* test_notification: a message to the chat, and for a bot without one the webhook
\* is set again
TestNotification(t, x) ==
    /\ x.target = NoChat
    /\ RetryWebhook(t, x)

\* telegram_webhook: /link and a code. The key is read,
TelegramWebhook(t, code, chat) ==
    /\ keys[code] # 0
    /\ Open(t, [NoThread EXCEPT !.op = "link", !.code = code, !.chat = chat, !.stage = "del",
                                !.of = keys[code]])
    /\ UNCHANGED <<channels, made, keys, heard>>

\* then deleted,
DeleteCode(t) ==
    LET q == threads[t]
    IN  /\ q.stage = "del"
        /\ keys' = [keys EXCEPT ![q.code] = 0]
        /\ threads' = [threads EXCEPT ![t].stage = "load"]
        /\ UNCHANGED <<channels, made, heard, mixed>>

\* The chat becomes the target
Linked(x, chat) == [x EXCEPT !.target = chat, !.config.status = "active"]

\* then the connection is read, which may be missing
LoadChannel(t) ==
    LET q == threads[t]
    IN  /\ q.stage = "load"
        /\ \/ \E x \in channels :
                 /\ x.id = q.of
                 /\ threads' = [threads EXCEPT ![t].stage = "commit", ![t].seen = x,
                                               ![t].row = Linked(x, q.chat)]
           \/ (\A x \in channels : x.id # q.of) /\ Close(t)
        /\ UNCHANGED <<channels, made, keys, heard, mixed>>

\* Mutant: all columns are written
Saved_Whole(x, q) == q.row

\* Columns that changed, config as one
Saved(x, q) ==
    [x EXCEPT !.target = IF q.row.target = q.seen.target THEN @ ELSE q.row.target,
              !.config = IF q.row.config = q.seen.config THEN @ ELSE q.row.config]

CommitChannel(t) ==
    LET q == threads[t]
    IN  /\ q.stage = "commit"
        /\ IF q.op = "init" THEN channels' = channels \cup {q.row}
           ELSE /\ \E x \in channels : x.id = q.row.id
                /\ channels' = {IF x.id = q.row.id THEN Saved(x, q) ELSE x : x \in channels}
        /\ heard' = IF q.op = "link" THEN heard \cup {q.row.id} ELSE heard
        /\ Close(t)
        /\ UNCHANGED <<made, keys, mixed>>

\* delete_notification_connection
DeleteChannel(x) ==
    /\ channels' = channels \ {x}
    /\ UNCHANGED <<made, keys, threads, heard, mixed>>

\* An error, a process that dies: what is not committed is rolled back
DropThread(t) ==
    /\ threads[t].stage # "idle"
    /\ Close(t)
    /\ UNCHANGED <<channels, made, keys, heard, mixed>>

ExpireCode(c) ==
    /\ keys[c] # 0
    /\ keys' = [keys EXCEPT ![c] = 0]
    /\ UNCHANGED <<channels, made, threads, heard, mixed>>

ChatNext ==
    \/ \E t \in Threads :
         \/ \E c \in Codes : TelegramInit(t, c) \/ \E chat \in Chats : TelegramWebhook(t, c, chat)
         \/ \E x \in channels : RetryWebhook(t, x) \/ TestNotification(t, x)
         \/ StoreCode(t) \/ DeleteCode(t) \/ LoadChannel(t) \/ CommitChannel(t) \/ DropThread(t)
    \/ AddSlack \/ AddMatrix
    \/ \E x \in channels : DeleteChannel(x)
    \/ \E c \in Codes : ExpireCode(c)

ChatSpec == ChatInit /\ [][ChatNext]_chatVars

-----------------------------------------------------------------------------
(* Properties *)

ChatTypeOK ==
    /\ channels \subseteq Channel
    /\ \A x, y \in channels : x.id = y.id => x = y
    /\ made \in 0..MaxChannels
    /\ keys \in [Codes -> 0..MaxChannels]
    /\ threads \in [Threads -> Thread]
    /\ heard \subseteq 1..MaxChannels
    /\ mixed \in BOOLEAN

\* A bot whose chat was told that it is linked keeps a target, however
\* links and retries overlap. Its status agrees with the target unless a link
\* overlapped with another request: a retry puts back the status that it read.
ChatStays ==
    \A x \in channels : x.bot =>
        /\ x.id \in heard => x.target # NoChat
        /\ ~mixed => (x.config.status = "active") = (x.target # NoChat)
=============================================================================
