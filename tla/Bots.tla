-------------------------------- MODULE Bots --------------------------------
(***************************************************************************)
(* The users' Telegram bots: telegram/bot.go (BotManager: the maps bots    *)
(* and uuidToBots, SetWebhook, RemoveBot, runHealthCheck,                  *)
(* InitializeExistingBots), telegram/routes.go (SetBotToken,               *)
(* RemoveBotToken) and database/users.go (UpdateUserByAdmin,               *)
(* createBotInManager and the statements on bot_token and webhook_uuid).   *)
(*                                                                         *)
(* A bot is in two places, its owner's row and the manager's maps.         *)
(* Handlers change one after the other and hold no lock from one to the    *)
(* next; the manager's mutex makes each change of the maps atomic.  What   *)
(* webhook Telegram has is Telegram's state (who holds the token may       *)
(* change it at any time), so SetWebhook, which ends each operation that   *)
(* has made a bot, leaves the state here as it is.                         *)
(*                                                                         *)
(* UpdateUserProfile reads a row and writes it back whole: to a bot that   *)
(* is an administrator's update that leaves the token as it was read.      *)
(***************************************************************************)
EXTENDS Integers, FiniteSets

CONSTANTS
    NUsers,    \* the users' IDs are 1..NUsers
    NTokens,   \* the bot tokens are 1..NTokens
    Tries,     \* Tries[u]: the tokens that u, or an administrator for u, enters
    Frail,     \* the tokens that may be revoked
    Callers,   \* concurrent requests
    MaxUuid    \* bound on the webhook UUIDs ever issued

Users  == 1..NUsers
Tokens == 1..NTokens

ASSUME BotsAssumption ==
    /\ NUsers \in Nat /\ NTokens \in Nat /\ MaxUuid \in Nat
    /\ Tries \in [Users -> SUBSET Tokens] /\ Frail \subseteq Tokens

Uuids  == 1..MaxUuid
None   == 0   \* no user, no token, no UUID

VARIABLES
    users,     \* the users that exist
    row,       \* row[u]: bot_token and webhook_uuid of u
    issued,    \* UUIDs drawn so far
    bots,      \* the manager's bots[t]: owner and UUID of the bot with token t
    dispatch,  \* uuidToBots[g]: owner and token of the bot updates at g go to
    dead,      \* tokens revoked at Telegram
    req,       \* req[c]: a request
    check,     \* runHealthCheck: the bots still to check, the one in hand
    \* What only the properties read:
    owner,     \* owner[g]: the user g was issued to
    mixed      \* users two operations on whom overlapped, or who shared their
               \* token with another when the bots were loaded
rowVars     == <<users, row, issued, owner>>
managerVars == <<bots, dispatch>>
vars == <<rowVars, managerVars, dead, req, check, mixed>>

Row(t, g)  == [token |-> t, uuid |-> g]
NoRow      == Row(None, None)
Bot(u, g)  == [user |-> u, uuid |-> g]
NoBot      == Bot(None, None)
Entry(u, t) == [user |-> u, token |-> t]
NoEntry    == Entry(None, None)

\* op: SetBotToken, RemoveBotToken or UpdateUserByAdmin.  old and uuid: what the
\* request has read of the row, and then the UUID it registers.
Ops    == {"set", "remove", "admin"}
Stages == {"idle", "owner", "user", "drop", "issue", "wipe", "write", "uuid",
           "create"}
Req(at, op, u, t, old, g) ==
    [at |-> at, op |-> op, user |-> u, token |-> t, old |-> old, uuid |-> g]
NoReq == Req("idle", "set", None, None, None, None)

Check(at, left, u, t) == [at |-> at, left |-> left, user |-> u, token |-> t]
NoCheck == Check("idle", {}, None, None)

\* Types; a deleted user's row stays deleted.
TypeOK ==
    /\ users \subseteq Users /\ \A u \in Users \ users : row[u] = NoRow
    /\ row \in [Users -> [token : 0..NTokens, uuid : 0..MaxUuid]]
    /\ issued \in 0..MaxUuid
    /\ owner \in [Uuids -> 0..NUsers]
    /\ bots \in [Tokens -> [user : 0..NUsers, uuid : 0..MaxUuid]]
    /\ dispatch \in [Uuids -> [user : 0..NUsers, token : 0..NTokens]]
    /\ dead \subseteq Tokens
    /\ req \in [Callers -> [at : Stages, op : Ops, user : 0..NUsers,
                            token : 0..NTokens, old : 0..NTokens, uuid : 0..MaxUuid]]
    /\ check \in [at : {"idle", "next", "drop", "wipe"},
                  left : SUBSET [user : Users, token : Tokens],
                  user : 0..NUsers, token : 0..NTokens]
    /\ mixed \subseteq Users

Init ==
    /\ users = Users /\ row = [u \in Users |-> NoRow]
    /\ issued = 0 /\ owner = [g \in Uuids |-> None]
    /\ bots = [t \in Tokens |-> NoBot] /\ dispatch = [g \in Uuids |-> NoEntry]
    /\ dead = {}
    /\ req = [c \in Callers |-> NoReq] /\ check = NoCheck
    /\ mixed = {}

------------------------------------------------------------------------------
(* Statements and manager calls.                                           *)

\* UPDATE auth_user ... WHERE id = u: no row, no error.
SetRow(u, r) == row' = IF u \in users THEN [row EXCEPT ![u] = r] ELSE row

\* GetUserByBotToken: the lowest ID.
HasToken(u, t) == u \in users /\ row[u].token = t
OtherOwner(u, t) == \E v \in Users : /\ HasToken(v, t) /\ v # u
                                     /\ \A w \in Users : HasToken(w, t) => v <= w

\* CreateBotForUser, when the token is not registered and Telegram accepts it.
Register(u, t, g) ==
    /\ bots[t] = NoBot /\ t \notin dead
    /\ bots' = [bots EXCEPT ![t] = Bot(u, g)]
    /\ dispatch' = [dispatch EXCEPT ![g] = Entry(u, t)]

\* Mutant: the dispatch table is forgotten.
RemoveBotOnly(t) == bots' = [bots EXCEPT ![t] = NoBot] /\ UNCHANGED dispatch

\* RemoveBot: an error when the token is not registered.
RemoveBot(t) ==
    IF bots[t] = NoBot THEN UNCHANGED managerVars
    ELSE /\ bots' = [bots EXCEPT ![t] = NoBot]
         /\ dispatch' = [dispatch EXCEPT ![bots[t].uuid] = NoEntry]

------------------------------------------------------------------------------
(* Requests.                                                               *)

Go(c, r) == req' = [req EXCEPT ![c] = r]
End(c)   == Go(c, NoReq)
GoOn(c, at, old, g) ==
    Go(c, Req(at, req[c].op, req[c].user, req[c].token, old, g))
Move(c, at) == GoOn(c, at, None, None)
Keep(c, at) == GoOn(c, at, req[c].old, req[c].uuid)

\* Operations under way on a user: requests, and the health check.
Watched == {b.user : b \in check.left} \cup {check.user}
Busy(u) == u \in Watched \/ \E c \in Callers : req[c].user = u

Begin(c, op, u, t) ==
    /\ req[c].at = "idle" /\ u \in users
    /\ Go(c, Req(IF op = "set" THEN "owner" ELSE "user", op, u, t, None, None))
    /\ mixed' = IF Busy(u) THEN mixed \cup {u} ELSE mixed
    /\ UNCHANGED <<rowVars, managerVars, dead, check>>

\* SetBotToken's check of another owner; a lookup that fails finds none.
LookUpOwner(c) ==
    /\ req[c].at = "owner"
    /\ \/ OtherOwner(req[c].user, req[c].token) /\ End(c)
       \/ Move(c, "user")
    /\ UNCHANGED <<rowVars, managerVars, dead, check, mixed>>

\* GetUser, or the administrator's SELECT.
ReadUser(c) ==
    /\ req[c].at = "user"
    /\ LET u == req[c].user  t == row[u].token
           same == t \in {None, req[c].token} IN
       \/ End(c)   \* no such user, nothing to remove, or the read fails
       \/ /\ u \in users
          /\ \/ req[c].op = "set"    /\ same  /\ Move(c, "issue")
             \/ req[c].op = "set"    /\ ~same /\ GoOn(c, "drop", t, None)
             \/ req[c].op = "remove" /\ t # None /\ GoOn(c, "drop", t, None)
             \/ req[c].op = "admin"
                /\ GoOn(c, IF same THEN "write" ELSE "drop", t, row[u].uuid)
    /\ UNCHANGED <<rowVars, managerVars, dead, check, mixed>>

\* Mutant: the old bot is left alone.
DropNothing(c) ==
    /\ req[c].at = "drop"
    /\ IF req[c].op = "admin" THEN Keep(c, "wipe") ELSE Move(c, "issue")
    /\ UNCHANGED <<rowVars, managerVars, dead, check, mixed>>

\* RemoveBot of the token that was read: only RemoveBotToken minds its error.
Drop(c) ==
    /\ req[c].at = "drop"
    /\ RemoveBot(req[c].old)
    /\ \/ req[c].op = "admin" /\ Keep(c, "wipe")
       \/ req[c].op = "set" /\ Move(c, "issue")
       \/ /\ req[c].op = "remove"
          /\ IF bots[req[c].old] = NoBot THEN End(c) ELSE Move(c, "issue")
    /\ UNCHANGED <<rowVars, dead, check, mixed>>

\* UpdateBotToken: a new token comes with a new UUID.
Issue(c) ==
    /\ req[c].at = "issue"
    /\ \/ /\ End(c)   \* the update fails
          /\ UNCHANGED <<row, issued, owner>>
       \/ /\ req[c].token = None /\ End(c)
          /\ SetRow(req[c].user, NoRow)
          /\ UNCHANGED <<issued, owner>>
       \/ /\ req[c].token # None /\ issued < MaxUuid
          /\ issued' = issued + 1
          /\ owner' = [owner EXCEPT ![issued + 1] = req[c].user]
          /\ SetRow(req[c].user, Row(req[c].token, issued + 1))
          /\ GoOn(c, "create", None, issued + 1)
    /\ UNCHANGED <<users, managerVars, dead, check, mixed>>

\* UpdateUserByAdmin: ClearBotToken, which may fail ...
Wipe(c) ==
    /\ req[c].at = "wipe"
    /\ row' = row \/ SetRow(req[c].user, NoRow)
    /\ Keep(c, "write")
    /\ UNCHANGED <<users, issued, owner, managerVars, dead, check, mixed>>

\* ... then the whole row as it was read, with the new token ...
Write(c) ==
    /\ req[c].at = "write"
    /\ \/ End(c) /\ row' = row
       \/ /\ SetRow(req[c].user, Row(req[c].token, req[c].uuid))
          /\ IF req[c].token \in {None, req[c].old} THEN End(c) ELSE Move(c, "uuid")
    /\ UNCHANGED <<users, issued, owner, managerVars, dead, check, mixed>>

\* ... and createBotInManager, which needs a UUID in the row.  Its goroutine
\* goes on when the request has given up on it.
ReadUuid(c) ==
    /\ req[c].at = "uuid"
    /\ LET r == row[req[c].user] IN
       \/ End(c)
       \/ /\ req[c].user \in users /\ r.uuid # None
          /\ GoOn(c, "create", None, r.uuid)
    /\ UNCHANGED <<rowVars, managerVars, dead, check, mixed>>

\* CreateBotForUser.
Create(c) ==
    /\ req[c].at = "create"
    /\ \/ End(c) /\ UNCHANGED managerVars
       \/ Register(req[c].user, req[c].token, req[c].uuid) /\ End(c)
    /\ UNCHANGED <<rowVars, dead, check, mixed>>

Step(c) == \/ LookUpOwner(c) \/ ReadUser(c) \/ Drop(c) \/ Issue(c) \/ Wipe(c)
           \/ Write(c) \/ ReadUuid(c) \/ Create(c)

------------------------------------------------------------------------------
(* The health check.                                                       *)

Registered == {t \in Tokens : bots[t] # NoBot}

StartCheck ==
    /\ check.at = "idle" /\ Registered # {}
    /\ check' = Check("next", {Entry(bots[t].user, t) : t \in Registered}, None, None)
    /\ mixed' = mixed \cup {u \in users : /\ \E t \in Registered : bots[t].user = u
                                          /\ Busy(u)}
    /\ UNCHANGED <<rowVars, managerVars, dead, req>>

EndCheck ==
    /\ check.at = "next" /\ check.left = {}
    /\ check' = NoCheck
    /\ UNCHANGED <<rowVars, managerVars, dead, req, mixed>>

\* validateBotToken: revoked, or valid (its webhook may then be set again), or
\* no answer.
Validate(b) ==
    /\ check.at = "next" /\ b \in check.left
    /\ LET rest == check.left \ {b} IN
       \/ check' = Check("next", rest, None, None)
       \/ b.token \in dead /\ check' = Check("drop", rest, b.user, b.token)
    /\ UNCHANGED <<rowVars, managerVars, dead, req, mixed>>

CheckDrop ==
    /\ check.at = "drop"
    /\ RemoveBot(check.token)
    /\ check' = Check("wipe", check.left, check.user, check.token)
    /\ UNCHANGED <<rowVars, dead, req, mixed>>

\* ClearBotToken of the user the bot was registered for.
CheckWipe ==
    /\ check.at = "wipe"
    /\ row' = row \/ SetRow(check.user, NoRow)
    /\ check' = Check("next", check.left, None, None)
    /\ UNCHANGED <<users, issued, owner, managerVars, dead, req, mixed>>

CheckStep == \/ EndCheck \/ CheckDrop \/ CheckWipe
             \/ \E b \in check.left : Validate(b)

------------------------------------------------------------------------------
(* Environment.                                                            *)

\* The owner revokes a token at BotFather.
Revoke(t) ==
    /\ t \in Frail \ dead
    /\ dead' = dead \cup {t}
    /\ UNCHANGED <<rowVars, managerVars, req, check, mixed>>

\* database.DeleteUser: the row goes, the bot stays.
DeleteUser(u) ==
    /\ u \in users
    /\ users' = users \ {u}
    /\ row' = [row EXCEPT ![u] = NoRow]
    /\ mixed' = mixed \ {u}
    /\ UNCHANGED <<issued, owner, managerVars, dead, req, check>>

\* InitializeExistingBots: the rows with token and UUID, in any order.  Any of
\* its calls to Telegram may fail (ok: those that did not); of rows with one
\* token the bot of the last one stays, and the UUIDs of all.
Loadable == {u \in users : row[u].uuid # None /\ row[u].token \in Tokens \ dead}
Load(ok, last) ==
    /\ \A t \in DOMAIN last : row[last[t]].token = t
    /\ bots' = [t \in Tokens |->
                   IF t \in DOMAIN last THEN Bot(last[t], row[last[t]].uuid)
                   ELSE NoBot]
    /\ dispatch' = [g \in Uuids |->
                       IF \E u \in ok : row[u].uuid = g
                       THEN LET u == CHOOSE u \in ok : row[u].uuid = g
                            IN Entry(u, row[u].token)
                       ELSE NoEntry]

\* The process ends and starts again: the bots are loaded before it listens.
Restart ==
    /\ \E ok \in SUBSET Loadable : \E last \in [{row[u].token : u \in ok} -> ok] :
          Load(ok, last)
    /\ req' = [c \in Callers |-> NoReq]
    /\ check' = NoCheck
    /\ mixed' = {u \in users : /\ row[u].token # None
                               /\ \E v \in users \ {u} : HasToken(v, row[u].token)}
    /\ UNCHANGED <<rowVars, dead>>

Next ==
    \/ \E c \in Callers, u \in Users :
          \/ \E t \in Tries[u] : Begin(c, "set", u, t)
          \/ Begin(c, "remove", u, None)
          \/ \E t \in Tries[u] \cup {None} : Begin(c, "admin", u, t)
    \/ \E c \in Callers : Step(c)
    \/ StartCheck \/ CheckStep
    \/ \E t \in Frail : Revoke(t)
    \/ \E u \in Users : DeleteUser(u)
    \/ Restart

Spec == Init /\ [][Next]_vars

------------------------------------------------------------------------------
(* Properties.                                                             *)

\* A webhook URL is one user's for ever: rows, bots and the dispatch table hold
\* a UUID only for the user it was issued to, however requests, stale rows
\* written back, health checks and restarts interleave.
OwnUrl ==
    /\ \A u \in Users : row[u].uuid # None => owner[row[u].uuid] = u
    /\ \A t \in Tokens : bots[t] # NoBot => owner[bots[t].uuid] = bots[t].user
    /\ \A g \in Uuids : dispatch[g] # NoEntry => owner[g] = dispatch[g].user

\* A running bot is the one its owner's row names, at every step of a handler
\* and whichever of its calls fails, as long as no two operations on that user
\* overlap: nobody is left with a bot that they cannot see or remove.
BotMeansRow ==
    \A t \in Tokens : bots[t].user \in users \ mixed => row[bots[t].user].token = t

\* For the same users the two maps agree: a registered bot gets its updates, and
\* no update is dispatched to a bot that was removed or replaced.
MapsAgree ==
    \A g \in Uuids, t \in Tokens, u \in users \ mixed :
        bots[t] = Bot(u, g) <=> dispatch[g] = Entry(u, t)
=============================================================================
