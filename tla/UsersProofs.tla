------------------------------ MODULE UsersProofs ----------------------------
(***************************************************************************)
(* Theorems about the users: Bots for any users, tokens, callers and       *)
(* number of UUIDs, Accounts for any logins, passwords, requests and       *)
(* number of accounts and links, then Conversations for any handlers,      *)
(* messages, searches and sizes.                                           *)
(***************************************************************************)
EXTENDS Bots, Accounts, Conversations, TLAPS, SequenceTheorems, WellFoundedInduction

\* What a request has read or been given is of its user.
Requests ==
    \A c \in Callers :
        /\ req[c].at = "idle" => req[c] = NoReq
        /\ req[c].at # "idle" => req[c].user \in Users
        /\ req[c].at = "drop" => req[c].old # None
        /\ req[c].at \in {"uuid", "create"} => req[c].token # None
        /\ req[c].at = "create" => req[c].uuid # None
        /\ req[c].uuid # None => owner[req[c].uuid] = req[c].user

Entries ==
    /\ \A t \in Tokens : bots[t] # NoBot => bots[t].user # None /\ bots[t].uuid # None
    /\ \A g \in Uuids : dispatch[g] # NoEntry => dispatch[g].user # None
    /\ check.at \in {"drop", "wipe"} => check.user # None /\ check.token # None

\* UUIDs are drawn once.
Fresh == \A g \in Uuids : issued < g => owner[g] = None

\* What operations know of a user when they do not overlap.
OneAtATime(u) ==
    /\ \A c, d \in Callers : req[c].user = u /\ req[d].user = u => c = d
    /\ u \in Watched => \A c \in Callers : req[c].user # u

RowNames(u) == \A t \in Tokens : bots[t].user = u => row[u].token = t

OnlyBot(u, t) == \A s \in Tokens : bots[s].user = u => s = t

RequestKnows(u, c) ==
    /\ req[c].at = "drop" => row[u].token = req[c].old
    /\ req[c].at = "wipe" => OnlyBot(u, None)
    /\ req[c].at \in {"issue", "write"} => OnlyBot(u, req[c].token)
    /\ req[c].at \in {"uuid", "create"} => row[u].token = req[c].token

CheckKnows(u) ==
    /\ \A b \in check.left : b.user = u => row[u].token = b.token
    /\ check.user = u => /\ row[u].token = check.token
                         /\ Entry(check.user, check.token) \notin check.left
                         /\ check.at = "wipe" => OnlyBot(u, None)

Tidy(u) ==
    /\ OneAtATime(u) /\ RowNames(u) /\ CheckKnows(u)
    /\ \A c \in Callers : req[c].user = u => RequestKnows(u, c)

Undisturbed == \A u \in users \ mixed : Tidy(u)

IInv == TypeOK /\ Requests /\ Entries /\ Fresh /\ OwnUrl /\ Undisturbed /\ MapsAgree

------------------------------------------------------------------------------
(* Types.                                                                  *)

RowType   == [token : 0..NTokens, uuid : 0..MaxUuid]
BotType   == [user : 0..NUsers, uuid : 0..MaxUuid]
EntryType == [user : 0..NUsers, token : 0..NTokens]
ReqType   == [at : Stages, op : Ops, user : 0..NUsers, token : 0..NTokens,
              old : 0..NTokens, uuid : 0..MaxUuid]
CheckType == [at : {"idle", "next", "drop", "wipe"},
              left : SUBSET [user : Users, token : Tokens],
              user : 0..NUsers, token : 0..NTokens]

RowTypes ==
    /\ users \subseteq Users /\ \A u \in Users \ users : row[u] = NoRow
    /\ row \in [Users -> RowType]
    /\ issued \in 0..MaxUuid
    /\ owner \in [Uuids -> 0..NUsers]

ManagerTypes ==
    /\ bots \in [Tokens -> BotType]
    /\ dispatch \in [Uuids -> EntryType]

LEMMA Types ==
    TypeOK <=> /\ RowTypes /\ ManagerTypes /\ dead \subseteq Tokens
               /\ req \in [Callers -> ReqType] /\ check \in CheckType
               /\ mixed \subseteq Users
BY DEF TypeOK, RowTypes, ManagerTypes, RowType, BotType, EntryType, ReqType, CheckType

LEMMA Constants ==
    /\ NUsers \in Nat /\ NTokens \in Nat /\ MaxUuid \in Nat
    /\ None = 0
    /\ None \in 0..NUsers /\ None \in 0..NTokens /\ None \in 0..MaxUuid
    /\ None \notin Users /\ None \notin Tokens /\ None \notin Uuids
    /\ Users \subseteq 0..NUsers /\ Tokens \subseteq 0..NTokens
    /\ Uuids \subseteq 0..MaxUuid
    /\ \A u \in 0..NUsers : u # None => u \in Users
    /\ \A t \in 0..NTokens : t # None => t \in Tokens
    /\ \A g \in 0..MaxUuid : g # None => g \in Uuids
    /\ \A u \in Users : Tries[u] \subseteq Tokens
BY BotsAssumption DEF BotsAssumption, None, Users, Tokens, Uuids

LEMMA RowValues ==
    /\ \A t \in 0..NTokens, g \in 0..MaxUuid :
          Row(t, g) \in RowType /\ Row(t, g).token = t /\ Row(t, g).uuid = g
    /\ \A r \in RowType :
          r.token \in 0..NTokens /\ r.uuid \in 0..MaxUuid /\ r = Row(r.token, r.uuid)
    /\ NoRow \in RowType /\ NoRow.token = None /\ NoRow.uuid = None
BY Constants DEF Row, NoRow, RowType

LEMMA BotValues ==
    /\ \A u \in 0..NUsers, g \in 0..MaxUuid :
          Bot(u, g) \in BotType /\ Bot(u, g).user = u /\ Bot(u, g).uuid = g
    /\ \A b \in BotType :
          b.user \in 0..NUsers /\ b.uuid \in 0..MaxUuid /\ b = Bot(b.user, b.uuid)
    /\ NoBot \in BotType /\ NoBot.user = None
BY Constants DEF Bot, NoBot, BotType

LEMMA EntryValues ==
    /\ \A u \in 0..NUsers, t \in 0..NTokens :
          Entry(u, t) \in EntryType /\ Entry(u, t).user = u /\ Entry(u, t).token = t
    /\ \A e \in EntryType :
          e.user \in 0..NUsers /\ e.token \in 0..NTokens /\ e = Entry(e.user, e.token)
    /\ NoEntry \in EntryType /\ NoEntry.user = None
BY Constants DEF Entry, NoEntry, EntryType

LEMMA ReqValues ==
    /\ \A at \in Stages, op \in Ops, u \in 0..NUsers, t \in 0..NTokens,
          old \in 0..NTokens, g \in 0..MaxUuid :
          /\ Req(at, op, u, t, old, g) \in ReqType
          /\ Req(at, op, u, t, old, g).at = at /\ Req(at, op, u, t, old, g).op = op
          /\ Req(at, op, u, t, old, g).user = u /\ Req(at, op, u, t, old, g).token = t
          /\ Req(at, op, u, t, old, g).old = old /\ Req(at, op, u, t, old, g).uuid = g
    /\ \A r \in ReqType :
          /\ r.at \in Stages /\ r.op \in Ops /\ r.user \in 0..NUsers
          /\ r.token \in 0..NTokens /\ r.old \in 0..NTokens /\ r.uuid \in 0..MaxUuid
    /\ NoReq \in ReqType /\ NoReq.at = "idle" /\ NoReq.user = None
    /\ NoReq.uuid = None
BY Constants DEF Req, NoReq, ReqType, Stages, Ops

LEMMA CheckValues ==
    /\ \A at \in {"idle", "next", "drop", "wipe"},
          rest \in SUBSET [user : Users, token : Tokens],
          u \in 0..NUsers, t \in 0..NTokens :
          /\ Check(at, rest, u, t) \in CheckType
          /\ Check(at, rest, u, t).at = at /\ Check(at, rest, u, t).left = rest
          /\ Check(at, rest, u, t).user = u /\ Check(at, rest, u, t).token = t
    /\ \A k \in CheckType :
          /\ k.at \in {"idle", "next", "drop", "wipe"}
          /\ k.left \in SUBSET [user : Users, token : Tokens]
          /\ k.user \in 0..NUsers /\ k.token \in 0..NTokens
    /\ NoCheck \in CheckType /\ NoCheck.at = "idle" /\ NoCheck.left = {}
    /\ NoCheck.user = None
BY Constants DEF Check, NoCheck, CheckType

LEMMA SnapshotEntries ==
    /\ \A b \in [user : Users, token : Tokens] :
          b.user \in Users /\ b.token \in Tokens /\ b = Entry(b.user, b.token)
    /\ \A u \in Users, t \in Tokens : Entry(u, t) \in [user : Users, token : Tokens]
    /\ \A u, t : Entry(u, t).user = u /\ Entry(u, t).token = t
BY DEF Entry

------------------------------------------------------------------------------
(* What a step does to a request.                                          *)

Others(c) == \A d \in Callers \ {c} : req'[d] = req[d]

Gone(c) == req' \in [Callers -> ReqType] /\ Others(c) /\ req'[c] = NoReq

Went(c, at, old, g) ==
    /\ req' \in [Callers -> ReqType] /\ Others(c)
    /\ req'[c].at = at /\ req'[c].op = req[c].op /\ req'[c].user = req[c].user
    /\ req'[c].token = req[c].token /\ req'[c].old = old /\ req'[c].uuid = g

LEMMA EndGoes ==
    ASSUME TypeOK, NEW c \in Callers, End(c)
    PROVE  Gone(c)
BY Types, ReqValues DEF End, Go, Gone, Others

LEMMA GoOnGoes ==
    ASSUME TypeOK, NEW c \in Callers, NEW at \in Stages, NEW old \in 0..NTokens,
           NEW g \in 0..MaxUuid, GoOn(c, at, old, g)
    PROVE  Went(c, at, old, g)
<1> DEFINE r == Req(at, req[c].op, req[c].user, req[c].token, old, g)
<1>1. req \in [Callers -> ReqType]
  BY Types
<1>2. req[c] \in ReqType
  BY <1>1
<1>3. r \in ReqType /\ r.at = at /\ r.op = req[c].op /\ r.user = req[c].user
      /\ r.token = req[c].token /\ r.old = old /\ r.uuid = g
  <2>1. /\ req[c].op \in Ops /\ req[c].user \in 0..NUsers
        /\ req[c].token \in 0..NTokens
    BY <1>2, ReqValues
  <2>2. QED
    BY <2>1 DEF Req, ReqType
<1>4. req' = [req EXCEPT ![c] = r]
  BY DEF GoOn, Go
<1> HIDE DEF r
<1>5. QED
  BY <1>1, <1>3, <1>4 DEF Went, Others

LEMMA MoveGoes ==
    ASSUME TypeOK, NEW c \in Callers, NEW at \in Stages, Move(c, at)
    PROVE  Went(c, at, None, None)
BY GoOnGoes, Constants DEF Move

LEMMA KeepGoes ==
    ASSUME TypeOK, NEW c \in Callers, NEW at \in Stages, Keep(c, at)
    PROVE  Went(c, at, req[c].old, req[c].uuid)
<1>1. req[c].old \in 0..NTokens /\ req[c].uuid \in 0..MaxUuid
  BY Types, ReqValues
<1>2. QED
  BY <1>1, GoOnGoes DEF Keep

LEMMA BeginGoes ==
    ASSUME TypeOK, NEW c \in Callers, NEW op \in Ops, NEW u \in Users,
           NEW t \in 0..NTokens, Begin(c, op, u, t)
    PROVE  /\ req' \in [Callers -> ReqType] /\ Others(c)
           /\ req'[c].at \in {"owner", "user"} /\ req'[c].user = u
           /\ req'[c].uuid = None
<1> DEFINE at == IF op = "set" THEN "owner" ELSE "user"
           r == Req(at, op, u, t, None, None)
<1>1. at \in Stages /\ at \in {"owner", "user"}
  BY DEF Stages
<1>2. r \in ReqType /\ r.at = at /\ r.user = u /\ r.uuid = None
  BY <1>1, ReqValues, Constants
<1>3. req' = [req EXCEPT ![c] = r]
  BY DEF Begin, Go
<1> HIDE DEF r, at
<1>4. QED
  BY <1>1, <1>2, <1>3, Types DEF Others

------------------------------------------------------------------------------
(* Statements and manager calls.                                           *)

\* What a statement on the row of u may do.
RowSet(u, r) ==
    /\ row' \in [Users -> RowType]
    /\ \A v \in Users : v # u => row'[v] = row[v]
    /\ u \in users => row'[u] = r
    /\ \A v \in Users \ users : row'[v] = row[v]

LEMMA SetRowSets ==
    ASSUME TypeOK, NEW u, NEW r \in RowType, SetRow(u, r)
    PROVE  RowSet(u, r)
<1>1. users \subseteq Users /\ row \in [Users -> RowType]
  BY Types DEF RowTypes
<1>2. QED
  BY <1>1 DEF SetRow, RowSet

LEMMA RowSetTypes ==
    ASSUME TypeOK, users' = users, issued' \in 0..MaxUuid, owner' \in [Uuids -> 0..NUsers],
           NEW u, NEW r, RowSet(u, r)
    PROVE  RowTypes'
BY Types DEF RowTypes, RowSet

LEMMA RegisterTypes ==
    ASSUME TypeOK, NEW u \in 0..NUsers, NEW t \in 0..NTokens, NEW g \in 0..MaxUuid,
           Register(u, t, g)
    PROVE  ManagerTypes'
BY Types, BotValues, EntryValues DEF Register, ManagerTypes

LEMMA RemoveTypes ==
    ASSUME TypeOK, NEW t, RemoveBot(t)
    PROVE  ManagerTypes'
BY Types, BotValues, EntryValues DEF RemoveBot, ManagerTypes, managerVars

------------------------------------------------------------------------------
(* TypeOK.                                                                 *)

LEMMA RowsKept ==
    ASSUME TypeOK, UNCHANGED rowVars
    PROVE  RowTypes'
BY Types DEF RowTypes, rowVars

LEMMA ManagerKept ==
    ASSUME TypeOK, UNCHANGED managerVars
    PROVE  ManagerTypes'
BY Types DEF ManagerTypes, managerVars

LEMMA AllTypes ==
    ASSUME RowTypes', ManagerTypes', dead' \subseteq Tokens,
           req' \in [Callers -> ReqType], check' \in CheckType, mixed' \subseteq Users
    PROVE  TypeOK'
BY DEF TypeOK, RowTypes, ManagerTypes, RowType, BotType, EntryType, ReqType, CheckType

LEMMA RestKept ==
    ASSUME TypeOK, RowTypes', ManagerTypes', req' \in [Callers -> ReqType],
           UNCHANGED <<dead, check, mixed>>
    PROVE  TypeOK'
BY Types, AllTypes

LEMMA InitTypes == Init => TypeOK
<1> SUFFICES ASSUME Init PROVE TypeOK
  OBVIOUS
<1>1. RowTypes
  BY RowValues, Constants DEF Init, RowTypes
<1>2. ManagerTypes
  BY BotValues, EntryValues DEF Init, ManagerTypes
<1>3. QED
  BY <1>1, <1>2, Types, ReqValues, CheckValues DEF Init

\* UpdateBotToken: what it draws and writes.
LEMMA IssueCases ==
    ASSUME TypeOK, NEW c \in Callers, Issue(c)
    PROVE  /\ UNCHANGED <<users, managerVars, dead, check, mixed>>
           /\ \/ Gone(c) /\ UNCHANGED rowVars
              \/ /\ req[c].token = None /\ Gone(c) /\ UNCHANGED <<issued, owner>>
                 /\ RowSet(req[c].user, NoRow)
              \/ /\ req[c].token # None /\ issued + 1 \in Uuids
                 /\ issued' = issued + 1
                 /\ owner' = [owner EXCEPT ![issued + 1] = req[c].user]
                 /\ RowSet(req[c].user, Row(req[c].token, issued + 1))
                 /\ Went(c, "create", None, issued + 1)
<1>1. req[c] \in ReqType /\ issued \in 0..MaxUuid
  BY Types DEF RowTypes
<1>2. req[c].token \in 0..NTokens /\ req[c].user \in 0..NUsers
  BY <1>1, ReqValues
<1>3. CASE End(c) /\ UNCHANGED <<row, issued, owner>>
  BY <1>3, EndGoes DEF Issue, rowVars
<1>4. CASE req[c].token = None /\ End(c) /\ SetRow(req[c].user, NoRow)
           /\ UNCHANGED <<issued, owner>>
  BY <1>4, EndGoes, SetRowSets, RowValues DEF Issue
<1>5. CASE /\ req[c].token # None /\ issued < MaxUuid /\ issued' = issued + 1
           /\ owner' = [owner EXCEPT ![issued + 1] = req[c].user]
           /\ SetRow(req[c].user, Row(req[c].token, issued + 1))
           /\ GoOn(c, "create", None, issued + 1)
  <2>1. issued + 1 \in Uuids /\ issued + 1 \in 0..MaxUuid
    BY <1>1, <1>5, Constants DEF Uuids
  <2>2. Row(req[c].token, issued + 1) \in RowType
    BY <1>2, <2>1, RowValues
  <2>3. RowSet(req[c].user, Row(req[c].token, issued + 1))
    BY <1>5, <2>2, SetRowSets
  <2>4. Went(c, "create", None, issued + 1)
    BY <1>5, <2>1, GoOnGoes, Constants DEF Stages
  <2>5. QED
    BY <1>5, <2>1, <2>3, <2>4 DEF Issue
<1>6. QED
  BY <1>3, <1>4, <1>5 DEF Issue

LEMMA LookUpCases ==
    ASSUME TypeOK, NEW c \in Callers, LookUpOwner(c)
    PROVE  /\ UNCHANGED <<rowVars, managerVars, dead, check, mixed>>
           /\ Gone(c) \/ Went(c, "user", None, None)
BY EndGoes, MoveGoes DEF LookUpOwner, Stages

LEMMA ReadUserCases ==
    ASSUME TypeOK, NEW c \in Callers, ReadUser(c)
    PROVE  /\ UNCHANGED <<rowVars, managerVars, dead, check, mixed>>
           /\ \/ Gone(c)
              \/ LET u == req[c].user IN
                 /\ u \in users
                 /\ \/ /\ row[u].token \in {None, req[c].token}
                       /\ Went(c, "issue", None, None)
                    \/ /\ row[u].token # None
                       /\ Went(c, "drop", row[u].token, None)
                    \/ /\ row[u].token # None
                       /\ Went(c, "drop", row[u].token, row[u].uuid)
                    \/ /\ row[u].token \in {None, req[c].token}
                       /\ Went(c, "write", row[u].token, row[u].uuid)
<1> DEFINE u == req[c].user
<1>1. SUFFICES ASSUME u \in users, ~End(c)
               PROVE  \/ /\ row[u].token \in {None, req[c].token}
                         /\ Went(c, "issue", None, None)
                      \/ /\ row[u].token # None
                         /\ Went(c, "drop", row[u].token, None)
                      \/ /\ row[u].token # None
                         /\ Went(c, "drop", row[u].token, row[u].uuid)
                      \/ /\ row[u].token \in {None, req[c].token}
                         /\ Went(c, "write", row[u].token, row[u].uuid)
  BY EndGoes DEF ReadUser
<1>2. row[u].token \in 0..NTokens /\ row[u].uuid \in 0..MaxUuid
  BY <1>1, Types, RowValues DEF RowTypes
<1>3. /\ \A at \in Stages : Move(c, at) => Went(c, at, None, None)
      /\ \A at \in Stages : GoOn(c, at, row[u].token, None)
                              => Went(c, at, row[u].token, None)
      /\ \A at \in Stages : GoOn(c, at, row[u].token, row[u].uuid)
                              => Went(c, at, row[u].token, row[u].uuid)
  BY <1>2, MoveGoes, GoOnGoes, Constants
<1>4. "issue" \in Stages /\ "drop" \in Stages /\ "write" \in Stages
  BY DEF Stages
<1>5. QED
  BY <1>1, <1>3, <1>4 DEF ReadUser

LEMMA DropCases ==
    ASSUME TypeOK, NEW c \in Callers, Drop(c)
    PROVE  /\ req[c].at = "drop"
           /\ UNCHANGED <<rowVars, dead, check, mixed>>
           /\ RemoveBot(req[c].old)
           /\ \/ Gone(c)
              \/ Went(c, "issue", None, None)
              \/ Went(c, "wipe", req[c].old, req[c].uuid)
BY EndGoes, MoveGoes, KeepGoes DEF Drop, Stages

LEMMA WipeCases ==
    ASSUME TypeOK, NEW c \in Callers, Wipe(c)
    PROVE  /\ req[c].at = "wipe"
           /\ UNCHANGED <<users, issued, owner, managerVars, dead, check, mixed>>
           /\ row' = row \/ RowSet(req[c].user, NoRow)
           /\ Went(c, "write", req[c].old, req[c].uuid)
BY KeepGoes, SetRowSets, RowValues DEF Wipe, Stages

LEMMA WriteCases ==
    ASSUME TypeOK, NEW c \in Callers, Write(c)
    PROVE  /\ req[c].at = "write"
           /\ UNCHANGED <<users, issued, owner, managerVars, dead, check, mixed>>
           /\ \/ Gone(c) /\ row' = row
              \/ /\ RowSet(req[c].user, Row(req[c].token, req[c].uuid))
                 /\ \/ Gone(c)
                    \/ req[c].token # None /\ Went(c, "uuid", None, None)
<1>1. req[c].token \in 0..NTokens /\ req[c].uuid \in 0..MaxUuid
  BY Types, ReqValues
<1>2. Row(req[c].token, req[c].uuid) \in RowType
  BY <1>1, RowValues
<1>3. "uuid" \in Stages
  BY DEF Stages
<1>4. QED
  BY <1>2, <1>3, EndGoes, MoveGoes, SetRowSets DEF Write

LEMMA ReadUuidCases ==
    ASSUME TypeOK, NEW c \in Callers, ReadUuid(c)
    PROVE  /\ req[c].at = "uuid"
           /\ UNCHANGED <<rowVars, managerVars, dead, check, mixed>>
           /\ \/ Gone(c)
              \/ /\ req[c].user \in users /\ row[req[c].user].uuid # None
                 /\ Went(c, "create", None, row[req[c].user].uuid)
<1> DEFINE g == row[req[c].user].uuid
<1>1. SUFFICES ASSUME ~End(c), req[c].user \in users, g # None,
                      GoOn(c, "create", None, g)
               PROVE  Went(c, "create", None, g)
  BY EndGoes DEF ReadUuid
<1>2. g \in 0..MaxUuid
  BY <1>1, Types, RowValues DEF RowTypes
<1>3. "create" \in Stages
  BY DEF Stages
<1> HIDE DEF g
<1>4. QED
  BY <1>1, <1>2, <1>3, GoOnGoes, Constants

LEMMA CreateCases ==
    ASSUME TypeOK, NEW c \in Callers, Create(c)
    PROVE  /\ req[c].at = "create"
           /\ UNCHANGED <<rowVars, dead, check, mixed>>
           /\ Gone(c)
           /\ \/ UNCHANGED managerVars
              \/ Register(req[c].user, req[c].token, req[c].uuid)
BY EndGoes DEF Create

LEMMA StepTypes ==
    ASSUME TypeOK, NEW c \in Callers, Step(c)
    PROVE  TypeOK'
<1>1. req[c] \in ReqType /\ issued \in 0..MaxUuid /\ owner \in [Uuids -> 0..NUsers]
  BY Types DEF RowTypes
<1>2. /\ req[c].user \in 0..NUsers /\ req[c].token \in 0..NTokens
      /\ req[c].old \in 0..NTokens /\ req[c].uuid \in 0..MaxUuid
  BY <1>1, ReqValues
<1>3. CASE LookUpOwner(c) \/ ReadUser(c) \/ ReadUuid(c)
  BY <1>3, LookUpCases, ReadUserCases, ReadUuidCases, RowsKept, ManagerKept,
     RestKept DEF Gone, Went
<1>4. CASE Drop(c)
  <2>1. ManagerTypes'
    BY <1>4, DropCases, RemoveTypes
  <2>2. QED
    BY <1>4, <2>1, DropCases, RowsKept, RestKept DEF Gone, Went
<1>5. CASE Create(c)
  <2>1. ManagerTypes'
    BY <1>2, <1>5, CreateCases, RegisterTypes, ManagerKept
  <2>2. QED
    BY <1>5, <2>1, CreateCases, RowsKept, RestKept DEF Gone
<1>6. CASE Wipe(c) \/ Write(c)
  <2>1. UNCHANGED <<users, issued, owner, managerVars, dead, check, mixed>>
        /\ req' \in [Callers -> ReqType]
    BY <1>6, WipeCases, WriteCases DEF Gone, Went
  <2>2. row' = row \/ \E r : RowSet(req[c].user, r)
    BY <1>6, WipeCases, WriteCases
  <2>3. issued' \in 0..MaxUuid /\ owner' \in [Uuids -> 0..NUsers]
    BY <1>1, <2>1
  <2>4. RowTypes'
    BY <2>1, <2>2, <2>3, RowSetTypes, RowsKept DEF rowVars
  <2>5. QED
    BY <2>1, <2>4, ManagerKept, RestKept
<1>7. CASE Issue(c)
  <2>1. UNCHANGED <<users, managerVars, dead, check, mixed>>
        /\ req' \in [Callers -> ReqType]
    BY <1>7, IssueCases DEF Gone, Went
  <2>2. UNCHANGED rowVars \/ \E r : RowSet(req[c].user, r)
    BY <1>7, IssueCases
  <2>3. issued' \in 0..MaxUuid /\ owner' \in [Uuids -> 0..NUsers]
    BY <1>1, <1>2, <1>7, IssueCases, Constants DEF rowVars
  <2>4. RowTypes'
    BY <2>1, <2>2, <2>3, RowSetTypes, RowsKept
  <2>5. QED
    BY <2>1, <2>4, ManagerKept, RestKept
<1>8. QED
  BY <1>3, <1>4, <1>5, <1>6, <1>7 DEF Step

\* What a step does to the health check.
Checks(at, rest, u, t) ==
    check' \in CheckType /\ check'.at = at /\ check'.left = rest
    /\ check'.user = u /\ check'.token = t

LEMMA StartCheckCases ==
    ASSUME TypeOK, Entries, StartCheck
    PROVE  /\ check.at = "idle"
           /\ UNCHANGED <<rowVars, managerVars, dead, req>>
           /\ mixed' = mixed \cup {u \in users : /\ \E t \in Registered : bots[t].user = u
                                                 /\ Busy(u)}
           /\ Checks("next", {Entry(bots[t].user, t) : t \in Registered}, None, None)
<1> DEFINE rest == {Entry(bots[t].user, t) : t \in Registered}
<1>1. \A t \in Registered : t \in Tokens /\ bots[t].user \in Users
  BY Types, BotValues, Constants DEF Entries, Registered, ManagerTypes
<1>2. rest \in SUBSET [user : Users, token : Tokens]
  BY <1>1, SnapshotEntries
<1>3. check' = Check("next", rest, None, None)
  BY DEF StartCheck
<1> HIDE DEF rest
<1>4. Checks("next", rest, None, None)
  BY <1>2, <1>3, CheckValues, Constants DEF Checks
<1>5. QED
  BY <1>4 DEF StartCheck, rest

LEMMA ValidateCases ==
    ASSUME TypeOK, NEW b \in check.left, Validate(b)
    PROVE  /\ check.at = "next"
           /\ UNCHANGED <<rowVars, managerVars, dead, req, mixed>>
           /\ b \in [user : Users, token : Tokens]
           /\ \/ Checks("next", check.left \ {b}, None, None)
              \/ Checks("drop", check.left \ {b}, b.user, b.token)
<1>1. check.left \in SUBSET [user : Users, token : Tokens]
  BY Types, CheckValues
<1>2. /\ b.user \in 0..NUsers /\ b.token \in 0..NTokens
      /\ b \in [user : Users, token : Tokens]
      /\ check.left \ {b} \in SUBSET [user : Users, token : Tokens]
  BY <1>1, SnapshotEntries, Constants
<1>3. \/ check' = Check("next", check.left \ {b}, None, None)
      \/ check' = Check("drop", check.left \ {b}, b.user, b.token)
  BY DEF Validate
<1>4. QED
  BY <1>2, <1>3, CheckValues, Constants DEF Validate, Checks

LEMMA CheckDropCases ==
    ASSUME TypeOK, CheckDrop
    PROVE  /\ check.at = "drop" /\ RemoveBot(check.token)
           /\ UNCHANGED <<rowVars, dead, req, mixed>>
           /\ Checks("wipe", check.left, check.user, check.token)
<1>1. check.left \in SUBSET [user : Users, token : Tokens]
      /\ check.user \in 0..NUsers /\ check.token \in 0..NTokens
  BY Types, CheckValues
<1>2. check' = Check("wipe", check.left, check.user, check.token)
  BY DEF CheckDrop
<1>3. QED
  BY <1>1, <1>2, CheckValues DEF CheckDrop, Checks

LEMMA CheckWipeCases ==
    ASSUME TypeOK, CheckWipe
    PROVE  /\ check.at = "wipe"
           /\ UNCHANGED <<users, issued, owner, managerVars, dead, req, mixed>>
           /\ row' = row \/ RowSet(check.user, NoRow)
           /\ Checks("next", check.left, None, None)
<1>1. check.left \in SUBSET [user : Users, token : Tokens]
  BY Types, CheckValues
<1>2. check' = Check("next", check.left, None, None)
  BY DEF CheckWipe
<1>3. Checks("next", check.left, None, None)
  BY <1>1, <1>2, CheckValues, Constants DEF Checks
<1>4. QED
  BY <1>3, SetRowSets, RowValues DEF CheckWipe

LEMMA EndCheckCases ==
    ASSUME TypeOK, EndCheck
    PROVE  /\ UNCHANGED <<rowVars, managerVars, dead, req, mixed>>
           /\ Checks("idle", {}, None, None)
BY CheckValues, Constants DEF EndCheck, Checks, NoCheck

LEMMA CheckTypes ==
    ASSUME TypeOK, Entries, StartCheck \/ CheckStep
    PROVE  TypeOK'
<1>1. CASE StartCheck
  <2>1. mixed' \subseteq Users
    BY <1>1, StartCheckCases, Types DEF RowTypes
  <2>2. QED
    BY <1>1, <2>1, StartCheckCases, Types, RowsKept, ManagerKept, AllTypes DEF Checks
<1>2. CASE EndCheck \/ \E b \in check.left : Validate(b)
  BY <1>2, EndCheckCases, ValidateCases, Types, RowsKept, ManagerKept, AllTypes
     DEF Checks
<1>3. CASE CheckDrop
  BY <1>3, CheckDropCases, RemoveTypes, Types, RowsKept, AllTypes DEF Checks
<1>4. CASE CheckWipe
  <2>1. issued' \in 0..MaxUuid /\ owner' \in [Uuids -> 0..NUsers]
    BY <1>4, CheckWipeCases, Types DEF RowTypes
  <2>2. RowTypes'
    BY <1>4, <2>1, CheckWipeCases, RowSetTypes, RowsKept DEF rowVars
  <2>3. QED
    BY <1>4, <2>2, CheckWipeCases, Types, ManagerKept, AllTypes DEF Checks
<1>5. QED
  BY <1>1, <1>2, <1>3, <1>4 DEF CheckStep

LEMMA RestartTypes ==
    ASSUME TypeOK, Restart
    PROVE  TypeOK'
<1>1. RowTypes' /\ req' \in [Callers -> ReqType] /\ check' \in CheckType
      /\ dead' \subseteq Tokens /\ mixed' \subseteq Users
  BY RowsKept, Types, ReqValues, CheckValues DEF Restart, RowTypes
<1>2. ManagerTypes'
  <2>1. PICK ok \in SUBSET Loadable : \E last \in [{row[u].token : u \in ok} -> ok] :
                                          Load(ok, last)
    BY DEF Restart
  <2>2. PICK last \in [{row[u].token : u \in ok} -> ok] : Load(ok, last)
    BY <2>1
  <2>3. \A u \in ok : u \in 0..NUsers /\ row[u].uuid \in 0..MaxUuid
                      /\ row[u].token \in 0..NTokens
    BY Types, RowValues, Constants DEF RowTypes, Loadable
  <2>4. bots' \in [Tokens -> BotType]
    BY <2>2, <2>3, BotValues DEF Load
  <2>5. dispatch' \in [Uuids -> EntryType]
    BY <2>2, <2>3, EntryValues DEF Load
  <2>6. QED
    BY <2>4, <2>5 DEF ManagerTypes
<1>3. QED
  BY <1>1, <1>2, AllTypes

LEMMA BeginTypes ==
    ASSUME TypeOK, NEW c \in Callers, NEW op \in Ops, NEW u \in Users,
           NEW t \in 0..NTokens, Begin(c, op, u, t)
    PROVE  TypeOK'
<1>1. mixed' \subseteq Users
  BY Types DEF Begin
<1>2. QED
  BY <1>1, BeginGoes, Types, RowsKept, ManagerKept, AllTypes DEF Begin

LEMMA DeleteTypes ==
    ASSUME TypeOK, NEW u \in Users, DeleteUser(u)
    PROVE  TypeOK'
<1>1. RowTypes'
  BY Types, RowValues DEF DeleteUser, RowTypes
<1>2. QED
  BY <1>1, Types, ManagerKept, AllTypes DEF DeleteUser

------------------------------------------------------------------------------
(* Whose a UUID is.                                                        *)

RowUrls == \A u \in Users : row[u].uuid # None => owner[row[u].uuid] = u
BotUrls == \A t \in Tokens : bots[t] # NoBot => owner[bots[t].uuid] = bots[t].user
DispatchUrls ==
    \A g \in Uuids : dispatch[g] # NoEntry => owner[g] = dispatch[g].user

LEMMA Urls == OwnUrl <=> RowUrls /\ BotUrls /\ DispatchUrls
BY DEF OwnUrl, RowUrls, BotUrls, DispatchUrls

Owned == Requests /\ Entries /\ Fresh /\ OwnUrl

OwnersKept == \A g \in Uuids : owner[g] # None => owner'[g] = owner[g]

LEMMA RequestGone ==
    ASSUME TypeOK, Requests, OwnersKept, NEW c \in Callers, Gone(c)
    PROVE  Requests'
<1>1. ASSUME NEW d \in Callers, req'[d] = req[d], req[d].uuid # None
      PROVE  owner'[req[d].uuid] = req[d].user
  <2>1. req[d].at # "idle" /\ req[d].uuid \in 0..MaxUuid
    BY <1>1, Types, ReqValues DEF Requests
  <2>2. QED
    BY <1>1, <2>1, Constants DEF Requests, OwnersKept
<1>2. QED
  BY <1>1, ReqValues DEF Requests, Gone, Others

LEMMA RequestWent ==
    ASSUME TypeOK, Requests, OwnersKept, NEW c \in Callers, NEW at, NEW old, NEW g,
           Went(c, at, old, g), at # "idle", req[c].at # "idle",
           at = "drop" => old # None,
           at \in {"uuid", "create"} => req[c].token # None,
           at = "create" => g # None,
           g # None => owner'[g] = req[c].user
    PROVE  Requests'
<1>1. ASSUME NEW d \in Callers, req'[d] = req[d], req[d].uuid # None
      PROVE  owner'[req[d].uuid] = req[d].user
  <2>1. req[d].at # "idle" /\ req[d].uuid \in 0..MaxUuid
    BY <1>1, Types, ReqValues DEF Requests
  <2>2. QED
    BY <1>1, <2>1, Constants DEF Requests, OwnersKept
<1>2. QED
  BY <1>1 DEF Requests, Went, Others

LEMMA RowsKeepUrls ==
    ASSUME TypeOK, RowUrls, OwnersKept, row' = row
    PROVE  RowUrls'
BY Types, RowValues, Constants DEF RowUrls, OwnersKept, RowTypes

LEMMA RowSetUrls ==
    ASSUME TypeOK, RowUrls, OwnersKept, NEW u, NEW t \in 0..NTokens,
           NEW g \in 0..MaxUuid, RowSet(u, Row(t, g)), g # None => owner'[g] = u
    PROVE  RowUrls'
BY Types, RowValues, Constants DEF RowUrls, OwnersKept, RowTypes, RowSet

LEMMA ManagerKeepsUrls ==
    ASSUME TypeOK, Entries, BotUrls, DispatchUrls, OwnersKept, UNCHANGED managerVars
    PROVE  BotUrls' /\ DispatchUrls'
BY Types, BotValues, EntryValues, Constants
   DEF Entries, BotUrls, DispatchUrls, OwnersKept, ManagerTypes, managerVars

LEMMA RemoveUrls ==
    ASSUME TypeOK, Entries, BotUrls, DispatchUrls, owner' = owner, NEW t, RemoveBot(t),
           UNCHANGED check
    PROVE  BotUrls' /\ DispatchUrls' /\ Entries'
BY Types DEF Entries, BotUrls, DispatchUrls, ManagerTypes, RemoveBot, managerVars

LEMMA RegisterUrls ==
    ASSUME TypeOK, Entries, BotUrls, DispatchUrls, owner' = owner,
           NEW u \in Users, NEW t \in 0..NTokens, NEW g \in Uuids, Register(u, t, g),
           owner[g] = u, UNCHANGED check
    PROVE  BotUrls' /\ DispatchUrls' /\ Entries'
BY Types, BotValues, EntryValues, Constants
   DEF Entries, BotUrls, DispatchUrls, ManagerTypes, Register

LEMMA StepActive ==
    ASSUME TypeOK, Requests, NEW c \in Callers, Step(c)
    PROVE  req[c].at # "idle" /\ req[c].user \in Users
BY DEF Requests, Step, LookUpOwner, ReadUser, Drop, Issue, Wipe, Write, ReadUuid, Create

LEMMA OwnersStay ==
    ASSUME owner' = owner
    PROVE  OwnersKept
BY DEF OwnersKept

LEMMA IssueOwned ==
    ASSUME TypeOK, Owned, NEW c \in Callers, Issue(c), Step(c)
    PROVE  Owned'
<1>1. req[c].at # "idle" /\ req[c].user \in Users
  BY StepActive DEF Owned
<1>2. OwnersKept /\ Fresh'
  <2>1. issued \in 0..MaxUuid /\ owner \in [Uuids -> 0..NUsers] /\ Fresh
        /\ \A g \in Uuids : g \in Nat
    BY Types DEF RowTypes, Owned, Uuids
  <2>2. \/ owner' = owner /\ issued' = issued
        \/ /\ issued + 1 \in Uuids /\ issued' = issued + 1
           /\ owner' = [owner EXCEPT ![issued + 1] = req[c].user]
    BY IssueCases DEF rowVars
  <2>3. issued + 1 \in Uuids => owner[issued + 1] = None
    BY <2>1, Constants DEF Fresh
  <2>4. QED
    BY <2>1, <2>2, <2>3, Constants DEF Fresh, OwnersKept
<1>3. BotUrls' /\ DispatchUrls' /\ Entries'
  BY <1>2, IssueCases, ManagerKeepsUrls, Urls DEF Owned, Entries, managerVars
<1>4. RowUrls' /\ Requests'
  <2>1. CASE Gone(c) /\ UNCHANGED rowVars
    BY <1>2, <2>1, RequestGone, RowsKeepUrls, Urls DEF Owned, rowVars
  <2>2. CASE Gone(c) /\ RowSet(req[c].user, NoRow)
    BY <1>2, <2>2, RequestGone, RowSetUrls, Urls, Constants DEF Owned, NoRow
  <2>3. CASE /\ req[c].token # None /\ issued + 1 \in Uuids
             /\ owner' = [owner EXCEPT ![issued + 1] = req[c].user]
             /\ RowSet(req[c].user, Row(req[c].token, issued + 1))
             /\ Went(c, "create", None, issued + 1)
    <3>1. owner'[issued + 1] = req[c].user
      BY <2>3, Types DEF RowTypes
    <3>2. issued + 1 # None /\ issued + 1 \in 0..MaxUuid /\ req[c].token \in 0..NTokens
      BY <2>3, Types, ReqValues, Constants
    <3>3. Requests'
      BY <1>1, <1>2, <2>3, <3>1, <3>2, RequestWent DEF Owned
    <3>4. QED
      BY <1>1, <1>2, <2>3, <3>1, <3>2, <3>3, RowSetUrls, Urls DEF Owned
  <2>4. QED
    BY <2>1, <2>2, <2>3, IssueCases
<1>5. OwnUrl'
  BY <1>3, <1>4 DEF OwnUrl, RowUrls, BotUrls, DispatchUrls
<1>6. QED
  BY <1>2, <1>3, <1>4, <1>5 DEF Owned

LEMMA StepOwned ==
    ASSUME TypeOK, Owned, NEW c \in Callers, Step(c)
    PROVE  Owned'
<1>1. req[c].at # "idle" /\ req[c].user \in Users
  BY StepActive DEF Owned
<1>2. req[c] \in ReqType /\ req[c].token \in 0..NTokens /\ req[c].uuid \in 0..MaxUuid
  BY Types, ReqValues
<1>3. req[c].uuid # None => owner[req[c].uuid] = req[c].user
  BY DEF Owned, Requests
<1>4. SUFFICES ASSUME ~Issue(c) PROVE Owned'
  BY IssueOwned
<1>5. owner' = owner /\ issued' = issued /\ check' = check /\ OwnersKept
  BY <1>4, LookUpCases, ReadUserCases, DropCases, WipeCases, WriteCases, ReadUuidCases,
     CreateCases, OwnersStay DEF Step, rowVars
<1>6. Fresh'
  BY <1>5 DEF Owned, Fresh
<1>7. RowUrls'
  <2>1. CASE Wipe(c)
    BY <1>1, <1>5, <2>1, WipeCases, RowsKeepUrls, RowSetUrls, Urls, Constants
       DEF Owned, NoRow
  <2>2. CASE Write(c)
    BY <1>1, <1>2, <1>3, <1>5, <2>2, WriteCases, RowsKeepUrls, RowSetUrls, Urls DEF Owned
  <2>3. CASE LookUpOwner(c) \/ ReadUser(c) \/ Drop(c) \/ ReadUuid(c) \/ Create(c)
    BY <1>5, <2>3, LookUpCases, ReadUserCases, DropCases, ReadUuidCases, CreateCases,
       RowsKeepUrls, Urls DEF Owned, rowVars
  <2>4. QED
    BY <1>4, <2>1, <2>2, <2>3 DEF Step
<1>8. BotUrls' /\ DispatchUrls' /\ Entries'
  <2>1. CASE UNCHANGED managerVars
    BY <1>5, <2>1, ManagerKeepsUrls, Urls DEF Owned, Entries, managerVars
  <2>2. CASE Drop(c)
    BY <1>5, <2>2, DropCases, RemoveUrls, Urls DEF Owned
  <2>3. CASE Create(c) /\ Register(req[c].user, req[c].token, req[c].uuid)
    <3>1. req[c].uuid \in Uuids /\ owner[req[c].uuid] = req[c].user
      BY <1>2, <1>3, <2>3, CreateCases, Constants DEF Owned, Requests
    <3>2. QED
      BY <1>1, <1>2, <1>5, <2>3, <3>1, RegisterUrls, Urls DEF Owned
  <2>4. QED
    BY <1>4, <2>1, <2>2, <2>3, LookUpCases, ReadUserCases, WipeCases, WriteCases,
       ReadUuidCases, CreateCases DEF Step
<1>9. Requests'
  <2>1. CASE Gone(c)
    BY <1>5, <2>1, RequestGone DEF Owned
  <2>2. CASE LookUpOwner(c) \/ Drop(c) \/ Wipe(c) \/ Write(c)
    BY <1>1, <1>3, <1>5, <2>1, <2>2, LookUpCases, DropCases, WipeCases, WriteCases,
       RequestWent DEF Owned
  <2>3. CASE ReadUser(c) \/ ReadUuid(c)
    <3>1. req[c].user \in users => \/ row[req[c].user].uuid = None
                                   \/ owner[row[req[c].user].uuid] = req[c].user
      BY <1>1, Urls DEF Owned, RowUrls
    <3>2. CASE ReadUser(c)
      BY <1>1, <1>5, <2>1, <3>1, <3>2, ReadUserCases, RequestWent DEF Owned
    <3>3. CASE ReadUuid(c)
      <4>1. req[c].token # None
        BY <3>3, ReadUuidCases DEF Owned, Requests
      <4>2. QED
        BY <1>1, <1>5, <2>1, <3>1, <3>3, <4>1, ReadUuidCases, RequestWent DEF Owned
    <3>4. QED
      BY <2>3, <3>2, <3>3
  <2>4. CASE Create(c)
    BY <2>1, <2>4, CreateCases
  <2>5. QED
    BY <1>4, <2>2, <2>3, <2>4 DEF Step
<1>10. OwnUrl'
  BY <1>7, <1>8 DEF OwnUrl, RowUrls, BotUrls, DispatchUrls
<1>11. QED
  BY <1>6, <1>8, <1>9, <1>10 DEF Owned

LEMMA CheckOwned ==
    ASSUME TypeOK, Owned, StartCheck \/ CheckStep
    PROVE  Owned'
<1>1. owner' = owner /\ issued' = issued /\ req' = req /\ OwnersKept
  BY StartCheckCases, ValidateCases, CheckDropCases, CheckWipeCases, EndCheckCases,
     OwnersStay DEF CheckStep, Owned, rowVars
<1>2. Fresh' /\ Requests'
  BY <1>1 DEF Owned, Fresh, Requests
<1>3. RowUrls'
  <2>1. CASE CheckWipe
    BY <1>1, <2>1, CheckWipeCases, RowsKeepUrls, RowSetUrls, Urls, Constants
       DEF Owned, NoRow
  <2>2. CASE UNCHANGED rowVars
    BY <1>1, <2>2, RowsKeepUrls, Urls DEF Owned, rowVars
  <2>3. QED
    BY <2>1, <2>2, StartCheckCases, ValidateCases, CheckDropCases, EndCheckCases
       DEF CheckStep, Owned
<1>4. /\ BotUrls' /\ DispatchUrls'
      /\ \A t \in Tokens : bots'[t] # NoBot => bots'[t].user # None /\ bots'[t].uuid # None
      /\ \A g \in Uuids : dispatch'[g] # NoEntry => dispatch'[g].user # None
  <2>1. CASE CheckDrop
    <3>1. RemoveBot(check.token)
      BY <2>1, CheckDropCases
    <3>2. QED
      BY <1>1, <3>1, Types, Urls
         DEF Owned, Entries, BotUrls, DispatchUrls, ManagerTypes, RemoveBot, managerVars
  <2>2. CASE UNCHANGED managerVars
    BY <1>1, <2>2, ManagerKeepsUrls, Urls DEF Owned, Entries, managerVars
  <2>3. QED
    BY <2>1, <2>2, StartCheckCases, ValidateCases, CheckWipeCases, EndCheckCases
       DEF CheckStep, Owned
<1>5. check'.at \in {"drop", "wipe"} => check'.user # None /\ check'.token # None
  <2>1. ASSUME NEW b \in [user : Users, token : Tokens]
        PROVE  b.user # None /\ b.token # None
    BY Constants
  <2>2. CASE CheckDrop
    BY <2>2, CheckDropCases DEF Checks, Owned, Entries
  <2>3. CASE StartCheck \/ EndCheck \/ CheckWipe \/ \E b \in check.left : Validate(b)
    BY <2>1, <2>3, StartCheckCases, EndCheckCases, CheckWipeCases, ValidateCases
       DEF Checks, Owned
  <2>4. QED
    BY <2>2, <2>3 DEF CheckStep
<1>6. Entries'
  BY <1>4, <1>5 DEF Entries
<1>7. OwnUrl'
  BY <1>3, <1>4 DEF OwnUrl, RowUrls, BotUrls, DispatchUrls
<1>8. QED
  BY <1>2, <1>6, <1>7 DEF Owned

LEMMA BeginOwned ==
    ASSUME TypeOK, Owned, NEW c \in Callers, NEW op \in Ops, NEW u \in Users,
           NEW t \in 0..NTokens, Begin(c, op, u, t)
    PROVE  Owned'
<1>1. UNCHANGED <<rowVars, managerVars, check>> /\ OwnersKept
  BY OwnersStay DEF Begin, rowVars
<1>2. Requests'
  BY <1>1, BeginGoes DEF Owned, Requests, Others, rowVars
<1>3. QED
  BY <1>1, <1>2 DEF Owned, Entries, Fresh, OwnUrl, rowVars, managerVars

LEMMA DeleteOwned ==
    ASSUME TypeOK, Owned, NEW u \in Users, DeleteUser(u)
    PROVE  Owned'
<1>1. RowUrls'
  BY Types, RowValues, Urls DEF DeleteUser, Owned, RowUrls, RowTypes
<1>2. QED
  BY <1>1 DEF DeleteUser, Owned, Requests, Entries, Fresh, OwnUrl, RowUrls, managerVars

LEMMA RestartOwned ==
    ASSUME TypeOK, Owned, Restart
    PROVE  Owned'
<1>1. UNCHANGED rowVars /\ req' = [c \in Callers |-> NoReq] /\ check' = NoCheck
  BY DEF Restart
<1>2. Requests' /\ Fresh' /\ check'.at = "idle"
  BY <1>1, ReqValues, CheckValues DEF Owned, Requests, Fresh, rowVars
<1>3. PICK ok \in SUBSET Loadable : \E last \in [{row[u].token : u \in ok} -> ok] :
                                       Load(ok, last)
  BY DEF Restart
<1>4. PICK last \in [{row[u].token : u \in ok} -> ok] : Load(ok, last)
  BY <1>3
<1>5. \A u \in ok : /\ u \in Users /\ u \in 0..NUsers /\ row[u].token \in 0..NTokens
                    /\ row[u].uuid \in 0..MaxUuid /\ row[u].uuid # None
                    /\ owner[row[u].uuid] = u
  <2>1. ASSUME NEW u \in ok
        PROVE  u \in Users /\ row[u] \in RowType /\ row[u].uuid # None
    BY Types DEF RowTypes, Loadable
  <2>2. QED
    BY <2>1, RowValues, Constants, Urls DEF Owned, RowUrls
<1>6. \A t \in Tokens : bots'[t] # NoBot =>
          /\ bots'[t].user # None /\ bots'[t].uuid # None
          /\ owner[bots'[t].uuid] = bots'[t].user
  BY <1>4, <1>5, BotValues, Constants DEF Load
<1>7. \A g \in Uuids : dispatch'[g] # NoEntry =>
          dispatch'[g].user # None /\ owner[g] = dispatch'[g].user
  BY <1>4, <1>5, EntryValues, Constants DEF Load
<1>8. QED
  BY <1>1, <1>2, <1>6, <1>7 DEF Owned, Entries, OwnUrl, rowVars

LEMMA OwnedInv == TypeOK /\ Owned /\ [Next]_vars => TypeOK' /\ Owned'
<1> SUFFICES ASSUME TypeOK, Owned, [Next]_vars PROVE TypeOK' /\ Owned'
  OBVIOUS
<1>1. ASSUME NEW c \in Callers, Step(c) PROVE TypeOK' /\ Owned'
  BY <1>1, StepTypes, StepOwned
<1>2. CASE StartCheck \/ CheckStep
  BY <1>2, CheckTypes, CheckOwned DEF Owned
<1>3. ASSUME NEW c \in Callers, NEW u \in Users,
             \/ \E t \in Tries[u] : Begin(c, "set", u, t)
             \/ Begin(c, "remove", u, None)
             \/ \E t \in Tries[u] \cup {None} : Begin(c, "admin", u, t)
      PROVE  TypeOK' /\ Owned'
  <2>1. PICK op \in Ops, t \in 0..NTokens : Begin(c, op, u, t)
    BY <1>3, Constants DEF Ops
  <2>2. QED
    BY <2>1, BeginTypes, BeginOwned
<1>4. ASSUME NEW u \in Users, DeleteUser(u) PROVE TypeOK' /\ Owned'
  BY <1>4, DeleteTypes, DeleteOwned
<1>5. ASSUME NEW t \in Frail, Revoke(t) PROVE TypeOK' /\ Owned'
  <2>1. dead' \subseteq Tokens
    BY <1>5, Types, BotsAssumption DEF Revoke, BotsAssumption
  <2>2. TypeOK'
    BY <1>5, <2>1, Types, RowsKept, ManagerKept, AllTypes DEF Revoke
  <2>3. QED
    BY <1>5, <2>2 DEF Revoke, Owned, Requests, Entries, Fresh, OwnUrl, rowVars, managerVars
<1>6. CASE Restart
  BY <1>6, RestartTypes, RestartOwned
<1>7. CASE UNCHANGED vars
  <2>1. TypeOK'
    BY <1>7, Types, RowsKept, ManagerKept, AllTypes DEF vars
  <2>2. QED
    BY <1>7, <2>1 DEF vars, Owned, Requests, Entries, Fresh, OwnUrl, rowVars, managerVars
<1>8. QED
  BY <1>1, <1>2, <1>3, <1>4, <1>5, <1>6, <1>7 DEF Next

------------------------------------------------------------------------------
(* Operations that do not overlap.                                         *)

NoNewBot(u) == \A t \in Tokens : bots'[t].user = u => bots[t].user = u

\* A step on another user.
LEMMA TidyElsewhere ==
    ASSUME NEW u \in Users, Tidy(u), NEW c \in Callers, req[c].user # u,
           req'[c].user # u, Others(c), row'[u] = row[u], NoNewBot(u), check' = check
    PROVE  Tidy(u)'
<1>1. \A d \in Callers : req'[d].user = u => req'[d] = req[d] /\ req[d].user = u
  BY DEF Others
<1>2. OneAtATime(u)' /\ RowNames(u)' /\ CheckKnows(u)'
  BY <1>1 DEF Tidy, OneAtATime, RowNames, CheckKnows, OnlyBot, Watched, NoNewBot
<1>3. \A d \in Callers : req'[d].user = u => RequestKnows(u, d)'
  BY <1>1 DEF Tidy, RequestKnows, OnlyBot, NoNewBot
<1>4. QED
  BY <1>2, <1>3 DEF Tidy

\* A step of the request on the user.
LEMMA TidyOwn ==
    ASSUME NEW u \in Users, Tidy(u), NEW c \in Callers, req[c].user = u,
           Others(c), check' = check, RowNames(u)',
           req'[c].user = u => RequestKnows(u, c)'
    PROVE  Tidy(u)'
<1>1. \A d \in Callers : req'[d].user = u => d = c
  BY DEF Tidy, OneAtATime, Others
<1>2. u \notin Watched
  BY DEF Tidy, OneAtATime
<1>3. OneAtATime(u)' /\ CheckKnows(u)'
  BY <1>1, <1>2 DEF OneAtATime, CheckKnows, Watched
<1>4. QED
  BY <1>1, <1>3 DEF Tidy

LEMMA RemoveForgets ==
    ASSUME TypeOK, NEW t, RemoveBot(t), NEW u \in Users
    PROVE  NoNewBot(u) /\ \A s \in Tokens : bots'[s].user = u => s # t
<1>1. bots \in [Tokens -> BotType] /\ NoBot.user # u
  BY Types, BotValues, Constants DEF ManagerTypes
<1>2. CASE bots[t] = NoBot
  BY <1>1, <1>2 DEF RemoveBot, managerVars, NoNewBot
<1>3. CASE bots[t] # NoBot
  BY <1>1, <1>3 DEF RemoveBot, NoNewBot
<1>4. QED
  BY <1>2, <1>3

LEMMA RegisterAdds ==
    ASSUME TypeOK, NEW v \in Users, NEW t \in Tokens, NEW g \in 0..MaxUuid,
           Register(v, t, g), NEW u \in Users
    PROVE  \A s \in Tokens : bots'[s].user = u => bots[s].user = u \/ (u = v /\ s = t)
BY Types, BotValues, Constants DEF Register, ManagerTypes

LEMMA SameBots ==
    ASSUME UNCHANGED managerVars, NEW u
    PROVE  NoNewBot(u)
BY DEF NoNewBot, managerVars

LEMMA ReadUserTidy ==
    ASSUME TypeOK, NEW c \in Callers, ReadUser(c), NEW u \in Users, u \in users,
           req[c].user = u, Tidy(u)
    PROVE  Tidy(u)'
<1>1. UNCHANGED <<row, bots, check>> /\ Others(c)
  BY ReadUserCases DEF rowVars, managerVars, Gone, Went
<1>2. RowNames(u) /\ RowNames(u)'
  BY <1>1 DEF Tidy, RowNames
<1>3. ASSUME req'[c].user = u PROVE RequestKnows(u, c)'
  <2>1. ~Gone(c)
    BY <1>3, ReqValues, Constants DEF Gone
  <2>2. req'[c].token = req[c].token
        /\ \/ req'[c].at = "drop" /\ req'[c].old = row[u].token
           \/ req'[c].at \in {"issue", "write"} /\ row[u].token \in {None, req[c].token}
    BY <2>1, ReadUserCases DEF Went
  <2>3. \A t \in Tokens : t # None
    BY Constants
  <2>4. QED
    BY <1>1, <1>2, <2>2, <2>3 DEF RequestKnows, OnlyBot, RowNames
<1>4. QED
  BY <1>1, <1>2, <1>3, TidyOwn

LEMMA DropTidy ==
    ASSUME TypeOK, NEW c \in Callers, Drop(c), NEW u \in Users, u \in users,
           req[c].user = u, Tidy(u)
    PROVE  Tidy(u)'
<1>1. UNCHANGED <<row, check>> /\ Others(c) /\ RemoveBot(req[c].old)
      /\ row[u].token = req[c].old
  BY DropCases DEF rowVars, Gone, Went, Tidy, RequestKnows
<1>2. \A t \in Tokens : bots'[t].user # u
  BY <1>1, RemoveForgets DEF NoNewBot, Tidy, RowNames
<1>3. ASSUME req'[c].user = u PROVE RequestKnows(u, c)'
  <2>1. req'[c].at \in {"issue", "wipe"}
    BY <1>3, DropCases, ReqValues, Constants DEF Gone, Went
  <2>2. QED
    BY <1>2, <2>1 DEF RequestKnows, OnlyBot
<1>4. QED
  BY <1>1, <1>2, <1>3, TidyOwn DEF RowNames

LEMMA IssueTidy ==
    ASSUME TypeOK, NEW c \in Callers, Issue(c), NEW u \in Users, u \in users,
           req[c].user = u, Tidy(u)
    PROVE  Tidy(u)'
<1>1. UNCHANGED <<bots, check>> /\ Others(c) /\ req[c].at = "issue"
  BY IssueCases DEF managerVars, Gone, Went, Issue
<1>2. OnlyBot(u, req[c].token) /\ RowNames(u)
  BY <1>1 DEF Tidy, RequestKnows
<1>3. row' = row \/ row'[u].token = req[c].token
  <2>1. req[c].token \in 0..NTokens /\ (issued + 1 \in Uuids => issued + 1 \in 0..MaxUuid)
    BY Types, ReqValues, Constants
  <2>2. QED
    BY <2>1, IssueCases, RowValues DEF RowSet, rowVars
<1>4. RowNames(u)'
  BY <1>1, <1>2, <1>3 DEF RowNames, OnlyBot
<1>5. ASSUME req'[c].user = u PROVE RequestKnows(u, c)'
  <2>1. /\ RowSet(req[c].user, Row(req[c].token, issued + 1))
        /\ Went(c, "create", None, issued + 1) /\ issued + 1 \in Uuids
    BY <1>5, IssueCases, ReqValues, Constants DEF Gone
  <2>2. req[c].token \in 0..NTokens /\ issued + 1 \in 0..MaxUuid
    BY <2>1, Types, ReqValues, Constants
  <2>3. row'[u].token = req[c].token
    BY <2>1, <2>2, RowValues DEF RowSet
  <2>4. QED
    BY <2>1, <2>3 DEF RequestKnows, Went
<1>6. QED
  BY <1>1, <1>4, <1>5, TidyOwn

LEMMA WipeTidy ==
    ASSUME TypeOK, NEW c \in Callers, Wipe(c), NEW u \in Users, u \in users,
           req[c].user = u, Tidy(u)
    PROVE  Tidy(u)'
<1>1. UNCHANGED <<bots, check>> /\ Others(c) /\ req'[c].at = "write"
  BY WipeCases DEF managerVars, Went
<1>2. \A t \in Tokens : bots[t].user # u
  BY WipeCases, Constants DEF Tidy, RequestKnows, OnlyBot
<1>3. QED
  BY <1>1, <1>2, TidyOwn DEF RowNames, RequestKnows, OnlyBot

LEMMA WriteTidy ==
    ASSUME TypeOK, NEW c \in Callers, Write(c), NEW u \in Users, u \in users,
           req[c].user = u, Tidy(u)
    PROVE  Tidy(u)'
<1>1. UNCHANGED <<bots, check>> /\ Others(c) /\ req[c].at = "write"
  BY WriteCases DEF managerVars, Gone, Went
<1>2. OnlyBot(u, req[c].token) /\ RowNames(u)
  BY <1>1 DEF Tidy, RequestKnows
<1>3. req[c].token \in 0..NTokens /\ req[c].uuid \in 0..MaxUuid
  BY Types, ReqValues
<1>4. \/ Gone(c) /\ row' = row
      \/ row'[u].token = req[c].token /\ (Gone(c) \/ Went(c, "uuid", None, None))
  BY <1>3, WriteCases, RowValues DEF RowSet
<1>5. RowNames(u)'
  BY <1>1, <1>2, <1>4 DEF RowNames, OnlyBot
<1>6. ASSUME req'[c].user = u PROVE RequestKnows(u, c)'
  BY <1>4, <1>6, ReqValues, Constants DEF Gone, Went, RequestKnows
<1>7. QED
  BY <1>1, <1>5, <1>6, TidyOwn

LEMMA CreateTidy ==
    ASSUME TypeOK, Requests, NEW c \in Callers, Create(c), NEW u \in Users, u \in users,
           req[c].user = u, Tidy(u)
    PROVE  Tidy(u)'
<1>1. UNCHANGED <<row, check>> /\ Gone(c) /\ req[c].at = "create"
  BY CreateCases DEF rowVars
<1>2. row[u].token = req[c].token /\ RowNames(u)
  BY <1>1 DEF Tidy, RequestKnows
<1>3. req[c].token \in Tokens /\ req[c].uuid \in 0..MaxUuid
  BY <1>1, Types, ReqValues, Constants DEF Requests
<1>4. RowNames(u)'
  BY <1>1, <1>2, <1>3, CreateCases, RegisterAdds, SameBots DEF RowNames, NoNewBot
<1>5. req'[c].user # u
  BY <1>1, ReqValues, Constants DEF Gone
<1>6. QED
  BY <1>1, <1>4, <1>5, TidyOwn DEF Gone

LEMMA StepTidy ==
    ASSUME TypeOK, Requests, NEW c \in Callers, Step(c), NEW u \in Users, u \in users,
           Tidy(u)
    PROVE  Tidy(u)'
<1>1. CASE req[c].user = u
  <2>1. CASE LookUpOwner(c)
    <3>1. UNCHANGED <<row, bots, check>> /\ Others(c) /\ req'[c].at \in {"idle", "user"}
      BY <2>1, LookUpCases, ReqValues DEF rowVars, managerVars, Gone, Went
    <3>2. QED
      BY <1>1, <3>1, TidyOwn DEF Tidy, RowNames, RequestKnows
  <2>2. CASE ReadUuid(c)
    <3>1. UNCHANGED <<row, bots, check>> /\ Others(c) /\ row[u].token = req[c].token
          /\ \/ req'[c].at = "idle"
             \/ req'[c].at = "create" /\ req'[c].token = req[c].token
      BY <1>1, <2>2, ReadUuidCases, ReqValues
         DEF rowVars, managerVars, Gone, Went, Tidy, RequestKnows
    <3>2. QED
      BY <1>1, <3>1, TidyOwn DEF Tidy, RowNames, RequestKnows
  <2>3. QED
    BY <1>1, <2>1, <2>2, ReadUserTidy, DropTidy, IssueTidy, WipeTidy, WriteTidy,
       CreateTidy DEF Step
<1>2. CASE req[c].user # u
  <2>1. Others(c) /\ check' = check /\ req'[c].user # u
    BY <1>2, LookUpCases, ReadUserCases, DropCases, IssueCases, WipeCases, WriteCases,
       ReadUuidCases, CreateCases, ReqValues, Constants DEF Step, Gone, Went
  <2>2. row'[u] = row[u]
    BY <1>2, LookUpCases, ReadUserCases, DropCases, IssueCases, WipeCases, WriteCases,
       ReadUuidCases, CreateCases DEF Step, rowVars, RowSet
  <2>3. NoNewBot(u)
    <3>1. CASE Drop(c)
      BY <3>1, DropCases, RemoveForgets
    <3>2. CASE Create(c)
      <4>1. /\ req[c].token \in Tokens /\ req[c].uuid \in 0..MaxUuid
            /\ req[c].user \in Users
        BY <3>2, Types, ReqValues, Constants, CreateCases DEF Requests
      <4>2. QED
        BY <1>2, <3>2, <4>1, CreateCases, RegisterAdds, SameBots DEF NoNewBot
    <3>3. QED
      BY <3>1, <3>2, SameBots, LookUpCases, ReadUserCases, IssueCases, WipeCases,
         WriteCases, ReadUuidCases DEF Step
  <2>4. QED
    BY <1>2, <2>1, <2>2, <2>3, TidyElsewhere
<1>3. QED
  BY <1>1, <1>2

LEMMA RequestsKnow ==
    ASSUME NEW u \in Users, NEW c \in Callers, RequestKnows(u, c), req' = req,
           row'[u] = row[u], NoNewBot(u)
    PROVE  RequestKnows(u, c)'
BY DEF RequestKnows, OnlyBot, NoNewBot

LEMMA StartCheckTidy ==
    ASSUME TypeOK, Entries, StartCheck, NEW u \in Users, u \in users, u \notin mixed',
           Tidy(u)
    PROVE  Tidy(u)'
<1>1. UNCHANGED <<row, bots, req>> /\ check'.user = None /\ u # None
      /\ check'.left = {Entry(bots[t].user, t) : t \in Registered}
  BY StartCheckCases, Constants DEF rowVars, managerVars, Checks
<1>2. \A b \in check'.left : b.user = u =>
          \E t \in Tokens : t \in Registered /\ bots[t].user = u /\ b.token = t
  BY <1>1, SnapshotEntries DEF Registered
<1>3. (\E t \in Registered : bots[t].user = u) => \A c \in Callers : req[c].user # u
  BY StartCheckCases DEF Busy
<1>4. OneAtATime(u)'
  BY <1>1, <1>2, <1>3 DEF Tidy, OneAtATime, Watched
<1>5. CheckKnows(u)'
  BY <1>1, <1>2 DEF Tidy, RowNames, CheckKnows
<1>6. RowNames(u)' /\ \A c \in Callers : req'[c].user = u => RequestKnows(u, c)'
  BY <1>1 DEF Tidy, RowNames, RequestKnows, OnlyBot
<1>7. QED
  BY <1>4, <1>5, <1>6 DEF Tidy

LEMMA ValidateTidy ==
    ASSUME TypeOK, NEW b \in check.left, Validate(b), NEW u \in Users, Tidy(u)
    PROVE  Tidy(u)'
<1>1. UNCHANGED <<row, bots, req>> /\ check'.left = check.left \ {b} /\ u # None
      /\ b = Entry(b.user, b.token)
  BY ValidateCases, SnapshotEntries, Constants DEF rowVars, managerVars, Checks
<1>2. \/ check'.user = None /\ check'.at = "next"
      \/ check'.user = b.user /\ check'.token = b.token /\ check'.at = "drop"
  BY ValidateCases DEF Checks
<1>3. OneAtATime(u)'
  BY <1>1, <1>2 DEF Tidy, OneAtATime, Watched
<1>4. CheckKnows(u)'
  <2>1. \A d \in check'.left : d.user = u => row'[u].token = d.token
    BY <1>1 DEF Tidy, CheckKnows
  <2>2. check'.user = u => /\ row'[u].token = check'.token
                           /\ Entry(check'.user, check'.token) \notin check'.left
                           /\ check'.at # "wipe"
    BY <1>1, <1>2 DEF Tidy, CheckKnows
  <2>3. QED
    BY <2>1, <2>2 DEF CheckKnows
<1>5. RowNames(u)' /\ \A c \in Callers : req'[c].user = u => RequestKnows(u, c)'
  BY <1>1 DEF Tidy, RowNames, RequestKnows, OnlyBot
<1>6. QED
  BY <1>3, <1>4, <1>5 DEF Tidy

LEMMA CheckDropTidy ==
    ASSUME TypeOK, CheckDrop, NEW u \in Users, Tidy(u)
    PROVE  Tidy(u)'
<1>1. UNCHANGED <<row, req>> /\ check'.left = check.left /\ check'.user = check.user
      /\ check'.token = check.token
  BY CheckDropCases DEF rowVars, Checks
<1>2. NoNewBot(u) /\ \A s \in Tokens : bots'[s].user = u => s # check.token
  BY CheckDropCases, RemoveForgets
<1>3. OneAtATime(u)' /\ RowNames(u)'
  BY <1>1, <1>2 DEF Tidy, OneAtATime, Watched, RowNames, NoNewBot
<1>4. check.user = u => OnlyBot(u, None)'
  BY <1>2 DEF Tidy, CheckKnows, RowNames, NoNewBot, OnlyBot
<1>5. CheckKnows(u)'
  BY <1>1, <1>4 DEF Tidy, CheckKnows
<1>6. \A c \in Callers : req'[c].user = u => RequestKnows(u, c)'
  BY <1>1, <1>2, RequestsKnow DEF Tidy
<1>7. QED
  BY <1>3, <1>5, <1>6 DEF Tidy

LEMMA CheckWipeTidy ==
    ASSUME TypeOK, CheckWipe, NEW u \in Users, Tidy(u)
    PROVE  Tidy(u)'
<1>1. UNCHANGED <<bots, req>> /\ check'.left = check.left /\ check'.user = None
      /\ u # None /\ check.at = "wipe"
  BY CheckWipeCases, Constants DEF managerVars, Checks
<1>2. OneAtATime(u)'
  BY <1>1 DEF Tidy, OneAtATime, Watched
<1>3. CASE check.user = u
  <2>1. \A t \in Tokens : bots[t].user # u
    BY <1>1, <1>3, Constants DEF Tidy, CheckKnows, OnlyBot
  <2>2. \A c \in Callers : req[c].user # u
    BY <1>3 DEF Tidy, OneAtATime, Watched
  <2>3. \A b \in check.left : b.user # u
    <3>1. \A b \in check.left : b = Entry(b.user, b.token)
      BY Types, CheckValues, SnapshotEntries
    <3>2. QED
      BY <1>3, <3>1 DEF Tidy, CheckKnows
  <2>4. QED
    BY <1>1, <1>2, <2>1, <2>2, <2>3 DEF Tidy, RowNames, CheckKnows
<1>4. CASE check.user # u
  <2>1. row'[u] = row[u]
    BY <1>4, CheckWipeCases DEF RowSet
  <2>2. RowNames(u)' /\ CheckKnows(u)'
    BY <1>1, <2>1 DEF Tidy, RowNames, CheckKnows
  <2>3. \A c \in Callers : req'[c].user = u => RequestKnows(u, c)'
    BY <1>1, <2>1 DEF Tidy, RequestKnows, OnlyBot
  <2>4. QED
    BY <1>2, <2>2, <2>3 DEF Tidy
<1>5. QED
  BY <1>3, <1>4

LEMMA EndCheckTidy ==
    ASSUME TypeOK, EndCheck, NEW u \in Users, Tidy(u)
    PROVE  Tidy(u)'
<1>1. UNCHANGED <<row, bots, req>> /\ check'.left = {} /\ check'.user = None /\ u # None
  BY EndCheckCases, Constants DEF rowVars, managerVars, Checks
<1>2. OneAtATime(u)' /\ RowNames(u)' /\ CheckKnows(u)'
  BY <1>1 DEF Tidy, OneAtATime, Watched, RowNames, CheckKnows
<1>3. \A c \in Callers : req'[c].user = u => RequestKnows(u, c)'
  BY <1>1 DEF Tidy, RequestKnows, OnlyBot
<1>4. QED
  BY <1>2, <1>3 DEF Tidy

LEMMA BeginTidy ==
    ASSUME TypeOK, Requests, NEW c \in Callers, NEW op \in Ops, NEW v \in Users,
           NEW t \in 0..NTokens, Begin(c, op, v, t), NEW u \in Users, u \in users,
           u \notin mixed', Tidy(u)
    PROVE  Tidy(u)'
<1>1. UNCHANGED <<row, bots, check>> /\ Others(c) /\ req'[c].user = v
      /\ req'[c].at \in {"owner", "user"} /\ req[c].user # u
  <2>1. UNCHANGED <<row, bots, check>> /\ req[c].at = "idle"
    BY DEF Begin, rowVars, managerVars
  <2>2. req[c].user # u
    BY <2>1, ReqValues, Constants DEF Requests
  <2>3. QED
    BY <2>1, <2>2, BeginGoes
<1>2. CASE v # u
  BY <1>1, <1>2, TidyElsewhere DEF NoNewBot
<1>3. CASE v = u
  <2>1. ~Busy(u)
    BY <1>3 DEF Begin
  <2>2. \A d \in Callers : req'[d].user = u => d = c
    BY <1>1, <2>1 DEF Busy, Others
  <2>3. OneAtATime(u)' /\ CheckKnows(u)'
    BY <1>1, <2>1, <2>2 DEF Busy, OneAtATime, CheckKnows, Watched
  <2>4. RowNames(u)' /\ RequestKnows(u, c)'
    BY <1>1 DEF Tidy, RowNames, RequestKnows
  <2>5. QED
    BY <2>2, <2>3, <2>4 DEF Tidy
<1>4. QED
  BY <1>2, <1>3

LEMMA DeleteTidy ==
    ASSUME TypeOK, NEW v \in Users, DeleteUser(v), NEW u \in Users, u # v, Tidy(u)
    PROVE  Tidy(u)'
<1>1. UNCHANGED <<bots, check, req>> /\ row'[u] = row[u]
  BY Types DEF DeleteUser, managerVars, RowTypes
<1>2. OneAtATime(u)' /\ RowNames(u)' /\ CheckKnows(u)'
  BY <1>1 DEF Tidy, OneAtATime, Watched, RowNames, CheckKnows, OnlyBot
<1>3. \A c \in Callers : req'[c].user = u => RequestKnows(u, c)'
  BY <1>1 DEF Tidy, RequestKnows, OnlyBot
<1>4. QED
  BY <1>2, <1>3 DEF Tidy

LEMMA RestartTidy ==
    ASSUME TypeOK, Restart, NEW u \in Users
    PROVE  Tidy(u)'
<1>1. /\ \A c \in Callers : req'[c].user # u
      /\ check'.left = {} /\ check'.user # u /\ row' = row
  <2>1. NoReq.user # u /\ NoCheck.user # u /\ NoCheck.left = {}
    BY ReqValues, CheckValues, Constants
  <2>2. QED
    BY <2>1 DEF Restart, rowVars
<1>2. RowNames(u)'
  <2>1. PICK ok \in SUBSET Loadable : \E last \in [{row[w].token : w \in ok} -> ok] :
                                         Load(ok, last)
    BY DEF Restart
  <2>2. PICK last \in [{row[w].token : w \in ok} -> ok] : Load(ok, last)
    BY <2>1
  <2>3. ASSUME NEW w \in ok PROVE w \in 0..NUsers /\ row[w].uuid \in 0..MaxUuid
    BY Types, RowValues, Constants DEF RowTypes, Loadable
  <2>4. ASSUME NEW t \in Tokens, bots'[t].user = u PROVE row[u].token = t
    <3>1. t \in DOMAIN last
      BY <2>2, <2>4, BotValues, Constants DEF Load
    <3>2. bots'[t] = Bot(last[t], row[last[t]].uuid) /\ last[t] \in ok
      BY <2>2, <3>1 DEF Load
    <3>3. last[t] = u
      BY <2>3, <2>4, <3>2, BotValues
    <3>4. QED
      BY <2>2, <3>1, <3>3 DEF Load
  <2>5. QED
    BY <1>1, <2>4 DEF RowNames
<1>3. OneAtATime(u)' /\ CheckKnows(u)'
  BY <1>1 DEF OneAtATime, CheckKnows
<1>4. QED
  BY <1>1, <1>2, <1>3 DEF Tidy

\* Users are not created, and only a restart unmixes them.
LEMMA Remains ==
    ASSUME TypeOK, Owned, [Next]_vars, ~Restart, NEW u \in users' \ mixed'
    PROVE  u \in users /\ u \in Users /\ u \notin mixed
<1>1. users \subseteq Users
  BY Types DEF RowTypes
<1>2. ASSUME NEW v \in Users, DeleteUser(v) PROVE u \in users /\ u \notin mixed
  BY <1>2 DEF DeleteUser
<1>3. ASSUME NEW c \in Callers, Step(c) PROVE u \in users /\ u \notin mixed
  BY <1>3, LookUpCases, ReadUserCases, DropCases, IssueCases, WipeCases, WriteCases,
     ReadUuidCases, CreateCases DEF Step, rowVars
<1>4. ASSUME StartCheck \/ CheckStep PROVE u \in users /\ u \notin mixed
  <2>1. CASE StartCheck
    BY <2>1, StartCheckCases DEF rowVars, Owned
  <2>2. CASE CheckStep
    BY <2>2, ValidateCases, CheckDropCases, CheckWipeCases, EndCheckCases
       DEF CheckStep, rowVars
  <2>3. QED
    BY <1>4, <2>1, <2>2
<1>5. QED
  BY <1>1, <1>2, <1>3, <1>4 DEF Next, Begin, Revoke, vars, rowVars

LEMMA UndisturbedInv ==
    TypeOK /\ Owned /\ Undisturbed /\ [Next]_vars => Undisturbed'
<1> SUFFICES ASSUME TypeOK, Owned, Undisturbed, [Next]_vars,
                    NEW u \in users' \ mixed'
             PROVE  Tidy(u)'
  BY DEF Undisturbed
<1>1. CASE Restart
  BY <1>1, RestartTypes, RestartTidy, Types DEF Restart, rowVars, RowTypes
<1>2. SUFFICES ASSUME ~Restart PROVE Tidy(u)'
  BY <1>1
<1>3. u \in users /\ u \in Users /\ u \notin mixed /\ Requests /\ Entries
  BY <1>2, Remains DEF Owned
<1>4. Tidy(u)
  BY <1>3 DEF Undisturbed
<1>5. ASSUME NEW c \in Callers, Step(c) PROVE Tidy(u)'
  BY <1>3, <1>4, <1>5, StepTidy
<1>6. CASE StartCheck \/ CheckStep
  BY <1>3, <1>4, <1>6, StartCheckTidy, ValidateTidy, CheckDropTidy, CheckWipeTidy,
     EndCheckTidy DEF CheckStep
<1>7. ASSUME NEW c \in Callers, NEW v \in Users,
             \/ \E t \in Tries[v] : Begin(c, "set", v, t)
             \/ Begin(c, "remove", v, None)
             \/ \E t \in Tries[v] \cup {None} : Begin(c, "admin", v, t)
      PROVE  Tidy(u)'
  <2>1. PICK op \in Ops, t \in 0..NTokens : Begin(c, op, v, t)
    BY <1>7, Constants DEF Ops
  <2>2. QED
    BY <1>3, <1>4, <2>1, BeginTidy
<1>8. ASSUME NEW v \in Users, DeleteUser(v) PROVE Tidy(u)'
  <2>1. u # v
    BY <1>8 DEF DeleteUser
  <2>2. QED
    BY <1>3, <1>4, <1>8, <2>1, DeleteTidy
<1>9. CASE UNCHANGED vars \/ \E t \in Frail : Revoke(t)
  <2>1. UNCHANGED <<row, bots, check, req>>
    BY <1>9 DEF vars, Revoke, rowVars, managerVars
  <2>2. QED
    BY <1>4, <2>1 DEF Tidy, OneAtATime, Watched, RowNames, CheckKnows, RequestKnows, OnlyBot
<1>10. QED
  BY <1>2, <1>5, <1>6, <1>7, <1>8, <1>9 DEF Next

------------------------------------------------------------------------------
(* The two maps.                                                           *)

Agree(u) ==
    \A g \in Uuids, t \in Tokens : bots[t] = Bot(u, g) <=> dispatch[g] = Entry(u, t)

LEMMA RemoveAgrees ==
    ASSUME TypeOK, Owned, NEW t \in Tokens, RemoveBot(t), NEW u \in Users, RowNames(u),
           Agree(u)
    PROVE  Agree(u)'
<1>1. bots \in [Tokens -> BotType] /\ dispatch \in [Uuids -> EntryType]
  BY Types DEF ManagerTypes
<1>2. CASE bots[t] = NoBot
  BY <1>2 DEF RemoveBot, managerVars, Agree
<1>3. CASE bots[t] # NoBot
  <2>1. PICK w \in Users, h \in Uuids : bots[t] = Bot(w, h) /\ bots[t].user = w /\ owner[h] = w
                              /\ bots[t].uuid = h
    <3>1. bots[t].user # None /\ bots[t].uuid # None /\ owner[bots[t].uuid] = bots[t].user
      BY <1>3, Urls DEF Owned, Entries, BotUrls
    <3>2. bots[t] = Bot(bots[t].user, bots[t].uuid) /\ bots[t].uuid \in 0..MaxUuid
          /\ bots[t].user \in 0..NUsers
      BY <1>1, BotValues
    <3>3. QED
      BY <3>1, <3>2, Constants
  <2>2. /\ bots' = [bots EXCEPT ![t] = NoBot]
        /\ dispatch' = [dispatch EXCEPT ![h] = NoEntry]
    BY <1>3, <2>1 DEF RemoveBot
  <2>3. ASSUME NEW g \in Uuids, NEW s \in Tokens
        PROVE  bots'[s] = Bot(u, g) <=> dispatch'[g] = Entry(u, s)
    <3>1. /\ Bot(u, g) # NoBot /\ Bot(u, g).user = u /\ Bot(u, g).uuid = g
          /\ Entry(u, s) # NoEntry /\ Entry(u, s).user = u
      BY BotValues, EntryValues, Constants
    <3>2. bots[s] = Bot(u, g) <=> dispatch[g] = Entry(u, s)
      BY DEF Agree
    <3>3. CASE s = t
      <4>1. bots'[s] # Bot(u, g)
        BY <1>1, <2>2, <3>1, <3>3
      <4>2. dispatch'[g] # Entry(u, s)
        BY <1>1, <2>1, <2>2, <3>1, <3>2, <3>3
      <4>3. QED
        BY <4>1, <4>2
    <3>4. CASE s # t /\ g # h
      BY <1>1, <2>2, <3>2, <3>4
    <3>5. CASE s # t /\ g = h
      <4>1. dispatch'[g] # Entry(u, s)
        BY <1>1, <2>2, <3>1, <3>5
      <4>2. ASSUME bots[s] = Bot(u, g) PROVE FALSE
        <5>1. owner[g] = u
          BY <3>1, <4>2, Urls DEF Owned, BotUrls
        <5>2. bots[t].user = u /\ bots[s].user = u
          BY <2>1, <3>1, <3>5, <4>2, <5>1
        <5>3. QED
          BY <3>5, <5>2 DEF RowNames
      <4>3. QED
        BY <1>1, <2>2, <3>5, <4>1, <4>2
    <3>6. QED
      BY <3>3, <3>4, <3>5
  <2>4. QED
    BY <2>3 DEF Agree
<1>4. QED
  BY <1>2, <1>3

LEMMA RegisterAgrees ==
    ASSUME TypeOK, Owned, NEW v \in Users, NEW t \in Tokens, NEW h \in Uuids,
           Register(v, t, h), owner[h] = v, NEW u \in Users, RowNames(u), Agree(u),
           u = v => row[u].token = t
    PROVE  Agree(u)'
<1>1. bots \in [Tokens -> BotType] /\ dispatch \in [Uuids -> EntryType]
  BY Types DEF ManagerTypes
<1>2. /\ bots[t] = NoBot
      /\ bots' = [bots EXCEPT ![t] = Bot(v, h)]
      /\ dispatch' = [dispatch EXCEPT ![h] = Entry(v, t)]
  BY DEF Register
<1>3. ASSUME NEW g \in Uuids, NEW s \in Tokens
      PROVE  bots'[s] = Bot(u, g) <=> dispatch'[g] = Entry(u, s)
  <2>1. /\ Bot(u, g) # NoBot /\ Bot(u, g).user = u /\ Bot(u, g).uuid = g
        /\ Bot(v, h).user = v /\ Bot(v, h).uuid = h
        /\ Entry(u, s).user = u /\ Entry(u, s).token = s
        /\ Entry(v, t).user = v /\ Entry(v, t).token = t
    <3>1. /\ u \in 0..NUsers /\ v \in 0..NUsers /\ s \in 0..NTokens /\ t \in 0..NTokens
          /\ g \in 0..MaxUuid /\ h \in 0..MaxUuid /\ u # None
      BY Constants
    <3>2. /\ Bot(u, g).user = u /\ Bot(u, g).uuid = g /\ Bot(v, h).user = v
          /\ Bot(v, h).uuid = h /\ NoBot.user = None
      BY <3>1, BotValues
    <3>3. /\ Entry(u, s).user = u /\ Entry(u, s).token = s
          /\ Entry(v, t).user = v /\ Entry(v, t).token = t
      BY <3>1, EntryValues
    <3>4. QED
      BY <3>1, <3>2, <3>3
  <2>2. bots[s] = Bot(u, g) <=> dispatch[g] = Entry(u, s)
    BY DEF Agree
  <2>3. CASE s = t
    <3>1. bots'[s] = Bot(v, h) /\ dispatch[g] # Entry(u, s)
      BY <1>1, <1>2, <2>1, <2>2, <2>3
    <3>2. CASE g = h
      <4>1. dispatch'[g] = Entry(v, s)
        BY <1>1, <1>2, <2>3, <3>2
      <4>2. QED
        BY <2>1, <2>3, <3>1, <3>2, <4>1
    <3>3. CASE g # h
      <4>1. dispatch'[g] # Entry(u, s)
        BY <1>1, <1>2, <3>1, <3>3
      <4>2. QED
        BY <2>1, <3>1, <3>3, <4>1
    <3>4. QED
      BY <3>2, <3>3
  <2>4. CASE s # t /\ g # h
    BY <1>1, <1>2, <2>2, <2>4
  <2>5. CASE s # t /\ g = h
    <3>1. dispatch'[g] # Entry(u, s)
      BY <1>1, <1>2, <2>1, <2>5
    <3>2. ASSUME bots[s] = Bot(u, g) PROVE FALSE
      <4>1. owner[g] = u /\ bots[s].user = u
        BY <2>1, <3>2, Urls DEF Owned, BotUrls
      <4>2. QED
        BY <2>5, <4>1 DEF RowNames
    <3>3. QED
      BY <1>1, <1>2, <2>5, <3>1, <3>2
  <2>6. QED
    BY <2>3, <2>4, <2>5
<1>4. QED
  BY <1>3 DEF Agree

LEMMA RestartAgrees ==
    ASSUME TypeOK, Owned, Restart, NEW u \in users' \ mixed'
    PROVE  Agree(u)'
<1>1. PICK ok \in SUBSET Loadable : \E last \in [{row[w].token : w \in ok} -> ok] :
                                       Load(ok, last)
  BY DEF Restart
<1>2. PICK last \in [{row[w].token : w \in ok} -> ok] : Load(ok, last)
  BY <1>1
<1>3. u \in users /\ u \in Users
      /\ (row[u].token # None => \A v \in users : HasToken(v, row[u].token) => v = u)
  BY Types DEF Restart, RowTypes, rowVars
<1>4. ASSUME NEW w \in ok
      PROVE  /\ w \in users /\ w \in 0..NUsers
             /\ row[w].uuid \in Uuids /\ row[w].uuid \in 0..MaxUuid
             /\ row[w].token \in Tokens /\ row[w].token \in 0..NTokens
             /\ owner[row[w].uuid] = w
  <2>1. w \in Users /\ w \in users /\ row[w] \in RowType /\ row[w].uuid # None
        /\ row[w].token \in Tokens
    BY Types DEF RowTypes, Loadable
  <2>2. QED
    BY <2>1, RowValues, Constants, Urls DEF Owned, RowUrls
<1>5. ASSUME NEW g \in Uuids, NEW t \in Tokens
      PROVE  bots'[t] = Bot(u, g) <=> dispatch'[g] = Entry(u, t)
  <2>1. /\ Bot(u, g) # NoBot /\ Bot(u, g).user = u /\ Bot(u, g).uuid = g
        /\ Entry(u, t) # NoEntry /\ Entry(u, t).user = u /\ Entry(u, t).token = t
    BY <1>3, BotValues, EntryValues, Constants
  <2>2. ASSUME bots'[t] = Bot(u, g) PROVE dispatch'[g] = Entry(u, t)
    <3>1. t \in DOMAIN last /\ bots'[t] = Bot(last[t], row[last[t]].uuid)
      BY <1>2, <2>1, <2>2 DEF Load
    <3>2. last[t] \in ok /\ row[last[t]].token = t
      BY <1>2, <3>1 DEF Load
    <3>3. last[t] = u /\ row[u].uuid = g
      BY <1>4, <2>1, <2>2, <3>1, <3>2, BotValues
    <3>4. \A w \in ok : row[w].uuid = g => w = u
      BY <1>4, <3>2, <3>3
    <3>5. (CHOOSE w \in ok : row[w].uuid = g) = u
      BY <3>2, <3>3, <3>4
    <3>6. QED
      BY <1>2, <3>2, <3>3, <3>5 DEF Load
  <2>3. ASSUME dispatch'[g] = Entry(u, t) PROVE bots'[t] = Bot(u, g)
    <3>1. PICK w \in ok : row[w].uuid = g /\ dispatch'[g] = Entry(w, row[w].token)
      BY <1>2, <2>1, <2>3 DEF Load
    <3>2. w = u /\ row[u].token = t
      BY <1>4, <2>1, <2>3, <3>1, EntryValues
    <3>3. t \in DOMAIN last
      BY <1>2, <3>1, <3>2
    <3>4. last[t] \in ok /\ row[last[t]].token = t
      BY <1>2, <3>3 DEF Load
    <3>5. last[t] = u
      BY <1>3, <1>4, <3>2, <3>4, Constants DEF HasToken
    <3>6. QED
      BY <1>2, <3>1, <3>2, <3>3, <3>5 DEF Load
  <2>4. QED
    BY <2>2, <2>3
<1>6. QED
  BY <1>5 DEF Agree

LEMMA MapsAgreeInv ==
    TypeOK /\ Owned /\ Undisturbed /\ MapsAgree /\ [Next]_vars => MapsAgree'
<1> SUFFICES ASSUME TypeOK, Owned, Undisturbed, MapsAgree, [Next]_vars,
                    NEW u \in users' \ mixed'
             PROVE  Agree(u)'
  BY DEF MapsAgree, Agree
<1>1. SUFFICES ASSUME ~Restart PROVE Agree(u)'
  BY RestartAgrees
<1>2. u \in users /\ u \in Users /\ u \notin mixed
  BY <1>1, Remains
<1>3. Tidy(u) /\ Agree(u) /\ RowNames(u)
  BY <1>2 DEF Undisturbed, MapsAgree, Agree, Tidy
<1>4. ASSUME NEW c \in Callers, Step(c) PROVE Agree(u)'
  <2>1. CASE Drop(c)
    <3>1. req[c].old \in Tokens
      BY <2>1, DropCases, Types, ReqValues, Constants DEF Owned, Requests
    <3>2. QED
      BY <1>2, <1>3, <2>1, <3>1, DropCases, RemoveAgrees
  <2>2. CASE Create(c) /\ Register(req[c].user, req[c].token, req[c].uuid)
    <3>1. /\ req[c].user \in Users /\ req[c].token \in Tokens /\ req[c].uuid \in Uuids
          /\ owner[req[c].uuid] = req[c].user
      BY <2>2, CreateCases, Types, ReqValues, Constants DEF Owned, Requests
    <3>2. u = req[c].user => row[u].token = req[c].token
      BY <1>3, <2>2, CreateCases DEF Tidy, RequestKnows
    <3>3. QED
      BY <1>2, <1>3, <2>2, <3>1, <3>2, RegisterAgrees
  <2>3. CASE UNCHANGED managerVars
    BY <1>3, <2>3 DEF Agree, managerVars
  <2>4. QED
    BY <1>4, <2>1, <2>2, <2>3, LookUpCases, ReadUserCases, IssueCases, WipeCases,
       WriteCases, ReadUuidCases, CreateCases DEF Step
<1>5. CASE CheckDrop
  <2>1. check.token \in Tokens
    BY <1>5, CheckDropCases, Types, CheckValues, Constants DEF Owned, Entries
  <2>2. QED
    BY <1>2, <1>3, <1>5, <2>1, CheckDropCases, RemoveAgrees
<1>6. CASE UNCHANGED managerVars
  BY <1>3, <1>6 DEF Agree, managerVars
<1>7. CASE StartCheck \/ CheckStep
  BY <1>5, <1>6, <1>7, StartCheckCases, ValidateCases, CheckWipeCases, EndCheckCases
     DEF CheckStep, Owned
<1>8. QED
  BY <1>1, <1>4, <1>6, <1>7 DEF Next, Begin, Revoke, DeleteUser, vars

------------------------------------------------------------------------------
(* The theorems.                                                           *)

LEMMA InitInv == Init => IInv
<1> SUFFICES ASSUME Init PROVE IInv
  OBVIOUS
<1>1. TypeOK
  BY InitTypes
<1>2. Requests /\ Entries /\ Fresh /\ OwnUrl
  BY ReqValues, CheckValues, RowValues
     DEF Init, Requests, Entries, Fresh, OwnUrl
<1>3. ASSUME NEW u \in Users PROVE Tidy(u)
  BY ReqValues, CheckValues, BotValues, Constants
     DEF Init, Tidy, OneAtATime, Watched, RowNames, CheckKnows
<1>4. ASSUME NEW u \in Users PROVE Agree(u)
  <2>1. ASSUME NEW g \in Uuids, NEW t \in Tokens
        PROVE  NoBot # Bot(u, g) /\ NoEntry # Entry(u, t)
    BY BotValues, EntryValues, Constants
  <2>2. QED
    BY <2>1 DEF Init, Agree
<1>5. Undisturbed /\ MapsAgree
  BY <1>3, <1>4 DEF Init, Undisturbed, MapsAgree, Agree
<1>6. QED
  BY <1>1, <1>2, <1>5 DEF IInv

LEMMA Inductive == IInv /\ [Next]_vars => IInv'
BY OwnedInv, UndisturbedInv, MapsAgreeInv DEF IInv, Owned

LEMMA Invariant == Spec => []IInv
BY InitInv, Inductive, PTL DEF Spec

\* Every variable keeps its type, and no statement of an operation that began
\* before it brings a deleted user's bot back into the table.
THEOREM BotTypes == Spec => []TypeOK
<1>1. IInv => TypeOK
  BY DEF IInv
<1>2. QED
  BY <1>1, Invariant, PTL

\* A webhook UUID in a row, a bot or the dispatch table belongs to the user it
\* was drawn for, for any number of requests, users that share a token, and
\* rows written back late (database/users.go, telegram/bot.go).
THEOREM UrlOwnership == Spec => []OwnUrl
<1>1. IInv => OwnUrl
  BY DEF IInv
<1>2. QED
  BY <1>1, Invariant, PTL

\* A user on whom no operations overlapped has no bot but that of their row,
\* whatever fails in SetBotToken, RemoveBotToken, UpdateUserByAdmin and the
\* health check, and whatever other users do with the same token.
THEOREM NoStrayBot == Spec => []BotMeansRow
<1>1. IInv => BotMeansRow
  <2>1. ASSUME IInv, NEW t \in Tokens, bots[t].user \in users \ mixed
        PROVE  row[bots[t].user].token = t
    <3>1. bots[t].user \in Users /\ Tidy(bots[t].user)
      BY <2>1, Types DEF IInv, Undisturbed, RowTypes
    <3>2. QED
      BY <3>1 DEF Tidy, RowNames
  <2>2. QED
    BY <2>1 DEF BotMeansRow
<1>2. QED
  BY <1>1, Invariant, PTL

\* For such a user bots and uuidToBots agree, also across restarts.
THEOREM MapsAgreement == Spec => []MapsAgree
<1>1. IInv => MapsAgree
  BY DEF IInv
<1>2. QED
  BY <1>1, Invariant, PTL

------------------------------------------------------------------------------
(* Accounts.                                                               *)


\* Where a request may be, and what it may be about.
Spots == {"idle", "create", "link", "keys", "match", "user", "again", "write", "old keys", "old",
          "delete", "profile"}
Kinds == {"none", "register", "forgotten", "link", "profile", "admin"}
Acts  == [at : Spots, kind : Kinds, login : Logins \cup {NoLogin}, id : 0..MaxIds, link : Nat,
          pass : Passwords \cup {NoPass}, account : AccountRows \cup {NoAccount}, todo : SUBSET Logins]

AccountsTypes ==
    /\ account \in [Ids -> AccountRows \cup {NoAccount}]
    /\ asked \in [Ids -> AccountRows \cup {NoAccount}]
    /\ lastId \in Nat /\ lastLink \in Nat
    /\ link \in [Logins -> Nat] /\ left \in [Logins -> Nat] /\ due \in [Logins -> Nat]
    /\ overlapped \subseteq Ids
    /\ act \in [Clients -> Acts]

\* What a request carries at each place.
Carries(q) ==
    /\ q.at = "create" => q.login \in Logins /\ q.pass \in Passwords
    /\ q.at \in {"link", "user", "delete"} => q.login \in Logins
    /\ q.at \in {"keys", "match", "user", "again", "old keys", "old", "delete"} => q.kind = "link"
    /\ q.at = "profile" => q.kind = "profile"
    /\ q.at \in {"again", "write"} => q.account \in AccountRows
    /\ q.at = "write" => q.kind \in {"link", "profile", "admin"}
    /\ IF q.kind = "link" THEN q.link \in 1..lastLink ELSE q.link = NoLink
    /\ q.id <= lastId
Carrying == \A r \in Clients : Carries(act[r])

\* An id belongs to one account for ever.
IdsOnce == \A i \in There : i <= lastId

\* Between the read and the write of a change that none overlapped the row is
\* as it was read, and what will be written is what its writer asks for.
Mid(q)       == q.at \in {"again", "write"}
Fits(q, w) == /\ q.at = "again" => q.account = w
              /\ q.at = "write" => q.account = AsAskedBy(q, w)
Steady == \A r \in Clients :
    Mid(act[r]) /\ act[r].id \in There \ overlapped =>
        /\ Fits(act[r], account[act[r].id])
        /\ \A o \in Clients : Mid(act[o]) /\ act[o].id = act[r].id => o = r

\* A token is made once and is under one login.
LinksOnce ==
    /\ \A l \in Logins : link[l] <= lastLink /\ due[l] <= lastLink
    /\ \A l, m \in Logins : link[l] # NoLink /\ link[l] = link[m] => l = m

\* Nobody counts on a link that was used, and the key that is being deleted is
\* the only one that may hold it.
Used(q, owed, held) ==
    /\ q.at \in {"old keys", "old", "delete"} => \A l \in Logins : owed[l] # q.link
    /\ q.at = "delete" => /\ owed[q.login] = NoLink
                          /\ \A l \in Logins \ {q.login} : held[l] # q.link
OldLinks == \A r \in Clients : Used(act[r], due, link)

\* A link that was used and deleted is under no login.
SpentGone == spent \subseteq 1..lastLink /\ \A t \in spent : \A l \in Logins : link[l] # t

AccountsInv == /\ AccountsTypes /\ Carrying /\ IdsOnce /\ AsAsked /\ Steady
               /\ LinksOnce /\ LinkServes /\ OldLinks /\ SpentGone

------------------------------------------------------------------------------
LEMMA RestType == AtRest \in Acts /\ AtRest.at = "idle" /\ AtRest.kind = "none" /\ AtRest.id = 0
                  /\ AtRest.link = NoLink
BY AccountsAssumption DEF AtRest, Acts, Spots, Kinds, NoLink

LEMMA StartType ==
    ASSUME NEW at, NEW kind
    PROVE  Start(at, kind) = [at |-> at, kind |-> kind, login |-> NoLogin, id |-> 0, link |-> NoLink,
                              pass |-> NoPass, account |-> NoAccount, todo |-> {}]
<1>1. PICK q : q = [at |-> "idle", kind |-> "none", login |-> NoLogin, id |-> 0, link |-> NoLink,
                    pass |-> NoPass, account |-> NoAccount, todo |-> {}]
  OBVIOUS
<1>2. PICK p : p = [q EXCEPT !.at = at]
  OBVIOUS
<1>3. p = [at |-> at, kind |-> "none", login |-> NoLogin, id |-> 0, link |-> NoLink,
           pass |-> NoPass, account |-> NoAccount, todo |-> {}]
  BY <1>1, <1>2
<1>4. [p EXCEPT !.kind = kind] = [at |-> at, kind |-> kind, login |-> NoLogin, id |-> 0, link |-> NoLink,
                                  pass |-> NoPass, account |-> NoAccount, todo |-> {}]
  BY <1>3
<1>5. Start(at, kind) = [p EXCEPT !.kind = kind]
  BY <1>1, <1>2 DEF Start, AtRest
<1>6. QED
  BY <1>4, <1>5

\* No link is before the first.
LEMMA NoLinkIs == NoLink \in Nat /\ \A n \in Nat : NoLink <= n /\ NoLink \notin 1..n
BY DEF NoLink

LEMMA MovesEffect ==
    ASSUME AccountsTypes, NEW r \in Clients, NEW q \in Acts, Moves(r, q)
    PROVE  act' \in [Clients -> Acts] /\ act'[r] = q /\ \A o \in Clients \ {r} : act'[o] = act[o]
BY DEF AccountsTypes, Moves

\* Steps that change no row and no link: the request goes on to where it fits.
LEMMA QuietInv ==
    ASSUME AccountsInv, NEW r \in Clients, NEW q \in Acts, Moves(r, q),
           UNCHANGED <<accountRows, linkVars, accountNotes>>, Carries(q), Used(q, due, link),
           Mid(q) => /\ Mid(act[r]) /\ q.id = act[r].id /\ q.link = act[r].link
                     /\ q.id \in There \ overlapped => Fits(q, account[q.id]),
           q.at = "user" => q.link \notin spent
    PROVE  AccountsInv'
<1>1. /\ AccountsTypes
      /\ UNCHANGED <<account, lastId, link, left, lastLink, asked, overlapped, due, spent>>
  BY DEF AccountsInv, accountRows, linkVars, accountNotes
<1>2. act' \in [Clients -> Acts] /\ act'[r] = q /\ \A o \in Clients \ {r} : act'[o] = act[o]
  BY <1>1, MovesEffect
<1>3. There' = There
  BY <1>1 DEF There
<1>4. AccountsTypes'
  BY <1>1, <1>2 DEF AccountsTypes
<1>5. Carrying'
  BY <1>1, <1>2 DEF AccountsInv, Carrying, Carries
<1>6. IdsOnce' /\ AsAsked'
  BY <1>1, <1>3 DEF AccountsInv, IdsOnce, AsAsked
<1>7. \A o \in Clients : Mid(act'[o]) => Mid(act[o]) /\ act'[o].id = act[o].id
  BY <1>2
<1>8. Steady'
  <2>1. ASSUME NEW o \in Clients, Mid(act'[o]), act'[o].id \in There \ overlapped
        PROVE  /\ Fits(act'[o], account[act'[o].id])
               /\ \A p \in Clients : Mid(act'[p]) /\ act'[p].id = act'[o].id => p = o
    <3>1. Mid(act[o]) /\ act'[o].id = act[o].id
      BY <2>1, <1>7
    <3>2. \A p \in Clients : Mid(act'[p]) /\ act'[p].id = act'[o].id => p = o
      BY <3>1, <2>1, <1>7 DEF AccountsInv, Steady
    <3>3. Fits(act'[o], account[act'[o].id])
      BY <3>1, <2>1, <1>2 DEF AccountsInv, Steady
    <3>4. QED
      BY <3>2, <3>3
  <2>2. QED
    BY <2>1, <1>1, <1>3 DEF Steady
<1>9. LinksOnce' /\ SpentGone'
  BY <1>1 DEF AccountsInv, LinksOnce, SpentGone
<1>10. LinkServes'
  <2>1. ASSUME NEW o \in Clients, NEW t \in spent PROVE ~(act'[o].link = t /\ (act'[o].at = "user" \/ Mid(act'[o])))
    <3>1. ~(act[o].link = t /\ (act[o].at = "user" \/ Mid(act[o])))
      BY <2>1 DEF AccountsInv, LinkServes, Passed, Mid
    <3>2. QED
      BY <3>1, <2>1, <1>2
  <2>2. QED
    BY <2>1, <1>1 DEF AccountsInv, LinkServes, Passed, Mid
<1>11. OldLinks'
  BY <1>1, <1>2 DEF AccountsInv, OldLinks
<1>12. QED
  BY <1>4, <1>5, <1>6, <1>8, <1>9, <1>10, <1>11 DEF AccountsInv

LEMMA RegistrationInv ==
    ASSUME AccountsInv, NEW r \in Clients, NEW l \in Logins, NEW p \in Passwords, Registration(r, l, p)
    PROVE  AccountsInv'
<1>1. PICK q : q = [Start("create", "register") EXCEPT !.login = l, !.pass = p]
  OBVIOUS
<1>2. Moves(r, q) /\ UNCHANGED <<accountRows, linkVars, accountNotes>>
  BY <1>1 DEF Registration
<1>3. q = [at |-> "create", kind |-> "register", login |-> l, id |-> 0, link |-> NoLink,
           pass |-> p, account |-> NoAccount, todo |-> {}]
  BY <1>1, StartType
<1>4. q \in Acts
  BY <1>3, AccountsAssumption DEF Acts, Spots, Kinds, NoLink
<1>5. Carries(q) /\ Used(q, due, link)
  BY <1>3 DEF Carries, Used, AccountsInv, AccountsTypes
<1>6. QED
  BY <1>2, <1>3, <1>4, <1>5, QuietInv DEF Mid

LEMMA ChangeRequestInv ==
    ASSUME AccountsInv, NEW r \in Clients, NEW i \in Ids, ChangeRequest(r, i)
    PROVE  AccountsInv'
<1>1. PICK q : q = [Start("link", "forgotten") EXCEPT !.login = account[i].login]
  OBVIOUS
<1>2. Moves(r, q) /\ UNCHANGED <<accountRows, linkVars, accountNotes>> /\ i \in There
  BY <1>1 DEF ChangeRequest
<1>3. account[i].login \in Logins
  BY <1>2 DEF AccountsInv, AccountsTypes, There, AccountRows
<1>4. q = [at |-> "link", kind |-> "forgotten", login |-> account[i].login, id |-> 0, link |-> NoLink,
           pass |-> NoPass, account |-> NoAccount, todo |-> {}]
  BY <1>1, StartType
<1>5. q \in Acts
  BY <1>3, <1>4, AccountsAssumption DEF Acts, Spots, Kinds, NoLink
<1>6. Carries(q) /\ Used(q, due, link)
  BY <1>3, <1>4 DEF Carries, Used, AccountsInv, AccountsTypes
<1>7. QED
  BY <1>2, <1>4, <1>5, <1>6, QuietInv DEF Mid

LEMMA UseLinkInv ==
    ASSUME AccountsInv, NEW r \in Clients, NEW t \in LinkIds, NEW p \in Passwords \cup {NoPass},
           UseLink(r, t, p)
    PROVE  AccountsInv'
<1>1. PICK q : q = [Start("keys", "link") EXCEPT !.link = t, !.pass = p]
  OBVIOUS
<1>2. Moves(r, q) /\ UNCHANGED <<accountRows, linkVars, accountNotes>> /\ t \in 1..lastLink
  BY <1>1 DEF UseLink
<1>3. q = [at |-> "keys", kind |-> "link", login |-> NoLogin, id |-> 0, link |-> t,
           pass |-> p, account |-> NoAccount, todo |-> {}]
  BY <1>1, StartType
<1>4. q \in Acts
  <2>1. t \in Nat
    BY <1>2 DEF AccountsInv, AccountsTypes
  <2>2. QED
    BY <1>3, <2>1, AccountsAssumption DEF Acts, Spots, Kinds
<1>5. Carries(q) /\ Used(q, due, link)
  BY <1>2, <1>3 DEF Carries, Used, AccountsInv, AccountsTypes
<1>6. QED
  BY <1>2, <1>3, <1>4, <1>5, QuietInv DEF Mid

LEMMA ChangeUserInv ==
    ASSUME AccountsInv, NEW r \in Clients, NEW i \in Ids, NEW p \in Passwords \cup {NoPass},
           ChangeUser(r, i, p)
    PROVE  AccountsInv'
<1>1. PICK q : q = [Start("profile", "profile") EXCEPT !.id = i, !.pass = p]
  OBVIOUS
<1>2. Moves(r, q) /\ UNCHANGED <<accountRows, linkVars, accountNotes>> /\ i \in There
  BY <1>1 DEF ChangeUser
<1>3. q = [at |-> "profile", kind |-> "profile", login |-> NoLogin, id |-> i, link |-> NoLink,
           pass |-> p, account |-> NoAccount, todo |-> {}]
  BY <1>1, StartType
<1>4. q \in Acts
  BY <1>3, AccountsAssumption DEF Acts, Spots, Kinds, NoLink, Ids
<1>5. Carries(q) /\ Used(q, due, link)
  BY <1>2, <1>3 DEF Carries, Used, AccountsInv, AccountsTypes, IdsOnce
<1>6. QED
  BY <1>2, <1>3, <1>4, <1>5, QuietInv DEF Mid

LEMMA CallFailsInv == ASSUME AccountsInv, NEW r \in Clients, CallFails(r) PROVE AccountsInv'
<1>1. Moves(r, AtRest) /\ UNCHANGED <<accountRows, linkVars, accountNotes>>
  BY DEF CallFails, Done
<1>2. Carries(AtRest) /\ Used(AtRest, due, link)
  BY RestType DEF Carries, Used, AccountsInv, AccountsTypes
<1>3. QED
  BY <1>1, <1>2, RestType, QuietInv DEF Mid

LEMMA RestInv ==
    ASSUME AccountsInv, NEW r \in Clients, Done(r), UNCHANGED <<accountRows, linkVars, accountNotes>>
    PROVE  AccountsInv'
<1>1. Moves(r, AtRest)
  BY DEF Done
<1>2. Carries(AtRest) /\ Used(AtRest, due, link)
  BY RestType DEF Carries, Used, AccountsInv, AccountsTypes
<1>3. QED
  BY <1>1, <1>2, RestType, QuietInv DEF Mid

LEMMA ListLinksInv == ASSUME AccountsInv, NEW r \in Clients, ListLinks(r) PROVE AccountsInv'
<1>1. PICK q : q = [act[r] EXCEPT !.at = IF act[r].at = "keys" THEN "match" ELSE "old", !.todo = HeldKeys]
  OBVIOUS
<1>2. act[r] \in Acts /\ Carries(act[r]) /\ Used(act[r], due, link)
  BY DEF AccountsInv, AccountsTypes, Carrying, OldLinks
<1>3. /\ Moves(r, q) /\ UNCHANGED <<accountRows, linkVars, accountNotes>>
      /\ act[r].at \in {"keys", "old keys"}
  BY <1>1, <1>2 DEF ListLinks, Acts
<1>4. q \in Acts
  BY <1>1, <1>2 DEF Acts, Spots, HeldKeys
<1>5. Carries(q) /\ Used(q, due, link) /\ ~Mid(q) /\ q.at # "user"
  BY <1>1, <1>2, <1>3 DEF Carries, Used, Acts, Mid
<1>6. QED
  BY <1>3, <1>4, <1>5, QuietInv DEF Mid

LEMMA CheckLinkInv == ASSUME AccountsInv, NEW r \in Clients, CheckLink(r) PROVE AccountsInv'
<1>1. /\ act[r] \in Acts /\ Carries(act[r]) /\ Used(act[r], due, link) /\ act[r].at = "match"
      /\ UNCHANGED <<accountRows, linkVars, accountNotes>>
  BY DEF AccountsInv, AccountsTypes, Carrying, OldLinks, CheckLink
<1>2. CASE Done(r)
  BY <1>1, <1>2, RestInv
<1>3. ASSUME NEW l \in act[r].todo, link[l] = act[r].link,
             Moves(r, [act[r] EXCEPT !.at = "user", !.login = l, !.todo = {}])
      PROVE  AccountsInv'
  <2>1. PICK q : q = [act[r] EXCEPT !.at = "user", !.login = l, !.todo = {}]
    OBVIOUS
  <2>2. l \in Logins
    BY <1>1 DEF Acts
  <2>3. q \in Acts
    BY <1>1, <2>1, <2>2 DEF Acts, Spots
  <2>4. Carries(q) /\ Used(q, due, link)
    BY <1>1, <2>1, <2>2 DEF Carries, Used, Acts
  <2>5. q.at = "user" /\ q.link \notin spent
    BY <1>1, <1>3, <2>1, <2>2 DEF AccountsInv, SpentGone, Acts
  <2>6. QED
    BY <1>1, <1>3, <2>1, <2>3, <2>4, <2>5, QuietInv DEF Mid
<1>4. ASSUME NEW l \in act[r].todo, Moves(r, [act[r] EXCEPT !.todo = act[r].todo \ {l}])
      PROVE  AccountsInv'
  <2>1. PICK q : q = [act[r] EXCEPT !.todo = act[r].todo \ {l}]
    OBVIOUS
  <2>2. q \in Acts
    BY <1>1, <2>1 DEF Acts
  <2>3. Carries(q) /\ Used(q, due, link) /\ q.at = "match"
    BY <1>1, <2>1 DEF Carries, Used, Acts
  <2>4. QED
    BY <1>1, <1>4, <2>1, <2>2, <2>3, QuietInv DEF Mid
<1>5. QED
  BY <1>1, <1>2, <1>3, <1>4 DEF CheckLink

LEMMA LookOldInv == ASSUME AccountsInv, NEW r \in Clients, LookOld(r) PROVE AccountsInv'
<1>1. /\ act[r] \in Acts /\ Carries(act[r]) /\ Used(act[r], due, link) /\ act[r].at = "old"
      /\ UNCHANGED <<accountRows, linkVars, accountNotes>>
  BY DEF AccountsInv, AccountsTypes, Carrying, OldLinks, LookOld
<1>2. CASE Done(r)
  BY <1>1, <1>2, RestInv
<1>3. ASSUME NEW l \in act[r].todo, link[l] = act[r].link,
             Moves(r, [act[r] EXCEPT !.at = "delete", !.login = l, !.todo = act[r].todo \ {l}])
      PROVE  AccountsInv'
  <2>1. PICK q : q = [act[r] EXCEPT !.at = "delete", !.login = l, !.todo = act[r].todo \ {l}]
    OBVIOUS
  <2>2. l \in Logins /\ act[r].link \in 1..lastLink
    BY <1>1 DEF Acts, Carries
  <2>3. q \in Acts /\ q.at = "delete" /\ q.login = l /\ q.link = act[r].link
    BY <1>1, <2>1, <2>2 DEF Acts, Spots
  <2>4. Carries(q)
    BY <1>1, <2>1, <2>2 DEF Carries, Acts
  <2>5. Used(q, due, link)
    <3>1. \A m \in Logins : due[m] # q.link
      BY <1>1, <2>3 DEF Used
    <3>2. due[l] = NoLink
      BY <1>3, <2>2, <2>3, <3>1 DEF AccountsInv, LinkServes
    <3>3. \A m \in Logins \ {l} : link[m] # q.link
      BY <1>3, <2>2, <2>3 DEF AccountsInv, LinksOnce, NoLink
    <3>4. QED
      BY <2>3, <3>1, <3>2, <3>3 DEF Used
  <2>6. QED
    BY <1>1, <1>3, <2>1, <2>3, <2>4, <2>5, QuietInv DEF Mid
<1>4. ASSUME NEW l \in act[r].todo, Moves(r, [act[r] EXCEPT !.todo = act[r].todo \ {l}])
      PROVE  AccountsInv'
  <2>1. PICK q : q = [act[r] EXCEPT !.todo = act[r].todo \ {l}]
    OBVIOUS
  <2>2. q \in Acts
    BY <1>1, <2>1 DEF Acts
  <2>3. Carries(q) /\ Used(q, due, link) /\ q.at = "old"
    BY <1>1, <2>1 DEF Carries, Used, Acts
  <2>4. QED
    BY <1>1, <1>4, <2>1, <2>2, <2>3, QuietInv DEF Mid
<1>5. QED
  BY <1>1, <1>2, <1>3, <1>4 DEF LookOld

LEMMA StillFits ==
    ASSUME AccountsInv, NEW r \in Clients, NEW i, i = act[r].id, Mid(act[r]), i \in There \ overlapped
    PROVE  Fits(act[r], account[i])
BY DEF AccountsInv, Steady

LEMMA ReadUserAgainInv == ASSUME AccountsInv, NEW r \in Clients, ReadUserAgain(r) PROVE AccountsInv'
<1>1. /\ act[r] \in Acts /\ Carries(act[r]) /\ act[r].at = "again"
      /\ UNCHANGED <<accountRows, linkVars, accountNotes>>
  BY DEF AccountsInv, AccountsTypes, Carrying, ReadUserAgain
<1>2. CASE act[r].id \notin There
  BY <1>1, <1>2, RestInv DEF ReadUserAgain
<1>3. CASE act[r].id \in There
  <2>1. PICK w : w = UpdatedRow(r)
    OBVIOUS
  <2>2. PICK q : q = [act[r] EXCEPT !.at = "write", !.account = w]
    OBVIOUS
  <2>3. Moves(r, q)
    BY <1>3, <2>1, <2>2 DEF ReadUserAgain
  <2>4. account[act[r].id] \in AccountRows /\ act[r].account \in AccountRows /\ act[r].kind = "link"
    BY <1>1, <1>3 DEF Carries, There, AccountsInv, AccountsTypes
  <2>5. /\ w = [login |-> act[r].account.login,
                  pass |-> IF act[r].pass # NoPass THEN act[r].pass ELSE account[act[r].id].pass,
                  active |-> TRUE]
    BY <2>1 DEF UpdatedRow, AccountRow, Given
  <2>6. w \in AccountRows
    BY <1>1, <2>4, <2>5 DEF AccountRows, Acts
  <2>7. q \in Acts /\ q.at = "write" /\ q.id = act[r].id /\ q.link = act[r].link /\ q.account = w
        /\ q.kind = "link" /\ q.pass = act[r].pass
    BY <1>1, <2>2, <2>4, <2>6 DEF Acts, Spots
  <2>8. Carries(q) /\ Used(q, due, link)
    BY <1>1, <2>4, <2>6, <2>7 DEF Carries, Used
  <2>9. ASSUME q.id \notin overlapped PROVE Fits(q, account[q.id])
    <3>1. PICK i : i = act[r].id
      OBVIOUS
    <3>2. q.id = i /\ Fits(act[r], account[i])
      BY <1>1, <1>3, <2>7, <2>9, <3>1, StillFits DEF Mid
    <3>3. act[r].account = account[q.id]
      BY <1>1, <3>2 DEF Fits
    <3>4. QED
      BY <3>3, <2>5, <2>7 DEF Fits, AsAskedBy, AccountRow, Given
  <2>10. QED
    BY <1>1, <2>3, <2>7, <2>8, <2>9, QuietInv DEF Mid
<1>4. QED
  BY <1>2, <1>3
------------------------------------------------------------------------------
\* A row is read by who is going to write it.
LEMMA ReadInv ==
    ASSUME AccountsInv, NEW r \in Clients, NEW i \in There, NEW q \in Acts, Moves(r, q), Read(r, i),
           UNCHANGED <<accountRows, linkVars, asked, due, spent>>,
           ~Mid(act[r]), Mid(q), q.id = i, Fits(q, account[i]), Carries(q),
           (act[r].at = "user" /\ q.link = act[r].link) \/ q.link = NoLink
    PROVE  AccountsInv'
<1>1. /\ AccountsTypes
      /\ UNCHANGED <<account, lastId, link, left, lastLink, asked, due, spent>>
      /\ overlapped' = overlapped \cup (IF Changing(i) \ {r} # {} THEN {i} ELSE {})
  BY DEF AccountsInv, accountRows, linkVars, Read
<1>2. act' \in [Clients -> Acts] /\ act'[r] = q /\ \A o \in Clients \ {r} : act'[o] = act[o]
  BY <1>1, MovesEffect
<1>3. There' = There /\ i \in Ids
  BY <1>1 DEF There
<1>4. AccountsTypes'
  BY <1>1, <1>2, <1>3 DEF AccountsTypes
<1>5. Carrying'
  BY <1>1, <1>2 DEF AccountsInv, Carrying, Carries
<1>6. IdsOnce' /\ AsAsked'
  BY <1>1, <1>3 DEF AccountsInv, IdsOnce, AsAsked
<1>7. i \notin overlapped' => \A o \in Clients \ {r} : ~(Mid(act[o]) /\ act[o].id = i)
  BY <1>1 DEF Changing, Mid
<1>8. Steady'
  <2>1. ASSUME NEW o \in Clients, Mid(act'[o]), act'[o].id \in There \ overlapped'
        PROVE  /\ Fits(act'[o], account[act'[o].id])
               /\ \A p \in Clients : Mid(act'[p]) /\ act'[p].id = act'[o].id => p = o
    <3>1. CASE o = r
      BY <3>1, <2>1, <1>2, <1>7
    <3>2. CASE o # r
      <4>1. Mid(act[o]) /\ act[o].id \in There \ overlapped /\ act'[o] = act[o]
        BY <3>2, <2>1, <1>1, <1>2
      <4>2. /\ Fits(act[o], account[act[o].id])
            /\ \A p \in Clients : Mid(act[p]) /\ act[p].id = act[o].id => p = o
        BY <4>1 DEF AccountsInv, Steady
      <4>3. act[o].id # i
        BY <3>2, <4>1, <2>1, <1>7
      <4>4. QED
        BY <4>1, <4>2, <4>3, <1>2
    <3>3. QED
      BY <3>1, <3>2
  <2>2. QED
    BY <2>1, <1>1, <1>3 DEF Steady
<1>9. LinksOnce' /\ SpentGone'
  BY <1>1 DEF AccountsInv, LinksOnce, SpentGone
<1>10. LinkServes'
  <2>1. ASSUME NEW o \in Clients, NEW t \in spent PROVE ~(act'[o].link = t /\ (act'[o].at = "user" \/ Mid(act'[o])))
    <3>1. ~(act[o].link = t /\ (act[o].at = "user" \/ Mid(act[o]))) /\ t # NoLink
      BY <2>1, <1>1 DEF AccountsInv, AccountsTypes, LinkServes, Passed, Mid, SpentGone, NoLink
    <3>2. QED
      BY <3>1, <2>1, <1>2
  <2>2. QED
    BY <2>1, <1>1 DEF AccountsInv, LinkServes, Passed, Mid
<1>11. OldLinks'
  <2>1. Used(q, due, link)
    BY DEF Used, Mid
  <2>2. QED
    BY <2>1, <1>1, <1>2 DEF AccountsInv, OldLinks
<1>12. QED
  BY <1>4, <1>5, <1>6, <1>8, <1>9, <1>10, <1>11 DEF AccountsInv

\* A request that stops changes nothing else.
LEMMA StopsInv ==
    ASSUME AccountsInv, NEW r \in Clients, Done(r),
           UNCHANGED <<accountRows, linkVars, asked, overlapped, due, spent>>
    PROVE  AccountsInv'
BY RestInv DEF accountNotes

LEMMA UserObjectInv == ASSUME AccountsInv, NEW r \in Clients, UserObject(r) PROVE AccountsInv'
<1>1. /\ act[r] \in Acts /\ Carries(act[r]) /\ act[r].at = "user"
      /\ UNCHANGED <<accountRows, linkVars, asked, due, spent>>
  BY DEF AccountsInv, AccountsTypes, Carrying, UserObject
<1>2. CASE Done(r) /\ UNCHANGED overlapped
  BY <1>1, <1>2, StopsInv
<1>3. ASSUME NEW i \in FoundBy(act[r].login),
             Moves(r, [act[r] EXCEPT !.at = "again", !.login = NoLogin, !.id = i, !.account = account[i]]),
             Read(r, i)
      PROVE  AccountsInv'
  <2>1. PICK q : q = [act[r] EXCEPT !.at = "again", !.login = NoLogin, !.id = i, !.account = account[i]]
    OBVIOUS
  <2>2. i \in There /\ i \in Ids /\ i \in 0..MaxIds /\ i <= lastId /\ account[i] \in AccountRows
    <3>1. i \in There
      BY DEF FoundBy, Alike
    <3>2. i \in Ids /\ account[i] \in AccountRows /\ i <= lastId
      BY <3>1 DEF There, AccountsInv, AccountsTypes, IdsOnce
    <3>3. QED
      BY <3>1, <3>2, AccountsAssumption DEF Ids
  <2>3. /\ q \in Acts /\ q.at = "again" /\ q.id = i /\ q.link = act[r].link /\ q.account = account[i]
        /\ q.kind = act[r].kind
    BY <1>1, <2>1, <2>2 DEF Acts, Spots
  <2>4. Carries(q)
    BY <1>1, <2>2, <2>3 DEF Carries
  <2>5. Mid(q) /\ ~Mid(act[r]) /\ Fits(q, account[i])
    BY <1>1, <2>3 DEF Mid, Fits
  <2>6. QED
    BY <1>1, <1>3, <2>1, <2>2, <2>3, <2>4, <2>5, ReadInv
<1>4. QED
  BY <1>1, <1>2, <1>3 DEF UserObject

LEMMA ReadProfileInv == ASSUME AccountsInv, NEW r \in Clients, ReadProfile(r) PROVE AccountsInv'
<1>1. /\ act[r] \in Acts /\ Carries(act[r]) /\ act[r].at = "profile"
      /\ UNCHANGED <<accountRows, linkVars, asked, due, spent>>
  BY DEF AccountsInv, AccountsTypes, Carrying, ReadProfile
<1>2. CASE act[r].id \notin There
  BY <1>1, <1>2, StopsInv DEF ReadProfile
<1>3. CASE act[r].id \in There
  <2>1. PICK i \in There : i = act[r].id
    BY <1>3
  <2>2. account[i] \in AccountRows /\ i <= lastId /\ act[r].kind = "profile" /\ i \in 0..MaxIds
    BY <1>1, <2>1 DEF There, AccountsInv, AccountsTypes, Carries, Acts
  <2>3. PICK w : w = [account[i] EXCEPT !.pass = Given(act[r].pass, account[i].pass)]
    OBVIOUS
  <2>4. /\ w = [login |-> account[i].login, pass |-> Given(act[r].pass, account[i].pass),
                  active |-> account[i].active]
        /\ w \in AccountRows
    BY <1>1, <2>2, <2>3 DEF AccountRows, Given, Acts
  <2>5. PICK q : q = [act[r] EXCEPT !.at = "write", !.account = w]
    OBVIOUS
  <2>6. Moves(r, q) /\ Read(r, i)
    BY <1>3, <2>1, <2>2, <2>3, <2>5 DEF ReadProfile, AccountRows
  <2>7. /\ q \in Acts /\ q.at = "write" /\ q.id = i /\ q.link = act[r].link /\ q.account = w
        /\ q.kind = "profile" /\ q.pass = act[r].pass
    BY <1>1, <2>1, <2>2, <2>4, <2>5 DEF Acts, Spots
  <2>8. Carries(q)
    BY <1>1, <2>2, <2>4, <2>7 DEF Carries
  <2>9. Mid(q) /\ ~Mid(act[r]) /\ Fits(q, account[i])
    BY <1>1, <2>4, <2>7 DEF Mid, Fits, AsAskedBy, AccountRow
  <2>10. q.link = NoLink
    BY <2>7, <2>8 DEF Carries
  <2>11. QED
    BY <1>1, <2>6, <2>7, <2>8, <2>9, <2>10, ReadInv
<1>4. QED
  BY <1>2, <1>3

LEMMA EditUserInv ==
    ASSUME AccountsInv, NEW r \in Clients, NEW i \in Ids, NEW l \in Logins, NEW a \in BOOLEAN,
           NEW p \in Passwords \cup {NoPass}, EditUser(r, i, l, a, p)
    PROVE  AccountsInv'
<1>1. PICK w : w = AccountRow(l, Given(p, account[i].pass), a)
  OBVIOUS
<1>2. PICK q : q = [Start("write", "admin") EXCEPT !.id = i, !.pass = p, !.account = w]
  OBVIOUS
<1>3. /\ act[r] = AtRest /\ i \in There /\ Moves(r, q) /\ Read(r, i)
      /\ UNCHANGED <<accountRows, linkVars, asked, due, spent>>
  BY <1>1, <1>2 DEF EditUser
<1>4. account[i] \in AccountRows /\ i <= lastId /\ i \in 0..MaxIds
  BY <1>3, AccountsAssumption DEF There, Ids, AccountsInv, AccountsTypes, IdsOnce
<1>5. w = [login |-> l, pass |-> Given(p, account[i].pass), active |-> a] /\ w \in AccountRows
  BY <1>1, <1>4 DEF AccountRow, AccountRows, Given
<1>6. q = [at |-> "write", kind |-> "admin", login |-> NoLogin, id |-> i, link |-> NoLink,
           pass |-> p, account |-> w, todo |-> {}]
  BY <1>2, StartType
<1>7. q \in Acts
  BY <1>4, <1>5, <1>6, AccountsAssumption DEF Acts, Spots, Kinds, NoLink
<1>8. Carries(q) /\ ~Mid(act[r]) /\ Mid(q)
  BY <1>3, <1>4, <1>5, <1>6, RestType DEF Carries, Mid
<1>9. Fits(q, account[i])
  BY <1>5, <1>6 DEF Fits, AsAskedBy, AccountRow
<1>10. QED
  BY <1>3, <1>6, <1>7, <1>8, <1>9, ReadInv

------------------------------------------------------------------------------
\* A row is written.
LEMMA WriteInv ==
    ASSUME AccountsInv, NEW r \in Clients, WriteRow(r), NEW q \in Acts, Moves(r, q), Carries(q),
           ~Mid(q), q.at \notin {"user", "delete"}, due' \in [Logins -> Nat],
           \A l \in Logins : due'[l] = due[l] \/ due'[l] = NoLink,
           q.at \in {"old keys", "old"} => \A l \in Logins : due'[l] # q.link
    PROVE  AccountsInv'
<1>1. /\ AccountsTypes /\ act[r] \in Acts /\ act[r].at = "write" /\ act[r].account \in AccountRows
      /\ act[r].kind \in {"link", "profile", "admin"}
      /\ UNCHANGED <<lastId, link, left, lastLink, overlapped, spent>>
  BY DEF AccountsInv, AccountsTypes, linkVars, WriteRow, Carrying, Carries
<1>2. act' \in [Clients -> Acts] /\ act'[r] = q /\ \A o \in Clients \ {r} : act'[o] = act[o]
  BY <1>1, MovesEffect
<1>3. PICK i : i = act[r].id
  OBVIOUS
<1>4. /\ There' = There /\ account' \in [Ids -> AccountRows \cup {NoAccount}]
      /\ asked' \in [Ids -> AccountRows \cup {NoAccount}]
      /\ \A j \in Ids \ {i} : account'[j] = account[j] /\ asked'[j] = asked[j]
      /\ i \in There \ overlapped => account'[i] = asked'[i]
  <2>1. CASE i \notin There
    BY <1>1, <1>3, <2>1 DEF WriteRow, AccountsTypes, There
  <2>2. CASE i \in There
    <3>1. PICK w : w = IF i \in overlapped THEN act[r].account ELSE AsAskedBy(act[r], asked[i])
      OBVIOUS
    <3>2. /\ account' = [account EXCEPT ![i] = act[r].account] /\ asked' = [asked EXCEPT ![i] = w]
          /\ i \in Ids
      BY <1>3, <2>2, <3>1 DEF WriteRow, There
    <3>3. w = act[r].account
      <4>1. CASE i \in overlapped
        BY <3>1, <4>1
      <4>2. CASE i \notin overlapped
        <5>1. asked[i] = account[i] /\ act[r].account = AsAskedBy(act[r], account[i])
          <6>1. Fits(act[r], account[i])
            BY <1>1, <1>3, <2>2, <4>2, StillFits DEF Mid
          <6>2. asked[i] = account[i]
            BY <2>2, <4>2 DEF AccountsInv, AsAsked
          <6>3. QED
            BY <1>1, <6>1, <6>2 DEF Fits
        <5>2. QED
          BY <3>1, <4>2, <5>1
      <4>3. QED
        BY <4>1, <4>2
    <3>4. There' = There
      BY <1>1, <2>2, <3>2, NoAccountAssumption DEF There, AccountsTypes
    <3>5. QED
      BY <1>1, <3>2, <3>3, <3>4 DEF AccountsTypes
  <2>3. QED
    BY <2>1, <2>2
<1>5. AccountsTypes'
  BY <1>1, <1>2, <1>4 DEF AccountsTypes
<1>6. Carrying'
  BY <1>1, <1>2 DEF AccountsInv, Carrying, Carries
<1>7. IdsOnce'
  BY <1>1, <1>4 DEF AccountsInv, IdsOnce
<1>8. AsAsked'
  BY <1>1, <1>4 DEF AccountsInv, AsAsked, There
<1>9. Steady'
  <2>1. ASSUME NEW o \in Clients, Mid(act'[o]), act'[o].id \in There \ overlapped
        PROVE  /\ Fits(act'[o], account'[act'[o].id])
               /\ \A p \in Clients : Mid(act'[p]) /\ act'[p].id = act'[o].id => p = o
    <3>1. o # r /\ act'[o] = act[o]
      BY <2>1, <1>2
    <3>2. /\ Fits(act[o], account[act[o].id])
          /\ \A p \in Clients : Mid(act[p]) /\ act[p].id = act[o].id => p = o
      BY <2>1, <3>1 DEF AccountsInv, Steady
    <3>3. act[o].id # i /\ act[o].id \in Ids
      BY <2>1, <3>1, <3>2, <1>1, <1>3 DEF Mid, There
    <3>4. QED
      BY <3>1, <3>2, <3>3, <1>2, <1>4
  <2>2. QED
    BY <2>1, <1>1, <1>4 DEF Steady
<1>10. LinksOnce' /\ SpentGone'
  <2>1. lastLink \in Nat /\ \A l \in Logins : due[l] <= lastLink
    BY <1>1 DEF AccountsInv, AccountsTypes, LinksOnce
  <2>2. ASSUME NEW l \in Logins PROVE due'[l] <= lastLink
    <3>1. NoLink <= lastLink
      BY <2>1, NoLinkIs
    <3>2. QED
      BY <2>1, <3>1
  <2>3. QED
    BY <2>2, <1>1 DEF AccountsInv, LinksOnce, SpentGone
<1>11. LinkServes'
  <2>1. ASSUME NEW o \in Clients, NEW t \in spent PROVE ~(act'[o].link = t /\ (act'[o].at = "user" \/ Mid(act'[o])))
    <3>1. ~(act[o].link = t /\ (act[o].at = "user" \/ Mid(act[o])))
      BY <2>1 DEF AccountsInv, LinkServes, Passed, Mid
    <3>2. QED
      BY <3>1, <2>1, <1>2
  <2>2. QED
    BY <2>1, <1>1 DEF AccountsInv, LinkServes, Passed, Mid
<1>12. OldLinks'
  <2>1. ASSUME NEW o \in Clients PROVE Used(act'[o], due', link)
    <3>1. CASE o = r
      BY <3>1, <1>2 DEF Used
    <3>2. CASE o # r
      <4>1. act'[o] = act[o] /\ Used(act[o], due, link) /\ Carries(act[o])
        BY <3>2, <1>2 DEF AccountsInv, OldLinks, Carrying
      <4>2. act[o].at \in {"old keys", "old", "delete"} => act[o].link # NoLink
        <5>1. NoLink \notin 1..lastLink
          <6>1. lastLink \in Nat
            BY <1>1 DEF AccountsTypes
          <6>2. QED
            BY <6>1, NoLinkIs
        <5>2. QED
          BY <4>1, <5>1 DEF Carries
      <4>3. act[o].at = "delete" => act[o].login \in Logins
        BY <4>1 DEF Carries
      <4>4. QED
        BY <4>1, <4>2, <4>3 DEF Used
    <3>3. QED
      BY <3>1, <3>2
  <2>2. QED
    BY <2>1, <1>1 DEF OldLinks
<1>13. QED
  BY <1>5, <1>6, <1>7, <1>8, <1>9, <1>10, <1>11, <1>12 DEF AccountsInv

LEMMA ActivateInv == ASSUME AccountsInv, NEW r \in Clients, Activate(r) PROVE AccountsInv'
<1>1. PICK t : t = act[r].link
  OBVIOUS
<1>2. PICK q : q = [Start("old keys", "link") EXCEPT !.link = t]
  OBVIOUS
<1>3. /\ WriteRow(r) /\ Moves(r, q) /\ AccountsTypes /\ t \in 1..lastLink
      /\ due' = [l \in Logins |-> IF due[l] = t THEN NoLink ELSE due[l]]
  BY <1>1, <1>2 DEF Activate, AccountsInv, Carrying, Carries
<1>4. q = [at |-> "old keys", kind |-> "link", login |-> NoLogin, id |-> 0, link |-> t,
           pass |-> NoPass, account |-> NoAccount, todo |-> {}]
  BY <1>2, StartType
<1>5. t \in Nat /\ t # NoLink /\ lastId \in Nat
  BY <1>3 DEF AccountsTypes, NoLink
<1>6. q \in Acts
  <2>1. "old keys" \in Spots /\ "link" \in Kinds /\ 0 \in 0..MaxIds /\ {} \in SUBSET Logins
    BY AccountsAssumption DEF Spots, Kinds
  <2>2. QED
    BY <1>4, <1>5, <2>1 DEF Acts
<1>7. Carries(q)
  <2>1. q.at = "old keys" /\ q.kind = "link" /\ q.link = t /\ q.id = 0
    BY <1>4
  <2>2. 0 <= lastId
    BY <1>5
  <2>3. QED
    BY <1>3, <2>1, <2>2 DEF Carries
<1>8. /\ due' \in [Logins -> Nat] /\ \A l \in Logins : due'[l] = due[l] \/ due'[l] = NoLink
      /\ \A l \in Logins : due'[l] # q.link
  BY <1>3, <1>4, <1>5 DEF AccountsTypes, NoLink
<1>9. QED
  BY <1>3, <1>4, <1>6, <1>7, <1>8, WriteInv DEF Mid

LEMMA SaveRowInv == ASSUME AccountsInv, NEW r \in Clients, SaveRow(r) PROVE AccountsInv'
<1>1. WriteRow(r) /\ Moves(r, AtRest) /\ due' = due /\ due \in [Logins -> Nat]
  BY DEF SaveRow, Done, AccountsInv, AccountsTypes
<1>2. Carries(AtRest)
  BY RestType DEF Carries, AccountsInv, AccountsTypes
<1>3. QED
  BY <1>1, <1>2, RestType, WriteInv DEF Mid
------------------------------------------------------------------------------
\* The other steps of the accounts and the links.
LEMMA CreateUserInv == ASSUME AccountsInv, NEW r \in Clients, CreateUser(r) PROVE AccountsInv'
<1>1. /\ AccountsTypes /\ act[r] \in Acts /\ act[r].login \in Logins /\ act[r].pass \in Passwords
      /\ UNCHANGED <<link, left, lastLink, overlapped, due, spent>>
  BY DEF CreateUser, AccountsInv, AccountsTypes, Carrying, Carries, linkVars
<1>2. CASE Done(r) /\ UNCHANGED <<account, lastId, asked>>
  BY <1>1, <1>2, StopsInv DEF accountRows, linkVars
<1>3. ASSUME lastId # MaxIds, NEW i, i = lastId + 1, NEW w, w = AccountRow(act[r].login, act[r].pass, FALSE),
             lastId' = i, account' = [account EXCEPT ![i] = w], asked' = [asked EXCEPT ![i] = w],
             NEW q, q = [Start("link", "register") EXCEPT !.login = act[r].login], Moves(r, q)
      PROVE  AccountsInv'
  <2>1. 1 \in There \/ lastId >= 0
    BY <1>1 DEF AccountsTypes
  <2>2. i \in Nat /\ lastId < i /\ i \notin There /\ lastId \in Nat
    BY <1>1, <1>3 DEF AccountsInv, AccountsTypes, IdsOnce, There, Ids
  <2>3. w \in AccountRows
    BY <1>1, <1>3 DEF AccountRow, AccountRows
  <2>4. q = [at |-> "link", kind |-> "register", login |-> act[r].login, id |-> 0, link |-> NoLink,
             pass |-> NoPass, account |-> NoAccount, todo |-> {}]
    BY <1>3, StartType
  <2>5. q \in Acts
    <3>1. "link" \in Spots /\ "register" \in Kinds /\ 0 \in 0..MaxIds /\ NoLink \in Nat
      BY AccountsAssumption, NoLinkIs DEF Spots, Kinds
    <3>2. QED
      BY <1>1, <2>4, <3>1 DEF Acts
  <2>6. act' \in [Clients -> Acts] /\ act'[r] = q /\ \A o \in Clients \ {r} : act'[o] = act[o]
    BY <1>1, <1>3, <2>5, MovesEffect
  <2>7. /\ account' \in [Ids -> AccountRows \cup {NoAccount}]
        /\ asked' \in [Ids -> AccountRows \cup {NoAccount}]
        /\ \A j \in Ids \ {i} : account'[j] = account[j] /\ asked'[j] = asked[j]
        /\ i \in Ids => account'[i] = w /\ asked'[i] = w
    BY <1>1, <1>3, <2>3 DEF AccountsTypes
  <2>8. There' \subseteq There \cup {i} /\ There \subseteq There'
    BY <2>2, <2>7 DEF There
  <2>9. AccountsTypes'
    BY <1>1, <1>3, <2>2, <2>6, <2>7 DEF AccountsTypes
  <2>10. Carrying'
    <3>1. ASSUME NEW o \in Clients PROVE Carries(act[o])' \/ o = r
      <4>1. Carries(act[o]) /\ act[o] \in Acts
        BY <1>1 DEF AccountsInv, AccountsTypes, Carrying
      <4>2. act[o].id \in Nat /\ act[o].id <= lastId
        <5>1. act[o].id \in 0..MaxIds
          BY <4>1 DEF Acts
        <5>2. act[o].id \in Nat
          BY <5>1
        <5>3. act[o].id <= lastId
          BY <4>1 DEF Carries
        <5>4. QED
          BY <5>2, <5>3
      <4>3. act[o].id <= lastId'
        BY <4>2, <1>3, <2>2
      <4>4. CASE o # r
        <5>1. act'[o] = act[o] /\ lastLink' = lastLink
          BY <4>4, <1>1, <1>3, <2>6
        <5>2. QED
          BY <4>1, <4>3, <5>1 DEF Carries
      <4>5. QED
        BY <4>4
    <3>2. Carries(act[r])'
      BY <1>1, <1>3, <2>2, <2>4, <2>6 DEF Carries
    <3>3. QED
      BY <3>1, <3>2 DEF Carrying
  <2>11. IdsOnce'
    <3>1. \A j \in There : j \in Nat /\ j <= lastId
      BY DEF AccountsInv, IdsOnce, There, Ids
    <3>2. QED
      BY <1>3, <2>2, <2>8, <3>1 DEF IdsOnce
  <2>12. AsAsked'
    BY <1>1, <2>7, <2>8 DEF AccountsInv, AsAsked, There
  <2>13. Steady'
    <3>1. ASSUME NEW o \in Clients, Mid(act'[o]), act'[o].id \in There' \ overlapped
          PROVE  /\ Fits(act'[o], account'[act'[o].id])
                 /\ \A p \in Clients : Mid(act'[p]) /\ act'[p].id = act'[o].id => p = o
      <4>1. o # r /\ act'[o] = act[o] /\ \A p \in Clients : Mid(act'[p]) => act'[p] = act[p]
        BY <2>4, <2>6, <3>1 DEF Mid
      <4>2. act[o].id # i
        <5>1. act[o] \in Acts /\ Carries(act[o])
          BY DEF AccountsInv, AccountsTypes, Carrying
        <5>2. act[o].id \in 0..MaxIds
          BY <5>1 DEF Acts
        <5>3. act[o].id <= lastId
          BY <5>1 DEF Carries
        <5>4. QED
          BY <5>2, <5>3, <1>3, <2>2
      <4>3. act[o].id \in There /\ account'[act[o].id] = account[act[o].id]
        BY <2>7, <2>8, <3>1, <4>1, <4>2 DEF There
      <4>4. QED
        BY <3>1, <4>1, <4>3 DEF AccountsInv, Steady
    <3>2. QED
      BY <3>1, <1>1 DEF Steady
  <2>14. LinksOnce' /\ SpentGone'
    BY <1>1 DEF AccountsInv, LinksOnce, SpentGone
  <2>15. LinkServes'
    BY <1>1, <2>4, <2>6 DEF AccountsInv, LinkServes, Passed
  <2>16. OldLinks'
    <3>1. Used(q, due, link)
      BY <2>4 DEF Used
    <3>2. QED
      BY <3>1, <1>1, <2>6 DEF AccountsInv, OldLinks
  <2>17. QED
    BY <2>9, <2>10, <2>11, <2>12, <2>13, <2>14, <2>15, <2>16 DEF AccountsInv
<1>4. QED
  BY <1>1, <1>2, <1>3 DEF CreateUser, accountRows

\* The rows stay and a request comes to rest, or looks at the next key.
LEMMA RowsStay ==
    ASSUME AccountsInv, NEW r \in Clients, NEW q \in Acts, Moves(r, q), ~Mid(q),
           UNCHANGED <<account, lastId, asked, overlapped>>, lastLink' \in Nat, lastLink <= lastLink',
           IF q.kind = "link" THEN q.link \in 1..lastLink ELSE q.link = NoLink,
           q.at \in {"idle", "old"}, q.at = "old" => q.kind = "link", q.id <= lastId
    PROVE  /\ Carrying' /\ IdsOnce' /\ AsAsked' /\ Steady'
           /\ act' \in [Clients -> Acts] /\ act'[r] = q /\ \A o \in Clients \ {r} : act'[o] = act[o]
<1>1. AccountsTypes /\ There' = There
  BY DEF AccountsInv, There
<1>2. act' \in [Clients -> Acts] /\ act'[r] = q /\ \A o \in Clients \ {r} : act'[o] = act[o]
  BY <1>1, MovesEffect
<1>3. \A n \in Nat : n \in 1..lastLink => n \in 1..lastLink'
  BY <1>1 DEF AccountsTypes
<1>4. Carrying'
  <2>1. ASSUME NEW o \in Clients PROVE Carries(act[o])'
    <3>1. CASE o = r
      BY <3>1, <1>2, <1>3 DEF Carries, Mid, Acts
    <3>2. CASE o # r
      <4>1. Carries(act[o]) /\ act[o].link \in Nat
        BY <1>1 DEF AccountsInv, AccountsTypes, Carrying, Acts
      <4>2. QED
        BY <3>2, <4>1, <1>2, <1>3 DEF Carries
    <3>3. QED
      BY <3>1, <3>2
  <2>2. QED
    BY <2>1 DEF Carrying
<1>5. IdsOnce' /\ AsAsked'
  BY <1>1 DEF AccountsInv, IdsOnce, AsAsked
<1>6. Steady'
  <2>1. \A o \in Clients : Mid(act'[o]) => act'[o] = act[o]
    BY <1>2
  <2>2. QED
    BY <2>1, <1>1 DEF AccountsInv, Steady
<1>7. QED
  BY <1>2, <1>4, <1>5, <1>6

LEMMA GenerateTokenInv == ASSUME AccountsInv, NEW r \in Clients, GenerateToken(r) PROVE AccountsInv'
<1>1. PICK l \in Logins : l = act[r].login
  BY DEF GenerateToken, AccountsInv, Carrying, Carries
<1>2. PICK t : t = lastLink + 1
  OBVIOUS
<1>3. /\ AccountsTypes /\ act[r].at = "link" /\ lastLink' = t /\ Moves(r, AtRest)
      /\ UNCHANGED <<account, lastId, asked, overlapped, spent>>
      /\ lastLink \in Nat /\ t \in Nat /\ lastLink < t /\ lastLink <= t
  BY <1>2 DEF AccountsInv, AccountsTypes, GenerateToken, Done, accountRows
<1>4. PICK d \in Nat : /\ d = IF \E o \in Clients : act[o].at = "delete" /\ act[o].login = l THEN NoLink ELSE t
  BY <1>3, NoLinkIs
<1>5. \/ /\ link' = [link EXCEPT ![l] = t] /\ left' = [left EXCEPT ![l] = LinkLife]
         /\ due' = [due EXCEPT ![l] = d]
      \/ UNCHANGED <<link, left, due>>
  BY <1>1, <1>2, <1>4 DEF GenerateToken, Hold
<1>6. /\ link' \in [Logins -> Nat] /\ left' \in [Logins -> Nat] /\ due' \in [Logins -> Nat]
      /\ \A m \in Logins \ {l} : link'[m] = link[m] /\ due'[m] = due[m]
      /\ (link'[l] = t /\ due'[l] = d) \/ (link'[l] = link[l] /\ due'[l] = due[l])
  BY <1>3, <1>4, <1>5, AccountsAssumption DEF AccountsTypes
<1>7. \A m \in Logins : link[m] \in Nat /\ link[m] <= lastLink /\ due[m] \in Nat /\ due[m] <= lastLink
  BY <1>3 DEF AccountsInv, AccountsTypes, LinksOnce
<1>8. ~Mid(AtRest) /\ AtRest.id <= lastId
  BY <1>3, RestType DEF Mid, AccountsTypes
<1>9. /\ Carrying' /\ IdsOnce' /\ AsAsked' /\ Steady'
      /\ act' \in [Clients -> Acts] /\ act'[r] = AtRest /\ \A o \in Clients \ {r} : act'[o] = act[o]
  BY <1>3, <1>8, RestType, RowsStay
<1>10. AccountsTypes'
  BY <1>3, <1>6, <1>9 DEF AccountsTypes
<1>11. LinksOnce'
  <2>1. \A m \in Logins : link'[m] <= t /\ due'[m] <= t
    BY <1>3, <1>4, <1>6, <1>7, NoLinkIs
  <2>2. \A m, n \in Logins : link'[m] # NoLink /\ link'[m] = link'[n] => m = n
    <3>1. \A m \in Logins : link[m] # t
      BY <1>3, <1>7
    <3>2. QED
      BY <3>1, <1>6 DEF AccountsInv, LinksOnce
  <2>3. QED
    BY <2>1, <2>2, <1>3 DEF LinksOnce
<1>12. LinkServes'
  <2>1. \A m \in Logins : due'[m] # NoLink => link'[m] = due'[m]
    BY <1>4, <1>6 DEF AccountsInv, LinkServes
  <2>2. QED
    BY <2>1, <1>3, <1>9, RestType DEF AccountsInv, LinkServes, Passed
<1>13. OldLinks'
  <2>1. ASSUME NEW o \in Clients PROVE Used(act'[o], due', link')
    <3>1. CASE o = r
      BY <3>1, <1>9, RestType DEF Used
    <3>2. CASE o # r
      <4>1. act'[o] = act[o] /\ Used(act[o], due, link) /\ Carries(act[o]) /\ act[o].link \in Nat
        BY <3>2, <1>3, <1>9 DEF AccountsInv, AccountsTypes, OldLinks, Carrying, Acts
      <4>2. act[o].at \in {"old keys", "old", "delete"} => act[o].link \in 1..lastLink
        BY <4>1 DEF Carries
      <4>3. act[o].at \in {"old keys", "old", "delete"} => act[o].link # t /\ act[o].link # NoLink
        <5>1. ASSUME NEW n \in 1..lastLink PROVE n # t /\ n # NoLink
          <6>1. n # t
            BY <5>1, <1>3
          <6>2. n # NoLink
            BY <5>1, <1>3 DEF NoLink
          <6>3. QED
            BY <6>1, <6>2
        <5>2. QED
          BY <4>2, <5>1
      <4>4. act[o].at = "delete" => act[o].login \in Logins /\ (act[o].login = l => d = NoLink)
        BY <4>1, <1>4 DEF Carries
      <4>5. act[o].at \in {"old keys", "old", "delete"} => \A m \in Logins : due'[m] # act[o].link
        BY <4>1, <4>3, <1>4, <1>6 DEF Used
      <4>6. ASSUME act[o].at = "delete"
            PROVE  due'[act[o].login] = NoLink /\ \A m \in Logins \ {act[o].login} : link'[m] # act[o].link
        <5>1. due[act[o].login] = NoLink /\ \A m \in Logins \ {act[o].login} : link[m] # act[o].link
          BY <4>1, <4>6 DEF Used
        <5>2. QED
          BY <4>3, <4>4, <4>6, <5>1, <1>6
      <4>7. QED
        BY <4>1, <4>5, <4>6 DEF Used
    <3>3. QED
      BY <3>1, <3>2
  <2>2. QED
    BY <2>1 DEF OldLinks
<1>14. SpentGone'
  <2>1. \A n \in spent : n \in 1..lastLink /\ n # t /\ n \in 1..t
    BY <1>3 DEF AccountsInv, SpentGone
  <2>2. QED
    BY <2>1, <1>3, <1>6 DEF AccountsInv, SpentGone
<1>15. QED
  BY <1>9, <1>10, <1>11, <1>12, <1>13, <1>14 DEF AccountsInv

LEMMA LinksAgeInv == ASSUME AccountsInv, LinksAge PROVE AccountsInv'
<1>1. /\ AccountsTypes /\ UNCHANGED <<account, lastId, lastLink, act, asked, overlapped, spent>>
      /\ left' = [l \in Logins |-> IF left[l] > 0 THEN left[l] - 1 ELSE 0]
      /\ link' = [l \in Logins |-> IF left[l] > 1 THEN link[l] ELSE NoLink]
      /\ due'  = [l \in Logins |-> IF left[l] > 1 THEN due[l] ELSE NoLink]
  BY DEF AccountsInv, LinksAge, accountRows
<1>2. /\ left' \in [Logins -> Nat] /\ link' \in [Logins -> Nat] /\ due' \in [Logins -> Nat]
      /\ \A l \in Logins : \/ link'[l] = link[l] /\ due'[l] = due[l]
                           \/ link'[l] = NoLink /\ due'[l] = NoLink
  BY <1>1, NoLinkIs DEF AccountsTypes
<1>3. AccountsTypes'
  BY <1>1, <1>2 DEF AccountsTypes
<1>4. There' = There
  BY <1>1 DEF There
<1>5. Carrying' /\ IdsOnce' /\ AsAsked' /\ Steady'
  BY <1>1, <1>4 DEF AccountsInv, Carrying, Carries, IdsOnce, AsAsked, Steady
<1>6. LinksOnce'
  <2>1. lastLink \in Nat /\ NoLink <= lastLink
    BY <1>1, NoLinkIs DEF AccountsTypes
  <2>2. QED
    BY <2>1, <1>1, <1>2 DEF AccountsInv, LinksOnce
<1>7. LinkServes'
  BY <1>1, <1>2 DEF AccountsInv, LinkServes, Passed
<1>8. OldLinks' /\ SpentGone'
  <2>1. lastLink \in Nat /\ NoLink \notin 1..lastLink
    BY <1>1, NoLinkIs DEF AccountsTypes
  <2>2. ASSUME NEW o \in Clients PROVE Used(act[o], due', link')
    <3>1. /\ Used(act[o], due, link)
          /\ act[o].at \in {"old keys", "old", "delete"} => act[o].link # NoLink
          /\ act[o].at = "delete" => act[o].login \in Logins
      BY <2>1 DEF AccountsInv, OldLinks, Carrying, Carries
    <3>2. QED
      BY <3>1, <1>2 DEF Used
  <2>3. OldLinks'
    BY <2>2, <1>1 DEF OldLinks
  <2>4. SpentGone'
    BY <2>1, <1>1, <1>2 DEF AccountsInv, SpentGone
  <2>5. QED
    BY <2>3, <2>4
<1>9. QED
  BY <1>3, <1>5, <1>6, <1>7, <1>8 DEF AccountsInv

LEMMA DeleteOldInv == ASSUME AccountsInv, NEW r \in Clients, DeleteOld(r) PROVE AccountsInv'
<1>1. /\ AccountsTypes /\ act[r] \in Acts /\ Carries(act[r]) /\ Used(act[r], due, link) /\ act[r].at = "delete"
      /\ UNCHANGED <<account, lastId, lastLink, asked, overlapped, due>>
  BY DEF AccountsInv, AccountsTypes, Carrying, OldLinks, DeleteOld, accountRows
<1>2. PICK l \in Logins : l = act[r].login
  BY <1>1 DEF Carries
<1>3. PICK t \in 1..lastLink : t = act[r].link
  BY <1>1 DEF Carries
<1>4. PICK q : q = [act[r] EXCEPT !.at = "old", !.login = NoLogin]
  OBVIOUS
<1>5. /\ link' = [link EXCEPT ![l] = NoLink] /\ left' = [left EXCEPT ![l] = 0]
      /\ spent' = IF \E o \in Clients : Passed(o, t) THEN spent ELSE spent \cup {t}
      /\ Moves(r, q)
  BY <1>2, <1>3, <1>4 DEF DeleteOld
<1>6. q \in Acts /\ q.at = "old" /\ q.link = t /\ q.kind = "link" /\ q.id <= lastId
  <2>1. act[r].kind = "link" /\ act[r].id <= lastId
    BY <1>1 DEF Carries
  <2>2. QED
    BY <1>1, <1>3, <1>4, <2>1 DEF Acts, Spots
<1>7. /\ link' \in [Logins -> Nat] /\ left' \in [Logins -> Nat] /\ link'[l] = NoLink
      /\ \A m \in Logins \ {l} : link'[m] = link[m]
  BY <1>1, <1>5, NoLinkIs DEF AccountsTypes
<1>8. lastLink' \in Nat /\ lastLink <= lastLink' /\ lastLink \in Nat /\ NoLink <= lastLink /\ t # NoLink
  BY <1>1, NoLinkIs DEF AccountsTypes
<1>9. /\ Carrying' /\ IdsOnce' /\ AsAsked' /\ Steady'
      /\ act' \in [Clients -> Acts] /\ act'[r] = q /\ \A o \in Clients \ {r} : act'[o] = act[o]
  BY <1>1, <1>5, <1>6, <1>8, RowsStay DEF Mid
<1>10. AccountsTypes'
  BY <1>1, <1>7, <1>9 DEF AccountsTypes
<1>11. LinksOnce'
  BY <1>1, <1>7, <1>8 DEF AccountsInv, LinksOnce
<1>12. due[l] = NoLink /\ \A m \in Logins \ {l} : link[m] # t
  BY <1>1, <1>2, <1>3 DEF Used
<1>13. LinkServes'
  <2>1. \A m \in Logins : due[m] # NoLink => link'[m] = due[m]
    BY <1>7, <1>12 DEF AccountsInv, LinkServes
  <2>2. ASSUME NEW o \in Clients, NEW n \in spent'
        PROVE  ~(act'[o].link = n /\ act'[o].at \in {"user", "again", "write"})
    <3>1. CASE o = r
      BY <3>1, <1>6, <1>9
    <3>2. CASE o # r
      <4>1. ~(act[o].link = n /\ act[o].at \in {"user", "again", "write"})
        BY <2>2, <1>5 DEF AccountsInv, LinkServes, Passed
      <4>2. QED
        BY <3>2, <4>1, <1>9
    <3>3. QED
      BY <3>1, <3>2
  <2>3. QED
    BY <2>1, <2>2, <1>1 DEF LinkServes, Passed
<1>14. OldLinks'
  <2>1. ASSUME NEW o \in Clients PROVE Used(act'[o], due, link')
    <3>1. CASE o = r
      BY <3>1, <1>1, <1>3, <1>6, <1>9 DEF Used
    <3>2. CASE o # r
      <4>1. /\ act'[o] = act[o] /\ Used(act[o], due, link)
            /\ act[o].at = "delete" => act[o].link # NoLink
        <5>1. NoLink \notin 1..lastLink
          BY <1>8, NoLinkIs
        <5>2. QED
          BY <5>1, <3>2, <1>9 DEF AccountsInv, OldLinks, Carrying, Carries
      <4>2. QED
        BY <4>1, <1>7 DEF Used
    <3>3. QED
      BY <3>1, <3>2
  <2>2. QED
    BY <2>1, <1>1 DEF OldLinks
<1>15. SpentGone'
  <2>1. spent' \subseteq spent \cup {t}
    BY <1>5
  <2>2. QED
    BY <2>1, <1>1, <1>7, <1>8, <1>12, NoLinkIs DEF AccountsInv, SpentGone
<1>16. QED
  BY <1>9, <1>10, <1>11, <1>13, <1>14, <1>15 DEF AccountsInv

LEMMA DeleteAccountInv == ASSUME AccountsInv, NEW i \in Ids, DeleteAccount(i) PROVE AccountsInv'
<1>1. /\ AccountsTypes /\ i \in There
      /\ account' = [account EXCEPT ![i] = NoAccount] /\ asked' = [asked EXCEPT ![i] = NoAccount]
      /\ overlapped' = overlapped \ {i}
      /\ UNCHANGED <<lastId, link, left, lastLink, act, due, spent>>
  BY DEF AccountsInv, DeleteAccount, linkVars
<1>2. /\ account' \in [Ids -> AccountRows \cup {NoAccount}] /\ asked' \in [Ids -> AccountRows \cup {NoAccount}]
      /\ account'[i] = NoAccount /\ \A j \in Ids \ {i} : account'[j] = account[j] /\ asked'[j] = asked[j]
  BY <1>1 DEF AccountsTypes
<1>3. There' = There \ {i}
  BY <1>2 DEF There
<1>4. AccountsTypes'
  BY <1>1, <1>2 DEF AccountsTypes
<1>5. Carrying'
  BY <1>1 DEF AccountsInv, Carrying, Carries
<1>6. IdsOnce' /\ AsAsked'
  BY <1>1, <1>2, <1>3 DEF AccountsInv, IdsOnce, AsAsked, There
<1>7. Steady'
  BY <1>1, <1>2, <1>3 DEF AccountsInv, Steady, There
<1>8. LinksOnce' /\ SpentGone'
  BY <1>1 DEF AccountsInv, LinksOnce, SpentGone
<1>9. LinkServes'
  BY <1>1 DEF AccountsInv, LinkServes, Passed
<1>10. OldLinks'
  BY <1>1 DEF AccountsInv, OldLinks
<1>11. QED
  BY <1>4, <1>5, <1>6, <1>7, <1>8, <1>9, <1>10 DEF AccountsInv
------------------------------------------------------------------------------
\* The invariant is inductive.
LEMMA AccountsInitInv == AccountsInit => AccountsInv
<1>1. SUFFICES ASSUME AccountsInit PROVE AccountsInv
  OBVIOUS
<1>2. PICK w \in AccountRows : account = [i \in Ids |-> IF i = 1 THEN w ELSE NoAccount]
  <2>1. PICK l \in Logins, p \in Passwords :
            account = [i \in Ids |-> IF i = 1 THEN AccountRow(l, p, TRUE) ELSE NoAccount]
    BY <1>1 DEF AccountsInit
  <2>2. AccountRow(l, p, TRUE) \in AccountRows
    BY DEF AccountRow, AccountRows
  <2>3. QED
    BY <2>1, <2>2
<1>3. /\ lastId = 1 /\ lastLink = 0 /\ asked = account /\ overlapped = {} /\ spent = {}
      /\ link = [l \in Logins |-> NoLink] /\ left = [l \in Logins |-> 0] /\ due = [l \in Logins |-> NoLink]
      /\ act = [r \in Clients |-> AtRest]
  BY <1>1 DEF AccountsInit
<1>4. AccountsTypes
  <2>1. account \in [Ids -> AccountRows \cup {NoAccount}]
    BY <1>2
  <2>2. act \in [Clients -> Acts]
    BY <1>3, RestType
  <2>3. link \in [Logins -> Nat] /\ left \in [Logins -> Nat] /\ due \in [Logins -> Nat]
    BY <1>3, NoLinkIs
  <2>4. QED
    BY <1>3, <2>1, <2>2, <2>3 DEF AccountsTypes
<1>5. \A r \in Clients : act[r] = AtRest
  BY <1>3
<1>6. Carrying /\ Steady /\ OldLinks
  <2>1. Carries(AtRest) /\ ~Mid(AtRest) /\ Used(AtRest, due, link)
    BY <1>3, RestType DEF Carries, Mid, Used
  <2>2. QED
    BY <1>5, <2>1 DEF Carrying, Steady, OldLinks
<1>7. IdsOnce
  BY <1>2, <1>3 DEF IdsOnce, There
<1>8. AsAsked /\ SpentGone
  BY <1>3 DEF AsAsked, SpentGone
<1>9. LinksOnce /\ LinkServes
  BY <1>3, NoLinkIs DEF LinksOnce, LinkServes
<1>10. QED
  BY <1>4, <1>6, <1>7, <1>8, <1>9 DEF AccountsInv

LEMMA AccountsStutter == ASSUME AccountsInv, UNCHANGED accountsVars PROVE AccountsInv'
<1>1. UNCHANGED <<account, lastId, link, left, lastLink, act, asked, overlapped, due, spent>>
  BY DEF accountsVars, accountRows, linkVars, accountNotes
<1>2. AccountsTypes' /\ Carrying' /\ IdsOnce' /\ AsAsked' /\ LinksOnce' /\ LinkServes' /\ OldLinks' /\ SpentGone'
  BY <1>1 DEF AccountsInv, AccountsTypes, Carrying, Carries, IdsOnce, There, AsAsked, LinksOnce,
              LinkServes, Passed, OldLinks, SpentGone
<1>3. Steady'
  BY <1>1 DEF AccountsInv, Steady, There
<1>4. QED
  BY <1>2, <1>3 DEF AccountsInv

LEMMA RequestKeeps ==
    ASSUME AccountsInv, NEW r \in Clients,
           \/ \E l \in Logins, p \in Passwords : Registration(r, l, p)
           \/ CreateUser(r) \/ GenerateToken(r)
           \/ \E i \in Ids : ChangeRequest(r, i)
           \/ \E t \in LinkIds, p \in Passwords \cup {NoPass} : UseLink(r, t, p)
           \/ ListLinks(r) \/ CheckLink(r) \/ UserObject(r) \/ ReadUserAgain(r) \/ Activate(r)
           \/ LookOld(r) \/ DeleteOld(r)
           \/ \E i \in Ids, p \in Passwords \cup {NoPass} : ChangeUser(r, i, p)
           \/ ReadProfile(r) \/ SaveRow(r)
           \/ \E i \in Ids, l \in Logins, a \in BOOLEAN, p \in Passwords \cup {NoPass} :
               EditUser(r, i, l, a, p)
           \/ CallFails(r)
    PROVE  AccountsInv'
<1>1. ASSUME NEW l \in Logins, NEW p \in Passwords, Registration(r, l, p) PROVE AccountsInv'
  BY <1>1, RegistrationInv
<1>2. ASSUME NEW i \in Ids, ChangeRequest(r, i) PROVE AccountsInv'
  BY <1>2, ChangeRequestInv
<1>3. ASSUME NEW t \in LinkIds, NEW p \in Passwords \cup {NoPass}, UseLink(r, t, p) PROVE AccountsInv'
  BY <1>3, UseLinkInv
<1>4. ASSUME NEW i \in Ids, NEW p \in Passwords \cup {NoPass}, ChangeUser(r, i, p) PROVE AccountsInv'
  BY <1>4, ChangeUserInv
<1>5. ASSUME NEW i \in Ids, NEW l \in Logins, NEW a \in BOOLEAN, NEW p \in Passwords \cup {NoPass},
             EditUser(r, i, l, a, p)
      PROVE  AccountsInv'
  BY <1>5, EditUserInv
<1>6. CreateUser(r) \/ GenerateToken(r) => AccountsInv'
  BY CreateUserInv, GenerateTokenInv
<1>7. ListLinks(r) \/ CheckLink(r) \/ UserObject(r) \/ ReadUserAgain(r) \/ Activate(r) => AccountsInv'
  BY ListLinksInv, CheckLinkInv, UserObjectInv, ReadUserAgainInv, ActivateInv
<1>8. LookOld(r) \/ DeleteOld(r) \/ ReadProfile(r) \/ SaveRow(r) \/ CallFails(r) => AccountsInv'
  BY LookOldInv, DeleteOldInv, ReadProfileInv, SaveRowInv, CallFailsInv
<1>9. QED
  BY <1>1, <1>2, <1>3, <1>4, <1>5, <1>6, <1>7, <1>8, Zenon

LEMMA AccountsKeeps == ASSUME AccountsInv, [AccountsNext]_accountsVars PROVE AccountsInv'
<1>1. CASE UNCHANGED accountsVars
  BY <1>1, AccountsStutter
<1>2. CASE LinksAge
  BY <1>2, LinksAgeInv
<1>3. ASSUME NEW i \in Ids, DeleteAccount(i) PROVE AccountsInv'
  BY <1>3, DeleteAccountInv
<1>4. CASE AccountsNext
  BY <1>2, <1>3, <1>4, RequestKeeps, Zenon DEF AccountsNext
<1>5. QED
  BY <1>1, <1>4

\* AsAsked for every number of accounts, links and requests: an account whose
\* changes did not overlap is what those who changed it asked for.
THEOREM AccountSafety == AccountsSpec => []AsAsked
<1>1. AccountsInit => AccountsInv
  BY AccountsInitInv
<1>2. AccountsInv /\ [AccountsNext]_accountsVars => AccountsInv'
  BY AccountsKeeps
<1>3. AccountsInv => AsAsked
  BY DEF AccountsInv
<1>4. QED
  BY <1>1, <1>2, <1>3, PTL DEF AccountsSpec

\* LinkServes: a link its owner counts on is in Redis, and one that was used and
\* deleted is refused.
THEOREM LinkSafety == AccountsSpec => []LinkServes
<1>1. AccountsInit => AccountsInv
  BY AccountsInitInv
<1>2. AccountsInv /\ [AccountsNext]_accountsVars => AccountsInv'
  BY AccountsKeeps
<1>3. AccountsInv => LinkServes
  BY DEF AccountsInv
<1>4. QED
  BY <1>1, <1>2, <1>3, PTL DEF AccountsSpec

------------------------------------------------------------------------------
(* Conversations: any number of handlers, messages and searches.           *)

\* A search as it is stored: what its page is, and what it is made again from.
Sound(s) ==
    /\ s.off \in Nat /\ s.off < MaxTotal /\ s.off % Limit = 0
    /\ Asked(Request(s))
    /\ s.type = "combined" => s.src.type = "combined"
    /\ KeepsTitle(s.src) => Meaning(Request(s)) = Meaning(s.src)

\* Messages as a conversation holds them.
Line(msgs) ==
    /\ msgs \in Seq(Nat) /\ (Len(msgs) > 1 => Total(msgs) <= Room)
    /\ \A i, j \in 1..Len(msgs) : i < j => msgs[i] < msgs[j]
    /\ \A i \in 1..Len(msgs) : floor < msgs[i] /\ msgs[i] <= made

\* What is stored and what is about to be stored are conversations.
Lines == /\ made \in Nat /\ floor \in Nat /\ floor <= made
         /\ Line(ctx.msgs)
         /\ \A h \in Handlers : hand[h].at = "write" => Line(hand[h].snap.msgs)

SoundIn(r) == /\ r.found # NoSearch => Sound(r.found)
              /\ r.snap.search # NoSearch => Sound(r.snap.search)
              /\ r.at = "turn" => r.found # NoSearch
Stored == /\ ctx.search # NoSearch => Sound(ctx.search)
          /\ \A h \in Handlers : SoundIn(hand[h])

\* Nobody is answering while a question waits.
Answering == \A h \in Handlers : hand[h].mode # "none" => hand[h].at = "search"
Waited    == awaited # "none" => mode = awaited /\ \A h \in Handlers : hand[h].mode = "none"

ConversationsInv == DOMAIN hand = Handlers /\ Lines /\ Stored /\ Answering /\ Waited

------------------------------------------------------------------------------
(* Searches.                                                               *)

\* Positions have a least.
LEMMA LeastPosition ==
    ASSUME NEW n \in Nat, NEW I \in SUBSET (1..n), I # {}
    PROVE  \E m \in I : \A i \in I : m <= i
<1> DEFINE R == OpToRel(<, Nat)
<1>1. IsWellFoundedOn(R, Nat)
  BY NatLessThanWellFounded
<1>2. \A i, j \in Nat : i < j => <<i, j>> \in R
  BY DEF OpToRel
<1>3. I \subseteq Nat
  OBVIOUS
<1> HIDE DEF R
<1>4. \E m \in I : \A i \in I : <<i, m>> \notin R
  BY <1>1, <1>3, WFMin
<1>5. PICK m \in I : \A i \in I : <<i, m>> \notin R
  BY <1>4
<1>6. ASSUME NEW i \in I PROVE m <= i
  <2>1. i \in Nat /\ m \in Nat /\ ~(i < m)
    BY <1>2, <1>3, <1>5
  <2>2. QED
    BY <2>1
<1>7. QED
  BY <1>5, <1>6

\* And a greatest.
LEMMA GreatestPosition ==
    ASSUME NEW n \in Nat, NEW I \in SUBSET (1..n), I # {}
    PROVE  \E m \in I : \A i \in I : i <= m
<1> DEFINE J == {n + 1 - i : i \in I}
<1>1. J \in SUBSET (1..n) /\ J # {}
  <2>1. ASSUME NEW j \in J PROVE j \in 1..n
    <3>1. PICK i \in I : j = n + 1 - i
      OBVIOUS
    <3>2. i \in 1..n
      OBVIOUS
    <3>3. QED
      BY <3>1, <3>2
  <2>2. QED
    BY <2>1
<1>2. \A i \in I : n + 1 - i \in J
  OBVIOUS
<1>3. \A j \in J : \E i \in I : j = n + 1 - i
  OBVIOUS
<1> HIDE DEF J
<1>4. PICK j \in J : \A k \in J : j <= k
  BY <1>1, LeastPosition
<1>5. PICK m \in I : j = n + 1 - m
  BY <1>3
<1>6. ASSUME NEW i \in I PROVE i <= m
  <2>1. n + 1 - m <= n + 1 - i
    BY <1>2, <1>4, <1>5
  <2>2. i \in Nat /\ m \in Nat
    OBVIOUS
  <2>3. QED
    BY <2>1, <2>2
<1>7. QED
  BY <1>6

\* The marks at the ends go, words stay.
LEMMA UnquotedText == ASSUME NEW t \in Seq(Words) PROVE Unquoted(t) \in Seq(Words)
<1> DEFINE I == {i \in 1..Len(t) : t[i] # "mark"}
<1>1. CASE I = {}
  BY <1>1, EmptySeq DEF Unquoted
<1>2. CASE I # {}
  <2>1. Len(t) \in Nat /\ \A k \in 1..Len(t) : t[k] \in Words
    BY LenProperties, ElementOfSeq
  <2>2. I \in SUBSET (1..Len(t))
    OBVIOUS
  <2> HIDE DEF I
  <2>3. PICK a \in I : \A i \in I : a <= i
    BY <1>2, <2>1, <2>2, LeastPosition
  <2>4. PICK b \in I : \A i \in I : i <= b
    BY <1>2, <2>1, <2>2, GreatestPosition
  <2>5. Min(I) \in I
    BY <2>3 DEF Min
  <2>6. Max(I) \in I
    BY <2>4 DEF Max
  <2>7. Min(I) \in 1..Len(t) /\ Max(I) \in 1..Len(t)
    BY <2>2, <2>5, <2>6
  <2>8. SubSeq(t, Min(I), Max(I)) \in Seq(Words)
    <3>1. PICK a2, b2 : a2 = Min(I) /\ b2 = Max(I)
      OBVIOUS
    <3>2. a2 \in Int /\ b2 \in Int /\ \A k \in a2..b2 : t[k] \in Words
      BY <2>1, <2>7, <3>1
    <3>3. SubSeq(t, a2, b2) \in Seq(Words)
      BY <3>2, SubSeqProperties
    <3>4. QED
      BY <3>1, <3>3
  <2>9. QED
    BY <1>2, <2>8 DEF Unquoted, I
<1>3. QED
  BY <1>1, <1>2

\* Two texts in one: the first keeps its places.
LEMMA TwoTexts ==
    ASSUME NEW S, NEW s \in Seq(S), NEW t \in Seq(S)
    PROVE  /\ s \o t \in Seq(S) /\ Len(s) \in Nat /\ Len(t) \in Nat
           /\ Len(s \o t) = Len(s) + Len(t)
           /\ \A i \in 1..Len(s) : (s \o t)[i] = s[i]
           /\ \A i \in 1..Len(t) : (s \o t)[Len(s) + i] = t[i]
<1>1. Len(s) \in Nat /\ Len(t) \in Nat
  BY LenProperties
<1>2. /\ s \o t \in Seq(S) /\ Len(s \o t) = Len(s) + Len(t)
      /\ \A i \in 1 .. Len(s) + Len(t) :
            (s \o t)[i] = IF i <= Len(s) THEN s[i] ELSE t[i - Len(s)]
  BY ConcatProperties
<1>3. ASSUME NEW i \in 1..Len(s) PROVE (s \o t)[i] = s[i]
  <2>1. i \in 1..Len(s) + Len(t) /\ i <= Len(s)
    BY <1>1
  <2>2. QED
    BY <1>2, <2>1
<1>4. ASSUME NEW i \in 1..Len(t) PROVE (s \o t)[Len(s) + i] = t[i]
  <2>1. Len(s) + i \in 1..Len(s) + Len(t) /\ ~(Len(s) + i <= Len(s)) /\ (Len(s) + i) - Len(s) = i
    BY <1>1
  <2>2. (s \o t)[Len(s) + i] = t[(Len(s) + i) - Len(s)]
    BY <1>2, <2>1
  <2>3. QED
    BY <2>1, <2>2
<1>5. QED
  BY <1>1, <1>2, <1>3, <1>4

\* The first "by" of a text whose beginning has none.
LEMMA FirstBy ==
    ASSUME NEW t \in Seq(Words), NEW u \in Seq(Words), "by" \notin ToSet(t)
    PROVE  SelectInSeq(t \o By \o u, LAMBDA w : w = "by") = Len(t) + 1
<1> DEFINE q == t \o By \o u
           I == {i \in 1..Len(q) : q[i] = "by"}
           n == Len(t) + 1
<1>1. By \in Seq(Words) /\ Len(By) = 1 /\ By[1] = "by"
  BY ConversationsAssumption DEF By
<1>2. /\ t \o By \in Seq(Words) /\ Len(t \o By) = n /\ Len(t) \in Nat /\ Len(u) \in Nat
      /\ \A i \in 1..Len(t) : (t \o By)[i] = t[i]
      /\ (t \o By)[n] = "by"
  <2>1. t \o By \in Seq(Words) /\ Len(t) \in Nat /\ Len(u) \in Nat
    BY <1>1, TwoTexts
  <2>2. Len(t \o By) = Len(t) + Len(By) /\ \A i \in 1..Len(t) : (t \o By)[i] = t[i]
    BY <1>1, TwoTexts
  <2>3. PICK b \in Seq(Words) : b = By
    BY <1>1
  <2>4. Len(b) = 1 /\ (t \o b)[Len(t) + Len(b)] = b[Len(b)]
    <3>1. Len(b) = 1
      BY <1>1, <2>3
    <3>2. Len(b) \in 1..Len(b)
      BY <3>1
    <3>3. \A i \in 1..Len(b) : (t \o b)[Len(t) + i] = b[i]
      BY TwoTexts
    <3>4. QED
      BY <3>1, <3>2, <3>3
  <2>5. QED
    BY <1>1, <2>1, <2>2, <2>3, <2>4
<1>3. /\ Len(q) = n + Len(u)
      /\ \A i \in 1..n : q[i] = (t \o By)[i]
  <2>1. PICK s : s = t \o By
    OBVIOUS
  <2>2. q = s \o u /\ s \in Seq(Words) /\ Len(s) = n
    BY <1>2, <2>1
  <2>3. Len(s \o u) = n + Len(u) /\ \A i \in 1..n : (s \o u)[i] = s[i]
    <3>1. Len(s \o u) = Len(s) + Len(u)
      BY <2>2, TwoTexts
    <3>2. \A i \in 1..Len(s) : (s \o u)[i] = s[i]
      BY <2>2, TwoTexts
    <3>3. QED
      BY <2>2, <3>1, <3>2
  <2>4. QED
    BY <2>1, <2>2, <2>3
<1>4. n \in I
  BY <1>2, <1>3
<1>5. \A i \in I : n <= i
  <2>1. ASSUME NEW i \in I, ~(n <= i) PROVE FALSE
    <3>1. i \in 1..Len(t) /\ q[i] = "by"
      BY <1>2, <1>3, <2>1
    <3>2. t[i] = "by"
      BY <1>2, <1>3, <3>1
    <3>3. DOMAIN t = 1..Len(t)
      BY LenProperties
    <3>4. QED
      BY <3>1, <3>2, <3>3 DEF ToSet
  <2>2. QED
    BY <2>1
<1>6. Min(I) = n
  <2>1. \A x \in I : (\A y \in I : x <= y) => x = n
    BY <1>2, <1>4, <1>5
  <2>2. QED
    BY <1>4, <1>5, <2>1 DEF Min
<1>7. QED
  BY <1>4, <1>6 DEF SelectInSeq

\* A title without "by" and without marks around it and an author come out of
\* the text as they went in.
LEMMA CutBack ==
    ASSUME NEW t \in Seq(Words), NEW u \in Seq(Words), "by" \notin ToSet(t), t # <<>>,
           Unquoted(t) = t
    PROVE  Cut(t \o By \o u) = IF u = <<>> THEN Ask("book", t, <<>>, 0) ELSE Ask("combined", t, u, 0)
<1> DEFINE q == t \o By \o u
           n == Len(t) + 1
<1>1. SelectInSeq(q, LAMBDA w : w = "by") = n
  BY FirstBy
<1>2. Len(t) \in Nat \ {0} /\ Len(u) \in Nat
  BY EmptySeq, LenProperties
<1>3. By \in Seq(Words) /\ Len(By) = 1
  BY ConversationsAssumption DEF By
<1>4. t \o By \in Seq(Words) /\ Len(t \o By) = n
  <2>1. t \o By \in Seq(Words) /\ Len(t \o By) = Len(t) + Len(By)
    BY <1>3, TwoTexts
  <2>2. QED
    BY <1>3, <2>1
<1>5. Len(q) = n + Len(u)
  BY <1>4, ConcatProperties
<1>6. SubSeq(q, 1, n - 1) = t
  <2>1. q = t \o (By \o u) /\ By \o u \in Seq(Words)
    BY <1>3, ConcatAssociative, ConcatProperties
  <2>2. SubSeq(q, 1, Len(t)) = SubSeq(t, 1, Len(t))
    BY <1>2, <2>1, SubSeqOfConcat1
  <2>3. QED
    BY <1>2, <2>2, SubSeqFull
<1>7. SubSeq(q, n + 1, Len(q)) = u
  <2>1. CASE u = <<>>
    <3>1. Len(q) < n + 1
      BY <1>2, <1>5, <2>1
    <3>2. QED
      BY <1>2, <1>5, <2>1, <3>1, SubSeqEmpty
  <2>2. CASE u # <<>>
    <3>1. Len(u) \in Nat \ {0}
      BY <2>2, EmptySeq
    <3>2. /\ n + 1 \in Len(t \o By) + 1 .. Len(t \o By) + Len(u)
          /\ Len(q) \in Len(t \o By) + 1 .. Len(t \o By) + Len(u)
      BY <1>2, <1>4, <1>5, <3>1
    <3>3. SubSeq(q, n + 1, Len(q)) = SubSeq(u, (n + 1) - n, Len(q) - n)
      BY <1>4, <3>2, SubSeqOfConcat2
    <3>4. (n + 1) - n = 1 /\ Len(q) - n = Len(u)
      BY <1>2, <1>5
    <3>5. QED
      BY <3>3, <3>4, SubSeqFull
  <2>3. QED
    BY <2>1, <2>2
<1>8. n # 0
  BY <1>2
<1> HIDE DEF q, n
<1>9. Cut(q) = IF t # <<>> /\ u # <<>> THEN Ask("combined", t, u, 0) ELSE Ask("book", t, <<>>, 0)
  BY <1>1, <1>6, <1>7, <1>8 DEF Cut
<1>10. QED
  BY <1>9 DEF q

\* Whatever the text: what is searched for again is a search.
LEMMA CutAsked == ASSUME NEW q \in Seq(Words) PROVE Asked(Cut(q))
<1>1. PICK i : i = SelectInSeq(q, LAMBDA w : w = "by")
  OBVIOUS
<1>2. <<>> \in Seq(Words) /\ 0 \in Nat
  BY EmptySeq
<1>3. CASE i = 0
  BY <1>1, <1>2, <1>3 DEF Cut, Asked, Ask, SearchTypes
<1>4. CASE i # 0
  <2>1. i \in 1..Len(q)
    <3>1. {k \in 1..Len(q) : q[k] = "by"} # {} /\ i = Min({k \in 1..Len(q) : q[k] = "by"})
      BY <1>1, <1>4 DEF SelectInSeq
    <3>2. \E k \in {k \in 1..Len(q) : q[k] = "by"} : \A j \in {j \in 1..Len(q) : q[j] = "by"} : k <= j
      BY <3>1, LeastPosition, LenProperties
    <3>3. QED
      BY <3>1, <3>2 DEF Min
  <2>2. Len(q) \in Nat /\ \A k \in 1..Len(q) : q[k] \in Words
    BY LenProperties, ElementOfSeq
  <2>3. SubSeq(q, 1, i - 1) \in Seq(Words) /\ SubSeq(q, i + 1, Len(q)) \in Seq(Words)
    BY <2>1, <2>2, SubSeqProperties
  <2>4. Unquoted(SubSeq(q, 1, i - 1)) \in Seq(Words)
    BY <2>3, UnquotedText
  <2>5. QED
    BY <1>1, <1>2, <1>4, <2>3, <2>4 DEF Cut, Asked, Ask, SearchTypes
<1>5. QED
  BY <1>3, <1>4

\* A page of a search leads back to the search.
LEMMA ResultsSound ==
    ASSUME NEW a, Asked(a), NEW off \in Nat, off % Limit = 0, NEW src,
           a.type = "combined" => src.type = "combined",
           KeepsTitle(src) => Meaning(a) = Meaning(src),
           NEW f \in Results(a, off, src), f # NoSearch
    PROVE  Sound(f)
<1>1. /\ a \in [type : SearchTypes, title : Seq(Words), author : Seq(Words), ref : Nat]
      /\ a.type \in {"author", "author_books", "favorites", "collections"} => a.title = <<>>
      /\ a.type \in {"book", "collection_books", "favorites", "collections"} => a.author = <<>>
      /\ a.type \notin {"author_books", "collection_books"} => a.ref = 0
  BY DEF Asked
<1>2. ASSUME NEW type, NEW query, NEW ref, f \in Page(type, query, ref, off, src),
             Asked(Request(f)),
             type = "combined" => src.type = "combined",
             KeepsTitle(src) => Meaning(Request(f)) = Meaning(src)
      PROVE  Sound(f)
  <2>1. off < MaxTotal /\ f = [type |-> type, query |-> query, ref |-> ref, off |-> off, src |-> src]
    BY <1>2 DEF Page
  <2>2. QED
    BY <1>2, <2>1 DEF Sound
<1>3. <<>> \in Seq(Words) /\ 0 \in Nat
  BY EmptySeq
<1>4. CASE a.type = "book"
  <2>1. f \in Page("book", a.title, 0, off, src) /\ f.type = "book" /\ f.query = a.title
    BY <1>4 DEF Results, FindBook, Page
  <2>2. Request(f) = Ask("book", a.title, <<>>, 0)
    BY <2>1 DEF Request
  <2>3. Request(f) = a /\ Meaning(a) = a
    BY <1>1, <1>4, <2>2 DEF Ask, Meaning
  <2>4. QED
    BY <1>2, <2>1, <2>3
<1>5. CASE a.type = "author"
  <2>1. f \in Page("author", a.author, 0, off, src) /\ f.type = "author" /\ f.query = a.author /\ f.ref = 0
    BY <1>5 DEF Results, FindAuthor, Page
  <2>2. Request(f) = Ask("author", <<>>, a.author, 0)
    BY <2>1 DEF Request
  <2>3. Request(f) = a /\ Meaning(a) = a
    BY <1>1, <1>5, <2>2 DEF Ask, Meaning
  <2>4. QED
    BY <1>2, <2>1, <2>3
<1>6. CASE a.type = "author_books"
  <2>1. /\ f \in Page("author_books", a.author, a.ref, off, src)
        /\ f.type = "author_books" /\ f.query = a.author /\ f.ref = a.ref
    BY <1>6 DEF Results, FindAuthorBooks, Page
  <2>2. Request(f) = Ask("author_books", <<>>, a.author, a.ref)
    BY <2>1 DEF Request
  <2>3. Request(f) = a /\ Meaning(a) = a
    BY <1>1, <1>6, <2>2 DEF Ask, Meaning
  <2>4. QED
    BY <1>2, <2>1, <2>3
<1>7. CASE a.type = "collection_books"
  <2>1. /\ f \in Page("collection_books", a.title, a.ref, off, src)
        /\ f.type = "collection_books" /\ f.query = a.title /\ f.ref = a.ref
    BY <1>7 DEF Results, CollectionBooks, Page
  <2>2. Request(f) = Ask("collection_books", a.title, <<>>, a.ref)
    BY <2>1 DEF Request
  <2>3. Request(f) = a /\ Meaning(a) = a
    BY <1>1, <1>7, <2>2 DEF Ask, Meaning
  <2>4. QED
    BY <1>2, <2>1, <2>3
<1>8. CASE a.type \in {"favorites", "collections"}
  <2>1. /\ f \in Page(a.type, <<a.type>>, 0, off, src)
        /\ f.type = a.type /\ f.ref = 0
    BY <1>8 DEF Results, Favorites, Collections, Page
  <2>2. Request(f) = Ask(a.type, <<>>, <<>>, 0)
    BY <1>8, <2>1 DEF Request
  <2>3. Request(f) = a /\ Meaning(a) = a
    BY <1>1, <1>8, <2>2 DEF Ask, Meaning
  <2>4. QED
    BY <1>2, <2>1, <2>3
<1>9. CASE a.type = "combined" /\ a.title = <<>>
  <2>1. f \in Page("author", a.author, 0, off, src) /\ f.type = "author" /\ f.query = a.author /\ f.ref = 0
    BY <1>9 DEF Results, FindBookWithAuthor, FindAuthor, Page
  <2>2. Request(f) = Ask("author", <<>>, a.author, 0)
    BY <2>1 DEF Request
  <2>3. Meaning(a) = Ask("author", <<>>, a.author, 0) /\ Meaning(Request(f)) = Request(f)
    BY <1>9, <2>2 DEF Ask, Meaning
  <2>4. Asked(Request(f))
    BY <1>1, <1>3, <2>2 DEF Asked, Ask, SearchTypes
  <2>5. QED
    BY <1>2, <2>1, <2>2, <2>3, <2>4
<1>10. CASE a.type = "combined" /\ a.title # <<>>
  <2> DEFINE q == a.title \o By \o a.author
  <2>1. f \in Page("combined", q, 0, off, src) /\ f.type = "combined" /\ f.query = q
    <3>1. f \in FindBookWithAuthor(a, off, src)
      BY <1>10 DEF Results
    <3>2. f \in Page("combined", q, 0, off, src)
      BY <1>10, <3>1 DEF FindBookWithAuthor
    <3> HIDE DEF q
    <3>3. QED
      BY <3>2 DEF Page
  <2>2. Request(f) = Cut(q)
    BY <2>1 DEF Request
  <2>3. q \in Seq(Words)
    <3>1. By \in Seq(Words)
      BY ConversationsAssumption DEF By
    <3>2. QED
      BY <1>1, <3>1, ConcatProperties
  <2>4. Asked(Request(f))
    BY <2>2, <2>3, CutAsked
  <2>5. ASSUME KeepsTitle(src) PROVE Meaning(Request(f)) = Meaning(src)
    <3>1. Meaning(a) = Meaning(src)
      BY <2>5
    <3>2. src.title = a.title
      BY <1>10, <3>1 DEF Meaning, Ask
    <3>3. "by" \notin ToSet(a.title) /\ Unquoted(a.title) = a.title
      BY <1>10, <2>5, <3>2 DEF KeepsTitle
    <3>4. Cut(q) = IF a.author = <<>> THEN Ask("book", a.title, <<>>, 0)
                   ELSE Ask("combined", a.title, a.author, 0)
      BY <1>1, <1>10, <3>3, CutBack
    <3>5. CASE a.author = <<>>
      BY <1>10, <2>2, <3>1, <3>4, <3>5 DEF Meaning, Ask
    <3>6. CASE a.author # <<>>
      <4>1. Ask("combined", a.title, a.author, 0) = a
        BY <1>1, <1>10 DEF Ask
      <4>2. QED
        BY <2>2, <3>1, <3>4, <3>6, <4>1
    <3>7. QED
      BY <3>5, <3>6
  <2>6. src.type = "combined"
    BY <1>10
  <2>7. QED
    BY <1>2, <2>1, <2>4, <2>5, <2>6
<1>11. QED
  BY <1>1, <1>4, <1>5, <1>6, <1>7, <1>8, <1>9, <1>10 DEF SearchTypes


\* The steps of a page.
LEMMA PageSteps ==
    ASSUME NEW n \in Nat, n % Limit = 0
    PROVE  /\ n + Limit \in Nat /\ (n + Limit) % Limit = 0
           /\ n >= Limit => n - Limit \in Nat /\ (n - Limit) % Limit = 0
           /\ 0 % Limit = 0
<1>1. Limit \in Nat \ {0}
  BY ConversationsAssumption
<1>2. PICK k \in Nat : n = Limit * k
  BY <1>1
<1>3. n + Limit = Limit * (k + 1) /\ k + 1 \in Nat
  BY <1>1, <1>2
<1>4. (Limit * (k + 1)) % Limit = 0 /\ (Limit * 0) % Limit = 0
  BY <1>1, <1>3
<1>5. ASSUME n >= Limit PROVE n - Limit \in Nat /\ (n - Limit) % Limit = 0
  <2>1. k # 0
    BY <1>1, <1>2, <1>5
  <2>2. k - 1 \in Nat /\ n - Limit = Limit * (k - 1)
    BY <1>1, <1>2, <2>1
  <2>3. (Limit * (k - 1)) % Limit = 0
    BY <1>1, <2>2
  <2>4. QED
    BY <1>1, <1>5, <2>2, <2>3
<1>6. QED
  BY <1>1, <1>3, <1>4, <1>5

LEMMA OffsetSteps ==
    ASSUME NEW p, p.off \in Nat, p.off % Limit = 0, NEW dir
    PROVE  NewOffset(p, dir) \in Nat /\ NewOffset(p, dir) % Limit = 0
<1>1. Limit \in Nat \ {0}
  BY ConversationsAssumption
<1>2. QED
  BY <1>1, PageSteps DEF NewOffset

------------------------------------------------------------------------------
(* Messages.                                                               *)

\* One more message, and the oldest go.
LEMMA TrimLine ==
    ASSUME NEW msgs, Line(msgs), made \in Nat, floor \in Nat, floor <= made, NEW n, n = made + 1
    PROVE  LET m == Trim(Append(msgs, n)) IN
           /\ m \in Seq(Nat) /\ (Len(m) > 1 => Total(m) <= Room)
           /\ \A i, j \in 1..Len(m) : i < j => m[i] < m[j]
           /\ \A i \in 1..Len(m) : floor < m[i] /\ m[i] <= n
<1> DEFINE q == Append(msgs, n)
           L == Len(msgs)
<1>2. msgs \in Seq(Nat) /\ L \in Nat /\ n \in Nat /\ \A i \in 1..L : msgs[i] \in Nat
  BY ElementOfSeq, LenProperties DEF Line
<1>3. /\ q \in Seq(Nat) /\ Len(q) = L + 1
      /\ \A i \in 1..L : q[i] = msgs[i] /\ floor < msgs[i] /\ msgs[i] <= made
      /\ q[L + 1] = n
  BY <1>2, AppendProperties DEF Line
<1>4. \A i \in 1..(L + 1) : floor < q[i] /\ q[i] <= n /\ q[i] \in Nat
  <2>1. ASSUME NEW i \in 1..(L + 1) PROVE floor < q[i] /\ q[i] <= n /\ q[i] \in Nat
    <3>1. CASE i = L + 1
      BY <1>2, <1>3, <3>1
    <3>2. CASE i # L + 1
      <4>1. i \in 1..L
        BY <1>2, <3>2
      <4>2. q[i] = msgs[i] /\ floor < msgs[i] /\ msgs[i] <= made /\ msgs[i] \in Nat
        BY <1>2, <1>3, <4>1
      <4>3. QED
        BY <4>2
    <3>3. QED
      BY <3>1, <3>2
  <2>2. QED
    BY <2>1
<1>5. \A i, j \in 1..(L + 1) : i < j => q[i] < q[j]
  <2>1. ASSUME NEW i \in 1..(L + 1), NEW j \in 1..(L + 1), i < j PROVE q[i] < q[j]
    <3>1. i \in 1..L
      BY <1>2, <2>1
    <3>2. q[i] = msgs[i] /\ msgs[i] \in Nat /\ msgs[i] <= made
      BY <1>2, <1>3, <3>1
    <3>3. CASE j = L + 1
      BY <1>3, <3>2, <3>3
    <3>4. CASE j # L + 1
      <4>1. j \in 1..L
        BY <1>2, <3>4
      <4>2. q[j] = msgs[j] /\ msgs[i] < msgs[j]
        BY <1>3, <2>1, <3>1, <4>1 DEF Line
      <4>3. QED
        BY <3>2, <4>2
    <3>5. QED
      BY <3>3, <3>4
  <2>2. QED
    BY <2>1
<1> HIDE DEF q
<1> DEFINE K == {k \in 1..Len(q) : k = Len(q) \/ Total(SubSeq(q, k, Len(q))) <= Room}
<1>6. L + 1 \in K /\ K \in SUBSET (1..(L + 1))
  BY <1>2, <1>3
<1>7. \A k \in K : k # L + 1 => Total(SubSeq(q, k, L + 1)) <= Room
  BY <1>3
<1>8. Trim(q) = SubSeq(q, Min(K), L + 1)
  BY <1>3 DEF Trim
<1> HIDE DEF K
<1>9. PICK k : k = Min(K)
  OBVIOUS
<1>10. k \in K
  <2>1. K # {} /\ L + 1 \in Nat
    BY <1>2, <1>6
  <2>2. PICK a \in K : \A i \in K : a <= i
    BY <1>6, <2>1, LeastPosition
  <2>3. QED
    BY <1>9, <2>2 DEF Min
<1>11. k \in 1..(L + 1)
  BY <1>6, <1>10
<1>12. PICK m : m = SubSeq(q, k, L + 1)
  OBVIOUS
<1>13. PICK len : len = L + 2 - k
  OBVIOUS
<1>14. len \in Nat /\ len = (L + 1) - k + 1 /\ (len > 1 => k # L + 1)
  BY <1>2, <1>11, <1>13
<1>15. m \in Seq(Nat) /\ Len(m) = len /\ \A i \in 1..len : m[i] = q[k + i - 1]
  <2>1. k \in Int /\ L + 1 \in Int /\ \A i \in k..(L + 1) : q[i] \in Nat
    BY <1>2, <1>4, <1>11
  <2>2. k <= L + 1 + 1
    BY <1>2, <1>11
  <2>3. QED
    BY <1>2, <1>11, <1>12, <1>14, <2>1, <2>2, SubSeqProperties
<1>16. \A i \in 1..len : k + i - 1 \in 1..(L + 1)
  BY <1>2, <1>11, <1>13
<1>17. Len(m) > 1 => Total(m) <= Room
  BY <1>7, <1>10, <1>12, <1>14, <1>15
<1>18. \A i \in 1..len : floor < m[i] /\ m[i] <= n
  BY <1>4, <1>15, <1>16
<1>19. ASSUME NEW i \in 1..len, NEW j \in 1..len, i < j PROVE m[i] < m[j]
  <2>1. k + i - 1 < k + j - 1
    BY <1>11, <1>14, <1>19
  <2>2. QED
    BY <1>5, <1>15, <1>16, <1>19, <2>1
<1>20. Trim(q) = m
  BY <1>8, <1>9, <1>12
<1>21. QED
  BY <1>15, <1>17, <1>18, <1>19, <1>20 DEF q

------------------------------------------------------------------------------
(* The steps.                                                              *)

LEMMA HandSet ==
    ASSUME DOMAIN hand = Handlers, NEW h \in Handlers, NEW r, hand' = [hand EXCEPT ![h] = r]
    PROVE  /\ DOMAIN hand' = Handlers /\ hand'[h] = r
           /\ \A o \in Handlers \ {h} : hand'[o] = hand[o]
OBVIOUS

\* A handler that goes on without having read the conversation.
LEMMA Moved ==
    ASSUME ConversationsInv, NEW h \in Handlers, NEW r, hand' = [hand EXCEPT ![h] = r],
           UNCHANGED <<ctx, made, floor>>, r.at # "write", SoundIn(r), Answering', Waited'
    PROVE  ConversationsInv'
<1>1. DOMAIN hand' = Handlers /\ hand'[h] = r /\ \A o \in Handlers \ {h} : hand'[o] = hand[o]
  BY HandSet DEF ConversationsInv
<1>2. \A m : Line(m) => Line(m)'
  BY DEF Line
<1>3. Lines'
  <2>1. Line(ctx.msgs)'
    BY <1>2 DEF ConversationsInv, Lines, Line
  <2>2. ASSUME NEW o \in Handlers, hand'[o].at = "write" PROVE Line(hand[o].snap.msgs)'
    <3>1. o # h /\ hand'[o] = hand[o]
      BY <1>1, <2>2
    <3>2. Line(hand[o].snap.msgs)
      BY <2>2, <3>1 DEF ConversationsInv, Lines
    <3>3. QED
      BY <3>1, <3>2 DEF Line
  <2>3. QED
    BY <2>1, <2>2 DEF ConversationsInv, Lines
<1>4. Stored'
  <2>1. ctx'.search # NoSearch => Sound(ctx'.search)
    BY DEF ConversationsInv, Stored
  <2>2. ASSUME NEW o \in Handlers PROVE SoundIn(hand[o])'
    <3>1. SoundIn(r) /\ SoundIn(hand[o])
      BY DEF ConversationsInv, Stored
    <3>2. CASE o = h
      BY <1>1, <3>1, <3>2 DEF SoundIn, Sound
    <3>3. CASE o # h
      BY <1>1, <3>1, <3>3 DEF SoundIn, Sound
    <3>4. QED
      BY <3>2, <3>3
  <2>3. QED
    BY <2>1, <2>2 DEF Stored, Sound, NoSearch
<1>5. QED
  BY <1>1, <1>3, <1>4 DEF ConversationsInv

\* ... and neither answers nor asks.
LEMMA Quiet ==
    ASSUME ConversationsInv, NEW h \in Handlers, NEW r, hand' = [hand EXCEPT ![h] = r],
           UNCHANGED <<mode, awaited>>, r.mode = "none"
    PROVE  Answering' /\ Waited'
<1>1. hand'[h] = r /\ \A o \in Handlers \ {h} : hand'[o] = hand[o]
  BY HandSet DEF ConversationsInv
<1>2. \A o \in Handlers : hand'[o].mode = "none" \/ hand'[o] = hand[o]
  BY <1>1
<1>3. QED
  BY <1>2 DEF ConversationsInv, Answering, Waited

LEMMA MovedQuiet ==
    ASSUME ConversationsInv, NEW h \in Handlers, NEW r, hand' = [hand EXCEPT ![h] = r],
           UNCHANGED <<ctx, mode, made, floor, awaited>>,
           r.at # "write", SoundIn(r), r.mode = "none"
    PROVE  ConversationsInv'
BY Quiet, Moved

\* A handler without a search.
LEMMA Plain ==
    ASSUME NEW at, NEW kind, NEW todo, NEW m, at # "turn"
    PROVE  SoundIn(Handler(at, kind, todo, NewConv, NoSearch, m))
BY DEF SoundIn, Handler, NewConv, Conv

LEMMA Carried ==
    ASSUME NEW at, NEW kind, NEW todo, NEW f, f # NoSearch => Sound(f), at = "turn" => f # NoSearch, NEW m
    PROVE  SoundIn(Handler(at, kind, todo, NewConv, f, m))
BY DEF SoundIn, Handler, NewConv, Conv

LEMMA ArriveInv ==
    ASSUME ConversationsInv, NEW h \in Handlers, NEW k, Arrive(h, k) PROVE ConversationsInv'
<1>1. PICK r : r = Handler("change", k, <<"user">>, NewConv, NoSearch, "none")
  OBVIOUS
<1>2. hand' = [hand EXCEPT ![h] = r] /\ UNCHANGED <<ctx, mode, made, floor, awaited>>
  BY <1>1 DEF Arrive
<1>3. SoundIn(r) /\ r.at = "change" /\ r.mode = "none"
  BY <1>1, Plain DEF Handler
<1>4. QED
  BY <1>2, <1>3, MovedQuiet

LEMMA DoingInv ==
    ASSUME ConversationsInv, NEW h \in Handlers, NEW todo, Doing(h, todo),
           UNCHANGED <<ctx, made, floor>>, Answering', Waited'
    PROVE  ConversationsInv'
<1>1. PICK r : r = Handler("change", "none", todo, NewConv, NoSearch, "none")
  OBVIOUS
<1>2. hand' = [hand EXCEPT ![h] = r]
  BY <1>1 DEF Doing, Finding
<1>3. SoundIn(r) /\ r.at = "change"
  BY <1>1, Plain DEF Handler
<1>4. QED
  BY <1>2, <1>3, Moved

LEMMA DoingQuiet ==
    ASSUME ConversationsInv, NEW h \in Handlers, NEW todo, Doing(h, todo), UNCHANGED <<mode, awaited>>
    PROVE  Answering' /\ Waited'
<1>1. PICK r : r = Handler("change", "none", todo, NewConv, NoSearch, "none")
  OBVIOUS
<1>2. hand' = [hand EXCEPT ![h] = r] /\ r.mode = "none"
  BY <1>1 DEF Doing, Finding, Handler
<1>3. QED
  BY <1>2, Quiet

LEMMA AnswerInv == ASSUME ConversationsInv, NEW h \in Handlers, Answer(h) PROVE ConversationsInv'
<1>1. Doing(h, <<"bot">>) /\ UNCHANGED <<ctx, mode, made, floor, awaited>>
  BY DEF Answer
<1>2. QED
  BY <1>1, DoingQuiet, DoingInv

\* What is cleared is behind every message to come, unless one is about to be stored.
LEMMA ClearInv == ASSUME ConversationsInv, NEW h \in Handlers, Clear(h) PROVE ConversationsInv'
<1>1. Doing(h, <<"bot">>) /\ UNCHANGED <<mode, made, awaited>> /\ hand[h].at = "body"
  BY DEF Clear
<1>2. Answering' /\ Waited'
  BY <1>1, DoingQuiet
<1>3. CASE UNCHANGED <<ctx, floor>>
  BY <1>1, <1>2, <1>3, DoingInv
<1>4. CASE /\ ctx' = NewConv
           /\ floor' = IF \E o \in Handlers \ {h} : hand[o].at = "write" THEN floor ELSE made
  <2>1. PICK r : r = Handler("change", "none", <<"bot">>, NewConv, NoSearch, "none")
    OBVIOUS
  <2>2. hand' = [hand EXCEPT ![h] = r] /\ r.at = "change" /\ SoundIn(r)
    BY <1>1, <2>1, Plain DEF Doing, Finding, Handler
  <2>3. DOMAIN hand' = Handlers /\ hand'[h] = r /\ \A o \in Handlers \ {h} : hand'[o] = hand[o]
    BY <2>2, HandSet DEF ConversationsInv
  <2>4. ctx'.msgs = <<>> /\ ctx'.search = NoSearch
    BY <1>4 DEF NewConv, Conv
  <2>5. made' \in Nat /\ floor' \in Nat /\ floor' <= made'
    BY <1>1, <1>4 DEF ConversationsInv, Lines
  <2>6. Line(ctx.msgs)'
    BY <2>4, EmptySeq, ConversationsAssumption DEF Line
  <2>7. ASSUME NEW o \in Handlers, hand'[o].at = "write" PROVE Line(hand[o].snap.msgs)'
    <3>1. o # h /\ hand'[o] = hand[o]
      BY <2>2, <2>3, <2>7
    <3>2. floor' = floor
      BY <1>4, <2>7, <3>1
    <3>3. Line(hand[o].snap.msgs)
      BY <2>7, <3>1 DEF ConversationsInv, Lines
    <3>4. QED
      BY <1>1, <3>1, <3>2, <3>3 DEF Line
  <2>8. ASSUME NEW o \in Handlers PROVE SoundIn(hand[o])'
    <3>1. SoundIn(hand[o])
      BY DEF ConversationsInv, Stored
    <3>2. hand'[o] = r \/ hand'[o] = hand[o]
      BY <2>3
    <3>3. QED
      BY <2>2, <3>1, <3>2 DEF SoundIn, Sound
  <2>9. Lines' /\ Stored'
    BY <2>4, <2>5, <2>6, <2>7, <2>8 DEF Lines, Stored, NoSearch
  <2>10. QED
    BY <1>2, <2>3, <2>9 DEF ConversationsInv
<1>5. QED
  BY <1>3, <1>4 DEF Clear

LEMMA PromptInv == ASSUME ConversationsInv, NEW h \in Handlers, Prompt(h) PROVE ConversationsInv'
<1>1. Doing(h, <<"bot">>) /\ UNCHANGED <<ctx, made, floor>>
  BY DEF Prompt
<1>2. PICK r : r = Handler("change", "none", <<"bot">>, NewConv, NoSearch, "none")
  OBVIOUS
<1>3. hand' = [hand EXCEPT ![h] = r] /\ r.mode = "none"
  BY <1>1, <1>2 DEF Doing, Finding, Handler
<1>4. hand'[h] = r /\ \A o \in Handlers \ {h} : hand'[o] = hand[o]
  BY <1>3, HandSet DEF ConversationsInv
<1>5. Answering'
  BY <1>3, <1>4 DEF ConversationsInv, Answering
<1>6. Waited'
  <2>1. \/ awaited' = "none"
        \/ mode' = awaited' /\ \A o \in Handlers \ {h} : hand[o].mode = "none"
    BY DEF Prompt
  <2>2. QED
    BY <1>3, <1>4, <2>1 DEF Waited
<1>7. QED
  BY <1>1, <1>5, <1>6, DoingInv

LEMMA SearchInv == ASSUME ConversationsInv, NEW h \in Handlers, Search(h) PROVE ConversationsInv'
<1>1. PICK r : r = Handler("search", "none", <<>>, NewConv, NoSearch, "none")
  OBVIOUS
<1>2. hand' = [hand EXCEPT ![h] = r] /\ UNCHANGED <<ctx, mode, made, floor, awaited>>
  BY <1>1 DEF Search
<1>3. SoundIn(r) /\ r.at = "search" /\ r.mode = "none"
  BY <1>1, Plain DEF Handler
<1>4. QED
  BY <1>2, <1>3, MovedQuiet

LEMMA ReadModeInv == ASSUME ConversationsInv, NEW h \in Handlers, ReadMode(h) PROVE ConversationsInv'
<1>1. PICK m : /\ hand' = [hand EXCEPT ![h] = Handler("search", "none", <<>>, NewConv, NoSearch, m)]
               /\ awaited' = IF m = "none" THEN awaited ELSE "none"
               /\ UNCHANGED <<ctx, mode, made, floor>>
  BY DEF ReadMode
<1>2. PICK r : r = Handler("search", "none", <<>>, NewConv, NoSearch, m)
  OBVIOUS
<1>3. hand' = [hand EXCEPT ![h] = r] /\ r.at = "search" /\ r.mode = m /\ SoundIn(r)
  BY <1>1, <1>2, Plain DEF Handler
<1>4. hand'[h] = r /\ \A o \in Handlers \ {h} : hand'[o] = hand[o]
  BY <1>3, HandSet DEF ConversationsInv
<1>5. Answering'
  BY <1>3, <1>4 DEF ConversationsInv, Answering
<1>6. Waited'
  <2>1. CASE m = "none"
    BY <1>1, <1>3, <2>1, Quiet
  <2>2. CASE m # "none"
    BY <1>1, <2>2 DEF Waited
  <2>3. QED
    BY <2>1, <2>2
<1>7. QED
  BY <1>1, <1>3, <1>5, <1>6, Moved

\* The results of a search the user asked for.
LEMMA FirstPage ==
    ASSUME NEW a \in Asks, NEW f \in Results(a, 0, a), f # NoSearch
    PROVE  Sound(f)
<1>1. Asked(a) /\ Limit \in Nat \ {0}
  BY ConversationsAssumption
<1>2. 0 \in Nat /\ 0 % Limit = 0
  BY <1>1
<1>3. /\ a.type = "combined" => a.type = "combined"
      /\ KeepsTitle(a) => Meaning(a) = Meaning(a)
  OBVIOUS
<1>4. QED
  BY <1>1, <1>2, <1>3, ResultsSound

LEMMA FindingInv ==
    ASSUME ConversationsInv, NEW h \in Handlers, NEW f, f # NoSearch => Sound(f), NEW todo,
           Finding(h, f, todo), UNCHANGED <<ctx, made, floor>>, Answering', Waited'
    PROVE  ConversationsInv'
<1>1. PICK r : r = Handler("change", "none", todo, NewConv, f, "none")
  OBVIOUS
<1>2. hand' = [hand EXCEPT ![h] = r]
  BY <1>1 DEF Finding
<1>3. SoundIn(r)
  BY <1>1, Carried, Zenon
<1>4. r.at = "change"
  BY <1>1 DEF Handler
<1>5. QED
  BY <1>2, <1>3, <1>4, Moved

LEMMA SearchedInv == ASSUME ConversationsInv, NEW h \in Handlers, Searched(h) PROVE ConversationsInv'
<1>1. PICK f \in {NoSearch} \cup UNION {Results(a, 0, a) : a \in Meant(hand[h].mode)} :
        \/ f = NoSearch /\ Finding(h, f, <<"bot">>)
        \/ Finding(h, f, <<"bot", "search">>)
  BY DEF Searched, Doing
<1>2. PICK todo : Finding(h, f, todo)
  BY <1>1
<1>3. f # NoSearch => Sound(f)
  <2>1. ASSUME f # NoSearch PROVE Sound(f)
    <3>1. PICK a \in Meant(hand[h].mode) : f \in Results(a, 0, a)
      BY <1>1, <2>1
    <3>2. a \in Asks
      BY <3>1 DEF Meant
    <3>3. QED
      BY <2>1, <3>1, <3>2, FirstPage
  <2>2. QED
    BY <2>1
<1>4. PICK r : r = Handler("change", "none", todo, NewConv, f, "none")
  OBVIOUS
<1>5. hand' = [hand EXCEPT ![h] = r] /\ r.mode = "none"
  BY <1>2, <1>4 DEF Finding, Handler
<1>6. /\ UNCHANGED <<ctx, made, floor, awaited>>
      /\ hand[h].mode = "none" => mode' = mode
  BY DEF Searched
<1>7. hand'[h] = r /\ \A o \in Handlers \ {h} : hand'[o] = hand[o]
  BY <1>5, HandSet DEF ConversationsInv
<1>8. Answering'
  BY <1>5, <1>7 DEF ConversationsInv, Answering
<1>9. Waited'
  <2>1. ASSUME awaited # "none" PROVE mode' = awaited /\ \A o \in Handlers : hand'[o].mode = "none"
    <3>1. mode = awaited /\ \A o \in Handlers : hand[o].mode = "none"
      BY <2>1 DEF ConversationsInv, Waited
    <3>2. QED
      BY <1>5, <1>6, <1>7, <3>1
  <2>2. QED
    BY <1>6, <2>1 DEF Waited
<1>10. QED
  BY <1>2, <1>3, <1>6, <1>8, <1>9, FindingInv

LEMMA TurnPageInv ==
    ASSUME ConversationsInv, NEW h \in Handlers, NEW dir, TurnPage(h, dir) PROVE ConversationsInv'
<1>1. PICK r : r = Handler("turn", dir, <<>>, NewConv, ctx.search, "none")
  OBVIOUS
<1>2. /\ hand' = [hand EXCEPT ![h] = r] /\ UNCHANGED <<ctx, mode, made, floor, awaited>>
      /\ ctx.search # NoSearch
  BY <1>1 DEF TurnPage
<1>3. Sound(ctx.search)
  BY <1>2 DEF ConversationsInv, Stored
<1>4. SoundIn(r)
  BY <1>1, <1>2, <1>3, Carried
<1>5. r.at = "turn" /\ r.mode = "none"
  BY <1>1 DEF Handler
<1>6. QED
  BY <1>2, <1>4, <1>5, MovedQuiet

LEMMA TurnedInv == ASSUME ConversationsInv, NEW h \in Handlers, Turned(h) PROVE ConversationsInv'
<1>1. PICK p : p = hand[h].found
  OBVIOUS
<1>2. PICK off : off = NewOffset(p, hand[h].kind)
  OBVIOUS
<1>3. PICK f \in Results(Request(p), off, p.src) :
        IF f = NoSearch THEN hand' = [hand EXCEPT ![h] = Idle] ELSE Finding(h, f, <<"search">>)
  BY <1>1, <1>2 DEF Turned
<1>4. hand[h].at = "turn" /\ UNCHANGED <<ctx, mode, made, floor, awaited>>
  BY DEF Turned
<1>5. Sound(p)
  BY <1>1, <1>4 DEF ConversationsInv, Stored, SoundIn
<1>6. off \in Nat /\ off % Limit = 0
  BY <1>2, <1>5, OffsetSteps DEF Sound
<1>7. f # NoSearch => Sound(f)
  <2>1. PICK a : a = Request(p)
    OBVIOUS
  <2>2. Asked(a) /\ (KeepsTitle(p.src) => Meaning(a) = Meaning(p.src))
    BY <1>5, <2>1 DEF Sound
  <2>3. a.type = "combined" => p.src.type = "combined"
    <3>1. CASE p.type = "combined"
      BY <1>5, <3>1 DEF Sound
    <3>2. CASE p.type # "combined"
      BY <2>1, <3>2 DEF Request, Ask
    <3>3. QED
      BY <3>1, <3>2
  <2>4. QED
    BY <1>3, <1>6, <2>1, <2>2, <2>3, ResultsSound
<1>8. CASE f = NoSearch
  <2>1. PICK r : r = Idle
    OBVIOUS
  <2>2. SoundIn(r) /\ r.at = "idle" /\ r.mode = "none"
    BY <2>1, Plain DEF Idle, Handler
  <2>3. hand' = [hand EXCEPT ![h] = r]
    BY <1>3, <1>8, <2>1
  <2>4. QED
    BY <1>4, <2>2, <2>3, MovedQuiet
<1>9. CASE f # NoSearch
  <2>1. PICK r : r = Handler("change", "none", <<"search">>, NewConv, f, "none")
    OBVIOUS
  <2>2. hand' = [hand EXCEPT ![h] = r]
    BY <1>3, <1>9, <2>1 DEF Finding
  <2>3. SoundIn(r)
    BY <1>7, <2>1, Carried, Zenon
  <2>4. r.at = "change" /\ r.mode = "none"
    BY <2>1 DEF Handler
  <2>5. QED
    BY <1>4, <2>2, <2>3, <2>4, MovedQuiet
<1>10. QED
  BY <1>8, <1>9

LEMMA SelectInv == ASSUME ConversationsInv, NEW h \in Handlers, Select(h) PROVE ConversationsInv'
<1>1. PICK a \in {b \in Asks : b.type \in {"author_books", "collection_books"}} :
        \E f \in Results(a, 0, a) :
            hand' = [hand EXCEPT ![h] = Handler("change", "none",
                IF f = NoSearch THEN <<"bot">> ELSE <<"search", "bot">>, NewConv, f, "none")]
  BY DEF Select
<1>2. PICK f \in Results(a, 0, a) : \E todo :
        hand' = [hand EXCEPT ![h] = Handler("change", "none", todo, NewConv, f, "none")]
  BY <1>1
<1>3. PICK todo : hand' = [hand EXCEPT ![h] = Handler("change", "none", todo, NewConv, f, "none")]
  BY <1>2
<1>4. Meaning(a) = a
  BY <1>1 DEF Meaning
<1>5. f # NoSearch => Sound(f)
  BY <1>2, <1>4, FirstPage
<1>6. PICK r : r = Handler("change", "none", todo, NewConv, f, "none")
  OBVIOUS
<1>7. SoundIn(r)
  BY <1>5, <1>6, Carried, Zenon
<1>8. r.at = "change" /\ r.mode = "none"
  BY <1>6 DEF Handler
<1>9. hand' = [hand EXCEPT ![h] = r] /\ UNCHANGED <<ctx, mode, made, floor, awaited>>
  BY <1>3, <1>6 DEF Select
<1>10. QED
  BY <1>7, <1>8, <1>9, MovedQuiet

LEMMA SelectBookInv == ASSUME ConversationsInv, NEW h \in Handlers, SelectBook(h) PROVE ConversationsInv'
<1>1. PICK todo : hand' = [hand EXCEPT ![h] = Handler("change", "none", todo, NewConv, NoSearch, "none")]
  BY DEF SelectBook
<1>2. PICK r : r = Handler("change", "none", todo, NewConv, NoSearch, "none")
  OBVIOUS
<1>3. SoundIn(r) /\ r.at = "change" /\ r.mode = "none"
  BY <1>2, Plain DEF Handler
<1>4. hand' = [hand EXCEPT ![h] = r] /\ UNCHANGED <<ctx, mode, made, floor, awaited>>
  BY <1>1, <1>2 DEF SelectBook
<1>5. QED
  BY <1>3, <1>4, MovedQuiet

\* Whatever is next, a handler carries on the search it has, or none.
LEMMA AfterSound ==
    ASSUME NEW h \in Handlers, SoundIn(hand[h]), NEW r, r = After(h)
    PROVE  SoundIn(r) /\ r.at \in {"body", "idle", "change"} /\ r.mode = "none"
<1>1. CASE r = Handler("body", hand[h].kind, <<>>, NewConv, NoSearch, "none")
  BY <1>1, Plain DEF Handler
<1>2. CASE r = Idle
  BY <1>2, Plain DEF Handler, Idle
<1>3. ASSUME NEW todo, NEW f, f = hand[h].found \/ f = NoSearch,
             r = Handler("change", "none", todo, NewConv, f, "none")
      PROVE  SoundIn(r) /\ r.at = "change" /\ r.mode = "none"
  <2>1. f # NoSearch => Sound(f)
    BY <1>3 DEF SoundIn
  <2>2. SoundIn(r)
    BY <1>3, <2>1, Carried, Zenon
  <2>3. QED
    BY <1>3, <2>2 DEF Handler
<1>4. QED
  BY <1>1, <1>2, <1>3 DEF After

LEMMA SkipInv == ASSUME ConversationsInv, NEW h \in Handlers, Skip(h) PROVE ConversationsInv'
<1>1. PICK r : r = After(h)
  OBVIOUS
<1>2. SoundIn(hand[h])
  BY DEF ConversationsInv, Stored
<1>3. SoundIn(r) /\ r.at \in {"body", "idle", "change"} /\ r.mode = "none"
  BY <1>1, <1>2, AfterSound
<1>4. hand' = [hand EXCEPT ![h] = r] /\ UNCHANGED <<ctx, mode, made, floor, awaited>>
  BY <1>1 DEF Skip
<1>5. QED
  BY <1>3, <1>4, MovedQuiet

\* The conversation as it was read becomes the one that is stored.
LEMMA SaveInv == ASSUME ConversationsInv, NEW h \in Handlers, SaveContext(h) PROVE ConversationsInv'
<1>1. PICK r : r = After(h)
  OBVIOUS
<1>2. /\ hand[h].at = "write" /\ ctx' = hand[h].snap /\ hand' = [hand EXCEPT ![h] = r]
      /\ UNCHANGED <<mode, made, floor, awaited>>
  BY <1>1 DEF SaveContext
<1>3. SoundIn(hand[h]) /\ Line(hand[h].snap.msgs)
  BY <1>2 DEF ConversationsInv, Stored, Lines
<1>4. SoundIn(r) /\ r.at \in {"body", "idle", "change"} /\ r.mode = "none"
  BY <1>1, <1>3, AfterSound
<1>5. DOMAIN hand' = Handlers /\ hand'[h] = r /\ \A o \in Handlers \ {h} : hand'[o] = hand[o]
  BY <1>2, HandSet DEF ConversationsInv
<1>6. Line(ctx.msgs)'
  BY <1>2, <1>3 DEF Line
<1>7. ASSUME NEW o \in Handlers, hand'[o].at = "write" PROVE Line(hand[o].snap.msgs)'
  <2>1. o # h /\ hand'[o] = hand[o]
    BY <1>4, <1>5, <1>7
  <2>2. Line(hand[o].snap.msgs)
    BY <1>7, <2>1 DEF ConversationsInv, Lines
  <2>3. QED
    BY <1>2, <2>1, <2>2 DEF Line
<1>8. ctx'.search # NoSearch => Sound(ctx'.search)
  BY <1>2, <1>3 DEF SoundIn
<1>9. ASSUME NEW o \in Handlers PROVE SoundIn(hand[o])'
  <2>1. SoundIn(hand[o])
    BY DEF ConversationsInv, Stored
  <2>2. hand'[o] = r \/ hand'[o] = hand[o]
    BY <1>5
  <2>3. QED
    BY <1>4, <2>1, <2>2 DEF SoundIn, Sound
<1>10. Lines'
  BY <1>2, <1>6, <1>7 DEF ConversationsInv, Lines
<1>11. Stored'
  BY <1>8, <1>9 DEF Stored, Sound, NoSearch
<1>12. Answering' /\ Waited'
  BY <1>2, <1>4, Quiet
<1>13. QED
  BY <1>5, <1>10, <1>11, <1>12 DEF ConversationsInv

LEMMA ReadContextInv == ASSUME ConversationsInv, NEW h \in Handlers, ReadContext(h) PROVE ConversationsInv'
<1>1. PICK op : op = Head(hand[h].todo)
  OBVIOUS
<1>2. PICK c : c = Changed(ctx, op, made', hand[h].found)
  OBVIOUS
<1>3. PICK f : f = IF "search" \in ToSet(Tail(hand[h].todo)) THEN hand[h].found ELSE NoSearch
  OBVIOUS
<1>4. PICK r : r = Handler("write", hand[h].kind, hand[h].todo, c, f, "none")
  OBVIOUS
<1>5. /\ made' = (IF op \in {"user", "bot"} THEN made + 1 ELSE made)
      /\ UNCHANGED <<ctx, mode, floor, awaited>>
  BY <1>1 DEF ReadContext
<1>6. hand' = [hand EXCEPT ![h] = r]
  BY <1>1, <1>2, <1>3, <1>4 DEF ReadContext
<1>7. /\ r.at = "write" /\ r.snap = c /\ r.found = f /\ r.mode = "none"
  BY <1>4 DEF Handler
<1>8. /\ made \in Nat /\ floor \in Nat /\ floor <= made /\ Line(ctx.msgs)
      /\ SoundIn(hand[h]) /\ (ctx.search # NoSearch => Sound(ctx.search))
  BY DEF ConversationsInv, Lines, Stored
<1>9. made' \in Nat /\ made <= made'
  BY <1>5, <1>8
<1>10. ASSUME NEW m, Line(m) PROVE Line(m)'
  <2>1. \A i \in 1..Len(m) : m[i] \in Nat
    BY <1>10, ElementOfSeq DEF Line
  <2>2. Total(m)' = Total(m)
    BY DEF Total, FoldLeft, MapThenFoldSet
  <2>3. Len(m) > 1 => Total(m)' <= Room
    BY <1>10, <2>2 DEF Line
  <2>4. m \in Seq(Nat) /\ \A i, j \in 1..Len(m) : i < j => m[i] < m[j]
    BY <1>10 DEF Line
  <2>5. ASSUME NEW i \in 1..Len(m) PROVE floor' < m[i] /\ m[i] <= made'
    <3>1. floor < m[i] /\ m[i] <= made
      BY <1>10 DEF Line
    <3>2. m[i] \in Nat /\ made \in Nat /\ made' \in Nat /\ made <= made' /\ floor' = floor
      BY <1>5, <1>8, <1>9, <2>1
    <3>3. QED
      BY <3>1, <3>2
  <2>6. QED
    BY <2>3, <2>4, <2>5 DEF Line
<1>11. Line(c.msgs)'
  <2>1. CASE op \in {"user", "bot"}
    <3>1. c.msgs = Trim(Append(ctx.msgs, made + 1)) /\ made' = made + 1
      BY <1>2, <1>5, <2>1 DEF Changed, Conv
    <3>2. PICK m : m = Trim(Append(ctx.msgs, made + 1))
      OBVIOUS
    <3>3. /\ m \in Seq(Nat) /\ (Len(m) > 1 => Total(m) <= Room)
          /\ \A i, j \in 1..Len(m) : i < j => m[i] < m[j]
          /\ \A i \in 1..Len(m) : floor < m[i] /\ m[i] <= made + 1
      BY <1>8, <3>2, TrimLine
    <3>4. QED
      BY <1>5, <3>1, <3>2, <3>3 DEF Line
  <2>2. CASE op \notin {"user", "bot"}
    <3>1. c.msgs = ctx.msgs
      BY <1>2, <2>2 DEF Changed, Conv
    <3>2. QED
      BY <1>8, <1>10, <3>1
  <2>3. QED
    BY <2>1, <2>2
<1>12. c.search # NoSearch => Sound(c.search)
  <2>1. c.search = ctx.search \/ c.search = hand[h].found
    BY <1>2 DEF Changed, Conv
  <2>2. QED
    BY <1>8, <2>1 DEF SoundIn
<1>13. SoundIn(r)
  BY <1>3, <1>7, <1>8, <1>12 DEF SoundIn
<1>14. DOMAIN hand' = Handlers /\ hand'[h] = r /\ \A o \in Handlers \ {h} : hand'[o] = hand[o]
  BY <1>6, HandSet DEF ConversationsInv
<1>15. ASSUME NEW o \in Handlers, hand'[o].at = "write" PROVE Line(hand[o].snap.msgs)'
  <2>1. CASE o = h
    BY <1>7, <1>11, <1>14, <2>1 DEF Line
  <2>2. CASE o # h
    <3>1. hand'[o] = hand[o] /\ Line(hand[o].snap.msgs)
      BY <1>14, <1>15, <2>2 DEF ConversationsInv, Lines
    <3>2. PICK m : m = hand[o].snap.msgs
      OBVIOUS
    <3>3. Line(m)'
      BY <1>10, <3>1, <3>2
    <3>4. QED
      BY <3>1, <3>2, <3>3 DEF Line
  <2>3. QED
    BY <2>1, <2>2
<1>16. Line(ctx.msgs)'
  <2>1. PICK m : m = ctx.msgs
    OBVIOUS
  <2>2. Line(m)'
    BY <1>8, <1>10, <2>1
  <2>3. QED
    BY <1>5, <2>1, <2>2 DEF Line
<1>17. ASSUME NEW o \in Handlers PROVE SoundIn(hand[o])'
  <2>1. SoundIn(hand[o])
    BY DEF ConversationsInv, Stored
  <2>2. hand'[o] = r \/ hand'[o] = hand[o]
    BY <1>14
  <2>3. QED
    BY <1>13, <2>1, <2>2 DEF SoundIn, Sound
<1>18. floor' \in Nat /\ floor' <= made'
  BY <1>5, <1>8, <1>9
<1>19. Lines'
  BY <1>9, <1>15, <1>16, <1>18 DEF Lines
<1>20. Stored'
  BY <1>5, <1>8, <1>17 DEF Stored, Sound, NoSearch
<1>21. Answering' /\ Waited'
  BY <1>5, <1>6, <1>7, Quiet
<1>22. QED
  BY <1>14, <1>19, <1>20, <1>21 DEF ConversationsInv

LEMMA ForgetInv == ASSUME ConversationsInv, Forget PROVE ConversationsInv'
<1>1. UNCHANGED <<hand, made, floor>>
  BY DEF Forget
<1>2. ASSUME NEW o \in Handlers, hand'[o].at = "write" PROVE Line(hand[o].snap.msgs)'
  BY <1>1, <1>2 DEF ConversationsInv, Lines, Line
<1>3. /\ Line(ctx.msgs)' /\ (ctx'.search # NoSearch => Sound(ctx'.search))
  <2>1. CASE ctx' = NewConv
    <3>1. ctx'.msgs = <<>> /\ ctx'.search = NoSearch
      BY <2>1 DEF NewConv, Conv
    <3>2. QED
      BY <3>1, EmptySeq, ConversationsAssumption DEF Line
  <2>2. CASE ctx' = ctx
    BY <1>1, <2>2 DEF ConversationsInv, Lines, Line, Stored
  <2>3. QED
    BY <2>1, <2>2 DEF Forget
<1>4. ASSUME NEW o \in Handlers PROVE SoundIn(hand[o])'
  <2>1. SoundIn(hand[o])
    BY DEF ConversationsInv, Stored
  <2>2. QED
    BY <1>1, <2>1 DEF SoundIn, Sound
<1>5. Lines'
  BY <1>1, <1>2, <1>3 DEF ConversationsInv, Lines
<1>6. Stored'
  BY <1>3, <1>4 DEF Stored, Sound, NoSearch
<1>7. Answering' /\ Waited'
  BY <1>1 DEF Forget, ConversationsInv, Answering, Waited
<1>8. QED
  BY <1>1, <1>5, <1>6, <1>7 DEF ConversationsInv

LEMMA ConversationsInitInv == ConversationsInit => ConversationsInv
<1>1. SUFFICES ASSUME ConversationsInit PROVE ConversationsInv
  OBVIOUS
<1>2. /\ ctx.msgs = <<>> /\ ctx.search = NoSearch /\ made = 0 /\ floor = 0 /\ awaited = "none"
  BY <1>1 DEF ConversationsInit, NewConv, Conv
<1>3. DOMAIN hand = Handlers /\ \A h \in Handlers : hand[h] = Idle
  BY <1>1 DEF ConversationsInit
<1>4. PICK r : r = Idle
  OBVIOUS
<1>5. SoundIn(r) /\ r.at = "idle" /\ r.mode = "none"
  BY <1>4, Plain DEF Idle, Handler
<1>6. Lines
  BY <1>2, <1>3, <1>4, <1>5, EmptySeq, ConversationsAssumption DEF Lines, Line
<1>7. Stored
  BY <1>2, <1>3, <1>4, <1>5 DEF Stored
<1>8. Answering /\ Waited
  BY <1>2, <1>3, <1>4, <1>5 DEF Answering, Waited
<1>9. QED
  BY <1>3, <1>6, <1>7, <1>8 DEF ConversationsInv

LEMMA ConversationsStep == ConversationsInv /\ [ConversationsNext]_conversationVars => ConversationsInv'
<1>1. SUFFICES ASSUME ConversationsInv, [ConversationsNext]_conversationVars PROVE ConversationsInv'
  OBVIOUS
<1>2. CASE UNCHANGED conversationVars
  <2>1. UNCHANGED <<ctx, mode, hand, made, floor, awaited>>
    BY <1>2 DEF conversationVars
  <2>2. QED
    BY <1>1, <2>1 DEF ConversationsInv, Lines, Line, Stored, SoundIn, Sound, Answering, Waited, NoSearch
<1>3. CASE Forget
  BY <1>1, <1>3, ForgetInv
<1>4. ASSUME NEW h \in Handlers,
             \/ \E k \in {"plain", "clear", "prompt", "command", "text"} : Arrive(h, k)
             \/ Answer(h) \/ Clear(h) \/ Prompt(h) \/ Search(h) \/ ReadMode(h) \/ Searched(h)
             \/ \E dir \in {"prev", "next"} : TurnPage(h, dir)
             \/ Turned(h) \/ Select(h) \/ SelectBook(h)
             \/ ReadContext(h) \/ SaveContext(h) \/ Skip(h)
      PROVE  ConversationsInv'
  BY <1>1, <1>4, ArriveInv, AnswerInv, ClearInv, PromptInv, SearchInv, ReadModeInv, SearchedInv,
     TurnPageInv, TurnedInv, SelectInv, SelectBookInv, ReadContextInv, SaveInv, SkipInv, Zenon
<1>5. QED
  BY <1>1, <1>2, <1>3, <1>4, Zenon DEF ConversationsNext

LEMMA ConversationsAlways == ConversationsSpec => []ConversationsInv
BY ConversationsInitInv, ConversationsStep, PTL DEF ConversationsSpec

------------------------------------------------------------------------------
\* HistoryHolds for any number of handlers, messages and room: handlers that
\* write over each other lose messages but never disorder or double them, and
\* what was cleared while none was between reading and writing stays cleared
\* (telegram/conversation.go).
THEOREM HistorySafety == ConversationsSpec => []HistoryHolds
<1>1. ConversationsInv => HistoryHolds
  BY DEF ConversationsInv, Lines, Line, HistoryHolds, InOrder, ClearedStaysCleared
<1>2. QED
  BY <1>1, ConversationsAlways, PTL

\* PagesOfTheSearch for any searches, page size and number of results: what the
\* stored text is cut into is what was searched for (telegram/callbacks.go).
THEOREM PagesSafety == ConversationsSpec => []PagesOfTheSearch
<1>1. ConversationsInv => PagesOfTheSearch
  <2>1. ASSUME ConversationsInv PROVE PageIsThere
    BY <2>1 DEF ConversationsInv, Stored, Sound, PageIsThere
  <2>2. ASSUME ConversationsInv, NEW h \in Handlers, hand[h].at = "turn" PROVE Sound(hand[h].found)
    BY <2>2 DEF ConversationsInv, Stored, SoundIn
  <2>3. ASSUME ConversationsInv PROVE SameSearch
    BY <2>2, <2>3 DEF Sound, SameSearch
  <2>4. QED
    BY <2>1, <2>3 DEF PagesOfTheSearch
<1>2. QED
  BY <1>1, ConversationsAlways, PTL

\* PromptWaits for any number of handlers and prompts: nothing but an answer, a
\* newer prompt or time takes a question back (telegram/bot.go).
THEOREM PromptSafety == ConversationsSpec => []PromptWaits
<1>1. ConversationsInv => PromptWaits
  BY DEF ConversationsInv, Waited, PromptWaits
<1>2. QED
  BY <1>1, ConversationsAlways, PTL
=============================================================================
