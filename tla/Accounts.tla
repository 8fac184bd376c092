------------------------------ MODULE Accounts ------------------------------
(***************************************************************************)
(* The accounts: registration (api/registration.go), the links that        *)
(* activate an account and reset its password (api/password.go and the     *)
(* tokens of sessions/sessions.go), the user's own changes (api/auth.go),  *)
(* the administrator's (api/user.go), over the rows of database/users.go.  *)
(*                                                                         *)
(* Every statement and every Redis command is atomic, nothing spans two of *)
(* them but the deletion of an account, and whoever changes a row writes   *)
(* the whole of it.  Of a row the model keeps the login, the password and  *)
(* whether it is active; names, languages and bots go the way of these.    *)
(***************************************************************************)
EXTENDS Integers

CONSTANTS
    Logins,
    Lower,         \* Lower[l]: the login in lower case
    Passwords,     \* that pass the length checks
    Clients,       \* requests, and the goroutines they leave, at one time
    NoAccount, NoLogin, NoPass,
    LinkLife,      \* lifetime of a link, in ticks
    MaxIds,        \* bound on the accounts ever registered
    MaxLinks       \* bound on the links ever sent

ASSUME AccountsAssumption ==
    /\ NoLogin \notin Logins /\ NoPass \notin Passwords
    /\ LinkLife \in Nat \ {0} /\ MaxIds \in Nat /\ MaxLinks \in Nat

Ids         == 1..MaxIds
LinkIds     == 1..MaxLinks
NoLink      == 0
AccountRows == [login : Logins, pass : Passwords, active : BOOLEAN]
AccountRow(l, p, a) == [login |-> l, pass |-> p, active |-> a]
ASSUME NoAccountAssumption == NoAccount \notin AccountRows

VARIABLES
    account,    \* account[i]: the row of auth_user with this id, or NoAccount
    lastId,     \* its sequence
    link,       \* link[l]: the token in Redis under this login, or NoLink
    left,       \* left[l]: how long it has to live
    lastLink,   \* number of tokens made
    act,        \* act[r]: where a request is and what it carries
    \* What only the properties read:
    asked,      \* asked[i]: the row as those who changed it asked for it
    overlapped, \* accounts two changes of which overlapped
    due,        \* due[l]: the link its owner may count on, or NoLink
    spent       \* links used and deleted while no other request held them

accountRows  == <<account, lastId>>
linkVars     == <<link, left, lastLink>>
accountNotes == <<asked, overlapped, due, spent>>
accountsVars == <<accountRows, linkVars, act, accountNotes>>

\* A request: the login, account, link and password it is about, the row it has
\* read or will write, the keys of Redis it has still to look at.
AtRest == [at |-> "idle", kind |-> "none", login |-> NoLogin, id |-> 0, link |-> NoLink,
           pass |-> NoPass, account |-> NoAccount, todo |-> {}]
Start(at, kind) == [AtRest EXCEPT !.at = at, !.kind = kind]

AccountsInit ==
    /\ \E l \in Logins, p \in Passwords :
        account = [i \in Ids |-> IF i = 1 THEN AccountRow(l, p, TRUE) ELSE NoAccount]
    /\ lastId = 1
    /\ link = [l \in Logins |-> NoLink] /\ left = [l \in Logins |-> 0] /\ lastLink = 0
    /\ act = [r \in Clients |-> AtRest]
    /\ asked = account /\ overlapped = {}
    /\ due = [l \in Logins |-> NoLink] /\ spent = {}

------------------------------------------------------------------------------
(* Rows and requests.                                                      *)

There         == {i \in Ids : account[i] # NoAccount}
Of(l)         == {i \in There : account[i].login = l}
Alike(l)      == {i \in There : Lower[account[i].login] = Lower[l]}
Given(p, old) == IF p # NoPass THEN p ELSE old

Moves(r, q)   == act' = [act EXCEPT ![r] = q]
Done(r)       == Moves(r, AtRest)

\* Who has read the row of account i and is going to write it.
Changing(i) == {r \in Clients : act[r].id = i /\ act[r].at \in {"again", "write"}}
Read(r, i)  == overlapped' = overlapped \cup (IF Changing(i) \ {r} # {} THEN {i} ELSE {})

\* UPDATE of every column by primary key: no such row is no error, a login that
\* is another's is one.
Taken(i, w) == \E j \in There \ {i} : account[j].login = w.login
AsAskedBy(q, old) ==
    AccountRow(IF q.kind = "admin" THEN q.account.login ELSE old.login,
               Given(q.pass, old.pass),
               CASE q.kind = "link"    -> TRUE
                 [] q.kind = "admin"   -> q.account.active
                 [] q.kind = "profile" -> old.active)
WriteRow(r) ==
    LET q == act[r] i == q.id IN
    /\ q.at = "write" /\ ~Taken(i, q.account)
    /\ IF i \in There
       THEN /\ account' = [account EXCEPT ![i] = q.account]
            /\ asked' = [asked EXCEPT ![i] = IF i \in overlapped THEN q.account
                                            ELSE AsAskedBy(q, @)]
       ELSE UNCHANGED <<account, asked>>
    /\ UNCHANGED <<lastId, linkVars, overlapped, spent>>

------------------------------------------------------------------------------
(* Registration and the links.                                             *)

\* Registration: the form is sound and the invite there (CheckInvite) ...
Registration(r, l, p) ==
    /\ act[r] = AtRest /\ lastId < MaxIds /\ lastLink < MaxLinks
    /\ Moves(r, [Start("create", "register") EXCEPT !.login = l, !.pass = p])
    /\ UNCHANGED <<accountRows, linkVars, accountNotes>>

\* ... CreateUser, which a login that is taken makes fail: an account that is
\* not active yet.
CreateUser(r) ==
    /\ act[r].at = "create"
    /\ IF Of(act[r].login) # {} \/ lastId = MaxIds
       THEN Done(r) /\ UNCHANGED <<accountRows, asked>>
       ELSE LET i == lastId + 1
                new == AccountRow(act[r].login, act[r].pass, FALSE)
            IN  /\ lastId' = i
                /\ account' = [account EXCEPT ![i] = new]
                /\ asked' = [asked EXCEPT ![i] = new]
                /\ Moves(r, [Start("link", "register") EXCEPT !.login = act[r].login])
    /\ UNCHANGED <<linkVars, overlapped, due, spent>>

\* ChangeRequest: someone has forgotten a password; who has no account gets the
\* same answer.
ChangeRequest(r, i) ==
    /\ act[r] = AtRest /\ lastLink < MaxLinks /\ i \in There
    /\ Moves(r, [Start("link", "forgotten") EXCEPT !.login = account[i].login])
    /\ UNCHANGED <<accountRows, linkVars, accountNotes>>

\* GenerateTokenPassword: the link takes the place of the one before.
Hold(l, t) == /\ link' = [link EXCEPT ![l] = t]
              /\ left' = [left EXCEPT ![l] = LinkLife]

\* It is sent even if Redis did not take it.
GenerateToken(r) ==
    LET l == act[r].login t == lastLink + 1 IN
    /\ act[r].at = "link" /\ lastLink < MaxLinks
    /\ lastLink' = t
    /\ \/ /\ Hold(l, t)
          /\ due' = [due EXCEPT ![l] =
               IF \E o \in Clients : act[o].at = "delete" /\ act[o].login = l
               THEN NoLink ELSE t]
       \/ UNCHANGED <<link, left, due>>
    /\ Done(r)
    /\ UNCHANGED <<accountRows, asked, overlapped, spent>>

\* A link lives for an hour and a half.
LinksAge ==
    /\ \E l \in Logins : left[l] > 0
    /\ left' = [l \in Logins |-> IF left[l] > 0 THEN left[l] - 1 ELSE 0]
    /\ link' = [l \in Logins |-> IF left[l] > 1 THEN link[l] ELSE NoLink]
    /\ due'  = [l \in Logins |-> IF left[l] > 1 THEN due[l] ELSE NoLink]
    /\ UNCHANGED <<accountRows, lastLink, act, asked, overlapped, spent>>

------------------------------------------------------------------------------
(* A link is used: ChangeUserState.                                        *)

\* With a new password, or none to activate the account only.
UseLink(r, t, p) ==
    /\ act[r] = AtRest /\ t \in 1..lastLink
    /\ Moves(r, [Start("keys", "link") EXCEPT !.link = t, !.pass = p])
    /\ UNCHANGED <<accountRows, linkVars, accountNotes>>

\* KEYS, of CheckTokenPassword and of DeleteTokenPassword.
HeldKeys == {l \in Logins : link[l] # NoLink}
ListLinks(r) ==
    /\ act[r].at \in {"keys", "old keys"}
    /\ Moves(r, [act[r] EXCEPT !.at = IF @ = "keys" THEN "match" ELSE "old",
                                 !.todo = HeldKeys])
    /\ UNCHANGED <<accountRows, linkVars, accountNotes>>

\* CheckTokenPassword: GET of one key after the other until one holds the link;
\* a GET that fails holds nothing.
CheckLink(r) ==
    LET q == act[r] IN
    /\ q.at = "match"
    /\ \/ \E l \in q.todo :
           Moves(r, IF link[l] = q.link
                      THEN [q EXCEPT !.at = "user", !.login = l, !.todo = {}]
                      ELSE [q EXCEPT !.todo = @ \ {l}])
       \/ q.todo = {} /\ Done(r)
    /\ UNCHANGED <<accountRows, linkVars, accountNotes>>

\* UserObject, CheckUser: of the accounts whose logins differ in case only the
\* first registered.
FoundBy(l) == {i \in Alike(l) : \A j \in Alike(l) : i <= j}
UserObject(r) ==
    /\ act[r].at = "user"
    /\ \/ \E i \in FoundBy(act[r].login) :
           /\ Moves(r, [act[r] EXCEPT !.at = "again", !.login = NoLogin, !.id = i,
                                        !.account = account[i]])
           /\ Read(r, i)
       \/ FoundBy(act[r].login) = {} /\ Done(r) /\ UNCHANGED overlapped
    /\ UNCHANGED <<accountRows, linkVars, asked, due, spent>>

\* Mutant: whether the account is active is not among the fields.
UpdatedRowInactive(r) ==
    LET q == act[r]
    IN  AccountRow(q.account.login, Given(q.pass, account[q.id].pass), q.account.active)

\* UpdateUserByAdmin's and updateUserDetails's doing, for a link: the password
\* is the new one or the row's as it is now, the rest as it was read before.
UpdatedRow(r) ==
    LET q == act[r] IN AccountRow(q.account.login, Given(q.pass, account[q.id].pass), TRUE)

\* ActionUser reads the row once more.
ReadUserAgain(r) ==
    /\ act[r].at = "again"
    /\ IF act[r].id \in There
       THEN Moves(r, [act[r] EXCEPT !.at = "write", !.account = UpdatedRow(r)])
       ELSE Done(r)
    /\ UNCHANGED <<accountRows, linkVars, accountNotes>>

\* The row is written, the answer given, and a goroutine deletes the link.
Activate(r) ==
    /\ act[r].kind = "link" /\ WriteRow(r)
    /\ Moves(r, [Start("old keys", "link") EXCEPT !.link = act[r].link])
    /\ due' = [l \in Logins |-> IF due[l] = act[r].link THEN NoLink ELSE due[l]]

------------------------------------------------------------------------------
(* The goroutine of DeleteTokenPassword.                                   *)

\* Whose link has been found good.
Passed(o, t) == act[o].link = t /\ act[o].at \in {"user", "again", "write"}

\* Mutant: every key holds it.
LookOldAny(r) ==
    LET q == act[r] IN
    /\ q.at = "old"
    /\ \/ \E l \in q.todo :
           Moves(r, [q EXCEPT !.at = "delete", !.login = l, !.todo = @ \ {l}])
       \/ q.todo = {} /\ Done(r)
    /\ UNCHANGED <<accountRows, linkVars, accountNotes>>

\* GET of a key: is it the link's?
LookOld(r) ==
    LET q == act[r] IN
    /\ q.at = "old"
    /\ \/ \E l \in q.todo :
           Moves(r, IF link[l] = q.link
                      THEN [q EXCEPT !.at = "delete", !.login = l, !.todo = @ \ {l}]
                      ELSE [q EXCEPT !.todo = @ \ {l}])
       \/ q.todo = {} /\ Done(r)
    /\ UNCHANGED <<accountRows, linkVars, accountNotes>>

\* DEL of the key, whatever it holds by now.
DeleteOld(r) ==
    LET l == act[r].login t == act[r].link IN
    /\ act[r].at = "delete"
    /\ link' = [link EXCEPT ![l] = NoLink] /\ left' = [left EXCEPT ![l] = 0]
    /\ spent' = IF \E o \in Clients : Passed(o, t) THEN spent ELSE spent \cup {t}
    /\ Moves(r, [act[r] EXCEPT !.at = "old", !.login = NoLogin])
    /\ UNCHANGED <<accountRows, lastLink, asked, overlapped, due>>

------------------------------------------------------------------------------
(* Changes by the user and by the administrator.                           *)

\* CheckUser: whose password this is.
Knows(i, p) == i \in There /\ i \in FoundBy(account[i].login) /\ account[i].pass = p

\* ChangeUser: a new password needs the one it replaces and differs from it,
\* other changes need only the account.
ChangeUser(r, i, p) ==
    /\ act[r] = AtRest /\ i \in There
    /\ p # NoPass => \E old \in Passwords \ {p} : Knows(i, old)
    /\ Moves(r, [Start("profile", "profile") EXCEPT !.id = i, !.pass = p])
    /\ UNCHANGED <<accountRows, linkVars, accountNotes>>

\* UpdateUserProfile reads the row ...
ReadProfile(r) ==
    LET q == act[r] i == q.id IN
    /\ q.at = "profile"
    /\ IF i \in There
       THEN /\ Moves(r, [q EXCEPT !.at = "write",
                                    !.account = [account[i] EXCEPT !.pass = Given(q.pass, @)]])
            /\ Read(r, i)
       ELSE Done(r) /\ UNCHANGED overlapped
    /\ UNCHANGED <<accountRows, linkVars, asked, due, spent>>

\* ... and writes it.
SaveRow(r) ==
    /\ act[r].kind \in {"profile", "admin"} /\ WriteRow(r)
    /\ Done(r) /\ UNCHANGED due

\* UpdateUserByAdmin: the form has all but the password, which is kept unless a
\* new one is given.
EditUser(r, i, l, a, p) ==
    /\ act[r] = AtRest /\ i \in There
    /\ Moves(r, [Start("write", "admin") EXCEPT
                    !.id = i, !.pass = p, !.account = AccountRow(l, Given(p, account[i].pass), a)])
    /\ Read(r, i)
    /\ UNCHANGED <<accountRows, linkVars, asked, due, spent>>

\* DeleteUser: the account and all that is its own, in one transaction.  Its
\* links stay until they expire.
DeleteAccount(i) ==
    /\ i \in There
    /\ account' = [account EXCEPT ![i] = NoAccount]
    /\ asked' = [asked EXCEPT ![i] = NoAccount] /\ overlapped' = overlapped \ {i}
    /\ UNCHANGED <<lastId, linkVars, act, due, spent>>

\* A call fails - the login may be another's by now - or the process ends.
CallFails(r) ==
    /\ act[r] # AtRest /\ Done(r)
    /\ UNCHANGED <<accountRows, linkVars, accountNotes>>

AccountsNext ==
    \/ LinksAge
    \/ \E i \in Ids : DeleteAccount(i)
    \/ \E r \in Clients :
        \/ \E l \in Logins, p \in Passwords : Registration(r, l, p)
        \/ CreateUser(r) \/ GenerateToken(r)
        \/ \E i \in Ids : ChangeRequest(r, i)
        \/ \E t \in LinkIds, p \in Passwords \cup {NoPass} : UseLink(r, t, p)
        \/ ListLinks(r) \/ CheckLink(r) \/ UserObject(r) \/ ReadUserAgain(r) \/ Activate(r)
        \/ LookOld(r) \/ DeleteOld(r)
        \/ \E i \in Ids, p \in Passwords \cup {NoPass} : ChangeUser(r, i, p)
        \/ ReadProfile(r) \/ SaveRow(r)
        \/ \E i \in Ids, l \in Logins, a \in BOOLEAN, p \in Passwords \cup {NoPass} :
            EditUser(r, i, l, a, p)
        \/ CallFails(r)

AccountsSpec == AccountsInit /\ [][AccountsNext]_accountsVars

------------------------------------------------------------------------------
(* Properties.                                                             *)

\* An account is as those who changed it asked for it, each of them for their
\* part: no password, activation or deactivation is undone by a request about
\* something else, unless two of them overlapped.
AsAsked == \A i \in There \ overlapped : account[i] = asked[i]

\* A link works until it is used, has expired or another took its place, unless
\* it was made while the one before was being deleted; and one that was used
\* and deleted is refused, unless two requests had it at once.
LinkServes ==
    /\ \A l \in Logins : due[l] # NoLink => link[l] = due[l]
    /\ \A r \in Clients, t \in spent : ~Passed(r, t)

=============================================================================
