------------------------------ MODULE Sessions ------------------------------
(***************************************************************************)
(* Sessions and tokens: logging in and out, refreshing and dropping all    *)
(* sessions (api/auth.go), the check of every request (middlewares/auth.go)*)
(* the theme of a session (api/theme.go), over the keys in Redis           *)
(* (sessions/sessions.go) and the tokens (utils/password.go).              *)
(*                                                                         *)
(* A token is signed and carries its user and the second it was made in,   *)
(* nothing else: the access and the refresh token of one user and second   *)
(* are one pair, however often it is made.  Every command to Redis is      *)
(* atomic and nothing spans two.  Lifetimes keep the order they have:      *)
(* fifteen minutes, a day, a week.                                         *)
(***************************************************************************)
EXTENDS Integers, FiniteSets

CONSTANTS
    Users,
    Callers,      \* requests in progress at one time
    AccessLife, SessionLife, RefreshLife,
    MaxTime       \* bound on the clock

ASSUME SessionsAssumption ==
    /\ AccessLife \in Nat \ {0} /\ SessionLife \in Nat /\ RefreshLife \in Nat
    /\ AccessLife <= SessionLife /\ SessionLife <= RefreshLife
    /\ MaxTime \in Nat
    /\ Users # {}

VARIABLES
    now,          \* the clock
    session,      \* session[p]: when the key of the access token expires, or 0
    theme,        \* theme[p]: the same of the session's theme
    black,        \* black[p]: the same of the refresh token's entry
    issued,       \* the pairs clients have got
    req,          \* req[c]: a request, [at, kind, old, new, ttl, todo]
    \* What only the properties read:
    out,          \* pairs logged out while no other request was using them
    dead,         \* pairs revoked while no other request was exchanging them
    calm          \* dropping requests since whose listing no key was set

keyVars  == <<session, theme, black>>
noteVars == <<out, dead, calm>>
vars     == <<now, keyVars, issued, req, noteVars>>

Pairs      == [user : Users, iat : 0..MaxTime]
Pair(u, t) == [user |-> u, iat |-> t]
Keys       == [of : {"session", "theme"}, pair : Pairs]
Request(at, kind, old, new, ttl, todo) ==
    [at |-> at, kind |-> kind, old |-> old, new |-> new, ttl |-> ttl, todo |-> todo]

NoPair == Pair(CHOOSE u \in Users : TRUE, 0)
Idle   == Request("idle", "none", NoPair, NoPair, 0, {})

Kinds  == {"none", "login", "refresh", "init", "logout", "theme", "drop"}
Places == {"idle", "user", "make", "mark", "save", "touch", "revoke", "ttl", "theme",
           "del", "list", "sweep"}
Time   == 0..(MaxTime + 1)

TypeOK ==
    /\ now \in 0..MaxTime
    /\ session \in [Pairs -> Time] /\ theme \in [Pairs -> Time] /\ black \in [Pairs -> Time]
    /\ issued \subseteq Pairs
    /\ req \in [Callers -> [at : Places, kind : Kinds, old : Pairs, new : Pairs,
                            ttl : 0..RefreshLife, todo : SUBSET Keys]]
    /\ out \subseteq Pairs /\ dead \subseteq Pairs /\ calm \subseteq Callers

Init ==
    /\ now = 0
    /\ session = [p \in Pairs |-> 0] /\ theme = [p \in Pairs |-> 0]
    /\ black = [p \in Pairs |-> 0]
    /\ issued = {}
    /\ req = [c \in Callers |-> Idle]
    /\ out = {} /\ dead = {} /\ calm = {}

------------------------------------------------------------------------------
(* Tokens and keys.                                                        *)

\* When what is set now expires; all that is past the clock's bound is one.
Until(life) == IF now + life > MaxTime THEN MaxTime + 1 ELSE now + life

Access(p)  == now < p.iat + AccessLife
Refresh(p) == now < p.iat + RefreshLife

Reply(c)   == req' = [req EXCEPT ![c] = Idle]
Becomes(c, place, kind) ==
    req' = [req EXCEPT ![c] = Request(place, kind, @.old, @.new, 0, {})]
Going(c, place) == Becomes(c, place, req[c].kind)

\* SetSessionKey.  It disturbs whoever drops the user's sessions.
Droppers(u)   == {c \in Callers : req[c].kind = "drop" /\ req[c].old.user = u}
SetSession(p) == /\ session' = [session EXCEPT ![p] = Until(SessionLife)]
                 /\ calm' = calm \ Droppers(p.user)

\* Who has looked for an entry and not yet made one.
BeforeMark(c) == \/ req[c].at = "user"
                 \/ req[c].kind = "refresh" /\ req[c].at = "mark"
                 \/ req[c].kind = "init" /\ req[c].at \in {"make", "mark"}

\* Mutant: an entry is kept for as long as an access token.
BlacklistBriefly(c, p) ==
    /\ black' = [black EXCEPT ![p] = Until(AccessLife)]
    /\ dead' = IF \E o \in Callers \ {c} : BeforeMark(o) /\ req[o].old = p
               THEN dead ELSE dead \cup {p}

\* BlacklistRefreshToken.
Blacklist(c, p) ==
    /\ black' = [black EXCEPT ![p] = Until(RefreshLife)]
    /\ dead' = IF \E o \in Callers \ {c} : BeforeMark(o) /\ req[o].old = p
               THEN dead ELSE dead \cup {p}

\* Who may set a key of p yet.
Using(c, p) == \/ req[c].at \in {"touch", "ttl", "theme"} /\ req[c].old = p
               \/ req[c].at = "save" /\ req[c].new = p
               \/ req[c].kind = "init" /\ req[c].at = "mark" /\ req[c].new = p

\* Time passes, and what has expired is gone: a pair, with its refresh token.
Expire(k, t) == [p \in Pairs |-> IF k[p] <= t THEN 0 ELSE k[p]]
Tick ==
    /\ now < MaxTime
    /\ now' = now + 1
    /\ session' = Expire(session, now + 1) /\ theme' = Expire(theme, now + 1)
    /\ black' = Expire(black, now + 1)
    /\ LET of == {p \in Pairs : p.iat + RefreshLife > now + 1}
       IN  issued' = issued \cap of /\ out' = out \cap of /\ dead' = dead \cap of
    /\ UNCHANGED <<req, calm>>

------------------------------------------------------------------------------
(* Logging in and refreshing.                                              *)

\* AuthCheck: the user is there, active and the password his; the pair is made.
Login(c, u) ==
    /\ req[c] = Idle
    /\ req' = [req EXCEPT ![c] = Request("save", "login", NoPair, Pair(u, now), 0, {})]
    /\ out' = out \ {Pair(u, now)}
    /\ UNCHANGED <<now, keyVars, issued, dead, calm>>

\* RefreshToken and InitSession: a token that is valid and not on the list, or
\* whose entry could not be read.
Exchange(c, p) ==
    /\ req[c] = Idle /\ p \in issued /\ Refresh(p)
    /\ \/ black[p] = 0 /\ UNCHANGED dead
       \/ black[p] # 0 /\ dead' = dead \ {p}
    /\ req' = [req EXCEPT ![c] = Request("user", "none", p, NoPair, 0, {})]
    /\ UNCHANGED <<now, keyVars, issued, out, calm>>

\* The first revokes the old pair and then makes the new one, the second the
\* other way round; so far they are the same.
ReadUser(c) ==
    /\ req[c].at = "user"
    /\ Becomes(c, "mark", "refresh") \/ Becomes(c, "make", "init")
    /\ UNCHANGED <<now, keyVars, issued, noteVars>>

\* A list that cannot be written to is no reason to stop.
MarkOld(c) ==
    /\ req[c].at = "mark"
    /\ Blacklist(c, req[c].old) \/ UNCHANGED <<black, dead>>
    /\ Going(c, IF req[c].kind = "refresh" THEN "make" ELSE "save")
    /\ UNCHANGED <<now, session, theme, issued, out, calm>>

MakePair(c) ==
    LET p == Pair(req[c].old.user, now) IN
    /\ req[c].at = "make"
    /\ req' = [req EXCEPT ![c] = IF @.kind = "refresh"
                                 THEN Request("save", "refresh", NoPair, p, 0, {})
                                 ELSE Request("mark", "init", @.old, p, 0, {})]
    /\ out' = out \ {p}
    /\ UNCHANGED <<now, keyVars, issued, dead, calm>>

\* The session is saved and the client gets the pair ...
Answer(c) ==
    /\ req[c].at = "save" /\ Reply(c)
    /\ issued' = issued \cup {req[c].new}
    /\ UNCHANGED <<now, theme, black, out, dead>>
SaveLogin(c)   == req[c].kind = "login" /\ SetSession(req[c].new) /\ Answer(c)
SaveRefresh(c) == req[c].kind = "refresh" /\ SetSession(req[c].new) /\ Answer(c)

\* ... which InitSession hands out even if it could not save it.
SaveInit(c) ==
    /\ req[c].kind = "init"
    /\ SetSession(req[c].new) \/ UNCHANGED <<session, calm>>
    /\ Answer(c)

------------------------------------------------------------------------------
(* Requests with an access token.                                          *)

\* Mutant: the key is not asked for.
AuthenticateBlind(c, p) ==
    /\ req[c] = Idle /\ p \in issued /\ Access(p)
    /\ req' = [req EXCEPT ![c] = Request("touch", "none", p, NoPair, 0, {})]
    /\ UNCHANGED <<now, keyVars, issued, noteVars>>

\* validateToken: the key is there and the token valid ...
Authenticate(c, p) ==
    /\ req[c] = Idle /\ p \in issued
    /\ session[p] # 0 /\ Access(p)
    /\ req' = [req EXCEPT ![c] = Request("touch", "none", p, NoPair, 0, {})]
    /\ UNCHANGED <<now, keyVars, issued, noteVars>>

\* ... then it is set again, for another day, and the handler goes on.
Touch(c) ==
    /\ req[c].at = "touch"
    /\ SetSession(req[c].old)
    /\ \/ Reply(c)
       \/ Becomes(c, "revoke", "logout")
       \/ Becomes(c, "ttl", "theme")
       \/ Becomes(c, "del", "drop")
    /\ UNCHANGED <<now, theme, black, issued, out, dead>>

\* LogOut: the refresh token is put on the list, if the list can be written to.
Revoke(c) ==
    /\ req[c].at = "revoke"
    /\ Blacklist(c, req[c].old) \/ UNCHANGED <<black, dead>>
    /\ Going(c, "del")
    /\ UNCHANGED <<now, session, theme, issued, out, calm>>

\* DeleteSessionKey, the last of LogOut and the first of DropAllSessions.
Delete(c) ==
    LET p == req[c].old IN
    /\ req[c].at = "del"
    /\ session' = [session EXCEPT ![p] = 0] /\ theme' = [theme EXCEPT ![p] = 0]
    /\ out' = IF \E o \in Callers \ {c} : Using(o, p) THEN out ELSE out \cup {p}
    /\ IF req[c].kind = "logout" THEN Reply(c) ELSE Going(c, "list")
    /\ UNCHANGED <<now, black, issued, dead, calm>>

\* SetThemeForToken: the theme shall live as long as the session, or a day.
ReadTtl(c) ==
    /\ req[c].at = "ttl"
    /\ LET left == IF session[req[c].old] = 0 THEN SessionLife
                   ELSE session[req[c].old] - now
       IN  req' = [req EXCEPT ![c] = Request("theme", @.kind, @.old, @.new, left, {})]
    /\ UNCHANGED <<now, keyVars, issued, noteVars>>

SetTheme(c) ==
    /\ req[c].at = "theme"
    /\ theme' = [theme EXCEPT ![req[c].old] = Until(req[c].ttl)]
    /\ calm' = calm \ Droppers(req[c].old.user)
    /\ Reply(c)
    /\ UNCHANGED <<now, session, black, issued, out, dead>>

\* DropAllSessions in the background: all keys are listed, if the caller's own
\* token has not expired by now ...
KeysThere == {k \in Keys : IF k.of = "session" THEN session[k.pair] # 0 ELSE theme[k.pair] # 0}
ListKeys(c) ==
    /\ req[c].at = "list"
    /\ IF Access(req[c].old)
       THEN /\ req' = [req EXCEPT ![c] = Request("sweep", @.kind, @.old, @.new, 0, KeysThere)]
            /\ calm' = calm \cup {c}
       ELSE Reply(c) /\ UNCHANGED calm
    /\ UNCHANGED <<now, keyVars, issued, out, dead>>

\* Mutant: the first key that is not the user's ends it.
SweepUntilOther(c) ==
    /\ req[c].at = "sweep"
    /\ \E k \in req[c].todo :
        IF k.pair.user = req[c].old.user /\ Access(k.pair)
        THEN /\ req' = [req EXCEPT ![c] = Request("sweep", @.kind, @.old, @.new, 0, @.todo \ {k})]
             /\ session' = IF k.of = "session" THEN [session EXCEPT ![k.pair] = 0] ELSE session
             /\ theme' = [theme EXCEPT ![k.pair] = 0]
             /\ UNCHANGED calm
        ELSE /\ req' = [req EXCEPT ![c] = Request("sweep", @.kind, @.old, @.new, 0, {})]
             /\ UNCHANGED <<session, theme, calm>>
    /\ UNCHANGED <<now, black, issued, out, dead>>

\* ... and gone through.  A deletion may fail unnoticed.
SweepKey(c) ==
    /\ req[c].at = "sweep"
    /\ \E k \in req[c].todo :
        /\ req' = [req EXCEPT ![c] = Request("sweep", @.kind, @.old, @.new, 0, @.todo \ {k})]
        /\ IF k.pair.user = req[c].old.user /\ Access(k.pair)
           THEN \/ /\ session' = IF k.of = "session" THEN [session EXCEPT ![k.pair] = 0]
                                 ELSE session
                   /\ theme' = [theme EXCEPT ![k.pair] = 0]
                   /\ UNCHANGED calm
                \/ calm' = calm \ {c} /\ UNCHANGED <<session, theme>>
           ELSE UNCHANGED <<session, theme, calm>>
    /\ UNCHANGED <<now, black, issued, out, dead>>

\* A request ends: it is done, a call failed, the user is gone or no longer
\* active, or the process ended.
End(c) ==
    /\ req[c] # Idle
    /\ Reply(c) /\ calm' = calm \ {c}
    /\ UNCHANGED <<now, keyVars, issued, out, dead>>

Next ==
    \/ Tick
    \/ \E c \in Callers :
        \/ \E u \in Users : Login(c, u)
        \/ \E p \in Pairs : Exchange(c, p) \/ Authenticate(c, p)
        \/ ReadUser(c) \/ MarkOld(c) \/ MakePair(c)
        \/ SaveLogin(c) \/ SaveRefresh(c) \/ SaveInit(c)
        \/ Touch(c) \/ Revoke(c) \/ Delete(c) \/ ReadTtl(c) \/ SetTheme(c)
        \/ ListKeys(c) \/ SweepKey(c) \/ End(c)

Spec == Init /\ [][Next]_vars

------------------------------------------------------------------------------
(* Properties.                                                             *)

\* A session that was logged out while no other request was using it stays
\* out, and its theme with it: no request that comes later brings the key back.
OutStaysOut == \A p \in out : session[p] = 0 /\ theme[p] = 0

\* A refresh token that was exchanged or logged out is refused ever after, for
\* as long as its signature is valid, unless requests exchanged it side by side
\* or the list could not be read.
RefreshOnce == \A c \in Callers : BeforeMark(c) => req[c].old \notin dead

\* When a user's sessions have been dropped, none is left that would be let
\* in, whatever expired meanwhile, unless one was begun or used since the keys
\* were listed or a deletion failed.
DropsAll ==
    \A c \in calm : req[c].todo = {} =>
        \A p \in Pairs : p.user = req[c].old.user /\ Access(p) => session[p] = 0

==============================================================================
