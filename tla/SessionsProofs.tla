--------------------------- MODULE SessionsProofs ---------------------------
(***************************************************************************)
(* Theorems about Sessions for any number of users and requests and any    *)
(* lifetimes in the order they have.                                       *)
(***************************************************************************)
EXTENDS Sessions, TLAPS

\* A key is there for the time it has to live; nothing is from the future.
Timely ==
    /\ \A p \in Pairs : session[p] # 0 => now < session[p] /\ session[p] <= now + SessionLife
    /\ \A p \in issued : p.iat <= now
    /\ \A c \in Callers : req[c].old.iat <= now /\ req[c].new.iat <= now

\* Who is out has no key and nobody who could set one.
Gone(p)   == session[p] = 0 /\ theme[p] = 0 /\ \A c \in Callers : ~Using(c, p)
OutIsGone == \A p \in out : Gone(p)

\* A revoked token's entry lives as long as the token.
Marked(p)    == black[p] >= p.iat + RefreshLife \/ black[p] = MaxTime + 1
DeadIsMarked == \A p \in dead : Marked(p)

\* Where the requests that delete keys are.
Stage(c) ==
    /\ req[c].at \in {"make", "mark"} => req[c].kind \in {"refresh", "init"}
    /\ req[c].at = "revoke" => req[c].kind = "logout"
    /\ req[c].at = "del" => req[c].kind \in {"logout", "drop"}
    /\ req[c].at \in {"list", "sweep"} => req[c].kind = "drop"
    /\ c \in calm => req[c].at = "sweep"
Stages == \A c \in Callers : Stage(c)

\* The keys an undisturbed request has still to delete are on its list.
Listed(c) == \A p \in Pairs :
    p.user = req[c].old.user /\ Access(p) /\ session[p] # 0 =>
        \E k \in req[c].todo : k.of = "session" /\ k.pair = p
Dropping == \A c \in calm : Listed(c)

IInv == TypeOK /\ Timely /\ OutIsGone /\ DeadIsMarked /\ RefreshOnce /\ Stages /\ Dropping

------------------------------------------------------------------------------
(* Types.                                                                  *)

Step(c) ==
    \/ \E u \in Users : Login(c, u)
    \/ \E p \in Pairs : Exchange(c, p) \/ Authenticate(c, p)
    \/ ReadUser(c) \/ MarkOld(c) \/ MakePair(c)
    \/ SaveLogin(c) \/ SaveRefresh(c) \/ SaveInit(c)
    \/ Touch(c) \/ Revoke(c) \/ Delete(c) \/ ReadTtl(c) \/ SetTheme(c)
    \/ ListKeys(c) \/ SweepKey(c) \/ End(c)

LEMMA Constants ==
    /\ AccessLife \in Nat \ {0} /\ SessionLife \in Nat \ {0} /\ RefreshLife \in Nat \ {0}
    /\ SessionLife <= RefreshLife /\ MaxTime \in Nat
    /\ NoPair \in Pairs /\ NoPair.iat = 0
<1>1. /\ AccessLife \in Nat \ {0} /\ SessionLife \in Nat \ {0} /\ RefreshLife \in Nat \ {0}
      /\ SessionLife <= RefreshLife /\ MaxTime \in Nat
  BY SessionsAssumption
<1>2. (CHOOSE u \in Users : TRUE) \in Users
  BY SessionsAssumption
<1>3. NoPair \in Pairs /\ NoPair.iat = 0
  BY <1>1, <1>2 DEF NoPair, Pair, Pairs
<1>4. QED
  BY <1>1, <1>3

LEMMA UntilIn == ASSUME now \in 0..MaxTime, NEW life \in Nat
                 PROVE  /\ Until(life) \in Time /\ Until(life) <= now + life
                        /\ life # 0 => now < Until(life)
                        /\ Until(life) = now + life \/ Until(life) = MaxTime + 1
BY Constants DEF Until, Time

LEMMA StepTypes == ASSUME TypeOK, Timely, NEW c \in Callers, Step(c) PROVE TypeOK'
<1>1. /\ Until(SessionLife) \in Time /\ Until(RefreshLife) \in Time
      /\ Until(req[c].ttl) \in Time /\ 0 \in Time
  <2>1. now \in 0..MaxTime /\ req[c].ttl \in Nat /\ SessionLife \in Nat /\ RefreshLife \in Nat
    BY Constants DEF TypeOK
  <2>2. QED
    BY <2>1, UntilIn, Constants DEF Time
<1> USE Constants DEF TypeOK, Request, Places, Kinds, keyVars, noteVars
<1>2. CASE \E u \in Users : Login(c, u)
  <2>1. \A u \in Users : Pair(u, now) \in Pairs
    BY DEF Pair, Pairs
  <2>2. QED
    BY <1>2, <2>1 DEF Login
<1>3. CASE \E p \in Pairs : Exchange(c, p)
  BY <1>1, <1>3 DEF Exchange
<1>4. CASE \E p \in Pairs : Authenticate(c, p)
  BY <1>1, <1>4 DEF Authenticate
<1>5. CASE ReadUser(c)
  BY <1>1, <1>5 DEF ReadUser, Becomes
<1>6. CASE MarkOld(c)
  BY <1>1, <1>6 DEF MarkOld, Going, Becomes, Blacklist
<1>7. CASE MakePair(c)
  BY <1>1, <1>7 DEF MakePair, Pair, Pairs
<1>8. CASE SaveLogin(c)
  BY <1>1, <1>8 DEF SaveLogin, SetSession, Answer, Reply, Idle
<1>9. CASE SaveRefresh(c)
  BY <1>1, <1>9 DEF SaveRefresh, SetSession, Answer, Reply, Idle
<1>10. CASE SaveInit(c)
  BY <1>1, <1>10 DEF SaveInit, SetSession, Answer, Reply, Idle
<1>11. CASE Touch(c)
  BY <1>1, <1>11 DEF Touch, SetSession, Reply, Becomes, Idle
<1>12. CASE Revoke(c)
  BY <1>1, <1>12 DEF Revoke, Going, Becomes, Blacklist
<1>13. CASE Delete(c)
  BY <1>1, <1>13 DEF Delete, Reply, Going, Becomes, Idle
<1>14. CASE ReadTtl(c)
  <2> DEFINE left == IF session[req[c].old] = 0 THEN SessionLife ELSE session[req[c].old] - now
  <2>1. left \in 0..RefreshLife
    BY DEF Timely, Time
  <2>2. /\ req' = [req EXCEPT ![c] = Request("theme", req[c].kind, req[c].old, req[c].new, left, {})]
        /\ UNCHANGED <<now, keyVars, issued, noteVars>>
    BY <1>14 DEF ReadTtl
  <2>3. QED
    BY <2>1, <2>2
<1>15. CASE SetTheme(c)
  BY <1>1, <1>15 DEF SetTheme, Reply, Idle
<1>16. CASE ListKeys(c)
  BY <1>1, <1>16 DEF ListKeys, KeysThere, Reply, Idle
<1>17. CASE SweepKey(c)
  BY <1>1, <1>17 DEF SweepKey, Keys
<1>18. CASE End(c)
  BY <1>1, <1>18 DEF End, Reply, Idle
<1>19. QED
  BY <1>2, <1>3, <1>4, <1>5, <1>6, <1>7, <1>8, <1>9, <1>10, <1>11, <1>12, <1>13, <1>14, <1>15, <1>16, <1>17, <1>18 DEF Step

LEMMA TickTypes == ASSUME TypeOK, Tick PROVE TypeOK'
<1>1. now' \in 0..MaxTime
  BY Constants DEF Tick, TypeOK
<1>2. 0 \in Time
  BY Constants DEF Time
<1>3. session' \in [Pairs -> Time] /\ theme' \in [Pairs -> Time] /\ black' \in [Pairs -> Time]
  BY <1>2 DEF Tick, TypeOK, Expire
<1>4. QED
  BY <1>1, <1>3 DEF Tick, TypeOK

LEMMA InitInv == ASSUME Init PROVE IInv
<1>1. TypeOK
  BY Constants DEF Init, TypeOK, Time, Idle, Request, Places, Kinds
<1>2. Timely /\ OutIsGone /\ DeadIsMarked /\ RefreshOnce /\ Stages /\ Dropping
  BY Constants DEF Init, Timely, OutIsGone, DeadIsMarked, RefreshOnce, Stages, Stage, Dropping,
                   Idle, Request
<1>3. QED
  BY <1>1, <1>2 DEF IInv

------------------------------------------------------------------------------
(* Steps.                                                                  *)

\* What a step of request c has to respect.
LEMMA StepInv ==
    ASSUME IInv, TypeOK', NEW c \in Callers, now' = now,
           \A o \in Callers \ {c} : req'[o] = req[o],
           req'[c].old.iat <= now, req'[c].new.iat <= now,
           \A p \in issued' : p \in issued \/ p.iat <= now,
           \A p \in Pairs : session'[p] \in {0, session[p], Until(SessionLife)},
           \A p \in out' :
                \/ /\ p \in out /\ session'[p] \in {0, session[p]} /\ theme'[p] \in {0, theme[p]}
                   /\ ~Using(c, p)'
                \/ Gone(p)',
           \A p \in dead' : \/ p \in dead /\ black'[p] = black[p]
                            \/ black'[p] = Until(RefreshLife) /\ p.iat <= now,
           BeforeMark(c)' => req'[c].old \notin dead',
           \A o \in Callers \ {c} : BeforeMark(o) => req[o].old \notin dead' \ dead,
           Stage(c)',
           \A o \in calm' \ {c} :
                o \in calm /\ \A p \in Pairs : p.user = req[o].old.user => session'[p] \in {0, session[p]},
           c \in calm' => Listed(c)'
    PROVE  IInv'
<1>1. now \in 0..MaxTime /\ SessionLife \in Nat \ {0} /\ RefreshLife \in Nat \ {0}
  BY Constants DEF IInv, TypeOK
<1>2. Timely'
  <2>1. \A p \in Pairs : session'[p] # 0 => now < session'[p] /\ session'[p] <= now + SessionLife
    BY <1>1, UntilIn DEF IInv, Timely
  <2>2. \A p \in issued' : p.iat <= now
    BY DEF IInv, Timely
  <2>3. \A o \in Callers : req'[o].old.iat <= now /\ req'[o].new.iat <= now
    BY DEF IInv, Timely
  <2>4. QED
    BY <2>1, <2>2, <2>3 DEF Timely
<1>3. OutIsGone'
  <2> SUFFICES ASSUME NEW p \in out', p \in out, session'[p] \in {0, session[p]},
                      theme'[p] \in {0, theme[p]}, ~Using(c, p)'
               PROVE  Gone(p)'
    BY DEF OutIsGone
  <2>1. Gone(p)
    BY DEF IInv, OutIsGone
  <2>2. \A o \in Callers : ~Using(o, p)'
    BY <2>1 DEF Gone, Using
  <2>3. QED
    BY <2>1, <2>2 DEF Gone
<1>4. DeadIsMarked'
  <2> SUFFICES ASSUME NEW p \in dead' PROVE Marked(p)'
    BY DEF DeadIsMarked
  <2>1. CASE p \in dead /\ black'[p] = black[p]
    BY <2>1 DEF IInv, DeadIsMarked, Marked
  <2>2. CASE black'[p] = Until(RefreshLife) /\ p.iat <= now
    <3>1. p.iat \in Nat
      BY DEF TypeOK, Pairs
    <3>2. QED
      BY <1>1, <2>2, <3>1, UntilIn DEF Marked
  <2>3. QED
    BY <2>1, <2>2
<1>5. RefreshOnce'
  <2> SUFFICES ASSUME NEW o \in Callers, BeforeMark(o)' PROVE req'[o].old \notin dead'
    BY DEF RefreshOnce
  <2>1. CASE o = c
    BY <2>1
  <2>2. CASE o # c
    <3>1. BeforeMark(o) /\ req'[o] = req[o]
      BY <2>2 DEF BeforeMark
    <3>2. QED
      BY <2>2, <3>1 DEF IInv, RefreshOnce
  <2>3. QED
    BY <2>1, <2>2
<1>6. Stages'
  <2> SUFFICES ASSUME NEW o \in Callers PROVE Stage(o)'
    BY DEF Stages
  <2>1. CASE o = c
    BY <2>1
  <2>2. CASE o # c
    BY <2>2 DEF IInv, Stages, Stage
  <2>3. QED
    BY <2>1, <2>2
<1>7. Dropping'
  <2> SUFFICES ASSUME NEW o \in calm' PROVE Listed(o)'
    BY DEF Dropping
  <2>1. CASE o = c
    BY <2>1
  <2>2. CASE o # c
    <3>1. Listed(o) /\ req'[o] = req[o]
      BY <2>2 DEF IInv, Dropping, TypeOK
    <3>2. QED
      BY <2>2, <3>1 DEF Listed, Access
  <2>3. QED
    BY <2>1, <2>2
<1>8. QED
  BY <1>2, <1>3, <1>4, <1>5, <1>6, <1>7 DEF IInv

\* A request that only moves.
LEMMA MoveInv ==
    ASSUME IInv, TypeOK', NEW c \in Callers, NEW q, req' = [req EXCEPT ![c] = q],
           UNCHANGED <<now, keyVars, issued>>,
           out' \subseteq out, dead' \subseteq dead, calm' \subseteq calm, c \notin calm',
           q.old.iat <= now, q.new.iat <= now,
           \A p \in out' : ~Using(c, p)',
           BeforeMark(c)' => q.old \notin dead',
           q.at \in {"make", "mark"} => q.kind \in {"refresh", "init"},
           q.at = "revoke" => q.kind = "logout",
           q.at = "del" => q.kind \in {"logout", "drop"},
           q.at \in {"list", "sweep"} => q.kind = "drop"
    PROVE  IInv'
<1>1. req'[c] = q /\ \A o \in Callers \ {c} : req'[o] = req[o]
  BY DEF IInv, TypeOK
<1>2. Stage(c)'
  BY <1>1 DEF Stage
<1>3. UNCHANGED <<now, session, theme, black, issued>>
  BY DEF keyVars
<1>4. QED
  BY <1>1, <1>2, <1>3, StepInv

\* What is known of a request c before its step.
LEMMA Before ==
    ASSUME IInv, NEW c \in Callers
    PROVE  /\ req[c].at # "sweep" => c \notin calm
           /\ req[c].old.iat <= now /\ req[c].new.iat <= now
           /\ \A p \in out : ~Using(c, p)
           /\ BeforeMark(c) => req[c].old \notin dead
           /\ req[c].old \in Pairs /\ req[c].new \in Pairs
BY DEF IInv, Stages, Stage, Timely, OutIsGone, Gone, RefreshOnce, TypeOK

LEMMA LoginInv == ASSUME IInv, NEW c \in Callers, NEW u \in Users, Login(c, u) PROVE IInv'
<1> DEFINE q == Request("save", "login", NoPair, Pair(u, now), 0, {})
<1>1. TypeOK'
  BY StepTypes DEF IInv, Step
<1>2. /\ req[c] = Idle /\ req' = [req EXCEPT ![c] = q] /\ out' = out \ {Pair(u, now)}
      /\ UNCHANGED <<now, keyVars, issued, dead, calm>>
  BY DEF Login
<1>3. c \notin calm /\ req'[c] = q
  BY <1>2, Before DEF Idle, Request, IInv, TypeOK
<1>4. q.old.iat <= now /\ q.new.iat <= now
  BY Constants DEF Request, Pair, IInv, TypeOK
<1>5. \A p \in out' : ~Using(c, p)'
  BY <1>2, <1>3 DEF Using, Request
<1>6. ~BeforeMark(c)'
  BY <1>3 DEF BeforeMark, Request
<1>7. q.at = "save"
  BY DEF Request
<1> HIDE DEF q
<1>8. QED
  BY <1>1, <1>2, <1>3, <1>4, <1>5, <1>6, <1>7, MoveInv

LEMMA ExchangeInv == ASSUME IInv, NEW c \in Callers, NEW p \in Pairs, Exchange(c, p) PROVE IInv'
<1> DEFINE q == Request("user", "none", p, NoPair, 0, {})
<1>1. TypeOK'
  BY StepTypes DEF IInv, Step
<1>2. /\ req[c] = Idle /\ p \in issued /\ req' = [req EXCEPT ![c] = q]
      /\ dead' \subseteq dead /\ (black[p] # 0 => p \notin dead')
      /\ UNCHANGED <<now, keyVars, issued, out, calm>>
  BY DEF Exchange
<1>3. c \notin calm /\ req'[c] = q
  BY <1>2, Before DEF Idle, Request, IInv, TypeOK
<1>4. q.old.iat <= now /\ q.new.iat <= now
  BY <1>2, Constants DEF Request, IInv, Timely, TypeOK
<1>5. \A o \in out' : ~Using(c, o)'
  BY <1>3 DEF Using, Request
<1>6. q.old \notin dead'
  <2>1. black[p] = 0 => p \notin dead
    <3>1. p.iat \in Nat
      BY DEF Pairs
    <3>2. QED
      BY <3>1, Constants DEF IInv, DeadIsMarked, Marked
  <2>2. QED
    BY <1>2, <2>1 DEF Request
<1>7. q.at = "user"
  BY DEF Request
<1> HIDE DEF q
<1>8. QED
  BY <1>1, <1>2, <1>3, <1>4, <1>5, <1>6, <1>7, MoveInv

LEMMA AuthenticateInv ==
    ASSUME IInv, NEW c \in Callers, NEW p \in Pairs, Authenticate(c, p) PROVE IInv'
<1> DEFINE q == Request("touch", "none", p, NoPair, 0, {})
<1>1. TypeOK'
  BY StepTypes DEF IInv, Step
<1>2. /\ req[c] = Idle /\ p \in issued /\ session[p] # 0 /\ req' = [req EXCEPT ![c] = q]
      /\ UNCHANGED <<now, keyVars, issued, noteVars>>
  BY DEF Authenticate
<1>3. c \notin calm /\ req'[c] = q
  BY <1>2, Before DEF Idle, Request, IInv, TypeOK
<1>4. q.old.iat <= now /\ q.new.iat <= now
  BY <1>2, Constants DEF Request, IInv, Timely, TypeOK
<1>5. \A o \in out : ~Using(c, o)'
  BY <1>2, <1>3 DEF Using, Request, IInv, OutIsGone, Gone
<1>6. ~BeforeMark(c)'
  BY <1>3 DEF BeforeMark, Request
<1>7. q.at = "touch"
  BY DEF Request
<1> HIDE DEF q
<1>8. QED
  BY <1>1, <1>2, <1>3, <1>4, <1>5, <1>6, <1>7, MoveInv DEF noteVars

LEMMA ReadUserInv == ASSUME IInv, NEW c \in Callers, ReadUser(c) PROVE IInv'
<1>1. PICK q \in {Request("mark", "refresh", req[c].old, req[c].new, 0, {}),
                 Request("make", "init", req[c].old, req[c].new, 0, {})} :
        /\ req[c].at = "user" /\ req' = [req EXCEPT ![c] = q]
        /\ UNCHANGED <<now, keyVars, issued, noteVars>>
  BY DEF ReadUser, Becomes
<1>2. TypeOK'
  BY StepTypes DEF IInv, Step
<1>3. /\ q.old = req[c].old /\ q.new = req[c].new
      /\ \/ q.at = "mark" /\ q.kind = "refresh"
         \/ q.at = "make" /\ q.kind = "init"
  BY DEF Request
<1>4. req'[c] = q /\ c \notin calm /\ BeforeMark(c)
  BY <1>1, Before DEF BeforeMark, IInv, TypeOK
<1>5. \A p \in out : ~Using(c, p)'
  BY <1>3, <1>4 DEF Using
<1>6. QED
  BY <1>1, <1>2, <1>3, <1>4, <1>5, Before, MoveInv DEF noteVars

LEMMA MakePairInv == ASSUME IInv, NEW c \in Callers, MakePair(c) PROVE IInv'
<1> DEFINE p == Pair(req[c].old.user, now)
<1>1. PICK q \in {Request("save", "refresh", NoPair, p, 0, {}),
                 Request("mark", "init", req[c].old, p, 0, {})} :
        /\ req[c].at = "make" /\ req' = [req EXCEPT ![c] = q]
        /\ q.at = "mark" => req[c].kind # "refresh"
        /\ out' = out \ {p}
        /\ UNCHANGED <<now, keyVars, issued, dead, calm>>
  BY DEF MakePair, Request
<1>2. TypeOK'
  BY StepTypes DEF IInv, Step
<1>3. /\ q.new = p
      /\ \/ q.at = "save" /\ q.kind = "refresh" /\ q.old = NoPair
         \/ q.at = "mark" /\ q.kind = "init" /\ q.old = req[c].old
  BY DEF Request
<1>4. req'[c] = q /\ c \notin calm
  BY <1>1, Before DEF IInv, TypeOK
<1>5. q.old.iat <= now /\ q.new.iat <= now
  <2>1. p.iat = now /\ now \in Nat
    BY DEF Pair, IInv, TypeOK
  <2>2. QED
    BY <1>3, <2>1, Before, Constants
<1>6. \A o \in out' : ~Using(c, o)'
  BY <1>1, <1>3, <1>4 DEF Using
<1>7. BeforeMark(c)' => q.old \notin dead
  <2>1. CASE q.at = "save"
    BY <1>3, <1>4, <2>1 DEF BeforeMark
  <2>2. CASE q.at = "mark"
    BY <1>1, <1>3, <2>2, Before DEF BeforeMark, IInv, Stages, Stage
  <2>3. QED
    BY <1>3, <2>1, <2>2
<1> HIDE DEF p
<1>8. QED
  BY <1>1, <1>2, <1>3, <1>4, <1>5, <1>6, <1>7, MoveInv

\* A request whose record becomes q.
LEMMA Becoming ==
    ASSUME IInv, NEW c \in Callers, NEW q, req' = [req EXCEPT ![c] = q]
    PROVE  req'[c] = q /\ \A o \in Callers \ {c} : req'[o] = req[o]
BY DEF IInv, TypeOK

LEMMA AtRest == /\ Idle.at = "idle" /\ Idle.kind = "none" /\ Idle.old = NoPair /\ Idle.new = NoPair
                /\ NoPair.iat = 0
BY Constants DEF Idle, Request

LEMMA EndInv == ASSUME IInv, NEW c \in Callers, End(c) PROVE IInv'
<1>1. TypeOK'
  BY StepTypes DEF IInv, Step
<1>2. /\ req' = [req EXCEPT ![c] = Idle] /\ calm' = calm \ {c}
      /\ UNCHANGED <<now, keyVars, issued, out, dead>>
  BY DEF End, Reply
<1>3. req'[c] = Idle
  BY <1>2, Becoming
<1>4. (\A p \in out : ~Using(c, p)') /\ ~BeforeMark(c)'
  BY <1>3, AtRest DEF Using, BeforeMark
<1>5. 0 <= now
  BY Constants DEF IInv, TypeOK
<1>6. QED
  BY <1>1, <1>2, <1>4, <1>5, AtRest, MoveInv

\* A token that is put on the list by a request that goes on.
LEMMA BlacklistInv ==
    ASSUME IInv, TypeOK', NEW c \in Callers, NEW q, req' = [req EXCEPT ![c] = q],
           c \notin calm, Blacklist(c, req[c].old),
           UNCHANGED <<now, session, theme, issued, out, calm>>,
           q.old = req[c].old, q.new = req[c].new,
           \A p \in out : ~Using(c, p)',
           ~BeforeMark(c)', Stage(c)'
    PROVE  IInv'
<1> DEFINE p == req[c].old
<1>1. req'[c] = q /\ \A o \in Callers \ {c} : req'[o] = req[o]
  BY Becoming
<1>2. p \in Pairs /\ p.iat <= now /\ q.new.iat <= now
  BY Before
<1>3. /\ black' = [black EXCEPT ![p] = Until(RefreshLife)]
      /\ dead' = IF \E o \in Callers \ {c} : BeforeMark(o) /\ req[o].old = p
                 THEN dead ELSE dead \cup {p}
  BY DEF Blacklist
<1>4. dead \subseteq Pairs
  BY DEF IInv, TypeOK
<1>5. \A o \in dead' :
        \/ o \in dead /\ black'[o] = black[o]
        \/ black'[o] = Until(RefreshLife) /\ o.iat <= now
  <2> SUFFICES ASSUME NEW o \in dead'
               PROVE  \/ o \in dead /\ black'[o] = black[o]
                      \/ black'[o] = Until(RefreshLife) /\ o.iat <= now
    OBVIOUS
  <2>1. CASE o = p
    BY <1>2, <1>3, <2>1 DEF IInv, TypeOK
  <2>2. CASE o # p
    BY <1>2, <1>3, <1>4, <2>2 DEF IInv, TypeOK
  <2>3. QED
    BY <2>1, <2>2
<1>6. \A o \in Callers \ {c} : BeforeMark(o) => req[o].old \notin dead' \ dead
  BY <1>3
<1> HIDE DEF p
<1>7. QED
  BY <1>1, <1>2, <1>5, <1>6, StepInv DEF p

LEMMA MarkOldInv == ASSUME IInv, NEW c \in Callers, MarkOld(c) PROVE IInv'
<1> DEFINE place == IF req[c].kind = "refresh" THEN "make" ELSE "save"
           q == Request(place, req[c].kind, req[c].old, req[c].new, 0, {})
<1>1. TypeOK'
  BY StepTypes DEF IInv, Step
<1>2. /\ req[c].at = "mark" /\ req' = [req EXCEPT ![c] = q]
      /\ Blacklist(c, req[c].old) \/ UNCHANGED <<black, dead>>
      /\ UNCHANGED <<now, session, theme, issued, out, calm>>
  BY DEF MarkOld, Going, Becomes
<1>3. /\ q.old = req[c].old /\ q.new = req[c].new /\ q.kind = req[c].kind
      /\ q.at = place
  BY DEF Request
<1>4. req'[c] = q /\ c \notin calm /\ req[c].kind \in {"refresh", "init"}
  <2>1. req'[c] = q
    BY <1>2 DEF IInv, TypeOK
  <2>2. c \notin calm /\ req[c].kind \in {"refresh", "init"}
    BY <1>2, Before DEF IInv, Stages, Stage
  <2>3. QED
    BY <2>1, <2>2
<1>5. \A p \in out : ~Using(c, p)'
  BY <1>2, <1>3, <1>4, Before DEF Using
<1>6. ~BeforeMark(c)'
  BY <1>3, <1>4 DEF BeforeMark
<1>7. Stage(c)'
  BY <1>2, <1>3, <1>4 DEF Stage
<1>8. q.old.iat <= now /\ q.new.iat <= now
  BY <1>3, Before
<1>9. q.at \in {"make", "mark"} => q.kind \in {"refresh", "init"}
  BY <1>3, <1>4
<1>10. q.at \notin {"revoke", "del", "list", "sweep"}
  BY <1>3
<1> HIDE DEF q, place
<1>11. CASE Blacklist(c, req[c].old)
  BY <1>1, <1>2, <1>3, <1>4, <1>5, <1>6, <1>7, <1>11, BlacklistInv
<1>12. CASE UNCHANGED <<black, dead>>
  BY <1>1, <1>2, <1>4, <1>5, <1>6, <1>8, <1>9, <1>10, <1>12, MoveInv DEF keyVars
<1>13. QED
  BY <1>2, <1>11, <1>12

LEMMA RevokeInv == ASSUME IInv, NEW c \in Callers, Revoke(c) PROVE IInv'
<1> DEFINE q == Request("del", req[c].kind, req[c].old, req[c].new, 0, {})
<1>1. TypeOK'
  BY StepTypes DEF IInv, Step
<1>2. /\ req[c].at = "revoke" /\ req' = [req EXCEPT ![c] = q]
      /\ Blacklist(c, req[c].old) \/ UNCHANGED <<black, dead>>
      /\ UNCHANGED <<now, session, theme, issued, out, calm>>
  BY DEF Revoke, Going, Becomes
<1>3. /\ q.old = req[c].old /\ q.new = req[c].new /\ q.kind = req[c].kind
      /\ q.at = "del"
  BY DEF Request
<1>4. req'[c] = q /\ c \notin calm /\ q.kind \in {"logout", "drop"}
  BY <1>2, <1>3, Becoming, Before DEF IInv, Stages, Stage
<1>5. (\A p \in out : ~Using(c, p)') /\ ~BeforeMark(c)'
  BY <1>3, <1>4 DEF Using, BeforeMark
<1>6. Stage(c)'
  BY <1>2, <1>3, <1>4 DEF Stage
<1>7. q.old.iat <= now /\ q.new.iat <= now
  BY <1>3, Before
<1> HIDE DEF q
<1>8. CASE Blacklist(c, req[c].old)
  BY <1>1, <1>2, <1>3, <1>4, <1>5, <1>6, <1>8, BlacklistInv
<1>9. CASE UNCHANGED <<black, dead>>
  BY <1>1, <1>2, <1>3, <1>4, <1>5, <1>7, <1>9, MoveInv DEF keyVars
<1>10. QED
  BY <1>2, <1>8, <1>9

\* A session key is set, by a request that was free to do so.
LEMMA SetInv ==
    ASSUME IInv, TypeOK', NEW c \in Callers, NEW q, req' = [req EXCEPT ![c] = q],
           NEW p \in Pairs, Using(c, p), SetSession(p), req[c].at # "sweep",
           UNCHANGED <<now, theme, black, out, dead>>,
           issued' \subseteq issued \cup {req[c].new},
           q.old \in {NoPair, req[c].old}, q.new \in {NoPair, req[c].new},
           \A o \in out : ~Using(c, o)', ~BeforeMark(c)', Stage(c)'
    PROVE  IInv'
<1>1. req'[c] = q /\ \A o \in Callers \ {c} : req'[o] = req[o]
  BY Becoming
<1>2. /\ session' = [session EXCEPT ![p] = Until(SessionLife)]
      /\ calm' = calm \ Droppers(p.user)
  BY DEF SetSession
<1>3. /\ session'[p] = Until(SessionLife)
      /\ \A o \in Pairs \ {p} : session'[o] = session[o]
  BY <1>2 DEF IInv, TypeOK
<1>4. /\ \A o \in Pairs : session'[o] \in {0, session[o], Until(SessionLife)}
      /\ \A o \in Pairs : o # p => session'[o] \in {0, session[o]}
  BY <1>3
<1>5. p \notin out /\ c \notin calm
  BY Before
<1>6. \A o \in out' : /\ o \in out /\ session'[o] \in {0, session[o]} /\ theme'[o] \in {0, theme[o]}
                       /\ ~Using(c, o)'
  BY <1>4, <1>5 DEF IInv, TypeOK
<1>7. \A o \in calm' \ {c} :
        o \in calm /\ \A r \in Pairs : r.user = req[o].old.user => session'[r] \in {0, session[r]}
  <2> SUFFICES ASSUME NEW o \in calm', NEW r \in Pairs, r.user = req[o].old.user
               PROVE  session'[r] \in {0, session[r]}
    BY <1>2
  <2>1. o \in Callers /\ o \in calm /\ o \notin Droppers(p.user)
    BY <1>2 DEF IInv, TypeOK
  <2>2. req[o].kind = "drop"
    BY <2>1 DEF IInv, Stages, Stage
  <2>3. r # p
    BY <2>1, <2>2 DEF Droppers
  <2>4. QED
    BY <1>4, <2>3
<1>8. req'[c].old.iat <= now /\ req'[c].new.iat <= now
  <2>1. NoPair.iat <= now
    BY Constants DEF IInv, TypeOK
  <2>2. QED
    BY <1>1, <2>1, Before
<1>9. \A o \in issued' : o \in issued \/ o.iat <= now
  BY Before
<1>10. \A o \in dead' : o \in dead /\ black'[o] = black[o]
  OBVIOUS
<1>11. \A o \in Callers \ {c} : BeforeMark(o) => req[o].old \notin dead' \ dead
  OBVIOUS
<1>12. c \notin calm'
  BY <1>2, <1>5
<1>13. QED
  BY <1>1, <1>4, <1>6, <1>7, <1>8, <1>9, <1>10, <1>11, <1>12, StepInv

LEMMA SaveInv ==
    ASSUME IInv, NEW c \in Callers, SaveLogin(c) \/ SaveRefresh(c) \/ SaveInit(c) PROVE IInv'
<1>1. TypeOK'
  BY StepTypes DEF IInv, Step
<1>2. /\ req[c].at = "save" /\ req' = [req EXCEPT ![c] = Idle]
      /\ issued' = issued \cup {req[c].new}
      /\ UNCHANGED <<now, theme, black, out, dead>>
      /\ SetSession(req[c].new) \/ UNCHANGED <<session, calm>>
  BY DEF SaveLogin, SaveRefresh, SaveInit, Answer, Reply
<1>3. req'[c] = Idle /\ \A o \in Callers \ {c} : req'[o] = req[o]
  BY <1>2, Becoming
<1>4. (\A p \in out : ~Using(c, p)') /\ ~BeforeMark(c)'
  BY <1>3, AtRest DEF Using, BeforeMark
<1>5. c \notin calm /\ req[c].new \in Pairs /\ req[c].new.iat <= now
  BY <1>2, Before
<1>6. CASE SetSession(req[c].new)
  <2>1. Using(c, req[c].new)
    BY <1>2 DEF Using
  <2>2. Stage(c)'
    BY <1>3, <1>5, <1>6, AtRest DEF Stage, SetSession
  <2>3. QED
    BY <1>1, <1>2, <1>4, <1>5, <1>6, <2>1, <2>2, AtRest, SetInv
<1>7. CASE UNCHANGED <<session, calm>>
  <2>1. Stage(c)'
    BY <1>3, <1>5, <1>7, AtRest DEF Stage
  <2>2. req'[c].old.iat <= now /\ req'[c].new.iat <= now
    BY <1>3, AtRest, Constants DEF IInv, TypeOK
  <2>3. \A p \in issued' : p \in issued \/ p.iat <= now
    BY <1>2, <1>5
  <2>4. QED
    BY <1>1, <1>2, <1>3, <1>4, <1>5, <1>7, <2>1, <2>2, <2>3, StepInv
<1>8. QED
  BY <1>2, <1>6, <1>7

LEMMA TouchInv == ASSUME IInv, NEW c \in Callers, Touch(c) PROVE IInv'
<1>1. TypeOK'
  BY StepTypes DEF IInv, Step
<1>2. PICK q \in {Idle, Request("revoke", "logout", req[c].old, req[c].new, 0, {}),
                 Request("ttl", "theme", req[c].old, req[c].new, 0, {}),
                 Request("del", "drop", req[c].old, req[c].new, 0, {})} :
        req' = [req EXCEPT ![c] = q]
  BY DEF Touch, Reply, Becomes
<1>3. /\ req[c].at = "touch" /\ SetSession(req[c].old)
      /\ UNCHANGED <<now, theme, black, issued, out, dead>>
  BY DEF Touch
<1>4. /\ q.old \in {NoPair, req[c].old} /\ q.new \in {NoPair, req[c].new}
      /\ \/ q.at = "idle"
         \/ q.at = "revoke" /\ q.kind = "logout"
         \/ q.at = "ttl" /\ q.kind = "theme" /\ q.old = req[c].old
         \/ q.at = "del" /\ q.kind = "drop"
      /\ q.kind \notin {"refresh", "init"}
  BY AtRest DEF Request
<1>5. req'[c] = q /\ Using(c, req[c].old) /\ req[c].old \in Pairs /\ c \notin calm
  BY <1>2, <1>3, Becoming, Before DEF Using
<1>6. \A p \in out : ~Using(c, p)'
  <2>1. req[c].old \notin out
    BY <1>5, Before
  <2>2. QED
    BY <1>4, <1>5, <2>1 DEF Using
<1>7. ~BeforeMark(c)'
  BY <1>4, <1>5 DEF BeforeMark
<1>8. Stage(c)'
  <2>1. c \notin calm'
    BY <1>3, <1>5 DEF SetSession
  <2>2. QED
    BY <1>4, <1>5, <2>1 DEF Stage
<1>9. QED
  BY <1>1, <1>2, <1>3, <1>4, <1>5, <1>6, <1>7, <1>8, SetInv

LEMMA ReadTtlInv == ASSUME IInv, NEW c \in Callers, ReadTtl(c) PROVE IInv'
<1>1. TypeOK'
  BY StepTypes DEF IInv, Step
<1> DEFINE left == IF session[req[c].old] = 0 THEN SessionLife ELSE session[req[c].old] - now
           q    == Request("theme", req[c].kind, req[c].old, req[c].new, left, {})
<1>2. /\ req[c].at = "ttl" /\ req' = [req EXCEPT ![c] = q]
      /\ q.at = "theme" /\ q.old = req[c].old /\ q.new = req[c].new
      /\ UNCHANGED <<now, keyVars, issued, noteVars>>
  BY DEF ReadTtl, Request
<1> HIDE DEF q, left
<1>3. req'[c] = q /\ c \notin calm
  BY <1>2, Becoming, Before
<1>4. \A p \in out : ~Using(c, p)'
  BY <1>2, <1>3, Before DEF Using
<1>5. ~BeforeMark(c)'
  BY <1>2, <1>3 DEF BeforeMark
<1>6. q.old.iat <= now /\ q.new.iat <= now
  BY <1>2, Before
<1>7. UNCHANGED <<now, keyVars, issued>> /\ out' = out /\ dead' = dead /\ calm' = calm
  BY <1>2 DEF noteVars
<1>8. q.at \notin {"make", "mark", "revoke", "del", "list", "sweep"}
  BY <1>2
<1>9. QED
  BY <1>1, <1>2, <1>3, <1>4, <1>5, <1>6, <1>7, <1>8, MoveInv

LEMMA DeleteInv == ASSUME IInv, NEW c \in Callers, Delete(c) PROVE IInv'
<1> DEFINE p == req[c].old
<1>1. TypeOK'
  BY StepTypes DEF IInv, Step
<1>2. /\ req[c].at = "del"
      /\ session' = [session EXCEPT ![p] = 0] /\ theme' = [theme EXCEPT ![p] = 0]
      /\ out' = IF \E o \in Callers \ {c} : Using(o, p) THEN out ELSE out \cup {p}
      /\ UNCHANGED <<now, black, issued, dead, calm>>
  BY DEF Delete
<1>3. PICK q \in {Idle, Request("list", req[c].kind, req[c].old, req[c].new, 0, {})} :
        req' = [req EXCEPT ![c] = q]
  BY DEF Delete, Reply, Going, Becomes
<1>4. /\ q.old \in {NoPair, p} /\ q.new \in {NoPair, req[c].new}
      /\ q.at \in {"idle", "list"}
  BY AtRest DEF Request
<1>5. /\ req'[c] = q /\ \A o \in Callers \ {c} : req'[o] = req[o]
      /\ p \in Pairs /\ c \notin calm
  BY <1>2, <1>3, Becoming, Before
<1>6. q.at = "list" => q.kind = "drop"
  BY <1>3, AtRest, <1>2 DEF Delete, Reply, Going, Becomes, Request, IInv, TypeOK, Stages, Stage
<1>7. (\A o \in Pairs : ~Using(c, o)') /\ ~BeforeMark(c)' /\ Stage(c)'
  <2>1. (\A o \in Pairs : ~Using(c, o)') /\ ~BeforeMark(c)'
    BY <1>2, <1>4, <1>5, <1>6 DEF Using, BeforeMark
  <2>2. Stage(c)'
    BY <1>2, <1>4, <1>5, <1>6 DEF Stage
  <2>3. QED
    BY <2>1, <2>2
<1>8. \A o \in Pairs : session'[o] \in {0, session[o]} /\ theme'[o] \in {0, theme[o]}
  BY <1>2 DEF IInv, TypeOK
<1>9. \A o \in out' : \/ /\ o \in out /\ session'[o] \in {0, session[o]} /\ theme'[o] \in {0, theme[o]}
                         /\ ~Using(c, o)'
                      \/ Gone(o)'
  <2> SUFFICES ASSUME NEW o \in out', o \notin out PROVE Gone(o)'
    BY <1>7, <1>8 DEF IInv, TypeOK
  <2>1. o = p /\ o \in Pairs /\ \A r \in Callers \ {c} : ~Using(r, o)
    BY <1>2, <1>5
  <2>2. session'[o] = 0 /\ theme'[o] = 0
    BY <1>2, <2>1 DEF IInv, TypeOK
  <2>3. \A r \in Callers : ~Using(r, o)'
    <3>1. \A r \in Callers \ {c} : ~Using(r, o)'
      BY <1>5, <2>1 DEF Using
    <3>2. QED
      BY <1>7, <2>1, <3>1
  <2>4. QED
    BY <2>1, <2>2, <2>3 DEF Gone
<1>10. req'[c].old.iat <= now /\ req'[c].new.iat <= now
  <2>1. NoPair.iat <= now
    BY Constants DEF IInv, TypeOK
  <2>2. QED
    BY <1>4, <1>5, <2>1, Before
<1> HIDE DEF p
<1>11. (\A o \in Callers \ {c} : BeforeMark(o) => req[o].old \notin dead' \ dead) /\ c \notin calm'
  BY <1>2, <1>5
<1>12. \A o \in dead' : o \in dead /\ black'[o] = black[o]
  BY <1>2
<1>13. \A o \in calm' \ {c} : o \in calm /\ \A r \in Pairs : session'[r] \in {0, session[r]}
  BY <1>2, <1>8
<1>14. QED
  BY <1>1, <1>2, <1>5, <1>7, <1>8, <1>9, <1>10, <1>11, <1>12, <1>13, StepInv

LEMMA SetThemeInv == ASSUME IInv, NEW c \in Callers, SetTheme(c) PROVE IInv'
<1>1. TypeOK'
  BY StepTypes DEF IInv, Step
<1>2. /\ req[c].at = "theme" /\ req' = [req EXCEPT ![c] = Idle]
      /\ theme' = [theme EXCEPT ![req[c].old] = Until(req[c].ttl)]
      /\ calm' = calm \ Droppers(req[c].old.user)
      /\ UNCHANGED <<now, session, black, issued, out, dead>>
  BY DEF SetTheme, Reply
<1>3. req'[c] = Idle /\ \A o \in Callers \ {c} : req'[o] = req[o]
  BY <1>2, Becoming
<1>4. c \notin calm /\ c \notin calm' /\ req[c].old \in Pairs /\ Using(c, req[c].old)
  BY <1>2, Before DEF Using
<1>5. \A o \in out' : o \in out /\ session'[o] = session[o] /\ theme'[o] = theme[o]
  <2>1. req[c].old \notin out
    BY <1>4, Before
  <2>2. QED
    BY <1>2, <2>1 DEF IInv, TypeOK
<1>6. (\A o \in out' : ~Using(c, o)') /\ ~BeforeMark(c)' /\ Stage(c)'
  <2>1. Stage(c)'
    BY <1>3, <1>4, AtRest DEF Stage
  <2>2. QED
    BY <1>3, <2>1, AtRest DEF Using, BeforeMark
<1>7. req'[c].old.iat <= now /\ req'[c].new.iat <= now
  BY <1>3, AtRest, Constants DEF IInv, TypeOK
<1>8. \A o \in calm' \ {c} : o \in calm /\ \A r \in Pairs : session'[r] \in {0, session[r]}
  BY <1>2
<1>9. QED
  BY <1>1, <1>2, <1>3, <1>4, <1>5, <1>6, <1>7, <1>8, StepInv

------------------------------------------------------------------------------
(* Dropping.                                                               *)

LEMMA ListKeysInv == ASSUME IInv, NEW c \in Callers, ListKeys(c) PROVE IInv'
<1>1. TypeOK'
  BY StepTypes DEF IInv, Step
<1>2. /\ req[c].at = "list" /\ req[c].kind = "drop" /\ c \notin calm
      /\ UNCHANGED <<now, keyVars, issued, out, dead>>
  BY Before DEF ListKeys, IInv, Stages, Stage
<1>3. UNCHANGED <<session, theme, black>>
  BY <1>2 DEF keyVars
<1>4. CASE Access(req[c].old)
  <2> DEFINE q == Request("sweep", req[c].kind, req[c].old, req[c].new, 0, KeysThere)
  <2>1. req' = [req EXCEPT ![c] = q] /\ calm' = calm \cup {c}
    BY <1>4 DEF ListKeys
  <2>2. /\ q.at = "sweep" /\ q.kind = "drop" /\ q.old = req[c].old /\ q.new = req[c].new
        /\ q.todo = KeysThere
    BY <1>2 DEF Request
  <2> HIDE DEF q
  <2>3. req'[c] = q /\ \A o \in Callers \ {c} : req'[o] = req[o]
    BY <2>1, Becoming
  <2>4. (\A o \in out : ~Using(c, o)') /\ ~BeforeMark(c)' /\ Stage(c)'
    <3>1. Stage(c)'
      BY <2>2, <2>3 DEF Stage
    <3>2. QED
      BY <2>2, <2>3, <3>1 DEF Using, BeforeMark
  <2>5. Listed(c)'
    <3> SUFFICES ASSUME NEW p \in Pairs, session[p] # 0
                 PROVE  \E k \in KeysThere : k.of = "session" /\ k.pair = p
      BY <1>3, <2>2, <2>3 DEF Listed
    <3>1. [of |-> "session", pair |-> p] \in KeysThere
      BY DEF KeysThere, Keys
    <3>2. QED
      BY <3>1
  <2>6. req'[c].old.iat <= now /\ req'[c].new.iat <= now
    BY <2>2, <2>3, Before
  <2>7. \A o \in calm' \ {c} : o \in calm /\ \A r \in Pairs : session'[r] \in {0, session[r]}
    BY <1>3, <2>1
  <2>8. QED
    BY <1>1, <1>2, <1>3, <2>3, <2>4, <2>5, <2>6, <2>7, StepInv
<1>5. CASE ~Access(req[c].old)
  <2>1. req' = [req EXCEPT ![c] = Idle] /\ calm' = calm
    BY <1>5 DEF ListKeys, Reply
  <2>2. req'[c] = Idle
    BY <2>1, Becoming
  <2>3. (\A o \in out : ~Using(c, o)') /\ ~BeforeMark(c)'
    BY <2>2, AtRest DEF Using, BeforeMark
  <2>4. 0 <= now
    BY Constants DEF IInv, TypeOK
  <2>5. QED
    BY <1>1, <1>2, <2>1, <2>3, <2>4, AtRest, MoveInv
<1>6. QED
  BY <1>4, <1>5

LEMMA SweepKeyInv == ASSUME IInv, NEW c \in Callers, SweepKey(c) PROVE IInv'
<1>1. TypeOK'
  BY StepTypes DEF IInv, Step
<1>2. PICK k \in req[c].todo :
        /\ req' = [req EXCEPT ![c] = Request("sweep", @.kind, @.old, @.new, 0, @.todo \ {k})]
        /\ \/ /\ k.pair.user = req[c].old.user /\ Access(k.pair)
              /\ session' = IF k.of = "session" THEN [session EXCEPT ![k.pair] = 0] ELSE session
              /\ theme' = [theme EXCEPT ![k.pair] = 0] /\ UNCHANGED calm
           \/ /\ k.pair.user = req[c].old.user /\ Access(k.pair)
              /\ calm' = calm \ {c} /\ UNCHANGED <<session, theme>>
           \/ /\ ~(k.pair.user = req[c].old.user /\ Access(k.pair))
              /\ UNCHANGED <<session, theme, calm>>
  BY DEF SweepKey
<1> DEFINE q == Request("sweep", req[c].kind, req[c].old, req[c].new, 0, req[c].todo \ {k})
<1>3. req[c].at = "sweep" /\ UNCHANGED <<now, black, issued, out, dead>>
  BY DEF SweepKey
<1>4. /\ q.at = "sweep" /\ q.kind = "drop" /\ q.old = req[c].old /\ q.new = req[c].new
      /\ q.todo = req[c].todo \ {k}
  BY <1>3 DEF Request, IInv, Stages, Stage
<1>5. req' = [req EXCEPT ![c] = q]
  BY <1>2
<1> HIDE DEF q
<1>6. req'[c] = q /\ (\A o \in Callers \ {c} : req'[o] = req[o]) /\ k \in Keys
  BY <1>5, Becoming DEF IInv, TypeOK
<1>7. \A p \in Pairs : session'[p] \in {0, session[p]} /\ theme'[p] \in {0, theme[p]}
  BY <1>2, <1>6 DEF IInv, TypeOK, Keys
<1>8. (\A o \in out : ~Using(c, o)') /\ ~BeforeMark(c)' /\ Stage(c)'
  <2>1. Stage(c)'
    BY <1>4, <1>6 DEF Stage
  <2>2. QED
    BY <1>4, <1>6, <2>1 DEF Using, BeforeMark
<1>9. c \in calm' => Listed(c)'
  <2> SUFFICES ASSUME c \in calm', NEW p \in Pairs, p.user = req[c].old.user, Access(p), session'[p] # 0
               PROVE  \E j \in req[c].todo \ {k} : j.of = "session" /\ j.pair = p
    BY <1>3, <1>4, <1>6 DEF Listed, Access
  <2>1. c \in calm /\ session[p] # 0
    BY <1>2, <1>7
  <2>2. PICK j \in req[c].todo : j.of = "session" /\ j.pair = p
    BY <2>1 DEF IInv, Dropping, Listed
  <2>3. j # k
    <3>1. SUFFICES ASSUME k.of = "session", k.pair = p PROVE FALSE
      BY <2>2
    <3>2. session' = [session EXCEPT ![p] = 0]
      BY <1>2, <3>1
    <3>3. QED
      BY <3>2 DEF IInv, TypeOK
  <2>4. QED
    BY <2>2, <2>3
<1>10. req'[c].old.iat <= now /\ req'[c].new.iat <= now
  BY <1>4, <1>6, Before
<1>11. \A o \in calm' \ {c} : o \in calm /\ \A r \in Pairs : session'[r] \in {0, session[r]}
  BY <1>2, <1>7
<1>12. \A o \in out' : o \in out /\ session'[o] \in {0, session[o]} /\ theme'[o] \in {0, theme[o]}
  BY <1>3, <1>7 DEF IInv, TypeOK
<1>13. QED
  BY <1>1, <1>3, <1>6, <1>7, <1>8, <1>9, <1>10, <1>11, <1>12, StepInv

------------------------------------------------------------------------------
(* Time, and the theorems.                                                 *)

LEMMA TickInv == ASSUME IInv, Tick PROVE IInv'
<1>1. /\ TypeOK /\ TypeOK' /\ now \in Nat /\ MaxTime \in Nat
      /\ AccessLife \in Nat /\ SessionLife \in Nat /\ RefreshLife \in Nat
      /\ now < MaxTime /\ now' = now + 1
  BY TickTypes, Constants DEF IInv, TypeOK, Tick
<1>2. /\ session' = Expire(session, now + 1) /\ theme' = Expire(theme, now + 1)
      /\ black' = Expire(black, now + 1) /\ req' = req /\ calm' = calm
      /\ issued' \subseteq issued /\ out' \subseteq out
      /\ \A p \in dead' : p \in dead /\ p.iat + RefreshLife > now + 1
  BY DEF Tick
<1>3. \A p \in Pairs :
        /\ session'[p] = IF session[p] <= now + 1 THEN 0 ELSE session[p]
        /\ theme'[p] = IF theme[p] <= now + 1 THEN 0 ELSE theme[p]
        /\ black'[p] = IF black[p] <= now + 1 THEN 0 ELSE black[p]
  BY <1>2 DEF Expire
<1>4. \A p \in Pairs : p.iat \in Nat /\ session[p] \in Nat /\ theme[p] \in Nat /\ black[p] \in Nat
  <2>1. \A p \in Pairs : p.iat \in Nat
    BY <1>1 DEF Pairs
  <2>2. \A p \in Pairs : session[p] \in Time /\ theme[p] \in Time /\ black[p] \in Time
    BY <1>1 DEF TypeOK
  <2>3. QED
    BY <1>1, <2>1, <2>2 DEF Time
<1>5. Timely'
  <2>1. \A p \in Pairs : session'[p] # 0 => now' < session'[p] /\ session'[p] <= now' + SessionLife
    BY <1>1, <1>3, <1>4 DEF IInv, Timely
  <2>2. \A p \in issued' : p.iat <= now'
    BY <1>1, <1>2, <1>4 DEF IInv, Timely, TypeOK
  <2>3. \A c \in Callers : req'[c].old.iat <= now' /\ req'[c].new.iat <= now'
    BY <1>1, <1>2, <1>4, Before DEF IInv, Timely
  <2>4. QED
    BY <2>1, <2>2, <2>3 DEF Timely
<1>6. OutIsGone'
  <2> SUFFICES ASSUME NEW p \in out' PROVE Gone(p)'
    BY DEF OutIsGone
  <2>1. Gone(p) /\ p \in Pairs
    BY <1>2 DEF IInv, OutIsGone, TypeOK
  <2>2. session'[p] = 0 /\ theme'[p] = 0
    BY <1>1, <1>3, <2>1 DEF Gone
  <2>3. \A c \in Callers : ~Using(c, p)'
    BY <1>2, <2>1 DEF Gone, Using
  <2>4. QED
    BY <2>2, <2>3 DEF Gone
<1>7. DeadIsMarked'
  <2> SUFFICES ASSUME NEW p \in dead' PROVE Marked(p)'
    BY DEF DeadIsMarked
  <2>1. Marked(p) /\ p \in Pairs /\ p.iat + RefreshLife > now + 1
    BY <1>2 DEF IInv, DeadIsMarked, TypeOK
  <2>2. black'[p] = black[p]
    BY <1>1, <1>3, <1>4, <2>1 DEF Marked
  <2>3. QED
    BY <2>1, <2>2 DEF Marked
<1>8. RefreshOnce' /\ Stages'
  <2>1. RefreshOnce'
    BY <1>2 DEF IInv, RefreshOnce, BeforeMark
  <2>2. Stages'
    BY <1>2 DEF IInv, Stages, Stage
  <2>3. QED
    BY <2>1, <2>2
<1>9. Dropping'
  <2> SUFFICES ASSUME NEW c \in calm, NEW p \in Pairs,
                      p.user = req[c].old.user, Access(p)', session'[p] # 0
               PROVE  \E k \in req[c].todo : k.of = "session" /\ k.pair = p
    BY <1>2 DEF Dropping, Listed
  <2>1. Access(p) /\ session[p] # 0
    <3>1. p.iat + AccessLife > now + 1
      BY <1>1 DEF Access
    <3>2. QED
      BY <1>1, <1>3, <1>4, <3>1 DEF Access
  <2>2. QED
    BY <2>1 DEF IInv, Dropping, Listed
<1>10. QED
  BY <1>1, <1>5, <1>6, <1>7, <1>8, <1>9 DEF IInv

LEMMA StutterInv == ASSUME IInv, UNCHANGED vars PROVE IInv'
<1> USE DEF vars, keyVars, noteVars
<1>1. TypeOK'
  BY DEF IInv, TypeOK
<1>2. Timely'
  BY DEF IInv, Timely
<1>3. OutIsGone'
  BY DEF IInv, OutIsGone, Gone, Using
<1>4. DeadIsMarked'
  BY DEF IInv, DeadIsMarked, Marked
<1>5. RefreshOnce' /\ Stages'
  BY DEF IInv, RefreshOnce, BeforeMark, Stages, Stage
<1>6. Dropping'
  BY DEF IInv, Dropping, Listed, Access
<1>7. QED
  BY <1>1, <1>2, <1>3, <1>4, <1>5, <1>6 DEF IInv

LEMMA NextInv == ASSUME IInv, [Next]_vars PROVE IInv'
<1>1. CASE Tick
  BY <1>1, TickInv
<1>2. CASE \E c \in Callers : Step(c)
  <2>1. PICK c \in Callers : Step(c)
    BY <1>2
  <2>2. CASE \E u \in Users : Login(c, u)
    BY <2>2, LoginInv
  <2>3. CASE \E p \in Pairs : Exchange(c, p) \/ Authenticate(c, p)
    BY <2>3, ExchangeInv, AuthenticateInv
  <2>4. CASE ReadUser(c) \/ MarkOld(c) \/ MakePair(c)
    BY <2>4, ReadUserInv, MarkOldInv, MakePairInv
  <2>5. CASE SaveLogin(c) \/ SaveRefresh(c) \/ SaveInit(c)
    BY <2>5, SaveInv
  <2>6. CASE Touch(c) \/ Revoke(c) \/ Delete(c)
    BY <2>6, TouchInv, RevokeInv, DeleteInv
  <2>7. CASE ReadTtl(c) \/ SetTheme(c)
    BY <2>7, ReadTtlInv, SetThemeInv
  <2>8. CASE ListKeys(c) \/ SweepKey(c) \/ End(c)
    BY <2>8, ListKeysInv, SweepKeyInv, EndInv
  <2>9. QED
    BY <2>1, <2>2, <2>3, <2>4, <2>5, <2>6, <2>7, <2>8 DEF Step
<1>3. CASE UNCHANGED vars
  BY <1>3, StutterInv
<1>4. QED
  BY <1>1, <1>2, <1>3 DEF Next, Step

LEMMA Always == Spec => []IInv
<1>1. Init => IInv
  BY InitInv
<1>2. IInv /\ [Next]_vars => IInv'
  BY NextInv
<1>3. QED
  BY <1>1, <1>2, PTL DEF Spec

\* Every key expires, every request is where the handlers put it.
THEOREM SessionTypes == Spec => []TypeOK
<1>1. IInv => TypeOK
  BY DEF IInv
<1>2. QED
  BY <1>1, Always, PTL

\* A session that was logged out while nobody used it stays out (auth.go
\* LogOut, DropAllSessions; sessions.go DeleteSessionKey).
THEOREM LogoutSafety == Spec => []OutStaysOut
<1>1. IInv => OutStaysOut
  BY DEF IInv, OutIsGone, Gone, OutStaysOut
<1>2. QED
  BY <1>1, Always, PTL

\* A refresh token is exchanged once (auth.go RefreshToken, InitSession).
THEOREM RefreshSafety == Spec => []RefreshOnce
<1>1. IInv => RefreshOnce
  BY DEF IInv
<1>2. QED
  BY <1>1, Always, PTL

\* When a user's keys have been gone through, none of his sessions is left
\* (sessions.go DropAllSessions).
THEOREM DropSafety == Spec => []DropsAll
<1>1. IInv => DropsAll
  BY DEF IInv, Dropping, Listed, DropsAll
<1>2. QED
  BY <1>1, Always, PTL

=============================================================================
