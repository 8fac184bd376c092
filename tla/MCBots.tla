-------------------------------- MODULE MCBots -------------------------------
(* Bots and Accounts, which model different columns and writers of the     *)
(* users' rows: in every behaviour one of them runs and the other stays as *)
(* it began.                                                               *)
(*   Bots     two users, either of whom may enter token 2; token 1 is tried *)
(*            for user 1 only and may be revoked; one caller beside the    *)
(*            health check                                                 *)
(*   Accounts two requests: one login, registered and registered again,    *)
(*            and two links; or two logins that differ in case only, beside *)
(*            each other or one after the other, one link, and at most one *)
(*            request that changes a row without it                        *)
EXTENDS Bots, Accounts, TLC

CONSTANTS c1, r1, r2, l1, l2, p1, p2
OneCaller   == {c1}
OneShared   == <<{1, 2}, {2}>>
mcLogins    == {l1, l2}
mcLower     == [l \in mcLogins |-> l1]
mcPasswords == {p1, p2}
mcClients   == {r1, r2}
Symmetry    == Permutations(mcClients) \union Permutations(mcPasswords)

\* Nobody has the second login or is about to get it.
OneLogin ==
    /\ \A i \in There : account[i].login = l1
    /\ \A r \in Clients : act[r].login # l2 /\ (act[r].account # NoAccount => act[r].account.login = l1)

\* At most one request changes a row without a link.
OneForm == \A r, o \in Clients : {act[r].kind, act[o].kind} \subseteq {"profile", "admin"} => r = o

VARIABLE running   \* the component whose behaviour this is

MCInit ==
    /\ running \in {"bots", "two links", "two logins"}
    /\ Init /\ AccountsInit
    /\ account[1].login = l1

MCNext ==
    /\ \/ running = "bots" /\ Next /\ UNCHANGED accountsVars
       \/ running = "two links" /\ AccountsNext /\ OneLogin' /\ UNCHANGED vars
       \/ running = "two logins" /\ AccountsNext /\ lastLink' <= 1 /\ OneForm' /\ UNCHANGED vars
    /\ UNCHANGED running

MCSpec == MCInit /\ [][MCNext]_<<running, vars, accountsVars>>
=============================================================================
