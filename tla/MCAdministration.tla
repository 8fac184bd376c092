-------------------------- MODULE MCAdministration --------------------------
(* Four pieces of administration that share no state: in every behaviour   *)
(* one of them runs and the other three stay as they began.                *)
(*   Rescan   one book whose file names an author no row exists for, two   *)
(*            requests                                                     *)
(*   Curated  two items: one with two candidates, one without a name that  *)
(*            is not found until the model suggests a pair with a sure     *)
(*            candidate                                                    *)
(*   Migrate  two runs at once, three in all, over four files, the third   *)
(*            of which may run again                                       *)
(*   FixScan  one worker with four books in three archives, so that the    *)
(*            channel fills up and every way a row with or without a cover *)
(*            meets a file with or without one occurs, or two workers with *)
(*            the first three books                                        *)
EXTENDS Rescan, Curated, Migrate, FixScan, TLC

CONSTANTS
    b1, r1, r2, img, x, t, e,
    known, several, nameless, a1, a2

mcBooks    == {b1}
mcRequests == {r1, r2}
mcParses   == {[text |-> 1, cover |-> img, authors |-> {x}, tags |-> {t}],
               [text |-> 2, cover |-> NoImage, authors |-> {x}, tags |-> {e}]}
mcChoices  == {[f \in Fields |-> "unset"],
               [f \in Fields |-> IF f \in Groups THEN "yes" ELSE "no"]}
mcEdits    == {[sel |-> {"text"}, new |-> [text |-> 3, cover |-> NoImage,
                                           authors |-> {}, tags |-> {}]]}

mcKeys   == {known, several, nameless}
mcKey    == <<nameless, several>>
mcFound  == (known :> {[book |-> 1, score |-> High], [book |-> 2, score |-> Low]})
            @@ (several :> {[book |-> 1, score |-> Mid], [book |-> 2, score |-> High]})
            @@ (nameless :> {})
mcCached == [k \in mcKeys |-> NoBook]
mcActors == {a1, a2}

mcSetups == {[shelf |-> <<{1, 2}, {3}, {4}>>, crew |-> {1}],
             [shelf |-> <<{1, 2}, {3}>>, crew |-> {1, 2}]}

Symmetry == Permutations(mcRequests) \cup Permutations(mcActors)

VARIABLE running   \* the component whose behaviour this is

Init ==
    /\ running \in {"rescan", "curated", "migrate", "fix scan"}
    /\ RescanInit /\ CuratedInit
    /\ MigrateInit /\ FixScanInit
    /\ running # "migrate" => shipped = 1 /\ held = {}
    /\ running # "fix scan" => crew = {1}

Next ==
    /\ \/ running = "rescan" /\ RescanNext /\ UNCHANGED <<curatedVars, migrateVars, fixScanVars>>
       \/ running = "curated" /\ CuratedNext /\ UNCHANGED <<rescanVars, migrateVars, fixScanVars>>
       \/ running = "migrate" /\ MigrateNext /\ UNCHANGED <<rescanVars, curatedVars, fixScanVars>>
       \/ running = "fix scan" /\ FixScanNext /\ UNCHANGED <<rescanVars, curatedVars, migrateVars>>
    /\ UNCHANGED running

Spec == Init /\ [][Next]_<<running, rescanVars, curatedVars, migrateVars, fixScanVars>>
=============================================================================
