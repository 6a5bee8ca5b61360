---------------------------- MODULE MCRangeConfig ----------------------------
(* The commands that read range files and logs and talk to no host.  A     *)
(* behaviour is about one of them, the `focus`; compose_paths runs first   *)
(* in all of them, on an estate of its own where the focus is another.     *)
EXTENDS MCAttackPaths, MCEstateMerge, MCAclEscalation, MCDetectionRules

VARIABLE focus

othersVars == <<mergeVars, aclVars, ruleVars>>
MCVars == <<focus, vars, othersVars>>

OneEstate == CHOOSE e \in MCEstates : e.claims = {}
OneDirectory == CHOOSE d \in MCDirectories : TRUE
OneGoal == CHOOSE g \in MCGoals : TRUE

Other(command) == focus \in {"paths", "merge", "acl", "rules"} \ {command}

MCInit ==
  /\ focus \in {"paths", "merge", "acl", "rules"}
  /\ (focus = "paths" \/ (Other("paths") /\ estate = OneEstate))
  /\ (focus = "merge" \/ (Other("merge") /\ range = NoRange))
  /\ (focus = "acl" \/ (Other("acl") /\ directory = OneDirectory /\ seeds = {}))
  /\ (focus = "rules" \/ (Other("rules") /\ goal = OneGoal))
  /\ Init /\ MergeInit /\ AclInit /\ RuleInit

MCNext ==
  /\ UNCHANGED focus
  /\ \/ /\ focus = "paths" \/ pc # "graph"
        /\ Next /\ UNCHANGED othersVars
     \/ /\ focus = "merge" /\ pc = "graph"
        /\ MergeNext /\ UNCHANGED <<vars, aclVars, ruleVars>>
     \/ /\ focus = "acl" /\ pc = "graph"
        /\ AclNext /\ UNCHANGED <<vars, mergeVars, ruleVars>>
     \/ /\ focus = "rules" /\ pc = "graph"
        /\ RuleNext /\ UNCHANGED <<vars, mergeVars, aclVars>>

MCSpec == MCInit /\ [][MCNext]_MCVars /\ WF_vars(Loot \/ Access) /\ RoundsFairness
=============================================================================
