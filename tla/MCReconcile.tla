---------------------------- MODULE MCReconcile ----------------------------
(* Small Fleets for model-checking Reconcile. *)
EXTENDS Reconcile

MCUnits    == {"web.container"}
MCData     == {"web.yml"}
MCSecrets  == {"secret:web"}
MCContents == {"x", "y"}
MCRank     == [p \in MCUnits \cup MCData \cup MCSecrets |->
                 CASE p = "secret:web" -> 50
                   [] p = "web.yml" -> 70
                   [] OTHER -> 100]

\* The secret changes with the provider's answer when the unit exists.
Files3(u, d, s) ==
  [p \in MCUnits \cup MCData \cup MCSecrets |->
     CASE p = "secret:web" -> s [] p = "web.yml" -> d [] OTHER -> u]

None == "absent"

\* A behaviour stays with one of these repositories: files only, where a commit
\* creates, updates or deletes them; "docs", where d1 has only a secret, d2 a unit
\* too, and d3 renders to the same files as d2; and a mix of all.
FileShas  == {"c1", "c2", "c3"}
DocsShas  == {"d1", "d2", "d3"}
MixedShas == {"m1", "m2"}

MCFleet ==
  [sha \in Shas |-> [v \in Vaults |->
     LET secret == IF v = "v1" THEN "x" ELSE "y"
     IN  CASE sha = "c1" -> Files3("x", "x", None)
           [] sha = "c2" -> Files3("x", "y", None)
           [] sha = "c3" -> Files3("y", None, None)
           [] sha = "d1" -> Files3(None, None, secret)
           [] sha \in {"d2", "d3"} -> Files3("y", None, secret)
           [] sha = "m1" -> Files3("x", "x", None)
           [] sha = "m2" -> Files3("y", None, "x")]]

MCFollows ==
  [sha \in Shas |->
     CHOOSE repo \in {FileShas, DocsShas, MixedShas} : sha \in repo]

FileFaults == {"poll", "resolve", "apply", "activate"}

\* All kinds of fault, or those that interrupt an apply.
StateFaults == {FaultKinds, {"resolve", "apply", "activate", "crash"}}
StateShas   == DocsShas \cup MixedShas
StateInit   == Init /\ (head \in MixedShas <=> kinds # FaultKinds)
StateSpec   == StateInit /\ [][Next]_vars

\* Applies fail on files, not where they create secrets.
LiveFaults == {FileFaults, {"poll", "resolve"}}
LiveShas   == FileShas \cup DocsShas
LiveInit   == Init /\ (head \in FileShas <=> kinds = FileFaults)
LiveSpec   == LiveInit /\ [][Next]_vars /\ Fairness

BrickFaults == {{"activate"}}
StaleFaults == {{"crash"}}

Seed1 == {Files3(None, None, None), Files3("x", None, None)}
Seed0 == {Files3(None, None, None)}

MCHooks      == {"reload"}
MCHooksOf    == [sha \in Shas |-> IF sha \in {"c3", "d3"} THEN {} ELSE MCHooks]
MCTriggers   == [reload |-> {"secret:web", "web.yml"}]
MCHookUnit   == [reload |-> "web.container"]
MCMaxRetries == [reload |-> 2]
=============================================================================
