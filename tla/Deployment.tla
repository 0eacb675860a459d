----------------------------- MODULE Deployment -----------------------------
(***************************************************************************)
(* What the Agent promises about the files of its Host: those of a commit  *)
(* are deployed all at once, together with the record of the commit, or    *)
(* not at all; what is deployed was the head of the branch when the        *)
(* attempt began; and a reconciliation is verified only when the Host      *)
(* holds what the applied commit resolves to.                              *)
(*                                                                         *)
(* Reconcile writes the files one by one and saves the record afterwards;  *)
(* that it implements this specification, where restores and saves succeed *)
(* and the Agent does not crash, is Reconcile's DeploysAtomically.         *)
(***************************************************************************)
CONSTANTS
  Shas, NoSha,      \* commits of the Fleet; NoSha is the empty SHA
  Files, Absent,    \* the paths this is about; Absent is "no such file"
  Vaults,           \* versions of what the secret providers answer
  Fleet,            \* Fleet[sha][vault]: the files the Host resolves to
  Follows,          \* Follows[sha]: the commits pushed after sha
  Seeds             \* what bootstrap may have deployed and recorded

VARIABLES
  head, vault,      \* the tip of the branch, the answers of the providers
  aim,              \* the commit and the files of the attempt under way
  host,             \* the files on the Host
  applied,          \* the commit on record
  verified          \* did the last step advance the last-successful time?

vars == <<head, vault, aim, host, applied, verified>>

FilesOf(tree)    == [p \in Files |-> tree[p]]
Deployed(sha, v) == FilesOf(Fleet[sha][v])

NoAim == [sha |-> NoSha, files |-> [p \in Files |-> Absent]]

Init ==
  /\ head \in Shas /\ vault \in Vaults /\ aim = NoAim
  /\ host \in {FilesOf(seed) : seed \in Seeds}
  /\ applied = NoSha /\ verified = FALSE

\* A commit is pushed; a secret is rotated.
Push ==
  /\ head' \in Follows[head] /\ verified' = FALSE
  /\ UNCHANGED <<vault, aim, host, applied>>

Rotate ==
  /\ vault' \in Vaults /\ verified' = FALSE
  /\ UNCHANGED <<head, aim, host, applied>>

\* An attempt to deploy the head begins.
Begin ==
  /\ aim = NoAim
  /\ aim' = [sha |-> head, files |-> Deployed(head, vault)]
  /\ verified' = FALSE
  /\ UNCHANGED <<head, vault, host, applied>>

\* The attempt succeeds; it may leave hooks and restarts to later ticks.
Deploy ==
  /\ aim # NoAim
  /\ host' = aim.files /\ applied' = aim.sha
  /\ aim' = NoAim /\ verified' \in BOOLEAN
  /\ UNCHANGED <<head, vault>>

\* The attempt fails, or has nothing to record.
GiveUp ==
  /\ aim # NoAim /\ aim' = NoAim /\ verified' = FALSE
  /\ UNCHANGED <<head, vault, host, applied>>

\* Nothing is to be done, and nothing is pending.
Verify ==
  /\ aim = NoAim /\ applied = head
  /\ \E v \in Vaults : host = Deployed(applied, v)
  /\ verified' = TRUE
  /\ UNCHANGED <<head, vault, aim, host, applied>>

\* Any other step of the Agent: no file of the Host changes.
Other ==
  /\ verified' = FALSE
  /\ UNCHANGED <<head, vault, aim, host, applied>>

Next == Push \/ Rotate \/ Begin \/ Deploy \/ GiveUp \/ Verify \/ Other

Spec == Init /\ [][Next]_vars

----------------------------------------------------------------------------
(* Properties. *)

\* "Verified OK" means that the Host holds what the applied commit resolves to.
VerifiedIsDeployed ==
  verified => \E v \in Vaults : host = Deployed(applied, v)
=============================================================================
