-------------------------------- MODULE Sops --------------------------------
(***************************************************************************)
(* SOPS files as picolet reads them (pkg/sops): the decrypting Reader of   *)
(* the Agent, the KeylessReader of validate, resolve and bootstrap, and    *)
(* the comparison of a file's recipients with its creation rule.           *)
(*                                                                         *)
(* A file is a record                                                      *)
(*   state    "sops", or why Inspect finds no SOPS data in it: "plain"     *)
(*            (no valid metadata), "large" (over MaxFileSize), "missing"   *)
(*   groups   per key group, the age recipient labels the file lists       *)
(*   sealed   per key group, the keys whose stanza really opens            *)
(*   needs    sops.shamir_threshold as stored, 0 for none                  *)
(*   walks    the values its rules encrypt are well-formed ciphertext      *)
(*   mac      the MAC matches the content                                  *)
(*   tree     pointer -> [kind, enc, empty]                                *)
(* and a ref is a record [path, ptr, ...] where ptr = Whole names the file *)
(* itself.  A value is what a read returns, never its bytes.               *)
(***************************************************************************)
EXTENDS Naturals, Sequences, FiniteSets

CONSTANT Keys       \* age keys picolet accepts (X25519, hybrid); other labels are SSH, plugin, malformed

Whole == "whole"

\* What the readers take for granted of a file.
IsFile(f) == /\ f.groups \in Seq(SUBSET UNION {f.groups[i] : i \in DOMAIN f.groups})
             /\ f.needs \in Nat

\* What a read returns: a secret, the placeholder of a keyless read, a leaf
\* the file leaves unencrypted, or an empty one.
Secret(ref, at) == [what |-> "secret", ref |-> ref, at |-> at]
Stub(ref)       == [what |-> "stub",   ref |-> ref, at |-> 0]
Plain(ref)      == [what |-> "plain",  ref |-> ref, at |-> 0]
Blank           == [what |-> "blank",  ref |-> "",  at |-> 0]

Failed(class) == [class |-> class, value |-> Blank]
Got(value)    == [class |-> "ok",  value |-> value]
IsOk(result)  == result.class = "ok"

-----------------------------------------------------------------------------
(* Recipients: how many key groups a reader opens. *)

\* ParseRecipient: SSH, plugin and malformed recipients are no keys.
IsRecipient(label) == label \in Keys

RequiredGroups(f) ==
    IF f.needs \in 1..Len(f.groups) THEN f.needs ELSE Len(f.groups)

\* matchedGroups compares the unauthenticated labels.
MatchedGroups(f, keys) ==
    Cardinality({i \in DOMAIN f.groups : f.groups[i] \cap keys # {}})

Reaches(f, keys) == MatchedGroups(f, keys) >= RequiredGroups(f)

\* GetDataKeyWithKeyServices over ageKeyService: a group's part unwraps only
\* with an identity its stanza was really sealed to.
Opens(f, keys) ==
    Cardinality({i \in DOMAIN f.sealed : f.sealed[i] \cap keys # {}}) >= RequiredGroups(f)

Recipients(f) == UNION {f.groups[i] : i \in DOMAIN f.groups}

-----------------------------------------------------------------------------
(* Looking at a file without a key, and the decrypting Reader. *)

Inspect(f) == IF f.state = "sops" THEN "ok" ELSE f.state

\* The kind of node a pointer ends at.
Lookup(f, ptr) == IF ptr = Whole THEN "file"
                  ELSE IF ptr \notin DOMAIN f.tree THEN "none" ELSE f.tree[ptr].kind

DecryptClass(f, keys) ==
    IF keys = {}                  THEN "noIdentity"
    ELSE IF Inspect(f) # "ok"     THEN Inspect(f)
    ELSE IF ~Reaches(f, keys)     THEN "notRecipient"
    ELSE IF ~Opens(f, keys)       THEN "edited"
    ELSE IF ~(f.walks /\ f.mac)   THEN "edited"
    ELSE "ok"

\* renderLeaf: an encrypted leaf is its secret, another one is in the clear.
LeafValue(node, secret, ref) ==
    IF node.empty THEN Blank ELSE IF node.enc THEN secret ELSE Plain(ref)

\* extract of ReadAll: the whole file, or the leaf the pointer ends at.
Extract(f, ref, secret) ==
    CASE Lookup(f, ref.ptr) = "file" -> Got(secret)
      [] Lookup(f, ref.ptr) = "none" -> Failed("badPointer")
      [] Lookup(f, ref.ptr) = "leaf" -> Got(LeafValue(f.tree[ref.ptr], secret, ref.path))
      [] OTHER                       -> Failed("notLeaf")

\* toData of ReadData: any node, with its leaves rendered alike.
Data(f, ref, secret) ==
    CASE Lookup(f, ref.ptr) = "none" -> Failed("badPointer")
      [] Lookup(f, ref.ptr) = "leaf" -> Got(LeafValue(f.tree[ref.ptr], secret, ref.path))
      [] OTHER                       -> Got(secret)

Node(f, ref, secret, data) ==
    IF data THEN Data(f, ref, secret) ELSE Extract(f, ref, secret)

\* rejectEmptyDirect: a Podman secret needs a value.
NotEmpty(direct, result) ==
    IF direct /\ IsOk(result) /\ result.value = Blank THEN Failed("empty") ELSE result

Decrypted(f, keys, ref, data, direct) ==
    IF DecryptClass(f, keys) # "ok" THEN Failed(DecryptClass(f, keys))
    ELSE NotEmpty(direct, Node(f, ref, Secret(ref.path, 0), data))

-----------------------------------------------------------------------------
(* The KeylessReader: the file's own checks, then the Host's recipients. *)

\* Mutant: that the Host declares recipients is enough.
DeclaredHostClass(f, recipients) == IF recipients = {} THEN "undeclared" ELSE "ok"

HostClass(f, recipients) ==
    IF recipients = {}                 THEN "undeclared"
    ELSE IF ~Reaches(f, recipients)    THEN "notRecipient"
    ELSE "ok"

\* keylessTree: the walk of a decrypt, with a cipher that needs no key.
KeylessTree(f) == IF f.walks THEN "ok" ELSE "edited"

KeylessClass(f) == IF Inspect(f) # "ok" THEN Inspect(f) ELSE KeylessTree(f)

\* The read's own error comes before the Host's.
ForHost(read, class) == IF IsOk(read) /\ class # "ok" THEN Failed(class) ELSE read

Keyless(f, recipients, ref, data, direct) ==
    IF KeylessClass(f) # "ok" THEN Failed(KeylessClass(f))
    ELSE ForHost(NotEmpty(direct, Node(f, ref, Stub(ref.path), data)), HostClass(f, recipients))

-----------------------------------------------------------------------------
(* The creation rule of .sops.yaml upstream picks for a file: rules is a   *)
(* record [state, groups], groups mapping the paths a rule matches to its  *)
(* recipient labels per key group.                                         *)

\* fileGroups: a file without key groups compares as one empty group.
FileGroups(f) == IF f.groups = <<>> THEN <<{}>> ELSE f.groups

RuleClass(rules, path, f) ==
    IF rules.state = "invalid" THEN "invalidRule"
    ELSE IF rules.state = "none" \/ path \notin DOMAIN rules.groups THEN "ok"
    ELSE IF FileGroups(f) # rules.groups[path] THEN "drift"
    ELSE "ok"
=============================================================================
