-------------------------- MODULE ValidatorProofs --------------------------
(* What holds of every Fleet commit, however its templates call each other: *)
(* the two readers of a SOPS file agree, a resolve that ends well is        *)
(* complete, values get only where they may, and an Agent resolves what     *)
(* validate accepts.                                                        *)
EXTENDS Validator, FiniteSetTheorems, WellFoundedInduction, TLAPS

-----------------------------------------------------------------------------
(* The readers of a SOPS file.                                              *)

\* Whoever holds more keys opens at least as many key groups.
LEMMA MatchedGrows ==
  ASSUME NEW f, IsFile(f), NEW keys, NEW more, keys \subseteq more
  PROVE  /\ MatchedGroups(f, keys) \in Nat /\ MatchedGroups(f, more) \in Nat
         /\ MatchedGroups(f, keys) <= MatchedGroups(f, more)
<1> DEFINE M(ks) == {i \in DOMAIN f.groups : f.groups[i] \cap ks # {}}
<1>1. DOMAIN f.groups = 1..Len(f.groups) /\ Len(f.groups) \in Nat
  BY DEF IsFile
<1>2. IsFiniteSet(DOMAIN f.groups)
  BY <1>1, FS_Interval
<1>3. M(more) \subseteq DOMAIN f.groups /\ M(keys) \subseteq M(more)
  OBVIOUS
<1>4. IsFiniteSet(M(more)) /\ IsFiniteSet(M(keys))
  BY <1>2, <1>3, FS_Subset
<1>5. Cardinality(M(keys)) <= Cardinality(M(more))
  BY <1>3, <1>4, FS_Subset
<1>6. Cardinality(M(keys)) \in Nat /\ Cardinality(M(more)) \in Nat
  BY <1>4, FS_CardinalityType
<1> QED
  BY <1>5, <1>6 DEF MatchedGroups

LEMMA ReachGrows ==
  ASSUME NEW f, IsFile(f), NEW keys, NEW more, keys \subseteq more,
         Reaches(f, keys)
  PROVE  Reaches(f, more)
<1>1. RequiredGroups(f) \in Nat
  BY DEF RequiredGroups, IsFile
<1> QED
  BY <1>1, MatchedGrows DEF Reaches

\* Both walks end at the same node, and a stand-in is empty where the secret
\* is.
LEMMA SameNode ==
  ASSUME NEW f, NEW ref, NEW data \in BOOLEAN, NEW direct \in BOOLEAN
  PROVE  LET keyless == NotEmpty(direct, Node(f, ref, Stub(ref.path), data))
             decrypted == NotEmpty(direct, Node(f, ref, Secret(ref.path, 0), data))
         IN  /\ keyless.class = decrypted.class
             /\ keyless.value = Blank <=> decrypted.value = Blank
             /\ direct /\ IsOk(decrypted) => decrypted.value # Blank
<1>1. Stub(ref.path) # Blank /\ Secret(ref.path, 0) # Blank
      /\ Plain(ref.path) # Blank
  BY DEF Stub, Secret, Plain, Blank
<1>2. CASE Lookup(f, ref.ptr) = "leaf"
  BY <1>1, <1>2
  DEF Node, Data, Extract, NotEmpty, LeafValue, Got, Failed, IsOk
<1>3. CASE Lookup(f, ref.ptr) # "leaf"
  BY <1>1, <1>3
  DEF Node, Data, Extract, NotEmpty, Got, Failed, IsOk
<1> QED
  BY <1>2, <1>3

\* A keyless dry-run never fails a read of a ref the Agent's own Reader
\* accepts, when the Host declares the keys its Agent holds (keyless.go: the
\* decrypting Reader stays the stricter one).
THEOREM KeylessNeverStricter ==
  ASSUME NEW f, IsFile(f), NEW keys, NEW recipients, keys \subseteq recipients,
         NEW ref, NEW data \in BOOLEAN, NEW direct \in BOOLEAN,
         IsOk(Decrypted(f, keys, ref, data, direct))
  PROVE  IsOk(Keyless(f, recipients, ref, data, direct))
<1>1. DecryptClass(f, keys) = "ok"
  BY DEF Decrypted, Failed, IsOk
<1>2. /\ keys # {} /\ Inspect(f) = "ok"
      /\ Reaches(f, keys) /\ f.walks
  BY <1>1 DEF DecryptClass
<1>3. KeylessClass(f) = "ok"
  BY <1>2 DEF KeylessClass, KeylessTree
<1>4. HostClass(f, recipients) = "ok"
  BY <1>2, ReachGrows DEF HostClass
<1>5. IsOk(NotEmpty(direct, Node(f, ref, Stub(ref.path), data)))
  BY <1>1, SameNode DEF Decrypted, IsOk
<1> QED
  BY <1>3, <1>4, <1>5 DEF Keyless, ForHost

\* What validate accepts for a Host, an Agent that holds the identities the
\* Host declares reads: only ciphertext that was tampered with after it was
\* listed as encrypted to them can still fail the read.
THEOREM KeylessAcceptedIsRead ==
  ASSUME NEW f, IsFile(f), NEW keys, NEW recipients, recipients \subseteq keys,
         NEW ref, NEW data \in BOOLEAN, NEW direct \in BOOLEAN,
         IsOk(Keyless(f, recipients, ref, data, direct))
  PROVE  Decrypted(f, keys, ref, data, direct).class \in {"ok", "edited"}
<1>1. KeylessClass(f) = "ok"
  BY DEF Keyless, Failed, IsOk
<1>2. Inspect(f) = "ok" /\ f.walks
  BY <1>1 DEF KeylessClass, KeylessTree, Inspect
<1>3. /\ IsOk(NotEmpty(direct, Node(f, ref, Stub(ref.path), data)))
      /\ HostClass(f, recipients) = "ok"
  BY <1>1 DEF Keyless, ForHost, Failed, IsOk
<1>4. recipients # {} /\ Reaches(f, recipients)
  BY <1>3 DEF HostClass
<1>5. keys # {} /\ Reaches(f, keys)
  BY <1>4, ReachGrows
<1>6. DecryptClass(f, keys) \in {"ok", "edited"}
  BY <1>2, <1>5 DEF DecryptClass
<1>7. NotEmpty(direct, Node(f, ref, Secret(ref.path, 0), data)).class = "ok"
  BY <1>3, SameNode DEF IsOk
<1> QED
  BY <1>6, <1>7 DEF Decrypted, Failed

-----------------------------------------------------------------------------
(* Numbers by induction, and folds as what they compute step by step.       *)

LEMMA NatMin ==
  ASSUME NEW T, T \subseteq Nat, T # {}
  PROVE  \E n \in T : \A m \in T : n <= m
<1> DEFINE R == OpToRel(<, Nat)
<1>1. IsWellFoundedOn(R, Nat)
  BY NatLessThanWellFounded
<1>2. PICK n \in T : \A m \in T : ~(<< m, n >> \in R)
  <2> HIDE DEF R
  <2> QED
    BY <1>1, WFMin
<1>3. ASSUME NEW m \in T
      PROVE  n <= m
  <2>1. << m, n >> \notin R
    BY <1>2
  <2>2. ~(m < n)
    BY <2>1 DEF OpToRel
  <2> QED
    BY <2>2
<1> QED
  BY <1>3

LEMMA Induction ==
  ASSUME NEW S, 0 \in S, \A n \in Nat : n \in S => n + 1 \in S
  PROVE  Nat \subseteq S
<1> SUFFICES ASSUME Nat \ S # {}
             PROVE  FALSE
  OBVIOUS
<1>1. PICK n \in Nat \ S : \A m \in Nat \ S : n <= m
  BY NatMin
<1>2. n # 0 /\ n - 1 \in Nat
  BY <1>1
<1>3. n - 1 \in S
  BY <1>1, <1>2
<1> QED
  BY <1>1, <1>2, <1>3

\* What concatenating the parts of a sequence goes through: g is what it has
\* got to, by the set of the parts it has taken.
Joined(parts, S, g) ==
  g = [s \in SUBSET S |-> IF s = {} THEN << >> ELSE g[s \ {Max(s)}] \o parts[Max(s)]]

LEMMA MaxOfInterval ==
  ASSUME NEW n \in Nat, n # 0
  PROVE  Max(1..n) = n /\ (1..n) \ {n} = 1..(n - 1)
<1>1. n \in 1..n /\ \A m \in 1..n : n >= m
  OBVIOUS
<1>2. \A x \in 1..n : (\A m \in 1..n : x >= m) => x = n
  BY <1>1
<1> QED
  BY <1>1, <1>2 DEF Max

LEMMA JoinedExists ==
  ASSUME NEW parts, NEW n \in Nat
  PROVE  \E g : Joined(parts, 1..n, g)
<1> DEFINE S == {k \in Nat : \E g : Joined(parts, 1..k, g)}
<1>1. 0 \in S
  <2> DEFINE g == [s \in SUBSET (1..0) |-> << >>]
  <2>1. \A s \in SUBSET (1..0) : s = {}
    OBVIOUS
  <2>2. g = [s \in SUBSET (1..0) |->
                IF s = {} THEN << >> ELSE g[s \ {Max(s)}] \o parts[Max(s)]]
    BY <2>1
  <2> QED
    BY <2>2 DEF Joined
<1>2. ASSUME NEW k \in Nat, k \in S
      PROVE  k + 1 \in S
  <2>1. PICK g : Joined(parts, 1..k, g)
    BY <1>2
  <2> DEFINE T == 1..(k + 1)
             h == [s \in SUBSET T |-> IF k + 1 \in s THEN g[s \ {k + 1}] \o parts[k + 1] ELSE g[s]]
  <2>2. ASSUME NEW s \in SUBSET T, k + 1 \notin s
        PROVE  s \in SUBSET (1..k)
    BY <2>2
  <2>3. ASSUME NEW s \in SUBSET T, k + 1 \in s
        PROVE  Max(s) = k + 1 /\ s \ {k + 1} \in SUBSET (1..k)
    <3>1. \A m \in s : k + 1 >= m
      BY <2>3
    <3>2. \A x \in s : (\A m \in s : x >= m) => x = k + 1
      BY <2>3, <3>1
    <3>3. \A x \in s : x # k + 1 => x \in 1..k
      BY <2>3
    <3> QED
      BY <2>3, <3>1, <3>2, <3>3 DEF Max
  <2>4. ASSUME NEW s \in SUBSET T, s # {}
        PROVE  Max(s) \in s
    <3>1. \A m \in s : m \in Int /\ k + 1 - m \in Nat
      OBVIOUS
    <3> DEFINE U == {k + 1 - m : m \in s}
    <3>2. U \subseteq Nat /\ U # {}
      BY <2>4, <3>1
    <3>3. PICK u \in U : \A w \in U : u <= w
      <4> HIDE DEF U
      <4> QED BY <3>2, NatMin
    <3>4. PICK x \in s : u = k + 1 - x
      OBVIOUS
    <3>5. \A m \in s : x >= m
      <4> TAKE m \in s
      <4>1. k + 1 - m \in U
        OBVIOUS
      <4>2. u <= k + 1 - m
        BY <3>3, <4>1
      <4>3. x \in Int /\ m \in Int
        BY <3>1
      <4> HIDE DEF U
      <4> QED
        BY <3>4, <4>2, <4>3
    <3> QED
      BY <3>5 DEF Max
  <2>5. ASSUME NEW s \in SUBSET T
        PROVE  h[s] = IF s = {} THEN << >> ELSE h[s \ {Max(s)}] \o parts[Max(s)]
    <3>1. CASE k + 1 \in s
      <4>1. Max(s) = k + 1 /\ s \ {k + 1} \in SUBSET (1..k)
        BY <3>1, <2>3
      <4>2. s \ {k + 1} \in SUBSET T /\ k + 1 \notin s \ {k + 1}
        OBVIOUS
      <4>3. h[s \ {k + 1}] = g[s \ {k + 1}]
        BY <4>2
      <4> QED
        BY <3>1, <4>1, <4>3
    <3>2. CASE k + 1 \notin s /\ s # {}
      <4>1. s \in SUBSET (1..k) /\ Max(s) \in s
        BY <3>2, <2>2, <2>4
      <4>2. s \ {Max(s)} \in SUBSET T /\ k + 1 \notin s \ {Max(s)}
        BY <3>2
      <4>3. h[s] = g[s] /\ h[s \ {Max(s)}] = g[s \ {Max(s)}]
        BY <3>2, <4>2
      <4>4. g[s] = g[s \ {Max(s)}] \o parts[Max(s)]
        BY <2>1, <4>1, <3>2 DEF Joined
      <4> QED
        BY <3>2, <4>3, <4>4
    <3>3. CASE s = {}
      <4>1. g[s] = << >>
        BY <2>1, <3>3 DEF Joined
      <4> QED
        BY <3>3, <4>1
    <3> QED
      BY <3>1, <3>2, <3>3
  <2>6. Joined(parts, T, h)
    <3> HIDE DEF h
    <3>1. h = [s \in SUBSET T |-> h[s]]
      BY DEF h
    <3>2. h = [s \in SUBSET T |-> IF s = {} THEN << >> ELSE h[s \ {Max(s)}] \o parts[Max(s)]]
      BY <2>5, <3>1
    <3> QED
      BY <3>2 DEF Joined
  <2> QED
    BY <2>6
<1>3. Nat \subseteq S
  <2> HIDE DEF S
  <2> QED
    BY <1>1, <1>2, Induction
<1> QED
  BY <1>3

-----------------------------------------------------------------------------
(* The calls of a template: Flat is a sequence of the tree's calls.         *)

\* What a call stands for on level n of templates, given the levels below, and
\* the calls of a template there.
Piece(flat, known, c, n) ==
  IF c.fn # "renderTemplate" THEN << c >>
  ELSE IF n = 0 \/ c.arg \notin known THEN << Call("fails", c.arg) >>
  ELSE flat[<< c.arg, n - 1 >>]

Chain(flat, known, t, n) ==
  FoldLeft(LAMBDA calls, c : calls \o Piece(flat, known, c, n), << >>, CallsOf(F, t))

Levels(flat, known, depth) ==
  flat = [l \in (DOMAIN F.tree) \X (0..depth) |-> Chain(flat, known, l[1], l[2])]

\* a[i] is what the first i calls of t stand for.
Unfolds(a, flat, known, t, n) ==
  /\ Chain(flat, known, t, n) = a[Len(CallsOf(F, t))]
  /\ a[0] = << >>
  /\ \A i \in 1..Len(CallsOf(F, t)) : a[i] = a[i - 1] \o Piece(flat, known, CallsOf(F, t)[i], n)

\* A template's calls are its parts one after the other.
LEMMA ChainUnfolds ==
  ASSUME NEW flat, NEW known, NEW t, NEW n,
         DOMAIN CallsOf(F, t) = 1..Len(CallsOf(F, t)), Len(CallsOf(F, t)) \in Nat
  PROVE  \E a : Unfolds(a, flat, known, t, n)
<1> DEFINE cs == CallsOf(F, t)
           k == Len(cs)
           parts == [i \in 1..k |-> Piece(flat, known, cs[i], n)]
           Step(g) == g = [s \in SUBSET (1..k) |->
                             IF s = {} THEN << >>
                             ELSE g[s \ {Max(s)}] \o Piece(flat, known, cs[Max(s)], n)]
           it == CHOOSE g : Step(g)
<1>6. k \in Nat
  OBVIOUS
<1>1. Chain(flat, known, t, n) = it[1..k]
  BY DEF Chain, FoldLeft, MapThenFoldSet
<1>2. PICK g : Joined(parts, 1..k, g)
  BY JoinedExists
<1>3. ASSUME NEW s \in SUBSET (1..k), s # {}
      PROVE  Max(s) \in 1..k
  <2> DEFINE U == {k - m : m \in s}
  <2>1. \A m \in s : m \in Int /\ k - m \in Nat
    OBVIOUS
  <2>2. U \subseteq Nat /\ U # {}
    BY <1>3, <2>1
  <2>3. PICK u \in U : \A w \in U : u <= w
    <3> HIDE DEF U
    <3> QED BY <2>2, NatMin
  <2>4. PICK x \in s : u = k - x
    OBVIOUS
  <2>5. \A m \in s : x >= m
    <3> TAKE m \in s
    <3>1. k - m \in U
      OBVIOUS
    <3>2. u <= k - m
      BY <2>3, <3>1
    <3> HIDE DEF U, k
    <3> QED BY <1>6, <2>4, <3>2, <2>1
  <2> QED
    BY <2>5 DEF Max
<1>4. Step(g)
  <2>1. \A s \in SUBSET (1..k) : s # {} => parts[Max(s)] = Piece(flat, known, cs[Max(s)], n)
    BY <1>3
  <2>2. g = [s \in SUBSET (1..k) |-> IF s = {} THEN << >> ELSE g[s \ {Max(s)}] \o parts[Max(s)]]
    BY <1>2 DEF Joined
  <2> HIDE DEF parts, cs, k
  <2> QED
    BY <2>1, <2>2
<1>5. Step(it)
  <2> HIDE DEF Step
  <2> QED
    BY <1>4
<1> DEFINE a == [i \in 0..k |-> it[1..i]]
<1>7. a[0] = << >>
  <2>1. 1..0 = {}
    OBVIOUS
  <2> HIDE DEF it, k
  <2> QED
    BY <1>5, <1>6, <2>1
<1>8. ASSUME NEW i \in 1..k
      PROVE  a[i] = a[i - 1] \o Piece(flat, known, cs[i], n)
  <2>1. Max(1..i) = i /\ (1..i) \ {i} = 1..(i - 1)
    <3> HIDE DEF k
    <3> QED BY MaxOfInterval, <1>6
  <2>2. 1..i \in SUBSET (1..k) /\ 1..i # {} /\ i \in 0..k /\ i - 1 \in 0..k
    <3>1. i \in Nat /\ i <= k /\ i \in 1..i
      <4> HIDE DEF k
      <4> QED BY <1>6
    <3>2. 1..i # {}
      BY <3>1
    <3> HIDE DEF k
    <3> QED BY <1>6, <3>1, <3>2
  <2>3. it[1..i] = it[(1..i) \ {i}] \o Piece(flat, known, cs[i], n)
    <3> HIDE DEF it, k, cs
    <3> QED BY <1>5, <2>1, <2>2
  <2> HIDE DEF it, k, cs
  <2> QED
    BY <2>1, <2>2, <2>3
<1>9. a[k] = it[1..k]
  <2> HIDE DEF it, k
  <2> QED BY <1>6
<1> HIDE DEF a, it
<1> QED
  BY <1>1, <1>7, <1>8, <1>9 DEF Unfolds

LEMMA CallsAreSequences ==
  ASSUME FleetWellFormed(F), NEW t
  PROVE  /\ CallsOf(F, t) \in Seq(Range(CallsOf(F, t)))
         /\ DOMAIN CallsOf(F, t) = 1..Len(CallsOf(F, t)) /\ Len(CallsOf(F, t)) \in Nat
<1>1. CASE t \in DOMAIN F.tree
  <2>1. CallsOf(F, t) \in Seq(Range(CallsOf(F, t)))
    BY <1>1 DEF FleetWellFormed, CallsOf
  <2> QED
    BY <2>1
<1>2. CASE t \notin DOMAIN F.tree
  BY <1>2 DEF CallsOf
<1> QED
  BY <1>1, <1>2

\* The levels below decide a level.
LEMMA ChainDetermined ==
  ASSUME FleetWellFormed(F), NEW flat, NEW other, NEW known, NEW t, NEW n,
         n # 0 => \A s \in known : flat[<< s, n - 1 >>] = other[<< s, n - 1 >>]
  PROVE  Chain(flat, known, t, n) = Chain(other, known, t, n)
<1> DEFINE cs == CallsOf(F, t)
           k == Len(cs)
<1>1. \A c : Piece(flat, known, c, n) = Piece(other, known, c, n)
  BY DEF Piece
<1>2. DOMAIN cs = 1..k /\ k \in Nat
  BY CallsAreSequences
<1>3. PICK a : Unfolds(a, flat, known, t, n)
  BY <1>2, ChainUnfolds
<1>4. PICK b : Unfolds(b, other, known, t, n)
  BY <1>2, ChainUnfolds
<1> DEFINE S == {i \in Nat : i <= k => a[i] = b[i]}
<1>5. 0 \in S
  BY <1>3, <1>4 DEF Unfolds
<1>6. ASSUME NEW i \in Nat, i \in S
      PROVE  i + 1 \in S
  <2>1. CASE i + 1 <= k
    <3>1. i + 1 \in 1..k /\ (i + 1) - 1 = i /\ i <= k
      BY <1>2, <2>1
    <3>2. a[i + 1] = a[i] \o Piece(flat, known, cs[i + 1], n)
      BY <1>3, <3>1 DEF Unfolds
    <3>3. b[i + 1] = b[i] \o Piece(other, known, cs[i + 1], n)
      BY <1>4, <3>1 DEF Unfolds
    <3>4. a[i] = b[i]
      BY <1>6, <3>1
    <3>5. Piece(flat, known, cs[i + 1], n) = Piece(other, known, cs[i + 1], n)
      BY <1>1
    <3>6. a[i + 1] = b[i + 1]
      <4> HIDE DEF cs, k, S
      <4> QED BY <3>2, <3>3, <3>4, <3>5
    <3> HIDE DEF cs, k
    <3> QED
      BY <3>6
  <2> QED
    BY <2>1
<1>7. Nat \subseteq S
  <2> HIDE DEF S
  <2> QED
    BY <1>5, <1>6, Induction
<1>8. a[k] = b[k]
  BY <1>2, <1>7
<1> QED
  BY <1>3, <1>4, <1>8 DEF Unfolds

LEMMA LevelsExist ==
  ASSUME FleetWellFormed(F), NEW known, known \subseteq DOMAIN F.tree, NEW depth \in Nat
  PROVE  \E flat : Levels(flat, known, depth)
<1> DEFINE S == {d \in Nat : \E flat : Levels(flat, known, d)}
           D == DOMAIN F.tree
<1>1. 0 \in S
  <2> DEFINE h == [l \in D \X (0..0) |-> Chain(<< >>, known, l[1], l[2])]
  <2>1. ASSUME NEW l \in D \X (0..0)
        PROVE  h[l] = Chain(h, known, l[1], l[2])
    <3>1. l[2] = 0
      OBVIOUS
    <3>2. Chain(<< >>, known, l[1], l[2]) = Chain(h, known, l[1], l[2])
      <4> HIDE DEF h
      <4> QED BY <3>1, ChainDetermined
    <3>3. h[l] = Chain(<< >>, known, l[1], l[2])
      OBVIOUS
    <3> HIDE DEF h
    <3> QED BY <3>2, <3>3
  <2>2. h = [l \in D \X (0..0) |-> h[l]]
    OBVIOUS
  <2> HIDE DEF h
  <2>3. Levels(h, known, 0)
    BY <2>1, <2>2 DEF Levels
  <2> QED
    BY <2>3
<1>2. ASSUME NEW d \in Nat, d \in S
      PROVE  d + 1 \in S
  <2>1. PICK flat : Levels(flat, known, d)
    BY <1>2
  <2> DEFINE N == 0..(d + 1)
             h == [l \in D \X N |->
                     IF l[2] = d + 1 THEN Chain(flat, known, l[1], l[2]) ELSE flat[l]]
  <2>2. ASSUME NEW t \in D, NEW n \in N, NEW l, l = << t, n >>
        PROVE  h[l] = Chain(h, known, t, n)
    <3>1. n # 0 => \A s \in known : h[<< s, n - 1 >>] = flat[<< s, n - 1 >>]
      <4>1. n # 0 => n - 1 \in N /\ n - 1 # d + 1
        OBVIOUS
      <4> QED BY <4>1
    <3>2. Chain(h, known, t, n) = Chain(flat, known, t, n)
      <4> HIDE DEF h
      <4> QED BY <3>1, ChainDetermined
    <3>3. l \in D \X N /\ l[1] = t /\ l[2] = n
      BY <2>2
    <3>4. CASE n = d + 1
      <4>1. h[l] = Chain(flat, known, t, n)
        BY <3>3, <3>4
      <4> HIDE DEF h
      <4> QED BY <3>2, <4>1
    <3>5. CASE n # d + 1
      <4>1. n \in 0..d /\ l \in D \X (0..d)
        BY <3>5, <2>2
      <4>2. flat[l] = Chain(flat, known, t, n)
        BY <2>1, <3>3, <4>1 DEF Levels
      <4>3. h[l] = flat[l]
        BY <3>3, <3>5
      <4> HIDE DEF h
      <4> QED BY <3>2, <4>2, <4>3
    <3> QED
      BY <3>4, <3>5
  <2>3. h = [l \in D \X N |-> h[l]]
    OBVIOUS
  <2>4. \A l \in D \X N : l[1] \in D /\ l[2] \in N /\ l = << l[1], l[2] >>
    OBVIOUS
  <2>5. \A l \in D \X N : h[l] = Chain(h, known, l[1], l[2])
    <3> HIDE DEF h
    <3> QED BY <2>2, <2>4
  <2>6. Levels(h, known, d + 1)
    <3> HIDE DEF h
    <3> QED BY <2>3, <2>5 DEF Levels
  <2> QED
    BY <2>6
<1>3. Nat \subseteq S
  <2> HIDE DEF S
  <2> QED
    BY <1>1, <1>2, Induction
<1> QED
  BY <1>3

\* The calls a render may make: the tree's, and those that fail.
TreeCalls ==
  LET calls == UNION {Range(CallsOf(F, t)) : t \in DOMAIN F.tree}
  IN  calls \cup {Call("fails", c.arg) : c \in calls}

LEMMA FlatIsSequence ==
  ASSUME FleetWellFormed(F), MaxDepth \in Nat, NEW known, known \subseteq DOMAIN F.tree,
         NEW src \in DOMAIN F.tree
  PROVE  Flat(F, src, known) \in Seq(TreeCalls)
<1> DEFINE D == DOMAIN F.tree
           flat == CHOOSE f : Levels(f, known, MaxDepth)
<1>1. Flat(F, src, known) = flat[<< src, MaxDepth >>]
  BY DEF Flat, Levels, Chain, Piece
<1>2. Levels(flat, known, MaxDepth)
  BY LevelsExist
<1> DEFINE S == {n \in Nat : n <= MaxDepth => \A t \in D : flat[<< t, n >>] \in Seq(TreeCalls)}
<1> HIDE DEF flat
<1>3. ASSUME NEW n \in 0..MaxDepth, NEW t \in D,
             n # 0 => \A s \in D : flat[<< s, n - 1 >>] \in Seq(TreeCalls)
      PROVE  flat[<< t, n >>] \in Seq(TreeCalls)
  <2> DEFINE cs == CallsOf(F, t)
             k == Len(cs)
  <2>1. DOMAIN cs = 1..k /\ k \in Nat
    BY CallsAreSequences
  <2>2. \A i \in 1..k : cs[i] \in TreeCalls /\ Call("fails", cs[i].arg) \in TreeCalls
    <3>1. \A i \in 1..k : cs[i] \in Range(cs)
      BY <2>1 DEF Range
    <3> QED
      BY <3>1 DEF TreeCalls
  <2>3. \A i \in 1..k : Piece(flat, known, cs[i], n) \in Seq(TreeCalls)
    BY <1>3, <2>2 DEF Piece
  <2>4. flat[<< t, n >>] = Chain(flat, known, t, n)
    BY <1>2 DEF Levels
  <2>5. PICK a : Unfolds(a, flat, known, t, n)
    BY <2>1, ChainUnfolds
  <2> DEFINE T == {i \in Nat : i <= k => a[i] \in Seq(TreeCalls)}
  <2>6. 0 \in T
    <3>1. a[0] = << >>
      BY <2>5 DEF Unfolds
    <3>2. a[0] \in Seq(TreeCalls)
      BY <3>1
    <3> HIDE DEF k
    <3> QED BY <3>2
  <2>7. ASSUME NEW i \in Nat, i \in T
        PROVE  i + 1 \in T
    <3>1. CASE i + 1 <= k
      <4>1. i + 1 \in 1..k /\ (i + 1) - 1 = i /\ i <= k
        BY <2>1, <3>1
      <4>2. a[i + 1] = a[i] \o Piece(flat, known, cs[i + 1], n)
        BY <2>5, <4>1 DEF Unfolds
      <4>3. a[i] \in Seq(TreeCalls) /\ Piece(flat, known, cs[i + 1], n) \in Seq(TreeCalls)
        BY <2>3, <2>7, <4>1
      <4>4. a[i + 1] \in Seq(TreeCalls)
        BY <4>2, <4>3
      <4> QED BY <4>4
    <3> QED
      BY <3>1
  <2>8. Nat \subseteq T
    <3> HIDE DEF T
    <3> QED BY <2>6, <2>7, Induction
  <2>9. a[k] \in Seq(TreeCalls)
    BY <2>1, <2>8
  <2> QED
    BY <2>4, <2>5, <2>9 DEF Unfolds
<1>4. 0 \in S
  BY <1>3
<1>5. ASSUME NEW n \in Nat, n \in S
      PROVE  n + 1 \in S
  <2>1. CASE n + 1 <= MaxDepth
    <3>1. n + 1 \in 0..MaxDepth /\ (n + 1) - 1 = n /\ n <= MaxDepth
      BY <2>1
    <3>2. \A s \in D : flat[<< s, n >>] \in Seq(TreeCalls)
      BY <1>5, <3>1
    <3>3. \A t \in D : flat[<< t, n + 1 >>] \in Seq(TreeCalls)
      BY <1>3, <3>1, <3>2
    <3> QED BY <3>3
  <2> QED
    BY <2>1
<1>6. Nat \subseteq S
  <2> HIDE DEF S
  <2> QED BY <1>4, <1>5, Induction
<1> QED
  BY <1>1, <1>6

-----------------------------------------------------------------------------
(* Rendering: what a template's calls leave behind, one after the other.    *)

\* st[n] is what the first n calls did.
Traces(st, calls, guarded, down) ==
  /\ RenderCalls(calls, guarded, down) = st[Len(calls)]
  /\ st[0] = Fresh
  /\ \A n \in 1..Len(calls) : st[n] = Apply(st[n - 1], calls[n], guarded, down)

LEMMA RenderUnfolds ==
  ASSUME NEW calls, Len(calls) \in Nat, NEW guarded, NEW down
  PROVE  \E st : Traces(st, calls, guarded, down)
<1> DEFINE k == Len(calls)
           Step(g, m) == g = [n \in 0..m |->
                                IF n = 0 THEN Fresh ELSE Apply(g[n - 1], calls[n], guarded, down)]
           after == CHOOSE g : Step(g, k)
           S == {m \in Nat : \E g : Step(g, m)}
<1>1. RenderCalls(calls, guarded, down) = after[k]
  BY DEF RenderCalls
<1>2. 0 \in S
  <2> DEFINE g == [n \in 0..0 |-> Fresh]
  <2>1. Step(g, 0)
    OBVIOUS
  <2> QED
    BY <2>1
<1>3. ASSUME NEW m \in Nat, m \in S
      PROVE  m + 1 \in S
  <2>1. PICK g : Step(g, m)
    BY <1>3
  <2> DEFINE h == [n \in 0..(m + 1) |->
                     IF n = m + 1 THEN Apply(g[m], calls[m + 1], guarded, down) ELSE g[n]]
  <2>2. ASSUME NEW n \in 0..(m + 1)
        PROVE  h[n] = IF n = 0 THEN Fresh ELSE Apply(h[n - 1], calls[n], guarded, down)
    <3>1. CASE n = m + 1
      <4>1. n # 0 /\ n - 1 = m /\ m \in 0..(m + 1) /\ m # m + 1
        BY <3>1
      <4>2. h[n - 1] = g[m] /\ h[n] = Apply(g[m], calls[m + 1], guarded, down)
        BY <3>1, <4>1
      <4> HIDE DEF h
      <4> QED BY <3>1, <4>1, <4>2
    <3>2. CASE n # m + 1
      <4>1. n \in 0..m
        BY <3>2
      <4>2. h[n] = g[n]
        BY <3>2
      <4>3. n # 0 => h[n - 1] = g[n - 1]
        BY <4>1
      <4>4. g[n] = IF n = 0 THEN Fresh ELSE Apply(g[n - 1], calls[n], guarded, down)
        BY <2>1, <4>1
      <4> HIDE DEF h
      <4> QED BY <4>2, <4>3, <4>4
    <3> QED
      BY <3>1, <3>2
  <2>3. h = [n \in 0..(m + 1) |-> h[n]]
    OBVIOUS
  <2>4. Step(h, m + 1)
    <3> HIDE DEF h
    <3> QED BY <2>2, <2>3
  <2> HIDE DEF h, Step
  <2> QED
    BY <2>4
<1>4. Nat \subseteq S
  <2> HIDE DEF S
  <2> QED BY <1>2, <1>3, Induction
<1>5. Step(after, k)
  <2>1. \E g : Step(g, k)
    BY <1>4
  <2> HIDE DEF Step
  <2> QED BY <2>1
<1>6. after[0] = Fresh
  <2> HIDE DEF after
  <2> QED BY <1>5
<1>7. \A n \in 1..k : after[n] = Apply(after[n - 1], calls[n], guarded, down)
  <2> HIDE DEF after
  <2> QED BY <1>5
<1> HIDE DEF after
<1> QED
  BY <1>1, <1>6, <1>7 DEF Traces

-----------------------------------------------------------------------------
(* What a render may leave behind.                                          *)

IsHeld(v) == v.what \in {"secret", "stub"}

\* The one value every read of a SOPS ref returns.
SopsValue(ref) == IF WithoutKey THEN Stub(ref) ELSE Secret(ref, 0)

\* v is of ref alone, a file in opened if it was decrypted.
HeldOf(v, ref, opened) ==
  /\ v.ref = ref
  /\ IF F.refs[ref].scheme = "sops"
     THEN v = SopsValue(ref) /\ (WithoutKey \/ F.refs[ref].path \in opened)
     ELSE v.what = "secret" /\ ~WithoutKey

\* What a read of ref returns.
ValueFor(v, ref, opened) ==
  /\ v.what \in {"secret", "stub", "plain", "blank"}
  /\ IsHeld(v) => HeldOf(v, ref, opened)

Kinds == {"secret", "stub", "plain", "blank", "pending", "empty", "hostonly"}

\* What a file may hold, or the last call have returned.
MayHold(v, opened, counted, guarded) ==
  /\ v.what \in Kinds
  /\ v.what = "pending" => run.resolved # SchemeSet
  /\ v.what = "empty"   => ~Strict /\ (v.ref = "sops" => WithoutKey)
  /\ IsHeld(v) =>
       /\ ~guarded /\ ~Strict /\ v.ref \in DOMAIN F.refs
       /\ HeldOf(v, v.ref, opened)
       /\ F.refs[v.ref].scheme = "sops" => counted
       /\ F.refs[v.ref].scheme # "sops" /\ v.ref \in DOMAIN run.cache => v = run.cache[v.ref]

Progress == {"last", "content", "pending", "data", "reached", "opened", "asked",
             "sopsCalls", "err"}

\* st after calls whose refs are among args.
Sound(st, guarded, args) ==
  /\ DOMAIN st = Progress
  /\ st.err = Err(st.err.class)
  /\ st.pending \subseteq args \cap DOMAIN F.refs
  /\ \A x \in st.pending : HasReader(F.refs[x].scheme)
  /\ st.data \subseteq args \cap DOMAIN F.refs
  /\ st.reached \subseteq SopsPaths({x \in args : IsRefOf("sops", x)})
  /\ \A v \in st.content \cup {st.last} :
       MayHold(v, run.opened \cup st.opened, st.sopsCalls, guarded)

\* What the batched calls left.
CacheSound ==
  /\ DOMAIN run.cache \subseteq DOMAIN F.refs
  /\ \A x \in DOMAIN run.cache : ValueFor(run.cache[x], x, run.opened)

\* A SOPS read returns the one value of its ref, once its file is decrypted.
LEMMA ReadSopsValue ==
  ASSUME NEW ref, NEW data \in BOOLEAN, NEW direct \in BOOLEAN, F.refs[ref].scheme = "sops",
         NEW opened, Decrypts({ref}) \subseteq opened,
         IsOk(ReadSops(ref, data, direct))
  PROVE  ValueFor(ReadSops(ref, data, direct).value, ref, opened)
<1> DEFINE f == FileAt(F.refs[ref].path)
           r == [path |-> ref, ptr |-> F.refs[ref].ptr]
           v == ReadSops(ref, data, direct).value
<1>1. F.refs[ref].form = "ok"
  BY DEF ReadSops, SopsRefClass, IsOk, Failed
<1>2. ASSUME NEW s, s.what = "secret" \/ s.what = "stub", NEW res,
             res = NotEmpty(direct, Node(f, r, s, data)), IsOk(res)
      PROVE  res.value = s \/ res.value.what \in {"plain", "blank"}
  <2>1. \A node : LeafValue(node, s, ref) \in {s, Blank, Plain(ref)}
    BY DEF LeafValue
  <2>2. r.path = ref
    OBVIOUS
  <2>3. Blank.what = "blank" /\ Plain(ref).what = "plain"
    BY DEF Blank, Plain
  <2>4. IsOk(Node(f, r, s, data)) /\ res = Node(f, r, s, data)
    BY <1>2 DEF NotEmpty, IsOk, Failed
  <2>5. res.value \in {s, Blank, Plain(ref)}
    <3> HIDE DEF f, r
    <3> QED BY <2>1, <2>2, <2>4 DEF Node, Data, Extract, Got, Failed, IsOk
  <2> QED
    BY <2>3, <2>5
<1>3. CASE WithoutKey
  <2>1. ReadSops(ref, data, direct) = Keyless(f, AgeRecipients(F.hosts[run.host]), r, data, direct)
    BY <1>1, <1>3 DEF ReadSops, SopsRefClass
  <2>2. /\ ReadSops(ref, data, direct) = NotEmpty(direct, Node(f, r, Stub(ref), data))
        /\ IsOk(NotEmpty(direct, Node(f, r, Stub(ref), data)))
    <3> HIDE DEF f
    <3> QED BY <2>1 DEF Keyless, ForHost, Failed, IsOk
  <2>3. Stub(ref).what = "stub" /\ Stub(ref).ref = ref
    BY DEF Stub
  <2>4. v = Stub(ref) \/ v.what \in {"plain", "blank"}
    <3> HIDE DEF f, r
    <3> QED BY <1>2, <2>2, <2>3
  <2> HIDE DEF v
  <2> QED
    BY <1>3, <2>3, <2>4 DEF v, ValueFor, IsHeld, HeldOf, SopsValue
<1>4. CASE ~WithoutKey
  <2>1. ReadSops(ref, data, direct) = Decrypted(f, Agent.ids, r, data, direct)
    BY <1>1, <1>4 DEF ReadSops, SopsRefClass
  <2>2. /\ ReadSops(ref, data, direct) = NotEmpty(direct, Node(f, r, Secret(ref, 0), data))
        /\ DecryptClass(f, Agent.ids) = "ok"
    <3> HIDE DEF f
    <3> QED BY <2>1 DEF Decrypted, Failed, IsOk
  <2>3. Secret(ref, 0).what = "secret" /\ Secret(ref, 0).ref = ref
    BY DEF Secret
  <2>4. v = Secret(ref, 0) \/ v.what \in {"plain", "blank"}
    <3> HIDE DEF f, r
    <3> QED BY <1>2, <2>2, <2>3
  <2>5. F.refs[ref].path \in opened
    BY <1>1, <1>4, <2>2 DEF Decrypts, SopsPaths, SopsRefClass
  <2> HIDE DEF v
  <2> QED
    BY <1>4, <2>3, <2>4, <2>5 DEF v, ValueFor, IsHeld, HeldOf, SopsValue
<1> QED
  BY <1>3, <1>4

LEMMA RenderedSound ==
  ASSUME NEW st, NEW guarded, NEW args, Sound(st, guarded, args),
         NEW v, MayHold(v, run.opened \cup st.opened, st.sopsCalls, guarded)
  PROVE  Sound(Rendered(st, v), guarded, args)
<1> DEFINE new == Rendered(st, v)
<1>1. /\ DOMAIN new = Progress /\ new.last = v /\ new.content = st.content \cup {v}
      /\ new.err = st.err /\ new.pending = st.pending /\ new.data = st.data
      /\ new.reached = st.reached /\ new.opened = st.opened /\ new.sopsCalls = st.sopsCalls
  BY DEF Rendered, Sound, Progress
<1> HIDE DEF new
<1>2. Sound(new, guarded, args)
  BY <1>1 DEF Sound
<1> QED
  BY <1>2 DEF new

LEMMA FailedSound ==
  ASSUME NEW st, NEW guarded, NEW args, Sound(st, guarded, args), NEW class
  PROVE  Sound([st EXCEPT !.err = Err(class)], guarded, args)
<1> DEFINE new == [st EXCEPT !.err = Err(class)]
<1>1. /\ DOMAIN new = Progress /\ new.last = st.last /\ new.content = st.content
      /\ new.err = Err(class) /\ new.pending = st.pending /\ new.data = st.data
      /\ new.reached = st.reached /\ new.opened = st.opened /\ new.sopsCalls = st.sopsCalls
  BY DEF Sound, Progress
<1>2. Err(class).class = class
  BY DEF Err
<1> HIDE DEF new
<1>3. Sound(new, guarded, args)
  BY <1>1, <1>2 DEF Sound
<1> QED
  BY <1>3 DEF new

\* More that is opened or counted leaves what may be held.
LEMMA MayHoldMore ==
  ASSUME NEW v, NEW opened, NEW more, opened \subseteq more, NEW counted, NEW guarded,
         MayHold(v, opened, counted, guarded)
  PROVE  MayHold(v, more, counted, guarded) /\ MayHold(v, more, TRUE, guarded)
BY DEF MayHold, HeldOf

LEMMA CountedSound ==
  ASSUME NEW st, NEW guarded, NEW args, Sound(st, guarded, args), NEW c
  PROVE  /\ Sound(Counted(st, c), guarded, args)
         /\ SchemeOf(c.fn) = "sops" => Counted(st, c).sopsCalls
         /\ Counted(st, c).opened = st.opened
<1> DEFINE new == [st EXCEPT !.sopsCalls = TRUE]
<1>1. /\ DOMAIN new = Progress /\ new.last = st.last /\ new.content = st.content
      /\ new.err = st.err /\ new.pending = st.pending /\ new.data = st.data
      /\ new.reached = st.reached /\ new.opened = st.opened /\ new.sopsCalls = TRUE
  BY DEF Sound, Progress
<1>2. Counted(st, c) = IF SchemeOf(c.fn) = "sops" THEN new ELSE st
  BY DEF Counted, CountsSops
<1> HIDE DEF new
<1>3. ASSUME NEW v \in st.content \cup {st.last}
      PROVE  MayHold(v, run.opened \cup st.opened, TRUE, guarded)
  <2>1. MayHold(v, run.opened \cup st.opened, st.sopsCalls, guarded)
    BY DEF Sound
  <2> QED
    BY <2>1, MayHoldMore
<1>4. Sound(new, guarded, args)
  BY <1>1, <1>3 DEF Sound
<1> QED
  BY <1>1, <1>2, <1>4

\* A collected ref renders as a placeholder for now.
LEMMA CollectSound ==
  ASSUME NEW st, NEW guarded, NEW args, Sound(st, guarded, args),
         NEW ref \in args \cap DOMAIN F.refs, run.resolved # SchemeSet,
         HasReader(F.refs[ref].scheme)
  PROVE  Sound(Rendered([st EXCEPT !.pending = @ \cup {ref}], Pending), guarded, args)
<1> DEFINE new == [st EXCEPT !.pending = @ \cup {ref}]
<1>1. /\ DOMAIN new = Progress /\ new.last = st.last /\ new.content = st.content
      /\ new.err = st.err /\ new.pending = st.pending \cup {ref} /\ new.data = st.data
      /\ new.reached = st.reached /\ new.opened = st.opened /\ new.sopsCalls = st.sopsCalls
  BY DEF Sound, Progress
<1> HIDE DEF new
<1>2. Sound(new, guarded, args)
  BY <1>1 DEF Sound
<1>3. MayHold(Pending, run.opened \cup new.opened, new.sopsCalls, guarded)
  BY DEF MayHold, Pending, Kinds, IsHeld
<1>4. Sound(Rendered(new, Pending), guarded, args)
  BY <1>2, <1>3, RenderedSound
<1> QED
  BY <1>4 DEF new

\* What a ready call may render of the ref it names.
LEMMA ValueMayHold ==
  ASSUME NEW st, NEW guarded, ~guarded, ~Strict, NEW ref \in DOMAIN F.refs,
         NEW v, NEW opened, ValueFor(v, ref, opened),
         NEW counted, F.refs[ref].scheme = "sops" => counted,
         F.refs[ref].scheme # "sops" /\ ref \in DOMAIN run.cache => v = run.cache[ref]
  PROVE  MayHold(v, opened, counted, guarded)
BY DEF ValueFor, MayHold, HeldOf, IsHeld, Kinds

\* A call that reads its ref at once.
LEMMA ReadNowSound ==
  ASSUME NEW st, NEW guarded, NEW args, Sound(st, guarded, args), ~guarded, ~Strict,
         NEW c, NEW down, NEW ref \in args, IsRefOf(SchemeOf(c.fn), ref),
         SchemeOf(c.fn) = "sops" => st.sopsCalls,
         SchemeOf(c.fn) # "sops" => ref \notin DOMAIN run.cache /\ HasReader(SchemeOf(c.fn))
  PROVE  Sound(ReadNow(st, c, ref, down), guarded, args)
<1> DEFINE scheme == SchemeOf(c.fn)
           result == Read(scheme, ref, c.fn = "readSopsData", down)
           asked  == Asked(st, scheme, ref)
<1>1. ref \in DOMAIN F.refs /\ F.refs[ref].scheme = scheme
  BY DEF IsRefOf
<1>2. CASE scheme = "sops"
  <2>1. /\ DOMAIN asked = Progress /\ asked.last = st.last /\ asked.content = st.content
        /\ asked.err = st.err /\ asked.pending = st.pending /\ asked.data = st.data
        /\ asked.reached = st.reached \cup SopsPaths({ref})
        /\ asked.opened = st.opened \cup Decrypts({ref}) /\ asked.sopsCalls = st.sopsCalls
    BY <1>2 DEF Sound, Progress, Asked
  <2> HIDE DEF asked
  <2>2. SopsPaths({ref}) \subseteq SopsPaths({x \in args : IsRefOf("sops", x)})
    BY <1>2 DEF SopsPaths
  <2>3. Sound(asked, guarded, args)
    <3>1. run.opened \cup st.opened \subseteq run.opened \cup asked.opened
      BY <2>1
    <3>2. ASSUME NEW v \in st.content \cup {st.last}
          PROVE  MayHold(v, run.opened \cup asked.opened, asked.sopsCalls, guarded)
      <4>1. MayHold(v, run.opened \cup st.opened, st.sopsCalls, guarded)
        BY DEF Sound
      <4>2. MayHold(v, run.opened \cup asked.opened, st.sopsCalls, guarded)
        <5> DEFINE o == run.opened \cup st.opened
                   m == run.opened \cup asked.opened
        <5>1. o \subseteq m /\ MayHold(v, o, st.sopsCalls, guarded)
          BY <3>1, <4>1
        <5> HIDE DEF o, m
        <5>2. MayHold(v, m, st.sopsCalls, guarded)
          BY <5>1, MayHoldMore
        <5> QED
          BY <5>2 DEF m
      <4> QED
        BY <2>1, <4>2
    <3> QED
      BY <2>1, <2>2, <3>2 DEF Sound
  <2>4. ASSUME IsOk(result)
        PROVE  MayHold(result.value, run.opened \cup asked.opened, asked.sopsCalls, guarded)
    <3>1. result = ReadSops(ref, c.fn = "readSopsData", FALSE)
      BY <1>2 DEF Read
    <3>2. (c.fn = "readSopsData") \in BOOLEAN
      OBVIOUS
    <3>3. Decrypts({ref}) \subseteq run.opened \cup asked.opened
      BY <2>1
    <3>4. ValueFor(result.value, ref, run.opened \cup asked.opened)
      <4> HIDE DEF scheme
      <4> QED BY <1>1, <1>2, <2>4, <3>1, <3>2, <3>3, ReadSopsValue, ZenonT(60)
    <3> HIDE DEF result, scheme
    <3> QED
      BY <1>1, <1>2, <2>1, <3>4, ValueMayHold DEF scheme
  <2>5. ReadNow(st, c, ref, down) = Take(asked, c, ref, result)
    BY DEF ReadNow, asked
  <2> HIDE DEF result
  <2>6. CASE IsOk(result)
    BY <2>3, <2>4, <2>5, <2>6, RenderedSound DEF Take
  <2>7. CASE ~IsOk(result)
    <3>1. \E class : Take(asked, c, ref, result) = [asked EXCEPT !.err = Err(class)]
      BY <2>7 DEF Take, DynamicRefError, Err
    <3> QED
      BY <2>3, <2>5, <3>1, FailedSound
  <2> QED
    BY <2>6, <2>7
<1>3. CASE scheme # "sops"
  <2>1. /\ DOMAIN asked = Progress /\ asked.last = st.last /\ asked.content = st.content
        /\ asked.err = st.err /\ asked.pending = st.pending /\ asked.data = st.data
        /\ asked.reached = st.reached
        /\ asked.opened = st.opened /\ asked.sopsCalls = st.sopsCalls
    BY <1>3 DEF Sound, Progress, Asked
  <2> HIDE DEF asked
  <2>2. Sound(asked, guarded, args)
    BY <2>1 DEF Sound
  <2>3. ~WithoutKey
    BY <1>3 DEF HasReader
  <2>4. ASSUME IsOk(result)
        PROVE  MayHold(result.value, run.opened \cup asked.opened, asked.sopsCalls, guarded)
    <3>1. result = Got(Secret(ref, vault[ref]))
      BY <1>3, <2>4 DEF Read, ReadVault, IsOk, Failed
    <3>2. ValueFor(result.value, ref, run.opened \cup asked.opened)
      <4> HIDE DEF scheme, result
      <4> QED BY <1>1, <1>3, <2>3, <3>1 DEF ValueFor, IsHeld, HeldOf, Got, Secret
    <3> HIDE DEF result, scheme
    <3> QED
      BY <1>1, <1>3, <2>1, <3>2, ValueMayHold DEF scheme
  <2>5. ReadNow(st, c, ref, down) = Take(asked, c, ref, result)
    BY DEF ReadNow, asked
  <2> HIDE DEF result
  <2>6. CASE IsOk(result)
    BY <2>2, <2>4, <2>5, <2>6, RenderedSound DEF Take
  <2>7. CASE ~IsOk(result)
    <3>1. \E class : Take(asked, c, ref, result) = [asked EXCEPT !.err = Err(class)]
      BY <2>7 DEF Take, DynamicRefError, Err
    <3> QED
      BY <2>2, <2>5, <3>1, FailedSound
  <2> QED
    BY <2>6, <2>7
<1> QED
  BY <1>2, <1>3

LEMMA ReadySound ==
  ASSUME CacheSound, NEW st, NEW guarded, NEW args, Sound(st, guarded, args),
         ~guarded, ~Strict, NEW c, NEW down, NEW ref \in args,
         IsRefOf(SchemeOf(c.fn), ref), HasReader(SchemeOf(c.fn)),
         c.fn \in ProviderFns, SchemeOf(c.fn) = "sops" => st.sopsCalls
  PROVE  Sound(ReadyCall(st, c, ref, down), guarded, args)
<1> DEFINE scheme == SchemeOf(c.fn)
<1>1. ref \in DOMAIN F.refs /\ F.refs[ref].scheme = scheme /\ scheme \in SchemeSet
  BY DEF IsRefOf, SchemeOf, SchemeSet
<1>2. CASE c.fn # "readSopsData" /\ scheme \notin run.resolved
  <2>1. run.resolved # SchemeSet
    BY <1>1, <1>2
  <2>2. Sound(Rendered([st EXCEPT !.pending = @ \cup {ref}], Pending), guarded, args)
    BY <1>1, <2>1, CollectSound
  <2> QED
    BY <1>2, <2>2 DEF ReadyCall
<1>3. CASE c.fn # "readSopsData" /\ scheme \in run.resolved /\ Cached(ref)
  <2>1. ValueFor(run.cache[ref], ref, run.opened)
    BY <1>3 DEF CacheSound, Cached
  <2>2. MayHold(run.cache[ref], run.opened, st.sopsCalls, guarded)
    <3> HIDE DEF scheme
    <3> QED BY <1>1, <2>1, ValueMayHold DEF scheme
  <2>3. MayHold(run.cache[ref], run.opened \cup st.opened, st.sopsCalls, guarded)
    BY <2>2, MayHoldMore
  <2>4. Sound(Rendered(st, run.cache[ref]), guarded, args)
    BY <2>3, RenderedSound
  <2> QED
    BY <1>3, <2>4 DEF ReadyCall
<1>4. CASE c.fn = "readSopsData" \/ (scheme \in run.resolved /\ ~Cached(ref))
  <2> DEFINE more == IF scheme \notin run.resolved THEN {ref} ELSE {}
             new  == [st EXCEPT !.data = @ \cup more]
  <2>1. /\ DOMAIN new = Progress /\ new.last = st.last /\ new.content = st.content
        /\ new.err = st.err /\ new.pending = st.pending /\ new.data = st.data \cup more
        /\ new.reached = st.reached /\ new.opened = st.opened /\ new.sopsCalls = st.sopsCalls
    BY DEF Sound, Progress
  <2>2. more \subseteq args \cap DOMAIN F.refs
    BY <1>1
  <2>3. ReadyCall(st, c, ref, down) = ReadNow(new, c, ref, down)
    BY <1>4 DEF ReadyCall
  <2> HIDE DEF new, more
  <2>4. Sound(new, guarded, args)
    BY <2>1, <2>2 DEF Sound
  <2>5. scheme # "sops" => ref \notin DOMAIN run.cache
    BY <1>4 DEF Cached, SchemeOf
  <2>6. Sound(ReadNow(new, c, ref, down), guarded, args)
    BY <2>1, <2>4, <2>5, ReadNowSound
  <2> QED
    BY <2>3, <2>6
<1> QED
  BY <1>2, <1>3, <1>4

LEMMA ProviderCallSound ==
  ASSUME FleetWellFormed(F), CacheSound,
         NEW st, NEW guarded \in BOOLEAN, NEW args, Sound(st, guarded, args),
         NEW c, c.fn \in ProviderFns, c.arg \in args, NEW down
  PROVE  Sound(ProviderCall(st, c, RefOf(c, st.last), guarded, down), guarded, args)
<1> DEFINE ref == RefOf(c, st.last)
           class == CallClass(c, ref, guarded)
           counted == Counted(st, c)
<1>1. /\ Sound(counted, guarded, args)
      /\ SchemeOf(c.fn) = "sops" => counted.sopsCalls
  BY CountedSound
<1>2. ProviderCall(st, c, ref, guarded, down) = ClassedCall(counted, c, ref, class, down)
  BY DEF ProviderCall
<1>3. CASE class = "ready"
  <2>1. ~guarded /\ ~Strict /\ HasReader(SchemeOf(c.fn)) /\ IsRefOf(SchemeOf(c.fn), ref)
    BY <1>3 DEF CallClass
  <2>2. ref \in args
    BY <2>1 DEF RefOf, IsRefOf, FleetWellFormed
  <2> HIDE DEF ref, class, counted
  <2>3. Sound(ReadyCall(counted, c, ref, down), guarded, args)
    BY <1>1, <2>1, <2>2, ReadySound
  <2> QED
    BY <1>2, <1>3, <2>3 DEF ClassedCall, ref, class
<1>4. CASE class = "empty"
  <2>1. ~guarded /\ ~Strict /\ SchemeOf(c.fn) # "sops"
    <3> HIDE DEF ref
    <3> QED BY <1>4 DEF CallClass
  <2>2. MayHold(Empty(SchemeOf(c.fn)), run.opened \cup counted.opened, counted.sopsCalls, guarded)
    BY <2>1 DEF MayHold, Empty, Kinds, IsHeld
  <2> HIDE DEF ref, class, counted
  <2>3. Sound(Rendered(counted, Empty(SchemeOf(c.fn))), guarded, args)
    BY <1>1, <2>2, RenderedSound
  <2> QED
    BY <1>2, <1>4, <2>3 DEF ClassedCall, ref, class
<1>5. CASE class \notin {"ready", "empty"}
  <2> HIDE DEF ref, class, counted
  <2>1. Sound([counted EXCEPT !.err = Err(class)], guarded, args)
    BY <1>1, FailedSound
  <2> QED
    BY <1>2, <1>5, <2>1 DEF ClassedCall, ref, class
<1> QED
  BY <1>3, <1>4, <1>5

\* One more call of a template.
LEMMA ApplySound ==
  ASSUME FleetWellFormed(F), CacheSound,
         NEW st, NEW guarded \in BOOLEAN, NEW args, Sound(st, guarded, args),
         NEW c, c.fn \in ProviderFns => c.arg \in args, NEW down
  PROVE  Sound(Apply(st, c, guarded, down), guarded, args)
<1>1. CASE st.err # NoErr \/ ~Made(c, st)
  BY <1>1 DEF Apply
<1>2. CASE ~(st.err # NoErr \/ ~Made(c, st)) /\ c.fn \in ProviderFns
  <2>1. Sound(ProviderCall(st, c, RefOf(c, st.last), guarded, down), guarded, args)
    BY <1>2, ProviderCallSound
  <2>2. Apply(st, c, guarded, down) = ProviderCall(st, c, RefOf(c, st.last), guarded, down)
    BY <1>2 DEF Apply, ProviderFns
  <2> QED
    BY <2>1, <2>2
<1>3. CASE ~(st.err # NoErr \/ ~Made(c, st)) /\ c.fn = "readSecretFile"
  <2> DEFINE got == SecretFile(c.arg)
  <2>1. Apply(st, c, guarded, down) = TakeFile(st, got)
    BY <1>3 DEF Apply, ProviderFns
  <2>2. IsOk(got) => MayHold(got.value, run.opened \cup st.opened, st.sopsCalls, guarded)
    BY DEF SecretFile, Got, Failed, IsOk, Plain, HostOnly, MayHold, Kinds, IsHeld
  <2> HIDE DEF got
  <2>3. IsOk(got) => Sound(Rendered(st, got.value), guarded, args)
    BY <2>2, RenderedSound
  <2>4. Sound([st EXCEPT !.err = Err(got.class)], guarded, args)
    BY FailedSound
  <2> QED
    BY <2>1, <2>3, <2>4 DEF TakeFile
<1>4. CASE ~(st.err # NoErr \/ ~Made(c, st)) /\ c.fn \notin ProviderFns \cup {"readSecretFile"}
  <2>1. MayHold(Plain("text"), run.opened \cup st.opened, st.sopsCalls, guarded)
    BY DEF Plain, MayHold, Kinds, IsHeld
  <2>2. Sound(Rendered(st, Plain("text")), guarded, args)
    BY <2>1, RenderedSound
  <2>3. Sound([st EXCEPT !.err = Err("template")], guarded, args)
    BY FailedSound
  <2> QED
    BY <1>4, <2>2, <2>3 DEF Apply
<1> QED
  BY <1>1, <1>2, <1>3, <1>4

LEMMA FreshSound ==
  ASSUME NEW guarded, NEW args
  PROVE  Sound(Fresh, guarded, args)
<1>1. /\ DOMAIN Fresh = Progress /\ Fresh.last = Plain("text") /\ Fresh.content = {}
      /\ Fresh.err = NoErr /\ Fresh.pending = {} /\ Fresh.data = {}
      /\ Fresh.reached = {} /\ Fresh.opened = {} /\ Fresh.sopsCalls = FALSE
  BY DEF Fresh, Progress
<1>2. \A opened, counted : MayHold(Plain("text"), opened, counted, guarded)
  BY DEF Plain, MayHold, Kinds, IsHeld
<1>3. NoErr = Err(NoErr.class)
  BY DEF NoErr, Err
<1> QED
  BY <1>1, <1>2, <1>3 DEF Sound

\* The refs a template's calls name.
ArgsOf(src) == IF Template(src) THEN {c.arg : c \in Range(Flat(F, src, Loaded))} ELSE {}

LEMMA RenderOrReadSound ==
  ASSUME FleetWellFormed(F), MaxDepth \in Nat, CacheSound,
         NEW src, NEW guarded \in BOOLEAN, NEW down
  PROVE  Sound(RenderOrRead(src, guarded, down), guarded, ArgsOf(src))
<1>1. CASE ~Template(src)
  <2>1. MayHold(Plain("text"), run.opened \cup Fresh.opened, Fresh.sopsCalls, guarded)
    BY DEF Plain, MayHold, Kinds, IsHeld
  <2>2. Sound(Rendered(Fresh, Plain("text")), guarded, ArgsOf(src))
    BY <2>1, FreshSound, RenderedSound
  <2> QED
    BY <1>1, <2>2 DEF RenderOrRead
<1>2. CASE Template(src)
  <2> DEFINE calls == Flat(F, src, Loaded)
             k     == Len(calls)
             args  == ArgsOf(src)
  <2>1. src \in DOMAIN F.tree /\ Loaded \subseteq DOMAIN F.tree
    BY <1>2 DEF Template, Loaded, Templates
  <2>2. calls \in Seq(TreeCalls)
    BY <2>1, FlatIsSequence
  <2>3. k \in Nat /\ DOMAIN calls = 1..k
    <3> HIDE DEF calls
    <3> QED BY <2>2
  <2>4. \A n \in 1..k : calls[n].arg \in args
    <3> HIDE DEF k
    <3> QED BY <1>2, <2>3 DEF ArgsOf, Range
  <2>5. PICK st : Traces(st, calls, guarded, down)
    <3> HIDE DEF calls
    <3> QED BY <2>3, RenderUnfolds
  <2>6. /\ RenderCalls(calls, guarded, down) = st[k]
         /\ st[0] = Fresh
         /\ \A n \in 1..k : st[n] = Apply(st[n - 1], calls[n], guarded, down)
    <3> HIDE DEF calls
    <3> QED BY <2>5 DEF Traces
  <2> DEFINE S == {n \in Nat : n <= k => Sound(st[n], guarded, args)}
  <2> HIDE DEF calls, k, args
  <2>7. 0 \in S
    BY <2>6, FreshSound
  <2>8. ASSUME NEW n \in Nat, n \in S
        PROVE  n + 1 \in S
    <3>1. CASE n + 1 <= k
      <4>1. n + 1 \in 1..k /\ (n + 1) - 1 = n /\ n <= k
        BY <2>3, <3>1
      <4>2. Sound(st[n], guarded, args)
        BY <2>8, <4>1
      <4>3. calls[n + 1].arg \in args
        BY <2>4, <4>1
      <4>4. Sound(Apply(st[n], calls[n + 1], guarded, down), guarded, args)
        BY <4>2, <4>3, ApplySound
      <4>5. Sound(st[n + 1], guarded, args)
        BY <2>6, <4>1, <4>4
      <4> QED BY <4>5
    <3> QED
      BY <3>1
  <2>9. Nat \subseteq S
    <3> HIDE DEF S
    <3> QED BY <2>7, <2>8, Induction
  <2>10. Sound(st[k], guarded, args)
    BY <2>3, <2>9
  <2> QED
    BY <1>2, <2>6, <2>10 DEF RenderOrRead, calls, args
<1> QED
  BY <1>1, <1>2

-----------------------------------------------------------------------------
(* The invariants of a resolve.                                             *)

Fields == {"mode", "host", "pc", "set", "todo", "units", "pending", "data", "resolved", "cache",
           "direct", "given", "out", "reached", "opened", "asked", "err"}

Starting == {"idle", "expand"}
Reading  == {"collect", "resolve", "resolve pp", "resolve sops", "direct", "direct pp",
             "direct sops"}
Ready    == {"direct", "direct pp", "direct sops", "build", "analyze", "done"}
Finishing == {"build", "analyze", "done"}

Assigned == Expand(F, run.set)
Expands  == /\ ~ExpandFails(F, run.set)
            /\ ~Collides(F, Assigned)

\* Which commit it is, of which Host and in which mode, and how far.
Shape ==
  /\ F \in Fleets
  /\ DOMAIN run = Fields
  /\ run.pc \in Starting \cup Reading \cup Finishing \cup {"failed"}
  /\ run.mode \in {"none", "validate", "bundle", "agent"}
  /\ run.pc = "idle" <=> run.mode = "none"
  /\ run.mode # "none" => run.host \in DOMAIN F.hosts
  /\ run.mode = "validate" => run.set = Resolve(F, F.hosts[run.host])
  /\ run.pc \in Starting => run = [Idle EXCEPT !.mode = run.mode, !.host = run.host,
                                               !.set = run.set, !.pc = run.pc]
  /\ run.pc = "idle" => run = Idle
  /\ run.pc \in Reading \cup Finishing => Expands
  /\ run.pc \in Reading => run.todo = Assigned /\ run.out = {}
  /\ run.pc \in Finishing => run.todo \subseteq Assigned
  /\ run.pc \in {"analyze", "done"} => run.todo = {}
  /\ run.pc = "failed" <=> run.err # NoErr

\* What was read so far: a collected ref is in the cache once its provider is
\* resolved.
Gathered ==
  /\ run.resolved \subseteq SchemeSet
  /\ run.pc \in {"collect", "resolve"} => run.resolved = {}
  /\ run.pc = "resolve pp" => run.resolved = {"op"}
  /\ run.pc = "resolve sops" => run.resolved = {"op", "pp"}
  /\ run.pc \in Ready => run.resolved = SchemeSet
  /\ run.out # {} => run.resolved = SchemeSet
  /\ run.pc = "collect" => run.pending = {} /\ run.opened = {}
  /\ run.pending \cup run.data \subseteq DOMAIN F.refs
  /\ \A x \in run.pending : HasReader(F.refs[x].scheme)
  /\ DOMAIN run.cache = {x \in run.pending : F.refs[x].scheme \in run.resolved}
  /\ CacheSound
  /\ DOMAIN run.direct \subseteq run.set.secrets \cap DOMAIN F.refs
  /\ \A x \in DOMAIN run.direct : ValueFor(run.direct[x], x, run.opened)
  /\ run.given \in BOOLEAN /\ (run.given => ~Strict)
  /\ run.reached \subseteq {F.refs[x].path : x \in DOMAIN F.refs}

\* A built file holds what its references let it hold.
FileSound(f) ==
  IF IsProviderRef(F, f.src)
  THEN /\ f.category = "secret" /\ ~Strict
       /\ f.sopsValues = IsRefOf("sops", f.src)
       /\ \A v \in f.content : ValueFor(v, f.src, run.opened)
  ELSE \A v \in f.content : MayHold(v, run.opened, f.sopsValues, Guarded(f))

\* An error tells none of it.
ErrSound ==
  \A v \in run.err.quotes :
     v.what = "secret" => run.err.class = "invalid" /\ F.refs[v.ref].scheme # "sops"

Contained == (\A f \in run.out : FileSound(f)) /\ ErrSound

ResolveInv == Shape /\ Gathered /\ Contained

-----------------------------------------------------------------------------
(* The files a Host is assigned.                                            *)

LEMMA RowsAre ==
  /\ DOMAIN Rows = 1..12
  /\ Categories = {"network", "systemd", "volume", "image", "build", "container", "kube",
                   "pod", "manifest", "file", "secret", "artifact"}
  /\ \A c \in Categories : Row(c) \in Nat
<1>1. DOMAIN Rows = 1..12
  BY DEF Rows
<1>2. Categories = {Rows[i] : i \in 1..12}
  BY <1>1 DEF Categories
<1>3. \A i : i \in 1..12 <=> i \in {1, 2, 3, 4, 5, 6, 7, 8, 9, 10, 11, 12}
  OBVIOUS
<1>4. Categories = {Rows[i] : i \in {1, 2, 3, 4, 5, 6, 7, 8, 9, 10, 11, 12}}
  BY <1>2, <1>3
<1>5. /\ Rows[1] = "network" /\ Rows[2] = "systemd" /\ Rows[3] = "volume" /\ Rows[4] = "image"
      /\ Rows[5] = "build" /\ Rows[6] = "container" /\ Rows[7] = "kube" /\ Rows[8] = "pod"
      /\ Rows[9] = "manifest" /\ Rows[10] = "file" /\ Rows[11] = "secret"
      /\ Rows[12] = "artifact"
  BY DEF Rows
<1>6. Categories = {"network", "systemd", "volume", "image", "build", "container", "kube",
                    "pod", "manifest", "file", "secret", "artifact"}
  BY <1>4, <1>5
<1>7. ASSUME NEW c \in Categories
      PROVE  Row(c) \in Nat
  <2>1. \E i \in DOMAIN Rows : Rows[i] = c
    BY DEF Categories
  <2>2. Row(c) \in DOMAIN Rows
    BY <2>1 DEF Row
  <2> QED
    BY <1>1, <2>2
<1> QED
  BY <1>1, <1>6, <1>7

\* A path has one category, however it is reached.
LEMMA OneCategory ==
  ASSUME FleetWellFormed(F), NEW s \in DOMAIN F.tree, NEW bundled \in BOOLEAN,
         CategoryForPath(F.tree[s], bundled) # "none"
  PROVE  /\ CategoryForPath(F.tree[s], bundled) \in Categories
         /\ CategoryForPath(F.tree[s], bundled) = CategoryForPath(F.tree[s], TRUE)
<1> DEFINE file == F.tree[s]
<1>1. file.named \subseteq {"manifests", "files", "secrets"}
  BY DEF FleetWellFormed, SegmentCategory
<1>2. CASE file.named # {}
  <2> DEFINE n == CHOOSE x \in file.named : TRUE
  <2>1. n \in {"manifests", "files", "secrets"}
    BY <1>1, <1>2
  <2>2. SegmentCategory[n] \in {"manifest", "file", "secret"}
    <3> HIDE DEF n
    <3> QED BY <2>1 DEF SegmentCategory
  <2>3. /\ ~(Cardinality(file.named) > 1) /\ ~file.deep
        /\ CategoryForPath(file, bundled) = SegmentCategory[n]
        /\ CategoryForPath(file, TRUE) = SegmentCategory[n]
    BY <1>2 DEF CategoryForPath
  <2> HIDE DEF n
  <2> QED
    BY <2>2, <2>3, RowsAre
<1>3. CASE file.named = {}
  <2>1. /\ CategoryForPath(file, bundled) = CategoryForExtension(file.ext)
        /\ CategoryForPath(file, TRUE) = CategoryForExtension(file.ext)
    BY <1>3 DEF CategoryForPath
  <2>2. CategoryForExtension(file.ext) \in {"systemd", "none"} \cup Categories
    BY DEF CategoryForExtension, QuadletExtensions
  <2> QED
    BY <2>1, <2>2, RowsAre
<1> QED
  BY <1>2, <1>3

\* What a file reference of a Host is.
LEMMA ExpandedRef ==
  ASSUME FleetWellFormed(F), NEW set, ~ExpandFails(F, set), NEW r \in Expand(F, set)
  PROVE  /\ r = FileRef(r.src, r.category)
         /\ r.category \in Categories
         /\ r.src \notin DOMAIN F.tree => r.src \in set.secrets
         /\ \/ r.category = "secret" /\ r.src \in set.secrets
            \/ r.src \in DOMAIN F.tree /\ r.category = CategoryForPath(F.tree[r.src], TRUE)
<1>1. \A s, c : FileRef(s, c).src = s /\ FileRef(s, c).category = c
  BY DEF FileRef
<1>2. CASE \E b \in set.services : \E s \in Walked(F, Bundle(F, b)) :
             r = FileRef(s, CategoryForPath(F.tree[s], TRUE))
  <2>1. PICK b \in set.services : \E s \in Walked(F, Bundle(F, b)) :
               r = FileRef(s, CategoryForPath(F.tree[s], TRUE))
    BY <1>2
  <2>2. PICK s \in Walked(F, Bundle(F, b)) : r = FileRef(s, CategoryForPath(F.tree[s], TRUE))
    BY <2>1
  <2>3. s \in DOMAIN F.tree
    BY DEF Walked, Bundle
  <2>4. CategoryForPath(F.tree[s], TRUE) # "none"
    BY DEF ExpandFails, BundleFails, WalkFails
  <2>5. r.src = s /\ r.category = CategoryForPath(F.tree[s], TRUE) /\ r = FileRef(r.src, r.category)
    BY <1>1, <2>2
  <2>6. /\ CategoryForPath(F.tree[s], TRUE) \in Categories
        /\ CategoryForPath(F.tree[s], TRUE) = CategoryForPath(F.tree[s], TRUE)
    BY <2>3, <2>4, OneCategory
  <2> QED
    BY <2>3, <2>4, <2>5, <2>6
<1>3. CASE \E e \in set.paths : \E s \in Walked(F, F.entries[e]) :
             r = FileRef(s, CategoryForPath(F.tree[s], FALSE))
  <2>1. PICK e \in set.paths : \E s \in Walked(F, F.entries[e]) :
               r = FileRef(s, CategoryForPath(F.tree[s], FALSE))
    BY <1>3
  <2>2. PICK s \in Walked(F, F.entries[e]) : r = FileRef(s, CategoryForPath(F.tree[s], FALSE))
    BY <2>1
  <2>3. e \in DOMAIN F.entries /\ CategoryForPath(F.tree[s], FALSE) # "none"
    BY DEF ExpandFails, PathFails, WalkFails
  <2>4. s \in DOMAIN F.tree
    BY <2>3 DEF Walked, FleetWellFormed
  <2>5. r.src = s /\ r.category = CategoryForPath(F.tree[s], FALSE) /\ r = FileRef(r.src, r.category)
    BY <1>1, <2>2
  <2>6. /\ CategoryForPath(F.tree[s], FALSE) \in Categories
        /\ CategoryForPath(F.tree[s], FALSE) = CategoryForPath(F.tree[s], TRUE)
    BY <2>3, <2>4, OneCategory
  <2> QED
    BY <2>3, <2>4, <2>5, <2>6
<1>4. CASE \E s \in set.secrets : r = FileRef(s, "secret")
  <2>1. PICK s \in set.secrets : r = FileRef(s, "secret")
    BY <1>4
  <2>2. r.src = s /\ r.category = "secret" /\ r = FileRef(r.src, r.category)
    BY <1>1, <2>1
  <2> QED
    BY <2>2, RowsAre
<1>5. \/ \E b \in set.services : r \in {FileRef(s, CategoryForPath(F.tree[s], TRUE)) :
                                        s \in Walked(F, Bundle(F, b))}
      \/ \E e \in set.paths : r \in {FileRef(s, CategoryForPath(F.tree[s], FALSE)) :
                                     s \in Walked(F, F.entries[e])}
      \/ r \in {FileRef(s, "secret") : s \in set.secrets}
  <2> DEFINE X == UNION {BundleRefs(F, b) : b \in set.services}
             Y == UNION {EntryRefs(F, e) : e \in set.paths}
             C == {FileRef(s, "secret") : s \in set.secrets}
  <2>1. Expand(F, set) = X \cup Y \cup C
    BY DEF Expand
  <2>2. r \in X => \E b \in set.services : r \in BundleRefs(F, b)
    OBVIOUS
  <2>3. r \in Y => \E e \in set.paths : r \in EntryRefs(F, e)
    OBVIOUS
  <2> QED
    BY <2>1, <2>2, <2>3 DEF BundleRefs, EntryRefs
<1> QED
  BY <1>2, <1>3, <1>4, <1>5

\* A Secret Reference deploys as a secret, and is assigned as one.
LEMMA ProviderRefIsSecret ==
  ASSUME FleetWellFormed(F), NEW set, ~ExpandFails(F, set), NEW r \in Expand(F, set),
         IsProviderRef(F, r.src)
  PROVE  r.category = "secret" /\ r.src \in set.secrets
<1>1. r.src \notin DOMAIN F.tree
  BY DEF FleetWellFormed, IsProviderRef
<1> QED
  BY <1>1, ExpandedRef

\* Files of one destination are one file.
LEMMA OneFilePerDest ==
  ASSUME FleetWellFormed(F), NEW set, ~ExpandFails(F, set), ~Collides(F, Expand(F, set)),
         NEW r \in Expand(F, set), NEW t \in Expand(F, set), DestPath(F, r) = DestPath(F, t)
  PROVE  r = t
<1>1. r.src = t.src
  BY DEF Collides
<1>2. Dest(r.category) = Dest(t.category)
  BY DEF DestPath
<1>3. (r.category = "secret") <=> (t.category = "secret")
  BY <1>2, ExpandedRef, RowsAre DEF Dest
<1>4. r.category = t.category
  BY <1>1, <1>3, ExpandedRef
<1>5. r = FileRef(r.src, r.category) /\ t = FileRef(t.src, t.category)
  BY ExpandedRef
<1> QED
  BY <1>1, <1>4, <1>5

\* Files are built in the order of their categories' rows, one by one.
LEMMA NextInTodo ==
  ASSUME NEW todo, todo # {}, \A r \in todo : r.category \in Categories
  PROVE  Next1(todo) \in todo
<1> DEFINE T == {Row(r.category) : r \in todo}
<1>1. T \subseteq Nat /\ T # {}
  BY RowsAre
<1>2. PICK n \in T : \A m \in T : n <= m
  <2> HIDE DEF T
  <2> QED BY <1>1, NatMin
<1>3. PICK r \in todo : n = Row(r.category)
  OBVIOUS
<1>4. \A t \in todo : Row(r.category) <= Row(t.category)
  BY <1>2, <1>3
<1> QED
  BY <1>4 DEF Next1

-----------------------------------------------------------------------------
(* A resolve keeps to its invariants: what each step needs of it.           *)

LEMMA RenderSound ==
  ASSUME FleetWellFormed(F), MaxDepth \in Nat, CacheSound, NEW ref, NEW down
  PROVE  Sound(Render(ref, down), Guarded(ref), ArgsOf(ref.src))
<1>1. Guarded(ref) \in BOOLEAN
  BY DEF Guarded
<1>2. CASE ref.category = "secret" /\ ref.src \notin DOMAIN F.tree
  <2> DEFINE call == Call("readSecretFile", ref.src)
  <2>1. ~Guarded(ref)
    BY <1>2 DEF Guarded, Dest
  <2>2. call.fn = "readSecretFile"
    BY DEF Call
  <2>3. call.fn \notin ProviderFns
    BY <2>2 DEF ProviderFns
  <2>4. Render(ref, down) = Apply(Fresh, call, FALSE, down)
    BY <1>2 DEF Render
  <2> HIDE DEF call
  <2>5. Sound(Apply(Fresh, call, FALSE, down), FALSE, ArgsOf(ref.src))
    BY <2>3, FreshSound, ApplySound
  <2> QED
    BY <1>1, <2>1, <2>4, <2>5
<1>3. CASE ~(ref.category = "secret" /\ ref.src \notin DOMAIN F.tree)
  BY <1>1, <1>3, RenderOrReadSound DEF Render
<1> QED
  BY <1>2, <1>3

\* The resolve is of the Host and in the mode it was.
SameResolve == F' = F /\ run'.mode = run.mode /\ run'.host = run.host

LEMMA SameReads ==
  ASSUME SameResolve
  PROVE  /\ WithoutKey' <=> WithoutKey
         /\ Strict' <=> Strict
         /\ \A s : HasReader(s)' <=> HasReader(s)
         /\ \A v, ref, opened, more :
              opened \subseteq more /\ ValueFor(v, ref, opened) => ValueFor(v, ref, more)'
<1>1. (WithoutKey' <=> WithoutKey) /\ (Strict' <=> Strict)
  BY DEF SameResolve, WithoutKey, Strict
<1>2. \A s : HasReader(s)' <=> HasReader(s)
  BY <1>1 DEF SameResolve, HasReader, Agent
<1>3. ASSUME NEW v, NEW ref, NEW opened, NEW more, opened \subseteq more,
             ValueFor(v, ref, opened)
      PROVE  ValueFor(v, ref, more)'
  BY <1>1, <1>3 DEF ValueFor, HeldOf, SopsValue, SameResolve
<1> QED
  BY <1>1, <1>2, <1>3

\* What a file may hold it may still once more SOPS files are open.
LEMMA SameHolds ==
  ASSUME SameResolve, run'.cache = run.cache, run'.resolved = run.resolved,
         NEW v, NEW opened, NEW more, opened \subseteq more, NEW counted, NEW guarded,
         MayHold(v, opened, counted, guarded)
  PROVE  MayHold(v, more, counted, guarded)'
<1>1. HeldOf(v, v.ref, opened) => HeldOf(v, v.ref, more)'
  BY SameReads DEF HeldOf, SopsValue, SameResolve
<1> QED
  BY <1>1, SameReads DEF MayHold, SameResolve, IsHeld

LEMMA FileKept ==
  ASSUME SameResolve, run'.cache = run.cache, run'.resolved = run.resolved,
         run.opened \subseteq run'.opened, NEW f, FileSound(f)
  PROVE  FileSound(f)'
<1>1. IsProviderRef(F, f.src)' <=> IsProviderRef(F, f.src)
  BY DEF IsProviderRef, SameResolve
<1>2. CASE IsProviderRef(F, f.src)
  <2>1. \A v \in f.content : ValueFor(v, f.src, run.opened)'
    BY <1>2, SameReads DEF FileSound
  <2> QED
    BY <1>1, <1>2, <2>1, SameReads DEF FileSound, IsRefOf, SameResolve
<1>3. CASE ~IsProviderRef(F, f.src)
  <2>1. \A v \in f.content : MayHold(v, run.opened, f.sopsValues, Guarded(f))'
    BY <1>3, SameHolds DEF FileSound, Guarded
  <2> QED
    BY <1>1, <1>3, <2>1 DEF FileSound
<1> QED
  BY <1>2, <1>3

\* A batched read returns a value of its ref.
LEMMA BatchValue ==
  ASSUME NEW scheme \in SchemeSet, HasReader(scheme), NEW direct \in BOOLEAN, NEW down,
         NEW x, IsRefOf(scheme, x), NEW opened, scheme = "sops" => Decrypts({x}) \subseteq opened,
         NEW result,
         result = IF scheme = "sops" THEN ReadSops(x, FALSE, direct) ELSE ReadVault(x, down),
         IsOk(result)
  PROVE  ValueFor(result.value, x, opened)
<1>1. x \in DOMAIN F.refs /\ F.refs[x].scheme = scheme
  BY DEF IsRefOf
<1>2. CASE scheme = "sops"
  BY <1>1, <1>2, ReadSopsValue
<1>3. CASE scheme # "sops"
  <2>1. result = Got(Secret(x, vault[x]))
    BY <1>3 DEF ReadVault, IsOk, Failed
  <2>2. \A v : Got(v).value = v
    BY DEF Got
  <2>3. \A r, a : Secret(r, a).what = "secret" /\ Secret(r, a).ref = r
    BY DEF Secret
  <2>4. result.value.what = "secret" /\ result.value.ref = x
    <3> DEFINE s == Secret(x, vault[x])
    <3>1. s.what = "secret" /\ s.ref = x
      BY <2>3
    <3>2. result = Got(s)
      BY <2>1
    <3> HIDE DEF s
    <3> QED BY <2>2, <3>1, <3>2
  <2>5. ~WithoutKey
    BY <1>3 DEF HasReader, SchemeSet
  <2> QED
    BY <1>1, <1>3, <2>4, <2>5 DEF ValueFor, HeldOf
<1> QED
  BY <1>2, <1>3

\* A failed read says how it failed.
LEMMA FailureIsClassed ==
  ASSUME FleetWellFormed(F), NEW x \in DOMAIN F.refs, NEW data, NEW direct, NEW down
  PROVE  ReadSops(x, data, direct).class # "none" /\ ReadVault(x, down).class # "none"
<1> DEFINE f == FileAt(F.refs[x].path)
<1>1. f.state # "none" /\ F.refs[x].form # "none"
  BY DEF FileAt, FleetWellFormed
<1>2. \A c, v : Failed(c).class = c /\ Got(v).class = "ok"
  BY DEF Failed, Got
<1>3. ReadVault(x, down).class # "none"
  BY <1>2 DEF ReadVault
<1>4. \A r, s : Node(f, r, s, data).class # "none"
  <2> HIDE DEF f
  <2> QED BY <1>2 DEF Node, Data, Extract
<1>5. \A r, s : NotEmpty(direct, Node(f, r, s, data)).class # "none"
  <2> HIDE DEF f
  <2> QED BY <1>2, <1>4 DEF NotEmpty
<1>6. \A ids : DecryptClass(f, ids) # "none"
  <2> HIDE DEF f
  <2> QED BY <1>1 DEF DecryptClass, Inspect
<1>7. \A ids, r : Decrypted(f, ids, r, data, direct).class # "none"
  <2> HIDE DEF f
  <2> QED BY <1>2, <1>5, <1>6 DEF Decrypted
<1>8. \A rs : HostClass(f, rs) # "none" /\ DeclaredHostClass(f, rs) # "none" /\ KeylessClass(f) # "none"
  <2> HIDE DEF f
  <2> QED BY <1>1 DEF HostClass, DeclaredHostClass, KeylessClass, KeylessTree, Inspect
<1>9. \A rs, r : Keyless(f, rs, r, data, direct).class # "none"
  <2> HIDE DEF f
  <2> QED BY <1>2, <1>5, <1>8 DEF Keyless, ForHost
<1>10. ReadSops(x, data, direct).class # "none"
  BY <1>1, <1>2, <1>7, <1>9 DEF ReadSops, SopsRefClass
<1> QED
  BY <1>3, <1>10

\* The commit is the one validated, throughout.
LEMMA CommitKept ==
  ASSUME Next
  PROVE  F' = F
BY DEF Next, LoadFleet, ValidateSOPSFiles, Tell, ValidateHost, ValidateAgentBundle, ResolveStep,
       ExpandAndValidate, Collect, ResolveCache, ResolveCacheOf, ResolveDirectSecrets, ResolveDirect,
       BuildFile, BuildHooks, Analyze, AgentResolves, AgentEnds, Rotate, Unchanging

\* A resolve that begins, or none.
LEMMA BegunSound ==
  ASSUME F \in Fleets, F' = F, NEW mode \in {"validate", "bundle", "agent"},
         NEW host \in DOMAIN F.hosts, NEW set, mode = "validate" => set = Resolve(F, F.hosts[host]),
         run' = Begun(mode, host, set)
  PROVE  ResolveInv'
<1>1. /\ DOMAIN run' = Fields /\ run'.mode = mode /\ run'.host = host /\ run'.set = set
      /\ run'.pc = "expand" /\ run'.pending = {} /\ run'.data = {} /\ run'.resolved = {}
      /\ run'.cache = << >> /\ run'.direct = << >> /\ run'.given = FALSE /\ run'.out = {}
      /\ run'.reached = {} /\ run'.err = NoErr
  BY DEF Begun, Idle, Fields
<1>2. run' = [Idle EXCEPT !.mode = run'.mode, !.host = run'.host, !.set = run'.set, !.pc = run'.pc]
  BY <1>1 DEF Begun
<1>3. Shape'
  BY <1>1, <1>2 DEF Shape, Starting, Reading, Finishing
<1>4. DOMAIN << >> = {}
  OBVIOUS
<1>5. Gathered'
  BY <1>1, <1>4 DEF Gathered, Ready, SchemeSet, CacheSound
<1>6. NoErr.quotes = {}
  BY DEF NoErr
<1>7. Contained'
  BY <1>1, <1>6 DEF Contained, ErrSound
<1> QED
  BY <1>3, <1>5, <1>7 DEF ResolveInv

LEMMA IdleSound ==
  ASSUME F \in Fleets, F' = F, run' = Idle
  PROVE  ResolveInv'
<1>1. /\ DOMAIN run' = Fields /\ run'.mode = "none" /\ run'.host = ""
      /\ run'.pc = "idle" /\ run'.pending = {} /\ run'.data = {} /\ run'.resolved = {}
      /\ run'.cache = << >> /\ run'.direct = << >> /\ run'.given = FALSE /\ run'.out = {}
      /\ run'.reached = {} /\ run'.err = NoErr
  BY DEF Idle, Fields
<1>2. run' = [Idle EXCEPT !.mode = run'.mode, !.host = run'.host, !.set = run'.set, !.pc = run'.pc]
  BY ZenonT(60) DEF Idle
<1>3. Shape'
  BY <1>1, <1>2 DEF Shape, Starting, Reading, Finishing
<1>4. DOMAIN << >> = {}
  OBVIOUS
<1>5. Gathered'
  BY <1>1, <1>4 DEF Gathered, Ready, SchemeSet, CacheSound
<1>6. NoErr.quotes = {}
  BY DEF NoErr
<1>7. Contained'
  BY <1>1, <1>6 DEF Contained, ErrSound
<1> QED
  BY <1>3, <1>5, <1>7 DEF ResolveInv

\* A resolve that fails, whatever it read before it did.
LEMMA FailedRunSound ==
  ASSUME ResolveInv, F' = F, run.pc # "idle",
         DOMAIN run' = Fields, run'.mode = run.mode, run'.host = run.host, run'.set = run.set,
         run'.pending = run.pending, run'.data = run.data, run'.resolved = run.resolved,
         run'.cache = run.cache, run'.direct = run.direct, run'.given = run.given,
         run'.out = run.out, run.opened \subseteq run'.opened,
         run'.reached \subseteq {F.refs[x].path : x \in DOMAIN F.refs},
         run'.pc = "failed", run'.err # NoErr, ErrSound'
  PROVE  ResolveInv'
<1>1. SameResolve
  BY DEF SameResolve
<1>2. Shape'
  BY DEF ResolveInv, Shape, Starting, Reading, Finishing
<1>3. CacheSound'
  BY <1>1, SameReads DEF ResolveInv, Gathered, CacheSound
<1>4. \A x \in DOMAIN run'.direct : ValueFor(run.direct[x], x, run.opened)'
  BY <1>1, SameReads DEF ResolveInv, Gathered
<1>5. Gathered'
  BY <1>1, <1>3, <1>4, SameReads DEF ResolveInv, Gathered, Ready
<1>6. \A f \in run'.out : FileSound(f)'
  BY <1>1, FileKept DEF ResolveInv, Contained
<1>7. Contained'
  BY <1>6 DEF Contained
<1> QED
  BY <1>2, <1>5, <1>7 DEF ResolveInv

\* The sources a resolve starts from, and what it found wrong with them.
LEMMA ErrorsDiffer ==
  ASSUME NEW class, class # "none"
  PROVE  Err(class) # NoErr /\ Err(class).quotes = {} /\ Err(class).class = class
BY DEF Err, NoErr

LEMMA ExpandSound ==
  ASSUME ResolveInv, F' = F, ExpandAndValidate
  PROVE  ResolveInv'
<1> DEFINE files == Expand(F, run.set)
<1>1. /\ run.pc = "expand" /\ DOMAIN run = Fields
      /\ run = [Idle EXCEPT !.mode = run.mode, !.host = run.host, !.set = run.set, !.pc = run.pc]
      /\ run.mode # "none"
  BY DEF ExpandAndValidate, Done, ResolveInv, Shape, Starting
<1>2. /\ run.pending = {} /\ run.data = {} /\ run.resolved = {} /\ run.cache = << >>
      /\ run.direct = << >> /\ run.given = FALSE /\ run.out = {} /\ run.reached = {}
      /\ run.opened = {} /\ run.err = NoErr
  BY <1>1, ZenonT(60) DEF Idle
<1>3. CASE Fail(Err("expand"))
  <2>1. /\ DOMAIN run' = Fields /\ run'.mode = run.mode /\ run'.host = run.host
        /\ run'.set = run.set /\ run'.pending = run.pending /\ run'.data = run.data
        /\ run'.resolved = run.resolved /\ run'.cache = run.cache /\ run'.direct = run.direct
        /\ run'.given = run.given /\ run'.out = run.out /\ run'.opened = run.opened
        /\ run'.reached = run.reached /\ run'.pc = "failed" /\ run'.err = Err("expand")
    BY <1>1, <1>3 DEF Fail, Fields
  <2>2. ErrSound'
    BY <2>1, ErrorsDiffer DEF ErrSound
  <2>3. run'.reached \subseteq {F.refs[x].path : x \in DOMAIN F.refs}
    BY <1>2, <2>1
  <2> QED
    BY <1>1, <2>1, <2>2, <2>3, ErrorsDiffer, FailedRunSound
<1>4. CASE /\ ~(ExpandFails(F, run.set) \/ DestFails(F, files) \/ Collides(F, files))
           /\ run' = [run EXCEPT !.todo = files, !.pc = "collect"]
  <2>1. /\ DOMAIN run' = Fields /\ run'.mode = run.mode /\ run'.host = run.host
        /\ run'.set = run.set /\ run'.pending = {} /\ run'.data = {}
        /\ run'.resolved = {} /\ run'.cache = << >> /\ run'.direct = << >>
        /\ run'.given = FALSE /\ run'.out = {} /\ run'.opened = {}
        /\ run'.reached = {} /\ run'.pc = "collect" /\ run'.err = NoErr /\ run'.todo = files
    BY <1>1, <1>2, <1>4 DEF Fields
  <2>2. Shape'
    BY <1>1, <1>4, <2>1
    DEF ResolveInv, Shape, Starting, Reading, Finishing, Expands, Assigned
  <2>3. DOMAIN << >> = {}
    OBVIOUS
  <2>4. Gathered'
    BY <2>1, <2>3 DEF Gathered, Ready, SchemeSet, CacheSound
  <2>5. NoErr.quotes = {}
    BY DEF NoErr
  <2>6. Contained'
    BY <2>1, <2>5 DEF Contained, ErrSound
  <2> QED
    BY <2>2, <2>4, <2>6 DEF ResolveInv
<1> QED
  BY <1>3, <1>4 DEF ExpandAndValidate

LEMMA CollectStepSound ==
  ASSUME ResolveInv, F' = F, Collect
  PROVE  ResolveInv'
<1>1. run.pc = "collect" /\ DOMAIN run = Fields /\ run.resolved = {} /\ run.pending = {} /\ run.out = {}
  BY DEF Collect, Done, ResolveInv, Shape, Gathered, Reading
<1>2. /\ DOMAIN run' = Fields /\ run'.mode = run.mode /\ run'.host = run.host
      /\ run'.set = run.set /\ run'.todo = run.todo /\ run'.resolved = run.resolved
      /\ run'.cache = run.cache /\ run'.direct = run.direct /\ run'.given = run.given
      /\ run'.out = run.out /\ run'.err = run.err /\ run'.pc = "resolve"
      /\ run'.pending = UNION {st.pending : st \in Collected}
      /\ run'.data = UNION {st.data : st \in Collected}
      /\ run'.reached = UNION {st.reached : st \in Collected}
      /\ run'.opened = UNION {st.opened : st \in Collected}
  BY <1>1 DEF Collect, CollectFrom, Fields
<1>3. FleetWellFormed(F) /\ MaxDepth \in Nat
  BY ResolverAssumption DEF ResolveInv, Shape
<1>4. ASSUME NEW st \in Collected
      PROVE  /\ st.pending \cup st.data \subseteq DOMAIN F.refs
             /\ \A x \in st.pending : HasReader(F.refs[x].scheme)
             /\ st.reached \subseteq {F.refs[x].path : x \in DOMAIN F.refs}
  <2>1. PICK r \in run.todo : st = RenderOrRead(r.src, FALSE, {})
    BY DEF Collected
  <2>2. Sound(st, FALSE, ArgsOf(r.src))
    BY <1>3, <2>1, RenderOrReadSound DEF ResolveInv, Gathered
  <2> QED
    BY <2>2 DEF Sound, SopsPaths, IsRefOf
<1>5. Shape'
  BY <1>1, <1>2
  DEF ResolveInv, Shape, Starting, Reading, Finishing, Expands, Assigned
<1>6. SameResolve
  BY <1>2 DEF SameResolve
<1>7. /\ run'.pending \cup run'.data \subseteq DOMAIN F.refs
      /\ \A x \in run'.pending : HasReader(F.refs[x].scheme)
      /\ run'.reached \subseteq {F.refs[x].path : x \in DOMAIN F.refs}
  BY <1>2, <1>4
<1>8. DOMAIN run.cache = {} /\ run.opened \subseteq run'.opened
  BY <1>1 DEF ResolveInv, Gathered
<1>9. \A x \in DOMAIN run'.direct : ValueFor(run.direct[x], x, run.opened)'
  BY <1>2, <1>6, <1>8, SameReads DEF ResolveInv, Gathered
<1>10. Gathered'
  BY <1>1, <1>2, <1>6, <1>7, <1>8, <1>9, SameReads DEF ResolveInv, Gathered, Ready, CacheSound
<1>11. Contained'
  BY <1>1, <1>2 DEF ResolveInv, Contained, ErrSound
<1> QED
  BY <1>5, <1>10, <1>11 DEF ResolveInv

\* The paths reading refs reaches are those of refs.
LEMMA PathsOfRefs ==
  ASSUME NEW refs, refs \subseteq DOMAIN F.refs
  PROVE  SopsPaths(refs) \subseteq {F.refs[x].path : x \in DOMAIN F.refs}
BY DEF SopsPaths

\* The parts of a resolve a batched call changes.
LEMMA ReadsFields ==
  ASSUME DOMAIN run = Fields, NEW scheme, NEW refs, refs \subseteq DOMAIN F.refs
  PROVE  /\ DOMAIN Reads(scheme, refs) = Fields
         /\ \A x \in Fields \ {"reached", "opened", "asked"} : Reads(scheme, refs)[x] = run[x]
         /\ run.opened \subseteq Reads(scheme, refs).opened
         /\ scheme = "sops" => Decrypts(refs) \subseteq Reads(scheme, refs).opened
         /\ Reads(scheme, refs).reached
              \subseteq run.reached \cup {F.refs[x].path : x \in DOMAIN F.refs}
<1>1. SopsPaths(refs) \subseteq {F.refs[x].path : x \in DOMAIN F.refs}
  BY PathsOfRefs
<1> QED
  BY <1>1 DEF Reads, Fields

\* But for what it read, a resolve is as it was before a batch.
LEMMA ReadsKeeps ==
  ASSUME DOMAIN run = Fields, NEW scheme, NEW refs
  PROVE  /\ DOMAIN Reads(scheme, refs) = Fields
         /\ \A x \in Fields \ {"reached", "opened", "asked"} : Reads(scheme, refs)[x] = run[x]
BY DEF Reads, Fields

\* Failing in a batch.
LEMMA BatchFailedSound ==
  ASSUME ResolveInv, F' = F, run.pc # "idle",
         NEW scheme \in SchemeSet, NEW refs, \A x \in refs : IsRefOf(scheme, x),
         NEW direct, NEW down, NEW class \in Classes(Batch(scheme, refs, direct, down)),
         run' = [Reads(scheme, refs) EXCEPT !.pc = "failed", !.err = Err(class)]
  PROVE  ResolveInv'
<1> DEFINE results == Batch(scheme, refs, direct, down)
           read    == Reads(scheme, refs)
<1>1. DOMAIN run = Fields /\ refs \subseteq DOMAIN F.refs /\ FleetWellFormed(F)
  BY ResolverAssumption DEF ResolveInv, Shape, IsRefOf
<1>2. /\ DOMAIN read = Fields
      /\ \A x \in Fields \ {"reached", "opened", "asked"} : read[x] = run[x]
      /\ run.opened \subseteq read.opened
      /\ read.reached \subseteq run.reached \cup {F.refs[x].path : x \in DOMAIN F.refs}
  BY <1>1, ReadsFields
<1>3. PICK x \in refs : class = results[x].class
  BY DEF Classes, Batch
<1>4. class # "none"
  <2>1. results[x] = IF scheme = "sops" THEN ReadSops(x, FALSE, direct) ELSE ReadVault(x, down)
    BY DEF Batch
  <2>2. x \in DOMAIN F.refs
    BY <1>1
  <2> HIDE DEF results
  <2> QED BY <1>1, <1>3, <2>1, <2>2, FailureIsClassed
<1> HIDE DEF read
<1>5. /\ DOMAIN run' = Fields /\ run'.mode = run.mode /\ run'.host = run.host
      /\ run'.set = run.set /\ run'.pending = run.pending /\ run'.data = run.data
      /\ run'.resolved = run.resolved /\ run'.cache = run.cache /\ run'.direct = run.direct
      /\ run'.given = run.given /\ run'.out = run.out /\ run'.opened = read.opened
      /\ run'.reached = read.reached /\ run'.pc = "failed" /\ run'.err = Err(class)
  BY <1>2 DEF Fields, read
<1>6. ErrSound'
  BY <1>4, <1>5, ErrorsDiffer DEF ErrSound
<1>7. run.reached \subseteq {F.refs[y].path : y \in DOMAIN F.refs}
  BY DEF ResolveInv, Gathered
<1> QED
  BY <1>2, <1>4, <1>5, <1>6, <1>7, ErrorsDiffer, FailedRunSound

\* What a batch answered, with no error.
Answered(results, scheme, refs, direct, down) ==
  /\ DOMAIN results = refs /\ Classes(results) = {}
  /\ \A x \in refs : results[x] = IF scheme = "sops" THEN ReadSops(x, FALSE, direct)
                                   ELSE ReadVault(x, down)

\* Values of a batch without a failure are those of its refs.
LEMMA BatchSound ==
  ASSUME NEW scheme \in SchemeSet, NEW refs, \A x \in refs : IsRefOf(scheme, x),
         refs # {} => HasReader(scheme), NEW direct \in BOOLEAN, NEW down,
         NEW results, Answered(results, scheme, refs, direct, down),
         NEW opened, scheme = "sops" => Decrypts(refs) \subseteq opened
  PROVE  \A x \in refs : ValueFor(results[x].value, x, opened)
<1>1. \A x \in refs : IsOk(results[x])
  BY DEF Answered, Classes, IsOk
<1>2. ASSUME NEW x \in refs
      PROVE  ValueFor(results[x].value, x, opened)
  <2>1. scheme = "sops" => Decrypts({x}) \subseteq opened
    BY DEF Decrypts, SopsPaths
  <2> QED
    BY <1>1, <2>1, BatchValue DEF Answered
<1> QED
  BY <1>2

\* A resolve that reads on: its mode, Host and files stay.
Proceeds ==
  /\ F' = F /\ DOMAIN run' = Fields /\ run'.mode = run.mode /\ run'.host = run.host
  /\ run'.set = run.set /\ run'.pending = run.pending /\ run'.data = run.data
  /\ run'.out = run.out /\ run'.err = run.err /\ run'.todo = run.todo
  /\ run.opened \subseteq run'.opened
  /\ run'.reached \subseteq run.reached \cup {F.refs[x].path : x \in DOMAIN F.refs}

LEMMA ProceedsSound ==
  ASSUME ResolveInv, Proceeds, run.pc \in Reading, run'.pc \in Reading \cup {"build"},
         CacheSound',
         DOMAIN run'.cache = {x \in run'.pending : F.refs[x].scheme \in run'.resolved},
         run'.resolved \subseteq SchemeSet, run'.pc \notin {"collect", "resolve"},
         run'.pc = "resolve pp" => run'.resolved = {"op"},
         run'.pc = "resolve sops" => run'.resolved = {"op", "pp"},
         run'.pc \in Ready => run'.resolved = SchemeSet,
         DOMAIN run'.direct \subseteq run.set.secrets \cap DOMAIN F.refs,
         \A x \in DOMAIN run'.direct : ValueFor(run.direct[x], x, run.opened)',
         run'.given \in BOOLEAN, run'.given => ~Strict
  PROVE  ResolveInv'
<1>1. SameResolve
  BY DEF SameResolve, Proceeds
<1>2. run.out = {} /\ run.todo = Assigned /\ Expands /\ run.mode # "none" /\ run.err = NoErr
  BY DEF ResolveInv, Shape, Reading
<1>3. Assigned' = Assigned /\ (Expands' <=> Expands)
  BY DEF Assigned, Expands, Proceeds
<1>4. Shape'
  <2>1. /\ F' \in Fleets /\ run'.mode \in {"none", "validate", "bundle", "agent"}
        /\ run'.host \in DOMAIN F'.hosts
        /\ run'.mode = "validate" => run'.set = Resolve(F', F'.hosts[run'.host])
    BY <1>2 DEF ResolveInv, Shape, Proceeds
  <2>2. /\ run'.pc \in Reading \cup Finishing /\ run'.pc \notin Starting \cup {"failed", "idle"}
        /\ run'.pc \notin {"analyze", "done"}
    BY DEF Reading, Finishing, Starting
  <2> QED
    BY <1>2, <1>3, <2>1, <2>2 DEF Shape, Proceeds, Reading, Starting
<1>5. Gathered'
  <2>1. \A x \in run'.pending : HasReader(F.refs[x].scheme)'
    BY <1>1, SameReads DEF ResolveInv, Gathered, Proceeds
  <2>2. /\ run'.pending \cup run'.data \subseteq DOMAIN F'.refs
        /\ run'.reached \subseteq {F.refs[x].path : x \in DOMAIN F.refs}
        /\ run'.out = {}
    BY <1>2 DEF ResolveInv, Gathered, Proceeds
  <2> QED
    BY <1>1, <2>1, <2>2, SameReads, ZenonT(60) DEF Gathered, Proceeds
<1>6. Contained'
  BY <1>2 DEF ResolveInv, Contained, ErrSound, Proceeds
<1> QED
  BY <1>4, <1>5, <1>6 DEF ResolveInv

LEMMA ResolveCacheSound ==
  ASSUME ResolveInv, F' = F, NEW scheme, NEW from, NEW to,
         \/ scheme = "op" /\ from = "resolve" /\ to = "resolve pp"
         \/ scheme = "pp" /\ from = "resolve pp" /\ to = "resolve sops"
         \/ scheme = "sops" /\ from = "resolve sops" /\ to = "direct",
         ResolveCacheOf(scheme, from, to)
  PROVE  ResolveInv'
<1> DEFINE refs == RefsOf(run.pending, scheme)
           read == Reads(scheme, refs)
<1>1. /\ scheme \in SchemeSet /\ run.pc = from /\ DOMAIN run = Fields
      /\ refs \subseteq DOMAIN F.refs /\ \A x \in refs : IsRefOf(scheme, x)
      /\ refs # {} => HasReader(scheme)
      /\ run.out = {} /\ run.todo = Assigned /\ Expands
  <2>1. run.pc = from /\ scheme \in SchemeSet /\ from \in Reading
    BY DEF ResolveCacheOf, Done, SchemeSet, Reading
  <2>2. DOMAIN run = Fields /\ run.out = {} /\ run.todo = Assigned /\ Expands
    BY <2>1 DEF ResolveInv, Shape
  <2>3. refs \subseteq run.pending /\ \A x \in refs : F.refs[x].scheme = scheme
    BY DEF RefsOf
  <2>4. run.pending \subseteq DOMAIN F.refs /\ \A x \in run.pending : HasReader(F.refs[x].scheme)
    BY DEF ResolveInv, Gathered
  <2> HIDE DEF refs
  <2> QED
    BY <2>1, <2>2, <2>3, <2>4 DEF IsRefOf
<1>2. /\ DOMAIN read = Fields
      /\ \A x \in Fields \ {"reached", "opened", "asked"} : read[x] = run[x]
      /\ run.opened \subseteq read.opened
      /\ scheme = "sops" => Decrypts(refs) \subseteq read.opened
      /\ read.reached \subseteq run.reached \cup {F.refs[x].path : x \in DOMAIN F.refs}
  <2> HIDE DEF refs
  <2> QED
    BY <1>1, ReadsFields
<1>3. PICK down \in Down :
        LET results == Batch(scheme, refs, FALSE, down)
        IN  IF Classes(results) # {}
            THEN \E class \in Classes(results) :
                   run' = [read EXCEPT !.pc = "failed", !.err = Err(class)]
            ELSE run' = [read EXCEPT !.cache = Learned(@, results),
                                     !.resolved = Resolved(scheme, refs), !.pc = to]
  BY DEF ResolveCacheOf
<1> DEFINE results == Batch(scheme, refs, FALSE, down)
<1>4. CASE Classes(results) # {}
  <2>1. PICK class \in Classes(results) :
          run' = [read EXCEPT !.pc = "failed", !.err = Err(class)]
    BY <1>3, <1>4
  <2> HIDE DEF refs
  <2> QED BY <1>1, <2>1, BatchFailedSound
<1>5. CASE Classes(results) = {}
  <2> HIDE DEF refs, read, results
  <2>1. run' = [read EXCEPT !.cache = Learned(@, results),
                            !.resolved = Resolved(scheme, refs), !.pc = to]
    BY <1>3, <1>5 DEF results, read
  <2>2. /\ DOMAIN run' = Fields /\ run'.mode = run.mode /\ run'.host = run.host
        /\ run'.set = run.set /\ run'.pending = run.pending /\ run'.data = run.data
        /\ run'.resolved = run.resolved \cup {scheme}
        /\ run'.cache = Learned(run.cache, results) /\ run'.direct = run.direct
        /\ run'.given = run.given /\ run'.out = run.out /\ run'.opened = read.opened
        /\ run'.reached = read.reached /\ run'.pc = to /\ run'.err = run.err
        /\ run'.todo = run.todo
    BY <1>2, <2>1 DEF Fields, Resolved
  <2>3. SameResolve /\ Proceeds
    BY <1>2, <2>2 DEF SameResolve, Proceeds
  <2>4. DOMAIN results = refs /\ \A x \in refs : ValueFor(results[x].value, x, run'.opened)
    <3>1. PICK res, direct, named, opened :
            res = results /\ direct = FALSE /\ named = refs /\ opened = run'.opened
      OBVIOUS
    <3>2. DOMAIN res = named /\ Classes(res) = {}
      BY <1>5, <3>1 DEF results, Batch, Classes
    <3>3. Answered(res, scheme, named, direct, down)
      BY <3>1, <3>2 DEF results, Batch, Answered
    <3>4. /\ direct \in BOOLEAN /\ \A x \in named : IsRefOf(scheme, x)
          /\ named # {} => HasReader(scheme)
          /\ scheme = "sops" => Decrypts(named) \subseteq opened
      BY <1>1, <1>2, <2>2, <3>1
    <3>5. \A x \in named : ValueFor(res[x].value, x, opened)
      BY <1>1, <3>3, <3>4, BatchSound
    <3> QED
      BY <3>1, <3>2, <3>5
  <2>5. /\ DOMAIN run'.cache = DOMAIN run.cache \cup refs
        /\ \A x \in DOMAIN run'.cache : ValueFor(run.cache[x], x, run.opened)'
    <3>1. \A x \in DOMAIN run.cache : ValueFor(run.cache[x], x, run.opened)
      BY DEF ResolveInv, Gathered, CacheSound
    <3>2. /\ DOMAIN run'.cache = DOMAIN run.cache \cup refs
          /\ \A x \in DOMAIN run.cache : run'.cache[x] = run.cache[x]
          /\ \A x \in refs \ DOMAIN run.cache : run'.cache[x] = results[x].value
      BY <2>2, <2>4 DEF Learned
    <3>3. ASSUME NEW x \in DOMAIN run'.cache
          PROVE  ValueFor(run.cache[x], x, run.opened)'
      <4>1. \/ ValueFor(run'.cache[x], x, run.opened)
            \/ ValueFor(run'.cache[x], x, run'.opened)
        BY <2>4, <3>1, <3>2
      <4> QED
        BY <1>2, <2>2, <2>3, <4>1, SameReads
    <3> QED
      BY <3>2, <3>3
  <2>6. CacheSound'
    BY <1>1, <2>3, <2>5 DEF ResolveInv, Gathered, CacheSound, SameResolve
  <2>7. \A x \in DOMAIN run'.direct : ValueFor(run.direct[x], x, run.opened)'
    BY <1>2, <2>2, <2>3, SameReads DEF ResolveInv, Gathered
  <2>8. DOMAIN run'.cache = {x \in run'.pending : F.refs[x].scheme \in run'.resolved}
    BY <2>2, <2>5 DEF ResolveInv, Gathered, refs, RefsOf
  <2>9. /\ run'.resolved \subseteq SchemeSet
        /\ run'.pc = "resolve pp" => run'.resolved = {"op"}
        /\ run'.pc = "resolve sops" => run'.resolved = {"op", "pp"}
        /\ run'.pc \in Ready => run'.resolved = SchemeSet
        /\ run.pc \in Reading /\ run'.pc \in Reading /\ run'.pc \notin {"collect", "resolve"}
    <3>1. run.resolved \subseteq SchemeSet
      BY DEF ResolveInv, Gathered
    <3>2. \/ scheme = "op" /\ to = "resolve pp" /\ run.resolved = {}
          \/ scheme = "pp" /\ to = "resolve sops" /\ run.resolved = {"op"}
          \/ scheme = "sops" /\ to = "direct" /\ run.resolved = {"op", "pp"}
      BY <1>1 DEF ResolveInv, Gathered
    <3>3. run.pc \in Reading /\ to \in Reading /\ to \notin {"collect", "resolve"}
      BY <1>1 DEF Reading
    <3>4. run'.resolved = run.resolved \cup {scheme} /\ run'.pc = to
      BY <2>2
    <3> QED
      BY <3>1, <3>2, <3>3, <3>4 DEF SchemeSet, Ready
  <2>10. /\ DOMAIN run'.direct \subseteq run.set.secrets \cap DOMAIN F.refs
         /\ run'.given \in BOOLEAN /\ (run'.given => ~Strict)
    BY <2>2 DEF ResolveInv, Gathered
  <2> QED
    BY <2>3, <2>6, <2>7, <2>8, <2>9, <2>10, ProceedsSound
<1> QED
  BY <1>4, <1>5

LEMMA ResolveDirectSound ==
  ASSUME ResolveInv, F' = F, NEW scheme, NEW from, NEW to,
         \/ scheme = "op" /\ from = "direct" /\ to = "direct pp"
         \/ scheme = "pp" /\ from = "direct pp" /\ to = "direct sops"
         \/ scheme = "sops" /\ from = "direct sops" /\ to = "build",
         ResolveDirect(scheme, from, to)
  PROVE  ResolveInv'
<1> DEFINE refs  == DirectRefs(scheme)
           read  == Reads(scheme, refs)
           class == DirectClass(scheme)
<1>1. /\ scheme \in SchemeSet /\ run.pc = from /\ DOMAIN run = Fields
      /\ refs \subseteq DOMAIN F.refs /\ \A x \in refs : IsRefOf(scheme, x)
      /\ run.out = {} /\ run.todo = Assigned /\ Expands /\ run.resolved = SchemeSet
      /\ FleetWellFormed(F)
  <2>1. run.pc = from /\ scheme \in SchemeSet /\ from \in Reading \cap Ready
    BY DEF ResolveDirect, Done, SchemeSet, Reading, Ready
  <2>2. DOMAIN run = Fields /\ run.out = {} /\ run.todo = Assigned /\ Expands /\ F \in Fleets
    BY <2>1 DEF ResolveInv, Shape
  <2>3. run.resolved = SchemeSet
    BY <2>1 DEF ResolveInv, Gathered
  <2>4. \A x \in refs : IsRefOf(scheme, x)
    BY DEF DirectRefs
  <2>5. refs \subseteq DOMAIN F.refs
    BY <2>4 DEF IsRefOf
  <2> HIDE DEF refs
  <2> QED
    BY <2>1, <2>2, <2>3, <2>4, <2>5, ResolverAssumption
<1>2. refs \subseteq run.set.secrets
  BY <1>1, ProviderRefIsSecret DEF DirectRefs, Assigned, Expands, IsProviderRef
<1>3. /\ DOMAIN read = Fields
      /\ \A x \in Fields \ {"reached", "opened", "asked"} : read[x] = run[x]
      /\ run.opened \subseteq read.opened
      /\ scheme = "sops" => Decrypts(refs) \subseteq read.opened
      /\ read.reached \subseteq run.reached \cup {F.refs[x].path : x \in DOMAIN F.refs}
  <2> HIDE DEF refs
  <2> QED
    BY <1>1, ReadsFields
<1>4. CASE run' = [run EXCEPT !.pc = to]
  <2>1. /\ DOMAIN run' = Fields
        /\ \A x \in Fields \ {"pc"} : run'[x] = run[x]
        /\ run'.pc = to
    BY <1>1, <1>4 DEF Fields
  <2>2. /\ SameResolve /\ Proceeds /\ run'.cache = run.cache /\ run'.direct = run.direct
        /\ run'.resolved = run.resolved /\ run'.given = run.given
    BY <2>1 DEF SameResolve, Proceeds, Fields
  <2>3. CacheSound'
    BY <2>1, <2>2, SameReads DEF ResolveInv, Gathered, CacheSound, SameResolve, Fields
  <2>4. \A x \in DOMAIN run'.direct : ValueFor(run.direct[x], x, run.opened)'
    BY <2>1, <2>2, SameReads DEF ResolveInv, Gathered, Fields
  <2>5. /\ DOMAIN run'.cache = {x \in run'.pending : F.refs[x].scheme \in run'.resolved}
        /\ DOMAIN run'.direct \subseteq run.set.secrets \cap DOMAIN F.refs
        /\ run'.given \in BOOLEAN /\ (run'.given => ~Strict)
    BY <2>2 DEF ResolveInv, Gathered, Proceeds
  <2>6. /\ run.pc \in Reading /\ run'.pc \in (Reading \cap Ready) \cup {"build"}
        /\ run'.pc \notin {"collect", "resolve", "resolve pp", "resolve sops"}
    BY <1>1, <2>1 DEF Reading, Ready
  <2> QED
    BY <1>1, <2>2, <2>3, <2>4, <2>5, <2>6, ProceedsSound
<1>5. CASE class # "ready" /\ Fail(Err(class))
  <2>1. class # "none"
    BY DEF DirectClass
  <2> HIDE DEF class
  <2>2. /\ DOMAIN run' = Fields /\ run'.mode = run.mode /\ run'.host = run.host
        /\ run'.set = run.set /\ run'.pending = run.pending /\ run'.data = run.data
        /\ run'.resolved = run.resolved /\ run'.cache = run.cache /\ run'.direct = run.direct
        /\ run'.given = run.given /\ run'.out = run.out /\ run'.opened = run.opened
        /\ run'.reached = run.reached /\ run'.pc = "failed" /\ run'.err = Err(class)
    BY <1>1, <1>5 DEF Fail, Fields
  <2>3. ErrSound'
    BY <2>1, <2>2, ErrorsDiffer DEF ErrSound
  <2>4. run'.reached \subseteq {F.refs[x].path : x \in DOMAIN F.refs}
    BY <2>2 DEF ResolveInv, Gathered
  <2> QED
    BY <1>1, <2>1, <2>2, <2>3, <2>4, ErrorsDiffer, FailedRunSound
<1>6. ASSUME class = "ready", NEW down \in Down,
             LET results == Batch(scheme, refs, TRUE, down)
             IN  IF Classes(results) # {}
                 THEN \E c \in Classes(results) :
                        run' = [read EXCEPT !.pc = "failed", !.err = Err(c)]
                 ELSE run' = [read EXCEPT !.direct = Learned(@, results),
                                          !.given = TRUE, !.pc = to]
      PROVE  ResolveInv'
  <2> DEFINE results == Batch(scheme, refs, TRUE, down)
  <2>1. HasReader(scheme) /\ ~Strict
    <3>1. scheme = "sops" => HasReader(scheme) /\ ~Strict
      BY <1>6 DEF DirectClass
    <3>2. scheme # "sops" => HasReader(scheme)
      BY <1>6 DEF DirectClass
    <3>3. scheme # "sops" => run.mode = "agent"
      BY <3>2 DEF HasReader, WithoutKey
    <3> QED
      BY <3>1, <3>2, <3>3 DEF Strict
  <2>2. CASE Classes(results) # {}
    <3>1. PICK c \in Classes(results) : run' = [read EXCEPT !.pc = "failed", !.err = Err(c)]
      BY <1>6, <2>2
    <3> HIDE DEF refs
    <3> QED BY <1>1, <3>1, BatchFailedSound
  <2>3. CASE Classes(results) = {}
    <3> HIDE DEF refs, read, results
    <3>1. run' = [read EXCEPT !.direct = Learned(@, results), !.given = TRUE, !.pc = to]
      BY <1>6, <2>3 DEF results, read
    <3>2. /\ DOMAIN run' = Fields /\ run'.mode = run.mode /\ run'.host = run.host
          /\ run'.set = run.set /\ run'.pending = run.pending /\ run'.data = run.data
          /\ run'.resolved = run.resolved
          /\ run'.cache = run.cache /\ run'.direct = Learned(run.direct, results)
          /\ run'.given = TRUE /\ run'.out = run.out /\ run'.opened = read.opened
          /\ run'.reached = read.reached /\ run'.pc = to /\ run'.err = run.err
          /\ run'.todo = run.todo
      BY <1>3, <3>1 DEF Fields
    <3>3. SameResolve /\ Proceeds
      BY <1>3, <3>2 DEF SameResolve, Proceeds
    <3>4. DOMAIN results = refs /\ \A x \in refs : ValueFor(results[x].value, x, run'.opened)
      <4>1. PICK res, direct, named, opened :
              res = results /\ direct = TRUE /\ named = refs /\ opened = run'.opened
        OBVIOUS
      <4>2. DOMAIN res = named /\ Classes(res) = {}
        BY <2>3, <4>1 DEF results, Batch, Classes
      <4>3. Answered(res, scheme, named, direct, down)
        BY <4>1, <4>2 DEF results, Batch, Answered
      <4>4. /\ direct \in BOOLEAN /\ \A x \in named : IsRefOf(scheme, x)
            /\ named # {} => HasReader(scheme)
            /\ scheme = "sops" => Decrypts(named) \subseteq opened
        BY <1>1, <1>3, <2>1, <3>2, <4>1
      <4>5. \A x \in named : ValueFor(res[x].value, x, opened)
        BY <1>1, <4>3, <4>4, BatchSound
      <4> QED
        BY <4>1, <4>2, <4>5
    <3>5. /\ DOMAIN run'.direct = DOMAIN run.direct \cup refs
          /\ \A x \in DOMAIN run'.direct : ValueFor(run.direct[x], x, run.opened)'
      <4>1. \A x \in DOMAIN run.direct : ValueFor(run.direct[x], x, run.opened)
        BY DEF ResolveInv, Gathered
      <4>2. /\ DOMAIN run'.direct = DOMAIN run.direct \cup refs
            /\ \A x \in DOMAIN run.direct : run'.direct[x] = run.direct[x]
            /\ \A x \in refs \ DOMAIN run.direct : run'.direct[x] = results[x].value
        <5>1. run'.direct = Learned(run.direct, results) /\ DOMAIN results = refs
          BY <3>2, <3>4
        <5> HIDE DEF refs, results
        <5> QED
          BY <5>1 DEF Learned
      <4>3. ASSUME NEW x \in DOMAIN run'.direct
            PROVE  ValueFor(run.direct[x], x, run.opened)'
        <5>1. \/ ValueFor(run'.direct[x], x, run.opened)
              \/ ValueFor(run'.direct[x], x, run'.opened)
          BY <3>4, <4>1, <4>2
        <5> QED
          BY <1>3, <3>2, <3>3, <5>1, SameReads
      <4> QED
        BY <4>2, <4>3
    <3>6. CacheSound'
      BY <1>3, <3>2, <3>3, SameReads DEF ResolveInv, Gathered, CacheSound, SameResolve
    <3>7. DOMAIN run'.cache = {x \in run'.pending : F.refs[x].scheme \in run'.resolved}
      BY <3>2 DEF ResolveInv, Gathered
    <3>8. DOMAIN run'.direct \subseteq run.set.secrets \cap DOMAIN F.refs
      BY <1>1, <1>2, <3>5 DEF ResolveInv, Gathered
    <3>9. /\ run.pc \in Reading /\ run'.pc \in (Reading \cap Ready) \cup {"build"}
          /\ run'.pc \notin {"collect", "resolve", "resolve pp", "resolve sops"}
          /\ run'.resolved = SchemeSet /\ run'.given \in BOOLEAN
      BY <1>1, <3>2 DEF Reading, Ready
    <3> QED
      BY <2>1, <3>3, <3>5, <3>6, <3>7, <3>8, <3>9, ProceedsSound
  <2> QED
    BY <2>2, <2>3
<1> QED
  BY <1>4, <1>5, <1>6 DEF ResolveDirect

\* What building one file leaves: the file, and what its render read.
Builds(ref, files) ==
  /\ F' = F /\ DOMAIN run' = Fields
  /\ \A x \in Fields \ {"todo", "out", "reached", "opened", "asked"} : run'[x] = run[x]
  /\ run'.todo = run.todo \ {ref} /\ run'.out = run.out \cup files
  /\ run.opened \subseteq run'.opened
  /\ run'.reached \subseteq {F.refs[x].path : x \in DOMAIN F.refs}

LEMMA BuildsSound ==
  ASSUME ResolveInv, run.pc = "build", NEW ref, NEW files, Builds(ref, files),
         \A f \in files : FileSound(f)'
  PROVE  ResolveInv'
<1>1. /\ F' = F /\ DOMAIN run' = Fields /\ run'.mode = run.mode /\ run'.host = run.host
      /\ run'.set = run.set /\ run'.pc = "build" /\ run'.err = run.err
      /\ run'.pending = run.pending /\ run'.data = run.data /\ run'.resolved = run.resolved
      /\ run'.cache = run.cache /\ run'.direct = run.direct /\ run'.given = run.given
      /\ run'.todo \subseteq run.todo /\ run'.out = run.out \cup files
  BY DEF Builds, Fields
<1>2. SameResolve /\ run.opened \subseteq run'.opened
  BY <1>1 DEF SameResolve, Builds
<1>3. /\ Expands /\ run.todo \subseteq Assigned /\ run.mode # "none" /\ run.err = NoErr
      /\ run.resolved = SchemeSet
  BY DEF ResolveInv, Shape, Gathered, Finishing, Ready
<1>4. Assigned' = Assigned /\ (Expands' <=> Expands)
  BY <1>1 DEF Assigned, Expands
<1>5. Shape'
  <2>1. /\ F' \in Fleets /\ run'.mode \in {"none", "validate", "bundle", "agent"}
        /\ run'.host \in DOMAIN F'.hosts
        /\ run'.mode = "validate" => run'.set = Resolve(F', F'.hosts[run'.host])
    BY <1>1, <1>3 DEF ResolveInv, Shape
  <2> QED
    BY <1>1, <1>3, <1>4, <2>1 DEF Shape, Reading, Starting, Finishing
<1>6. CacheSound'
  BY <1>1, <1>2, SameReads DEF ResolveInv, Gathered, CacheSound
<1>7. \A x \in DOMAIN run'.direct : ValueFor(run.direct[x], x, run.opened)'
  BY <1>1, <1>2, SameReads DEF ResolveInv, Gathered
<1>8. \A x \in run'.pending : HasReader(F.refs[x].scheme)'
  BY <1>1, <1>2, SameReads DEF ResolveInv, Gathered
<1>9. Gathered'
  BY <1>1, <1>2, <1>3, <1>6, <1>7, <1>8, SameReads DEF ResolveInv, Gathered, Ready, Builds
<1>10. \A f \in run.out : FileSound(f)'
  BY <1>1, <1>2, FileKept DEF ResolveInv, Contained
<1>11. Contained'
  BY <1>1, <1>10 DEF ResolveInv, Contained, ErrSound
<1> QED
  BY <1>5, <1>9, <1>11 DEF ResolveInv

\* The file built next is one the resolve is assigned.
LEMMA NextFile ==
  ASSUME ResolveInv, run.pc = "build", run.todo # {}
  PROVE  /\ Next1(run.todo) \in run.todo /\ Next1(run.todo) \in Assigned
         /\ FleetWellFormed(F) /\ MaxDepth \in Nat /\ ~ExpandFails(F, run.set)
         /\ ~Collides(F, Assigned)
<1>1. run.todo \subseteq Assigned /\ Expands /\ F \in Fleets
  BY DEF ResolveInv, Shape, Finishing
<1>2. FleetWellFormed(F) /\ MaxDepth \in Nat /\ ~ExpandFails(F, run.set) /\ ~Collides(F, Assigned)
  BY <1>1, ResolverAssumption DEF Expands
<1>3. \A r \in run.todo : r.category \in Categories
  BY <1>1, <1>2, ExpandedRef DEF Assigned
<1> QED
  BY <1>1, <1>2, <1>3, NextInTodo

LEMMA BuildDirectSound ==
  ASSUME ResolveInv, F' = F, run.pc = "build", NEW ref \in Assigned,
         FleetWellFormed(F), ~ExpandFails(F, run.set),
         IsProviderRef(F, ref.src), BuildDirect(ref)
  PROVE  ResolveInv'
<1> DEFINE value == IF ref.src \in DOMAIN run.direct THEN run.direct[ref.src] ELSE Blank
           file  == BuiltFile(ref, {value}, IsRefOf("sops", ref.src))
           files == IF ~run.given THEN {} ELSE {file}
<1>1. DOMAIN run = Fields /\ run.given \in BOOLEAN /\ (run.given => ~Strict)
      /\ run.reached \subseteq {F.refs[x].path : x \in DOMAIN F.refs}
  BY DEF ResolveInv, Shape, Gathered
<1>2. ref.category = "secret"
  BY ProviderRefIsSecret DEF Assigned
<1>3. ValueFor(value, ref.src, run.opened)
  BY DEF ResolveInv, Gathered, ValueFor, Blank, IsHeld
<1>4. run' = [run EXCEPT !.todo = run.todo \ {ref}, !.out = run.out \cup files]
  BY DEF BuildDirect
<1>5. /\ file.src = ref.src /\ file.category = ref.category /\ file.content = {value}
      /\ file.sopsValues = IsRefOf("sops", ref.src)
  BY DEF BuiltFile
<1> HIDE DEF value, file
<1>6. FileSound(file) \/ ~run.given
  BY <1>1, <1>2, <1>3, <1>5 DEF FileSound
<1> HIDE DEF files
<1>7. Builds(ref, files)
  BY <1>1, <1>4 DEF Builds, Fields
<1>8. SameResolve /\ run'.cache = run.cache /\ run'.resolved = run.resolved
      /\ run.opened \subseteq run'.opened
  BY <1>1, <1>4 DEF SameResolve, Fields
<1>9. \A f \in files : FileSound(f)'
  BY <1>6, <1>8, FileKept DEF files
<1> QED
  BY <1>7, <1>9, BuildsSound

LEMMA BuildRenderedSound ==
  ASSUME ResolveInv, F' = F, run.pc = "build", NEW ref \in Assigned,
         FleetWellFormed(F), MaxDepth \in Nat,
         ~IsProviderRef(F, ref.src), NEW down, BuildRendered(ref, Render(ref, down), down)
  PROVE  ResolveInv'
<1> DEFINE st   == Render(ref, down)
           read == [run EXCEPT !.reached = @ \cup st.reached, !.opened = @ \cup st.opened,
                               !.asked = @ \cup st.asked]
           file == BuiltFile(ref, st.content, st.sopsCalls)
<1>1. Sound(st, Guarded(ref), ArgsOf(ref.src))
  BY RenderSound DEF ResolveInv, Gathered
<1>2. DOMAIN run = Fields /\ run.reached \subseteq {F.refs[x].path : x \in DOMAIN F.refs}
  BY DEF ResolveInv, Shape, Gathered
<1>3. run' = IF st.err # NoErr THEN [read EXCEPT !.pc = "failed", !.err = st.err]
             ELSE [read EXCEPT !.todo = @ \ {ref}, !.out = @ \cup {file}]
  BY DEF BuildRendered
<1> HIDE DEF st
<1>4. /\ st.err = Err(st.err.class)
      /\ st.reached \subseteq {F.refs[x].path : x \in DOMAIN F.refs}
      /\ \A v \in st.content :
           MayHold(v, run.opened \cup st.opened, st.sopsCalls, Guarded(ref))
  BY <1>1 DEF Sound, SopsPaths, IsRefOf
<1>5. /\ file.src = ref.src /\ file.category = ref.category /\ file.content = st.content
      /\ file.sopsValues = st.sopsCalls
  BY DEF BuiltFile
<1> HIDE DEF file
<1>6. CASE st.err # NoErr
  <2>1. /\ DOMAIN run' = Fields /\ run'.mode = run.mode /\ run'.host = run.host
        /\ run'.set = run.set /\ run'.pending = run.pending /\ run'.data = run.data
        /\ run'.resolved = run.resolved /\ run'.cache = run.cache /\ run'.direct = run.direct
        /\ run'.given = run.given /\ run'.out = run.out
        /\ run'.opened = run.opened \cup st.opened
        /\ run'.reached = run.reached \cup st.reached
        /\ run'.pc = "failed" /\ run'.err = st.err
    BY <1>2, <1>3, <1>6 DEF Fields
  <2>2. ErrSound'
    BY <1>4, <2>1 DEF ErrSound, Err
  <2> QED
    BY <1>2, <1>4, <1>6, <2>1, <2>2, FailedRunSound
<1>7. CASE st.err = NoErr
  <2>1. run' = [read EXCEPT !.todo = run.todo \ {ref}, !.out = run.out \cup {file}]
    BY <1>2, <1>3, <1>7 DEF Fields
  <2>2. /\ DOMAIN run' = Fields
        /\ \A x \in Fields \ {"todo", "out", "reached", "opened", "asked"} : run'[x] = run[x]
        /\ run'.todo = run.todo \ {ref} /\ run'.out = run.out \cup {file}
        /\ run'.opened = run.opened \cup st.opened
        /\ run'.reached = run.reached \cup st.reached
    BY <1>2, <2>1 DEF Fields
  <2>3. PICK built, opened :
          built = file /\ opened = run.opened \cup st.opened
    OBVIOUS
  <2>4. Builds(ref, {built})
    BY <1>2, <1>4, <2>2, <2>3 DEF Builds
  <2>5. SameResolve /\ run'.cache = run.cache /\ run'.resolved = run.resolved
    BY <2>2 DEF SameResolve, Fields
  <2>6. \A v \in built.content : MayHold(v, opened, built.sopsValues, Guarded(built))
    BY <1>4, <1>5, <2>3 DEF Guarded
  <2>7. \A v \in built.content : MayHold(v, run.opened, built.sopsValues, Guarded(built))'
    <3>1. opened \subseteq run'.opened /\ run'.opened = opened
      BY <2>2, <2>3
    <3> QED
      BY <2>5, <2>6, <3>1, SameHolds DEF Guarded
  <2>8. ~IsProviderRef(F, built.src)'
    BY <1>5, <2>3 DEF IsProviderRef
  <2>9. FileSound(built)'
    BY <2>7, <2>8 DEF FileSound
  <2> QED
    BY <2>4, <2>9, BuildsSound
<1> QED
  BY <1>6, <1>7

LEMMA BuildFileSound ==
  ASSUME ResolveInv, F' = F, BuildFile
  PROVE  ResolveInv'
<1>1. PICK ref \in {Next1(run.todo)} :
        IF IsProviderRef(F, ref.src) THEN BuildDirect(ref)
        ELSE \E down \in Down : BuildRendered(ref, Render(ref, down), down)
  BY DEF BuildFile
<1>2. run.pc = "build" /\ run.todo # {}
  BY DEF BuildFile, Done
<1>3. /\ ref \in Assigned /\ FleetWellFormed(F) /\ MaxDepth \in Nat
      /\ ~ExpandFails(F, run.set)
  BY <1>2, NextFile
<1>4. CASE IsProviderRef(F, ref.src)
  BY <1>1, <1>2, <1>3, <1>4, BuildDirectSound
<1>5. CASE ~IsProviderRef(F, ref.src)
  <2>1. PICK down \in Down : BuildRendered(ref, Render(ref, down), down)
    BY <1>1, <1>5
  <2> QED
    BY <1>2, <1>3, <1>5, <2>1, BuildRenderedSound
<1> QED
  BY <1>4, <1>5

\* A step that only says how far the resolve is, or that it failed.
LEMMA FailSound ==
  ASSUME ResolveInv, F' = F, run.pc # "idle", NEW err, err # NoErr,
         \A v \in err.quotes :
           v.what = "secret" => err.class = "invalid" /\ F.refs[v.ref].scheme # "sops",
         Fail(err)
  PROVE  ResolveInv'
<1>1. DOMAIN run = Fields /\ run.reached \subseteq {F.refs[x].path : x \in DOMAIN F.refs}
  BY DEF ResolveInv, Shape, Gathered
<1>2. /\ DOMAIN run' = Fields /\ run'.mode = run.mode /\ run'.host = run.host
      /\ run'.set = run.set /\ run'.pending = run.pending /\ run'.data = run.data
      /\ run'.resolved = run.resolved /\ run'.cache = run.cache /\ run'.direct = run.direct
      /\ run'.given = run.given /\ run'.out = run.out /\ run'.opened = run.opened
      /\ run'.reached = run.reached /\ run'.pc = "failed" /\ run'.err = err
  BY <1>1 DEF Fail, Fields
<1>3. ErrSound'
  BY <1>2 DEF ErrSound
<1> QED
  BY <1>1, <1>2, <1>3, FailedRunSound

LEMMA AdvanceSound ==
  ASSUME ResolveInv, F' = F, NEW to, run.todo = {},
         \/ run.pc = "build" /\ to = "analyze"
         \/ run.pc = "analyze" /\ to = "done",
         run' = [run EXCEPT !.pc = to]
  PROVE  ResolveInv'
<1>1. DOMAIN run = Fields
  BY DEF ResolveInv, Shape
<1>2. /\ DOMAIN run' = Fields /\ run'.mode = run.mode /\ run'.host = run.host
      /\ run'.set = run.set /\ run'.pc = to /\ run'.err = run.err
      /\ run'.pending = run.pending /\ run'.data = run.data /\ run'.resolved = run.resolved
      /\ run'.cache = run.cache /\ run'.direct = run.direct /\ run'.given = run.given
      /\ run'.todo = run.todo /\ run'.out = run.out /\ run'.opened = run.opened
      /\ run'.reached = run.reached
  BY <1>1 DEF Fields
<1>3. SameResolve
  BY <1>2 DEF SameResolve
<1>4. /\ Expands /\ run.mode # "none" /\ run.err = NoErr /\ run.resolved = SchemeSet
  BY DEF ResolveInv, Shape, Gathered, Finishing, Ready
<1>5. Assigned' = Assigned /\ (Expands' <=> Expands)
  BY <1>2 DEF Assigned, Expands
<1>6. Shape'
  <2>1. /\ F' \in Fleets /\ run'.mode \in {"none", "validate", "bundle", "agent"}
        /\ run'.host \in DOMAIN F'.hosts
        /\ run'.mode = "validate" => run'.set = Resolve(F', F'.hosts[run'.host])
    BY <1>2, <1>4 DEF ResolveInv, Shape
  <2> QED
    BY <1>2, <1>4, <1>5, <2>1 DEF Shape, Reading, Starting, Finishing
<1>7. CacheSound'
  BY <1>2, <1>3, SameReads DEF ResolveInv, Gathered, CacheSound
<1>8. \A x \in DOMAIN run'.direct : ValueFor(run.direct[x], x, run.opened)'
  BY <1>2, <1>3, SameReads DEF ResolveInv, Gathered
<1>9. \A x \in run'.pending : HasReader(F.refs[x].scheme)'
  BY <1>2, <1>3, SameReads DEF ResolveInv, Gathered
<1>10. Gathered'
  BY <1>2, <1>3, <1>4, <1>7, <1>8, <1>9, SameReads, ZenonT(60) DEF ResolveInv, Gathered, Ready
<1>11. \A f \in run.out : FileSound(f)'
  BY <1>2, <1>3, FileKept DEF ResolveInv, Contained
<1>12. Contained'
  BY <1>2, <1>11 DEF ResolveInv, Contained, ErrSound
<1> QED
  BY <1>6, <1>10, <1>12 DEF ResolveInv

LEMMA BuildHooksSound ==
  ASSUME ResolveInv, F' = F, BuildHooks
  PROVE  ResolveInv'
<1>1. run.pc = "build" /\ run.todo = {}
  BY DEF BuildHooks, Done
<1>2. CASE Fail(Err("hooks"))
  BY <1>1, <1>2, ErrorsDiffer, FailSound
<1>3. CASE run' = [run EXCEPT !.pc = "analyze"]
  BY <1>1, <1>3, AdvanceSound
<1>4. ASSUME NEW err \in HookErrors, Fail(err)
      PROVE  ResolveInv'
  <2>1. PICK src \in HookFiles(F, run.set) : err = HookRender(src).err /\ err # NoErr
    BY DEF HookErrors
  <2>2. FleetWellFormed(F) /\ MaxDepth \in Nat /\ CacheSound
    BY ResolverAssumption DEF ResolveInv, Shape, Gathered
  <2>3. err = Err(err.class)
    BY <2>1, <2>2, RenderOrReadSound DEF HookRender, Sound
  <2>4. err.quotes = {}
    BY <2>3 DEF Err
  <2> QED
    BY <1>1, <1>4, <2>1, <2>4, FailSound
<1> QED
  BY <1>2, <1>3, <1>4 DEF BuildHooks

\* What is left of a file in an error: no value its Host decrypted.
LEMMA ScrubbedSound ==
  ASSUME ResolveInv, NEW f \in run.out, NEW v \in Scrub(f.content), v.what = "secret"
  PROVE  F.refs[v.ref].scheme # "sops"
<1>1. FileSound(f) /\ v \in f.content /\ IsHeld(v)
  BY DEF ResolveInv, Contained, Scrub, IsHeld
<1>2. HeldOf(v, v.ref, run.opened)
  <2>1. CASE IsProviderRef(F, f.src)
    <3>1. HeldOf(v, f.src, run.opened)
      BY <1>1, <2>1 DEF FileSound, ValueFor
    <3>2. v.ref = f.src
      BY <3>1 DEF HeldOf
    <3> QED
      BY <3>1, <3>2
  <2>2. CASE ~IsProviderRef(F, f.src)
    BY <1>1, <2>2 DEF FileSound, MayHold
  <2> QED
    BY <2>1, <2>2
<1>3. Stub(v.ref).what = "stub"
  BY DEF Stub
<1>4. F.refs[v.ref].scheme = "sops" => F.refs[v.ref].path \in run.opened
  BY <1>2, <1>3 DEF HeldOf, SopsValue
<1> QED
  BY <1>4 DEF Scrub

LEMMA AnalyzeSound ==
  ASSUME ResolveInv, F' = F, Analyze
  PROVE  ResolveInv'
<1>1. run.pc = "analyze" /\ run.todo = {}
  BY DEF Analyze, Done, ResolveInv, Shape
<1>2. CASE run' = [run EXCEPT !.pc = "done"]
  BY <1>1, <1>2, AdvanceSound
<1>3. CASE Fail(Err("configMount"))
  BY <1>1, <1>3, ErrorsDiffer, FailSound
<1>4. CASE \E e \in FileErrors : Fail([e EXCEPT !.quotes = Scrub(@)])
  <2>1. PICK f \in run.out :
          AnalyzeFile(f) # NoErr /\ Fail([AnalyzeFile(f) EXCEPT !.quotes = Scrub(@)])
    BY <1>4 DEF FileErrors
  <2> DEFINE e == AnalyzeFile(f)
             err == [e EXCEPT !.quotes = Scrub(@)]
  <2>2. /\ e = [class |-> e.class, quotes |-> e.quotes] /\ e.class # "none"
        /\ e.quotes = {} \/ (e.class = "invalid" /\ e.quotes = f.content)
    <3>1. \A c : Err(c) = [class |-> c, quotes |-> {}]
      BY DEF Err
    <3>2. QuadletClass(f) # "none"
      BY DEF QuadletClass
    <3> QED
      BY <2>1, <3>1, <3>2 DEF AnalyzeFile
  <2> HIDE DEF e
  <2>3. err.class = e.class /\ err.quotes = Scrub(e.quotes)
    BY <2>2
  <2>4. err # NoErr
    BY <2>2, <2>3 DEF NoErr
  <2>5. ASSUME NEW v \in err.quotes, v.what = "secret"
        PROVE  err.class = "invalid" /\ F.refs[v.ref].scheme # "sops"
    <3>1. Scrub({}) = {}
      BY DEF Scrub
    <3>2. err.class = "invalid" /\ v \in Scrub(f.content)
      BY <2>2, <2>3, <2>5, <3>1
    <3> QED
      BY <2>5, <3>2, ScrubbedSound
  <2>6. Fail(err)
    BY <2>1 DEF e
  <2> HIDE DEF err
  <2> QED
    BY <1>1, <2>4, <2>5, <2>6, FailSound
<1> QED
  BY <1>2, <1>3, <1>4 DEF Analyze

LEMMA ResolveInit ==
  ASSUME Init
  PROVE  ResolveInv
<1>1. /\ DOMAIN run = Fields /\ run.mode = "none" /\ run.host = ""
      /\ run.pc = "idle" /\ run.pending = {} /\ run.data = {} /\ run.resolved = {}
      /\ run.cache = << >> /\ run.direct = << >> /\ run.given = FALSE /\ run.out = {}
      /\ run.reached = {} /\ run.err = NoErr /\ F \in Fleets
  BY DEF Init, Idle, Fields
<1>2. run = [Idle EXCEPT !.mode = run.mode, !.host = run.host, !.set = run.set, !.pc = run.pc]
  BY ZenonT(60) DEF Init, Idle
<1>3. Shape
  BY <1>1, <1>2 DEF Shape, Starting, Reading, Finishing, Init
<1>4. DOMAIN << >> = {}
  OBVIOUS
<1>5. Gathered
  BY <1>1, <1>4 DEF Gathered, Ready, SchemeSet, CacheSound
<1>6. NoErr.quotes = {}
  BY DEF NoErr
<1>7. Contained
  BY <1>1, <1>6 DEF Contained, ErrSound
<1> QED
  BY <1>3, <1>5, <1>7 DEF ResolveInv

LEMMA ResolveStays ==
  ASSUME ResolveInv, F' = F, run' = run
  PROVE  ResolveInv'
<1>1. SameResolve
  BY DEF SameResolve
<1>2. Shape'
  BY DEF ResolveInv, Shape, Assigned, Expands
<1>3. CacheSound'
  BY <1>1, SameReads DEF ResolveInv, Gathered, CacheSound
<1>4. \A x \in DOMAIN run'.direct : ValueFor(run.direct[x], x, run.opened)'
  BY <1>1, SameReads DEF ResolveInv, Gathered
<1>5. \A x \in run'.pending : HasReader(F.refs[x].scheme)'
  BY <1>1, SameReads DEF ResolveInv, Gathered
<1>6. Gathered'
  BY <1>1, <1>3, <1>4, <1>5, SameReads DEF ResolveInv, Gathered
<1>7. \A f \in run.out : FileSound(f)'
  BY <1>1, FileKept DEF ResolveInv, Contained
<1>8. Contained'
  BY <1>7 DEF ResolveInv, Contained, ErrSound
<1> QED
  BY <1>2, <1>6, <1>8 DEF ResolveInv

LEMMA ResolveNext ==
  ASSUME ResolveInv, [Next]_vars
  PROVE  ResolveInv'
<1>1. CASE UNCHANGED vars
  BY <1>1, ResolveStays DEF vars
<1>2. CASE Next
  <2>1. F' = F /\ F \in Fleets
    BY <1>2, CommitKept DEF ResolveInv, Shape
  <2>2. CASE LoadFleet \/ ValidateSOPSFiles \/ \E ref \in Vaults : Rotate(ref)
    BY <2>1, <2>2, ResolveStays DEF LoadFleet, ValidateSOPSFiles, Rotate
  <2>3. CASE Tell \/ AgentEnds
    BY <2>1, <2>3, IdleSound DEF Tell, AgentEnds
  <2>4. CASE \E h \in Hosts : ValidateHost(h)
    <3>1. PICK h \in Hosts : run' = Begun("validate", h, Resolve(F, F.hosts[h]))
      BY <2>4 DEF ValidateHost
    <3> QED
      BY <2>1, <3>1, BegunSound DEF Hosts
  <2>5. CASE \E h \in Hosts : ValidateAgentBundle(h)
    <3>1. PICK h \in Hosts : run' = Begun("bundle", h, ServicesOnly(AgentService(F.hosts[h])))
      BY <2>5 DEF ValidateAgentBundle
    <3> QED
      BY <2>1, <3>1, BegunSound DEF Hosts
  <2>6. CASE \E h \in Hosts : AgentResolves(F.hosts[h].hostname)
    <3>1. PICK h \in Hosts : AgentResolves(F.hosts[h].hostname)
      BY <2>6
    <3>2. PICK d \in FindHost(F, F.hosts[h].hostname) :
                  run' = Begun("agent", d, Resolve(F, F.hosts[d]))
      BY <3>1 DEF AgentResolves
    <3>3. d \in DOMAIN F.hosts
      BY <3>2 DEF FindHost
    <3> QED
      BY <2>1, <3>2, <3>3, BegunSound
  <2>7. CASE ResolveStep
    <3>1. CASE ExpandAndValidate
      BY <2>1, <3>1, ExpandSound
    <3>2. CASE Collect
      BY <2>1, <3>2, CollectStepSound
    <3>3. CASE ResolveCache
      BY <2>1, <3>3, ResolveCacheSound DEF ResolveCache
    <3>4. CASE ResolveDirectSecrets
      BY <2>1, <3>4, ResolveDirectSound DEF ResolveDirectSecrets
    <3>5. CASE BuildFile
      BY <2>1, <3>5, BuildFileSound
    <3>6. CASE BuildHooks
      BY <2>1, <3>6, BuildHooksSound
    <3>7. CASE Analyze
      BY <2>1, <3>7, AnalyzeSound
    <3> QED
      BY <2>7, <3>1, <3>2, <3>3, <3>4, <3>5, <3>6, <3>7 DEF ResolveStep
  <2> QED
    BY <1>2, <2>2, <2>3, <2>4, <2>5, <2>6, <2>7 DEF Next
<1> QED
  BY <1>1, <1>2

\* A resolve keeps its invariants, of every commit, vault and number of faults.
THEOREM ResolvesInOrder == Spec => []ResolveInv
<1>1. Init => ResolveInv
  BY ResolveInit
<1>2. ResolveInv /\ [Next]_vars => ResolveInv'
  BY ResolveNext
<1> QED
  BY <1>1, <1>2, PTL DEF Spec

\* No file holds a value it is not to hold: a ref collected on the first pass
\* is read once, however a vault rotates before the second; no placeholder of
\* a collecting pass is built; a bootstrap bundle holds no value and no
\* placeholder of one; and an Agent writes SOPS values or fails.
THEOREM ValuesAlwaysRendered == Spec => []ValuesRendered
<1>1. ASSUME ResolveInv
      PROVE  ValuesRendered
  <2>1. ASSUME NEW f \in run.out
        PROVE  /\ FileSound(f)
               /\ run.resolved = SchemeSet
    BY <1>1 DEF ResolveInv, Contained, Gathered
  <2>2. CollectedOnce
    <3> SUFFICES ASSUME NEW f \in RenderedFiles, NEW g \in RenderedFiles,
                        NEW v \in Held(f), NEW w \in Held(g),
                        v.ref = w.ref, v.ref \in run.pending
                 PROVE  v = w
      BY DEF CollectedOnce
    <3>1. MayHold(v, run.opened, f.sopsValues, Guarded(f))
      BY <2>1 DEF RenderedFiles, FileSound, Held
    <3>2. MayHold(w, run.opened, g.sopsValues, Guarded(g))
      BY <2>1 DEF RenderedFiles, FileSound, Held
    <3>3. IsHeld(v) /\ IsHeld(w)
      BY DEF Held, IsHeld
    <3>4. CASE F.refs[v.ref].scheme = "sops"
      <4>1. v = SopsValue(v.ref)
        BY <3>1, <3>3, <3>4 DEF MayHold, HeldOf
      <4>2. w = SopsValue(w.ref)
        BY <3>2, <3>3, <3>4 DEF MayHold, HeldOf
      <4> QED
        BY <4>1, <4>2
    <3>5. CASE F.refs[v.ref].scheme # "sops"
      <4>1. v.ref \in DOMAIN F.refs /\ F.refs[v.ref].scheme \in SchemeSet
        BY <1>1, <3>1, <3>3, ResolverAssumption DEF MayHold, ResolveInv, Shape, FleetWellFormed
      <4>2. v.ref \in DOMAIN run.cache
        BY <1>1, <2>1, <4>1 DEF ResolveInv, Gathered, RenderedFiles
      <4> QED
        BY <3>1, <3>2, <3>3, <3>5, <4>2 DEF MayHold
    <3> QED
      BY <3>4, <3>5
  <2>3. NoPendingRendered
    <3> SUFFICES ASSUME NEW f \in run.out, Pending \in f.content
                 PROVE  FALSE
      BY DEF NoPendingRendered
    <3>1. Pending.what = "pending"
      BY DEF Pending
    <3>2. ~IsProviderRef(F, f.src) => MayHold(Pending, run.opened, f.sopsValues, Guarded(f))
      BY <2>1 DEF FileSound
    <3>3. IsProviderRef(F, f.src) => ValueFor(Pending, f.src, run.opened)
      BY <2>1 DEF FileSound
    <3> QED
      BY <2>1, <3>1, <3>2, <3>3 DEF MayHold, ValueFor
  <2>4. BootstrapHoldsNoValue
    <3> SUFFICES ASSUME run.mode = "bundle", NEW f \in run.out
                 PROVE  Held(f) = {} /\ \A p \in SchemeSet : Empty(p) \notin f.content
      BY DEF BootstrapHoldsNoValue
    <3>1. Strict
      BY DEF Strict
    <3>2. ~IsProviderRef(F, f.src)
      BY <2>1, <3>1 DEF FileSound
    <3>3. \A v \in f.content : MayHold(v, run.opened, f.sopsValues, Guarded(f))
      BY <2>1, <3>2 DEF FileSound
    <3>4. \A p : Empty(p).what = "empty"
      BY DEF Empty
    <3> QED
      BY <3>1, <3>3, <3>4 DEF MayHold, IsHeld, Held
  <2>5. AgentRendersValues
    <3> SUFFICES ASSUME run.mode = "agent", NEW f \in run.out
                 PROVE  Empty("sops") \notin f.content /\ \A v \in f.content : v.what # "stub"
      BY DEF AgentRendersValues
    <3>1. ~WithoutKey
      BY DEF WithoutKey
    <3>2. Empty("sops").what = "empty" /\ Empty("sops").ref = "sops"
      BY DEF Empty
    <3>3. \A r : Secret(r, 0).what = "secret"
      BY DEF Secret
    <3>4. \A v, r : HeldOf(v, r, run.opened) => v.what # "stub"
      BY <3>1, <3>3 DEF HeldOf, SopsValue
    <3>5. CASE IsProviderRef(F, f.src)
      <4>1. \A v \in f.content : ValueFor(v, f.src, run.opened)
        BY <2>1, <3>5 DEF FileSound
      <4> QED
        BY <3>2, <3>4, <4>1 DEF ValueFor, IsHeld
    <3>6. CASE ~IsProviderRef(F, f.src)
      <4>1. \A v \in f.content : MayHold(v, run.opened, f.sopsValues, Guarded(f))
        BY <2>1, <3>6 DEF FileSound
      <4> QED
        BY <3>1, <3>2, <3>4, <4>1 DEF MayHold, IsHeld
    <3> QED
      BY <3>5, <3>6
  <2> QED
    BY <2>2, <2>3, <2>4, <2>5 DEF ValuesRendered
<1> QED
  BY <1>1, ResolvesInOrder, PTL

\* No provider's value gets into a unit file, into an error of a resolve but
\* where a vault's value does not parse, or into a file whose content hash is shown.
THEOREM SecretsAlwaysContained == Spec => []SecretsContained
<1>1. ASSUME ResolveInv
      PROVE  SecretsContained
  <2>1. ASSUME NEW f \in run.out
        PROVE  FileSound(f)
    BY <1>1 DEF ResolveInv, Contained
  <2>2. UnitsHoldNoSecret
    <3> SUFFICES ASSUME NEW f \in run.out, Dest(f.category) \in {"quadlet", "systemd"}
                 PROVE  Held(f) = {}
      BY DEF UnitsHoldNoSecret
    <3>1. Dest("secret") = "secret"
      BY DEF Dest
    <3>2. ~IsProviderRef(F, f.src)
      BY <2>1, <3>1 DEF FileSound
    <3>3. Guarded(f)
      BY DEF Guarded
    <3> QED
      BY <2>1, <3>2, <3>3 DEF FileSound, MayHold, IsHeld, Held
  <2>3. ErrorsHoldNoValue
    BY <1>1 DEF ResolveInv, Contained, ErrSound, ErrorsHoldNoValue
  <2>4. SopsMarked
    <3> SUFFICES ASSUME NEW f \in run.out, NEW v \in Held(f), F.refs[v.ref].scheme = "sops"
                 PROVE  f.sopsValues
      BY DEF SopsMarked
    <3>1. IsHeld(v) /\ v \in f.content
      BY DEF Held, IsHeld
    <3>2. CASE IsProviderRef(F, f.src)
      <4>1. ValueFor(v, f.src, run.opened) /\ f.sopsValues = IsRefOf("sops", f.src)
        BY <2>1, <3>1, <3>2 DEF FileSound
      <4>2. v.ref = f.src
        BY <3>1, <4>1 DEF ValueFor, HeldOf
      <4> QED
        BY <3>2, <4>1, <4>2 DEF IsRefOf, IsProviderRef
    <3>3. CASE ~IsProviderRef(F, f.src)
      BY <2>1, <3>1, <3>3 DEF FileSound, MayHold
    <3> QED
      BY <3>2, <3>3
  <2> QED
    BY <2>2, <2>3, <2>4 DEF SecretsContained
<1> QED
  BY <1>1, ResolvesInOrder, PTL

-----------------------------------------------------------------------------
(* Which files a Host reads.                                                *)

LEMMA SameAssigned ==
  ASSUME F' = F, NEW h
  PROVE  AssignedFiles(h)' = AssignedFiles(h)
<1>1. AssignedCalls(h)' = AssignedCalls(h)
  BY DEF AssignedCalls, Templates, Template
<1> QED
  BY <1>1 DEF AssignedFiles, SopsPaths, SopsRefClass, IsRefOf

AssignedRefs(h) ==
  {x \in {c.arg : c \in AssignedCalls(h)} \cup Resolve(F, F.hosts[h]).secrets : IsRefOf("sops", x)}

\* Validating a Host reads the SOPS files it is assigned, and no other.
ReadsAssigned ==
  run.mode = "validate" =>
    /\ RefsOf(run.pending, "sops") \subseteq AssignedRefs(run.host)
    /\ run.reached \subseteq AssignedFiles(run.host)

\* What the validator has been told of the Hosts.
Told ==
  /\ DOMAIN ci = {"phase", "todo", "readers", "unresolved", "bad"}
  /\ ci.phase \in {"load", "hosts", "bundles", "passes", "done"}
  /\ ci.todo \subseteq Hosts /\ ci.unresolved \subseteq Hosts /\ ci.bad \in BOOLEAN
  /\ ci.readers \subseteq Hosts \X {F.refs[x].path : x \in DOMAIN F.refs}
  /\ \A h, p : << h, p >> \in ci.readers => p \in AssignedFiles(h)
  /\ ci.unresolved # {} => ci.bad
  /\ run.mode = "validate" => ci.phase = "hosts"
  /\ run.mode = "bundle" => ci.phase = "bundles"
  /\ run.mode = "agent" => ci.phase = "done"

Charged == vault \in [Vaults -> 0..MaxRotations] /\ faults \in 0..MaxFaults

ValidateInv == ReadsAssigned /\ Told /\ Charged /\ ValidatedAudience

LEMMA FilesOfRefs ==
  ASSUME NEW h
  PROVE  /\ AssignedFiles(h) = SopsPaths(AssignedRefs(h))
         /\ \A refs : refs \subseteq AssignedRefs(h) => SopsPaths(refs) \subseteq AssignedFiles(h)
<1>1. AssignedFiles(h) = SopsPaths(AssignedRefs(h))
  BY DEF AssignedFiles, AssignedRefs
<1> QED
  BY <1>1 DEF SopsPaths

LEMMA SameAssignedRefs ==
  ASSUME F' = F, NEW h
  PROVE  AssignedRefs(h)' = AssignedRefs(h)
<1>1. AssignedCalls(h)' = AssignedCalls(h)
  BY DEF AssignedCalls, Templates, Template
<1> QED
  BY <1>1 DEF AssignedRefs, IsRefOf

\* What rendering an assigned file reads is assigned.
LEMMA RenderReads ==
  ASSUME ResolveInv, run.mode = "validate", NEW r \in Assigned, NEW st, NEW guarded,
         Sound(st, guarded, ArgsOf(r.src))
  PROVE  /\ RefsOf(st.pending, "sops") \subseteq AssignedRefs(run.host)
         /\ st.reached \subseteq AssignedFiles(run.host)
<1>1. Assigned = Expand(F, Resolve(F, F.hosts[run.host])) /\ Loaded = Templates
  BY DEF ResolveInv, Shape, Assigned, Loaded
<1>2. ArgsOf(r.src) \subseteq {c.arg : c \in AssignedCalls(run.host)}
  <2>1. CASE Template(r.src)
    <3>1. ArgsOf(r.src) = {c.arg : c \in Range(Flat(F, r.src, Templates))}
      BY <1>1, <2>1 DEF ArgsOf
    <3>2. Range(Flat(F, r.src, Templates)) \subseteq AssignedCalls(run.host)
      BY <1>1, <2>1 DEF AssignedCalls
    <3> QED
      BY <3>1, <3>2
  <2> QED
    BY <2>1 DEF ArgsOf
<1>3. {x \in ArgsOf(r.src) : IsRefOf("sops", x)} \subseteq AssignedRefs(run.host)
  BY <1>2 DEF AssignedRefs
<1>4. st.reached \subseteq AssignedFiles(run.host)
  <2> DEFINE refs == {x \in ArgsOf(r.src) : IsRefOf("sops", x)}
  <2>1. st.reached \subseteq SopsPaths(refs)
    BY DEF Sound
  <2> HIDE DEF refs
  <2>2. PICK named, host : named = refs /\ host = run.host
    OBVIOUS
  <2>3. SopsPaths(named) \subseteq AssignedFiles(host)
    BY <1>3, <2>2, FilesOfRefs DEF refs
  <2> QED
    BY <2>1, <2>2, <2>3
<1>5. RefsOf(st.pending, "sops") \subseteq AssignedRefs(run.host)
  BY <1>3 DEF Sound, RefsOf, IsRefOf
<1> QED
  BY <1>4, <1>5

LEMMA DownCost ==
  ASSUME faults \in 0..MaxFaults, MaxFaults \in Nat, NEW down \in Down
  PROVE  faults + Cardinality(down) \in 0..MaxFaults
<1>1. Cardinality({}) = 0 /\ Cardinality({"op"}) = 1 /\ Cardinality({"pp"}) = 1
  BY FS_EmptySet, FS_Singleton
<1>2. \/ down = {}
      \/ faults < MaxFaults /\ down \in {{"op"}, {"pp"}}
  BY DEF Down
<1>3. CASE down = {}
  BY <1>1, <1>3
<1>4. CASE faults < MaxFaults /\ down \in {{"op"}, {"pp"}}
  <2>1. Cardinality(down) = 1
    BY <1>1, <1>4
  <2> QED
    BY <1>4, <2>1
<1> QED
  BY <1>2, <1>3, <1>4

LEMMA ChargedNext ==
  ASSUME Charged, Next
  PROVE  Charged'
<1>0. MaxFaults \in Nat /\ MaxRotations \in Nat
  BY ResolverAssumption
<1>1. faults' \in 0..MaxFaults
  <2>1. faults' = faults \/ \E down \in Down : Charge(down)
    BY DEF Next, LoadFleet, ValidateSOPSFiles, Tell, ValidateHost, ValidateAgentBundle, ResolveStep,
           ExpandAndValidate, Collect, ResolveCache, ResolveCacheOf, ResolveDirectSecrets,
           ResolveDirect, BuildFile, BuildDirect, BuildRendered, BuildHooks, Analyze,
           AgentResolves, AgentEnds, Rotate
  <2> QED
    BY <1>0, <2>1, DownCost DEF Charged, Charge
<1>2. vault' \in [Vaults -> 0..MaxRotations]
  <2>1. \/ vault' = vault
        \/ \E ref \in Vaults : vault[ref] < MaxRotations /\ vault' = [vault EXCEPT ![ref] = @ + 1]
    BY DEF Next, LoadFleet, ValidateSOPSFiles, Tell, ValidateHost, ValidateAgentBundle, ResolveStep,
           ExpandAndValidate, Collect, ResolveCache, ResolveCacheOf, ResolveDirectSecrets,
           ResolveDirect, BuildFile, BuildHooks, Analyze, AgentResolves, AgentEnds, Rotate,
           Unchanging
  <2>2. \A ref \in Vaults : vault[ref] < MaxRotations => vault[ref] + 1 \in 0..MaxRotations
    BY <1>0 DEF Charged
  <2> QED
    BY <2>1, <2>2 DEF Charged
<1> QED
  BY <1>1, <1>2 DEF Charged

LEMMA ReadsKept ==
  ASSUME F' = F, NEW h, run'.host = h,
         NEW refs, run'.pending = refs, RefsOf(refs, "sops") \subseteq AssignedRefs(h),
         NEW paths, run'.reached = paths, paths \subseteq AssignedFiles(h)
  PROVE  ReadsAssigned'
<1>1. AssignedFiles(h)' = AssignedFiles(h) /\ AssignedRefs(h)' = AssignedRefs(h)
  BY SameAssigned, SameAssignedRefs
<1>2. RefsOf(refs, "sops")' = RefsOf(refs, "sops")
  BY DEF RefsOf
<1>3. (RefsOf(refs, "sops") \subseteq AssignedRefs(h) /\ paths \subseteq AssignedFiles(h))'
  BY <1>1, <1>2
<1> QED
  BY <1>3 DEF ReadsAssigned

LEMMA BatchReads ==
  ASSUME DOMAIN run = Fields, NEW scheme, NEW refs, NEW h,
         run.reached \subseteq AssignedFiles(h), refs \subseteq AssignedRefs(h) \/ scheme # "sops"
  PROVE  Reads(scheme, refs).reached \subseteq AssignedFiles(h)
<1>1. Reads(scheme, refs).reached
        = run.reached \cup IF scheme = "sops" THEN SopsPaths(refs) ELSE {}
  BY DEF Reads, Fields
<1>2. refs \subseteq AssignedRefs(h) => SopsPaths(refs) \subseteq AssignedFiles(h)
  BY FilesOfRefs
<1> QED
  BY <1>1, <1>2

LEMMA ResolveCacheReads ==
  ASSUME ResolveInv, ReadsAssigned, F' = F, NEW scheme, NEW from, NEW to,
         ResolveCacheOf(scheme, from, to)
  PROVE  ReadsAssigned'
<1> SUFFICES ASSUME run'.mode = "validate" PROVE ReadsAssigned'
  BY DEF ReadsAssigned
<1>1. PICK refs, h : refs = RefsOf(run.pending, scheme) /\ h = run.host
  OBVIOUS
<1> DEFINE read == Reads(scheme, refs)
<1>2. DOMAIN run = Fields
  BY DEF ResolveInv, Shape
<1>3. /\ DOMAIN read = Fields
      /\ \A x \in Fields \ {"reached", "opened", "asked"} : read[x] = run[x]
  BY <1>2 DEF Reads, Fields
<1>4. \/ \E class : run' = [read EXCEPT !.pc = "failed", !.err = Err(class)]
      \/ \E results : run' = [read EXCEPT !.cache = Learned(@, results),
                                          !.resolved = Resolved(scheme, refs), !.pc = to]
  BY <1>1 DEF ResolveCacheOf
<1> HIDE DEF read
<1>5. run'.mode = run.mode /\ run'.host = h /\ run'.pending = run.pending /\ run'.reached = read.reached
  BY <1>1, <1>3, <1>4 DEF Fields
<1>6. RefsOf(run.pending, "sops") \subseteq AssignedRefs(h) /\ run.reached \subseteq AssignedFiles(h)
  BY <1>1, <1>5 DEF ReadsAssigned
<1>7. refs \subseteq AssignedRefs(h) \/ scheme # "sops"
  BY <1>1, <1>6
<1>8. read.reached \subseteq AssignedFiles(h)
  BY <1>2, <1>6, <1>7, BatchReads DEF read
<1> QED
  BY <1>5, <1>6, <1>8, ReadsKept

LEMMA ResolveDirectReads ==
  ASSUME ResolveInv, ReadsAssigned, F' = F, NEW scheme, NEW from, NEW to,
         from \in Reading, ResolveDirect(scheme, from, to)
  PROVE  ReadsAssigned'
<1> SUFFICES ASSUME run'.mode = "validate" PROVE ReadsAssigned'
  BY DEF ReadsAssigned
<1>1. PICK refs, h : refs = DirectRefs(scheme) /\ h = run.host
  OBVIOUS
<1> DEFINE read == Reads(scheme, refs)
<1>2. DOMAIN run = Fields
  BY DEF ResolveInv, Shape
<1>3. /\ DOMAIN read = Fields
      /\ \A x \in Fields \ {"reached", "opened", "asked"} : read[x] = run[x]
  BY <1>2 DEF Reads, Fields
<1>4. \/ run' = [run EXCEPT !.pc = to]
      \/ \E class : run' = [run EXCEPT !.pc = "failed", !.err = Err(class)]
      \/ \E class : run' = [read EXCEPT !.pc = "failed", !.err = Err(class)]
      \/ \E results : run' = [read EXCEPT !.direct = Learned(@, results), !.given = TRUE, !.pc = to]
  BY <1>1 DEF ResolveDirect, Fail
<1> HIDE DEF read
<1>5. /\ run'.mode = run.mode /\ run'.host = h /\ run'.pending = run.pending
      /\ run'.reached = read.reached \/ run'.reached = run.reached
  BY <1>1, <1>2, <1>3, <1>4 DEF Fields
<1>6. RefsOf(run.pending, "sops") \subseteq AssignedRefs(h) /\ run.reached \subseteq AssignedFiles(h)
  BY <1>1, <1>5 DEF ReadsAssigned
<1>7. refs \subseteq AssignedRefs(h) \/ scheme # "sops"
  <2>1. run.pc \in Reading /\ run.set = Resolve(F, F.hosts[h]) /\ F \in Fleets
    BY <1>1, <1>5 DEF ResolveDirect, Done, ResolveInv, Shape
  <2>2. run.todo = Expand(F, run.set) /\ ~ExpandFails(F, run.set) /\ FleetWellFormed(F)
    BY <2>1, ResolverAssumption DEF ResolveInv, Shape, Assigned, Expands
  <2>3. \A x \in refs : IsRefOf(scheme, x) /\ \E r \in run.todo : r.src = x
    BY <1>1 DEF DirectRefs
  <2>4. ASSUME NEW x \in refs
        PROVE  x \in Resolve(F, F.hosts[h]).secrets
    <3>1. PICK r \in run.todo : r.src = x /\ IsProviderRef(F, x)
      BY <2>3 DEF IsRefOf, IsProviderRef
    <3>2. PICK set : set = run.set
      OBVIOUS
    <3>3. ~ExpandFails(F, set) /\ r \in Expand(F, set) /\ IsProviderRef(F, r.src)
      BY <2>2, <3>1, <3>2
    <3>4. r.src \in set.secrets
      BY <2>2, <3>3, ProviderRefIsSecret
    <3> QED
      BY <2>1, <3>1, <3>2, <3>4
  <2> QED
    BY <2>3, <2>4 DEF AssignedRefs
<1>8. read.reached \subseteq AssignedFiles(h)
  BY <1>2, <1>6, <1>7, BatchReads DEF read
<1> QED
  BY <1>5, <1>6, <1>8, ReadsKept

LEMMA CollectReads ==
  ASSUME ResolveInv, F' = F, Collect
  PROVE  ReadsAssigned'
<1> SUFFICES ASSUME run'.mode = "validate" PROVE ReadsAssigned'
  BY DEF ReadsAssigned
<1>1. run.pc = "collect" /\ DOMAIN run = Fields /\ run.todo = Assigned
  BY DEF Collect, Done, ResolveInv, Shape, Reading
<1>2. /\ run'.mode = run.mode /\ run'.host = run.host
      /\ run'.pending = UNION {st.pending : st \in Collected}
      /\ run'.reached = UNION {st.reached : st \in Collected}
  BY <1>1 DEF Collect, CollectFrom, Fields
<1>3. FleetWellFormed(F) /\ MaxDepth \in Nat /\ CacheSound
  BY ResolverAssumption DEF ResolveInv, Shape, Gathered
<1>4. ASSUME NEW st \in Collected
      PROVE  /\ RefsOf(st.pending, "sops") \subseteq AssignedRefs(run.host)
             /\ st.reached \subseteq AssignedFiles(run.host)
  <2>1. PICK r \in run.todo : st = RenderOrRead(r.src, FALSE, {})
    BY DEF Collected
  <2>2. Sound(st, FALSE, ArgsOf(r.src))
    BY <1>3, <2>1, RenderOrReadSound
  <2> QED
    BY <1>1, <1>2, <2>2, RenderReads
<1>5. PICK h, refs, paths : h = run.host /\ refs = run'.pending /\ paths = run'.reached
  OBVIOUS
<1>6. RefsOf(refs, "sops") \subseteq AssignedRefs(h)
  BY <1>2, <1>4, <1>5 DEF RefsOf
<1>7. paths \subseteq AssignedFiles(h)
  BY <1>2, <1>4, <1>5
<1> QED
  BY <1>2, <1>5, <1>6, <1>7, ReadsKept

LEMMA BuildFileReads ==
  ASSUME ResolveInv, ReadsAssigned, F' = F, BuildFile
  PROVE  ReadsAssigned'
<1> SUFFICES ASSUME run'.mode = "validate" PROVE ReadsAssigned'
  BY DEF ReadsAssigned
<1>1. run.pc = "build" /\ run.todo # {} /\ DOMAIN run = Fields
  BY DEF BuildFile, Done, ResolveInv, Shape
<1>2. PICK ref \in {Next1(run.todo)} :
        IF IsProviderRef(F, ref.src) THEN BuildDirect(ref)
        ELSE \E down \in Down : BuildRendered(ref, Render(ref, down), down)
  BY DEF BuildFile
<1>3. /\ ref \in Assigned /\ FleetWellFormed(F) /\ MaxDepth \in Nat /\ CacheSound
  BY <1>1, NextFile DEF ResolveInv, Gathered
<1>4. \/ /\ run'.mode = run.mode /\ run'.host = run.host /\ run'.pending = run.pending
         /\ run'.reached = run.reached
      \/ \E down : /\ run'.mode = run.mode /\ run'.host = run.host /\ run'.pending = run.pending
                   /\ run'.reached = run.reached \cup Render(ref, down).reached
  <2>1. CASE BuildDirect(ref)
    BY <1>1, <2>1 DEF BuildDirect, Fields
  <2>2. ASSUME NEW down \in Down, BuildRendered(ref, Render(ref, down), down)
        PROVE  /\ run'.mode = run.mode /\ run'.host = run.host /\ run'.pending = run.pending
               /\ run'.reached = run.reached \cup Render(ref, down).reached
    <3>1. PICK st : st = Render(ref, down)
      OBVIOUS
    <3>2. BuildRendered(ref, st, down)
      BY <2>2, <3>1
    <3> QED
      BY <1>1, <3>1, <3>2 DEF BuildRendered, Fields
  <2> QED
    BY <1>2, <2>1, <2>2
<1>5. PICK h, refs, paths : h = run.host /\ refs = run.pending /\ paths = run'.reached
  OBVIOUS
<1>6. RefsOf(refs, "sops") \subseteq AssignedRefs(h) /\ run.reached \subseteq AssignedFiles(h)
  BY <1>4, <1>5 DEF ReadsAssigned
<1>7. ASSUME NEW down
      PROVE  Render(ref, down).reached \subseteq AssignedFiles(h)
  <2>1. Sound(Render(ref, down), Guarded(ref), ArgsOf(ref.src))
    BY <1>3, RenderSound
  <2>2. PICK st, guarded : st = Render(ref, down) /\ guarded = Guarded(ref)
    OBVIOUS
  <2>3. Sound(st, guarded, ArgsOf(ref.src))
    BY <2>1, <2>2
  <2>4. run.mode = "validate"
    BY <1>4
  <2> QED
    BY <1>3, <1>5, <2>2, <2>3, <2>4, RenderReads
<1>8. paths \subseteq AssignedFiles(h)
  BY <1>4, <1>5, <1>6, <1>7
<1> QED
  BY <1>4, <1>5, <1>6, <1>8, ReadsKept

LEMMA ReadsNext ==
  ASSUME ResolveInv, ReadsAssigned, Next
  PROVE  ReadsAssigned'
<1>1. F' = F
  BY CommitKept
<1>2. ASSUME run'.mode = run.mode, run'.host = run.host, run'.pending = run.pending,
             run'.reached = run.reached
      PROVE  ReadsAssigned'
  <2>1. PICK h, refs, paths : h = run.host /\ refs = run.pending /\ paths = run.reached
    OBVIOUS
  <2>2. run.mode = "validate" =>
          RefsOf(refs, "sops") \subseteq AssignedRefs(h) /\ paths \subseteq AssignedFiles(h)
    BY <2>1 DEF ReadsAssigned
  <2>3. CASE run.mode = "validate"
    BY <1>1, <1>2, <2>1, <2>2, <2>3, ReadsKept
  <2>4. CASE run.mode # "validate"
    BY <1>2, <2>4 DEF ReadsAssigned
  <2> QED
    BY <2>3, <2>4
<1>3. CASE LoadFleet \/ ValidateSOPSFiles \/ \E ref \in Vaults : Rotate(ref)
  BY <1>2, <1>3 DEF LoadFleet, ValidateSOPSFiles, Rotate
<1>4. CASE Tell \/ AgentEnds
  <2>1. run' = Idle /\ Idle.mode = "none"
    BY <1>4 DEF Tell, AgentEnds, Idle
  <2> QED
    BY <2>1 DEF ReadsAssigned
<1>5. ASSUME NEW mode, NEW host, NEW set, run' = Begun(mode, host, set)
      PROVE  ReadsAssigned'
  <2>1. run'.pending = {} /\ run'.reached = {}
    BY <1>5 DEF Begun, Idle
  <2> QED
    BY <2>1 DEF ReadsAssigned, RefsOf
<1>6. CASE \E h \in Hosts : ValidateHost(h) \/ ValidateAgentBundle(h)
  BY <1>5, <1>6 DEF ValidateHost, ValidateAgentBundle
<1>7. CASE \E h \in Hosts : AgentResolves(F.hosts[h].hostname)
  BY <1>5, <1>7 DEF AgentResolves
<1>8. DOMAIN run = Fields
  BY DEF ResolveInv, Shape
<1>9. CASE ExpandAndValidate \/ BuildHooks \/ Analyze
  <2>1. (\E err : Fail(err)) \/ (\E to : run' = [run EXCEPT !.pc = to])
        \/ \E files : run' = [run EXCEPT !.todo = files, !.pc = "collect"]
    BY <1>9 DEF ExpandAndValidate, BuildHooks, Analyze
  <2> QED
    BY <1>2, <1>8, <2>1 DEF Fail, Fields
<1>10. CASE Collect \/ BuildFile
  BY <1>1, <1>10, CollectReads, BuildFileReads
<1>11. CASE ResolveCache
  BY <1>1, <1>11, ResolveCacheReads DEF ResolveCache
<1>12. CASE ResolveDirectSecrets
  <2>1. {"direct", "direct pp", "direct sops"} \subseteq Reading
    BY DEF Reading
  <2> QED
    BY <1>1, <1>12, <2>1, ResolveDirectReads DEF ResolveDirectSecrets
<1> QED
  BY <1>3, <1>4, <1>6, <1>7, <1>9, <1>10, <1>11, <1>12 DEF Next, ResolveStep

\* A step of a resolve is of the mode it is in.
LEMMA ModesKept ==
  ASSUME ResolveInv, ResolveStep
  PROVE  run'.mode = run.mode /\ ci' = ci
<1>1. DOMAIN run = Fields
  BY DEF ResolveInv, Shape
<1>2. ci' = ci
  BY DEF ResolveStep, ExpandAndValidate, Collect, ResolveCache, ResolveCacheOf,
         ResolveDirectSecrets, ResolveDirect, BuildFile, BuildHooks, Analyze, Unchanging
<1>3. CASE ExpandAndValidate \/ BuildHooks \/ Analyze
  BY <1>1, <1>2, <1>3 DEF ExpandAndValidate, BuildHooks, Analyze, Fail, Fields
<1>4. CASE Collect
  BY <1>1, <1>2, <1>4 DEF Collect, CollectFrom, Fields
<1>5. \A scheme, refs : Reads(scheme, refs).mode = run.mode /\ DOMAIN Reads(scheme, refs) = Fields
  BY <1>1 DEF Reads, Fields
<1>6. ASSUME NEW scheme, NEW from, NEW to, ResolveCacheOf(scheme, from, to)
      PROVE  run'.mode = run.mode
  <2>1. PICK read : read = Reads(scheme, RefsOf(run.pending, scheme))
    OBVIOUS
  <2>2. read.mode = run.mode /\ DOMAIN read = Fields
    BY <1>5, <2>1
  <2> QED
    BY <1>6, <2>1, <2>2 DEF ResolveCacheOf, Fields
<1>7. ASSUME NEW scheme, NEW from, NEW to, ResolveDirect(scheme, from, to)
      PROVE  run'.mode = run.mode
  <2>1. PICK read : read = Reads(scheme, DirectRefs(scheme))
    OBVIOUS
  <2>2. read.mode = run.mode /\ DOMAIN read = Fields
    BY <1>5, <2>1
  <2> QED
    BY <1>1, <1>7, <2>1, <2>2 DEF ResolveDirect, Fail, Fields
<1>8. CASE BuildFile
  BY <1>1, <1>2, <1>8, ZenonT(60) DEF BuildFile, BuildDirect, BuildRendered, Fields
<1> QED
  BY <1>2, <1>3, <1>4, <1>6, <1>7, <1>8 DEF ResolveStep, ResolveCache, ResolveDirectSecrets

\* Once a Host is done the validator goes on to the next, the bundles or the passes.
LEMMA AfterTodoIs ==
  ASSUME NEW c, DOMAIN c = {"phase", "todo", "readers", "unresolved", "bad"},
         c.phase \in {"hosts", "bundles"}, c.todo \subseteq Hosts,
         NEW d, d = AfterTodo(c)
  PROVE  /\ DOMAIN d = DOMAIN c /\ d.phase \in {"hosts", "bundles", "passes"}
         /\ d.todo \subseteq Hosts /\ d.readers = c.readers /\ d.unresolved = c.unresolved
         /\ d.bad = c.bad
<1>1. Bundled \subseteq Hosts
  BY DEF Bundled
<1> QED
  BY <1>1 DEF AfterTodo

LEMMA ToldStays ==
  ASSUME ResolveInv, Told, F' = F, ci' = ci,
         run'.mode = run.mode \/ run'.mode = "none"
         \/ (run'.mode = "validate" /\ ci.phase = "hosts")
         \/ (run'.mode = "bundle" /\ ci.phase = "bundles")
         \/ (run'.mode = "agent" /\ ci.phase = "done")
  PROVE  Told'
<1>1. \A h, p : << h, p >> \in ci.readers => p \in AssignedFiles(h)'
  BY SameAssigned DEF Told
<1>2. (\A h, p : << h, p >> \in ci.readers => p \in AssignedFiles(h))'
  BY <1>1
<1> QED
  BY <1>2 DEF Told, Hosts

LEMMA TellTold ==
  ASSUME ResolveInv, ReadsAssigned, Told, F' = F, Tell
  PROVE  Told' /\ ci'.phase # "done"
<1>1. /\ run.pc \in {"done", "failed"} /\ run.mode \in {"validate", "bundle"}
      /\ run.host \in Hosts
      /\ run.reached \subseteq {F.refs[x].path : x \in DOMAIN F.refs}
      /\ ci.phase \in {"hosts", "bundles"}
  BY DEF Tell, ResolveInv, Shape, Gathered, Told, Hosts
<1> DEFINE resolved == run.pc = "done" \/ run.err.class \in AnalyzeClasses
           next == [ci EXCEPT !.todo = @ \ {run.host}, !.bad = @ \/ run.pc = "failed"]
           told == IF run.mode = "bundle" THEN next
                   ELSE IF resolved
                   THEN [next EXCEPT !.readers = @ \cup {<< run.host, p >> : p \in run.reached}]
                   ELSE [next EXCEPT !.unresolved = @ \cup {run.host}]
<1>2. ci' = AfterTodo(told) /\ run'.mode = "none"
  BY DEF Tell, Idle
<1>3. /\ DOMAIN next = {"phase", "todo", "readers", "unresolved", "bad"}
      /\ next.phase = ci.phase /\ next.todo \subseteq Hosts /\ next.readers = ci.readers
      /\ next.unresolved = ci.unresolved /\ next.bad \in BOOLEAN
      /\ (ci.bad \/ run.pc = "failed" => next.bad)
  BY DEF Told
<1> HIDE DEF next
<1>4. /\ DOMAIN told = {"phase", "todo", "readers", "unresolved", "bad"}
      /\ told.phase = ci.phase /\ told.todo \subseteq Hosts /\ told.bad = next.bad
      /\ told.unresolved \subseteq Hosts
      /\ told.unresolved = ci.unresolved \/ next.bad
  BY <1>1, <1>3 DEF Told
<1>5. /\ told.readers \subseteq ci.readers \cup {<< run.host, p >> : p \in run.reached}
      /\ run.mode # "validate" => told.readers = ci.readers
  BY <1>1, <1>3
<1> HIDE DEF told
<1>6. /\ ci'.phase \in {"hosts", "bundles", "passes"} /\ ci'.todo \subseteq Hosts
      /\ DOMAIN ci' = {"phase", "todo", "readers", "unresolved", "bad"}
      /\ ci'.readers = told.readers /\ ci'.unresolved = told.unresolved /\ ci'.bad = told.bad
  BY <1>1, <1>2, <1>4, AfterTodoIs
<1>7. ASSUME NEW h, NEW p, << h, p >> \in told.readers
      PROVE  p \in AssignedFiles(h)
  <2>1. CASE << h, p >> \in ci.readers
    BY <2>1 DEF Told
  <2>2. CASE << h, p >> \notin ci.readers
    <3>1. run.mode = "validate" /\ h = run.host /\ p \in run.reached
      BY <1>5, <1>7, <2>2
    <3> QED
      BY <3>1 DEF ReadsAssigned
  <2> QED
    BY <2>1, <2>2
<1>8. PICK readers : readers = told.readers
  OBVIOUS
<1>9. (\A h, p : << h, p >> \in ci.readers => p \in AssignedFiles(h))'
  <2>1. \A h, p : << h, p >> \in readers => p \in AssignedFiles(h)'
    BY <1>7, <1>8, SameAssigned
  <2> QED
    BY <1>6, <1>8, <2>1
<1>10. ci'.readers \subseteq Hosts \X {F.refs[x].path : x \in DOMAIN F.refs}
  BY <1>1, <1>5, <1>6 DEF Told
<1> QED
  BY <1>1, <1>2, <1>3, <1>4, <1>6, <1>9, <1>10 DEF Told, Hosts

LEMMA ToldNext ==
  ASSUME ResolveInv, ReadsAssigned, Told, Next
  PROVE  Told'
<1>1. F' = F
  BY CommitKept
<1>2. CASE LoadFleet
  <2>1. run.mode = "none" /\ run' = run
    BY <1>2 DEF LoadFleet, Told, ResolveInv, Shape
  <2>2. /\ DOMAIN ci' = {"phase", "todo", "readers", "unresolved", "bad"}
        /\ ci'.phase \in {"hosts", "done"} /\ ci'.todo \subseteq Hosts
        /\ ci'.readers = {} /\ ci'.unresolved = {} /\ ci'.bad \in BOOLEAN
    BY <1>2 DEF LoadFleet, NoCI
  <2> QED
    BY <1>1, <2>1, <2>2 DEF Told, Hosts
<1>3. CASE ValidateSOPSFiles
  <2>1. run.mode = "none" /\ run' = run
    BY <1>3 DEF ValidateSOPSFiles, Told, ResolveInv, Shape
  <2>2. /\ DOMAIN ci' = {"phase", "todo", "readers", "unresolved", "bad"}
        /\ ci'.phase = "done" /\ ci'.todo = ci.todo
        /\ ci'.readers = ci.readers /\ ci'.unresolved = ci.unresolved /\ ci'.bad \in BOOLEAN
        /\ (ci.bad => ci'.bad)
    BY <1>3 DEF ValidateSOPSFiles, Told
  <2>3. (\A h, p : << h, p >> \in ci.readers => p \in AssignedFiles(h))'
    <3>1. PICK readers : readers = ci.readers
      OBVIOUS
    <3>2. \A h, p : << h, p >> \in readers => p \in AssignedFiles(h)'
      BY <1>1, <3>1, SameAssigned DEF Told
    <3> QED
      BY <2>2, <3>1, <3>2
  <2> QED
    BY <1>1, <2>1, <2>2, <2>3 DEF Told, Hosts
<1>4. CASE Tell
  BY <1>1, <1>4, TellTold
<1>5. CASE \E h \in Hosts : ValidateHost(h) \/ ValidateAgentBundle(h)
  <2>1. \/ run'.mode = "validate" /\ ci.phase = "hosts"
        \/ run'.mode = "bundle" /\ ci.phase = "bundles"
    BY <1>5 DEF ValidateHost, ValidateAgentBundle, Begun, Idle
  <2>2. ci' = ci
    BY <1>5 DEF ValidateHost, ValidateAgentBundle
  <2> QED
    BY <1>1, <2>1, <2>2, ToldStays
<1>6. CASE \E h \in Hosts : AgentResolves(F.hosts[h].hostname)
  <2>1. run'.mode = "agent" /\ ci.phase = "done" /\ ci' = ci
    BY <1>6 DEF AgentResolves, Begun, Idle
  <2> QED
    BY <1>1, <2>1, ToldStays
<1>7. CASE AgentEnds
  BY <1>1, <1>7, ToldStays DEF AgentEnds, Idle
<1>8. CASE \E ref \in Vaults : Rotate(ref)
  BY <1>1, <1>8, ToldStays DEF Rotate
<1>9. CASE ResolveStep
  BY <1>1, <1>9, ModesKept, ToldStays
<1> QED
  BY <1>2, <1>3, <1>4, <1>5, <1>6, <1>7, <1>8, <1>9 DEF Next

LEMMA AudienceNext ==
  ASSUME ResolveInv, ReadsAssigned, Told, ValidatedAudience, Next
  PROVE  ValidatedAudience'
<1>1. F' = F
  BY CommitKept
<1>2. CASE ci' = ci
  BY <1>1, <1>2, SameAssigned DEF ValidatedAudience
<1>3. CASE LoadFleet
  <2>1. ci'.phase = "hosts" \/ ci'.bad
    BY <1>3 DEF LoadFleet, NoCI
  <2> QED
    BY <2>1 DEF ValidatedAudience
<1>4. CASE Tell
  BY <1>1, <1>4, TellTold DEF ValidatedAudience
<1>5. CASE ValidateSOPSFiles
  <2> SUFFICES ASSUME ~ci'.bad, NEW p \in DOMAIN F.files, NEW k \in Recipients(F.files[p]),
                      k \notin OperatorKeys(F)
               PROVE  \E h \in Owners(F, k) : p \in AssignedFiles(h)
    BY <1>1, SameAssigned DEF ValidatedAudience
  <2>1. ~ci.bad /\ OperatorsLoad(F) /\ ~SopsFileFails(p)
    BY <1>5 DEF ValidateSOPSFiles, Told
  <2>2. ci.unresolved = {} /\ ~AudienceFails(p)
    BY <2>1 DEF Told, SopsFileFails
  <2>3. ReadsFile(k, p)
    BY <2>1, <2>2 DEF AudienceFails
  <2> QED
    BY <2>3 DEF ReadsFile, Told
<1>6. CASE ~(LoadFleet \/ Tell \/ ValidateSOPSFiles)
  <2>1. ci' = ci
    BY <1>6, ModesKept DEF Next, ValidateHost, ValidateAgentBundle, AgentResolves, AgentEnds, Rotate
  <2> QED
    BY <1>2, <2>1
<1> QED
  BY <1>3, <1>4, <1>5, <1>6

LEMMA ValidateInit ==
  ASSUME Init
  PROVE  ValidateInv
<1>1. run.mode = "none"
  BY DEF Init, Idle
<1>2. /\ DOMAIN ci = {"phase", "todo", "readers", "unresolved", "bad"}
      /\ ci.phase = "load" /\ ci.todo = {} /\ ci.readers = {} /\ ci.unresolved = {} /\ ~ci.bad
      /\ ci.bad \in BOOLEAN
  BY DEF Init, NoCI
<1>3. Charged
  BY ResolverAssumption DEF Init, Charged
<1> QED
  BY <1>1, <1>2, <1>3 DEF ValidateInv, ReadsAssigned, Told, ValidatedAudience

LEMMA ValidateNext ==
  ASSUME ResolveInv, ValidateInv, [Next]_vars
  PROVE  ValidateInv'
<1>1. CASE Next
  BY <1>1, ReadsNext, ToldNext, ChargedNext, AudienceNext DEF ValidateInv
<1>2. CASE UNCHANGED vars
  <2>1. F' = F /\ vault' = vault /\ faults' = faults /\ ci' = ci /\ run' = run
    BY <1>2 DEF vars
  <2>2. Told'
    BY <2>1, ToldStays DEF ValidateInv
  <2>3. ReadsAssigned'
    <3>1. PICK h, refs, paths : h = run.host /\ refs = run.pending /\ paths = run.reached
      OBVIOUS
    <3>2. run.mode = "validate" =>
            RefsOf(refs, "sops") \subseteq AssignedRefs(h) /\ paths \subseteq AssignedFiles(h)
      BY <3>1 DEF ValidateInv, ReadsAssigned
    <3>3. CASE run.mode = "validate"
      BY <2>1, <3>1, <3>2, <3>3, ReadsKept
    <3>4. CASE run.mode # "validate"
      BY <2>1, <3>4 DEF ReadsAssigned
    <3> QED
      BY <3>3, <3>4
  <2>4. ValidatedAudience'
    BY <2>1, SameAssigned DEF ValidateInv, ValidatedAudience
  <2> QED
    BY <2>1, <2>2, <2>3, <2>4 DEF ValidateInv, Charged
<1> QED
  BY <1>1, <1>2

\* The validator keeps what it was told of the Hosts true.
THEOREM ValidatesInOrder == Spec => []ValidateInv
<1>1. Init => ResolveInv /\ ValidateInv
  BY ResolveInit, ValidateInit
<1>2. ResolveInv /\ ValidateInv /\ [Next]_vars => (ResolveInv /\ ValidateInv)'
  BY ResolveNext, ValidateNext
<1> QED
  BY <1>1, <1>2, PTL DEF Spec

\* A commit passes validate only if each of its SOPS files is encrypted to
\* Operators and to Hosts that are assigned a use of it, to no one else.
THEOREM AudienceAlwaysValidated == Spec => []ValidatedAudience
<1>1. ValidateInv => ValidatedAudience
  BY DEF ValidateInv
<1> QED
  BY <1>1, ValidatesInOrder, PTL

\* The state keeps its shape.
THEOREM TypeCorrect == Spec => []TypeOK
<1>1. ASSUME ResolveInv, ValidateInv
      PROVE  TypeOK
  <2>1. ASSUME NEW f \in run.out, NEW v \in f.content
        PROVE  v.what \in Kinds
    <3>1. FileSound(f)
      BY <1>1 DEF ResolveInv, Contained
    <3>2. CASE IsProviderRef(F, f.src)
      BY <3>1, <3>2 DEF FileSound, ValueFor, Kinds
    <3>3. CASE ~IsProviderRef(F, f.src)
      BY <3>1, <3>3 DEF FileSound, MayHold
    <3> QED
      BY <3>2, <3>3
  <2>2. /\ run.mode \in {"none", "validate", "bundle", "agent"}
        /\ run.resolved \subseteq SchemeSet
        /\ run.pending \cup run.data \subseteq DOMAIN F.refs
        /\ DOMAIN run.cache \subseteq run.pending /\ DOMAIN run.direct \subseteq run.set.secrets
        /\ (run.pc = "failed" <=> run.err # NoErr)
    BY <1>1 DEF ResolveInv, Shape, Gathered
  <2> QED
    BY <1>1, <2>1, <2>2 DEF TypeOK, ValidateInv, Told, Charged, Kinds
<1> QED
  BY <1>1, ResolvesInOrder, ValidatesInOrder, PTL

-----------------------------------------------------------------------------
(* A resolve that ends well built every file it was assigned.               *)

RefBuilt(f) == FileRef(f.src, f.category)
Built == {RefBuilt(f) : f \in run.out}

\* A direct secret of a provider that is not configured.
Skippable(r) == \E p \in {"op", "pp"} : IsRefOf(p, r.src) /\ ~HasReader(p)

\* What is not to be built any more was built, once each, or was skipped.
BuiltOnce ==
  run.pc \in Finishing =>
    /\ Built \subseteq Assigned \ run.todo
    /\ \A f, g \in run.out : RefBuilt(f) = RefBuilt(g) => f = g
    /\ \A r \in (Assigned \ run.todo) \ Built : Skippable(r)

\* From where on a provider's direct secrets are known.
Past(p) == CASE p = "op" -> {"direct pp", "direct sops"} \cup Finishing
             [] p = "pp" -> {"direct sops"} \cup Finishing
             [] OTHER    -> Finishing

\* As long as no provider gave any, each of them was skipped.
GivenOrSkipped ==
  ~run.given =>
    \A p \in SchemeSet : run.pc \in Past(p) =>
      \A r \in Assigned : IsRefOf(p, r.src) => Skippable(r)

CompleteInv == BuiltOnce /\ GivenOrSkipped

LEMMA PastIs ==
  ASSUME NEW p \in SchemeSet
  PROVE  /\ Past(p) \subseteq {"direct pp", "direct sops"} \cup Finishing
         /\ Finishing \subseteq Past(p)
         /\ ("direct pp" \in Past(p) <=> p = "op")
         /\ ("direct sops" \in Past(p) <=> p \in {"op", "pp"})
  BY DEF Past, Finishing, SchemeSet

\* Nothing is claimed of a resolve before its direct secrets.
LEMMA CompleteEarly ==
  ASSUME run'.pc \notin {"direct pp", "direct sops"} \cup Finishing
  PROVE  CompleteInv'
<1>1. \A p \in SchemeSet : run'.pc \notin Past(p)
  BY PastIs
<1>2. BuiltOnce'
  BY DEF BuiltOnce
<1>3. GivenOrSkipped'
  BY <1>1 DEF GivenOrSkipped, Past
<1> QED
  BY <1>2, <1>3 DEF CompleteInv

LEMMA SameSkippable ==
  ASSUME SameResolve, run'.set = run.set
  PROVE  /\ Assigned' = Assigned
         /\ \A r : Skippable(r)' <=> Skippable(r)
         /\ \A p, x : IsRefOf(p, x)' <=> IsRefOf(p, x)
<1>1. \A p, x : IsRefOf(p, x)' <=> IsRefOf(p, x)
  BY DEF SameResolve, IsRefOf
<1>2. \A p : HasReader(p)' <=> HasReader(p)
  BY SameReads
<1> QED
  BY <1>1, <1>2 DEF SameResolve, Assigned, Skippable

\* A step of a resolve that builds no file.
LEMMA CompleteKept ==
  ASSUME CompleteInv, SameResolve, run'.set = run.set, run'.todo = run.todo, run'.out = run.out,
         run'.given = run.given, run'.pc = run.pc \/ {run.pc, run'.pc} \subseteq Finishing
  PROVE  CompleteInv'
<1>1. \A p \in SchemeSet : run'.pc \in Past(p) <=> run.pc \in Past(p)
  BY PastIs
<1>2. run'.pc \in Finishing <=> run.pc \in Finishing
  OBVIOUS
<1>3. Built' = Built /\ \A f : RefBuilt(f)' = RefBuilt(f)
  BY DEF Built, RefBuilt, FileRef
<1>4. BuiltOnce'
  BY <1>2, <1>3, SameSkippable DEF CompleteInv, BuiltOnce
<1>5. GivenOrSkipped'
  BY <1>1, SameSkippable DEF CompleteInv, GivenOrSkipped, Past
<1> QED
  BY <1>4, <1>5 DEF CompleteInv

\* The direct secrets of one provider are given, or skipped.
LEMMA ResolveDirectComplete ==
  ASSUME ResolveInv, CompleteInv, F' = F, NEW scheme, NEW from, NEW to,
         \/ scheme = "op" /\ from = "direct" /\ to = "direct pp"
         \/ scheme = "pp" /\ from = "direct pp" /\ to = "direct sops"
         \/ scheme = "sops" /\ from = "direct sops" /\ to = "build",
         ResolveDirect(scheme, from, to)
  PROVE  CompleteInv'
<1> DEFINE refs  == DirectRefs(scheme)
           class == DirectClass(scheme)
<1>1. /\ scheme \in SchemeSet /\ run.pc = from /\ DOMAIN run = Fields
      /\ run.out = {} /\ run.todo = Assigned
      /\ refs \subseteq DOMAIN F.refs /\ \A x \in refs : IsRefOf(scheme, x)
  <2>1. run.pc = from /\ scheme \in SchemeSet /\ from \in Reading
    BY DEF ResolveDirect, Done, SchemeSet, Reading
  <2>2. \A x \in refs : IsRefOf(scheme, x)
    BY DEF DirectRefs
  <2>3. refs \subseteq DOMAIN F.refs
    BY <2>2 DEF IsRefOf
  <2> HIDE DEF refs
  <2> QED
    BY <2>1, <2>2, <2>3 DEF ResolveInv, Shape
<1>2. ASSUME run'.out = run.out, run'.todo = run.todo, run'.set = run.set, SameResolve
      PROVE  BuiltOnce'
  <2>1. Assigned' = Assigned
    BY <1>2, SameSkippable
  <2>2. Built' = {}
    BY <1>1, <1>2 DEF Built
  <2>3. (Assigned \ run.todo)' = {}
    BY <1>1, <1>2, <2>1
  <2> QED
    BY <1>1, <1>2, <2>2, <2>3 DEF BuiltOnce
<1>3. CASE (refs = {} \/ class = "skipped") /\ run' = [run EXCEPT !.pc = to]
  <2>1. /\ run'.out = run.out /\ run'.todo = run.todo /\ run'.set = run.set /\ run'.pc = to
        /\ run'.given = run.given /\ SameResolve
    BY <1>1, <1>3 DEF Fields, SameResolve
  <2>2. BuiltOnce'
    BY <1>2, <2>1
  <2>3. ASSUME NEW r \in Assigned, IsRefOf(scheme, r.src)
        PROVE  Skippable(r)
    <3>1. r.src \in refs
      BY <1>1, <2>3 DEF DirectRefs
    <3>2. class = "skipped"
      BY <1>3, <3>1
    <3>3. scheme # "sops" /\ ~HasReader(scheme)
      BY <3>2 DEF DirectClass
    <3> QED
      BY <1>1, <2>3, <3>3 DEF Skippable, SchemeSet
  <2>4. ASSUME ~run.given, NEW p \in SchemeSet, to \in Past(p), NEW r \in Assigned,
               IsRefOf(p, r.src)
        PROVE  Skippable(r)
    <3>1. p = scheme \/ from \in Past(p)
      BY <2>4, PastIs DEF Finishing, SchemeSet
    <3> QED
      BY <1>1, <2>3, <2>4, <3>1 DEF CompleteInv, GivenOrSkipped
  <2>5. GivenOrSkipped'
    BY <2>1, <2>4, SameSkippable DEF GivenOrSkipped, Past
  <2> QED
    BY <2>2, <2>5 DEF CompleteInv
<1>4. CASE run'.pc = "failed"
  BY <1>4, CompleteEarly DEF Finishing
<1>5. ASSUME NEW direct, run' = [Reads(scheme, refs) EXCEPT !.direct = direct, !.given = TRUE,
                                                           !.pc = to]
      PROVE  CompleteInv'
  <2>1. /\ DOMAIN Reads(scheme, refs) = Fields
        /\ \A x \in Fields \ {"reached", "opened", "asked"} : Reads(scheme, refs)[x] = run[x]
    <3>1. DOMAIN run = Fields
      BY <1>1
    <3> HIDE DEF refs
    <3> QED
      BY <3>1, ReadsKeeps
  <2> HIDE DEF refs
  <2>2. /\ run'.out = run.out /\ run'.todo = run.todo /\ run'.set = run.set /\ run'.given = TRUE
        /\ SameResolve
    BY <1>5, <2>1 DEF Fields, SameResolve
  <2> QED
    BY <1>2, <2>2 DEF CompleteInv, GivenOrSkipped
<1>6. ASSUME NEW down \in Down,
             LET results == Batch(scheme, refs, TRUE, down)
             IN  IF Classes(results) # {}
                 THEN \E c \in Classes(results) :
                        run' = [Reads(scheme, refs) EXCEPT !.pc = "failed", !.err = Err(c)]
                 ELSE run' = [Reads(scheme, refs) EXCEPT !.direct = Learned(@, results),
                                                         !.given = TRUE, !.pc = to]
      PROVE  CompleteInv'
  <2>1. DOMAIN Reads(scheme, refs) = Fields
    BY <1>1, ReadsKeeps
  <2> HIDE DEF refs
  <2>2. CASE \E c : run' = [Reads(scheme, refs) EXCEPT !.pc = "failed", !.err = Err(c)]
    BY <1>4, <2>1, <2>2 DEF Fields
  <2>3. CASE \E results : run' = [Reads(scheme, refs) EXCEPT !.direct = Learned(@, results),
                                                             !.given = TRUE, !.pc = to]
    BY <1>5, <2>3
  <2> QED
    BY <1>6, <2>2, <2>3
<1>7. CASE Fail(Err(class))
  BY <1>1, <1>4, <1>7 DEF Fail, Fields
<1> QED
  BY <1>3, <1>6, <1>7 DEF ResolveDirect

\* A file that is built is one that was to be, and was not yet.
LEMMA BuildsComplete ==
  ASSUME CompleteInv, run.pc = "build", run'.pc = "build", SameResolve, run'.set = run.set,
         run'.given = run.given, NEW ref \in Assigned, ref \in run.todo, NEW files,
         run'.todo = run.todo \ {ref}, run'.out = run.out \cup files,
         \A f \in files : RefBuilt(f) = ref, \A f, g \in files : f = g,
         files = {} => Skippable(ref)
  PROVE  CompleteInv'
<1>1. /\ Built \subseteq Assigned \ run.todo
      /\ \A f, g \in run.out : RefBuilt(f) = RefBuilt(g) => f = g
      /\ \A r \in (Assigned \ run.todo) \ Built : Skippable(r)
      /\ run'.pc \in Finishing
  BY DEF CompleteInv, BuiltOnce, Finishing
<1>2. \A f : RefBuilt(f)' = RefBuilt(f)
  BY DEF RefBuilt, FileRef
<1>3. Built' = Built \cup {RefBuilt(f) : f \in files}
  BY <1>2 DEF Built
<1>4. Built' \subseteq Assigned \ (run.todo \ {ref})
  BY <1>1, <1>3
<1>5. \A f, g \in run.out \cup files : RefBuilt(f) = RefBuilt(g) => f = g
  <2>1. \A f \in run.out : RefBuilt(f) # ref
    BY <1>1 DEF Built
  <2> QED
    BY <1>1, <2>1
<1>6. \A r \in (Assigned \ (run.todo \ {ref})) \ Built' : Skippable(r)
  <2>1. files # {} => ref \in Built'
    BY <1>3
  <2> QED
    BY <1>1, <1>3, <2>1
<1>7. BuiltOnce'
  BY <1>2, <1>4, <1>5, <1>6, SameSkippable DEF BuiltOnce
<1>8. GivenOrSkipped'
  BY SameSkippable DEF CompleteInv, GivenOrSkipped, Past
<1> QED
  BY <1>7, <1>8 DEF CompleteInv

LEMMA BuildFileComplete ==
  ASSUME ResolveInv, CompleteInv, F' = F, BuildFile
  PROVE  CompleteInv'
<1>1. PICK ref \in {Next1(run.todo)} :
        IF IsProviderRef(F, ref.src) THEN BuildDirect(ref)
        ELSE \E down \in Down : BuildRendered(ref, Render(ref, down), down)
  BY DEF BuildFile
<1>2. run.pc = "build" /\ run.todo # {} /\ DOMAIN run = Fields
  BY DEF BuildFile, Done, ResolveInv, Shape
<1>3. /\ ref \in run.todo /\ ref \in Assigned /\ FleetWellFormed(F)
      /\ ~ExpandFails(F, run.set)
  BY <1>2, NextFile
<1>4. ref = FileRef(ref.src, ref.category)
  BY <1>3, ExpandedRef DEF Assigned
<1>5. \A content, sops : RefBuilt(BuiltFile(ref, content, sops)) = ref
  BY <1>4 DEF RefBuilt, BuiltFile
<1>6. CASE IsProviderRef(F, ref.src)
  <2>1. BuildDirect(ref)
    BY <1>1, <1>6
  <2> DEFINE value == IF ref.src \in DOMAIN run.direct THEN run.direct[ref.src] ELSE Blank
             file  == BuiltFile(ref, {value}, IsRefOf("sops", ref.src))
             files == IF ~run.given THEN {} ELSE {file}
  <2>2. run' = [run EXCEPT !.todo = run.todo \ {ref}, !.out = run.out \cup files]
    BY <2>1 DEF BuildDirect
  <2>3. \A f \in files : RefBuilt(f) = ref
    BY <1>5
  <2>4. \A f, g \in files : f = g
    OBVIOUS
  <2>5. files = {} => Skippable(ref)
    <3>1. files = {} => ~run.given
      OBVIOUS
    <3>2. \A p \in SchemeSet : run.pc \in Past(p)
      <4>1. run.pc \in Finishing
        BY <1>2 DEF Finishing
      <4> QED
        BY <4>1, PastIs
    <3>3. PICK p \in SchemeSet : IsRefOf(p, ref.src)
      BY <1>3, <1>6 DEF FleetWellFormed, IsProviderRef, IsRefOf
    <3> QED
      BY <1>3, <3>1, <3>2, <3>3 DEF CompleteInv, GivenOrSkipped
  <2> HIDE DEF files
  <2>6. /\ run'.pc = "build" /\ SameResolve /\ run'.set = run.set /\ run'.given = run.given
        /\ run'.todo = run.todo \ {ref} /\ run'.out = run.out \cup files
    BY <1>2, <2>2 DEF SameResolve, Fields
  <2> QED
    BY <1>2, <1>3, <2>3, <2>4, <2>5, <2>6, BuildsComplete
<1>7. ASSUME NEW st, NEW down, BuildRendered(ref, st, down)
      PROVE  CompleteInv'
  <2> DEFINE read == [run EXCEPT !.reached = @ \cup st.reached, !.opened = @ \cup st.opened,
                                 !.asked = @ \cup st.asked]
             file == BuiltFile(ref, st.content, st.sopsCalls)
  <2>1. run' = IF st.err # NoErr THEN [read EXCEPT !.pc = "failed", !.err = st.err]
               ELSE [read EXCEPT !.todo = @ \ {ref}, !.out = @ \cup {file}]
    BY <1>7 DEF BuildRendered
  <2>2. RefBuilt(file) = ref
    BY <1>5
  <2> HIDE DEF file
  <2>3. CASE st.err # NoErr
    <3>1. run'.pc = "failed"
      BY <1>2, <2>1, <2>3 DEF Fields
    <3> QED
      BY <3>1, CompleteEarly DEF Finishing
  <2>4. CASE st.err = NoErr
    <3>1. /\ run'.pc = "build" /\ SameResolve /\ run'.set = run.set /\ run'.given = run.given
          /\ run'.todo = run.todo \ {ref} /\ run'.out = run.out \cup {file}
      BY <1>2, <2>1, <2>4 DEF SameResolve, Fields
    <3>2. PICK files : files = {file}
      OBVIOUS
    <3> QED
      BY <1>2, <1>3, <2>2, <3>1, <3>2, BuildsComplete
  <2> QED
    BY <2>3, <2>4
<1> QED
  BY <1>1, <1>6, <1>7

LEMMA CompleteNext ==
  ASSUME ResolveInv, CompleteInv, [Next]_vars
  PROVE  CompleteInv'
<1>1. ASSUME F' = F, run' = run
      PROVE  CompleteInv'
  BY <1>1, CompleteKept DEF SameResolve
<1>2. CASE UNCHANGED vars
  BY <1>1, <1>2 DEF vars
<1>3. CASE Next
  <2>1. F' = F
    BY <1>3, CommitKept
  <2>2. DOMAIN run = Fields
    BY DEF ResolveInv, Shape
  <2>3. CASE LoadFleet \/ ValidateSOPSFiles \/ \E ref \in Vaults : Rotate(ref)
    BY <1>1, <2>1, <2>3 DEF LoadFleet, ValidateSOPSFiles, Rotate
  <2>4. CASE Tell \/ AgentEnds
    <3>1. run' = Idle /\ Idle.pc = "idle"
      BY <2>4 DEF Tell, AgentEnds, Idle
    <3> QED
      BY <3>1, CompleteEarly DEF Finishing
  <2>5. ASSUME NEW mode, NEW host, NEW set, run' = Begun(mode, host, set)
        PROVE  CompleteInv'
    <3>1. run'.pc = "expand"
      BY <2>5 DEF Begun, Idle
    <3> QED
      BY <3>1, CompleteEarly DEF Finishing
  <2>6. CASE \/ \E h \in Hosts : ValidateHost(h) \/ ValidateAgentBundle(h)
             \/ \E h \in Hosts : AgentResolves(F.hosts[h].hostname)
    BY <2>5, <2>6 DEF ValidateHost, ValidateAgentBundle, AgentResolves
  <2>7. ASSUME NEW err, Fail(err)
        PROVE  CompleteInv'
    <3>1. run'.pc = "failed"
      BY <2>2, <2>7 DEF Fail, Fields
    <3> QED
      BY <3>1, CompleteEarly DEF Finishing
  <2>8. CASE ExpandAndValidate
    <3>1. CASE \E files : run' = [run EXCEPT !.todo = files, !.pc = "collect"]
      <4>1. run'.pc = "collect"
        BY <2>2, <3>1 DEF Fields
      <4> QED
        BY <4>1, CompleteEarly DEF Finishing
    <3> QED
      BY <2>7, <2>8, <3>1 DEF ExpandAndValidate
  <2>9. CASE Collect
    <3>1. run' = CollectFrom(Collected)
      BY <2>9 DEF Collect
    <3>2. run'.pc = "resolve"
      BY <2>2, <3>1 DEF CollectFrom, Fields
    <3> QED
      BY <3>2, CompleteEarly DEF Finishing
  <2>10. ASSUME NEW scheme, NEW from, NEW to \in {"resolve pp", "resolve sops", "direct"},
                ResolveCacheOf(scheme, from, to)
         PROVE  CompleteInv'
    <3> DEFINE refs == RefsOf(run.pending, scheme)
    <3>1. DOMAIN Reads(scheme, refs) = Fields
      BY <2>2 DEF Reads, Fields
    <3> HIDE DEF refs
    <3>2. \/ \E class : run' = [Reads(scheme, refs) EXCEPT !.pc = "failed", !.err = Err(class)]
          \/ \E results : run' = [Reads(scheme, refs) EXCEPT !.cache = Learned(@, results),
                                    !.resolved = Resolved(scheme, refs), !.pc = to]
      BY <2>10 DEF ResolveCacheOf, refs
    <3>3. run'.pc \in {"failed", to}
      BY <3>1, <3>2 DEF Fields
    <3> QED
      BY <3>3, CompleteEarly DEF Finishing
  <2>11. CASE ResolveCache
    BY <2>10, <2>11 DEF ResolveCache
  <2>12. CASE ResolveDirectSecrets
    BY <2>1, <2>12, ResolveDirectComplete DEF ResolveDirectSecrets
  <2>13. CASE BuildFile
    BY <2>1, <2>13, BuildFileComplete
  <2>14. ASSUME NEW to \in {"analyze", "done"}, run.pc \in {"build", "analyze"},
                run' = [run EXCEPT !.pc = to]
         PROVE  CompleteInv'
    <3>1. /\ SameResolve /\ run'.set = run.set /\ run'.todo = run.todo /\ run'.out = run.out
          /\ run'.given = run.given /\ run'.pc = to
      BY <2>1, <2>2, <2>14 DEF SameResolve, Fields
    <3>2. {run.pc, run'.pc} \subseteq Finishing
      BY <2>14, <3>1 DEF Finishing
    <3> QED
      BY <3>1, <3>2, CompleteKept
  <2>15. CASE BuildHooks
    BY <2>7, <2>14, <2>15 DEF BuildHooks, Done
  <2>16. CASE Analyze
    BY <2>7, <2>14, <2>16 DEF Analyze, Done
  <2> QED
    BY <1>3, <2>3, <2>4, <2>6, <2>8, <2>9, <2>11, <2>12, <2>13, <2>15, <2>16
       DEF Next, ResolveStep
<1> QED
  BY <1>2, <1>3

LEMMA CompleteInit ==
  ASSUME Init
  PROVE  CompleteInv
<1>1. run.pc = "idle"
  BY DEF Init, Idle
<1>2. \A p \in SchemeSet : run.pc \notin Past(p)
  BY <1>1, PastIs DEF Finishing
<1> QED
  BY <1>1, <1>2 DEF CompleteInv, BuiltOnce, GivenOrSkipped, Finishing

\* A resolve that ends well built every file it was assigned, each once and to
\* a destination of its own, however its providers answered; it left out only
\* direct secrets of a vault that is not configured, and never a SOPS one.
THEOREM DoneIsAlwaysComplete == Spec => []DoneIsComplete
<1>1. Init => ResolveInv /\ CompleteInv
  BY ResolveInit, CompleteInit
<1>2. ResolveInv /\ CompleteInv /\ [Next]_vars => (ResolveInv /\ CompleteInv)'
  BY ResolveNext, CompleteNext
<1>3. ResolveInv /\ CompleteInv => DoneIsComplete
  <2>1. SUFFICES ASSUME ResolveInv, CompleteInv, run.pc = "done"
                 PROVE  DoneIsComplete
    BY DEF DoneIsComplete, Finished
  <2>2. run.todo = {} /\ Expands /\ F \in Fleets
    BY <2>1 DEF ResolveInv, Shape, Finishing
  <2>3. /\ Built \subseteq Assigned
        /\ \A f, g \in run.out : RefBuilt(f) = RefBuilt(g) => f = g
        /\ \A r \in Assigned \ Built : Skippable(r)
    BY <2>1, <2>2 DEF CompleteInv, BuiltOnce, Finishing
  <2>4. ASSUME NEW f \in run.out, NEW g \in run.out, f # g
        PROVE  DestPath(F, RefBuilt(f)) # DestPath(F, RefBuilt(g))
    <3>1. RefBuilt(f) \in Assigned /\ RefBuilt(g) \in Assigned /\ RefBuilt(f) # RefBuilt(g)
      BY <2>3, <2>4 DEF Built
    <3> QED
      BY <2>2, <3>1, OneFilePerDest, ResolverAssumption DEF Expands, Assigned
  <2> QED
    BY <2>3, <2>4 DEF DoneIsComplete, Built, RefBuilt, Skippable, Assigned
<1> QED
  BY <1>1, <1>2, <1>3, PTL DEF Spec

-----------------------------------------------------------------------------
(* A unit finds what it names.                                              *)

Ranked(rank, known) ==
    Names({q \in Quadlets : /\ q.category \in PreConvert
                            /\ ConvertOrder[q.category] = rank
                            /\ Uses(q) \subseteq known})

\* What the pass ahead of the per-file one converts, rank after rank.
LEMMA ConvertedIs ==
  /\ Converted[0] = PrefilledOnly
  /\ \A rank \in 1..5 : Converted[rank] = Converted[rank - 1] \cup Ranked(rank, Converted[rank - 1])
<1> DEFINE Body(g) ==
             [rank \in 0..5 |->
                IF rank = 0 THEN Names({q \in Quadlets : q.category \in Prefill})
                ELSE g[rank - 1] \cup
                     Names({q \in Quadlets : /\ q.category \in PreConvert
                                             /\ ConvertOrder[q.category] = rank
                                             /\ Uses(q) \subseteq g[rank - 1]})]
           c0 == PrefilledOnly
           c1 == c0 \cup Ranked(1, c0)
           c2 == c1 \cup Ranked(2, c1)
           c3 == c2 \cup Ranked(3, c2)
           c4 == c3 \cup Ranked(4, c3)
           c5 == c4 \cup Ranked(5, c4)
           G == [rank \in 0..5 |-> IF rank = 0 THEN c0 ELSE IF rank = 1 THEN c1
                                   ELSE IF rank = 2 THEN c2 ELSE IF rank = 3 THEN c3
                                   ELSE IF rank = 4 THEN c4 ELSE c5]
<1>1. Converted = CHOOSE g : g = Body(g)
  BY DEF Converted
<1>2. \A g : Body(g) = [rank \in 0..5 |-> IF rank = 0 THEN PrefilledOnly
                                          ELSE g[rank - 1] \cup Ranked(rank, g[rank - 1])]
  BY DEF PrefilledOnly, Ranked
<1> HIDE DEF Body
<1>3. G = Body(G)
  <2> HIDE DEF c0
  <2>1. /\ G[0] = c0 /\ G[1] = c0 \cup Ranked(1, c0)
        /\ G[2] = G[1] \cup Ranked(2, G[1])
        /\ G[3] = G[2] \cup Ranked(3, G[2])
        /\ G[4] = G[3] \cup Ranked(4, G[3])
        /\ G[5] = G[4] \cup Ranked(5, G[4])
    <3>1. /\ c1 = c0 \cup Ranked(1, c0) /\ c2 = c1 \cup Ranked(2, c1)
          /\ c3 = c2 \cup Ranked(3, c2) /\ c4 = c3 \cup Ranked(4, c3)
          /\ c5 = c4 \cup Ranked(5, c4)
      OBVIOUS
    <3> HIDE DEF c1, c2, c3, c4, c5
    <3>2. G[0] = c0 /\ G[1] = c1 /\ G[2] = c2
      OBVIOUS
    <3>3. G[3] = c3 /\ G[4] = c4 /\ G[5] = c5
      OBVIOUS
    <3> HIDE DEF G
    <3> QED
      BY <3>1, <3>2, <3>3
  <2> HIDE DEF G
  <2>2. ASSUME NEW rank \in 0..5
        PROVE  G[rank] = IF rank = 0 THEN c0 ELSE G[rank - 1] \cup Ranked(rank, G[rank - 1])
    <3>1. CASE rank = 0
      BY <2>1, <3>1
    <3>2. CASE rank = 1
      <4> 1 - 1 = 0
        OBVIOUS
      <4> QED
        BY <2>1, <3>2
    <3>3. CASE rank \in 2..5
      <4>1. rank \in {2, 3, 4, 5} /\ rank # 0
        BY <3>3
      <4>2. 2 - 1 = 1 /\ 3 - 1 = 2 /\ 4 - 1 = 3 /\ 5 - 1 = 4
        OBVIOUS
      <4>3. G[rank] = G[rank - 1] \cup Ranked(rank, G[rank - 1])
        BY <2>1, <4>1, <4>2, Zenon
      <4> QED
        BY <4>1, <4>3
    <3> QED
      BY <3>1, <3>2, <3>3
  <2>3. DOMAIN G = 0..5 /\ G = [rank \in 0..5 |-> G[rank]]
    BY DEF G
  <2> QED
    BY <1>2, <2>2, <2>3 DEF c0
<1> HIDE DEF G
<1>4. Converted = Body(Converted)
  BY <1>1, <1>3
<1> QED
  BY <1>2, <1>4

\* A Quadlet is one by its extension.
LEMMA QuadletIs ==
  ASSUME ResolveInv, CompleteInv, run.pc = "analyze", NEW f \in Quadlets
  PROVE  /\ f \in run.out /\ f.src \in DOMAIN F.tree /\ F.tree[f.src].unit # ""
         /\ f.category = F.tree[f.src].ext /\ f.category \in QuadletExtensions
<1>1. f \in run.out /\ Dest(f.category) = "quadlet" /\ F.tree[f.src].unit # ""
  BY DEF Quadlets
<1>2. Expands /\ F \in Fleets /\ FleetWellFormed(F)
  BY ResolverAssumption DEF ResolveInv, Shape, Finishing
<1>3. RefBuilt(f) \in Assigned
  BY <1>1 DEF CompleteInv, BuiltOnce, Built, Finishing
<1>4. RefBuilt(f).src = f.src /\ RefBuilt(f).category = f.category
  BY DEF RefBuilt, FileRef
<1>5. f.category # "secret"
  BY <1>1 DEF Dest
<1>6. /\ f.category \in Categories /\ f.src \in DOMAIN F.tree
      /\ f.category = CategoryForPath(F.tree[f.src], TRUE)
  BY <1>2, <1>3, <1>4, <1>5, ExpandedRef DEF Expands, Assigned
<1> DEFINE file == F.tree[f.src]
<1>7. file.named = {}
  <2> SUFFICES ASSUME file.named # {}
               PROVE  FALSE
    OBVIOUS
  <2> DEFINE n == CHOOSE x \in file.named : TRUE
  <2>1. n \in {"manifests", "files", "secrets"}
    BY <1>2, <1>6 DEF FleetWellFormed, SegmentCategory
  <2>2. f.category \in {"none", SegmentCategory[n]}
    BY <1>6 DEF CategoryForPath
  <2> HIDE DEF n
  <2>3. SegmentCategory[n] \in {"manifest", "file", "secret"}
    BY <2>1 DEF SegmentCategory
  <2>4. f.category \in {"manifest", "file", "secret"}
    BY <1>6, <2>2, <2>3, RowsAre
  <2> QED
    BY <1>1, <2>4 DEF Dest
<1>8. f.category = CategoryForExtension(file.ext)
  BY <1>6, <1>7, FS_EmptySet DEF CategoryForPath
<1>9. f.category \notin {"systemd", "none"}
  BY <1>1, <1>6, RowsAre DEF Dest
<1> QED
  BY <1>1, <1>6, <1>8, <1>9 DEF CategoryForExtension

\* A later rank knows what an earlier one does.
LEMMA ConvertedGrows ==
  /\ Converted[0] \subseteq UnitsInfo /\ Converted[1] \subseteq UnitsInfo
  /\ Converted[2] \subseteq UnitsInfo /\ Converted[0] \subseteq Converted[1]
<1>1. \A rank \in 1..5 : Converted[rank - 1] \subseteq Converted[rank]
  BY ConvertedIs
<1>2. 1 - 1 = 0 /\ 2 - 1 = 1 /\ 3 - 1 = 2 /\ 4 - 1 = 3 /\ 5 - 1 = 4
  OBVIOUS
<1>3. /\ Converted[0] \subseteq Converted[1] /\ Converted[1] \subseteq Converted[2]
      /\ Converted[2] \subseteq Converted[3] /\ Converted[3] \subseteq Converted[4]
      /\ Converted[4] \subseteq Converted[5]
  BY <1>1, <1>2
<1> QED
  BY <1>3 DEF UnitsInfo

\* What the conversion of a unit of each category adds.
LEMMA RankAdds ==
  ASSUME NEW q \in Quadlets
  PROVE  /\ q.category \in Prefill => F.tree[q.src].dest \in Converted[0]
         /\ q.category = "image" /\ Uses(q) \subseteq Converted[0]
              => F.tree[q.src].dest \in Converted[1]
         /\ q.category \in {"network", "volume"} /\ Uses(q) \subseteq Converted[1]
              => F.tree[q.src].dest \in Converted[2]
<1>1. \A files : q \in files => F.tree[q.src].dest \in Names(files)
  BY DEF Names
<1>2. Converted[0] = PrefilledOnly
  BY ConvertedIs
<1>3. 1 \in 1..5 /\ 2 \in 1..5 /\ 1 - 1 = 0 /\ 2 - 1 = 1
  OBVIOUS
<1>4. Converted[1] = Converted[0] \cup Ranked(1, Converted[0])
  BY <1>3, ConvertedIs
<1>5. Converted[2] = Converted[1] \cup Ranked(2, Converted[1])
  BY <1>3, ConvertedIs
<1>6. CASE q.category \in Prefill
  BY <1>1, <1>2, <1>6 DEF PrefilledOnly, Prefill
<1>7. CASE q.category = "image" /\ Uses(q) \subseteq Converted[0]
  <2>1. ConvertOrder[q.category] = 1 /\ q.category \in PreConvert
    BY <1>7 DEF ConvertOrder, PreConvert
  <2> QED
    BY <1>1, <1>4, <1>7, <2>1 DEF Ranked, Prefill
<1>8. CASE q.category \in {"network", "volume"} /\ Uses(q) \subseteq Converted[1]
  <2>1. ConvertOrder[q.category] = 2 /\ q.category \in PreConvert
    BY <1>8 DEF ConvertOrder, PreConvert
  <2> QED
    BY <1>1, <1>5, <1>8, <2>1 DEF Ranked, Prefill
<1> QED
  BY <1>6, <1>7, <1>8

\* What a Quadlet may name is converted before it.
LEMMA NamedIsConverted ==
  ASSUME ResolveInv, CompleteInv, run.pc = "analyze",
         NEW f \in Quadlets, NEW g \in Quadlets,
         F.tree[g.src].dest \in Uses(f), Supported(g.category),
         Uses(g) \subseteq Names({q \in Quadlets : Supported(q.category)})
  PROVE  F.tree[g.src].dest \in UnitsInfo
<1>1. UnitsWellFormed(F)
  BY ValidatorAssumption DEF ResolveInv, Shape
<1>2. \A q \in Quadlets : /\ q.src \in DOMAIN F.tree /\ q.category = F.tree[q.src].ext
                          /\ q.category \in QuadletExtensions
  BY QuadletIs
<1>3. g.category \in {"network", "volume", "image", "build", "container", "kube", "pod"}
  BY <1>2, RowsAre DEF QuadletExtensions, Dest, Supported
<1>4. ASSUME NEW p \in Quadlets, NEW q \in Quadlets, F.tree[q.src].dest \in Uses(p)
      PROVE  /\ q.category # "kube" /\ p.category \notin {"network", "image"}
             /\ p.category = "volume" => q.category \in {"image", "build"}
  <2> DEFINE file == F.tree[p.src]
             other == F.tree[q.src]
  <2>1. /\ p.src \in DOMAIN F.tree /\ p.category = file.ext
        /\ q.src \in DOMAIN F.tree /\ q.category = other.ext
        /\ q.category \in QuadletExtensions
    BY <1>2
  <2>2. file.ext \in {"network", "image"} => file.uses = {}
    BY <1>1, <2>1 DEF UnitsWellFormed
  <2>3. other.ext \in QuadletExtensions /\ other.dest \in file.uses =>
           /\ other.ext # "kube"
           /\ file.ext = "volume" => other.ext \in {"image", "build"}
    BY <1>1, <2>1 DEF UnitsWellFormed
  <2>4. other.dest \in file.uses
    BY <1>4 DEF Uses
  <2> QED
    BY <2>1, <2>2, <2>3, <2>4
<1>5. ASSUME NEW q \in Quadlets, q.category \in {"network", "image"}
      PROVE  Uses(q) = {}
  BY <1>1, <1>2, <1>5 DEF UnitsWellFormed, Uses
<1>6. g.category # "kube"
  BY <1>4
<1>7. CASE g.category \in Prefill
  BY <1>7, RankAdds, ConvertedGrows
<1>8. CASE g.category \in {"network", "image"}
  BY <1>5, <1>8, RankAdds, ConvertedGrows
<1>9. CASE g.category = "volume"
  <2>1. ASSUME NEW name \in Uses(g)
        PROVE  name \in Converted[1]
    <3>1. PICK q \in Quadlets : name = F.tree[q.src].dest
      BY DEF Names
    <3>2. q.category \in {"image", "build"}
      BY <1>4, <1>9, <3>1
    <3> QED
      BY <1>5, <3>1, <3>2, RankAdds, ConvertedGrows DEF Prefill
  <2> QED
    BY <1>9, <2>1, RankAdds, ConvertedGrows
<1> QED
  BY <1>3, <1>6, <1>7, <1>8, <1>9 DEF Prefill

LEMMA CrossReferencesAre ==
  ASSUME ResolveInv, CompleteInv
  PROVE  CrossReferencesConvert
<1> SUFFICES ASSUME run.pc = "analyze", NEW f \in Quadlets,
                    \A q \in {f} \cup {g \in Quadlets : F.tree[g.src].dest \in Uses(f)} :
                      Uses(q) \subseteq Names({g \in Quadlets : Supported(g.category)})
             PROVE  QuadletClass(f) # "conversion"
  BY DEF CrossReferencesConvert
<1>1. ASSUME NEW name \in Uses(f)
      PROVE  name \in UnitsInfo
  <2>1. PICK g \in Quadlets : Supported(g.category) /\ name = F.tree[g.src].dest
    BY DEF Names
  <2>2. Uses(g) \subseteq Names({q \in Quadlets : Supported(q.category)})
    BY <2>1
  <2> QED
    BY <2>1, <2>2, NamedIsConverted
<1> QED
  BY <1>1 DEF QuadletClass

\* A directory of the data directories stays one below, and is known.
LEMMA OwnsBelow ==
  ASSUME NEW dir \in Seq(STRING), NEW below \in Seq(STRING), Owns(dir)
  PROVE  Owns(dir \o below) /\ dir # Unknown /\ dir \o below # Unknown
<1>1. PICK sub \in {"files", "manifests"} : IsPrefix(Append(HostDataDir, sub), dir)
  BY DEF Owns
<1> DEFINE data == Append(HostDataDir, sub)
<1>2. data \in Seq({"data", sub}) /\ Len(data) = 2
  BY DEF HostDataDir
<1> HIDE DEF data
<1>3. Len(dir) >= 2 /\ SubSeq(data, 1, 2) = SubSeq(dir, 1, 2)
  BY <1>1, <1>2 DEF IsPrefix, data
<1>4. dir \o below \in Seq(STRING) /\ Len(dir \o below) >= 2
  BY <1>3
<1>5. SubSeq(dir \o below, 1, 2) = SubSeq(dir, 1, 2)
  BY <1>3
<1>6. IsPrefix(Append(HostDataDir, sub), dir \o below)
  BY <1>2, <1>3, <1>4, <1>5 DEF IsPrefix, data
<1>7. Owns(dir \o below)
  BY <1>6 DEF Owns
<1>8. Len(Unknown) = 1
  BY DEF Unknown
<1>9. Len(dir) # 1 /\ Len(dir \o below) # 1
  BY <1>3, <1>4
<1>10. dir # Unknown /\ dir \o below # Unknown
  BY <1>8, <1>9, Zenon
<1> QED
  BY <1>7, <1>10

\* A relative File= is tried in the directory an explicit WorkingDirectory=
\* names, and nowhere else, whatever SetWorkingDirectory= says.
LEMMA RelativeFileTried ==
  ASSUME NEW u, IsAbs(u.workDir), Owns(u.workDir.at), u.file.kind = "rel",
         u.setWorkDir.kind \in {"none", "file", "unit", "rel"},
         u.file.at \in Seq(STRING), u.workDir.at \in Seq(STRING)
  PROVE  LET p == ResolveBuild(u, UnitDir) IN
         p.complete /\ p.files = {u.workDir.at \o u.file.at}
<1> DEFINE work == u.workDir
           at   == work.at \o u.file.at
           wd   == WorkingDirectory(u, UnitDir)
           arg  == ContextArg(u, wd)
           p    == WithContext(u.file, arg, wd.dir)
<1>1. work # NoValue /\ u.file # NoValue
  BY DEF IsAbs, NoValue, Value
<1>2. wd = [context |-> NoValue, dir |-> work]
  BY <1>1 DEF WorkingDirectory, WorkDirOr, IsAbs, IsQuadletURL
<1>3. arg = work
  BY <1>1, <1>2 DEF ContextArg, IsAbs, IsQuadletURL
<1>4. /\ work.at # Unknown /\ at # Unknown
  BY OwnsBelow
<1>5. AbsPath(arg, wd.dir) = work.at /\ AbsPath(u.file, wd.dir) = at
  <2>1. wd.dir = work
    BY <1>2
  <2> HIDE DEF arg, wd
  <2>2. /\ ~HasSpecifier(u.file) /\ ~IsAbs(u.file)
        /\ ~HasSpecifier(work) /\ IsAbs(work)
    BY DEF IsAbs, HasSpecifier
  <2> QED
    BY <1>3, <2>1, <2>2 DEF AbsPath
<1>6. ~ReadsElsewhere(arg) /\ ~ReadsElsewhere(u.file) /\ ~HasSpecifier(u.file) /\ ~IsAbs(u.file)
  BY <1>3 DEF ReadsElsewhere, HasSpecifier, IsAbs
<1>7. p = Paths(work.at, {at}, TRUE)
  <2> HIDE DEF arg, wd
  <2>1. ({at} \ {Unknown}) \cup {at} = {at}
    OBVIOUS
  <2> QED
    BY <1>1, <1>4, <1>5, <1>6, <2>1 DEF WithContext
<1>8. arg # NoValue
  BY <1>1, <1>3
<1>9. ResolveBuild(u, UnitDir) = [p EXCEPT !.named = wd.context # NoValue /\ p.context # Unknown]
  BY <1>8 DEF ResolveBuild
<1> HIDE DEF p
<1> QED
  BY <1>7, <1>9 DEF Paths

\* A file that is in order reads a build's files from where they are.
LEMMA BuildIsChecked ==
  ASSUME NEW f, f.category = "build", AnalyzeFile(f) = NoErr
  PROVE  ~MissesContainerfile(F.tree[f.src].build, ResolveBuild(F.tree[f.src].build, UnitDir))
<1>1. \A c : c # "none" => Err(c) # NoErr
  BY ErrorsDiffer
<1>2. ~(ContentCheck(f) # "ok")
  <2>1. [class |-> "invalid", quotes |-> f.content] # NoErr
    BY DEF NoErr
  <2> QED
    BY <1>1, <2>1 DEF AnalyzeFile, Supported
<1>3. ~(Dest(f.category) = "quadlet" /\ QuadletClass(f) # "ok")
  <2>1. QuadletClass(f) # "none"
    BY DEF QuadletClass
  <2> QED
    BY <1>1, <1>2, <2>1 DEF AnalyzeFile, Supported
<1>4. ChecksBuild(F.tree[f.src].build, ResolveBuild(F.tree[f.src].build, UnitDir))
  BY <1>1, <1>2, <1>3 DEF AnalyzeFile, Supported
<1> QED
  BY <1>4 DEF ChecksBuild

\* A build is a file of the tree, with paths in its unit.
LEMMA BuildIs ==
  ASSUME ResolveInv, CompleteInv, run.pc = "analyze", NEW f \in run.out, f.category = "build"
  PROVE  LET u == F.tree[f.src].build IN {u.file.at, u.workDir.at} \subseteq Seq(STRING)
<1>1. Expands /\ F \in Fleets /\ FleetWellFormed(F) /\ UnitsWellFormed(F)
  BY ResolverAssumption, ValidatorAssumption DEF ResolveInv, Shape, Finishing
<1>2. RefBuilt(f) \in Assigned
  BY DEF CompleteInv, BuiltOnce, Built, Finishing
<1>3. RefBuilt(f).src = f.src /\ RefBuilt(f).category = "build"
  BY DEF RefBuilt, FileRef
<1>4. f.src \in DOMAIN F.tree
  BY <1>1, <1>2, <1>3, ExpandedRef DEF Expands, Assigned
<1> QED
  BY <1>1, <1>4 DEF UnitsWellFormed

\* What analyze lets pass has its builds' files in place.
LEMMA BuildsFoundByAnalyze ==
  ASSUME ResolveInv, CompleteInv, F' = F, Analyze
  PROVE  BuildsFound'
<1>1. run.pc = "analyze" /\ DOMAIN run = Fields
  BY DEF Analyze, Done, ResolveInv, Shape
<1>2. SUFFICES ASSUME run'.pc = "done", ~Strict'
               PROVE  BuildsFound'
  BY DEF BuildsFound, Finished
<1>3. \A e : ~Fail(e)
  BY <1>1, <1>2 DEF Fail, Fields
<1>4. run' = [run EXCEPT !.pc = "done"]
  BY <1>3 DEF Analyze
<1>5. run'.out = run.out /\ run'.mode = run.mode
  BY <1>1, <1>4 DEF Fields
<1>6. FileErrors = {}
  BY <1>2, <1>3, <1>5 DEF Analyze, Strict
<1>7. ASSUME NEW f \in run.out, f.category = "build",
             IsAbs(F.tree[f.src].build.workDir), Owns(F.tree[f.src].build.workDir.at),
             F.tree[f.src].build.file.kind = "rel",
             F.tree[f.src].build.setWorkDir.kind \in {"none", "file", "unit", "rel"}
      PROVE  F.tree[f.src].build.workDir.at \o F.tree[f.src].build.file.at \in DataFiles
  <2> DEFINE u == F.tree[f.src].build
             p == ResolveBuild(u, UnitDir)
             at == u.workDir.at \o u.file.at
  <2>1. u.file.at \in Seq(STRING) /\ u.workDir.at \in Seq(STRING)
    BY <1>1, <1>7, BuildIs
  <2>2. p.complete /\ p.files = {at}
    BY <1>7, <2>1, RelativeFileTried
  <2>3. ~MissesContainerfile(u, p)
    BY <1>6, <1>7, BuildIsChecked DEF FileErrors
  <2>4. u.file # NoValue
    <3>1. NoValue.kind = "none"
      BY DEF NoValue, Value
    <3>2. u.file.kind = "rel"
      BY <1>7
    <3> HIDE DEF u
    <3> QED
      BY <3>1, <3>2
  <2>5. Owns(at)
    BY <1>7, <2>1, OwnsBelow
  <2> HIDE DEF u, p, at
  <2>6. at \in DataFiles
    BY <2>2, <2>3, <2>4, <2>5 DEF MissesContainerfile
  <2> QED
    BY <2>6 DEF at, u
<1>8. DataFiles' = DataFiles
  BY <1>5 DEF DataFiles
<1> QED
  BY <1>5, <1>7, <1>8 DEF BuildsFound

\* No other step makes a resolve done.
LEMMA BuildsFoundKept ==
  ASSUME BuildsFound, run'.pc # "done" \/ (F' = F /\ run' = run)
  PROVE  BuildsFound'
  BY DEF BuildsFound, Finished, Strict, DataFiles

LEMMA BuildsFoundNext ==
  ASSUME ResolveInv, CompleteInv, BuildsFound, [Next]_vars
  PROVE  BuildsFound'
<1>1. CASE UNCHANGED vars
  BY <1>1, BuildsFoundKept DEF vars
<1>2. CASE Analyze
  BY <1>2, BuildsFoundByAnalyze DEF Analyze, Unchanging
<1>3. CASE LoadFleet \/ ValidateSOPSFiles \/ \E ref \in Vaults : Rotate(ref)
  BY <1>3, BuildsFoundKept DEF LoadFleet, ValidateSOPSFiles, Rotate
<1>4. \A mode, host, set : Begun(mode, host, set).pc = "expand" /\ Idle.pc = "idle"
  BY DEF Begun, Idle
<1>5. CASE \/ Tell \/ AgentEnds
           \/ \E h \in Hosts : ValidateHost(h) \/ ValidateAgentBundle(h)
           \/ \E h \in Hosts : AgentResolves(F.hosts[h].hostname)
  <2>1. run'.pc # "done"
    BY <1>4, <1>5 DEF Tell, AgentEnds, ValidateHost, ValidateAgentBundle, AgentResolves
  <2> QED
    BY <2>1, BuildsFoundKept
<1>6. DOMAIN run = Fields
  BY DEF ResolveInv, Shape
<1>7. \A e : Fail(e) => run'.pc = "failed"
  BY <1>6 DEF Fail, Fields
<1>8. CASE ExpandAndValidate \/ BuildHooks
  <2>1. run'.pc # "done"
    BY <1>6, <1>7, <1>8 DEF ExpandAndValidate, BuildHooks, Fields
  <2> QED
    BY <2>1, BuildsFoundKept
<1>9. CASE Collect \/ ResolveCache \/ ResolveDirectSecrets
  <2>1. run'.pc # "done"
    <3>1. CASE Collect
      BY <1>6, <3>1 DEF Collect, CollectFrom, Fields
    <3>2. \A s, refs : DOMAIN Reads(s, refs) = Fields
      BY <1>6 DEF Reads
    <3>3. CASE ResolveCache
      <4>1. ASSUME NEW scheme, NEW from, NEW to, to # "done", ResolveCacheOf(scheme, from, to)
            PROVE  run'.pc # "done"
        <5>1. PICK read : read = Reads(scheme, RefsOf(run.pending, scheme))
          OBVIOUS
        <5>2. DOMAIN read = Fields
          BY <3>2, <5>1
        <5>3. \/ \E class : run' = [read EXCEPT !.pc = "failed", !.err = Err(class)]
              \/ \E cache, resolved :
                   run' = [read EXCEPT !.cache = cache, !.resolved = resolved, !.pc = to]
          BY <4>1, <5>1 DEF ResolveCacheOf
        <5> QED
          BY <4>1, <5>2, <5>3 DEF Fields
      <4> QED
        BY <3>3, <4>1 DEF ResolveCache
    <3>4. CASE ResolveDirectSecrets
      <4>1. ASSUME NEW scheme, NEW from, NEW to, to # "done", ResolveDirect(scheme, from, to)
            PROVE  run'.pc # "done"
        <5>1. PICK read : read = Reads(scheme, DirectRefs(scheme))
          OBVIOUS
        <5>2. DOMAIN read = Fields
          BY <3>2, <5>1
        <5>3. \/ run' = [run EXCEPT !.pc = to]
              \/ \E e : Fail(e)
              \/ \E class : run' = [read EXCEPT !.pc = "failed", !.err = Err(class)]
              \/ \E direct : run' = [read EXCEPT !.direct = direct, !.given = TRUE, !.pc = to]
          BY <4>1, <5>1, Zenon DEF ResolveDirect
        <5>4. CASE run' = [run EXCEPT !.pc = to]
          BY <1>6, <4>1, <5>4 DEF Fields
        <5> QED
          BY <1>7, <4>1, <5>2, <5>3, <5>4 DEF Fields
      <4> QED
        BY <3>4, <4>1 DEF ResolveDirectSecrets
    <3> QED
      BY <1>9, <3>1, <3>3, <3>4
  <2> QED
    BY <2>1, BuildsFoundKept
<1>10. CASE BuildFile
  <2>1. run.pc = "build"
    BY <1>10 DEF BuildFile, Done
  <2>2. run'.pc # "done"
    <3>1. PICK ref \in {Next1(run.todo)} :
             BuildDirect(ref) \/ \E down \in Down : BuildRendered(ref, Render(ref, down), down)
      BY <1>10 DEF BuildFile
    <3>2. CASE BuildDirect(ref)
      BY <1>6, <2>1, <3>2 DEF BuildDirect, Fields
    <3>3. ASSUME NEW down \in Down, BuildRendered(ref, Render(ref, down), down)
          PROVE  run'.pc # "done"
      <4> DEFINE st == Render(ref, down)
      <4>1. BuildRendered(ref, st, down)
        BY <3>3
      <4> HIDE DEF st
      <4> QED
        BY <1>6, <2>1, <4>1 DEF BuildRendered, Fields
    <3> QED
      BY <3>1, <3>2, <3>3
  <2> QED
    BY <2>2, BuildsFoundKept
<1> QED
  BY <1>1, <1>2, <1>3, <1>5, <1>8, <1>9, <1>10 DEF Next, ResolveStep

\* A unit finds what it names: however a resolve orders its files, Quadlets
\* that name only units of the resolve are converted, and a build that runs in
\* a directory the Fleet delivers finds its Containerfile there once its Host's
\* files passed.
THEOREM ReferencesAlwaysFound == Spec => []ReferencesFound
<1> DEFINE Inv == ResolveInv /\ CompleteInv /\ BuildsFound
<1>1. Init => Inv
  <2>1. ASSUME Init
        PROVE  BuildsFound
    <3>1. run.pc = "idle"
      BY <2>1 DEF Init, Idle
    <3> QED
      BY <3>1 DEF BuildsFound, Finished
  <2> QED
    BY <2>1, ResolveInit, CompleteInit
<1>2. Inv /\ [Next]_vars => Inv'
  BY ResolveNext, CompleteNext, BuildsFoundNext
<1>3. Inv => ReferencesFound
  BY CrossReferencesAre DEF ReferencesFound
<1> QED
  BY <1>1, <1>2, <1>3, PTL DEF Spec

-----------------------------------------------------------------------------
(* What validate accepts of a Host, without a resolve of it.                *)

HostSet(h)   == Resolve(F, F.hosts[h])
HostFiles(h) == Expand(F, HostSet(h))

\* The keyless read of a ref for a Host.
KeylessRead(h, ref, data, direct) ==
  IF SopsRefClass(ref) # "ok" THEN Failed(SopsRefClass(ref))
  ELSE Keyless(FileAt(F.refs[ref].path), AgeRecipients(F.hosts[h]),
               [path |-> ref, ptr |-> F.refs[ref].ptr], data, direct)

KeylessCall(h, c) == KeylessRead(h, c.arg, c.fn = "readSopsData", FALSE)

SopsCall(c) == c.fn \in ProviderFns /\ SchemeOf(c.fn) = "sops"

\* A call validate lets pass.
CallPasses(h, c, guarded) ==
  /\ c.fn # "fails"
  /\ c.fn \in ProviderFns => ~guarded
  /\ SopsCall(c) => ~c.built /\ IsRefOf("sops", c.arg) /\ IsOk(KeylessCall(h, c))

\* The calls that rendering src makes, once the Host's units are known or not.
SrcCalls(src) == IF Template(src) THEN Range(Flat(F, src, Templates)) ELSE {}
MadeIn(src, units) == {c \in SrcCalls(src) : c.when = "units" => units}

FilePasses(h, src, guarded, units) == \A c \in MadeIn(src, units) : CallPasses(h, c, guarded)

\* A call that renders more than nothing.
RendersText(h, c) == SopsCall(c) => KeylessCall(h, c).value # Blank
HoldsText(h, src, units) == Template(src) => \E c \in MadeIn(src, units) : RendersText(h, c)

\* The secret files of the Host that rendering src reads are there.
FilesThere(src, units) ==
  \A c \in MadeIn(src, units) : c.fn = "readSecretFile" => IsOk(SecretFile(c.arg))

\* The units of a Host that any resolve of it finds.
NamesUnit(h, r) ==
  \/ UnitNaming(r.category) = "file"
  \/ /\ UnitNaming(r.category) = "generated" /\ F.tree[r.src].unit # ""
     /\ FilePasses(h, r.src, TRUE, FALSE)
HasUnits(h) == \E r \in HostFiles(h) : NamesUnit(h, r)

\* An Agent reads what the keyless Reader accepts, and blank as blank.
LEMMA KeylessReadIsRead ==
  ASSUME F \in Fleets, run.mode = "agent",
         AgeRecipients(F.hosts[run.host]) \subseteq Agent.ids,
         NEW ref \in DOMAIN F.refs, NEW data \in BOOLEAN, NEW direct \in BOOLEAN,
         IsOk(KeylessRead(run.host, ref, data, direct))
  PROVE  /\ Agent.ids # {}
         /\ ReadSops(ref, data, direct).class \in {"ok", "edited"}
         /\ IsOk(ReadSops(ref, data, direct)) =>
              /\ ReadSops(ref, data, direct).value = Blank
                   <=> KeylessRead(run.host, ref, data, direct).value = Blank
              /\ direct => ReadSops(ref, data, direct).value # Blank
<1> DEFINE f == FileAt(F.refs[ref].path)
           rs == AgeRecipients(F.hosts[run.host])
           r == [path |-> ref, ptr |-> F.refs[ref].ptr]
           keyless == KeylessRead(run.host, ref, data, direct)
           read == ReadSops(ref, data, direct)
<1>1. SopsRefClass(ref) = "ok" /\ keyless = Keyless(f, rs, r, data, direct)
  BY DEF KeylessRead, Failed, IsOk
<1>2. read = Decrypted(f, Agent.ids, r, data, direct)
  BY <1>1 DEF ReadSops, WithoutKey
<1>3. IsFile(f)
  <2>1. CASE F.refs[ref].path \in DOMAIN F.files
    BY <2>1, ValidatorAssumption DEF FileAt
  <2>2. CASE F.refs[ref].path \notin DOMAIN F.files
    <3>1. f.groups = << >> /\ f.needs = 0
      BY <2>2 DEF FileAt
    <3> QED
      BY <3>1 DEF IsFile
  <2> QED
    BY <2>1, <2>2
<1> HIDE DEF f, r, rs, keyless, read
<1>4. IsOk(Keyless(f, rs, r, data, direct)) /\ rs \subseteq Agent.ids
  BY <1>1 DEF keyless, rs
<1>5. read.class \in {"ok", "edited"}
  BY <1>2, <1>3, <1>4, KeylessAcceptedIsRead
<1>6. keyless = NotEmpty(direct, Node(f, r, Stub(r.path), data)) /\ rs # {}
  BY <1>1, <1>4 DEF Keyless, ForHost, HostClass, Failed, IsOk
<1>7. IsOk(read) => read = NotEmpty(direct, Node(f, r, Secret(r.path, 0), data))
  BY <1>2 DEF Decrypted, Failed, IsOk
<1> QED
  BY <1>4, <1>5, <1>6, <1>7, SameNode DEF keyless, read

-----------------------------------------------------------------------------
(* Rendering once no ref is collected any more, or where none may be: what  *)
(* each call that is made comes to.                                         *)

Settled(guarded) == guarded \/ run.resolved = SchemeSet

\* What call c comes to after last.
Outcome(c, last, guarded, down) ==
  LET scheme == SchemeOf(c.fn)  ref == RefOf(c, last) IN
  IF c.fn \in ProviderFns
  THEN IF guarded                       THEN Failed("unitFile")
       ELSE IF Strict                   THEN Failed("strict")
       ELSE IF ~HasReader(scheme)
       THEN IF scheme = "sops" THEN Failed("noIdentity") ELSE Got(Empty(scheme))
       ELSE IF ~IsRefOf(scheme, ref)    THEN Failed("notARef")
       ELSE IF c.fn # "readSopsData" /\ Cached(ref) THEN Got(run.cache[ref])
       ELSE Read(scheme, ref, c.fn = "readSopsData", down)
  ELSE IF c.fn = "readSecretFile"       THEN SecretFile(c.arg)
  ELSE IF c.fn = "fails"                THEN Failed("template")
  ELSE Got(Plain("text"))

\* st after a call that came to o.
Comes(st, new, o) ==
  /\ DOMAIN new = Progress
  /\ IsOk(o)  => new.err = st.err /\ new.last = o.value /\ new.content = st.content \cup {o.value}
  /\ ~IsOk(o) => new.err = Err(o.class)

LEMMA RenderedComes ==
  ASSUME NEW st, DOMAIN st = Progress, NEW o, IsOk(o)
  PROVE  Comes(st, Rendered(st, o.value), o)
BY DEF Comes, Rendered, Progress

LEMMA FailedComes ==
  ASSUME NEW st, DOMAIN st = Progress, NEW o, ~IsOk(o)
  PROVE  Comes(st, [st EXCEPT !.err = Err(o.class)], o)
BY DEF Comes, Progress

LEMMA ReadNowComes ==
  ASSUME NEW st, DOMAIN st = Progress, NEW c, NEW ref, NEW down
  PROVE  Comes(st, ReadNow(st, c, ref, down),
               Read(SchemeOf(c.fn), ref, c.fn = "readSopsData", down))
<1> DEFINE o == Read(SchemeOf(c.fn), ref, c.fn = "readSopsData", down)
           asked == Asked(st, SchemeOf(c.fn), ref)
<1>1. /\ DOMAIN asked = Progress /\ asked.err = st.err /\ asked.content = st.content
  BY DEF Asked, Progress
<1>2. ReadNow(st, c, ref, down) = Take(asked, c, ref, o)
  BY DEF ReadNow
<1>3. \A class : DynamicRefError(class, c, asked.last) = Err(class)
  BY DEF DynamicRefError, Err
<1> HIDE DEF o, asked
<1>4. CASE IsOk(o)
  <2>1. Comes(asked, Rendered(asked, o.value), o)
    BY <1>1, <1>4, RenderedComes
  <2> QED
    BY <1>1, <1>2, <1>4, <2>1 DEF Take, Comes, o
<1>5. CASE ~IsOk(o)
  <2>1. Comes(asked, [asked EXCEPT !.err = Err(o.class)], o)
    BY <1>1, <1>5, FailedComes
  <2>2. Take(asked, c, ref, o) = [asked EXCEPT !.err = Err(o.class)]
    BY <1>3, <1>5 DEF Take
  <2> QED
    BY <1>2, <1>5, <2>1, <2>2 DEF Comes, o
<1> QED
  BY <1>4, <1>5

LEMMA ApplyComes ==
  ASSUME NEW st, DOMAIN st = Progress, st.err = NoErr, NEW guarded, Settled(guarded),
         NEW c, Made(c, st), NEW down
  PROVE  Comes(st, Apply(st, c, guarded, down), Outcome(c, st.last, guarded, down))
<1> DEFINE o == Outcome(c, st.last, guarded, down)
           new == Apply(st, c, guarded, down)
           ref == RefOf(c, st.last)
           class == CallClass(c, ref, guarded)
           counted == Counted(st, c)
<1>1. CASE c.fn \in ProviderFns
  <2>1. new = ClassedCall(counted, c, ref, class, down)
    BY <1>1 DEF Apply, ProviderCall, ProviderFns
  <2>2. /\ DOMAIN counted = Progress /\ counted.err = st.err /\ counted.content = st.content
        /\ counted.last = st.last
    BY DEF Counted, Progress
  <2>3. \A x, p : Comes(counted, x, p) <=> Comes(st, x, p)
    BY <2>2 DEF Comes
  <2> HIDE DEF counted, ref
  <2>4. CASE class = "ready"
    <3>1. /\ ~guarded /\ ~Strict /\ HasReader(SchemeOf(c.fn)) /\ IsRefOf(SchemeOf(c.fn), ref)
      BY <2>4 DEF CallClass
    <3>2. SchemeOf(c.fn) \in run.resolved
      BY <3>1 DEF Settled, SchemeOf, SchemeSet
    <3>3. new = ReadyCall(counted, c, ref, down)
      BY <2>1, <2>4 DEF ClassedCall
    <3>4. CASE c.fn # "readSopsData" /\ Cached(ref)
      <4>1. o = Got(run.cache[ref])
        BY <1>1, <3>1, <3>4 DEF Outcome, ref
      <4>2. new = Rendered(counted, run.cache[ref])
        BY <3>2, <3>3, <3>4 DEF ReadyCall
      <4>3. IsOk(o) /\ o.value = run.cache[ref]
        BY <4>1 DEF Got, IsOk
      <4> HIDE DEF o, new
      <4> QED
        BY <2>2, <2>3, <4>2, <4>3, RenderedComes DEF o, new
    <3>5. CASE ~(c.fn # "readSopsData" /\ Cached(ref))
      <4>1. o = Read(SchemeOf(c.fn), ref, c.fn = "readSopsData", down)
        BY <1>1, <3>1, <3>5 DEF Outcome, ref
      <4> DEFINE plain == [counted EXCEPT !.data = @ \cup {}]
      <4>2. new = ReadNow(plain, c, ref, down)
        BY <3>2, <3>3, <3>5 DEF ReadyCall
      <4>3. DOMAIN plain = Progress /\ plain.err = counted.err /\ plain.content = counted.content
        BY <2>2 DEF Progress
      <4> HIDE DEF o, new, plain
      <4>4. Comes(plain, new, o)
        BY <4>1, <4>2, <4>3, ReadNowComes
      <4> QED
        BY <2>3, <4>3, <4>4 DEF Comes, o, new
    <3> QED
      BY <3>4, <3>5
  <2>5. CASE class = "empty"
    <3>1. ~guarded /\ ~Strict /\ ~HasReader(SchemeOf(c.fn)) /\ SchemeOf(c.fn) # "sops"
      BY <2>5 DEF CallClass
    <3>2. o = Got(Empty(SchemeOf(c.fn)))
      BY <1>1, <3>1 DEF Outcome
    <3>3. new = Rendered(counted, Empty(SchemeOf(c.fn)))
      BY <2>1, <2>5 DEF ClassedCall
    <3>4. IsOk(o) /\ o.value = Empty(SchemeOf(c.fn))
      BY <3>2 DEF Got, IsOk
    <3> HIDE DEF o, new
    <3> QED
      BY <2>2, <2>3, <3>3, <3>4, RenderedComes DEF o, new
  <2>6. CASE class \notin {"ready", "empty"}
    <3>1. new = [counted EXCEPT !.err = Err(class)]
      BY <2>1, <2>6 DEF ClassedCall
    <3>2. o = Failed(class) /\ class # "ok"
      BY <1>1, <2>6 DEF Outcome, CallClass, ref
    <3>3. ~IsOk(o) /\ o.class = class
      BY <3>2 DEF Failed, IsOk
    <3> HIDE DEF o, new, class
    <3> QED
      BY <2>2, <2>3, <3>1, <3>3, FailedComes DEF o, new
  <2> QED
    BY <2>4, <2>5, <2>6
<1>2. CASE c.fn = "readSecretFile"
  <2>1. o = SecretFile(c.arg) /\ new = TakeFile(st, SecretFile(c.arg))
    BY <1>2 DEF Outcome, Apply, ProviderFns
  <2> HIDE DEF o, new
  <2> QED
    BY <2>1, RenderedComes, FailedComes DEF TakeFile, o, new
<1>3. CASE c.fn = "fails"
  <2>1. o = Failed("template") /\ new = [st EXCEPT !.err = Err("template")]
    BY <1>3 DEF Outcome, Apply, ProviderFns
  <2>2. ~IsOk(o) /\ o.class = "template"
    BY <2>1 DEF Failed, IsOk
  <2> HIDE DEF o, new
  <2> QED
    BY <2>1, <2>2, FailedComes DEF o, new
<1>4. CASE c.fn \notin ProviderFns \cup {"readSecretFile", "fails"}
  <2>1. o = Got(Plain("text")) /\ new = Rendered(st, Plain("text"))
    BY <1>4 DEF Outcome, Apply
  <2>2. IsOk(o) /\ o.value = Plain("text")
    BY <2>1 DEF Got, IsOk
  <2> HIDE DEF o, new
  <2> QED
    BY <2>1, <2>2, RenderedComes DEF o, new
<1> QED
  BY <1>1, <1>2, <1>3, <1>4

\* What the last call rendered: read by now, and no secret without a key.
Known(v) == v.what # "pending" /\ (WithoutKey => v.what # "secret")

LEMMA OutcomeIsKnown ==
  ASSUME FleetWellFormed(F), CacheSound, NEW c, NEW last, NEW guarded, NEW down
  PROVE  LET o == Outcome(c, last, guarded, down) IN o.class # "none" /\ (IsOk(o) => Known(o.value))
<1> DEFINE o == Outcome(c, last, guarded, down)
           scheme == SchemeOf(c.fn)
           ref == RefOf(c, last)
<1>1. \A x, v : /\ Failed(x).class = x /\ Got(v).class = "ok" /\ Got(v).value = v
                /\ (IsOk(Failed(x)) <=> x = "ok")
  BY DEF Failed, Got, IsOk
<1>2. \A v, x, opened : ValueFor(v, x, opened) => Known(v)
  <2>1. \A x : Stub(x).what = "stub"
    BY DEF Stub
  <2> QED
    BY <2>1 DEF ValueFor, HeldOf, IsHeld, SopsValue, Known
<1>3. \A x : Empty(x).what = "empty" /\ Plain(x).what = "plain" /\ HostOnly(x).what = "hostonly"
  BY DEF Empty, Plain, HostOnly
<1>4. CASE c.fn \notin ProviderFns
  BY <1>1, <1>3, <1>4 DEF Outcome, SecretFile, Known
<1>5. CASE c.fn \in ProviderFns /\ ~(~guarded /\ ~Strict /\ HasReader(scheme) /\ IsRefOf(scheme, ref))
  <2> HIDE DEF ref
  <2> QED
    BY <1>1, <1>3, <1>5 DEF Outcome, Known, ref
<1>6. CASE c.fn \in ProviderFns /\ ~guarded /\ ~Strict /\ HasReader(scheme) /\ IsRefOf(scheme, ref)
  <2>1. ref \in DOMAIN F.refs /\ F.refs[ref].scheme = scheme /\ scheme \in SchemeSet
    BY <1>6 DEF IsRefOf, SchemeOf, SchemeSet
  <2>2. CASE c.fn # "readSopsData" /\ Cached(ref)
    <3>1. o = Got(run.cache[ref])
      BY <1>6, <2>2 DEF Outcome, ref
    <3>2. Known(run.cache[ref])
      BY <1>2, <2>2 DEF CacheSound, Cached
    <3> HIDE DEF o, ref
    <3> QED
      BY <1>1, <3>1, <3>2 DEF o
  <2>3. CASE ~(c.fn # "readSopsData" /\ Cached(ref))
    <3>1. o = Read(scheme, ref, c.fn = "readSopsData", down)
      BY <1>6, <2>3 DEF Outcome, ref
    <3>2. (c.fn = "readSopsData") \in BOOLEAN
      OBVIOUS
    <3>3. CASE scheme = "sops"
      <4>1. PICK data \in BOOLEAN : o = ReadSops(ref, data, FALSE)
        BY <3>1, <3>2, <3>3 DEF Read
      <4>2. ReadSops(ref, data, FALSE).class # "none"
        BY <2>1, FailureIsClassed
      <4>3. IsOk(ReadSops(ref, data, FALSE)) =>
               ValueFor(ReadSops(ref, data, FALSE).value, ref, Decrypts({ref}))
        BY <2>1, <3>3, ReadSopsValue
      <4> HIDE DEF o, ref
      <4> QED
        BY <1>2, <4>1, <4>2, <4>3 DEF o
    <3>4. CASE scheme # "sops"
      <4>1. o = ReadVault(ref, down)
        BY <3>1, <3>4 DEF Read
      <4>2. ReadVault(ref, down).class # "none"
        BY <2>1, FailureIsClassed
      <4>3. ~WithoutKey
        BY <1>6, <3>4 DEF HasReader
      <4>4. IsOk(o) => o.value.what = "secret"
        <5>1. \A x, at : Secret(x, at).what = "secret"
          BY DEF Secret
        <5>2. IsOk(o) => o = Got(Secret(ref, vault[ref]))
          BY <4>1 DEF ReadVault, IsOk, Failed
        <5> HIDE DEF o, ref
        <5> QED
          BY <1>1, <5>1, <5>2
      <4> HIDE DEF o, ref
      <4> QED
        BY <4>1, <4>2, <4>3, <4>4 DEF Known, o
    <3> QED
      BY <3>3, <3>4
  <2> QED
    BY <2>2, <2>3
<1> QED
  BY <1>4, <1>5, <1>6

\* What call c may come to in some rendering.
MayCome(c, o, guarded, down) ==
  \E last : Known(last) /\ o = Outcome(c, last, guarded, down)

\* st tells what the calls that were made came to.
Tells(st, made, guarded, down) ==
  /\ st.err = NoErr =>
       /\ \A c \in made : \E o : MayCome(c, o, guarded, down) /\ IsOk(o) /\ o.value \in st.content
       /\ \A v \in st.content :
            \E c \in made : \E o : MayCome(c, o, guarded, down) /\ IsOk(o) /\ o.value = v
  /\ st.err # NoErr =>
       \E c \in made : \E o : MayCome(c, o, guarded, down) /\ ~IsOk(o) /\ st.err = Err(o.class)

Makes(c) == c.when = "units" => run.units # {}

\* st after the calls among made, each known.
Follows(st, made, guarded, down) ==
  DOMAIN st = Progress /\ (st.err = NoErr => Known(st.last)) /\ Tells(st, made, guarded, down)

LEMMA ApplyFollows ==
  ASSUME FleetWellFormed(F), CacheSound, NEW st, NEW made, NEW guarded, Settled(guarded),
         NEW down, NEW c, Follows(st, made, guarded, down),
         NEW more, more = made \cup {d \in {c} : Makes(d)}
  PROVE  Follows(Apply(st, c, guarded, down), more, guarded, down)
<1> DEFINE new == Apply(st, c, guarded, down)
           o == Outcome(c, st.last, guarded, down)
<1>1. /\ DOMAIN st = Progress /\ Tells(st, made, guarded, down)
      /\ st.err = NoErr => Known(st.last)
  BY DEF Follows
<1>2. st.err = NoErr => (Made(c, st) <=> Makes(c))
  <2>1. Pending.what = "pending"
    BY DEF Pending
  <2>2. st.err = NoErr => st.last # Pending
    BY <1>1, <2>1 DEF Known
  <2> QED
    BY <2>2 DEF Made, Makes
<1>3. CASE st.err # NoErr
  <2>1. new = st
    BY <1>3 DEF Apply
  <2>2. Tells(st, more, guarded, down)
    BY <1>1, <1>3 DEF Tells
  <2> QED
    BY <1>1, <2>1, <2>2 DEF Follows
<1>4. CASE st.err = NoErr /\ ~Makes(c)
  <2>1. new = st
    BY <1>2, <1>4 DEF Apply
  <2>2. more = made
    BY <1>4
  <2> QED
    BY <1>1, <2>1, <2>2 DEF Follows
<1>5. CASE st.err = NoErr /\ Makes(c)
  <2>1. Comes(st, new, o)
    BY <1>1, <1>2, <1>5, ApplyComes
  <2>2. MayCome(c, o, guarded, down)
    BY <1>1, <1>5 DEF MayCome
  <2>3. o.class # "none" /\ (IsOk(o) => Known(o.value))
    BY OutcomeIsKnown
  <2>4. more = made \cup {c}
    BY <1>5
  <2> HIDE DEF new, o
  <2>5. CASE IsOk(o)
    <3>1. /\ DOMAIN new = Progress /\ new.err = NoErr /\ new.last = o.value
          /\ new.content = st.content \cup {o.value}
      BY <1>5, <2>1, <2>5 DEF Comes
    <3>2. Tells(new, more, guarded, down)
      BY <1>1, <1>5, <2>2, <2>4, <2>5, <3>1 DEF Tells
    <3> QED
      BY <2>3, <2>5, <3>1, <3>2 DEF Follows, new
  <2>6. CASE ~IsOk(o)
    <3>1. DOMAIN new = Progress /\ new.err = Err(o.class)
      BY <2>1, <2>6 DEF Comes
    <3>2. new.err # NoErr
      BY <2>3, <3>1, ErrorsDiffer
    <3>3. Tells(new, more, guarded, down)
      BY <2>2, <2>4, <2>6, <3>1, <3>2 DEF Tells
    <3> QED
      BY <3>1, <3>2, <3>3 DEF Follows, new
  <2> QED
    BY <2>5, <2>6
<1> QED
  BY <1>3, <1>4, <1>5

\* Rendering a template comes to what its calls come to.
LEMMA RenderOrReadFollows ==
  ASSUME FleetWellFormed(F), MaxDepth \in Nat, CacheSound, ~Strict, NEW src, Template(src),
         NEW guarded, Settled(guarded), NEW down
  PROVE  Follows(RenderOrRead(src, guarded, down), MadeIn(src, run.units # {}), guarded, down)
<1> DEFINE calls == Flat(F, src, Templates)
           k     == Len(calls)
           made(n) == {c \in {calls[i] : i \in 1..n} : Makes(c)}
<1>1. src \in DOMAIN F.tree /\ Templates \subseteq DOMAIN F.tree /\ Loaded = Templates
  BY DEF Template, Loaded, Templates, Strict
<1>2. calls \in Seq(TreeCalls)
  BY <1>1, FlatIsSequence
<1>3. k \in Nat /\ DOMAIN calls = 1..k
  <2> HIDE DEF calls
  <2> QED BY <1>2
<1>4. MadeIn(src, run.units # {}) = made(k)
  BY <1>3 DEF MadeIn, SrcCalls, Range, Makes
<1>5. PICK st : Traces(st, calls, guarded, down)
  <2> HIDE DEF calls
  <2> QED BY <1>3, RenderUnfolds
<1>6. /\ RenderCalls(calls, guarded, down) = st[k]
      /\ st[0] = Fresh
      /\ \A n \in 1..k : st[n] = Apply(st[n - 1], calls[n], guarded, down)
  <2> HIDE DEF calls
  <2> QED BY <1>5 DEF Traces
<1>7. RenderOrRead(src, guarded, down) = st[k]
  BY <1>1, <1>6 DEF RenderOrRead
<1> DEFINE S == {n \in Nat : n <= k => Follows(st[n], made(n), guarded, down)}
<1> HIDE DEF calls, k
<1>8. 0 \in S
  <2>1. /\ DOMAIN Fresh = Progress /\ Fresh.last = Plain("text") /\ Fresh.content = {}
        /\ Fresh.err = NoErr
    BY DEF Fresh, Progress
  <2>2. Plain("text").what = "plain"
    BY DEF Plain
  <2>3. made(0) = {}
    OBVIOUS
  <2> HIDE DEF made
  <2>4. Known(Fresh.last)
    BY <2>1, <2>2 DEF Known
  <2>5. Tells(Fresh, made(0), guarded, down)
    BY <2>1, <2>3 DEF Tells
  <2> QED
    BY <1>6, <2>1, <2>4, <2>5 DEF Follows
<1>9. ASSUME NEW n \in Nat, n \in S
      PROVE  n + 1 \in S
  <2>1. CASE n + 1 <= k
    <3>1. n + 1 \in 1..k /\ (n + 1) - 1 = n /\ n <= k
      BY <1>3, <2>1
    <3>2. Follows(st[n], made(n), guarded, down)
      BY <1>9, <3>1
    <3>3. 1..(n + 1) = (1..n) \cup {n + 1}
      OBVIOUS
    <3>4. made(n + 1) = made(n) \cup {d \in {calls[n + 1]} : Makes(d)}
      BY <3>3
    <3> HIDE DEF made
    <3>5. Follows(Apply(st[n], calls[n + 1], guarded, down), made(n + 1), guarded, down)
      BY <3>2, <3>4, ApplyFollows
    <3> QED
      BY <1>6, <3>1, <3>5
  <2> QED
    BY <2>1
<1>10. Nat \subseteq S
  <2> HIDE DEF S
  <2> QED BY <1>8, <1>9, Induction
<1>11. Follows(st[k], made(k), guarded, down)
  <2> HIDE DEF made
  <2> QED BY <1>3, <1>10
<1> QED
  BY <1>4, <1>7, <1>11

\* A call of a guarded rendering, which reads no provider.
LEMMA GuardCall ==
  ASSUME NEW c, NEW o, NEW down, MayCome(c, o, TRUE, down), NEW h
  PROVE  IsOk(o) <=> /\ CallPasses(h, c, TRUE)
                     /\ c.fn = "readSecretFile" => IsOk(SecretFile(c.arg))
<1>1. PICK last : o = Outcome(c, last, TRUE, down)
  BY DEF MayCome
<1>2. ~IsOk(Failed("unitFile")) /\ ~IsOk(Failed("template")) /\ \A v : IsOk(Got(v))
  BY DEF IsOk, Failed, Got
<1>3. CASE c.fn \in ProviderFns
  BY <1>1, <1>2, <1>3 DEF Outcome, CallPasses
<1>4. CASE c.fn \notin ProviderFns
  BY <1>1, <1>2, <1>4 DEF Outcome, CallPasses, SopsCall
<1> QED
  BY <1>3, <1>4

\* A Quadlet or a hooks file renders if its calls pass and its Host has the
\* secret files it reads; else one of them is not there, or a call does not pass.
LEMMA GuardedRender ==
  ASSUME FleetWellFormed(F), MaxDepth \in Nat, CacheSound, ~Strict, NEW src, NEW down, NEW h
  PROVE  LET st == RenderOrRead(src, TRUE, down)
             passes == FilePasses(h, src, TRUE, run.units # {})
         IN  /\ st.err = NoErr <=> passes /\ FilesThere(src, run.units # {})
             /\ passes /\ st.err # NoErr => st.err.class = "secretFile"
<1> DEFINE st == RenderOrRead(src, TRUE, down)
           made == MadeIn(src, run.units # {})
<1>1. CASE ~Template(src)
  <2>1. st.err = NoErr
    BY <1>1 DEF RenderOrRead, Rendered, Fresh
  <2>2. made = {}
    BY <1>1 DEF MadeIn, SrcCalls
  <2> QED
    BY <2>1, <2>2 DEF FilePasses, FilesThere
<1>2. CASE Template(src)
  <2>1. Tells(st, made, TRUE, down)
    BY <1>2, RenderOrReadFollows DEF Follows, Settled
  <2> HIDE DEF st, made
  <2>2. st.err = NoErr => \A c \in made : CallPasses(h, c, TRUE)
                            /\ (c.fn = "readSecretFile" => IsOk(SecretFile(c.arg)))
    BY <2>1, GuardCall DEF Tells
  <2>3. ASSUME st.err # NoErr
        PROVE  \E c \in made : /\ ~(CallPasses(h, c, TRUE)
                                    /\ (c.fn = "readSecretFile" => IsOk(SecretFile(c.arg))))
                               /\ CallPasses(h, c, TRUE) => st.err.class = "secretFile"
    <3>1. PICK c, o : c \in made /\ MayCome(c, o, TRUE, down) /\ ~IsOk(o) /\ st.err = Err(o.class)
      BY <2>1, <2>3 DEF Tells
    <3>2. ASSUME CallPasses(h, c, TRUE)
          PROVE  o.class = "secretFile"
      <4>1. c.fn = "readSecretFile" /\ ~IsOk(SecretFile(c.arg))
        BY <3>1, <3>2, GuardCall
      <4>2. o = SecretFile(c.arg)
        BY <3>1, <4>1 DEF MayCome, Outcome, ProviderFns
      <4>3. \A v : IsOk(Got(v))
        BY DEF IsOk, Got
      <4> QED
        BY <4>1, <4>2, <4>3 DEF SecretFile, Failed
    <3>3. Err(o.class).class = o.class
      BY DEF Err
    <3> QED
      BY <3>1, <3>2, <3>3, GuardCall
  <2> QED
    BY <2>2, <2>3 DEF FilePasses, FilesThere, st, made
<1> QED
  BY <1>1, <1>2

\* A cached value is what reading its ref came to.
CacheHolds ==
  \A x \in DOMAIN run.cache :
    IF F.refs[x].scheme = "sops"
    THEN IsOk(ReadSops(x, FALSE, FALSE)) /\ run.cache[x] = ReadSops(x, FALSE, FALSE).value
    ELSE run.cache[x].what = "secret"

\* The Host's identity and both vaults: what the Agent of a Host may have.
Equipped ==
  AgeRecipients(F.hosts[run.host]) \subseteq Agent.ids /\ {"op", "pp"} \subseteq Agent.providers

\* What a call comes to while the Host is validated tells whether it passes.
LEMMA ValidateCall ==
  ASSUME FleetWellFormed(F), CacheHolds, run.mode = "validate",
         NEW c, NEW o, NEW guarded, NEW down, MayCome(c, o, guarded, down), IsOk(o)
  PROVE  CallPasses(run.host, c, guarded) /\ (o.value # Blank => RendersText(run.host, c))
<1>1. PICK last : Known(last) /\ o = Outcome(c, last, guarded, down)
  BY DEF MayCome
<1>2. (\A x : IsOk(Failed(x)) <=> x = "ok") /\ \A v : IsOk(Got(v)) /\ Got(v).value = v
  BY DEF IsOk, Failed, Got
<1>3. WithoutKey /\ ~Strict
  BY DEF WithoutKey, Strict
<1>4. CASE c.fn \notin ProviderFns
  <2>1. c.fn # "fails"
    BY <1>1, <1>2, <1>4 DEF Outcome
  <2> QED
    BY <1>4, <2>1 DEF CallPasses, RendersText, SopsCall
<1>5. CASE c.fn \in ProviderFns /\ SchemeOf(c.fn) # "sops"
  <2>1. ~guarded
    BY <1>1, <1>2, <1>5 DEF Outcome
  <2> QED
    BY <1>5, <2>1 DEF CallPasses, RendersText, SopsCall, ProviderFns
<1>6. CASE c.fn \in ProviderFns /\ SchemeOf(c.fn) = "sops"
  <2> DEFINE ref == RefOf(c, last)
             data == c.fn = "readSopsData"
  <2>1. HasReader("sops")
    BY <1>3 DEF HasReader
  <2> HIDE DEF ref, data
  <2>2. ~guarded /\ IsRefOf("sops", ref)
    BY <1>1, <1>2, <1>3, <1>6, <2>1 DEF Outcome, ref
  <2>3. ~c.built /\ ref = c.arg
    <3>1. last.what # "secret" /\ ref # "junk"
      BY <1>1, <1>3, <2>2 DEF Known, IsRefOf, FleetWellFormed
    <3> QED
      BY <3>1 DEF RefOf, ref
  <2>4. KeylessCall(run.host, c) = ReadSops(ref, data, FALSE)
    BY <1>3, <2>3 DEF KeylessCall, KeylessRead, ReadSops, data
  <2>5. IsOk(ReadSops(ref, data, FALSE)) /\ ReadSops(ref, data, FALSE).value = o.value
    <3>1. CASE ~data /\ Cached(ref)
      <4>1. o = Got(run.cache[ref])
        BY <1>1, <1>3, <1>6, <2>1, <2>2, <3>1 DEF Outcome, ref, data
      <4>2. data = FALSE
        BY <3>1 DEF data
      <4>3. IsOk(ReadSops(ref, FALSE, FALSE)) /\ run.cache[ref] = ReadSops(ref, FALSE, FALSE).value
        BY <2>2, <3>1 DEF CacheHolds, Cached, IsRefOf
      <4> QED
        BY <1>2, <4>1, <4>2, <4>3
    <3>2. CASE ~(~data /\ Cached(ref))
      <4>1. o = ReadSops(ref, data, FALSE)
        BY <1>1, <1>3, <1>6, <2>1, <2>2, <3>2 DEF Outcome, Read, ref, data
      <4> QED
        BY <4>1
    <3> QED
      BY <3>1, <3>2
  <2>6. c.fn # "fails"
    BY <1>6 DEF ProviderFns
  <2> QED
    BY <1>6, <2>2, <2>3, <2>4, <2>5, <2>6 DEF CallPasses, RendersText
<1> QED
  BY <1>4, <1>5, <1>6

\* A call that passes fails an Agent for few reasons, and renders what it did.
LEMMA AgentCall ==
  ASSUME F \in Fleets, CacheHolds, run.mode = "agent", Equipped,
         NEW c, NEW o, NEW guarded, NEW down, MayCome(c, o, guarded, down),
         CallPasses(run.host, c, guarded)
  PROVE  /\ IsOk(o) => (RendersText(run.host, c) => o.value # Blank)
         /\ ~IsOk(o) => \/ o.class \in {"provider", "secretFile", "edited"}
                        \/ o.class = "notARef" /\ Unchecked(c)
<1>1. PICK last : Known(last) /\ o = Outcome(c, last, guarded, down)
  BY DEF MayCome
<1>2. /\ \A x : Failed(x).class = x /\ (IsOk(Failed(x)) <=> x = "ok")
      /\ \A v : IsOk(Got(v)) /\ Got(v).value = v
  BY DEF IsOk, Failed, Got
<1>3. ~WithoutKey /\ ~Strict /\ c.fn # "fails" /\ (c.fn \in ProviderFns => ~guarded)
  BY DEF WithoutKey, Strict, CallPasses
<1>4. /\ Blank.what = "blank" /\ \A x, at : Secret(x, at).what = "secret"
      /\ \A x : Plain(x).what = "plain" /\ HostOnly(x).what = "hostonly"
  BY DEF Blank, Secret, Plain, HostOnly
<1>5. CASE c.fn = "readSecretFile"
  <2>1. o = SecretFile(c.arg)
    BY <1>1, <1>5 DEF Outcome, ProviderFns
  <2> QED
    BY <1>2, <1>3, <1>4, <2>1 DEF SecretFile
<1>6. CASE c.fn \notin ProviderFns \cup {"readSecretFile"}
  <2>1. o = Got(Plain("text"))
    BY <1>1, <1>3, <1>6 DEF Outcome
  <2> QED
    BY <1>2, <1>4, <2>1
<1>7. CASE c.fn \in ProviderFns /\ SchemeOf(c.fn) # "sops"
  <2> DEFINE scheme == SchemeOf(c.fn)
             ref == RefOf(c, last)
  <2>1. scheme \in {"op", "pp"} /\ c.fn \in {"readOpSecret", "readProtonPassSecret"}
    BY <1>7 DEF SchemeOf, ProviderFns
  <2>2. HasReader(scheme)
    BY <1>3, <2>1 DEF HasReader, Equipped
  <2> HIDE DEF scheme, ref
  <2>3. CASE ~IsRefOf(scheme, ref)
    <3>1. o = Failed("notARef")
      BY <1>1, <1>3, <1>7, <2>2, <2>3 DEF Outcome, scheme, ref
    <3>2. Unchecked(c)
      BY <2>1, <2>3 DEF Unchecked, RefOf, scheme, ref
    <3> QED
      BY <1>2, <3>1, <3>2
  <2>4. CASE IsRefOf(scheme, ref) /\ Cached(ref)
    <3>1. o = Got(run.cache[ref])
      BY <1>1, <1>3, <1>7, <2>1, <2>2, <2>4 DEF Outcome, scheme, ref
    <3>2. run.cache[ref].what = "secret"
      BY <2>1, <2>4 DEF CacheHolds, Cached, IsRefOf
    <3> QED
      BY <1>2, <1>4, <3>1, <3>2
  <2>5. CASE IsRefOf(scheme, ref) /\ ~Cached(ref)
    <3>1. o = ReadVault(ref, down)
      BY <1>1, <1>3, <1>7, <2>2, <2>5 DEF Outcome, Read, scheme, ref
    <3> QED
      BY <1>2, <1>4, <3>1 DEF ReadVault
  <2> QED
    BY <2>3, <2>4, <2>5
<1>8. CASE c.fn \in ProviderFns /\ SchemeOf(c.fn) = "sops"
  <2> DEFINE ref == c.arg
             data == c.fn = "readSopsData"
             keyless == KeylessRead(run.host, ref, data, FALSE)
  <2>1. ~c.built /\ IsRefOf("sops", ref) /\ IsOk(keyless) /\ RefOf(c, last) = ref
    BY <1>8 DEF CallPasses, SopsCall, KeylessCall, RefOf
  <2>2. ref \in DOMAIN F.refs /\ data \in BOOLEAN /\ F.refs[ref].scheme = "sops"
    BY <2>1 DEF IsRefOf
  <2>3. RendersText(run.host, c) <=> keyless.value # Blank
    BY <1>8 DEF RendersText, SopsCall, KeylessCall
  <2> HIDE DEF ref, data, keyless
  <2>4. /\ Agent.ids # {}
        /\ ReadSops(ref, data, FALSE).class \in {"ok", "edited"}
        /\ IsOk(ReadSops(ref, data, FALSE)) =>
             (ReadSops(ref, data, FALSE).value = Blank <=> keyless.value = Blank)
    BY <2>1, <2>2, KeylessReadIsRead DEF Equipped, keyless
  <2>5. HasReader("sops")
    BY <2>4 DEF HasReader
  <2>6. CASE ~data /\ Cached(ref)
    <3>1. o = Got(run.cache[ref])
      BY <1>1, <1>3, <1>8, <2>1, <2>5, <2>6 DEF Outcome, ref, data
    <3>2. data = FALSE
      BY <2>2, <2>6
    <3>3. IsOk(ReadSops(ref, FALSE, FALSE)) /\ run.cache[ref] = ReadSops(ref, FALSE, FALSE).value
      BY <2>2, <2>6 DEF CacheHolds, Cached
    <3> QED
      BY <1>2, <2>3, <2>4, <3>1, <3>2, <3>3
  <2>7. CASE ~(~data /\ Cached(ref))
    <3>1. o = ReadSops(ref, data, FALSE)
      BY <1>1, <1>3, <1>8, <2>1, <2>5, <2>7 DEF Outcome, Read, ref, data
    <3> QED
      BY <2>3, <2>4, <3>1 DEF IsOk
  <2> QED
    BY <2>6, <2>7
<1> QED
  BY <1>5, <1>6, <1>7, <1>8

\* A file that renders while its Host is validated passes.
LEMMA ValidateRender ==
  ASSUME FleetWellFormed(F), MaxDepth \in Nat, CacheSound, CacheHolds, run.mode = "validate",
         NEW src, NEW guarded, Settled(guarded), NEW down,
         RenderOrRead(src, guarded, down).err = NoErr
  PROVE  /\ FilePasses(run.host, src, guarded, run.units # {})
         /\ RenderOrRead(src, guarded, down).content \subseteq {Blank}
            \/ HoldsText(run.host, src, run.units # {})
<1> DEFINE st == RenderOrRead(src, guarded, down)
           made == MadeIn(src, run.units # {})
<1>1. CASE ~Template(src)
  BY <1>1 DEF FilePasses, HoldsText, MadeIn, SrcCalls
<1>2. CASE Template(src)
  <2>1. Tells(st, made, guarded, down)
    BY <1>2, RenderOrReadFollows DEF Follows, Strict
  <2>2. st.err = NoErr
    OBVIOUS
  <2> HIDE DEF st, made
  <2>3. \A c \in made : CallPasses(run.host, c, guarded)
    BY <2>1, <2>2, ValidateCall DEF Tells
  <2>4. ASSUME NEW v \in st.content, v # Blank
        PROVE  \E c \in made : RendersText(run.host, c)
    BY <2>1, <2>2, <2>4, ValidateCall DEF Tells
  <2> QED
    BY <2>3, <2>4 DEF FilePasses, HoldsText, st, made
<1> QED
  BY <1>1, <1>2

\* A file that passes fails an Agent for few reasons, and is blank as little.
LEMMA AgentRender ==
  ASSUME F \in Fleets, MaxDepth \in Nat, CacheSound, CacheHolds, run.mode = "agent", Equipped,
         NEW src, NEW guarded, Settled(guarded), NEW down,
         FilePasses(run.host, src, guarded, run.units # {})
  PROVE  LET st == RenderOrRead(src, guarded, down)
             made == MadeIn(src, run.units # {})
         IN  /\ st.err # NoErr =>
                  \/ st.err.class \in {"provider", "secretFile", "edited"}
                  \/ st.err.class = "notARef" /\ \E c \in made : Unchecked(c)
             /\ st.err = NoErr => /\ FilesThere(src, run.units # {})
                                  /\ HoldsText(run.host, src, run.units # {})
                                       => ~(st.content \subseteq {Blank})
<1> DEFINE st == RenderOrRead(src, guarded, down)
           made == MadeIn(src, run.units # {})
<1>1. FleetWellFormed(F) /\ ~Strict
  BY ResolverAssumption DEF Strict
<1>2. CASE ~Template(src)
  <2>1. st.err = NoErr /\ Plain("text") \in st.content
    BY <1>2 DEF RenderOrRead, Rendered, Fresh
  <2>2. made = {}
    BY <1>2 DEF MadeIn, SrcCalls
  <2>3. Plain("text") # Blank
    BY DEF Plain, Blank
  <2> QED
    BY <2>1, <2>2, <2>3 DEF FilesThere
<1>3. CASE Template(src)
  <2>1. Tells(st, made, guarded, down)
    BY <1>1, <1>3, RenderOrReadFollows DEF Follows
  <2>2. \A c \in made : CallPasses(run.host, c, guarded)
    BY DEF FilePasses
  <2> HIDE DEF st, made
  <2>3. ASSUME st.err # NoErr
        PROVE  \/ st.err.class \in {"provider", "secretFile", "edited"}
               \/ st.err.class = "notARef" /\ \E c \in made : Unchecked(c)
    <3>1. PICK c, o : /\ c \in made /\ MayCome(c, o, guarded, down)
                      /\ ~IsOk(o) /\ st.err = Err(o.class)
      BY <2>1, <2>3 DEF Tells
    <3>2. \/ o.class \in {"provider", "secretFile", "edited"}
          \/ o.class = "notARef" /\ Unchecked(c)
      BY <2>2, <3>1, AgentCall
    <3>3. st.err.class = o.class
      BY <3>1 DEF Err
    <3> QED
      BY <3>1, <3>2, <3>3
  <2>4. ASSUME st.err = NoErr, NEW c \in made, c.fn = "readSecretFile"
        PROVE  IsOk(SecretFile(c.arg))
    <3>1. PICK o : MayCome(c, o, guarded, down) /\ IsOk(o)
      BY <2>1, <2>4 DEF Tells
    <3> QED
      BY <2>4, <3>1 DEF MayCome, Outcome, ProviderFns
  <2>5. ASSUME st.err = NoErr, NEW c \in made, RendersText(run.host, c)
        PROVE  ~(st.content \subseteq {Blank})
    <3>1. PICK o : MayCome(c, o, guarded, down) /\ IsOk(o) /\ o.value \in st.content
      BY <2>1, <2>5 DEF Tells
    <3>2. o.value # Blank
      BY <2>2, <2>5, <3>1, AgentCall
    <3> QED
      BY <3>1, <3>2
  <2>6. (st.err = NoErr) => FilesThere(src, run.units # {})
    BY <2>4 DEF FilesThere, made
  <2>7. st.err = NoErr /\ HoldsText(run.host, src, run.units # {}) => ~(st.content \subseteq {Blank})
    BY <1>3, <2>5 DEF HoldsText, made
  <2> QED
    BY <2>3, <2>6, <2>7 DEF st, made
<1> QED
  BY <1>2, <1>3

\* The refs a call may add to those collected: its own.
Collects(c) == {x \in DOMAIN F.refs : /\ x = c.arg /\ F.refs[x].scheme = SchemeOf(c.fn)
                                      /\ c.fn \in ProviderFns \ {"readSopsData"}}

LEMMA ApplyCollects ==
  ASSUME FleetWellFormed(F), NEW st, DOMAIN st = Progress, NEW c, NEW guarded, NEW down
  PROVE  LET new == Apply(st, c, guarded, down) IN
         /\ DOMAIN new = Progress
         /\ new.pending \subseteq st.pending \cup {x \in Collects(c) : Makes(c)}
<1> DEFINE new == Apply(st, c, guarded, down)
           ref == RefOf(c, st.last)
           class == CallClass(c, ref, guarded)
           counted == Counted(st, c)
           Keeps(s, t) == DOMAIN t = Progress /\ t.pending = s.pending
<1>1. /\ \A s, v : DOMAIN s = Progress => Keeps(s, Rendered(s, v))
      /\ \A s, e : DOMAIN s = Progress => Keeps(s, [s EXCEPT !.err = e])
  BY DEF Rendered, Progress
<1>2. \A s, more : DOMAIN s = Progress => Keeps(s, [s EXCEPT !.data = @ \cup more])
  BY DEF Progress
<1>3. \A s, scheme, x : DOMAIN s = Progress => Keeps(s, Asked(s, scheme, x))
  BY DEF Asked, Progress
<1>4. Keeps(st, counted)
  BY DEF Counted, Progress
<1>5. ASSUME NEW s, DOMAIN s = Progress
      PROVE  Keeps(s, ReadNow(s, c, ref, down))
  <2> DEFINE asked == Asked(s, SchemeOf(c.fn), ref)
             o == Read(SchemeOf(c.fn), ref, c.fn = "readSopsData", down)
  <2>1. ReadNow(s, c, ref, down) = Take(asked, c, ref, o)
    BY DEF ReadNow
  <2>2. Keeps(s, asked)
    BY <1>3, <1>5
  <2> HIDE DEF asked, o, ref
  <2>3. Keeps(asked, Take(asked, c, ref, o))
    BY <1>1, <2>2 DEF Take
  <2> QED
    BY <2>1, <2>2, <2>3
<1>6. CASE st.err # NoErr \/ ~Made(c, st)
  BY <1>6 DEF Apply
<1>7. CASE st.err = NoErr /\ Made(c, st) /\ c.fn \in ProviderFns
  <2>1. new = ClassedCall(counted, c, ref, class, down)
    BY <1>7 DEF Apply, ProviderCall, ProviderFns
  <2>2. Makes(c)
    BY <1>7 DEF Made, Makes
  <2> HIDE DEF counted, ref
  <2>3. CASE class = "ready"
    <3>1. IsRefOf(SchemeOf(c.fn), ref)
      BY <2>3 DEF CallClass
    <3>2. ref = c.arg /\ ref \in DOMAIN F.refs
      BY <3>1 DEF IsRefOf, RefOf, FleetWellFormed, ref
    <3>3. new = ReadyCall(counted, c, ref, down)
      BY <2>1, <2>3 DEF ClassedCall
    <3>4. CASE c.fn # "readSopsData" /\ SchemeOf(c.fn) \notin run.resolved
      <4>1. ref \in Collects(c)
        BY <1>7, <3>1, <3>2, <3>4 DEF Collects, IsRefOf
      <4>2. new = Rendered([counted EXCEPT !.pending = @ \cup {ref}], Pending)
        BY <3>3, <3>4 DEF ReadyCall
      <4>3. DOMAIN new = Progress /\ new.pending = counted.pending \cup {ref}
        BY <1>4, <4>2 DEF Rendered, Progress
      <4> QED
        BY <1>4, <2>2, <4>1, <4>3
    <3>5. CASE ~(c.fn # "readSopsData" /\ SchemeOf(c.fn) \notin run.resolved)
      <4>1. (\E v : new = Rendered(counted, v))
            \/ \E more : new = ReadNow([counted EXCEPT !.data = @ \cup more], c, ref, down)
        BY <3>3, <3>5 DEF ReadyCall
      <4>2. Keeps(counted, new)
        <5>1. CASE \E v : new = Rendered(counted, v)
          BY <1>1, <1>4, <5>1
        <5>2. CASE \E more : new = ReadNow([counted EXCEPT !.data = @ \cup more], c, ref, down)
          <6>1. PICK more : new = ReadNow([counted EXCEPT !.data = @ \cup more], c, ref, down)
            BY <5>2
          <6> DEFINE s == [counted EXCEPT !.data = @ \cup more]
          <6>2. Keeps(counted, s)
            BY <1>2, <1>4
          <6> HIDE DEF s, new
          <6>3. Keeps(s, ReadNow(s, c, ref, down))
            BY <1>5, <6>2
          <6>4. new = ReadNow(s, c, ref, down)
            BY <6>1 DEF s
          <6> QED
            BY <6>2, <6>3, <6>4
        <5> QED
          BY <4>1, <5>1, <5>2
      <4> QED
        BY <1>4, <4>2
    <3> QED
      BY <3>4, <3>5
  <2>4. CASE class # "ready"
    <3>1. (\E v : new = Rendered(counted, v)) \/ \E e : new = [counted EXCEPT !.err = e]
      BY <2>1, <2>4 DEF ClassedCall
    <3> HIDE DEF new
    <3>2. DOMAIN counted = Progress
      BY <1>4
    <3>3. Keeps(counted, new)
      <4>1. CASE \E v : new = Rendered(counted, v)
        BY <1>1, <3>2, <4>1
      <4>2. CASE \E e : new = [counted EXCEPT !.err = e]
        BY <1>1, <3>2, <4>2
      <4> QED
        BY <3>1, <4>1, <4>2
    <3> QED
      BY <1>4, <3>3 DEF new
  <2> QED
    BY <2>3, <2>4
<1>8. CASE st.err = NoErr /\ Made(c, st) /\ c.fn \notin ProviderFns
  <2>1. (\E v : new = Rendered(st, v)) \/ \E e : new = [st EXCEPT !.err = e]
    BY <1>8 DEF Apply, TakeFile
  <2> HIDE DEF new
  <2>2. Keeps(st, new)
    <3>1. CASE \E v : new = Rendered(st, v)
      BY <1>1, <3>1
    <3>2. CASE \E e : new = [st EXCEPT !.err = e]
      BY <1>1, <3>2
    <3> QED
      BY <2>1, <3>1, <3>2
  <2> QED
    BY <2>2 DEF new
<1> QED
  BY <1>6, <1>7, <1>8

\* Rendering a template collects refs of the calls it makes.
LEMMA RenderOrReadCollects ==
  ASSUME FleetWellFormed(F), MaxDepth \in Nat, ~Strict, NEW src, NEW guarded, NEW down
  PROVE  RenderOrRead(src, guarded, down).pending
           \subseteq UNION {Collects(c) : c \in MadeIn(src, run.units # {})}
<1> DEFINE calls == Flat(F, src, Templates)
           k     == Len(calls)
           refs  == UNION {Collects(c) : c \in MadeIn(src, run.units # {})}
<1>1. /\ DOMAIN Fresh = Progress /\ Fresh.pending = {}
      /\ Rendered(Fresh, Plain("text")).pending = {}
  BY DEF Fresh, Progress, Rendered
<1>2. CASE ~Template(src)
  BY <1>1, <1>2 DEF RenderOrRead
<1>3. CASE Template(src)
  <2>1. src \in DOMAIN F.tree /\ Templates \subseteq DOMAIN F.tree /\ Loaded = Templates
    BY <1>3 DEF Template, Loaded, Templates, Strict
  <2>2. calls \in Seq(TreeCalls)
    BY <2>1, FlatIsSequence
  <2>3. k \in Nat /\ DOMAIN calls = 1..k
    <3> HIDE DEF calls
    <3> QED BY <2>2
  <2>4. \A n \in 1..k : Makes(calls[n]) => Collects(calls[n]) \subseteq refs
    <3>1. MadeIn(src, run.units # {}) = {c \in {calls[i] : i \in 1..k} : Makes(c)}
      BY <1>3, <2>3 DEF MadeIn, SrcCalls, Range, Makes
    <3> HIDE DEF calls, k
    <3> QED BY <3>1
  <2>5. PICK st : Traces(st, calls, guarded, down)
    <3> HIDE DEF calls
    <3> QED BY <2>3, RenderUnfolds
  <2>6. /\ RenderCalls(calls, guarded, down) = st[k]
        /\ st[0] = Fresh
        /\ \A n \in 1..k : st[n] = Apply(st[n - 1], calls[n], guarded, down)
    <3> HIDE DEF calls
    <3> QED BY <2>5 DEF Traces
  <2>7. RenderOrRead(src, guarded, down) = st[k]
    BY <1>3, <2>1, <2>6 DEF RenderOrRead
  <2> DEFINE S == {n \in Nat : n <= k => DOMAIN st[n] = Progress /\ st[n].pending \subseteq refs}
  <2> HIDE DEF calls, k, refs
  <2>8. 0 \in S
    BY <1>1, <2>6
  <2>9. ASSUME NEW n \in Nat, n \in S
        PROVE  n + 1 \in S
    <3>1. CASE n + 1 <= k
      <4>1. n + 1 \in 1..k /\ (n + 1) - 1 = n /\ n <= k
        BY <2>3, <3>1
      <4>2. DOMAIN st[n] = Progress /\ st[n].pending \subseteq refs
        BY <2>9, <4>1
      <4>3. PICK new : new = Apply(st[n], calls[n + 1], guarded, down)
        OBVIOUS
      <4>4. /\ DOMAIN new = Progress
            /\ new.pending \subseteq st[n].pending \cup {x \in Collects(calls[n + 1]) : Makes(calls[n + 1])}
        BY <4>2, <4>3, ApplyCollects
      <4>5. new.pending \subseteq refs
        BY <2>4, <4>1, <4>2, <4>4
      <4> QED
        BY <2>6, <4>1, <4>3, <4>4, <4>5
    <3> QED
      BY <3>1
  <2>10. Nat \subseteq S
    <3> HIDE DEF S
    <3> QED BY <2>8, <2>9, Induction
  <2> QED
    BY <2>3, <2>7, <2>10 DEF refs
<1> QED
  BY <1>2, <1>3

\* What an Agent collects of the files of its Host is read without a key too.
LEMMA CollectedReads ==
  ASSUME FleetWellFormed(F), MaxDepth \in Nat, ~Strict, NEW src, NEW guarded, NEW down, NEW h,
         FilePasses(h, src, FALSE, run.units # {}),
         NEW x \in RenderOrRead(src, guarded, down).pending, IsRefOf("sops", x)
  PROVE  IsOk(KeylessRead(h, x, FALSE, FALSE))
<1>1. PICK c \in MadeIn(src, run.units # {}) : x \in Collects(c)
  BY RenderOrReadCollects
<1>2. x = c.arg /\ SopsCall(c) /\ c.fn # "readSopsData"
  BY <1>1 DEF Collects, SopsCall, IsRefOf
<1>3. IsOk(KeylessCall(h, c))
  BY <1>1, <1>2 DEF FilePasses, CallPasses
<1>4. (c.fn = "readSopsData") = FALSE
  BY <1>2
<1> QED
  BY <1>2, <1>3, <1>4 DEF KeylessCall

-----------------------------------------------------------------------------
(* What validate checks of a Host's files, by what it is assigned.          *)

QuadletsIn(refs) == {r \in refs : Dest(r.category) = "quadlet" /\ F.tree[r.src].unit # ""}
PrefilledIn(refs) == Names({q \in QuadletsIn(refs) : q.category \in Prefill})
RankedIn(refs, rank, known) ==
  Names({q \in QuadletsIn(refs) : /\ q.category \in PreConvert
                                  /\ ConvertOrder[q.category] = rank
                                  /\ Uses(q) \subseteq known})
RankIn(refs, rank, known) == known \cup RankedIn(refs, rank, known)
InfoIn(refs) ==
  RankIn(refs, 5, RankIn(refs, 4, RankIn(refs, 3, RankIn(refs, 2, RankIn(refs, 1, PrefilledIn(refs))))))

DataIn(refs) == {HostDataDir \o F.tree[r.src].place : r \in {x \in refs : Dest(x.category) = "data"}}
DeliversIn(refs, dir) == \E file \in DataIn(refs) : IsStrictPrefix(dir, file)

\* ChecksBuild of the files it is to deliver.
BuildPasses(refs, u, p) ==
  /\ ~(/\ p.complete
       /\ \A file \in p.files : Owns(file) /\ file \notin DataIn(refs)
       /\ u.file = NoValue => DeliversIn(refs, p.context))
  /\ ~(p.named /\ Owns(p.context) /\ ~DeliversIn(refs, p.context))
  /\ ~(IsAbs(u.workDir) /\ Owns(u.workDir.at) /\ ~DeliversIn(refs, u.workDir.at))

UnitPasses(refs, r) ==
  /\ F.tree[r.src].unit # "" /\ Uses(r) \subseteq InfoIn(refs)
  /\ ~(F.tree[r.src].pod /\ F.tree[r.src].unit \in SelfUnits)

ContentPasses(refs, r) ==
  /\ Supported(r.category) /\ ContentCheck(r) = "ok"
  /\ Dest(r.category) = "quadlet" => UnitPasses(refs, r)
  /\ r.category = "build" => BuildPasses(refs, F.tree[r.src].build,
                                         ResolveBuild(F.tree[r.src].build, UnitDir))

HookPasses(refs, hook) ==
  /\ Normalize(hook)
  /\ hook.quadlet =>
       LET named == {r \in refs : Dest(r.category) = "quadlet" /\ F.tree[r.src].dest = hook.unit}
       IN  /\ \E r \in named : F.tree[r.src].unit # ""
           /\ hook.action = "signal" =>
                \A r \in named : F.tree[r.src].container \in {"", hook.container}

DistinctHooks(files) ==
  \A s, t \in files : \A i \in DOMAIN HooksIn(s), j \in DOMAIN HooksIn(t) :
    << s, i >> # << t, j >> => HooksIn(s)[i].name # HooksIn(t)[j].name

HooksAccepted(h) ==
  LET files == HookFiles(F, HostSet(h)) IN
  /\ \A s \in files : FilePasses(h, s, TRUE, HasUnits(h))
  /\ \A s \in files : \A i \in DOMAIN HooksIn(s) : HookPasses(HostFiles(h), HooksIn(s)[i])
  /\ DistinctHooks(files)

RefAccepted(h, r) ==
  IF IsProviderRef(F, r.src)
  THEN IsRefOf("sops", r.src) => IsOk(KeylessRead(h, r.src, FALSE, TRUE))
  ELSE /\ FilePasses(h, r.src, Guarded(r), HasUnits(h))
       /\ r.category = "secret" => HoldsText(h, r.src, HasUnits(h))
       /\ ContentPasses(HostFiles(h), r)

\* A Host of which validate finds nothing wrong.
Accepted(h) ==
  /\ ~ExpandFails(F, HostSet(h)) /\ ~DestFails(F, HostFiles(h)) /\ ~Collides(F, HostFiles(h))
  /\ \A r \in HostFiles(h) : RefAccepted(h, r)
  /\ HooksAccepted(h)

\* It is the commit's alone.
LEMMA SameHost ==
  ASSUME F' = F, NEW h
  PROVE  /\ HostSet(h)' = HostSet(h) /\ HostFiles(h)' = HostFiles(h)
         /\ \A src : Template(src)' <=> Template(src)
         /\ \A src : SrcCalls(src)' = SrcCalls(src)
         /\ \A x : IsOk(KeylessRead(h, x, FALSE, TRUE))' <=> IsOk(KeylessRead(h, x, FALSE, TRUE))
         /\ \A x : IsOk(KeylessRead(h, x, FALSE, FALSE))' <=> IsOk(KeylessRead(h, x, FALSE, FALSE))
         /\ \A c : KeylessCall(h, c)' = KeylessCall(h, c)
<1>1. HostSet(h)' = HostSet(h)
  BY DEF HostSet
<1>2. HostFiles(h)' = HostFiles(h)
  BY <1>1 DEF HostFiles
<1>3. \A src : Template(src)' <=> Template(src)
  BY DEF Template
<1>4. Templates' = Templates
  BY <1>3 DEF Templates
<1>5. \A src : SrcCalls(src)' = SrcCalls(src)
  BY <1>3, <1>4 DEF SrcCalls
<1>6. \A c : KeylessCall(h, c)' = KeylessCall(h, c)
  BY DEF KeylessCall, KeylessRead, SopsRefClass, FileAt
<1>7. /\ \A x : IsOk(KeylessRead(h, x, FALSE, TRUE))' <=> IsOk(KeylessRead(h, x, FALSE, TRUE))
      /\ \A x : IsOk(KeylessRead(h, x, FALSE, FALSE))' <=> IsOk(KeylessRead(h, x, FALSE, FALSE))
  BY DEF KeylessRead, SopsRefClass, FileAt
<1> QED
  BY <1>1, <1>2, <1>3, <1>5, <1>6, <1>7

LEMMA SamePasses ==
  ASSUME F' = F, NEW h, NEW src, NEW guarded, NEW units
  PROVE  /\ FilePasses(h, src, guarded, units)' <=> FilePasses(h, src, guarded, units)
         /\ HoldsText(h, src, units)' <=> HoldsText(h, src, units)
BY SameHost DEF FilePasses, HoldsText, MadeIn, CallPasses, RendersText, IsRefOf

LEMMA SameAccepted ==
  ASSUME F' = F, NEW h
  PROVE  (HasUnits(h)' <=> HasUnits(h)) /\ (HooksAccepted(h)' <=> HooksAccepted(h))
         /\ (Accepted(h)' <=> Accepted(h))
<1>1. HasUnits(h)' <=> HasUnits(h)
  <2>1. \A src : FilePasses(h, src, TRUE, FALSE)' <=> FilePasses(h, src, TRUE, FALSE)
    BY SameHost DEF FilePasses, MadeIn, CallPasses, IsRefOf
  <2> QED
    BY <2>1, SameHost DEF HasUnits, NamesUnit
<1>2. \A refs, rank, known : RankIn(refs, rank, known)' = RankIn(refs, rank, known)
  BY DEF RankIn, RankedIn, QuadletsIn, Names, Uses
<1>3. \A refs : PrefilledIn(refs)' = PrefilledIn(refs)
  BY DEF PrefilledIn, QuadletsIn, Names
<1>4. \A refs : InfoIn(refs)' = InfoIn(refs)
  BY <1>2, <1>3 DEF InfoIn
<1>5. \A refs : DataIn(refs)' = DataIn(refs)
  BY DEF DataIn
<1>6. \A refs, dir : DeliversIn(refs, dir)' <=> DeliversIn(refs, dir)
  BY <1>5 DEF DeliversIn
<1>7. \A refs, u, p : BuildPasses(refs, u, p)' <=> BuildPasses(refs, u, p)
  BY <1>5, <1>6 DEF BuildPasses
<1>8. \A refs, r : ContentPasses(refs, r)' <=> ContentPasses(refs, r)
  BY <1>4, <1>7 DEF ContentPasses, UnitPasses, ContentCheck, Uses
<1>9. /\ \A r : FilePasses(h, r.src, Guarded(r), HasUnits(h))'
                  <=> FilePasses(h, r.src, Guarded(r), HasUnits(h))
      /\ \A src : FilePasses(h, src, TRUE, HasUnits(h))' <=> FilePasses(h, src, TRUE, HasUnits(h))
      /\ \A src : HoldsText(h, src, HasUnits(h))' <=> HoldsText(h, src, HasUnits(h))
  BY <1>1, SameHost DEF FilePasses, HoldsText, MadeIn, CallPasses, RendersText, IsRefOf
<1>10. \A r : RefAccepted(h, r)' <=> RefAccepted(h, r)
  BY <1>8, <1>9, SameHost DEF RefAccepted, IsRefOf
<1>11. \A src : HooksIn(src)' = HooksIn(src)
  BY DEF HooksIn
<1>12. \A refs, hook : HookPasses(refs, hook)' <=> HookPasses(refs, hook)
  BY DEF HookPasses
<1>13. \A files : DistinctHooks(files)' <=> DistinctHooks(files)
  BY <1>11 DEF DistinctHooks
<1>14. HooksAccepted(h)' <=> HooksAccepted(h)
  BY <1>9, <1>11, <1>12, <1>13, SameHost DEF HooksAccepted
<1>15. Accepted(h)' <=> Accepted(h)
  BY <1>10, <1>14, SameHost DEF Accepted
<1> QED
  BY <1>1, <1>14, <1>15

\* Once every file is built, all but the skipped ones are there, each as it
\* was assigned.
LEMMA BuiltAre ==
  ASSUME ResolveInv, CompleteInv, run.pc \in Finishing, run.todo = {}
  PROVE  /\ \A f \in run.out : RefBuilt(f) \in Assigned
         /\ \A f : RefBuilt(f).src = f.src /\ RefBuilt(f).category = f.category
         /\ \A r \in Assigned : ~IsProviderRef(F, r.src) =>
              \E f \in run.out : f.src = r.src /\ f.category = r.category
         /\ \A r \in Assigned : IsProviderRef(F, r.src) => r.category = "secret"
<1>1. /\ Built \subseteq Assigned
      /\ \A r \in Assigned \ Built : Skippable(r)
  BY DEF CompleteInv, BuiltOnce
<1>2. \A f : RefBuilt(f).src = f.src /\ RefBuilt(f).category = f.category
  BY DEF RefBuilt, FileRef
<1>3. ASSUME NEW r \in Assigned, ~IsProviderRef(F, r.src)
      PROVE  \E f \in run.out : f.src = r.src /\ f.category = r.category
  <2>1. r \in Built
    BY <1>1, <1>3 DEF Skippable, IsRefOf, IsProviderRef
  <2> QED
    BY <1>2, <2>1 DEF Built
<1>4. FleetWellFormed(F) /\ ~ExpandFails(F, run.set)
  BY ResolverAssumption DEF ResolveInv, Shape, Expands
<1>5. \A r \in Assigned : IsProviderRef(F, r.src) => r.category = "secret"
  BY <1>4, ProviderRefIsSecret DEF Assigned
<1> QED
  BY <1>1, <1>2, <1>3, <1>5 DEF Built

\* What the Quadlets and the data files are is told by what is assigned.
LEMMA ContentsAre ==
  ASSUME ResolveInv, CompleteInv, run.pc \in Finishing, run.todo = {}
  PROVE  UnitsInfo = InfoIn(Assigned) /\ DataFiles = DataIn(Assigned)
<1>1. Dest("secret") = "secret"
  BY DEF Dest
<1>2. \A r \in Assigned : Dest(r.category) \in {"quadlet", "data"} => ~IsProviderRef(F, r.src)
  BY <1>1, BuiltAre
<1>3. PrefilledOnly = PrefilledIn(Assigned)
  <2>1. ASSUME NEW q \in Quadlets, q.category \in Prefill
        PROVE  F.tree[q.src].dest \in PrefilledIn(Assigned)
    <3>1. q \in run.out /\ Dest(q.category) = "quadlet" /\ F.tree[q.src].unit # ""
      BY DEF Quadlets
    <3>2. PICK r \in Assigned : r.src = q.src /\ r.category = q.category
      BY <3>1, BuiltAre
    <3>3. r \in QuadletsIn(Assigned)
      BY <3>1, <3>2 DEF QuadletsIn
    <3> QED
      BY <2>1, <3>2, <3>3 DEF PrefilledIn, Names
  <2>2. ASSUME NEW r \in QuadletsIn(Assigned), r.category \in Prefill
        PROVE  F.tree[r.src].dest \in PrefilledOnly
    <3>1. r \in Assigned /\ Dest(r.category) = "quadlet" /\ F.tree[r.src].unit # ""
      BY DEF QuadletsIn
    <3>2. PICK q \in run.out : q.src = r.src /\ q.category = r.category
      BY <1>2, <3>1, BuiltAre
    <3>3. q \in Quadlets
      BY <3>1, <3>2 DEF Quadlets
    <3> QED
      BY <2>2, <3>2, <3>3 DEF PrefilledOnly, Names
  <2> QED
    BY <2>1, <2>2 DEF PrefilledOnly, PrefilledIn, Names
<1>4. ASSUME NEW rank, NEW known
      PROVE  Ranked(rank, known) = RankedIn(Assigned, rank, known)
  <2>1. ASSUME NEW q \in Quadlets, q.category \in PreConvert, ConvertOrder[q.category] = rank,
               Uses(q) \subseteq known
        PROVE  F.tree[q.src].dest \in RankedIn(Assigned, rank, known)
    <3>1. q \in run.out /\ Dest(q.category) = "quadlet" /\ F.tree[q.src].unit # ""
      BY DEF Quadlets
    <3>2. PICK r \in Assigned : r.src = q.src /\ r.category = q.category
      BY <3>1, BuiltAre
    <3>3. r \in QuadletsIn(Assigned) /\ Uses(r) = Uses(q)
      BY <3>1, <3>2 DEF QuadletsIn, Uses
    <3> QED
      BY <2>1, <3>2, <3>3 DEF RankedIn, Names
  <2>2. ASSUME NEW r \in QuadletsIn(Assigned), r.category \in PreConvert,
               ConvertOrder[r.category] = rank, Uses(r) \subseteq known
        PROVE  F.tree[r.src].dest \in Ranked(rank, known)
    <3>1. r \in Assigned /\ Dest(r.category) = "quadlet" /\ F.tree[r.src].unit # ""
      BY DEF QuadletsIn
    <3>2. PICK q \in run.out : q.src = r.src /\ q.category = r.category
      BY <1>2, <3>1, BuiltAre
    <3>3. q \in Quadlets /\ Uses(q) = Uses(r)
      BY <3>1, <3>2 DEF Quadlets, Uses
    <3> QED
      BY <2>2, <3>2, <3>3 DEF Ranked, Names
  <2> QED
    BY <2>1, <2>2 DEF Ranked, RankedIn, Names
<1>5. \A rank \in 1..5 : Converted[rank] = RankIn(Assigned, rank, Converted[rank - 1])
  BY <1>4, ConvertedIs DEF RankIn
<1>6. 1 - 1 = 0 /\ 2 - 1 = 1 /\ 3 - 1 = 2 /\ 4 - 1 = 3 /\ 5 - 1 = 4
  OBVIOUS
<1>7. /\ Converted[0] = PrefilledIn(Assigned)
      /\ Converted[1] = RankIn(Assigned, 1, Converted[0])
      /\ Converted[2] = RankIn(Assigned, 2, Converted[1])
      /\ Converted[3] = RankIn(Assigned, 3, Converted[2])
      /\ Converted[4] = RankIn(Assigned, 4, Converted[3])
      /\ Converted[5] = RankIn(Assigned, 5, Converted[4])
  BY <1>3, <1>5, <1>6, ConvertedIs
<1>8. UnitsInfo = InfoIn(Assigned)
  BY <1>7 DEF UnitsInfo, InfoIn
<1>9. DataFiles = DataIn(Assigned)
  <2>1. ASSUME NEW f \in run.out, Dest(f.category) = "data"
        PROVE  HostDataDir \o F.tree[f.src].place \in DataIn(Assigned)
    <3>1. PICK r \in Assigned : r.src = f.src /\ r.category = f.category
      BY BuiltAre
    <3> QED
      BY <2>1, <3>1 DEF DataIn
  <2>2. ASSUME NEW r \in Assigned, Dest(r.category) = "data"
        PROVE  HostDataDir \o F.tree[r.src].place \in DataFiles
    <3>1. PICK f \in run.out : f.src = r.src /\ f.category = r.category
      BY <1>2, <2>2, BuiltAre
    <3> QED
      BY <2>2, <3>1 DEF DataFiles
  <2> QED
    BY <2>1, <2>2 DEF DataFiles, DataIn
<1> QED
  BY <1>8, <1>9

\* What analyze makes of a file is told by what is assigned, but for a secret
\* that rendered as nothing.
LEMMA AnalyzeIs ==
  ASSUME ResolveInv, CompleteInv, run.pc \in Finishing, run.todo = {}, NEW f \in run.out
  PROVE  AnalyzeFile(f) = NoErr <=>
           /\ ContentPasses(Assigned, RefBuilt(f))
           /\ ~(f.category = "secret" /\ f.content \subseteq {Blank})
<1> DEFINE r == RefBuilt(f)
           u == F.tree[f.src].build
           p == ResolveBuild(u, UnitDir)
<1>1. \A c : c # "none" => Err(c) # NoErr
  BY ErrorsDiffer
<1>2. [class |-> "invalid", quotes |-> f.content] # NoErr
  BY DEF NoErr
<1>3. r.src = f.src /\ r.category = f.category
  BY BuiltAre
<1>4. UnitsInfo = InfoIn(Assigned) /\ DataFiles = DataIn(Assigned)
  BY ContentsAre
<1>5. \A dir : DeliversBelow(dir) <=> DeliversIn(Assigned, dir)
  BY <1>4 DEF DeliversBelow, DeliversIn
<1>6. ChecksBuild(u, p) <=> BuildPasses(Assigned, u, p)
  <2> HIDE DEF u, p
  <2> QED
    BY <1>4, <1>5 DEF ChecksBuild, MissesContainerfile, MissesDir, BuildPasses
<1>7. QuadletClass(f) = "ok" <=> UnitPasses(Assigned, r)
  BY <1>3, <1>4 DEF QuadletClass, UnitPasses, Uses
<1>8. QuadletClass(f) # "none"
  BY DEF QuadletClass
<1>9. ContentCheck(r) = ContentCheck(f)
  BY <1>3 DEF ContentCheck
<1> HIDE DEF r
<1>10. ContentPasses(Assigned, r) <=>
         /\ Supported(f.category) /\ ContentCheck(f) = "ok"
         /\ Dest(f.category) = "quadlet" => QuadletClass(f) = "ok"
         /\ f.category = "build" => ChecksBuild(u, p)
  BY <1>3, <1>6, <1>7, <1>9 DEF ContentPasses
<1> HIDE DEF u, p
<1>11. AnalyzeFile(f) = IF ~Supported(f.category) THEN Err("unsupported")
    ELSE IF f.category = "secret" /\ f.content \subseteq {Blank} THEN Err("emptySecret")
    ELSE IF ContentCheck(f) # "ok" THEN [class |-> "invalid", quotes |-> f.content]
    ELSE IF Dest(f.category) = "quadlet" /\ QuadletClass(f) # "ok" THEN Err(QuadletClass(f))
    ELSE IF f.category = "build" /\ ~ChecksBuild(u, p) THEN Err("undelivered")
    ELSE NoErr
  BY DEF AnalyzeFile, u, p
<1> QED
  BY <1>1, <1>2, <1>8, <1>10, <1>11 DEF r

LEMMA HookIs ==
  ASSUME ResolveInv, CompleteInv, run.pc \in Finishing, run.todo = {}, NEW hook
  PROVE  HookFails(hook) <=> ~HookPasses(Assigned, hook)
<1> DEFINE named == {r \in Assigned : Dest(r.category) = "quadlet" /\ F.tree[r.src].dest = hook.unit}
<1>1. Dest("secret") = "secret"
  BY DEF Dest
<1>2. \A r \in named : \E f \in QuadletNamed(hook.unit) : f.src = r.src
  <2> SUFFICES ASSUME NEW r \in named
               PROVE  \E f \in QuadletNamed(hook.unit) : f.src = r.src
    OBVIOUS
  <2>1. PICK f \in run.out : f.src = r.src /\ f.category = r.category
    BY <1>1, BuiltAre
  <2> QED
    BY <2>1 DEF QuadletNamed
<1>3. \A f \in QuadletNamed(hook.unit) : \E r \in named : r.src = f.src
  <2> SUFFICES ASSUME NEW f \in QuadletNamed(hook.unit)
               PROVE  \E r \in named : r.src = f.src
    OBVIOUS
  <2>1. f \in run.out /\ Dest(f.category) = "quadlet" /\ F.tree[f.src].dest = hook.unit
    BY DEF QuadletNamed
  <2>2. PICK r \in Assigned : r.src = f.src /\ r.category = f.category
    BY <2>1, BuiltAre
  <2> QED
    BY <2>1, <2>2
<1>4. HookPasses(Assigned, hook) <=>
        /\ Normalize(hook)
        /\ hook.quadlet =>
             /\ \E r \in named : F.tree[r.src].unit # ""
             /\ hook.action = "signal" =>
                  \A r \in named : F.tree[r.src].container \in {"", hook.container}
  BY DEF HookPasses
<1> HIDE DEF named
<1>5. (\E r \in named : F.tree[r.src].unit # "")
         <=> \E f \in QuadletNamed(hook.unit) : F.tree[f.src].unit # ""
  BY <1>2, <1>3
<1>6. (\A r \in named : F.tree[r.src].container \in {"", hook.container})
         <=> \A f \in QuadletNamed(hook.unit) : F.tree[f.src].container \in {"", hook.container}
  BY <1>2, <1>3
<1> QED
  BY <1>4, <1>5, <1>6 DEF HookFails

\* A file that passes passes with fewer calls.
LEMMA FewerPass ==
  ASSUME NEW h, NEW src, NEW guarded, NEW units, NEW fewer, fewer => units,
         FilePasses(h, src, guarded, units)
  PROVE  FilePasses(h, src, guarded, fewer)
BY DEF FilePasses, MadeIn

-----------------------------------------------------------------------------
(* What a resolve found of its Host: that validate finds it in order, or    *)
(* that an Agent renders what validate found in order.                      *)

\* The Agent of an accepted Host.
Fit == run.mode = "agent" /\ Accepted(run.host) /\ Equipped

\* The Host's units that this resolve finds, once it looked for them.
FindsUnits == \E r \in Assigned :
  \/ UnitNaming(r.category) = "file"
  \/ /\ UnitNaming(r.category) = "generated" /\ F.tree[r.src].unit # ""
     /\ FilePasses(run.host, r.src, TRUE, FALSE) /\ FilesThere(r.src, FALSE)

Rendering == {"resolve", "resolve pp", "resolve sops"} \cup {"direct", "direct pp", "direct sops"}
             \cup Finishing

Found ==
  /\ run.mode = "agent" => run.set = HostSet(run.host)
  /\ run.pc \in Reading \cup Finishing => ~DestFails(F, Assigned)
  /\ run.pc \in Starting \cup {"collect"} => run.units = {}
  /\ run.mode # "bundle" /\ run.pc \in Rendering => (run.units # {} <=> FindsUnits)

\* The direct secrets are read, or skipped.
DirectRead ==
  /\ \A x \in DOMAIN run.direct :
       run.direct[x] # Blank /\ (IsRefOf("sops", x) => IsOk(ReadSops(x, FALSE, TRUE)))
  /\ \A p \in SchemeSet : run.pc \in Past(p) =>
       \A r \in Assigned : IsRefOf(p, r.src) => r.src \in DOMAIN run.direct \/ Skippable(r)

PendingRead ==
  Fit => \A x \in run.pending : IsRefOf("sops", x) => IsOk(KeylessRead(run.host, x, FALSE, FALSE))

FileRight(f, units) ==
  /\ run.mode = "validate" /\ ~IsProviderRef(F, f.src) =>
       /\ FilePasses(run.host, f.src, Guarded(f), units)
       /\ f.category = "secret" =>
            f.content \subseteq {Blank} \/ HoldsText(run.host, f.src, units)
  /\ Fit =>
       IF IsProviderRef(F, f.src) THEN ~(f.content \subseteq {Blank})
       ELSE /\ FilesThere(f.src, units)
            /\ f.category = "secret" /\ HoldsText(run.host, f.src, units)
                 => ~(f.content \subseteq {Blank})

FilesRight == run.pc \in Finishing => \A f \in run.out : FileRight(f, run.units # {})

\* What a resolve for validate ends with.
Ends ==
  run.mode = "validate" =>
    /\ run.pc \in {"analyze", "done"} => HooksAccepted(run.host)
    /\ run.pc = "done" => Accepted(run.host)

\* What may fail the Agent of an accepted Host.
MayFail(class) ==
  \/ class \in {"provider", "secretFile", "edited"}
  \/ class = "notARef" /\ \E c \in AssignedCalls(run.host) : Unchecked(c)

FailsFew == Fit /\ run.pc = "failed" => MayFail(run.err.class)

OutcomeInv ==
  Found /\ CacheHolds /\ DirectRead /\ PendingRead /\ FilesRight /\ Ends /\ FailsFew

\* Of an unchanged resolve.
LEMMA SameOutcome ==
  ASSUME SameResolve, run'.set = run.set
  PROVE  /\ Fit' <=> Fit
         /\ Assigned' = Assigned
         /\ \A src, units : FilesThere(src, units)' <=> FilesThere(src, units)
         /\ FindsUnits' <=> FindsUnits
         /\ \A x, data, direct : ReadSops(x, data, direct)' = ReadSops(x, data, direct)
         /\ \A f, units : FileRight(f, units)' <=> FileRight(f, units)
         /\ \A class : MayFail(class)' <=> MayFail(class)
<1>1. F' = F /\ run'.mode = run.mode /\ run'.host = run.host /\ WithoutKey' = WithoutKey
  BY DEF SameResolve, WithoutKey
<1>2. PICK host : host = run.host
  OBVIOUS
<1>3. /\ HostSet(host)' = HostSet(host) /\ HostFiles(host)' = HostFiles(host)
      /\ (Accepted(host)' <=> Accepted(host))
      /\ \A src : SrcCalls(src)' = SrcCalls(src)
  BY <1>1, SameHost, SameAccepted
<1>4. /\ \A src, guarded, units :
           FilePasses(host, src, guarded, units)' <=> FilePasses(host, src, guarded, units)
      /\ \A src, units : HoldsText(host, src, units)' <=> HoldsText(host, src, units)
  BY <1>1, SamePasses
<1>5. Fit' <=> Fit
  BY <1>1, <1>2, <1>3 DEF Fit, Equipped, Agent
<1>6. Assigned' = Assigned
  BY <1>1 DEF Assigned
<1>7. \A x : SecretFile(x)' = SecretFile(x)
  BY <1>1 DEF SecretFile, Agent
<1>8. \A src, units : FilesThere(src, units)' <=> FilesThere(src, units)
  BY <1>3, <1>7 DEF FilesThere, MadeIn
<1>9. FindsUnits' <=> FindsUnits
  BY <1>1, <1>2, <1>4, <1>6, <1>8 DEF FindsUnits
<1>10. \A x, data, direct : ReadSops(x, data, direct)' = ReadSops(x, data, direct)
  BY <1>1 DEF ReadSops, SopsRefClass, FileAt, Agent
<1>11. \A f, units : FileRight(f, units)' <=> FileRight(f, units)
  BY <1>1, <1>2, <1>4, <1>5, <1>8 DEF FileRight, IsProviderRef
<1>12. AssignedCalls(host)' = AssignedCalls(host)
  BY <1>1 DEF AssignedCalls, Templates, Template
<1>13. \A class : MayFail(class)' <=> MayFail(class)
  BY <1>1, <1>2, <1>12 DEF MayFail, Unchecked, IsRefOf
<1> QED
  BY <1>5, <1>6, <1>8, <1>9, <1>10, <1>11, <1>13

\* What a step leaves of it that only goes on, or fails.
LEMMA PartsKept ==
  ASSUME OutcomeInv, SameResolve, run'.set = run.set, run'.units = run.units,
         run'.pending = run.pending, run'.cache = run.cache, run'.direct = run.direct,
         run'.out = run.out
  PROVE  /\ CacheHolds' /\ PendingRead'
         /\ \A x \in DOMAIN run'.direct :
              (run.direct[x] # Blank /\ (IsRefOf("sops", x) => IsOk(ReadSops(x, FALSE, TRUE))))'
         /\ run.pc \in Finishing => \A f \in run'.out : FileRight(f, run.units # {})'
<1>1. CacheHolds'
  BY SameOutcome DEF OutcomeInv, CacheHolds, SameResolve
<1>2. PendingRead'
  <2>1. PICK host : host = run.host
    OBVIOUS
  <2>2. \A x : IsOk(KeylessRead(host, x, FALSE, FALSE))' <=> IsOk(KeylessRead(host, x, FALSE, FALSE))
    BY SameHost DEF SameResolve
  <2> QED
    BY <2>1, <2>2, SameOutcome DEF OutcomeInv, PendingRead, SameResolve, IsRefOf
<1>3. \A x \in DOMAIN run'.direct :
              (run.direct[x] # Blank /\ (IsRefOf("sops", x) => IsOk(ReadSops(x, FALSE, TRUE))))'
  <2>1. \A x \in DOMAIN run.direct :
          run.direct[x] # Blank /\ (IsRefOf("sops", x) => IsOk(ReadSops(x, FALSE, TRUE)))
    BY DEF OutcomeInv, DirectRead
  <2>2. \A x : IsRefOf("sops", x)' <=> IsRefOf("sops", x)
    BY DEF IsRefOf, SameResolve
  <2>3. \A x : ReadSops(x, FALSE, TRUE)' = ReadSops(x, FALSE, TRUE)
    BY SameOutcome
  <2>4. \A x : IsOk(ReadSops(x, FALSE, TRUE))' <=> IsOk(ReadSops(x, FALSE, TRUE))
    BY <2>3 DEF IsOk
  <2> QED
    BY <2>1, <2>2, <2>4
<1>4. ASSUME run.pc \in Finishing
      PROVE  \A f \in run'.out : FileRight(f, run.units # {})'
  <2>1. PICK units : units = (run.units # {})
    OBVIOUS
  <2>2. \A f \in run.out : FileRight(f, units)
    BY <1>4, <2>1 DEF OutcomeInv, FilesRight
  <2>3. \A f \in run.out : FileRight(f, units)'
    BY <2>2, SameOutcome
  <2> QED
    BY <2>1, <2>3
<1> QED
  BY <1>1, <1>2, <1>3, <1>4

LEMMA FailedOutcome ==
  ASSUME OutcomeInv, SameResolve, run'.set = run.set, run'.units = run.units,
         run'.pending = run.pending, run'.cache = run.cache, run'.direct = run.direct,
         run'.out = run.out, run'.pc = "failed", Fit => MayFail(run'.err.class)
  PROVE  OutcomeInv'
<1>1. PICK host : host = run.host
  OBVIOUS
<1>2. HostSet(host)' = HostSet(host)
  BY SameHost DEF SameResolve
<1>3. Found'
  BY <1>1, <1>2 DEF OutcomeInv, Found, SameResolve, Reading, Finishing, Starting, Rendering
<1>4. "failed" \notin Finishing /\ \A p \in SchemeSet : "failed" \notin Past(p)
  BY PastIs DEF Finishing
<1>5. DirectRead'
  BY <1>4, PartsKept DEF DirectRead, Past
<1>6. FilesRight' /\ Ends'
  BY <1>4 DEF FilesRight, Ends
<1>7. FailsFew'
  <2>1. PICK class : class = run'.err.class
    OBVIOUS
  <2> QED
    BY <2>1, SameOutcome DEF FailsFew
<1> QED
  BY <1>3, <1>5, <1>6, <1>7, PartsKept DEF OutcomeInv

LEMMA AdvancedOutcome ==
  ASSUME OutcomeInv, SameResolve, run'.set = run.set, run'.units = run.units,
         run'.pending = run.pending, run'.cache = run.cache, run'.direct = run.direct,
         run'.out = run.out, \/ run'.pc = run.pc /\ run'.err = run.err
                             \/ {run.pc, run'.pc} \subseteq Finishing,
         Ends'
  PROVE  OutcomeInv'
<1>1. PICK host : host = run.host
  OBVIOUS
<1>2. HostSet(host)' = HostSet(host)
  BY SameHost DEF SameResolve
<1>3. Found'
  BY <1>1, <1>2, SameOutcome
     DEF OutcomeInv, Found, SameResolve, Reading, Finishing, Starting, Rendering
<1>4. \A p \in SchemeSet : run'.pc \in Past(p) <=> run.pc \in Past(p)
  BY PastIs
<1>5. DirectRead'
  <2>1. ASSUME NEW p \in SchemeSet, run'.pc \in Past(p), NEW r \in Assigned, IsRefOf(p, r.src)
        PROVE  r.src \in DOMAIN run'.direct \/ Skippable(r)
    BY <1>4, <2>1 DEF OutcomeInv, DirectRead
  <2> QED
    BY <2>1, SameSkippable, PartsKept DEF DirectRead, Past
<1>6. FilesRight'
  <2>1. PICK units : units = (run.units # {})
    OBVIOUS
  <2>2. run'.pc \in Finishing => run.pc \in Finishing
    OBVIOUS
  <2> QED
    BY <2>1, <2>2, PartsKept DEF FilesRight
<1>7. FailsFew'
  <2>1. PICK class : class = run.err.class
    OBVIOUS
  <2> QED
    BY <2>1, SameOutcome DEF OutcomeInv, FailsFew, Finishing
<1> QED
  BY <1>3, <1>5, <1>6, <1>7, PartsKept DEF OutcomeInv

\* Nothing of a resolve's direct secrets is known as it starts or collects.
LEMMA PastStarts ==
  ASSUME NEW p \in SchemeSet
  PROVE  {"idle", "expand", "collect", "resolve", "resolve pp", "resolve sops", "direct", "failed"}
           \cap Past(p) = {}
<1>1. Past(p) \subseteq {"direct pp", "direct sops"} \cup {"build", "analyze", "done"}
  BY PastIs DEF Finishing
<1> QED
  BY <1>1

\* A resolve that begins, or none.
LEMMA BegunOutcome ==
  ASSUME F' = F, NEW mode, NEW host, NEW set, run' = Begun(mode, host, set),
         mode = "agent" => set = HostSet(host)
  PROVE  OutcomeInv'
<1>1. /\ run'.mode = mode /\ run'.host = host /\ run'.set = set /\ run'.pc = "expand"
      /\ run'.units = {} /\ run'.pending = {} /\ run'.cache = << >> /\ run'.direct = << >>
      /\ run'.out = {}
  BY DEF Begun, Idle
<1>2. DOMAIN << >> = {}
  OBVIOUS
<1>3. HostSet(host)' = HostSet(host)
  BY SameHost
<1>4. "expand" \notin Reading \cup Finishing \cup Rendering
  BY DEF Reading, Finishing, Rendering
<1>5. \A p \in SchemeSet : "expand" \notin Past(p)
  BY PastStarts
<1>6. Found'
  BY <1>1, <1>3, <1>4 DEF Found
<1>7. CacheHolds' /\ DirectRead'
  BY <1>1, <1>2, <1>5 DEF CacheHolds, DirectRead, Past
<1> QED
  BY <1>1, <1>4, <1>6, <1>7 DEF OutcomeInv, PendingRead, FilesRight, Ends, FailsFew

LEMMA IdleOutcome ==
  ASSUME F' = F, run' = Idle
  PROVE  OutcomeInv'
<1>1. /\ run'.mode = "none" /\ run'.pc = "idle" /\ run'.units = {} /\ run'.pending = {}
      /\ run'.cache = << >> /\ run'.direct = << >> /\ run'.out = {}
  BY DEF Idle
<1>2. DOMAIN << >> = {}
  OBVIOUS
<1>3. "idle" \notin Reading \cup Finishing \cup Rendering
  BY DEF Reading, Finishing, Rendering
<1>4. \A p \in SchemeSet : "idle" \notin Past(p)
  BY PastStarts
<1>5. Found'
  BY <1>1, <1>3 DEF Found
<1>6. CacheHolds' /\ DirectRead'
  BY <1>1, <1>2, <1>4 DEF CacheHolds, DirectRead, Past
<1> QED
  BY <1>1, <1>3, <1>5, <1>6 DEF OutcomeInv, PendingRead, FilesRight, Ends, FailsFew

LEMMA OutcomeInit ==
  ASSUME Init
  PROVE  OutcomeInv
<1>1. /\ run.mode = "none" /\ run.pc = "idle" /\ run.units = {} /\ run.pending = {}
      /\ run.cache = << >> /\ run.direct = << >> /\ run.out = {}
  BY DEF Init, Idle
<1>2. DOMAIN << >> = {}
  OBVIOUS
<1>3. "idle" \notin Reading \cup Finishing \cup Rendering
  BY DEF Reading, Finishing, Rendering
<1>4. \A p \in SchemeSet : "idle" \notin Past(p)
  BY PastStarts
<1>5. Found
  BY <1>1, <1>3 DEF Found
<1>6. CacheHolds /\ DirectRead
  BY <1>1, <1>2, <1>4 DEF CacheHolds, DirectRead
<1> QED
  BY <1>1, <1>3, <1>5, <1>6 DEF OutcomeInv, PendingRead, FilesRight, Ends, FailsFew, Fit

\* The assigned files of an Agent or of a Host that is validated are the Host's.
LEMMA AssignedAre ==
  ASSUME ResolveInv, OutcomeInv, run.mode \in {"validate", "agent"}
  PROVE  run.set = HostSet(run.host) /\ Assigned = HostFiles(run.host)
BY DEF ResolveInv, Shape, OutcomeInv, Found, HostSet, HostFiles, Assigned

LEMMA ExpandOutcome ==
  ASSUME ResolveInv, OutcomeInv, F' = F, ExpandAndValidate
  PROVE  OutcomeInv'
<1>1. run.pc = "expand" /\ DOMAIN run = Fields
  BY DEF ExpandAndValidate, Done, ResolveInv, Shape
<1>2. CASE Fail(Err("expand")) /\ (ExpandFails(F, run.set) \/ DestFails(F, Assigned)
                                    \/ Collides(F, Assigned))
  <2>1. /\ SameResolve /\ run'.set = run.set /\ run'.units = run.units
        /\ run'.pending = run.pending /\ run'.cache = run.cache /\ run'.direct = run.direct
        /\ run'.out = run.out /\ run'.pc = "failed"
    BY <1>1, <1>2 DEF Fail, Fields, SameResolve
  <2>2. ~Fit
    BY <1>2, AssignedAre DEF Fit, Accepted
  <2> QED
    BY <2>1, <2>2, FailedOutcome
<1>3. CASE run' = [run EXCEPT !.todo = Assigned, !.pc = "collect"]
           /\ ~DestFails(F, Assigned)
  <2>1. /\ SameResolve /\ run'.set = run.set /\ run'.units = run.units
        /\ run'.pending = run.pending /\ run'.cache = run.cache /\ run'.direct = run.direct
        /\ run'.out = run.out /\ run'.pc = "collect" /\ run'.err = run.err
    BY <1>1, <1>3 DEF Fields, SameResolve
  <2>2. PICK host : host = run.host
    OBVIOUS
  <2>3. HostSet(host)' = HostSet(host)
    BY <2>1, SameHost DEF SameResolve
  <2>4. run.units = {}
    BY <1>1 DEF OutcomeInv, Found, Starting
  <2>5. "collect" \notin Finishing \cup Rendering /\ \A p \in SchemeSet : "collect" \notin Past(p)
    BY PastStarts DEF Finishing, Rendering
  <2>6. Assigned' = Assigned
    BY <2>1, SameOutcome
  <2>7. Found'
    BY <1>3, <2>1, <2>2, <2>3, <2>4, <2>5, <2>6 DEF OutcomeInv, Found, SameResolve
  <2>8. DirectRead'
    BY <2>1, <2>5, PartsKept DEF DirectRead, Past
  <2>9. FilesRight' /\ Ends' /\ FailsFew'
    BY <2>1, <2>5 DEF FilesRight, Ends, FailsFew, Finishing
  <2> QED
    BY <2>1, <2>7, <2>8, <2>9, PartsKept DEF OutcomeInv
<1> QED
  BY <1>2, <1>3 DEF ExpandAndValidate, Assigned
\* What the first pass finds: the Host's units, and refs that are read.
LEMMA CollectOutcome ==
  ASSUME ResolveInv, OutcomeInv, F' = F, Collect
  PROVE  OutcomeInv'
<1>1. /\ run.pc = "collect" /\ DOMAIN run = Fields /\ FleetWellFormed(F) /\ MaxDepth \in Nat
      /\ CacheSound /\ run.todo = Assigned /\ run.units = {} /\ ~ExpandFails(F, run.set)
      /\ run.out = {}
  BY ResolverAssumption
     DEF Collect, Done, ResolveInv, Shape, Gathered, Reading, Expands, OutcomeInv, Found
<1>2. run' = CollectFrom(Collected)
  BY DEF Collect
<1>3. /\ SameResolve /\ run'.set = run.set /\ run'.pc = "resolve" /\ run'.units = Units
      /\ run'.cache = run.cache /\ run'.direct = run.direct /\ run'.out = run.out
      /\ run'.pending = UNION {st.pending : st \in Collected}
  BY <1>1, <1>2 DEF CollectFrom, Fields, SameResolve
<1>4. PICK host : host = run.host
  OBVIOUS
<1>5. /\ "resolve" \in Reading \cap Rendering /\ "collect" \in Reading
      /\ "resolve" \notin Finishing \cup Starting \cup {"collect"}
  BY DEF Reading, Rendering, Finishing, Starting
<1>6. Assigned' = Assigned /\ (Fit' <=> Fit) /\ (FindsUnits' <=> FindsUnits)
  BY <1>3, SameOutcome
<1>7. ~Strict => (Units # {} <=> FindsUnits)
  <2> SUFFICES ASSUME ~Strict
               PROVE  Units # {} <=> FindsUnits
    OBVIOUS
  <2>1. PICK units : units = (run.units # {})
    OBVIOUS
  <2>2. units = FALSE
    BY <1>1, <2>1
  <2>3. \A src : RenderOrRead(src, TRUE, {}).err = NoErr
                   <=> FilePasses(host, src, TRUE, units) /\ FilesThere(src, units)
    BY <1>1, <2>1, GuardedRender
  <2>4. \A src : RenderOrRead(src, TRUE, {}).err = NoErr
                   <=> FilePasses(host, src, TRUE, FALSE) /\ FilesThere(src, FALSE)
    BY <2>2, <2>3
  <2>5. ASSUME NEW r \in Assigned
        PROVE  /\ UnitNaming(r.category) = "generated" /\ RenderOrRead(r.src, TRUE, {}).err = NoErr
                    /\ F.tree[r.src].unit # ""
               <=> /\ UnitNaming(r.category) = "generated" /\ F.tree[r.src].unit # ""
                   /\ FilePasses(run.host, r.src, TRUE, FALSE) /\ FilesThere(r.src, FALSE)
    BY <1>4, <2>4
  <2>6. Units # {} <=> \E r \in Assigned :
          \/ UnitNaming(r.category) = "file"
          \/ /\ UnitNaming(r.category) = "generated" /\ RenderOrRead(r.src, TRUE, {}).err = NoErr
             /\ F.tree[r.src].unit # ""
    BY <1>1 DEF Units
  <2> QED
    BY <2>5, <2>6, Zenon DEF FindsUnits
<1>8. Found'
  <2>1. HostSet(host)' = HostSet(host)
    BY <1>3, SameHost DEF SameResolve
  <2>2. run'.mode = "agent" => run'.set = HostSet(run.host)'
    BY <1>3, <1>4, <2>1 DEF OutcomeInv, Found, SameResolve
  <2>3. ~DestFails(F, Assigned)'
    BY <1>1, <1>3, <1>5, <1>6 DEF OutcomeInv, Found, SameResolve
  <2> QED
    BY <1>3, <1>5, <1>6, <1>7, <2>2, <2>3 DEF Found, SameResolve, Strict
<1>9. PendingRead'
  <2> SUFFICES ASSUME Fit, NEW x \in run'.pending, IsRefOf("sops", x)
               PROVE  IsOk(KeylessRead(host, x, FALSE, FALSE))'
    BY <1>3, <1>4, <1>6 DEF PendingRead, IsRefOf, SameResolve
  <2>1. PICK r \in Assigned : /\ Template(r.src) /\ ~Guarded(r)
                              /\ x \in RenderOrRead(r.src, FALSE, {}).pending
    <3>1. PICK st \in Collected : x \in st.pending
      BY <1>3
    <3>2. PICK r \in Assigned : Template(r.src) /\ ~Guarded(r) /\ st = RenderOrRead(r.src, FALSE, {})
      BY <1>1, <3>1 DEF Collected
    <3> QED
      BY <3>1, <3>2
  <2>2. r \in HostFiles(host) /\ Accepted(host) /\ ~Strict
    BY <1>4, <2>1, AssignedAre DEF Fit, Strict
  <2>3. ~IsProviderRef(F, r.src)
    BY <1>1, <2>1 DEF Template, IsProviderRef, FleetWellFormed
  <2>4. FilePasses(host, r.src, Guarded(r), HasUnits(host))
    BY <2>2, <2>3 DEF Accepted, RefAccepted
  <2>5. Guarded(r) = FALSE
    BY <2>1 DEF Guarded
  <2>6. PICK most : most = HasUnits(host)
    OBVIOUS
  <2>7. FilePasses(host, r.src, FALSE, FALSE)
    BY <2>4, <2>5, <2>6, FewerPass
  <2>8. PICK units : units = (run.units # {})
    OBVIOUS
  <2>9. FilePasses(host, r.src, FALSE, units)
    BY <1>1, <2>7, <2>8
  <2>10. IsOk(KeylessRead(host, x, FALSE, FALSE))
    BY <1>1, <2>1, <2>2, <2>8, <2>9, CollectedReads
  <2> QED
    BY <1>3, <2>10, SameHost DEF SameResolve
<1>10. \A x, data, direct : ReadSops(x, data, direct)' = ReadSops(x, data, direct)
  BY <1>3, SameOutcome
<1>11. CacheHolds'
  BY <1>3, <1>10 DEF OutcomeInv, CacheHolds, SameResolve
<1>12. DirectRead'
  <2>1. \A x \in DOMAIN run'.direct :
              (run.direct[x] # Blank /\ (IsRefOf("sops", x) => IsOk(ReadSops(x, FALSE, TRUE))))'
    BY <1>3, <1>10 DEF OutcomeInv, DirectRead, IsRefOf, SameResolve
  <2>2. \A p \in SchemeSet : run'.pc \notin Past(p)
    BY <1>3, PastStarts
  <2> QED
    BY <2>1, <2>2 DEF DirectRead, Past
<1>13. FilesRight' /\ Ends' /\ FailsFew'
  BY <1>3, <1>5 DEF FilesRight, Ends, FailsFew
<1> QED
  BY <1>8, <1>9, <1>11, <1>12, <1>13 DEF OutcomeInv
\* Of the same Host what is found, what is to be read and what was stays.
LEMMA FoundKept ==
  ASSUME OutcomeInv, SameResolve, run'.set = run.set, run'.units = run.units,
         {run.pc, run'.pc} \subseteq Rendering
  PROVE  Found'
<1>1. PICK host : host = run.host
  OBVIOUS
<1>2. HostSet(host)' = HostSet(host)
  BY SameHost DEF SameResolve
<1>3. Assigned' = Assigned /\ (FindsUnits' <=> FindsUnits)
  BY SameOutcome
<1>4. Rendering \subseteq Reading \cup Finishing /\ Rendering \cap (Starting \cup {"collect"}) = {}
  BY DEF Rendering, Reading, Finishing, Starting
<1>5. run'.mode = "agent" => run'.set = HostSet(run.host)'
  BY <1>1, <1>2 DEF OutcomeInv, Found, SameResolve
<1>6. ~DestFails(F, Assigned)'
  BY <1>3, <1>4 DEF OutcomeInv, Found, SameResolve
<1>7. run'.mode # "bundle" => (run'.units # {} <=> FindsUnits')
  BY <1>3 DEF OutcomeInv, Found, SameResolve
<1> QED
  BY <1>4, <1>5, <1>6, <1>7 DEF Found

LEMMA PendingKept ==
  ASSUME OutcomeInv, SameResolve, run'.set = run.set, run'.pending = run.pending
  PROVE  PendingRead'
<1>1. PICK host : host = run.host
  OBVIOUS
<1>2. \A x : IsOk(KeylessRead(host, x, FALSE, FALSE))' <=> IsOk(KeylessRead(host, x, FALSE, FALSE))
  BY SameHost DEF SameResolve
<1>3. Fit' <=> Fit
  BY SameOutcome
<1> QED
  BY <1>1, <1>2, <1>3 DEF OutcomeInv, PendingRead, SameResolve, IsRefOf

LEMMA DirectKept ==
  ASSUME OutcomeInv, SameResolve, run'.set = run.set, run'.direct = run.direct
  PROVE  \A x \in DOMAIN run'.direct :
           (run.direct[x] # Blank /\ (IsRefOf("sops", x) => IsOk(ReadSops(x, FALSE, TRUE))))'
<1>1. \A x, data, direct : ReadSops(x, data, direct)' = ReadSops(x, data, direct)
  BY SameOutcome
<1> QED
  BY <1>1 DEF OutcomeInv, DirectRead, IsRefOf, SameResolve

\* A vault fails as a provider does.
LEMMA VaultReads ==
  ASSUME NEW x, NEW down
  PROVE  /\ ~IsOk(ReadVault(x, down)) => ReadVault(x, down).class = "provider"
         /\ IsOk(ReadVault(x, down)) => ReadVault(x, down).value.what = "secret"
<1>1. /\ \A c : Failed(c).class = c /\ (IsOk(Failed(c)) <=> c = "ok")
      /\ \A v : IsOk(Got(v)) /\ Got(v).value = v
  BY DEF Failed, Got, IsOk
<1>2. \A at : Secret(x, at).what = "secret"
  BY DEF Secret
<1>3. ReadVault(x, down) \in {Failed("provider"), Got(Secret(x, vault[x]))}
  BY DEF ReadVault
<1> QED
  BY <1>1, <1>2, <1>3

\* What the batched calls read.
LEMMA ResolveCacheOutcome ==
  ASSUME ResolveInv, OutcomeInv, F' = F, NEW scheme, NEW from, NEW to,
         \/ scheme = "op" /\ from = "resolve" /\ to = "resolve pp"
         \/ scheme = "pp" /\ from = "resolve pp" /\ to = "resolve sops"
         \/ scheme = "sops" /\ from = "resolve sops" /\ to = "direct",
         ResolveCacheOf(scheme, from, to)
  PROVE  OutcomeInv'
<1> DEFINE refs == RefsOf(run.pending, scheme)
           read == Reads(scheme, refs)
<1>1. /\ scheme \in SchemeSet /\ run.pc = from /\ DOMAIN run = Fields /\ F \in Fleets
      /\ refs \subseteq DOMAIN F.refs /\ refs \subseteq run.pending
      /\ \A x \in refs : IsRefOf(scheme, x)
  <2>1. run.pc = from /\ scheme \in SchemeSet
    BY DEF ResolveCacheOf, Done, SchemeSet
  <2>2. DOMAIN run = Fields /\ F \in Fleets
    BY DEF ResolveInv, Shape
  <2>3. refs \subseteq run.pending /\ \A x \in refs : F.refs[x].scheme = scheme
    BY DEF RefsOf
  <2>4. run.pending \subseteq DOMAIN F.refs
    BY DEF ResolveInv, Gathered
  <2> HIDE DEF refs
  <2> QED
    BY <2>1, <2>2, <2>3, <2>4 DEF IsRefOf
<1>2. /\ DOMAIN read = Fields
      /\ \A x \in Fields \ {"reached", "opened", "asked"} : read[x] = run[x]
  <2>1. DOMAIN run = Fields
    BY <1>1
  <2> HIDE DEF refs
  <2> QED
    BY <2>1, ReadsKeeps
<1>3. PICK down \in Down :
        LET results == Batch(scheme, refs, FALSE, down)
        IN  IF Classes(results) # {}
            THEN \E class \in Classes(results) :
                   run' = [read EXCEPT !.pc = "failed", !.err = Err(class)]
            ELSE run' = [read EXCEPT !.cache = Learned(@, results),
                                     !.resolved = Resolved(scheme, refs), !.pc = to]
  BY DEF ResolveCacheOf
<1> DEFINE results == Batch(scheme, refs, FALSE, down)
<1>4. /\ DOMAIN results = refs
      /\ \A x \in refs : results[x] = IF scheme = "sops" THEN ReadSops(x, FALSE, FALSE)
                                      ELSE ReadVault(x, down)
  BY DEF Batch
<1> HIDE DEF refs, read, results
<1>5. CASE \E class \in Classes(results) : run' = [read EXCEPT !.pc = "failed", !.err = Err(class)]
  <2>1. PICK class \in Classes(results) : run' = [read EXCEPT !.pc = "failed", !.err = Err(class)]
    BY <1>5
  <2>2. /\ SameResolve /\ run'.set = run.set /\ run'.units = run.units
        /\ run'.pending = run.pending /\ run'.cache = run.cache /\ run'.direct = run.direct
        /\ run'.out = run.out /\ run'.pc = "failed" /\ run'.err = Err(class)
    BY <1>2, <2>1 DEF Fields, SameResolve
  <2>3. PICK x \in refs : class = results[x].class /\ class # "ok"
    BY <1>4 DEF Classes
  <2>4. ASSUME Fit
        PROVE  class \in {"edited", "provider"}
    <3>1. CASE scheme = "sops"
      <4>1. IsOk(KeylessRead(run.host, x, FALSE, FALSE)) /\ x \in DOMAIN F.refs
        BY <1>1, <2>3, <2>4, <3>1 DEF OutcomeInv, PendingRead
      <4>2. ReadSops(x, FALSE, FALSE).class \in {"ok", "edited"}
        BY <1>1, <2>4, <4>1, KeylessReadIsRead DEF Fit, Equipped
      <4> QED
        BY <1>4, <2>3, <3>1, <4>2
    <3>2. CASE scheme # "sops"
      <4>1. results[x] = ReadVault(x, down)
        BY <1>4, <2>3, <3>2
      <4>2. ~IsOk(ReadVault(x, down))
        BY <2>3, <4>1 DEF IsOk
      <4> QED
        BY <2>3, <4>1, <4>2, VaultReads
    <3> QED
      BY <3>1, <3>2
  <2>5. run'.err.class = class
    <3>1. \A c : Err(c).class = c
      BY DEF Err
    <3> QED
      BY <2>2, <3>1
  <2>6. Fit => MayFail(run'.err.class)
    BY <2>4, <2>5 DEF MayFail
  <2> QED
    BY <2>2, <2>6, FailedOutcome
<1>6. CASE /\ Classes(results) = {}
           /\ run' = [read EXCEPT !.cache = Learned(@, results),
                                  !.resolved = Resolved(scheme, refs), !.pc = to]
  <2>1. /\ SameResolve /\ run'.set = run.set /\ run'.units = run.units
        /\ run'.pending = run.pending /\ run'.cache = Learned(run.cache, results)
        /\ run'.direct = run.direct /\ run'.out = run.out /\ run'.pc = to
    BY <1>2, <1>6 DEF Fields, SameResolve
  <2>2. \A x \in refs : IsOk(results[x])
    BY <1>4, <1>6 DEF Classes, IsOk
  <2>3. /\ DOMAIN run'.cache = DOMAIN run.cache \cup refs
        /\ \A x \in DOMAIN run.cache : run'.cache[x] = run.cache[x]
        /\ \A x \in refs \ DOMAIN run.cache : run'.cache[x] = results[x].value
    BY <1>4, <2>1 DEF Learned
  <2>4. \A x, data, direct : ReadSops(x, data, direct)' = ReadSops(x, data, direct)
    BY <2>1, SameOutcome
  <2>5. ASSUME NEW x \in DOMAIN run'.cache
        PROVE  IF F.refs[x].scheme = "sops"
               THEN IsOk(ReadSops(x, FALSE, FALSE)) /\ run'.cache[x] = ReadSops(x, FALSE, FALSE).value
               ELSE run'.cache[x].what = "secret"
    <3>1. CASE x \in DOMAIN run.cache
      BY <2>3, <3>1 DEF OutcomeInv, CacheHolds
    <3>2. CASE x \in refs \ DOMAIN run.cache
      <4>1. run'.cache[x] = results[x].value /\ IsOk(results[x]) /\ F.refs[x].scheme = scheme
        BY <1>1, <2>2, <2>3, <3>2 DEF IsRefOf
      <4>2. CASE scheme = "sops"
        BY <1>4, <3>2, <4>1, <4>2
      <4>3. CASE scheme # "sops"
        <5>1. results[x] = ReadVault(x, down)
          BY <1>4, <3>2, <4>3
        <5> QED
          BY <4>1, <4>3, <5>1, VaultReads
      <4> QED
        BY <4>2, <4>3
    <3> QED
      BY <2>3, <3>1, <3>2
  <2>6. CacheHolds'
    BY <2>1, <2>4, <2>5 DEF CacheHolds, SameResolve
  <2>7. {from, to} \subseteq Rendering /\ to \notin Finishing \cup {"failed"}
    BY DEF Rendering, Finishing
  <2>8. Found' /\ PendingRead'
    BY <1>1, <2>1, <2>7, FoundKept, PendingKept
  <2>9. DirectRead'
    <3>1. \A p \in SchemeSet : run'.pc \notin Past(p)
      BY <2>1, PastStarts
    <3> QED
      BY <2>1, <3>1, DirectKept DEF DirectRead, Past
  <2>10. FilesRight' /\ Ends' /\ FailsFew'
    BY <2>1, <2>7 DEF FilesRight, Ends, FailsFew, Finishing
  <2> QED
    BY <2>6, <2>8, <2>9, <2>10 DEF OutcomeInv
<1> QED
  BY <1>3, <1>5, <1>6 DEF results
\* No read for a direct secret returns blank.
LEMMA DirectIsText ==
  ASSUME NEW x, IsOk(ReadSops(x, FALSE, TRUE))
  PROVE  ReadSops(x, FALSE, TRUE).value # Blank
<1> DEFINE f == FileAt(F.refs[x].path)
           r == [path |-> x, ptr |-> F.refs[x].ptr]
           read == ReadSops(x, FALSE, TRUE)
<1>1. /\ \A c : Failed(c).class = c /\ (IsOk(Failed(c)) <=> c = "ok")
      /\ \A v : IsOk(Got(v)) /\ Got(v).value = v
  BY DEF Failed, Got, IsOk
<1>2. ASSUME NEW result, IsOk(NotEmpty(TRUE, result))
      PROVE  NotEmpty(TRUE, result).value # Blank
  BY <1>1, <1>2 DEF NotEmpty
<1>3. \/ read = Failed(SopsRefClass(x)) /\ SopsRefClass(x) # "ok"
      \/ \E rs : read = Keyless(f, rs, r, FALSE, TRUE)
      \/ \E ids : read = Decrypted(f, ids, r, FALSE, TRUE)
  BY DEF ReadSops
<1> HIDE DEF f, r, read
<1>4. ASSUME NEW rs, read = Keyless(f, rs, r, FALSE, TRUE), IsOk(read)
      PROVE  \E result : read = NotEmpty(TRUE, result)
  BY <1>1, <1>4 DEF Keyless, ForHost
<1>5. ASSUME NEW ids, read = Decrypted(f, ids, r, FALSE, TRUE), IsOk(read)
      PROVE  \E result : read = NotEmpty(TRUE, result)
  BY <1>1, <1>5 DEF Decrypted
<1>6. IsOk(read)
  BY DEF read
<1>7. \E result : read = NotEmpty(TRUE, result)
  BY <1>1, <1>3, <1>4, <1>5, <1>6
<1> QED
  BY <1>2, <1>6, <1>7 DEF read

\* The direct secrets of one provider are read, or skipped.
LEMMA ResolveDirectOutcome ==
  ASSUME ResolveInv, OutcomeInv, F' = F, NEW scheme, NEW from, NEW to,
         \/ scheme = "op" /\ from = "direct" /\ to = "direct pp"
         \/ scheme = "pp" /\ from = "direct pp" /\ to = "direct sops"
         \/ scheme = "sops" /\ from = "direct sops" /\ to = "build",
         ResolveDirect(scheme, from, to)
  PROVE  OutcomeInv'
<1> DEFINE refs  == DirectRefs(scheme)
           class == DirectClass(scheme)
           read  == Reads(scheme, refs)
<1>1. /\ scheme \in SchemeSet /\ run.pc = from /\ DOMAIN run = Fields /\ F \in Fleets
      /\ run.out = {} /\ run.todo = Assigned
      /\ refs \subseteq DOMAIN F.refs /\ \A x \in refs : IsRefOf(scheme, x)
  <2>1. run.pc = from /\ scheme \in SchemeSet /\ from \in Reading
    BY DEF ResolveDirect, Done, SchemeSet, Reading
  <2>2. \A x \in refs : IsRefOf(scheme, x)
    BY DEF DirectRefs
  <2>3. refs \subseteq DOMAIN F.refs
    BY <2>2 DEF IsRefOf
  <2> HIDE DEF refs
  <2> QED
    BY <2>1, <2>2, <2>3 DEF ResolveInv, Shape
<1>2. /\ DOMAIN read = Fields
      /\ \A x \in Fields \ {"reached", "opened", "asked"} : read[x] = run[x]
  <2>1. DOMAIN run = Fields
    BY <1>1
  <2> HIDE DEF refs
  <2> QED
    BY <2>1, ReadsKeeps
<1>3. \A r \in Assigned : IsRefOf(scheme, r.src) => r.src \in refs
  BY <1>1 DEF DirectRefs
<1>4. ASSUME Fit, NEW x \in refs
      PROVE  /\ class = "ready"
             /\ scheme = "sops" => ReadSops(x, FALSE, TRUE).class \in {"ok", "edited"}
  <2>1. run.mode = "agent" /\ Equipped /\ ~Strict
    BY <1>4 DEF Fit, Strict
  <2>2. CASE scheme = "sops"
    <3>1. PICK r \in Assigned : r.src = x /\ IsRefOf("sops", r.src)
      BY <1>1, <1>4, <2>2 DEF DirectRefs
    <3>2. RefAccepted(run.host, r)
      BY <1>4, <2>1, <3>1, AssignedAre DEF Fit, Accepted
    <3>3. IsProviderRef(F, r.src) /\ x \in DOMAIN F.refs
      BY <3>1 DEF IsProviderRef, IsRefOf
    <3>4. IsOk(KeylessRead(run.host, x, FALSE, TRUE))
      BY <3>1, <3>2, <3>3 DEF RefAccepted
    <3>5. Agent.ids # {} /\ ReadSops(x, FALSE, TRUE).class \in {"ok", "edited"}
      BY <1>1, <2>1, <3>3, <3>4, KeylessReadIsRead DEF Equipped
    <3> QED
      BY <2>1, <2>2, <3>5 DEF DirectClass, HasReader
  <2>3. CASE scheme # "sops"
    <3>1. scheme \in {"op", "pp"}
      BY <1>1, <2>3 DEF SchemeSet
    <3>2. HasReader(scheme)
      BY <2>1, <2>3, <3>1 DEF HasReader, Equipped, WithoutKey
    <3> QED
      BY <2>3, <3>2 DEF DirectClass
  <2> QED
    BY <2>2, <2>3
<1>5. class = "skipped" => scheme \in {"op", "pp"} /\ ~HasReader(scheme)
  BY <1>1 DEF DirectClass, SchemeSet
<1>6. \A p \in SchemeSet : to \in Past(p) => p = scheme \/ from \in Past(p)
  BY PastIs DEF Finishing, SchemeSet
<1>7. {from, to} \subseteq Rendering /\ to \notin {"analyze", "done", "failed"}
  BY DEF Rendering, Finishing
<1> HIDE DEF refs, class, read
<1>8. ASSUME SameResolve, run'.set = run.set, run'.units = run.units, run'.pending = run.pending,
             run'.cache = run.cache, run'.out = run.out, run'.pc = to,
             DOMAIN run.direct \subseteq DOMAIN run'.direct,
             \A x \in DOMAIN run'.direct :
               (run.direct[x] # Blank /\ (IsRefOf("sops", x) => IsOk(ReadSops(x, FALSE, TRUE))))',
             \A r \in Assigned :
               IsRefOf(scheme, r.src) => r.src \in DOMAIN run'.direct \/ Skippable(r)
      PROVE  OutcomeInv'
  <2>1. Found' /\ PendingRead'
    BY <1>1, <1>7, <1>8, FoundKept, PendingKept
  <2>2. \A x, data, direct : ReadSops(x, data, direct)' = ReadSops(x, data, direct)
    BY <1>8, SameOutcome
  <2>3. CacheHolds'
    BY <1>8, <2>2 DEF OutcomeInv, CacheHolds, SameResolve
  <2>4. ASSUME NEW p \in SchemeSet, to \in Past(p), NEW r \in Assigned, IsRefOf(p, r.src)
        PROVE  r.src \in DOMAIN run'.direct \/ Skippable(r)
    <3>1. CASE p = scheme
      BY <1>8, <2>4, <3>1
    <3>2. CASE from \in Past(p)
      BY <1>1, <1>8, <2>4, <3>2 DEF OutcomeInv, DirectRead
    <3> QED
      BY <1>6, <2>4, <3>1, <3>2
  <2>5. DirectRead'
    BY <1>8, <2>4, SameSkippable DEF DirectRead, Past
  <2>6. FilesRight' /\ Ends' /\ FailsFew'
    BY <1>1, <1>7, <1>8 DEF FilesRight, Ends, FailsFew
  <2> QED
    BY <2>1, <2>3, <2>5, <2>6 DEF OutcomeInv
<1>9. CASE (refs = {} \/ class = "skipped") /\ run' = [run EXCEPT !.pc = to]
  <2>1. /\ SameResolve /\ run'.set = run.set /\ run'.units = run.units
        /\ run'.pending = run.pending /\ run'.cache = run.cache /\ run'.direct = run.direct
        /\ run'.out = run.out /\ run'.pc = to
    BY <1>1, <1>9 DEF Fields, SameResolve
  <2>2. \A x \in DOMAIN run'.direct :
               (run.direct[x] # Blank /\ (IsRefOf("sops", x) => IsOk(ReadSops(x, FALSE, TRUE))))'
    BY <2>1, DirectKept
  <2>3. \A r \in Assigned : IsRefOf(scheme, r.src) => Skippable(r)
    BY <1>3, <1>5, <1>9 DEF Skippable
  <2> QED
    BY <1>8, <2>1, <2>2, <2>3
<1>10. ASSUME NEW c, run' = [run EXCEPT !.pc = "failed", !.err = Err(c)] \/
                     run' = [read EXCEPT !.pc = "failed", !.err = Err(c)],
              Fit => MayFail(c)
       PROVE  OutcomeInv'
  <2>1. /\ SameResolve /\ run'.set = run.set /\ run'.units = run.units
        /\ run'.pending = run.pending /\ run'.cache = run.cache /\ run'.direct = run.direct
        /\ run'.out = run.out /\ run'.pc = "failed" /\ run'.err = Err(c)
    <3>1. CASE run' = [run EXCEPT !.pc = "failed", !.err = Err(c)]
      BY <1>1, <3>1 DEF Fields, SameResolve
    <3>2. CASE run' = [read EXCEPT !.pc = "failed", !.err = Err(c)]
      BY <1>1, <1>2, <3>2 DEF Fields, SameResolve
    <3> QED
      BY <1>10, <3>1, <3>2
  <2>2. run'.err.class = c
    <3>1. \A d : Err(d).class = d
      BY DEF Err
    <3> QED
      BY <2>1, <3>1
  <2> QED
    BY <1>10, <2>1, <2>2, FailedOutcome
<1>11. CASE refs # {} /\ class # "ready" /\ Fail(Err(class))
  <2>1. run' = [run EXCEPT !.pc = "failed", !.err = Err(class)]
    BY <1>11 DEF Fail
  <2>2. ~Fit
    BY <1>4, <1>11
  <2> QED
    BY <1>10, <2>1, <2>2
<1>12. ASSUME NEW down \in Down,
              LET results == Batch(scheme, refs, TRUE, down)
              IN  IF Classes(results) # {}
                  THEN \E c \in Classes(results) :
                         run' = [read EXCEPT !.pc = "failed", !.err = Err(c)]
                  ELSE run' = [read EXCEPT !.direct = Learned(@, results),
                                           !.given = TRUE, !.pc = to]
       PROVE  OutcomeInv'
  <2> DEFINE results == Batch(scheme, refs, TRUE, down)
  <2>1. /\ DOMAIN results = refs
        /\ \A x \in refs : results[x] = IF scheme = "sops" THEN ReadSops(x, FALSE, TRUE)
                                        ELSE ReadVault(x, down)
    BY DEF Batch
  <2>2. \/ \E c \in Classes(results) : run' = [read EXCEPT !.pc = "failed", !.err = Err(c)]
        \/ /\ Classes(results) = {}
           /\ run' = [read EXCEPT !.direct = Learned(@, results), !.given = TRUE, !.pc = to]
    BY <1>12
  <2> HIDE DEF results
  <2>3. ASSUME NEW c \in Classes(results), run' = [read EXCEPT !.pc = "failed", !.err = Err(c)]
        PROVE  OutcomeInv'
    <3>1. PICK x \in refs : c = results[x].class /\ c # "ok"
      BY <2>1, <2>3 DEF Classes
    <3>2. ASSUME Fit
          PROVE  c \in {"edited", "provider"}
      <4>1. CASE scheme = "sops"
        BY <1>4, <2>1, <3>1, <3>2, <4>1
      <4>2. CASE scheme # "sops"
        <5>1. results[x] = ReadVault(x, down)
          BY <2>1, <3>1, <4>2
        <5>2. ~IsOk(ReadVault(x, down))
          BY <3>1, <5>1 DEF IsOk
        <5> QED
          BY <3>1, <5>1, <5>2, VaultReads
      <4> QED
        BY <4>1, <4>2
    <3>3. Fit => MayFail(c)
      BY <3>2 DEF MayFail
    <3> QED
      BY <1>10, <2>3, <3>3
  <2>4. CASE /\ Classes(results) = {}
             /\ run' = [read EXCEPT !.direct = Learned(@, results), !.given = TRUE, !.pc = to]
    <3>1. /\ SameResolve /\ run'.set = run.set /\ run'.units = run.units
          /\ run'.pending = run.pending /\ run'.cache = run.cache
          /\ run'.direct = Learned(run.direct, results) /\ run'.out = run.out /\ run'.pc = to
      BY <1>2, <2>4 DEF Fields, SameResolve
    <3>2. \A x \in refs : IsOk(results[x])
      BY <2>1, <2>4 DEF Classes, IsOk
    <3>3. /\ DOMAIN run'.direct = DOMAIN run.direct \cup refs
          /\ \A x \in DOMAIN run.direct : run'.direct[x] = run.direct[x]
          /\ \A x \in refs \ DOMAIN run.direct : run'.direct[x] = results[x].value
      BY <2>1, <3>1 DEF Learned
    <3>4. \A x, data, direct : ReadSops(x, data, direct)' = ReadSops(x, data, direct)
      BY <3>1, SameOutcome
    <3>5. Blank.what = "blank"
      BY DEF Blank
    <3>6. ASSUME NEW x \in DOMAIN run'.direct
          PROVE  run'.direct[x] # Blank /\ (IsRefOf("sops", x) => IsOk(ReadSops(x, FALSE, TRUE)))
      <4>1. CASE x \in DOMAIN run.direct
        BY <3>3, <4>1 DEF OutcomeInv, DirectRead
      <4>2. CASE x \in refs \ DOMAIN run.direct
        <5>1. run'.direct[x] = results[x].value /\ IsOk(results[x]) /\ F.refs[x].scheme = scheme
          BY <1>1, <3>2, <3>3, <4>2 DEF IsRefOf
        <5>2. CASE scheme = "sops"
          <6>1. results[x] = ReadSops(x, FALSE, TRUE)
            BY <2>1, <4>2, <5>2
          <6> QED
            BY <5>1, <6>1, DirectIsText
        <5>3. CASE scheme # "sops"
          <6>1. results[x] = ReadVault(x, down)
            BY <2>1, <4>2, <5>3
          <6>2. ~IsRefOf("sops", x)
            BY <5>1, <5>3 DEF IsRefOf
          <6> QED
            BY <3>5, <5>1, <6>1, <6>2, VaultReads
        <5> QED
          BY <5>2, <5>3
      <4> QED
        BY <3>3, <4>1, <4>2
    <3>7. \A x \in DOMAIN run'.direct :
               (run.direct[x] # Blank /\ (IsRefOf("sops", x) => IsOk(ReadSops(x, FALSE, TRUE))))'
      BY <3>1, <3>4, <3>6 DEF IsRefOf, SameResolve, Blank
    <3>8. \A r \in Assigned : IsRefOf(scheme, r.src) => r.src \in DOMAIN run'.direct
      BY <1>3, <3>3
    <3> QED
      BY <1>8, <3>1, <3>3, <3>7, <3>8
  <2> QED
    BY <2>2, <2>3, <2>4
<1> QED
  BY <1>9, <1>11, <1>12 DEF ResolveDirect, refs, class, read

\* Any unit a resolve finds is one of those any resolve of its Host finds.
LEMMA FoundUnits ==
  ASSUME ResolveInv, OutcomeInv, run.pc \in Rendering, run.mode \in {"validate", "agent"}
  PROVE  /\ run.units # {} => HasUnits(run.host)
         /\ run.mode = "validate" => (HasUnits(run.host) => run.units # {})
<1>1. Assigned = HostFiles(run.host) /\ (run.units # {} <=> FindsUnits)
  BY AssignedAre DEF OutcomeInv, Found
<1>2. FindsUnits => HasUnits(run.host)
  BY <1>1 DEF FindsUnits, HasUnits, NamesUnit
<1>3. ASSUME run.mode = "validate", HasUnits(run.host)
      PROVE  FindsUnits
  <2>1. \A x : IsOk(SecretFile(x))
    <3>1. \A v : IsOk(Got(v))
      BY DEF IsOk, Got
    <3> QED
      BY <1>3, <3>1 DEF SecretFile, WithoutKey
  <2>2. \A src : FilesThere(src, FALSE)
    BY <2>1 DEF FilesThere
  <2> QED
    BY <1>1, <1>3, <2>2 DEF FindsUnits, HasUnits, NamesUnit
<1> QED
  BY <1>1, <1>2, <1>3

\* A file that is built is right.
LEMMA BuildsOutcome ==
  ASSUME OutcomeInv, run.pc = "build", run'.pc = "build", SameResolve, run'.set = run.set,
         run'.units = run.units, run'.pending = run.pending, run'.cache = run.cache,
         run'.direct = run.direct, NEW files, run'.out = run.out \cup files,
         \A f \in files : FileRight(f, run.units # {})
  PROVE  OutcomeInv'
<1>1. "build" \in Rendering \cap Finishing
  BY DEF Rendering, Finishing
<1>2. Found' /\ PendingRead'
  BY <1>1, FoundKept, PendingKept
<1>3. \A x, data, direct : ReadSops(x, data, direct)' = ReadSops(x, data, direct)
  BY SameOutcome
<1>4. CacheHolds'
  BY <1>3 DEF OutcomeInv, CacheHolds, SameResolve
<1>5. DirectRead'
  BY DirectKept, SameSkippable DEF OutcomeInv, DirectRead, Past
<1>6. FilesRight'
  <2>1. PICK units : units = (run.units # {})
    OBVIOUS
  <2>2. \A f \in run.out \cup files : FileRight(f, units)
    BY <1>1, <2>1 DEF OutcomeInv, FilesRight
  <2>3. \A f \in run.out \cup files : FileRight(f, units)'
    BY <2>2, SameOutcome
  <2> QED
    BY <2>1, <2>3 DEF FilesRight
<1>7. Ends' /\ FailsFew'
  BY DEF Ends, FailsFew
<1> QED
  BY <1>2, <1>4, <1>5, <1>6, <1>7 DEF OutcomeInv

LEMMA BuildDirectOutcome ==
  ASSUME ResolveInv, OutcomeInv, F' = F, run.pc = "build", NEW ref \in Assigned,
         FleetWellFormed(F), IsProviderRef(F, ref.src), BuildDirect(ref)
  PROVE  OutcomeInv'
<1> DEFINE value == IF ref.src \in DOMAIN run.direct THEN run.direct[ref.src] ELSE Blank
           file  == BuiltFile(ref, {value}, IsRefOf("sops", ref.src))
           files == IF ~run.given THEN {} ELSE {file}
<1>1. DOMAIN run = Fields
  BY DEF ResolveInv, Shape
<1>2. run' = [run EXCEPT !.todo = run.todo \ {ref}, !.out = run.out \cup files]
  BY DEF BuildDirect
<1>3. /\ run'.pc = "build" /\ SameResolve /\ run'.set = run.set
      /\ run'.units = run.units /\ run'.pending = run.pending /\ run'.cache = run.cache
      /\ run'.direct = run.direct /\ run'.out = run.out \cup files
  <2> HIDE DEF files
  <2> QED
    BY <1>1, <1>2 DEF Fields, SameResolve
<1>4. file.src = ref.src /\ file.category = ref.category /\ file.content = {value}
  BY DEF BuiltFile
<1>5. ASSUME Fit
      PROVE  value # Blank
  <2>1. PICK p \in SchemeSet : IsRefOf(p, ref.src)
    BY DEF FleetWellFormed, IsProviderRef, IsRefOf
  <2>2. run.pc \in Past(p)
    <3>1. run.pc \in Finishing
      BY DEF Finishing
    <3> QED
      BY <3>1, PastIs
  <2>3. ~Skippable(ref)
    BY <1>5 DEF Skippable, HasReader, Fit, Equipped, WithoutKey
  <2> QED
    BY <2>1, <2>2, <2>3 DEF OutcomeInv, DirectRead
<1> HIDE DEF value, file
<1>6. FileRight(file, run.units # {})
  BY <1>4, <1>5 DEF FileRight
<1> HIDE DEF files
<1>7. \A f \in files : FileRight(f, run.units # {})
  BY <1>6 DEF files
<1> QED
  BY <1>3, <1>7, BuildsOutcome

\* The calls of an assigned file are assigned to its Host.
LEMMA MadeAreAssigned ==
  ASSUME ResolveInv, OutcomeInv, run.mode = "agent", NEW ref \in Assigned, NEW units
  PROVE  MadeIn(ref.src, units) \subseteq AssignedCalls(run.host)
<1>1. run.set = HostSet(run.host)
  BY AssignedAre
<1>2. ref \in Expand(F, Resolve(F, F.hosts[run.host]))
  BY <1>1 DEF Assigned, HostSet
<1>3. CASE Template(ref.src)
  BY <1>2, <1>3 DEF MadeIn, SrcCalls, AssignedCalls
<1>4. CASE ~Template(ref.src)
  BY <1>4 DEF MadeIn, SrcCalls
<1> QED
  BY <1>3, <1>4

\* A secret file of the Host holds the file, or fails the resolve.
LEMMA HostSecret ==
  ASSUME NEW src, run.resolved = SchemeSet, NEW down
  PROVE  LET st == Apply(Fresh, Call("readSecretFile", src), FALSE, down) IN
         /\ st.err # NoErr => st.err.class = "secretFile"
         /\ st.err = NoErr => ~(st.content \subseteq {Blank})
<1> DEFINE c  == Call("readSecretFile", src)
           st == Apply(Fresh, c, FALSE, down)
           o  == Outcome(c, Fresh.last, FALSE, down)
<1>1. c.fn = "readSecretFile" /\ c.arg = src /\ c.when = "always"
  BY DEF Call
<1>2. DOMAIN Fresh = Progress /\ Fresh.err = NoErr
  BY DEF Fresh, Progress
<1>3. c.fn \notin ProviderFns
  BY <1>1 DEF ProviderFns
<1> HIDE DEF c
<1>4. Made(c, Fresh)
  BY <1>1 DEF Made
<1>5. Comes(Fresh, st, o)
  BY <1>2, <1>4, ApplyComes DEF Settled
<1>6. o = SecretFile(c.arg)
  BY <1>1, <1>3 DEF Outcome
<1>7. /\ \A x : Failed(x).class = x /\ (IsOk(Failed(x)) <=> x = "ok")
      /\ \A v : IsOk(Got(v)) /\ Got(v).value = v
  BY DEF Failed, Got, IsOk
<1>8. /\ Blank.what = "blank" /\ Plain("placeholder").what = "plain"
      /\ \A x : HostOnly(x).what = "hostonly"
  BY DEF Blank, Plain, HostOnly
<1>9. /\ ~IsOk(o) => o.class = "secretFile"
      /\ IsOk(o) => o.value # Blank
  <2>1. o \in {Got(Plain("placeholder")), Got(HostOnly(c.arg)), Failed("secretFile")}
    BY <1>6 DEF SecretFile
  <2> HIDE DEF o
  <2> QED
    BY <1>7, <1>8, <2>1
<1> HIDE DEF st, o
<1>10. Err("secretFile") # NoErr /\ Err("secretFile").class = "secretFile"
  BY ErrorsDiffer
<1>11. /\ IsOk(o) => st.err = NoErr /\ o.value \in st.content
       /\ ~IsOk(o) => st.err = Err("secretFile")
  BY <1>2, <1>5, <1>9 DEF Comes
<1> QED
  BY <1>9, <1>10, <1>11 DEF st, c

\* What building an assigned file comes to.
LEMMA RenderOutcome ==
  ASSUME ResolveInv, OutcomeInv, run.pc = "build", NEW ref \in Assigned,
         ~IsProviderRef(F, ref.src), NEW down
  PROVE  LET st == Render(ref, down) IN
         /\ Fit /\ st.err # NoErr => MayFail(st.err.class)
         /\ st.err = NoErr =>
              \A sops : FileRight(BuiltFile(ref, st.content, sops), run.units # {})
<1> DEFINE st == Render(ref, down)
           file(sops) == BuiltFile(ref, st.content, sops)
<1>1. /\ F \in Fleets /\ FleetWellFormed(F) /\ MaxDepth \in Nat /\ CacheSound /\ CacheHolds
      /\ run.resolved = SchemeSet
  BY ResolverAssumption DEF ResolveInv, Shape, Gathered, OutcomeInv, Ready
<1>2. PICK units : units = (run.units # {})
  OBVIOUS
<1>3. \A sops : /\ file(sops).src = ref.src /\ file(sops).category = ref.category
                /\ file(sops).content = st.content
  BY DEF BuiltFile
<1>4. \A sops : Guarded(file(sops)) = Guarded(ref)
  BY <1>3 DEF Guarded
<1> HIDE DEF file, st
<1>5. CASE ref.category = "secret" /\ ref.src \notin DOMAIN F.tree
  <2>1. ~Template(ref.src) /\ \A more : MadeIn(ref.src, more) = {}
    BY <1>5 DEF Template, MadeIn, SrcCalls
  <2>2. /\ \A h, guarded, more : FilePasses(h, ref.src, guarded, more)
        /\ \A h, more : HoldsText(h, ref.src, more)
        /\ \A more : FilesThere(ref.src, more)
    BY <2>1 DEF FilePasses, HoldsText, FilesThere
  <2>3. st = Apply(Fresh, Call("readSecretFile", ref.src), FALSE, down)
    BY <1>5 DEF Render, st
  <2>4. /\ st.err # NoErr => st.err.class = "secretFile"
        /\ st.err = NoErr => ~(st.content \subseteq {Blank})
    BY <1>1, <2>3, HostSecret
  <2>5. ASSUME st.err = NoErr, NEW sops
        PROVE  FileRight(file(sops), units)
    BY <1>3, <2>2, <2>4, <2>5 DEF FileRight
  <2> QED
    BY <1>2, <2>4, <2>5 DEF MayFail, st, file
<1>6. CASE ~(ref.category = "secret" /\ ref.src \notin DOMAIN F.tree)
  <2>1. PICK guarded : guarded = Guarded(ref)
    OBVIOUS
  <2>2. st = RenderOrRead(ref.src, guarded, down) /\ Settled(guarded)
    BY <1>1, <1>6, <2>1 DEF Render, st, Settled
  <2>3. ASSUME run.mode = "validate", st.err = NoErr
        PROVE  /\ FilePasses(run.host, ref.src, guarded, units)
               /\ st.content \subseteq {Blank} \/ HoldsText(run.host, ref.src, units)
    BY <1>1, <1>2, <2>2, <2>3, ValidateRender
  <2>4. ASSUME Fit
        PROVE  /\ st.err # NoErr =>
                    \/ st.err.class \in {"provider", "secretFile", "edited"}
                    \/ st.err.class = "notARef" /\ \E c \in MadeIn(ref.src, units) : Unchecked(c)
               /\ st.err = NoErr => /\ FilesThere(ref.src, units)
                                    /\ HoldsText(run.host, ref.src, units)
                                         => ~(st.content \subseteq {Blank})
    <3>1. run.mode = "agent" /\ Accepted(run.host) /\ Equipped
      BY <2>4 DEF Fit
    <3>2. ref \in HostFiles(run.host)
      BY <3>1, AssignedAre
    <3>3. PICK most : most = HasUnits(run.host)
      OBVIOUS
    <3>4. FilePasses(run.host, ref.src, guarded, most)
      BY <2>1, <3>1, <3>2, <3>3 DEF Accepted, RefAccepted
    <3>5. units => most
      BY <1>2, <3>1, <3>3, FoundUnits DEF Rendering, Finishing
    <3>6. FilePasses(run.host, ref.src, guarded, units)
      BY <3>4, <3>5, FewerPass
    <3> QED
      BY <1>1, <1>2, <2>2, <3>1, <3>6, AgentRender
  <2>5. ASSUME Fit, st.err # NoErr
        PROVE  MayFail(st.err.class)
    <3>1. MadeIn(ref.src, units) \subseteq AssignedCalls(run.host)
      BY <2>5, MadeAreAssigned DEF Fit
    <3> QED
      BY <2>4, <2>5, <3>1 DEF MayFail
  <2>6. ASSUME st.err = NoErr, NEW sops
        PROVE  FileRight(file(sops), units)
    BY <1>3, <1>4, <2>1, <2>3, <2>4, <2>6 DEF FileRight
  <2> QED
    BY <1>2, <2>5, <2>6 DEF st, file
<1> QED
  BY <1>5, <1>6

LEMMA BuildFileOutcome ==
  ASSUME ResolveInv, OutcomeInv, F' = F, BuildFile
  PROVE  OutcomeInv'
<1>1. PICK ref \in {Next1(run.todo)} :
        IF IsProviderRef(F, ref.src) THEN BuildDirect(ref)
        ELSE \E down \in Down : BuildRendered(ref, Render(ref, down), down)
  BY DEF BuildFile
<1>2. run.pc = "build" /\ run.todo # {} /\ DOMAIN run = Fields
  BY DEF BuildFile, Done, ResolveInv, Shape
<1>3. ref \in Assigned /\ FleetWellFormed(F)
  BY <1>2, NextFile
<1>4. CASE IsProviderRef(F, ref.src)
  BY <1>1, <1>2, <1>3, <1>4, BuildDirectOutcome
<1>5. CASE ~IsProviderRef(F, ref.src)
  <2>1. PICK down \in Down : BuildRendered(ref, Render(ref, down), down)
    BY <1>1, <1>5
  <2> DEFINE st   == Render(ref, down)
             read == [run EXCEPT !.reached = @ \cup st.reached, !.opened = @ \cup st.opened,
                                 !.asked = @ \cup st.asked]
             file == BuiltFile(ref, st.content, st.sopsCalls)
  <2>2. run' = IF st.err # NoErr THEN [read EXCEPT !.pc = "failed", !.err = st.err]
               ELSE [read EXCEPT !.todo = @ \ {ref}, !.out = @ \cup {file}]
    BY <2>1 DEF BuildRendered
  <2>3. /\ Fit /\ st.err # NoErr => MayFail(st.err.class)
        /\ st.err = NoErr => FileRight(file, run.units # {})
    BY <1>2, <1>3, <1>5, RenderOutcome
  <2> HIDE DEF st, file
  <2>4. CASE st.err # NoErr
    <3>1. /\ SameResolve /\ run'.set = run.set /\ run'.units = run.units
          /\ run'.pending = run.pending /\ run'.cache = run.cache /\ run'.direct = run.direct
          /\ run'.out = run.out /\ run'.pc = "failed" /\ run'.err = st.err
      BY <1>2, <2>2, <2>4 DEF Fields, SameResolve
    <3> QED
      BY <2>3, <2>4, <3>1, FailedOutcome
  <2>5. CASE st.err = NoErr
    <3>1. PICK files : files = {file}
      OBVIOUS
    <3>2. /\ run'.pc = "build" /\ SameResolve /\ run'.set = run.set
          /\ run'.units = run.units /\ run'.pending = run.pending /\ run'.cache = run.cache
          /\ run'.direct = run.direct /\ run'.out = run.out \cup files
      BY <1>2, <2>2, <2>5, <3>1 DEF Fields, SameResolve
    <3>3. \A f \in files : FileRight(f, run.units # {})
      BY <2>3, <2>5, <3>1
    <3> QED
      BY <1>2, <3>2, <3>3, BuildsOutcome
  <2> QED
    BY <2>4, <2>5
<1> QED
  BY <1>4, <1>5

\* What the hooks of an Agent's Host, or of one that is validated, come to.
LEMMA HooksOutcome ==
  ASSUME ResolveInv, CompleteInv, OutcomeInv, run.pc = "build", run.todo = {}
  PROVE  /\ Fit => ~HooksFail /\ \A err \in HookErrors : err.class = "secretFile"
         /\ run.mode = "validate" /\ HookErrors = {} /\ ~HooksFail => HooksAccepted(run.host)
<1>1. /\ F \in Fleets /\ FleetWellFormed(F) /\ MaxDepth \in Nat /\ CacheSound
      /\ run.pc \in Finishing \cap Rendering
  BY ResolverAssumption DEF ResolveInv, Shape, Gathered, Finishing, Rendering
<1>2. PICK units : units = (run.units # {})
  OBVIOUS
<1>3. PICK most : most = HasUnits(run.host)
  OBVIOUS
<1>4. PICK files : files = HookFiles(F, run.set)
  OBVIOUS
<1>5. \A hook : HookFails(hook) <=> ~HookPasses(Assigned, hook)
  BY <1>1, HookIs
<1>6. ~Strict => \A src :
        /\ HookRender(src).err = NoErr => FilePasses(run.host, src, TRUE, units)
        /\ FilePasses(run.host, src, TRUE, units) /\ HookRender(src).err # NoErr
             => HookRender(src).err.class = "secretFile"
  BY <1>1, <1>2, GuardedRender DEF HookRender
<1>7. ASSUME Fit
      PROVE  ~HooksFail /\ \A err \in HookErrors : err.class = "secretFile"
  <2>1. /\ run.mode = "agent" /\ ~Strict /\ HooksAccepted(run.host)
        /\ Assigned = HostFiles(run.host) /\ run.set = HostSet(run.host)
    BY <1>7, AssignedAre DEF Fit, Accepted, Strict
  <2>2. /\ \A s \in files : FilePasses(run.host, s, TRUE, most)
        /\ \A s \in files : \A i \in DOMAIN HooksIn(s) : HookPasses(Assigned, HooksIn(s)[i])
        /\ DistinctHooks(files)
    BY <1>3, <1>4, <2>1 DEF HooksAccepted
  <2>3. units => most
    BY <1>1, <1>2, <1>3, <2>1, FoundUnits
  <2>4. \A s \in files : FilePasses(run.host, s, TRUE, units)
    BY <2>2, <2>3, FewerPass
  <2>5. \A err \in HookErrors : err.class = "secretFile"
    BY <1>4, <1>6, <2>1, <2>4 DEF HookErrors
  <2>6. ~HooksFail
    BY <1>4, <1>5, <2>2 DEF HooksFail, DistinctHooks
  <2> QED
    BY <2>5, <2>6
<1>8. ASSUME run.mode = "validate", HookErrors = {}, ~HooksFail
      PROVE  HooksAccepted(run.host)
  <2>1. /\ ~Strict /\ Assigned = HostFiles(run.host) /\ run.set = HostSet(run.host)
    BY <1>8, AssignedAre DEF Strict
  <2>2. units <=> most
    BY <1>1, <1>2, <1>3, <1>8, FoundUnits
  <2>3. \A s \in files : HookRender(s).err = NoErr
    BY <1>4, <1>8 DEF HookErrors
  <2>4. \A s \in files : FilePasses(run.host, s, TRUE, units)
    BY <1>6, <2>1, <2>3
  <2>5. \A s \in files : FilePasses(run.host, s, TRUE, HasUnits(run.host))
    <3>1. units = TRUE \/ units = FALSE
      BY <1>2
    <3>2. most = TRUE \/ most = FALSE
      BY <1>3 DEF HasUnits
    <3>3. units = most
      BY <2>2, <3>1, <3>2
    <3> QED
      BY <1>3, <2>4, <3>3
  <2>6. files = {s \in files : HookRender(s).err = NoErr}
    BY <2>3
  <2>7. \A s \in files : \A i \in DOMAIN HooksIn(s) : ~HookFails(HooksIn(s)[i])
    BY <1>4, <1>8, <2>6 DEF HooksFail
  <2>8. DistinctHooks(files)
    BY <1>4, <1>8, <2>6 DEF HooksFail, DistinctHooks
  <2> QED
    BY <1>4, <1>5, <2>1, <2>5, <2>7, <2>8 DEF HooksAccepted
<1> QED
  BY <1>7, <1>8

LEMMA BuildHooksOutcome ==
  ASSUME ResolveInv, CompleteInv, OutcomeInv, F' = F, BuildHooks
  PROVE  OutcomeInv'
<1>1. run.pc = "build" /\ run.todo = {} /\ DOMAIN run = Fields
  BY DEF BuildHooks, Done, ResolveInv, Shape
<1>2. /\ Fit => ~HooksFail /\ \A err \in HookErrors : err.class = "secretFile"
      /\ run.mode = "validate" /\ HookErrors = {} /\ ~HooksFail => HooksAccepted(run.host)
  BY <1>1, HooksOutcome
<1>3. ASSUME NEW err, Fail(err), Fit => MayFail(err.class)
      PROVE  OutcomeInv'
  <2>1. /\ SameResolve /\ run'.set = run.set /\ run'.units = run.units
        /\ run'.pending = run.pending /\ run'.cache = run.cache /\ run'.direct = run.direct
        /\ run'.out = run.out /\ run'.pc = "failed" /\ run'.err = err
    BY <1>1, <1>3 DEF Fail, Fields, SameResolve
  <2> QED
    BY <1>3, <2>1, FailedOutcome
<1>4. ASSUME NEW err \in HookErrors, Fail(err)
      PROVE  OutcomeInv'
  BY <1>2, <1>3, <1>4 DEF MayFail
<1>5. CASE HooksFail /\ Fail(Err("hooks"))
  BY <1>2, <1>3, <1>5
<1>6. CASE HookErrors = {} /\ ~HooksFail /\ run' = [run EXCEPT !.pc = "analyze"]
  <2>1. /\ SameResolve /\ run'.set = run.set /\ run'.units = run.units
        /\ run'.pending = run.pending /\ run'.cache = run.cache /\ run'.direct = run.direct
        /\ run'.out = run.out /\ run'.pc = "analyze"
    BY <1>1, <1>6 DEF Fields, SameResolve
  <2>2. {run.pc, run'.pc} \subseteq Finishing
    BY <1>1, <2>1 DEF Finishing
  <2>3. PICK host : host = run.host
    OBVIOUS
  <2>4. HooksAccepted(host)' <=> HooksAccepted(host)
    BY SameAccepted
  <2>5. Ends'
    BY <1>2, <1>6, <2>1, <2>3, <2>4 DEF Ends, SameResolve
  <2> QED
    BY <2>1, <2>2, <2>5, AdvancedOutcome
<1> QED
  BY <1>4, <1>5, <1>6 DEF BuildHooks

\* What of an accepted Host the Agent's files are found to be.
LEMMA AnalyzeAgent ==
  ASSUME ResolveInv, CompleteInv, OutcomeInv, run.pc = "analyze", Fit
  PROVE  FileErrors = {}
<1>1. /\ F \in Fleets /\ FleetWellFormed(F) /\ run.todo = {}
      /\ run.pc \in Finishing \cap Rendering
  BY ResolverAssumption DEF ResolveInv, Shape, Finishing, Rendering
<1>2. /\ run.mode = "agent" /\ Accepted(run.host) /\ Assigned = HostFiles(run.host)
  BY AssignedAre DEF Fit
<1>3. PICK units : units = (run.units # {})
  OBVIOUS
<1>4. \A f \in run.out : FileRight(f, units)
  BY <1>1, <1>3 DEF OutcomeInv, FilesRight
<1>5. Dest("secret") = "secret" /\ UnitNaming("secret") = "none" /\ Supported("secret")
  BY DEF Dest, UnitNaming, Supported
<1>6. units <=> HasUnits(run.host)
  <2>1. units => HasUnits(run.host)
    BY <1>1, <1>2, <1>3, FoundUnits
  <2>2. ASSUME NEW r \in Assigned, NamesUnit(run.host, r)
        PROVE  FindsUnits
    <3>1. CASE UnitNaming(r.category) = "file"
      BY <3>1 DEF FindsUnits
    <3>2. CASE UnitNaming(r.category) # "file"
      <4>1. /\ UnitNaming(r.category) = "generated" /\ F.tree[r.src].unit # ""
            /\ FilePasses(run.host, r.src, TRUE, FALSE)
        BY <2>2, <3>2 DEF NamesUnit
      <4>2. ~IsProviderRef(F, r.src)
        BY <1>1, <1>5, <4>1, BuiltAre
      <4>3. PICK f \in run.out : f.src = r.src
        BY <1>1, <4>2, BuiltAre
      <4>4. FilesThere(r.src, units)
        BY <1>4, <4>2, <4>3 DEF FileRight
      <4>5. FilesThere(r.src, FALSE)
        BY <4>4 DEF FilesThere, MadeIn
      <4> QED
        BY <4>1, <4>5 DEF FindsUnits
    <3> QED
      BY <3>1, <3>2
  <2>3. FindsUnits => units
    BY <1>1, <1>2, <1>3 DEF OutcomeInv, Found
  <2> QED
    BY <1>2, <2>1, <2>2, <2>3 DEF HasUnits
<1>7. PICK most : most = HasUnits(run.host)
  OBVIOUS
<1>8. units = most
  <2>1. (units = TRUE \/ units = FALSE) /\ (most = TRUE \/ most = FALSE)
    BY <1>3, <1>7 DEF HasUnits
  <2>2. units <=> most
    BY <1>6, <1>7
  <2> QED
    BY <2>1, <2>2
<1>9. ASSUME NEW f \in run.out
      PROVE  AnalyzeFile(f) = NoErr
  <2> DEFINE r == RefBuilt(f)
  <2>1. r \in Assigned /\ r.src = f.src /\ r.category = f.category
    BY <1>1, BuiltAre
  <2>2. RefAccepted(run.host, r)
    BY <1>2, <2>1 DEF Accepted
  <2> HIDE DEF r
  <2>3. FileRight(f, units)
    BY <1>4
  <2>4. CASE IsProviderRef(F, f.src)
    <3>1. r.category = "secret" /\ f.src \notin DOMAIN F.tree
      BY <1>1, <2>1, <2>4, BuiltAre DEF FleetWellFormed, IsProviderRef
    <3>2. ContentPasses(Assigned, r)
      BY <1>5, <2>1, <3>1 DEF ContentPasses, ContentCheck
    <3>3. ~(f.content \subseteq {Blank})
      BY <2>3, <2>4 DEF FileRight
    <3> QED
      BY <1>1, <3>2, <3>3, AnalyzeIs DEF r
  <2>5. CASE ~IsProviderRef(F, f.src)
    <3>1. /\ f.category = "secret" => HoldsText(run.host, f.src, most)
          /\ ContentPasses(Assigned, r)
      BY <1>2, <1>7, <2>1, <2>2, <2>5 DEF RefAccepted
    <3>2. f.category = "secret" => ~(f.content \subseteq {Blank})
      BY <1>8, <2>3, <2>5, <3>1 DEF FileRight
    <3> QED
      BY <1>1, <3>1, <3>2, AnalyzeIs DEF r
  <2> QED
    BY <2>4, <2>5
<1> QED
  BY <1>9 DEF FileErrors

\* What validate finds nothing wrong of is accepted.
LEMMA AnalyzeAccepts ==
  ASSUME ResolveInv, CompleteInv, OutcomeInv, run.pc = "analyze", run.mode = "validate",
         FileErrors = {}
  PROVE  Accepted(run.host)
<1>1. /\ F \in Fleets /\ FleetWellFormed(F) /\ run.todo = {} /\ Expands
      /\ run.pc \in Finishing \cap Rendering /\ ~DestFails(F, Assigned)
  BY ResolverAssumption DEF ResolveInv, Shape, Finishing, Rendering, OutcomeInv, Found
<1>2. Assigned = HostFiles(run.host) /\ run.set = HostSet(run.host)
  BY AssignedAre
<1>3. PICK units, most : units = (run.units # {}) /\ most = HasUnits(run.host)
  OBVIOUS
<1>4. units = most
  <2>1. (units = TRUE \/ units = FALSE) /\ (most = TRUE \/ most = FALSE)
    BY <1>3 DEF HasUnits
  <2>2. units <=> most
    BY <1>1, <1>3, FoundUnits
  <2> QED
    BY <2>1, <2>2
<1>5. ASSUME NEW r \in Assigned
      PROVE  RefAccepted(run.host, r)
  <2>1. CASE IsProviderRef(F, r.src)
    <3>1. ASSUME IsRefOf("sops", r.src)
          PROVE  IsOk(KeylessRead(run.host, r.src, FALSE, TRUE))
      <4>1. "sops" \in SchemeSet
        BY DEF SchemeSet
      <4>2. run.pc \in Past("sops")
        BY <1>1, <4>1, PastIs
      <4>3. ~Skippable(r)
        BY <3>1 DEF Skippable, IsRefOf
      <4>4. IsOk(ReadSops(r.src, FALSE, TRUE))
        BY <3>1, <4>1, <4>2, <4>3 DEF OutcomeInv, DirectRead
      <4>5. ReadSops(r.src, FALSE, TRUE) = KeylessRead(run.host, r.src, FALSE, TRUE)
        BY DEF ReadSops, KeylessRead, WithoutKey
      <4> QED
        BY <4>4, <4>5
    <3> QED
      BY <2>1, <3>1 DEF RefAccepted
  <2>2. CASE ~IsProviderRef(F, r.src)
    <3>1. PICK f \in run.out : f.src = r.src /\ f.category = r.category
      BY <1>1, <2>2, BuiltAre
    <3>2. RefBuilt(f) = r
      BY <1>1, <3>1, ExpandedRef DEF RefBuilt, Assigned, Expands
    <3>3. AnalyzeFile(f) = NoErr
      BY DEF FileErrors
    <3>4. ContentPasses(Assigned, r) /\ ~(f.category = "secret" /\ f.content \subseteq {Blank})
      BY <1>1, <3>2, <3>3, AnalyzeIs
    <3>5. FileRight(f, units) /\ Guarded(f) = Guarded(r)
      BY <1>1, <1>3, <3>1 DEF OutcomeInv, FilesRight, Guarded
    <3>6. /\ FilePasses(run.host, r.src, Guarded(r), most)
          /\ r.category = "secret" => HoldsText(run.host, r.src, most)
      BY <1>4, <2>2, <3>1, <3>4, <3>5 DEF FileRight
    <3> QED
      BY <1>2, <1>3, <2>2, <3>4, <3>6 DEF RefAccepted
  <2> QED
    BY <2>1, <2>2
<1>6. HooksAccepted(run.host)
  BY DEF OutcomeInv, Ends
<1> QED
  BY <1>1, <1>2, <1>5, <1>6 DEF Accepted, Expands

LEMMA AnalyzeOutcome ==
  ASSUME ResolveInv, CompleteInv, OutcomeInv, F' = F, Analyze
  PROVE  OutcomeInv'
<1>1. run.pc = "analyze" /\ DOMAIN run = Fields
  BY DEF Analyze, Done, ResolveInv, Shape
<1>2. ASSUME NEW err, Fail(err), ~Fit
      PROVE  OutcomeInv'
  <2>1. /\ SameResolve /\ run'.set = run.set /\ run'.units = run.units
        /\ run'.pending = run.pending /\ run'.cache = run.cache /\ run'.direct = run.direct
        /\ run'.out = run.out /\ run'.pc = "failed"
    BY <1>1, <1>2 DEF Fail, Fields, SameResolve
  <2> QED
    BY <1>2, <2>1, FailedOutcome
<1>3. CASE Strict /\ Fail(Err("configMount"))
  BY <1>2, <1>3 DEF Fit, Strict
<1>4. CASE \E e \in FileErrors : Fail([e EXCEPT !.quotes = Scrub(@)])
  BY <1>1, <1>2, <1>4, AnalyzeAgent
<1>5. CASE (Strict \/ FileErrors = {}) /\ run' = [run EXCEPT !.pc = "done"]
  <2>1. /\ SameResolve /\ run'.set = run.set /\ run'.units = run.units
        /\ run'.pending = run.pending /\ run'.cache = run.cache /\ run'.direct = run.direct
        /\ run'.out = run.out /\ run'.pc = "done"
    BY <1>1, <1>5 DEF Fields, SameResolve
  <2>2. {run.pc, run'.pc} \subseteq Finishing
    BY <1>1, <2>1 DEF Finishing
  <2>3. PICK host : host = run.host
    OBVIOUS
  <2>4. (HooksAccepted(host)' <=> HooksAccepted(host)) /\ (Accepted(host)' <=> Accepted(host))
    BY SameAccepted
  <2>5. run.mode = "validate" => Accepted(host) /\ HooksAccepted(host)
    BY <1>1, <1>5, <2>3, AnalyzeAccepts DEF Strict, Accepted
  <2>6. Ends'
    BY <2>1, <2>3, <2>4, <2>5 DEF Ends, SameResolve
  <2> QED
    BY <2>1, <2>2, <2>6, AdvancedOutcome
<1> QED
  BY <1>3, <1>4, <1>5 DEF Analyze

\* What a resolve found, of either, is kept by every step.
LEMMA OutcomeNext ==
  ASSUME ResolveInv, CompleteInv, OutcomeInv, [Next]_vars
  PROVE  OutcomeInv'
<1>1. ASSUME F' = F, run' = run
      PROVE  OutcomeInv'
  <2>1. PICK host : host = run.host
    OBVIOUS
  <2>2. (HooksAccepted(host)' <=> HooksAccepted(host)) /\ (Accepted(host)' <=> Accepted(host))
    BY <1>1, SameAccepted
  <2>3. Ends'
    BY <1>1, <2>1, <2>2 DEF OutcomeInv, Ends
  <2> QED
    BY <1>1, <2>3, AdvancedOutcome DEF SameResolve
<1>2. CASE UNCHANGED vars
  BY <1>1, <1>2 DEF vars
<1>3. CASE Next
  <2>1. F' = F
    BY <1>3, CommitKept
  <2>2. CASE LoadFleet \/ ValidateSOPSFiles \/ \E ref \in Vaults : Rotate(ref)
    BY <1>1, <2>1, <2>2 DEF LoadFleet, ValidateSOPSFiles, Rotate
  <2>3. CASE Tell \/ AgentEnds
    BY <2>1, <2>3, IdleOutcome DEF Tell, AgentEnds
  <2>4. CASE \E h \in Hosts : ValidateHost(h) \/ ValidateAgentBundle(h)
    <3>1. PICK h \in Hosts : \E mode \in {"validate", "bundle"} : \E set : run' = Begun(mode, h, set)
      BY <2>4 DEF ValidateHost, ValidateAgentBundle
    <3> QED
      BY <2>1, <3>1, BegunOutcome
  <2>5. CASE \E h \in Hosts : AgentResolves(F.hosts[h].hostname)
    <3>1. PICK h : run' = Begun("agent", h, HostSet(h))
      BY <2>5 DEF AgentResolves, HostSet
    <3> QED
      BY <2>1, <3>1, BegunOutcome
  <2>6. CASE ResolveCache
    BY <2>1, <2>6, ResolveCacheOutcome DEF ResolveCache
  <2>7. CASE ResolveDirectSecrets
    BY <2>1, <2>7, ResolveDirectOutcome DEF ResolveDirectSecrets
  <2>8. CASE ExpandAndValidate \/ Collect \/ BuildFile
    BY <2>1, <2>8, ExpandOutcome, CollectOutcome, BuildFileOutcome
  <2>9. CASE BuildHooks \/ Analyze
    BY <2>1, <2>9, BuildHooksOutcome, AnalyzeOutcome
  <2> QED
    BY <1>3, <2>2, <2>3, <2>4, <2>5, <2>6, <2>7, <2>8, <2>9 DEF Next, ResolveStep
<1> QED
  BY <1>2, <1>3

\* A commit that passes validate has only accepted Hosts.
HostsAccepted ==
  ~ci.bad /\ ci.phase # "load" =>
    \A h \in Hosts : (ci.phase = "hosts" /\ h \in ci.todo) \/ Accepted(h)

LEMMA TellAccepts ==
  ASSUME ResolveInv, Told, OutcomeInv, HostsAccepted, F' = F, Tell
  PROVE  HostsAccepted'
<1> SUFFICES ASSUME ~ci'.bad
             PROVE  HostsAccepted'
  BY DEF HostsAccepted
<1>1. /\ run.pc \in {"done", "failed"} /\ run.mode \in {"validate", "bundle"}
      /\ run.host \in Hosts /\ ci.phase \in {"hosts", "bundles"}
      /\ run.mode = "validate" <=> ci.phase = "hosts"
  BY DEF Tell, ResolveInv, Shape, Told, Hosts
<1> DEFINE resolved == run.pc = "done" \/ run.err.class \in AnalyzeClasses
           next == [ci EXCEPT !.todo = @ \ {run.host}, !.bad = @ \/ run.pc = "failed"]
           told == IF run.mode = "bundle" THEN next
                   ELSE IF resolved
                   THEN [next EXCEPT !.readers = @ \cup {<< run.host, p >> : p \in run.reached}]
                   ELSE [next EXCEPT !.unresolved = @ \cup {run.host}]
<1>2. ci' = AfterTodo(told)
  BY DEF Tell
<1>3. /\ DOMAIN next = {"phase", "todo", "readers", "unresolved", "bad"}
      /\ next.phase = ci.phase /\ next.todo = ci.todo \ {run.host}
      /\ next.bad = (ci.bad \/ run.pc = "failed")
  BY DEF Told
<1> HIDE DEF next
<1>4. /\ DOMAIN told = {"phase", "todo", "readers", "unresolved", "bad"}
      /\ told.phase = ci.phase /\ told.todo = ci.todo \ {run.host} /\ told.bad = next.bad
  BY <1>3
<1> HIDE DEF told
<1>5. /\ ci'.bad = told.bad
      /\ \/ ci'.phase = ci.phase /\ ci'.todo = ci.todo \ {run.host}
         \/ ci.todo \ {run.host} = {} /\ ci'.phase # "hosts"
  BY <1>1, <1>2, <1>4 DEF AfterTodo
<1>6. ~ci.bad /\ run.pc = "done"
  BY <1>1, <1>3, <1>4, <1>5
<1>7. ASSUME NEW h \in Hosts
      PROVE  (ci'.phase = "hosts" /\ h \in ci'.todo) \/ Accepted(h)'
  <2>1. Accepted(h)' <=> Accepted(h)
    BY SameAccepted
  <2>2. (ci.phase = "hosts" /\ h \in ci.todo) \/ Accepted(h)
    BY <1>1, <1>6 DEF HostsAccepted
  <2>3. h = run.host /\ ci.phase = "hosts" => Accepted(h)
    BY <1>1, <1>6 DEF OutcomeInv, Ends
  <2> QED
    BY <1>5, <2>1, <2>2, <2>3
<1> QED
  BY <1>7 DEF HostsAccepted, Hosts

LEMMA HostsAcceptedNext ==
  ASSUME ResolveInv, Told, OutcomeInv, HostsAccepted, [Next]_vars
  PROVE  HostsAccepted'
<1>1. ASSUME F' = F, ci.bad => ci'.bad,
             (ci'.phase = ci.phase /\ ci'.todo = ci.todo) \/ ci.phase = "passes"
      PROVE  HostsAccepted'
  <2>1. ASSUME NEW h
        PROVE  Accepted(h)' <=> Accepted(h)
    BY <1>1, SameAccepted
  <2> QED
    BY <1>1, <2>1 DEF HostsAccepted, Hosts
<1>2. CASE UNCHANGED vars
  BY <1>1, <1>2 DEF vars
<1>3. CASE Next
  <2>1. F' = F
    BY <1>3, CommitKept
  <2>2. CASE LoadFleet
    <3>1. \/ ci'.bad
          \/ ci'.phase = "hosts" /\ ci'.todo = Hosts
      BY <2>2 DEF LoadFleet, NoCI
    <3> QED
      BY <2>1, <3>1 DEF HostsAccepted, Hosts
  <2>3. CASE Tell
    BY <2>1, <2>3, TellAccepts
  <2>4. CASE ValidateSOPSFiles
    <3>1. ci.phase = "passes" /\ (ci.bad => ci'.bad)
      BY <2>4 DEF ValidateSOPSFiles, Told
    <3> QED
      BY <2>1, <3>1, <1>1
  <2>5. CASE ~(LoadFleet \/ Tell \/ ValidateSOPSFiles)
    <3>1. ci' = ci
      BY <1>3, <2>5, ModesKept
         DEF Next, ValidateHost, ValidateAgentBundle, AgentResolves, AgentEnds, Rotate
    <3> QED
      BY <2>1, <3>1, <1>1
  <2> QED
    BY <2>2, <2>3, <2>4, <2>5
<1> QED
  BY <1>2, <1>3

\* A commit that validate accepts resolves on every Host whose Agent holds its
\* declared identity and has both vaults, whatever the commit's Hosts, files
\* and templates: only a provider, a secret file of the Host, ciphertext that
\* was tampered with or a vault's ref that validate never looked at fails it.
THEOREM ValidatedAlwaysResolves == Spec => []ValidatedResolves
<1> DEFINE Inv == ResolveInv /\ ValidateInv /\ CompleteInv /\ OutcomeInv /\ HostsAccepted
<1>1. Init => Inv
  <2>1. ASSUME Init
        PROVE  HostsAccepted
    <3>1. ci.phase = "load"
      BY <2>1 DEF Init, NoCI
    <3> QED
      BY <3>1 DEF HostsAccepted
  <2> QED
    BY <2>1, ResolveInit, ValidateInit, CompleteInit, OutcomeInit
<1>2. Inv /\ [Next]_vars => Inv'
  <2>1. ASSUME Inv, [Next]_vars
        PROVE  Inv'
    <3>1. ResolveInv' /\ ValidateInv'
      BY <2>1, ResolveNext, ValidateNext
    <3>2. CompleteInv' /\ OutcomeInv'
      BY <2>1, CompleteNext, OutcomeNext
    <3>3. HostsAccepted'
      BY <2>1, HostsAcceptedNext DEF ValidateInv
    <3> QED
      BY <3>1, <3>2, <3>3
  <2> QED
    BY <2>1
<1>3. Inv => ValidatedResolves
  <2>1. SUFFICES ASSUME Inv, run.mode = "agent", run.pc = "failed", ~ci.bad, Equipped
                 PROVE  MayFail(run.err.class)
    BY DEF ValidatedResolves, MayFail, Equipped
  <2>2. ci.phase = "done" /\ run.host \in Hosts
    BY <2>1 DEF ValidateInv, Told, ResolveInv, Shape, Hosts
  <2>3. Accepted(run.host)
    BY <2>1, <2>2 DEF HostsAccepted
  <2> QED
    BY <2>1, <2>3 DEF OutcomeInv, FailsFew, Fit
<1> QED
  BY <1>1, <1>2, <1>3, PTL DEF Spec
=============================================================================
