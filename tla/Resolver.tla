------------------------------ MODULE Resolver ------------------------------
(***************************************************************************)
(* The resolver (pkg/resolver): how the files of one Host are rendered     *)
(* from a Fleet commit, by an Agent with 1Password ("op"), Proton Pass     *)
(* ("pp") and SOPS, or without a key by `picolet validate`.                *)
(*                                                                         *)
(* A resolve renders every template twice.  The first pass collects the    *)
(* refs its calls name; one batched call per provider then reads them, and *)
(* the second pass renders from what was read.  The two passes may not     *)
(* make the same calls: a call may depend on a value, or on the units the  *)
(* first pass found.                                                       *)
(*                                                                         *)
(* A template is the sequence of its calls, each a record                  *)
(*   fn     a provider's function, "renderTemplate", "readSecretFile" or   *)
(*          "text"                                                         *)
(*   arg    the ref, or the template, it names                             *)
(*   when   "always"; "value" if it is made only once the last value read  *)
(*          is not pending; "units" only once the Host's units are known   *)
(*   built  the ref is the last value itself, arg once that is the secret  *)
(* and F.agents says, by host directory, which providers the Agent has.    *)
(***************************************************************************)
EXTENDS Fleet, SequencesExt

CONSTANTS
    Fleets,         \* commits
    Vaults,         \* the op and pp refs the vaults hold
    MaxDepth,       \* maxTemplateDepth
    MaxRotations,   \* changes of a vault during a resolve
    MaxFaults       \* failed provider calls

SchemeSet == {"op", "pp", "sops"}

\* No path of a commit is a Secret Reference, whose scheme it would begin with;
\* "none" is no class of an error.
FleetWellFormed(f) ==
    /\ DOMAIN f.refs \cap (DOMAIN f.tree \cup {"junk"}) = {}
    /\ \A e \in DOMAIN f.entries : f.entries[e] \subseteq DOMAIN f.tree
    /\ \A s \in DOMAIN f.tree : /\ f.tree[s].calls \in Seq(Range(f.tree[s].calls))
                                /\ f.tree[s].named \subseteq DOMAIN SegmentCategory
    /\ \A r \in DOMAIN f.refs : f.refs[r].scheme \in SchemeSet /\ f.refs[r].form # "none"
    /\ \A p \in DOMAIN f.files : f.files[p].state # "none"

ASSUME ResolverAssumption ==
    /\ MaxDepth \in Nat /\ MaxRotations \in Nat /\ MaxFaults \in Nat
    /\ \A f \in Fleets : FleetWellFormed(f)

VARIABLES
    F,        \* the commit
    vault,    \* version of each secret in the vaults
    faults,   \* failed calls so far
    ci,       \* validate
    run       \* the resolve under way

vars == << F, vault, faults, ci, run >>

-----------------------------------------------------------------------------
(* Templates. *)

Template(src) == src \in DOMAIN F.tree /\ F.tree[src].template

CallsOf(f, src) == IF src \in DOMAIN f.tree THEN f.tree[src].calls ELSE << >>

Templates == {src \in DOMAIN F.tree : Template(src)}

\* loadTemplateSources: the resolve of a bundle knows its templates only.
Loaded == IF run.mode = "bundle" THEN {t \in Templates : F.tree[t].service \in run.set.services}
          ELSE Templates

Call(fn, arg) == [fn |-> fn, arg |-> arg, when |-> "always", built |-> FALSE]

\* The calls of a template with renderTemplate's of known ones at most MaxDepth
\* deep.
Flat(f, src, known) ==
    LET flat[level \in (DOMAIN f.tree) \X (0..MaxDepth)] ==
            FoldLeft(LAMBDA calls, c :
                        calls \o IF c.fn # "renderTemplate" THEN << c >>
                                 ELSE IF level[2] = 0 \/ c.arg \notin known
                                 THEN << Call("fails", c.arg) >>
                                 ELSE flat[<< c.arg, level[2] - 1 >>],
                     << >>, CallsOf(f, level[1]))
    IN  flat[<< src, MaxDepth >>]

SchemeOf(fn) == CASE fn = "readOpSecret"         -> "op"
                  [] fn = "readProtonPassSecret" -> "pp"
                  [] OTHER                       -> "sops"

ProviderFns == {"readOpSecret", "readProtonPassSecret", "readSopsSecret", "readSopsData"}

IsRefOf(scheme, ref) == ref \in DOMAIN F.refs /\ F.refs[ref].scheme = scheme

Pending == [what |-> "pending", ref |-> "", at |-> 0]
Empty(scheme) == [what |-> "empty", ref |-> scheme, at |-> 0]
HostOnly(name) == [what |-> "hostonly", ref |-> name, at |-> 0]

NoErr == [class |-> "none", quotes |-> {}]
Err(class) == [class |-> class, quotes |-> {}]

-----------------------------------------------------------------------------
(* A resolve: its mode is "validate" (keyless), "bundle" (keyless and       *)
(* strict, with placeholders for secret files) or "agent".                  *)

Idle == [mode |-> "none", host |-> "", pc |-> "idle", set |-> [paths |-> {}, secrets |-> {},
         services |-> {}], todo |-> {}, units |-> {}, pending |-> {}, data |-> {}, resolved |-> {},
         cache |-> << >>, direct |-> << >>, given |-> FALSE, out |-> {}, reached |-> {},
         opened |-> {}, asked |-> {}, err |-> NoErr]

\* forResolve: every resolve starts from its own empty record.
Begun(mode, host, set) == [Idle EXCEPT !.mode = mode, !.host = host, !.set = set, !.pc = "expand"]

Agent == F.agents[run.host]
WithoutKey == run.mode # "agent"
Strict == run.mode = "bundle"

HasReader(scheme) ==
    CASE scheme = "sops" -> WithoutKey \/ Agent.ids # {}
      [] OTHER           -> ~WithoutKey /\ scheme \in Agent.providers

FileAt(path) == IF path \in DOMAIN F.files THEN F.files[path]
                ELSE [state |-> "missing", groups |-> << >>, sealed |-> << >>, needs |-> 0,
                      walks |-> TRUE, mac |-> TRUE, tree |-> << >>]

\* checkSopsRef: the ref parses, and its path is clean and Fleet-relative.
SopsRefClass(ref) == F.refs[ref].form

\* ReadAll, ReadData and ReadDirect, of either reader.
ReadSops(ref, data, direct) ==
    LET f == FileAt(F.refs[ref].path)
        r == [path |-> ref, ptr |-> F.refs[ref].ptr]
    IN  IF SopsRefClass(ref) # "ok" THEN Failed(SopsRefClass(ref))
        ELSE IF WithoutKey THEN Keyless(f, AgeRecipients(F.hosts[run.host]), r, data, direct)
        ELSE Decrypted(f, Agent.ids, r, data, direct)

\* The SOPS files reading refs reaches, and those it decrypts.
SopsPaths(refs) == {F.refs[x].path : x \in {y \in refs : SopsRefClass(y) = "ok"}}
Decrypts(refs)  == IF WithoutKey THEN {}
                   ELSE {p \in SopsPaths(refs) : DecryptClass(FileAt(p), Agent.ids) = "ok"}

\* The providers' clients: a call fails as a whole, or for a ref the vault lacks.
ReadVault(ref, down) ==
    IF F.refs[ref].scheme \in down \/ ref \notin DOMAIN vault THEN Failed("provider")
    ELSE Got(Secret(ref, vault[ref]))

Read(scheme, ref, data, down) ==
    IF scheme = "sops" THEN ReadSops(ref, data, FALSE) ELSE ReadVault(ref, down)

-----------------------------------------------------------------------------
(* Rendering one file.  st is what the calls so far did.                    *)

\* Mutant: the reader's error is passed on, and quotes the ref.
QuotedRefError(class, c, last) == [class |-> class, quotes |-> IF c.built THEN {last} ELSE {}]

\* dynamicRefError: of a ref built at render time only the class is told.
DynamicRefError(class, c, last) == [class |-> class, quotes |-> {}]

\* The ref a call names: a built one is no ref before the value it holds is read.
RefOf(c, last) == IF c.built /\ last.what # "secret" THEN "junk" ELSE c.arg

\* Mutant: the missing reader is found out before strict mode is.
LenientCallClass(c, ref, guarded) ==
    IF guarded                              THEN "unitFile"
    ELSE IF ~HasReader(SchemeOf(c.fn))      THEN "empty"
    ELSE IF Strict                          THEN "strict"
    ELSE IF ~IsRefOf(SchemeOf(c.fn), ref)   THEN "notARef"
    ELSE "ready"

\* Mutant: an Agent without an identity renders a placeholder.
EmptyCallClass(c, ref, guarded) ==
    IF guarded                              THEN "unitFile"
    ELSE IF Strict                          THEN "strict"
    ELSE IF ~HasReader(SchemeOf(c.fn))      THEN "empty"
    ELSE IF ~IsRefOf(SchemeOf(c.fn), ref)   THEN "notARef"
    ELSE "ready"

\* unitFileGuard, strict mode, a missing reader, then the ref itself.
CallClass(c, ref, guarded) ==
    IF guarded                              THEN "unitFile"
    ELSE IF Strict                          THEN "strict"
    ELSE IF ~HasReader(SchemeOf(c.fn))
    THEN IF SchemeOf(c.fn) = "sops" THEN "noIdentity" ELSE "empty"
    ELSE IF ~IsRefOf(SchemeOf(c.fn), ref)   THEN "notARef"
    ELSE "ready"

Rendered(st, value) == [st EXCEPT !.last = value, !.content = @ \cup {value}]

\* A read of ref outside the batch; a ref the first pass has not seen is late.
Asked(st, scheme, ref) ==
    IF scheme = "sops"
    THEN [st EXCEPT !.reached = @ \cup SopsPaths({ref}), !.opened = @ \cup Decrypts({ref})]
    ELSE [st EXCEPT !.asked = @ \cup {ref}]

Late(c, ref) == SchemeOf(c.fn) \in run.resolved /\ ~(c.fn = "readSopsData" /\ ref \in run.data)

Take(st, c, ref, result) ==
    IF IsOk(result) THEN Rendered(st, result.value)
    ELSE [st EXCEPT !.err = IF Late(c, ref) THEN DynamicRefError(result.class, c, st.last)
                            ELSE Err(result.class)]

ReadNow(st, c, ref, down) ==
    Take(Asked(st, SchemeOf(c.fn), ref), c, ref,
         Read(SchemeOf(c.fn), ref, c.fn = "readSopsData", down))

\* RefCache.Get of a collected ref; mutant: the cache is passed by.
Uncached(ref) == FALSE
Cached(ref)   == ref \in DOMAIN run.cache

\* countSops: every call of either function; mutant: readSopsSecret's only.
CountsStrings(c) == c.fn = "readSopsSecret"
CountsSops(c)    == SchemeOf(c.fn) = "sops"

Counted(st, c) == IF CountsSops(c) THEN [st EXCEPT !.sopsCalls = TRUE] ELSE st

\* registerDataFunc reads every ref as it is called, and records it while its
\* provider collects; registerProviderFunc collects refs until then.
ReadyCall(st, c, ref, down) ==
    LET collecting == SchemeOf(c.fn) \notin run.resolved
        data       == c.fn = "readSopsData"
    IN  IF ~data /\ collecting THEN Rendered([st EXCEPT !.pending = @ \cup {ref}], Pending)
        ELSE IF ~data /\ Cached(ref) THEN Rendered(st, run.cache[ref])
        ELSE ReadNow([st EXCEPT !.data = @ \cup IF collecting THEN {ref} ELSE {}], c, ref, down)

ClassedCall(st, c, ref, class, down) ==
    CASE class = "ready" -> ReadyCall(st, c, ref, down)
      [] class = "empty" -> Rendered(st, Empty(SchemeOf(c.fn)))
      [] OTHER           -> [st EXCEPT !.err = Err(class)]

ProviderCall(st, c, ref, guarded, down) ==
    ClassedCall(Counted(st, c), c, ref, CallClass(c, ref, guarded), down)

\* readSecretFile and host-only `secrets:` entries.
SecretFile(name) ==
    IF WithoutKey THEN Got(Plain("placeholder"))
    ELSE IF name \in Agent.secrets THEN Got(HostOnly(name)) ELSE Failed("secretFile")

TakeFile(st, got) == IF IsOk(got) THEN Rendered(st, got.value) ELSE [st EXCEPT !.err = Err(got.class)]

Made(c, st) == CASE c.when = "value" -> st.last # Pending
                 [] c.when = "units" -> run.units # {}
                 [] OTHER            -> TRUE

Apply(st, c, guarded, down) ==
    IF st.err # NoErr \/ ~Made(c, st) THEN st
    ELSE CASE c.fn \in ProviderFns -> ProviderCall(st, c, RefOf(c, st.last), guarded, down)
           [] c.fn = "readSecretFile" -> TakeFile(st, SecretFile(c.arg))
           [] c.fn = "fails" -> [st EXCEPT !.err = Err("template")]
           [] OTHER -> Rendered(st, Plain("text"))

Fresh == [last |-> Plain("text"), content |-> {}, pending |-> {}, data |-> {}, reached |-> {},
          opened |-> {}, asked |-> {}, sopsCalls |-> FALSE, err |-> NoErr]

\* A template's calls in order, each on what those before it did.
RenderCalls(calls, guarded, down) ==
    LET after[n \in 0..Len(calls)] ==
            IF n = 0 THEN Fresh ELSE Apply(after[n - 1], calls[n], guarded, down)
    IN  after[Len(calls)]

\* renderOrRead
RenderOrRead(src, guarded, down) ==
    IF Template(src) THEN RenderCalls(Flat(F, src, Loaded), guarded, down)
    ELSE Rendered(Fresh, Plain("text"))

\* Mutant: raw systemd units are not guarded.
GuardedQuadlets(ref) == Dest(ref.category) = "quadlet"

\* guardedRender: Quadlets and raw units hold no provider value.
Guarded(ref) == Dest(ref.category) \in {"quadlet", "systemd"}

\* secretContent: templates and repo files as elsewhere, others on the Host.
Render(ref, down) ==
    IF ref.category = "secret" /\ ref.src \notin DOMAIN F.tree
    THEN Apply(Fresh, Call("readSecretFile", ref.src), FALSE, down)
    ELSE RenderOrRead(ref.src, Guarded(ref), down)

-----------------------------------------------------------------------------
(* The steps of a resolve. *)

\* Mutant: the error is dropped on the way.
FailQuietly(err) == run' = [run EXCEPT !.pc = "failed"]

Fail(err) == run' = [run EXCEPT !.pc = "failed", !.err = err]

Done(pc) == run.pc = pc
Unchanging == UNCHANGED << F, vault, ci >>

\* A provider call may fail as a whole.
Down == {{}} \cup IF faults < MaxFaults THEN {{"op"}, {"pp"}} ELSE {}
Charge(down) == faults' = faults + Cardinality(down)

\* expandAndValidate: before any template is rendered.
ExpandAndValidate ==
    /\ Done("expand")
    /\ Unchanging /\ UNCHANGED faults
    /\ LET files == Expand(F, run.set) IN
       IF ExpandFails(F, run.set) \/ DestFails(F, files) \/ Collides(F, files)
       THEN Fail(Err("expand"))
       ELSE run' = [run EXCEPT !.todo = files, !.pc = "collect"]

\* collectSystemdUnits: Quadlets are rendered for the unit they generate.
Units ==
    {IF UnitNaming(r.category) = "file" THEN F.tree[r.src].dest ELSE F.tree[r.src].unit :
        r \in {x \in run.todo : \/ UnitNaming(x.category) = "file"
                                \/ /\ UnitNaming(x.category) = "generated"
                                   /\ RenderOrRead(x.src, TRUE, {}).err = NoErr
                                   /\ F.tree[x.src].unit # ""}}

\* collectTemplateRefs: errors end a template's collection and no more.
Collected ==
    {RenderOrRead(r.src, FALSE, {}) : r \in {x \in run.todo : Template(x.src) /\ ~Guarded(x)}}

CollectFrom(sts) ==
    [run EXCEPT !.pending = UNION {st.pending : st \in sts},
                !.data    = UNION {st.data    : st \in sts},
                !.reached = UNION {st.reached : st \in sts},
                !.opened  = UNION {st.opened  : st \in sts},
                !.units   = Units,
                !.pc      = "resolve"]

Collect ==
    /\ Done("collect")
    /\ Unchanging /\ UNCHANGED faults
    /\ run' = CollectFrom(Collected)

RefsOf(refs, scheme) == {x \in refs : F.refs[x].scheme = scheme}

\* What one batched call of scheme's provider over refs returns.
Batch(scheme, refs, direct, down) ==
    [x \in refs |-> IF scheme = "sops" THEN ReadSops(x, FALSE, direct) ELSE ReadVault(x, down)]

Reads(scheme, refs) ==
    [run EXCEPT !.reached = @ \cup IF scheme = "sops" THEN SopsPaths(refs) ELSE {},
                !.opened  = @ \cup IF scheme = "sops" THEN Decrypts(refs) ELSE {},
                !.asked   = @ \cup IF scheme = "sops" THEN {} ELSE refs]

Classes(results) == {results[x].class : x \in DOMAIN results} \ {"ok"}

\* known and the values of results.
Learned(known, results) ==
    [x \in DOMAIN known \cup DOMAIN results |->
        IF x \in DOMAIN known THEN known[x] ELSE results[x].value]

\* Resolve marks its provider even when nothing was collected for it; mutant:
\* only one that had something to read.
ResolvedIfAsked(scheme, refs) == run.resolved \cup IF refs = {} THEN {} ELSE {scheme}
Resolved(scheme, refs)        == run.resolved \cup {scheme}

\* RefCache.Resolve of one provider: after it the provider's calls render.
ResolveCacheOf(scheme, from, to) ==
    /\ Done(from)
    /\ Unchanging
    /\ LET refs == RefsOf(run.pending, scheme)
       IN \E down \in Down : \E results \in {Batch(scheme, refs, FALSE, down)} :
          /\ refs = {} => down = {}
          /\ Charge(down)
          /\ IF Classes(results) # {}
             THEN \E class \in Classes(results) :
                    run' = [Reads(scheme, refs) EXCEPT !.pc = "failed", !.err = Err(class)]
             ELSE run' = [Reads(scheme, refs) EXCEPT !.cache = Learned(@, results),
                                                     !.resolved = Resolved(scheme, refs),
                                                     !.pc = to]

ResolveCache == \/ ResolveCacheOf("op", "resolve", "resolve pp")
                \/ ResolveCacheOf("pp", "resolve pp", "resolve sops")
                \/ ResolveCacheOf("sops", "resolve sops", "direct")

DirectRefs(scheme) == {r.src : r \in {x \in run.todo : IsRefOf(scheme, x.src)}}

\* batchResolveDirectSecrets of one provider; given tells that one of them
\* returned values.
DirectClass(scheme) ==
    IF scheme = "sops"
    THEN IF Strict THEN "strict" ELSE IF HasReader("sops") THEN "ready" ELSE "noIdentity"
    ELSE IF HasReader(scheme) THEN "ready" ELSE IF Strict THEN "strict" ELSE "skipped"

ResolveDirect(scheme, from, to) ==
    /\ Done(from)
    /\ Unchanging
    /\ LET refs == DirectRefs(scheme)  class == DirectClass(scheme) IN
       IF refs = {} \/ class = "skipped"
       THEN run' = [run EXCEPT !.pc = to] /\ UNCHANGED faults
       ELSE IF class # "ready" THEN Fail(Err(class)) /\ UNCHANGED faults
       ELSE \E down \in Down : \E results \in {Batch(scheme, refs, TRUE, down)} :
            /\ Charge(down)
            /\ IF Classes(results) # {}
               THEN \E c \in Classes(results) :
                      run' = [Reads(scheme, refs) EXCEPT !.pc = "failed", !.err = Err(c)]
               ELSE run' = [Reads(scheme, refs) EXCEPT !.direct = Learned(@, results),
                                                       !.given = TRUE, !.pc = to]

ResolveDirectSecrets == \/ ResolveDirect("op", "direct", "direct pp")
                        \/ ResolveDirect("pp", "direct pp", "direct sops")
                        \/ ResolveDirect("sops", "direct sops", "build")

Next1(todo) == CHOOSE r \in todo : \A t \in todo : Row(r.category) <= Row(t.category)

\* buildFiles: a provider ref has no file when no provider returned values.
BuiltFile(ref, content, sops) ==
    [src |-> ref.src, category |-> ref.category, content |-> content, sopsValues |-> sops]

\* One secret by reference; content "" for one of a provider that was skipped.
BuildDirect(ref) ==
    /\ UNCHANGED faults
    /\ run' = [run EXCEPT !.todo = @ \ {ref}, !.out = @ \cup
         IF ~run.given THEN {}
         ELSE {BuiltFile(ref, {IF ref.src \in DOMAIN run.direct THEN run.direct[ref.src] ELSE Blank},
                         IsRefOf("sops", ref.src))}]

BuildRendered(ref, st, down) ==
    LET read == [run EXCEPT !.reached = @ \cup st.reached, !.opened = @ \cup st.opened,
                            !.asked = @ \cup st.asked]
    IN  /\ \A p \in down : RefsOf(st.asked, p) # {}
        /\ Charge(down)
        /\ run' = IF st.err # NoErr THEN [read EXCEPT !.pc = "failed", !.err = st.err]
                  ELSE [read EXCEPT !.todo = @ \ {ref},
                                    !.out = @ \cup {BuiltFile(ref, st.content, st.sopsCalls)}]

BuildFile ==
    /\ Done("build") /\ run.todo # {}
    /\ Unchanging
    /\ \E ref \in {Next1(run.todo)} :
         IF IsProviderRef(F, ref.src) THEN BuildDirect(ref)
         ELSE \E down \in Down : BuildRendered(ref, Render(ref, down), down)

\* resolveHooksFile: a Hook on a Quadlet is on the unit it generates, and its
\* container is the one the Quadlet names.
QuadletNamed(unit) == {f \in run.out : Dest(f.category) = "quadlet" /\ F.tree[f.src].dest = unit}
Normalize(hook) == hook.valid
HookFails(hook) ==
    \/ ~Normalize(hook)
    \/ hook.quadlet /\ \A f \in QuadletNamed(hook.unit) : F.tree[f.src].unit = ""
    \/ /\ hook.quadlet /\ hook.action = "signal"
       /\ \E f \in QuadletNamed(hook.unit) : F.tree[f.src].container \notin {"", hook.container}

HooksIn(src) == F.tree[src].hooks
HookRender(src) == RenderOrRead(src, TRUE, {})
HookErrors == {HookRender(s).err : s \in HookFiles(F, run.set)} \ {NoErr}
HooksFail ==
    LET files == {s \in HookFiles(F, run.set) : HookRender(s).err = NoErr} IN
    \/ \E s \in files : \E i \in DOMAIN HooksIn(s) : HookFails(HooksIn(s)[i])
    \/ \E s, t \in files : \E i \in DOMAIN HooksIn(s), j \in DOMAIN HooksIn(t) :
           << s, i >> # << t, j >> /\ HooksIn(s)[i].name = HooksIn(t)[j].name

BuildHooks ==
    /\ Done("build") /\ run.todo = {}
    /\ Unchanging /\ UNCHANGED faults
    /\ \/ \E err \in HookErrors : Fail(err)
       \/ HooksFail /\ Fail(Err("hooks"))
       \/ HookErrors = {} /\ ~HooksFail /\ run' = [run EXCEPT !.pc = "analyze"]
=============================================================================
