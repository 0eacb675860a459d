----------------------------- MODULE BuildUnit -----------------------------
(***************************************************************************)
(* The local paths the image build of a .build Quadlet reads               *)
(* (pkg/buildunit): Quadlet's ConvertBuild derives the service's working   *)
(* directory and the context argument, and podman build from these the     *)
(* context and the Containerfiles it tries.                                *)
(*                                                                         *)
(* A value of the unit is a record [kind, at], at the segments of its path *)
(* and kind one of                                                         *)
(*   "none"     it is not set                                              *)
(*   "abs", "rel"   a local path                                           *)
(*   "percent"  a path that starts with a systemd specifier; "inner" one   *)
(*              that has it later                                          *)
(*   "url"      a URL; "httpish" a relative path only Quadlet takes for    *)
(*              one, as it starts with http                                *)
(*   "stdin"    "-"                                                        *)
(*   "file", "unit"   the words of SetWorkingDirectory=                    *)
(* and a path is its segments, Unknown when the unit does not determine it.*)
(***************************************************************************)
EXTENDS Naturals, SequencesExt

Value(kind, at) == [kind |-> kind, at |-> at]
NoValue == Value("none", << >>)
Unknown == << "?" >>

IsQuadletURL(v)   == v.kind \in {"url", "httpish"}
ReadsElsewhere(v) == v.kind \in {"url", "stdin"}
IsAbs(v)          == v.kind = "abs"
HasSpecifier(v)   == v.kind \in {"percent", "inner"}

\* The directory of a path.
Dir(path) == SubSeq(path, 1, Len(path) - 1)

UnitRelative(v, unitDir) ==
    IF v.kind \in {"percent", "abs"} THEN v
    ELSE IF HasSpecifier(v) THEN Value("inner", unitDir \o v.at) ELSE Value("abs", unitDir \o v.at)

\* absPath: relative paths need a working directory the unit sets.
AbsPath(v, workDir) ==
    IF HasSpecifier(v) THEN Unknown
    ELSE IF IsAbs(v) THEN v.at
    ELSE IF ~IsAbs(workDir) THEN Unknown ELSE workDir.at \o v.at

DirOf(v) == [v EXCEPT !.at = Dir(@)]

\* Mutant: SetWorkingDirectory= wins over an explicit WorkingDirectory=.
UnitDirAlways(work, unitDir) == Value("abs", unitDir)

\* The working directory of SetWorkingDirectory=unit and of a relative one.
WorkDirOr(work, unitDir) == IF work # NoValue THEN work ELSE Value("abs", unitDir)

\* handleSetWorkingDirectory: the context argument and the service's working
\* directory; an explicit WorkingDirectory= wins.
WorkingDirectory(u, unitDir) ==
    LET set == u.setWorkDir  work == u.workDir
        Pair(context, dir) == [context |-> context, dir |-> dir]
        isSet == work # NoValue
    IN  CASE set.kind = "none" -> Pair(NoValue, work)
          [] set.kind = "file" ->
               Pair(NoValue, IF ~isSet /\ u.file # NoValue
                             THEN DirOf(UnitRelative(u.file, unitDir)) ELSE work)
          [] set.kind = "unit" -> Pair(NoValue, WorkDirOr(work, unitDir))
          [] IsAbs(set) \/ IsQuadletURL(set) -> Pair(set, work)
          [] OTHER -> Pair(IF isSet THEN NoValue ELSE set, WorkDirOr(work, unitDir))

\* ConvertBuild passes the working directory as the context of a relative
\* File= and of none.
ContextArg(u, wd) ==
    IF /\ wd.context = NoValue
       /\ u.file.kind # "percent" /\ ~IsAbs(u.file) /\ ~IsQuadletURL(u.file)
    THEN wd.dir ELSE wd.context

Paths(context, files, complete) ==
    [context |-> context, named |-> FALSE, files |-> files, complete |-> complete]

\* Without a context argument it is the Containerfile's directory.
WithoutContext(file, dir) ==
    IF file = NoValue \/ ReadsElsewhere(file) \/ AbsPath(file, dir) = Unknown
    THEN Paths(Unknown, {}, FALSE)
    ELSE Paths(Dir(AbsPath(file, dir)), {AbsPath(file, dir)}, TRUE)

\* podman build tries File= against the working directory, then against the
\* context; without File= the context's Containerfile and Dockerfile.
WithContext(file, arg, dir) ==
    LET context == IF ReadsElsewhere(arg) THEN Unknown ELSE AbsPath(arg, dir)
        first   == AbsPath(file, dir)
        known   == {first} \ {Unknown}
        joined  == IF IsAbs(file) /\ IsPrefix(context, file.at) THEN {} ELSE {context \o file.at}
    IN  IF file = NoValue /\ context = Unknown THEN Paths(Unknown, {}, FALSE)
        ELSE IF file = NoValue
        THEN Paths(context, {context \o << "Containerfile" >>, context \o << "Dockerfile" >>}, TRUE)
        ELSE IF ReadsElsewhere(file) THEN Paths(context, {}, FALSE)
        ELSE IF context = Unknown \/ HasSpecifier(file) THEN Paths(context, known, FALSE)
        ELSE Paths(context, known \cup joined, first # Unknown)

ResolveBuild(u, unitDir) ==
    LET wd  == WorkingDirectory(u, unitDir)
        arg == ContextArg(u, wd)
        p   == WithContext(u.file, arg, wd.dir)
    IN  IF arg = NoValue THEN WithoutContext(u.file, wd.dir)
        ELSE [p EXCEPT !.named = wd.context # NoValue /\ p.context # Unknown]
=============================================================================
