----------------------------- MODULE Extensions -----------------------------
(***************************************************************************)
(* Shell extensions: how manifest entries are resolved to a status         *)
(* (scripts/shell/extension_registry.py, run_check.py,                     *)
(* version_enforcer.py), registered as links (register_extensions.py) and  *)
(* shown, checked and logged by the banner (banner_helper.py,              *)
(* banner_log.py).                                                         *)
(*                                                                         *)
(* The programs are the components the bootstrap installer left behind.  A *)
(* version is a number, or one that does not parse.  The order of the      *)
(* categories and the layout of lines are left out.                        *)
(***************************************************************************)
EXTENDS Bootstrap

CONSTANTS
  Checkouts,    \* what a checkout may hold: its manifests in path order, each a
                \* sequence of entries, or None when it cannot be parsed
  Container,    \* containers that may run
  Version,      \* what a component prints when it works
  Unparseable,  \* a version that is no semantic version
  None

VARIABLES
  running,   \* containers that run
  links,     \* per extension name, the program its link in the boot directory leads to
  register,  \* a registration under way: the extensions left
  rewritten, \* history: programs the registration's fix of a shebang has changed
  banner     \* a banner under way

extVars == <<condition, boot, running, links, register, rewritten, banner>>

\* _parse_manifest, over all manifests: a malformed one contributes nothing.
entries(manifests) == FlattenSeq([i \in DOMAIN manifests |->
                                    IF manifests[i] = None THEN <<>> ELSE manifests[i]])

Entry == UNION {ToSet(entries(manifests)) : manifests \in Checkouts}
Extension == {e.name : e \in Entry}

\* A dependency of an entry.
Dep(type, on, required) == [type |-> type, on |-> on, required |-> required]

\* Container names are matched by substring; a set stands for the names a name is in.
ASSUME ExtensionsAssumption ==
  /\ \A manifests \in Checkouts : manifests \in Seq({None} \union Seq(Entry))
  /\ \A e \in Entry :
       /\ e.binary \in Component
       /\ \A d \in ToSet(e.deps) : IF d.type = "container" THEN d.on \subseteq Container
                                    ELSE d.on \in Component

ContainerDep == {d \in UNION {ToSet(e.deps) : e \in Entry} : d.type = "container"}

\* A line being made: the dependencies looked at, whether a container was missing,
\* and the line once it is made; and as history whether each had one running.
NoLine == [looked |-> 0, skipped |-> FALSE, line |-> None, up |-> TRUE]

Closed == [pc |-> "idle", todo |-> <<>>, quiet |-> FALSE, tty |-> FALSE,
           failure |-> FALSE, late |-> 0, shown |-> <<>>, making |-> NoLine]

ExtensionsInit ==
  /\ running = {}
  /\ links = [n \in Extension |-> None]
  /\ register = <<>>
  /\ rewritten = {}
  /\ banner = Closed

exists(c) == condition[c] \notin {"absent", "stale"}
bounded(e) == e.min # None \/ e.max # None

\* validate_entry: a constraint needs a check with a version pattern.
validate_entry(e) == e.wellFormed /\ (bounded(e) => e.check # None /\ e.check.pattern)

\* check_dep: a container dependency looks at what runs now; when the container
\* runtime's call fails the container counts as missing.
check_dep(d, failing) ==
  CASE d.type = "container" -> d \notin failing /\ d.on \intersect running # {}
    [] d.type = "binary" -> exists(d.on)
    [] d.type \in {"submodule", "system-package", "file"} -> condition[d.on] # "absent"
    [] OTHER -> FALSE

\* check_additional_deps: a missing required one decides, an optional one is an error.
check_additional_deps(deps, failing) ==
  LET missing == {d \in ToSet(deps) : ~check_dep(d, failing)}
  IN IF \E d \in missing : d.required THEN "unavailable"
     ELSE IF missing # {} THEN "error" ELSE "ready"

Resolved(e, status) == [entry |-> e, status |-> status]

\* _resolve_entry: only a ready extension can be hidden.
_resolve_entry(e, failing) ==
  LET status == check_additional_deps(e.deps, failing)
  IN Resolved(e, IF ~exists(e.binary) THEN "unavailable"
                 ELSE IF e.hidden /\ status = "ready" THEN "hidden" ELSE status)

\* resolve_extensions: invalid entries do not count, of one name the first does.
resolve_extensions(manifests, failing) ==
  LET all == entries(manifests)
      valid == {i \in DOMAIN all : validate_entry(all[i])}
      first == Among(all, {i \in valid : \A j \in valid : j < i => all[j].name # all[i].name})
  IN [i \in DOMAIN first |-> _resolve_entry(first[i], failing)]

\* _check_version_constraint: TRUE also when there is none.
_check_version_constraint(e, version) ==
  bounded(e) => /\ version \notin {None, Unparseable}
                /\ e.min # None => version >= e.min
                /\ e.max # None => version <= e.max

\* run_check: what the check command may do, and what is made of it.  An exit
\* code other than 0 is not unhealthy; a timeout or a missing program is.
Answer(exception, expected, version) ==
  [exception |-> exception, expected |-> expected, version |-> version]

answers(c) ==
  CASE condition[c] = "good" -> {Answer(FALSE, TRUE, Version[c])}
    [] condition[c] = "silent" -> {Answer(FALSE, FALSE, None)}
    [] condition[c] = "broken" -> {Answer(FALSE, FALSE, None), Answer(TRUE, FALSE, None)}
    [] OTHER -> {Answer(TRUE, FALSE, None)}

Checked(e, healthy, version) ==
  [healthy |-> healthy, version |-> version, fits |-> _check_version_constraint(e, version)]

run_check(e) ==
  IF e.check = None THEN {Checked(e, _check_version_constraint(e, None), None)}
  ELSE {Checked(e, ~a.exception /\ (e.check.expects => a.expected),
                IF e.check.pattern /\ ~a.exception THEN a.version ELSE None) : a \in answers(e.binary)}

\* Mutation: an extension with an optional dependency missing is not checked.
enforceReadyOnly(x) ==
  IF bounded(x.entry) /\ x.status = "ready"
  THEN {IF r.fits THEN x ELSE Resolved(x.entry, "version_mismatch") : r \in run_check(x.entry)}
  ELSE {x}

\* enforce_versions, for one extension: unavailable and hidden ones stay as they are.
enforce_version(x) ==
  IF bounded(x.entry) /\ x.status \notin {"unavailable", "hidden"}
  THEN {IF r.fits THEN x ELSE Resolved(x.entry, "version_mismatch") : r \in run_check(x.entry)}
  ELSE {x}

enforce_versions(resolved) ==
  {e \in [DOMAIN resolved -> UNION {enforce_version(resolved[i]) : i \in DOMAIN resolved}] :
     \A i \in DOMAIN resolved : e[i] \in enforce_version(resolved[i])}

\* register_extensions: resolve and enforce, then link what is neither unavailable
\* nor of the wrong version; the others keep the link they have.
RegisterStarts(manifests, failing) ==
  /\ register = <<>>
  /\ \E resolved \in enforce_versions(resolve_extensions(manifests, failing)) :
       register' = Among(resolved, {i \in DOMAIN resolved :
                                      resolved[i].status \notin {"unavailable", "version_mismatch"}})
  /\ UNCHANGED <<condition, boot, running, links, rewritten, banner>>

\* fix_stale_shebang: each path to a Python that is missing, in the shebang or
\* quoted anywhere in the program, is replaced: what failed for the path alone then
\* works, and what worked without it may not.
fix_stale_shebang(c) ==
  IF exists(c) THEN {condition[c], "good", "silent", "broken"} ELSE {condition[c]}

\* _register_one: a wrapper for a Python script; else the program's shebang is
\* fixed and a symlink made.
RegisterNext ==
  /\ register # <<>>
  /\ LET e == Head(register).entry
     IN /\ \E now \in IF e.python THEN {condition[e.binary]} ELSE fix_stale_shebang(e.binary) :
             /\ condition' = [condition EXCEPT ![e.binary] = now]
             /\ rewritten' = IF Tail(register) = <<>> THEN {}
                             ELSE rewritten \union {c \in {e.binary} : now # condition[c]}
        /\ links' = [links EXCEPT ![e.name] = e.binary]
  /\ register' = Tail(register)
  /\ UNCHANGED <<boot, running, banner>>

\* output_banner: the log is opened; unavailable and hidden extensions are left out.
BannerOpens(manifests, failing, quiet, tty) ==
  /\ banner.pc = "idle"
  /\ LET resolved == resolve_extensions(manifests, failing)
     IN banner' = [Closed EXCEPT !.pc = "open", !.quiet = quiet, !.tty = tty,
                     !.todo = Among(resolved, {i \in DOMAIN resolved :
                                      resolved[i].status \notin {"unavailable", "hidden"}})]
  /\ UNCHANGED <<condition, boot, running, links, register, rewritten>>

\* Mutation: the banner takes the resolution's word for the containers.
never_failed(d, failing) == FALSE

\* One turn of _failed_container_deps.
failed_container(d, failing) == d.type = "container" /\ ~check_dep(d, failing)

\* The suffix of a line; a check that did not run is healthy.
suffix(skipped, checked) ==
  CASE ~checked.fits -> "mismatch"
    [] checked.fits /\ checked.version # None -> "version"
    [] checked.fits /\ checked.version = None /\ skipped -> "container"
    [] OTHER -> IF checked.healthy THEN "tick" ELSE "cross"

Line(x, skipped, checked, late) ==
  [name |-> x.entry.name, suffix |-> suffix(skipped, checked), late |-> late]
Unchecked == [healthy |-> TRUE, version |-> None, fits |-> TRUE]
TimedOut == [healthy |-> FALSE, version |-> None, fits |-> TRUE]

Making == banner.todo # <<>> /\ banner.making.line = None

\* _print_extension looks at the containers again, one dependency after the other.
LookUp ==
  /\ Making
  /\ LET deps == Head(banner.todo).entry.deps
         d == deps[banner.making.looked + 1]
     IN /\ banner.making.looked < Len(deps)
        /\ \E failing \in SUBSET {d} :
             banner' = [banner EXCEPT
                          !.making.looked = @ + 1,
                          !.making.skipped = @ \/ failed_container(d, failing),
                          !.making.up = @ /\ (d.type = "container" => d.on \intersect running # {})]
  /\ UNCHANGED <<condition, boot, running, links, register, rewritten>>

\* Then the check runs, and its hook reports a failure to the session.  On a
\* terminal it runs in a thread that may not come back in time: the line is then a
\* cross, and the hook is late.
Check ==
  /\ Making
  /\ LET x == Head(banner.todo)
         skipped == banner.making.skipped
         checks == x.entry.check # None /\ ~banner.quiet /\ ~skipped
         made(r, late) == [banner EXCEPT !.making.line = Line(x, skipped, r, late)]
     IN /\ banner.making.looked = Len(x.entry.deps)
        /\ \/ ~checks /\ banner' = made(Unchecked, FALSE)
           \/ /\ checks
              /\ \E r \in run_check(x.entry) :
                   banner' = [made(r, FALSE) EXCEPT !.failure = @ \/ ~r.healthy]
           \/ /\ checks /\ banner.tty
              /\ banner' = [made(TimedOut, TRUE) EXCEPT !.late = @ + 1]
  /\ UNCHANGED <<condition, boot, running, links, register, rewritten>>

\* And the line is printed.
PrintExtension ==
  /\ banner.todo # <<>>
  /\ banner.making.line # None
  /\ banner' = [banner EXCEPT !.todo = Tail(@), !.shown = Append(@, banner.making.line),
                              !.making = NoLine]
  /\ UNCHANGED <<condition, boot, running, links, register, rewritten>>

\* A late hook of a session that is still open.
HookLate ==
  /\ banner.late > 0
  /\ \E healthy \in BOOLEAN :
       banner' = [banner EXCEPT !.late = @ - 1, !.failure = @ \/ ~healthy]
  /\ UNCHANGED <<condition, boot, running, links, register, rewritten>>

\* Mutation: the log goes whatever happened.
keptNever(b) == FALSE

\* banner_log_session's end: the log stays only after a failure.
kept(b) == b.failure

\* The threads still running have nowhere to report to.
BannerCloses ==
  /\ banner.pc = "open"
  /\ banner.todo = <<>>
  /\ banner' = [Closed EXCEPT !.failure = kept(banner)]
  /\ UNCHANGED <<condition, boot, running, links, register, rewritten>>

\* External: a container starts or stops.
ContainerToggles(c) ==
  /\ running' = IF c \in running THEN running \ {c} ELSE running \union {c}
  /\ UNCHANGED <<condition, boot, links, register, rewritten, banner>>

ExtensionsStart ==
  \E m \in Checkouts, failing \in SUBSET ContainerDep :
    \/ RegisterStarts(m, failing)
    \/ \E quiet, tty \in BOOLEAN : BannerOpens(m, failing, quiet, tty)

ExtensionsNext ==
  \/ RegisterNext
  \/ LookUp
  \/ Check
  \/ PrintExtension
  \/ HookLate
  \/ BannerCloses

-----------------------------------------------------------------------------

\* Every link made is to a program that is there and prints, now, a version its
\* entry allows, although what is linked was decided for all before the first link
\* was made.  A hidden extension is excepted: enforcement leaves it alone; and so is
\* a program that the fix for an earlier link has changed since it was checked.
LinkedVersionFits ==
  [][RegisterNext =>
       LET x == Head(register) IN
         /\ exists(x.entry.binary)
         /\ bounded(x.entry) /\ x.status # "hidden" /\ x.entry.binary \notin rewritten =>
              \E r \in run_check(x.entry) : r.fits]_extVars

\* A line says that an extension is fine, by a tick or by a version, only when for
\* each container dependency a container ran as the line was made, whatever they
\* did since the extension was resolved.  While the check runs, and until the line
\* is printed, one may stop again.
NoTickWithoutContainer ==
  [][PrintExtension /\ Last(banner'.shown).suffix \in {"tick", "version"}
       => banner.making.up]_extVars

\* The log of a session that showed a failing check stays.  A check that ran out
\* of time on the terminal is excepted: it is shown as failing too, but only its
\* thread says so to the session, if it comes back before the end.
FailedBannerKeepsLog ==
  [][BannerCloses /\ (\E l \in ToSet(banner.shown) : l.suffix = "cross" /\ ~l.late)
       => banner'.failure]_extVars
=============================================================================
