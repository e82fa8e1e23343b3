-------------------------- MODULE IncrementalGraph --------------------------
(***************************************************************************)
(* The persisted dependency graph of bootstrap/stage2/incremental_graph.c:  *)
(* a run reads the sources, loads the manifest of an earlier run, decides   *)
(* for every module, dependencies first, whether its interface is executed  *)
(* or reused, and commits a manifest and a report.                          *)
(*                                                                          *)
(* A digest is modelled by what it digests.  Files are replaced by rename,  *)
(* so a file changes in one step; a run may stop between any two steps,     *)
(* because it failed, was cancelled or crashed: all three leave the files   *)
(* as they are.  What the front end makes of the sources is a parameter.    *)
(***************************************************************************)
EXTENDS Integers, FiniteSets

CONSTANTS
    Modules, Runs, Profiles,
    Versions,            \* the sources each module may have
    Imports(_, _),       \* the modules that m imports, given all the sources
    EdgeDigest(_, _),    \* what the outgoing edges of m resolve to
    Interface(_, _),     \* the .kif of m: [public |-> ..., internal |-> ...]
    SamePackage,         \* the pairs <<consumer, target>> of one package
    StopPhases,          \* the phases in which a run may stop
    MaxEdits, MaxDamages,
    Absent,              \* the source of a module that is not in the inventory
    Nothing,             \* no such file, or no such entry
    Damaged              \* what is in a file that holds something else

Inventory(s) == {m \in Modules : s[m] # Absent}

\* The programs that the front end accepts.
Programs ==
    {s \in [Modules -> UNION {Versions[m] : m \in Modules}] :
        /\ \A m \in Modules : s[m] \in Versions[m]
        /\ Inventory(s) # {}
        /\ \A m \in Inventory(s) : Imports(m, s) \subseteq Inventory(s)}

\* What m may read of the interface of t.
View(m, t, interface) ==
    IF <<m, t>> \in SamePackage THEN interface
    ELSE [public |-> interface.public]

\* The imports of a module are in its source; its interface also depends on
\* what its edges resolve to and what it may read of the modules it imports.
ASSUME InterfaceIsLocal ==
    \A s, r \in Programs : \A m \in Inventory(s) :
        s[m] = r[m] =>
          /\ Imports(m, s) = Imports(m, r)
          /\ /\ EdgeDigest(m, s) = EdgeDigest(m, r)
             /\ \A t \in Imports(m, s) :
                  View(m, t, Interface(t, s)) = View(m, t, Interface(t, r))
             => Interface(m, s) = Interface(m, r)

\* A .kif holds what everyone may read and what the package may read.
ASSUME InterfaceHasTwoParts ==
    \A s \in Programs : \A m \in Inventory(s) :
        LET i == Interface(m, s)
        IN  i = [public |-> i.public, internal |-> i.internal]

ASSUME NothingIsNoModule == Nothing \notin Modules

\* What a target artifact of m is built from.
Product(m, s) ==
    [source |-> s[m],
     seen |-> [t \in Imports(m, s) |-> View(m, t, Interface(t, s))]]

VARIABLES
    sources, profile,          \* what the next run is given
    kif, manifest, report,     \* the cache directory and the report file
    artifact,                  \* what the caller built of each module
    run,                       \* the runs
    edits, damages             \* bounds

files == <<kif, manifest, report, artifact>>
world == <<sources, profile, edits, damages>>
vars  == <<world, files, run>>

\* No decision yet; the zero of ModuleState.outcome is EXECUTED in the code,
\* which reads it only once decided is set.
Undecided == [outcome |-> "none", reason |-> "none", forced |-> FALSE,
              interface |-> Nothing, kif |-> Nothing]

NoRun == [phase |-> "idle", input |-> Nothing, profile |-> Nothing,
          cache |-> Nothing, executing |-> Nothing,
          states |-> [m \in Modules |-> Undecided]]

Init ==
    /\ sources \in Programs /\ profile \in Profiles
    /\ kif = [m \in Modules |-> Nothing]
    /\ manifest = Nothing /\ report = Nothing
    /\ artifact = [m \in Modules |-> Nothing]
    /\ run = [r \in Runs |-> NoRun]
    /\ edits = 0 /\ damages = 0

-----------------------------------------------------------------------------
decided(r, m) == run[r].states[m].outcome # "none"
inventory(r) == Inventory(run[r].input)
executed(r) == {m \in Modules : run[r].states[m].outcome = "executed"}

\* main reads the sources, and goes no further with ones it rejects.
load_inventory(r) ==
    /\ run[r].phase = "idle" /\ sources \in Programs
    /\ run' = [run EXCEPT ![r] =
                 [NoRun EXCEPT !.phase = "load", !.input = sources,
                               !.profile = profile]]
    /\ UNCHANGED <<world, files>>

\* cold: Nothing.  A manifest that cannot be trusted is a miss.
load_cached_graph(r) ==
    /\ run[r].phase = "load"
    /\ run' = [run EXCEPT ![r].cache = manifest, ![r].phase = "decide"]
    /\ UNCHANGED <<world, files>>

warm(r) == run[r].cache \notin {Nothing, Damaged}

\* Mutant: consumers may come first.
dependencies_decided_any(r, m) == TRUE

dependencies_decided(r, m) == \A t \in Imports(m, run[r].input) : decided(r, t)

to_decide(r) == inventory(r)

\* The code takes one of the orders that put dependencies first.
undecided_next(r, m) ==
    /\ run[r].phase = "decide" /\ run[r].executing = Nothing
    /\ m \in to_decide(r) /\ ~decided(r, m)
    /\ dependencies_decided(r, m)

is_cached(r, m) == m \in DOMAIN run[r].cache.entries
cached(r, m) == run[r].cache.entries[m]

\* Mutant: the stored interface is taken on trust.
cached_kif_is_intact_assumed(r, m) == TRUE

cached_kif_is_intact(r, m) == kif[m] = cached(r, m).kif

\* Why m must be executed; "unchanged" when it need not be.
reason(r, m) ==
    CASE run[r].cache = Nothing -> "cold-cache"
      [] run[r].cache = Damaged -> "cache-miss"
      [] warm(r) /\ run[r].states[m].forced -> "upstream-changed"
      [] OTHER ->
           IF ~is_cached(r, m) THEN "module-not-cached"
           ELSE IF run[r].input[m] # cached(r, m).source THEN "source-changed"
           ELSE IF EdgeDigest(m, run[r].input) # cached(r, m).edges
           THEN "edges-changed"
           ELSE IF ~cached_kif_is_intact(r, m) THEN "cached-interface-unusable"
           ELSE "unchanged"

reuse_module(r, m) ==
    /\ undecided_next(r, m) /\ reason(r, m) = "unchanged"
    /\ run' = [run EXCEPT ![r].states[m] =
                 [@ EXCEPT !.outcome = "reused", !.reason = "unchanged",
                           !.interface = cached(r, m).interface,
                           !.kif = cached(r, m).kif]]
    /\ UNCHANGED <<world, files>>

\* kofun_kif_write: the interface replaces the file.
publish_interface(r, m) ==
    /\ undecided_next(r, m) /\ reason(r, m) # "unchanged"
    /\ kif' = [kif EXCEPT ![m] = Interface(m, run[r].input)]
    /\ run' = [run EXCEPT ![r].executing = m,
                          ![r].states[m].reason = reason(r, m)]
    /\ UNCHANGED <<world, manifest, report, artifact>>

\* Mutants: a change of the package's view is not looked for; every change
\* counts for every consumer.
sees_change_public(m, t, old, new) == old.public # new.public

sees_change_any(m, t, old, new) == TRUE

\* Would m read something else of t than it did?
sees_change(m, t, old, new) ==
    \/ old.public # new.public
    \/ old.internal # new.internal /\ <<m, t>> \in SamePackage

\* propagate_invalidation: the consumers that must be executed.  A module that
\* was never cached counts as changed.
invalidated(r, t) ==
    {m \in inventory(r) :
        /\ t \in Imports(m, run[r].input) /\ ~decided(r, m)
        /\ \/ ~is_cached(r, t)
           \/ sees_change(m, t, cached(r, t).interface,
                          Interface(t, run[r].input))}

\* The file is read back for its digest, and the change is propagated.
finish_execution(r) ==
    LET t == run[r].executing
        hit == IF warm(r) THEN invalidated(r, t) ELSE {}
        old == run[r].states
    IN /\ run[r].phase = "decide" /\ t # Nothing
       /\ run' = [run EXCEPT
            ![r].executing = Nothing,
            ![r].states = [m \in Modules |->
               IF m = t
               THEN [old[m] EXCEPT !.outcome = "executed", !.kif = kif[t],
                                   !.interface = Interface(t, run[r].input)]
               ELSE [old[m] EXCEPT !.forced = @ \/ m \in hit]]]
       /\ UNCHANGED <<world, files>>

\* The manifest replaces the old one: this commits the run.
commit_manifest(r) ==
    /\ run[r].phase = "decide"
    /\ \A m \in inventory(r) : decided(r, m)
    /\ manifest' =
         [profile |-> run[r].profile,
          entries |-> [m \in inventory(r) |->
             [source |-> run[r].input[m],
              edges |-> EdgeDigest(m, run[r].input),
              interface |-> run[r].states[m].interface,
              kif |-> run[r].states[m].kif]]]
    /\ run' = [run EXCEPT ![r].phase = "report"]
    /\ UNCHANGED <<world, kif, report, artifact>>

profile_matches(r) == warm(r) /\ run[r].cache.profile = run[r].profile

\* decide_target_artifacts
target_rebuilt(r) == IF profile_matches(r) THEN executed(r) ELSE inventory(r)

\* The caller of a run that succeeded builds what the report names.
build_targets(r) ==
    artifact' = [m \in Modules |->
                   IF m \in target_rebuilt(r)
                   THEN [of |-> Product(m, run[r].input),
                         profile |-> run[r].profile]
                   ELSE artifact[m]]

commit_report(r) ==
    /\ run[r].phase = "report"
    /\ report' = [executed |-> executed(r), rebuilt |-> target_rebuilt(r)]
    /\ build_targets(r)
    /\ run' = [run EXCEPT ![r].phase = "idle"]
    /\ UNCHANGED <<world, kif, manifest>>

\* A failed write, CANCEL_AFTER_EXECUTIONS, a crash.
run_stops(r) ==
    /\ run[r].phase \in StopPhases
    /\ run' = [run EXCEPT ![r] = NoRun]
    /\ UNCHANGED <<world, files>>

-----------------------------------------------------------------------------
\* The user edits at any time; what damages the cache does so between runs.
edit(m, v) ==
    /\ edits < MaxEdits /\ v # sources[m]
    /\ sources' = [sources EXCEPT ![m] = v] /\ edits' = edits + 1
    /\ UNCHANGED <<profile, damages, files, run>>

retarget(p) ==
    /\ edits < MaxEdits /\ p # profile
    /\ profile' = p /\ edits' = edits + 1
    /\ UNCHANGED <<sources, damages, files, run>>

Quiet == \A r \in Runs : run[r].phase = "idle"

damage_kif(m) ==
    /\ Quiet /\ damages < MaxDamages /\ kif[m] # Nothing
    /\ kif' = [kif EXCEPT ![m] = Damaged] /\ damages' = damages + 1
    /\ UNCHANGED <<sources, profile, edits, manifest, report, artifact, run>>

damage_manifest ==
    /\ Quiet /\ damages < MaxDamages /\ manifest # Nothing
    /\ manifest' = Damaged /\ damages' = damages + 1
    /\ UNCHANGED <<sources, profile, edits, kif, report, artifact, run>>

Next ==
    \/ \E r \in Runs : \/ load_inventory(r) \/ load_cached_graph(r)
                       \/ finish_execution(r)
                       \/ commit_manifest(r) \/ commit_report(r)
                       \/ run_stops(r)
    \/ \E r \in Runs, m \in Modules : reuse_module(r, m) \/ publish_interface(r, m)
    \/ \E m \in Modules : \/ \E v \in Versions[m] : edit(m, v)
                          \/ damage_kif(m)
    \/ \E p \in Profiles : retarget(p)
    \/ damage_manifest

Spec == Init /\ [][Next]_vars

-----------------------------------------------------------------------------
\* What a run over the sources a manifest names would publish from nothing.
Recorded == [m \in Modules |-> IF m \in DOMAIN manifest.entries
                               THEN manifest.entries[m].source ELSE Absent]

\* A committed manifest describes the clean build of its own sources, whatever
\* mixture of executed and reused modules, of interrupted runs, edits and
\* damage it came from: the next run may compare with it.
ManifestIsClean ==
    manifest \notin {Nothing, Damaged} =>
        \A m \in DOMAIN manifest.entries :
            /\ manifest.entries[m].kif = Interface(m, Recorded)
            /\ manifest.entries[m].interface = Interface(m, Recorded)

\* "Never a stale reuse": when a run has decided every module, the interface
\* files are those of a clean build.
CacheIsClean ==
    \A r \in Runs : run[r].phase = "report" =>
        \A m \in inventory(r) : kif[m] = Interface(m, run[r].input)

\* Every artifact after a run that succeeded is the one a clean build makes.
TargetsAreFresh ==
    [][\A r \in Runs : run[r].phase = "report" /\ run'[r].phase = "idle"
                       /\ run'[r] # NoRun =>
         \A m \in inventory(r) :
            artifact'[m] = [of |-> Product(m, run[r].input),
                            profile |-> run[r].profile]]_vars

\* "A target artifact is reusable only when both its target-profile action-key
\* input and its source-level semantic work are unchanged": when a run reports a
\* target as reused, the artifact that the caller built of it, if any, is of the
\* sources and the profile that the run was given.
ReusedTargetsAreCurrent ==
    [][\A r \in Runs : run[r].phase = "report" /\ run'[r].phase = "idle"
                       /\ run'[r] # NoRun =>
         \A m \in inventory(r) \ target_rebuilt(r) :
            artifact[m] # Nothing =>
                artifact[m] = [of |-> Product(m, run[r].input),
                               profile |-> run[r].profile]]_vars

\* "A private body edit recomputes only its own module": with a manifest to
\* compare with, a module is executed only if it is new or changed itself, its
\* file is unusable, or it would read something else of a module it imports.
NoNeedlessExecution ==
    \A r \in Runs : warm(r) /\ run[r].phase # "idle" =>
        \A m \in executed(r) :
            \/ run[r].states[m].reason = "cached-interface-unusable"
            \/ ~is_cached(r, m)
            \/ run[r].input[m] # cached(r, m).source
            \/ EdgeDigest(m, run[r].input) # cached(r, m).edges
            \/ \E t \in Imports(m, run[r].input) :
                 \/ ~is_cached(r, t)
                 \/ View(m, t, cached(r, t).interface)
                      # View(m, t, Interface(t, run[r].input))

=============================================================================
