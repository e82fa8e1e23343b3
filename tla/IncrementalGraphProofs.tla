----------------------- MODULE IncrementalGraphProofs -----------------------
(***************************************************************************)
(* Proofs about IncrementalGraph, for any modules, any sources of them, any  *)
(* imports, interfaces and packages, any number of edits and damaged files.  *)
(*                                                                          *)
(* That nothing is executed without need holds however many runs share the   *)
(* cache directory (Causes).  That nothing stale is reused holds when runs   *)
(* do not overlap (Clean): two that do can break it, which TLC shows.        *)
(***************************************************************************)
EXTENDS IncrementalGraph, TLAPS

Sources    == UNION {Versions[m] : m \in Modules}
Interfaces == {Interface(m, s) : m \in Modules, s \in Programs}
Edges      == {EdgeDigest(m, s) : m \in Modules, s \in Programs}
Kifs       == Interfaces \cup {Nothing, Damaged}

Entry == [source : Sources, edges : Edges, interface : Kifs, kif : Kifs]

Manifests ==
    {Nothing, Damaged} \cup
    [profile : Profiles, entries : UNION {[I -> Entry] : I \in SUBSET Modules}]

Reasons == {"none", "unchanged", "cold-cache", "cache-miss", "upstream-changed",
            "module-not-cached", "source-changed", "edges-changed",
            "cached-interface-unusable"}

ModuleState == [outcome : {"none", "executed", "reused"}, reason : Reasons,
                forced : BOOLEAN, interface : Kifs, kif : Kifs]

Run == [phase : {"idle", "load", "decide", "report"},
        input : Programs \cup {Nothing}, profile : Profiles \cup {Nothing},
        cache : Manifests, executing : Modules \cup {Nothing},
        states : [Modules -> ModuleState]]

Types ==
    /\ profile \in Profiles /\ kif \in [Modules -> Kifs]
    /\ manifest \in Manifests
    /\ run \in [Runs -> Run]

(***************************************************************************)
(* Why a module is executed.                                                *)
(***************************************************************************)

\* The run has just read the sources, and decided nothing.
Starts(r) ==
    run[r].phase = "load" =>
        run[r].executing = Nothing /\ run[r].states = [m \in Modules |-> Undecided]

\* m would read something else of a module that it imports.
Affected(r, m) ==
    \E t \in Imports(m, run[r].input) :
        \/ ~is_cached(r, t)
        \/ View(m, t, cached(r, t).interface) # View(m, t, Interface(t, run[r].input))

Needed(r, m) ==
    \/ run[r].states[m].reason = "cached-interface-unusable"
    \/ ~is_cached(r, m)
    \/ run[r].input[m] # cached(r, m).source
    \/ EdgeDigest(m, run[r].input) # cached(r, m).edges
    \/ Affected(r, m)

\* A read of the sources that the front end accepted.
Reads(r) == run[r].phase # "idle" => run[r].input \in Programs /\ run[r].profile \in Profiles

Caused(r) ==
    /\ Starts(r) /\ Reads(r)
    /\ \A m \in Modules : run[r].states[m].forced => Affected(r, m)
    /\ warm(r) => \A m \in Modules :
          m \in executed(r) \/ run[r].executing = m => Needed(r, m)

Causes == \A r \in Runs : Caused(r)

(***************************************************************************)
(* What is reused is what a clean build makes.                              *)
(***************************************************************************)
OneRun == \A r, q \in Runs : r = q

Of(M) == [m \in Modules |-> IF m \in DOMAIN M.entries
                            THEN M.entries[m].source ELSE Absent]

\* M describes the clean build of its own sources.
IsClean(M) ==
    M \notin {Nothing, Damaged} =>
        /\ Of(M) \in Programs
        /\ DOMAIN M.entries = Inventory(Of(M))
        /\ \A m \in DOMAIN M.entries :
              /\ M.entries[m].edges = EdgeDigest(m, Of(M))
              /\ M.entries[m].kif = Interface(m, Of(M))
              /\ M.entries[m].interface = Interface(m, Of(M))

Deciding(r) == run[r].phase \in {"decide", "report"}

\* Dependencies are decided first.
Ordered(r) ==
    /\ \A m \in Modules : decided(r, m) => m \in inventory(r) /\ dependencies_decided(r, m)
    /\ LET t == run[r].executing
       IN t # Nothing => /\ run[r].phase = "decide"
                         /\ t \in inventory(r) /\ ~decided(r, t)
                         /\ dependencies_decided(r, t)

\* The interface of a module that is decided, or being executed, is there.
Published(r) ==
    /\ \A m \in Modules : decided(r, m) =>
          LET i == Interface(m, run[r].input)
          IN  run[r].states[m].interface = i /\ run[r].states[m].kif = i /\ kif[m] = i
    /\ LET t == run[r].executing
       IN t # Nothing => kif[t] = Interface(t, run[r].input)

\* m reads of t what it read of it when it was cached.
SameView(r, m, t) ==
    /\ is_cached(r, t)
    /\ View(m, t, cached(r, t).interface) = View(m, t, Interface(t, run[r].input))

\* A consumer that is not forced would read the same of what is decided.
Unseen(r) ==
    warm(r) => \A m \in inventory(r) : \A t \in Imports(m, run[r].input) :
        decided(r, t) /\ ~decided(r, m) /\ ~run[r].states[m].forced
            => SameView(r, m, t)

\* Why a module was reused.
Reused(r) ==
    \A m \in Modules : run[r].states[m].outcome = "reused" =>
        /\ warm(r) /\ is_cached(r, m) /\ run[r].input[m] = cached(r, m).source
        /\ \A t \in Imports(m, run[r].input) : SameView(r, m, t)

\* What the manifest is to a run.
Committed(r) ==
    /\ run[r].phase = "decide" => run[r].cache = manifest
    /\ run[r].phase = "report" =>
          /\ \A m \in inventory(r) : decided(r, m)
          /\ manifest.profile = run[r].profile
          /\ DOMAIN manifest.entries = inventory(r)
          /\ Of(manifest) = run[r].input

Deserved(r) ==
    Deciding(r) => /\ IsClean(run[r].cache)
                   /\ Ordered(r) /\ Published(r) /\ Unseen(r) /\ Reused(r)
                   /\ Committed(r)

\* The artifacts are the ones that M names.
Built(M) ==
    M \notin {Nothing, Damaged} => \A m \in DOMAIN M.entries :
        artifact[m] = [of |-> Product(m, Of(M)), profile |-> M.profile]

Clean == IsClean(manifest) /\ \A r \in Runs : Deserved(r)

\* Between its two commits a run has built nothing of its manifest yet.
Targets ==
    /\ (\A r \in Runs : run[r].phase # "report") => Built(manifest)
    /\ \A r \in Runs : run[r].phase = "report" => Built(run[r].cache)

(***************************************************************************)
(* The types, and what each step of a run changes of it.                    *)
(***************************************************************************)
\* A source tree, its modules and their imports.
LEMMA ProgramFacts ==
    ASSUME NEW s \in Programs
    PROVE  /\ s \in [Modules -> Sources]
           /\ Inventory(s) \subseteq Modules
           /\ \A m \in Inventory(s) : Imports(m, s) \subseteq Inventory(s)
BY DEF Programs, Sources, Inventory

\* The interface of a module and the digest of its edges.
LEMMA InterfaceType ==
    ASSUME NEW m \in Modules, NEW s \in Programs
    PROVE  Interface(m, s) \in Kifs /\ EdgeDigest(m, s) \in Edges
BY DEF Interfaces, Edges, Kifs

\* A run that has not begun is well-typed.
LEMMA NoRunType == NoRun \in Run
<1>1. Undecided \in ModuleState
  BY DEF Undecided, ModuleState, Reasons, Kifs
<1> QED
  BY <1>1 DEF NoRun, Run, Manifests

\* What the types say of a run.
LEMMA RunType ==
    ASSUME Types, NEW r \in Runs
    PROVE  /\ run[r] \in Run
           /\ run[r].phase \in {"idle", "load", "decide", "report"}
           /\ run[r].input \in Programs \cup {Nothing}
           /\ run[r].profile \in Profiles \cup {Nothing}
           /\ run[r].cache \in Manifests
           /\ run[r].executing \in Modules \cup {Nothing}
           /\ run[r].states \in [Modules -> ModuleState]
BY DEF Types, Run

Others(r) == \A q \in Runs \ {r} : run'[q] = run[q]

\* Only the decision about m changes.
OthersStay(r, m) ==
    \A n \in Modules \ {m} : run'[r].states[n] = run[r].states[n]

\* A run keeps what it has read.
Keeps(r) ==
    /\ run'[r].input = run[r].input /\ run'[r].profile = run[r].profile
    /\ run'[r].cache = run[r].cache

\* What load_inventory does to its run.
LEMMA Loading ==
    ASSUME Types, NEW r \in Runs, load_inventory(r)
    PROVE  /\ run' \in [Runs -> Run] /\ Others(r)
           /\ run'[r].phase = "load" /\ run'[r].input = sources
           /\ run'[r].profile = profile /\ run'[r].cache = Nothing
           /\ run'[r].executing = Nothing
           /\ run'[r].states = [m \in Modules |-> Undecided]
<1> DEFINE n == [NoRun EXCEPT !.phase = "load", !.input = sources,
                              !.profile = profile]
<1>1. /\ n \in Run
      /\ n.phase = "load" /\ n.input = sources /\ n.profile = profile
      /\ n.cache = Nothing /\ n.executing = Nothing
      /\ n.states = [m \in Modules |-> Undecided]
  BY NoRunType DEF load_inventory, NoRun, Run, Types
<1>2. run' = [run EXCEPT ![r] = n]
  BY DEF load_inventory
<1> HIDE DEF n
<1> QED
  BY <1>1, <1>2 DEF Types, Others

\* What load_cached_graph does to its run.
LEMMA CacheLoading ==
    ASSUME Types, NEW r \in Runs, load_cached_graph(r)
    PROVE  /\ run' \in [Runs -> Run] /\ Others(r)
           /\ run'[r].phase = "decide" /\ run'[r].cache = manifest
           /\ run'[r].input = run[r].input /\ run'[r].profile = run[r].profile
           /\ run'[r].executing = run[r].executing
           /\ run'[r].states = run[r].states
<1> DEFINE n == [run[r] EXCEPT !.cache = manifest, !.phase = "decide"]
<1>1. /\ n \in Run
      /\ n.phase = "decide" /\ n.input = run[r].input /\ n.profile = run[r].profile
      /\ n.cache = manifest /\ n.executing = run[r].executing
      /\ n.states = run[r].states
  BY DEF Run, Types
<1>2. run' = [run EXCEPT ![r] = n]
  BY DEF load_cached_graph, Types
<1> HIDE DEF n
<1> QED
  BY <1>1, <1>2 DEF Types, Others

\* A decision has one of the reasons of the code.
LEMMA ReasonType ==
    ASSUME NEW r, NEW m
    PROVE  reason(r, m) \in Reasons
BY DEF reason, Reasons

\* An entry of the manifest is well-typed.
LEMMA CachedType ==
    ASSUME Types, NEW r \in Runs, warm(r), NEW m, is_cached(r, m)
    PROVE  m \in Modules /\ cached(r, m) \in Entry
<1>1. run[r].cache \in
        [profile : Profiles, entries : UNION {[I -> Entry] : I \in SUBSET Modules}]
  BY RunType DEF warm, Manifests
<1>2. PICK I \in SUBSET Modules : run[r].cache.entries \in [I -> Entry]
  BY <1>1
<1> QED
  BY <1>2 DEF is_cached, cached

\* The three fields that a decision sets.
Decide(s, outcome, interface, file) ==
    [s EXCEPT !.outcome = outcome, !.kif = file, !.interface = interface]

\* The decisions of a run are about its modules.
LEMMA DecisionSets ==
    ASSUME NEW s \in ModuleState, NEW outcome, NEW interface, NEW file
    PROVE  Decide(s, outcome, interface, file) =
           [outcome |-> outcome, reason |-> s.reason, forced |-> s.forced,
            interface |-> interface, kif |-> file]
<1> DEFINE a == [s EXCEPT !.outcome = outcome]
           b == [a EXCEPT !.kif = file]
           c == [b EXCEPT !.interface = interface]
<1>1. c = Decide(s, outcome, interface, file)
  BY DEF Decide
<1>2. a = [outcome |-> outcome, reason |-> s.reason, forced |-> s.forced,
           interface |-> s.interface, kif |-> s.kif]
  BY DEF ModuleState
<1> HIDE DEF a
<1>3. b = [outcome |-> outcome, reason |-> s.reason, forced |-> s.forced,
           interface |-> s.interface, kif |-> file]
  BY <1>2
<1> HIDE DEF b
<1>4. c = [outcome |-> outcome, reason |-> s.reason, forced |-> s.forced,
           interface |-> interface, kif |-> file]
  BY <1>3
<1> QED
  BY <1>1, <1>4

\* What reusing a module does to its run.
LEMMA Reusing ==
    ASSUME Types, NEW r \in Runs, NEW m \in Modules, reuse_module(r, m),
           warm(r), is_cached(r, m)
    PROVE  /\ run' \in [Runs -> Run] /\ Others(r) /\ Keeps(r)
           /\ run'[r].phase = run[r].phase
           /\ run'[r].executing = run[r].executing
           /\ OthersStay(r, m)
           /\ run'[r].states[m].outcome = "reused"
           /\ run'[r].states[m].forced = run[r].states[m].forced
           /\ run'[r].states[m].interface = cached(r, m).interface
           /\ run'[r].states[m].kif = cached(r, m).kif
<1> DEFINE s == run[r].states[m]
           t == [outcome |-> "reused", reason |-> "unchanged", forced |-> s.forced,
                 interface |-> cached(r, m).interface, kif |-> cached(r, m).kif]
           n == [run[r] EXCEPT !.states = [@ EXCEPT ![m] = t]]
<1>1. s \in ModuleState /\ cached(r, m) \in Entry
  BY RunType, CachedType
<1>2. t \in ModuleState
  BY <1>1 DEF ModuleState, Entry, Reasons
<1>3. t = [s EXCEPT !.outcome = "reused", !.reason = "unchanged",
                    !.interface = cached(r, m).interface, !.kif = cached(r, m).kif]
  <2> DEFINE a == [s EXCEPT !.outcome = "reused"]
             b == [a EXCEPT !.reason = "unchanged"]
             c == [b EXCEPT !.interface = cached(r, m).interface]
             d == [c EXCEPT !.kif = cached(r, m).kif]
  <2>1. d = [s EXCEPT !.outcome = "reused", !.reason = "unchanged",
                      !.interface = cached(r, m).interface, !.kif = cached(r, m).kif]
    OBVIOUS
  <2>2. a = [outcome |-> "reused", reason |-> s.reason, forced |-> s.forced,
             interface |-> s.interface, kif |-> s.kif]
    BY <1>1 DEF ModuleState
  <2> HIDE DEF a
  <2>3. b = [outcome |-> "reused", reason |-> "unchanged", forced |-> s.forced,
             interface |-> s.interface, kif |-> s.kif]
    BY <2>2
  <2> HIDE DEF b
  <2>4. c = [outcome |-> "reused", reason |-> "unchanged", forced |-> s.forced,
             interface |-> cached(r, m).interface, kif |-> s.kif]
    BY <2>3
  <2> HIDE DEF c
  <2>5. d = t
    BY <2>4
  <2> QED
    BY <2>1, <2>5
<1> HIDE DEF s, t
<1>4. /\ n \in Run
      /\ n.phase = run[r].phase /\ n.input = run[r].input
      /\ n.profile = run[r].profile
      /\ n.cache = run[r].cache /\ n.executing = run[r].executing
      /\ n.states = [run[r].states EXCEPT ![m] = t]
  BY <1>2, RunType DEF Run
<1>5. run' = [run EXCEPT ![r] = n]
  BY <1>3 DEF reuse_module, Types, s
<1> HIDE DEF n
<1> QED
  BY <1>4, <1>5, RunType DEF Types, Others, Keeps, OthersStay, s, t

\* What publishing an interface does to its run.
LEMMA Publishing ==
    ASSUME Types, NEW r \in Runs, NEW m \in Modules, publish_interface(r, m)
    PROVE  /\ run' \in [Runs -> Run] /\ Others(r) /\ Keeps(r)
           /\ run'[r].phase = run[r].phase
           /\ run'[r].executing = m
           /\ OthersStay(r, m)
           /\ run'[r].states[m].outcome = run[r].states[m].outcome
           /\ run'[r].states[m].reason = reason(r, m)
           /\ run'[r].states[m].forced = run[r].states[m].forced
<1> DEFINE s == run[r].states[m]
           t == [outcome |-> s.outcome, reason |-> reason(r, m),
                 forced |-> s.forced, interface |-> s.interface, kif |-> s.kif]
           n == [run[r] EXCEPT !.executing = m, !.states = [@ EXCEPT ![m] = t]]
<1>1. s \in ModuleState /\ reason(r, m) \in Reasons
  BY RunType, ReasonType
<1>2. t \in ModuleState
  BY <1>1 DEF ModuleState
<1>3. t = [s EXCEPT !.reason = reason(r, m)]
  BY <1>1 DEF ModuleState
<1> HIDE DEF s, t
<1>4. /\ n \in Run
      /\ n.phase = run[r].phase /\ n.input = run[r].input
      /\ n.profile = run[r].profile
      /\ n.cache = run[r].cache /\ n.executing = m
      /\ n.states = [run[r].states EXCEPT ![m] = t]
  BY <1>2, RunType DEF Run
<1>5. run' = [run EXCEPT ![r] = n]
  BY <1>3 DEF publish_interface, Types, s
<1> HIDE DEF n
<1> QED
  BY <1>4, <1>5, RunType DEF Types, Others, Keeps, OthersStay, s, t

\* What the end of an execution does to its run: which modules it invalidates.
LEMMA Finishing ==
    ASSUME Types, NEW r \in Runs, finish_execution(r), Reads(r)
    PROVE  LET t == run[r].executing
               hit == IF warm(r) THEN invalidated(r, t) ELSE {}
           IN  /\ t \in Modules
               /\ run' \in [Runs -> Run] /\ Others(r) /\ Keeps(r)
               /\ run'[r].phase = run[r].phase
               /\ run'[r].executing = Nothing
               /\ run'[r].states[t].outcome = "executed"
               /\ run'[r].states[t].reason = run[r].states[t].reason
               /\ run'[r].states[t].forced = run[r].states[t].forced
               /\ run'[r].states[t].interface = Interface(t, run[r].input)
               /\ run'[r].states[t].kif = kif[t]
               /\ \A m \in Modules \ {t} :
                     /\ run'[r].states[m].outcome = run[r].states[m].outcome
                     /\ run'[r].states[m].reason = run[r].states[m].reason
                     /\ run'[r].states[m].forced <=>
                           run[r].states[m].forced \/ m \in hit
                     /\ run'[r].states[m].interface = run[r].states[m].interface
                     /\ run'[r].states[m].kif = run[r].states[m].kif
<1> DEFINE t == run[r].executing
           hit == IF warm(r) THEN invalidated(r, t) ELSE {}
           old == run[r].states
           done == [outcome |-> "executed", reason |-> old[t].reason,
                    forced |-> old[t].forced,
                    interface |-> Interface(t, run[r].input), kif |-> kif[t]]
           other(m) == [outcome |-> old[m].outcome, reason |-> old[m].reason,
                        forced |-> old[m].forced \/ m \in hit,
                        interface |-> old[m].interface, kif |-> old[m].kif]
           new == [m \in Modules |-> IF m = t THEN done ELSE other(m)]
           n == [run[r] EXCEPT !.executing = Nothing, !.states = new]
<1>1. t \in Modules /\ run[r].input \in Programs
  BY RunType DEF finish_execution, Reads
<1>2. \A m \in Modules : old[m] \in ModuleState
  BY RunType
<1>3. done \in ModuleState
  BY <1>1, <1>2, InterfaceType DEF ModuleState, Types
<1>4. \A m \in Modules : other(m) \in ModuleState
  <2> SUFFICES ASSUME NEW m \in Modules PROVE other(m) \in ModuleState
    OBVIOUS
  <2>1. (old[m].forced \/ m \in hit) \in BOOLEAN
    OBVIOUS
  <2> QED
    BY <1>2, <2>1 DEF ModuleState
<1>5. /\ done = [old[t] EXCEPT !.outcome = "executed", !.kif = kif[t],
                              !.interface = Interface(t, run[r].input)]
      /\ \A m \in Modules : other(m) = [old[m] EXCEPT !.forced = @ \/ m \in hit]
  <2>1. done = [old[t] EXCEPT !.outcome = "executed", !.kif = kif[t],
                              !.interface = Interface(t, run[r].input)]
    <3>1. old[t] \in ModuleState
      BY <1>1, <1>2
    <3> HIDE DEF old
    <3>2. done = Decide(old[t], "executed", Interface(t, run[r].input), kif[t])
      BY <3>1, DecisionSets
    <3> QED
      BY <3>2 DEF Decide
  <2>2. ASSUME NEW m \in Modules
        PROVE  other(m) = [old[m] EXCEPT !.forced = @ \/ m \in hit]
    BY <1>2 DEF ModuleState
  <2> QED
    BY <2>1, <2>2
<1> HIDE DEF done, other, hit
<1>6. new \in [Modules -> ModuleState]
  BY <1>3, <1>4
<1>7. run' = [run EXCEPT ![r] = n]
  <2> DEFINE raw == [m \in Modules |->
               IF m = t
               THEN [old[m] EXCEPT !.outcome = "executed", !.kif = kif[t],
                                   !.interface = Interface(t, run[r].input)]
               ELSE [old[m] EXCEPT !.forced = @ \/ m \in hit]]
  <2>1. run' = [run EXCEPT ![r].executing = Nothing, ![r].states = raw]
    BY DEF finish_execution, hit
  <2>2. raw = new
    BY <1>5
  <2> HIDE DEF raw, new
  <2> QED
    BY <2>1, <2>2 DEF Types
<1> HIDE DEF new, t, old
<1>8. /\ n \in Run
      /\ n.phase = run[r].phase /\ n.input = run[r].input
      /\ n.profile = run[r].profile
      /\ n.cache = run[r].cache /\ n.executing = Nothing
      /\ n.states = new
  BY <1>6, RunType DEF Run
<1> HIDE DEF n
<1>9. run' \in [Runs -> Run] /\ Others(r) /\ run'[r] = n
  BY <1>7, <1>8 DEF Types, Others
<1>10. n.states[t] = done /\ \A m \in Modules \ {t} : n.states[m] = other(m)
  BY <1>1, <1>8 DEF new
<1>11. /\ done.outcome = "executed" /\ done.reason = old[t].reason
       /\ done.forced = old[t].forced
       /\ done.interface = Interface(t, run[r].input) /\ done.kif = kif[t]
  BY DEF done
<1>12. \A m : /\ other(m).outcome = old[m].outcome /\ other(m).reason = old[m].reason
              /\ other(m).forced <=> old[m].forced \/ m \in hit
              /\ other(m).interface = old[m].interface /\ other(m).kif = old[m].kif
  BY DEF other
<1> QED
  BY <1>1, <1>8, <1>9, <1>10, <1>11, <1>12 DEF Keeps, t, old, hit

\* What the commit of the manifest does to its run.
LEMMA Committing ==
    ASSUME Types, NEW r \in Runs, commit_manifest(r)
    PROVE  /\ run' \in [Runs -> Run] /\ Others(r) /\ Keeps(r)
           /\ run'[r].phase = "report"
           /\ run'[r].executing = run[r].executing
           /\ run'[r].states = run[r].states
<1> DEFINE n == [run[r] EXCEPT !.phase = "report"]
<1>1. /\ n \in Run
      /\ n.phase = "report" /\ n.input = run[r].input /\ n.profile = run[r].profile
      /\ n.cache = run[r].cache /\ n.executing = run[r].executing
      /\ n.states = run[r].states
  BY DEF Run, Types
<1>2. run' = [run EXCEPT ![r] = n]
  BY DEF commit_manifest, Types
<1> HIDE DEF n
<1> QED
  BY <1>1, <1>2 DEF Types, Others, Keeps

\* What the report does to its run.
LEMMA Reporting ==
    ASSUME Types, NEW r \in Runs, commit_report(r)
    PROVE  /\ run' \in [Runs -> Run] /\ Others(r) /\ Keeps(r)
           /\ run'[r].phase = "idle"
           /\ run'[r].executing = run[r].executing
           /\ run'[r].states = run[r].states
<1> DEFINE n == [run[r] EXCEPT !.phase = "idle"]
<1>1. /\ n \in Run
      /\ n.phase = "idle" /\ n.input = run[r].input /\ n.profile = run[r].profile
      /\ n.cache = run[r].cache /\ n.executing = run[r].executing
      /\ n.states = run[r].states
  BY DEF Run, Types
<1>2. run' = [run EXCEPT ![r] = n]
  BY DEF commit_report, Types
<1> HIDE DEF n
<1> QED
  BY <1>1, <1>2 DEF Types, Others, Keeps

\* A run that stops is gone.
LEMMA Stopping ==
    ASSUME Types, NEW r \in Runs, run_stops(r)
    PROVE  /\ run' \in [Runs -> Run] /\ Others(r)
           /\ run'[r] = NoRun
BY NoRunType DEF Types, run_stops, Others

(***************************************************************************)
(* Nothing is executed without need, however many runs there are.           *)
(***************************************************************************)
\* What decide_module has compared before it reuses a module.
LEMMA WhyReused ==
    ASSUME NEW r, NEW m, reason(r, m) = "unchanged"
    PROVE  /\ warm(r) /\ ~run[r].states[m].forced /\ is_cached(r, m)
           /\ run[r].input[m] = cached(r, m).source
           /\ EdgeDigest(m, run[r].input) = cached(r, m).edges
           /\ kif[m] = cached(r, m).kif
<1>1. warm(r)
  BY DEF reason, warm
<1>2. ~run[r].states[m].forced
  BY <1>1 DEF reason, warm
<1> QED
  BY <1>1, <1>2 DEF reason, warm, cached_kif_is_intact

\* What decide_module has found before it executes a module.
LEMMA WhyExecuted ==
    ASSUME NEW r, NEW m, warm(r), reason(r, m) # "unchanged",
           run[r].states[m].forced => Affected(r, m)
    PROVE  \/ reason(r, m) = "cached-interface-unusable"
           \/ ~is_cached(r, m)
           \/ run[r].input[m] # cached(r, m).source
           \/ EdgeDigest(m, run[r].input) # cached(r, m).edges
           \/ Affected(r, m)
<1>1. CASE run[r].states[m].forced
  BY <1>1
<1>2. CASE ~run[r].states[m].forced
  BY <1>2 DEF reason, warm
<1> QED
  BY <1>1, <1>2

\* What a run has read, it reads again.
LEMMA Kept ==
    ASSUME NEW r, Keeps(r)
    PROVE  /\ warm(r)' <=> warm(r)
           /\ inventory(r)' = inventory(r)
           /\ \A m : /\ is_cached(r, m)' <=> is_cached(r, m)
                     /\ cached(r, m)' = cached(r, m)
                     /\ Affected(r, m)' <=> Affected(r, m)
                     /\ \A t : SameView(r, m, t)' <=> SameView(r, m, t)
<1>1. /\ warm(r)' <=> warm(r)
      /\ inventory(r)' = inventory(r)
      /\ \A m : /\ is_cached(r, m)' <=> is_cached(r, m)
                /\ cached(r, m)' = cached(r, m)
  BY DEF Keeps, warm, inventory, is_cached, cached
<1> QED
  BY <1>1 DEF Keeps, Affected, SameView

\* A step of one run gives no other run a cause.
LEMMA OthersCaused ==
    ASSUME NEW q, run'[q] = run[q], Caused(q)
    PROVE  Caused(q)'
<1>1. Keeps(q)
  BY DEF Keeps
<1>2. \A m : Needed(q, m)' <=> Needed(q, m)
  BY <1>1, Kept DEF Needed, Keeps
<1> QED
  BY <1>1, <1>2, Kept DEF Caused, Starts, Reads, executed

\* The parts of Caused that a step of r with the same reads has to look at.
LEMMA StillCaused ==
    ASSUME NEW r, Caused(r), Keeps(r),
           run[r].phase # "idle" \/ run'[r].phase = "idle", run'[r].phase # "load",
           \A m \in Modules : run'[r].states[m].forced =>
                                 run[r].states[m].forced \/ Affected(r, m),
           warm(r) => \A m \in Modules :
              m \in executed(r)' \/ run'[r].executing = m => Needed(r, m)'
    PROVE  Caused(r)'
BY Kept DEF Caused, Starts, Reads, Keeps

\* Every step of a run keeps its causes.
LEMMA CausesStep ==
    ASSUME Types, Causes, NEW r \in Runs,
           \/ load_inventory(r) \/ load_cached_graph(r) \/ finish_execution(r)
           \/ commit_manifest(r) \/ commit_report(r) \/ run_stops(r)
           \/ \E m \in Modules : reuse_module(r, m) \/ publish_interface(r, m)
    PROVE  Caused(r)' /\ Others(r) /\ run' \in [Runs -> Run]
<1>1. Caused(r)
  BY DEF Causes
<1>2. CASE load_inventory(r)
  <2>1. /\ run' \in [Runs -> Run] /\ Others(r)
        /\ run'[r].phase = "load" /\ run'[r].input = sources
        /\ run'[r].profile = profile /\ run'[r].cache = Nothing
        /\ run'[r].executing = Nothing
        /\ run'[r].states = [m \in Modules |-> Undecided]
    BY <1>2, Loading
  <2>2. sources \in Programs /\ profile \in Profiles
    BY <1>2 DEF load_inventory, Types
  <2>3. \A m \in Modules : ~run'[r].states[m].forced
    BY <2>1 DEF Undecided
  <2>4. ~warm(r)'
    BY <2>1 DEF warm
  <2> QED
    BY <2>1, <2>2, <2>3, <2>4 DEF Caused, Starts, Reads
<1>3. CASE load_cached_graph(r)
  <2>1. run[r].executing = Nothing /\ run[r].states = [m \in Modules |-> Undecided]
    BY <1>1, <1>3 DEF Caused, Starts, load_cached_graph
  <2>2. /\ run' \in [Runs -> Run] /\ Others(r)
        /\ run'[r].phase = "decide"
        /\ run'[r].input = run[r].input /\ run'[r].profile = run[r].profile
        /\ run'[r].executing = Nothing
        /\ run'[r].states = [m \in Modules |-> Undecided]
    BY <1>3, <2>1, CacheLoading
  <2>3. executed(r)' = {} /\ \A m \in Modules : ~run'[r].states[m].forced
    BY <2>2 DEF executed, Undecided
  <2>4. Reads(r)'
    BY <1>1, <1>3, <2>2 DEF Caused, Reads, load_cached_graph
  <2> QED
    BY <2>2, <2>3, <2>4, NothingIsNoModule DEF Caused, Starts
<1>4. CASE finish_execution(r)
  <2> DEFINE t == run[r].executing
  <2>1. Reads(r)
    BY <1>1 DEF Caused
  <2>2. /\ t \in Modules /\ Keeps(r) /\ Others(r) /\ run' \in [Runs -> Run]
        /\ run'[r].phase = run[r].phase /\ run'[r].executing = Nothing
        /\ run'[r].states[t].outcome = "executed"
        /\ run'[r].states[t].reason = run[r].states[t].reason
        /\ run'[r].states[t].forced = run[r].states[t].forced
        /\ \A m \in Modules \ {t} :
              /\ run'[r].states[m].outcome = run[r].states[m].outcome
              /\ run'[r].states[m].reason = run[r].states[m].reason
              /\ run'[r].states[m].forced =>
                    \/ run[r].states[m].forced
                    \/ warm(r) /\ m \in invalidated(r, t)
    BY <1>4, <2>1, Finishing
  <2>3. run[r].phase = "decide"
    BY <1>4 DEF finish_execution
  <2>4. \A m \in invalidated(r, t) : Affected(r, m)
    BY DEF invalidated, Affected, sees_change, View
  <2>5. warm(r) => \A m \in Modules :
           m \in executed(r)' \/ run'[r].executing = m => Needed(r, m)'
    <3> SUFFICES ASSUME warm(r), NEW m \in Modules,
                        m \in executed(r)' \/ run'[r].executing = m
                 PROVE  Needed(r, m)'
      OBVIOUS
    <3>1. m \in executed(r) \/ t = m
      BY <2>2, NothingIsNoModule DEF executed
    <3>2. Needed(r, m) /\ run'[r].states[m].reason = run[r].states[m].reason
      BY <1>1, <2>2, <3>1 DEF Caused
    <3> QED
      BY <2>2, <3>2, Kept DEF Needed, Keeps
  <2>6. \A m \in Modules : run'[r].states[m].forced =>
                              run[r].states[m].forced \/ Affected(r, m)
    BY <2>2, <2>4
  <2> HIDE DEF t
  <2> QED
    BY <1>1, <2>2, <2>3, <2>5, <2>6, StillCaused
<1>5. CASE commit_manifest(r) \/ commit_report(r)
  <2>1. /\ Keeps(r) /\ Others(r) /\ run' \in [Runs -> Run]
        /\ run'[r].phase \in {"report", "idle"} /\ run[r].phase \in {"decide", "report"}
        /\ run'[r].executing = run[r].executing /\ run'[r].states = run[r].states
    BY <1>5, Committing, Reporting DEF commit_manifest, commit_report
  <2>2. warm(r) => \A m \in Modules :
           m \in executed(r)' \/ run'[r].executing = m => Needed(r, m)'
    BY <1>1, <2>1, Kept DEF Caused, executed, Needed, Keeps
  <2> QED
    BY <1>1, <2>1, <2>2, StillCaused
<1>6. CASE run_stops(r)
  BY <1>6, Stopping, NothingIsNoModule DEF Caused, Starts, Reads, NoRun, Undecided,
     executed, warm
<1>7. ASSUME NEW m \in Modules, reuse_module(r, m)
      PROVE  Caused(r)' /\ Others(r) /\ run' \in [Runs -> Run]
  <2>1. warm(r) /\ is_cached(r, m)
    BY <1>7, WhyReused DEF reuse_module
  <2>2. /\ Keeps(r) /\ Others(r) /\ run' \in [Runs -> Run]
        /\ run'[r].phase = run[r].phase /\ run'[r].executing = run[r].executing
        /\ run'[r].states[m].outcome = "reused"
        /\ run'[r].states[m].forced = run[r].states[m].forced
        /\ \A n \in Modules \ {m} : run'[r].states[n] = run[r].states[n]
    BY <1>7, <2>1, Reusing DEF OthersStay
  <2>3. run[r].phase = "decide" /\ run[r].executing = Nothing
    BY <1>7 DEF reuse_module, undecided_next
  <2>4. warm(r) => \A n \in Modules :
           n \in executed(r)' \/ run'[r].executing = n => Needed(r, n)'
    BY <1>1, <2>2, <2>3, Kept, NothingIsNoModule DEF Caused, executed, Needed, Keeps
  <2> QED
    BY <1>1, <2>2, <2>3, <2>4, StillCaused
<1>8. ASSUME NEW m \in Modules, publish_interface(r, m)
      PROVE  Caused(r)' /\ Others(r) /\ run' \in [Runs -> Run]
  <2>1. /\ Keeps(r) /\ Others(r) /\ run' \in [Runs -> Run]
        /\ run'[r].phase = run[r].phase /\ run'[r].executing = m
        /\ run'[r].states[m].outcome = run[r].states[m].outcome
        /\ run'[r].states[m].reason = reason(r, m)
        /\ run'[r].states[m].forced = run[r].states[m].forced
        /\ \A n \in Modules \ {m} : run'[r].states[n] = run[r].states[n]
    BY <1>8, Publishing DEF OthersStay
  <2>2. /\ run[r].phase = "decide" /\ reason(r, m) # "unchanged"
        /\ run[r].states[m].outcome = "none"
    BY <1>8 DEF publish_interface, undecided_next, decided
  <2>3. warm(r) => Needed(r, m)'
    BY <1>1, <2>1, <2>2, WhyExecuted, Kept DEF Caused, Needed, Keeps
  <2>4. warm(r) => \A n \in Modules :
           n \in executed(r)' \/ run'[r].executing = n => Needed(r, n)'
    <3> SUFFICES ASSUME warm(r), NEW n \in Modules \ {m}, n \in executed(r)'
                 PROVE  Needed(r, n)'
      BY <2>1, <2>3
    <3>1. Needed(r, n)
      BY <1>1, <2>1 DEF Caused, executed
    <3> QED
      BY <2>1, <3>1, Kept DEF Needed, Keeps
  <2> QED
    BY <1>1, <2>1, <2>2, <2>4, StillCaused
<1> QED
  BY <1>2, <1>3, <1>4, <1>5, <1>6, <1>7, <1>8

(***************************************************************************)
(* The types are kept by every step.                                        *)
(***************************************************************************)
RunSteps(r) ==
    \/ load_inventory(r) \/ load_cached_graph(r) \/ finish_execution(r)
    \/ commit_manifest(r) \/ commit_report(r) \/ run_stops(r)
    \/ \E m \in Modules : reuse_module(r, m) \/ publish_interface(r, m)

WorldSteps ==
    \/ \E m \in Modules : \/ \E v \in Versions[m] : edit(m, v)
                          \/ damage_kif(m)
    \/ \E p \in Profiles : retarget(p)
    \/ damage_manifest

\* A step is of one run, or of whoever edits the sources and the files.
LEMMA StepsAreOfRunsOrWorld == Next <=> (\E r \in Runs : RunSteps(r)) \/ WorldSteps
BY DEF Next, RunSteps, WorldSteps

\* The manifest that a run commits is well-typed.
LEMMA ManifestType ==
    ASSUME Types, NEW r \in Runs, Reads(r), commit_manifest(r)
    PROVE  manifest' \in Manifests
<1>1. run[r].input \in Programs /\ run[r].profile \in Profiles
  BY DEF Reads, commit_manifest
<1> DEFINE e(m) == [source |-> run[r].input[m], edges |-> EdgeDigest(m, run[r].input),
                    interface |-> run[r].states[m].interface,
                    kif |-> run[r].states[m].kif]
           entries == [m \in inventory(r) |-> e(m)]
<1>2. inventory(r) \subseteq Modules
  BY <1>1, ProgramFacts DEF inventory
<1>3. \A m \in inventory(r) : e(m) \in Entry
  <2> SUFFICES ASSUME NEW m \in inventory(r) PROVE e(m) \in Entry
    OBVIOUS
  <2>1. m \in Modules /\ run[r].states[m] \in ModuleState
    BY <1>2, RunType
  <2>2. run[r].input[m] \in Sources /\ EdgeDigest(m, run[r].input) \in Edges
    BY <1>1, <2>1, ProgramFacts, InterfaceType
  <2> QED
    BY <2>1, <2>2 DEF Entry, ModuleState
<1>4. manifest' = [profile |-> run[r].profile, entries |-> entries]
  BY DEF commit_manifest
<1> HIDE DEF e
<1>5. entries \in UNION {[I -> Entry] : I \in SUBSET Modules}
  BY <1>2, <1>3
<1> HIDE DEF entries
<1> QED
  BY <1>1, <1>4, <1>5 DEF Manifests

\* Every step keeps the types and the causes.
LEMMA TypesStep ==
    ASSUME Types, Causes, [Next]_vars
    PROVE  Types' /\ Causes'
<1>1. ASSUME NEW r \in Runs, RunSteps(r)
      PROVE  Types' /\ Causes'
  <2>1. Caused(r)' /\ Others(r) /\ run' \in [Runs -> Run]
    BY <1>1, CausesStep DEF RunSteps
  <2>2. Causes'
    BY <2>1, OthersCaused, SMTT(40) DEF Causes, Others
  <2>3. profile' = profile
    BY <1>1 DEF RunSteps, load_inventory, load_cached_graph, finish_execution,
       commit_manifest, commit_report, run_stops, reuse_module, publish_interface,
       world
  <2>4. Reads(r)
    BY DEF Causes, Caused
  <2>5. manifest' \in Manifests
    <3>1. CASE commit_manifest(r)
      BY <2>4, <3>1, ManifestType, SMTT(40)
    <3>2. CASE ~commit_manifest(r)
      BY <1>1, <3>2 DEF RunSteps, load_inventory, load_cached_graph, finish_execution,
         commit_report, run_stops, reuse_module, publish_interface, files, Types
    <3> QED
      BY <3>1, <3>2
  <2>6. kif' \in [Modules -> Kifs]
    <3>1. ASSUME NEW m \in Modules, publish_interface(r, m)
          PROVE  kif' \in [Modules -> Kifs]
      <4>1. Interface(m, run[r].input) \in Kifs
        BY <2>4, <3>1, InterfaceType DEF Reads, publish_interface, undecided_next
      <4> QED
        BY <3>1, <4>1 DEF publish_interface, Types
    <3>2. CASE \A m \in Modules : ~publish_interface(r, m)
      BY <1>1, <3>2 DEF RunSteps, load_inventory, load_cached_graph, finish_execution,
         commit_manifest, commit_report, run_stops, reuse_module, files, Types
    <3> QED
      BY <3>1, <3>2
  <2> QED
    BY <2>1, <2>2, <2>3, <2>5, <2>6 DEF Types
<1>2. CASE run' = run
  <2>1. Causes'
    BY <1>2, OthersCaused DEF Causes
  <2>2. CASE WorldSteps
    BY <1>2, <2>1, <2>2 DEF WorldSteps, edit, damage_kif, retarget, damage_manifest,
       files, Types, Kifs, Manifests
  <2>3. CASE UNCHANGED vars
    BY <1>2, <2>1, <2>3 DEF vars, world, files, Types
  <2>4. CASE \E r \in Runs : RunSteps(r)
    BY <1>1, <2>4
  <2> QED
    BY <2>2, <2>3, <2>4, StepsAreOfRunsOrWorld
<1>3. CASE WorldSteps
  BY <1>2, <1>3 DEF WorldSteps, edit, damage_kif, retarget, damage_manifest
<1>4. CASE UNCHANGED vars
  BY <1>2, <1>4 DEF vars
<1> QED
  BY <1>1, <1>3, <1>4, StepsAreOfRunsOrWorld

\* Nothing has a cause before the first run.
LEMMA TypesInit ==
    ASSUME Init
    PROVE  Types /\ Causes
<1>1. Types
  BY NoRunType DEF Init, Types, Kifs, Manifests
<1>2. \A r \in Runs : run[r] = NoRun
  BY DEF Init
<1>3. NoRun.phase = "idle" /\ NoRun.executing = Nothing /\ NoRun.cache = Nothing
      /\ NoRun.states = [m \in Modules |-> Undecided]
  BY DEF NoRun
<1>4. Undecided.forced = FALSE /\ Undecided.outcome = "none"
  BY DEF Undecided
<1>5. Causes
  BY <1>2, <1>3, <1>4 DEF Causes, Caused, Starts, Reads, warm
<1> QED
  BY <1>1, <1>5

\* Every run reads what is in its cache, and nothing is marked or executed without a cause,
\* however many runs share the cache directory.
THEOREM CausesHold == Spec => [](Types /\ Causes)
<1>1. Init => Types /\ Causes
  BY TypesInit
<1>2. (Types /\ Causes) /\ [Next]_vars => (Types /\ Causes)'
  BY TypesStep
<1> QED
  BY <1>1, <1>2, PTL DEF Spec

\* decide_module and propagate_invalidation: a module is executed only for a
\* reason of its own or for a change that it would read, whatever is in the
\* cache directory and however many runs share it.
THEOREM NothingExecutedInVain == Spec => []NoNeedlessExecution
<1>1. Causes => NoNeedlessExecution
  <2> SUFFICES ASSUME Causes, NEW r \in Runs, warm(r), NEW m \in executed(r)
               PROVE  Needed(r, m)
    BY DEF NoNeedlessExecution, Needed, Affected
  <2> QED
    BY DEF Causes, Caused, executed
<1> QED
  BY <1>1, CausesHold, PTL

(***************************************************************************)
(* What is reused is what a clean build makes, one run at a time.           *)
(***************************************************************************)
\* An entry of a clean manifest is what the sources it was made from deserve.
LEMMA CleanEntry ==
    ASSUME NEW r, warm(r), IsClean(run[r].cache), NEW m, is_cached(r, m)
    PROVE  LET W == Of(run[r].cache)
           IN  /\ W \in Programs /\ m \in Inventory(W) /\ m \in Modules
               /\ W[m] = cached(r, m).source
               /\ cached(r, m).edges = EdgeDigest(m, W)
               /\ cached(r, m).kif = Interface(m, W)
               /\ cached(r, m).interface = Interface(m, W)
<1> DEFINE W == Of(run[r].cache)
<1>1. /\ W \in Programs /\ DOMAIN run[r].cache.entries = Inventory(W)
      /\ \A n \in DOMAIN run[r].cache.entries :
            /\ run[r].cache.entries[n].edges = EdgeDigest(n, W)
            /\ run[r].cache.entries[n].kif = Interface(n, W)
            /\ run[r].cache.entries[n].interface = Interface(n, W)
  BY DEF warm, IsClean
<1>2. m \in Inventory(W) /\ m \in Modules
  BY <1>1, SMTT(40) DEF is_cached, Inventory
<1>3. W[m] = cached(r, m).source
  BY <1>1, <1>2 DEF Of, is_cached, cached
<1> QED
  BY <1>1, <1>2, <1>3 DEF cached, is_cached

\* The heart of it: all that the interface of m depends on is as it was.
LEMMA ReuseIsRight ==
    ASSUME NEW r, Reads(r), Deserved(r), NEW m, undecided_next(r, m),
           reason(r, m) = "unchanged"
    PROVE  /\ kif[m] = Interface(m, run[r].input)
           /\ cached(r, m).kif = Interface(m, run[r].input)
           /\ cached(r, m).interface = Interface(m, run[r].input)
           /\ \A t \in Imports(m, run[r].input) : SameView(r, m, t)
<1> DEFINE s == run[r].input
           W == Of(run[r].cache)
<1>1. /\ run[r].phase = "decide" /\ m \in Inventory(s) /\ ~decided(r, m)
      /\ dependencies_decided(r, m)
  BY DEF undecided_next, to_decide, inventory
<1>2. s \in Programs /\ IsClean(run[r].cache) /\ Unseen(r)
  BY <1>1 DEF Reads, Deserved, Deciding
<1>3. /\ warm(r) /\ ~run[r].states[m].forced /\ is_cached(r, m)
      /\ s[m] = cached(r, m).source
      /\ EdgeDigest(m, s) = cached(r, m).edges
      /\ kif[m] = cached(r, m).kif
  BY WhyReused
<1>4. /\ W \in Programs /\ m \in Inventory(W) /\ W[m] = s[m]
      /\ EdgeDigest(m, s) = EdgeDigest(m, W)
      /\ cached(r, m).kif = Interface(m, W)
      /\ cached(r, m).interface = Interface(m, W)
  BY <1>2, <1>3, CleanEntry
<1>5. \A t \in Imports(m, s) : SameView(r, m, t)
  BY <1>1, <1>2, <1>3 DEF Unseen, dependencies_decided, inventory
<1>6. \A t \in Imports(m, s) :
          View(m, t, Interface(t, s)) = View(m, t, Interface(t, W))
  <2> SUFFICES ASSUME NEW t \in Imports(m, s)
               PROVE  View(m, t, Interface(t, s)) = View(m, t, Interface(t, W))
    OBVIOUS
  <2>1. is_cached(r, t) /\ View(m, t, cached(r, t).interface) = View(m, t, Interface(t, s))
    BY <1>5 DEF SameView
  <2>2. cached(r, t).interface = Interface(t, W)
    BY <1>2, <1>3, <2>1, CleanEntry
  <2> QED
    BY <2>1, <2>2
<1>7. Interface(m, s) = Interface(m, W)
  BY <1>1, <1>2, <1>4, <1>6, InterfaceIsLocal
<1> QED
  BY <1>3, <1>4, <1>5, <1>7

\* Who is not invalidated would read the same.
LEMMA NotInvalidated ==
    ASSUME NEW r, Reads(r), run[r].phase # "idle", warm(r), IsClean(run[r].cache),
           NEW t \in inventory(r), NEW c \in inventory(r),
           t \in Imports(c, run[r].input), ~decided(r, c),
           c \notin invalidated(r, t)
    PROVE  SameView(r, c, t)
<1> DEFINE s == run[r].input
           W == Of(run[r].cache)
           old == cached(r, t).interface
           new == Interface(t, s)
<1>1. is_cached(r, t) /\ ~sees_change(c, t, old, new)
  BY DEF invalidated
<1>2. s \in Programs /\ t \in Inventory(s)
  BY DEF Reads, inventory
<1>3. W \in Programs /\ t \in Inventory(W) /\ old = Interface(t, W)
  BY <1>1, CleanEntry
<1>4. /\ old = [public |-> old.public, internal |-> old.internal]
      /\ new = [public |-> new.public, internal |-> new.internal]
  BY <1>2, <1>3, InterfaceHasTwoParts
<1>5. View(c, t, old) = View(c, t, new)
  <2>1. CASE <<c, t>> \in SamePackage
    <3>1. old.public = new.public /\ old.internal = new.internal
      BY <1>1, <2>1 DEF sees_change
    <3>2. old = new
      BY <1>4, <3>1
    <3> QED
      BY <3>2
  <2>2. CASE <<c, t>> \notin SamePackage
    BY <1>1, <2>2 DEF sees_change, View
  <2> QED
    BY <2>1, <2>2
<1> QED
  BY <1>1, <1>5 DEF SameView

\* A run begins with nothing decided.
LEMMA CacheLoadingClean ==
    ASSUME Types, Causes, Clean, NEW r \in Runs, load_cached_graph(r)
    PROVE  Deserved(r)'
<1>1. run[r].executing = Nothing /\ run[r].states = [m \in Modules |-> Undecided]
  BY DEF Causes, Caused, Starts, load_cached_graph
<1>2. /\ run'[r].phase = "decide" /\ run'[r].cache = manifest
      /\ run'[r].executing = Nothing
      /\ run'[r].states = [m \in Modules |-> Undecided]
  BY <1>1, CacheLoading
<1>3. \A m \in Modules : run'[r].states[m].outcome = "none"
  BY <1>2 DEF Undecided
<1>4. manifest' = manifest /\ IsClean(manifest)
  BY DEF load_cached_graph, files, Clean
<1>5. IsClean(run[r].cache)'
  BY <1>2, <1>4 DEF IsClean, Of
<1>6. Reads(r)
  BY DEF Causes, Caused
<1>7. run'[r].input \in Programs
  BY <1>6, CacheLoading DEF Reads, load_cached_graph
<1>8. \A m \in inventory(r)' : Imports(m, run'[r].input) \subseteq Modules
  BY <1>7, ProgramFacts DEF inventory
<1>9. Unseen(r)'
  BY <1>3, <1>8 DEF Unseen, decided
<1>10. Ordered(r)' /\ Published(r)' /\ Reused(r)'
  BY <1>2, <1>3 DEF Ordered, Published, Reused, decided
<1> QED
  BY <1>2, <1>4, <1>5, <1>9, <1>10 DEF Deserved, Committed

\* A module that is reused has the interface that it would get.
LEMMA ReusingClean ==
    ASSUME Types, Causes, Clean, NEW r \in Runs, NEW m \in Modules, reuse_module(r, m)
    PROVE  Deserved(r)'
<1> DEFINE s == run[r].input
<1>1. /\ undecided_next(r, m) /\ reason(r, m) = "unchanged"
      /\ kif' = kif /\ manifest' = manifest
  BY DEF reuse_module, files
<1>2. /\ Reads(r) /\ Deserved(r) /\ run[r].phase = "decide"
      /\ run[r].executing = Nothing /\ m \in inventory(r) /\ ~decided(r, m)
      /\ dependencies_decided(r, m)
  BY <1>1 DEF Causes, Caused, Clean, undecided_next, to_decide
<1>3. /\ IsClean(run[r].cache) /\ Ordered(r) /\ Published(r) /\ Unseen(r)
      /\ Reused(r) /\ Committed(r) /\ s \in Programs
  BY <1>2 DEF Deserved, Deciding, Reads
<1>4. /\ warm(r) /\ is_cached(r, m) /\ s[m] = cached(r, m).source
  BY <1>1, WhyReused
<1>5. /\ kif[m] = Interface(m, s)
      /\ cached(r, m).kif = Interface(m, s)
      /\ cached(r, m).interface = Interface(m, s)
      /\ \A t \in Imports(m, s) : SameView(r, m, t)
  BY <1>1, <1>2, ReuseIsRight
<1>6. /\ Keeps(r) /\ run'[r].phase = "decide" /\ run'[r].executing = Nothing
      /\ \A n \in Modules \ {m} : run'[r].states[n] = run[r].states[n]
      /\ run'[r].states[m].outcome = "reused"
      /\ run'[r].states[m].forced = run[r].states[m].forced
      /\ run'[r].states[m].interface = Interface(m, s)
      /\ run'[r].states[m].kif = Interface(m, s)
  BY <1>2, <1>4, <1>5, Reusing DEF OthersStay
<1>7. /\ run'[r].input = s /\ run'[r].cache = run[r].cache
      /\ \A n \in Modules : decided(r, n)' <=> decided(r, n) \/ n = m
  BY <1>6 DEF Keeps, decided
<1>8. \A n \in inventory(r) : n \in Modules /\ Imports(n, s) \subseteq Modules
  BY <1>3, ProgramFacts DEF inventory
<1>9. IsClean(run[r].cache)'
  BY <1>3, <1>7 DEF IsClean, Of
<1>10. Ordered(r)'
  BY <1>2, <1>3, <1>6, <1>7, <1>8 DEF Ordered, dependencies_decided, inventory
<1>11. Published(r)'
  BY <1>1, <1>3, <1>5, <1>6, <1>7 DEF Published, decided
<1>12. Unseen(r)'
  <2> SUFFICES ASSUME NEW c \in inventory(r), NEW t \in Imports(c, s),
                      decided(r, t)', ~decided(r, c)', ~run'[r].states[c].forced
               PROVE  SameView(r, c, t)
    BY <1>6, <1>7, Kept DEF Unseen
  <2>1. c \in Modules /\ t \in Modules /\ ~decided(r, c) /\ c # m
    BY <1>7, <1>8
  <2>2. ~run[r].states[c].forced
    BY <1>6, <2>1
  <2>3. CASE t = m
    BY <1>4, <1>5, <2>3 DEF SameView
  <2>4. CASE t # m
    BY <1>3, <1>4, <1>7, <2>1, <2>2, <2>4 DEF Unseen
  <2> QED
    BY <2>3, <2>4
<1>13. Reused(r)'
  <2> SUFFICES ASSUME NEW n \in Modules, run'[r].states[n].outcome = "reused"
               PROVE  /\ is_cached(r, n) /\ s[n] = cached(r, n).source
                      /\ \A t \in Imports(n, s) : SameView(r, n, t)
    BY <1>4, <1>6, <1>7, Kept DEF Reused
  <2> QED
    BY <1>3, <1>4, <1>5, <1>6 DEF Reused
<1>14. Committed(r)'
  BY <1>1, <1>2, <1>3, <1>6, <1>7 DEF Committed
<1> QED
  BY <1>9, <1>10, <1>11, <1>12, <1>13, <1>14 DEF Deserved

\* A module that is executed gets the interface of its sources.
LEMMA PublishingClean ==
    ASSUME Types, Causes, Clean, NEW r \in Runs, NEW m \in Modules,
           publish_interface(r, m)
    PROVE  Deserved(r)'
<1> DEFINE s == run[r].input
<1>1. /\ undecided_next(r, m) /\ manifest' = manifest
      /\ kif' = [kif EXCEPT ![m] = Interface(m, s)]
  BY DEF publish_interface
<1>2. /\ Reads(r) /\ Deserved(r) /\ run[r].phase = "decide"
      /\ run[r].executing = Nothing /\ m \in inventory(r) /\ ~decided(r, m)
      /\ dependencies_decided(r, m)
  BY <1>1 DEF Causes, Caused, Clean, undecided_next, to_decide
<1>3. /\ IsClean(run[r].cache) /\ Ordered(r) /\ Published(r) /\ Unseen(r)
      /\ Reused(r) /\ Committed(r) /\ s \in Programs
  BY <1>2 DEF Deserved, Deciding, Reads
<1>4. /\ Keeps(r) /\ run'[r].phase = "decide" /\ run'[r].executing = m
      /\ \A n \in Modules \ {m} : run'[r].states[n] = run[r].states[n]
      /\ run'[r].states[m].outcome = run[r].states[m].outcome
      /\ run'[r].states[m].forced = run[r].states[m].forced
  BY <1>2, Publishing DEF OthersStay
<1>5. /\ run'[r].input = s /\ run'[r].cache = run[r].cache
      /\ \A n \in Modules :
            /\ decided(r, n)' <=> decided(r, n)
            /\ run'[r].states[n].outcome = run[r].states[n].outcome
            /\ run'[r].states[n].forced = run[r].states[n].forced
  BY <1>4 DEF Keeps, decided
<1>6. \A n \in inventory(r) : n \in Modules /\ Imports(n, s) \subseteq Modules
  BY <1>3, ProgramFacts DEF inventory
<1>7. IsClean(run[r].cache)'
  BY <1>3, <1>5 DEF IsClean, Of
<1>8. Ordered(r)'
  BY <1>2, <1>3, <1>4, <1>5, <1>6 DEF Ordered, dependencies_decided, inventory
<1>9. kif'[m] = Interface(m, s) /\ \A n \in Modules \ {m} : kif'[n] = kif[n]
  BY <1>1 DEF Types
<1>10. Published(r)'
  BY <1>2, <1>3, <1>4, <1>5, <1>9 DEF Published
<1>11. Unseen(r)'
  BY <1>3, <1>4, <1>5, <1>6, Kept DEF Unseen
<1>12. Reused(r)'
  BY <1>3, <1>4, <1>5, Kept DEF Reused
<1>13. Committed(r)'
  BY <1>1, <1>2, <1>3, <1>4, <1>5 DEF Committed
<1> QED
  BY <1>7, <1>8, <1>10, <1>11, <1>12, <1>13 DEF Deserved

\* After an execution, who would read something else is invalidated.
LEMMA FinishingClean ==
    ASSUME Types, Causes, Clean, NEW r \in Runs, finish_execution(r)
    PROVE  Deserved(r)'
<1> DEFINE s == run[r].input
           t == run[r].executing
<1>1. /\ run[r].phase = "decide" /\ t # Nothing
      /\ kif' = kif /\ manifest' = manifest
  BY DEF finish_execution, files
<1>2. Reads(r) /\ Deserved(r)
  BY DEF Causes, Caused, Clean
<1>3. /\ IsClean(run[r].cache) /\ Ordered(r) /\ Published(r) /\ Unseen(r)
      /\ Reused(r) /\ Committed(r) /\ s \in Programs
  BY <1>1, <1>2 DEF Deserved, Deciding, Reads
<1>4. /\ t \in inventory(r) /\ ~decided(r, t) /\ dependencies_decided(r, t)
      /\ kif[t] = Interface(t, s)
  BY <1>1, <1>3 DEF Ordered, Published
<1>5. /\ t \in Modules /\ Keeps(r)
      /\ run'[r].phase = "decide" /\ run'[r].executing = Nothing
      /\ run'[r].states[t].outcome = "executed"
      /\ run'[r].states[t].interface = Interface(t, s)
      /\ run'[r].states[t].kif = kif[t]
      /\ \A m \in Modules \ {t} :
            /\ run'[r].states[m].outcome = run[r].states[m].outcome
            /\ run'[r].states[m].interface = run[r].states[m].interface
            /\ run'[r].states[m].kif = run[r].states[m].kif
            /\ ~run'[r].states[m].forced /\ warm(r) =>
                  ~run[r].states[m].forced /\ m \notin invalidated(r, t)
  BY <1>1, <1>2, Finishing
<1>6. /\ run'[r].input = s /\ run'[r].cache = run[r].cache
      /\ \A n \in Modules : decided(r, n)' <=> decided(r, n) \/ n = t
  BY <1>5 DEF Keeps, decided
<1>7. \A n \in inventory(r) : n \in Modules /\ Imports(n, s) \subseteq Modules
  BY <1>3, ProgramFacts DEF inventory
<1> HIDE DEF t
<1>8. IsClean(run[r].cache)'
  BY <1>3, <1>6 DEF IsClean, Of
<1>9. Ordered(r)'
  BY <1>3, <1>4, <1>5, <1>6, <1>7 DEF Ordered, dependencies_decided, inventory
<1>10. Published(r)'
  BY <1>1, <1>3, <1>4, <1>5, <1>6 DEF Published
<1>11. Unseen(r)'
  <2> SUFFICES ASSUME warm(r), NEW c \in inventory(r), NEW i \in Imports(c, s),
                      decided(r, i)', ~decided(r, c)', ~run'[r].states[c].forced
               PROVE  SameView(r, c, i)
    BY <1>5, <1>6, Kept DEF Unseen
  <2>1. /\ c \in Modules /\ i \in Modules /\ ~decided(r, c) /\ c # t
        /\ ~run[r].states[c].forced /\ c \notin invalidated(r, t)
    BY <1>5, <1>6, <1>7
  <2>2. CASE i = t
    BY <1>1, <1>2, <1>3, <1>4, <2>1, <2>2, NotInvalidated
  <2>3. CASE i # t
    BY <1>3, <1>6, <2>1, <2>3 DEF Unseen
  <2> QED
    BY <2>2, <2>3
<1>12. Reused(r)'
  BY <1>3, <1>5, <1>6, Kept DEF Reused
<1>13. Committed(r)'
  BY <1>1, <1>3, <1>5, <1>6 DEF Committed
<1> QED
  BY <1>8, <1>9, <1>10, <1>11, <1>12, <1>13, SMTT(40) DEF Deserved

\* The manifest that a run commits is clean.
LEMMA CommittingClean ==
    ASSUME Types, Causes, Clean, NEW r \in Runs, commit_manifest(r)
    PROVE  Deserved(r)' /\ IsClean(manifest)'
<1> DEFINE s == run[r].input
           e(m) == [source |-> s[m], edges |-> EdgeDigest(m, s),
                    interface |-> run[r].states[m].interface,
                    kif |-> run[r].states[m].kif]
<1>1. /\ run[r].phase = "decide" /\ kif' = kif
      /\ \A m \in inventory(r) : decided(r, m)
      /\ manifest' = [profile |-> run[r].profile,
                      entries |-> [m \in inventory(r) |-> e(m)]]
  BY DEF commit_manifest
<1>2. Reads(r) /\ Deserved(r)
  BY DEF Causes, Caused, Clean
<1>3. /\ IsClean(run[r].cache) /\ Ordered(r) /\ Published(r) /\ Unseen(r)
      /\ Reused(r) /\ s \in Programs
  BY <1>1, <1>2 DEF Deserved, Deciding, Reads
<1>4. /\ s \in [Modules -> Sources] /\ inventory(r) = Inventory(s)
      /\ inventory(r) \subseteq Modules
  BY <1>3, ProgramFacts DEF inventory
<1>5. \A m \in Modules : e(m).source = s[m] /\ e(m).edges = EdgeDigest(m, s)
                         /\ e(m).interface = run[r].states[m].interface
                         /\ e(m).kif = run[r].states[m].kif
  OBVIOUS
<1> HIDE DEF e
<1>6. /\ manifest'.profile = run[r].profile
      /\ DOMAIN manifest'.entries = inventory(r)
      /\ \A m \in inventory(r) : manifest'.entries[m] = e(m)
  BY <1>1
<1>7. Of(manifest') = s
  <2>1. \A m \in Modules : s[m] = IF m \in inventory(r) THEN e(m).source ELSE Absent
    BY <1>4, <1>5 DEF Inventory
  <2>2. \A m \in Modules : Of(manifest')[m] = s[m]
    BY <1>4, <1>5, <1>6, <2>1 DEF Of
  <2>3. Of(manifest') = [m \in Modules |-> Of(manifest')[m]]
    BY DEF Of
  <2>4. s = [m \in Modules |-> s[m]]
    BY <1>4
  <2> QED
    BY <2>2, <2>3, <2>4
<1>8. \A m \in inventory(r) : /\ e(m).edges = EdgeDigest(m, s)
                              /\ e(m).kif = Interface(m, s)
                              /\ e(m).interface = Interface(m, s)
  BY <1>1, <1>3, <1>4, <1>5 DEF Published
<1>9. IsClean(manifest)'
  BY <1>3, <1>4, <1>6, <1>7, <1>8 DEF IsClean
<1>10. /\ Keeps(r) /\ run'[r].phase = "report"
       /\ run'[r].executing = run[r].executing
       /\ run'[r].states = run[r].states
  BY Committing
<1>11. /\ run'[r].input = s /\ run'[r].cache = run[r].cache
       /\ run'[r].profile = run[r].profile
       /\ \A m : decided(r, m)' <=> decided(r, m)
  BY <1>10 DEF Keeps, decided
<1>12. run[r].executing = Nothing
  BY <1>1, <1>3 DEF Ordered
<1>13. IsClean(run[r].cache)'
  BY <1>3, <1>11 DEF IsClean, Of
<1>14. Ordered(r)'
  BY <1>3, <1>10, <1>11, <1>12 DEF Ordered, dependencies_decided, inventory
<1>15. Published(r)'
  BY <1>1, <1>3, <1>10, <1>11, <1>12 DEF Published
<1>16. Unseen(r)' /\ Reused(r)'
  BY <1>3, <1>10, <1>11, Kept DEF Unseen, Reused
<1>17. Committed(r)'
  BY <1>1, <1>6, <1>7, <1>10, <1>11 DEF Committed, inventory
<1> QED
  BY <1>9, <1>13, <1>14, <1>15, <1>16, <1>17 DEF Deserved

\* Nothing that Clean is about changes.
LEMMA UndisturbedClean ==
    ASSUME Clean, run' = run, kif' = kif, manifest' = manifest
    PROVE  Clean'
<1>1. \A r \in Runs : Deserved(r)'
  <2> SUFFICES ASSUME NEW r \in Runs PROVE Deserved(r)'
    OBVIOUS
  <2>1. Keeps(r) /\ Deserved(r)
    BY DEF Keeps, Clean
  <2> QED
    BY <2>1, Kept, SMTT(40) DEF Deserved, Deciding, IsClean, Of, Ordered, Published,
       Unseen, Reused, Committed, decided, dependencies_decided
<1> QED
  BY <1>1, SMTT(40) DEF Clean, IsClean, Of

\* Every step keeps the manifest and the cached interfaces clean.
LEMMA CleanStep ==
    ASSUME OneRun, Types, Causes, Clean, [Next]_vars
    PROVE  Clean'
<1>1. ASSUME NEW r \in Runs, RunSteps(r)
      PROVE  Clean'
  <2>1. IsClean(manifest)
    BY DEF Clean
  <2>2. IsClean(manifest)'
    <3>1. CASE commit_manifest(r)
      BY <3>1, CommittingClean
    <3>2. CASE ~commit_manifest(r)
      <4>1. manifest' = manifest
        BY <1>1, <3>2 DEF RunSteps, load_inventory, load_cached_graph, finish_execution,
           commit_report, run_stops, reuse_module, publish_interface, files
      <4> QED
        BY <2>1, <4>1 DEF IsClean, Of
    <3> QED
      BY <3>1, <3>2
  <2>3. Deserved(r)'
    <3>1. CASE load_inventory(r)
      BY <3>1, Loading DEF Deserved, Deciding
    <3>2. CASE run_stops(r)
      BY <3>2, Stopping DEF Deserved, Deciding, NoRun
    <3>3. CASE commit_report(r)
      BY <3>3, Reporting DEF Deserved, Deciding
    <3> QED
      BY <1>1, <3>1, <3>2, <3>3, CacheLoadingClean, ReusingClean, PublishingClean,
         FinishingClean, CommittingClean DEF RunSteps
  <2> QED
    BY <2>2, <2>3 DEF Clean, OneRun
<1>2. CASE WorldSteps
  <2>1. run' = run
    BY <1>2 DEF WorldSteps, edit, damage_kif, retarget, damage_manifest
  <2>2. CASE kif' = kif /\ manifest' = manifest
    BY <2>1, <2>2, UndisturbedClean
  <2>3. CASE Quiet
    <3>1. \A r \in Runs : Deserved(r)'
      BY <2>1, <2>3 DEF Quiet, Deserved, Deciding
    <3>2. manifest' \in {manifest, Damaged}
      BY <1>2 DEF WorldSteps, edit, damage_kif, retarget, damage_manifest, files
    <3>3. IsClean(manifest')
      BY <3>2 DEF Clean, IsClean
    <3> QED
      BY <3>1, <3>3 DEF Clean, IsClean, Of
  <2> QED
    BY <1>2, <2>2, <2>3 DEF WorldSteps, edit, damage_kif, retarget, damage_manifest, files
<1>3. CASE UNCHANGED vars
  BY <1>3, UndisturbedClean DEF vars, files
<1> QED
  BY <1>1, <1>2, <1>3, StepsAreOfRunsOrWorld

\* An empty directory is clean.
LEMMA CleanInit ==
    ASSUME Init
    PROVE  Clean
<1>1. \A r \in Runs : run[r].phase = "idle"
  BY DEF Init, NoRun
<1> QED
  BY <1>1 DEF Init, Clean, IsClean, Deserved, Deciding

\* With one run at a time, the manifest and the cached interfaces are those of a clean build.
THEOREM CleanHolds == OneRun => (Spec => [](Types /\ Causes /\ Clean))
<1> SUFFICES ASSUME OneRun PROVE Spec => [](Types /\ Causes /\ Clean)
  OBVIOUS
<1>1. Init => Types /\ Causes /\ Clean
  BY TypesInit, CleanInit
<1>2. (Types /\ Causes /\ Clean) /\ [Next]_vars => (Types /\ Causes /\ Clean)'
  BY TypesStep, CleanStep
<1> QED
  BY <1>1, <1>2, PTL DEF Spec

\* graph_commit: whatever mixture of executed and reused modules, interrupted
\* runs, edits and damage came before, the manifest is the one that a run from
\* nothing over the same sources would have written.
THEOREM ManifestsAreClean == OneRun => (Spec => []ManifestIsClean)
<1>1. Clean => ManifestIsClean
  BY DEF Clean, ManifestIsClean, IsClean, Recorded, Of
<1> QED
  BY <1>1, CleanHolds, PTL

\* Never a stale reuse: the interfaces in the cache directory after all the
\* decisions of a run are the ones of its sources.
THEOREM CachesAreClean == OneRun => (Spec => []CacheIsClean)
<1>1. Types /\ Causes /\ Clean => CacheIsClean
  <2> SUFFICES ASSUME Types, Causes, Clean, NEW r \in Runs, run[r].phase = "report",
                      NEW m \in inventory(r)
               PROVE  kif[m] = Interface(m, run[r].input)
    BY DEF CacheIsClean
  <2>1. Published(r) /\ decided(r, m)
    BY DEF Clean, Deserved, Deciding, Committed
  <2>2. m \in Modules
    BY DEF inventory, Inventory
  <2> QED
    BY <2>1, <2>2 DEF Published
<1> QED
  BY <1>1, CleanHolds, PTL

(***************************************************************************)
(* What is not rebuilt is what a clean build makes.                         *)
(***************************************************************************)
\* A module that reads the same has the same artifact.
LEMMA SameProduct ==
    ASSUME NEW r, Reads(r), run[r].phase # "idle", IsClean(run[r].cache), warm(r),
           NEW m \in inventory(r), is_cached(r, m),
           run[r].input[m] = cached(r, m).source,
           \A t \in Imports(m, run[r].input) : SameView(r, m, t)
    PROVE  Product(m, run[r].input) = Product(m, Of(run[r].cache))
<1> DEFINE s == run[r].input
           W == Of(run[r].cache)
<1>1. s \in Programs /\ m \in Inventory(s)
  BY DEF Reads, inventory
<1>2. W \in Programs /\ m \in Inventory(W) /\ W[m] = s[m]
  BY CleanEntry
<1>3. Imports(m, s) = Imports(m, W)
  BY <1>1, <1>2, InterfaceIsLocal
<1>4. \A t \in Imports(m, s) :
          View(m, t, Interface(t, s)) = View(m, t, Interface(t, W))
  <2> SUFFICES ASSUME NEW t \in Imports(m, s)
               PROVE  View(m, t, Interface(t, s)) = View(m, t, Interface(t, W))
    OBVIOUS
  <2>1. is_cached(r, t) /\ View(m, t, cached(r, t).interface) = View(m, t, Interface(t, s))
    BY DEF SameView
  <2>2. cached(r, t).interface = Interface(t, W)
    BY <2>1, CleanEntry
  <2> QED
    BY <2>1, <2>2
<1>5. [t \in Imports(m, s) |-> View(m, t, Interface(t, s))] =
      [t \in Imports(m, W) |-> View(m, t, Interface(t, W))]
  BY <1>3, <1>4
<1> QED
  BY <1>2, <1>5 DEF Product

\* After the report, the artifact of every module is fresh.
LEMMA ReportingFresh ==
    ASSUME Types, Causes, Clean, Targets, NEW r \in Runs, commit_report(r),
           NEW m \in inventory(r)
    PROVE  artifact'[m] = [of |-> Product(m, run[r].input),
                           profile |-> run[r].profile]
<1>1. /\ run[r].phase = "report" /\ Reads(r) /\ Deserved(r)
      /\ Built(run[r].cache)
  BY DEF commit_report, Causes, Caused, Clean, Targets
<1>2. /\ IsClean(run[r].cache) /\ Reused(r) /\ decided(r, m)
      /\ m \in Modules
  BY <1>1 DEF Deserved, Deciding, Committed, inventory, Inventory
<1>3. artifact' = [n \in Modules |->
                     IF n \in target_rebuilt(r)
                     THEN [of |-> Product(n, run[r].input),
                           profile |-> run[r].profile]
                     ELSE artifact[n]]
  BY DEF commit_report, build_targets
<1>4. CASE m \in target_rebuilt(r)
  BY <1>2, <1>3, <1>4
<1>5. CASE m \notin target_rebuilt(r)
  <2>1. profile_matches(r) /\ m \notin executed(r)
    BY <1>5 DEF target_rebuilt
  <2>2. run[r].states[m] \in ModuleState
    BY <1>2, RunType
  <2>3. run[r].states[m].outcome = "reused"
    BY <1>2, <2>1, <2>2 DEF decided, executed, ModuleState
  <2>4. /\ warm(r) /\ is_cached(r, m) /\ run[r].input[m] = cached(r, m).source
        /\ \A t \in Imports(m, run[r].input) : SameView(r, m, t)
    BY <1>2, <2>3 DEF Reused
  <2>5. Product(m, run[r].input) = Product(m, Of(run[r].cache))
    BY <1>1, <1>2, <2>4, SameProduct
  <2>6. artifact[m] = [of |-> Product(m, Of(run[r].cache)),
                       profile |-> run[r].cache.profile]
    BY <1>1, <2>4 DEF Built, warm, is_cached
  <2>7. run[r].cache.profile = run[r].profile
    BY <2>1 DEF profile_matches
  <2> QED
    BY <1>2, <1>3, <1>5, <2>5, <2>6, <2>7
<1> QED
  BY <1>4, <1>5

\* Every step keeps the artifacts fresh.
LEMMA TargetsStep ==
    ASSUME OneRun, "report" \notin StopPhases, Types, Causes, Clean, Targets, [Next]_vars
    PROVE  Targets'
<1>1. ASSUME NEW r \in Runs, RunSteps(r)
      PROVE  Targets'
  <2>1. \A q \in Runs : q = r
    BY DEF OneRun
  <2>2. CASE commit_report(r)
    <3>1. \A m \in inventory(r) :
              artifact'[m] = [of |-> Product(m, run[r].input),
                              profile |-> run[r].profile]
      BY <2>2, ReportingFresh
    <3>2. /\ manifest' = manifest /\ manifest.profile = run[r].profile
          /\ DOMAIN manifest.entries = inventory(r) /\ Of(manifest) = run[r].input
      BY <2>2 DEF commit_report, Clean, Deserved, Deciding, Committed
    <3>3. Built(manifest)'
      BY <3>1, <3>2 DEF Built, Of
    <3>4. run'[r].phase = "idle"
      BY <2>2, Reporting
    <3> QED
      BY <2>1, <3>3, <3>4 DEF Targets
  <2>3. CASE commit_manifest(r)
    <3>1. /\ run[r].phase = "decide" /\ run[r].cache = manifest
          /\ artifact' = artifact
      BY <2>3 DEF commit_manifest, Clean, Deserved, Deciding, Committed
    <3>2. Built(run[r].cache)
      BY <2>1, <3>1 DEF Targets
    <3>3. run'[r].phase = "report" /\ run'[r].cache = run[r].cache
      BY <2>3, Committing DEF Keeps
    <3>4. Built(run[r].cache)'
      BY <3>1, <3>2, <3>3 DEF Built, Of
    <3> QED
      BY <2>1, <3>3, <3>4 DEF Targets
  <2>4. CASE ~commit_report(r) /\ ~commit_manifest(r)
    <3>1. artifact' = artifact /\ manifest' = manifest /\ run[r].phase # "report"
      BY <1>1, <2>4 DEF RunSteps, load_inventory, load_cached_graph, finish_execution,
         run_stops, reuse_module, publish_interface, undecided_next, files
    <3>2. run'[r].phase # "report"
      <4>1. CASE \E m \in Modules : reuse_module(r, m)
        <5>1. PICK m \in Modules : reuse_module(r, m)
          BY <4>1
        <5>2. warm(r) /\ is_cached(r, m)
          BY <5>1, WhyReused DEF reuse_module
        <5> QED
          BY <3>1, <5>1, <5>2, Reusing
      <4>2. CASE finish_execution(r)
        BY <3>1, <4>2, Finishing DEF Causes, Caused
      <4>3. CASE run_stops(r)
        BY <4>3, Stopping DEF NoRun
      <4>4. CASE \E m \in Modules : publish_interface(r, m)
        BY <3>1, <4>4, Publishing
      <4>5. CASE load_inventory(r) \/ load_cached_graph(r)
        BY <4>5, Loading, CacheLoading
      <4> QED
        BY <1>1, <2>4, <4>1, <4>2, <4>3, <4>4, <4>5 DEF RunSteps
    <3>3. Built(manifest)
      BY <2>1, <3>1 DEF Targets
    <3> QED
      BY <2>1, <3>1, <3>2, <3>3, SMTT(40) DEF Targets, Built, Of
  <2> QED
    BY <2>2, <2>3, <2>4
<1>2. CASE WorldSteps
  <2>1. run' = run /\ artifact' = artifact
    BY <1>2 DEF WorldSteps, edit, damage_kif, retarget, damage_manifest, files
  <2>2. manifest' \in {manifest, Damaged}
    BY <1>2 DEF WorldSteps, edit, damage_kif, retarget, damage_manifest, files
  <2> QED
    BY <2>1, <2>2 DEF Targets, Built, Of
<1>3. CASE UNCHANGED vars
  BY <1>3 DEF vars, files, Targets, Built, Of
<1> QED
  BY <1>1, <1>2, <1>3, StepsAreOfRunsOrWorld

\* decide_target_artifacts: after a run that reports, every artifact is the
\* one that a clean build makes, if no run fails between its two commits
\* (the violation of TargetsAreFresh that TLC finds is such a run).
THEOREM TargetsStayFresh ==
    OneRun /\ "report" \notin StopPhases => (Spec => TargetsAreFresh)
<1> SUFFICES ASSUME OneRun, "report" \notin StopPhases PROVE Spec => TargetsAreFresh
  OBVIOUS
<1> DEFINE All == Types /\ Causes /\ Clean /\ Targets
           Fresh == \A r \in Runs : run[r].phase = "report" /\ run'[r].phase = "idle"
                                      /\ run'[r] # NoRun =>
                       \A m \in inventory(r) :
                          artifact'[m] = [of |-> Product(m, run[r].input),
                                          profile |-> run[r].profile]
<1>1. Init => All
  <2> SUFFICES ASSUME Init PROVE All
    OBVIOUS
  <2>1. \A r \in Runs : run[r].phase = "idle"
    BY DEF Init, NoRun
  <2>2. Targets
    BY <2>1 DEF Init, Targets, Built
  <2> QED
    BY <2>2, TypesInit, CleanInit
<1>2. All /\ [Next]_vars => All'
  BY TypesStep, CleanStep, TargetsStep
<1>3. All /\ [Next]_vars => [Fresh]_vars
  <2> SUFFICES ASSUME All, Next, NEW r \in Runs, run[r].phase = "report",
                      run'[r].phase = "idle", run'[r] # NoRun,
                      NEW m \in inventory(r)
               PROVE  artifact'[m] = [of |-> Product(m, run[r].input),
                                      profile |-> run[r].profile]
    OBVIOUS
  <2>1. CASE commit_report(r)
    BY <2>1, ReportingFresh
  <2>2. CASE ~commit_report(r)
    <3>1. \A q \in Runs : q = r
      BY DEF OneRun
    <3>2. ~RunSteps(r)
      BY <2>2 DEF RunSteps, load_inventory, load_cached_graph, finish_execution,
         commit_manifest, run_stops, reuse_module, publish_interface, undecided_next
    <3>3. WorldSteps
      BY <3>1, <3>2, StepsAreOfRunsOrWorld
    <3>4. run' = run
      BY <3>3 DEF WorldSteps, edit, damage_kif, retarget, damage_manifest
    <3> QED
      BY <3>4
  <2> QED
    BY <2>1, <2>2
<1>4. Spec => [][Fresh]_vars
  BY <1>1, <1>2, <1>3, PTL DEF Spec
<1> QED
  BY <1>4 DEF TargetsAreFresh
=============================================================================
