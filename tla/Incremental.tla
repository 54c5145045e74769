---------------------------- MODULE Incremental ----------------------------
(***************************************************************************)
(* Incremental native builds of the dev profile (arandu_cli: build_emit,   *)
(* cgu, linker_elf, artifact, incremental): what a build leaves on disk,   *)
(* what the next one makes of it, and what a crash does in between.        *)
(*                                                                         *)
(* A source version says which text each codegen unit, one per function,   *)
(* has; an executable is what it was linked from, and its digest is itself *)
(* (content addressing).  A file that is torn or corrupt fails its check   *)
(* and is as good as absent, so only intact files are kept.                *)
(***************************************************************************)
EXTENDS Naturals, FiniteSets

CONSTANTS
  Processes,
  Versions,    \* the texts of the source: functions from units to texts
  None,
  MaxBuilds,   \* bound on the builds begun
  MaxEdits,    \* bound on the edits of the source
  MaxFaults    \* bound on the crashes and power losses

ASSUME IncrementalAssumption ==
  /\ \A v \in Versions : v = [n \in DOMAIN v |-> v[n]]
  /\ \A v \in Versions : IsFiniteSet(DOMAIN v)
  /\ None \notin Processes /\ None \notin [code : Versions, debug : BOOLEAN]
  /\ MaxBuilds \in Nat /\ MaxEdits \in Nat /\ MaxFaults \in Nat

VARIABLES
  source,    \* the text on disk
  objects,   \* cached units: their objects with valid sidecars
  bin,       \* intact executables, each under the name of its digest
  files,     \* build-state.json, elf_layout.json and the session fingerprint
  older,     \* what each of them was since the machine started
  lock,      \* who holds the CGU cache's and the publication lock
  pc, job,   \* per process: where it is, and what it knows
  count,     \* how many builds, debug builds, edits and faults there were
  mixed      \* an executable was reused that the layout does not describe

vars == <<source, objects, bin, files, older, lock, pc, job, count, mixed>>

Units(v)       == {<<n, v[n]>> : n \in DOMAIN v}
Exe(v, debug)  == [code |-> v, debug |-> debug]
Files          == {"state", "layout", "session"}
NoJob          == [version |-> None, debug |-> FALSE, recompiled |-> {}, artifact |-> None]

Init ==
  /\ source \in Versions
  /\ objects = {} /\ bin = {}
  /\ files = [f \in Files |-> None] /\ older = [f \in Files |-> {}]
  /\ lock = [l \in {"cache", "publish"} |-> None]
  /\ pc = [p \in Processes |-> "idle"]
  /\ job = [p \in Processes |-> NoJob]
  /\ count = [builds |-> 0, debugs |-> 0, edits |-> 0, faults |-> 0]
  /\ mixed = FALSE

Counted(what, bound) ==
  /\ count[what] < bound
  /\ count' = [count EXCEPT ![what] = @ + 1]

Edit(v) ==
  /\ Counted("edits", MaxEdits)
  /\ v # source
  /\ source' = v
  /\ UNCHANGED <<objects, bin, files, older, lock, pc, job, mixed>>

Goto(p, where) == pc' = [pc EXCEPT ![p] = where]

(* replace_derived: the rename is seen at once and reaches the disk later. *)
replace_derived(f, value) ==
  /\ files' = [files EXCEPT ![f] = value]
  /\ older' = [older EXCEPT ![f] = @ \union {files[f]}]

Acquire(p, l) == lock[l] = None /\ lock' = [lock EXCEPT ![l] = p]
Released(p)   == [l \in DOMAIN lock |-> IF lock[l] = p THEN None ELSE lock[l]]

(* BuildSession: the sources are read. *)
Begin(p, debug) ==
  /\ pc[p] = "idle"
  /\ count.builds < MaxBuilds
  /\ count' = [count EXCEPT !.builds = @ + 1, !.debugs = IF debug THEN @ + 1 ELSE @]
  /\ job' = [job EXCEPT ![p] = [NoJob EXCEPT !.version = source, !.debug = debug]]
  /\ Goto(p, "check")
  /\ UNCHANGED <<source, objects, bin, files, older, lock, mixed>>

(* check_incremental: the recorded session has today's inputs and its      *)
(* executable is intact.  Nothing is locked.                               *)
check_incremental(p) ==
  /\ pc[p] = "check"
  /\ LET s == files["session"]
         up_to_date == /\ s # None
                       /\ s.version = source /\ s.debug = job[p].debug /\ s.artifact \in bin
     IN IF up_to_date
          THEN /\ job' = [job EXCEPT ![p].version = source, ![p].artifact = s.artifact]
               /\ Goto(p, "built")
          ELSE /\ Goto(p, IF job[p].debug THEN "publish" ELSE "compile")
               /\ UNCHANGED job
  /\ UNCHANGED <<source, objects, bin, files, older, lock, count, mixed>>

(* Mutant: the cache's lock is released once the units are looked up. *)
PartitionUnlocked(p) ==
  /\ pc[p] = "compile"
  /\ lock["cache"] = None
  /\ job' = [job EXCEPT ![p].recompiled = Units(job[p].version) \ objects]
  /\ Goto(p, "codegen")
  /\ UNCHANGED <<source, objects, bin, files, older, lock, count, mixed>>

(* compile_partitioned: which units the cache does not have, under its     *)
(* lock, which the result holds until the build ends;                      *)
Partition(p) ==
  /\ pc[p] = "compile"
  /\ Acquire(p, "cache")
  /\ job' = [job EXCEPT ![p].recompiled = Units(job[p].version) \ objects]
  /\ Goto(p, "codegen")
  /\ UNCHANGED <<source, objects, bin, files, older, count, mixed>>

(* each of them, the object first and its validating sidecar last;         *)
CompileUnit(p, u) ==
  /\ pc[p] = "codegen"
  /\ u \in job[p].recompiled \ objects
  /\ objects' = objects \union {u}
  /\ UNCHANGED <<source, bin, files, older, lock, pc, job, count, mixed>>

(* collect_cache: when the cache is too large it loses the oldest objects   *)
(* that are not in use.                                                    *)
collect_cache(p) ==
  /\ pc[p] = "codegen"
  /\ job[p].recompiled \subseteq objects
  /\ \E gone \in SUBSET (objects \ Units(job[p].version)) : objects' = objects \ gone
  /\ Goto(p, "choose")
  /\ UNCHANGED <<source, bin, files, older, lock, job, count, mixed>>

(* layout_matches_cgus *)
layout_matches_cgus(v) == files["layout"] # None /\ files["layout"].cgu_hashes = v

(* With nothing recompiled, a layout for just these units and a build      *)
(* state whose executable is intact, that executable is the result.  With  *)
(* something recompiled, it is copied to be patched.  Otherwise link.      *)
Choose(p) ==
  /\ pc[p] = "choose"
  /\ LET existing == files["state"]
         usable   == existing # None /\ existing \in bin
         reuse    == job[p].recompiled = {} /\ layout_matches_cgus(job[p].version) /\ usable
         patch    == job[p].recompiled # {} /\ files["layout"] # None /\ usable
     IN /\ job' = [job EXCEPT ![p].artifact = IF reuse \/ patch THEN existing ELSE None]
        /\ Goto(p, IF reuse THEN "record" ELSE IF patch THEN "patch" ELSE "publish")
        /\ mixed' = (mixed \/ (reuse /\ files["layout"].exe # existing))
  /\ UNCHANGED <<source, objects, bin, files, older, lock, count>>

Recompiled(p) ==
  {n \in DOMAIN job[p].version : <<n, job[p].version[n]>> \in job[p].recompiled}

(* try_patch_elf_in_place: there is a layout of as many units, and every    *)
(* unit is in it, recompiled or as it was.                                 *)
closure_unchanged(p) ==
  LET v   == job[p].version
      old == files["layout"].cgu_hashes
  IN /\ files["layout"] # None
     /\ Cardinality(DOMAIN old) = Cardinality(DOMAIN v)
     /\ \A n \in DOMAIN v : n \in DOMAIN old /\ (n \in Recompiled(p) \/ old[n] = v[n])

(* The slots of the recompiled units are overwritten, and no others. *)
Patched(p, code) ==
  [n \in DOMAIN code |-> IF n \in Recompiled(p) THEN job[p].version[n] ELSE code[n]]

(* Mutant: the copy is not compared with the executable of the layout. *)
PatchAny(p) ==
  /\ pc[p] = "patch"
  /\ closure_unchanged(p)
  /\ LET new == Exe(Patched(p, job[p].artifact.code), FALSE)
         cgu_hashes == Patched(p, files["layout"].cgu_hashes)
     IN /\ replace_derived("layout", [cgu_hashes |-> cgu_hashes, exe |-> new])
        /\ job' = [job EXCEPT ![p].artifact = new]
  /\ Goto(p, "publish")
  /\ UNCHANGED <<source, objects, bin, lock, count, mixed>>

(* The copy is the executable of the layout.  The layout is replaced before *)
(* the executable it describes then is published.                           *)
Patch(p) ==
  /\ pc[p] = "patch"
  /\ closure_unchanged(p)
  /\ files["layout"].exe = job[p].artifact
  /\ LET new == Exe(Patched(p, job[p].artifact.code), FALSE)
         cgu_hashes == Patched(p, files["layout"].cgu_hashes)
     IN /\ replace_derived("layout", [cgu_hashes |-> cgu_hashes, exe |-> new])
        /\ job' = [job EXCEPT ![p].artifact = new]
  /\ Goto(p, "publish")
  /\ UNCHANGED <<source, objects, bin, lock, count, mixed>>

(* A check fails, the function does not fit its slot or a relocation needs *)
(* the linker: link it all.                                                *)
PatchFails(p) ==
  /\ pc[p] = "patch"
  /\ job' = [job EXCEPT ![p].artifact = None]
  /\ Goto(p, "publish")
  /\ UNCHANGED <<source, objects, bin, files, older, lock, count, mixed>>

(* publish_partitioned_native_artifact, record_patched_native_artifact     *)
(* and, for a debug build, publish_native_artifact: under the publication  *)
(* lock the executable gets its name,                                      *)
PublishExe(p) ==
  /\ pc[p] = "publish"
  /\ Acquire(p, "publish")
  /\ LET linked == Exe(job[p].version, job[p].debug)
         exe    == IF job[p].artifact = None THEN linked ELSE job[p].artifact
     IN /\ bin' = bin \union {exe}
        /\ Goto(p, IF job[p].artifact = None /\ ~job[p].debug THEN "link state" ELSE "state")
        /\ job' = [job EXCEPT ![p].artifact = exe]
  /\ UNCHANGED <<source, objects, files, older, count, mixed>>

(* and the build state points to it.                                       *)
WriteState(p) ==
  /\ pc[p] \in {"state", "link state"}
  /\ replace_derived("state", job[p].artifact)
  /\ lock' = [lock EXCEPT !["publish"] = None]
  /\ Goto(p, IF pc[p] = "link state" THEN "layout" ELSE "record")
  /\ UNCHANGED <<source, objects, bin, job, count, mixed>>

(* record_elf_layout, after a link. *)
record_elf_layout(p) ==
  /\ pc[p] = "layout"
  /\ replace_derived("layout", [cgu_hashes |-> job[p].version, exe |-> job[p].artifact])
  /\ Goto(p, "record")
  /\ UNCHANGED <<source, objects, bin, lock, job, count, mixed>>

(* record_session, with the inputs the build compiled. *)
record_session(p) ==
  /\ pc[p] = "record"
  /\ replace_derived("session", [version |-> job[p].version, debug |-> job[p].debug,
                                 artifact |-> job[p].artifact])
  /\ lock' = Released(p)
  /\ Goto(p, "built")
  /\ UNCHANGED <<source, objects, bin, job, count, mixed>>

(* The result is reported, and used. *)
Report(p) ==
  /\ pc[p] = "built"
  /\ Goto(p, "idle")
  /\ job' = [job EXCEPT ![p] = NoJob]
  /\ UNCHANGED <<source, objects, bin, files, older, lock, count, mixed>>

(* The process dies or its build fails: its locks are released. *)
Crash(p) ==
  /\ Counted("faults", MaxFaults)
  /\ pc[p] # "idle"
  /\ Goto(p, "idle")
  /\ job' = [job EXCEPT ![p] = NoJob]
  /\ lock' = Released(p)
  /\ UNCHANGED <<source, objects, bin, files, older, mixed>>

Kept(f) == older[f] \union {files[f], None}
WithoutOne(S) == {S} \union {S \ {x} : x \in S}

(* The machine stops: nothing was flushed, so each file is what it was     *)
(* last, what it was once, or torn; an object or an executable may be torn *)
(* as well.                                                                *)
PowerLoss ==
  /\ Counted("faults", MaxFaults)
  /\ \E s \in Kept("state"), l \in Kept("layout"), r \in Kept("session") :
       files' = [state |-> s, layout |-> l, session |-> r]
  /\ older' = [f \in Files |-> {}]
  /\ \/ objects' \in WithoutOne(objects) /\ UNCHANGED bin
     \/ bin' \in WithoutOne(bin) /\ UNCHANGED objects
  /\ pc' = [p \in Processes |-> "idle"]
  /\ job' = [p \in Processes |-> NoJob]
  /\ lock' = [l \in DOMAIN lock |-> None]
  /\ UNCHANGED <<source, mixed>>

BuildStep(p) ==
  \/ check_incremental(p) \/ Partition(p) \/ \E u \in job[p].recompiled : CompileUnit(p, u)
  \/ collect_cache(p) \/ Choose(p) \/ Patch(p) \/ PatchFails(p) \/ PublishExe(p)
  \/ WriteState(p) \/ record_elf_layout(p) \/ record_session(p) \/ Report(p)

Next ==
  \/ \E v \in Versions : Edit(v)
  \/ \E p \in Processes :
       \/ \E debug \in BOOLEAN : Begin(p, debug)
       \/ BuildStep(p)
       \/ Crash(p)
  \/ PowerLoss

Spec == Init /\ [][Next]_vars

----------------------------------------------------------------------------
Right(p) == pc[p] = "built" => job[p].artifact.code = job[p].version

(* "a crash may cost a rebuild, never a wrong result" (atomic.rs): what a   *)
(* build reports is what its sources compile to.  It is violated:          *)
(* layout_matches_cgus does not compare the layout's binary_hash with the  *)
(* executable that the build state names, and the two can come apart.      *)
NeverWrong == \A p \in Processes : Right(p)

(* That reuse is the only way: crashes and power losses at any step, torn  *)
(* or stale files, patches and concurrent builds never give a wrong        *)
(* executable unless one was reused that the layout does not describe.     *)
(* And that takes a fault or a debug build: processes that build and patch *)
(* at the same time while the source changes keep layout and build state   *)
(* together, by the CGU cache's lock alone, which every build without      *)
(* debug information holds until it has recorded both.                     *)
RightUnlessMixed ==
  IF mixed THEN count.faults > 0 \/ count.debugs > 0 ELSE NeverWrong

(* "Held until linking/publication completes so another process cannot GC  *)
(* an object between cache validation and linker open" (cgu.rs).           *)
ObjectsHeld ==
  \A p \in Processes :
    pc[p] \in {"choose", "patch", "publish"} /\ ~job[p].debug =>
      Units(job[p].version) \subseteq objects
=============================================================================
