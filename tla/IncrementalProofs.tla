------------------------- MODULE IncrementalProofs -------------------------
(***************************************************************************)
(* For any number of processes, versions, builds, edits and faults: what a *)
(* build reports is what its sources compile to, unless an executable was  *)
(* reused that the layout does not describe, and that takes a fault or a   *)
(* debug build; and no object is collected between the look into the cache *)
(* and the link.                                                           *)
(*                                                                         *)
(* The argument.  A layout describes the executable it was made for        *)
(* (Described), because a patch replaces just the units that the layout    *)
(* does not have.  What a build is about to publish is what its version    *)
(* compiles to (Linked), so the only doubtful step is the reuse of the     *)
(* executable that the build state names.  Without faults and debug builds *)
(* that is the one of the layout, except while the holder of the cache's   *)
(* lock has replaced one of the two files and not yet the other            *)
(* (Together), and a process that chooses is the holder (Locks).           *)
(***************************************************************************)
EXTENDS Incremental, FiniteSetTheorems, TLAPS

Exes     == [code : Versions, debug : BOOLEAN]
AllUnits == UNION {Units(v) : v \in Versions}
Layouts  == [cgu_hashes : Versions, exe : Exes]
Sessions == [version : Versions, debug : BOOLEAN, artifact : Exes]
JobType  == [version : Versions \union {None}, debug : BOOLEAN,
             recompiled : SUBSET AllUnits, artifact : Exes \union {None}]
Places   == {"idle", "check", "compile", "codegen", "choose", "patch", "publish",
             "state", "link state", "layout", "record", "built"}

FilesOK(d) ==
  /\ d = [f \in Files |-> d[f]]
  /\ d["state"] \in Exes \union {None}
  /\ d["layout"] \in Layouts \union {None}
  /\ d["session"] \in Sessions \union {None}

OlderOK(d) ==
  /\ d = [f \in Files |-> d[f]]
  /\ d["state"] \subseteq Exes \union {None}
  /\ d["layout"] \subseteq Layouts \union {None}
  /\ d["session"] \subseteq Sessions \union {None}

TypeOK ==
  /\ source \in Versions
  /\ FilesOK(files) /\ OlderOK(older)
  /\ lock \in [{"cache", "publish"} -> Processes \union {None}]
  /\ pc \in [Processes -> Places]
  /\ job \in [Processes -> JobType]
  /\ \A p \in Processes : pc[p] # "idle" => job[p].version \in Versions
  /\ count \in [builds : Nat, debugs : Nat, edits : Nat, faults : Nat]
  /\ mixed \in BOOLEAN

(* The places of a build without debug information from its look into the  *)
(* cache to its end.                                                       *)
Inside(p) ==
  \/ pc[p] \in {"codegen", "choose", "patch", "link state", "layout"}
  \/ pc[p] \in {"publish", "state", "record"} /\ ~job[p].debug

(* No faults and no debug builds so far. *)
Clean == count.faults = 0 /\ count.debugs = 0

(* What holds of a process: inside, it has the cache's lock and the cache  *)
(* has the units it does not compile itself; what it publishes, and unless *)
(* there was a mix what it reports, is what its version compiles to; and   *)
(* which of the two files it has replaced when nothing went wrong.         *)
Own(p) ==
  /\ Inside(p) => lock["cache"] = p
  /\ pc[p] \in {"compile", "codegen", "choose", "patch", "link state", "layout"} => ~job[p].debug
  /\ pc[p] = "codegen" => Units(job[p].version) \ job[p].recompiled \subseteq objects
  /\ pc[p] \in {"choose", "patch", "publish"} /\ ~job[p].debug => Units(job[p].version) \subseteq objects
  /\ pc[p] = "check" => job[p].artifact = None
  /\ pc[p] = "publish" =>
       job[p].artifact = None \/ (~job[p].debug /\ job[p].artifact = Exe(job[p].version, FALSE))
  /\ pc[p] \in {"state", "link state", "layout"} =>
       job[p].artifact = Exe(job[p].version, job[p].debug)
  /\ pc[p] = "record" => job[p].artifact # None
  /\ pc[p] \in {"record", "built"} /\ ~mixed => job[p].artifact.code = job[p].version
  /\ Clean => /\ ~job[p].debug
              /\ pc[p] = "layout" => files["state"] = job[p].artifact
              /\ pc[p] \in {"publish", "state"} /\ job[p].artifact # None =>
                   files["layout"].exe = job[p].artifact

(* A layout lists the units of its executable. *)
Describes(layout) == layout # None => layout.cgu_hashes = layout.exe.code
Described == Describes(files["layout"]) /\ \A l \in older["layout"] : Describes(l)

(* Unless there was a mix, a recorded session names the right executable. *)
Names(session) == session # None => session.artifact.code = session.version
Recorded == ~mixed => Names(files["session"]) /\ \A r \in older["session"] : Names(r)

(* The process has replaced one of layout and build state. *)
Between(p) ==
  \/ pc[p] = "layout"
  \/ pc[p] \in {"publish", "state"} /\ job[p].artifact # None

(* Otherwise the layout is that of the executable the build state names.   *)
Together ==
  Clean => /\ ~mixed
           /\ \/ files["layout"] = None
              \/ files["layout"].exe = files["state"]
              \/ \E p \in Processes : Between(p)

Inv ==
  /\ TypeOK
  /\ \A p \in Processes : Own(p)
  /\ Described /\ Recorded /\ Together

-----------------------------------------------------------------------------
(* Versions and their units *)

LEMMA UnitsTyped ==
  ASSUME NEW v \in Versions
  PROVE  Units(v) \in SUBSET AllUnits
BY DEF AllUnits

LEMMA ExeTyped ==
  ASSUME NEW v \in Versions, NEW debug \in BOOLEAN
  PROVE  Exe(v, debug) \in Exes /\ Exe(v, debug).code = v /\ Exe(v, debug) # None
BY IncrementalAssumption DEF Exes, Exe

(* A patch of the executable that the layout describes gives what the      *)
(* version compiles to, and the layout its units (try_patch_elf_in_place). *)
LEMMA PatchedIsVersion ==
  ASSUME TypeOK, Described, NEW p \in Processes, pc[p] = "patch", closure_unchanged(p),
         files["layout"].exe = job[p].artifact
  PROVE  /\ Patched(p, job[p].artifact.code) = job[p].version
         /\ Patched(p, files["layout"].cgu_hashes) = job[p].version
<1> DEFINE v == job[p].version
           w == job[p].artifact.code
<1>1. v \in Versions
  BY DEF TypeOK
<1>2. files["layout"] \in Layouts /\ files["layout"].cgu_hashes = w
  BY DEF TypeOK, FilesOK, Described, Describes, closure_unchanged
<1>3. w \in Versions
  BY <1>2 DEF Layouts
<1>4. /\ Cardinality(DOMAIN w) = Cardinality(DOMAIN v)
      /\ \A n \in DOMAIN v : n \in DOMAIN w /\ (n \in Recompiled(p) \/ w[n] = v[n])
  BY <1>2 DEF closure_unchanged
<1>5. DOMAIN v = DOMAIN w
  <2>1. IsFiniteSet(DOMAIN w) /\ DOMAIN v \subseteq DOMAIN w
    BY <1>3, <1>4, IncrementalAssumption
  <2> HIDE DEF v, w
  <2> QED BY <1>4, <2>1, FS_Subset
<1>6. Patched(p, w) = [n \in DOMAIN v |-> v[n]]
  BY <1>4, <1>5 DEF Patched
<1> QED BY <1>1, <1>2, <1>6, IncrementalAssumption

-----------------------------------------------------------------------------
(* Types *)

LEMMA InitInv == Init => Inv
<1> SUFFICES ASSUME Init PROVE Inv
  OBVIOUS
<1> USE IncrementalAssumption
<1>1. TypeOK
  <2>1. files = [f \in Files |-> None] /\ older = [f \in Files |-> {}]
    BY DEF Init
  <2>2. FilesOK(files) /\ OlderOK(older)
    BY <2>1 DEF FilesOK, OlderOK, Files
  <2>3. NoJob \in JobType
    BY DEF NoJob, JobType
  <2> QED BY <2>2, <2>3, Zenon DEF Init, TypeOK, Places
<1>2. \A p \in Processes : pc[p] = "idle" /\ job[p] = NoJob
  BY DEF Init
<1>3. \A p \in Processes : Own(p)
  <2>1. NoJob.debug = FALSE
    BY DEF NoJob
  <2> QED BY <1>2, <2>1, Zenon DEF Own, Inside
<1>4. files["layout"] = None /\ older["layout"] = {}
      /\ files["session"] = None /\ older["session"] = {}
  BY DEF Init, Files
<1>5. Described /\ Recorded /\ Together
  BY <1>4, Zenon DEF Described, Describes, Recorded, Names, Together, Init
<1> QED BY <1>1, <1>3, <1>5 DEF Inv

(* A derived file is replaced by one of its kind. *)
LEMMA ReplacedOK ==
  ASSUME FilesOK(files), OlderOK(older), NEW f \in Files, NEW value, replace_derived(f, value),
         f = "state" => value \in Exes \union {None},
         f = "layout" => value \in Layouts \union {None},
         f = "session" => value \in Sessions \union {None}
  PROVE  FilesOK(files)' /\ OlderOK(older)'
<1>1. FilesOK(files)'
  BY Zenon DEF FilesOK, Files, replace_derived
<1>2. OlderOK(older)'
  BY Zenon DEF FilesOK, OlderOK, Files, replace_derived
<1> QED BY <1>1, <1>2

(* Process p goes to a place, with what it knows then. *)
Moved(p, where, new) ==
  /\ pc' \in [Processes -> Places] /\ job' \in [Processes -> JobType]
  /\ \A q \in Processes : pc'[q] # "idle" => job'[q].version \in Versions
  /\ pc'[p] = where /\ job'[p] = new
  /\ \A q \in Processes : q # p => pc'[q] = pc[q] /\ job'[q] = job[q]

LEMMA JobMoves ==
  ASSUME Inv, NEW p \in Processes, NEW where \in Places, Goto(p, where),
         NEW new \in JobType, job' = [job EXCEPT ![p] = new],
         where # "idle" => new.version \in Versions
  PROVE  Moved(p, where, new)
BY DEF Inv, TypeOK, Goto, Moved

LEMMA JobStays ==
  ASSUME Inv, NEW p \in Processes, NEW where \in Places, Goto(p, where), job' = job,
         pc[p] # "idle"
  PROVE  Moved(p, where, job[p])
BY DEF Inv, TypeOK, Goto, Moved

-----------------------------------------------------------------------------
(* The invariant is preserved *)

(* Every process but p keeps its place and job, and what it holds. *)
OthersStay(p) ==
  \A q \in Processes \ {p} :
    /\ pc'[q] = pc[q] /\ job'[q] = job[q]
    /\ lock["cache"] = q => lock'["cache"] = q

(* Two processes inside are one. *)
LEMMA OneInside ==
  ASSUME Inv, NEW p \in Processes, NEW q \in Processes, Inside(p), Inside(q)
  PROVE  p = q
BY Zenon DEF Inv, Own

(* The others keep what holds of them: objects go, and the layout and the  *)
(* build state change without faults and debug builds, only by a process   *)
(* inside.                                                                 *)
LEMMA OthersKeep ==
  ASSUME Inv, NEW p \in Processes, OthersStay(p), NEW q \in Processes, q # p,
         mixed => mixed', Clean' => Clean,
         objects \subseteq objects' \/ Inside(p),
         Clean' => \/ files'["state"] = files["state"] /\ files'["layout"] = files["layout"]
                   \/ Inside(p)
  PROVE  Own(q)'
<1>1. pc'[q] = pc[q] /\ job'[q] = job[q] /\ (lock["cache"] = q => lock'["cache"] = q)
  BY DEF OthersStay
<1>2. Own(q)
  BY DEF Inv
<1>3. Inside(q) => objects \subseteq objects'
  BY OneInside
<1>4. Inside(q)' => lock'["cache"] = q
  BY <1>1, <1>2, Zenon DEF Own, Inside
<1>5. /\ pc'[q] = "codegen" => Units(job'[q].version) \ job'[q].recompiled \subseteq objects'
      /\ pc'[q] \in {"choose", "patch", "publish"} /\ ~job'[q].debug =>
           Units(job'[q].version) \subseteq objects'
  BY <1>1, <1>2, <1>3, Zenon DEF Own, Inside
<1>6. ASSUME Clean'
      PROVE  /\ ~job'[q].debug
             /\ pc'[q] = "layout" => files'["state"] = job'[q].artifact
             /\ pc'[q] \in {"publish", "state"} /\ job'[q].artifact # None =>
                  files'["layout"].exe = job'[q].artifact
  <2>1. ~job[q].debug
    BY <1>2, <1>6, Zenon DEF Own
  <2>2. pc[q] \in {"layout", "publish", "state"} => Inside(q)
    BY <2>1, Zenon DEF Inside
  <2>3. pc[q] \in {"layout", "publish", "state"} =>
          files'["state"] = files["state"] /\ files'["layout"] = files["layout"]
    BY <1>6, <2>2, OneInside
  <2> QED BY <1>1, <1>2, <1>6, <2>1, <2>3, Zenon DEF Own
<1> QED BY <1>1, <1>2, <1>4, <1>5, <1>6, Zenon DEF Own

(* A step of p that replaces no file and counts nothing: what has to be    *)
(* shown is what holds of p then.                                          *)
LEMMA QuietStep ==
  ASSUME Inv, UNCHANGED <<source, files, older, count, mixed>>,
         NEW p \in Processes, NEW where, NEW new, Moved(p, where, new),
         lock' \in [{"cache", "publish"} -> Processes \union {None}],
         \A q \in Processes \ {p} : lock["cache"] = q => lock'["cache"] = q,
         objects \subseteq objects' \/ Inside(p),
         Clean /\ Between(p) => Between(p)',
         Own(p)'
  PROVE  Inv'
<1>1. OthersStay(p)
  BY DEF OthersStay, Moved
<1>2. TypeOK'
  BY Zenon DEF Inv, TypeOK, FilesOK, OlderOK, Moved
<1>3. Clean' = Clean
  BY DEF Clean
<1>4. \A q \in Processes : Own(q)'
  BY <1>1, <1>3, OthersKeep
<1>5. Described' /\ Recorded'
  BY DEF Inv, Described, Recorded
<1>6. Together'
  <2>1. \A q \in Processes : Clean /\ Between(q) => Between(q)'
    BY DEF Moved, Between
  <2> QED BY <1>3, <2>1 DEF Inv, Together
<1> QED BY <1>2, <1>4, <1>5, <1>6 DEF Inv

-----------------------------------------------------------------------------
(* Edits and the beginning of a build *)

LEMMA EditInv ==
  ASSUME Inv, NEW v \in Versions, Edit(v)
  PROVE  Inv'
<1>1. UNCHANGED <<objects, bin, files, older, lock, pc, job, mixed>> /\ source' = v
  BY DEF Edit
<1>2. count' \in [builds : Nat, debugs : Nat, edits : Nat, faults : Nat]
      /\ count'.faults = count.faults /\ count'.debugs = count.debugs
  BY DEF Edit, Counted, Inv, TypeOK
<1>3. TypeOK'
  BY <1>1, <1>2 DEF Inv, TypeOK, FilesOK
<1>4. \A p \in Processes : Own(p)'
  BY <1>1, <1>2, ZenonT(30) DEF Inv, Own, Inside, Clean
<1>5. Described' /\ Recorded' /\ Together'
  BY <1>1, <1>2 DEF Inv, Described, Recorded, Together, Clean, Between
<1> QED BY <1>3, <1>4, <1>5 DEF Inv

LEMMA BeginInv ==
  ASSUME Inv, NEW p \in Processes, NEW debug \in BOOLEAN, Begin(p, debug)
  PROVE  Inv'
<1> DEFINE new == [NoJob EXCEPT !.version = source, !.debug = debug]
<1>1. UNCHANGED <<source, objects, bin, files, older, lock, mixed>> /\ Goto(p, "check")
      /\ job' = [job EXCEPT ![p] = new] /\ pc[p] = "idle"
  BY DEF Begin
<1>2. new \in JobType /\ new.version \in Versions /\ new.debug = debug /\ new.artifact = None
  BY Zenon DEF NoJob, JobType, Inv, TypeOK
<1>3. count' \in [builds : Nat, debugs : Nat, edits : Nat, faults : Nat]
      /\ count'.faults = count.faults
      /\ count'.debugs = IF debug THEN count.debugs + 1 ELSE count.debugs
  <2>1. count \in [builds : Nat, debugs : Nat, edits : Nat, faults : Nat]
    BY DEF Inv, TypeOK
  <2>2. PICK b \in Nat : b = count.builds + 1
    BY <2>1
  <2>3. PICK k \in Nat : k = IF debug THEN count.debugs + 1 ELSE count.debugs
    BY <2>1
  <2>4. count' = [count EXCEPT !.builds = b, !.debugs = k]
    BY <2>2, <2>3 DEF Begin
  <2>5. count'.debugs = k /\ count'.faults = count.faults
        /\ count' \in [builds : Nat, debugs : Nat, edits : Nat, faults : Nat]
    BY <2>1, <2>4, Zenon
  <2> QED BY <2>3, <2>5
<1> HIDE DEF new
<1>4. Moved(p, "check", new)
  BY <1>1, <1>2, JobMoves, Zenon DEF Places
<1>5. TypeOK'
  BY <1>1, <1>3, <1>4, Zenon DEF Inv, TypeOK, FilesOK, OlderOK, Moved
<1>6. Clean' => Clean /\ ~debug
  BY <1>3 DEF Clean, Inv, TypeOK
<1>7. Own(p)'
  BY <1>2, <1>4, <1>6 DEF Own, Inside, Moved
<1>8. \A q \in Processes : Own(q)'
  <2>1. OthersStay(p)
    BY <1>1, <1>4 DEF OthersStay, Moved
  <2> QED BY <1>1, <1>6, <1>7, <2>1, OthersKeep
<1>9. Described' /\ Recorded'
  BY <1>1 DEF Inv, Described, Recorded
<1>10. Together'
  <2>1. \A q \in Processes : Between(q) => Between(q)'
    BY <1>1, <1>4 DEF Moved, Between
  <2> QED BY <1>1, <1>6, <2>1 DEF Inv, Together
<1> QED BY <1>5, <1>8, <1>9, <1>10 DEF Inv

LEMMA CheckInv ==
  ASSUME Inv, NEW p \in Processes, check_incremental(p)
  PROVE  Inv'
<1> DEFINE s   == files["session"]
           new == [job[p] EXCEPT !.version = source, !.artifact = s.artifact]
<1>1. UNCHANGED <<source, objects, bin, files, older, lock, count, mixed>> /\ pc[p] = "check"
  BY DEF check_incremental
<1>2. ~Between(p) /\ lock' \in [{"cache", "publish"} -> Processes \union {None}]
  BY <1>1 DEF Between, Inv, TypeOK
<1>3. Clean' = Clean /\ Own(p)
  BY <1>1 DEF Clean, Inv
<1>4. CASE Goto(p, "built") /\ job' = [job EXCEPT ![p] = new] /\ s # None /\ s.version = source
  <2>1. s \in Sessions
    BY <1>4 DEF Inv, TypeOK, FilesOK
  <2>2. new \in JobType /\ new.version = source /\ new.artifact = s.artifact
        /\ new.debug = job[p].debug /\ new.version \in Versions
    BY <2>1, ZenonT(30) DEF Sessions, JobType, Inv, TypeOK
  <2>3. ~mixed => s.artifact.code = source
    BY <1>4 DEF Inv, Recorded, Names
  <2> HIDE DEF new, s
  <2>4. Moved(p, "built", new)
    BY <1>4, <2>2, JobMoves, Zenon DEF Places
  <2>5. Own(p)'
    BY <1>1, <1>3, <2>2, <2>3, <2>4 DEF Own, Inside, Moved
  <2> QED BY <1>1, <1>2, <2>4, <2>5, QuietStep
<1>5. CASE Goto(p, IF job[p].debug THEN "publish" ELSE "compile") /\ job' = job
  <2>1. PICK where \in Places :
          /\ Goto(p, where) /\ where \in {"publish", "compile"}
          /\ where = IF job[p].debug THEN "publish" ELSE "compile"
    BY <1>5 DEF Places
  <2>2. Moved(p, where, job[p])
    BY <1>1, <1>5, <2>1, JobStays, SMTT(30)
  <2>3. Own(p)'
    BY <1>1, <1>3, <2>1, <2>2, Zenon DEF Own, Inside, Moved
  <2> QED BY <1>1, <1>2, <2>2, <2>3, QuietStep
<1> QED BY <1>4, <1>5, Zenon DEF check_incremental

-----------------------------------------------------------------------------
(* The unit cache *)

LEMMA PartitionInv ==
  ASSUME Inv, NEW p \in Processes, Partition(p)
  PROVE  Inv'
<1> DEFINE new == [job[p] EXCEPT !.recompiled = Units(job[p].version) \ objects]
<1>1. UNCHANGED <<source, objects, bin, files, older, count, mixed>> /\ pc[p] = "compile"
      /\ Goto(p, "codegen") /\ job' = [job EXCEPT ![p] = new]
  BY DEF Partition
<1>2. lock' = [lock EXCEPT !["cache"] = p] /\ lock["cache"] = None
  BY DEF Partition, Acquire
<1>3. job[p] \in JobType /\ job[p].version \in Versions /\ Own(p)
      /\ lock \in [{"cache", "publish"} -> Processes \union {None}]
  BY <1>1 DEF Inv, TypeOK
<1>4. new \in JobType /\ new.version = job[p].version /\ new.debug = job[p].debug
      /\ new.recompiled = Units(job[p].version) \ objects
  BY <1>3, UnitsTyped DEF JobType
<1> HIDE DEF new
<1>5. Moved(p, "codegen", new)
  BY <1>1, <1>3, <1>4, JobMoves, Zenon DEF Places
<1>6. Clean' = Clean
  BY <1>1, SMTT(30) DEF Clean
<1>7. Own(p)'
  BY <1>1, <1>2, <1>3, <1>4, <1>5, <1>6 DEF Own, Inside, Moved
<1>8. /\ lock' \in [{"cache", "publish"} -> Processes \union {None}]
      /\ \A q \in Processes \ {p} : lock["cache"] = q => lock'["cache"] = q
  BY <1>2, <1>3, IncrementalAssumption
<1>9. ~Between(p)
  BY <1>1, SMTT(30) DEF Between
<1> QED BY <1>1, <1>5, <1>7, <1>8, <1>9, QuietStep

LEMMA CompileUnitInv ==
  ASSUME Inv, NEW p \in Processes, NEW u \in job[p].recompiled, CompileUnit(p, u)
  PROVE  Inv'
<1>1. UNCHANGED <<source, bin, files, older, lock, pc, job, count, mixed>>
      /\ objects' = objects \union {u}
  BY DEF CompileUnit
<1>2. Moved(p, pc[p], job[p])
  BY <1>1 DEF Moved, Inv, TypeOK
<1>3. Own(p)'
  <2>1. Own(p)
    BY DEF Inv
  <2> QED BY <1>1, <2>1, ZenonT(30) DEF Own, Inside, Clean
<1>4. lock' \in [{"cache", "publish"} -> Processes \union {None}]
  BY <1>1 DEF Inv, TypeOK
<1>5. Between(p) => Between(p)'
  BY <1>1 DEF Between
<1> QED BY <1>1, <1>2, <1>3, <1>4, <1>5, QuietStep

LEMMA CollectInv ==
  ASSUME Inv, NEW p \in Processes, collect_cache(p)
  PROVE  Inv'
<1>1. UNCHANGED <<source, bin, files, older, lock, job, count, mixed>> /\ pc[p] = "codegen"
      /\ Goto(p, "choose") /\ job[p].recompiled \subseteq objects
  BY DEF collect_cache
<1>2. PICK gone \in SUBSET (objects \ Units(job[p].version)) : objects' = objects \ gone
  BY DEF collect_cache
<1>3. Own(p) /\ Inside(p) /\ ~Between(p)
  BY <1>1 DEF Inv, Inside, Between
<1>4. Moved(p, "choose", job[p])
  BY <1>1, JobStays, Zenon DEF Places
<1>5. Units(job[p].version) \subseteq objects'
  BY <1>1, <1>2, <1>3 DEF Own
<1>6. Clean' = Clean
  BY <1>1, SMTT(30) DEF Clean
<1>7. Own(p)'
  BY <1>1, <1>3, <1>4, <1>5, <1>6, SMTT(30) DEF Own, Inside, Moved
<1>8. lock' \in [{"cache", "publish"} -> Processes \union {None}]
  BY <1>1 DEF Inv, TypeOK
<1> QED BY <1>1, <1>3, <1>4, <1>7, <1>8, QuietStep

-----------------------------------------------------------------------------
(* Reuse, patch or link *)

(* Without faults and debug builds the process that chooses finds layout   *)
(* and build state together.                                               *)
LEMMA ChooserFindsBoth ==
  ASSUME Inv, NEW p \in Processes, pc[p] = "choose", Clean, files["layout"] # None
  PROVE  files["layout"].exe = files["state"]
<1>1. ASSUME NEW q \in Processes, Between(q) PROVE FALSE
  <2>1. ~job[q].debug
    BY Zenon DEF Inv, Own
  <2>2. Inside(q) /\ Inside(p)
    BY <1>1, <2>1, Zenon DEF Inside, Between
  <2>3. q = p
    BY <2>2, OneInside
  <2> QED BY <1>1, <2>3 DEF Between
<1> QED BY <1>1 DEF Inv, Together

LEMMA ChooseInv ==
  ASSUME Inv, NEW p \in Processes, Choose(p)
  PROVE  Inv'
<1> DEFINE existing == files["state"]
           usable   == existing # None /\ existing \in bin
           reuse    == job[p].recompiled = {} /\ layout_matches_cgus(job[p].version) /\ usable
           patch    == job[p].recompiled # {} /\ files["layout"] # None /\ usable
           artifact == IF reuse \/ patch THEN existing ELSE None
           where    == IF reuse THEN "record" ELSE IF patch THEN "patch" ELSE "publish"
           new      == [job[p] EXCEPT !.artifact = artifact]
<1>1. UNCHANGED <<source, objects, bin, files, older, lock, count>> /\ pc[p] = "choose"
      /\ job' = [job EXCEPT ![p] = new] /\ Goto(p, where)
      /\ mixed' = (mixed \/ (reuse /\ files["layout"].exe # existing))
  BY DEF Choose
<1>2. job[p] \in JobType /\ job[p].version \in Versions /\ Own(p) /\ Inside(p) /\ ~Between(p)
      /\ lock \in [{"cache", "publish"} -> Processes \union {None}]
      /\ existing \in Exes \union {None}
  BY <1>1 DEF Inv, TypeOK, FilesOK, Inside, Between
<1>3. where \in Places /\ where \in {"record", "patch", "publish"}
      /\ (where = "record" => reuse /\ artifact = existing /\ artifact # None)
      /\ (where = "publish" => artifact = None)
  BY DEF Places
<1>4. artifact \in Exes \union {None}
  BY <1>2
<1>5. reuse => files["layout"] # None /\ files["layout"].cgu_hashes = job[p].version
  BY DEF layout_matches_cgus
<1> HIDE DEF artifact, where, reuse, patch
<1>6. new \in JobType /\ new.version = job[p].version /\ new.debug = job[p].debug
      /\ new.artifact = artifact
  BY <1>2, <1>4 DEF JobType
<1> HIDE DEF new
<1>7. Moved(p, where, new)
  BY <1>1, <1>2, <1>3, <1>6, JobMoves, Zenon
<1>8. Clean' = Clean
  BY <1>1 DEF Clean
<1>9. ~mixed' => ~(reuse /\ files["layout"].exe # existing)
  BY <1>1, Zenon
<1>10. reuse /\ files["layout"].exe = existing => existing.code = job[p].version
  <2>1. SUFFICES ASSUME reuse, files["layout"].exe = existing
                 PROVE  existing.code = job[p].version
    OBVIOUS
  <2>2. files["layout"].cgu_hashes = existing.code
    BY <1>5, <2>1 DEF Inv, Described, Describes
  <2> QED BY <1>5, <2>1, <2>2
<1>11. Own(p)'
  <2> HIDE DEF existing
  <2>1. where = "record" /\ ~mixed' => new.artifact.code = new.version
    BY <1>3, <1>6, <1>9, <1>10
  <2> QED BY <1>1, <1>2, <1>3, <1>6, <1>7, <1>8, <2>1, ZenonT(30) DEF Own, Inside, Moved
<1>12. CASE reuse /\ files["layout"].exe # existing
  <2>1. ~Clean /\ mixed'
    BY <1>1, <1>5, <1>12, ChooserFindsBoth, Zenon
  <2>2. TypeOK'
    BY <1>1, <1>7, <2>1, Zenon DEF Inv, TypeOK, FilesOK, OlderOK, Moved
  <2>3. OthersStay(p)
    BY <1>1, <1>7 DEF OthersStay, Moved
  <2>4. \A q \in Processes : Own(q)'
    BY <1>1, <1>8, <1>11, <2>1, <2>3, OthersKeep, SMTT(30)
  <2>5. Described' /\ Recorded' /\ Together'
    BY <1>1, <1>8, <2>1, SMTT(30) DEF Inv, Described, Recorded, Together
  <2> QED BY <2>2, <2>4, <2>5 DEF Inv
<1>13. CASE ~(reuse /\ files["layout"].exe # existing)
  <2>1. mixed' = mixed
    BY <1>1, <1>13 DEF Inv, TypeOK
  <2> QED BY <1>1, <1>2, <1>7, <1>11, <2>1, QuietStep, SMTT(30)
<1> QED BY <1>12, <1>13

LEMMA PatchFailsInv ==
  ASSUME Inv, NEW p \in Processes, PatchFails(p)
  PROVE  Inv'
<1> DEFINE new == [job[p] EXCEPT !.artifact = None]
<1>1. UNCHANGED <<source, objects, bin, files, older, lock, count, mixed>> /\ pc[p] = "patch"
      /\ job' = [job EXCEPT ![p] = new] /\ Goto(p, "publish")
  BY DEF PatchFails
<1>2. job[p] \in JobType /\ job[p].version \in Versions /\ Own(p) /\ ~Between(p)
      /\ lock \in [{"cache", "publish"} -> Processes \union {None}]
  BY <1>1 DEF Inv, TypeOK, Between
<1>3. new \in JobType /\ new.version = job[p].version /\ new.debug = job[p].debug
      /\ new.artifact = None
  BY <1>2 DEF JobType
<1> HIDE DEF new
<1>4. Moved(p, "publish", new)
  BY <1>1, <1>2, <1>3, JobMoves, Zenon DEF Places
<1>5. Clean' = Clean
  BY <1>1, SMTT(30) DEF Clean
<1>6. Own(p)'
  BY <1>1, <1>2, <1>3, <1>4, <1>5, ZenonT(30) DEF Own, Inside, Moved
<1> QED BY <1>1, <1>2, <1>4, <1>6, QuietStep

(* A step of p that replaces one derived file, layout or build state only   *)
(* from inside or after a fault or debug build.                            *)
LEMMA ReplacingStep ==
  ASSUME Inv, UNCHANGED <<source, objects, count, mixed>>,
         NEW p \in Processes, NEW where, NEW new, Moved(p, where, new),
         lock' \in [{"cache", "publish"} -> Processes \union {None}],
         \A q \in Processes \ {p} : lock["cache"] = q => lock'["cache"] = q,
         NEW f \in Files, NEW value, replace_derived(f, value),
         f = "state" => value \in Exes,
         f = "layout" => value \in Layouts /\ Describes(value),
         f = "session" => value \in Sessions /\ (~mixed => Names(value)),
         Clean /\ f # "session" => Inside(p),
         Own(p)',
         Clean /\ f = "session" => ~Between(p),
         Clean /\ f # "session" => Between(p)' \/ files'["layout"].exe = files'["state"]
  PROVE  Inv'
<1>1. FilesOK(files) /\ OlderOK(older) /\ Files = {"state", "layout", "session"}
  BY DEF Inv, TypeOK, Files
<1>2. /\ files' = [files EXCEPT ![f] = value] /\ older' = [older EXCEPT ![f] = @ \union {files[f]}]
      /\ \A g \in Files : files'[g] = IF g = f THEN value ELSE files[g]
      /\ \A g \in Files : older'[g] = IF g = f THEN older[g] \union {files[g]} ELSE older[g]
  BY <1>1, ZenonT(30) DEF replace_derived, FilesOK, OlderOK
<1>3. FilesOK(files)' /\ OlderOK(older)'
  BY <1>1, ReplacedOK, SMTT(30)
<1>4. TypeOK'
  BY <1>3 DEF Inv, TypeOK, Moved
<1>5. Clean' = Clean
  BY DEF Clean
<1>6. \A q \in Processes : Own(q)'
  <2>1. OthersStay(p)
    BY DEF OthersStay, Moved
  <2>2. f = "session" => files'["state"] = files["state"] /\ files'["layout"] = files["layout"]
    BY <1>1, <1>2
  <2> QED BY <1>1, <1>5, <2>1, <2>2, OthersKeep, ZenonT(30)
<1>7. Described'
  BY <1>1, <1>2 DEF Inv, Described
<1>8. Recorded'
  BY <1>1, <1>2, SMTT(30) DEF Inv, Recorded
<1>9. Together'
  <2>1. \A q \in Processes : q # p /\ Between(q) => Between(q)'
    BY SMTT(30) DEF Between, Moved
  <2>2. CASE f = "session"
    <3>1. files'["state"] = files["state"] /\ files'["layout"] = files["layout"]
      BY <1>1, <1>2, <2>2, SMTT(30)
    <3> QED BY <1>5, <2>1, <2>2, <3>1 DEF Inv, Together
  <2>3. CASE f # "session"
    BY <1>5, <2>3, SMTT(30) DEF Inv, Together
  <2> QED BY <2>2, <2>3, SMTT(30)
<1> QED BY <1>4, <1>6, <1>7, <1>8, <1>9, Zenon DEF Inv

LEMMA PatchInv ==
  ASSUME Inv, NEW p \in Processes, Patch(p)
  PROVE  Inv'
<1> DEFINE exe    == Exe(job[p].version, FALSE)
           layout == [cgu_hashes |-> job[p].version, exe |-> exe]
           new    == [job[p] EXCEPT !.artifact = exe]
<1>1. /\ Patched(p, job[p].artifact.code) = job[p].version
      /\ Patched(p, files["layout"].cgu_hashes) = job[p].version
  BY PatchedIsVersion DEF Patch, Inv
<1>2. UNCHANGED <<source, objects, bin, lock, count, mixed>> /\ pc[p] = "patch"
      /\ replace_derived("layout", layout)
      /\ job' = [job EXCEPT ![p] = new] /\ Goto(p, "publish")
  BY <1>1 DEF Patch
<1>3. job[p] \in JobType /\ job[p].version \in Versions /\ Own(p) /\ Inside(p)
      /\ lock \in [{"cache", "publish"} -> Processes \union {None}]
  BY <1>2 DEF Inv, TypeOK, Inside
<1>4. exe \in Exes /\ exe.code = job[p].version /\ exe # None
  BY <1>3, ExeTyped, Zenon
<1>5. layout \in Layouts /\ layout.exe = exe /\ Describes(layout)
  BY <1>3, <1>4, Zenon DEF Layouts, Describes
<1>6. new \in JobType /\ new.version = job[p].version /\ new.debug = job[p].debug
      /\ new.artifact = exe
  BY <1>3, <1>4, ZenonT(30) DEF JobType
<1>7. files'["layout"] = layout
  BY <1>2 DEF replace_derived, Inv, TypeOK, FilesOK, Files
<1> HIDE DEF new, layout
<1>8. Moved(p, "publish", new)
  BY <1>2, <1>3, <1>6, JobMoves, Zenon DEF Places
<1>9. Clean' = Clean
  BY <1>2 DEF Clean
<1>10. Own(p)'
  BY <1>2, <1>3, <1>5, <1>6, <1>7, <1>8, <1>9, ZenonT(30) DEF Own, Inside, Moved
<1>11. Between(p)'
  BY <1>4, <1>6, <1>8, Zenon DEF Between, Moved
<1> QED BY <1>2, <1>3, <1>5, <1>8, <1>10, <1>11, ReplacingStep DEF Files

-----------------------------------------------------------------------------
(* Publication and records *)

LEMMA PublishExeInv ==
  ASSUME Inv, NEW p \in Processes, PublishExe(p)
  PROVE  Inv'
<1> DEFINE linked == Exe(job[p].version, job[p].debug)
           exe    == IF job[p].artifact = None THEN linked ELSE job[p].artifact
           where  == IF job[p].artifact = None /\ ~job[p].debug THEN "link state" ELSE "state"
           new    == [job[p] EXCEPT !.artifact = exe]
<1>1. UNCHANGED <<source, objects, files, older, count, mixed>> /\ pc[p] = "publish"
      /\ job' = [job EXCEPT ![p] = new] /\ Goto(p, where)
      /\ lock' = [lock EXCEPT !["publish"] = p]
  BY Zenon DEF PublishExe, Acquire
<1>2. job[p] \in JobType /\ job[p].version \in Versions /\ Own(p) /\ job[p].debug \in BOOLEAN
      /\ lock \in [{"cache", "publish"} -> Processes \union {None}]
  BY <1>1, Zenon DEF Inv, TypeOK, JobType
<1>3. linked \in Exes /\ linked # None
  BY <1>2, ExeTyped
<1>4. exe = linked /\ (job[p].artifact # None => exe = job[p].artifact /\ ~job[p].debug)
  <2>1. CASE job[p].artifact = None
    BY <2>1
  <2>2. CASE job[p].artifact # None
    BY <1>1, <1>2, <2>2, Zenon DEF Own
  <2> QED BY <2>1, <2>2
<1>5. where \in {"link state", "state"} /\ where \in Places
      /\ (where = "link state" => ~job[p].debug)
      /\ (job[p].artifact # None => where = "state")
      /\ (where = "state" /\ ~job[p].debug => job[p].artifact # None)
  BY DEF Places
<1> HIDE DEF exe, where, linked
<1>6. new \in JobType /\ new.version = job[p].version /\ new.debug = job[p].debug
      /\ new.artifact = linked
  BY <1>2, <1>3, <1>4 DEF JobType
<1> HIDE DEF new
<1>7. Moved(p, where, new)
  BY <1>1, <1>2, <1>5, <1>6, JobMoves, Zenon
<1>8. Clean' = Clean
  BY <1>1 DEF Clean
<1>9. lock' \in [{"cache", "publish"} -> Processes \union {None}] /\ lock'["cache"] = lock["cache"]
  BY <1>1, <1>2
<1>10. Own(p)'
  <2>1. new.artifact = Exe(new.version, new.debug)
    BY <1>6 DEF linked
  <2>2. Inside(p)' => lock'["cache"] = p
    BY <1>1, <1>2, <1>5, <1>6, <1>7, <1>9, ZenonT(32) DEF Own, Inside, Moved
  <2>3. Clean /\ where = "state" => files["layout"].exe = new.artifact
    BY <1>1, <1>2, <1>4, <1>5, <1>6 DEF Own
  <2> QED BY <1>1, <1>2, <1>5, <1>6, <1>7, <1>8, <2>1, <2>2, <2>3, ZenonT(30) DEF Own, Moved
<1>11. Between(p) => Between(p)'
  BY <1>1, <1>3, <1>5, <1>6, <1>7, ZenonT(30) DEF Between, Moved
<1> QED BY <1>1, <1>7, <1>9, <1>10, <1>11, QuietStep

LEMMA WriteStateInv ==
  ASSUME Inv, NEW p \in Processes, WriteState(p)
  PROVE  Inv'
<1> DEFINE exe   == job[p].artifact
           where == IF pc[p] = "link state" THEN "layout" ELSE "record"
<1>1. UNCHANGED <<source, objects, bin, job, count, mixed>> /\ pc[p] \in {"state", "link state"}
      /\ Goto(p, where) /\ lock' = [lock EXCEPT !["publish"] = None]
      /\ replace_derived("state", exe)
  BY Zenon DEF WriteState
<1>2. job[p] \in JobType /\ job[p].version \in Versions /\ Own(p) /\ job[p].debug \in BOOLEAN
      /\ lock \in [{"cache", "publish"} -> Processes \union {None}]
  BY <1>1, ZenonT(30) DEF Inv, TypeOK, JobType
<1>3. exe = Exe(job[p].version, job[p].debug)
  BY <1>1, <1>2, Zenon DEF Own
<1>4. exe \in Exes /\ exe.code = job[p].version /\ exe # None
  BY <1>2, <1>3, ExeTyped, SMTT(30)
<1>5. where \in Places /\ (where = "layout" <=> pc[p] = "link state")
      /\ (where = "record" <=> pc[p] = "state") /\ where \in {"layout", "record"}
  BY <1>1, Zenon DEF Places
<1>6. files'["state"] = exe /\ files'["layout"] = files["layout"]
  BY <1>1, ZenonT(30) DEF replace_derived, Inv, TypeOK, FilesOK, Files
<1> HIDE DEF where
<1>7. Moved(p, where, job[p])
  BY <1>1, <1>5, JobStays, ZenonT(30)
<1>8. Clean' = Clean
  BY <1>1, Zenon DEF Clean
<1>9. lock' \in [{"cache", "publish"} -> Processes \union {None}] /\ lock'["cache"] = lock["cache"]
  BY <1>1, <1>2, ZenonT(30)
<1>10. Own(p)'
  <2>1. Inside(p)' => lock'["cache"] = p
    BY <1>1, <1>2, <1>5, <1>7, <1>9, ZenonT(31) DEF Own, Inside, Moved
  <2> QED BY <1>1, <1>2, <1>3, <1>4, <1>5, <1>6, <1>7, <1>8, <2>1, ZenonT(32) DEF Own, Moved
<1>11. Clean => Inside(p)
  BY <1>1, <1>2, Zenon DEF Own, Inside
<1>12. Clean => Between(p)' \/ files'["layout"].exe = files'["state"]
  <2>1. CASE where = "layout"
    BY <1>7, <2>1 DEF Between, Moved
  <2>2. CASE where = "record"
    BY <1>2, <1>4, <1>5, <1>6, <2>2, ZenonT(31) DEF Own
  <2> QED BY <1>5, <2>1, <2>2, Zenon
<1> QED BY <1>1, <1>4, <1>7, <1>9, <1>10, <1>11, <1>12, ReplacingStep, ZenonT(30) DEF Files

LEMMA RecordLayoutInv ==
  ASSUME Inv, NEW p \in Processes, record_elf_layout(p)
  PROVE  Inv'
<1> DEFINE exe    == job[p].artifact
           layout == [cgu_hashes |-> job[p].version, exe |-> exe]
<1>1. UNCHANGED <<source, objects, bin, lock, job, count, mixed>> /\ pc[p] = "layout"
      /\ Goto(p, "record") /\ replace_derived("layout", layout)
  BY DEF record_elf_layout
<1>2. job[p] \in JobType /\ job[p].version \in Versions /\ Own(p) /\ job[p].debug \in BOOLEAN
      /\ lock \in [{"cache", "publish"} -> Processes \union {None}] /\ Inside(p)
  BY <1>1 DEF Inv, TypeOK, JobType, Inside
<1>3. exe = Exe(job[p].version, job[p].debug)
  BY <1>1, <1>2, ZenonT(30) DEF Own
<1>4. exe \in Exes /\ exe.code = job[p].version /\ exe # None
  BY <1>2, <1>3, ExeTyped, SMTT(30)
<1>5. layout \in Layouts /\ layout.exe = exe /\ Describes(layout)
  BY <1>2, <1>4 DEF Layouts, Describes
<1>6. files'["state"] = files["state"] /\ files'["layout"] = layout
  BY <1>1, ZenonT(30) DEF replace_derived, Inv, TypeOK, FilesOK, Files
<1> HIDE DEF layout
<1>7. Moved(p, "record", job[p])
  BY <1>1, JobStays, Zenon DEF Places
<1>8. Clean' = Clean
  BY <1>1, SMTT(30) DEF Clean
<1>9. Own(p)'
  BY <1>1, <1>2, <1>4, <1>7, <1>8, ZenonT(30) DEF Own, Inside, Moved
<1>10. Clean => files'["layout"].exe = files'["state"]
  BY <1>1, <1>2, <1>5, <1>6, Zenon DEF Own
<1> QED BY <1>1, <1>2, <1>5, <1>7, <1>9, <1>10, ReplacingStep, ZenonT(30) DEF Files

(* The locks of p are released, and nobody else's. *)
LEMMA ReleasedLocks ==
  ASSUME Inv, NEW p \in Processes, lock' = Released(p)
  PROVE  /\ lock' \in [{"cache", "publish"} -> Processes \union {None}]
         /\ \A q \in Processes \ {p} : lock["cache"] = q => lock'["cache"] = q
BY Zenon DEF Inv, TypeOK, Released

LEMMA RecordSessionInv ==
  ASSUME Inv, NEW p \in Processes, record_session(p)
  PROVE  Inv'
<1> DEFINE session == [version |-> job[p].version, debug |-> job[p].debug,
                       artifact |-> job[p].artifact]
<1>1. UNCHANGED <<source, objects, bin, job, count, mixed>> /\ pc[p] = "record"
      /\ Goto(p, "built") /\ replace_derived("session", session) /\ lock' = Released(p)
  BY DEF record_session
<1>2. job[p] \in JobType /\ job[p].version \in Versions /\ Own(p) /\ ~Between(p)
  BY <1>1 DEF Inv, TypeOK, Between
<1>3. job[p].artifact \in Exes /\ job[p].debug \in BOOLEAN
  BY <1>1, <1>2, ZenonT(30) DEF Own, JobType
<1>4. session \in Sessions /\ (~mixed => Names(session))
  BY <1>1, <1>2, <1>3, ZenonT(30) DEF Sessions, Own, Names
<1> HIDE DEF session
<1>5. Moved(p, "built", job[p])
  BY <1>1, JobStays, Zenon DEF Places
<1>6. Clean' = Clean
  BY <1>1, SMTT(30) DEF Clean
<1>7. Own(p)'
  BY <1>1, <1>2, <1>5, <1>6, Zenon DEF Own, Inside, Moved
<1> QED BY <1>1, <1>2, <1>4, <1>5, <1>7, ReleasedLocks, ReplacingStep, ZenonT(30) DEF Files

LEMMA ReportInv ==
  ASSUME Inv, NEW p \in Processes, Report(p)
  PROVE  Inv'
<1>1. UNCHANGED <<source, objects, bin, files, older, lock, count, mixed>> /\ pc[p] = "built"
      /\ Goto(p, "idle") /\ job' = [job EXCEPT ![p] = NoJob]
  BY DEF Report
<1>2. NoJob \in JobType /\ NoJob.debug = FALSE
  BY DEF NoJob, JobType
<1>3. Moved(p, "idle", NoJob)
  BY <1>1, <1>2, JobMoves, ZenonT(30) DEF Places
<1>4. Own(p)'
  BY <1>2, <1>3, ZenonT(30) DEF Own, Inside, Moved
<1>5. ~Between(p) /\ lock' \in [{"cache", "publish"} -> Processes \union {None}]
  BY <1>1 DEF Between, Inv, TypeOK
<1> QED BY <1>1, <1>3, <1>4, <1>5, QuietStep

-----------------------------------------------------------------------------
(* Faults *)

LEMMA FaultCounted ==
  ASSUME Inv, Counted("faults", MaxFaults)
  PROVE  count' \in [builds : Nat, debugs : Nat, edits : Nat, faults : Nat] /\ ~Clean'
<1>1. count \in [builds : Nat, debugs : Nat, edits : Nat, faults : Nat]
  BY DEF Inv, TypeOK
<1>2. PICK k \in Nat : k = count.faults + 1 /\ k # 0
  BY <1>1
<1>3. count' = [count EXCEPT !.faults = k]
  BY <1>2, ZenonT(30) DEF Counted
<1> QED BY <1>1, <1>2, <1>3 DEF Clean

LEMMA CrashInv ==
  ASSUME Inv, NEW p \in Processes, Crash(p)
  PROVE  Inv'
<1>1. UNCHANGED <<source, objects, bin, files, older, mixed>> /\ lock' = Released(p)
      /\ Goto(p, "idle") /\ job' = [job EXCEPT ![p] = NoJob] /\ Counted("faults", MaxFaults)
  BY DEF Crash
<1>2. NoJob \in JobType /\ NoJob.debug = FALSE
  BY DEF NoJob, JobType
<1>3. Moved(p, "idle", NoJob)
  BY <1>1, <1>2, JobMoves, Zenon DEF Places
<1>4. count' \in [builds : Nat, debugs : Nat, edits : Nat, faults : Nat] /\ ~Clean'
  BY <1>1, FaultCounted, SMTT(30)
<1>5. TypeOK'
  BY <1>1, <1>3, <1>4, ReleasedLocks, ZenonT(30) DEF Inv, TypeOK, FilesOK, OlderOK, Moved
<1>6. Own(p)'
  BY <1>2, <1>3, ZenonT(30) DEF Own, Inside, Moved
<1>7. OthersStay(p)
  BY <1>1, <1>3, ReleasedLocks DEF OthersStay, Moved
<1>8. \A q \in Processes : Own(q)'
  BY <1>1, <1>4, <1>6, <1>7, OthersKeep, SMTT(30)
<1>9. Described' /\ Recorded' /\ Together'
  BY <1>1, <1>4 DEF Inv, Described, Recorded, Together
<1> QED BY <1>5, <1>8, <1>9 DEF Inv

LEMMA PowerLossInv ==
  ASSUME Inv, PowerLoss
  PROVE  Inv'
<1>1. PICK s \in Kept("state"), l \in Kept("layout"), r \in Kept("session") :
        files' = [state |-> s, layout |-> l, session |-> r]
  BY DEF PowerLoss
<1>2. /\ older' = [f \in Files |-> {}] /\ UNCHANGED <<source, mixed>>
      /\ pc' = [p \in Processes |-> "idle"] /\ job' = [p \in Processes |-> NoJob]
      /\ lock' = [k \in DOMAIN lock |-> None] /\ Counted("faults", MaxFaults)
  BY DEF PowerLoss
<1>3. files'["state"] = s /\ files'["layout"] = l /\ files'["session"] = r
  BY <1>1
<1>4. s \in Exes \union {None} /\ l \in Layouts \union {None} /\ r \in Sessions \union {None}
  BY SMTT(30) DEF Kept, Inv, TypeOK, FilesOK, OlderOK
<1>5. files' = [f \in Files |-> files'[f]]
  BY <1>1 DEF Files
<1>6. FilesOK(files)' /\ OlderOK(older)'
  BY <1>2, <1>3, <1>4, <1>5 DEF FilesOK, OlderOK, Files
<1>7. count' \in [builds : Nat, debugs : Nat, edits : Nat, faults : Nat] /\ ~Clean'
  BY <1>2, FaultCounted
<1>8. NoJob \in JobType /\ NoJob.debug = FALSE
  BY DEF NoJob, JobType
<1>9. TypeOK'
  BY <1>2, <1>6, <1>7, <1>8, ZenonT(30) DEF Inv, TypeOK, Places
<1>10. \A p \in Processes : Own(p)'
  BY <1>2, <1>7 DEF Own, Inside
<1>11. Described'
  BY <1>2, <1>3 DEF Kept, Inv, Described, Describes, Files
<1>12. Recorded'
  BY <1>2, <1>3 DEF Kept, Inv, Recorded, Names, Files
<1> QED BY <1>7, <1>9, <1>10, <1>11, <1>12, SMTT(30) DEF Inv, Together

-----------------------------------------------------------------------------
(* The theorems *)

LEMMA StepInv ==
  ASSUME Inv, [Next]_vars
  PROVE  Inv'
<1>1. CASE UNCHANGED vars
  <2>1. UNCHANGED <<source, objects, files, older, lock, pc, job, count, mixed>>
    BY <1>1, SMTT(30) DEF vars
  <2>2. TypeOK' /\ Described' /\ Recorded' /\ Together'
    BY <2>1, Zenon DEF Inv, TypeOK, FilesOK, OlderOK, Described, Recorded, Together, Clean, Between
  <2>3. \A p \in Processes : Own(p)'
    BY <2>1, ZenonT(30) DEF Inv, Own, Inside, Clean
  <2> QED BY <2>2, <2>3 DEF Inv
<1>2. ASSUME NEW v \in Versions, Edit(v) PROVE Inv'
  BY <1>2, EditInv
<1>3. ASSUME NEW p \in Processes, NEW debug \in BOOLEAN, Begin(p, debug) PROVE Inv'
  BY <1>3, BeginInv, SMTT(30)
<1>4. ASSUME NEW p \in Processes, BuildStep(p) PROVE Inv'
  BY <1>4, CheckInv, PartitionInv, CompileUnitInv, CollectInv, ChooseInv, PatchInv,
     PatchFailsInv, PublishExeInv, WriteStateInv, RecordLayoutInv, RecordSessionInv, ReportInv,
     ZenonT(30)
     DEF BuildStep
<1>5. ASSUME NEW p \in Processes, Crash(p) PROVE Inv'
  BY <1>5, CrashInv
<1>6. CASE PowerLoss
  BY <1>6, PowerLossInv
<1> QED BY <1>1, <1>2, <1>3, <1>4, <1>5, <1>6 DEF Next

LEMMA AlwaysInv == Spec => []Inv
BY InitInv, StepInv, PTL DEF Spec

(* "a crash may cost a rebuild, never a wrong result" (atomic.rs): for any  *)
(* processes, versions and number of faults, what a build reports is what  *)
(* its sources compile to, unless an executable was reused that the layout *)
(* does not describe; and without faults and debug builds none is.         *)
THEOREM RightResults == Spec => []RightUnlessMixed
<1>1. Inv => RightUnlessMixed
  <2>1. SUFFICES ASSUME Inv PROVE RightUnlessMixed
    BY ZenonT(30)
  <2>2. ~mixed => NeverWrong
    BY <2>1, ZenonT(30) DEF Inv, Own, NeverWrong, Right
  <2>3. mixed => ~Clean
    BY <2>1 DEF Inv, Together
  <2>4. ~Clean => count.faults > 0 \/ count.debugs > 0
    BY <2>1, SMTT(30) DEF Clean, Inv, TypeOK
  <2> QED BY <2>2, <2>3, <2>4 DEF RightUnlessMixed
<1> QED BY <1>1, AlwaysInv, PTL

(* The CGU cache is "held until linking/publication completes" (cgu.rs):    *)
(* no process collects an object that another has looked up and is about   *)
(* to link.                                                                *)
THEOREM ObjectsStay == Spec => []ObjectsHeld
<1>1. Inv => ObjectsHeld
  BY Zenon DEF Inv, Own, ObjectsHeld
<1> QED BY <1>1, AlwaysInv, PTL
=============================================================================
