------------------------- MODULE ModuleBuildProofs -------------------------
(***************************************************************************)
(* Builds of one directory, for any number of them and of sources: what a  *)
(* build embeds is its own, and the developer's manifest stays.            *)
(***************************************************************************)
EXTENDS ModuleBuild, TLAPS

Running(b) == pc[b] # "idle"

\* Two builds of one artifact that run at a time both know of it.
Overlap ==
    \A b, c \in Builds :
        b # c /\ Running(b) /\ Running(c) /\ lang[b] = lang[c] => overlapped[b]

\* Code of the source a build was asked for, no older than the build.
Wanted(b, x) ==
    /\ x \in Code
    /\ x.file = EntryFor(lang[b], entry[b])
    /\ x.version >= began[b]

\* Where the code of a build is at each stage, if nobody else writes there.
InHand(b) == pc[b] \in {"compiling", "writing", "emitting"} => Wanted(b, code[b])

InArtifact(b) ==
    pc[b] \in {"compiled", "wamrc", "emitting", "read"} =>
        Wanted(b, artifact[lang[b]])

InMachine(b) == pc[b] = "readMachine" => Wanted(b, machine[lang[b]])

Elsewhere(b) == pc[b] = "elsewhere" => foreign[b]

Began(b) == began[b] <= Version(EntryFor(lang[b], entry[b]))

Kept(b) == overlapped[b] \/ foreign[b] \/ (InHand(b) /\ InArtifact(b) /\ InMachine(b))

Mine(b) == Running(b) => Began(b) /\ Elsewhere(b) /\ Kept(b)

\* A build that runs is of a language with a driver, and one that is about to
\* write a manifest has found the source to name in it.
Placed ==
    \A b \in Builds :
        /\ Running(b) => lang[b] \in Buildable
        /\ pc[b] = "manifest" => LibEntry(entry[b]) # NoFile

TInv == TypeOK /\ Placed

BInv == TInv /\ Overlap /\ \A b \in Builds : Mine(b)

\* What the developer wrote is there, and no build is about to replace it.
AInv ==
    /\ AuthoredIsKept
    /\ authored = "kept" =>
           manifest # Absent /\ \A b \in Builds : pc[b] # "manifest"

----------------------------------------------------------------------------
(* Types.                                                                  *)

LEMMA EntryType ==
    ASSUME NEW l \in Buildable, NEW f \in Files \cup {NoFile}
    PROVE  EntryFor(l, f) \in Files \cup {NoFile}
<1>1. CASE l = "zig"
  BY <1>1, FilesAssumption DEF EntryFor
<1>2. CASE l = "rust"
  <2>1. ASSUME \E g \in Files : Sources("rust") = {g}
        PROVE  (CHOOSE g \in Files : Sources("rust") = {g}) \in Files
    BY <2>1
  <2>2. LibEntry(f) \in Files \cup {NoFile}
    BY <2>1, FilesAssumption DEF LibEntry
  <2> QED
    BY <1>2, <2>2 DEF EntryFor
<1> QED
  BY <1>1, <1>2 DEF Buildable

LEMMA VersionType ==
    ASSUME version \in [Files -> 0 .. MaxEdits], NEW f \in Files \cup {NoFile}
    PROVE  Version(f) \in 0 .. MaxEdits
  BY EditsAssumption DEF Version

LEMMA TypeInit == Init => TypeOK
  BY EditsAssumption, FilesAssumption
  DEF Init, TypeOK, Content, Buildable, Free

LEMMA TypeBegins ==
    ASSUME TypeOK, NEW b \in Builds, NEW l \in Buildable,
           NEW f \in Files \cup {NoFile}, Begins(b, l, f)
    PROVE  TypeOK'
<1>1. Version(EntryFor(l, f)) \in 0 .. MaxEdits
  BY EntryType, VersionType DEF TypeOK
<1>2. overlapped' \in [Builds -> BOOLEAN]
  BY DEF TypeOK, Begins
<1>3. began' \in [Builds -> 0 .. MaxEdits]
  BY <1>1 DEF TypeOK, Begins
<1>4. pc' = [pc EXCEPT ![b] = "inspect"]
  BY DEF Begins
<1>5. lang' \in [Builds -> Buildable \cup {"none"}]
  BY DEF TypeOK, Begins
<1>6. foreign' \in [Builds -> BOOLEAN]
  BY DEF TypeOK, Begins
<1> QED
  BY <1>2, <1>3, <1>4, <1>5, <1>6
  DEF TypeOK, Begins, Content, env, disk

LEMMA TypeGoes ==
    ASSUME TypeOK, NEW b \in Builds, NEW p,
           p \in {"idle", "inspect", "reinspect", "fix", "crate",
                  "manifest", "compile", "compiling", "writing", "elsewhere",
                  "compiled", "wamrc", "emitting", "read", "readMachine"},
           Goes(b, p)
    PROVE  /\ pc' \in [Builds -> {"idle", "inspect", "reinspect", "fix",
                 "crate", "manifest", "compile", "compiling", "writing",
                 "elsewhere", "compiled", "wamrc", "emitting", "read",
                 "readMachine"}]
           /\ lang' \in [Builds -> Buildable \cup {"none"}]
           /\ began' \in [Builds -> 0 .. MaxEdits]
           /\ foreign' \in [Builds -> BOOLEAN]
           /\ overlapped' \in [Builds -> BOOLEAN]
           /\ entry' \in [Builds -> Files \cup {NoFile}]
  BY DEF TypeOK, Goes, job

LEMMA TypeExits ==
    ASSUME TypeOK, NEW b \in Builds, Exits(b)
    PROVE  /\ pc' \in [Builds -> {"idle", "inspect", "reinspect", "fix",
                 "crate", "manifest", "compile", "compiling", "writing",
                 "elsewhere", "compiled", "wamrc", "emitting", "read",
                 "readMachine"}]
           /\ lang' \in [Builds -> Buildable \cup {"none"}]
           /\ began' \in [Builds -> 0 .. MaxEdits]
           /\ foreign' \in [Builds -> BOOLEAN]
           /\ overlapped' \in [Builds -> BOOLEAN]
           /\ entry' \in [Builds -> Files \cup {NoFile}]
  BY EditsAssumption DEF TypeOK, Exits

LEMMA TypeStep ==
    ASSUME TInv, NEW b \in Builds, Step(b)
    PROVE  TypeOK'
<1> USE DEF TInv
<1>0. lang[b] \in Buildable
  BY DEF Placed, Running, Step, Inspect, ApplyFixes, CheckCrate,
         WriteManifest, Compile, OpenOutput, CloseOutput, CompileFails,
         Located, OpenMachine, CloseMachine, MachineFails, Embed
<1>1. CASE Inspect(b)
  BY <1>1, TypeGoes, TypeExits DEF TypeOK, Inspect, Content, env, disk
<1>2. CASE ApplyFixes(b)
  <2>1. tools' \in [Buildable -> {"ready", "fixable", "missing"}]
    BY <1>2 DEF TypeOK, ApplyFixes
  <2> QED
    BY <1>2, <2>1, TypeGoes DEF TypeOK, ApplyFixes, Content, env
<1>3. CASE CheckCrate(b)
  BY <1>3, TypeGoes, TypeExits DEF TypeOK, CheckCrate, Content, env, disk
<1>4. CASE WriteManifest(b)
  <2>1. LibEntry(entry[b]) \in Files
    <3>1. LibEntry(entry[b]) # NoFile
      BY <1>4 DEF WriteManifest, Placed
    <3>2. entry[b] \in Files \cup {NoFile}
      BY DEF TypeOK
    <3>3. EntryFor("rust", entry[b]) \in Files \cup {NoFile}
      BY <3>2, EntryType DEF Buildable
    <3> QED
      BY <3>1, <3>3 DEF EntryFor
  <2>2. manifest' \in Manifest
    BY <1>4, <2>1 DEF WriteManifest, Manifest
  <2> QED
    BY <1>4, <2>2, TypeGoes DEF TypeOK, WriteManifest, Content, env
<1>5. CASE Compile(b)
  <2> DEFINE f == IF lang[b] = "rust" THEN manifest.path
                  ELSE EntryFor(lang[b], entry[b])
  <2>1. f \in Files /\ version[f] \in 0 .. MaxEdits
    BY <1>5 DEF Compile, Sources, TypeOK
  <2>2. [file |-> f, version |-> version[f]] \in Code
    BY <2>1 DEF Code
  <2>3. code' = [code EXCEPT ![b] = [file |-> f, version |-> version[f]]]
    BY <1>5 DEF Compile
  <2> HIDE DEF f
  <2>4. code' \in [Builds -> Code \cup {Absent}]
    BY <2>2, <2>3 DEF TypeOK
  <2>5. /\ pc' \in [Builds -> {"idle", "inspect", "reinspect", "fix",
              "crate", "manifest", "compile", "compiling", "writing",
              "elsewhere", "compiled", "wamrc", "emitting", "read",
              "readMachine"}]
        /\ lock' \in Builds \cup {Free}
        /\ foreign' \in [Builds -> BOOLEAN]
    BY <1>5 DEF TypeOK, Compile
  <2> QED
    BY <1>5, <2>4, <2>5 DEF TypeOK, Compile, Content, env
<1>6. CASE OpenOutput(b)
  BY <1>6, TypeGoes DEF TypeOK, OpenOutput, Content, env
<1>7. CASE CloseOutput(b)
  BY <1>7, TypeGoes DEF TypeOK, CloseOutput, Content, Unlocked, env
<1>8. CASE CompileFails(b)
  BY <1>8, TypeExits
  DEF TypeOK, CompileFails, OnFailure, Content, Unlocked, env
<1>9. CASE Located(b)
  BY <1>9, TypeGoes, TypeExits DEF TypeOK, Located, Content, env, disk
<1>10. CASE OpenMachine(b)
  BY <1>10, TypeGoes DEF TypeOK, OpenMachine, Content, env
<1>11. CASE CloseMachine(b)
  BY <1>11, TypeGoes DEF TypeOK, CloseMachine, Content, env
<1>12. CASE MachineFails(b)
  BY <1>12, TypeGoes DEF TypeOK, MachineFails, OnNoMachine, Content, env, disk
<1>13. CASE Embed(b)
  BY <1>0, <1>13, TypeExits DEF TypeOK, Embed, Content, env, disk
<1> QED
  BY <1>1, <1>2, <1>3, <1>4, <1>5, <1>6, <1>7, <1>8, <1>9, <1>10, <1>11,
     <1>12, <1>13 DEF Step

\* The sources and their languages do not change: neither does what a driver
\* makes of an entry.
LEMMA EntrySame ==
    ASSUME language' = language, NEW l, NEW f
    PROVE  LibEntry(f)' = LibEntry(f) /\ EntryFor(l, f)' = EntryFor(l, f)
  BY DEF EntryFor, LibEntry, Sources

LEMMA PlacedStep ==
    ASSUME TInv, NEW b \in Builds, Step(b)
    PROVE  Placed'
<1>1. language' = language
  BY DEF Step, Inspect, ApplyFixes, CheckCrate, WriteManifest, Compile,
         OpenOutput, CloseOutput, CompileFails, Located, OpenMachine,
         CloseMachine, MachineFails, Embed, env, disk
<1>2. \A c \in Builds : c # b =>
          pc'[c] = pc[c] /\ lang'[c] = lang[c] /\ entry'[c] = entry[c]
  BY DEF Step, Inspect, ApplyFixes, CheckCrate, WriteManifest, Compile,
         OpenOutput, CloseOutput, CompileFails, Located, OpenMachine,
         CloseMachine, MachineFails, Embed, Goes, Exits, OnFailure, job,
         TInv, TypeOK
<1>3. \/ pc'[b] = "idle"
      \/ /\ pc[b] # "idle" /\ lang'[b] = lang[b] /\ entry'[b] = entry[b]
         /\ pc'[b] = "manifest" => LibEntry(entry[b]) # NoFile
  BY DEF Step, Inspect, ApplyFixes, CheckCrate, WriteManifest, Compile,
         OpenOutput, CloseOutput, CompileFails, Located, OpenMachine,
         CloseMachine, MachineFails, Embed, Goes, Exits, OnFailure, job,
         OnNoMachine, TInv, TypeOK
<1> SUFFICES ASSUME NEW c \in Builds
             PROVE  /\ Running(c)' => lang'[c] \in Buildable
                    /\ pc'[c] = "manifest" => LibEntry(entry[c])' # NoFile
  BY DEF Placed
<1>4. CASE pc'[c] = "idle"
  BY <1>4 DEF Running
<1>5. CASE pc'[c] # "idle"
  <2>1. /\ pc[c] # "idle" \/ c # b
        /\ lang'[c] = lang[c] /\ entry'[c] = entry[c]
        /\ pc'[c] = "manifest" => pc[c] = pc'[c] \/ LibEntry(entry[c]) # NoFile
        /\ pc[c] # "idle"
    BY <1>2, <1>3, <1>5
  <2>2. LibEntry(entry[c])' = LibEntry(entry[c])
    BY <1>1, <2>1 DEF LibEntry, Sources
  <2> QED
    BY <2>1, <2>2 DEF TInv, Placed, Running
<1> QED
  BY <1>4, <1>5

LEMMA BeginsKeeps ==
    ASSUME TInv, NEW b \in Builds, NEW l \in Buildable,
           NEW f \in Files \cup {NoFile}, Begins(b, l, f)
    PROVE  TInv'
<1>1. TypeOK'
  BY TypeBegins DEF TInv
<1>2. language' = language
  BY DEF Begins, env
<1> SUFFICES ASSUME NEW c \in Builds
             PROVE  /\ Running(c)' => lang'[c] \in Buildable
                    /\ pc'[c] = "manifest" => LibEntry(entry[c])' # NoFile
  BY <1>1 DEF TInv, Placed
<1>3. CASE c = b
  BY <1>3 DEF Begins, TInv, TypeOK
<1>4. CASE c # b
  <2>1. pc'[c] = pc[c] /\ lang'[c] = lang[c] /\ entry'[c] = entry[c]
    BY <1>4 DEF Begins, TInv, TypeOK
  <2>2. LibEntry(entry[c])' = LibEntry(entry[c])
    BY <1>2, <2>1 DEF LibEntry, Sources
  <2> QED
    BY <2>1, <2>2 DEF TInv, Placed, Running
<1> QED
  BY <1>3, <1>4

\* Metro and the command line begin a build, or nothing comes of it.
LEMMA Beginning ==
    ASSUME TypeOK, NEW b \in Builds, Transform(b) \/ Command(b)
    PROVE  \/ \E l \in Buildable, f \in Files \cup {NoFile} : Begins(b, l, f)
           \/ /\ UNCHANGED <<env, disk, code, embedded, authored>>
              /\ Ended(b) /\ Exits(b)
  BY DEF Transform, Command

LEMMA IdleExits ==
    ASSUME TInv, NEW b \in Builds, Ended(b), Exits(b),
           UNCHANGED <<env, disk, code, embedded, authored>>
    PROVE  TInv'
<1>1. TypeOK'
  BY TypeExits DEF TInv, TypeOK, Content, env, disk
<1>2. language' = language
  BY DEF env
<1> SUFFICES ASSUME NEW c \in Builds
             PROVE  /\ Running(c)' => lang'[c] \in Buildable
                    /\ pc'[c] = "manifest" => LibEntry(entry[c])' # NoFile
  BY <1>1 DEF TInv, Placed
<1>3. CASE c = b
  BY <1>3 DEF Exits, TInv, TypeOK, Running
<1>4. CASE c # b
  <2>1. pc'[c] = pc[c] /\ lang'[c] = lang[c] /\ entry'[c] = entry[c]
    BY <1>4 DEF Exits, TInv, TypeOK
  <2>2. LibEntry(entry[c])' = LibEntry(entry[c])
    BY <1>2, <2>1 DEF LibEntry, Sources
  <2> QED
    BY <2>1, <2>2 DEF TInv, Placed, Running
<1> QED
  BY <1>3, <1>4

LEMMA DeveloperKeeps ==
    ASSUME TInv, EditManifest \/ \E f \in Files : Edit(f)
    PROVE  TInv'
<1>1. language' = language /\ pc' = pc /\ lang' = lang /\ entry' = entry
  BY DEF EditManifest, Edit, env, job
<1>2. TypeOK'
  <2>1. CASE EditManifest
    BY <2>1 DEF EditManifest, TInv, TypeOK, Content, env, job
  <2>2. CASE \E f \in Files : Edit(f)
    <3>1. PICK f \in Files : Edit(f)
      BY <2>2
    <3>2. version' \in [Files -> 0 .. MaxEdits]
      BY <3>1, EditsAssumption DEF Edit, TInv, TypeOK
    <3> QED
      BY <3>1, <3>2 DEF Edit, TInv, TypeOK, Content, env, job
  <2> QED
    BY <2>1, <2>2
<1>3. ASSUME NEW c \in Builds
      PROVE  LibEntry(entry[c])' = LibEntry(entry[c])
  BY <1>1 DEF LibEntry, Sources
<1> QED
  BY <1>1, <1>2, <1>3 DEF TInv, Placed, Running

LEMMA StuttersKeep == TInv /\ UNCHANGED vars => TInv'
<1> SUFFICES ASSUME TInv, UNCHANGED vars PROVE TInv'
  OBVIOUS
<1>1. language' = language /\ pc' = pc /\ lang' = lang /\ entry' = entry
  BY DEF vars, env, job
<1>2. TypeOK'
  BY DEF vars, TInv, TypeOK, Content, env, disk, job
<1>3. ASSUME NEW c \in Builds
      PROVE  LibEntry(entry[c])' = LibEntry(entry[c])
  BY <1>1 DEF LibEntry, Sources
<1> QED
  BY <1>1, <1>2, <1>3 DEF TInv, Placed, Running

LEMMA TInvInit == Init => TInv
  BY TypeInit DEF Init, TInv, Placed, Running

LEMMA TInvNext == TInv /\ [Next]_vars => TInv'
<1> SUFFICES ASSUME TInv, [Next]_vars PROVE TInv'
  OBVIOUS
<1>1. CASE UNCHANGED vars
  BY <1>1, StuttersKeep
<1>2. CASE EditManifest \/ \E f \in Files : Edit(f)
  BY <1>2, DeveloperKeeps
<1>3. ASSUME NEW b \in Builds, Transform(b) \/ Command(b)
      PROVE  TInv'
  BY <1>3, Beginning, BeginsKeeps, IdleExits DEF TInv
<1>4. ASSUME NEW b \in Builds, Step(b)
      PROVE  TInv'
  BY <1>4, TypeStep, PlacedStep DEF TInv
<1> QED
  BY <1>1, <1>2, <1>3, <1>4 DEF Next

\* Every variable keeps its domain, whatever builds, failures and edits come.
THEOREM TypeCorrect == Spec => []TypeOK
<1>1. Spec => []TInv
  BY TInvInit, TInvNext, PTL DEF Spec
<1>2. TInv => TypeOK
  BY DEF TInv
<1> QED
  BY <1>1, <1>2, PTL

----------------------------------------------------------------------------
(* The developer's manifest.                                               *)

LEMMA AInvNext == TInv /\ AInv /\ [Next]_vars => AInv'
<1> SUFFICES ASSUME TInv, AInv, [Next]_vars PROVE AInv'
  OBVIOUS
<1> USE DEF AInv, AuthoredIsKept
<1>1. CASE UNCHANGED vars
  BY <1>1 DEF vars, disk
<1>2. CASE EditManifest
  BY <1>2, ContentAssumption DEF EditManifest, Manifest
<1>3. CASE \E f \in Files : Edit(f)
  BY <1>3 DEF Edit
<1>4. ASSUME NEW b \in Builds, Transform(b) \/ Command(b)
      PROVE  AInv'
  BY <1>4, Beginning DEF Begins, Exits, TInv, TypeOK, disk
<1>5. ASSUME NEW b \in Builds, Step(b)
      PROVE  AInv'
  <2>1. CASE WriteManifest(b)
    BY <2>1 DEF WriteManifest
  <2>2. CASE CheckCrate(b)
    BY <2>2 DEF CheckCrate, HasManifest, Goes, Exits, TInv, TypeOK, disk
  <2>3. CASE ~WriteManifest(b) /\ ~CheckCrate(b)
    <3>1. manifest' = manifest /\ authored' = authored
      BY <1>5, <2>3 DEF Step, Inspect, ApplyFixes, Compile, OpenOutput,
           CloseOutput, CompileFails, Located, OpenMachine, CloseMachine,
           MachineFails, Embed, disk
    <3>2. \A c \in Builds : pc'[c] = "manifest" => pc[c] = "manifest"
      BY <1>5, <2>3 DEF Step, Inspect, ApplyFixes, Compile, OpenOutput,
           CloseOutput, CompileFails, Located, OpenMachine, CloseMachine,
           MachineFails, Embed, Goes, Exits, OnFailure, OnNoMachine,
           TInv, TypeOK
    <3> QED
      BY <3>1, <3>2
  <2> QED
    BY <2>1, <2>2, <2>3
<1> QED
  BY <1>1, <1>2, <1>3, <1>4, <1>5 DEF Next

\* For any builds and sources: no build ever replaces a manifest the developer
\* wrote, unless it had found none just before.
THEOREM AuthoredIsKeptHolds == Spec => []AuthoredIsKept
<1>1. Init => AInv
  BY DEF Init, AInv, AuthoredIsKept
<1>2. Spec => []TInv
  BY TInvInit, TInvNext, PTL DEF Spec
<1>3. AInv => AuthoredIsKept
  BY DEF AInv
<1> QED
  BY <1>1, <1>2, <1>3, AInvNext, PTL DEF Spec

----------------------------------------------------------------------------
(* What a build embeds.                                                    *)

\* While a build keeps its place, its language and its entry, and nobody
\* writes to its files, what it has is still wanted.
LEMMA Untouched ==
    ASSUME NEW c \in Builds, Mine(c), Running(c),
           language' = language,
           version' = version,
           pc'[c] = pc[c], lang'[c] = lang[c], entry'[c] = entry[c],
           began'[c] = began[c], foreign'[c] = foreign[c], code'[c] = code[c],
           overlapped[c] => overlapped'[c],
           \/ overlapped'[c]
           \/ /\ artifact'[lang[c]] = artifact[lang[c]]
              /\ machine'[lang[c]] = machine[lang[c]]
    PROVE  Mine(c)'
<1>1. EntryFor(lang[c], entry[c])' = EntryFor(lang[c], entry[c])
  BY DEF EntryFor, LibEntry, Sources
<1>2. Version(EntryFor(lang[c], entry[c]))' = Version(EntryFor(lang[c], entry[c]))
  BY <1>1 DEF Version
<1>3. Began(c)' /\ Elsewhere(c)'
  BY <1>2 DEF Mine, Began, Elsewhere
<1>4. CASE overlapped'[c]
  BY <1>3, <1>4 DEF Mine, Kept
<1>5. CASE ~overlapped'[c]
  <2>1. artifact'[lang'[c]] = artifact[lang[c]]
        /\ machine'[lang'[c]] = machine[lang[c]]
    BY <1>5
  <2>2. Kept(c)'
    BY <1>1, <2>1 DEF Mine, Kept, InHand, InArtifact, InMachine, Wanted
  <2> QED
    BY <1>3, <2>2 DEF Mine
<1> QED
  BY <1>4, <1>5

LEMMA OthersStep ==
    ASSUME BInv, NEW b \in Builds, Step(b), NEW c \in Builds, c # b
    PROVE  Mine(c)'
<1>1. language' = language /\ version' = version
  BY DEF Step, Inspect, ApplyFixes, CheckCrate, WriteManifest, Compile,
         OpenOutput, CloseOutput, CompileFails, Located, OpenMachine,
         CloseMachine, MachineFails, Embed, env, disk
<1>2. /\ pc'[c] = pc[c] /\ lang'[c] = lang[c] /\ entry'[c] = entry[c]
      /\ began'[c] = began[c] /\ foreign'[c] = foreign[c]
      /\ overlapped'[c] = overlapped[c]
  BY DEF Step, Inspect, ApplyFixes, CheckCrate, WriteManifest, Compile,
         OpenOutput, CloseOutput, CompileFails, Located, OpenMachine,
         CloseMachine, MachineFails, Embed, Goes, Exits, OnFailure, job,
         BInv, TInv, TypeOK
<1>3. code'[c] = code[c]
  BY DEF Step, Inspect, ApplyFixes, CheckCrate, WriteManifest, Compile,
         OpenOutput, CloseOutput, CompileFails, Located, OpenMachine,
         CloseMachine, MachineFails, Embed, BInv, TInv, TypeOK
<1>4. Running(b)
  BY DEF Step, Inspect, ApplyFixes, CheckCrate, WriteManifest, Compile,
         OpenOutput, CloseOutput, CompileFails, Located, OpenMachine,
         CloseMachine, MachineFails, Embed, Running
<1>5. \A l \in Buildable \ {lang[b]} :
          artifact'[l] = artifact[l] /\ machine'[l] = machine[l]
  BY DEF Step, Inspect, ApplyFixes, CheckCrate, WriteManifest, Compile,
         OpenOutput, CloseOutput, CompileFails, Located, OpenMachine,
         CloseMachine, MachineFails, Embed, disk, BInv, TInv, TypeOK
<1>6. ASSUME Running(c)
      PROVE  \/ overlapped[c]
             \/ /\ artifact'[lang[c]] = artifact[lang[c]]
                /\ machine'[lang[c]] = machine[lang[c]]
  BY <1>4, <1>5, <1>6 DEF BInv, TInv, Placed, Overlap
<1>7. CASE Running(c)
  BY <1>1, <1>2, <1>3, <1>6, <1>7, Untouched DEF BInv
<1>8. CASE ~Running(c)
  BY <1>2, <1>8 DEF Mine, Running
<1> QED
  BY <1>7, <1>8

LEMMA OwnStep ==
    ASSUME BInv, NEW b \in Builds, Step(b)
    PROVE  Mine(b)'
<1> USE DEF BInv, TInv
<1>0. /\ language' = language /\ version' = version
      /\ Running(b) /\ Mine(b) /\ lang[b] \in Buildable
  BY DEF Step, Inspect, ApplyFixes, CheckCrate, WriteManifest, Compile,
         OpenOutput, CloseOutput, CompileFails, Located, OpenMachine,
         CloseMachine, MachineFails, Embed, env, disk, Running, Placed
<1>1. CASE Exits(b)
  BY <1>1 DEF Exits, Mine, Running, TypeOK
<1>2. ASSUME lang'[b] = lang[b], entry'[b] = entry[b], began'[b] = began[b]
      PROVE  /\ EntryFor(lang[b], entry[b])' = EntryFor(lang[b], entry[b])
             /\ Began(b)'
  <2>1. EntryFor(lang[b], entry[b])' = EntryFor(lang[b], entry[b])
    BY <1>0, <1>2 DEF EntryFor, LibEntry, Sources
  <2> QED
    BY <1>0, <1>2, <2>1 DEF Mine, Began, Version
<1>3. ASSUME NEW p, Goes(b, p)
      PROVE  /\ pc'[b] = p /\ lang'[b] = lang[b] /\ entry'[b] = entry[b]
             /\ began'[b] = began[b] /\ foreign'[b] = foreign[b]
             /\ overlapped'[b] = overlapped[b]
  BY <1>3 DEF Goes, job, TypeOK
<1>4. CASE \/ Inspect(b) \/ ApplyFixes(b) \/ CheckCrate(b) \/ WriteManifest(b)
  <2>1. \/ Exits(b)
        \/ \E p \in {"fix", "crate", "compile", "reinspect", "manifest"} :
               Goes(b, p)
    BY <1>4 DEF Inspect, ApplyFixes, CheckCrate, WriteManifest
  <2>2. ASSUME NEW p \in {"fix", "crate", "compile", "reinspect", "manifest"},
               Goes(b, p)
        PROVE  Mine(b)'
    BY <1>2, <1>3, <2>2
    DEF Mine, Kept, InHand, InArtifact, InMachine, Elsewhere
  <2> QED
    BY <1>1, <2>1, <2>2
<1>5. CASE Compile(b)
  <2> DEFINE f == IF lang[b] = "rust" THEN manifest.path
                  ELSE EntryFor(lang[b], entry[b])
             e == EntryFor(lang[b], entry[b])
             x == [file |-> f, version |-> version[f]]
  <2>1. /\ lang'[b] = lang[b] /\ entry'[b] = entry[b] /\ began'[b] = began[b]
        /\ f \in Files /\ version[f] \in 0 .. MaxEdits
        /\ code'[b] = x
        /\ pc'[b] \in {"elsewhere", "compiling"}
    BY <1>5 DEF Compile, Sources, TypeOK
  <2>2. pc'[b] = "elsewhere" => foreign'[b]
    BY <1>5 DEF Compile, TypeOK
  <2>3. foreign'[b] \/ f = e
    BY <1>0, <1>5 DEF Compile, TypeOK, EntryFor, Buildable
  <2>4. ASSUME f = e
        PROVE  x \in Code /\ x.file = e /\ x.version >= began[b]
    <3>1. began[b] <= version[f]
      BY <1>0, <2>1, <2>4, FilesAssumption DEF Mine, Began, Version
    <3>2. began[b] \in Nat /\ version[f] \in Nat
      BY <2>1, EditsAssumption DEF TypeOK
    <3> QED
      BY <2>1, <2>4, <3>1, <3>2 DEF Code
  <2>5. EntryFor(lang[b], entry[b])' = e /\ Began(b)'
    BY <1>2, <2>1
  <2> HIDE DEF f, e, x
  <2>6. foreign'[b] \/ Wanted(b, code[b])'
    BY <2>1, <2>3, <2>4, <2>5 DEF Wanted
  <2> QED
    BY <2>1, <2>2, <2>5, <2>6
    DEF Mine, Kept, InHand, InArtifact, InMachine, Elsewhere
<1>6. CASE OpenOutput(b)
  <2>1. Goes(b, "writing") /\ code' = code /\ pc[b] = "compiling"
    BY <1>6 DEF OpenOutput
  <2> QED
    BY <1>0, <1>2, <1>3, <2>1
    DEF Mine, Kept, InHand, InArtifact, InMachine, Elsewhere, Wanted
<1>7. CASE CloseOutput(b)
  <2>1. /\ Goes(b, "compiled")
        /\ pc[b] = "writing" => artifact'[lang[b]] = code[b]
        /\ pc[b] \in {"writing", "elsewhere"}
    BY <1>0, <1>7 DEF CloseOutput, TypeOK
  <2>2. foreign[b] \/ pc[b] = "writing"
    BY <1>0, <2>1 DEF Mine, Elsewhere
  <2> QED
    BY <1>0, <1>2, <1>3, <2>1, <2>2
    DEF Mine, Kept, InHand, InArtifact, InMachine, Elsewhere, Wanted
<1>8. CASE CompileFails(b)
  BY <1>1, <1>8 DEF CompileFails, OnFailure
<1>9. CASE Located(b)
  <2>1. Exits(b) \/ /\ Goes(b, "wamrc") \/ Goes(b, "read")
                    /\ artifact' = artifact /\ pc[b] = "compiled"
    BY <1>9 DEF Located, disk
  <2> QED
    BY <1>0, <1>1, <1>2, <1>3, <2>1
    DEF Mine, Kept, InHand, InArtifact, InMachine, Elsewhere, Wanted
<1>10. CASE OpenMachine(b)
  <2>1. /\ Goes(b, "emitting") /\ artifact' = artifact /\ pc[b] = "wamrc"
        /\ code'[b] = artifact[lang[b]]
    BY <1>10 DEF OpenMachine, TypeOK
  <2> QED
    BY <1>0, <1>2, <1>3, <2>1
    DEF Mine, Kept, InHand, InArtifact, InMachine, Elsewhere, Wanted
<1>11. CASE CloseMachine(b)
  <2>1. /\ Goes(b, "readMachine") /\ pc[b] = "emitting"
        /\ machine'[lang[b]] = code[b]
    BY <1>0, <1>11 DEF CloseMachine, TypeOK
  <2> QED
    BY <1>0, <1>2, <1>3, <2>1
    DEF Mine, Kept, InHand, InArtifact, InMachine, Elsewhere, Wanted
<1>12. CASE MachineFails(b)
  <2>1. /\ Goes(b, "read") /\ artifact' = artifact
        /\ pc[b] \in {"wamrc", "emitting"}
    BY <1>12 DEF MachineFails, OnNoMachine, disk
  <2> QED
    BY <1>0, <1>2, <1>3, <2>1
    DEF Mine, Kept, InHand, InArtifact, InMachine, Elsewhere, Wanted
<1>13. CASE Embed(b)
  BY <1>1, <1>13 DEF Embed
<1> QED
  BY <1>4, <1>5, <1>6, <1>7, <1>8, <1>9, <1>10, <1>11, <1>12, <1>13 DEF Step

LEMMA OverlapStep ==
    ASSUME BInv, NEW b \in Builds, Step(b)
    PROVE  Overlap'
<1>1. \A c \in Builds : c # b =>
          pc'[c] = pc[c] /\ lang'[c] = lang[c] /\ overlapped'[c] = overlapped[c]
  BY DEF Step, Inspect, ApplyFixes, CheckCrate, WriteManifest, Compile,
         OpenOutput, CloseOutput, CompileFails, Located, OpenMachine,
         CloseMachine, MachineFails, Embed, Goes, Exits, OnFailure, job,
         BInv, TInv, TypeOK
<1>2. \/ pc'[b] = "idle"
      \/ pc[b] # "idle" /\ lang'[b] = lang[b] /\ overlapped'[b] = overlapped[b]
  BY DEF Step, Inspect, ApplyFixes, CheckCrate, WriteManifest, Compile,
         OpenOutput, CloseOutput, CompileFails, Located, OpenMachine,
         CloseMachine, MachineFails, Embed, Goes, Exits, OnFailure, job,
         BInv, TInv, TypeOK
<1> QED
  BY <1>1, <1>2 DEF BInv, Overlap, Running

\* A build that begins marks itself and every build of its class.
LEMMA BeginsMarks ==
    ASSUME BInv, NEW b \in Builds, NEW l \in Buildable,
           NEW f \in Files \cup {NoFile}, Begins(b, l, f)
    PROVE  Overlap' /\ \A c \in Builds : Mine(c)'
<1> USE DEF BInv, TInv
<1>1. /\ language' = language /\ version' = version /\ code' = code
      /\ artifact' = artifact /\ machine' = machine
      /\ pc[b] = "idle" /\ pc'[b] = "inspect" /\ lang'[b] = l /\ entry'[b] = f
      /\ began'[b] = Version(EntryFor(l, f))
  BY DEF Begins, env, disk, TypeOK, Ended
<1>2. \A c \in Builds : c # b =>
          /\ pc'[c] = pc[c] /\ lang'[c] = lang[c] /\ entry'[c] = entry[c]
          /\ began'[c] = began[c] /\ foreign'[c] = foreign[c]
          /\ overlapped'[c] = (overlapped[c] \/ (~Ended(c) /\ lang[c] = l))
          /\ ~Ended(c) /\ lang[c] = l => overlapped'[b]
  BY DEF Begins, TypeOK
<1>3. Overlap'
  BY <1>1, <1>2 DEF Overlap, Running, Ended
<1>4. ASSUME NEW c \in Builds, c # b
      PROVE  Mine(c)'
  BY <1>1, <1>2, <1>4, Untouched DEF Mine, Running
<1>5. Mine(b)'
  <2>1. EntryFor(lang[b], entry[b])' = EntryFor(l, f)
    BY <1>1 DEF EntryFor, LibEntry, Sources
  <2>2. Version(EntryFor(l, f)) \in 0 .. MaxEdits
    BY EntryType, VersionType DEF TypeOK
  <2>3. Began(b)'
    BY <1>1, <2>1, <2>2, EditsAssumption DEF Began, Version
  <2> QED
    BY <1>1, <2>3 DEF Mine, Kept, InHand, InArtifact, InMachine, Elsewhere
<1> QED
  BY <1>3, <1>4, <1>5

LEMMA IdleExitsMine ==
    ASSUME BInv, NEW b \in Builds, Ended(b), Exits(b),
           UNCHANGED <<env, disk, code, embedded, authored>>
    PROVE  Overlap' /\ \A c \in Builds : Mine(c)'
<1>1. /\ language' = language /\ version' = version /\ code' = code
      /\ artifact' = artifact /\ machine' = machine /\ pc'[b] = "idle"
  BY DEF env, disk, Exits, BInv, TInv, TypeOK
<1>2. \A c \in Builds : c # b =>
          /\ pc'[c] = pc[c] /\ lang'[c] = lang[c] /\ entry'[c] = entry[c]
          /\ began'[c] = began[c] /\ foreign'[c] = foreign[c]
          /\ overlapped'[c] = overlapped[c]
  BY DEF Exits, BInv, TInv, TypeOK
<1>3. Overlap'
  BY <1>1, <1>2 DEF BInv, Overlap, Running
<1>4. ASSUME NEW c \in Builds, c # b
      PROVE  Mine(c)'
  BY <1>1, <1>2, <1>4, Untouched DEF BInv, Mine, Running
<1>5. Mine(b)'
  BY <1>1 DEF Mine, Running
<1> QED
  BY <1>3, <1>4, <1>5

\* The developer's edits make sources newer, never older.
LEMMA EditsMine ==
    ASSUME BInv, NEW f \in Files, Edit(f)
    PROVE  Overlap' /\ \A c \in Builds : Mine(c)'
<1>1. /\ language' = language /\ pc' = pc /\ lang' = lang /\ entry' = entry
      /\ began' = began /\ foreign' = foreign /\ overlapped' = overlapped
      /\ code' = code /\ artifact' = artifact /\ machine' = machine
      /\ version' = [version EXCEPT ![f] = @ + 1]
  BY DEF Edit, env, job
<1>2. Overlap'
  BY <1>1 DEF BInv, Overlap, Running
<1>3. ASSUME NEW c \in Builds, Running(c)
      PROVE  Mine(c)'
  <2>1. EntryFor(lang[c], entry[c])' = EntryFor(lang[c], entry[c])
    BY <1>1 DEF EntryFor, LibEntry, Sources
  <2>2. EntryFor(lang[c], entry[c]) \in Files \cup {NoFile}
    BY <1>3, EntryType DEF BInv, TInv, TypeOK, Placed
  <2>3. \A g \in Files : version[g] \in Nat /\ version'[g] \in Nat
                         /\ version[g] <= version'[g]
    BY <1>1, EditsAssumption DEF BInv, TInv, TypeOK
  <2>4. Version(EntryFor(lang[c], entry[c]))
          <= Version(EntryFor(lang[c], entry[c]))'
    BY <2>1, <2>2, <2>3 DEF Version
  <2>5. /\ Version(EntryFor(lang[c], entry[c])) \in Nat
        /\ Version(EntryFor(lang[c], entry[c]))' \in Nat
        /\ began[c] \in Nat
    BY <2>1, <2>2, <2>3, EditsAssumption DEF Version, BInv, TInv, TypeOK
  <2>6. Began(c)'
    BY <1>1, <1>3, <2>4, <2>5 DEF BInv, Mine, Began
  <2> QED
    BY <1>1, <1>3, <2>1, <2>6
    DEF BInv, Mine, Kept, InHand, InArtifact, InMachine, Elsewhere, Wanted
<1>4. ASSUME NEW c \in Builds, ~Running(c)
      PROVE  Mine(c)'
  BY <1>1, <1>4 DEF Mine, Running
<1> QED
  BY <1>2, <1>3, <1>4

LEMMA StillMine ==
    ASSUME BInv, EditManifest \/ UNCHANGED vars
    PROVE  Overlap' /\ \A c \in Builds : Mine(c)'
<1>1. /\ language' = language /\ pc' = pc /\ lang' = lang /\ entry' = entry
      /\ began' = began /\ foreign' = foreign /\ overlapped' = overlapped
      /\ code' = code /\ artifact' = artifact /\ machine' = machine
      /\ version' = version
  BY DEF EditManifest, vars, env, disk, job
<1>2. Overlap'
  BY <1>1 DEF BInv, Overlap, Running
<1>3. ASSUME NEW c \in Builds
      PROVE  Mine(c)'
  BY <1>1, Untouched DEF BInv, Mine, Running
<1> QED
  BY <1>2, <1>3

LEMMA BInvInit == Init => BInv
  BY TInvInit DEF Init, BInv, Overlap, Mine, Running

LEMMA BInvNext == BInv /\ [Next]_vars => BInv'
<1> SUFFICES ASSUME BInv, [Next]_vars PROVE BInv'
  OBVIOUS
<1>1. TInv'
  BY TInvNext DEF BInv
<1>2. CASE UNCHANGED vars \/ EditManifest
  BY <1>1, <1>2, StillMine DEF BInv
<1>3. CASE \E f \in Files : Edit(f)
  BY <1>1, <1>3, EditsMine DEF BInv
<1>4. ASSUME NEW b \in Builds, Transform(b) \/ Command(b)
      PROVE  BInv'
  BY <1>1, <1>4, Beginning, BeginsMarks, IdleExitsMine DEF BInv, TInv
<1>5. ASSUME NEW b \in Builds, Step(b)
      PROVE  BInv'
  BY <1>1, <1>5, OverlapStep, OwnStep, OthersStep DEF BInv
<1> QED
  BY <1>2, <1>3, <1>4, <1>5 DEF Next

\* Only the last step of a build ends it from where it embeds.
LEMMA EmbedsLast ==
    ASSUME BInv, [Next]_vars, NEW b \in Builds,
           pc[b] \in {"read", "readMachine"}, pc'[b] = "idle"
    PROVE  Embed(b)
<1>1. ASSUME NEW c \in Builds, c # b, Step(c) \/ Transform(c) \/ Command(c)
      PROVE  pc'[b] = pc[b]
  BY <1>1, Beginning
  DEF Begins, Step, Inspect, ApplyFixes, CheckCrate, WriteManifest, Compile,
      OpenOutput, CloseOutput, CompileFails, Located, OpenMachine,
      CloseMachine, MachineFails, Embed, Goes, Exits, OnFailure, BInv, TInv,
      TypeOK
<1>2. ASSUME Step(b)
      PROVE  Embed(b)
  BY <1>2 DEF Step, Inspect, ApplyFixes, CheckCrate, WriteManifest, Compile,
      OpenOutput, CloseOutput, CompileFails, Located, OpenMachine,
      CloseMachine, MachineFails
<1>3. ~(Transform(b) \/ Command(b))
  BY DEF Transform, Command, Begins, Ended
<1>4. UNCHANGED vars \/ EditManifest \/ (\E f \in Files : Edit(f)) => pc' = pc
  BY DEF vars, EditManifest, Edit
<1> QED
  BY <1>1, <1>2, <1>3, <1>4 DEF Next

\* For any builds, sources and edits: what a build embeds is whole code of its
\* own source, no older than the build, unless another build of the class
\* ran meanwhile or the manifest named another entry or package.
THEOREM FreshInTurnHolds == Spec => FreshInTurn
<1>1. ASSUME BInv, [Next]_vars
      PROVE  [\A b \in Builds :
                pc[b] \in {"read", "readMachine"} /\ pc'[b] = "idle" =>
                    \/ overlapped[b] \/ foreign[b]
                    \/ /\ embedded' \in Code
                       /\ embedded'.file = EntryFor(lang[b], entry[b])
                       /\ embedded'.version >= began[b]]_vars
  <2> SUFFICES ASSUME NEW b \in Builds,
                      pc[b] \in {"read", "readMachine"}, pc'[b] = "idle",
                      ~overlapped[b], ~foreign[b]
               PROVE  Wanted(b, embedded')
    BY DEF Wanted
  <2>1. Embed(b)
    BY <1>1, EmbedsLast
  <2>2. InArtifact(b) /\ InMachine(b)
    BY <1>1 DEF BInv, Mine, Running, Kept
  <2> QED
    BY <2>1, <2>2 DEF Embed, InArtifact, InMachine
<1>2. Spec => []BInv
  BY BInvInit, BInvNext, PTL DEF Spec
<1> QED
  BY <1>1, <1>2, PTL DEF Spec, FreshInTurn
==============================================================================
