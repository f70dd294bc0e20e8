----------------------------- MODULE ModuleBuild -----------------------------
(***************************************************************************)
(* Building the sources of one directory into the code a bundle embeds:    *)
(* the command line tool (bin/cross-native.mjs), the compile step with its *)
(* toolchain check and its drivers (compiler/src) and the Metro            *)
(* transformer that starts one build per imported source.  Builds are      *)
(* processes of their own: they share the directory, with its manifest and *)
(* its artifacts, and no lock but cargo's.                                 *)
(*                                                                         *)
(* Languages are taken by the artifact their drivers name.  "rust" is the  *)
(* one whose driver goes through a cargo crate; "zig" stands for the four  *)
(* whose compilers are given an output path, the same for all of them: zig,*)
(* c, cpp and go write one .wasm named after the directory.  "planned" is  *)
(* one the registry knows and cannot build.                                *)
(* The compilers, wamrc and the developer are the environment.             *)
(***************************************************************************)
EXTENDS Naturals

CONSTANTS
    Builds,     \* processes of the command line tool on this directory
    Files,      \* the sources in the directory
    Main,       \* the one with the conventional name (main.zig, src/lib.rs)
    NoFile,     \* no file: a build without --entry
    Absent,     \* a path where there is no file
    Torn,       \* a file that is half written
    MaxEdits    \* bound: edits of each source by the developer

ASSUME FilesAssumption == Main \in Files /\ NoFile \notin Files
ASSUME ContentAssumption ==
    /\ Absent # Torn
    /\ Absent \notin [file : Files, version : Nat]
    /\ Absent \notin [path : Files, named : BOOLEAN]
    /\ Torn \notin [file : Files, version : Nat]
ASSUME EditsAssumption == MaxEdits \in Nat

VARIABLES
    language,   \* which of these classes each source's language is in
    aot,        \* whether builds ask for AOT code and wamrc is at hand
    tools,      \* per buildable class: "ready", "fixable" or "missing"
    version,    \* per source: how often it has been edited
    manifest,   \* the crate's Cargo.toml
    artifact,   \* per buildable class: the .wasm its drivers name
    machine,    \* per buildable class: the .aot beside it
    lock,       \* the build that holds cargo's lock on the target directory
    embedded,   \* what the last build to end put in the bundle
    pc, lang, entry, code,  \* per build
    \* History, per build: the version of its source when it began, whether
    \* cargo read a manifest of another entry or package, whether another
    \* build of the class ran meanwhile.
    began, foreign, overlapped,
    authored    \* the manifest the developer wrote: "none", "kept", "lost", or
                \* "raced" when a build was about to write one meanwhile

env == <<language, aot>>
disk == <<tools, version, manifest, artifact, machine, lock>>
job == <<lang, entry, began, foreign, overlapped>>
vars == <<env, disk, pc, job, code, embedded, authored>>

Buildable == {"rust", "zig"}
Free == "free"
Manifest == [path : Files, named : BOOLEAN]
Code == [file : Files, version : 0 .. MaxEdits]
Content == Code \cup {Absent, Torn}

Sources(l) == {f \in Files : language[f] = l}

\* findLibEntry: an explicit entry, a conventional name, the only source.
LibEntry(f) ==
    IF f # NoFile THEN f
    ELSE IF Main \in Sources("rust") THEN Main
    ELSE IF \E g \in Files : Sources("rust") = {g}
         THEN CHOOSE g \in Files : Sources("rust") = {g}
    ELSE NoFile

\* The source a driver compiles for an entry.
EntryFor(l, f) ==
    IF l = "rust" THEN LibEntry(f) ELSE IF f # NoFile THEN f ELSE Main

Ended(b) == pc[b] = "idle"
Version(f) == IF f = NoFile THEN 0 ELSE version[f]

Init ==
    /\ language \in [Files -> Buildable \cup {"planned"}]
    /\ aot \in BOOLEAN
    /\ tools \in [Buildable -> {"ready", "fixable", "missing"}]
    /\ version = [f \in Files |-> 0]
    /\ manifest = Absent
    /\ artifact = [l \in Buildable |-> Absent]
    /\ machine = [l \in Buildable |-> Absent]
    /\ lock = Free
    /\ pc = [b \in Builds |-> "idle"]
    /\ lang = [b \in Builds |-> "none"]
    /\ entry = [b \in Builds |-> NoFile]
    /\ code = [b \in Builds |-> Absent]
    /\ embedded = Absent
    /\ began = [b \in Builds |-> 0]
    /\ foreign = [b \in Builds |-> FALSE]
    /\ overlapped = [b \in Builds |-> FALSE]
    /\ authored = "none"

----------------------------------------------------------------------------
(* A build, from its command line to the embedded code.                    *)

Goes(b, p) == pc' = [pc EXCEPT ![b] = p] /\ UNCHANGED job

\* The process exits: it leaves files, and nothing else.
Exits(b) ==
    /\ pc' = [pc EXCEPT ![b] = "idle"]
    /\ lang' = [lang EXCEPT ![b] = "none"]
    /\ entry' = [entry EXCEPT ![b] = NoFile]
    /\ began' = [began EXCEPT ![b] = 0]
    /\ foreign' = [foreign EXCEPT ![b] = FALSE]
    /\ overlapped' = [overlapped EXCEPT ![b] = FALSE]

Begins(b, l, f) ==
    LET others == {c \in Builds \ {b} : ~Ended(c) /\ lang[c] = l}
    IN  /\ Ended(b)
        /\ pc' = [pc EXCEPT ![b] = "inspect"]
        /\ lang' = [lang EXCEPT ![b] = l]
        /\ entry' = [entry EXCEPT ![b] = f]
        /\ embedded' = Absent
        /\ began' = [began EXCEPT ![b] = Version(EntryFor(l, f))]
        /\ foreign' = [foreign EXCEPT ![b] = FALSE]
        /\ overlapped' = [c \in Builds |->
               IF c = b THEN others # {} ELSE overlapped[c] \/ c \in others]
        /\ UNCHANGED <<env, disk, code, authored>>

\* Metro transforms an imported source: the extension gives the language.
Transform(b) ==
    \E f \in Files : language[f] \in Buildable /\ Begins(b, language[f], f)

\* `cross-native build <dir>`: the first source in the listing gives the
\* language, and one that is only planned ends the build.
Command(b) ==
    \/ \E l \in Buildable : Sources(l) # {} /\ Begins(b, l, NoFile)
    \/ /\ Ended(b)
       /\ Sources("planned") # {}
       /\ Exits(b)
       /\ UNCHANGED <<env, disk, code, embedded, authored>>

\* inspectToolchain; a missing tool is fixed at most once, on --fix.
Inspect(b) ==
    /\ pc[b] \in {"inspect", "reinspect"}
    /\ LET state == tools[lang[b]] IN
       \/ /\ state = "ready"
          /\ Goes(b, IF lang[b] = "rust" THEN "crate" ELSE "compile")
       \/ state # "ready" /\ Exits(b)
       \/ /\ state = "fixable" /\ pc[b] = "inspect" /\ entry[b] = NoFile
          /\ Goes(b, "fix")
    /\ UNCHANGED <<env, disk, code, embedded, authored>>

\* applyFixes: its result is not looked at, the second inspection is.
ApplyFixes(b) ==
    /\ pc[b] = "fix"
    /\ \E state \in {"ready", "fixable"} :
           tools' = IF tools[lang[b]] = "fixable"
                    THEN [tools EXCEPT ![lang[b]] = state] ELSE tools
    /\ Goes(b, "reinspect")
    /\ UNCHANGED <<env, version, manifest, artifact, machine, lock,
                   code, embedded, authored>>

HasManifest_Renamed == manifest # Absent /\ manifest.named
HasManifest == manifest # Absent

\* ensureCrate: look for a manifest, choose an entry, and only then write.
CheckCrate(b) ==
    /\ pc[b] = "crate"
    /\ \/ HasManifest /\ Goes(b, "compile")
       \/ ~HasManifest /\ LibEntry(entry[b]) = NoFile /\ Exits(b)
       \/ ~HasManifest /\ LibEntry(entry[b]) # NoFile /\ Goes(b, "manifest")
    /\ UNCHANGED <<env, disk, code, embedded, authored>>

WriteManifest(b) ==
    /\ pc[b] = "manifest"
    /\ manifest' = [path |-> LibEntry(entry[b]), named |-> TRUE]
    /\ authored' = IF authored = "kept" THEN "lost" ELSE "none"
    /\ Goes(b, "compile")
    /\ UNCHANGED <<env, tools, version, artifact, machine, lock,
                   code, embedded>>

\* The compiler starts and reads the source: cargo, under its lock, the one
\* the manifest names; the others the entry on their command line.
Compile(b) ==
    LET l == lang[b]
        f == IF l = "rust" THEN manifest.path ELSE EntryFor(l, entry[b])
    IN  /\ pc[b] = "compile"
        /\ l = "rust" => lock = Free
        /\ f \in Sources(l)
        /\ code' = [code EXCEPT ![b] = [file |-> f, version |-> version[f]]]
        /\ lock' = IF l = "rust" THEN b ELSE lock
        /\ foreign' = [foreign EXCEPT ![b] = l = "rust" /\
               ~(manifest.named /\ f = LibEntry(entry[b]))]
        /\ pc' = [pc EXCEPT ![b] = IF l = "rust" /\ ~manifest.named
                                    THEN "elsewhere" ELSE "compiling"]
        /\ UNCHANGED <<env, tools, version, manifest, artifact, machine,
                       lang, entry, began, overlapped, embedded, authored>>

Unlocked(b) == IF lock = b THEN Free ELSE lock

\* The compiler opens its output, and later completes it.
OpenOutput(b) ==
    /\ pc[b] = "compiling"
    /\ artifact' = [artifact EXCEPT ![lang[b]] = Torn]
    /\ Goes(b, "writing")
    /\ UNCHANGED <<env, tools, version, manifest, machine, lock,
                   code, embedded, authored>>

\* A crate whose package has another name has its output somewhere else.
CloseOutput(b) ==
    /\ pc[b] \in {"writing", "elsewhere"}
    /\ artifact' = IF pc[b] = "elsewhere" THEN artifact
                   ELSE [artifact EXCEPT ![lang[b]] = code[b]]
    /\ lock' = Unlocked(b)
    /\ code' = [code EXCEPT ![b] = Absent]
    /\ Goes(b, "compiled")
    /\ UNCHANGED <<env, tools, version, manifest, machine, embedded,
                   authored>>

\* Where a build goes when its compiler exits with an error: the source is
\* missing or wrong, or the disk is full with the output half written.
OnFailure_Ignored(b) == Goes(b, "compiled")
OnFailure(b) == Exits(b)

CompileFails(b) ==
    /\ \/ pc[b] \in {"compiling", "writing", "elsewhere"}
       \/ pc[b] = "compile" /\ (lang[b] = "rust" => lock = Free)
    /\ lock' = Unlocked(b)
    /\ code' = [code EXCEPT ![b] = Absent]
    /\ OnFailure(b)
    /\ UNCHANGED <<env, tools, version, manifest, artifact, machine, embedded,
                   authored>>

\* The driver's result: rust checks that the artifact it names is there.
Located(b) ==
    /\ pc[b] = "compiled"
    /\ \/ lang[b] = "rust" /\ artifact["rust"] = Absent /\ Exits(b)
       \/ /\ artifact[lang[b]] # Absent
          /\ Goes(b, IF aot THEN "wamrc" ELSE "read")
    /\ UNCHANGED <<env, disk, code, embedded, authored>>

\* compileAot: wamrc reads the artifact, if it is whole, and writes the
\* machine code beside it.
OpenMachine(b) ==
    /\ pc[b] = "wamrc"
    /\ artifact[lang[b]] \in Code
    /\ code' = [code EXCEPT ![b] = artifact[lang[b]]]
    /\ machine' = [machine EXCEPT ![lang[b]] = Torn]
    /\ Goes(b, "emitting")
    /\ UNCHANGED <<env, tools, version, manifest, artifact, lock, embedded,
                   authored>>

CloseMachine(b) ==
    /\ pc[b] = "emitting"
    /\ machine' = [machine EXCEPT ![lang[b]] = code[b]]
    /\ code' = [code EXCEPT ![b] = Absent]
    /\ Goes(b, "readMachine")
    /\ UNCHANGED <<env, tools, version, manifest, artifact, lock, embedded,
                   authored>>

\* What a build embeds when wamrc fails: the interpreter's artifact.
OnNoMachine_Embedded == "readMachine"
OnNoMachine == "read"

MachineFails(b) ==
    /\ pc[b] \in {"wamrc", "emitting"}
    /\ code' = [code EXCEPT ![b] = Absent]
    /\ Goes(b, OnNoMachine)
    /\ UNCHANGED <<env, disk, embedded, authored>>

\* toBase64 or embedWasm: the file is read again, by its name.
Embed(b) ==
    /\ pc[b] \in {"read", "readMachine"}
    /\ embedded' = IF pc[b] = "read" THEN artifact[lang[b]]
                   ELSE machine[lang[b]]
    /\ Exits(b)
    /\ UNCHANGED <<env, disk, code, authored>>

----------------------------------------------------------------------------
(* The developer.                                                          *)

Edit(f) ==
    /\ version[f] < MaxEdits
    /\ version' = [version EXCEPT ![f] = @ + 1]
    /\ UNCHANGED <<env, tools, manifest, artifact, machine, lock,
                   pc, job, code, embedded, authored>>

\* The developer writes a Cargo.toml, or edits the generated one.
EditManifest ==
    /\ \E m \in Manifest : language[m.path] = "rust" /\ manifest' = m
    /\ authored' = IF \E b \in Builds : pc[b] = "manifest"
                   THEN "raced" ELSE "kept"
    /\ UNCHANGED <<env, tools, version, artifact, machine, lock,
                   pc, job, code, embedded>>

Step(b) ==
    \/ Inspect(b) \/ ApplyFixes(b) \/ CheckCrate(b) \/ WriteManifest(b)
    \/ Compile(b) \/ OpenOutput(b) \/ CloseOutput(b) \/ CompileFails(b)
    \/ Located(b) \/ OpenMachine(b) \/ CloseMachine(b) \/ MachineFails(b)
    \/ Embed(b)

Next ==
    \/ \E b \in Builds : Transform(b) \/ Command(b) \/ Step(b)
    \/ \E f \in Files : Edit(f)
    \/ EditManifest

Spec == Init /\ [][Next]_vars

----------------------------------------------------------------------------
(* Properties.                                                             *)

TypeOK ==
    /\ language \in [Files -> Buildable \cup {"planned"}]
    /\ tools \in [Buildable -> {"ready", "fixable", "missing"}]
    /\ version \in [Files -> 0 .. MaxEdits]
    /\ manifest \in Manifest \cup {Absent}
    /\ artifact \in [Buildable -> Content]
    /\ machine \in [Buildable -> Content]
    /\ lock \in Builds \cup {Free}
    /\ aot \in BOOLEAN
    /\ authored \in {"none", "kept", "raced", "lost"}
    /\ pc \in [Builds -> {"idle", "inspect", "reinspect", "fix", "crate",
           "manifest", "compile", "compiling", "writing", "elsewhere",
           "compiled", "wamrc", "emitting", "read", "readMachine"}]
    /\ lang \in [Builds -> Buildable \cup {"none"}]
    /\ began \in [Builds -> 0 .. MaxEdits]
    /\ foreign \in [Builds -> BOOLEAN]
    /\ overlapped \in [Builds -> BOOLEAN]
    /\ entry \in [Builds -> Files \cup {NoFile}]
    /\ code \in [Builds -> Code \cup {Absent}]
    /\ embedded \in Content

\* What a build embeds is whole, was compiled from the source it was asked
\* for, and is not older than that source was when the build began: neither
\* a failed compiler or wamrc, nor an artifact an earlier build or another
\* entry left under the same name, gets code of before into the bundle.
\* Excepted are builds that overlap in the directory and name one artifact
\* - all but those of Rust do (zig.ts:11, clang.ts:24, go.ts:12) - which they
\* share without a lock, and a manifest that names another entry or package,
\* which the driver never compares with its request.
FreshInTurn ==
    [][\A b \in Builds :
           pc[b] \in {"read", "readMachine"} /\ pc'[b] = "idle" =>
               \/ overlapped[b] \/ foreign[b]
               \/ /\ embedded' \in Code
                  /\ embedded'.file = EntryFor(lang[b], entry[b])
                  /\ embedded'.version >= began[b]]_vars

\* "Edit freely, it will not be overwritten" (the generated manifest): what
\* the developer last wrote in Cargo.toml is there, whatever builds ran, but
\* for a build that had already found no manifest when it was written.
AuthoredIsKept == authored # "lost"
==============================================================================
