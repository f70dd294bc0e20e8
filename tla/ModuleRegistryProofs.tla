----------------------- MODULE ModuleRegistryProofs -----------------------
(***************************************************************************)
(* The tables of loaded modules, for any ids, workers, loads and calls:    *)
(* nothing that is attached is lost or outlives the core, and - as long as *)
(* no id is loaded while it is loaded - the tables agree and a call loses  *)
(* its module to an unload only.                                           *)
(***************************************************************************)
EXTENDS ModuleRegistry, TLAPS

Calling(t) == pc[t] \in {"found", "deref", "entry", "guest"}

\* A thread holds the module it works on, which was loaded under its target.
Holding ==
    \A t \in Threads :
        \/ module[t] = None /\ target[t] = None /\ pc[t] \in {"idle", "fault"}
        \/ /\ module[t] # None
           /\ target[t] # None
           /\ idOf[module[t]] = target[t]
           /\ pc[t] # "idle"

\* A module is registered under the id it was loaded for.
Named ==
    /\ \A i \in Ids : registry[i] # None => idOf[registry[i]] = i
    /\ \A m \in attached \cup linked : idOf[m] # None
    /\ attached \cap linked = {}

\* A module that is not registered yet is its loader's alone.
Private ==
    \A t \in Threads : pc[t] = "register" =>
        /\ module[t] \in attached
        /\ \A i \in Ids : registry[i] # module[t]
        /\ \A u \in Threads : u # t => module[u] # module[t]

\* Only a call that has looked its entry up holds one.
Looked ==
    \A t \in Threads :
        /\ pc[t] \in {"idle", "register", "found", "deref"} => entry[t] = None
        /\ pc[t] = "entry" => entry[t] # None
        /\ pc[t] = "deref" => module[t] \notin linked

\* An instance in the runtime's map has a module that will unload it.
Owned ==
    \A i \in Ids : runtime[i] # None => \E m \in attached : idOf[m] = i

NoTables ==
    core \in {"dying", "gone"} => \A i \in Ids : registry[i] = None

RInv ==
    /\ TypeOK /\ Holding /\ Named /\ Private /\ Looked /\ Owned /\ NoTables
    /\ AttachedWhileHeld /\ NothingOutlivesCore

\* What holds besides as long as no id is loaded while it is loaded.  The module
\* about to be registered replaces nothing.
Vacant ==
    \A t \in Threads : pc[t] = "register" =>
        /\ registry[target[t]] = None
        /\ \A u \in Threads :
               pc[u] = "register" /\ target[u] = target[t] => u = t

\* While there are tables, a module that is not disposed of is registered or
\* about to be, and the entry under its id is its own.
Current ==
    TablesExist =>
        \A m \in attached :
            /\ \/ registry[idOf[m]] = m
               \/ \E t \in Threads : pc[t] = "register" /\ module[t] = m
            /\ runtime[idOf[m]] = m

\* Nobody takes the module of a call away but an unload.
Undisturbed ==
    \A t \in Threads : Calling(t) /\ ~disturbed[t] =>
        /\ TablesExist => registry[target[t]] = module[t]
        /\ module[t] \in attached \cup linked
        /\ module[t] \in attached => runtime[target[t]] # None

\* Two calls to one id are to the same module, but for a disposed one.
OneModule ==
    \A t, u \in Threads :
        /\ Calling(t) /\ Calling(u) /\ target[t] = target[u]
        /\ module[t] \in attached /\ module[u] \in attached
        => module[t] = module[u]

FaultsExplained ==
    \A t \in Threads : pc[t] = "fault" => disturbed[t] \/ core # "up"

Quiet ==
    /\ Vacant /\ Current /\ Undisturbed /\ OneModule
    /\ FaultsExplained /\ NoSpuriousLoss

CInv == RInv /\ (~reloaded => Quiet)

----------------------------------------------------------------------------
(* Disposing of a module.                                                  *)

LEMMA Disposed ==
    ASSUME TypeOK, Named, Owned, NEW m \in Loads, Dispose(m)
    PROVE  /\ runtime' \in [Ids -> Loads \cup {None}]
           /\ attached' = attached \ {m}
           /\ \A i \in Ids :
                  \/ runtime'[i] = runtime[i]
                  \/ runtime'[i] = None /\ m \in attached /\ idOf[m] = i
           /\ \A i \in Ids :
                  runtime'[i] # None => \E k \in attached' : idOf[k] = i
<1>1. m \in attached => idOf[m] \in Ids
  BY DEF TypeOK, Named
<1>2. /\ runtime' \in [Ids -> Loads \cup {None}]
      /\ \A i \in Ids :
             \/ runtime'[i] = runtime[i]
             \/ runtime'[i] = None /\ m \in attached /\ idOf[m] = i
      /\ m \in attached => runtime'[idOf[m]] = None
  BY <1>1 DEF TypeOK, Dispose
<1>3. attached' = attached \ {m}
  BY DEF Dispose
<1>4. \A i \in Ids :
          runtime'[i] # None => \E k \in attached' : idOf[k] = i
  BY <1>2, <1>3 DEF Owned
<1> QED
  BY <1>2, <1>3, <1>4


----------------------------------------------------------------------------
(* Steps within a thread.                                                  *)

\* The tables and the objects stay as they are, and nobody lets go of one.
LEMMA TablesAtRest ==
    ASSUME RInv, UNCHANGED <<registry, runtime, idOf, linked, attached, core>>,
           \A t \in Threads : module[t] # None => module'[t] = module[t]
    PROVE  Named' /\ Owned' /\ NoTables' /\ AttachedWhileHeld'
<1>1. Named' /\ Owned'
  BY DEF RInv, Named, Owned
<1>2. NoTables'
  BY DEF RInv, NoTables
<1>3. AttachedWhileHeld'
  BY RegistryAssumption DEF RInv, TypeOK, AttachedWhileHeld
<1> QED
  BY <1>1, <1>2, <1>3

LEMMA FindModuleKeeps ==
    ASSUME RInv, NEW t \in Threads, NEW i \in Ids, FindModule(t, i)
    PROVE  RInv'
<1> USE RegistryAssumption DEF FindModule
<1>1. TypeOK'
  BY DEF RInv, TypeOK, PC, Result, Counted
<1>2. pc[t] = "idle" /\ module[t] = None /\ entry[t] = None
  BY DEF RInv, Holding, Looked
<1>3. Holding'
  BY <1>2 DEF RInv, TypeOK, Holding, Named
<1>4. Private'
  BY <1>2 DEF RInv, TypeOK, Private
<1>5. Looked' /\ NothingOutlivesCore'
  BY <1>2 DEF RInv, TypeOK, Looked, NothingOutlivesCore,
              TablesExist
<1>6. \A u \in Threads : module[u] # None => module'[u] = module[u]
  BY <1>2 DEF RInv, TypeOK
<1>7. Named' /\ Owned' /\ NoTables' /\ AttachedWhileHeld'
  BY <1>6, TablesAtRest
<1> QED
  BY <1>1, <1>3, <1>4, <1>5, <1>7 DEF RInv

LEMMA EnterLinkedKeeps ==
    ASSUME RInv, NEW t \in Threads, EnterLinked(t)
    PROVE  RInv'
<1> USE RegistryAssumption DEF EnterLinked
<1>1. TypeOK'
  BY DEF RInv, TypeOK, PC
<1>2. Holding' /\ Private'
  BY DEF RInv, TypeOK, Holding, Private
<1>3. Looked'
  BY DEF RInv, TypeOK, Looked
<1>4. NothingOutlivesCore'
  BY DEF RInv, NothingOutlivesCore
<1> QED
  BY <1>1, <1>2, <1>3, <1>4, TablesAtRest DEF RInv

LEMMA TestRuntimeKeeps ==
    ASSUME RInv, NEW t \in Threads, TestRuntime(t)
    PROVE  RInv'
<1> USE RegistryAssumption DEF TestRuntime
<1>1. TypeOK'
  BY DEF RInv, TypeOK, PC
<1>2. Holding' /\ Private'
  BY DEF RInv, TypeOK, Holding, Private
<1>3. Looked'
  BY DEF RInv, TypeOK, Looked, Named
<1>4. NothingOutlivesCore'
  BY DEF RInv, NothingOutlivesCore
<1> QED
  BY <1>1, <1>2, <1>3, <1>4, TablesAtRest DEF RInv

LEMMA FaultKeeps ==
    ASSUME RInv, NEW t \in Threads, Fault(t)
    PROVE  RInv'
<1> USE RegistryAssumption DEF Fault
<1>1. TypeOK'
  BY DEF RInv, TypeOK, PC
<1>2. Holding' /\ Private'
  BY DEF RInv, TypeOK, Holding, Private
<1>3. Looked'
  BY DEF RInv, TypeOK, Looked
<1>4. NothingOutlivesCore'
  BY DEF RInv, NothingOutlivesCore
<1> QED
  BY <1>1, <1>2, <1>3, <1>4, TablesAtRest DEF RInv

LEMMA FindEntryKeeps ==
    ASSUME RInv, NEW t \in Threads, FindEntry(t)
    PROVE  RInv'
<1> USE RegistryAssumption DEF FindEntry
<1>1. TypeOK'
  <2>1. runtime[target[t]] \in Loads
    BY DEF RInv, TypeOK, Holding
  <2> QED
    BY <2>1 DEF RInv, TypeOK, PC
<1>2. Holding' /\ Private'
  BY DEF RInv, TypeOK, Holding, Private
<1>3. Looked'
  BY DEF RInv, TypeOK, Looked
<1>4. NothingOutlivesCore'
  BY DEF RInv, NothingOutlivesCore
<1> QED
  BY <1>1, <1>2, <1>3, <1>4, TablesAtRest DEF RInv

LEMMA EnterKeeps ==
    ASSUME RInv, NEW t \in Threads, Enter(t)
    PROVE  RInv'
<1> USE RegistryAssumption DEF Enter
<1>1. TypeOK'
  BY DEF RInv, TypeOK, PC
<1>2. Holding' /\ Private'
  BY DEF RInv, TypeOK, Holding, Private
<1>3. Looked'
  BY DEF RInv, TypeOK, Looked
<1>4. NothingOutlivesCore'
  BY DEF RInv, NothingOutlivesCore
<1> QED
  BY <1>1, <1>2, <1>3, <1>4, TablesAtRest DEF RInv

LEMMA UseDestroyedKeeps ==
    ASSUME RInv, NEW t \in Threads, UseDestroyed(t)
    PROVE  RInv'
<1> USE RegistryAssumption DEF UseDestroyed
<1>1. TypeOK'
  BY DEF RInv, TypeOK, PC
<1>2. Holding' /\ Private'
  BY DEF RInv, TypeOK, Holding, Private
<1>3. Looked'
  BY DEF RInv, TypeOK, Looked
<1>4. NothingOutlivesCore'
  BY DEF RInv, NothingOutlivesCore
<1> QED
  BY <1>1, <1>2, <1>3, <1>4, TablesAtRest DEF RInv

----------------------------------------------------------------------------
(* Loading, unloading and the end of the core.                             *)

LEMMA RuntimeLoadFailsKeeps ==
    ASSUME RInv, NEW t \in Threads, RuntimeLoadFails(t)
    PROVE  RInv'
<1> USE DEF RuntimeLoadFails
<1>1. TypeOK'
  BY DEF RInv, TypeOK, Result
<1>2. Holding' /\ Private' /\ Looked'
  BY DEF RInv, Holding, Private, Looked
<1>3. NothingOutlivesCore'
  BY DEF RInv, NothingOutlivesCore
<1> QED
  BY <1>1, <1>2, <1>3, TablesAtRest DEF RInv

LEMMA RuntimeLoadKeeps ==
    ASSUME RInv, NEW t \in Threads, NEW i \in Ids, NEW n \in Loads,
           RuntimeLoad(t, i, n)
    PROVE  RInv'
<1> USE RegistryAssumption DEF RuntimeLoad
\* Nobody has seen n before.
<1>1. /\ n \notin attached \cup linked
      /\ \A j \in Ids : registry[j] # n
      /\ \A u \in Threads : module[u] # n
  BY DEF RInv, TypeOK, Named, Holding, IsNext
<1>2. TypeOK'
  BY DEF RInv, TypeOK, PC
<1>3. Holding'
  BY <1>1 DEF RInv, TypeOK, Holding
<1>4. Named' /\ Owned'
  BY <1>1 DEF RInv, TypeOK, Named, Owned
<1>5. Private'
  BY <1>1 DEF RInv, TypeOK, Private
<1>6. Looked'
  BY DEF RInv, TypeOK, Looked
<1>7. NoTables' /\ NothingOutlivesCore'
  BY DEF RInv, NoTables, NothingOutlivesCore, WorkersRun
<1>8. AttachedWhileHeld'
  BY <1>1 DEF RInv, TypeOK, Holding, AttachedWhileHeld
<1> QED
  BY <1>2, <1>3, <1>4, <1>5, <1>6, <1>7, <1>8 DEF RInv

LEMMA UnloadKeeps ==
    ASSUME RInv, NEW i \in Ids, Unload(i)
    PROVE  RInv'
<1> USE RegistryAssumption DEF Unload, Erased
<1>1. /\ runtime' \in [Ids -> Loads \cup {None}]
      /\ attached' = attached \ {registry[i]}
      /\ \A j \in Ids :
             runtime'[j] # None => \E k \in attached' : idOf[k] = j
  BY Disposed DEF RInv, TypeOK
<1>2. TypeOK'
  BY <1>1 DEF RInv, TypeOK
<1>3. Named' /\ Owned'
  BY <1>1 DEF RInv, TypeOK, Named, Owned
<1>4. Holding' /\ Private' /\ Looked'
  BY <1>1 DEF RInv, TypeOK, Holding, Private, Looked
<1>5. NothingOutlivesCore' /\ NoTables'
  BY DEF RInv, TypeOK, NothingOutlivesCore, NoTables
<1>6. AttachedWhileHeld'
  BY <1>1 DEF RInv, TypeOK, Named, AttachedWhileHeld
<1> QED
  BY <1>2, <1>3, <1>4, <1>5, <1>6 DEF RInv

LEMMA ClearModulesKeeps ==
    ASSUME RInv, ClearModules
    PROVE  RInv'
<1> USE RegistryAssumption DEF ClearModules
<1>1. TypeOK'
  BY DEF RInv, TypeOK, Core
<1>2. Named' /\ Owned'
  BY DEF RInv, TypeOK, Named, Owned
<1>3. Holding' /\ Private' /\ Looked'
  BY DEF RInv, TypeOK, Holding, Private, Looked
<1>4. NothingOutlivesCore' /\ NoTables'
  BY DEF RInv, NothingOutlivesCore, NoTables
<1>5. AttachedWhileHeld'
  BY DEF RInv, TypeOK, Named, AttachedWhileHeld
<1> QED
  BY <1>1, <1>2, <1>3, <1>4, <1>5 DEF RInv

LEMMA DestroyTablesKeeps ==
    ASSUME RInv, DestroyTables
    PROVE  RInv'
<1> USE RegistryAssumption DEF DestroyTables
<1>1. TypeOK'
  BY DEF RInv, TypeOK, Core
<1>2. Named' /\ Owned'
  BY DEF RInv, TypeOK, Named, Owned
<1>3. Holding' /\ Private' /\ Looked'
  BY DEF RInv, TypeOK, Holding, Private, Looked
<1>4. NothingOutlivesCore' /\ NoTables'
  BY DEF RInv, NothingOutlivesCore, NoTables
<1>5. AttachedWhileHeld'
  BY DEF RInv, TypeOK, Named, AttachedWhileHeld
<1> QED
  BY <1>1, <1>2, <1>3, <1>4, <1>5 DEF RInv

LEMMA DestroyRuntimeKeeps ==
    ASSUME RInv, DestroyRuntime
    PROVE  RInv'
<1> USE RegistryAssumption DEF DestroyRuntime
<1>1. TypeOK'
  BY DEF RInv, TypeOK, Core
<1>2. Named' /\ Owned'
  BY DEF RInv, Named, Owned
<1>3. Holding' /\ Private' /\ Looked'
  BY DEF RInv, Holding, Private, Looked
<1>4. NoTables' /\ AttachedWhileHeld'
  BY DEF RInv, NoTables, AttachedWhileHeld
\* Nobody holds a module, none is registered: none is left.
<1>5. NothingOutlivesCore'
  <2>1. \A t \in Threads : pc[t] = "idle" /\ module[t] = None
    BY DEF RInv, Holding, PoolJoined
  <2>2. \A m \in attached : m # None /\ idOf[m] \in Ids
    BY DEF RInv, TypeOK, Named
  <2>3. attached = {}
    BY <2>1, <2>2 DEF RInv, NoTables, AttachedWhileHeld
  <2> QED
    BY <2>1, <2>3 DEF NothingOutlivesCore
<1> QED
  BY <1>1, <1>2, <1>3, <1>4, <1>5 DEF RInv

----------------------------------------------------------------------------
(* Letting go of a module.                                                 *)

\* The three steps in which somebody lets go of m.
LEMMA Released ==
    ASSUME TypeOK, Named, Owned,
           NEW m \in Loads \cup {None}, NEW held \in BOOLEAN, Release(m, held)
    PROVE  /\ runtime' \in [Ids -> Loads \cup {None}]
           /\ attached' \subseteq attached
           /\ \A k \in attached \ attached' : k = m /\ ~held
           /\ ~held => m \notin attached'
           /\ \A i \in Ids :
                  \/ runtime'[i] = runtime[i]
                  \/ /\ runtime'[i] = None /\ ~held
                     /\ m \in attached /\ idOf[m] = i
           /\ \A i \in Ids :
                  runtime'[i] # None => \E k \in attached' : idOf[k] = i
<1> USE RegistryAssumption
<1>1. CASE m = None \/ held
  BY <1>1 DEF Release, TypeOK, Owned
<1>2. CASE m # None /\ ~held
  BY <1>2, Disposed DEF Release
<1> QED
  BY <1>1, <1>2

LEMMA RegisterKeeps ==
    ASSUME RInv, NEW t \in Threads, Register(t)
    PROVE  RInv'
<1> USE RegistryAssumption
<1> DEFINE i == target[t]
           m == module[t]
           old == registry[i]
           held == \E u \in Threads : module[u] = old
<1>1. /\ pc[t] = "register" /\ core \in {"up", "cleared"}
      /\ i \in Ids /\ m \in Loads /\ idOf[m] = i
      /\ old \in Loads \cup {None} /\ held \in BOOLEAN
      /\ Release(old, held)
      /\ registry' = [registry EXCEPT ![i] = m]
      /\ module' = [module EXCEPT ![t] = None]
      /\ target' = [target EXCEPT ![t] = None]
      /\ result' = [result EXCEPT ![t] = "answered"]
      /\ pc' = [pc EXCEPT ![t] = "idle"]
      /\ UNCHANGED <<idOf, linked, entry, totalCalls, core, disturbed,
                     reloaded>>
  BY DEF RInv, TypeOK, Holding, Register, TablesExist
<1>2. /\ runtime' \in [Ids -> Loads \cup {None}]
      /\ attached' \subseteq attached
      /\ \A k \in attached \ attached' : k = old /\ ~held
      /\ ~held => old \notin attached'
      /\ \A j \in Ids :
             runtime'[j] # None => \E k \in attached' : idOf[k] = j
  <2> HIDE DEF i, m, old, held
  <2> QED
    BY <1>1, Released DEF RInv
<1>3. /\ m \in attached
      /\ \A j \in Ids : registry[j] # m
      /\ \A u \in Threads : u # t => module[u] # m
  BY <1>1 DEF RInv, Private
<1>4. old # None => idOf[old] = i
  BY <1>1 DEF RInv, Named
<1>5. TypeOK'
  BY <1>1, <1>2 DEF RInv, TypeOK, PC, Result
<1>6. Holding'
  BY <1>1 DEF RInv, TypeOK, Holding
<1>7. Named' /\ Owned'
  BY <1>1, <1>2 DEF RInv, TypeOK, Named, Owned
<1>8. Private'
  BY <1>1, <1>2, <1>3 DEF RInv, TypeOK, Private
<1>9. Looked' /\ NothingOutlivesCore' /\ NoTables'
  BY <1>1 DEF RInv, TypeOK, Looked, NothingOutlivesCore,
              NoTables
<1>10. AttachedWhileHeld'
  <2>1. ASSUME NEW j \in Ids, registry'[j] # None
        PROVE  registry'[j] \in attached' \cup linked'
    BY <1>1, <1>2, <1>3, <1>4, <2>1 DEF RInv, TypeOK, Named, AttachedWhileHeld
  <2>2. ASSUME NEW k \in attached'
        PROVE  \/ registry'[idOf'[k]] = k
               \/ \E u \in Threads : module'[u] = k
    BY <1>1, <1>2, <1>3, <2>2 DEF RInv, TypeOK, Named, AttachedWhileHeld
  <2> QED
    BY <2>1, <2>2 DEF AttachedWhileHeld
<1> QED
  BY <1>5, <1>6, <1>7, <1>8, <1>9, <1>10 DEF RInv

LEMMA LoadLinkedKeeps ==
    ASSUME RInv, NEW i \in Ids, NEW n \in Loads, LoadLinked(i, n)
    PROVE  RInv'
<1> USE RegistryAssumption
<1> DEFINE old == registry[i]
           held == \E u \in Threads : module[u] = old
<1>1. /\ core = "up" /\ idOf[n] = None
      /\ old \in Loads \cup {None} /\ held \in BOOLEAN
      /\ Release(old, held)
      /\ registry' = [registry EXCEPT ![i] = n]
      /\ linked' = linked \cup {n}
      /\ idOf' = [idOf EXCEPT ![n] = i]
      /\ reloaded' \in BOOLEAN
      /\ UNCHANGED <<pc, target, module, entry, result, totalCalls, core,
                     disturbed>>
  BY DEF RInv, TypeOK, LoadLinked, IsNext
<1>2. /\ runtime' \in [Ids -> Loads \cup {None}]
      /\ attached' \subseteq attached
      /\ \A k \in attached \ attached' : k = old /\ ~held
      /\ ~held => old \notin attached'
      /\ \A j \in Ids :
             runtime'[j] # None => \E k \in attached' : idOf[k] = j
  <2> HIDE DEF old, held
  <2> QED
    BY <1>1, Released DEF RInv
\* Nobody has seen n before.
<1>3. /\ n \notin attached \cup linked
      /\ \A j \in Ids : registry[j] # n
      /\ \A u \in Threads : module[u] # n
  BY <1>1 DEF RInv, TypeOK, Named, Holding
<1>4. TypeOK'
  BY <1>1, <1>2 DEF RInv, TypeOK
<1>5. Holding' /\ Looked'
  BY <1>1, <1>3 DEF RInv, TypeOK, Holding, Looked
<1>6. Named' /\ Owned'
  BY <1>1, <1>2, <1>3 DEF RInv, TypeOK, Named, Owned
<1>7. Private'
  BY <1>1, <1>2, <1>3 DEF RInv, TypeOK, Private
<1>8. NoTables' /\ NothingOutlivesCore'
  BY <1>1 DEF NoTables, NothingOutlivesCore
<1>9. AttachedWhileHeld'
  <2>1. ASSUME NEW j \in Ids, registry'[j] # None
        PROVE  registry'[j] \in attached' \cup linked'
    BY <1>1, <1>2, <1>3, <2>1 DEF RInv, TypeOK, Named, AttachedWhileHeld
  <2>2. ASSUME NEW k \in attached'
        PROVE  \/ registry'[idOf'[k]] = k
               \/ \E u \in Threads : module'[u] = k
    BY <1>1, <1>2, <1>3, <2>2 DEF RInv, TypeOK, Named, AttachedWhileHeld
  <2> QED
    BY <2>1, <2>2 DEF AttachedWhileHeld
<1> QED
  BY <1>4, <1>5, <1>6, <1>7, <1>8, <1>9 DEF RInv

\* A call ends in any of the ways it can.
LEMMA FinishKeeps ==
    ASSUME RInv, NEW t \in Threads, NEW r \in Result, Calling(t),
           Finish(t, r)
    PROVE  RInv'
<1> USE RegistryAssumption
<1> DEFINE m == module[t]
           held == HeldByOther(t, m) \/ registry[target[t]] = m
<1>1. /\ core # "gone"
      /\ m \in Loads \cup {None} /\ held \in BOOLEAN
      /\ m \in Loads /\ target[t] = idOf[m] /\ idOf[m] \in Ids
      /\ Release(m, held)
      /\ module' = [module EXCEPT ![t] = None]
      /\ target' = [target EXCEPT ![t] = None]
      /\ entry' = [entry EXCEPT ![t] = None]
      /\ pc' = [pc EXCEPT ![t] = "idle"]
      /\ result' = [result EXCEPT ![t] = r]
      /\ UNCHANGED <<registry, idOf, linked, totalCalls, core, disturbed,
                     reloaded>>
  BY DEF RInv, TypeOK, Holding, Calling, Finish, HeldByOther,
         NothingOutlivesCore
<1>2. /\ runtime' \in [Ids -> Loads \cup {None}]
      /\ attached' \subseteq attached
      /\ \A k \in attached \ attached' : k = m /\ ~held
      /\ ~held => m \notin attached'
      /\ \A j \in Ids :
             runtime'[j] # None => \E k \in attached' : idOf[k] = j
  <2> HIDE DEF m, held
  <2> QED
    BY <1>1, Released DEF RInv
<1>3. TypeOK'
  BY <1>1, <1>2 DEF RInv, TypeOK, PC
<1>4. Holding' /\ Looked'
  BY <1>1 DEF RInv, TypeOK, Holding, Looked
<1>6. Named' /\ Owned'
  BY <1>1, <1>2 DEF RInv, TypeOK, Named, Owned
<1>7. Private'
  BY <1>1, <1>2 DEF RInv, TypeOK, Private, Calling
<1>8. NoTables' /\ NothingOutlivesCore'
  BY <1>1 DEF RInv, NoTables, NothingOutlivesCore
<1>9. AttachedWhileHeld'
  <2>1. ASSUME NEW j \in Ids, registry'[j] # None
        PROVE  registry'[j] \in attached' \cup linked'
    BY <1>1, <1>2, <2>1 DEF RInv, TypeOK, Named, AttachedWhileHeld
  <2>2. ASSUME NEW k \in attached'
        PROVE  \/ registry'[idOf'[k]] = k
               \/ \E u \in Threads : module'[u] = k
    BY <1>1, <1>2, <2>2 DEF RInv, TypeOK, Named, AttachedWhileHeld, HeldByOther
  <2> QED
    BY <2>1, <2>2 DEF AttachedWhileHeld
<1> QED
  BY <1>3, <1>4, <1>6, <1>7, <1>8, <1>9 DEF RInv

----------------------------------------------------------------------------
(* What holds whatever is loaded.                                          *)

LEMMA RInvInit == Init => RInv
<1> SUFFICES ASSUME Init PROVE RInv
  OBVIOUS
<1> USE RegistryAssumption DEF Init
<1>1. totalCalls \in 0 .. MaxCalls
  OBVIOUS
<1>2. TypeOK
  BY <1>1 DEF TypeOK, PC, Result, Core
<1>3. Holding /\ Named /\ Private /\ Looked /\ Owned /\ NoTables
  BY DEF Holding, Named, Private, Looked, Owned, NoTables
<1>4. AttachedWhileHeld /\ NothingOutlivesCore
  BY DEF AttachedWhileHeld, NothingOutlivesCore
<1> QED
  BY <1>2, <1>3, <1>4 DEF RInv

LEMMA RInvStutter == RInv /\ UNCHANGED vars => RInv'
<1> SUFFICES ASSUME RInv, UNCHANGED vars PROVE RInv'
  OBVIOUS
<1> USE DEF vars
<1>1. TypeOK'
  BY DEF RInv, TypeOK
<1>2. Holding' /\ Private' /\ Looked'
  BY DEF RInv, Holding, Private, Looked
<1>3. NothingOutlivesCore'
  BY DEF RInv, NothingOutlivesCore
<1> QED
  BY <1>1, <1>2, <1>3, TablesAtRest DEF RInv

LEMMA RInvNext == RInv /\ [Next]_vars => RInv'
<1> SUFFICES ASSUME RInv, [Next]_vars PROVE RInv'
  OBVIOUS
<1>1. ASSUME NEW t \in Threads, CallStep(t) \/ RejectArgs(t) PROVE RInv'
  <2>1. CASE Detached(t) \/ EntryGone(t) \/ RejectArgs(t) \/ Return(t)
    <3>1. PICK r \in Result : Finish(t, r)
      BY <2>1 DEF Detached, EntryGone, RejectArgs, Return, Result
    <3>2. Calling(t)
      BY <2>1 DEF Detached, EntryGone, RejectArgs, Return, Calling
    <3> QED
      BY <3>1, <3>2, FinishKeeps
  <2>2. CASE EnterLinked(t) \/ TestRuntime(t) \/ Fault(t) \/ FindEntry(t)
               \/ Enter(t)
    BY <2>2, EnterLinkedKeeps, TestRuntimeKeeps, FaultKeeps, FindEntryKeeps,
       EnterKeeps
  <2> QED
    BY <1>1, <2>1, <2>2 DEF CallStep
<1>2. ASSUME NEW t \in Threads,
             RuntimeLoadFails(t) \/ Register(t) \/ UseDestroyed(t)
      PROVE  RInv'
  BY <1>2, RuntimeLoadFailsKeeps, RegisterKeeps, UseDestroyedKeeps
<1>3. ASSUME NEW t \in Threads, NEW i \in Ids, NEW n \in Loads,
             RuntimeLoad(t, i, n)
      PROVE  RInv'
  BY <1>3, RuntimeLoadKeeps
<1>4. ASSUME NEW i \in Ids, NEW n \in Loads, LoadLinked(i, n)
      PROVE  RInv'
  BY <1>4, LoadLinkedKeeps
<1>5. ASSUME NEW i \in Ids, Unload(i) PROVE RInv'
  BY <1>5, UnloadKeeps
<1>6. ASSUME NEW t \in Threads, NEW i \in Ids, FindModule(t, i) PROVE RInv'
  BY <1>6, FindModuleKeeps
<1>7. CASE ClearModules \/ Destructor
  BY <1>7, ClearModulesKeeps, DestroyTablesKeeps, DestroyRuntimeKeeps
  DEF Destructor
<1>8. CASE Finished \/ UNCHANGED vars
  BY <1>8, RInvStutter DEF Finished
<1> QED
  BY <1>1, <1>2, <1>3, <1>4, <1>5, <1>6, <1>7, <1>8 DEF Next

LEMMA RInvAlways == Spec => []RInv
  BY RInvInit, RInvNext, PTL DEF Spec

----------------------------------------------------------------------------
(* As long as no id is loaded while it is loaded.                          *)

LEMMA RuntimeLoadQuiet ==
    ASSUME RInv, RInv', Quiet, ~reloaded',
           NEW t \in Threads, NEW i \in Ids, NEW n \in Loads,
           RuntimeLoad(t, i, n)
    PROVE  Quiet'
<1> USE RegistryAssumption
<1>1. ~Occupied(i)
  BY Zenon DEF RuntimeLoad
<1> USE DEF RuntimeLoad, TablesExist, Calling
<1>2. Vacant'
  BY <1>1 DEF RInv, Quiet, TypeOK, Holding, Vacant, Occupied
<1>3. Current'
  BY <1>1 DEF RInv, Quiet, TypeOK, Named, Holding, Current, IsNext, Occupied
<1>4. Undisturbed'
  BY DEF RInv, Quiet, TypeOK, Holding, Named, Undisturbed, Looked
<1>5. OneModule'
  <2>1. \A u \in Threads : Calling(u)' => Calling(u) /\ u # t
    BY DEF RInv, TypeOK
  <2>2. \A u \in Threads : Calling(u) => module[u] # n
    BY DEF RInv, TypeOK, Holding, IsNext
  <2> QED
    BY <2>1, <2>2 DEF RInv, Quiet, TypeOK, OneModule
<1>6. FaultsExplained' /\ NoSpuriousLoss'
  BY DEF RInv, Quiet, TypeOK, FaultsExplained, NoSpuriousLoss
<1> QED
  BY <1>2, <1>3, <1>4, <1>5, <1>6 DEF Quiet

LEMMA UnloadQuiet ==
    ASSUME RInv, RInv', Quiet, NEW i \in Ids, Unload(i)
    PROVE  Quiet'
<1> USE RegistryAssumption DEF Unload, TablesExist, Calling, Erased
<1> DEFINE m == registry[i]
<1>1. m \in Loads /\ idOf[m] = i /\ Dispose(m)
  BY DEF RInv, TypeOK, Named
<1>2. /\ attached' = attached \ {m}
      /\ \A j \in Ids :
             \/ runtime'[j] = runtime[j]
             \/ runtime'[j] = None /\ m \in attached /\ idOf[m] = j
  <2> HIDE DEF m, Unload
  <2> QED
    BY <1>1, Disposed DEF RInv
<1>3. Vacant'
  BY DEF RInv, Quiet, TypeOK, Holding, Vacant
<1>4. Current'
  BY <1>1, <1>2 DEF RInv, Quiet, TypeOK, Named, Current
<1>5. Undisturbed'
  <2>1. ASSUME NEW t \in Threads, Calling(t), ~disturbed'[t]
        PROVE  target[t] \in Ids /\ target[t] # i /\ ~disturbed[t]
    BY <2>1 DEF RInv, TypeOK, Holding
  <2>2. \A t \in Threads : Calling(t) /\ ~disturbed'[t] => module[t] # m
    BY <1>1, <2>1 DEF RInv, TypeOK, Holding
  <2> QED
    BY <1>1, <1>2, <2>1, <2>2 DEF RInv, TypeOK, Quiet, Undisturbed
<1>6. OneModule'
  BY <1>2 DEF Quiet, OneModule
<1>7. FaultsExplained' /\ NoSpuriousLoss'
  BY DEF RInv, Quiet, TypeOK, FaultsExplained, NoSpuriousLoss
<1> QED
  BY <1>3, <1>4, <1>5, <1>6, <1>7 DEF Quiet

LEMMA RegisterQuiet ==
    ASSUME RInv, RInv', Quiet, NEW t \in Threads, Register(t)
    PROVE  Quiet'
<1> USE RegistryAssumption DEF TablesExist, Calling
\* Nothing is replaced.
<1>1. /\ registry[target[t]] = None
      /\ UNCHANGED <<runtime, attached>>
  BY DEF Quiet, Vacant, Register, Release
<1>2. /\ pc[t] = "register"
      /\ module[t] # None /\ target[t] \in Ids /\ idOf[module[t]] = target[t]
  BY DEF RInv, TypeOK, Holding, Register
<1> USE DEF Register
<1>3. Vacant'
  BY <1>1, <1>2 DEF RInv, Quiet, TypeOK, Holding, Vacant
<1>4. Current'
  BY <1>1, <1>2 DEF RInv, Quiet, TypeOK, Named, Private, Current
<1>5. Undisturbed'
  BY <1>1, <1>2 DEF RInv, Quiet, TypeOK, Holding, Undisturbed
<1>6. OneModule'
  BY <1>1, <1>2 DEF RInv, Quiet, TypeOK, OneModule
<1>7. FaultsExplained' /\ NoSpuriousLoss'
  BY DEF RInv, Quiet, TypeOK, FaultsExplained, NoSpuriousLoss
<1> QED
  BY <1>3, <1>4, <1>5, <1>6, <1>7 DEF Quiet

LEMMA LoadLinkedQuiet ==
    ASSUME RInv, RInv', Quiet, ~reloaded',
           NEW i \in Ids, NEW n \in Loads, LoadLinked(i, n)
    PROVE  Quiet'
<1> USE RegistryAssumption
<1>1. ~Occupied(i)
  BY Zenon DEF LoadLinked
\* Nothing is replaced.
<1>2. /\ registry[i] = None
      /\ UNCHANGED <<runtime, attached>>
  BY <1>1 DEF Occupied, LoadLinked, Release
<1>3. n \notin attached /\ \A u \in Threads : module[u] # n
  BY DEF RInv, TypeOK, Named, Holding, IsNext, LoadLinked
<1> USE DEF LoadLinked, TablesExist, Calling
<1>4. Vacant'
  BY <1>1, <1>2 DEF RInv, Quiet, TypeOK, Holding, Vacant, Occupied
<1>5. Current'
  BY <1>2, <1>3 DEF RInv, Quiet, TypeOK, Named, Current
<1>6. Undisturbed'
  BY <1>2 DEF RInv, Quiet, TypeOK, Holding, Undisturbed
<1>7. OneModule'
  BY <1>2 DEF Quiet, OneModule
<1>8. FaultsExplained' /\ NoSpuriousLoss'
  BY DEF Quiet, FaultsExplained, NoSpuriousLoss
<1> QED
  BY <1>4, <1>5, <1>6, <1>7, <1>8 DEF Quiet

LEMMA FinishQuiet ==
    ASSUME RInv, RInv', Quiet, NEW t \in Threads, NEW r \in Result, Calling(t),
           r \in {"disposed", "notLoaded"} => disturbed[t],
           Finish(t, r)
    PROVE  Quiet'
<1> USE RegistryAssumption
<1> DEFINE m == module[t]
           held == HeldByOther(t, m) \/ registry[target[t]] = m
<1>1. /\ m \in Loads /\ target[t] = idOf[m] /\ idOf[m] \in Ids
      /\ held \in BOOLEAN
      /\ Release(m, held)
      /\ module' = [module EXCEPT ![t] = None]
      /\ target' = [target EXCEPT ![t] = None]
      /\ pc' = [pc EXCEPT ![t] = "idle"]
      /\ result' = [result EXCEPT ![t] = r]
      /\ UNCHANGED <<registry, idOf, linked, core, disturbed, reloaded>>
  BY DEF RInv, TypeOK, Holding, Calling, Finish, HeldByOther
<1>2. /\ attached' \subseteq attached
      /\ \A k \in attached \ attached' : k = m /\ ~held
      /\ \A j \in Ids :
             \/ runtime'[j] = runtime[j]
             \/ runtime'[j] = None /\ ~held /\ m \in attached /\ idOf[m] = j
  <2> HIDE DEF m, held
  <2> QED
    BY <1>1, Released DEF RInv
<1> USE DEF TablesExist, Calling
<1>3. Vacant'
  BY <1>1 DEF RInv, Quiet, TypeOK, Vacant
\* While there are tables, a module that is attached is registered: held.
<1>4. TablesExist /\ m \in attached => held
  BY <1>1 DEF RInv, Quiet, Private, Current
<1>5. Current'
  BY <1>1, <1>2, <1>4 DEF RInv, Quiet, TypeOK, Named, Current
<1>6. Undisturbed'
  <2>1. ASSUME NEW u \in Threads, Calling(u)', ~disturbed'[u]
        PROVE  /\ TablesExist' => registry'[target'[u]] = module'[u]
               /\ module'[u] \in attached' \cup linked'
               /\ module'[u] \in attached' => runtime'[target'[u]] # None
    <3>1. /\ u # t /\ Calling(u) /\ ~disturbed[u]
          /\ module'[u] = module[u] /\ target'[u] = target[u]
          /\ target[u] \in Ids
      BY <1>1, <2>1 DEF RInv, TypeOK, Holding
    <3>2. module[u] = m => held
      BY <3>1 DEF HeldByOther
    <3>3. module[u] \in attached' => runtime'[target[u]] # None
      BY <1>1, <1>2, <3>1, <3>2 DEF Quiet, Undisturbed, OneModule
    <3> QED
      BY <1>1, <1>2, <3>1, <3>2, <3>3 DEF Quiet, Undisturbed
  <2> QED
    BY <2>1 DEF Undisturbed
<1>7. OneModule'
  BY <1>1, <1>2 DEF RInv, Quiet, TypeOK, OneModule
<1>8. FaultsExplained' /\ NoSpuriousLoss'
  BY <1>1 DEF RInv, Quiet, TypeOK, FaultsExplained, NoSpuriousLoss
<1> QED
  BY <1>3, <1>5, <1>6, <1>7, <1>8 DEF Quiet

\* A load that fails, and a call between finding its module and its end.
LEMMA WithinQuiet ==
    ASSUME RInv, Quiet, NEW t \in Threads,
           \/ RuntimeLoadFails(t) \/ EnterLinked(t) \/ TestRuntime(t)
           \/ FindEntry(t) \/ Enter(t)
    PROVE  Quiet'
<1>1. /\ UNCHANGED <<registry, runtime, idOf, linked, attached, target, module,
                     core, disturbed>>
      /\ \A u \in Threads : pc'[u] = pc[u] \/ (Calling(u) /\ Calling(u)')
      /\ \A u \in Threads : result'[u] = result[u] \/ result'[u] = "refused"
  BY DEF RInv, TypeOK, RuntimeLoadFails, EnterLinked, TestRuntime, FindEntry,
         Enter, Calling
<1>2. Vacant' /\ Current' /\ FaultsExplained'
  BY <1>1 DEF Quiet, Vacant, Current, FaultsExplained, TablesExist, Calling
<1>3. Undisturbed' /\ OneModule'
  BY <1>1 DEF Quiet, Undisturbed, OneModule, TablesExist, Calling
<1>4. NoSpuriousLoss'
  BY <1>1 DEF Quiet, NoSpuriousLoss
<1> QED
  BY <1>2, <1>3, <1>4 DEF Quiet

LEMMA FindModuleQuiet ==
    ASSUME RInv, Quiet, NEW t \in Threads, NEW i \in Ids, FindModule(t, i)
    PROVE  Quiet'
<1> USE RegistryAssumption DEF FindModule, TablesExist, Calling
<1>1. Vacant' /\ Current'
  BY DEF RInv, Quiet, TypeOK, Vacant, Current
<1>2. Undisturbed'
  BY DEF RInv, Quiet, TypeOK, Named, Current, Undisturbed, AttachedWhileHeld,
         Private
<1>3. OneModule'
  BY DEF RInv, Quiet, TypeOK, Holding, Named, Current, OneModule
<1>4. FaultsExplained' /\ NoSpuriousLoss'
  BY DEF RInv, Quiet, TypeOK, FaultsExplained, NoSpuriousLoss
<1> QED
  BY <1>1, <1>2, <1>3, <1>4 DEF Quiet

\* The pointer is only cleared under a call that is disturbed, or by the core.
LEMMA FaultQuiet ==
    ASSUME RInv, Quiet, NEW t \in Threads, Fault(t) \/ UseDestroyed(t)
    PROVE  Quiet'
<1> USE DEF Fault, UseDestroyed, Calling
<1>1. Vacant' /\ Undisturbed' /\ OneModule'
  BY DEF RInv, Quiet, TypeOK, Vacant, Undisturbed, OneModule, TablesExist
<1>2. Current'
  BY DEF RInv, Quiet, TypeOK, Current, TablesExist
<1>3. disturbed[t] \/ core # "up"
  BY DEF RInv, Quiet, Looked, Undisturbed
<1>4. FaultsExplained' /\ NoSpuriousLoss'
  BY <1>3 DEF RInv, Quiet, TypeOK, FaultsExplained, NoSpuriousLoss
<1> QED
  BY <1>1, <1>2, <1>4 DEF Quiet

LEMMA ClearModulesQuiet ==
    ASSUME RInv, Quiet, ClearModules
    PROVE  Quiet'
<1> USE RegistryAssumption DEF ClearModules, TablesExist, Calling
<1>1. Vacant'
  BY DEF RInv, Quiet, TypeOK, Holding, Vacant
<1>2. Current'
  BY DEF RInv, Quiet, TypeOK, Named, Current
<1>3. Undisturbed'
  BY DEF RInv, Quiet, TypeOK, Holding, Undisturbed
<1>4. OneModule'
  BY DEF Quiet, OneModule
<1>5. FaultsExplained' /\ NoSpuriousLoss'
  BY DEF Quiet, FaultsExplained, NoSpuriousLoss, RInv, TypeOK
<1> QED
  BY <1>1, <1>2, <1>3, <1>4, <1>5 DEF Quiet

LEMMA DestroyTablesQuiet ==
    ASSUME RInv, Quiet, DestroyTables
    PROVE  Quiet'
<1> USE RegistryAssumption DEF DestroyTables, TablesExist, Calling
<1>1. Vacant' /\ Current'
  BY DEF RInv, Quiet, TypeOK, Holding, Vacant, Current
<1>2. Undisturbed'
  BY DEF RInv, Quiet, TypeOK, Holding, Named, Current, Undisturbed
<1>3. OneModule'
  BY DEF Quiet, OneModule
<1>4. FaultsExplained' /\ NoSpuriousLoss'
  BY DEF Quiet, FaultsExplained, NoSpuriousLoss
<1> QED
  BY <1>1, <1>2, <1>3, <1>4 DEF Quiet

LEMMA DestroyRuntimeQuiet ==
    ASSUME RInv, Quiet, DestroyRuntime
    PROVE  Quiet'
<1> USE DEF DestroyRuntime, PoolJoined, TablesExist, Calling
<1>1. Vacant' /\ Current' /\ Undisturbed' /\ OneModule'
  BY DEF Vacant, Current, Undisturbed, OneModule
<1>2. FaultsExplained' /\ NoSpuriousLoss'
  BY DEF Quiet, FaultsExplained, NoSpuriousLoss
<1> QED
  BY <1>1, <1>2 DEF Quiet

LEMMA QuietNext ==
    ASSUME RInv, RInv', Quiet, ~reloaded', [Next]_vars
    PROVE  Quiet'
<1>1. ASSUME NEW t \in Threads, CallStep(t) \/ RejectArgs(t) PROVE Quiet'
  <2>1. CASE RejectArgs(t) \/ Return(t)
    <3>1. PICK r \in {"refused", "answered"} : Finish(t, r)
      BY <2>1 DEF RejectArgs, Return
    <3>2. Calling(t) /\ r \in Result
      BY <2>1 DEF RejectArgs, Return, Calling, Result
    <3> QED
      BY <3>1, <3>2, FinishQuiet
  <2>2. CASE Detached(t)
    <3>1. /\ Calling(t) /\ Finish(t, "disposed")
          /\ module[t] \notin attached \cup linked
      BY <2>2 DEF Detached, Calling
    <3>2. disturbed[t]
      BY <3>1 DEF Quiet, Undisturbed
    <3> QED
      BY <3>1, <3>2, FinishQuiet DEF Result
  <2>3. CASE EntryGone(t)
    <3>1. Calling(t) /\ Finish(t, "notLoaded") /\ runtime[target[t]] = None
      BY <2>3 DEF EntryGone, Calling
    <3>2. module[t] \notin linked
      BY <2>3 DEF RInv, Looked, EntryGone
    <3>3. disturbed[t]
      BY <3>1, <3>2 DEF Quiet, Undisturbed
    <3> QED
      BY <3>1, <3>3, FinishQuiet DEF Result
  <2>4. CASE EnterLinked(t) \/ TestRuntime(t) \/ FindEntry(t) \/ Enter(t)
    BY <2>4, WithinQuiet
  <2>5. CASE Fault(t)
    BY <2>5, FaultQuiet
  <2> QED
    BY <1>1, <2>1, <2>2, <2>3, <2>4, <2>5 DEF CallStep
<1>2. ASSUME NEW t \in Threads,
             RuntimeLoadFails(t) \/ Register(t) \/ UseDestroyed(t)
      PROVE  Quiet'
  BY <1>2, WithinQuiet, RegisterQuiet, FaultQuiet
<1>3. ASSUME NEW t \in Threads, NEW i \in Ids, NEW n \in Loads,
             RuntimeLoad(t, i, n)
      PROVE  Quiet'
  BY <1>3, RuntimeLoadQuiet
<1>4. ASSUME NEW i \in Ids, NEW n \in Loads, LoadLinked(i, n)
      PROVE  Quiet'
  BY <1>4, LoadLinkedQuiet
<1>5. ASSUME NEW i \in Ids, Unload(i) PROVE Quiet'
  BY <1>5, UnloadQuiet
<1>6. ASSUME NEW t \in Threads, NEW i \in Ids, FindModule(t, i) PROVE Quiet'
  BY <1>6, FindModuleQuiet
<1>7. CASE ClearModules \/ Destructor
  BY <1>7, ClearModulesQuiet, DestroyTablesQuiet, DestroyRuntimeQuiet
  DEF Destructor
<1>8. CASE UNCHANGED vars
  BY <1>8 DEF vars, Quiet, Vacant, Current, Undisturbed, OneModule,
              FaultsExplained, NoSpuriousLoss, TablesExist, Calling
<1> QED
  BY <1>1, <1>2, <1>3, <1>4, <1>5, <1>6, <1>7, <1>8 DEF Next, Finished

LEMMA CInvInit == Init => CInv
<1>1. Init => Quiet
  BY DEF Init, Quiet, Vacant, Current, Undisturbed, OneModule, FaultsExplained,
         NoSpuriousLoss, Calling
<1> QED
  BY <1>1, RInvInit DEF CInv

\* Once an id has been loaded while it was loaded, that remains so.
LEMMA ReloadedStays ==
    ASSUME [Next]_vars, reloaded
    PROVE  reloaded'
<1>1. CASE UNCHANGED vars
  BY <1>1, Zenon DEF vars
<1>2. ASSUME NEW t \in Threads, CallStep(t) \/ RejectArgs(t) PROVE reloaded'
  BY <1>2, Zenon DEF CallStep, RejectArgs, EnterLinked, TestRuntime, Detached,
                     Fault, FindEntry, EntryGone, Enter, Return, Finish
<1>3. ASSUME NEW t \in Threads,
             RuntimeLoadFails(t) \/ Register(t) \/ UseDestroyed(t)
      PROVE  reloaded'
  BY <1>3, Zenon DEF RuntimeLoadFails, Register, UseDestroyed
<1>4. ASSUME NEW t, NEW i, NEW n,
             RuntimeLoad(t, i, n) \/ LoadLinked(i, n) \/ Unload(i)
                \/ FindModule(t, i)
      PROVE  reloaded'
  BY <1>4, Zenon DEF RuntimeLoad, LoadLinked, Unload, FindModule
<1>5. CASE ClearModules \/ Destructor
  BY <1>5, Zenon DEF ClearModules, Destructor, DestroyTables, DestroyRuntime
<1>6. CASE Next
  BY <1>6, <1>1, <1>2, <1>3, <1>4, <1>5 DEF Next, Finished
<1> QED
  BY <1>1, <1>6

LEMMA CInvAlways == Spec => []CInv
<1>1. CInv /\ [Next]_vars => CInv'
  BY RInvNext, QuietNext, ReloadedStays DEF CInv
<1> QED
  BY CInvInit, <1>1, PTL DEF Spec

----------------------------------------------------------------------------
(* The theorems.                                                           *)

\* Every variable keeps its domain.
THEOREM TypeCorrect == Spec => []TypeOK
<1>1. RInv => TypeOK
  BY DEF RInv
<1> QED
  BY <1>1, RInvAlways, PTL

\* What is registered is not disposed of, and what is not disposed of can be
\* reached (NativeModule.cpp:15-17, CrossNative.cpp:99-106).
THEOREM AttachedWhileHeldHolds == Spec => []AttachedWhileHeld
<1>1. RInv => AttachedWhileHeld
  BY DEF RInv
<1> QED
  BY <1>1, RInvAlways, PTL

\* No module is left to call into a destroyed runtime (CrossNative.hpp:160-173).
THEOREM NothingOutlivesCoreHolds == Spec => []NothingOutlivesCore
<1>1. RInv => NothingOutlivesCore
  BY DEF RInv
<1> QED
  BY <1>1, RInvAlways, PTL

\* No instance is leaked in the runtime's map: the module that will unload it is
\* registered or held by a thread that works on its id.
THEOREM NoOrphanEntryHolds == Spec => []NoOrphanEntry
<1>1. RInv => NoOrphanEntry
  BY RegistryAssumption
  DEF RInv, TypeOK, Holding, Owned, AttachedWhileHeld, NoOrphanEntry
<1> QED
  BY <1>1, RInvAlways, PTL

\* isModuleLoaded does not lie (CrossNative.cpp:341).
THEOREM TablesAgreeHolds == Spec => []TablesAgree
<1>1. CInv => TablesAgree
  BY RegistryAssumption
  DEF CInv, RInv, TypeOK, Core, Named, NoTables, AttachedWhileHeld, Quiet,
      Current, TablesExist, TablesAgree
<1> QED
  BY <1>1, CInvAlways, PTL

\* A call loses the module it found only to an unload under the call.
THEOREM LossNeedsReloadHolds == Spec => []LossNeedsReload
<1>1. CInv => LossNeedsReload
  BY DEF CInv, Quiet, LossNeedsReload
<1> QED
  BY <1>1, CInvAlways, PTL

\* A call goes through a cleared pointer only if an unload or the destruction of
\* the core overlaps it (NativeModule.cpp:30-33).
THEOREM FaultNeedsOverlapHolds == Spec => []FaultNeedsOverlap
<1>1. CInv => FaultNeedsOverlap
  BY DEF CInv, Quiet, FaultsExplained, FaultNeedsOverlap
<1> QED
  BY <1>1, CInvAlways, PTL

=============================================================================
