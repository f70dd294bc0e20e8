--------------------------- MODULE JsiInstallProofs ---------------------------
(***************************************************************************)
(* What JsiInstall guarantees on both platforms, for any number of         *)
(* attempts and promises: the proxy is installed once in spite of timeouts *)
(* and late jobs, a promise settles once and only under its own            *)
(* installation, what JavaScript waits for is on its way unless an         *)
(* exception the code drops took it away, and whoever                      *)
(* lets go of the core last can wait for its pool.                         *)
(*                                                                         *)
(* The inductive invariant JInv says what every queued job relies on when  *)
(* its turn comes (Timely), what may be queued behind what (Ordered), and  *)
(* who holds a Deferred or a core.                                         *)
(***************************************************************************)
EXTENDS JsiInstall, SequenceTheorems, TLAPS

\* One Installation at a time: what gInstallations has is what globalThis has
\* and the only one whose alive flag is set.
OneInstalled ==
    /\ proxy = current
    /\ alive = {current} \ {None}
    /\ current \in ran \cup {None}

\* What follows from the platform.
Platform ==
    /\ android => invalidated = "no"
    /\ ~android => native # "waiting"

\* An attempt's number is its own, and while the native side is asked for it
\* nothing of it exists yet.
Attempts ==
    /\ ran \subseteq 1..attempt
    /\ memo # "asking" => native = "idle"
    /\ native # "idle" => attempt \in Installs
    /\ native = "asked" =>
         current = None /\ attempt \notin ran /\ coreOf[attempt] = None

\* What a queued job relies on when its turn comes.
Timely(job) ==
    /\ job.kind = "install" =>
         /\ memo = "asking" /\ native # "asked"
         /\ job.n = attempt /\ attempt \notin ran
         /\ current = None
         /\ coreOf[attempt] # None
    /\ job.kind = "reply" => memo = "asking" /\ native = "idle"
    /\ job.kind = "uninstall" => ~android
    /\ job.kind = "settle" =>
         /\ promise[job.c] = "pending"
         /\ job.c \in settled
         /\ "job" \in holders[job.c]

\* The jobs of a queue, whatever their order.
Jobs(q) == {q[i] : i \in 1..Len(q)}

AllTimely == \A job \in Jobs(jsq) : Timely(job)

\* What may be queued behind what: one install job and one answer, and never the
\* job behind the answer; one settlement of a Deferred.
MayFollow(later, job) ==
    /\ job.kind = "install" =>
         /\ later.kind # "install"
         /\ later.kind = "reply" => android
    /\ job.kind = "reply" => later.kind \notin {"install", "reply"}
    /\ job.kind = "settle" /\ later.kind = "settle" => job.c # later.c

Ordered(q) == \A i, j \in 1..Len(q) : i < j => MayFollow(q[j], q[i])

Queued(kind) == \E job \in Jobs(jsq) : job.kind = kind
SettleQueued(c) == \E job \in Jobs(jsq) : job.kind = "settle" /\ job.c = c

\* index.ts awaits only what will be answered.
AnswerComes ==
    memo = "asking" =>
      native # "idle" \/ Queued("reply") \/ (~android /\ Queued("install"))

\* A Deferred from its creation to its release.
DeferredOk(c) ==
    /\ promise[c] = "none" =>
         c \notin settled /\ task[c] = "none" /\ holders[c] = {}
    /\ promise[c] # "none" => inst[c] \in ran
    /\ promise[c] = "resolved" => c \in settled
    /\ promise[c] = "rejected" /\ c \notin settled =>
         task[c] = "none" /\ holders[c] = {}
    /\ task[c] = "queued" => c \notin settled
    /\ task[c] = "none" /\ promise[c] = "pending" => c \in settled
    /\ task[c] = "thrown" => c \in settled
    /\ task[c] \in {"ran", "gone"} => c \in settled \cup unheard
    /\ "task" \in holders[c] <=> task[c] \in {"queued", "thrown", "ran"}
    /\ "job" \in holders[c] => SettleQueued(c)
    /\ promise[c] = "pending" /\ c \in settled \ unheard /\ inst[c] \in alive =>
         "job" \in holders[c]
    /\ releasedBy[c] # "nobody" <=> promise[c] # "none" /\ holders[c] = {}

Deferreds == \A c \in Calls : DeferredOk(c)

\* A core is made by the attempt it is named after.
CoresMade ==
    /\ \A n \in Installs : coreOf[n] # None =>
         n <= attempt /\ coreOf[coreOf[n]] # None
    /\ owned # None => coreOf[owned] # None
    /\ \A n \in ran : coreOf[n] # None
    /\ uncollected \subseteq ran
    /\ \A k \in Installs : destroyedBy[k] # "nobody" => coreOf[k] # None

\* A core somebody refers to is not being destroyed, and no worker destroys one.
CoresLive ==
    /\ \A k \in Installs : Kept(k) => destroyedBy[k] = "nobody"
    /\ \A k \in Installs : destroyedBy[k] # "worker"
    /\ \A k \in gone : destroyedBy[k] # "nobody"
    /\ \A c \in Calls :
         task[c] \in {"queued", "thrown", "ran"} => coreOf[inst[c]] \notin gone

JInv ==
    /\ TypeOK /\ OneInstalled /\ Platform /\ Attempts
    /\ AllTimely /\ Ordered(jsq) /\ AnswerComes
    /\ Deferreds /\ CoresMade /\ CoresLive

\* Kept, with the queue taken as a set.
HasRef(k) ==
    \/ owned = k
    \/ \E job \in Jobs(jsq) : job.kind = "install" /\ coreOf[job.n] = k
    \/ current # None /\ coreOf[current] = k
    \/ \E n \in uncollected : coreOf[n] = k

\* The JS thread takes `head` from its queue and leaves `rest`.
Takes(head, rest) ==
    /\ head \in Job
    /\ rest \in Seq(Job)
    /\ Jobs(rest) \subseteq Job
    /\ Jobs(jsq) = {head} \cup Jobs(rest)
    /\ Ordered(rest)
    /\ Timely(head)
    /\ \A job \in Jobs(rest) : Timely(job) /\ MayFollow(job, head)

-----------------------------------------------------------------------------

\* A test of membership can be stored in a job.
LEMMA InIsBoolean ==
    ASSUME NEW S, NEW x
    PROVE  (x \in S) \in BOOLEAN
  OBVIOUS

\* What each kind of job carries.
LEMMA JobType ==
    ASSUME NEW job \in Job
    PROVE  /\ job.kind \in {"install", "uninstall", "reply", "settle"}
           /\ job.kind = "install" => job.n \in Installs
           /\ job.kind = "reply" => job.ok \in BOOLEAN
           /\ job.kind = "settle" =>
                job.c \in Calls /\ job.as \in {"resolved", "rejected"}
  BY DEF Job

\* A queue after a job has been put at its end.
LEMMA Pushed ==
    ASSUME NEW S, NEW q \in Seq(S), NEW e \in S
    PROVE  /\ Append(q, e) \in Seq(S)
           /\ Jobs(Append(q, e)) = Jobs(q) \cup {e}
           /\ Jobs(q) \subseteq S
<1> DEFINE r == Append(q, e)
<1>1. /\ r \in Seq(S)
      /\ Len(r) = Len(q) + 1
      /\ \A i \in 1..Len(q) : r[i] = q[i]
      /\ r[Len(q) + 1] = e
      /\ Len(q) \in Nat
      /\ \A i \in 1..Len(q) : q[i] \in S
  OBVIOUS
<1> HIDE DEF r
<1>2. Jobs(r) \subseteq Jobs(q) \cup {e}
  <2> SUFFICES ASSUME NEW i \in 1..Len(r) PROVE r[i] \in Jobs(q) \cup {e}
    BY DEF Jobs
  <2>1. i \in 1..Len(q) \/ i = Len(q) + 1
    BY <1>1
  <2> QED
    BY <1>1, <2>1 DEF Jobs
<1>3. \A i \in 1..Len(q) : i \in 1..Len(r) /\ r[i] = q[i]
  BY <1>1
<1>4. Jobs(q) \subseteq Jobs(r)
  BY <1>3 DEF Jobs
<1>5. Len(q) + 1 \in 1..Len(r)
  BY <1>1
<1>6. e \in Jobs(r)
  BY <1>1, <1>5 DEF Jobs
<1>7. Jobs(q) \subseteq S
  BY <1>1 DEF Jobs
<1> QED
  BY <1>1, <1>2, <1>4, <1>6, <1>7 DEF r

\* A queue after its first job has been taken.
LEMMA Popped ==
    ASSUME NEW S, NEW q \in Seq(S), q # << >>
    PROVE  /\ Head(q) \in S
           /\ Tail(q) \in Seq(S)
           /\ Jobs(q) = {Head(q)} \cup Jobs(Tail(q))
           /\ Jobs(q) \subseteq S
<1> DEFINE r == Tail(q)
           h == Head(q)
<1>1. /\ r \in Seq(S)
      /\ Len(r) = Len(q) - 1
      /\ Len(q) \in Nat
      /\ 1 \in 1..Len(q)
      /\ h = q[1]
      /\ \A i \in 1..Len(r) : i + 1 \in 1..Len(q) /\ r[i] = q[i + 1]
      /\ \A i \in 1..Len(q) : q[i] \in S
  OBVIOUS
<1> HIDE DEF r, h
<1>2. Jobs(r) \subseteq Jobs(q)
  BY <1>1 DEF Jobs
<1>3. h \in Jobs(q)
  BY <1>1 DEF Jobs
<1>4. ASSUME NEW i \in 1..Len(q) PROVE q[i] \in {h} \cup Jobs(r)
  <2>1. CASE i = 1
    BY <1>1, <2>1
  <2>2. CASE i # 1
    <3>1. i - 1 \in 1..Len(r) /\ (i - 1) + 1 = i
      BY <1>1, <2>2
    <3>2. q[i] = r[i - 1]
      BY <1>1, <3>1
    <3> QED
      BY <3>1, <3>2 DEF Jobs
  <2> QED
    BY <2>1, <2>2
<1>5. Jobs(q) \subseteq {h} \cup Jobs(r)
  BY <1>4 DEF Jobs
<1>6. Jobs(q) \subseteq S /\ h \in S
  BY <1>1 DEF Jobs
<1> QED
  BY <1>1, <1>2, <1>3, <1>5, <1>6 DEF r, h

\* A job that may follow all the queued ones keeps the queue in order.
LEMMA PushedInOrder ==
    ASSUME NEW q \in Seq(Job), NEW e \in Job, Ordered(q),
           \A job \in Jobs(q) : MayFollow(e, job)
    PROVE  Ordered(Append(q, e))
<1> DEFINE r == Append(q, e)
<1>1. /\ Len(r) = Len(q) + 1
      /\ \A i \in 1..Len(q) : r[i] = q[i]
      /\ r[Len(q) + 1] = e
      /\ Len(q) \in Nat
  OBVIOUS
<1> HIDE DEF r
<1>2. ASSUME NEW i \in 1..Len(r), NEW j \in 1..Len(r), i < j
      PROVE  MayFollow(r[j], r[i])
  <2>1. i \in 1..Len(q) /\ r[i] = q[i] /\ q[i] \in Jobs(q)
    BY <1>1, <1>2 DEF Jobs
  <2>2. CASE j \in 1..Len(q)
    BY <1>1, <1>2, <2>1, <2>2 DEF Ordered
  <2>3. CASE j = Len(q) + 1
    BY <1>1, <2>1, <2>3
  <2> QED
    BY <1>1, <2>2, <2>3
<1> QED
  BY <1>2 DEF Ordered, r

\* What is left of an ordered queue is ordered and may follow its head.
LEMMA PoppedInOrder ==
    ASSUME NEW q \in Seq(Job), q # << >>, Ordered(q)
    PROVE  /\ Ordered(Tail(q))
           /\ \A job \in Jobs(Tail(q)) : MayFollow(job, Head(q))
<1> DEFINE r == Tail(q)
           h == Head(q)
<1>1. /\ Len(r) = Len(q) - 1
      /\ Len(q) \in Nat
      /\ h = q[1]
      /\ 1 \in 1..Len(q)
      /\ \A i \in 1..Len(r) : i + 1 \in 1..Len(q) /\ r[i] = q[i + 1]
  OBVIOUS
<1> HIDE DEF r, h
<1>2. \A i, j \in 1..Len(r) : i < j => MayFollow(r[j], r[i])
  BY <1>1 DEF Ordered
<1>3. \A i \in 1..Len(r) : MayFollow(r[i], h)
  <2> SUFFICES ASSUME NEW i \in 1..Len(r) PROVE MayFollow(r[i], h)
    OBVIOUS
  <2>1. i + 1 \in 1..Len(q) /\ 1 < i + 1 /\ r[i] = q[i + 1]
    BY <1>1
  <2> QED
    BY <1>1, <2>1 DEF Ordered
<1> QED
  BY <1>2, <1>3 DEF Ordered, Jobs

\* Kept speaks of the queue by position, HasRef of the jobs in it.
LEMMA KeptIsHasRef ==
    ASSUME jsq \in Seq(Job), jsq' \in Seq(Job)
    PROVE  \A k : (Kept(k) <=> HasRef(k)) /\ (Kept(k)' <=> HasRef(k)')
<1>1. DOMAIN jsq = 1..Len(jsq) /\ DOMAIN jsq' = 1..Len(jsq')
  OBVIOUS
<1> SUFFICES ASSUME NEW k
             PROVE  (Kept(k) <=> HasRef(k)) /\ (Kept(k)' <=> HasRef(k)')
  OBVIOUS
<1>2. (\E i \in DOMAIN jsq : jsq[i].kind = "install" /\ coreOf[jsq[i].n] = k)
        <=> \E job \in Jobs(jsq) : job.kind = "install" /\ coreOf[job.n] = k
  BY <1>1 DEF Jobs
<1>3. (\E i \in DOMAIN jsq' : jsq'[i].kind = "install" /\ coreOf'[jsq'[i].n] = k)
        <=> \E job \in Jobs(jsq') : job.kind = "install" /\ coreOf'[job.n] = k
  BY <1>1 DEF Jobs
<1> QED
  BY <1>2, <1>3 DEF Kept, HasRef, TaskKeeps

\* Every core that is referred to has been made.
LEMMA KeptIsMade ==
    ASSUME JInv
    PROVE  \A k \in Installs : HasRef(k) => coreOf[k] # None
<1> SUFFICES ASSUME NEW k \in Installs, HasRef(k) PROVE coreOf[k] # None
  OBVIOUS
<1>0. Jobs(jsq) \subseteq Job /\ k # None
  BY Pushed, JsiAssumption DEF JInv, TypeOK, Jobs
<1>1. CASE owned = k
  BY <1>0, <1>1 DEF JInv, CoresMade
<1>2. CASE \E n \in Installs : coreOf[n] = k
  BY <1>0, <1>2 DEF JInv, CoresMade
<1>3. CASE \E job \in Jobs(jsq) : job.kind = "install" /\ coreOf[job.n] = k
  BY <1>0, <1>2, <1>3, JobType
<1>4. CASE current # None /\ coreOf[current] = k
  BY <1>2, <1>4 DEF JInv, TypeOK
<1>5. CASE \E n \in uncollected : coreOf[n] = k
  BY <1>2, <1>5 DEF JInv, TypeOK
<1> QED
  BY <1>1, <1>3, <1>4, <1>5 DEF HasRef

\* Who drops references destroys cores nobody refers to any longer.
LEMMA DropsCores ==
    ASSUME JInv, jsq' \in Seq(Job), NEW thread \in {"js", "native", "collector"},
           Drops(thread), \A k \in Installs : HasRef(k)' => HasRef(k),
           UNCHANGED <<coreOf, gone, task, inst>>
    PROVE  /\ destroyedBy' \in [Installs -> {"nobody"} \cup Thread]
           /\ CoresLive'
           /\ \A k \in Installs : destroyedBy'[k] # "nobody" => coreOf'[k] # None
<1>1. \A k : (Kept(k) <=> HasRef(k)) /\ (Kept(k)' <=> HasRef(k)')
  BY KeptIsHasRef DEF JInv, TypeOK
<1>2. destroyedBy' = [k \in Installs |-> IF HasRef(k) /\ ~HasRef(k)'
                                           THEN thread ELSE destroyedBy[k]]
  BY <1>1 DEF Drops
<1>3. destroyedBy \in [Installs -> {"nobody"} \cup Thread] /\ thread \in Thread
  BY DEF JInv, TypeOK, Thread
<1>4. destroyedBy' \in [Installs -> {"nobody"} \cup Thread]
  BY <1>2, <1>3
<1>5. \A k \in Installs : Kept(k)' => destroyedBy'[k] = "nobody"
  BY <1>1, <1>2 DEF JInv, CoresLive
<1>6. \A k \in Installs : destroyedBy'[k] # "worker"
  BY <1>2 DEF JInv, CoresLive
<1>7. \A k \in gone' : destroyedBy'[k] # "nobody"
  BY <1>2 DEF JInv, CoresLive, TypeOK
<1>8. \A k \in Installs : destroyedBy'[k] # "nobody" => coreOf'[k] # None
  BY <1>2, KeptIsMade DEF JInv, CoresMade
<1>9. \A c \in Calls :
        task'[c] \in {"queued", "thrown", "ran"} => coreOf'[inst'[c]] \notin gone'
  BY DEF JInv, CoresLive
<1> QED
  BY <1>4, <1>5, <1>6, <1>7, <1>8, <1>9 DEF CoresLive

\* Nobody drops a reference, so no core begins to go.
LEMMA CoresStay ==
    ASSUME JInv, jsq' \in Seq(Job), UNCHANGED <<coreOf, gone, task, inst>>,
           destroyedBy' = destroyedBy,
           \A k \in Installs : HasRef(k)' => HasRef(k)
    PROVE  CoresLive'
<1>1. \A k : (Kept(k) <=> HasRef(k)) /\ (Kept(k)' <=> HasRef(k)')
  BY KeptIsHasRef DEF JInv, TypeOK
<1> QED
  BY <1>1 DEF JInv, CoresLive

\* Steps that leave promises alone may queue jobs and remove proxies.
LEMMA DeferredsStay ==
    ASSUME JInv, UNCHANGED promiseVars, ran \subseteq ran',
           \A c \in Calls : SettleQueued(c) => SettleQueued(c)',
           \A n \in ran : n \in alive' => n \in alive
    PROVE  Deferreds'
  BY DEF JInv, Deferreds, DeferredOk, promiseVars

\* The order of a queue depends on the platform, which never changes.
LEMMA OrderStays ==
    ASSUME Ordered(jsq'), UNCHANGED android
    PROVE  Ordered(jsq)'
  BY DEF Ordered, MayFollow

\* The JS thread finds at the head a job whose time has come.
LEMMA TakesHead ==
    ASSUME JInv, jsq # << >>
    PROVE  Takes(Head(jsq), Tail(jsq))
<1>1. jsq \in Seq(Job) /\ Ordered(jsq)
  BY DEF JInv, TypeOK
<1>2. /\ Head(jsq) \in Job
      /\ Tail(jsq) \in Seq(Job)
      /\ Jobs(jsq) = {Head(jsq)} \cup Jobs(Tail(jsq))
      /\ Jobs(jsq) \subseteq Job
  BY <1>1, Popped
<1> QED
  BY <1>1, <1>2, PoppedInOrder DEF JInv, AllTimely, Takes

\* index.ts asks for an install, or finds one done.
LEMMA EnsureKeeps ==
    ASSUME JInv, EnsureInstalled
    PROVE  JInv'
<1> USE JsiAssumption DEF JInv, coreVars, installVars, promiseVars
<1>a. /\ jsq' = jsq /\ jsq \in Seq(Job)
      /\ Jobs(jsq)' = Jobs(jsq)
      /\ Jobs(jsq) \subseteq Job
      /\ \A d \in Calls : SettleQueued(d)' <=> SettleQueued(d)
  BY Pushed DEF EnsureInstalled, TypeOK, SettleQueued, Jobs
<1>1. TypeOK'
  BY <1>a DEF TypeOK, EnsureInstalled
<1>2. OneInstalled'
  BY <1>a DEF OneInstalled, EnsureInstalled
<1>3. Platform'
  BY <1>a DEF Platform, EnsureInstalled
<1>4. Attempts'
  BY DEF Attempts, OneInstalled, TypeOK, CoresMade, EnsureInstalled, Installs
<1>5. AllTimely'
  BY <1>a, JobType DEF AllTimely, Timely, EnsureInstalled
<1>6. Ordered(jsq)'
  BY <1>a, OrderStays, PushedInOrder DEF EnsureInstalled
<1>7. AnswerComes'
  BY <1>a DEF AnswerComes, EnsureInstalled
<1>8. Deferreds'
  BY <1>a, DeferredsStay DEF EnsureInstalled
<1>9. CoresMade'
  BY <1>a, KeptIsMade DEF CoresMade, Attempts, TypeOK, EnsureInstalled
<1>10. CoresLive'
  <2>1. \A k \in Installs : HasRef(k)' => HasRef(k)
    BY <1>a DEF HasRef, EnsureInstalled
  <2> QED
    BY <1>a, <2>1, CoresStay DEF EnsureInstalled
<1> QED
  BY <1>1, <1>2, <1>3, <1>4, <1>5, <1>6, <1>7, <1>8, <1>9, <1>10

\* install() on the native thread queues its job.
LEMMA NativeInstallKeeps ==
    ASSUME JInv, NativeInstall
    PROVE  JInv'
<1> USE JsiAssumption DEF JInv, coreVars, installVars, promiseVars
<1>a. PICK e \in Job :
        /\ jsq' = Append(jsq, e)
        /\ e = [kind |-> "install", n |-> attempt]
  BY DEF NativeInstall, NativeReady, Attempts, Job
<1>b. /\ jsq' \in Seq(Job) /\ jsq \in Seq(Job)
      /\ Jobs(jsq)' = Jobs(jsq) \cup {e}
      /\ Jobs(jsq) \subseteq Job
      /\ \A d \in Calls : SettleQueued(d) => SettleQueued(d)'
  <2>1. jsq' = Append(jsq, e) /\ jsq \in Seq(Job)
    BY <1>a DEF TypeOK
  <2> QED
    BY <2>1, Pushed DEF SettleQueued
<1>1. TypeOK'
  <2>1. owned' \in Installs \cup {None} /\ attempt \in Installs
    BY DEF NativeInstall, NativeReady, TypeOK, Attempts
  <2>2. coreOf' \in [Installs -> Installs \cup {None}]
    BY <2>1 DEF NativeInstall, TypeOK
  <2> QED
    BY <1>b, <2>1, <2>2 DEF TypeOK, NativeInstall
<1>2. OneInstalled'
  BY <1>a, <1>b DEF OneInstalled, NativeInstall
<1>3. Platform'
  BY <1>a, <1>b DEF Platform, NativeInstall
<1>4. Attempts'
  BY <1>a, <1>b DEF Attempts, NativeInstall, NativeReady
<1>5. AllTimely'
  <2>1. Timely(e)'
    BY <1>a DEF Timely, Attempts, TypeOK, NativeInstall, NativeReady
  <2>2. \A job \in Jobs(jsq) : Timely(job)'
    BY <1>b, JobType DEF AllTimely, Timely, NativeInstall, NativeReady
  <2> QED
    BY <1>b, <2>1, <2>2 DEF AllTimely
<1>6. Ordered(jsq)'
  <2>1. \A job \in Jobs(jsq) : MayFollow(e, job)
    BY <1>a, <1>b, JobType DEF MayFollow, AllTimely, Timely, NativeInstall,
       NativeReady
  <2> QED
    BY <1>a, <1>b, <2>1, PushedInOrder, OrderStays
       DEF NativeInstall, NativeReady
<1>7. AnswerComes'
  BY <1>a, <1>b DEF AnswerComes, Queued, NativeInstall
<1>8. Deferreds'
  BY <1>b, DeferredsStay DEF NativeInstall, NativeReady
<1>9. CoresMade'
  BY <1>a, <1>b, KeptIsMade DEF CoresMade, Attempts, TypeOK, NativeInstall,
     NativeReady
<1>10. CoresLive'
  <2>1. \A k : (Kept(k) <=> HasRef(k)) /\ (Kept(k)' <=> HasRef(k)')
    BY <1>b, KeptIsHasRef
  <2>2. /\ attempt \in Installs /\ native = "asked"
        /\ owned' = IF owned = None THEN attempt ELSE owned
        /\ coreOf' = [coreOf EXCEPT ![attempt] = owned']
        /\ UNCHANGED <<current, uncollected, ran, destroyedBy, gone, task, inst>>
    BY DEF NativeInstall, NativeReady, Attempts
  <2>3. \A n \in Installs : n # attempt => coreOf'[n] = coreOf[n]
    BY <2>2 DEF TypeOK
  <2>4. current = None /\ attempt \notin uncollected
    BY <2>2 DEF Attempts, CoresMade
  <2>5. \A job \in Jobs(jsq) : job.kind # "install"
    BY <2>2 DEF AllTimely, Timely
  <2>6. ASSUME NEW k \in Installs, HasRef(k)' PROVE HasRef(k) \/ k = owned'
    <3>1. CASE \E n \in uncollected : coreOf'[n] = k
      BY <2>2, <2>3, <2>4, <3>1 DEF HasRef, TypeOK
    <3>2. CASE \E job \in Jobs(jsq)' : job.kind = "install" /\ coreOf'[job.n] = k
      BY <1>a, <1>b, <2>2, <2>5, <3>2 DEF TypeOK
    <3> QED
      BY <2>2, <2>4, <2>6, <3>1, <3>2 DEF HasRef
  <2>7. destroyedBy[owned'] = "nobody"
    BY <2>1, <2>2, JsiAssumption
       DEF CoresLive, CoresMade, Attempts, HasRef, TypeOK
  <2>8. \A c \in Calls :
          task[c] \in {"queued", "thrown", "ran"} => coreOf'[inst[c]] \notin gone
    BY <2>2, <2>3 DEF CoresLive, Deferreds, DeferredOk, Attempts
  <2> QED
    BY <2>1, <2>2, <2>6, <2>7, <2>8 DEF CoresLive
<1> QED
  BY <1>1, <1>2, <1>3, <1>4, <1>5, <1>6, <1>7, <1>8, <1>9, <1>10

\* install() that cannot begin answers at once.
LEMMA NativeRefusesKeeps ==
    ASSUME JInv, NativeRefuses
    PROVE  JInv'
<1> USE JsiAssumption DEF JInv, coreVars, installVars, promiseVars
<1>a. PICK e \in Job :
        /\ jsq' = Append(jsq, e)
        /\ e = [kind |-> "reply", ok |-> FALSE]
  BY DEF NativeRefuses, Job
<1>b. /\ jsq' \in Seq(Job) /\ jsq \in Seq(Job)
      /\ Jobs(jsq)' = Jobs(jsq) \cup {e}
      /\ Jobs(jsq) \subseteq Job
      /\ \A d \in Calls : SettleQueued(d) => SettleQueued(d)'
  <2>1. jsq' = Append(jsq, e) /\ jsq \in Seq(Job)
    BY <1>a DEF TypeOK
  <2> QED
    BY <2>1, Pushed DEF SettleQueued
<1>1. TypeOK'
  BY <1>a, <1>b DEF TypeOK, NativeRefuses
<1>2. OneInstalled'
  BY <1>a, <1>b DEF OneInstalled, NativeRefuses
<1>3. Platform'
  BY <1>a, <1>b DEF Platform, NativeRefuses
<1>4. Attempts'
  BY <1>a, <1>b DEF Attempts, NativeRefuses
<1>5. AllTimely'
  <2>1. Timely(e)'
    BY <1>a DEF Timely, Attempts, NativeRefuses, NativeReady
  <2>2. \A job \in Jobs(jsq) : Timely(job)'
    BY <1>b, JobType DEF AllTimely, Timely, NativeRefuses
  <2> QED
    BY <1>b, <2>1, <2>2 DEF AllTimely
<1>6. Ordered(jsq)'
  <2>1. \A job \in Jobs(jsq) : MayFollow(e, job)
    BY <1>a, <1>b, JobType DEF MayFollow, AllTimely, Timely, NativeRefuses,
       NativeReady
  <2> QED
    BY <1>a, <1>b, <2>1, PushedInOrder, OrderStays
       DEF NativeRefuses, NativeReady
<1>7. AnswerComes'
  BY <1>a, <1>b DEF AnswerComes, Queued
<1>8. Deferreds'
  BY <1>b, DeferredsStay DEF NativeRefuses, NativeReady
<1>9. CoresMade'
  BY <1>a, <1>b, KeptIsMade DEF CoresMade, NativeRefuses
<1>10. CoresLive'
  <2>1. \A k \in Installs : HasRef(k)' => HasRef(k)
    BY <1>a, <1>b DEF HasRef, NativeRefuses
  <2> QED
    BY <1>b, <2>1, CoresStay DEF NativeRefuses, NativeReady
<1> QED
  BY <1>1, <1>2, <1>3, <1>4, <1>5, <1>6, <1>7, <1>8, <1>9, <1>10

\* Android stops waiting for the job, served or not.
LEMMA NativeWakesKeeps ==
    ASSUME JInv, NativeWakes
    PROVE  JInv'
<1> USE JsiAssumption DEF JInv, coreVars, installVars, promiseVars
<1>a. PICK e \in Job :
        /\ jsq' = Append(jsq, e)
        /\ e = [kind |-> "reply", ok |-> attempt \in ran]
  <2>1. (attempt \in ran) \in BOOLEAN
    BY InIsBoolean
  <2>2. [kind |-> "reply", ok |-> attempt \in ran] \in Job
    BY <2>1 DEF Job
  <2> QED
    BY <2>2 DEF NativeWakes
<1>b. /\ jsq' \in Seq(Job) /\ jsq \in Seq(Job)
      /\ Jobs(jsq)' = Jobs(jsq) \cup {e}
      /\ Jobs(jsq) \subseteq Job
      /\ \A d \in Calls : SettleQueued(d) => SettleQueued(d)'
  <2>1. jsq' = Append(jsq, e) /\ jsq \in Seq(Job)
    BY <1>a DEF TypeOK
  <2> QED
    BY <2>1, Pushed DEF SettleQueued
<1>1. TypeOK'
  BY <1>a, <1>b DEF TypeOK, NativeWakes
<1>2. OneInstalled'
  BY <1>a, <1>b DEF OneInstalled, NativeWakes
<1>3. Platform'
  BY <1>a, <1>b DEF Platform, NativeWakes
<1>4. Attempts'
  BY <1>a, <1>b DEF Attempts, NativeWakes
<1>5. AllTimely'
  <2>1. Timely(e)'
    BY <1>a DEF Timely, Attempts, NativeWakes
  <2>2. \A job \in Jobs(jsq) : Timely(job)'
    BY <1>b, JobType DEF AllTimely, Timely, NativeWakes
  <2> QED
    BY <1>b, <2>1, <2>2 DEF AllTimely
<1>6. Ordered(jsq)'
  <2>1. \A job \in Jobs(jsq) : MayFollow(e, job)
    BY <1>a, <1>b, JobType DEF MayFollow, AllTimely, Timely, Platform,
       NativeWakes
  <2> QED
    BY <1>a, <1>b, <2>1, PushedInOrder, OrderStays DEF NativeWakes
<1>7. AnswerComes'
  BY <1>a, <1>b DEF AnswerComes, Queued
<1>8. Deferreds'
  BY <1>b, DeferredsStay DEF NativeWakes
<1>9. CoresMade'
  BY <1>a, <1>b, KeptIsMade DEF CoresMade, NativeWakes
<1>10. CoresLive'
  <2>1. \A k \in Installs : HasRef(k)' => HasRef(k)
    BY <1>a, <1>b DEF HasRef, NativeWakes
  <2> QED
    BY <1>b, <2>1, CoresStay DEF NativeWakes
<1> QED
  BY <1>1, <1>2, <1>3, <1>4, <1>5, <1>6, <1>7, <1>8, <1>9, <1>10

\* iOS queues the removal of the installation.
LEMMA InvalidateKeeps ==
    ASSUME JInv, Invalidate
    PROVE  JInv'
<1> USE JsiAssumption DEF JInv, coreVars, installVars, promiseVars
<1>a. PICK e \in Job :
        /\ jsq' = Append(jsq, e)
        /\ e = [kind |-> "uninstall"]
  BY DEF Invalidate, Job
<1>b. /\ jsq' \in Seq(Job) /\ jsq \in Seq(Job)
      /\ Jobs(jsq)' = Jobs(jsq) \cup {e}
      /\ Jobs(jsq) \subseteq Job
      /\ \A d \in Calls : SettleQueued(d) => SettleQueued(d)'
  <2>1. jsq' = Append(jsq, e) /\ jsq \in Seq(Job)
    BY <1>a DEF TypeOK
  <2> QED
    BY <2>1, Pushed DEF SettleQueued
<1>1. TypeOK'
  BY <1>a, <1>b DEF TypeOK, Invalidate
<1>2. OneInstalled'
  BY <1>a, <1>b DEF OneInstalled, Invalidate
<1>3. Platform'
  BY <1>a, <1>b DEF Platform, Invalidate
<1>4. Attempts'
  BY <1>a, <1>b DEF Attempts, Invalidate
<1>5. AllTimely'
  <2>1. Timely(e)'
    BY <1>a DEF Timely, Invalidate
  <2>2. \A job \in Jobs(jsq) : Timely(job)'
    BY <1>b, JobType DEF AllTimely, Timely, Invalidate
  <2> QED
    BY <1>b, <2>1, <2>2 DEF AllTimely
<1>6. Ordered(jsq)'
  <2>1. \A job \in Jobs(jsq) : MayFollow(e, job)
    BY <1>a, <1>b, JobType DEF MayFollow
  <2> QED
    BY <1>a, <1>b, <2>1, PushedInOrder, OrderStays DEF Invalidate
<1>7. AnswerComes'
  BY <1>a, <1>b DEF AnswerComes, Queued, Invalidate
<1>8. Deferreds'
  BY <1>b, DeferredsStay DEF Invalidate
<1>9. CoresMade'
  BY <1>a, <1>b, KeptIsMade DEF CoresMade, Invalidate
<1>10. CoresLive'
  <2>1. \A k \in Installs : HasRef(k)' => HasRef(k)
    BY <1>a, <1>b DEF HasRef, Invalidate
  <2> QED
    BY <1>b, <2>1, CoresStay DEF Invalidate
<1> QED
  BY <1>1, <1>2, <1>3, <1>4, <1>5, <1>6, <1>7, <1>8, <1>9, <1>10

\* The invalidated module lets go of the core.
LEMMA ResetCoreKeeps ==
    ASSUME JInv, ResetCore
    PROVE  JInv'
<1> USE JsiAssumption DEF JInv, coreVars, installVars, promiseVars
<1>a. /\ jsq' = jsq /\ jsq \in Seq(Job)
      /\ Jobs(jsq)' = Jobs(jsq)
      /\ Jobs(jsq) \subseteq Job
      /\ \A d \in Calls : SettleQueued(d)' <=> SettleQueued(d)
  BY Pushed DEF ResetCore, TypeOK, SettleQueued, Jobs
<1>x. /\ destroyedBy' \in [Installs -> {"nobody"} \cup Thread]
      /\ CoresLive'
      /\ \A k \in Installs : destroyedBy'[k] # "nobody" => coreOf'[k] # None
  <2>1. \A k \in Installs : HasRef(k)' => HasRef(k)
    BY <1>a, JsiAssumption DEF HasRef, ResetCore
  <2> QED
    BY <1>a, <2>1, DropsCores DEF ResetCore
<1>1. TypeOK'
  <2>1. destroyedBy' \in [Installs -> {"nobody"} \cup Thread]
    BY <1>x
  <2> QED
    BY <2>1 DEF TypeOK, ResetCore
<1>2. OneInstalled'
  BY <1>a DEF OneInstalled, ResetCore
<1>3. Platform'
  BY <1>a DEF Platform, ResetCore
<1>4. Attempts'
  BY <1>a DEF Attempts, ResetCore
<1>5. AllTimely'
  BY <1>a, JobType DEF AllTimely, Timely, ResetCore
<1>6. Ordered(jsq)'
  BY <1>a, OrderStays, PushedInOrder DEF ResetCore
<1>7. AnswerComes'
  BY <1>a DEF AnswerComes, Queued, ResetCore
<1>8. Deferreds'
  BY <1>a, DeferredsStay DEF ResetCore
<1>9. CoresMade'
  BY <1>x DEF CoresMade, ResetCore
<1>10. CoresLive'
  BY <1>x
<1> QED
  BY <1>1, <1>2, <1>3, <1>4, <1>5, <1>6, <1>7, <1>8, <1>9, <1>10

\* The engine collects host functions of a proxy that is gone.
LEMMA CollectKeeps ==
    ASSUME JInv, NEW n \in Installs, Collect(n)
    PROVE  JInv'
<1> USE JsiAssumption DEF JInv, coreVars, installVars, promiseVars
<1>a. /\ jsq' = jsq /\ jsq \in Seq(Job)
      /\ Jobs(jsq)' = Jobs(jsq)
      /\ Jobs(jsq) \subseteq Job
      /\ \A d \in Calls : SettleQueued(d)' <=> SettleQueued(d)
  BY Pushed DEF Collect, TypeOK, SettleQueued, Jobs
<1>x. /\ destroyedBy' \in [Installs -> {"nobody"} \cup Thread]
      /\ CoresLive'
      /\ \A k \in Installs : destroyedBy'[k] # "nobody" => coreOf'[k] # None
  <2>1. \A k \in Installs : HasRef(k)' => HasRef(k)
    BY <1>a DEF HasRef, Collect
  <2> QED
    BY <1>a, <2>1, DropsCores DEF Collect
<1>1. TypeOK'
  <2>1. destroyedBy' \in [Installs -> {"nobody"} \cup Thread]
    BY <1>x
  <2> QED
    BY <2>1 DEF TypeOK, Collect
<1>2. OneInstalled'
  BY <1>a DEF OneInstalled, Collect
<1>3. Platform'
  BY <1>a DEF Platform, Collect
<1>4. Attempts'
  BY <1>a DEF Attempts, Collect
<1>5. AllTimely'
  BY <1>a, JobType DEF AllTimely, Timely, Collect
<1>6. Ordered(jsq)'
  BY <1>a, OrderStays, PushedInOrder DEF Collect
<1>7. AnswerComes'
  BY <1>a DEF AnswerComes, Queued, Collect
<1>8. Deferreds'
  BY <1>a, DeferredsStay DEF Collect
<1>9. CoresMade'
  BY <1>x DEF CoresMade, Collect
<1>10. CoresLive'
  BY <1>x
<1> QED
  BY <1>1, <1>2, <1>3, <1>4, <1>5, <1>6, <1>7, <1>8, <1>9, <1>10

\* A destructor returns once its pool is dry.
LEMMA DestroyedKeeps ==
    ASSUME JInv, NEW core \in Installs, Destroyed(core)
    PROVE  JInv'
<1> USE JsiAssumption DEF JInv, coreVars, installVars, promiseVars
<1>a. /\ jsq' = jsq /\ jsq \in Seq(Job)
      /\ Jobs(jsq)' = Jobs(jsq)
      /\ Jobs(jsq) \subseteq Job
      /\ \A d \in Calls : SettleQueued(d)' <=> SettleQueued(d)
  BY Pushed DEF Destroyed, TypeOK, SettleQueued, Jobs
<1>1. TypeOK'
  BY <1>a DEF TypeOK, Destroyed
<1>2. OneInstalled'
  BY <1>a DEF OneInstalled, Destroyed
<1>3. Platform'
  BY <1>a DEF Platform, Destroyed
<1>4. Attempts'
  BY <1>a DEF Attempts, Destroyed
<1>5. AllTimely'
  BY <1>a, JobType DEF AllTimely, Timely, Destroyed
<1>6. Ordered(jsq)'
  BY <1>a, OrderStays, PushedInOrder DEF Destroyed
<1>7. AnswerComes'
  BY <1>a DEF AnswerComes, Queued, Destroyed
<1>8. Deferreds'
  BY <1>a, DeferredsStay DEF Destroyed
<1>9. CoresMade'
  BY <1>a, KeptIsMade DEF CoresMade, Destroyed
<1>10. CoresLive'
  <2>1. \A k \in Installs : HasRef(k)' => HasRef(k)
    BY <1>a DEF HasRef, Destroyed
  <2>2. \A k : (Kept(k) <=> HasRef(k)) /\ (Kept(k)' <=> HasRef(k)')
    BY <1>a, KeptIsHasRef
  <2>3. destroyedBy' = destroyedBy /\ coreOf' = coreOf
    BY DEF Destroyed
  <2>4. \A k \in Installs : Kept(k)' => destroyedBy'[k] = "nobody"
    BY <2>1, <2>2, <2>3 DEF CoresLive
  <2>5. \A d \in Calls :
          task'[d] \in {"queued", "thrown", "ran"} => coreOf'[inst'[d]] \notin gone'
    BY DEF CoresLive, Deferreds, DeferredOk, TypeOK, Destroyed
  <2> QED
    BY <2>3, <2>4, <2>5 DEF CoresLive, Destroyed
<1> QED
  BY <1>1, <1>2, <1>3, <1>4, <1>5, <1>6, <1>7, <1>8, <1>9, <1>10

\* A proxy method makes a promise and queues its work.
LEMMA StartCallKeeps ==
    ASSUME JInv, NEW c \in Calls, StartCall(c)
    PROVE  JInv'
<1> USE JsiAssumption DEF JInv, coreVars, installVars, promiseVars
<1>a. /\ jsq' = jsq /\ jsq \in Seq(Job)
      /\ Jobs(jsq)' = Jobs(jsq)
      /\ Jobs(jsq) \subseteq Job
      /\ \A d \in Calls : SettleQueued(d)' <=> SettleQueued(d)
  BY Pushed DEF StartCall, MayCall, TypeOK, SettleQueued, Jobs
<1>1. TypeOK'
  BY <1>a DEF TypeOK, StartCall, MayCall
<1>2. OneInstalled'
  BY <1>a DEF OneInstalled, StartCall, MayCall
<1>3. Platform'
  BY <1>a DEF Platform, StartCall, MayCall
<1>4. Attempts'
  BY <1>a DEF Attempts, StartCall, MayCall
<1>5. AllTimely'
  BY <1>a, JobType DEF AllTimely, Timely, StartCall, MayCall
<1>6. Ordered(jsq)'
  BY <1>a, OrderStays, PushedInOrder DEF StartCall, MayCall
<1>7. AnswerComes'
  BY <1>a DEF AnswerComes, StartCall, MayCall
<1>8. Deferreds'
  <2>1. ASSUME NEW d \in Calls, d # c PROVE DeferredOk(d)'
    BY <1>a, <2>1 DEF Deferreds, DeferredOk, StartCall, MayCall
  <2>2. DeferredOk(c)'
    BY <1>a DEF Deferreds, DeferredOk, TypeOK, OneInstalled, StartCall, MayCall
  <2> QED
    BY <2>1, <2>2 DEF Deferreds
<1>9. CoresMade'
  BY <1>a, KeptIsMade DEF CoresMade, StartCall, MayCall
<1>10. CoresLive'
  <2>1. \A k \in Installs : HasRef(k)' => HasRef(k)
    BY <1>a DEF HasRef, StartCall, MayCall
  <2>2. \A k : (Kept(k) <=> HasRef(k)) /\ (Kept(k)' <=> HasRef(k)')
    BY <1>a, KeptIsHasRef
  <2>3. destroyedBy' = destroyedBy /\ coreOf' = coreOf
    BY DEF StartCall, MayCall
  <2>4. \A k \in Installs : Kept(k)' => destroyedBy'[k] = "nobody"
    BY <2>1, <2>2, <2>3 DEF CoresLive
  <2>a. coreOf[proxy] \in Installs
    BY DEF StartCall, MayCall, OneInstalled, CoresMade, TypeOK
  <2>b. coreOf[proxy] \notin gone
    BY <2>2, <2>a DEF StartCall, MayCall, OneInstalled, HasRef, CoresLive
  <2>5. \A d \in Calls :
          task'[d] \in {"queued", "thrown", "ran"} => coreOf'[inst'[d]] \notin gone'
    BY <2>3, <2>b DEF CoresLive, TypeOK, StartCall, MayCall
  <2> QED
    BY <2>3, <2>4, <2>5 DEF CoresLive, StartCall, MayCall
<1> QED
  BY <1>1, <1>2, <1>3, <1>4, <1>5, <1>6, <1>7, <1>8, <1>9, <1>10

\* A proxy method that fails at once still returns a promise.
LEMMA RejectCallKeeps ==
    ASSUME JInv, NEW c \in Calls, RejectCall(c)
    PROVE  JInv'
<1> USE JsiAssumption DEF JInv, coreVars, installVars, promiseVars
<1>a. PICK e \in Job :
        /\ jsq' = Append(jsq, e)
        /\ e = [kind |-> "settle", c |-> c, as |-> "rejected"]
  BY DEF RejectCall, MayCall, Job
<1>b. /\ jsq' \in Seq(Job) /\ jsq \in Seq(Job)
      /\ Jobs(jsq)' = Jobs(jsq) \cup {e}
      /\ Jobs(jsq) \subseteq Job
      /\ \A d \in Calls : SettleQueued(d) => SettleQueued(d)'
  <2>1. jsq' = Append(jsq, e) /\ jsq \in Seq(Job)
    BY <1>a DEF TypeOK
  <2> QED
    BY <2>1, Pushed DEF SettleQueued
<1>1. TypeOK'
  BY <1>a, <1>b DEF TypeOK, RejectCall, MayCall
<1>2. OneInstalled'
  BY <1>a, <1>b DEF OneInstalled, RejectCall, MayCall
<1>3. Platform'
  BY <1>a, <1>b DEF Platform, RejectCall, MayCall
<1>4. Attempts'
  BY <1>a, <1>b DEF Attempts, RejectCall, MayCall
<1>5. AllTimely'
  <2>1. Timely(e)'
    BY <1>a DEF Timely, TypeOK, RejectCall, MayCall
  <2>2. \A job \in Jobs(jsq) : Timely(job)'
    BY <1>b, JobType DEF AllTimely, Timely, RejectCall, MayCall
  <2> QED
    BY <1>b, <2>1, <2>2 DEF AllTimely
<1>6. Ordered(jsq)'
  <2>1. \A job \in Jobs(jsq) : MayFollow(e, job)
    BY <1>a, <1>b, JobType DEF MayFollow, AllTimely, Timely, RejectCall, MayCall
  <2> QED
    BY <1>a, <1>b, <2>1, PushedInOrder, OrderStays DEF RejectCall, MayCall
<1>7. AnswerComes'
  BY <1>a, <1>b DEF AnswerComes, RejectCall, MayCall
<1>8. Deferreds'
  <2>1. ASSUME NEW d \in Calls, d # c PROVE DeferredOk(d)'
    BY <1>a, <1>b, <2>1 DEF Deferreds, DeferredOk, RejectCall, MayCall
  <2>2. DeferredOk(c)'
    BY <1>a, <1>b
       DEF Deferreds, DeferredOk, TypeOK, OneInstalled, SettleQueued,
           RejectCall, MayCall
  <2> QED
    BY <2>1, <2>2 DEF Deferreds
<1>9. CoresMade'
  BY <1>a, <1>b, KeptIsMade DEF CoresMade, RejectCall, MayCall
<1>10. CoresLive'
  <2>1. \A k \in Installs : HasRef(k)' => HasRef(k)
    BY <1>a, <1>b DEF HasRef, RejectCall, MayCall
  <2>2. \A k : (Kept(k) <=> HasRef(k)) /\ (Kept(k)' <=> HasRef(k)')
    BY <1>a, <1>b, KeptIsHasRef
  <2>3. destroyedBy' = destroyedBy /\ coreOf' = coreOf
    BY DEF RejectCall, MayCall
  <2>4. \A k \in Installs : Kept(k)' => destroyedBy'[k] = "nobody"
    BY <2>1, <2>2, <2>3 DEF CoresLive
  <2>5. \A d \in Calls :
          task'[d] \in {"queued", "thrown", "ran"} => coreOf'[inst'[d]] \notin gone'
    BY <2>3 DEF CoresLive, Deferreds, DeferredOk, RejectCall, MayCall
  <2> QED
    BY <2>3, <2>4, <2>5 DEF CoresLive, RejectCall, MayCall
<1> QED
  BY <1>1, <1>2, <1>3, <1>4, <1>5, <1>6, <1>7, <1>8, <1>9, <1>10

\* A proxy method that throws returns a promise that is rejected already.
LEMMA ExecutorThrowsKeeps ==
    ASSUME JInv, NEW c \in Calls, ExecutorThrows(c)
    PROVE  JInv'
<1> USE JsiAssumption DEF JInv, coreVars, installVars, promiseVars
<1>a. /\ jsq' = jsq /\ jsq \in Seq(Job)
      /\ Jobs(jsq)' = Jobs(jsq)
      /\ Jobs(jsq) \subseteq Job
      /\ \A d \in Calls : SettleQueued(d)' <=> SettleQueued(d)
  BY Pushed DEF ExecutorThrows, MayCall, TypeOK, SettleQueued, Jobs
<1>1. TypeOK'
  BY <1>a DEF TypeOK, ExecutorThrows, MayCall
<1>2. OneInstalled'
  BY <1>a DEF OneInstalled, ExecutorThrows, MayCall
<1>3. Platform'
  BY <1>a DEF Platform, ExecutorThrows, MayCall
<1>4. Attempts'
  BY <1>a DEF Attempts, ExecutorThrows, MayCall
<1>5. AllTimely'
  BY <1>a, JobType DEF AllTimely, Timely, ExecutorThrows, MayCall
<1>6. Ordered(jsq)'
  BY <1>a, OrderStays, PushedInOrder DEF ExecutorThrows, MayCall
<1>7. AnswerComes'
  BY <1>a DEF AnswerComes, ExecutorThrows, MayCall
<1>8. Deferreds'
  <2>1. ASSUME NEW d \in Calls, d # c PROVE DeferredOk(d)'
    BY <1>a, <2>1 DEF Deferreds, DeferredOk, ExecutorThrows, MayCall
  <2>2. DeferredOk(c)'
    BY <1>a DEF Deferreds, DeferredOk, TypeOK, OneInstalled, ExecutorThrows, MayCall
  <2> QED
    BY <2>1, <2>2 DEF Deferreds
<1>9. CoresMade'
  BY <1>a, KeptIsMade DEF CoresMade, ExecutorThrows, MayCall
<1>10. CoresLive'
  <2>1. \A k \in Installs : HasRef(k)' => HasRef(k)
    BY <1>a DEF HasRef, ExecutorThrows, MayCall
  <2>2. \A k : (Kept(k) <=> HasRef(k)) /\ (Kept(k)' <=> HasRef(k)')
    BY <1>a, KeptIsHasRef
  <2>3. destroyedBy' = destroyedBy /\ coreOf' = coreOf
    BY DEF ExecutorThrows, MayCall
  <2>4. \A k \in Installs : Kept(k)' => destroyedBy'[k] = "nobody"
    BY <2>1, <2>2, <2>3 DEF CoresLive
  <2>a. coreOf[proxy] \in Installs
    BY DEF ExecutorThrows, MayCall, OneInstalled, CoresMade, TypeOK
  <2>b. coreOf[proxy] \notin gone
    BY <2>2, <2>a DEF ExecutorThrows, MayCall, OneInstalled, HasRef, CoresLive
  <2>5. \A d \in Calls :
          task'[d] \in {"queued", "thrown", "ran"} => coreOf'[inst'[d]] \notin gone'
    BY <2>3, <2>b DEF CoresLive, TypeOK, ExecutorThrows, MayCall
  <2> QED
    BY <2>3, <2>4, <2>5 DEF CoresLive, ExecutorThrows, MayCall
<1> QED
  BY <1>1, <1>2, <1>3, <1>4, <1>5, <1>6, <1>7, <1>8, <1>9, <1>10

\* A pool worker runs the task, and its callback queues the settlement.
LEMMA TaskSettlesKeeps ==
    ASSUME JInv, NEW c \in Calls, NEW as \in {"resolved", "rejected"},
           NEW how \in {"ran", "thrown"}, RunTask(c), Settle(c, as),
           Ran(c, how), UNCHANGED unheard
    PROVE  JInv'
<1> USE JsiAssumption DEF JInv, coreVars, installVars, promiseVars
<1>s. task[c] = "queued" /\ c \notin settled /\ promise[c] = "pending"
  BY DEF RunTask, TypeOK, Deferreds, DeferredOk
<1>a. PICK e \in Job :
        /\ jsq' = Append(jsq, e)
        /\ e = [kind |-> "settle", c |-> c, as |-> as]
  BY <1>s DEF Settle, MaySettle, Job
<1>b. /\ jsq' \in Seq(Job) /\ jsq \in Seq(Job)
      /\ Jobs(jsq)' = Jobs(jsq) \cup {e}
      /\ Jobs(jsq) \subseteq Job
      /\ \A d \in Calls : SettleQueued(d) => SettleQueued(d)'
  <2>1. jsq' = Append(jsq, e) /\ jsq \in Seq(Job)
    BY <1>a DEF TypeOK
  <2> QED
    BY <2>1, Pushed DEF SettleQueued
<1>c. e.kind = "settle" /\ e.c = c
  BY <1>a
<1>u. /\ settled' = settled \cup {c}
      /\ holders' = [holders EXCEPT ![c] = @ \cup {"job"}]
      /\ task' = [task EXCEPT ![c] = how]
      /\ UNCHANGED <<promise, inst, releasedBy, unheard, destroyedBy, gone,
                     installVars>>
  BY <1>s DEF Settle, MaySettle, Ran, RunTask
<1>1. TypeOK'
  BY <1>a, <1>b, <1>c DEF TypeOK, RunTask, Ran, Settle, MaySettle
<1>2. OneInstalled'
  BY <1>a, <1>b, <1>c DEF OneInstalled, RunTask
<1>3. Platform'
  BY <1>a, <1>b, <1>c DEF Platform, RunTask
<1>4. Attempts'
  BY <1>a, <1>b, <1>c DEF Attempts, RunTask
<1>5. AllTimely'
  <2>1. Timely(e)'
    BY <1>a, <1>s DEF Timely, TypeOK, RunTask, Settle, MaySettle
  <2>2. \A job \in Jobs(jsq) : Timely(job)'
    BY <1>b, <1>u, JobType DEF AllTimely, Timely, TypeOK
  <2> QED
    BY <1>b, <2>1, <2>2 DEF AllTimely
<1>6. Ordered(jsq)'
  <2>1. \A job \in Jobs(jsq) : MayFollow(e, job)
    BY <1>a, <1>b, <1>s, JobType DEF MayFollow, AllTimely, Timely
  <2> QED
    BY <1>a, <1>b, <2>1, PushedInOrder, OrderStays DEF RunTask
<1>7. AnswerComes'
  BY <1>a, <1>b, <1>c DEF AnswerComes, Queued, RunTask
<1>8. Deferreds'
  <2>1. ASSUME NEW d \in Calls, d # c PROVE DeferredOk(d)'
    BY <1>b, <1>u, <2>1 DEF Deferreds, DeferredOk, TypeOK
  <2>2. SettleQueued(c)'
    BY <1>b, <1>c DEF SettleQueued
  <2>3. /\ task'[c] = how /\ c \in settled'
        /\ holders'[c] = {"task", "job"}
        /\ UNCHANGED <<promise, inst, releasedBy, ran, alive>>
    BY <1>s
       DEF RunTask, Ran, Settle, MaySettle, TypeOK, Deferreds, DeferredOk
  <2>4. DeferredOk(c)'
    BY <1>s, <2>2, <2>3 DEF Deferreds, DeferredOk
  <2> QED
    BY <2>1, <2>4 DEF Deferreds
<1>9. CoresMade'
  BY <1>a, <1>b, <1>c, KeptIsMade DEF CoresMade, RunTask
<1>10. CoresLive'
  <2>1. \A k \in Installs : HasRef(k)' => HasRef(k)
    BY <1>b, <1>c DEF HasRef, RunTask
  <2>2. \A k : (Kept(k) <=> HasRef(k)) /\ (Kept(k)' <=> HasRef(k)')
    BY <1>a, <1>b, KeptIsHasRef
  <2>3. destroyedBy' = destroyedBy /\ coreOf' = coreOf
    BY DEF RunTask
  <2>4. \A k \in Installs : Kept(k)' => destroyedBy'[k] = "nobody"
    BY <2>1, <2>2, <2>3 DEF CoresLive
  <2>5. \A d \in Calls :
          task'[d] \in {"queued", "thrown", "ran"} => coreOf'[inst'[d]] \notin gone'
    BY <1>s, <2>3 DEF CoresLive, TypeOK, RunTask, Ran
  <2> QED
    BY <2>3, <2>4, <2>5 DEF CoresLive, RunTask
<1> QED
  BY <1>1, <1>2, <1>3, <1>4, <1>5, <1>6, <1>7, <1>8, <1>9, <1>10

\* A callback that queues no settlement: its exception was swallowed, or the
\* promise has been settled before.
LEMMA TaskMovesOn ==
    ASSUME JInv, NEW c \in Calls, NEW how \in {"ran", "thrown"}, Ran(c, how),
           task[c] \in {"queued", "thrown"},
           settled' \in {settled, settled \cup {c}},
           unheard' \in {unheard, unheard \cup {c}},
           how = "thrown" => c \in settled',
           c \in settled' \cup unheard',
           c \in settled' \ settled => c \in unheard',
           UNCHANGED <<jsq, holders, promise, inst, releasedBy, destroyedBy, gone,
                       installVars>>
    PROVE  JInv'
<1> USE JsiAssumption DEF JInv, installVars
<1>a. /\ jsq' = jsq /\ jsq \in Seq(Job)
      /\ Jobs(jsq)' = Jobs(jsq)
      /\ Jobs(jsq) \subseteq Job
      /\ \A d \in Calls : SettleQueued(d)' <=> SettleQueued(d)
  BY Pushed DEF TypeOK, SettleQueued, Jobs
<1>1. TypeOK'
  BY <1>a DEF TypeOK, Ran
<1>2. OneInstalled' /\ Platform' /\ Attempts'
  BY DEF OneInstalled, Platform, Attempts
<1>3. AllTimely'
  BY <1>a, JobType DEF AllTimely, Timely
<1>4. Ordered(jsq)'
  BY <1>a, OrderStays
<1>5. AnswerComes'
  BY <1>a DEF AnswerComes, Queued
<1>6. Deferreds'
  <2>1. ASSUME NEW d \in Calls, d # c PROVE DeferredOk(d)'
    BY <1>a, <2>1 DEF Deferreds, DeferredOk, TypeOK, Ran
  <2>2. task'[c] = how /\ promise[c] # "none"
    BY DEF TypeOK, Ran, Deferreds, DeferredOk
  <2>3. DeferredOk(c)'
    BY <1>a, <2>2 DEF Deferreds, DeferredOk
  <2> QED
    BY <2>1, <2>3 DEF Deferreds
<1>7. CoresMade'
  BY DEF CoresMade
<1>8. CoresLive'
  <2>1. \A k \in Installs : HasRef(k)' => HasRef(k)
    BY <1>a DEF HasRef
  <2>2. \A k : (Kept(k) <=> HasRef(k)) /\ (Kept(k)' <=> HasRef(k)')
    BY <1>a, KeptIsHasRef
  <2>3. \A k \in Installs : Kept(k)' => destroyedBy'[k] = "nobody"
    BY <2>1, <2>2 DEF CoresLive
  <2>4. \A d \in Calls :
          task'[d] \in {"queued", "thrown", "ran"} => coreOf'[inst'[d]] \notin gone'
    BY DEF CoresLive, TypeOK, Ran
  <2> QED
    BY <2>3, <2>4 DEF CoresLive
<1> QED
  BY <1>1, <1>2, <1>3, <1>4, <1>5, <1>6, <1>7, <1>8

\* What running a task can come to.
LEMMA RunTaskCases ==
    ASSUME JInv, NEW c \in Calls, RunTask(c)
    PROVE  /\ task[c] = "queued" /\ c \notin settled
           /\ UNCHANGED <<promise, inst, releasedBy, destroyedBy, gone, installVars>>
           /\ \E how \in {"ran", "thrown"} :
                /\ Ran(c, how)
                /\ \/ /\ \E as \in {"resolved", "rejected"} : Settle(c, as)
                      /\ UNCHANGED unheard
                   \/ /\ settled' \in {settled, settled \cup {c}}
                      /\ how = "thrown" => c \in settled'
                      /\ unheard' = unheard \cup {c}
                      /\ UNCHANGED <<holders, jsq>>
<1>1. task[c] = "queued" /\ c \notin settled
  BY DEF RunTask, JInv, Deferreds, DeferredOk
<1>2. CASE (\E as \in {"resolved", "rejected"} : Settle(c, as))
             /\ Ran(c, "ran") /\ UNCHANGED unheard
  BY <1>1, <1>2 DEF RunTask
<1>3. CASE Settle(c, "resolved") /\ Ran(c, "thrown") /\ UNCHANGED unheard
  BY <1>1, <1>3 DEF RunTask
<1>4. CASE SettleInVain(c) /\ \E how \in {"ran", "thrown"} : Ran(c, how)
  BY <1>1, <1>4 DEF RunTask, SettleInVain
<1>5. CASE unheard' = unheard \cup {c} /\ Ran(c, "ran")
             /\ UNCHANGED <<settled, holders, jsq>>
  BY <1>1, <1>5 DEF RunTask
<1> QED
  BY <1>2, <1>3, <1>4, <1>5 DEF RunTask

\* A pool worker runs the task and its callback.
LEMMA RunTaskKeeps == ASSUME JInv, NEW c \in Calls, RunTask(c) PROVE JInv'
<1>1. PICK how \in {"ran", "thrown"} :
        /\ Ran(c, how)
        /\ \/ (\E as \in {"resolved", "rejected"} : Settle(c, as)) /\ UNCHANGED unheard
           \/ /\ settled' \in {settled, settled \cup {c}}
              /\ how = "thrown" => c \in settled'
              /\ unheard' = unheard \cup {c}
              /\ UNCHANGED <<holders, jsq>>
  BY RunTaskCases
<1>2. CASE (\E as \in {"resolved", "rejected"} : Settle(c, as)) /\ UNCHANGED unheard
  BY <1>1, <1>2, TaskSettlesKeeps
<1>3. CASE /\ settled' \in {settled, settled \cup {c}}
           /\ how = "thrown" => c \in settled'
           /\ unheard' = unheard \cup {c}
           /\ UNCHANGED <<holders, jsq>>
  <2>1. /\ task[c] = "queued"
        /\ UNCHANGED <<promise, inst, releasedBy, destroyedBy, gone, installVars>>
    BY RunTaskCases
  <2>2. c \in unheard' /\ unheard' \in {unheard, unheard \cup {c}}
    BY <1>3
  <2> QED
    BY <1>1, <1>3, <2>1, <2>2, TaskMovesOn
<1> QED
  BY <1>1, <1>2, <1>3

\* A callback that runs again settles nothing.
LEMMA CallbackAgainKeeps ==
    ASSUME JInv, NEW c \in Calls, RunCallbackAgain(c)
    PROVE  JInv' /\ UNCHANGED <<jsq, promise, settled>>
<1>1. task[c] = "thrown" /\ c \in settled
  BY DEF RunCallbackAgain, JInv, Deferreds, DeferredOk
<1>2. /\ Ran(c, "ran")
      /\ UNCHANGED <<jsq, settled, holders, unheard, promise, inst, releasedBy,
                     destroyedBy, gone, installVars>>
  BY <1>1 DEF RunCallbackAgain, Settle, MaySettle
<1> QED
  BY <1>1, <1>2, TaskMovesOn

\* The worker drops the task, and with it its closures.
LEMMA DestroyTaskKeeps ==
    ASSUME JInv, NEW c \in Calls, DestroyTask(c)
    PROVE  JInv'
<1> USE JsiAssumption DEF JInv, coreVars, installVars, promiseVars
<1>a. /\ jsq' = jsq /\ jsq \in Seq(Job)
      /\ Jobs(jsq)' = Jobs(jsq)
      /\ Jobs(jsq) \subseteq Job
      /\ \A d \in Calls : SettleQueued(d)' <=> SettleQueued(d)
  BY Pushed DEF DestroyTask, TypeOK, SettleQueued, Jobs
<1>1. TypeOK'
  <2>1. destroyedBy' \in [Installs -> {"nobody"} \cup Thread]
    BY DEF DestroyTask, Drops, TypeOK, Thread
  <2>2. holders' \in [Calls -> SUBSET {"task", "job"}]
    BY DEF DestroyTask, Released, TypeOK
  <2> QED
    BY <2>1, <2>2 DEF TypeOK, DestroyTask, Released
<1>2. OneInstalled'
  BY <1>a DEF OneInstalled, DestroyTask
<1>3. Platform'
  BY <1>a DEF Platform, DestroyTask
<1>4. Attempts'
  BY <1>a DEF Attempts, DestroyTask
<1>5. AllTimely'
  BY <1>a, JobType DEF AllTimely, Timely, DestroyTask, Released
<1>6. Ordered(jsq)'
  BY <1>a, OrderStays, PushedInOrder DEF DestroyTask
<1>7. AnswerComes'
  BY <1>a DEF AnswerComes, Queued, DestroyTask
<1>8. Deferreds'
  <2>1. ASSUME NEW d \in Calls, d # c PROVE DeferredOk(d)'
    BY <1>a, <2>1 DEF Deferreds, DeferredOk, DestroyTask, Released
  <2>2. DeferredOk(c)'
    BY <1>a DEF Deferreds, DeferredOk, TypeOK, DestroyTask, Released
  <2> QED
    BY <2>1, <2>2 DEF Deferreds
<1>9. CoresMade'
  <2>1. \A k : Kept(k)' <=> Kept(k)
    BY DEF Kept, DestroyTask
  <2>2. destroyedBy' = destroyedBy
    BY <2>1 DEF DestroyTask, Drops, TypeOK
  <2> QED
    BY <2>2 DEF DestroyTask, CoresMade
<1>10. CoresLive'
  <2>1. \A k : Kept(k)' <=> Kept(k)
    BY DEF Kept, DestroyTask
  <2>2. destroyedBy' = destroyedBy
    BY <2>1 DEF DestroyTask, Drops, TypeOK
  <2> QED
    BY <2>1, <2>2 DEF DestroyTask, CoresLive
<1> QED
  BY <1>1, <1>2, <1>3, <1>4, <1>5, <1>6, <1>7, <1>8, <1>9, <1>10

\* The install job installs, and on iOS answers.
LEMMA InstallJobKeeps ==
    ASSUME JInv, NEW head, NEW rest, Takes(head, rest), head.kind = "install",
           InstallJob(head.n, rest), Drops("js")
    PROVE  JInv'
<1> USE JsiAssumption DEF JInv, promiseVars
<1>0. /\ memo = "asking" /\ native # "asked" /\ (~android => native = "idle")
      /\ head.n = attempt /\ attempt \in Installs /\ attempt \notin ran
      /\ current = None /\ alive = {}
      /\ coreOf[attempt] # None
      /\ current' = attempt /\ proxy' = attempt /\ alive' = {attempt}
      /\ ran' = ran \cup {attempt}
      /\ uncollected' = uncollected \cup {attempt}
      /\ UNCHANGED <<android, memo, attempt, native, invalidated, owned, coreOf,
                     gone, promise, inst, task, settled, holders, releasedBy,
                     unheard>>
  BY JobType
     DEF Takes, Timely, Platform, OneInstalled, TypeOK, InstallJob, AliveAfter
<1>1. \A job \in Jobs(rest) :
        /\ job \in Job
        /\ job.kind # "install"
        /\ job.kind = "reply" => android
        /\ Timely(job)
  BY DEF Takes, MayFollow
<1>a. /\ jsq' \in Seq(Job)
      /\ Jobs(rest) \subseteq Jobs(jsq)'
      /\ \A job \in Jobs(jsq)' :
           \/ job \in Jobs(rest)
           \/ ~android /\ job = [kind |-> "reply", ok |-> TRUE]
      /\ ~android => Queued("reply")'
      /\ Ordered(jsq')
  <2>1. CASE android
    BY <2>1 DEF Takes, InstallJob
  <2>2. CASE ~android
    <3> DEFINE e == [kind |-> "reply", ok |-> TRUE]
    <3>1. e \in Job /\ e.kind = "reply"
      BY DEF Job
    <3>2. jsq' = Append(rest, e) /\ rest \in Seq(Job) /\ Ordered(rest)
      BY <2>2 DEF InstallJob, Takes
    <3>3. \A job \in Jobs(rest) : MayFollow(e, job)
      BY <1>1, <2>2, <3>1 DEF MayFollow
    <3> HIDE DEF e
    <3>4. jsq' \in Seq(Job) /\ Jobs(jsq') = Jobs(rest) \cup {e} /\ Ordered(jsq')
      BY <3>1, <3>2, <3>3, Pushed, PushedInOrder
    <3> QED
      BY <2>2, <3>1, <3>4 DEF Queued, e
  <2> QED
    BY <2>1, <2>2
<1>b. \A k \in Installs : HasRef(k)' => HasRef(k)
  BY <1>0, <1>1, <1>a DEF Takes, HasRef
<1>c. /\ destroyedBy' \in [Installs -> {"nobody"} \cup Thread]
      /\ CoresLive'
      /\ \A k \in Installs : destroyedBy'[k] # "nobody" => coreOf'[k] # None
  BY <1>0, <1>1, <1>a, <1>b, DropsCores DEF InstallJob
<1>2. TypeOK'
  BY <1>0, <1>1, <1>a, <1>c, JobType DEF TypeOK
<1>3. OneInstalled'
  BY <1>0, <1>1, <1>a, JobType DEF OneInstalled, TypeOK
<1>4. Platform'
  BY <1>0, <1>1, <1>a, JobType DEF Platform, TypeOK
<1>5. Attempts'
  <2>1. ran' \subseteq 1..attempt'
    BY <1>0 DEF Attempts, Installs
  <2> QED
    BY <1>0, <2>1 DEF Attempts
<1>6. AllTimely'
  BY <1>0, <1>1, <1>a, JobType DEF AllTimely, Timely
<1>7. Ordered(jsq)'
  BY <1>0, <1>1, <1>a, OrderStays DEF Takes
<1>8. AnswerComes'
  <2>1. android /\ native = "idle" => Queued("reply")
    BY <1>0 DEF AnswerComes
  <2>2. Queued("reply") => Queued("reply")'
    BY <1>a DEF Takes, Queued
  <2> QED
    BY <1>0, <1>a, <2>1, <2>2 DEF AnswerComes
<1>9. Deferreds'
  <2>1. \A c \in Calls : SettleQueued(c) => SettleQueued(c)'
    BY <1>0, <1>1, <1>a DEF Takes, SettleQueued
  <2> QED
    BY <1>0, <1>1, <1>a, <2>1, DeferredsStay DEF Attempts, OneInstalled
<1>10. CoresMade'
  BY <1>0, <1>1, <1>a, <1>c DEF CoresMade
<1>11. CoresLive'
  BY <1>c
<1> QED
  BY <1>2, <1>3, <1>4, <1>5, <1>6, <1>7, <1>8, <1>9, <1>10, <1>11

\* The uninstall job removes what is installed.
LEMMA UninstallJobKeeps ==
    ASSUME JInv, NEW head, NEW rest, Takes(head, rest), head.kind = "uninstall",
           UninstallJob(rest), Drops("js")
    PROVE  JInv'
<1> USE JsiAssumption DEF JInv, promiseVars
<1>a. /\ jsq' = rest /\ jsq' \in Seq(Job) /\ head \in Job
      /\ Jobs(jsq)' = Jobs(rest) /\ Jobs(jsq) = {head} \cup Jobs(rest)
      /\ Jobs(rest) \subseteq Job
      /\ Timely(head)
      /\ \A job \in Jobs(rest) : Timely(job) /\ MayFollow(job, head)
  BY DEF Takes, UninstallJob
<1>b. \A k \in Installs : HasRef(k)' => HasRef(k)
  BY <1>a DEF HasRef, UninstallJob
<1>c. /\ destroyedBy' \in [Installs -> {"nobody"} \cup Thread]
      /\ CoresLive'
      /\ \A k \in Installs : destroyedBy'[k] # "nobody" => coreOf'[k] # None
  BY <1>a, <1>b, DropsCores DEF UninstallJob
<1>2. TypeOK'
  BY <1>a, <1>c, JobType DEF TypeOK, UninstallJob
<1>3. OneInstalled'
  BY <1>a, JobType DEF OneInstalled, UninstallJob
<1>4. Platform'
  BY <1>a, JobType DEF Platform, UninstallJob
<1>5. Attempts'
  BY <1>a, JobType DEF Attempts, UninstallJob
<1>6. AllTimely'
  BY <1>a, JobType DEF AllTimely, Timely, UninstallJob
<1>7. Ordered(jsq)'
  BY <1>a, OrderStays DEF Takes, UninstallJob
<1>8. AnswerComes'
  <2>1. \A kind \in {"install", "reply"} : Queued(kind) => Queued(kind)'
    BY <1>a DEF Queued
  <2> QED
    BY <2>1 DEF AnswerComes, UninstallJob
<1>9. Deferreds'
  <2>1. \A c \in Calls : SettleQueued(c) => SettleQueued(c)'
    BY <1>a DEF Takes, SettleQueued
  <2> QED
    BY <1>a, <2>1, DeferredsStay DEF UninstallJob
<1>10. CoresMade'
  BY <1>a, <1>c DEF CoresMade, UninstallJob
<1>11. CoresLive'
  BY <1>c
<1> QED
  BY <1>2, <1>3, <1>4, <1>5, <1>6, <1>7, <1>8, <1>9, <1>10, <1>11

\* index.ts learns how its attempt ended.
LEMMA ReplyJobKeeps ==
    ASSUME JInv, NEW head, NEW rest, Takes(head, rest), head.kind = "reply",
           ReplyJob(head.ok, rest), Drops("js")
    PROVE  JInv'
<1> USE JsiAssumption DEF JInv, promiseVars
<1>a. /\ jsq' = rest /\ jsq' \in Seq(Job) /\ head \in Job
      /\ Jobs(jsq)' = Jobs(rest) /\ Jobs(jsq) = {head} \cup Jobs(rest)
      /\ Jobs(rest) \subseteq Job
      /\ Timely(head)
      /\ \A job \in Jobs(rest) : Timely(job) /\ MayFollow(job, head)
  BY DEF Takes, ReplyJob
<1>0. native = "idle" /\ memo' \in {"done", "none"}
      /\ UNCHANGED <<attempt, native, ran, current, coreOf>>
  BY <1>a DEF Timely, ReplyJob, MemoAfter
<1>b. \A k \in Installs : HasRef(k)' => HasRef(k)
  BY <1>0, <1>a DEF HasRef, ReplyJob
<1>c. /\ destroyedBy' \in [Installs -> {"nobody"} \cup Thread]
      /\ CoresLive'
      /\ \A k \in Installs : destroyedBy'[k] # "nobody" => coreOf'[k] # None
  BY <1>0, <1>a, <1>b, DropsCores DEF ReplyJob
<1>2. TypeOK'
  BY <1>0, <1>a, <1>c, JobType DEF TypeOK, ReplyJob
<1>3. OneInstalled'
  BY <1>0, <1>a, JobType DEF OneInstalled, ReplyJob
<1>4. Platform'
  BY <1>0, <1>a, JobType DEF Platform, ReplyJob
<1>5. Attempts'
  BY <1>0 DEF Attempts
<1>6. AllTimely'
  BY <1>0, <1>a, JobType DEF AllTimely, Timely, MayFollow, ReplyJob
<1>7. Ordered(jsq)'
  BY <1>0, <1>a, OrderStays DEF Takes, ReplyJob
<1>8. AnswerComes'
  BY <1>0 DEF AnswerComes
<1>9. Deferreds'
  <2>1. \A c \in Calls : SettleQueued(c) => SettleQueued(c)'
    BY <1>0, <1>a DEF Takes, SettleQueued
  <2> QED
    BY <1>0, <1>a, <2>1, DeferredsStay DEF ReplyJob
<1>10. CoresMade'
  BY <1>0, <1>a, <1>c DEF CoresMade, ReplyJob
<1>11. CoresLive'
  BY <1>c
<1> QED
  BY <1>2, <1>3, <1>4, <1>5, <1>6, <1>7, <1>8, <1>9, <1>10, <1>11

\* The dispatched closure settles, if its installation lives.
LEMMA SettleJobKeeps ==
    ASSUME JInv, NEW head, NEW rest, Takes(head, rest), head.kind = "settle",
           SettleJob(head.c, head.as, rest), Drops("js")
    PROVE  JInv'
<1> USE JsiAssumption DEF JInv, promiseVars
<1>a. /\ jsq' = rest /\ jsq' \in Seq(Job) /\ head \in Job
      /\ Jobs(jsq)' = Jobs(rest) /\ Jobs(jsq) = {head} \cup Jobs(rest)
      /\ Jobs(rest) \subseteq Job
      /\ Timely(head)
      /\ \A job \in Jobs(rest) : Timely(job) /\ MayFollow(job, head)
  BY DEF Takes, SettleJob
<1>0. /\ head.kind = "settle" /\ head.c \in Calls
      /\ head.as \in {"resolved", "rejected"}
      /\ promise[head.c] = "pending" /\ head.c \in settled
      /\ \/ /\ promise' = IF inst[head.c] \in alive
                            THEN [promise EXCEPT ![head.c] = head.as]
                            ELSE promise
            /\ unheard' = unheard
         \/ promise' = promise /\ unheard' = unheard \cup {head.c}
      /\ holders' = [holders EXCEPT ![head.c] = @ \ {"job"}]
      /\ releasedBy' = [releasedBy EXCEPT ![head.c] =
                           IF holders[head.c] \ {"job"} = {} THEN "js" ELSE @]
      /\ UNCHANGED <<inst, task, settled, gone, android, memo, attempt, native,
                     ran, current, alive, proxy, invalidated, owned, coreOf,
                     uncollected>>
  BY <1>a, JobType DEF Timely, SettleJob, Released, MayTouch, installVars
<1>o. \A d \in Calls : d # head.c =>
        /\ promise'[d] = promise[d]
        /\ holders'[d] = holders[d]
        /\ releasedBy'[d] = releasedBy[d]
        /\ d \in unheard' <=> d \in unheard
  BY <1>0 DEF TypeOK
<1>b. \A k \in Installs : HasRef(k)' => HasRef(k)
  BY <1>0, <1>a DEF Takes, HasRef
<1>c. /\ destroyedBy' \in [Installs -> {"nobody"} \cup Thread]
      /\ CoresLive'
      /\ \A k \in Installs : destroyedBy'[k] # "nobody" => coreOf'[k] # None
  BY <1>0, <1>a, <1>b, DropsCores
<1>2. TypeOK'
  BY <1>0, <1>a, <1>c, JobType DEF TypeOK
<1>3. OneInstalled'
  BY <1>0, <1>a, JobType DEF OneInstalled, TypeOK
<1>4. Platform'
  BY <1>0, <1>a, JobType DEF Platform, TypeOK
<1>5. Attempts'
  BY <1>0, <1>a, JobType DEF Attempts
<1>6. AllTimely'
  <2> SUFFICES ASSUME NEW job \in Jobs(rest) PROVE Timely(job)'
    BY <1>a DEF AllTimely
  <2>1. Timely(job) /\ MayFollow(job, head) /\ job \in Job
    BY <1>a
  <2>2. CASE job.kind = "settle"
    <3>1. job.c \in Calls /\ job.c # head.c
      BY <1>0, <2>1, <2>2, JobType DEF MayFollow
    <3> QED
      BY <1>0, <1>o, <2>1, <2>2, <3>1 DEF Timely
  <2>3. CASE job.kind # "settle"
    BY <1>0, <2>1, <2>3 DEF Timely
  <2> QED
    BY <2>2, <2>3
<1>7. Ordered(jsq)'
  BY <1>0, <1>a, OrderStays DEF Takes
<1>8. AnswerComes'
  <2>1. \A kind \in {"install", "reply"} : Queued(kind) => Queued(kind)'
    BY <1>0, <1>a DEF Queued
  <2> QED
    BY <1>0, <2>1 DEF AnswerComes
<1>9. Deferreds'
  <2>1. ASSUME NEW d \in Calls, d # head.c PROVE DeferredOk(d)'
    <3>1. SettleQueued(d) => SettleQueued(d)'
      BY <1>a, <2>1 DEF SettleQueued
    <3> QED
      BY <1>0, <1>o, <2>1, <3>1 DEF Deferreds, DeferredOk
  <2>2. DeferredOk(head.c)'
    BY <1>0 DEF Deferreds, DeferredOk, TypeOK
  <2> QED
    BY <2>1, <2>2 DEF Deferreds
<1>10. CoresMade'
  BY <1>0, <1>a, <1>c DEF CoresMade
<1>11. CoresLive'
  BY <1>c
<1> QED
  BY <1>2, <1>3, <1>4, <1>5, <1>6, <1>7, <1>8, <1>9, <1>10, <1>11

\* Nothing is asked for, queued, installed or promised yet.
LEMMA InitJInv == Init => JInv
<1> SUFFICES ASSUME Init PROVE JInv
  OBVIOUS
<1>1. Jobs(jsq) = {} /\ jsq \in Seq(Job) /\ Len(jsq) = 0
  BY DEF Init, Jobs
<1>2. TypeOK
  BY <1>1, JsiAssumption DEF Init, TypeOK
<1>3. OneInstalled /\ Platform /\ Attempts
  BY DEF Init, OneInstalled, Platform, Attempts
<1>4. AllTimely /\ Ordered(jsq) /\ AnswerComes
  BY <1>1 DEF Init, AllTimely, Ordered, AnswerComes
<1>5. Deferreds
  BY DEF Init, Deferreds, DeferredOk
<1>6. CoresMade
  BY DEF Init, CoresMade
<1>7. \A k \in Installs : ~Kept(k)
  BY <1>1, JsiAssumption DEF Init, Kept, TaskKeeps
<1>8. CoresLive
  BY <1>7 DEF Init, CoresLive
<1> QED
  BY <1>2, <1>3, <1>4, <1>5, <1>6, <1>8 DEF JInv

\* Nothing happens.
LEMMA StutterKeeps == ASSUME JInv, UNCHANGED vars PROVE JInv'
<1>1. TypeOK' /\ OneInstalled' /\ Platform' /\ Attempts'
  BY DEF JInv, vars, TypeOK, OneInstalled, Platform, Attempts
<1>2. AllTimely' /\ Ordered(jsq)' /\ AnswerComes'
  BY DEF JInv, vars, AllTimely, Timely, Ordered, MayFollow, AnswerComes, Queued
<1>3. Deferreds'
  BY DEF JInv, vars, Deferreds, DeferredOk, SettleQueued
<1>4. CoresMade' /\ CoresLive'
  BY DEF JInv, vars, CoresMade, CoresLive, Kept
<1> QED
  BY <1>1, <1>2, <1>3, <1>4 DEF JInv

\* The JS thread runs the job at the head of its queue.
LEMMA RunJobKeeps == ASSUME JInv, RunJob PROVE JInv'
<1>1. Takes(Head(jsq), Tail(jsq)) /\ Drops("js")
  BY TakesHead DEF RunJob
<1>2. CASE Head(jsq).kind = "install" /\ InstallJob(Head(jsq).n, Tail(jsq))
  BY <1>1, <1>2, InstallJobKeeps
<1>3. CASE Head(jsq).kind = "uninstall" /\ UninstallJob(Tail(jsq))
  BY <1>1, <1>3, UninstallJobKeeps
<1>4. CASE Head(jsq).kind = "reply" /\ ReplyJob(Head(jsq).ok, Tail(jsq))
  BY <1>1, <1>4, ReplyJobKeeps
<1>5. CASE Head(jsq).kind = "settle"
             /\ SettleJob(Head(jsq).c, Head(jsq).as, Tail(jsq))
  BY <1>1, <1>5, SettleJobKeeps
<1> QED
  BY <1>2, <1>3, <1>4, <1>5 DEF RunJob

\* One lemma per action above.
LEMMA NextJInv == JInv /\ [Next]_vars => JInv'
<1> SUFFICES ASSUME JInv, [Next]_vars PROVE JInv'
  OBVIOUS
<1>1. CASE EnsureInstalled
  BY <1>1, EnsureKeeps
<1>2. CASE Native
  BY <1>2, NativeInstallKeeps, NativeRefusesKeeps, NativeWakesKeeps DEF Native
<1>3. CASE Invalidate \/ ResetCore
  BY <1>3, InvalidateKeeps, ResetCoreKeeps
<1>4. CASE RunJob
  BY <1>4, RunJobKeeps
<1>5. ASSUME NEW n \in Installs, Collect(n) \/ Destroyed(n) PROVE JInv'
  BY <1>5, CollectKeeps, DestroyedKeeps
<1>6. ASSUME NEW c \in Calls, StartCall(c) \/ RejectCall(c) \/ ExecutorThrows(c)
      PROVE  JInv'
  BY <1>6, StartCallKeeps, RejectCallKeeps, ExecutorThrowsKeeps
<1>7. ASSUME NEW c \in Calls, RunTask(c) PROVE JInv'
  BY <1>7, RunTaskKeeps
<1>8. ASSUME NEW c \in Calls, RunCallbackAgain(c) \/ DestroyTask(c) PROVE JInv'
  BY <1>8, CallbackAgainKeeps, DestroyTaskKeeps
<1>9. CASE Quiet \/ UNCHANGED vars
  BY <1>9, StutterKeeps DEF Quiet
<1> QED
  BY <1>1, <1>2, <1>3, <1>4, <1>5, <1>6, <1>7, <1>8, <1>9 DEF Next

\* JInv holds of every state index.ts, the installers, the proxy and the pool can
\* bring about between them.
THEOREM JInvHolds == Spec => []JInv
  BY InitJInv, NextJInv, PTL DEF Spec

\* What a step can make of a promise.
LEMMA PromiseStep ==
    ASSUME JInv, [Next]_vars, NEW c \in Calls
    PROVE  \/ promise'[c] = promise[c]
           \/ promise[c] = "none" /\ promise'[c] \in {"pending", "rejected"}
           \/ /\ promise[c] = "pending"
              /\ promise'[c] \in {"resolved", "rejected"}
              /\ inst[c] = current
<1>1. promise \in [Calls -> {"none", "pending", "resolved", "rejected"}]
  BY DEF JInv, TypeOK
<1>2. CASE RunJob
  <2>1. Takes(Head(jsq), Tail(jsq))
    BY <1>2, TakesHead DEF RunJob
  <2>2. CASE Head(jsq).kind = "settle"
               /\ SettleJob(Head(jsq).c, Head(jsq).as, Tail(jsq))
    <3>1. /\ Head(jsq).as \in {"resolved", "rejected"}
          /\ promise[Head(jsq).c] = "pending"
      BY <2>1, <2>2, JobType DEF Takes, Timely
    <3>2. \A i \in alive : i = current
      BY DEF JInv, OneInstalled
    <3> QED
      BY <1>1, <2>2, <3>1, <3>2 DEF SettleJob, MayTouch
  <2>3. CASE UNCHANGED promise
    BY <2>3
  <2> QED
    BY <1>2, <2>2, <2>3
       DEF RunJob, InstallJob, UninstallJob, ReplyJob, promiseVars
<1>3. ASSUME NEW d \in Calls, StartCall(d) \/ RejectCall(d) \/ ExecutorThrows(d)
      PROVE  \/ promise'[c] = promise[c]
             \/ promise[c] = "none" /\ promise'[c] \in {"pending", "rejected"}
  BY <1>1, <1>3 DEF StartCall, RejectCall, ExecutorThrows, MayCall
<1>4. CASE UNCHANGED promise
  BY <1>4
<1>5. Next => \/ UNCHANGED promise \/ RunJob
              \/ \E d \in Calls :
                   StartCall(d) \/ RejectCall(d) \/ ExecutorThrows(d)
  BY DEF Next, EnsureInstalled, Native, NativeInstall, NativeRefuses,
         NativeWakes, Invalidate, ResetCore, Collect, Destroyed, RunTask,
         RunCallbackAgain, DestroyTask, Quiet, vars, promiseVars
<1> QED
  BY <1>2, <1>3, <1>4, <1>5 DEF vars

\* What a step can make of the installation and of what index.ts remembers.
LEMMA InstallStep ==
    ASSUME JInv, [Next]_vars
    PROVE  /\ current # None => current' \in {current, None}
           /\ android /\ current # None => current' = current
           /\ memo' = "done" => memo = "done" \/ proxy # None
           /\ UNCHANGED android
<1>1. CASE RunJob
  <2>1. Takes(Head(jsq), Tail(jsq))
    BY <1>1, TakesHead DEF RunJob
  <2>2. CASE Head(jsq).kind = "install" /\ InstallJob(Head(jsq).n, Tail(jsq))
    BY <2>1, <2>2 DEF Takes, Timely, InstallJob
  <2>3. CASE Head(jsq).kind = "uninstall" /\ UninstallJob(Tail(jsq))
    BY <2>1, <2>3 DEF Takes, Timely, UninstallJob
  <2>4. CASE Head(jsq).kind = "reply" /\ ReplyJob(Head(jsq).ok, Tail(jsq))
    BY <2>4 DEF ReplyJob, MemoAfter
  <2>5. CASE Head(jsq).kind = "settle"
               /\ SettleJob(Head(jsq).c, Head(jsq).as, Tail(jsq))
    BY <2>5 DEF SettleJob, installVars
  <2> QED
    BY <1>1, <2>2, <2>3, <2>4, <2>5 DEF RunJob
<1>2. CASE EnsureInstalled
  BY <1>2 DEF EnsureInstalled
<1>3. CASE UNCHANGED <<android, memo, current>>
  BY <1>3
<1>4. Next => \/ RunJob \/ EnsureInstalled
              \/ UNCHANGED <<android, memo, current>>
  BY DEF Next, Native, NativeInstall, NativeRefuses, NativeWakes, Invalidate,
         ResetCore, Collect, Destroyed, StartCall, RejectCall,
         ExecutorThrows, MayCall, RunTask, RunCallbackAgain, DestroyTask, Quiet,
         vars, installVars
<1> QED
  BY <1>1, <1>2, <1>3, <1>4 DEF vars

-----------------------------------------------------------------------------

\* Every reachable state is well typed.
THEOREM TypeCorrect == Spec => []TypeOK
<1>1. JInv => TypeOK
  BY DEF JInv
<1> QED
  BY <1>1, JInvHolds, PTL

\* index.ts: once its promise has resolved, the proxy is there and stays there
\* (on Android), whatever timed out, came late or was asked for again before.
THEOREM DoneMeansInstalledHolds == Spec => []DoneMeansInstalled
<1>1. Init => DoneMeansInstalled
  BY DEF Init, DoneMeansInstalled
<1>2. JInv /\ DoneMeansInstalled /\ [Next]_vars /\ JInv' => DoneMeansInstalled'
  BY InstallStep DEF JInv, OneInstalled, DoneMeansInstalled
<1> QED
  BY <1>1, <1>2, JInvHolds, PTL DEF Spec

\* installCrossNative: no attempt installs over an installation that is there.
THEOREM NeverReplacedHolds == Spec => NeverReplaced
<1>1. JInv /\ [Next]_vars => [current # None => current' \in {current, None}]_vars
  BY InstallStep
<1> QED
  BY <1>1, JInvHolds, PTL DEF Spec, NeverReplaced

\* Deferred::settle: whichever callbacks run, however often, a Promise that has
\* been resolved or rejected stays what it is.
THEOREM SettlesOnceHolds == Spec => SettlesOnce
<1>1. JInv /\ [Next]_vars =>
        [\A c \in Calls :
           promise[c] \in {"resolved", "rejected"} =>
             promise'[c] = promise[c]]_vars
  BY PromiseStep
<1> QED
  BY <1>1, JInvHolds, PTL DEF Spec, SettlesOnce

\* The dispatched closure: no promise of an installation that has been removed
\* or replaced is settled.
THEOREM SettledUnderCurrentHolds == Spec => SettledUnderCurrent
<1>1. JInv /\ [Next]_vars =>
        [\A c \in Calls :
           promise'[c] \notin {"none", promise[c]} /\ promise[c] # "none" =>
             inst[c] = current]_vars
  BY PromiseStep
<1> QED
  BY <1>1, JInvHolds, PTL DEF Spec, SettledUnderCurrent

\* What TeardownEnds rests on.  A core is destroyed by no worker (which would
\* wait for itself), and only when nothing refers to it any longer; and no task
\* is left of a core whose destructor has returned.
TeardownIsSafe ==
    /\ \A k \in Installs : destroyedBy[k] # "worker"
    /\ \A k \in Installs : destroyedBy[k] # "nobody" => ~Kept(k)
    /\ \A c \in Calls :
         task[c] \in {"queued", "thrown", "ran"} => coreOf[inst[c]] \notin gone

\* Who destroys the core, and when: the host functions, the native module and
\* the queued install jobs keep it, the pool's tasks do not.
THEOREM TeardownIsSafeHolds == Spec => []TeardownIsSafe
<1>1. JInv => TeardownIsSafe
  BY DEF JInv, CoresLive, TeardownIsSafe
<1> QED
  BY <1>1, JInvHolds, PTL

\* What SettlesUnlessUnheard rests on.  What JavaScript waits for is on its way:
\* the answer to an install from the native thread or from a queued job, a
\* promise of the present installation from a pool task or a queued settlement,
\* unless an exception swallowed the answer.
AnswersAreOwed ==
    /\ AnswerComes
    /\ \A c \in Calls :
         promise[c] = "pending" /\ inst[c] \in alive /\ c \notin unheard =>
           task[c] = "queued" \/ SettleQueued(c)

\* index.ts and makePromise: no await is forgotten, and no promise other than
\* those whose callback or settlement threw.
THEOREM AnswersAreOwedHolds == Spec => []AnswersAreOwed
<1>1. JInv => AnswersAreOwed
  BY DEF JInv, TypeOK, Deferreds, DeferredOk, AnswersAreOwed
<1> QED
  BY <1>1, JInvHolds, PTL

\* A Deferred that has been released was settled before, or an exception took
\* its answer, or its Promise was rejected as it was made; and neither a pool
\* task nor a queued job is left that would use it.
ReleasedIsDone ==
    \A c \in Calls :
      releasedBy[c] # "nobody" =>
        /\ c \in settled \cup unheard \/ promise[c] = "rejected"
        /\ task[c] \in {"none", "gone"}
        /\ ~SettleQueued(c)

\* Deferred's shared_ptr: the closures that use it are the ones that hold it.
THEOREM ReleasedIsDoneHolds == Spec => []ReleasedIsDone
<1>1. JInv => ReleasedIsDone
  <2> SUFFICES ASSUME JInv, NEW c \in Calls, releasedBy[c] # "nobody"
               PROVE  /\ c \in settled \cup unheard \/ promise[c] = "rejected"
                      /\ task[c] \in {"none", "gone"}
                      /\ ~SettleQueued(c)
    BY DEF ReleasedIsDone
  <2>1. promise[c] # "none" /\ holders[c] = {}
    BY DEF JInv, Deferreds, DeferredOk
  <2>2. /\ task[c] \in {"none", "gone"}
        /\ c \in settled \cup unheard \/ promise[c] = "rejected"
    BY <2>1 DEF JInv, TypeOK, Deferreds, DeferredOk
  <2>3. ~SettleQueued(c)
    BY <2>1 DEF JInv, AllTimely, Timely, SettleQueued
  <2> QED
    BY <2>2, <2>3
<1> QED
  BY <1>1, JInvHolds, PTL

\* The other half of what TeardownEnds rests on: a core that is being destroyed
\* is given no more work, so its destructor waits for the tasks it had.
NoWorkForTheDying ==
    [][\A c \in Calls :
         task[c] = "none" /\ task'[c] # "none" =>
           destroyedBy[coreOf[inst'[c]]] = "nobody"]_vars

\* callFunction: JavaScript can call a core only through a proxy that keeps it.
THEOREM NoWorkForTheDyingHolds == Spec => NoWorkForTheDying
<1>1. ASSUME JInv, Next, NEW c \in Calls, task[c] = "none", task'[c] # "none"
      PROVE  destroyedBy[coreOf[inst'[c]]] = "nobody"
  <2>1. PICK d \in Calls :
          StartCall(d) \/ RunTask(d) \/ RunCallbackAgain(d) \/ DestroyTask(d)
    BY <1>1 DEF Next, EnsureInstalled, Native, NativeInstall, NativeRefuses,
                NativeWakes, Invalidate, ResetCore, RunJob, InstallJob,
                UninstallJob, ReplyJob, SettleJob, Collect, Destroyed,
                RejectCall, ExecutorThrows, Quiet, vars, promiseVars
  <2>2. StartCall(c)
    BY <1>1, <2>1
       DEF StartCall, RunTask, RunCallbackAgain, Ran, DestroyTask, JInv, TypeOK
  <2>3. inst'[c] = current /\ current # None /\ current \in ran
    <3>1. inst'[c] = proxy /\ proxy # None
      BY <1>1, <2>2 DEF StartCall, MayCall, JInv, TypeOK
    <3> QED
      BY <1>1, <3>1 DEF JInv, OneInstalled
  <2>4. coreOf[current] \in Installs
    <3>1. coreOf[current] # None /\ current \in Installs
      BY <1>1, <2>3 DEF JInv, TypeOK, CoresMade
    <3> QED
      BY <1>1, <3>1 DEF JInv, TypeOK
  <2> QED
    <3>1. Kept(coreOf[current])
      BY <2>3 DEF Kept
    <3> QED
      BY <1>1, <2>3, <2>4, <3>1 DEF JInv, CoresLive
<1>2. JInv /\ [Next]_vars =>
        [\A c \in Calls :
           task[c] = "none" /\ task'[c] # "none" =>
             destroyedBy[coreOf[inst'[c]]] = "nobody"]_vars
  BY <1>1
<1> QED
  BY <1>2, JInvHolds, PTL DEF Spec, NoWorkForTheDying

-----------------------------------------------------------------------------

(***************************************************************************)
(* The JSI backend implements RequestReply, as the node host does: every   *)
(* promise gets the outcome of its own work.  How the work of a call ended *)
(* is what its first callback says, kept here in a history variable.       *)
(***************************************************************************)
VARIABLE worked

Verdict(as) == IF as = "resolved" THEN "good" ELSE "bad"

Worked(c) ==
    IF c \in settled' \ settled /\ jsq' # jsq
      THEN Verdict(jsq'[Len(jsq')].as) ELSE worked[c]

HInit == Init /\ worked = [c \in Calls |-> "unknown"]
HNext == Next /\ worked' = [c \in Calls |-> Worked(c)]
HSpec == HInit /\ [][HNext]_<<vars, worked>>

\* The host of this backend is the process itself: the connection never breaks.
Told == [none |-> "none", pending |-> "pending",
         resolved |-> "answered", rejected |-> "failed"]
Backend == INSTANCE RequestReply WITH
             Ids <- Calls,
             promise <- [c \in Calls |-> Told[promise[c]]],
             outcome <- worked,
             broken <- FALSE

\* A queued settlement carries what the work came to, and what no Deferred was
\* told is unknown.
Carried ==
    /\ worked \in [Calls -> {"unknown", "good", "bad"}]
    /\ \A c \in Calls : c \notin settled => worked[c] = "unknown"
    /\ \A job \in Jobs(jsq) : job.kind = "settle" => worked[job.c] = Verdict(job.as)

\* What one promise's change is to RequestReply.
LEMMA Retold ==
    ASSUME promise \in [Calls -> {"none", "pending", "resolved", "rejected"}],
           NEW c \in Calls, NEW p, promise' = [promise EXCEPT ![c] = p]
    PROVE  [d \in Calls |-> Told[promise'[d]]] =
             [[d \in Calls |-> Told[promise[d]]] EXCEPT ![c] = Told[p]]
  OBVIOUS

\* Most steps neither end work nor queue a settlement.
LEMMA NothingWorked ==
    ASSUME Carried, worked' = [c \in Calls |-> Worked(c)],
           settled' = settled \/ (settled \subseteq settled' /\ jsq' = jsq),
           \A job \in Jobs(jsq)' : job.kind = "settle" => job \in Jobs(jsq)
    PROVE  worked' = worked /\ Carried'
<1>1. worked' = worked
  BY DEF Worked, Carried
<1> QED
  BY <1>1 DEF Carried

\* The end of a queue is the job put there last.
LEMMA LastPushed ==
    ASSUME NEW S, NEW q \in Seq(S), NEW e \in S
    PROVE  Append(q, e)[Len(Append(q, e))] = e
  OBVIOUS

\* The work of c ends, and its settlement is queued.
LEMMA WorkEnds ==
    ASSUME JInv, Carried, worked' = [d \in Calls |-> Worked(d)],
           NEW c \in Calls, NEW as \in {"resolved", "rejected"},
           c \notin settled, settled' = settled \cup {c},
           jsq' = Append(jsq, [kind |-> "settle", c |-> c, as |-> as])
    PROVE  /\ worked[c] = "unknown"
           /\ worked' = [worked EXCEPT ![c] = Verdict(as)]
           /\ Carried'
<1> DEFINE e == [kind |-> "settle", c |-> c, as |-> as]
<1>1. e \in Job /\ e.kind = "settle" /\ e.c = c /\ e.as = as
  BY DEF Job
<1>2. jsq' = Append(jsq, e) /\ jsq \in Seq(Job)
  BY DEF JInv, TypeOK
<1> HIDE DEF e
<1>3. /\ jsq'[Len(jsq')] = e
      /\ Jobs(jsq)' = Jobs(jsq) \cup {e}
      /\ Jobs(jsq) \subseteq Job
  <2>1. jsq'[Len(jsq')] = e
    <3>1. Append(jsq, e)[Len(Append(jsq, e))] = e
      BY <1>1, <1>2, LastPushed
    <3> QED
      BY <1>2, <3>1, Zenon
  <2>2. Jobs(jsq') = Jobs(jsq) \cup {e} /\ Jobs(jsq) \subseteq Job
    BY <1>1, <1>2, Pushed
  <2> QED
    BY <2>1, <2>2
<1>n. jsq' # jsq
  <2>1. Len(Append(jsq, e)) # Len(jsq)
    BY <1>2
  <2> QED
    BY <1>2, <2>1
<1>4. Worked(c) = Verdict(as) /\ \A d \in Calls : d # c => Worked(d) = worked[d]
  BY <1>1, <1>3, <1>n DEF Worked
<1>5. /\ worked' = [worked EXCEPT ![c] = Verdict(as)]
      /\ worked[c] = "unknown"
      /\ Verdict(as) \in {"good", "bad"}
  BY <1>4 DEF Carried, Verdict
<1>6. \A job \in Jobs(jsq) : job.kind = "settle" => job.c \in Calls /\ job.c # c
  BY <1>3, JobType DEF JInv, AllTimely, Timely
<1>7. \A job \in Jobs(jsq)' :
        job.kind = "settle" => worked'[job.c] = Verdict(job.as)
  BY <1>1, <1>3, <1>5, <1>6 DEF Carried
<1> QED
  BY <1>5, <1>7 DEF Carried

\* A promise settled as its work ended is answered, or fails.
LEMMA BackendSettles ==
    ASSUME promise \in [Calls -> {"none", "pending", "resolved", "rejected"}],
           NEW c \in Calls, NEW as \in {"resolved", "rejected"},
           promise[c] = "pending", promise' = [promise EXCEPT ![c] = as],
           worked[c] = Verdict(as), worked' = worked
    PROVE  Backend!Next
<1> DEFINE m == [d \in Calls |-> Told[promise[d]]]
<1>1. m[c] = "pending" /\ m' = [m EXCEPT ![c] = Told[as]]
  <2>1. m[c] = "pending"
    BY DEF Told
  <2>2. m' = [m EXCEPT ![c] = Told[as]]
    BY Retold
  <2> QED
    BY <2>1, <2>2
<1>2. CASE as = "resolved"
  <2>1. Told[as] = "answered" /\ worked[c] = "good"
    BY <1>2 DEF Told, Verdict
  <2>2. Backend!Answer(c)
    BY <1>1, <2>1 DEF Backend!Answer
  <2> QED
    BY <2>2 DEF Backend!Next
<1>3. CASE as = "rejected"
  <2>1. Told[as] = "failed" /\ worked[c] = "bad"
    BY <1>3 DEF Told, Verdict
  <2>2. Backend!Fail(c)
    BY <1>1, <2>1 DEF Backend!Fail
  <2> QED
    BY <2>2 DEF Backend!Next
<1> QED
  BY <1>2, <1>3

\* The JS thread's jobs: one kind settles a promise, the others touch none.
LEMMA BackendRuns ==
    ASSUME JInv, Carried, RunJob, worked' = [c \in Calls |-> Worked(c)]
    PROVE  Carried' /\ [Backend!Next]_Backend!vars
<1> DEFINE head == Head(jsq)
           rest == Tail(jsq)
<1>1. Takes(head, rest)
  BY TakesHead DEF RunJob
<1>2. CASE head.kind = "settle" /\ SettleJob(head.c, head.as, rest)
  <2>1. /\ head.c \in Calls /\ head.as \in {"resolved", "rejected"}
        /\ head \in Jobs(jsq) /\ promise[head.c] = "pending"
    BY <1>1, <1>2, JobType DEF Takes, Timely
  <2>2. worked' = worked /\ Carried'
    BY <1>1, <1>2, NothingWorked DEF Takes, SettleJob
  <2>3. worked[head.c] = Verdict(head.as)
    BY <1>2, <2>1 DEF Carried
  <2>4. promise \in [Calls -> {"none", "pending", "resolved", "rejected"}]
    BY DEF JInv, TypeOK
  <2>5. CASE promise' = [promise EXCEPT ![head.c] = head.as]
    BY <2>1, <2>2, <2>3, <2>4, <2>5, BackendSettles
  <2>6. CASE promise' = promise
    BY <2>2, <2>6 DEF Backend!vars
  <2> QED
    BY <1>2, <2>5, <2>6 DEF SettleJob
<1>3. CASE head.kind # "settle" /\ UNCHANGED promiseVars
  <2>1. \A job \in Jobs(jsq)' : job.kind = "settle" => job \in Jobs(jsq)
    <3>1. jsq' = rest \/ jsq' = Append(rest, [kind |-> "reply", ok |-> TRUE])
      BY <1>3 DEF RunJob, InstallJob, UninstallJob, ReplyJob
    <3>2. [kind |-> "reply", ok |-> TRUE] \in Job
      BY DEF Job
    <3> DEFINE e == [kind |-> "reply", ok |-> TRUE]
    <3>a. Jobs(Append(rest, e)) = Jobs(rest) \cup {e}
      <4>1. e \in Job /\ rest \in Seq(Job)
        BY <1>1, <3>2 DEF Takes
      <4> HIDE DEF e, rest
      <4> QED
        BY <4>1, Pushed
    <3>3. Jobs(jsq') \subseteq Jobs(rest) \cup {[kind |-> "reply", ok |-> TRUE]}
      BY <3>1, <3>a
    <3> QED
      BY <1>1, <3>3 DEF Takes
  <2>2. worked' = worked /\ Carried'
    BY <1>3, <2>1, NothingWorked DEF promiseVars
  <2> QED
    BY <1>3, <2>2 DEF promiseVars, Backend!vars
<1> QED
  BY <1>2, <1>3 DEF RunJob, InstallJob, UninstallJob, ReplyJob

\* Every step is one of RequestReply's, or none of its business.
LEMMA BackendSteps ==
    ASSUME JInv, Carried, [HNext]_<<vars, worked>>
    PROVE  Carried' /\ [Backend!Next]_Backend!vars
<1> DEFINE m == [d \in Calls |-> Told[promise[d]]]
<1>0. promise \in [Calls -> {"none", "pending", "resolved", "rejected"}]
  BY DEF JInv, TypeOK
<1>1. ASSUME NEW c \in Calls, StartCall(c), worked' = [d \in Calls |-> Worked(d)]
      PROVE  Carried' /\ [Backend!Next]_Backend!vars
  <2>1. worked' = worked /\ Carried'
    BY <1>1, NothingWorked DEF StartCall
  <2>2. m[c] = "none" /\ m' = [m EXCEPT ![c] = "pending"]
    <3>1. promise[c] = "none" /\ promise' = [promise EXCEPT ![c] = "pending"]
      BY <1>1 DEF StartCall, MayCall
    <3>2. Told["none"] = "none" /\ Told["pending"] = "pending"
      BY DEF Told
    <3> QED
      BY <1>0, <3>1, <3>2, Retold
  <2>3. Backend!Ask(c)
    BY <2>1, <2>2 DEF Backend!Ask
  <2> QED
    BY <2>1, <2>3 DEF Backend!Next
<1>2. ASSUME NEW c \in Calls, RejectCall(c), worked' = [d \in Calls |-> Worked(d)]
      PROVE  Carried' /\ [Backend!Next]_Backend!vars
  <2>1. c \notin settled
    BY <1>2 DEF RejectCall, MayCall, JInv, Deferreds, DeferredOk
  <2>2. /\ worked[c] = "unknown" /\ Carried'
        /\ worked' = [worked EXCEPT ![c] = "bad"]
    BY <1>2, <2>1, WorkEnds DEF RejectCall, Verdict
  <2>3. m[c] = "none" /\ m' = [m EXCEPT ![c] = "pending"]
    <3>1. promise[c] = "none" /\ promise' = [promise EXCEPT ![c] = "pending"]
      BY <1>2 DEF RejectCall, MayCall
    <3>2. Told["none"] = "none" /\ Told["pending"] = "pending"
      BY DEF Told
    <3> QED
      BY <1>0, <3>1, <3>2, Retold
  <2>4. Backend!AskInVain(c)
    BY <2>2, <2>3 DEF Backend!AskInVain
  <2> QED
    BY <2>2, <2>4 DEF Backend!Next
<1>e. ASSUME NEW c \in Calls, ExecutorThrows(c),
             worked' = [d \in Calls |-> Worked(d)]
      PROVE  Carried' /\ [Backend!Next]_Backend!vars
  <2>1. worked' = worked /\ Carried'
    BY <1>e, NothingWorked DEF ExecutorThrows
  <2>2. m[c] = "none" /\ m' = [m EXCEPT ![c] = "failed"]
    <3>1. promise[c] = "none" /\ promise' = [promise EXCEPT ![c] = "rejected"]
      BY <1>e DEF ExecutorThrows, MayCall
    <3>2. Told["none"] = "none" /\ Told["rejected"] = "failed"
      BY DEF Told
    <3> QED
      BY <1>0, <3>1, <3>2, Retold
  <2>3. Backend!Refuse(c)
    BY <2>1, <2>2 DEF Backend!Refuse
  <2> QED
    BY <2>1, <2>3 DEF Backend!Next
<1>3. ASSUME NEW c \in Calls, RunTask(c), worked' = [d \in Calls |-> Worked(d)]
      PROVE  Carried' /\ [Backend!Next]_Backend!vars
  <2>0. c \notin settled /\ promise[c] # "none" /\ promise' = promise
    BY <1>3, RunTaskCases DEF JInv, Deferreds, DeferredOk
  <2>1. CASE \E as \in {"resolved", "rejected"} : Settle(c, as)
    <3>1. PICK as \in {"resolved", "rejected"} : Settle(c, as)
      BY <2>1
    <3>2. /\ worked[c] = "unknown" /\ Carried'
          /\ worked' = [worked EXCEPT ![c] = Verdict(as)]
      BY <1>3, <2>0, <3>1, WorkEnds DEF Settle, MaySettle
    <3>3. m' = m /\ m[c] # "none"
      BY <1>0, <2>0 DEF Told
    <3>4. Backend!Work(c)
      BY <3>1, <3>2, <3>3 DEF Backend!Work, Verdict
    <3> QED
      BY <3>2, <3>4 DEF Backend!Next
  <2>2. CASE settled' \in {settled, settled \cup {c}} /\ jsq' = jsq
    <3>1. settled \subseteq settled' /\ Jobs(jsq)' = Jobs(jsq)
      BY <2>2 DEF Jobs
    <3>2. worked' = worked /\ Carried'
      BY <1>3, <2>2, <3>1, NothingWorked
    <3> QED
      BY <2>0, <3>2 DEF Backend!vars
  <2> QED
    BY <1>3, <2>1, <2>2, RunTaskCases
<1>4. ASSUME RunJob, worked' = [d \in Calls |-> Worked(d)]
      PROVE  Carried' /\ [Backend!Next]_Backend!vars
  BY <1>4, BackendRuns
<1>5. ASSUME UNCHANGED <<promise, settled>>,
             \A job \in Jobs(jsq)' : job.kind = "settle" => job \in Jobs(jsq),
             worked' = [d \in Calls |-> Worked(d)]
      PROVE  Carried' /\ [Backend!Next]_Backend!vars
  <2>1. worked' = worked /\ Carried'
    BY <1>5, NothingWorked
  <2> QED
    BY <1>5, <2>1 DEF Backend!vars
<1>6. ASSUME Native \/ Invalidate, worked' = [d \in Calls |-> Worked(d)]
      PROVE  Carried' /\ [Backend!Next]_Backend!vars
  <2>1. UNCHANGED <<promise, settled>>
    BY <1>6 DEF Native, NativeInstall, NativeRefuses, NativeWakes, Invalidate,
                promiseVars
  <2>2. PICK e : jsq' = Append(jsq, e) /\ e.kind # "settle" /\ e \in Job
    <3>1. CASE NativeInstall
      <4>1. [kind |-> "install", n |-> attempt] \in Job
        BY <3>1 DEF NativeInstall, NativeReady, JInv, Attempts, Job
      <4> QED
        BY <3>1, <4>1 DEF NativeInstall
    <3>2. CASE NativeRefuses
      <4>1. [kind |-> "reply", ok |-> FALSE] \in Job
        BY DEF Job
      <4> QED
        BY <3>2, <4>1 DEF NativeRefuses
    <3>3. CASE NativeWakes
      <4>1. [kind |-> "reply", ok |-> attempt \in ran] \in Job
        BY InIsBoolean DEF Job
      <4> QED
        BY <3>3, <4>1 DEF NativeWakes
    <3>4. CASE Invalidate
      <4>1. [kind |-> "uninstall"] \in Job
        BY DEF Job
      <4> QED
        BY <3>4, <4>1 DEF Invalidate
    <3> QED
      BY <1>6, <3>1, <3>2, <3>3, <3>4 DEF Native
  <2>3. \A job \in Jobs(jsq)' : job.kind = "settle" => job \in Jobs(jsq)
    BY <2>2, Pushed DEF JInv, TypeOK
  <2> QED
    BY <1>5, <1>6, <2>1, <2>3
<1>7. ASSUME UNCHANGED <<jsq, promise, settled>>,
             worked' = [d \in Calls |-> Worked(d)]
      PROVE  Carried' /\ [Backend!Next]_Backend!vars
  BY <1>5, <1>7 DEF Jobs
<1>8. ASSUME EnsureInstalled \/ ResetCore \/ Quiet
               \/ \E n \in Installs : Collect(n) \/ Destroyed(n)
      PROVE  UNCHANGED <<jsq, promise, settled>>
  BY <1>8
     DEF EnsureInstalled, ResetCore, Quiet, Collect, Destroyed, promiseVars,
         vars
<1>9. ASSUME NEW c \in Calls, RunCallbackAgain(c) \/ DestroyTask(c)
      PROVE  UNCHANGED <<jsq, promise, settled>>
  BY <1>9, CallbackAgainKeeps DEF DestroyTask
<1>10. CASE UNCHANGED <<vars, worked>>
  BY <1>10 DEF vars, Carried, Jobs, Backend!vars
<1> QED
  BY <1>1, <1>2, <1>e, <1>3, <1>4, <1>6, <1>7, <1>8, <1>9, <1>10
     DEF HNext, Next

\* Both ends of Deferred: whatever callbacks run and whatever is installed or
\* removed meanwhile, a promise settles at most once and as its own work ended.
THEOREM JsiImplementsRequestReply == HSpec => Backend!Spec
<1>1. HInit => JInv /\ Carried /\ Backend!Init
  <2> SUFFICES ASSUME HInit PROVE JInv /\ Carried /\ Backend!Init
    OBVIOUS
  <2>1. JInv
    BY InitJInv DEF HInit
  <2>2. Jobs(jsq) = {}
    BY DEF HInit, Init, Jobs
  <2>3. Carried
    BY <2>2 DEF HInit, Init, Carried
  <2>4. [c \in Calls |-> Told[promise[c]]] = [c \in Calls |-> "none"]
    BY DEF HInit, Init, Told
  <2> QED
    BY <2>1, <2>3, <2>4 DEF HInit, Backend!Init
<1>2. JInv /\ [HNext]_<<vars, worked>> => JInv'
  BY NextJInv DEF HNext, vars
<1>3. JInv /\ Carried /\ [HNext]_<<vars, worked>> => Carried' /\ [Backend!Next]_Backend!vars
  BY BackendSteps
<1> QED
  BY <1>1, <1>2, <1>3, PTL DEF HSpec, Backend!Spec

=============================================================================
