-------------------------- MODULE NodeHostProofs --------------------------
(***************************************************************************)
(* The development backend, for any number of requests: nothing waits for  *)
(* a dead host, a call runs after the loads requested before it, the host  *)
(* leaves main with no task under way, every promise gets the outcome of   *)
(* its own work, and while one is pending the two ends are not stuck.      *)
(***************************************************************************)
EXTENDS NodeHost, TLAPS

\* Ids are given out in order; one not given out has no trace anywhere.
Issued ==
    \A i \in Ids :
        /\ i < nextId => promise[i] # "none"
        /\ i >= nextId => /\ promise[i] = "none"
                          /\ op[i] = "inline"
                          /\ task[i] = "none"
                          /\ outcome[i] = "unknown"

\* What can still be settled is in the table that settles it.
Waiting == \A i \in Ids : promise[i] = "pending" => i \in pending

\* A write fails only when the host is gone.
Reported == unwritten # {} => host = "gone"

Piped(i) == \E k \in 1 .. Len(stdin) : stdin[k] = i

\* The host has not read these requests; they come in the order of their ids.
Unread ==
    /\ \A k \in 1 .. Len(stdin) :
           /\ stdin[k] < nextId
           /\ task[stdin[k]] = "none"
           /\ outcome[stdin[k]] = "unknown"
    /\ \A j, k \in 1 .. Len(stdin) : j < k => stdin[j] < stdin[k]

\* A reply on its way says how the work for its request ended.
Replies ==
    \A k \in 1 .. Len(stdout) : outcome[stdout[k].id] = Outcome(stdout[k].ok)

Working(i) == task[i] \in {"queued", "running"}

Tasks ==
    \A i \in Ids :
        /\ task[i] # "none" => op[i] # "inline"
        /\ Working(i) => outcome[i] = "unknown"
        /\ task[i] = "done" => outcome[i] # "unknown"

\* The reader waits for the only load there is.
OneLoad ==
    /\ \A i \in Ids :
           op[i] = "load" /\ task[i] # "none" =>
               host = "loading" \/ (crashed /\ host = "gone")
    /\ \A i, j \in Ids :
           /\ op[i] = "load" /\ task[i] # "none"
           /\ op[j] = "load" /\ task[j] # "none"
           => i = j

\* A helper waits for every call.
Helped == \A i \in Ids : op[i] = "call" /\ Working(i) => i \in helpers

\* While the host reads, every load before the next request has ended, but for
\* the one the reader waits for.
LoadsEnded ==
    host \in {"reading", "loading"} =>
        \A i \in Ids :
            op[i] = "load" /\ ~Piped(i) =>
                \/ outcome[i] # "unknown"
                \/ host = "loading" /\ task[i] # "none"

HInv ==
    /\ TypeOK /\ Issued /\ Waiting /\ Reported /\ Unread /\ Replies /\ Tasks
    /\ OneLoad /\ Helped /\ LoadsEnded
    /\ NothingAwaitsTheDead /\ LoadBeforeCall /\ DrainedBeforeTeardown

----------------------------------------------------------------------------
(* Sequences.                                                              *)

LEMMA Popped ==
    ASSUME NEW S, NEW s \in Seq(S), s # << >>
    PROVE  /\ Head(s) \in S
           /\ Head(s) = s[1]
           /\ 1 \in 1 .. Len(s)
           /\ Tail(s) \in Seq(S)
           /\ Len(Tail(s)) = Len(s) - 1
           /\ \A k \in 1 .. Len(Tail(s)) :
                  k + 1 \in 1 .. Len(s) /\ Tail(s)[k] = s[k + 1]
  OBVIOUS

LEMMA Pushed ==
    ASSUME NEW S, NEW s \in Seq(S), NEW e \in S
    PROVE  /\ Append(s, e) \in Seq(S)
           /\ Len(Append(s, e)) = Len(s) + 1
           /\ \A k \in 1 .. Len(s) : Append(s, e)[k] = s[k]
           /\ Append(s, e)[Len(s) + 1] = e
  OBVIOUS

LEMMA ElementType ==
    ASSUME NEW S, NEW s \in Seq(S), NEW k \in 1 .. Len(s)
    PROVE  s[k] \in S
  OBVIOUS

LEMMA ReplyType ==
    ASSUME NEW s \in Seq([id : Ids, ok : BOOLEAN]), NEW k \in 1 .. Len(s)
    PROVE  s[k].id \in Ids /\ s[k].ok \in BOOLEAN
<1> DEFINE R == [id : Ids, ok : BOOLEAN]
<1>1. s[k] \in R
  <2> HIDE DEF R
  <2>1. s \in Seq(R)
    BY DEF R
  <2> QED
    BY <2>1, ElementType
<1> QED
  BY <1>1

\* The requests in the pipe are ids.
LEMMA PipedType ==
    ASSUME TypeOK
    PROVE  \A k \in 1 .. Len(stdin) : stdin[k] \in Ids
  BY ElementType DEF TypeOK

\* The host takes the first line from the pipe.
LEMMA LineRead ==
    ASSUME TypeOK, Unread, stdin # << >>, stdin' = Tail(stdin)
    PROVE  /\ Head(stdin) \in Ids
           /\ Head(stdin) < nextId
           /\ task[Head(stdin)] = "none"
           /\ outcome[Head(stdin)] = "unknown"
           /\ stdin' \in Seq(Ids)
           /\ \A k \in 1 .. Len(stdin') :
                  \E n \in 1 .. Len(stdin) : stdin'[k] = stdin[n]
           /\ \A k \in 1 .. Len(stdin') : Head(stdin) < stdin'[k]
           /\ \A j, k \in 1 .. Len(stdin') : j < k => stdin'[j] < stdin'[k]
           /\ \A i \in Ids : Piped(i)' <=> Piped(i) /\ i # Head(stdin)
<1>1. stdin \in Seq(Ids)
  BY DEF TypeOK
<1>2. /\ Head(stdin) \in Ids
      /\ Head(stdin) = stdin[1]
      /\ 1 \in 1 .. Len(stdin)
      /\ stdin' \in Seq(Ids)
      /\ Len(stdin') = Len(stdin) - 1
      /\ \A k \in 1 .. Len(stdin') :
             k + 1 \in 1 .. Len(stdin) /\ stdin'[k] = stdin[k + 1]
  BY <1>1, Popped
<1>3. \A k \in 1 .. Len(stdin') :
          \E n \in 1 .. Len(stdin) : stdin'[k] = stdin[n]
  BY <1>2
<1>4. \A k \in 1 .. Len(stdin') : Head(stdin) < stdin'[k]
  BY <1>1, <1>2 DEF Unread
<1>5. \A j, k \in 1 .. Len(stdin') : j < k => stdin'[j] < stdin'[k]
  BY <1>1, <1>2 DEF Unread
<1>6. ASSUME NEW i \in Ids PROVE Piped(i)' <=> Piped(i) /\ i # Head(stdin)
  <2>1. Piped(i)' => Piped(i)
    BY <1>3 DEF Piped
  <2>2. Piped(i)' => i # Head(stdin)
    BY <1>2, <1>4 DEF Piped, Ids
  <2>3. ASSUME Piped(i), i # Head(stdin) PROVE Piped(i)'
    <3>1. PICK n \in 1 .. Len(stdin) : stdin[n] = i
      BY <2>3 DEF Piped
    <3>2. n # 1 /\ n \in Nat /\ Len(stdin) \in Nat
      BY <1>1, <1>2, <2>3, <3>1
    <3>3. n - 1 \in 1 .. Len(stdin')
      BY <1>2, <3>1, <3>2
    <3>4. stdin'[n - 1] = stdin[n]
      BY <1>2, <3>2, <3>3
    <3> QED
      BY <3>1, <3>3, <3>4 DEF Piped
  <2> QED
    BY <2>1, <2>2, <2>3
<1> QED
  BY <1>2, <1>3, <1>4, <1>5, <1>6 DEF Unread

\* The host writes a reply.
LEMMA ReplyWritten ==
    ASSUME TypeOK, Replies, NEW i \in Ids, NEW ok \in BOOLEAN,
           stdout' = Reply(i, ok),
           outcome'[i] = Outcome(ok),
           \A j \in Ids : outcome[j] # "unknown" => outcome'[j] = outcome[j]
    PROVE  /\ stdout' \in Seq([id : Ids, ok : BOOLEAN])
           /\ Replies'
<1> DEFINE r == [id |-> i, ok |-> ok]
<1>1. r \in [id : Ids, ok : BOOLEAN]
  OBVIOUS
<1>2. stdout \in Seq([id : Ids, ok : BOOLEAN])
  BY DEF TypeOK
<1>3. stdout' = Append(stdout, r)
  BY DEF Reply
<1>4. /\ stdout' \in Seq([id : Ids, ok : BOOLEAN])
      /\ Len(stdout') = Len(stdout) + 1
      /\ \A k \in 1 .. Len(stdout) : stdout'[k] = stdout[k]
      /\ stdout'[Len(stdout) + 1] = r
  BY <1>1, <1>2, <1>3, Pushed
<1>5. ASSUME NEW k \in 1 .. Len(stdout')
      PROVE  outcome'[stdout'[k].id] = Outcome(stdout'[k].ok)
  <2>1. CASE k = Len(stdout) + 1
    BY <1>4, <2>1
  <2>2. CASE k # Len(stdout) + 1
    <3>1. k \in 1 .. Len(stdout)
      BY <1>2, <1>4, <2>2
    <3>2. stdout[k].id \in Ids
      BY <1>2, <3>1, ReplyType
    <3>3. outcome[stdout[k].id] = Outcome(stdout[k].ok)
      BY <3>1 DEF Replies
    <3>4. outcome'[stdout[k].id] = outcome[stdout[k].id]
      BY <3>2, <3>3 DEF Outcome
    <3> QED
      BY <1>4, <3>1, <3>3, <3>4
  <2> QED
    BY <2>1, <2>2
<1>6. Replies'
  BY <1>5 DEF Replies, Outcome
<1> QED
  BY <1>4, <1>6

----------------------------------------------------------------------------
(* What a step does not disturb.                                           *)

LEMMA HostAtRest ==
    ASSUME HInv, UNCHANGED <<op, hostVars>>
    PROVE  /\ Tasks' /\ OneLoad' /\ Helped'
           /\ LoadBeforeCall' /\ DrainedBeforeTeardown'
<1>1. Tasks' /\ Helped'
  BY DEF HInv, Tasks, Helped, Working, hostVars
<1>2. OneLoad'
  BY DEF HInv, OneLoad, hostVars
<1>3. LoadBeforeCall' /\ DrainedBeforeTeardown'
  BY DEF HInv, LoadBeforeCall, DrainedBeforeTeardown, hostVars
<1> QED
  BY <1>1, <1>2, <1>3

LEMMA PipeAtRest ==
    ASSUME HInv, UNCHANGED <<op, stdin, host, task, outcome>>,
           nextId' \in {nextId, nextId + 1}
    PROVE  Unread' /\ LoadsEnded'
<1>1. Unread'
  <2>1. \A k \in 1 .. Len(stdin) : stdin[k] \in Nat /\ nextId \in Nat
    BY PipedType, NodeHostAssumption DEF HInv, TypeOK, Ids
  <2> QED
    BY <2>1 DEF HInv, Unread
<1>2. LoadsEnded'
  BY DEF HInv, LoadsEnded, Piped
<1> QED
  BY <1>1, <1>2

LEMMA ClientAtRest ==
    ASSUME HInv, UNCHANGED clientVars, host = "gone" => host' = "gone"
    PROVE  Waiting' /\ Reported' /\ NothingAwaitsTheDead'
  BY DEF HInv, Waiting, Reported, NothingAwaitsTheDead, clientVars

MaySettle(i) ==
    \/ promise'[i] = promise[i]
    \/ promise[i] = "pending" /\ promise'[i] \in {"answered", "failed"}

\* Promises that wait are settled, and nothing else happens to promises.
LEMMA Settling ==
    ASSUME HInv, UNCHANGED <<nextId, op, hostVars>>,
           promise' \in [Ids -> {"none", "pending", "answered", "failed"}],
           \A i \in Ids : MaySettle(i)
    PROVE  Issued'
  BY DEF HInv, Issued, MaySettle, hostVars

LEMMA SettledType ==
    ASSUME TypeOK, NEW i \in Ids, NEW as \in {"answered", "failed"},
           promise' = Settled(i, as)
    PROVE  /\ promise' \in [Ids -> {"none", "pending", "answered", "failed"}]
           /\ promise'[i] # "pending"
           /\ \A j \in Ids : MaySettle(j)
  BY DEF TypeOK, Settled, MaySettle

LEMMA RejectedType ==
    ASSUME TypeOK, Waiting, promise' = AllRejected
    PROVE  /\ promise' \in [Ids -> {"none", "pending", "answered", "failed"}]
           /\ \A j \in Ids : promise'[j] # "pending" /\ MaySettle(j)
  BY DEF TypeOK, AllRejected, Waiting, MaySettle

----------------------------------------------------------------------------
(* The backend's steps.                                                    *)

LEMMA RequestKeeps ==
    ASSUME HInv, NEW o \in Ops, Request(o)
    PROVE  HInv'
<1>1. CASE host = "gone"
  <2>1. TypeOK'
    <3>1. nextId' \in 1 .. (MaxRequests + 1)
      BY NodeHostAssumption DEF Request, Ids
    <3> QED
      BY <1>1, <3>1 DEF HInv, TypeOK, Request, hostVars
  <2>2. Issued' /\ Waiting' /\ NothingAwaitsTheDead'
    BY <1>1 DEF HInv, TypeOK, Issued, Waiting, NothingAwaitsTheDead, Request,
                CanRequest, Ids, hostVars
  <2>3. Reported' /\ LoadsEnded'
    BY <1>1 DEF Reported, LoadsEnded, Request, hostVars
  <2>4. Unread'
    <3>1. \A k \in 1 .. Len(stdin) : stdin[k] \in Nat /\ nextId \in Nat
      BY PipedType, NodeHostAssumption DEF HInv, TypeOK, Ids
    <3> QED
      BY <1>1, <3>1 DEF HInv, Unread, Request, hostVars
  <2>7. Replies'
    BY DEF HInv, Replies, Request, hostVars
  <2>5. Tasks' /\ OneLoad' /\ Helped'
    BY DEF HInv, TypeOK, Issued, Tasks, OneLoad, Helped, Working, Request, Ids,
           hostVars
  <2>6. LoadBeforeCall' /\ DrainedBeforeTeardown'
    BY DEF HInv, TypeOK, Issued, LoadBeforeCall, DrainedBeforeTeardown, Request,
           Ids, hostVars
  <2> QED
    BY <2>1, <2>2, <2>3, <2>4, <2>5, <2>6, <2>7 DEF HInv
<1>2. CASE host # "gone"
  <2>1. /\ stdin' = Append(stdin, nextId)
        /\ nextId \in Ids
        /\ nextId' = nextId + 1
        /\ op' = [op EXCEPT ![nextId] = o]
        /\ UNCHANGED <<unwritten, stdout, hostVars>>
    BY <1>2 DEF Request
  <2>2. /\ stdin \in Seq(Ids)
        /\ stdin' \in Seq(Ids)
        /\ Len(stdin') = Len(stdin) + 1
        /\ \A k \in 1 .. Len(stdin) : stdin'[k] = stdin[k]
        /\ stdin'[Len(stdin) + 1] = nextId
    BY <2>1, Pushed DEF HInv, TypeOK
  <2>3. TypeOK'
    <3>1. nextId' \in 1 .. (MaxRequests + 1)
      BY <2>1, NodeHostAssumption DEF Ids
    <3> QED
      BY <2>1, <2>2, <3>1 DEF HInv, TypeOK, Request, hostVars
  <2>4. Issued' /\ Waiting' /\ NothingAwaitsTheDead'
    BY DEF HInv, TypeOK, Issued, Waiting, NothingAwaitsTheDead, Request,
           CanRequest, Ids, hostVars
  <2>5. Reported' /\ Replies'
    BY <2>1 DEF HInv, Reported, Replies, hostVars
  <2>6. Unread'
    <3>1. ASSUME NEW k \in 1 .. Len(stdin')
          PROVE  /\ stdin'[k] < nextId'
                 /\ task'[stdin'[k]] = "none"
                 /\ outcome'[stdin'[k]] = "unknown"
      <4>1. nextId \in Nat /\ \A n \in 1 .. Len(stdin) : stdin[n] \in Nat
        BY <2>1, PipedType DEF HInv, Ids
      <4>2. CASE k = Len(stdin) + 1
        BY <2>1, <2>2, <4>1, <4>2 DEF HInv, Issued, hostVars
      <4>3. CASE k \in 1 .. Len(stdin)
        BY <2>1, <2>2, <4>1, <4>3 DEF HInv, Unread, hostVars
      <4> QED
        BY <2>2, <4>2, <4>3
    <3>2. ASSUME NEW j \in 1 .. Len(stdin'), NEW k \in 1 .. Len(stdin'), j < k
          PROVE  stdin'[j] < stdin'[k]
      BY <2>1, <2>2, <3>2 DEF HInv, Unread
    <3> QED
      BY <3>1, <3>2 DEF Unread
  <2>7. LoadsEnded'
    <3>1. ASSUME NEW i \in Ids, ~Piped(i)' PROVE i # nextId /\ ~Piped(i)
      BY <2>2, <3>1 DEF Piped
    <3> QED
      BY <2>1, <3>1 DEF HInv, TypeOK, LoadsEnded, hostVars
  <2>8. Tasks' /\ OneLoad' /\ Helped'
    BY <2>1 DEF HInv, TypeOK, Issued, Tasks, OneLoad, Helped, Working, Ids,
                hostVars
  <2>9. LoadBeforeCall' /\ DrainedBeforeTeardown'
    BY <2>1 DEF HInv, TypeOK, Issued, LoadBeforeCall, DrainedBeforeTeardown,
                Ids, hostVars
  <2> QED
    BY <2>3, <2>4, <2>5, <2>6, <2>7, <2>8, <2>9 DEF HInv
<1> QED
  BY <1>1, <1>2

LEMMA RequestThrowsKeeps ==
    ASSUME HInv, RequestThrows
    PROVE  HInv'
<1>1. TypeOK'
  <2>1. nextId' \in 1 .. (MaxRequests + 1)
    BY NodeHostAssumption DEF RequestThrows, Ids
  <2> QED
    BY <2>1 DEF HInv, TypeOK, RequestThrows, hostVars
<1>2. Issued' /\ Waiting' /\ NothingAwaitsTheDead'
  BY DEF HInv, TypeOK, Issued, Waiting, NothingAwaitsTheDead, RequestThrows,
         CanRequest, Ids, hostVars
<1>3. Reported' /\ Replies'
  BY DEF HInv, Reported, Replies, RequestThrows, hostVars
<1>4. Unread' /\ LoadsEnded'
  BY PipeAtRest DEF RequestThrows, hostVars
<1> QED
  BY <1>1, <1>2, <1>3, <1>4, HostAtRest DEF HInv, RequestThrows

LEMMA WriteFailsKeeps ==
    ASSUME HInv, NEW i \in Ids, WriteFails(i)
    PROVE  HInv'
<1>1. /\ promise' \in [Ids -> {"none", "pending", "answered", "failed"}]
      /\ promise'[i] # "pending"
      /\ \A j \in Ids : MaySettle(j)
  BY SettledType DEF HInv, WriteFails
<1>2. TypeOK'
  BY <1>1 DEF HInv, TypeOK, WriteFails, hostVars
<1>3. Issued'
  BY <1>1, Settling DEF WriteFails
<1>4. Waiting' /\ NothingAwaitsTheDead'
  BY <1>1 DEF HInv, Waiting, NothingAwaitsTheDead, MaySettle, WriteFails
<1>5. Reported' /\ Replies'
  BY DEF HInv, Reported, Replies, WriteFails, hostVars
<1>6. Unread' /\ LoadsEnded'
  BY PipeAtRest DEF WriteFails, hostVars
<1> QED
  BY <1>2, <1>3, <1>4, <1>5, <1>6, HostAtRest DEF HInv, WriteFails

LEMMA HandleLineKeeps ==
    ASSUME HInv, HandleLine
    PROVE  HInv'
<1> DEFINE R == [id : Ids, ok : BOOLEAN]
<1>1. /\ Head(stdout).id \in Ids
      /\ stdout' \in Seq(R)
      /\ \A k \in 1 .. Len(stdout') :
             k + 1 \in 1 .. Len(stdout) /\ stdout'[k] = stdout[k + 1]
  <2>1. stdout \in Seq(R) /\ stdout # << >> /\ stdout' = Tail(stdout)
    BY DEF HInv, TypeOK, HandleLine
  <2> HIDE DEF R
  <2>2. /\ Head(stdout) = stdout[1] /\ 1 \in 1 .. Len(stdout)
        /\ stdout' \in Seq(R)
        /\ \A k \in 1 .. Len(stdout') :
               k + 1 \in 1 .. Len(stdout) /\ stdout'[k] = stdout[k + 1]
    BY <2>1, Popped
  <2> QED
    BY <2>1, <2>2, ReplyType DEF R
<1>2. /\ promise' \in [Ids -> {"none", "pending", "answered", "failed"}]
      /\ pending' \subseteq Ids
      /\ \A j \in Ids :
             j \in pending /\ j \notin pending' => promise'[j] # "pending"
      /\ \A j \in Ids : MaySettle(j)
  <2>1. CASE Head(stdout).id \in pending
    BY <1>1, <2>1, SettledType DEF HInv, TypeOK, HandleLine, ReplyFor
  <2>2. CASE Head(stdout).id \notin pending
    BY <2>2 DEF HInv, TypeOK, MaySettle, HandleLine
  <2> QED
    BY <2>1, <2>2
<1>3. TypeOK'
  BY <1>1, <1>2 DEF HInv, TypeOK, HandleLine, hostVars
<1>4. Issued'
  BY <1>2, Settling DEF HandleLine
<1>5. Waiting' /\ NothingAwaitsTheDead'
  BY <1>2 DEF HInv, Waiting, NothingAwaitsTheDead, MaySettle, HandleLine
<1>6. Reported' /\ Replies'
  BY <1>1 DEF HInv, Reported, Replies, Outcome, HandleLine, hostVars
<1>7. Unread' /\ LoadsEnded'
  BY PipeAtRest DEF HandleLine, hostVars
<1> QED
  BY <1>3, <1>4, <1>5, <1>6, <1>7, HostAtRest DEF HInv, HandleLine

\* The exit event and dispose(): everything that waits is rejected.
LEMMA RejectingKeeps ==
    ASSUME HInv, ExitEvent \/ Dispose
    PROVE  HInv'
<1> USE DEF ExitEvent, Dispose
<1>1. /\ promise' \in [Ids -> {"none", "pending", "answered", "failed"}]
      /\ \A j \in Ids : promise'[j] # "pending" /\ MaySettle(j)
  BY RejectedType DEF HInv
<1>2. TypeOK'
  BY <1>1 DEF HInv, TypeOK, hostVars
<1>3. Issued'
  BY <1>1, Settling
<1>4. Waiting' /\ NothingAwaitsTheDead'
  BY <1>1 DEF Waiting, NothingAwaitsTheDead
<1>5. Reported' /\ Replies'
  BY DEF HInv, Reported, Replies, hostVars
<1>6. Unread' /\ LoadsEnded'
  BY PipeAtRest DEF hostVars
<1> QED
  BY <1>2, <1>3, <1>4, <1>5, <1>6, HostAtRest DEF HInv

----------------------------------------------------------------------------
(* The host's steps.                                                       *)

LEMMA HandleInlineKeeps ==
    ASSUME HInv, HandleInline
    PROVE  HInv'
<1> DEFINE h == Head(stdin)
<1>1. /\ h \in Ids
      /\ h < nextId
      /\ task[h] = "none"
      /\ outcome[h] = "unknown"
      /\ stdin' \in Seq(Ids)
      /\ \A k \in 1 .. Len(stdin') :
             \E n \in 1 .. Len(stdin) : stdin'[k] = stdin[n]
      /\ \A k \in 1 .. Len(stdin') : h < stdin'[k]
      /\ \A j, k \in 1 .. Len(stdin') : j < k => stdin'[j] < stdin'[k]
      /\ \A i \in Ids : Piped(i)' <=> Piped(i) /\ i # h
  BY LineRead DEF HInv, HandleInline
<1>2. PICK ok \in BOOLEAN :
          /\ stdout' = Reply(h, ok)
          /\ outcome' = [outcome EXCEPT ![h] = Outcome(ok)]
  BY DEF HandleInline
<1>3. /\ outcome' \in [Ids -> {"unknown", "good", "bad"}]
      /\ outcome'[h] = Outcome(ok)
      /\ outcome'[h] # "unknown"
      /\ \A j \in Ids : j # h => outcome'[j] = outcome[j]
  BY <1>1, <1>2 DEF HInv, TypeOK, Outcome
<1>4. stdout' \in Seq([id : Ids, ok : BOOLEAN]) /\ Replies'
  BY <1>1, <1>2, <1>3, ReplyWritten DEF HInv
<1>5. /\ op[h] = "inline"
      /\ host = "reading"
      /\ UNCHANGED <<nextId, op, promise, host, task, helpers, crashed>>
  BY DEF HandleInline, clientVars
<1>6. TypeOK'
  BY <1>1, <1>3, <1>4 DEF HInv, TypeOK, HandleInline, clientVars
<1> HIDE DEF h
<1>7. Issued'
  BY <1>1, <1>3, <1>5 DEF HInv, TypeOK, Issued, Ids
<1>8. Unread'
  <2>1. ASSUME NEW k \in 1 .. Len(stdin')
        PROVE  /\ stdin'[k] < nextId'
               /\ task'[stdin'[k]] = "none"
               /\ outcome'[stdin'[k]] = "unknown"
    <3>1. PICK n \in 1 .. Len(stdin) : stdin'[k] = stdin[n]
      BY <1>1
    <3>2. stdin[n] \in Ids /\ stdin[n] # h
      BY <1>1, <3>1, PipedType DEF HInv, Ids
    <3> QED
      BY <1>3, <1>5, <3>1, <3>2 DEF HInv, Unread
  <2> QED
    BY <1>1, <2>1 DEF Unread
<1>9. Tasks' /\ OneLoad' /\ Helped'
  BY <1>1, <1>3, <1>5 DEF HInv, Tasks, OneLoad, Helped, Working
<1>10. LoadsEnded'
  BY <1>1, <1>3, <1>5 DEF HInv, LoadsEnded
<1>11. LoadBeforeCall' /\ DrainedBeforeTeardown'
  BY <1>1, <1>3, <1>5 DEF HInv, LoadBeforeCall, DrainedBeforeTeardown
<1> QED
  BY <1>4, <1>6, <1>7, <1>8, <1>9, <1>10, <1>11, ClientAtRest
  DEF HInv, HandleInline

\* A load or a call is handed to the pool.
LEMMA HandleTaskKeeps ==
    ASSUME HInv, HandleLoad \/ HandleCall
    PROVE  HInv'
<1> DEFINE h == Head(stdin)
<1>1. /\ h \in Ids
      /\ h < nextId
      /\ task[h] = "none"
      /\ outcome[h] = "unknown"
      /\ stdin' \in Seq(Ids)
      /\ \A k \in 1 .. Len(stdin') :
             \E n \in 1 .. Len(stdin) : stdin'[k] = stdin[n]
      /\ \A k \in 1 .. Len(stdin') : h < stdin'[k]
      /\ \A j, k \in 1 .. Len(stdin') : j < k => stdin'[j] < stdin'[k]
      /\ \A i \in Ids : Piped(i)' <=> Piped(i) /\ i # h
  BY LineRead DEF HInv, HandleLoad, HandleCall
<1>2. /\ task' \in [Ids -> {"none", "queued", "running", "done"}]
      /\ task'[h] = "queued"
      /\ \A j \in Ids : j # h => task'[j] = task[j]
  BY <1>1 DEF HInv, TypeOK, HandleLoad, HandleCall
<1>3. /\ host = "reading"
      /\ \/ op[h] = "load" /\ host' = "loading" /\ helpers' = helpers
         \/ op[h] = "call" /\ host' = "reading" /\ helpers' = helpers \cup {h}
      /\ UNCHANGED <<nextId, op, promise, outcome, crashed>>
  BY DEF HandleLoad, HandleCall, WhileLoading,
                clientVars
<1>4. TypeOK'
  BY <1>1, <1>2 DEF HInv, TypeOK, HandleLoad, HandleCall, WhileLoading,
                clientVars
<1>5. Waiting' /\ Reported' /\ NothingAwaitsTheDead'
  BY <1>3, ClientAtRest DEF HandleLoad, HandleCall
<1>6. Replies'
  BY <1>3 DEF HInv, Replies, HandleLoad, HandleCall
<1> HIDE DEF h
<1>7. Issued'
  BY <1>1, <1>2, <1>3 DEF HInv, TypeOK, Issued, Ids
<1>8. Unread'
  <2>1. ASSUME NEW k \in 1 .. Len(stdin')
        PROVE  /\ stdin'[k] < nextId'
               /\ task'[stdin'[k]] = "none"
               /\ outcome'[stdin'[k]] = "unknown"
    <3>1. PICK n \in 1 .. Len(stdin) : stdin'[k] = stdin[n]
      BY <1>1
    <3>2. stdin[n] \in Ids /\ stdin[n] # h
      BY <1>1, <3>1, PipedType DEF HInv, Ids
    <3> QED
      BY <1>2, <1>3, <3>1, <3>2 DEF HInv, Unread
  <2> QED
    BY <1>1, <2>1 DEF Unread
<1>9. Tasks'
  BY <1>1, <1>2, <1>3 DEF HInv, Tasks, Working
<1>10. OneLoad'
  BY <1>1, <1>2, <1>3 DEF HInv, OneLoad
<1>11. Helped'
  BY <1>1, <1>2, <1>3 DEF HInv, Helped, Working
<1>12. LoadsEnded'
  BY <1>1, <1>2, <1>3 DEF HInv, LoadsEnded
<1>13. LoadBeforeCall'
  <2>1. ASSUME NEW i \in Ids, i < h PROVE ~Piped(i)
    BY <1>1, <2>1 DEF Piped, Ids
  <2>2. ASSUME NEW i \in Ids, NEW j \in Ids,
               i < j, op[i] = "load", op[j] = "call", task'[j] # "none"
        PROVE  outcome[i] # "unknown"
    BY <1>2, <1>3, <2>1, <2>2 DEF HInv, LoadBeforeCall, LoadsEnded
  <2> QED
    BY <1>3, <2>2 DEF LoadBeforeCall
<1>14. DrainedBeforeTeardown'
  BY <1>3 DEF DrainedBeforeTeardown
<1> QED
  BY <1>4, <1>5, <1>6, <1>7, <1>8, <1>9, <1>10, <1>11, <1>12, <1>13, <1>14
  DEF HInv

LEMMA LoadAnswersKeeps ==
    ASSUME HInv, NEW i \in Ids, LoadAnswers(i)
    PROVE  HInv'
<1>1. outcome[i] \in {"good", "bad"}
  BY DEF HInv, TypeOK, Tasks, LoadAnswers
<1>2. outcome[i] = Outcome(outcome[i] = "good")
  BY <1>1 DEF Outcome
<1>3. stdout' \in Seq([id : Ids, ok : BOOLEAN]) /\ Replies'
  BY <1>2, ReplyWritten DEF HInv, LoadAnswers
<1>4. /\ task' \in [Ids -> {"none", "queued", "running", "done"}]
      /\ task'[i] = "none"
      /\ \A j \in Ids : j # i => task'[j] = task[j]
      /\ task[i] = "done"
      /\ op[i] = "load"
      /\ host = "loading" /\ host' = "reading"
      /\ UNCHANGED <<nextId, op, promise, stdin, helpers, outcome, crashed>>
  BY DEF HInv, TypeOK, LoadAnswers, clientVars
<1>5. TypeOK'
  BY <1>3, <1>4 DEF HInv, TypeOK, LoadAnswers, clientVars
<1>6. Waiting' /\ Reported' /\ NothingAwaitsTheDead'
  BY <1>4, ClientAtRest DEF LoadAnswers
<1>7. Issued'
  BY <1>4 DEF HInv, Issued
<1>8. Unread'
  BY <1>4 DEF HInv, TypeOK, Unread
<1>9. Tasks' /\ OneLoad' /\ Helped'
  BY <1>4 DEF HInv, Tasks, OneLoad, Helped, Working
<1>10. LoadsEnded'
  <2>1. \A j \in Ids : op[j] = "load" /\ task[j] # "none" => j = i
    BY <1>4 DEF HInv, OneLoad
  <2> QED
    BY <1>1, <1>4, <2>1 DEF HInv, LoadsEnded, Piped
<1>11. LoadBeforeCall'
  BY <1>4 DEF HInv, LoadBeforeCall
<1>12. DrainedBeforeTeardown'
  BY <1>4 DEF DrainedBeforeTeardown
<1> QED
  BY <1>3, <1>5, <1>6, <1>7, <1>8, <1>9, <1>10, <1>11, <1>12 DEF HInv

LEMMA HelperAnswersKeeps ==
    ASSUME HInv, NEW i \in Ids, HelperAnswers(i)
    PROVE  HInv'
<1>1. outcome[i] \in {"good", "bad"}
  BY DEF HInv, TypeOK, Tasks, HelperAnswers
<1>2. outcome[i] = Outcome(outcome[i] = "good")
  BY <1>1 DEF Outcome
<1>3. stdout' \in Seq([id : Ids, ok : BOOLEAN]) /\ Replies'
  BY <1>2, ReplyWritten DEF HInv, HelperAnswers
<1>4. TypeOK'
  BY <1>3 DEF HInv, TypeOK, HelperAnswers, clientVars
<1>5. Waiting' /\ Reported' /\ NothingAwaitsTheDead'
  BY ClientAtRest DEF HelperAnswers
<1>6. Issued'
  BY DEF HInv, Issued, HelperAnswers, clientVars
<1>7. Unread' /\ LoadsEnded'
  BY PipeAtRest DEF HelperAnswers, clientVars
<1>8. Tasks' /\ OneLoad'
  BY DEF HInv, Tasks, OneLoad, Working, HelperAnswers, clientVars
<1>9. Helped'
  BY DEF HInv, Helped, Working, HelperAnswers, clientVars
<1>10. LoadBeforeCall' /\ DrainedBeforeTeardown'
  BY DEF HInv, LoadBeforeCall, DrainedBeforeTeardown, HelperAnswers, clientVars
<1> QED
  BY <1>3, <1>4, <1>5, <1>6, <1>7, <1>8, <1>9, <1>10 DEF HInv

LEMMA RunTaskKeeps ==
    ASSUME HInv, NEW i \in Ids, RunTask(i)
    PROVE  HInv'
<1>1. TypeOK'
  BY DEF HInv, TypeOK, RunTask, clientVars
<1>2. Waiting' /\ Reported' /\ NothingAwaitsTheDead'
  BY ClientAtRest DEF RunTask
<1>3. Issued' /\ Replies'
  BY DEF HInv, TypeOK, Issued, Replies, RunTask, clientVars
<1>4. Unread'
  BY DEF HInv, TypeOK, Unread, RunTask, clientVars
<1>5. Tasks' /\ Helped'
  BY DEF HInv, TypeOK, Tasks, Helped, Working, RunTask, clientVars
<1>6. OneLoad'
  BY DEF HInv, TypeOK, OneLoad, RunTask, clientVars
<1>7. LoadsEnded'
  BY DEF HInv, TypeOK, LoadsEnded, Piped, RunTask, clientVars
<1>8. LoadBeforeCall' /\ DrainedBeforeTeardown'
  BY DEF HInv, TypeOK, LoadBeforeCall, DrainedBeforeTeardown, RunTask,
         clientVars
<1> QED
  BY <1>1, <1>2, <1>3, <1>4, <1>5, <1>6, <1>7, <1>8 DEF HInv

LEMMA FinishTaskKeeps ==
    ASSUME HInv, NEW i \in Ids, FinishTask(i)
    PROVE  HInv'
<1>1. /\ task' \in [Ids -> {"none", "queued", "running", "done"}]
      /\ task[i] = "running" /\ task'[i] = "done"
      /\ \A j \in Ids : j # i => task'[j] = task[j]
  BY DEF HInv, TypeOK, FinishTask
<1>2. /\ outcome' \in [Ids -> {"unknown", "good", "bad"}]
      /\ outcome[i] = "unknown" /\ outcome'[i] # "unknown"
      /\ \A j \in Ids : j # i => outcome'[j] = outcome[j]
  BY <1>1 DEF HInv, TypeOK, Tasks, Working, Outcome, FinishTask
<1>3. /\ host # "gone" /\ stdout \in Seq([id : Ids, ok : BOOLEAN])
      /\ UNCHANGED <<nextId, op, promise, stdin, stdout, host, helpers,
                     crashed>>
  BY DEF HInv, TypeOK, FinishTask, clientVars
<1>4. TypeOK'
  BY <1>1, <1>2 DEF HInv, TypeOK, FinishTask, clientVars
<1>5. Waiting' /\ Reported' /\ NothingAwaitsTheDead'
  BY <1>3, ClientAtRest DEF FinishTask
<1>6. Issued'
  BY <1>1, <1>2, <1>3 DEF HInv, TypeOK, Issued, Ids
<1>7. Unread'
  BY <1>1, <1>2, <1>3 DEF HInv, TypeOK, Unread
<1>8. Replies'
  <2>1. ASSUME NEW k \in 1 .. Len(stdout)
        PROVE  outcome'[stdout[k].id] = Outcome(stdout[k].ok)
    <3>1. stdout[k].id \in Ids
      BY <1>3, ReplyType
    <3>2. outcome[stdout[k].id] = Outcome(stdout[k].ok)
      BY DEF HInv, Replies
    <3> QED
      BY <1>2, <3>1, <3>2 DEF Outcome
  <2> QED
    BY <1>3, <2>1 DEF Replies, Outcome
<1>9. Tasks'
  BY <1>1, <1>2, <1>3 DEF HInv, Tasks, Working
<1>10. OneLoad' /\ Helped'
  BY <1>1, <1>3 DEF HInv, OneLoad, Helped, Working
<1>11. LoadsEnded'
  BY <1>1, <1>2, <1>3 DEF HInv, LoadsEnded, Piped
<1>12. LoadBeforeCall' /\ DrainedBeforeTeardown'
  BY <1>1, <1>2, <1>3 DEF HInv, LoadBeforeCall, DrainedBeforeTeardown
<1> QED
  BY <1>4, <1>5, <1>6, <1>7, <1>8, <1>9, <1>10, <1>11, <1>12 DEF HInv

\* End of input, the return of main and the death of the process.
LEMMA LeavingKeeps ==
    ASSUME HInv, ReadEOF \/ LeaveMain \/ Crash
    PROVE  HInv'
<1> USE DEF ReadEOF, LeaveMain, Crash
<1>1. TypeOK'
  <2>1. stdin' = stdin \/ stdin' = << >>
    OBVIOUS
  <2>2. stdin \in Seq(Ids) /\ << >> \in Seq(Ids)
    BY DEF HInv, TypeOK
  <2>3. stdin' \in Seq(Ids)
    BY <2>1, <2>2
  <2> QED
    BY <2>3 DEF HInv, TypeOK, clientVars
<1>2. Waiting' /\ Reported' /\ NothingAwaitsTheDead'
  BY ClientAtRest
<1>3. Issued' /\ Replies'
  BY DEF HInv, Issued, Replies, clientVars
<1>4. Unread'
  BY DEF HInv, Unread, clientVars
<1>5. Tasks' /\ Helped'
  BY DEF HInv, Tasks, Helped, Working, clientVars
<1>6. OneLoad'
  BY DEF HInv, OneLoad, clientVars
<1>7. LoadsEnded' /\ LoadBeforeCall'
  BY DEF HInv, LoadsEnded, LoadBeforeCall, clientVars
<1>8. DrainedBeforeTeardown'
  BY DEF HInv, TypeOK, OneLoad, Helped, Tasks, Working, DrainedBeforeTeardown,
         Drained, Ops, clientVars
<1> QED
  BY <1>1, <1>2, <1>3, <1>4, <1>5, <1>6, <1>7, <1>8 DEF HInv

----------------------------------------------------------------------------
(* The theorems.                                                           *)

LEMMA HInvInit == Init => HInv
<1> SUFFICES ASSUME Init PROVE HInv
  OBVIOUS
<1> USE DEF Init
<1>1. TypeOK
  <2>1. stdin \in Seq(Ids) /\ stdout \in Seq([id : Ids, ok : BOOLEAN])
    OBVIOUS
  <2>2. nextId \in 1 .. (MaxRequests + 1)
    BY NodeHostAssumption
  <2>3. op \in [Ids -> Ops]
    BY DEF Ops
  <2> QED
    BY <2>1, <2>2, <2>3 DEF TypeOK
<1>2. Issued /\ Waiting /\ Reported /\ Unread /\ Replies /\ Tasks
  BY DEF Issued, Waiting, Reported, Unread, Replies, Tasks, Working, Ids
<1>3. OneLoad /\ Helped /\ LoadsEnded
  BY DEF OneLoad, Helped, LoadsEnded, Working
<1>4. NothingAwaitsTheDead /\ LoadBeforeCall /\ DrainedBeforeTeardown
  BY DEF NothingAwaitsTheDead, LoadBeforeCall, DrainedBeforeTeardown
<1> QED
  BY <1>1, <1>2, <1>3, <1>4 DEF HInv

LEMMA HInvStutter == HInv /\ UNCHANGED vars => HInv'
<1> SUFFICES ASSUME HInv, UNCHANGED vars PROVE HInv'
  OBVIOUS
<1> USE DEF vars
<1>1. TypeOK'
  BY DEF HInv, TypeOK, clientVars, hostVars
<1>2. Issued' /\ Replies'
  BY DEF HInv, Issued, Replies, clientVars, hostVars
<1>3. Waiting' /\ Reported' /\ NothingAwaitsTheDead'
  BY ClientAtRest DEF hostVars
<1>4. Unread' /\ LoadsEnded'
  BY PipeAtRest DEF clientVars, hostVars
<1> QED
  BY <1>1, <1>2, <1>3, <1>4, HostAtRest DEF HInv, clientVars

LEMMA HInvNext == HInv /\ [Next]_vars => HInv'
<1> SUFFICES ASSUME HInv, [Next]_vars PROVE HInv'
  OBVIOUS
<1>1. CASE Client
  BY <1>1, RequestKeeps, RequestThrowsKeeps, WriteFailsKeeps, HandleLineKeeps,
     RejectingKeeps DEF Client
<1>2. CASE HandleInline \/ HandleLoad \/ HandleCall
  BY <1>2, HandleInlineKeeps, HandleTaskKeeps
<1>3. CASE ReadEOF \/ LeaveMain \/ Crash
  BY <1>3, LeavingKeeps
<1>4. ASSUME NEW i \in Ids,
             LoadAnswers(i) \/ HelperAnswers(i) \/ RunTask(i) \/ FinishTask(i)
      PROVE  HInv'
  BY <1>4, LoadAnswersKeeps, HelperAnswersKeeps, RunTaskKeeps, FinishTaskKeeps
<1>5. CASE UNCHANGED vars
  BY <1>5, HInvStutter
<1> QED
  BY <1>1, <1>2, <1>3, <1>4, <1>5 DEF Next, HostStep

LEMMA HInvAlways == Spec => []HInv
  BY HInvInit, HInvNext, PTL DEF Spec

\* Every variable keeps its domain.
THEOREM TypeCorrect == Spec => []TypeOK
<1>1. HInv => TypeOK
  BY DEF HInv
<1> QED
  BY <1>1, HInvAlways, PTL

\* After dispose() or the exit event no promise waits, whatever was on its way
\* (node-host.ts:92-98, 125-134, 204-213).
THEOREM NothingAwaitsTheDeadHolds == Spec => []NothingAwaitsTheDead
<1>1. HInv => NothingAwaitsTheDead
  BY DEF HInv
<1> QED
  BY <1>1, HInvAlways, PTL

\* A call runs after every load requested before it (host_main.cpp:118-119).
THEOREM LoadBeforeCallHolds == Spec => []LoadBeforeCall
<1>1. HInv => LoadBeforeCall
  BY DEF HInv
<1> QED
  BY <1>1, HInvAlways, PTL

\* main returns with no task under way (host_main.cpp:208-212).
THEOREM DrainedBeforeTeardownHolds == Spec => []DrainedBeforeTeardown
<1>1. HInv => DrainedBeforeTeardown
  BY DEF HInv
<1> QED
  BY <1>1, HInvAlways, PTL

----------------------------------------------------------------------------
(* The backend implements RequestReply.                                    *)

broken == disposed \/ host = "gone"

\* The connection is lost, and the promises in S fail with it.
LEMMA Breaks ==
    ASSUME NEW S, S \subseteq {i \in Ids : promise[i] = "pending"},
           promise' = [i \in Ids |-> IF i \in S THEN "failed" ELSE promise[i]],
           broken', outcome' = outcome
    PROVE  Backend!Next
  BY DEF Backend!Next, Backend!Break, broken

LEMMA SameToCaller ==
    ASSUME UNCHANGED <<promise, outcome, disposed>>,
           host # "gone", host' # "gone"
    PROVE  UNCHANGED Backend!vars
  BY DEF Backend!vars

LEMMA RefinesClient ==
    ASSUME HInv, Client
    PROVE  Backend!Next \/ UNCHANGED Backend!vars
<1>1. ASSUME NEW o \in Ops, Request(o) PROVE Backend!Next
  <2>1. nextId \in Ids /\ promise[nextId] = "none"
    BY <1>1 DEF HInv, Issued, Request, Ids
  <2>2. Backend!Ask(nextId)
    BY <1>1, <2>1 DEF Backend!Ask, Request, hostVars
  <2> QED
    BY <2>1, <2>2 DEF Backend!Next
<1>2. CASE RequestThrows
  <2>1. nextId \in Ids /\ promise[nextId] = "none"
    BY <1>2 DEF HInv, Issued, RequestThrows, Ids
  <2>2. Backend!Refuse(nextId)
    BY <1>2, <2>1 DEF Backend!Refuse, RequestThrows, hostVars
  <2> QED
    BY <2>1, <2>2 DEF Backend!Next
<1>3. ASSUME NEW i \in Ids, WriteFails(i) PROVE Backend!Next
  <2> DEFINE S == {j \in Ids : j = i /\ promise[j] = "pending"}
  <2>1. broken' /\ outcome' = outcome
    BY <1>3 DEF HInv, Reported, WriteFails, hostVars, broken
  <2>2. promise' = [j \in Ids |-> IF j \in S THEN "failed" ELSE promise[j]]
    BY <1>3 DEF HInv, TypeOK, WriteFails, Settled
  <2> QED
    BY <2>1, <2>2, Breaks
<1>4. CASE HandleLine
  <2>1. CASE /\ Head(stdout).id \in pending
             /\ promise[Head(stdout).id] = "pending"
    <3> DEFINE i == Head(stdout).id
    <3>1. i \in Ids /\ outcome[i] = Outcome(Head(stdout).ok)
      <4> DEFINE R == [id : Ids, ok : BOOLEAN]
      <4>1. stdout \in Seq(R) /\ stdout # << >>
        BY <1>4 DEF HInv, TypeOK, HandleLine
      <4> HIDE DEF R
      <4>2. Head(stdout) = stdout[1] /\ 1 \in 1 .. Len(stdout)
        BY <4>1, Popped
      <4> QED
        BY <2>1, <4>2 DEF HInv, TypeOK, Replies
    <3>2. promise' = Settled(i, IF Head(stdout).ok
                                 THEN "answered" ELSE "failed")
      BY <1>4, <2>1 DEF HandleLine, ReplyFor
    <3>3. UNCHANGED <<outcome, disposed, host>>
      BY <1>4 DEF HandleLine, hostVars
    <3> HIDE DEF i
    <3>4. CASE Head(stdout).ok
      <4>1. promise' = [promise EXCEPT ![i] = "answered"]
        BY <2>1, <3>1, <3>2, <3>4 DEF HInv, TypeOK, Settled, i
      <4>2. Backend!Answer(i)
        BY <2>1, <3>1, <3>3, <3>4, <4>1 DEF Backend!Answer, Outcome, i
      <4> QED
        BY <3>1, <4>2 DEF Backend!Next
    <3>5. CASE ~Head(stdout).ok
      <4>1. promise' = [promise EXCEPT ![i] = "failed"]
        BY <2>1, <3>1, <3>2, <3>5 DEF HInv, TypeOK, Settled, i
      <4>2. Backend!Fail(i)
        BY <2>1, <3>1, <3>3, <3>5, <4>1 DEF Backend!Fail, Outcome, i
      <4> QED
        BY <3>1, <4>2 DEF Backend!Next
    <3> QED
      BY <3>4, <3>5
  <2>2. CASE ~(/\ Head(stdout).id \in pending
               /\ promise[Head(stdout).id] = "pending")
    <3>1. promise' = promise
      BY <1>4, <2>2 DEF HInv, TypeOK, HandleLine, ReplyFor, Settled
    <3> QED
      BY <1>4, <3>1 DEF HandleLine, hostVars, Backend!vars
  <2> QED
    BY <2>1, <2>2
<1>5. CASE ExitEvent \/ Dispose
  <2> DEFINE S == {j \in Ids : promise[j] = "pending"}
  <2>1. broken' /\ outcome' = outcome
    BY <1>5 DEF ExitEvent, Dispose, hostVars, broken
  <2>2. promise' = [j \in Ids |-> IF j \in S THEN "failed" ELSE promise[j]]
    BY <1>5 DEF HInv, Waiting, ExitEvent, Dispose, AllRejected
  <2> QED
    BY <2>1, <2>2, Breaks
<1> QED
  BY <1>1, <1>2, <1>3, <1>4, <1>5 DEF Client

\* The outcome of a request that was made becomes known.
LEMMA Worked ==
    ASSUME HInv, NEW i \in Ids, NEW ok \in BOOLEAN,
           i < nextId, outcome[i] = "unknown",
           outcome' = [outcome EXCEPT ![i] = Outcome(ok)],
           UNCHANGED <<promise, disposed, host>>
    PROVE  Backend!Next
<1>1. promise[i] # "none"
  BY DEF HInv, Issued
<1>2. Backend!Work(i)
  BY <1>1 DEF Backend!Work, Outcome
<1> QED
  BY <1>2 DEF Backend!Next

LEMMA RefinesHost ==
    ASSUME HInv, HostStep \/ Crash
    PROVE  Backend!Next \/ UNCHANGED Backend!vars
<1>1. CASE HandleInline
  <2> DEFINE h == Head(stdin)
  <2>1. h \in Ids /\ h < nextId /\ outcome[h] = "unknown"
    BY <1>1, LineRead DEF HInv, HandleInline
  <2>2. PICK ok \in BOOLEAN : outcome' = [outcome EXCEPT ![h] = Outcome(ok)]
    BY <1>1 DEF HandleInline
  <2>3. UNCHANGED <<promise, disposed, host>>
    BY <1>1 DEF HandleInline, clientVars
  <2> HIDE DEF h
  <2> QED
    BY <2>1, <2>2, <2>3, Worked
<1>2. CASE HandleLoad \/ HandleCall \/ ReadEOF
  BY <1>2, SameToCaller
  DEF HandleLoad, HandleCall, ReadEOF, WhileLoading, clientVars
<1>3. CASE LeaveMain \/ Crash
  <2> DEFINE S == {}
  <2>1. promise' = [j \in Ids |-> IF j \in S THEN "failed" ELSE promise[j]]
    BY <1>3 DEF HInv, TypeOK, LeaveMain, Crash, clientVars
  <2>2. broken' /\ outcome' = outcome
    BY <1>3 DEF LeaveMain, Crash, broken
  <2>3. S \subseteq {i \in Ids : promise[i] = "pending"}
    OBVIOUS
  <2> HIDE DEF S
  <2> QED
    BY <2>1, <2>2, <2>3, Breaks
<1>4. ASSUME NEW i \in Ids, LoadAnswers(i)
      PROVE  UNCHANGED Backend!vars
  BY <1>4, SameToCaller DEF LoadAnswers, clientVars
<1>5. ASSUME NEW i \in Ids, HelperAnswers(i) \/ RunTask(i)
      PROVE  UNCHANGED Backend!vars
  BY <1>5 DEF HelperAnswers, RunTask, clientVars, Backend!vars
<1>6. ASSUME NEW i \in Ids, FinishTask(i)
      PROVE  Backend!Next
  <2>1. i < nextId /\ outcome[i] = "unknown"
    BY <1>6 DEF HInv, TypeOK, Issued, Tasks, Working, FinishTask, Ids
  <2>2. PICK ok \in BOOLEAN : outcome' = [outcome EXCEPT ![i] = Outcome(ok)]
    BY <1>6 DEF FinishTask
  <2>3. UNCHANGED <<promise, disposed, host>>
    BY <1>6 DEF FinishTask, clientVars
  <2> QED
    BY <2>1, <2>2, <2>3, Worked
<1> QED
  BY <1>1, <1>2, <1>3, <1>4, <1>5, <1>6 DEF HostStep

\* Each promise settles at most once, by the outcome of its own work or because
\* the connection broke (node-host.ts:100-146, host_main.cpp:113-152): the
\* initial state maps to one of RequestReply, every step to a step or a stutter.
THEOREM RefinesRequestReply == Spec => RepliesToItsOwn
<1>1. Init => Backend!Init
  BY DEF Init, Backend!Init
<1>2. HInv /\ [Next]_vars => [Backend!Next]_(Backend!vars)
  <2> SUFFICES ASSUME HInv, [Next]_vars
               PROVE  Backend!Next \/ UNCHANGED Backend!vars
    OBVIOUS
  <2>1. CASE Next
    BY <2>1, RefinesClient, RefinesHost DEF Next
  <2>2. CASE UNCHANGED vars
    BY <2>2 DEF vars, clientVars, hostVars, Backend!vars
  <2> QED
    BY <2>1, <2>2
<1> QED
  BY <1>1, <1>2, HInvAlways, PTL DEF Spec, RepliesToItsOwn, Backend!Spec


----------------------------------------------------------------------------
(* What RequestSettles rests on.                                           *)

Told(i) == \E k \in 1 .. Len(stdout) : stdout[k].id = i

\* The answer to i is on its way: the request in the pipe, a load the reader
\* waits for, a call with its helper, the reply in the pipe back.
OnItsWay(i) ==
    \/ Piped(i)
    \/ op[i] = "load" /\ task[i] # "none"
    \/ i \in helpers
    \/ Told(i)

\* As long as the host lives, the answer to every pending request is on its
\* way: helpers and the reader wait only for tasks there are, and the host stops
\* reading only when nobody is left to answer.
AnswerOwed ==
    /\ host # "gone" => \A i \in Ids : promise[i] = "pending" => OnItsWay(i)
    /\ \A i \in helpers : op[i] = "call" /\ task[i] # "none"
    /\ host = "loading" => \E i \in Ids : op[i] = "load" /\ task[i] # "none"
    /\ ended => ~child
    /\ host = "draining" => ended

AwaitedInHost(i) == i \in helpers \/ (op[i] = "load" /\ host = "loading")

\* While a promise is pending, an event that brings it nearer to its end can
\* happen: the exit event, a line to handle on either side, a task to run, or a
\* finished task with its reader or helper.
NeverStuck ==
    (\E i \in Ids : promise[i] = "pending") =>
        \/ host = "gone" /\ child
        \/ stdout # << >>
        \/ host = "reading" /\ stdin # << >>
        \/ host # "gone" /\ \E i \in Ids : Working(i)
        \/ \E i \in Ids : task[i] = "done" /\ AwaitedInHost(i)

\* A reply that has been written tells its request, and the earlier ones still
\* tell theirs.
LEMMA Tells ==
    ASSUME TypeOK, NEW i \in Ids, NEW ok \in BOOLEAN, stdout' = Reply(i, ok)
    PROVE  Told(i)' /\ \A j : Told(j) => Told(j)'
<1> DEFINE R == [id : Ids, ok : BOOLEAN]
           r == [id |-> i, ok |-> ok]
<1>1. r \in R /\ r.id = i
  OBVIOUS
<1>2. stdout' = Append(stdout, r) /\ stdout \in Seq(R)
  BY DEF TypeOK, Reply
<1> HIDE DEF R, r
<1>3. /\ Len(stdout') = Len(stdout) + 1
      /\ \A k \in 1 .. Len(stdout) : stdout'[k] = stdout[k]
      /\ stdout'[Len(stdout) + 1] = r
      /\ Len(stdout) \in Nat
  BY <1>1, <1>2, Pushed
<1>4. Told(i)'
  <2>1. Len(stdout) + 1 \in 1 .. Len(stdout')
    BY <1>3
  <2> QED
    BY <1>1, <1>3, <2>1 DEF Told
<1>5. ASSUME NEW j, Told(j) PROVE Told(j)'
  <2>1. PICK k \in 1 .. Len(stdout) : stdout[k].id = j
    BY <1>5 DEF Told
  <2>2. k \in 1 .. Len(stdout')
    BY <1>3
  <2> QED
    BY <1>3, <2>1, <2>2 DEF Told
<1> QED
  BY <1>4, <1>5

\* What JavaScript does leaves the answers of all that still wait on their way.
LEMMA ClientOwes ==
    ASSUME HInv, AnswerOwed, Client
    PROVE  AnswerOwed'
<1>1. ASSUME NEW o \in Ops, Request(o) PROVE AnswerOwed'
  <2>0. PICK n \in Ids : n = nextId
    BY <1>1 DEF Request
  <2>1. /\ task[n] = "none"
        /\ op' = [op EXCEPT ![n] = o]
        /\ promise' = [promise EXCEPT ![n] = "pending"]
        /\ UNCHANGED <<child, ended, stdout, hostVars>>
    BY <1>1, <2>0 DEF Request, HInv, Issued, TypeOK, Ids
  <2>2. \A i \in Ids : i # n => op'[i] = op[i] /\ promise'[i] = promise[i]
    BY <2>1 DEF HInv, TypeOK
  <2>3. \A i \in helpers : i \in Ids /\ i # n
    BY <2>1 DEF HInv, TypeOK, AnswerOwed
  <2>4. ASSUME host # "gone" PROVE Piped(n)' /\ \A i : Piped(i) => Piped(i)'
    <3>1. stdin' = Append(stdin, n) /\ stdin \in Seq(Ids)
      BY <1>1, <2>0, <2>4 DEF Request, HInv, TypeOK
    <3>2. /\ Len(stdin') = Len(stdin) + 1 /\ Len(stdin) \in Nat
          /\ \A k \in 1 .. Len(stdin) : stdin'[k] = stdin[k]
          /\ stdin'[Len(stdin) + 1] = n
      BY <2>1, <3>1, Pushed
    <3>3. Len(stdin) + 1 \in 1 .. Len(stdin')
      BY <3>2
    <3>4. \A k \in 1 .. Len(stdin) : k \in 1 .. Len(stdin')
      BY <3>2
    <3> QED
      BY <3>2, <3>3, <3>4 DEF Piped
  <2>5. \A i \in Ids : Told(i)' <=> Told(i)
    BY <2>1 DEF Told
  <2>6. ASSUME host' # "gone", NEW i \in Ids, promise'[i] = "pending"
        PROVE  OnItsWay(i)'
    <3>1. host # "gone" /\ UNCHANGED <<helpers, task>>
      BY <2>1, <2>6 DEF hostVars
    <3>2. CASE i = n
      BY <2>4, <3>1, <3>2 DEF OnItsWay
    <3>3. CASE i # n
      BY <2>2, <2>4, <2>5, <2>6, <3>1, <3>3 DEF OnItsWay, AnswerOwed
    <3> QED
      BY <3>2, <3>3
  <2> QED
    BY <2>1, <2>2, <2>3, <2>6 DEF AnswerOwed, hostVars
<1>2. CASE HandleLine
  <2>1. /\ stdout # << >> /\ stdout' = Tail(stdout)
        /\ UNCHANGED <<child, op, stdin, ended, hostVars>>
    BY <1>2 DEF HandleLine
  <2>2. /\ stdout[1].id = Head(stdout).id
        /\ \A k \in 1 .. Len(stdout) :
             k # 1 => k - 1 \in 1 .. Len(stdout') /\ stdout'[k - 1] = stdout[k]
    <3> DEFINE R == [id : Ids, ok : BOOLEAN]
    <3>1. stdout \in Seq(R)
      BY DEF HInv, TypeOK
    <3> HIDE DEF R
    <3> QED
      BY <2>1, <3>1
  <2>3. ASSUME NEW i \in Ids, promise'[i] = "pending"
        PROVE  promise[i] = "pending" /\ i # Head(stdout).id
    <3>1. CASE Head(stdout).id \in pending
      <4>1. promise' = [promise EXCEPT ![Head(stdout).id] =
                          IF @ # "pending" THEN @
                          ELSE IF Head(stdout).ok THEN "answered" ELSE "failed"]
        BY <1>2, <3>1 DEF HandleLine, ReplyFor, Settled
      <4> QED
        BY <2>3, <3>1, <4>1 DEF HInv, TypeOK
    <3>2. CASE Head(stdout).id \notin pending
      BY <1>2, <2>3, <3>2 DEF HandleLine, HInv, Waiting
    <3> QED
      BY <3>1, <3>2
  <2>4. ASSUME NEW i \in Ids, Told(i), i # Head(stdout).id PROVE Told(i)'
    BY <2>2, <2>4 DEF Told
  <2>5. \A i \in Ids : Piped(i)' <=> Piped(i)
    BY <2>1 DEF Piped
  <2> QED
    BY <2>1, <2>3, <2>4, <2>5 DEF AnswerOwed, OnItsWay, hostVars
<1>3. ASSUME UNCHANGED <<op, stdin, ended, stdout, hostVars>>, child' => child,
             \A i \in Ids : promise'[i] = "pending" => promise[i] = "pending"
      PROVE  AnswerOwed'
  BY <1>3 DEF AnswerOwed, OnItsWay, Piped, Told, hostVars
<1>4. CASE RequestThrows
  BY <1>3, <1>4 DEF RequestThrows, HInv, TypeOK
<1>5. ASSUME NEW i \in Ids, WriteFails(i) PROVE AnswerOwed'
  <2>1. \A j \in Ids : promise'[j] = "pending" => promise[j] = "pending"
    BY <1>5 DEF WriteFails, Settled, HInv, TypeOK
  <2> QED
    BY <1>3, <1>5, <2>1 DEF WriteFails
<1>6. CASE ExitEvent
  BY <1>6, <1>3 DEF ExitEvent, AllRejected
<1>7. CASE Dispose
  <2>1. \A i \in Ids : promise'[i] # "pending"
    BY <1>7, RejectedType DEF Dispose, HInv
  <2> QED
    BY <1>7, <2>1 DEF Dispose, AnswerOwed, hostVars
<1> QED
  BY <1>1, <1>2, <1>4, <1>5, <1>6, <1>7 DEF Client

\* What the host does with a request takes it one stage further.
LEMMA HostOwes ==
    ASSUME HInv, AnswerOwed, HostStep \/ Crash
    PROVE  AnswerOwed'
<1> DEFINE h == Head(stdin)
<1>1. ASSUME stdin # << >>, stdin' = Tail(stdin)
      PROVE  /\ h \in Ids /\ task[h] = "none"
             /\ \A i \in Ids : Piped(i) => Piped(i)' \/ i = h
  BY <1>1, LineRead DEF HInv
<1>2. ASSUME UNCHANGED stdout PROVE \A i : Told(i)' <=> Told(i)
  BY <1>2 DEF Told
<1>3. ASSUME UNCHANGED stdin PROVE \A i : Piped(i)' <=> Piped(i)
  BY <1>3 DEF Piped
<1> HIDE DEF h
<1>4. CASE HandleInline
  <2>1. PICK i \in Ids : i = h
    BY <1>1, <1>4 DEF HandleInline
  <2>2. PICK ok \in BOOLEAN : stdout' = Reply(i, ok)
    BY <1>4, <2>1 DEF HandleInline, h
  <2>3. \A j \in Ids : Piped(j) => Piped(j)' \/ j = i
    BY <1>1, <1>4, <2>1 DEF HandleInline
  <2>4. Told(i)' /\ \A j : Told(j) => Told(j)'
    BY <2>2, Tells DEF HInv
  <2> QED
    BY <1>4, <2>3, <2>4 DEF HandleInline, AnswerOwed, OnItsWay, clientVars
<1>5. CASE HandleLoad
  <2>1. /\ h \in Ids /\ \A i \in Ids : Piped(i) => Piped(i)' \/ i = h
        /\ \A i \in Ids : Told(i)' <=> Told(i)
    BY <1>1, <1>2, <1>5 DEF HandleLoad
  <2>2. /\ op'[h] = "load" /\ task'[h] = "queued"
        /\ \A i \in Ids : i # h => task'[i] = task[i]
    BY <1>5, <2>1 DEF HandleLoad, HInv, TypeOK, clientVars, h
  <2>3. \A i \in helpers : i \in Ids /\ i # h
    BY <1>5 DEF HandleLoad, AnswerOwed, HInv, TypeOK, h
  <2> QED
    BY <1>5, <2>1, <2>2, <2>3
    DEF HandleLoad, WhileLoading, AnswerOwed, OnItsWay, clientVars
<1>6. CASE HandleCall
  <2>1. /\ h \in Ids /\ \A i \in Ids : Piped(i) => Piped(i)' \/ i = h
        /\ \A i \in Ids : Told(i)' <=> Told(i)
    BY <1>1, <1>2, <1>6 DEF HandleCall
  <2>2. /\ op'[h] = "call" /\ task'[h] = "queued"
        /\ helpers' = helpers \cup {h}
        /\ \A i \in Ids : i # h => task'[i] = task[i]
        /\ helpers \subseteq Ids
    BY <1>6, <2>1 DEF HandleCall, HInv, TypeOK, clientVars, h
  <2> QED
    BY <1>6, <2>1, <2>2 DEF HandleCall, AnswerOwed, OnItsWay, clientVars
<1>7. ASSUME NEW i \in Ids, LoadAnswers(i) PROVE AnswerOwed'
  <2>1. Told(i)' /\ \A j : Told(j) => Told(j)'
    <3>1. (outcome[i] = "good") \in BOOLEAN
      OBVIOUS
    <3> QED
      BY <1>7, <3>1, Tells DEF LoadAnswers, HInv
  <2>2. \A j \in Ids : Piped(j)' <=> Piped(j)
    BY <1>3, <1>7 DEF LoadAnswers
  <2>3. \A j \in Ids : j # i => task'[j] = task[j]
    BY <1>7 DEF LoadAnswers, HInv, TypeOK
  <2>4. helpers \subseteq Ids /\ i \notin helpers
    BY <1>7 DEF LoadAnswers, AnswerOwed, HInv, TypeOK
  <2> QED
    BY <1>7, <2>1, <2>2, <2>3, <2>4
    DEF LoadAnswers, AnswerOwed, OnItsWay, clientVars
<1>8. ASSUME NEW i \in Ids, HelperAnswers(i) PROVE AnswerOwed'
  <2>1. Told(i)' /\ \A j : Told(j) => Told(j)'
    <3>1. (outcome[i] = "good") \in BOOLEAN
      OBVIOUS
    <3> QED
      BY <1>8, <3>1, Tells DEF HelperAnswers, HInv
  <2>2. \A j \in Ids : Piped(j)' <=> Piped(j)
    BY <1>3, <1>8 DEF HelperAnswers
  <2> QED
    BY <1>8, <2>1, <2>2 DEF HelperAnswers, AnswerOwed, OnItsWay, clientVars
<1>9. ASSUME NEW i \in Ids, RunTask(i) \/ FinishTask(i) PROVE AnswerOwed'
  <2>1. \A j \in Ids : (Piped(j)' <=> Piped(j)) /\ (Told(j)' <=> Told(j))
    BY <1>2, <1>3, <1>9 DEF RunTask, FinishTask
  <2>2. \A j \in Ids : task[j] # "none" => task'[j] # "none"
    BY <1>9 DEF RunTask, FinishTask, HInv, TypeOK
  <2>3. helpers \subseteq Ids
    BY DEF HInv, TypeOK
  <2> QED
    BY <1>9, <2>1, <2>2, <2>3
    DEF RunTask, FinishTask, AnswerOwed, OnItsWay, clientVars
<1>10. CASE ReadEOF
  <2>1. \A j \in Ids : (Piped(j)' <=> Piped(j)) /\ (Told(j)' <=> Told(j))
    BY <1>2, <1>3, <1>10 DEF ReadEOF
  <2> QED
    BY <1>10, <2>1 DEF ReadEOF, AnswerOwed, OnItsWay, clientVars
<1>11. CASE LeaveMain \/ Crash
  BY <1>11 DEF LeaveMain, Crash, AnswerOwed, clientVars
<1> QED
  BY <1>4, <1>5, <1>6, <1>7, <1>8, <1>9, <1>10, <1>11 DEF HostStep

\* node-host.ts and host_main.cpp: a living host forgets no request it was
\* sent, whatever replies overtake it, and stops reading only after dispose().
THEOREM AnswerOwedHolds == Spec => []AnswerOwed
<1>1. Init => AnswerOwed
  BY DEF Init, AnswerOwed
<1>2. HInv /\ AnswerOwed /\ [Next]_vars => AnswerOwed'
  <2> SUFFICES ASSUME HInv, AnswerOwed, [Next]_vars PROVE AnswerOwed'
    OBVIOUS
  <2>1. CASE Next
    BY <2>1, ClientOwes, HostOwes DEF Next
  <2>2. CASE UNCHANGED vars
    BY <2>2 DEF vars, clientVars, hostVars, AnswerOwed, OnItsWay, Piped, Told
  <2> QED
    BY <2>1, <2>2
<1> QED
  BY <1>1, <1>2, HInvAlways, PTL DEF Spec

\* The two ends never wait for each other: as long as a caller waits, one of
\* the steps that the event loop, the host's threads or the pool take by
\* themselves is due.
THEOREM NeverStuckHolds == Spec => []NeverStuck
<1>1. HInv /\ AnswerOwed => NeverStuck
  <2> SUFFICES ASSUME HInv, AnswerOwed, NEW i \in Ids, promise[i] = "pending"
               PROVE  NeverStuck
    BY DEF NeverStuck
  <2>1. child /\ ~ended
    BY DEF HInv, NothingAwaitsTheDead, AnswerOwed, TypeOK
  <2>2. CASE host = "gone"
    BY <2>1, <2>2 DEF NeverStuck
  <2>3. CASE host = "loading"
    <3>1. PICK j \in Ids : op[j] = "load" /\ task[j] # "none"
      BY <2>3 DEF AnswerOwed
    <3> QED
      BY <2>3, <3>1 DEF NeverStuck, Working, AwaitedInHost, HInv, TypeOK
  <2>4. CASE host = "reading"
    <3>1. OnItsWay(i)
      BY <2>4 DEF AnswerOwed
    <3>2. Piped(i) => stdin # << >>
      BY DEF Piped
    <3>3. Told(i) => stdout # << >>
      BY DEF Told
    <3>4. ~(op[i] = "load" /\ task[i] # "none")
      BY <2>4 DEF HInv, OneLoad
    <3>5. i \in helpers => task[i] # "none"
      BY DEF AnswerOwed
    <3> QED
      BY <2>4, <3>1, <3>2, <3>3, <3>4, <3>5
      DEF OnItsWay, NeverStuck, Working, AwaitedInHost, HInv, TypeOK
  <2> QED
    BY <2>1, <2>2, <2>3, <2>4 DEF AnswerOwed, HInv, TypeOK
<1> QED
  BY <1>1, HInvAlways, AnswerOwedHolds, PTL

=============================================================================
