------------------------------ MODULE NodeHost ------------------------------
(***************************************************************************)
(* The development backend: NodeHostBackend (node-host.ts) and the process *)
(* it drives over stdio, Host (host_main.cpp).                             *)
(*                                                                         *)
(* A request is its id.  The host's thread pool is ThreadPool: here a task *)
(* is run once, in any order.  A module that never returns is left out     *)
(* (CallGuard bounds the caller's wait); the process may die at any time.  *)
(***************************************************************************)
EXTENDS Naturals, Sequences

CONSTANT MaxRequests   \* bound: ids handed out

Ids == 1..MaxRequests

ASSUME NodeHostAssumption == MaxRequests \in Nat

VARIABLES
    \* NodeHostBackend
    nextId,
    pending,      \* the ids in `pending`
    disposed,
    child,        \* whether `child` is not null
    op,           \* op[i]: what request i asks for
    promise,      \* promise[i]: none, pending, answered or failed
    unwritten,    \* requests whose write will report an error
    \* the pipes
    stdin,        \* ids on their way to the host
    ended,        \* stdin.end() has been called
    stdout,       \* replies on their way back
    \* Host
    host,         \* reading, loading, draining or gone
    task,         \* task[i]: the pool task of a load or a call
    helpers,      \* the calls whose helper thread has not answered
    outcome,      \* outcome[i]: of the work for i: unknown, good or bad
    crashed       \* the process died without leaving main

clientVars == <<nextId, pending, disposed, child, op, promise, unwritten>>
hostVars == <<host, task, helpers, outcome, crashed>>
vars == <<clientVars, stdin, ended, stdout, hostVars>>

Ops == {"inline", "load", "call"}

TypeOK ==
    /\ nextId \in 1..(MaxRequests + 1)
    /\ pending \subseteq Ids
    /\ disposed \in BOOLEAN
    /\ child \in BOOLEAN
    /\ op \in [Ids -> Ops]
    /\ promise \in [Ids -> {"none", "pending", "answered", "failed"}]
    /\ unwritten \subseteq Ids
    /\ stdin \in Seq(Ids)
    /\ ended \in BOOLEAN
    /\ stdout \in Seq([id : Ids, ok : BOOLEAN])
    /\ host \in {"reading", "loading", "draining", "gone"}
    /\ task \in [Ids -> {"none", "queued", "running", "done"}]
    /\ helpers \subseteq Ids
    /\ outcome \in [Ids -> {"unknown", "good", "bad"}]
    /\ crashed \in BOOLEAN

\* Once create() has had its ping answered.
Init ==
    /\ nextId = 1
    /\ pending = {}
    /\ disposed = FALSE
    /\ child = TRUE
    /\ op = [i \in Ids |-> "inline"]
    /\ promise = [i \in Ids |-> "none"]
    /\ unwritten = {}
    /\ stdin = << >>
    /\ ended = FALSE
    /\ stdout = << >>
    /\ host = "reading"
    /\ task = [i \in Ids |-> "none"]
    /\ helpers = {}
    /\ outcome = [i \in Ids |-> "unknown"]
    /\ crashed = FALSE

-----------------------------------------------------------------------------
(* NodeHostBackend *)

CanRequest_Always == TRUE
CanRequest == ~disposed /\ child

\* request: register the id, then write the line.  A write to a process that
\* has died is reported later, by the write's own callback.
Request(o) ==
    /\ CanRequest
    /\ nextId \in Ids
    /\ nextId' = nextId + 1
    /\ op' = [op EXCEPT ![nextId] = o]
    /\ pending' = pending \cup {nextId}
    /\ promise' = [promise EXCEPT ![nextId] = "pending"]
    /\ IF host = "gone"
         THEN unwritten' = unwritten \cup {nextId} /\ UNCHANGED stdin
         ELSE stdin' = Append(stdin, nextId) /\ UNCHANGED unwritten
    /\ UNCHANGED <<disposed, child, ended, stdout, hostVars>>

\* JSON.stringify throws (a BigInt argument): the promise is rejected where it
\* is made, and its id stays in `pending`.
RequestThrows ==
    /\ CanRequest
    /\ nextId \in Ids
    /\ nextId' = nextId + 1
    /\ pending' = pending \cup {nextId}
    /\ promise' = [promise EXCEPT ![nextId] = "failed"]
    /\ UNCHANGED <<disposed, child, op, unwritten, stdin, ended, stdout, hostVars>>

\* A promise settles once: resolving or rejecting it again does nothing.
Settled(i, as) ==
    [promise EXCEPT ![i] = IF @ = "pending" THEN as ELSE @]

WriteFails(i) ==
    /\ i \in unwritten
    /\ unwritten' = unwritten \ {i}
    /\ pending' = pending \ {i}
    /\ promise' = Settled(i, "failed")
    /\ UNCHANGED <<nextId, disposed, child, op, stdin, ended, stdout, hostVars>>

\* handleLine: a reply to an id that is not pending is dropped.  Which entry a
\* reply is for, and how it settles it.
ReplyFor_Oldest(reply) == CHOOSE i \in pending : \A j \in pending : i <= j
ReplyFor(reply) == reply.id

HandleLine ==
    /\ stdout # << >>
    /\ stdout' = Tail(stdout)
    /\ IF Head(stdout).id \in pending
         THEN LET reply == Head(stdout)
                  i == ReplyFor(reply)
              IN /\ pending' = pending \ {i}
                 /\ promise' = Settled(i, IF reply.ok THEN "answered" ELSE "failed")
         ELSE UNCHANGED <<pending, promise>>
    /\ UNCHANGED <<nextId, disposed, child, op, unwritten, stdin, ended, hostVars>>

AllRejected ==
    [i \in Ids |-> IF i \in pending /\ promise[i] = "pending"
                     THEN "failed" ELSE promise[i]]

\* The 'exit' event; it may come before the last lines of stdout.
ExitEvent_Forgets ==
    /\ host = "gone"
    /\ child
    /\ child' = FALSE
    /\ UNCHANGED <<nextId, pending, disposed, op, promise, unwritten,
                   stdin, ended, stdout, hostVars>>
ExitEvent ==
    /\ host = "gone"
    /\ child
    /\ promise' = AllRejected
    /\ pending' = {}
    /\ child' = FALSE
    /\ UNCHANGED <<nextId, disposed, op, unwritten, stdin, ended, stdout, hostVars>>

Dispose ==
    /\ ~disposed
    /\ disposed' = TRUE
    /\ promise' = AllRejected
    /\ pending' = {}
    /\ ended' = (ended \/ child)
    /\ child' = FALSE
    /\ UNCHANGED <<nextId, op, unwritten, stdin, stdout, hostVars>>

-----------------------------------------------------------------------------
(* Host *)

Reply(i, ok) == Append(stdout, [id |-> i, ok |-> ok])
Outcome(ok) == IF ok THEN "good" ELSE "bad"

\* getline and dispatch of everything answered on the spot: ping, functions,
\* unload, stats, setLogLevel, an unknown op, a request that throws.
HandleInline ==
    /\ host = "reading"
    /\ stdin # << >>
    /\ op[Head(stdin)] = "inline"
    /\ \E ok \in BOOLEAN :
         /\ stdout' = Reply(Head(stdin), ok)
         /\ outcome' = [outcome EXCEPT ![Head(stdin)] = Outcome(ok)]
    /\ stdin' = Tail(stdin)
    /\ UNCHANGED <<clientVars, ended, host, task, helpers, crashed>>

\* handleLoad blocks the reader on the future of the load.
WhileLoading_Reading == "reading"
WhileLoading == "loading"

HandleLoad ==
    /\ host = "reading"
    /\ stdin # << >>
    /\ op[Head(stdin)] = "load"
    /\ task' = [task EXCEPT ![Head(stdin)] = "queued"]
    /\ host' = WhileLoading
    /\ stdin' = Tail(stdin)
    /\ UNCHANGED <<clientVars, ended, stdout, helpers, outcome, crashed>>

\* The future is ready, and get() consumes it.
LoadAnswers(i) ==
    /\ op[i] = "load"
    /\ task[i] = "done"
    /\ host = "loading"
    /\ stdout' = Reply(i, outcome[i] = "good")
    /\ host' = "reading"
    /\ task' = [task EXCEPT ![i] = "none"]
    /\ UNCHANGED <<clientVars, stdin, ended, helpers, outcome, crashed>>

\* handleCall: a helper thread waits for the result and answers.
HandleCall ==
    /\ host = "reading"
    /\ stdin # << >>
    /\ op[Head(stdin)] = "call"
    /\ task' = [task EXCEPT ![Head(stdin)] = "queued"]
    /\ helpers' = helpers \cup {Head(stdin)}
    /\ stdin' = Tail(stdin)
    /\ UNCHANGED <<clientVars, ended, stdout, host, outcome, crashed>>

HelperAnswers(i) ==
    /\ i \in helpers
    /\ task[i] = "done"
    /\ stdout' = Reply(i, outcome[i] = "good")
    /\ helpers' = helpers \ {i}
    /\ UNCHANGED <<clientVars, stdin, ended, host, task, outcome, crashed>>

\* A pool worker takes a task and finishes it.
RunTask(i) ==
    /\ host # "gone"
    /\ task[i] = "queued"
    /\ task' = [task EXCEPT ![i] = "running"]
    /\ UNCHANGED <<clientVars, stdin, ended, stdout, host, helpers, outcome, crashed>>

FinishTask(i) ==
    /\ host # "gone"
    /\ task[i] = "running"
    /\ task' = [task EXCEPT ![i] = "done"]
    /\ \E ok \in BOOLEAN : outcome' = [outcome EXCEPT ![i] = Outcome(ok)]
    /\ UNCHANGED <<clientVars, stdin, ended, stdout, host, helpers, crashed>>

\* stdin closed: join the helpers, then leave main, which destroys the core.
ReadEOF ==
    /\ host = "reading"
    /\ stdin = << >>
    /\ ended
    /\ host' = "draining"
    /\ UNCHANGED <<clientVars, stdin, ended, stdout, task, helpers, outcome, crashed>>

Drained_Now == TRUE
Drained == helpers = {}

LeaveMain ==
    /\ host = "draining"
    /\ Drained
    /\ host' = "gone"
    /\ UNCHANGED <<clientVars, stdin, ended, stdout, task, helpers, outcome, crashed>>

\* The process dies; what it had not read is lost, what it wrote is not.
Crash ==
    /\ host # "gone"
    /\ host' = "gone"
    /\ crashed' = TRUE
    /\ stdin' = << >>
    /\ UNCHANGED <<clientVars, ended, stdout, task, helpers, outcome>>

-----------------------------------------------------------------------------

Client ==
    \/ \E o \in Ops : Request(o)
    \/ RequestThrows
    \/ \E i \in Ids : WriteFails(i)
    \/ HandleLine \/ ExitEvent \/ Dispose

HostStep ==
    \/ HandleInline \/ HandleLoad \/ HandleCall \/ ReadEOF \/ LeaveMain
    \/ \E i \in Ids :
         LoadAnswers(i) \/ HelperAnswers(i) \/ RunTask(i) \/ FinishTask(i)

Next == Client \/ HostStep \/ Crash

\* The event loop delivers what has arrived, the host reads and answers, and a
\* module call returns.  Nobody has to crash, request or dispose.
Fairness ==
    /\ WF_vars(HandleLine) /\ WF_vars(ExitEvent)
    /\ WF_vars(HandleInline) /\ WF_vars(HandleLoad) /\ WF_vars(HandleCall)
    /\ WF_vars(ReadEOF) /\ WF_vars(LeaveMain)
    /\ \A i \in Ids :
         /\ WF_vars(WriteFails(i))
         /\ WF_vars(LoadAnswers(i)) /\ WF_vars(HelperAnswers(i))
         /\ WF_vars(RunTask(i)) /\ WF_vars(FinishTask(i))

Spec == Init /\ [][Next]_vars /\ Fairness

-----------------------------------------------------------------------------
(* Properties *)

\* After dispose() or the exit event nothing is left waiting, and nothing can
\* start to wait: requests made later are refused.
NothingAwaitsTheDead ==
    ~child => \A i \in Ids : promise[i] # "pending"

\* "wait so ordering is predictable" (host_main.cpp:118): a call runs after
\* every load requested before it has ended.
LoadBeforeCall ==
    \A i, j \in Ids :
      i < j /\ op[i] = "load" /\ op[j] = "call" /\ task[j] # "none" =>
        outcome[i] # "unknown"

\* "drain in-flight calls before tearing down the runtime" (host_main.cpp:208):
\* when main returns, no task is left that would use the core being destroyed.
DrainedBeforeTeardown ==
    host = "gone" /\ ~crashed =>
      \A i \in Ids : task[i] \notin {"queued", "running"}

\* Every request is settled: answered, or failed by the write, the exit or the
\* dispose that made an answer impossible.
RequestSettles == \A i \in Ids : (promise[i] = "pending") ~> (promise[i] # "pending")

\* The backend is a RequestReply: each promise gets the outcome of its own work.
Backend == INSTANCE RequestReply WITH
    broken <- disposed \/ host = "gone"

RepliesToItsOwn == Backend!Spec

=============================================================================
