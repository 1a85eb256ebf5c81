----------------------------- MODULE WebServer ------------------------------
(***************************************************************************)
(* web/server/src/server.rs: the handlers of islaweb-server, the counter   *)
(* that limits their worker processes, and the cache of responses.         *)
(*                                                                         *)
(* A handler is a future: it can be dropped where it awaits (the client is *)
(* gone), and it leaves by the ? of each call that can fail.  Both skip    *)
(* the fetch_sub at its end.  Worker processes (worker.rs) are seen from   *)
(* outside: they answer, fail, or block on a stdout that nobody reads.     *)
(***************************************************************************)
EXTENDS Naturals, FiniteSets

CONSTANTS
  Conns,         \* bound: connections, each with one request
  Requests,      \* the requests they can make
  MAX_WORKERS

ASSUME WebAssumption == IsFiniteSet(Conns) /\ MAX_WORKERS \in Nat \ {0}

VARIABLES
  pc,        \* where the handler of a connection is
  req,       \* its request
  num,       \* the value of WORKERS that it loaded
  child,     \* its worker process
  response,  \* what it was answered
  WORKERS,   \* the counter
  orphans,   \* worker processes whose handler is gone
  leaked,    \* history: handlers that left with their slot counted
  req_cache  \* request |-> response, or Missing

vars == <<pc, req, num, child, response, WORKERS, orphans, leaked, req_cache>>

Missing == "Missing"

Init ==
  /\ pc = [c \in Conns |-> "none"]
  /\ req \in [Conns -> Requests]
  /\ num = [c \in Conns |-> 0]
  /\ child = [c \in Conns |-> "none"]
  /\ response = [c \in Conns |-> Missing]
  /\ WORKERS = 0 /\ orphans = 0 /\ leaked = 0
  /\ req_cache = [r \in Requests |-> Missing]

Goto(c, from, to) == pc[c] = from /\ pc' = [pc EXCEPT ![c] = to]

Arrive(c) ==
  /\ Goto(c, "none", "lookup")
  /\ UNCHANGED <<req, num, child, response, WORKERS, orphans, leaked, req_cache>>

\* spawn_worker, under the read lock.
Lookup(c) ==
  /\ Goto(c, "lookup", IF req_cache[req[c]] = Missing THEN "load" ELSE "done")
  /\ response' = [response EXCEPT ![c] = req_cache[req[c]]]
  /\ UNCHANGED <<req, num, child, WORKERS, orphans, leaked, req_cache>>

\* Mutant: the limit itself is let through.
LoadMutant(c) ==
  /\ Goto(c, "load", IF WORKERS <= MAX_WORKERS THEN "cas" ELSE "load")
  /\ num' = [num EXCEPT ![c] = WORKERS]
  /\ UNCHANGED <<req, child, response, WORKERS, orphans, leaked, req_cache>>

\* WORKERS.load; at the limit the handler yields and tries again.
Load(c) ==
  /\ Goto(c, "load", IF WORKERS < MAX_WORKERS THEN "cas" ELSE "load")
  /\ num' = [num EXCEPT ![c] = WORKERS]
  /\ UNCHANGED <<req, child, response, WORKERS, orphans, leaked, req_cache>>

\* Mutant: the counter is stored without comparing it.
CompareExchangeMutant(c) ==
  /\ Goto(c, "cas", "spawn")
  /\ WORKERS' = num[c] + 1
  /\ UNCHANGED <<req, num, child, response, orphans, leaked, req_cache>>

CompareExchange(c) ==
  /\ Goto(c, "cas", IF WORKERS = num[c] THEN "spawn" ELSE "load")
  /\ WORKERS' = IF WORKERS = num[c] THEN num[c] + 1 ELSE WORKERS
  /\ UNCHANGED <<req, num, child, response, orphans, leaked, req_cache>>

Alive == {"running", "full"}

\* The handler ends without fetch_sub.  Its Child is dropped, which does not
\* kill the process.
Abandon(c) ==
  /\ pc' = [pc EXCEPT ![c] = "done"]
  /\ child' = [child EXCEPT ![c] = "none"]
  /\ orphans' = IF child[c] \in Alive THEN orphans + 1 ELSE orphans
  /\ leaked' = leaked + 1
  /\ UNCHANGED <<req, num, response, WORKERS, req_cache>>

\* Command::spawn
Spawn(c) ==
  /\ Goto(c, "spawn", "write")
  /\ child' = [child EXCEPT ![c] = "running"]
  /\ UNCHANGED <<req, num, response, WORKERS, orphans, leaked, req_cache>>

\* The request is written, and stdin is closed.
Write(c) ==
  /\ Goto(c, "write", "wait")
  /\ UNCHANGED <<req, num, child, response, WORKERS, orphans, leaked, req_cache>>

\* child.await; only then is stdout read.
Wait(c) ==
  /\ Goto(c, "wait", "release")
  /\ child[c] \in {"success", "failure"}
  /\ response' = [response EXCEPT ![c] = IF child[c] = "success" THEN "Done" ELSE "InternalError"]
  /\ child' = [child EXCEPT ![c] = "none"]
  /\ UNCHANGED <<req, num, WORKERS, orphans, leaked, req_cache>>

\* spawn, write_all, await, read_to_end or from_utf8 fails.
Fail(c) ==
  /\ pc[c] \in {"spawn", "write", "wait"}
  /\ Abandon(c)

\* Mutant: a worker that failed keeps its slot.
ReleaseMutant(c) ==
  /\ Goto(c, "release", "insert")
  /\ WORKERS' = IF response[c] = "InternalError" THEN WORKERS ELSE WORKERS - 1
  /\ UNCHANGED <<req, num, child, response, orphans, leaked, req_cache>>

Release(c) ==
  /\ Goto(c, "release", "insert")
  /\ WORKERS' = WORKERS - 1
  /\ UNCHANGED <<req, num, child, response, orphans, leaked, req_cache>>

\* Under the write lock; errors are cached too.
Insert(c) ==
  /\ Goto(c, "insert", "done")
  /\ req_cache' = [req_cache EXCEPT ![req[c]] = response[c]]
  /\ UNCHANGED <<req, num, child, response, WORKERS, orphans, leaked>>

\* The client disconnects while the handler awaits.
Drop(c) ==
  \/ /\ pc[c] \in {"lookup", "load", "insert"}
     /\ pc' = [pc EXCEPT ![c] = "done"]
     /\ UNCHANGED <<req, num, child, response, WORKERS, orphans, leaked, req_cache>>
  \/ /\ pc[c] \in {"write", "wait"}
     /\ Abandon(c)

\* A worker ends, with or without an answer, or fills the pipe of its stdout.
WorkerStep(c) ==
  /\ child[c] = "running"
  /\ \E end \in {"success", "failure", "full"} :
       /\ end # "failure" => pc[c] = "wait"
       /\ child' = [child EXCEPT ![c] = end]
  /\ UNCHANGED <<pc, req, num, response, WORKERS, orphans, leaked, req_cache>>

\* The pipes of an orphan are closed: it fails, at the latest when it writes.
OrphanExits ==
  /\ orphans > 0 /\ orphans' = orphans - 1
  /\ UNCHANGED <<pc, req, num, child, response, WORKERS, leaked, req_cache>>

Handler(c) == Lookup(c) \/ Load(c) \/ CompareExchange(c) \/ Spawn(c) \/ Write(c)
                \/ Wait(c) \/ Release(c) \/ Insert(c)

AllDone == \A c \in Conns : pc[c] = "done"

Next ==
  \/ \E c \in Conns : Arrive(c) \/ Handler(c) \/ Fail(c) \/ Drop(c) \/ WorkerStep(c)
  \/ OrphanExits
  \/ AllDone /\ UNCHANGED vars

Spec == Init /\ [][Next]_vars

(* The runtime polls every handler that can go on; a worker that has its   *)
(* request ends, as its CPU time is limited.  No call need fail, no client *)
(* need leave, and a worker blocked on its stdout stays so.                *)
FairSpec == Spec /\ \A c \in Conns : WF_vars(Handler(c)) /\ WF_vars(WorkerStep(c))

-----------------------------------------------------------------------------
Holding == {c \in Conns : pc[c] \in {"spawn", "write", "wait", "release"}}
Living == Cardinality({c \in Conns : child[c] \in Alive}) + orphans

(* There are never more than MAX_WORKERS worker processes, those of dropped*)
(* and failed handlers included: a slot is taken before the process exists *)
(* and given back after it has ended, or never.                            *)
ProcessesBounded == Living <= WORKERS /\ WORKERS <= MAX_WORKERS

(* The counter is the number of handlers that hold a slot and of those that*)
(* left with one, whatever they interleave: assert!(num != 0) cannot fail, *)
(* and no slot is lost except by an early return or a dropped future.      *)
SlotsAccounted == WORKERS = Cardinality(Holding) + leaked

Blocked == {c \in Conns : child[c] = "full"}

(* Only two things keep a request from its answer: its own worker fills    *)
(* stdout, which is read after the worker has ended, or every slot is held *)
(* by such a worker or was leaked.  Neither the unfair loop on WORKERS nor *)
(* a failed worker does.                                                   *)
Served ==
  <>[](\A c \in Conns :
         \/ pc[c] \in {"none", "done"} \/ c \in Blocked
         \/ Cardinality(Blocked) + leaked = MAX_WORKERS)

=============================================================================
