-------------------------------- MODULE Mcp --------------------------------
(***************************************************************************)
(* The registry of MCP servers and the client that speaks to each over the *)
(* stdio of a subprocess.  One tokio mutex covers the whole registry and a *)
(* task keeps it while it connects and while it waits for an answer.  The  *)
(* mutex is first come, first served: `queue` holds the tasks that asked   *)
(* for it and its head has it.                                             *)
(*                                                                         *)
(* A task is either "resolve", the tool calls of one completion in order,  *)
(* each of which takes the mutex anew, or "list", all_tools, which visits  *)
(* every server under one acquisition.  A task of a handler disappears at  *)
(* any await when the client hangs up.                                     *)
(*                                                                         *)
(* A frame is an answer to a request (a result with text, one without, or  *)
(* an error), a notification or request of the server, or a line that does *)
(* not parse.  Writing and reading a frame are atomic.                     *)
(***************************************************************************)
EXTENDS Integers, Sequences, FiniteSets

CONSTANTS
    Tasks,       \* tasks that use the registry at the same time
    Servers,     \* the configured servers
    Unknown,     \* the server part of a tool name that is not configured
    Local,       \* a tool call that no MCP server resolves
    Noisy,       \* servers that write more than answers to their stdout
    Batches,     \* the sequences of tool calls that completions carry
    Listings,    \* the orders in which the servers' HashMap is walked
    MaxArrivals, \* bound: tasks that start
    MaxNoise,    \* bound: notifications and unparsable lines
    MaxCancels   \* bound: clients that hang up

Names == Servers \union {Unknown, Local}
Answers == {"text", "empty", "error"}
Noise == {"notification", "junk"}

ASSUME McpAssumption ==
    /\ IsFiniteSet(Tasks) /\ IsFiniteSet(Servers)
    /\ {Unknown, Local} \cap Servers = {} /\ Unknown # Local
    /\ Noisy \subseteq Servers
    /\ Batches \subseteq Seq(Names) /\ Listings \subseteq Seq(Servers) \ {<<>>}
    /\ {MaxArrivals, MaxNoise, MaxCancels} \subseteq Nat

VARIABLES
    pc,          \* where each task is
    job,         \* "resolve" or "list"
    calls,       \* what it has to visit, in order
    out,         \* the results so far
    queue,       \* the mutex of the registry
    client,      \* whether a server's entry holds a client
    next_id,     \* of the current connection
    running,     \* whether the subprocess runs
    stdin,       \* the requests it has not answered
    stdout,      \* the frames the client has not read
    \* The rest is history.
    behind,      \* per connection, the answers nobody waits for any more
    arrivals, noise, cancels

procs == <<client, next_id, running, stdin, stdout, behind>>
bounds == <<arrivals, noise, cancels>>
vars == <<pc, job, calls, out, queue, procs, bounds>>

Holds(t) == queue # <<>> /\ Head(queue) = t
At(t) == calls[t][Len(out[t]) + 1]     \* the call that t is at
Sent(s) == next_id[s] - 1              \* the id of the last request
IsAnswer(f) == f.kind \in Answers

Init ==
    /\ pc = [t \in Tasks |-> "idle"]
    /\ job = [t \in Tasks |-> "resolve"]
    /\ calls = [t \in Tasks |-> <<>>]
    /\ out = [t \in Tasks |-> <<>>]
    /\ queue = <<>>
    /\ client = [s \in Servers |-> FALSE]
    /\ next_id = [s \in Servers |-> 1]
    /\ running = [s \in Servers |-> FALSE]
    /\ stdin = [s \in Servers |-> {}]
    /\ stdout = [s \in Servers |-> <<>>]
    /\ behind = [s \in Servers |-> 0]
    /\ arrivals = 0 /\ noise = 0 /\ cancels = 0

----------------------------------------------------------------------------
\* A completion with tool calls reaches the agentic loop.
resolve_tool_calls(t) ==
    \E b \in Batches :
        /\ pc[t] = "idle" /\ arrivals < MaxArrivals
        /\ pc' = [pc EXCEPT ![t] = "next"]
        /\ job' = [job EXCEPT ![t] = "resolve"]
        /\ calls' = [calls EXCEPT ![t] = b]
        /\ out' = [out EXCEPT ![t] = <<>>]
        /\ arrivals' = arrivals + 1
        /\ UNCHANGED <<queue, procs, noise, cancels>>

\* A chat request asks for the tools of every server.
all_tools(t) ==
    \E l \in Listings :
        /\ pc[t] = "idle" /\ arrivals < MaxArrivals
        /\ pc' = [pc EXCEPT ![t] = "turn"]
        /\ job' = [job EXCEPT ![t] = "list"]
        /\ calls' = [calls EXCEPT ![t] = l]
        /\ out' = [out EXCEPT ![t] = <<>>]
        /\ queue' = Append(queue, t)
        /\ arrivals' = arrivals + 1
        /\ UNCHANGED <<procs, noise, cancels>>

\* The next tool call of a completion: one for an MCP server asks for the
\* mutex, any other has its result at once.
NextCall(t) ==
    /\ pc[t] = "next"
    /\ \/ /\ Len(out[t]) = Len(calls[t])
          /\ pc' = [pc EXCEPT ![t] = "idle"]
          /\ UNCHANGED <<out, queue>>
       \/ /\ Len(out[t]) < Len(calls[t]) /\ At(t) = Local
          /\ out' = [out EXCEPT ![t] = Append(@, [server |-> Local, status |-> "local"])]
          /\ UNCHANGED <<pc, queue>>
       \/ /\ Len(out[t]) < Len(calls[t]) /\ At(t) # Local
          /\ queue' = Append(queue, t)
          /\ pc' = [pc EXCEPT ![t] = "turn"]
          /\ UNCHANGED out
    /\ UNCHANGED <<job, calls, procs, bounds>>

----------------------------------------------------------------------------

\* Mutant: the guard of the mutex outlives the call.
KeepGuard(t, status) ==
    LET more == job[t] = "list" /\ Len(out[t]) + 1 < Len(calls[t])
    IN  /\ out' = [out EXCEPT ![t] = Append(@, [server |-> At(t), status |-> status])]
        /\ pc' = [pc EXCEPT ![t] = IF more THEN "turn"
                                   ELSE IF job[t] = "list" THEN "idle" ELSE "next"]
        /\ UNCHANGED <<job, calls, queue>>

\* The visit of a server ends.  all_tools goes on to the next server with the
\* mutex in hand; a tool call gives it back.
EndVisit(t, status) ==
    LET more == job[t] = "list" /\ Len(out[t]) + 1 < Len(calls[t])
    IN  /\ out' = [out EXCEPT ![t] = Append(@, [server |-> At(t), status |-> status])]
        /\ pc' = [pc EXCEPT ![t] = IF more THEN "turn"
                                   ELSE IF job[t] = "list" THEN "idle" ELSE "next"]
        /\ queue' = IF more THEN queue ELSE Tail(queue)
        /\ UNCHANGED <<job, calls>>

\* The subprocess is killed and its pipes are closed with the client.
drop(s) ==
    /\ running' = [running EXCEPT ![s] = FALSE]
    /\ stdin' = [stdin EXCEPT ![s] = {}]
    /\ stdout' = [stdout EXCEPT ![s] = <<>>]

\* A frame is written; to a process that has exited the write fails.
write_request(s) ==
    /\ running[s]
    /\ stdin' = [stdin EXCEPT ![s] = @ \union {next_id[s]}]
    /\ next_id' = [next_id EXCEPT ![s] = @ + 1]

\* With the mutex in hand: no client yet, so the server is spawned and the
\* handshake begins, or the spawn fails and nothing is cached.
ensure_connected(t) ==
    /\ pc[t] = "turn" /\ Holds(t) /\ At(t) \in Servers /\ ~client[At(t)]
    /\ \/ /\ running' = [running EXCEPT ![At(t)] = TRUE]
          /\ next_id' = [next_id EXCEPT ![At(t)] = 2]
          /\ stdin' = [stdin EXCEPT ![At(t)] = {1}]
          /\ stdout' = [stdout EXCEPT ![At(t)] = <<>>]
          /\ behind' = [behind EXCEPT ![At(t)] = 0]
          /\ pc' = [pc EXCEPT ![t] = "connect"]
          /\ UNCHANGED <<job, calls, out, queue>>
       \/ EndVisit(t, "failed") /\ UNCHANGED <<running, next_id, stdin, stdout, behind>>
    /\ UNCHANGED <<client, bounds>>

\* The name before "__" is no configured server.
UnknownServer(t) ==
    /\ pc[t] = "turn" /\ Holds(t) /\ At(t) = Unknown
    /\ EndVisit(t, "failed")
    /\ UNCHANGED <<procs, bounds>>

\* The handshake reads a frame, or the end of a stream whose process is gone.
\* Any result completes it, whatever its id; a frame that is no answer is
\* skipped; the rest drops the client, which is not cached yet.
Completes(s, f) == f.kind \in {"text", "empty"} /\ running[s]

initialize_handshake(t) ==
    LET s == At(t)
    IN  /\ pc[t] = "connect"
        /\ \/ /\ stdout[s] # <<>> /\ Head(stdout[s]).kind = "notification"
              /\ stdout' = [stdout EXCEPT ![s] = Tail(@)]
              /\ UNCHANGED <<pc, job, calls, out, queue, client, running, stdin>>
           \/ /\ stdout[s] # <<>> /\ Completes(s, Head(stdout[s]))
              /\ stdout' = [stdout EXCEPT ![s] = Tail(@)]
              /\ client' = [client EXCEPT ![s] = TRUE]
              /\ pc' = [pc EXCEPT ![t] = "turn"]
              /\ UNCHANGED <<job, calls, out, queue, running, stdin>>
           \/ /\ \/ stdout[s] = <<>> /\ ~running[s]
                 \/ /\ stdout[s] # <<>> /\ Head(stdout[s]).kind # "notification"
                    /\ ~Completes(s, Head(stdout[s]))
              /\ drop(s)
              /\ EndVisit(t, "failed")
              /\ UNCHANGED client
        /\ UNCHANGED <<next_id, behind, bounds>>

\* list_tools and call_tool send their request.
request(t) ==
    /\ pc[t] = "turn" /\ Holds(t) /\ At(t) \in Servers /\ client[At(t)]
    /\ \/ /\ write_request(At(t))
          /\ pc' = [pc EXCEPT ![t] = "await"]
          /\ UNCHANGED <<job, calls, out, queue>>
       \/ /\ ~running[At(t)]
          /\ next_id' = [next_id EXCEPT ![At(t)] = @ + 1]
          /\ EndVisit(t, "failed")
          /\ UNCHANGED stdin
    /\ UNCHANGED <<client, running, stdout, behind, bounds>>

\* What request makes of an answer.  Only a result has its id looked at.
Verdict(s, f) ==
    IF f.kind = "error" THEN "remote"
    ELSE IF f.id # Sent(s) THEN "unexpected"
    ELSE IF f.kind = "text" THEN "ok" ELSE "failed"

\* Mutant: errors are passed over like notifications.
SkipsErrors(f) == f.kind \in {"notification", "error"}

\* Whether request goes on reading after a frame.
Skips(f) == f.kind = "notification"

\* The task that waits reads the next frame.  One that does not parse ends
\* the call, and its answer will come with nobody waiting for it.
Receive(t) ==
    LET s == At(t)
    IN  /\ pc[t] = "await"
        /\ \/ /\ stdout[s] # <<>> /\ Skips(Head(stdout[s]))
              /\ stdout' = [stdout EXCEPT ![s] = Tail(@)]
              /\ UNCHANGED <<pc, job, calls, out, queue, behind>>
           \/ /\ stdout[s] # <<>> /\ Head(stdout[s]).kind = "junk"
              /\ stdout' = [stdout EXCEPT ![s] = Tail(@)]
              /\ behind' = [behind EXCEPT ![s] = @ + 1]
              /\ EndVisit(t, "failed")
           \/ /\ stdout[s] # <<>> /\ IsAnswer(Head(stdout[s]))
              /\ stdout' = [stdout EXCEPT ![s] = Tail(@)]
              /\ EndVisit(t, Verdict(s, Head(stdout[s])))
              /\ UNCHANGED behind
           \/ /\ stdout[s] = <<>> /\ ~running[s]
              /\ EndVisit(t, "failed")
              /\ UNCHANGED <<stdout, behind>>
        /\ UNCHANGED <<client, next_id, running, stdin, bounds>>

----------------------------------------------------------------------------
\* The client of the handler's connection hangs up and the task is dropped.
\* A client that is still connecting goes with it; one that is cached stays,
\* and the answer to the request it sent will be read by a later call.
Cancel(t) ==
    /\ pc[t] # "idle" /\ cancels < MaxCancels
    /\ cancels' = cancels + 1
    /\ pc' = [pc EXCEPT ![t] = "idle"]
    /\ calls' = [calls EXCEPT ![t] = <<>>]
    /\ out' = [out EXCEPT ![t] = <<>>]
    /\ queue' = SelectSeq(queue, LAMBDA u : u # t)
    /\ \/ /\ pc[t] = "connect"
          /\ drop(At(t))
          /\ UNCHANGED behind
       \/ /\ pc[t] = "await"
          /\ behind' = [behind EXCEPT ![At(t)] = @ + 1]
          /\ UNCHANGED <<running, stdin, stdout>>
       \/ /\ pc[t] \in {"next", "turn"}
          /\ UNCHANGED <<running, stdin, stdout, behind>>
    /\ UNCHANGED <<job, client, next_id, arrivals, noise>>

----------------------------------------------------------------------------
(* The servers.  One answers the requests it has read in any order, once   *)
(* each, may send notifications and print what is no frame, and may exit.  *)

Answer(s) ==
    /\ running[s]
    /\ \E i \in stdin[s], k \in Answers :
        /\ stdin' = [stdin EXCEPT ![s] = @ \ {i}]
        /\ stdout' = [stdout EXCEPT ![s] = Append(@, [kind |-> k, id |-> i])]
    /\ UNCHANGED <<pc, job, calls, out, queue, client, next_id, running, behind, bounds>>

Emit(s) ==
    /\ s \in Noisy /\ running[s] /\ noise < MaxNoise
    /\ noise' = noise + 1
    /\ \E k \in Noise : stdout' = [stdout EXCEPT ![s] = Append(@, [kind |-> k, id |-> 0])]
    /\ UNCHANGED <<pc, job, calls, out, queue, client, next_id, running, stdin, behind, arrivals, cancels>>

Exit(s) ==
    /\ running[s]
    /\ running' = [running EXCEPT ![s] = FALSE]
    /\ UNCHANGED <<pc, job, calls, out, queue, client, next_id, stdin, stdout, behind, bounds>>

----------------------------------------------------------------------------
Step(t) ==
    \/ NextCall(t) \/ ensure_connected(t) \/ UnknownServer(t)
    \/ initialize_handshake(t) \/ request(t) \/ Receive(t)

Next ==
    \/ \E t \in Tasks : resolve_tool_calls(t) \/ all_tools(t) \/ Step(t) \/ Cancel(t)
    \/ \E s \in Servers : Answer(s) \/ Emit(s) \/ Exit(s)

Spec == Init /\ [][Next]_vars

\* Tasks run whenever they can and a server answers what it is asked, or exits.
\* The client has no timeout: without the latter the mutex is held for ever.
FairSpec ==
    /\ Spec
    /\ \A t \in Tasks : WF_vars(Step(t))
    /\ \A s \in Servers : WF_vars(Answer(s))

----------------------------------------------------------------------------
(* Properties.                                                             *)

\* The answers of s that are still to be read or to be written.
Pending(s) == Cardinality(stdin[s]) + Len(SelectSeq(stdout[s], IsAnswer))

\* A connection runs exactly as many answers behind as calls on it were
\* abandoned or cut short by an unparsable line: an unexpected id gives up
\* one answer and leaves another, so the client never catches up.
BehindIsExact ==
    \A s \in Servers : running[s] /\ client[s] =>
        Pending(s) = behind[s] + Cardinality({t \in Tasks : pc[t] = "await" /\ At(t) = s})

\* Every task comes to its end when every server answers or exits.
Returns == \A t \in Tasks : pc[t] # "idle" ~> pc[t] = "idle"
============================================================================
