------------------------------ MODULE McpClient ------------------------------
(***************************************************************************)
(* The connection to one MCP server that runs as a child process:          *)
(* createStdioTransport of packages/mcp-client/index.ts, with the registry *)
(* that attaches and removes it.  The server is external.  What a promise  *)
(* wakes runs before the next event: no event happens while a call is at   *)
(* "go".  An answer is the number of its request; a line may arrive in two *)
(* parts.                                                                  *)
(***************************************************************************)
EXTENDS Integers, Sequences, FiniteSets

CONSTANTS Calls,       \* listTools and callTool, asked for once each
          MaxServers   \* bound: child processes

VARIABLES
  conn,       \* child, initialization, negotiatedProtocolVersion, nextId, buffer
  pending,    \* the requests that wait for an answer
  inits,      \* the initializations under way, by the number of their request
  calls,
  servers,    \* the child processes, in the order they were spawned
  attached,   \* the registry has the server
  crossed     \* history: a handshake ended after its connection had been reset

vars == <<conn, pending, inits, calls, servers, attached, crossed>>

Closed == [child |-> 0, init |-> 0, negotiated |-> FALSE, next |-> 1, buffer |-> 0]
Idle == [at |-> "idle", on |-> 0, id |-> 0, sent |-> 0, from |-> 0]
Spawned == [alive |-> TRUE, hello |-> FALSE, inbox |-> {}, out |-> {}]

Init ==
  /\ conn = Closed /\ pending = {} /\ inits = {} /\ calls = [c \in Calls |-> Idle]
  /\ servers = <<>> /\ attached = TRUE /\ crossed = FALSE

NoneGoes == \A c \in Calls : calls[c].at # "go"
MayWrite == conn.child # 0 \/ Len(servers) < MaxServers

\* ensureChild and the write of a request
Target == IF conn.child # 0 THEN conn.child ELSE Len(servers) + 1
Running == IF conn.child # 0 THEN servers ELSE Append(servers, Spawned)
Request ==
  /\ servers' = [Running EXCEPT ![Target].inbox = @ \union {conn.next}]
  /\ pending' = pending \union {conn.next}

---------------------------------------------------------------------------
(* What fails *)

\* resetConnection, were the requests of each connection numbered from one
ResetRenumbered(k) == [k EXCEPT !.child = 0, !.init = 0, !.negotiated = FALSE, !.buffer = 0, !.next = 1]

Reset(k) == [k EXCEPT !.child = 0, !.init = 0, !.negotiated = FALSE, !.buffer = 0]

\* the requests in ids are rejected, and with an initialize all that wait for it
Reject(ids) ==
  /\ inits' = {i \in inits : i.id \notin ids}
  /\ calls' = [c \in Calls |->
       IF (calls[c].at = "waiting" /\ calls[c].id \in ids) \/ (calls[c].at = "init" /\ calls[c].on \in ids)
       THEN [calls[c] EXCEPT !.at = "failed"] ELSE calls[c]]

\* the catch of ensureInitialized resets whatever connection there is then
InitFails(id) ==
  IF conn.child = 0
  THEN conn' = [conn EXCEPT !.init = 0] /\ Reject({id}) /\ UNCHANGED pending
  ELSE conn' = Reset(conn) /\ Reject(pending \union {id}) /\ pending' = {}

IsInit(id) == \E i \in inits : i.id = id

\* no answer in two minutes, a write that fails, or the caller's abort
RequestFails(id) ==
  /\ NoneGoes /\ id \in pending
  /\ IF IsInit(id) THEN InitFails(id)
     ELSE pending' = pending \ {id} /\ Reject({id}) /\ UNCHANGED conn
  /\ UNCHANGED <<servers, attached, crossed>>

\* the events error and exit of the child, and error of its input: it may live on
ChildLost(n) ==
  /\ NoneGoes /\ servers[n].alive
  /\ IF n = conn.child
     THEN /\ \E alive \in BOOLEAN : servers' = [servers EXCEPT ![n].alive = alive]
          /\ conn' = Reset(conn) /\ pending' = {} /\ Reject(pending)
     ELSE /\ servers' = [servers EXCEPT ![n].alive = FALSE]
          /\ UNCHANGED <<conn, pending, inits, calls>>
  /\ UNCHANGED <<attached, crossed>>

\* removeServer and close; a part of a line stays in the buffer
Close ==
  /\ NoneGoes /\ attached /\ attached' = FALSE
  /\ IF conn.child = 0 THEN UNCHANGED <<conn, pending, inits, calls>>
     ELSE conn' = [Reset(conn) EXCEPT !.buffer = conn.buffer] /\ pending' = {} /\ Reject(pending)
  /\ UNCHANGED <<servers, crossed>>

---------------------------------------------------------------------------
(* Calls *)

\* ensureInitialized
Arrive(c) ==
  /\ NoneGoes /\ attached /\ calls[c].at = "idle"
  /\ \/ /\ conn.negotiated
        /\ calls' = [calls EXCEPT ![c].at = "go"] /\ UNCHANGED <<conn, pending, inits, servers>>
     \/ /\ ~conn.negotiated /\ conn.init # 0
        /\ calls' = [calls EXCEPT ![c].at = "init", ![c].on = conn.init]
        /\ UNCHANGED <<conn, pending, inits, servers>>
     \/ /\ ~conn.negotiated /\ conn.init = 0 /\ MayWrite /\ Request
        /\ inits' = inits \union {[id |-> conn.next, notifying |-> FALSE]}
        /\ calls' = [calls EXCEPT ![c].at = "init", ![c].on = conn.next]
        /\ conn' = [conn EXCEPT !.child = Target, !.init = conn.next, !.next = @ + 1]
  /\ UNCHANGED <<attached, crossed>>

\* tools/list or tools/call; a call that is already aborted is not sent
Continue(c) ==
  /\ calls[c].at = "go"
  /\ \/ /\ MayWrite /\ Request
        /\ calls' = [calls EXCEPT ![c].at = "waiting", ![c].id = conn.next, ![c].sent = Target]
        /\ conn' = [conn EXCEPT !.child = Target, !.next = @ + 1]
     \/ calls' = [calls EXCEPT ![c].at = "failed"] /\ UNCHANGED <<conn, pending, servers>>
  /\ UNCHANGED <<inits, attached, crossed>>

---------------------------------------------------------------------------
(* Answers *)

ServerAnswers(n, id) ==
  /\ NoneGoes /\ servers[n].alive /\ id \in servers[n].inbox
  /\ servers' = [servers EXCEPT ![n].inbox = @ \ {id}, ![n].out = @ \union {[id |-> id, rest |-> FALSE]}]
  /\ UNCHANGED <<conn, pending, inits, calls, attached, crossed>>

\* server n has answered request id
Line(n, id) ==
  LET read == [conn EXCEPT !.buffer = 0] IN
  \/ /\ id \notin pending
     /\ conn' = read /\ UNCHANGED <<pending, inits, calls>>
  \/ /\ id \in pending /\ ~IsInit(id)
     /\ conn' = read /\ pending' = pending \ {id} /\ UNCHANGED inits
     /\ \E at \in {"done", "failed"} :
          calls' = [c \in Calls |-> IF calls[c].at = "waiting" /\ calls[c].id = id
                                    THEN [calls[c] EXCEPT !.at = at, !.from = n] ELSE calls[c]]
  \/ IsInit(id) /\ id \in pending /\ InitFails(id)  \* an error, or no protocol version

\* the answer to initialize is good, and the notification is written
Handshake(id) ==
  /\ IsInit(id) /\ id \in pending
  /\ conn' = [conn EXCEPT !.buffer = 0] /\ pending' = pending \ {id}
  /\ inits' = {i \in inits : i.id # id} \union {[id |-> id, notifying |-> TRUE]}
  /\ UNCHANGED calls

\* childStdout, the handler of every child there has been
Data(n, m) ==
  LET read == [servers EXCEPT ![n].out = @ \ {m}]
      whole == IF m.rest THEN conn.buffer = m.id ELSE conn.buffer = 0
  IN
  /\ NoneGoes /\ m \in servers[n].out /\ (m.rest \/ \A o \in servers[n].out : ~o.rest)
  /\ \/ /\ whole /\ Line(n, m.id) /\ servers' = read
     \/ /\ whole /\ Handshake(m.id) /\ servers' = [read EXCEPT ![conn.child].hello = TRUE]
     \/ /\ ~whole /\ conn' = [conn EXCEPT !.buffer = 0] /\ servers' = read
        /\ UNCHANGED <<pending, inits, calls>>
     \/ /\ ~m.rest  \* the first part of a line, perhaps glued to that of another
        /\ conn' = [conn EXCEPT !.buffer = IF @ = 0 THEN m.id ELSE -1]
        /\ servers' = [servers EXCEPT ![n].out = (@ \ {m}) \union {[m EXCEPT !.rest = TRUE]}]
        /\ UNCHANGED <<pending, inits, calls>>
  /\ UNCHANGED <<attached, crossed>>

\* the write of notifications/initialized is over
Notified(i) ==
  /\ NoneGoes /\ i \in inits /\ i.notifying
  /\ \/ InitFails(i.id) /\ UNCHANGED crossed
     \/ /\ conn' = [conn EXCEPT !.negotiated = TRUE]
        /\ inits' = inits \ {i} /\ crossed' = (crossed \/ conn.init # i.id)
        /\ calls' = [c \in Calls |-> IF calls[c].at = "init" /\ calls[c].on = i.id
                                     THEN [calls[c] EXCEPT !.at = "go"] ELSE calls[c]]
        /\ UNCHANGED pending
  /\ UNCHANGED <<servers, attached>>

Next ==
  \/ \E c \in Calls : Arrive(c) \/ Continue(c)
  \/ \E id \in pending : RequestFails(id)
  \/ \E n \in DOMAIN servers :
       \/ ChildLost(n)
       \/ \E id \in servers[n].inbox : ServerAnswers(n, id)
       \/ \E m \in servers[n].out : Data(n, m)
  \/ \E i \in inits : Notified(i)
  \/ Close

Spec == Init /\ [][Next]_vars

---------------------------------------------------------------------------
(* A call is sent to a server that has been initialised and resolves only   *)
(* with that server's answer to it, although the output of a server that is *)
(* lost or closed is still read and the numbers are all that tell answers   *)
(* apart.  A handshake whose connection is reset before its notification is *)
(* written makes the next server pass for initialised (mcp-client/          *)
(* index.ts:137-145, 251-252).                                              *)
CallsReachAReadyServer ==
  \A c \in Calls :
    /\ calls[c].at \in {"waiting", "done"} => servers[calls[c].sent].hello \/ crossed
    /\ calls[c].at = "done" => calls[c].from = calls[c].sent
=============================================================================
