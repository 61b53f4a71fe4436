------------------------------ MODULE McpServers ------------------------------
(***************************************************************************)
(* The external MCP servers a user configures: the routes of               *)
(* apps/runtime/server.ts, the registry of packages/mcp-client/index.ts    *)
(* and its config-store.ts.  A connection is McpClient.                    *)
(*                                                                         *)
(* A configuration is a body; the order of the list is left out.  The      *)
(* settings page sends the whole list, or takes one server from it; nothing *)
(* keeps two requests apart but the order in which they write the file.    *)
(***************************************************************************)
EXTENDS Integers, SequencesExt

CONSTANTS None,
          ServerNames,
          ServerBodies,
          Off,           \* a server that is kept in the list and not enabled
          Syncs,         \* requests
          MaxMishaps     \* bound: writes that fail, restarts

ServersAssumption == IsFiniteSet(ServerNames) /\ {Off, None} \intersect ServerBodies = {}

Lists == [ServerNames -> ServerBodies \cup {Off, None}]

VARIABLES
  file,        \* the list on disk
  configs,     \* externalMcpConfigs
  transports,  \* of the registry, in their order
  request,     \* what is under way
  writes,      \* the turns of config-store
  torn,        \* history: requests have crossed, and none alone came after
  mishaps

vars == <<file, configs, transports, request, writes, torn, mishaps>>

Idle == [at |-> "idle", whole |-> FALSE, next |-> None, todo |-> <<>>, alone |-> TRUE]
Busy == {q \in Syncs : request[q].at # "idle"}
Named(ts, n) == {i \in DOMAIN ts : ts[i].name = n}
Enabled(list) == {n \in ServerNames : list[n] \notin {Off, None}}
Attached(list) == {[name |-> n, body |-> list[n]] : n \in Enabled(list)}

\* the first server of the name goes; its close is awaited
Removed(ts, n) ==
  IF Named(ts, n) = {} THEN ts
  ELSE RemoveAt(ts, CHOOSE i \in Named(ts, n) : \A j \in Named(ts, n) : i <= j)

Follows(list, ts) == ToSet(ts) = Attached(list) /\ Len(ts) = Cardinality(Attached(list))

Init ==
  /\ file \in Lists /\ configs = file
  /\ transports = SetToSeq(Attached(file))
  /\ request = [q \in Syncs |-> Idle] /\ writes = <<>> /\ torn = FALSE /\ mishaps = 0

To(q, step) == request' = [request EXCEPT ![q] = step]

\* a request comes: the whole list, or the list in memory without one server
Begin(q, whole, next, gone) ==
  /\ request[q].at = "idle"
  /\ request' = [p \in Syncs |->
       IF p = q THEN [at |-> "write", whole |-> whole, next |-> next, todo |-> gone, alone |-> Busy = {}]
       ELSE [request[p] EXCEPT !.alone = @ /\ request[p].at = "idle"]]
  /\ writes' = Append(writes, q)
  /\ torn' = (torn \/ Busy # {})
  /\ UNCHANGED <<file, configs, transports, mishaps>>

Post(q) == \E next \in Lists : Begin(q, TRUE, next, <<>>)
Delete(q) == \E n \in ServerNames : Begin(q, FALSE, [configs EXCEPT ![n] = None], <<n>>)

\* ToRemove, each name once, however often a server of it is attached
ToRemoveOnce(q) ==
  IF request[q].whole THEN SetToSeq({transports[i].name : i \in DOMAIN transports}) ELSE request[q].todo

\* the names the list of servers is rid of, as listServers has them now
ToRemove(q) ==
  IF request[q].whole THEN [i \in DOMAIN transports |-> transports[i].name] ELSE request[q].todo

Written(q) ==
  /\ request[q].at = "write" /\ Head(writes) = q
  /\ writes' = Tail(writes) /\ file' = request[q].next
  /\ To(q, [request[q] EXCEPT !.at = "remove", !.todo = ToRemove(q)])
  /\ UNCHANGED <<configs, transports, torn, mishaps>>

\* the answer is an error, and nothing has changed
WriteFails(q) ==
  /\ request[q].at = "write" /\ Head(writes) = q
  /\ mishaps < MaxMishaps /\ mishaps' = mishaps + 1
  /\ writes' = Tail(writes) /\ To(q, Idle)
  /\ UNCHANGED <<file, configs, transports, torn>>

RemoveServer(q) ==
  /\ request[q].at = "remove" /\ request[q].todo # <<>>
  /\ transports' = Removed(transports, Head(request[q].todo))
  /\ To(q, [request[q] EXCEPT !.todo = Tail(@)])
  /\ UNCHANGED <<file, configs, writes, torn, mishaps>>

\* the request is over; a whole list that nothing crossed has put all right
Ends(q) ==
  /\ To(q, Idle)
  /\ torn' = (torn /\ ~(request[q].whole /\ request[q].alone))

Keep(q) ==
  /\ request[q].at = "remove" /\ request[q].todo = <<>>
  /\ configs' = request[q].next
  /\ LET todo == IF request[q].whole THEN SetToSeq(Enabled(request[q].next)) ELSE <<>> IN
     IF todo = <<>> THEN Ends(q)
     ELSE To(q, [request[q] EXCEPT !.at = "renew", !.todo = todo]) /\ UNCHANGED torn
  /\ UNCHANGED <<file, transports, writes, mishaps>>

\* addServer: what has the name is removed, and after that the server attached
Renew(q) ==
  /\ request[q].at = "renew"
  /\ transports' = Removed(transports, Head(request[q].todo))
  /\ To(q, [request[q] EXCEPT !.at = "attach"])
  /\ UNCHANGED <<file, configs, writes, torn, mishaps>>

Attach(q) ==
  /\ request[q].at = "attach"
  /\ LET n == Head(request[q].todo) IN
     transports' = Append(transports, [name |-> n, body |-> request[q].next[n]])
  /\ IF Len(request[q].todo) = 1 THEN Ends(q)
     ELSE To(q, [request[q] EXCEPT !.at = "renew", !.todo = Tail(@)]) /\ UNCHANGED torn
  /\ UNCHANGED <<file, configs, writes, mishaps>>

\* the next process reads the file
Restart ==
  /\ mishaps < MaxMishaps /\ mishaps' = mishaps + 1
  /\ configs' = file /\ transports' = SetToSeq(Attached(file))
  /\ request' = [q \in Syncs |-> Idle] /\ writes' = <<>> /\ torn' = FALSE
  /\ UNCHANGED file

Next ==
  \/ Restart
  \/ \E q \in Syncs :
       \/ Post(q) \/ Delete(q) \/ Written(q) \/ WriteFails(q) \/ RemoveServer(q) \/ Keep(q)
       \/ Renew(q) \/ Attach(q)

Spec == Init /\ [][Next]_vars

---------------------------------------------------------------------------
(* At rest the list in memory is the list on disk, and each enabled server *)
(* is attached once as the list has it, unless requests crossed; and then  *)
(* the next whole list that nothing crosses puts it right, whatever was    *)
(* attached twice or left behind (server.ts:1606-1625).                    *)
ServersFollowTheList ==
  Busy = {} /\ ~torn => configs = file /\ Follows(file, transports)
=============================================================================
