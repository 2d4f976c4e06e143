------------------------------ MODULE Connection ------------------------------
(***************************************************************************)
(* The connections of one chain to its nodes: NodeConnection of            *)
(* src/src/chain/connection.js, and connecting, watchdog and reconnecting  *)
(* in ChainContext of src/src/chain/manager.js.                            *)
(*                                                                         *)
(* A node is served by whichever calls are under way for it: connectNode,  *)
(* reconnectNode waiting for an old connection to close, a watchdog, a     *)
(* retry timer.  Nothing ties them together but the connections array.     *)
(* An action is a stretch between two awaits; timers fire at any time that *)
(* is consistent with the node answering or not.                           *)
(***************************************************************************)
EXTENDS Integers, Sequences, FiniteSets

CONSTANTS
    Node,       \* the configured nodes of the chain
    Conn,       \* NodeConnection objects, reused once nothing refers to them
    NoNode,     \* the node of an object that is not in use
    MaxCalls    \* bound, per node: calls under way for it

ASSUME ConnectionAssumption ==
    /\ NoNode \notin Node
    /\ MaxCalls \in [Node -> Nat]
    /\ \E f \in [Node -> Conn] : \A n, m \in Node : f[n] = f[m] => n = m

VARIABLES
    healthy,        \* the nodes that answer and announce blocks, as things are
    conn,           \* per object: its node, its stage, conn.connected
    connections,    \* the array of connections in use
    watchdog,       \* the connections whose watchdog timer is set
    retry,          \* retry[n]: timers set by scheduleReconnect
    nodeConnected,  \* the nodes for which the gauge node_connected is 1
    starting,       \* the nodes whose first connectNode Promise.all waits for
    startStage,     \* where ChainContext.connect stands
    rearmed         \* history: nodes with a watchdog set while its connection closes

chainVars == <<starting, startStage>>

vars == <<healthy, conn, connections, watchdog, retry, nodeConnected, chainVars, rearmed>>

Connecting == {"socket", "api", "version"}

Stage == {"free", "live", "closing", "closed"} \cup Connecting

Object == [node : Node \cup {NoNode}, stage : Stage, connected : BOOLEAN]

NoConn == [node |-> NoNode, stage |-> "free", connected |-> FALSE]

NewConn(n) == [node |-> n, stage |-> "socket", connected |-> FALSE]

\* the objects of the first connectNode calls
FirstConn == CHOOSE f \in [Node -> Conn] : \A n, m \in Node : f[n] = f[m] => n = m

IsFree(c) == conn[c].stage = "free"

\* the calls under way for node n that will connect to it again, or do so now
ConnectingCalls(n) == {c \in Conn : conn[c].node = n /\ conn[c].stage \in Connecting \cup {"closing"}}

Watchdogs(n) == {c \in watchdog : conn[c].node = n}

Calls(n) == Cardinality(ConnectingCalls(n)) + Cardinality(Watchdogs(n)) + retry[n]

\* where the connections to n are in the array
Listed(n) == {i \in DOMAIN connections : conn[connections[i]].node = n}

TypeOK ==
    /\ healthy \subseteq Node
    /\ conn \in [Conn -> Object]
    /\ \A c \in Conn : IsFree(c) <=> conn[c].node = NoNode
    /\ connections \in Seq(Conn)
    /\ watchdog \subseteq {c \in Conn : conn[c].stage \in {"live", "closing", "closed"}}
    /\ \A c \in Conn : conn[c].stage = "closed" => c \in watchdog
    /\ retry \in [Node -> Nat]
    /\ nodeConnected \subseteq Node
    /\ starting \subseteq Node
    /\ startStage \in {"connecting", "authorities", "started"}
    /\ rearmed \subseteq Node

\* connectNode is called for every node at once
Init ==
    /\ healthy \in SUBSET Node
    /\ conn = [c \in Conn |-> LET mine == {n \in Node : FirstConn[n] = c}
                             IN  IF mine = {} THEN NoConn ELSE NewConn(CHOOSE n \in mine : TRUE)]
    /\ connections = <<>>
    /\ watchdog = {}
    /\ retry = [n \in Node |-> 0]
    /\ nodeConnected = {}
    /\ starting = Node
    /\ startStage = "connecting"
    /\ rearmed = {}

-----------------------------------------------------------------------------
(* Connecting *)

\* NodeConnection.connect waits for the socket, for the api and for the two
\* calls it makes; each is answered, or a timeout or a lost socket ends it
SocketOpens(c) ==
    /\ conn[c].stage = "socket"
    /\ conn' = [conn EXCEPT ![c].stage = "api", ![c].connected = TRUE]
    /\ UNCHANGED <<healthy, connections, watchdog, retry, nodeConnected, chainVars, rearmed>>

ApiReady(c) ==
    /\ conn[c].stage = "api" /\ conn[c].connected
    /\ conn' = [conn EXCEPT ![c].stage = "version"]
    /\ UNCHANGED <<healthy, connections, watchdog, retry, nodeConnected, chainVars, rearmed>>

\* The first connectNode of n is over.  After the last one slot tracking starts,
\* and waits for the authorities if some node is connected.
NodeTried(n) ==
    /\ starting' = starting \ {n}
    /\ startStage' =
         IF startStage # "connecting" \/ starting' # {} THEN startStage
         ELSE IF \E i \in DOMAIN connections' : conn'[connections'[i]].connected THEN "authorities"
         ELSE "started"

\* variant: the watchdog is set by the first notification only
ConnectedUnwatched(c) ==
    /\ conn[c].stage = "version" /\ conn[c].connected
    /\ conn' = [conn EXCEPT ![c].stage = "live"]
    /\ connections' = Append(connections, c)
    /\ nodeConnected' = nodeConnected \cup {conn[c].node}
    /\ NodeTried(conn[c].node)
    /\ UNCHANGED <<healthy, watchdog, retry, rearmed>>

\* connect is through: the connection is listed and subscribed with its watchdog set
Connected(c) ==
    /\ conn[c].stage = "version" /\ conn[c].connected
    /\ conn' = [conn EXCEPT ![c].stage = "live"]
    /\ connections' = Append(connections, c)
    /\ watchdog' = watchdog \cup {c}
    /\ nodeConnected' = nodeConnected \cup {conn[c].node}
    /\ NodeTried(conn[c].node)
    /\ UNCHANGED <<healthy, retry, rearmed>>

\* the node does not answer c, or its socket is gone
Hangs(c) ==
    \/ conn[c].node \notin healthy
    \/ conn[c].stage # "socket" /\ ~conn[c].connected

\* variant: the failure of a retried connection is final
ConnectFailsFinally(c) ==
    /\ conn[c].stage \in Connecting /\ Hangs(c)
    /\ conn' = [conn EXCEPT ![c] = NoConn]
    /\ retry' = [retry EXCEPT ![conn[c].node] = IF conn[c].node \in starting THEN @ + 1 ELSE @]
    /\ nodeConnected' = nodeConnected \ {conn[c].node}
    /\ UNCHANGED connections
    /\ NodeTried(conn[c].node)
    /\ UNCHANGED <<healthy, watchdog, rearmed>>

\* variant: the start waits until the node is connected
ConnectFailsWaiting(c) ==
    /\ conn[c].stage \in Connecting /\ Hangs(c)
    /\ conn' = [conn EXCEPT ![c] = NoConn]
    /\ retry' = [retry EXCEPT ![conn[c].node] = @ + 1]
    /\ nodeConnected' = nodeConnected \ {conn[c].node}
    /\ UNCHANGED <<healthy, connections, watchdog, chainVars, rearmed>>

\* connect throws: the object is dropped and a retry scheduled
ConnectFails(c) ==
    /\ conn[c].stage \in Connecting /\ Hangs(c)
    /\ conn' = [conn EXCEPT ![c] = NoConn]
    /\ retry' = [retry EXCEPT ![conn[c].node] = @ + 1]
    /\ nodeConnected' = nodeConnected \ {conn[c].node}
    /\ UNCHANGED connections
    /\ NodeTried(conn[c].node)
    /\ UNCHANGED <<healthy, watchdog, rearmed>>

\* refreshAuthorities is over, with the authorities or without
AuthoritiesAnswered ==
    /\ startStage = "authorities"
    /\ startStage' = "started"
    /\ UNCHANGED <<healthy, conn, connections, watchdog, retry, nodeConnected, starting, rearmed>>

-----------------------------------------------------------------------------
(* Reconnecting *)

\* connectNode(n) makes a new object of those cs leaves free
ConnectNode(n, cs) ==
    LET free == {c \in Conn : cs[c].stage = "free"}
    IN  /\ free # {}
        /\ conn' = [cs EXCEPT ![CHOOSE c \in free : TRUE] =
                          NewConn(n)]

WithoutIndex(s, i) == [j \in 1..(Len(s) - 1) |-> IF j < i THEN s[j] ELSE s[j + 1]]

\* variant: the old connection stays listed while it is closed
ReconnectListed(n, cs, armed) ==
    IF Listed(n) = {}
    THEN ConnectNode(n, cs) /\ watchdog' = armed /\ UNCHANGED connections
    ELSE LET i == CHOOSE i \in Listed(n) : \A j \in Listed(n) : i <= j
         IN  /\ conn' = [cs EXCEPT ![connections[i]].stage = "closing"]
             /\ watchdog' = armed \ {connections[i]}
             /\ UNCHANGED connections

\* reconnectNode, with the objects cs and the watchdogs armed as its caller leaves
\* them: the first connection listed for n is taken out and closed, its watchdog
\* first; without one the node is connected to at once
ReconnectNode(n, cs, armed) ==
    IF Listed(n) = {}
    THEN ConnectNode(n, cs) /\ watchdog' = armed /\ UNCHANGED connections
    ELSE LET i == CHOOSE i \in Listed(n) : \A j \in Listed(n) : i <= j
         IN  /\ connections' = WithoutIndex(connections, i)
             /\ conn' = [cs EXCEPT ![connections[i]].stage = "closing"]
             /\ watchdog' = armed \ {connections[i]}

\* the objects without c, if nothing but its watchdog referred to it
Released(c) == IF conn[c].stage = "closed" THEN [conn EXCEPT ![c] = NoConn] ELSE conn

\* no block for a whole timeout: only a connection a healthy node serves has them
WatchdogFires(c) ==
    /\ c \in watchdog
    /\ ~(conn[c].stage = "live" /\ conn[c].connected /\ conn[c].node \in healthy)
    /\ nodeConnected' = nodeConnected \ {conn[c].node}
    /\ ReconnectNode(conn[c].node, Released(c), watchdog \ {c})
    /\ UNCHANGED <<healthy, retry, chainVars, rearmed>>

\* variant: the retry is an interval
RetryFiresAgain(n) ==
    /\ retry[n] > 0
    /\ ReconnectNode(n, conn, watchdog)
    /\ UNCHANGED <<healthy, retry, nodeConnected, chainVars, rearmed>>

RetryFires(n) ==
    /\ retry[n] > 0
    /\ retry' = [retry EXCEPT ![n] = @ - 1]
    /\ ReconnectNode(n, conn, watchdog)
    /\ UNCHANGED <<healthy, nodeConnected, chainVars, rearmed>>

\* A header arrives on one of the three subscriptions.  While the connection is
\* closed this is the case until the last one is cancelled, and sets the watchdog
\* that has just been stopped.
Notification(c) ==
    /\ conn[c].stage \in {"live", "closing"} /\ conn[c].connected
    /\ c \in watchdog \/ Calls(conn[c].node) < MaxCalls[conn[c].node]
    /\ watchdog' = watchdog \cup {c}
    /\ nodeConnected' = nodeConnected \cup {conn[c].node}
    /\ rearmed' = IF conn[c].stage = "closing" THEN rearmed \cup {conn[c].node} ELSE rearmed
    /\ UNCHANGED <<healthy, conn, connections, retry, chainVars>>

\* disconnect is over: reconnectNode goes on to connectNode
Closed(c) ==
    /\ conn[c].stage = "closing"
    /\ ConnectNode(conn[c].node,
                   [conn EXCEPT ![c] = IF c \in watchdog
                                       THEN [@ EXCEPT !.stage = "closed", !.connected = FALSE]
                                       ELSE NoConn])
    /\ UNCHANGED <<healthy, connections, watchdog, retry, nodeConnected, chainVars, rearmed>>

-----------------------------------------------------------------------------
(* The nodes *)

\* the socket is lost; the provider was told not to reconnect by itself
SocketLost(c) ==
    /\ conn[c].connected /\ conn[c].node \notin healthy
    /\ conn' = [conn EXCEPT ![c].connected = FALSE]
    /\ UNCHANGED <<healthy, connections, watchdog, retry, nodeConnected, chainVars, rearmed>>

NodeChanges(n) ==
    /\ healthy' = IF n \in healthy THEN healthy \ {n} ELSE healthy \cup {n}
    /\ UNCHANGED <<conn, connections, watchdog, retry, nodeConnected, chainVars, rearmed>>

-----------------------------------------------------------------------------

ConnStep(c) ==
    \/ SocketOpens(c) \/ ApiReady(c) \/ Connected(c) \/ ConnectFails(c)
    \/ WatchdogFires(c) \/ Closed(c)

Next ==
    \/ \E c \in Conn : ConnStep(c) \/ Notification(c) \/ SocketLost(c)
    \/ \E n \in Node : RetryFires(n) \/ NodeChanges(n)
    \/ AuthoritiesAnswered

Spec == Init /\ [][Next]_vars

\* What was begun is answered, by the node or by a timeout, and timers expire.
Fairness ==
    /\ \A c \in Conn : WF_vars(ConnStep(c))
    /\ \A n \in Node : WF_vars(RetryFires(n))
    /\ WF_vars(AuthoritiesAnswered)

FairSpec == Spec /\ Fairness

-----------------------------------------------------------------------------
(* Properties *)

\* What the other components take from the array can be used: it lists exactly
\* the connections that are subscribed, each once, never one that is still being
\* connected or already being closed (manager.js:171, manager.js:193).
ListedAreLive ==
    /\ \A i, j \in DOMAIN connections : connections[i] = connections[j] => i = j
    /\ {connections[i] : i \in DOMAIN connections} = {c \in Conn : conn[c].stage = "live"}

\* No node is given up: whatever failed, a call, a watchdog or a retry timer is
\* left that will connect to it, or it is being announced blocks
\* (manager.js:179, manager.js:219).
NeverGivenUp ==
    \A n \in Node : ConnectingCalls(n) # {} \/ Watchdogs(n) # {} \/ retry[n] > 0

\* Unless a header arrived while a connection was being closed, a node has
\* exactly one call or timer, and so never two connections (manager.js:216).
OneCallPerNode ==
    \A n \in Node \ rearmed : Calls(n) = 1 /\ Cardinality(Listed(n)) <= 1

Served(n) ==
    /\ n \in nodeConnected
    /\ \E i \in Listed(n) : conn[connections[i]].connected

\* A node that is healthy from some time on is served again and again, even when
\* late headers have left it with competing reconnects.
HealthyNodesServed == \A n \in Node : <>[](n \in healthy) => []<>Served(n)

\* The start of a chain does not wait for ever, whatever its nodes do
\* (manager.js:138).
StartUpCompletes == <>(startStage = "started")

=============================================================================
