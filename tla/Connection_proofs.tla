-------------------------- MODULE Connection_proofs --------------------------
(***************************************************************************)
(* Proofs about Connection for every set of nodes, any number of objects   *)
(* and any bound on the calls: the array lists the live connections, no    *)
(* node is given up, and a node keeps one call until a late header re-arms *)
(* the watchdog of a connection that is being closed.                      *)
(***************************************************************************)
EXTENDS Connection, FiniteSetTheorems, WellFoundedInduction, TLAPS

-----------------------------------------------------------------------------
(* What the steps do to the objects *)

\* conn' is cs but for the node and the stage of object c
Becomes(cs, c, n, s) ==
    /\ conn' \in [Conn -> Object]
    /\ conn'[c].node = n /\ conn'[c].stage = s
    /\ \A d \in Conn : d # c => conn'[d].node = cs[d].node /\ conn'[d].stage = cs[d].stage

\* A field of one object is assigned.
LEMMA StageAssigned ==
    ASSUME NEW cs \in [Conn -> Object], NEW c \in Conn, NEW s \in Stage,
           conn' = [cs EXCEPT ![c].stage = s]
    PROVE  Becomes(cs, c, cs[c].node, s)
  <1>1. cs[c] \in Object
    OBVIOUS
  <1>2. [cs[c] EXCEPT !.stage = s] \in Object
        /\ [cs[c] EXCEPT !.stage = s].node = cs[c].node
        /\ [cs[c] EXCEPT !.stage = s].stage = s
    BY <1>1 DEF Object
  <1>3. conn' = [cs EXCEPT ![c] = [cs[c] EXCEPT !.stage = s]]
    BY Zenon
  <1>4. QED
    BY <1>2, <1>3 DEF Becomes

\* Any object is replaced as a whole.
LEMMA ObjectAssigned ==
    ASSUME NEW cs \in [Conn -> Object], NEW c \in Conn, NEW o \in Object,
           conn' = [cs EXCEPT ![c] = o]
    PROVE  Becomes(cs, c, o.node, o.stage)
  BY DEF Becomes

\* The two objects the steps assign are objects.
LEMMA ObjectTypes ==
    /\ NoConn \in Object /\ NoConn.node = NoNode /\ NoConn.stage = "free"
    /\ \A n \in Node : /\ NewConn(n) \in Object
                       /\ NewConn(n).node = n /\ NewConn(n).stage = "socket"
  BY DEF Object, NoConn, NewConn, Stage, Connecting

\* connectNode takes a free object.
LEMMA ConnectNodeEffect ==
    ASSUME NEW cs \in [Conn -> Object], NEW n \in Node, ConnectNode(n, cs)
    PROVE  \E d \in Conn : cs[d].stage = "free" /\ Becomes(cs, d, n, "socket")
  <1> DEFINE free == {c \in Conn : cs[c].stage = "free"}
             d == CHOOSE c \in free : TRUE
  <1>1. free # {} /\ conn' = [cs EXCEPT ![d] = NewConn(n)]
    BY DEF ConnectNode
  <1>2. d \in free
    BY <1>1
  <1>3. Becomes(cs, d, n, "socket")
    BY <1>1, <1>2, ObjectTypes, ObjectAssigned
  <1>4. QED
    BY <1>2, <1>3

\* The connections in the array s
Entries(s) == {s[i] : i \in DOMAIN s}

\* The array without one entry, whose entries were all different.
LEMMA WithoutIndexEntries ==
    ASSUME NEW s \in Seq(Conn), NEW i \in DOMAIN s,
           \A j, k \in DOMAIN s : s[j] = s[k] => j = k
    PROVE  LET t == WithoutIndex(s, i)
           IN  /\ t \in Seq(Conn)
               /\ \A j, k \in DOMAIN t : t[j] = t[k] => j = k
               /\ Entries(t) = Entries(s) \ {s[i]}
  <1> DEFINE t == WithoutIndex(s, i)
             at(j) == IF j < i THEN j ELSE j + 1
  <1>1. Len(s) \in Nat /\ DOMAIN s = 1..Len(s) /\ i \in 1..Len(s)
    OBVIOUS
  <1>2. DOMAIN t = 1..(Len(s) - 1) /\ \A j \in DOMAIN t : t[j] = s[at(j)] /\ at(j) \in DOMAIN s
    BY <1>1 DEF WithoutIndex
  <1>3. t \in Seq(Conn)
    <2>1. Len(s) - 1 \in Nat /\ \A j \in 1..(Len(s) - 1) : t[j] \in Conn
      BY <1>1, <1>2
    <2>2. t = [j \in 1..(Len(s) - 1) |-> t[j]]
      BY DEF WithoutIndex
    <2>3. QED
      BY <2>1, <2>2
  <1>4. \A j, k \in DOMAIN t : t[j] = t[k] => j = k
    BY <1>1, <1>2
  <1>5. Entries(t) \subseteq Entries(s) \ {s[i]}
    BY <1>1, <1>2 DEF Entries
  <1>6. ASSUME NEW k \in DOMAIN s, k # i
        PROVE  s[k] \in Entries(t)
    <2> DEFINE j == IF k < i THEN k ELSE k - 1
    <2>1. j \in DOMAIN t /\ at(j) = k
      BY <1>1, <1>2, <1>6
    <2>2. QED
      BY <2>1, <1>2 DEF Entries
  <1>7. Entries(t) = Entries(s) \ {s[i]}
    <2>1. ASSUME NEW x \in Entries(s), x # s[i]
          PROVE  x \in Entries(t)
      BY <2>1, <1>6 DEF Entries
    <2>2. QED
      BY <1>5, <2>1
  <1> HIDE DEF t
  <1>8. QED
    BY <1>3, <1>4, <1>7 DEF t

\* Every non-empty set of natural numbers has a smallest element.
LEMMA LeastElement ==
    ASSUME NEW S, S \subseteq Nat, S # {}
    PROVE  \E m \in S : \A j \in S : m <= j
  <1> DEFINE less == OpToRel(<, Nat)
  <1>1. IsWellFoundedOn(less, Nat)
    BY NatLessThanWellFounded
  <1>3. \A j, m \in Nat : j < m => <<j, m>> \in less
    BY DEF OpToRel
  <1> HIDE DEF less
  <1>2. PICK m \in S : \A j \in S : ~(<<j, m>> \in less)
    BY <1>1, WFMin
  <1>4. \A j \in S : ~(j < m)
    BY <1>2, <1>3
  <1>5. QED
    BY <1>4

\* reconnectNode takes the first listed connection to n out of the array and
\* starts to close it, or takes a free object if there is none.
LEMMA ReconnectEffect ==
    ASSUME TypeOK, ListedAreLive, NEW n \in Node, NEW cs \in [Conn -> Object], NEW armed,
           \A c \in Conn : conn[c].stage = "live" => cs[c] = conn[c],
           ReconnectNode(n, cs, armed)
    PROVE  \/ /\ \A c \in Conn : ~(conn[c].stage = "live" /\ conn[c].node = n)
              /\ \E d \in Conn : cs[d].stage = "free" /\ Becomes(cs, d, n, "socket")
              /\ watchdog' = armed
              /\ UNCHANGED connections
           \/ \E d \in Conn :
                 /\ conn[d].stage = "live" /\ conn[d].node = n
                 /\ Becomes(cs, d, n, "closing")
                 /\ watchdog' = armed \ {d}
                 /\ connections' \in Seq(Conn)
                 /\ \A j, k \in DOMAIN connections' : connections'[j] = connections'[k] => j = k
                 /\ Entries(connections') = Entries(connections) \ {d}
  <1>1. /\ connections \in Seq(Conn)
        /\ Entries(connections) = {c \in Conn : conn[c].stage = "live"}
        /\ \A j, k \in DOMAIN connections : connections[j] = connections[k] => j = k
        /\ \A i \in DOMAIN connections : connections[i] \in Conn
    BY DEF TypeOK, ListedAreLive, Entries
  <1>2. CASE Listed(n) = {}
    <2>1. ConnectNode(n, cs) /\ watchdog' = armed /\ UNCHANGED connections
      BY <1>2 DEF ReconnectNode
    <2>2. \A c \in Conn : ~(conn[c].stage = "live" /\ conn[c].node = n)
      BY <1>1, <1>2 DEF Listed, Entries
    <2>3. QED
      BY <2>1, <2>2, ConnectNodeEffect
  <1>3. CASE Listed(n) # {}
    <2> DEFINE i == CHOOSE i \in Listed(n) : \A j \in Listed(n) : i <= j
               d == connections[i]
    <2>1. i \in Listed(n)
      <3>1. Listed(n) \subseteq Nat /\ Listed(n) # {}
        BY <1>1, <1>3 DEF Listed
      <3>2. \E m \in Listed(n) : \A j \in Listed(n) : m <= j
        BY <3>1, LeastElement, Zenon
      <3>3. QED
        BY <3>2
    <2>2. d \in Conn /\ conn[d].stage = "live" /\ conn[d].node = n /\ i \in DOMAIN connections
      BY <1>1, <2>1 DEF Listed, Entries
    <2>3. /\ connections' = WithoutIndex(connections, i)
          /\ conn' = [cs EXCEPT ![d].stage = "closing"]
          /\ watchdog' = armed \ {d}
      BY <1>3 DEF ReconnectNode
    <2> HIDE DEF i
    <2>4. Becomes(cs, d, n, "closing")
      BY <2>2, <2>3, StageAssigned DEF Stage
    <2>5. QED
      BY <1>1, <2>2, <2>3, <2>4, WithoutIndexEntries
  <1>4. QED
    BY <1>2, <1>3

-----------------------------------------------------------------------------
(* Types and the array of connections *)

\* what TypeOK says of nodes, stages and watchdogs
Shape ==
    /\ \A c \in Conn : IsFree(c) <=> conn[c].node = NoNode
    /\ watchdog \subseteq {c \in Conn : conn[c].stage \in {"live", "closing", "closed"}}
    /\ \A c \in Conn : conn[c].stage = "closed" => c \in watchdog

\* ListedAreLive by the entries
Listing ==
    /\ connections \in Seq(Conn)
    /\ \A i, j \in DOMAIN connections : connections[i] = connections[j] => i = j
    /\ \A c \in Conn : c \in Entries(connections) <=> conn[c].stage = "live"

LEMMA ListingIsListed == TypeOK => (ListedAreLive <=> Listing)
  <1> SUFFICES ASSUME TypeOK
               PROVE  ListedAreLive <=> Listing
    OBVIOUS
  <1>1. connections \in Seq(Conn) /\ Entries(connections) \subseteq Conn
    BY DEF TypeOK, Entries
  <1>2. QED
    BY <1>1 DEF ListedAreLive, Listing, Entries

\* The objects as a step of the connection c leaves them when nothing else changes.
LEMMA OwnStep ==
    ASSUME TypeOK, Listing, NEW c \in Conn, NEW n, NEW s,
           Becomes(conn, c, n, s),
           conn[c].stage # "live", s # "live", UNCHANGED connections
    PROVE  Listing'
  BY DEF Becomes, Listing

LEMMA InitConn == Init => TypeOK /\ Listing
  <1> SUFFICES ASSUME Init
               PROVE  TypeOK /\ Listing
    OBVIOUS
  <1>1. \A c \in Conn : /\ conn[c] \in Object
                        /\ conn[c].stage \in {"free", "socket"}
                        /\ conn[c].stage = "free" <=> conn[c].node = NoNode
    <2> SUFFICES ASSUME NEW c \in Conn
                 PROVE  /\ conn[c] \in Object
                        /\ conn[c].stage \in {"free", "socket"}
                        /\ conn[c].stage = "free" <=> conn[c].node = NoNode
      OBVIOUS
    <2> DEFINE mine == {n \in Node : FirstConn[n] = c}
               n == CHOOSE n \in mine : TRUE
    <2>1. conn[c] = IF mine = {} THEN NoConn ELSE NewConn(n)
      BY DEF Init
    <2>2. mine # {} => n \in Node
      OBVIOUS
    <2> HIDE DEF n
    <2>3. QED
      BY <2>1, <2>2, ObjectTypes, ConnectionAssumption
  <1>2. conn \in [Conn -> Object]
    BY <1>1 DEF Init
  <1>3. TypeOK
    BY <1>1, <1>2 DEF Init, TypeOK, IsFree
  <1>4. Listing
    BY <1>1 DEF Init, Listing, Entries
  <1>5. QED
    BY <1>3, <1>4

\* What the steps that touch one object do to it.
LEMMA ObjectSteps ==
    ASSUME TypeOK, NEW c \in Conn
    PROVE  /\ SocketOpens(c) => Becomes(conn, c, conn[c].node, "api")
           /\ ApiReady(c) => Becomes(conn, c, conn[c].node, "version")
           /\ Connected(c) => Becomes(conn, c, conn[c].node, "live")
           /\ ConnectFails(c) => Becomes(conn, c, NoNode, "free")
           /\ SocketLost(c) => Becomes(conn, c, conn[c].node, conn[c].stage)
  <1>t. conn \in [Conn -> Object] /\ conn[c] \in Object
    BY DEF TypeOK
  <1>1. ASSUME SocketOpens(c)
        PROVE  Becomes(conn, c, conn[c].node, "api")
    <2> DEFINE o == [conn[c] EXCEPT !.stage = "api", !.connected = TRUE]
    <2>1. conn' = [conn EXCEPT ![c] = o]
      <3>1. conn' = [conn EXCEPT ![c].stage = "api", ![c].connected = TRUE]
        BY <1>1 DEF SocketOpens
      <3>2. conn' \in [Conn -> Object]
            /\ conn'[c] = o /\ \A d \in Conn : d # c => conn'[d] = conn[d]
        BY <3>1, <1>t DEF Object, Stage, Connecting
      <3>3. QED
        BY <3>2, <1>t
    <2>2. o \in Object /\ o.node = conn[c].node /\ o.stage = "api"
      BY <1>t DEF Object, Stage, Connecting
    <2> HIDE DEF o
    <2>3. QED
      BY <1>t, <2>1, <2>2, ObjectAssigned
  <1>2. ApiReady(c) => Becomes(conn, c, conn[c].node, "version")
    BY <1>t, StageAssigned DEF ApiReady, Stage, Connecting
  <1>3. Connected(c) => Becomes(conn, c, conn[c].node, "live")
    BY <1>t, StageAssigned DEF Connected, Stage
  <1>4. ASSUME ConnectFails(c)
        PROVE  Becomes(conn, c, NoNode, "free")
    <2>1. conn' = [conn EXCEPT ![c] = NoConn]
      BY <1>4 DEF ConnectFails
    <2>2. Becomes(conn, c, NoConn.node, NoConn.stage)
      BY <1>t, <2>1, ObjectTypes, ObjectAssigned
    <2>3. QED
      BY <2>2, ObjectTypes
  <1>5. ASSUME SocketLost(c)
        PROVE  Becomes(conn, c, conn[c].node, conn[c].stage)
    <2> DEFINE o == [conn[c] EXCEPT !.connected = FALSE]
    <2>1. conn' = [conn EXCEPT ![c] = o]
      BY <1>5, Zenon DEF SocketLost
    <2>2. o \in Object /\ o.node = conn[c].node /\ o.stage = conn[c].stage
      BY <1>t DEF Object
    <2> HIDE DEF o
    <2>3. QED
      BY <1>t, <2>1, <2>2, ObjectAssigned
  <1>6. QED
    BY <1>1, <1>2, <1>3, <1>4, <1>5

LEMMA NextConn == TypeOK /\ Listing /\ [Next]_vars => TypeOK' /\ Listing'
  <1> SUFFICES ASSUME TypeOK, Listing, [Next]_vars
               PROVE  TypeOK' /\ Listing'
    OBVIOUS
  <1> USE DEF chainVars
  <1>t. /\ conn \in [Conn -> Object] /\ Shape
        /\ \A c \in Conn : conn[c].node \in Node \cup {NoNode} /\ conn[c].stage \in Stage
        /\ connections \in Seq(Conn)
    BY DEF TypeOK, Shape, Object
  <1>s. /\ Stage = {"free", "live", "closing", "closed", "socket", "api", "version"}
        /\ Connecting = {"socket", "api", "version"}
    BY DEF Stage, Connecting
  <1>o. \A c \in Conn : ~IsFree(c) => conn[c].node \in Node
    BY <1>t DEF Shape
  <1>1. ASSUME NEW c \in Conn, SocketOpens(c) \/ ApiReady(c) \/ SocketLost(c)
        PROVE  TypeOK' /\ Listing'
    <2>1. PICK s \in Stage : /\ Becomes(conn, c, conn[c].node, s)
                             /\ \/ s = conn[c].stage
                                \/ {s, conn[c].stage} \subseteq Connecting
      BY <1>1, <1>t, <1>s, ObjectSteps DEF SocketOpens, ApiReady
    <2>2. /\ UNCHANGED <<healthy, connections, watchdog, retry, nodeConnected,
                         starting, startStage, rearmed>>
          /\ conn' \in [Conn -> Object]
      BY <1>1, <2>1 DEF SocketOpens, ApiReady, SocketLost, Becomes
    <2>3. Shape'
      BY <2>1, <2>2, <1>t, <1>s DEF Becomes, Shape, IsFree
    <2>4. TypeOK'
      BY <2>2, <2>3 DEF TypeOK, Shape
    <2>5. Listing'
      <3>1. \A d \in Conn : conn'[d].stage = "live" <=> conn[d].stage = "live"
        BY <2>1, <1>s, <1>t DEF Becomes
      <3>2. QED
        BY <2>2, <3>1 DEF Listing, Entries
    <2>6. QED
      BY <2>4, <2>5
  <1>2. ASSUME NEW c \in Conn, ConnectFails(c)
        PROVE  TypeOK' /\ Listing'
    <2>1. /\ Becomes(conn, c, NoNode, "free")
          /\ conn[c].stage \in Connecting /\ conn[c].node \in Node
          /\ UNCHANGED <<healthy, connections, watchdog, rearmed>>
          /\ retry' = [retry EXCEPT ![conn[c].node] = @ + 1]
          /\ nodeConnected' = nodeConnected \ {conn[c].node}
          /\ NodeTried(conn[c].node)
      BY <1>2, <1>s, <1>o, ObjectSteps DEF ConnectFails, IsFree
    <2>2. Shape'
      <3>1. conn'[c].stage = "free" /\ conn'[c].node = NoNode
        BY <2>1 DEF Becomes
      <3>2. \A d \in Conn : d # c => conn'[d].node = conn[d].node /\ conn'[d].stage = conn[d].stage
        BY <2>1 DEF Becomes
      <3>3. c \notin watchdog
        BY <1>t, <1>s, <2>1 DEF Shape
      <3>4. QED
        BY <1>t, <2>1, <3>1, <3>2, <3>3 DEF Shape, IsFree
    <2>3. conn' \in [Conn -> Object] /\ retry' \in [Node -> Nat]
      BY <2>1 DEF Becomes, TypeOK
    <2>4. starting' \subseteq Node /\ startStage' \in {"connecting", "authorities", "started"}
      BY <2>1 DEF NodeTried, TypeOK
    <2>5. TypeOK'
      BY <2>1, <2>2, <2>3, <2>4 DEF TypeOK, Shape
    <2>6. Listing'
      BY <2>1, <1>s DEF Becomes, Listing, Entries
    <2>7. QED
      BY <2>5, <2>6
  <1>3. ASSUME NEW c \in Conn, Connected(c)
        PROVE  TypeOK' /\ Listing'
    <2>1. /\ Becomes(conn, c, conn[c].node, "live")
          /\ conn[c].stage = "version" /\ conn[c].node \in Node
          /\ connections' = Append(connections, c)
          /\ watchdog' = watchdog \cup {c}
          /\ nodeConnected' = nodeConnected \cup {conn[c].node}
          /\ NodeTried(conn[c].node)
          /\ UNCHANGED <<healthy, retry, rearmed>>
      BY <1>3, <1>o, ObjectSteps DEF Connected, IsFree
    <2>2. Shape'
      BY <2>1, <1>t, <1>s DEF Becomes, Shape, IsFree
    <2>3. conn' \in [Conn -> Object] /\ connections' \in Seq(Conn)
      BY <2>1, <1>t DEF Becomes
    <2>4. starting' \subseteq Node /\ startStage' \in {"connecting", "authorities", "started"}
      BY <2>1 DEF NodeTried, TypeOK
    <2>5. TypeOK'
      BY <2>1, <2>2, <2>3, <2>4 DEF TypeOK, Shape
    <2>6. Listing'
      <3>1. /\ DOMAIN connections' = 1..(Len(connections) + 1)
            /\ DOMAIN connections = 1..Len(connections) /\ Len(connections) \in Nat
            /\ \A i \in 1..Len(connections) : connections'[i] = connections[i]
            /\ connections'[Len(connections) + 1] = c
        BY <2>1, <1>t
      <3>2. c \notin Entries(connections)
        BY <2>1 DEF Listing
      <3>3. \A i, j \in DOMAIN connections' : connections'[i] = connections'[j] => i = j
        BY <3>1, <3>2 DEF Listing, Entries
      <3>4. Entries(connections') = Entries(connections) \cup {c}
        BY <3>1 DEF Entries
      <3>5. QED
        BY <2>1, <2>3, <3>3, <3>4 DEF Becomes, Listing
    <2>7. QED
      BY <2>5, <2>6
  <1>4. ASSUME NEW n \in Node, NEW cs \in [Conn -> Object], NEW armed,
               ReconnectNode(n, cs, armed),
               \A c \in Conn : conn[c].stage = "live" => cs[c] = conn[c],
               \A c \in Conn : cs[c].stage = "live" => conn[c].stage = "live",
               \A c \in Conn : cs[c].stage = "free" <=> cs[c].node = NoNode,
               armed \subseteq {c \in Conn : cs[c].stage \in {"live", "closing", "closed"}},
               \A c \in Conn : cs[c].stage = "closed" => c \in armed
        PROVE  Shape' /\ Listing' /\ conn' \in [Conn -> Object]
    <2>l. ListedAreLive
      BY ListingIsListed
    <2>1. CASE \E d \in Conn : cs[d].stage = "free" /\ Becomes(cs, d, n, "socket")
               /\ watchdog' = armed /\ UNCHANGED connections
      <3>1. PICK d \in Conn : cs[d].stage = "free" /\ Becomes(cs, d, n, "socket")
        BY <2>1
      <3>2. Shape'
        BY <1>4, <2>1, <3>1, ConnectionAssumption DEF Becomes, Shape, IsFree
      <3>3. Listing'
        BY <1>4, <2>1, <3>1 DEF Becomes, Listing, Entries
      <3>4. QED
        BY <3>1, <3>2, <3>3 DEF Becomes
    <2>2. CASE \E d \in Conn :
                 /\ conn[d].stage = "live" /\ conn[d].node = n
                 /\ Becomes(cs, d, n, "closing")
                 /\ watchdog' = armed \ {d}
                 /\ connections' \in Seq(Conn)
                 /\ \A j, k \in DOMAIN connections' : connections'[j] = connections'[k] => j = k
                 /\ Entries(connections') = Entries(connections) \ {d}
      <3>1. PICK d \in Conn :
                 /\ conn[d].stage = "live" /\ conn[d].node = n
                 /\ Becomes(cs, d, n, "closing")
                 /\ watchdog' = armed \ {d}
                 /\ connections' \in Seq(Conn)
                 /\ \A j, k \in DOMAIN connections' : connections'[j] = connections'[k] => j = k
                 /\ Entries(connections') = Entries(connections) \ {d}
        BY <2>2
      <3>2. Shape'
        <4>1. \A c \in Conn : conn'[c].stage = "free" <=> conn'[c].node = NoNode
          <5>1. conn'[d].stage # "free" /\ conn'[d].node # NoNode
            BY <3>1, ConnectionAssumption DEF Becomes
          <5>2. \A c \in Conn : c # d => conn'[c].node = cs[c].node /\ conn'[c].stage = cs[c].stage
            BY <3>1 DEF Becomes
          <5>3. \A c \in Conn : cs[c].stage = "free" <=> cs[c].node = NoNode
            BY <1>4
          <5>4. QED
            BY <5>1, <5>2, <5>3
        <4>2. \A c \in watchdog' : c # d /\ conn'[c].stage \in {"live", "closing", "closed"}
          BY <1>4, <3>1 DEF Becomes
        <4>3. watchdog' \subseteq Conn
          BY <1>4, <3>1
        <4>4. \A c \in Conn : conn'[c].stage = "closed" => c \in watchdog'
          BY <1>4, <3>1 DEF Becomes
        <4>5. QED
          BY <4>1, <4>2, <4>3, <4>4 DEF Shape, IsFree
      <3>3. Listing'
        BY <1>4, <3>1 DEF Becomes, Listing
      <3>4. QED
        BY <3>1, <3>2, <3>3 DEF Becomes
    <2>3. QED
      BY <1>4, <2>l, <2>1, <2>2, ReconnectEffect
  <1>5. ASSUME NEW c \in Conn, WatchdogFires(c)
        PROVE  TypeOK' /\ Listing'
    <2> DEFINE n == conn[c].node
               cs == Released(c)
    <2>1. /\ c \in watchdog
          /\ nodeConnected' = nodeConnected \ {n}
          /\ ReconnectNode(n, cs, watchdog \ {c})
          /\ UNCHANGED <<healthy, retry, chainVars, rearmed>>
      BY <1>5 DEF WatchdogFires
    <2>2. n \in Node
      BY <2>1, <1>t, <1>s, <1>o DEF Shape, IsFree
    <2>3. /\ cs \in [Conn -> Object]
          /\ \A d \in Conn : cs[d] = IF d = c /\ conn[c].stage = "closed" THEN NoConn ELSE conn[d]
      BY <1>t, ObjectTypes DEF Released
    <2> HIDE DEF n, cs
    <2>4. /\ \A d \in Conn : conn[d].stage = "live" => cs[d] = conn[d]
          /\ \A d \in Conn : cs[d].stage = "live" => conn[d].stage = "live"
          /\ \A d \in Conn : cs[d].stage = "free" <=> cs[d].node = NoNode
          /\ watchdog \ {c} \subseteq {d \in Conn : cs[d].stage \in {"live", "closing", "closed"}}
          /\ \A d \in Conn : cs[d].stage = "closed" => d \in watchdog \ {c}
      BY <2>3, <1>t, ObjectTypes DEF Shape, IsFree
    <2>5. Shape' /\ Listing' /\ conn' \in [Conn -> Object]
      BY <2>1, <2>2, <2>3, <2>4, <1>4
    <2>6. QED
      BY <2>1, <2>5 DEF TypeOK, Shape, Listing
  <1>6. ASSUME NEW n \in Node, RetryFires(n)
        PROVE  TypeOK' /\ Listing'
    <2>1. /\ retry' = [retry EXCEPT ![n] = @ - 1] /\ retry[n] > 0
          /\ ReconnectNode(n, conn, watchdog)
          /\ UNCHANGED <<healthy, nodeConnected, chainVars, rearmed>>
      BY <1>6 DEF RetryFires
    <2>2. Shape' /\ Listing' /\ conn' \in [Conn -> Object]
      BY <2>1, <1>4, <1>t DEF Shape, IsFree
    <2>3. retry' \in [Node -> Nat]
      BY <2>1 DEF TypeOK
    <2>4. QED
      BY <2>1, <2>2, <2>3 DEF TypeOK, Shape, Listing
  <1>7. ASSUME NEW c \in Conn, Closed(c)
        PROVE  TypeOK' /\ Listing'
    <2> DEFINE n == conn[c].node
               o == IF c \in watchdog THEN [conn[c] EXCEPT !.stage = "closed", !.connected = FALSE]
                    ELSE NoConn
               cs == [conn EXCEPT ![c] = o]
    <2>1. /\ conn[c].stage = "closing"
          /\ ConnectNode(n, cs)
          /\ UNCHANGED <<healthy, connections, watchdog, retry, nodeConnected, chainVars, rearmed>>
      BY <1>7, Zenon DEF Closed
    <2>2. n \in Node
      BY <2>1, <1>o DEF IsFree
    <2>3. o \in Object /\ o.stage = (IF c \in watchdog THEN "closed" ELSE "free")
          /\ o.node = (IF c \in watchdog THEN n ELSE NoNode)
      BY <1>t, ObjectTypes DEF Object, Stage
    <2> HIDE DEF n, o
    <2>4. /\ cs \in [Conn -> Object]
          /\ \A d \in Conn : cs[d] = IF d = c THEN o ELSE conn[d]
      BY <1>t, <2>3
    <2> HIDE DEF cs
    <2>5. PICK d \in Conn : cs[d].stage = "free" /\ Becomes(cs, d, n, "socket")
      BY <2>1, <2>2, <2>4, ConnectNodeEffect
    <2>6. Shape'
      <3>1. /\ \A e \in Conn : cs[e].stage = "free" <=> cs[e].node = NoNode
            /\ \A e \in watchdog : cs[e].stage \in {"live", "closing", "closed"}
            /\ \A e \in Conn : cs[e].stage = "closed" => e \in watchdog
        <4>1. c \in watchdog <=> cs[c].stage = "closed"
          BY <2>3, <2>4
        <4>2. /\ cs[c].stage = "free" <=> cs[c].node = NoNode
              /\ cs[c].stage \in {"closed", "free"}
          BY <2>2, <2>3, <2>4, ConnectionAssumption
        <4>3. \A e \in Conn : e # c => cs[e] = conn[e]
          BY <2>4
        <4>4. watchdog \subseteq Conn
          BY <1>t DEF Shape
        <4>5. QED
          BY <4>1, <4>2, <4>3, <4>4, <1>t DEF Shape, IsFree
      <3>2. \A e \in watchdog : e \in Conn /\ e # d
        BY <3>1, <2>5, <1>t DEF Shape
      <3>3. QED
        BY <2>1, <2>2, <2>5, <3>1, <3>2, ConnectionAssumption DEF Becomes, Shape, IsFree
    <2>7. Listing'
      BY <2>1, <2>3, <2>4, <2>5 DEF Becomes, Listing, Entries
    <2>8. QED
      BY <2>1, <2>5, <2>6, <2>7 DEF TypeOK, Shape, Listing, Becomes
  <1>8. ASSUME NEW c \in Conn, Notification(c)
        PROVE  TypeOK' /\ Listing'
    <2>1. conn[c].node \in Node
      BY <1>8, <1>o DEF Notification, IsFree
    <2>2. QED
      BY <1>8, <2>1 DEF Notification, TypeOK, Listing, Entries, IsFree
  <1>9. ASSUME AuthoritiesAnswered \/ (\E n \in Node : NodeChanges(n)) \/ UNCHANGED vars
        PROVE  TypeOK' /\ Listing'
    BY <1>9 DEF AuthoritiesAnswered, NodeChanges, vars, TypeOK, Listing, Entries, IsFree
  <1>10. QED
    BY <1>1, <1>2, <1>3, <1>5, <1>6, <1>7, <1>8, <1>9 DEF Next, ConnStep

\* connections is exactly the connections that are subscribed, each once.
THEOREM ConnectionsAreLive == Spec => [](TypeOK /\ ListedAreLive)
  <1>1. TypeOK /\ Listing => ListedAreLive
    BY ListingIsListed
  <1>2. QED
    BY <1>1, InitConn, NextConn, PTL DEF Spec

-----------------------------------------------------------------------------
(* No node is given up *)

\* NeverGivenUp by the objects: the calls and timers of node n
InUse(c, n) ==
    conn[c].node = n /\ (c \in watchdog \/ conn[c].stage \in Connecting \cup {"closing"})

LEMMA UsedIsKept ==
    /\ TypeOK => (NeverGivenUp <=> \A n \in Node : retry[n] > 0 \/ \E c \in Conn : InUse(c, n))
    /\ TypeOK' => (NeverGivenUp' <=> \A n \in Node : retry'[n] > 0 \/ \E c \in Conn : InUse(c, n)')
  BY DEF TypeOK, NeverGivenUp, ConnectingCalls, Watchdogs, InUse

LEMMA InitKept == Init => NeverGivenUp
  <1> SUFFICES ASSUME Init, NEW n \in Node
               PROVE  \E c \in Conn : InUse(c, n)
    BY InitConn, UsedIsKept
  <1> DEFINE c == FirstConn[n]
             mine == {m \in Node : FirstConn[m] = c}
             chosen == CHOOSE m \in mine : TRUE
  <1>1. FirstConn \in [Node -> Conn] /\ \A k, m \in Node : FirstConn[k] = FirstConn[m] => k = m
    BY ConnectionAssumption DEF FirstConn
  <1>2. c \in Conn /\ mine = {n}
    BY <1>1
  <1>3. chosen = n
    BY <1>2
  <1>4. conn[c] = NewConn(n)
    BY <1>2, <1>3 DEF Init
  <1> HIDE DEF c
  <1>5. InUse(c, n)
    BY <1>4, ObjectTypes DEF InUse, Connecting
  <1>6. QED
    BY <1>2, <1>5

LEMMA NextKept ==
    TypeOK /\ TypeOK' /\ Listing /\ NeverGivenUp /\ [Next]_vars => NeverGivenUp'
  <1> SUFFICES ASSUME TypeOK, TypeOK', Listing, NeverGivenUp, [Next]_vars, NEW m \in Node
               PROVE  retry'[m] > 0 \/ \E c \in Conn : InUse(c, m)'
    BY UsedIsKept
  <1> USE DEF chainVars
  <1>u. retry[m] > 0 \/ \E c \in Conn : InUse(c, m)
    BY UsedIsKept
  <1>t. /\ conn \in [Conn -> Object] /\ Shape /\ watchdog \subseteq Conn
        /\ \A c \in Conn : conn[c].node \in Node \cup {NoNode} /\ conn[c].stage \in Stage
        /\ retry \in [Node -> Nat]
    BY DEF TypeOK, Shape, Object
  <1>s. /\ Stage = {"free", "live", "closing", "closed", "socket", "api", "version"}
        /\ Connecting = {"socket", "api", "version"}
    BY DEF Stage, Connecting
  <1>o. \A c \in Conn : ~IsFree(c) => conn[c].node \in Node
    BY <1>t DEF Shape
  <1>1. ASSUME NEW c \in Conn, SocketOpens(c) \/ ApiReady(c) \/ Connected(c) \/ SocketLost(c)
        PROVE  retry'[m] > 0 \/ \E d \in Conn : InUse(d, m)'
    <2>1. /\ retry' = retry /\ watchdog \subseteq watchdog'
          /\ \A d \in Conn : conn'[d].node = conn[d].node
          /\ \A d \in Conn : d # c => conn'[d].stage = conn[d].stage
          /\ conn'[c].stage = conn[c].stage \/ conn'[c].stage \in Connecting \/ c \in watchdog'
      BY <1>1, <1>s, ObjectSteps
         DEF SocketOpens, ApiReady, Connected, SocketLost, Becomes
    <2>2. \A d \in Conn : InUse(d, m) => InUse(d, m)'
      BY <2>1 DEF InUse
    <2>3. QED
      BY <1>u, <2>1, <2>2
  <1>2. ASSUME NEW c \in Conn, ConnectFails(c)
        PROVE  retry'[m] > 0 \/ \E d \in Conn : InUse(d, m)'
    <2>1. /\ Becomes(conn, c, NoNode, "free") /\ UNCHANGED watchdog
          /\ conn[c].node \in Node
          /\ retry' = [retry EXCEPT ![conn[c].node] = @ + 1]
      BY <1>2, <1>s, <1>o, ObjectSteps DEF ConnectFails, IsFree
    <2>2. CASE conn[c].node = m
      BY <2>1, <2>2, <1>t
    <2>3. CASE conn[c].node # m
      <3>1. \A d \in Conn : InUse(d, m) => InUse(d, m)'
        BY <2>1, <2>3 DEF InUse, Becomes
      <3>2. QED
        BY <1>u, <2>1, <2>3, <3>1, <1>t
    <2>4. QED
      BY <2>2, <2>3
  <1>3. ASSUME NEW n \in Node, NEW cs \in [Conn -> Object], NEW armed,
               ReconnectNode(n, cs, armed),
               \A c \in Conn : conn[c].stage = "live" => cs[c] = conn[c],
               \A c \in Conn : conn[c].stage # "closed" => cs[c] = conn[c],
               \A c \in Conn : InUse(c, m) /\ m # n => cs[c] = conn[c] /\ (c \in watchdog => c \in armed)
        PROVE  /\ m = n => \E d \in Conn : InUse(d, m)'
               /\ m # n => \A d \in Conn : InUse(d, m) => InUse(d, m)'
    <2>l. ListedAreLive
      BY ListingIsListed
    <2>1. CASE \E d \in Conn : /\ cs[d].stage = "free" /\ Becomes(cs, d, n, "socket")
                              /\ watchdog' = armed
      <3>1. PICK d \in Conn : cs[d].stage = "free" /\ Becomes(cs, d, n, "socket") /\ watchdog' = armed
        BY <2>1
      <3>2. InUse(d, n)'
        BY <3>1, <1>s DEF InUse, Becomes
      <3>3. ASSUME m # n, NEW e \in Conn, InUse(e, m)
            PROVE  InUse(e, m)'
        <4>1. cs[e] = conn[e] /\ conn[e].stage # "free"
          BY <3>3, <1>3, <1>t, <1>s DEF InUse, Shape
        <4>2. e # d
          BY <3>1, <4>1
        <4>3. QED
          BY <3>1, <3>3, <4>1, <4>2, <1>3 DEF InUse, Becomes
      <3>4. QED
        BY <3>2, <3>3
    <2>2. CASE \E d \in Conn : /\ conn[d].stage = "live" /\ conn[d].node = n
                              /\ Becomes(cs, d, n, "closing")
                              /\ watchdog' = armed \ {d}
      <3>1. PICK d \in Conn : /\ conn[d].stage = "live" /\ conn[d].node = n
                             /\ Becomes(cs, d, n, "closing")
                             /\ watchdog' = armed \ {d}
        BY <2>2
      <3>2. InUse(d, n)'
        BY <3>1 DEF InUse, Becomes
      <3>3. ASSUME m # n, NEW e \in Conn, InUse(e, m)
            PROVE  InUse(e, m)'
        <4>1. cs[e] = conn[e] /\ e # d
          BY <3>1, <3>3, <1>3 DEF InUse
        <4>2. QED
          BY <3>1, <3>3, <4>1, <1>3 DEF InUse, Becomes
      <3>4. QED
        BY <3>2, <3>3
    <2>3. QED
      BY <1>3, <2>l, <2>1, <2>2, ReconnectEffect
  <1>4. ASSUME NEW c \in Conn, WatchdogFires(c)
        PROVE  retry'[m] > 0 \/ \E d \in Conn : InUse(d, m)'
    <2> DEFINE n == conn[c].node
               cs == Released(c)
    <2>1. /\ c \in watchdog /\ ReconnectNode(n, cs, watchdog \ {c}) /\ UNCHANGED retry
      BY <1>4 DEF WatchdogFires
    <2>2. n \in Node
      BY <2>1, <1>t, <1>s, <1>o DEF Shape, IsFree
    <2>3. /\ cs \in [Conn -> Object]
          /\ \A d \in Conn : cs[d] = IF d = c /\ conn[c].stage = "closed" THEN NoConn ELSE conn[d]
      BY <1>t, ObjectTypes DEF Released
    <2> HIDE DEF cs
    <2>4. /\ \A d \in Conn : conn[d].stage = "live" => cs[d] = conn[d]
          /\ \A d \in Conn : conn[d].stage # "closed" => cs[d] = conn[d]
          /\ \A d \in Conn : InUse(d, m) /\ m # n =>
                cs[d] = conn[d] /\ (d \in watchdog => d \in watchdog \ {c})
      BY <2>3 DEF InUse
    <2> HIDE DEF n
    <2>5. /\ m = n => \E d \in Conn : InUse(d, m)'
          /\ m # n => \A d \in Conn : InUse(d, m) => InUse(d, m)'
      BY <2>1, <2>2, <2>3, <2>4, <1>3
    <2>6. QED
      BY <2>1, <2>5, <1>u
  <1>5. ASSUME NEW n \in Node, RetryFires(n)
        PROVE  retry'[m] > 0 \/ \E d \in Conn : InUse(d, m)'
    <2>1. /\ retry' = [retry EXCEPT ![n] = @ - 1]
          /\ ReconnectNode(n, conn, watchdog)
      BY <1>5 DEF RetryFires
    <2>2. /\ m = n => \E d \in Conn : InUse(d, m)'
          /\ m # n => \A d \in Conn : InUse(d, m) => InUse(d, m)'
      BY <2>1, <1>3, <1>t
    <2>3. QED
      BY <2>1, <2>2, <1>u, <1>t
  <1>6. ASSUME NEW c \in Conn, Closed(c)
        PROVE  retry'[m] > 0 \/ \E d \in Conn : InUse(d, m)'
    <2> DEFINE n == conn[c].node
               o == IF c \in watchdog THEN [conn[c] EXCEPT !.stage = "closed", !.connected = FALSE]
                    ELSE NoConn
               cs == [conn EXCEPT ![c] = o]
    <2>1. /\ conn[c].stage = "closing"
          /\ ConnectNode(n, cs)
          /\ UNCHANGED <<watchdog, retry>>
      BY <1>6, Zenon DEF Closed
    <2>2. n \in Node
      BY <2>1, <1>o DEF IsFree
    <2>3. o \in Object
      <3>1. conn[c] \in Object
        BY <1>t
      <3>2. [conn[c] EXCEPT !.stage = "closed", !.connected = FALSE] \in Object
        BY <3>1 DEF Object, Stage
      <3>3. QED
        BY <3>2, ObjectTypes
    <2> HIDE DEF o
    <2>4. /\ cs \in [Conn -> Object]
          /\ \A d \in Conn : d # c => cs[d] = conn[d]
      BY <1>t, <2>3
    <2> HIDE DEF cs, n
    <2>5. PICK d \in Conn : cs[d].stage = "free" /\ Becomes(cs, d, n, "socket")
      BY <2>1, <2>2, <2>4, ConnectNodeEffect
    <2>6. m = n => InUse(d, m)'
      BY <2>5, <1>s DEF InUse, Becomes
    <2>7. ASSUME m # n, NEW e \in Conn, InUse(e, m)
          PROVE  InUse(e, m)'
      <3>1. cs[e] = conn[e] /\ conn[e].stage # "free"
        BY <2>4, <2>7, <1>t, <1>s DEF InUse, Shape, n
      <3>2. e # d
        BY <2>5, <3>1
      <3>3. QED
        BY <2>1, <2>5, <2>7, <3>1, <3>2 DEF InUse, Becomes
    <2>8. QED
      BY <2>1, <2>6, <2>7, <1>u
  <1>7. ASSUME NEW c \in Conn, Notification(c)
        PROVE  retry'[m] > 0 \/ \E d \in Conn : InUse(d, m)'
    BY <1>7, <1>u DEF Notification, InUse
  <1>8. ASSUME AuthoritiesAnswered \/ (\E n \in Node : NodeChanges(n)) \/ UNCHANGED vars
        PROVE  retry'[m] > 0 \/ \E d \in Conn : InUse(d, m)'
    BY <1>8, <1>u DEF AuthoritiesAnswered, NodeChanges, vars, InUse
  <1>9. QED
    BY <1>1, <1>2, <1>4, <1>5, <1>6, <1>7, <1>8 DEF Next, ConnStep

\* Whatever fails, in whatever order timers, headers and closing connections
\* come, a call or a timer is left for every node that will connect to it.
THEOREM NodesNeverGivenUp == Spec => []NeverGivenUp
  BY InitConn, NextConn, InitKept, NextKept, PTL DEF Spec

-----------------------------------------------------------------------------
(* One call per node *)

\* c is the only object of node n; its watchdog is set while it is live
Sole(c, n) ==
    /\ conn[c].node = n
    /\ \A d \in Conn : conn[d].node = n => d = c
    /\ conn[c].stage # "closed"
    /\ c \in watchdog <=> conn[c].stage = "live"

\* The strengthening of OneCallPerNode: node n has one retry timer and no
\* object, or one object and no retry timer.
Single(n) ==
    \/ retry[n] = 1 /\ \A c \in Conn : conn[c].node # n
    \/ retry[n] = 0 /\ \E c \in Conn : Sole(c, n)

SingleInv == \A n \in Node \ rearmed : Single(n)

LEMMA SingleMeansOneCall == TypeOK /\ Listing /\ SingleInv => OneCallPerNode
  <1> SUFFICES ASSUME TypeOK, Listing, SingleInv, NEW n \in Node \ rearmed
               PROVE  Calls(n) = 1 /\ Cardinality(Listed(n)) <= 1
    BY DEF OneCallPerNode
  <1>t. /\ \A c \in watchdog : c \in Conn /\ conn[c].stage \in {"live", "closing", "closed"}
        /\ \A c \in Conn : conn[c].stage \in Stage /\ (IsFree(c) <=> conn[c].node = NoNode)
        /\ \A i \in DOMAIN connections : connections[i] \in Conn
        /\ n # NoNode
    BY ConnectionAssumption DEF TypeOK, Object
  <1>1. CASE retry[n] = 1 /\ \A c \in Conn : conn[c].node # n
    <2>1. ConnectingCalls(n) = {} /\ Watchdogs(n) = {} /\ Listed(n) = {}
      BY <1>1, <1>t DEF ConnectingCalls, Watchdogs, Listed
    <2>2. QED
      BY <1>1, <2>1, FS_EmptySet DEF Calls
  <1>2. CASE retry[n] = 0 /\ \E c \in Conn : Sole(c, n)
    <2>1. PICK c \in Conn : Sole(c, n)
      BY <1>2
    <2>2. \/ ConnectingCalls(n) = {c} /\ Watchdogs(n) = {}
          \/ ConnectingCalls(n) = {} /\ Watchdogs(n) = {c}
      <3>1. conn[c].stage \in {"live", "closing"} \cup Connecting
        BY <1>t, <2>1 DEF Sole, Stage, IsFree
      <3>2. CASE conn[c].stage = "live"
        BY <3>2, <2>1, <1>t DEF Sole, ConnectingCalls, Watchdogs, Connecting
      <3>3. CASE conn[c].stage # "live"
        BY <3>1, <3>3, <2>1, <1>t DEF Sole, ConnectingCalls, Watchdogs, Connecting
      <3>4. QED
        BY <3>2, <3>3
    <2>3. Calls(n) = 1
      BY <1>2, <2>2, FS_EmptySet, FS_Singleton DEF Calls
    <2>4. \A i, j \in Listed(n) : i = j
      BY <2>1, <1>t DEF Sole, Listed, Listing
    <2>5. Listed(n) = {} \/ \E i \in Listed(n) : Listed(n) = {i}
      BY <2>4
    <2>6. Cardinality(Listed(n)) \in {0, 1}
      BY <2>5, FS_EmptySet, FS_Singleton
    <2>7. QED
      BY <2>3, <2>6
  <1>3. QED
    BY <1>1, <1>2 DEF SingleInv, Single

LEMMA InitSingle == Init => SingleInv
  <1> SUFFICES ASSUME Init, NEW n \in Node
               PROVE  \E c \in Conn : Sole(c, n)
    BY DEF SingleInv, Single, Init
  <1> DEFINE mine(c) == {m \in Node : FirstConn[m] = c}
             chosen(c) == CHOOSE m \in mine(c) : TRUE
  <1>1. FirstConn \in [Node -> Conn] /\ \A k, m \in Node : FirstConn[k] = FirstConn[m] => k = m
    BY ConnectionAssumption DEF FirstConn
  <1>2. ASSUME NEW c \in Conn
        PROVE  conn[c] = IF mine(c) = {} THEN NoConn ELSE NewConn(chosen(c))
    BY <1>2 DEF Init
  <1>3. \A c \in Conn : mine(c) # {} => chosen(c) \in mine(c)
    OBVIOUS
  <1>4. mine(FirstConn[n]) = {n} /\ FirstConn[n] \in Conn
    BY <1>1
  <1>5. \A c \in Conn : c # FirstConn[n] => n \notin mine(c)
    OBVIOUS
  <1>6. chosen(FirstConn[n]) = n
    BY <1>4
  <1> HIDE DEF chosen
  <1>7. conn[FirstConn[n]] = NewConn(n)
    BY <1>2, <1>4, <1>6
  <1>8. \A c \in Conn : conn[c].node = n => c = FirstConn[n]
    <2> SUFFICES ASSUME NEW c \in Conn, c # FirstConn[n]
                 PROVE  conn[c].node # n
      OBVIOUS
    <2>1. n \notin mine(c)
      BY <1>5
    <2>2. mine(c) # {} => chosen(c) \in Node /\ chosen(c) # n
      BY <1>3, <2>1
    <2> HIDE DEF mine
    <2>3. QED
      BY <1>2, <2>2, ObjectTypes, ConnectionAssumption
  <1>9. Sole(FirstConn[n], n)
    BY <1>7, <1>8, ObjectTypes DEF Sole, Init
  <1>10. QED
    BY <1>4, <1>9

\* A step that leaves the objects and the timer of a node alone
LEMMA OthersStaySingle ==
    ASSUME NEW m \in Node, Single(m), retry'[m] = retry[m],
           \A c \in Conn : conn[c].node = m \/ conn'[c].node = m =>
               /\ conn'[c].node = conn[c].node /\ conn'[c].stage = conn[c].stage
               /\ c \in watchdog' <=> c \in watchdog
    PROVE  Single(m)'
  <1>1. \A c \in Conn : Sole(c, m) => Sole(c, m)'
    BY DEF Sole
  <1>2. QED
    BY <1>1 DEF Single

LEMMA NextSingle ==
    TypeOK /\ Listing /\ SingleInv /\ [Next]_vars => SingleInv'
  <1> SUFFICES ASSUME TypeOK, Listing, SingleInv, [Next]_vars, NEW m \in Node, m \notin rearmed'
               PROVE  Single(m)'
    BY DEF SingleInv
  <1> USE DEF chainVars
  <1>t. /\ conn \in [Conn -> Object] /\ Shape /\ watchdog \subseteq Conn
        /\ \A c \in Conn : conn[c].node \in Node \cup {NoNode} /\ conn[c].stage \in Stage
        /\ retry \in [Node -> Nat] /\ m # NoNode
        /\ \A c \in Conn : c \in watchdog => conn[c].stage \in {"live", "closing", "closed"}
    BY ConnectionAssumption DEF TypeOK, Shape, Object
  <1>s. /\ Stage = {"free", "live", "closing", "closed", "socket", "api", "version"}
        /\ Connecting = {"socket", "api", "version"}
    BY DEF Stage, Connecting
  <1>o. \A c \in Conn : ~IsFree(c) => conn[c].node \in Node
    BY <1>t DEF Shape
  <1>m. m \notin rearmed
    BY DEF Next, ConnStep, SocketOpens, ApiReady, Connected, ConnectFails, WatchdogFires, Closed,
       Notification, SocketLost, RetryFires, NodeChanges, AuthoritiesAnswered, vars
  <1>i. Single(m)
    BY <1>m DEF SingleInv
  <1>1. ASSUME NEW c \in Conn, SocketOpens(c) \/ ApiReady(c) \/ Connected(c) \/ SocketLost(c)
        PROVE  Single(m)'
    <2>1. /\ UNCHANGED retry
          /\ \A d \in Conn : conn'[d].node = conn[d].node
          /\ \A d \in Conn : d # c => conn'[d].stage = conn[d].stage /\ (d \in watchdog' <=> d \in watchdog)
          /\ conn'[c].stage # "closed" \/ conn'[c].stage = conn[c].stage
          /\ \/ conn'[c].stage = conn[c].stage /\ (c \in watchdog' <=> c \in watchdog)
             \/ /\ conn[c].stage \in Connecting
                /\ c \in watchdog' <=> conn'[c].stage = "live"
      BY <1>1, <1>t, <1>s, ObjectSteps
         DEF SocketOpens, ApiReady, Connected, SocketLost, Becomes
    <2>2. \A d \in Conn : Sole(d, m) => Sole(d, m)'
      BY <2>1 DEF Sole
    <2>3. QED
      BY <1>i, <2>1, <2>2 DEF Single
  <1>2. ASSUME NEW c \in Conn, ConnectFails(c)
        PROVE  Single(m)'
    <2>1. /\ Becomes(conn, c, NoNode, "free") /\ UNCHANGED watchdog
          /\ conn[c].node \in Node
          /\ retry' = [retry EXCEPT ![conn[c].node] = @ + 1]
      BY <1>2, <1>s, <1>o, ObjectSteps DEF ConnectFails, IsFree
    <2>2. CASE conn[c].node = m
      <3>1. retry[m] = 0 /\ \A d \in Conn : conn[d].node = m => d = c
        BY <1>i, <2>2 DEF Single, Sole
      <3>2. retry'[m] = 1
        BY <2>1, <2>2, <3>1, <1>t
      <3>3. \A d \in Conn : conn'[d].node # m
        BY <2>1, <3>1, <1>t DEF Becomes
      <3>4. QED
        BY <3>2, <3>3 DEF Single
    <2>3. CASE conn[c].node # m
      BY <1>i, <1>t, <2>1, <2>3, OthersStaySingle DEF Becomes
    <2>4. QED
      BY <2>2, <2>3
  <1>3. ASSUME NEW n \in Node, NEW cs \in [Conn -> Object], NEW armed,
               n # m, ReconnectNode(n, cs, armed), retry'[m] = retry[m],
               \A c \in Conn : conn[c].stage = "live" => cs[c] = conn[c],
               \A c \in Conn : conn[c].node = m \/ cs[c].node = m =>
                   cs[c] = conn[c] /\ (c \in armed <=> c \in watchdog),
               \A c \in Conn : cs[c].node = m => cs[c].stage # "free"
        PROVE  Single(m)'
    <2>l. ListedAreLive
      BY ListingIsListed
    <2>1. PICK d \in Conn, s \in {"socket", "closing"} :
             /\ Becomes(cs, d, n, s)
             /\ conn[d].node # m /\ cs[d].node # m
             /\ watchdog' = armed \/ watchdog' = armed \ {d}
      <3>1. CASE \E d \in Conn : cs[d].stage = "free" /\ Becomes(cs, d, n, "socket") /\ watchdog' = armed
        BY <3>1, <1>3
      <3>2. CASE \E d \in Conn : /\ conn[d].stage = "live" /\ conn[d].node = n
                                /\ Becomes(cs, d, n, "closing")
                                /\ watchdog' = armed \ {d}
        BY <3>2, <1>3
      <3>3. QED
        BY <1>3, <2>l, <3>1, <3>2, ReconnectEffect
    <2>2. ASSUME NEW c \in Conn, conn[c].node = m \/ conn'[c].node = m
          PROVE  /\ conn'[c].node = conn[c].node /\ conn'[c].stage = conn[c].stage
                 /\ c \in watchdog' <=> c \in watchdog
      <3>1. c # d
        BY <1>3, <2>1, <2>2 DEF Becomes
      <3>2. QED
        BY <1>3, <2>1, <2>2, <3>1 DEF Becomes
    <2>3. QED
      BY <1>i, <1>3, <2>2, OthersStaySingle
  <1>4. ASSUME NEW c \in Conn, WatchdogFires(c)
        PROVE  Single(m)'
    <2> DEFINE n == conn[c].node
               cs == Released(c)
    <2>1. /\ c \in watchdog /\ ReconnectNode(n, cs, watchdog \ {c}) /\ UNCHANGED retry
      BY <1>4 DEF WatchdogFires
    <2>2. n \in Node
      BY <2>1, <1>t, <1>s, <1>o DEF Shape, IsFree
    <2>3. /\ cs \in [Conn -> Object]
          /\ \A d \in Conn : cs[d] = IF d = c /\ conn[c].stage = "closed" THEN NoConn ELSE conn[d]
      BY <1>t, ObjectTypes DEF Released
    <2> HIDE DEF cs
    <2>4. CASE n # m
      <3>1. /\ \A d \in Conn : conn[d].stage = "live" => cs[d] = conn[d]
            /\ \A d \in Conn : conn[d].node = m \/ cs[d].node = m =>
                  cs[d] = conn[d] /\ (d \in watchdog \ {c} <=> d \in watchdog)
        BY <2>3, <2>4, <1>t, ObjectTypes
      <3>2. \A d \in Conn : cs[d].node = m => cs[d].stage # "free"
        BY <3>1, <1>t DEF Shape, IsFree
      <3> HIDE DEF n
      <3>3. QED
        BY <2>1, <2>2, <2>3, <2>4, <3>1, <3>2, <1>3
    <2>5. CASE n = m
      <3>1. Sole(c, m) /\ retry[m] = 0 /\ conn[c].stage = "live"
        BY <1>i, <2>1, <2>5, <1>t DEF Single, Sole
      <3>2. cs = conn
        BY <3>1 DEF cs, Released
      <3>3. PICK d \in Conn : /\ conn[d].stage = "live" /\ conn[d].node = m
                             /\ Becomes(conn, d, m, "closing")
                             /\ watchdog' = (watchdog \ {c}) \ {d}
        <4>1. ListedAreLive
          BY ListingIsListed
        <4>2. ReconnectNode(m, conn, watchdog \ {c})
          BY <2>1, <2>5, <3>2
        <4>3. QED
          BY <1>t, <2>1, <2>5, <3>1, <4>1, <4>2, ReconnectEffect
      <3>4. d = c
        BY <3>1, <3>3 DEF Sole
      <3>5. Sole(c, m)'
        BY <3>1, <3>3, <3>4 DEF Sole, Becomes
      <3>6. QED
        BY <2>1, <3>1, <3>5 DEF Single
    <2>6. QED
      BY <2>4, <2>5
  <1>5. ASSUME NEW n \in Node, RetryFires(n)
        PROVE  Single(m)'
    <2>1. /\ retry' = [retry EXCEPT ![n] = @ - 1] /\ retry[n] > 0
          /\ ReconnectNode(n, conn, watchdog)
      BY <1>5 DEF RetryFires
    <2>2. CASE n # m
      <3>1. retry'[m] = retry[m]
        BY <2>1, <2>2, <1>t
      <3>2. \A d \in Conn : conn[d].node = m => conn[d].stage # "free"
        BY <1>t DEF Shape, IsFree
      <3>3. QED
        BY <2>1, <2>2, <3>1, <3>2, <1>t, <1>3
    <2>3. CASE n = m
      <3>1. retry[m] = 1 /\ \A c \in Conn : conn[c].node # m
        BY <1>i, <2>1, <2>3 DEF Single
      <3>2. PICK d \in Conn : conn[d].stage = "free" /\ Becomes(conn, d, m, "socket") /\ watchdog' = watchdog
        <4>1. ListedAreLive
          BY ListingIsListed
        <4>2. QED
          BY <1>t, <2>1, <2>3, <3>1, <4>1, ReconnectEffect
      <3>3. Sole(d, m)'
        BY <3>1, <3>2, <1>t DEF Sole, Becomes
      <3>4. retry'[m] = 0
        BY <2>1, <2>3, <3>1, <1>t
      <3>5. QED
        BY <3>3, <3>4 DEF Single
    <2>4. QED
      BY <2>2, <2>3
  <1>6. ASSUME NEW c \in Conn, Closed(c)
        PROVE  Single(m)'
    <2> DEFINE n == conn[c].node
               o == IF c \in watchdog THEN [conn[c] EXCEPT !.stage = "closed", !.connected = FALSE]
                    ELSE NoConn
               cs == [conn EXCEPT ![c] = o]
    <2>1. /\ conn[c].stage = "closing"
          /\ ConnectNode(n, cs)
          /\ UNCHANGED <<watchdog, retry>>
      BY <1>6, Zenon DEF Closed
    <2>2. n \in Node
      BY <2>1, <1>o DEF IsFree
    <2>3. /\ o \in Object /\ o.node \in {n, NoNode}
          /\ c \notin watchdog => o = NoConn
      <3>1. conn[c] \in Object
        BY <1>t
      <3>2. [conn[c] EXCEPT !.stage = "closed", !.connected = FALSE] \in Object
            /\ [conn[c] EXCEPT !.stage = "closed", !.connected = FALSE].node = n
        BY <3>1 DEF Object, Stage
      <3>3. QED
        BY <3>2, ObjectTypes
    <2> HIDE DEF o
    <2>4. /\ cs \in [Conn -> Object]
          /\ cs[c] = o /\ \A d \in Conn : d # c => cs[d] = conn[d]
      BY <1>t, <2>3
    <2> HIDE DEF cs
    <2>5. PICK d \in Conn : cs[d].stage = "free" /\ Becomes(cs, d, n, "socket")
      <3> HIDE DEF n
      <3>1. QED
        BY <2>1, <2>2, <2>4, ConnectNodeEffect
    <2>6. CASE n # m
      <3>1. ASSUME NEW e \in Conn, conn[e].node = m \/ conn'[e].node = m
            PROVE  /\ conn'[e].node = conn[e].node /\ conn'[e].stage = conn[e].stage
        <4>1. e # c \/ e = d
          BY <2>3, <2>4, <2>5, <2>6, <3>1, <1>t DEF Becomes
        <4>2. e # d
          BY <2>1, <2>3, <2>4, <2>5, <2>6, <3>1, <1>t DEF Becomes, Shape, IsFree
        <4>3. QED
          BY <2>4, <2>5, <4>1, <4>2 DEF Becomes
      <3>2. QED
        BY <1>i, <2>1, <3>1, OthersStaySingle
    <2>7. CASE n = m
      <3>1. Sole(c, m) /\ retry[m] = 0 /\ c \notin watchdog
        BY <1>i, <2>1, <2>7 DEF Single, Sole
      <3>2. cs[c].node = NoNode
        BY <2>3, <2>4, <3>1, ObjectTypes
      <3>3. \A e \in Conn : cs[e].node # m
        BY <2>4, <3>1, <3>2, <1>t DEF Sole
      <3>4. d \notin watchdog
        BY <2>4, <2>5, <3>1, <1>t, <1>s
      <3>5. Sole(d, m)'
        BY <2>1, <2>5, <2>7, <3>3, <3>4 DEF Sole, Becomes
      <3>6. QED
        BY <2>1, <3>1, <3>5 DEF Single
    <2>8. QED
      BY <2>6, <2>7
  <1>7. ASSUME NEW c \in Conn, Notification(c)
        PROVE  Single(m)'
    <2>1. /\ watchdog' = watchdog \cup {c} /\ UNCHANGED <<conn, retry>>
          /\ conn[c].stage = "live" \/ conn[c].node # m
      BY <1>7 DEF Notification
    <2>2. \A d \in Conn : Sole(d, m) => Sole(d, m)'
      BY <2>1 DEF Sole
    <2>3. QED
      BY <1>i, <2>1, <2>2 DEF Single
  <1>8. ASSUME AuthoritiesAnswered \/ (\E n \in Node : NodeChanges(n)) \/ UNCHANGED vars
        PROVE  Single(m)'
    <2>1. UNCHANGED <<conn, watchdog, retry>>
      BY <1>8 DEF AuthoritiesAnswered, NodeChanges, vars
    <2>2. QED
      BY <1>i, <2>1 DEF Single, Sole
  <1>9. QED
    BY <1>1, <1>2, <1>4, <1>5, <1>6, <1>7, <1>8 DEF Next, ConnStep

\* Until a header arrives on a connection that is being closed, its node has
\* exactly one call or timer and at most one connection.
THEOREM NodesHaveOneCall == Spec => []OneCallPerNode
  BY InitConn, NextConn, InitSingle, NextSingle, SingleMeansOneCall, PTL DEF Spec

=============================================================================
