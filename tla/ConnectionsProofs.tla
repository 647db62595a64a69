--------------------------- MODULE ConnectionsProofs ---------------------------
(* Machine-checked proofs about Connections, for any number of nodes, of        *)
(* opening threads and of slots.                                                *)
EXTENDS Connections, FiniteSetTheorems, TLAPS

\* The provers a leaf is given to, in this order, unless it names one.
USE ZenonT(40), SMTT(20)

Places == {"unborn", "vNodes", "disconnected", "deleted"}
CNodes == [where : Places, addr : Addrs \cup {None}, nRefCount : Int, fDisconnect : BOOLEAN,
           fNetworkNode : BOOLEAN, fInbound : BOOLEAN, grant : BOOLEAN]
Calls == [pc : {"idle", "check", "find", "found", "connect", "move", "mark"},
          addr : Addrs \cup {None}, named : BOOLEAN, grant : BOOLEAN,
          pnode : Nodes \cup {None}, fresh : BOOLEAN]

NodeTypes == node \in [Nodes -> CNodes]
SocketTypes ==
    /\ socket \in [pc : {"top", "pass", "release", "accept", "copy", "service"},
                   todo : SUBSET Nodes, copy : SUBSET Nodes, pnode : Nodes \cup {None}]
MessageTypes ==
    /\ message \in [pc : {"copy", "sync", "start", "watch", "drop", "messages"},
                    copy : SUBSET Nodes, fHaveSyncNode : BOOLEAN, pSync : Nodes \cup {None}]
    /\ pnodeSync \in Nodes \cup {None}
OpenerTypes == opener \in [Openers -> Calls]
Types == NodeTypes /\ SocketTypes /\ MessageTypes /\ OpenerTypes

Live(n) == node[n].where \in {"vNodes", "disconnected"}

\* Where the threads are, and what they hold there.
Control ==
    /\ socket.copy # {} => socket.pc = "service"
    /\ socket.todo \subseteq vNodes
    /\ socket.pc = "release" => socket.pnode \in vNodesDisconnected
    /\ message.pc = "copy" => message.copy = {}
    /\ \A o \in Openers : opener[o].pc \in {"found", "move", "mark"} =>
          opener[o].pnode \in Nodes /\ node[opener[o].pnode].where # "unborn"

\* What the watchdog takes for the sync node is a node of its copy.
Sync ==
    /\ message.pc = "start" => ~message.fHaveSyncNode
    /\ message.fHaveSyncNode /\ pnodeSync # None => pnodeSync \in message.copy
    /\ message.pc = "drop" => message.pSync \in message.copy

\* A node has one maker at most, which is not the socket handler.
Makers ==
    /\ \A o \in Openers : opener[o].fresh =>
          opener[o].pc \in {"move", "mark"} /\ ~node[opener[o].pnode].fInbound
    /\ \A o, p \in Openers :
          opener[o].fresh /\ opener[p].fresh /\ opener[o].pnode = opener[p].pnode => o = p

Used ==
    /\ \A n \in socket.copy \cup message.copy : Live(n)
    /\ \A o \in Openers : opener[o].fresh => Live(opener[o].pnode)

\* The reference a node was made with may still be dropped.
First(n) == node[n].where = "vNodes" \/ (socket.pc = "release" /\ socket.pnode = n)
One(P) == IF P THEN 1 ELSE 0
Copies(n) == One(n \in socket.copy) + One(n \in message.copy)

(***************************************************************************)
(* The references that count: those of the handlers' copies; the first     *)
(* one, as long as it may be dropped; the one of a thread that found the   *)
(* node, which is never dropped.  The maker of a node is protected by the  *)
(* first one while fNetworkNode is not set, and if another thread sets it  *)
(* by the reference of that thread.                                        *)
(***************************************************************************)
Counts(n) ==
    /\ node[n].nRefCount >= Copies(n) + One(First(n))
    /\ \A o \in Openers :
          /\ opener[o].pnode = n /\ opener[o].pc \in {"move", "mark"} /\ ~opener[o].fresh =>
                node[n].nRefCount >= Copies(n) + One(First(n)) + 1
          /\ opener[o].pnode = n /\ opener[o].fresh =>
                node[n].nRefCount >= Copies(n) + One(First(n) /\ node[n].fNetworkNode) + 1

References == \A n \in Nodes : Live(n) => Counts(n)

\* A thread has a slot until it hands it over.
Slots ==
    /\ \A o \in Openers : opener[o].grant <=> opener[o].pc \notin {"idle", "mark"}
    /\ value \in Int
    /\ SlotsConserved

\* The inductive invariant of UsedAreAlive.
IInv == Types /\ Control /\ Sync /\ Makers /\ Used /\ References

-----------------------------------------------------------------------------
(* The steps, conjunct by conjunct.                                         *)

\* What is written to a node is a node.
LEMMA Written ==
    ASSUME NEW r \in CNodes
    PROVE  /\ [r EXCEPT !.nRefCount = @ + 1] \in CNodes
           /\ [r EXCEPT !.nRefCount = @ - 1] \in CNodes
           /\ [r EXCEPT !.fDisconnect = TRUE] \in CNodes
           /\ [r EXCEPT !.fNetworkNode = TRUE] \in CNodes
           /\ \A g \in BOOLEAN : [r EXCEPT !.grant = g] \in CNodes
           /\ [r EXCEPT !.where = "disconnected", !.fDisconnect = TRUE, !.grant = FALSE] \in CNodes
           /\ [r EXCEPT !.where = "deleted", !.grant = FALSE] \in CNodes
<1>1. [r EXCEPT !.nRefCount = @ + 1] \in CNodes
  BY SMTT(20) DEF CNodes
<1>2. [r EXCEPT !.nRefCount = @ - 1] \in CNodes
  BY SMTT(20) DEF CNodes
<1>3. [r EXCEPT !.fDisconnect = TRUE] \in CNodes
  BY DEF CNodes
<1>4. [r EXCEPT !.fNetworkNode = TRUE] \in CNodes
  BY DEF CNodes
<1>5. \A g \in BOOLEAN : [r EXCEPT !.grant = g] \in CNodes
  BY DEF CNodes
<1>6. [r EXCEPT !.where = "disconnected", !.fDisconnect = TRUE, !.grant = FALSE] \in CNodes
  BY DEF CNodes, Places
<1>7. [r EXCEPT !.where = "deleted", !.grant = FALSE] \in CNodes
  BY DEF CNodes, Places
<1> QED BY <1>1, <1>2, <1>3, <1>4, <1>5, <1>6, <1>7

\* A node that is made is a node.
LEMMA Made ==
    ASSUME NEW a \in Addrs \cup {None}
    PROVE  /\ Unborn \in CNodes
           /\ [Unborn EXCEPT !.where = "vNodes", !.addr = a, !.nRefCount = 1, !.fInbound = TRUE] \in CNodes
           /\ [Unborn EXCEPT !.where = "vNodes", !.nRefCount = 1, !.addr = a] \in CNodes
<1>1. Unborn \in CNodes
  BY SMTT(20) DEF Unborn, CNodes, Places
<1>2. ASSUME NEW r \in CNodes
      PROVE  /\ [r EXCEPT !.where = "vNodes", !.addr = a, !.nRefCount = 1, !.fInbound = TRUE] \in CNodes
             /\ [r EXCEPT !.where = "vNodes", !.nRefCount = 1, !.addr = a] \in CNodes
  <2>1. 1 \in Int
    OBVIOUS
  <2> QED BY <2>1 DEF CNodes, Places
<1> QED BY <1>1, <1>2

\* The members the invariant reads, of a node a step leaves alone.
Kept(n) ==
    /\ node'[n].where = node[n].where /\ node'[n].nRefCount = node[n].nRefCount
    /\ node'[n].fNetworkNode = node[n].fNetworkNode /\ node'[n].fInbound = node[n].fInbound
    /\ node'[n].grant = node[n].grant

\* The steps that write a member of one node.
LEMMA OneWritten ==
    ASSUME NodeTypes, NEW n \in Nodes, NEW r \in CNodes, node' = [node EXCEPT ![n] = r]
    PROVE  NodeTypes' /\ node'[n] = r /\ \A m \in Nodes \ {n} : Kept(m)
BY DEF NodeTypes, Kept

\* The members of a record after fDisconnect is written.
LEMMA MarkedFields ==
    ASSUME NEW r \in CNodes, NEW v \in BOOLEAN, NEW x, x = [r EXCEPT !.fDisconnect = v]
    PROVE  /\ x.where = r.where /\ x.nRefCount = r.nRefCount /\ x.fNetworkNode = r.fNetworkNode
           /\ x.fInbound = r.fInbound /\ x.grant = r.grant
BY DEF CNodes

\* CloseSocketDisconnect, and fDisconnect without it.
LEMMA Marked ==
    ASSUME NodeTypes, NEW n \in Nodes, node' = [node EXCEPT ![n].fDisconnect = TRUE]
    PROVE  NodeTypes' /\ \A m \in Nodes : Kept(m)
<1>1. node[n] \in CNodes
  BY DEF NodeTypes
<1>2. node' = [node EXCEPT ![n] = [node[n] EXCEPT !.fDisconnect = TRUE]]
  OBVIOUS
<1>3. [node[n] EXCEPT !.fDisconnect = TRUE] \in CNodes
  BY <1>1, Written
<1>4. NodeTypes' /\ node'[n] = [node[n] EXCEPT !.fDisconnect = TRUE] /\ \A m \in Nodes \ {n} : Kept(m)
  BY <1>2, <1>3, OneWritten
<1>5. Kept(n)
  BY SMTT(20), <1>1, <1>4, MarkedFields DEF Kept
<1> QED BY <1>4, <1>5

\* AddRef.
LEMMA Added ==
    ASSUME NodeTypes, NEW S,
           node' = [n \in Nodes |-> IF n \in S THEN [node[n] EXCEPT !.nRefCount = @ + 1] ELSE node[n]]
    PROVE  /\ NodeTypes'
           /\ \A m \in Nodes : /\ node'[m].nRefCount = node[m].nRefCount + (IF m \in S THEN 1 ELSE 0)
                               /\ node'[m].where = node[m].where
                               /\ node'[m].fNetworkNode = node[m].fNetworkNode
                               /\ node'[m].fInbound = node[m].fInbound /\ node'[m].grant = node[m].grant
<1>1. \A m \in Nodes : node[m] \in CNodes
  BY DEF NodeTypes
<1>2. ASSUME NEW r \in CNodes
      PROVE  LET x == [r EXCEPT !.nRefCount = @ + 1]
             IN  /\ x \in CNodes /\ x.nRefCount = r.nRefCount + 1 /\ r.nRefCount + 0 = r.nRefCount
                 /\ x.where = r.where /\ x.fNetworkNode = r.fNetworkNode
                 /\ x.fInbound = r.fInbound /\ x.grant = r.grant
  BY SMTT(20) DEF CNodes
<1>3. NodeTypes'
  BY <1>1, <1>2 DEF NodeTypes
<1>4. ASSUME NEW m \in Nodes
      PROVE  /\ node'[m].nRefCount = node[m].nRefCount + (IF m \in S THEN 1 ELSE 0)
             /\ node'[m].where = node[m].where
             /\ node'[m].fNetworkNode = node[m].fNetworkNode
             /\ node'[m].fInbound = node[m].fInbound /\ node'[m].grant = node[m].grant
  <2>1. CASE m \in S
    <3>1. node'[m] = [node[m] EXCEPT !.nRefCount = @ + 1]
      BY <2>1
    <3> QED BY ZenonT(60), <1>1, <1>2, <2>1, <3>1
  <2>2. CASE m \notin S
    <3>1. node'[m] = node[m] /\ (IF m \in S THEN 1 ELSE 0) = 0
      BY <2>2
    <3>2. node[m].nRefCount + 0 = node[m].nRefCount
      BY <1>1, <1>2
    <3> QED BY <3>1, <3>2
  <2> QED BY <2>1, <2>2
<1> QED BY <1>3, <1>4

\* Release.
LEMMA Dropped ==
    ASSUME NodeTypes, NEW S,
           node' = [n \in Nodes |-> IF n \in S THEN [node[n] EXCEPT !.nRefCount = @ - 1] ELSE node[n]]
    PROVE  /\ NodeTypes'
           /\ \A m \in Nodes : /\ node'[m].nRefCount = node[m].nRefCount - (IF m \in S THEN 1 ELSE 0)
                               /\ node'[m].where = node[m].where
                               /\ node'[m].fNetworkNode = node[m].fNetworkNode
                               /\ node'[m].fInbound = node[m].fInbound /\ node'[m].grant = node[m].grant
<1>1. \A m \in Nodes : node[m] \in CNodes
  BY DEF NodeTypes
<1>2. ASSUME NEW r \in CNodes
      PROVE  LET x == [r EXCEPT !.nRefCount = @ - 1]
             IN  /\ x \in CNodes /\ x.nRefCount = r.nRefCount - 1 /\ r.nRefCount - 0 = r.nRefCount
                 /\ x.where = r.where /\ x.fNetworkNode = r.fNetworkNode
                 /\ x.fInbound = r.fInbound /\ x.grant = r.grant
  BY SMTT(20) DEF CNodes
<1>3. NodeTypes'
  BY <1>1, <1>2 DEF NodeTypes
<1>4. ASSUME NEW m \in Nodes
      PROVE  /\ node'[m].nRefCount = node[m].nRefCount - (IF m \in S THEN 1 ELSE 0)
             /\ node'[m].where = node[m].where
             /\ node'[m].fNetworkNode = node[m].fNetworkNode
             /\ node'[m].fInbound = node[m].fInbound /\ node'[m].grant = node[m].grant
  <2>1. CASE m \in S
    <3>1. node'[m] = [node[m] EXCEPT !.nRefCount = @ - 1]
      BY <2>1
    <3> QED BY ZenonT(60), <1>1, <1>2, <2>1, <3>1
  <2>2. CASE m \notin S
    <3>1. node'[m] = node[m] /\ (IF m \in S THEN 1 ELSE 0) = 0
      BY <2>2
    <3>2. node[m].nRefCount - 0 = node[m].nRefCount
      BY <1>1, <1>2
    <3> QED BY <3>1, <3>2
  <2> QED BY <2>1, <2>2
<1> QED BY <1>3, <1>4

\* The members of a record that is taken out.
LEMMA TakenOutFields ==
    ASSUME NEW r \in CNodes
    PROVE  LET y == [r EXCEPT !.where = "disconnected", !.fDisconnect = TRUE, !.grant = FALSE]
           IN  /\ y.where = "disconnected"
               /\ y.grant = FALSE
               /\ y.nRefCount = r.nRefCount
               /\ y.fNetworkNode = r.fNetworkNode
               /\ y.fInbound = r.fInbound
<1>1. [r EXCEPT !.where = "disconnected", !.fDisconnect = TRUE, !.grant = FALSE].where = "disconnected"
  BY DEF CNodes
<1>2. [r EXCEPT !.where = "disconnected", !.fDisconnect = TRUE, !.grant = FALSE].grant = FALSE
  BY DEF CNodes
<1>3. [r EXCEPT !.where = "disconnected", !.fDisconnect = TRUE, !.grant = FALSE].nRefCount = r.nRefCount
  BY DEF CNodes
<1>4. [r EXCEPT !.where = "disconnected", !.fDisconnect = TRUE, !.grant = FALSE].fNetworkNode = r.fNetworkNode
  BY DEF CNodes
<1>5. [r EXCEPT !.where = "disconnected", !.fDisconnect = TRUE, !.grant = FALSE].fInbound = r.fInbound
  BY DEF CNodes
<1> QED BY <1>1, <1>2, <1>3, <1>4, <1>5

\* A node is taken out of vNodes.
LEMMA TakenOut ==
    ASSUME NodeTypes, NEW n \in Nodes, NEW x,
           x = [node[n] EXCEPT !.where = "disconnected", !.fDisconnect = TRUE, !.grant = FALSE],
           node' = [node EXCEPT ![n] = x]
    PROVE  /\ NodeTypes' /\ \A m \in Nodes \ {n} : Kept(m)
           /\ node'[n].where = "disconnected" /\ node'[n].grant = FALSE
           /\ node'[n].nRefCount = node[n].nRefCount
           /\ node'[n].fNetworkNode = node[n].fNetworkNode /\ node'[n].fInbound = node[n].fInbound
<1>1. node[n] \in CNodes
  BY DEF NodeTypes
<1>2. x \in CNodes
  BY <1>1, Written
<1>3. /\ x.where = "disconnected" /\ x.grant = FALSE /\ x.nRefCount = node[n].nRefCount
      /\ x.fNetworkNode = node[n].fNetworkNode /\ x.fInbound = node[n].fInbound
  BY <1>1, TakenOutFields
<1>4. NodeTypes' /\ node'[n] = x /\ \A m \in Nodes \ {n} : Kept(m)
  BY <1>2, OneWritten
<1> QED BY <1>3, <1>4

\* The members of a record that is deleted.
LEMMA DeletedFields ==
    ASSUME NEW r \in CNodes, NEW w \in BOOLEAN, NEW y, y = [r EXCEPT !.where = "deleted", !.grant = w]
    PROVE  y.where = "deleted" /\ y.grant = w /\ y.fInbound = r.fInbound
BY DEF CNodes

\* The nodes nobody refers to are deleted.
LEMMA Deleted ==
    ASSUME NodeTypes, NEW S,
           node' = [n \in Nodes |-> IF n \in S THEN [node[n] EXCEPT !.where = "deleted", !.grant = FALSE]
                                    ELSE node[n]]
    PROVE  /\ NodeTypes' /\ \A m \in Nodes \ S : Kept(m)
           /\ \A m \in Nodes \cap S : /\ node'[m].where = "deleted" /\ ~node'[m].grant
                                      /\ node'[m].fInbound = node[m].fInbound
<1>1. \A m \in Nodes : node[m] \in CNodes
  BY DEF NodeTypes
<1>3. \A m \in Nodes : node'[m] = IF m \in S THEN [node[m] EXCEPT !.where = "deleted", !.grant = FALSE]
                                  ELSE node[m]
  OBVIOUS
<1>4. NodeTypes'
  BY <1>1, Written DEF NodeTypes
<1> QED BY <1>1, DeletedFields, <1>3, <1>4 DEF Kept

\* The socket handler makes a node.
LEMMA BornInbound ==
    ASSUME NodeTypes, NEW n \in Nodes, NEW a \in Addrs \cup {None},
           node' = [node EXCEPT ![n] = [Unborn EXCEPT !.where = "vNodes", !.addr = a, !.nRefCount = 1, !.fInbound = TRUE]]
    PROVE  /\ NodeTypes' /\ \A m \in Nodes \ {n} : Kept(m)
           /\ node'[n].where = "vNodes" /\ node'[n].nRefCount = 1 /\ ~node'[n].fNetworkNode
           /\ node'[n].fInbound /\ ~node'[n].grant
<1>1. PICK x : x = [Unborn EXCEPT !.where = "vNodes", !.addr = a, !.nRefCount = 1, !.fInbound = TRUE]
  OBVIOUS
<1>2. x \in CNodes
  BY <1>1, Made
<1>3. x.where = "vNodes" /\ x.nRefCount = 1 /\ ~x.fNetworkNode /\ x.fInbound /\ ~x.grant
  BY <1>1 DEF Unborn
<1>4. NodeTypes' /\ node'[n] = x /\ \A m \in Nodes \ {n} : Kept(m)
  BY <1>1, <1>2, OneWritten
<1> QED BY <1>3, <1>4

\* An opening thread makes a node.
LEMMA BornOutbound ==
    ASSUME NodeTypes, NEW n \in Nodes, NEW a \in Addrs \cup {None},
           node' = [node EXCEPT ![n] = [Unborn EXCEPT !.where = "vNodes", !.nRefCount = 1, !.addr = a]]
    PROVE  /\ NodeTypes' /\ \A m \in Nodes \ {n} : Kept(m)
           /\ node'[n].where = "vNodes" /\ node'[n].nRefCount = 1 /\ ~node'[n].fNetworkNode
           /\ ~node'[n].fInbound /\ ~node'[n].grant
<1>1. PICK x : x = [Unborn EXCEPT !.where = "vNodes", !.nRefCount = 1, !.addr = a]
  OBVIOUS
<1>2. x \in CNodes
  BY <1>1, Made
<1>3. x.where = "vNodes" /\ x.nRefCount = 1 /\ ~x.fNetworkNode /\ ~x.fInbound /\ ~x.grant
  BY <1>1 DEF Unborn
<1>4. NodeTypes' /\ node'[n] = x /\ \A m \in Nodes \ {n} : Kept(m)
  BY <1>1, <1>2, OneWritten
<1> QED BY <1>3, <1>4

\* The members of a record after its grant is written.
LEMMA GrantFields ==
    ASSUME NEW r \in CNodes, NEW g \in BOOLEAN
    PROVE  LET y == [r EXCEPT !.grant = g]
           IN  /\ y.grant = g /\ y.where = r.where /\ y.nRefCount = r.nRefCount
               /\ y.fNetworkNode = r.fNetworkNode /\ y.fInbound = r.fInbound
BY DEF CNodes

\* MoveTo.
LEMMA GrantWritten ==
    ASSUME NodeTypes, NEW n \in Nodes, NEW g \in BOOLEAN, NEW x,
           x = [node[n] EXCEPT !.grant = g],
           node' = [node EXCEPT ![n] = x]
    PROVE  /\ NodeTypes' /\ \A m \in Nodes \ {n} : Kept(m)
           /\ node'[n].grant = g /\ node'[n].where = node[n].where /\ node'[n].nRefCount = node[n].nRefCount
           /\ node'[n].fNetworkNode = node[n].fNetworkNode /\ node'[n].fInbound = node[n].fInbound
<1>1. node[n] \in CNodes
  BY DEF NodeTypes
<1>2. x \in CNodes
  BY <1>1, Written
<1>3. /\ x.grant = g /\ x.where = node[n].where /\ x.nRefCount = node[n].nRefCount
      /\ x.fNetworkNode = node[n].fNetworkNode /\ x.fInbound = node[n].fInbound
  BY <1>1, GrantFields
<1>4. NodeTypes' /\ node'[n] = x /\ \A m \in Nodes \ {n} : Kept(m)
  BY <1>2, OneWritten
<1> QED BY <1>3, <1>4

\* The members of a record after fNetworkNode is written.
LEMMA CompletedFields ==
    ASSUME NEW r \in CNodes
    PROVE  LET y == [r EXCEPT !.fNetworkNode = TRUE]
           IN  /\ y.grant = r.grant
               /\ y.where = r.where
               /\ y.nRefCount = r.nRefCount
               /\ y.fInbound = r.fInbound
<1>1. [r EXCEPT !.fNetworkNode = TRUE].grant = r.grant
  BY DEF CNodes
<1>2. [r EXCEPT !.fNetworkNode = TRUE].where = r.where
  BY DEF CNodes
<1>3. [r EXCEPT !.fNetworkNode = TRUE].nRefCount = r.nRefCount
  BY DEF CNodes
<1>4. [r EXCEPT !.fNetworkNode = TRUE].fInbound = r.fInbound
  BY DEF CNodes
<1> QED BY <1>1, <1>2, <1>3, <1>4

\* fNetworkNode is set.
LEMMA Completed ==
    ASSUME NodeTypes, NEW n \in Nodes, NEW x,
           x = [node[n] EXCEPT !.fNetworkNode = TRUE],
           node' = [node EXCEPT ![n] = x]
    PROVE  /\ NodeTypes' /\ \A m \in Nodes \ {n} : Kept(m)
           /\ node'[n].grant = node[n].grant /\ node'[n].where = node[n].where
           /\ node'[n].nRefCount = node[n].nRefCount /\ node'[n].fInbound = node[n].fInbound
<1>1. node[n] \in CNodes
  BY DEF NodeTypes
<1>2. x \in CNodes
  BY <1>1, Written
<1>3. /\ x.grant = node[n].grant /\ x.where = node[n].where
      /\ x.nRefCount = node[n].nRefCount /\ x.fInbound = node[n].fInbound
  BY <1>1, CompletedFields
<1>4. NodeTypes' /\ node'[n] = x /\ \A m \in Nodes \ {n} : Kept(m)
  BY <1>2, OneWritten
<1> QED BY <1>3, <1>4

-----------------------------------------------------------------------------
(* What depends on the nodes, the copies and the openers only.              *)

Held == Makers /\ Used /\ References

\* Steps that change none of what Held reads.
LEMMA HeldSame ==
    ASSUME Types, Control, Held, opener' = opener,
           socket'.copy = socket.copy, message'.copy = message.copy,
           \A m \in Nodes : /\ node'[m].nRefCount = node[m].nRefCount
                            /\ node'[m].fNetworkNode = node[m].fNetworkNode
                            /\ node'[m].fInbound = node[m].fInbound,
           \A m \in Nodes : (Live(m)' <=> Live(m)) /\ (First(m)' <=> First(m))
    PROVE  Held'
<1>1. /\ socket.copy \subseteq Nodes /\ message.copy \subseteq Nodes
      /\ \A o \in Openers : opener[o].fresh => opener[o].pnode \in Nodes
  BY DEF Types, SocketTypes, MessageTypes, Control, Held, Makers
<1>2. Makers'
  BY <1>1 DEF Held, Makers
<1>3. Used'
  BY <1>1 DEF Held, Used
<1>4. ASSUME NEW n \in Nodes, Live(n)'
      PROVE  Counts(n)'
  <2>1. Counts(n)
    BY <1>4 DEF Held, References
  <2>2. Copies(n)' = Copies(n) /\ One(First(n))' = One(First(n))
    BY DEF Copies, One
  <2>3. One(First(n) /\ node[n].fNetworkNode)' = One(First(n) /\ node[n].fNetworkNode)
    BY DEF One
  <2> QED BY <2>1, <2>2, <2>3 DEF Counts
<1> QED BY <1>2, <1>3, <1>4 DEF Held, References

\* Copies are integers.
LEMMA CopiesInt == ASSUME NEW n PROVE Copies(n) \in Int /\ Copies(n)' \in Int
BY SMTT(20) DEF Copies, One

\* Steps that take a reference for each copy they make and drop one for each they drop.
LEMMA CountsMove ==
    ASSUME NEW n \in Nodes, NodeTypes, NodeTypes', Counts(n), opener' = opener,
           node'[n].nRefCount - Copies(n)' >= node[n].nRefCount - Copies(n),
           First(n)' => First(n), node'[n].fNetworkNode = node[n].fNetworkNode
    PROVE  Counts(n)'
<1>1. node[n].nRefCount \in Int /\ node'[n].nRefCount \in Int
  BY DEF NodeTypes, CNodes
<1>2. /\ One(First(n))' \in Int /\ One(First(n)) \in Int /\ One(First(n))' <= One(First(n))
      /\ One(First(n) /\ node[n].fNetworkNode)' \in Int /\ One(First(n) /\ node[n].fNetworkNode) \in Int
      /\ One(First(n) /\ node[n].fNetworkNode)' <= One(First(n) /\ node[n].fNetworkNode)
  BY SMTT(20) DEF One
<1>3. ASSUME NEW k \in Int, NEW l \in Int, l <= k, node[n].nRefCount >= Copies(n) + k
      PROVE  node'[n].nRefCount >= Copies(n)' + l
  BY SMTT(20), <1>1, <1>3, CopiesInt
<1>4. ASSUME NEW k \in Int, NEW l \in Int, l <= k, node[n].nRefCount >= Copies(n) + k + 1
      PROVE  node'[n].nRefCount >= Copies(n)' + l + 1
  BY SMTT(20), <1>1, <1>4, CopiesInt
<1> QED BY <1>2, <1>3, <1>4 DEF Counts

\* A node a step leaves alone.
LEMMA CountsSame ==
    ASSUME NEW n \in Nodes, NodeTypes, NodeTypes', Kept(n), Counts(n), opener' = opener,
           Copies(n)' = Copies(n), First(n)' => First(n)
    PROVE  Counts(n)'
<1>1. node[n].nRefCount \in Int /\ node'[n].nRefCount = node[n].nRefCount
  BY DEF NodeTypes, CNodes, Kept
<1>2. node'[n].nRefCount - Copies(n)' >= node[n].nRefCount - Copies(n)
  BY SMTT(20), <1>1, CopiesInt
<1> QED BY <1>2, CountsMove DEF Kept
\* References taken for a copy of S, and dropped with it: what else Held reads stays.
LEMMA HeldCopied ==
    ASSUME IInv, NodeTypes', NEW S, NEW d \in {1, -1},
           \A m \in Nodes : /\ node'[m].nRefCount = node[m].nRefCount + (IF m \in S THEN d ELSE 0)
                            /\ node'[m].where = node[m].where
                            /\ node'[m].fNetworkNode = node[m].fNetworkNode
                            /\ node'[m].fInbound = node[m].fInbound,
           \A m \in Nodes : Copies(m)' = Copies(m) + (IF m \in S THEN d ELSE 0),
           \A m \in Nodes : First(m)' => First(m),
           \A m \in socket'.copy \cup message'.copy : m \in Nodes /\ Live(m),
           opener' = opener
    PROVE  Held'
<1> USE DEF IInv
<1>1. \A m \in Nodes : Live(m)' <=> Live(m)
  BY DEF Live
<1>2. \A o \in Openers : opener[o].fresh => opener[o].pnode \in Nodes
  BY DEF Control, Makers
<1>3. Makers'
  BY <1>2 DEF Makers
<1>4. Used'
  BY <1>1, <1>2 DEF Used
<1>5. ASSUME NEW m \in Nodes, Live(m)'
      PROVE  Counts(m)'
  <2>1. Counts(m)
    BY <1>1, <1>5 DEF References
  <2>2. node'[m].nRefCount - Copies(m)' >= node[m].nRefCount - Copies(m)
    <3>1. node[m].nRefCount \in Int
      BY DEF Types, NodeTypes, CNodes
    <3>2. /\ node'[m].nRefCount = node[m].nRefCount + (IF m \in S THEN d ELSE 0)
          /\ Copies(m)' = Copies(m) + (IF m \in S THEN d ELSE 0)
      OBVIOUS
    <3>3. (IF m \in S THEN d ELSE 0) \in Int
      BY SMTT(20)
    <3>4. ASSUME NEW a \in Int, NEW b \in Int, NEW c \in Int
          PROVE  (a + c) - (b + c) >= a - b
      BY SMTT(20)
    <3> QED BY <3>1, <3>2, <3>3, <3>4, CopiesInt
  <2> QED BY <2>1, <2>2, CountsMove DEF Types
<1> QED BY <1>3, <1>4, <1>5 DEF Held, References

\* fDisconnect is not read by the invariant.
LEMMA MarkedStep ==
    ASSUME IInv, NEW n \in Nodes, node' = [node EXCEPT ![n].fDisconnect = TRUE],
           UNCHANGED <<socket, opener>>, message'.copy = message.copy, MessageTypes',
           message'.pc = "copy" => message.pc = "copy"
    PROVE  Types' /\ Control' /\ Held'
<1> USE DEF IInv
<1>1. NodeTypes' /\ \A m \in Nodes : Kept(m)
  BY Marked DEF Types
<1>2. Types'
  BY <1>1 DEF Types, SocketTypes, OpenerTypes
<1>3. Control'
  <2>1. vNodes' = vNodes /\ vNodesDisconnected' = vNodesDisconnected
    BY <1>1 DEF vNodes, vNodesDisconnected, Kept
  <2>2. \A m \in Nodes : node[m].where # "unborn" => node'[m].where # "unborn"
    BY <1>1 DEF Kept
  <2> QED BY <2>1, <2>2 DEF Control
<1>4. Held'
  <2>1. \A m \in Nodes : (Live(m)' <=> Live(m)) /\ (First(m)' <=> First(m))
    BY <1>1 DEF Live, First, Kept
  <2> QED BY <1>1, <2>1, HeldSame DEF Held, Kept
<1> QED BY <1>2, <1>3, <1>4

-----------------------------------------------------------------------------
(* ThreadSocketHandler2.                                                    *)

\* BeginPass and Keep change the handler's list only.
LEMMA PassStep ==
    ASSUME IInv, BeginPass \/ Keep
    PROVE  IInv'
<1> USE DEF IInv
<1>1. UNCHANGED <<node, pnodeSync, message, opener>>
  BY DEF BeginPass, Keep
<1>2. /\ SocketTypes' /\ socket'.todo \subseteq vNodes /\ socket'.copy = {} /\ socket.copy = {}
      /\ socket.pc # "release" /\ socket'.pc # "release"
  <2>1. vNodes \subseteq Nodes
    BY DEF vNodes
  <2>2. CASE BeginPass
    BY <2>1, <2>2 DEF BeginPass, Types, SocketTypes, Control
  <2>3. CASE Keep
    BY SMTT(20), <2>1, <2>3 DEF Keep, Types, SocketTypes, Control
  <2> QED BY <2>2, <2>3
<1>3. Types' /\ Control'
  BY <1>1, <1>2 DEF Types, NodeTypes, MessageTypes, OpenerTypes, Control, vNodes, vNodesDisconnected
<1>4. Sync'
  BY <1>1 DEF Sync
<1>5. Held'
  BY <1>1, <1>2, HeldSame DEF Held, Live, First
<1> QED BY <1>3, <1>4, <1>5 DEF Held

\* A node leaves vNodes: the reference it was made with may still be dropped.
LEMMA TakeOutStep ==
    ASSUME IInv, TakeOut
    PROVE  IInv'
<1> USE DEF IInv
<1>1. socket.pc = "pass" /\ UNCHANGED <<message, opener>>
  BY DEF TakeOut
<1>2. PICK n, x :
        /\ n \in socket.todo
        /\ x = [node[n] EXCEPT !.where = "disconnected", !.fDisconnect = TRUE, !.grant = FALSE]
        /\ node' = [node EXCEPT ![n] = x]
        /\ pnodeSync' = IF pnodeSync = n THEN None ELSE pnodeSync
        /\ socket' = [socket EXCEPT !.pc = "release", !.todo = @ \ {n}, !.pnode = n]
  BY DEF TakeOut
<1>3. n \in Nodes /\ node[n].where = "vNodes"
  BY <1>2 DEF Control, vNodes
<1>4. /\ NodeTypes' /\ \A m \in Nodes \ {n} : Kept(m)
      /\ node'[n].where = "disconnected" /\ node'[n].nRefCount = node[n].nRefCount
      /\ node'[n].fNetworkNode = node[n].fNetworkNode /\ node'[n].fInbound = node[n].fInbound
  BY <1>2, <1>3, TakenOut DEF Types
<1>5. /\ SocketTypes' /\ socket'.pc = "release" /\ socket'.pnode = n /\ socket'.todo = socket.todo \ {n}
      /\ socket.copy = {} /\ socket'.copy = {}
  <2>1. /\ socket'.pc = "release" /\ socket'.pnode = n /\ socket'.todo = socket.todo \ {n}
        /\ socket.copy = {} /\ socket'.copy = socket.copy
    BY <1>1, <1>2 DEF Types, SocketTypes, Control
  <2>2. SocketTypes'
    BY <1>2, <1>3 DEF Types, SocketTypes
  <2> QED BY <2>1, <2>2
<1>6. Types'
  BY <1>1, <1>2, <1>4, <1>5 DEF Types, MessageTypes, OpenerTypes
<1>7. Control'
  <2>1. socket'.todo \subseteq vNodes'
    BY SMTT(20), <1>4, <1>5 DEF Control, vNodes, Kept
  <2>2. \A m \in Nodes : node[m].where # "unborn" => node'[m].where # "unborn"
    BY <1>4 DEF Kept
  <2> QED BY <1>1, <1>3, <1>4, <1>5, <2>1, <2>2 DEF Control, vNodesDisconnected
<1>8. Sync'
  BY <1>1, <1>2 DEF Sync
<1>9. Held'
  <2>1. \A m \in Nodes : First(m)' <=> First(m)
    BY <1>1, <1>3, <1>4, <1>5 DEF First, Kept
  <2>2. \A m \in Nodes : Live(m)' <=> Live(m)
    BY <1>3, <1>4 DEF Live, Kept
  <2>3. \A m \in Nodes : /\ node'[m].nRefCount = node[m].nRefCount
                         /\ node'[m].fNetworkNode = node[m].fNetworkNode /\ node'[m].fInbound = node[m].fInbound
    BY <1>4 DEF Kept
  <2> QED BY <1>1, <1>5, <2>1, <2>2, <2>3, HeldSame DEF Held
<1> QED BY <1>6, <1>7, <1>8, <1>9 DEF Held

\* The first reference is dropped if the node is complete: its maker is done with it,
\* or the thread that completed it has left a reference behind.
LEMMA DropFirstRefStep ==
    ASSUME IInv, DropFirstRef
    PROVE  IInv'
<1> USE DEF IInv
<1> DEFINE n == socket.pnode
           S == {k \in {n} : node[k].fNetworkNode \/ node[k].fInbound}
<1>1. /\ socket.pc = "release" /\ UNCHANGED <<pnodeSync, message, opener>>
      /\ node' = [k \in Nodes |-> IF k \in S THEN [node[k] EXCEPT !.nRefCount = @ - 1] ELSE node[k]]
      /\ socket' = [socket EXCEPT !.pc = "pass", !.pnode = None]
  BY DEF DropFirstRef, Releases
<1>2. n \in Nodes /\ node[n].where = "disconnected"
  BY <1>1 DEF Control, vNodesDisconnected
<1>3. /\ NodeTypes'
      /\ \A m \in Nodes : /\ node'[m].nRefCount = node[m].nRefCount - (IF m \in S THEN 1 ELSE 0)
                          /\ node'[m].where = node[m].where
                          /\ node'[m].fNetworkNode = node[m].fNetworkNode
                          /\ node'[m].fInbound = node[m].fInbound /\ node'[m].grant = node[m].grant
  BY <1>1, Dropped DEF Types
<1>4. /\ SocketTypes' /\ socket'.pc = "pass" /\ socket'.todo = socket.todo
      /\ socket.copy = {} /\ socket'.copy = {}
  <2>1. socket'.pc = "pass" /\ socket'.todo = socket.todo /\ socket.copy = {} /\ socket'.copy = socket.copy
    BY <1>1 DEF Types, SocketTypes, Control
  <2>2. SocketTypes'
    BY <1>1 DEF Types, SocketTypes
  <2> QED BY <2>1, <2>2
<1>5. Types'
  BY <1>1, <1>3, <1>4 DEF Types, MessageTypes, OpenerTypes
<1>6. Control'
  <2>1. socket'.todo \subseteq vNodes'
    BY <1>3, <1>4 DEF Control, vNodes
  <2> QED BY SMTT(20), <1>1, <1>3, <1>4, <2>1 DEF Control, vNodesDisconnected
<1>7. Sync'
  BY <1>1 DEF Sync
<1> HIDE DEF S, n
<1>8. \A m \in Nodes : Live(m)' <=> Live(m)
  BY <1>3 DEF Live
<1>9. /\ socket.copy \subseteq Nodes /\ message.copy \subseteq Nodes
      /\ \A o \in Openers : opener[o].fresh => opener[o].pnode \in Nodes
  BY DEF Types, SocketTypes, MessageTypes, Control, Makers
<1>10. Makers'
  BY <1>1, <1>3, <1>9 DEF Makers
<1>11. Used'
  BY <1>1, <1>4, <1>8, <1>9 DEF Used
<1>12. ASSUME NEW m \in Nodes, Live(m)'
       PROVE  Counts(m)'
  <2>1. Counts(m) /\ Copies(m)' = Copies(m)
    BY <1>1, <1>4, <1>8, <1>12 DEF References, Copies
  <2>2. CASE m # n
    <3>1. node'[m].nRefCount = node[m].nRefCount /\ (First(m)' <=> First(m))
      <4>1. m \notin S
        BY <2>2 DEF S
      <4>2. node[m].nRefCount \in Int
        BY DEF Types, NodeTypes, CNodes
      <4>3. node'[m].nRefCount = node[m].nRefCount
        BY SMTT(20), <1>3, <4>1, <4>2
      <4> QED BY <1>1, <1>3, <1>4, <2>2, <4>3 DEF First, n
    <3>2. node'[m].nRefCount - Copies(m)' >= node[m].nRefCount - Copies(m)
      <4>1. node[m].nRefCount \in Int
        BY DEF Types, NodeTypes, CNodes
      <4> QED BY SMTT(20), <2>1, <3>1, <4>1, CopiesInt
    <3> QED BY <1>1, <1>3, <2>1, <3>1, <3>2, CountsMove DEF Types
  <2>3. CASE m = n
    <3>1. First(m) /\ ~First(m)'
      BY SMTT(20), <1>1, <1>2, <1>3, <1>4, <2>3 DEF First, n
    <3>2. One(First(m)) = 1 /\ One(First(m))' = 0 /\ One(First(m) /\ node[m].fNetworkNode)' = 0
      BY <3>1 DEF One
    <3>3. node[m].fNetworkNode => One(First(m) /\ node[m].fNetworkNode) = 1
      BY <3>1 DEF One
    <3>4. One(First(m) /\ node[m].fNetworkNode) \in {0, 1}
      BY DEF One
    <3>5. node[m].nRefCount \in Int /\ Copies(m) \in Int
      BY CopiesInt DEF Types, NodeTypes, CNodes
    <3>6. ASSUME NEW o \in Openers, opener[o].pnode = m, opener[o].fresh
          PROVE  node'[m].nRefCount >= Copies(m) + 0 + 1
      <4>1. node[m].nRefCount >= Copies(m) + One(First(m) /\ node[m].fNetworkNode) + 1
        BY <2>1, <3>6 DEF Counts
      <4>2. ~node[m].fInbound
        BY <3>6 DEF Makers
      <4>3. CASE node[m].fNetworkNode
        BY SMTT(20), <1>3, <3>3, <3>5, <4>1, <4>3
      <4>4. CASE ~node[m].fNetworkNode
        <5>1. m \notin S
          BY <2>3, <4>2, <4>4 DEF S
        <5> QED BY SMTT(20), <1>3, <3>4, <3>5, <4>1, <5>1
      <4> QED BY <4>3, <4>4
    <3>7. node'[m].nRefCount >= Copies(m) + 0
      <4>1. node[m].nRefCount >= Copies(m) + 1
        BY <2>1, <3>2 DEF Counts
      <4> QED BY SMTT(20), <1>3, <3>5, <4>1
    <3>8. ASSUME NEW o \in Openers, opener[o].pnode = m, opener[o].pc \in {"move", "mark"}, ~opener[o].fresh
          PROVE  node'[m].nRefCount >= Copies(m) + 0 + 1
      <4>1. node[m].nRefCount >= Copies(m) + 1 + 1
        BY <2>1, <3>2, <3>8 DEF Counts
      <4> QED BY SMTT(20), <1>3, <3>5, <4>1
    <3> QED BY <1>1, <2>1, <3>2, <3>6, <3>7, <3>8 DEF Counts
  <2> QED BY <2>2, <2>3
<1> QED BY <1>5, <1>6, <1>7, <1>10, <1>11, <1>12 DEF References

\* What is deleted has no reference left, so that nobody uses it.
LEMMA DeleteStep ==
    ASSUME IInv, DeleteUnreferenced
    PROVE  IInv'
<1> USE DEF IInv
<1>1. PICK gone :
        /\ gone = {n \in vNodesDisconnected : node[n].nRefCount <= 0}
        /\ node' = [n \in Nodes |-> IF n \in gone THEN [node[n] EXCEPT !.where = "deleted", !.grant = FALSE]
                                    ELSE node[n]]
  BY DEF DeleteUnreferenced
<1>2. /\ socket.pc = "pass" /\ socket.todo = {} /\ socket' = [socket EXCEPT !.pc = "accept"]
      /\ UNCHANGED <<pnodeSync, message, opener>>
  BY DEF DeleteUnreferenced
<1>3. /\ NodeTypes' /\ \A m \in Nodes \ gone : Kept(m)
      /\ \A m \in Nodes \cap gone : node'[m].where = "deleted" /\ node'[m].fInbound = node[m].fInbound
  BY <1>1, Deleted DEF Types
<1>4. \A m \in gone : m \in Nodes /\ node[m].where = "disconnected" /\ node[m].nRefCount <= 0
  BY <1>1 DEF vNodesDisconnected
<1>5. /\ SocketTypes' /\ socket'.pc = "accept" /\ socket'.todo = {}
      /\ socket.copy = {} /\ socket'.copy = {}
  <2>1. socket'.pc = "accept" /\ socket'.todo = {} /\ socket.copy = {} /\ socket'.copy = socket.copy
    BY <1>2 DEF Types, SocketTypes, Control
  <2>2. SocketTypes'
    BY <1>2 DEF Types, SocketTypes
  <2> QED BY <2>1, <2>2
<1>6. Types'
  BY <1>2, <1>3, <1>5 DEF Types, MessageTypes, OpenerTypes
<1>7. Control'
  <2>1. \A m \in Nodes : node[m].where # "unborn" => node'[m].where # "unborn"
    BY <1>3 DEF Kept
  <2> QED BY <1>2, <1>3, <1>5, <2>1 DEF Control
<1>8. Sync'
  BY <1>2 DEF Sync
<1>9. /\ socket.copy \subseteq Nodes /\ message.copy \subseteq Nodes
      /\ \A o \in Openers : opener[o].fresh => opener[o].pnode \in Nodes
  BY DEF Types, SocketTypes, MessageTypes, Control, Makers
<1>10. \A m \in message.copy : m \notin gone
  <2> SUFFICES ASSUME NEW m \in message.copy, m \in gone PROVE FALSE
    OBVIOUS
  <2>1. Counts(m)
    BY <1>4 DEF References, Live
  <2>2. One(m \in message.copy) = 1 /\ One(m \in socket.copy) = 0 /\ One(First(m)) \in {0, 1}
    BY <1>5 DEF One
  <2>3. node[m].nRefCount >= One(m \in socket.copy) + One(m \in message.copy) + One(First(m))
    BY <2>1 DEF Counts, Copies
  <2>4. node[m].nRefCount \in Int /\ node[m].nRefCount <= 0
    BY <1>4 DEF Types, NodeTypes, CNodes
  <2> QED BY SMTT(20), <2>2, <2>3, <2>4
<1>11. \A o \in Openers : opener[o].fresh => opener[o].pnode \notin gone
  <2> SUFFICES ASSUME NEW o \in Openers, opener[o].fresh, opener[o].pnode \in gone PROVE FALSE
    OBVIOUS
  <2> DEFINE m == opener[o].pnode
  <2>1. Counts(m)
    BY <1>4 DEF References, Live
  <2>2. One(m \in message.copy) \in {0, 1} /\ One(m \in socket.copy) \in {0, 1}
        /\ One(First(m) /\ node[m].fNetworkNode) \in {0, 1}
    BY DEF One
  <2>3. node[m].nRefCount >= One(m \in socket.copy) + One(m \in message.copy)
                             + One(First(m) /\ node[m].fNetworkNode) + 1
    BY <2>1 DEF Counts, Copies
  <2>4. node[m].nRefCount \in Int /\ node[m].nRefCount <= 0
    BY <1>4 DEF Types, NodeTypes, CNodes
  <2> HIDE DEF m
  <2> QED BY SMTT(20), <2>2, <2>3, <2>4
<1>12. \A m \in Nodes : Live(m)' => m \notin gone
  BY <1>3 DEF Live
<1>13. Makers'
  BY <1>2, <1>3, <1>9, <1>11 DEF Makers, Kept
<1>14. Used'
  BY <1>2, <1>3, <1>5, <1>9, <1>10, <1>11 DEF Used, Live, Kept
<1>15. ASSUME NEW m \in Nodes, Live(m)'
       PROVE  Counts(m)'
  <2>1. Kept(m)
    BY <1>3, <1>12, <1>15
  <2>2. Counts(m) /\ Copies(m)' = Copies(m) /\ (First(m)' <=> First(m))
    BY <1>2, <1>5, <1>15, <2>1 DEF References, Copies, Live, First, Kept
  <2> QED BY <1>2, <1>3, <2>1, <2>2, CountsSame DEF Types
<1> QED BY <1>6, <1>7, <1>8, <1>13, <1>14, <1>15 DEF References

\* A connection comes in: nobody uses the new node yet.
LEMMA AcceptStep ==
    ASSUME IInv, Accept
    PROVE  IInv'
<1> USE DEF IInv
<1>1. /\ socket.pc = "accept" /\ socket' = [socket EXCEPT !.pc = "copy"]
      /\ UNCHANGED <<pnodeSync, message, opener>>
  BY DEF Accept
<1>2. /\ SocketTypes' /\ socket'.pc = "copy" /\ socket'.todo = socket.todo
      /\ socket.copy = {} /\ socket'.copy = {}
  <2>1. socket'.pc = "copy" /\ socket'.todo = socket.todo /\ socket.copy = {} /\ socket'.copy = socket.copy
    BY <1>1 DEF Types, SocketTypes, Control
  <2>2. SocketTypes'
    BY <1>1 DEF Types, SocketTypes
  <2> QED BY <2>1, <2>2
<1>3. Sync'
  BY <1>1 DEF Sync
<1>4. CASE UNCHANGED node
  <2>1. Types' /\ Control'
    BY <1>1, <1>2, <1>4 DEF Types, NodeTypes, MessageTypes, OpenerTypes, Control, vNodes
  <2>2. Held'
    BY <1>1, <1>2, <1>4, HeldSame DEF Held, Live, First
  <2> QED BY <1>3, <2>1, <2>2 DEF Held
<1>5. ASSUME NEW n \in Nodes, NEW a \in Addrs, node[n] = Unborn,
             node' = [node EXCEPT ![n] = [Unborn EXCEPT !.where = "vNodes", !.addr = a,
                                                        !.nRefCount = 1, !.fInbound = TRUE]]
      PROVE  IInv'
  <2>1. /\ NodeTypes' /\ \A m \in Nodes \ {n} : Kept(m)
        /\ node'[n].where = "vNodes" /\ node'[n].nRefCount = 1
    BY <1>5, BornInbound DEF Types
  <2>2. node[n].where = "unborn"
    BY SMTT(20), <1>5 DEF Unborn
  <2>3. Types'
    BY <1>1, <1>2, <2>1 DEF Types, MessageTypes, OpenerTypes
  <2>4. /\ n \notin message.copy
        /\ \A o \in Openers : opener[o].pc \in {"move", "mark"} => opener[o].pnode # n
        /\ \A o \in Openers : opener[o].fresh => opener[o].pc \in {"move", "mark"}
    BY <2>2 DEF Used, Live, Control, Makers
  <2>5. message.copy \subseteq Nodes /\ \A o \in Openers : opener[o].fresh => opener[o].pnode \in Nodes
    BY DEF Types, MessageTypes, Control, Makers
  <2>6. Control'
    <3>1. socket'.todo \subseteq vNodes'
      BY SMTT(20), <1>2, <2>1 DEF Control, vNodes, Kept
    <3>2. \A m \in Nodes : node[m].where # "unborn" => node'[m].where # "unborn"
      BY <2>1 DEF Kept
    <3> QED BY <1>1, <1>2, <3>1, <3>2 DEF Control
  <2>7. Makers'
    BY <1>1, <2>1, <2>4, <2>5 DEF Makers, Kept
  <2>8. Used'
    BY <1>1, <1>2, <2>1, <2>4, <2>5 DEF Used, Live, Kept
  <2>9. ASSUME NEW m \in Nodes, Live(m)'
        PROVE  Counts(m)'
    <3>1. CASE m # n
      <4>1. Kept(m)
        BY <2>1, <3>1
      <4>2. Counts(m) /\ Copies(m)' = Copies(m) /\ (First(m)' <=> First(m))
        BY <1>1, <1>2, <2>9, <4>1 DEF References, Copies, Live, First, Kept
      <4> QED BY <1>1, <2>1, <4>1, <4>2, CountsSame DEF Types
    <3>2. CASE m = n
      <4>1. One(First(m))' = 1 /\ One(m \in socket.copy)' = 0 /\ One(m \in message.copy)' = 0
        BY <1>1, <1>2, <2>1, <2>4, <3>2 DEF One, First
      <4>2. node'[m].nRefCount >= Copies(m)' + One(First(m))'
        BY SMTT(20), <2>1, <3>2, <4>1 DEF Copies
      <4> QED BY <1>1, <2>4, <3>2, <4>2 DEF Counts
    <3> QED BY <3>1, <3>2
  <2> QED BY <1>3, <2>3, <2>6, <2>7, <2>8, <2>9 DEF References
<1> QED BY <1>4, <1>5 DEF Accept

\* The socket handler copies vNodes, with a reference for each node.
LEMMA SocketCopyStep ==
    ASSUME IInv, SocketCopy
    PROVE  IInv'
<1> USE DEF IInv
<1>1. /\ socket.pc = "copy" /\ socket' = [socket EXCEPT !.pc = "service", !.copy = vNodes]
      /\ UNCHANGED <<pnodeSync, message, opener>>
      /\ node' = [n \in Nodes |-> IF n \in vNodes THEN [node[n] EXCEPT !.nRefCount = @ + 1] ELSE node[n]]
  BY DEF SocketCopy, AddRefs
<1>2. /\ NodeTypes'
      /\ \A m \in Nodes : /\ node'[m].nRefCount = node[m].nRefCount + (IF m \in vNodes THEN 1 ELSE 0)
                          /\ node'[m].where = node[m].where
                          /\ node'[m].fNetworkNode = node[m].fNetworkNode
                          /\ node'[m].fInbound = node[m].fInbound
  BY <1>1, Added DEF Types
<1>3. vNodes \subseteq Nodes /\ vNodes' = vNodes /\ vNodesDisconnected' = vNodesDisconnected
  BY <1>2 DEF vNodes, vNodesDisconnected
<1>4. /\ SocketTypes' /\ socket'.pc = "service" /\ socket'.todo = socket.todo
      /\ socket.copy = {} /\ socket'.copy = vNodes
  <2>1. socket'.pc = "service" /\ socket'.todo = socket.todo /\ socket.copy = {} /\ socket'.copy = vNodes
    BY <1>1 DEF Types, SocketTypes, Control
  <2>2. SocketTypes'
    BY <1>1, <1>3 DEF Types, SocketTypes
  <2> QED BY <2>1, <2>2
<1>5. Types'
  BY <1>1, <1>2, <1>4 DEF Types, MessageTypes, OpenerTypes
<1>6. Control'
  <2>1. \A o \in Openers : opener'[o].pc \in {"found", "move", "mark"} =>
            opener'[o].pnode \in Nodes /\ node'[opener'[o].pnode].where # "unborn"
    BY SMTT(20), <1>1, <1>2 DEF Control
  <2> QED BY <1>1, <1>3, <1>4, <2>1 DEF Control
<1>7. Sync'
  BY <1>1 DEF Sync
<1>8. Held'
  <2>1. ASSUME NEW m \in Nodes
        PROVE  Copies(m)' = Copies(m) + (IF m \in vNodes THEN 1 ELSE 0)
    <3>1. One(m \in socket.copy) = 0 /\ One(m \in socket.copy)' = (IF m \in vNodes THEN 1 ELSE 0)
          /\ One(m \in message.copy)' = One(m \in message.copy)
      BY <1>1, <1>4 DEF One
    <3>2. One(m \in message.copy) \in Int /\ (IF m \in vNodes THEN 1 ELSE 0) \in Int
      BY SMTT(20) DEF One
    <3> QED BY SMTT(20), <3>1, <3>2 DEF Copies
  <2>2. \A m \in Nodes : First(m)' => First(m)
    BY <1>1, <1>2, <1>4 DEF First
  <2>3. \A m \in socket'.copy \cup message'.copy : m \in Nodes /\ Live(m)
    BY <1>1, <1>4 DEF Types, MessageTypes, Used, Live, vNodes
  <2> QED BY <1>1, <1>2, <2>1, <2>2, <2>3, HeldCopied
<1> QED BY <1>5, <1>6, <1>7, <1>8 DEF Held

\* A node is marked while it is serviced.
LEMMA ServiceStep ==
    ASSUME IInv, Service
    PROVE  IInv'
<1> USE DEF IInv
<1>1. UNCHANGED <<socket, message, opener>>
  BY DEF Service
<1>2. PICK n \in socket.copy : Fails(n)
  BY DEF Service
<1>3. /\ n \in Nodes /\ node' = [node EXCEPT ![n].fDisconnect = TRUE]
      /\ pnodeSync' \in {pnodeSync, None}
  BY <1>2 DEF Fails, CloseSocketDisconnect, Types, SocketTypes
<1>4. MessageTypes' /\ Sync'
  BY <1>1, <1>3 DEF Types, MessageTypes, Sync
<1>5. Types' /\ Control' /\ Held'
  BY <1>1, <1>3, <1>4, MarkedStep
<1> QED BY <1>4, <1>5 DEF Held

\* The socket handler drops its copy, and the references.
LEMMA SocketReleaseStep ==
    ASSUME IInv, SocketRelease
    PROVE  IInv'
<1> USE DEF IInv
<1>1. /\ socket.pc = "service" /\ socket' = [socket EXCEPT !.pc = "top", !.copy = {}]
      /\ UNCHANGED <<pnodeSync, message, opener>>
      /\ node' = [n \in Nodes |-> IF n \in socket.copy THEN [node[n] EXCEPT !.nRefCount = @ - 1] ELSE node[n]]
  BY DEF SocketRelease, Releases
<1>2. /\ NodeTypes'
      /\ \A m \in Nodes : /\ node'[m].nRefCount = node[m].nRefCount - (IF m \in socket.copy THEN 1 ELSE 0)
                          /\ node'[m].where = node[m].where
                          /\ node'[m].fNetworkNode = node[m].fNetworkNode
                          /\ node'[m].fInbound = node[m].fInbound
  BY <1>1, Dropped DEF Types
<1>3. vNodes' = vNodes /\ vNodesDisconnected' = vNodesDisconnected
  BY <1>2 DEF vNodes, vNodesDisconnected
<1>4. SocketTypes' /\ socket'.pc = "top" /\ socket'.todo = socket.todo /\ socket'.copy = {}
  <2>1. socket'.pc = "top" /\ socket'.todo = socket.todo /\ socket'.copy = {}
    BY <1>1 DEF Types, SocketTypes
  <2>2. SocketTypes'
    BY <1>1 DEF Types, SocketTypes
  <2> QED BY <2>1, <2>2
<1>5. Types'
  BY <1>1, <1>2, <1>4 DEF Types, MessageTypes, OpenerTypes
<1>6. Control'
  <2>1. \A o \in Openers : opener'[o].pc \in {"found", "move", "mark"} =>
            opener'[o].pnode \in Nodes /\ node'[opener'[o].pnode].where # "unborn"
    BY SMTT(20), <1>1, <1>2 DEF Control
  <2> QED BY <1>1, <1>3, <1>4, <2>1 DEF Control
<1>7. Sync'
  BY <1>1 DEF Sync
<1>8. Held'
  <2>1. ASSUME NEW m \in Nodes
        PROVE  /\ Copies(m)' = Copies(m) + (IF m \in socket.copy THEN -1 ELSE 0)
               /\ node'[m].nRefCount = node[m].nRefCount + (IF m \in socket.copy THEN -1 ELSE 0)
    <3>1. One(m \in socket.copy) = (IF m \in socket.copy THEN 1 ELSE 0) /\ One(m \in socket.copy)' = 0
          /\ One(m \in message.copy)' = One(m \in message.copy)
      BY <1>1, <1>4 DEF One
    <3>2. One(m \in message.copy) \in Int /\ node[m].nRefCount \in Int
      BY SMTT(20) DEF One, Types, NodeTypes, CNodes
    <3>3. node'[m].nRefCount = node[m].nRefCount - (IF m \in socket.copy THEN 1 ELSE 0)
      BY <1>2
    <3> QED BY SMTT(20), <3>1, <3>2, <3>3 DEF Copies
  <2>2. \A m \in Nodes : First(m)' => First(m)
    BY <1>1, <1>2, <1>4 DEF First
  <2>3. \A m \in socket'.copy \cup message'.copy : m \in Nodes /\ Live(m)
    BY <1>1, <1>4 DEF Types, MessageTypes, Used
  <2>4. -1 \in {1, -1}
    OBVIOUS
  <2> QED BY <1>1, <1>2, <2>1, <2>2, <2>3, <2>4, HeldCopied
<1> QED BY <1>5, <1>6, <1>7, <1>8 DEF Held

-----------------------------------------------------------------------------
(* ThreadMessageHandler2.                                                   *)

\* The message handler copies vNodes, with a reference for each node.
LEMMA MessageCopyStep ==
    ASSUME IInv, MessageCopy
    PROVE  IInv'
<1> USE DEF IInv
<1>1. /\ message.pc = "copy" /\ UNCHANGED <<pnodeSync, socket, opener>>
      /\ message' = [message EXCEPT !.pc = "sync", !.copy = vNodes, !.fHaveSyncNode = pnodeSync \in vNodes]
      /\ node' = [n \in Nodes |-> IF n \in vNodes THEN [node[n] EXCEPT !.nRefCount = @ + 1] ELSE node[n]]
  BY DEF MessageCopy, AddRefs
<1>2. /\ NodeTypes'
      /\ \A m \in Nodes : /\ node'[m].nRefCount = node[m].nRefCount + (IF m \in vNodes THEN 1 ELSE 0)
                          /\ node'[m].where = node[m].where
                          /\ node'[m].fNetworkNode = node[m].fNetworkNode
                          /\ node'[m].fInbound = node[m].fInbound
  BY <1>1, Added DEF Types
<1>3. vNodes \subseteq Nodes /\ vNodes' = vNodes /\ vNodesDisconnected' = vNodesDisconnected
  BY <1>2 DEF vNodes, vNodesDisconnected
<1>4. /\ MessageTypes' /\ message'.pc = "sync" /\ message.copy = {} /\ message'.copy = vNodes
      /\ message'.fHaveSyncNode => pnodeSync \in vNodes
  <2>1. message.copy = {}
    BY <1>1 DEF Control
  <2>2. (pnodeSync \in vNodes) = TRUE \/ ((pnodeSync \in vNodes) = FALSE /\ pnodeSync \notin vNodes)
    OBVIOUS
  <2>3. PICK v \in BOOLEAN : message' = [message EXCEPT !.pc = "sync", !.copy = vNodes, !.fHaveSyncNode = v]
                             /\ (v => pnodeSync \in vNodes)
    <3>1. CASE (pnodeSync \in vNodes) = TRUE
      <4>1. message' = [message EXCEPT !.pc = "sync", !.copy = vNodes, !.fHaveSyncNode = TRUE]
        BY <1>1, <3>1
      <4> QED BY <3>1, <4>1
    <3>2. CASE (pnodeSync \in vNodes) = FALSE
      <4>1. message' = [message EXCEPT !.pc = "sync", !.copy = vNodes, !.fHaveSyncNode = FALSE]
        BY <1>1, <3>2
      <4> QED BY <4>1
    <3> QED BY <2>2, <3>1, <3>2
  <2>4. message'.pc = "sync" /\ message'.copy = vNodes
    BY <2>3 DEF Types, MessageTypes
  <2>5. message'.fHaveSyncNode = v
    BY <2>3 DEF Types, MessageTypes
  <2>6. MessageTypes'
    BY <1>1, <1>3, <2>3 DEF Types, MessageTypes
  <2> QED BY <2>1, <2>3, <2>4, <2>5, <2>6
<1>5. Types'
  BY <1>1, <1>2, <1>4 DEF Types, SocketTypes, OpenerTypes
<1>6. Control'
  <2>1. \A o \in Openers : opener'[o].pc \in {"found", "move", "mark"} =>
            opener'[o].pnode \in Nodes /\ node'[opener'[o].pnode].where # "unborn"
    BY SMTT(20), <1>1, <1>2 DEF Control
  <2> QED BY <1>1, <1>3, <1>4, <2>1 DEF Control
<1>7. Sync'
  BY <1>1, <1>4 DEF Sync
<1>8. Held'
  <2>1. ASSUME NEW m \in Nodes
        PROVE  Copies(m)' = Copies(m) + (IF m \in vNodes THEN 1 ELSE 0)
    <3>1. One(m \in message.copy) = 0 /\ One(m \in message.copy)' = (IF m \in vNodes THEN 1 ELSE 0)
          /\ One(m \in socket.copy)' = One(m \in socket.copy)
      BY <1>1, <1>4 DEF One
    <3>2. One(m \in socket.copy) \in Int /\ (IF m \in vNodes THEN 1 ELSE 0) \in Int
      BY SMTT(20) DEF One
    <3> QED BY SMTT(20), <3>1, <3>2 DEF Copies
  <2>2. \A m \in Nodes : First(m)' => First(m)
    BY <1>1, <1>2 DEF First
  <2>3. \A m \in socket'.copy \cup message'.copy : m \in Nodes /\ Live(m)
    BY <1>1, <1>4 DEF Types, SocketTypes, Used, Live, vNodes
  <2> QED BY <1>1, <1>2, <2>1, <2>2, <2>3, HeldCopied
<1> QED BY <1>5, <1>6, <1>7, <1>8 DEF Held

\* The choice of a sync node and the watchdog, up to the disconnection.
LEMMA WatchStep ==
    ASSUME IInv, StartSync \/ SetSync \/ Watch
    PROVE  IInv'
<1> USE DEF IInv
<1>1. UNCHANGED <<node, socket, opener>>
  BY DEF StartSync, SetSync, Watch
<1>2. MessageTypes' /\ message'.copy = message.copy /\ message'.pc # "copy" /\ Sync'
  <2>1. CASE StartSync
    <3>1. PICK n \in message.copy \cup {None} :
            \/ /\ ~message.fHaveSyncNode /\ n \in message.copy
               /\ message' = [message EXCEPT !.pc = "start", !.pSync = n]
            \/ message' = [message EXCEPT !.pc = "watch"]
      BY <2>1 DEF StartSync
    <3>2. CASE ~message.fHaveSyncNode /\ message' = [message EXCEPT !.pc = "start", !.pSync = n]
      <4>1. MessageTypes'
        BY <2>1, <3>2 DEF StartSync, Types, MessageTypes
      <4>2. /\ message'.pc = "start" /\ message'.copy = message.copy
            /\ message'.fHaveSyncNode = message.fHaveSyncNode
        BY <3>2 DEF Types, MessageTypes
      <4> QED BY <3>2, <4>1, <4>2 DEF Sync
    <3>3. CASE message' = [message EXCEPT !.pc = "watch"]
      <4>1. MessageTypes'
        BY <2>1, <3>3 DEF StartSync, Types, MessageTypes
      <4>2. /\ message'.pc = "watch" /\ message'.copy = message.copy
            /\ message'.fHaveSyncNode = message.fHaveSyncNode /\ pnodeSync' = pnodeSync
        BY <2>1, <3>3 DEF StartSync, Types, MessageTypes
      <4> QED BY <4>1, <4>2 DEF Sync
    <3> QED BY <3>1, <3>2, <3>3
  <2>2. CASE SetSync
    <3>1. message.pc = "start" /\ pnodeSync' = message.pSync
          /\ message' = [message EXCEPT !.pc = "watch", !.pSync = None]
      BY <2>2 DEF SetSync
    <3>2. MessageTypes'
      BY <3>1 DEF Types, MessageTypes
    <3>3. /\ message'.pc = "watch" /\ message'.copy = message.copy
          /\ message'.fHaveSyncNode = message.fHaveSyncNode
      BY <3>1 DEF Types, MessageTypes
    <3> QED BY <3>1, <3>2, <3>3 DEF Sync
  <2>3. CASE Watch
    <3>1. pnodeSync' = pnodeSync
      BY <2>3 DEF Watch
    <3>2. CASE /\ message.fHaveSyncNode /\ pnodeSync # None
               /\ message' = [message EXCEPT !.pc = "drop", !.pSync = pnodeSync]
      <4>1. MessageTypes'
        BY <3>1, <3>2 DEF Types, MessageTypes
      <4>2. /\ message'.pc = "drop" /\ message'.copy = message.copy /\ message'.pSync = pnodeSync
            /\ message'.fHaveSyncNode = message.fHaveSyncNode
        BY <3>2 DEF Types, MessageTypes
      <4> QED BY <3>1, <3>2, <4>1, <4>2 DEF Sync
    <3>3. CASE message' = [message EXCEPT !.pc = "messages"]
      <4>1. MessageTypes'
        BY <3>1, <3>3 DEF Types, MessageTypes
      <4>2. /\ message'.pc = "messages" /\ message'.copy = message.copy
            /\ message'.fHaveSyncNode = message.fHaveSyncNode
        BY <3>3 DEF Types, MessageTypes
      <4> QED BY <3>1, <4>1, <4>2 DEF Sync
    <3> QED BY <2>3, <3>2, <3>3 DEF Watch
  <2> QED BY <2>1, <2>2, <2>3
<1>3. Types' /\ Control'
  BY <1>1, <1>2 DEF Types, NodeTypes, SocketTypes, OpenerTypes, Control, vNodes, vNodesDisconnected
<1>4. Held'
  BY <1>1, <1>2, HeldSame DEF Held, Live, First
<1> QED BY <1>2, <1>3, <1>4 DEF Held

\* The watchdog disconnects a node of its copy.
LEMMA DropSyncPeerStep ==
    ASSUME IInv, DropSyncPeer
    PROVE  IInv'
<1> USE DEF IInv
<1>1. /\ message.pc = "drop" /\ pnodeSync' = None /\ UNCHANGED <<socket, opener>>
      /\ node' = [node EXCEPT ![message.pSync].fDisconnect = TRUE]
      /\ message' = [message EXCEPT !.pc = "messages", !.pSync = None]
  BY DEF DropSyncPeer
<1>2. message.pSync \in Nodes
  BY <1>1 DEF Sync, Types, MessageTypes
<1>3. /\ message'.pc = "messages" /\ message'.copy = message.copy
      /\ message'.fHaveSyncNode = message.fHaveSyncNode
  BY <1>1 DEF Types, MessageTypes
<1>4. MessageTypes'
  BY <1>1 DEF Types, MessageTypes
<1>5. Sync'
  BY <1>1, <1>3 DEF Sync
<1>6. Types' /\ Control' /\ Held'
  BY <1>1, <1>2, <1>3, <1>4, MarkedStep
<1> QED BY <1>5, <1>6 DEF Held

\* A node is marked while its messages are handled.
LEMMA MessagesStep ==
    ASSUME IInv, Messages
    PROVE  IInv'
<1> USE DEF IInv
<1>1. UNCHANGED <<socket, message, opener>>
  BY DEF Messages
<1>2. PICK n \in message.copy : Fails(n)
  BY DEF Messages
<1>3. /\ n \in Nodes /\ node' = [node EXCEPT ![n].fDisconnect = TRUE]
      /\ pnodeSync' \in {pnodeSync, None}
  BY <1>2 DEF Fails, CloseSocketDisconnect, Types, MessageTypes
<1>4. MessageTypes' /\ Sync'
  BY <1>1, <1>3 DEF Types, MessageTypes, Sync
<1>5. Types' /\ Control' /\ Held'
  BY <1>1, <1>3, <1>4, MarkedStep
<1> QED BY <1>4, <1>5 DEF Held

\* The message handler drops its copy, and the references.
LEMMA MessageReleaseStep ==
    ASSUME IInv, MessageRelease
    PROVE  IInv'
<1> USE DEF IInv
<1>1. /\ message.pc = "messages" /\ UNCHANGED <<pnodeSync, socket, opener>>
      /\ message' = [message EXCEPT !.pc = "copy", !.copy = {}, !.fHaveSyncNode = FALSE]
      /\ node' = [n \in Nodes |-> IF n \in message.copy THEN [node[n] EXCEPT !.nRefCount = @ - 1] ELSE node[n]]
  BY DEF MessageRelease, Releases
<1>2. /\ NodeTypes'
      /\ \A m \in Nodes : /\ node'[m].nRefCount = node[m].nRefCount - (IF m \in message.copy THEN 1 ELSE 0)
                          /\ node'[m].where = node[m].where
                          /\ node'[m].fNetworkNode = node[m].fNetworkNode
                          /\ node'[m].fInbound = node[m].fInbound
  BY <1>1, Dropped DEF Types
<1>3. vNodes' = vNodes /\ vNodesDisconnected' = vNodesDisconnected
  BY <1>2 DEF vNodes, vNodesDisconnected
<1>4. MessageTypes' /\ message'.pc = "copy" /\ message'.copy = {} /\ message'.fHaveSyncNode = FALSE
  <2>1. message'.pc = "copy" /\ message'.copy = {} /\ message'.fHaveSyncNode = FALSE
    BY <1>1 DEF Types, MessageTypes
  <2>2. MessageTypes'
    BY <1>1 DEF Types, MessageTypes
  <2> QED BY <2>1, <2>2
<1>5. Types'
  BY <1>1, <1>2, <1>4 DEF Types, SocketTypes, OpenerTypes
<1>6. Control'
  <2>1. \A o \in Openers : opener'[o].pc \in {"found", "move", "mark"} =>
            opener'[o].pnode \in Nodes /\ node'[opener'[o].pnode].where # "unborn"
    BY SMTT(20), <1>1, <1>2 DEF Control
  <2> QED BY <1>1, <1>3, <1>4, <2>1 DEF Control
<1>7. Sync'
  BY <1>4 DEF Sync
<1>8. Held'
  <2>1. ASSUME NEW m \in Nodes
        PROVE  /\ Copies(m)' = Copies(m) + (IF m \in message.copy THEN -1 ELSE 0)
               /\ node'[m].nRefCount = node[m].nRefCount + (IF m \in message.copy THEN -1 ELSE 0)
    <3>1. One(m \in message.copy) = (IF m \in message.copy THEN 1 ELSE 0) /\ One(m \in message.copy)' = 0
          /\ One(m \in socket.copy)' = One(m \in socket.copy)
      BY <1>1, <1>4 DEF One
    <3>2. One(m \in socket.copy) \in Int /\ node[m].nRefCount \in Int
      BY SMTT(20) DEF One, Types, NodeTypes, CNodes
    <3>3. node'[m].nRefCount = node[m].nRefCount - (IF m \in message.copy THEN 1 ELSE 0)
      BY <1>2
    <3> QED BY SMTT(20), <3>1, <3>2, <3>3 DEF Copies
  <2>2. \A m \in Nodes : First(m)' => First(m)
    BY <1>1, <1>2 DEF First
  <2>3. \A m \in socket'.copy \cup message'.copy : m \in Nodes /\ Live(m)
    BY <1>1, <1>4 DEF Types, SocketTypes, Used
  <2>4. -1 \in {1, -1}
    OBVIOUS
  <2> QED BY <1>1, <1>2, <2>1, <2>2, <2>3, <2>4, HeldCopied
<1> QED BY <1>5, <1>6, <1>7, <1>8 DEF Held

-----------------------------------------------------------------------------
(* The opening threads.                                                     *)

\* A thread at rest, and one that has acquired a slot.
LEMMA RestingFields ==
    /\ Resting \in Calls
    /\ Resting.pc = "idle" /\ ~Resting.grant /\ ~Resting.fresh
BY DEF Resting, Calls

\* A thread that has acquired a slot.
LEMMA AcquireFields ==
    ASSUME NEW a \in Addrs, NEW b \in BOOLEAN
    PROVE  LET d == [Resting EXCEPT !.pc = "check", !.addr = a, !.named = b, !.grant = TRUE]
           IN  d \in Calls /\ d.pc = "check" /\ d.grant /\ ~d.fresh
<1>1. ASSUME NEW c \in Calls
      PROVE  [c EXCEPT !.pc = "check", !.addr = a, !.named = b, !.grant = TRUE] \in Calls
  BY DEF Calls
<1>2. [Resting EXCEPT !.pc = "check", !.addr = a, !.named = b, !.grant = TRUE] \in Calls
  BY <1>1, RestingFields
<1>3. [Resting EXCEPT !.pc = "check", !.addr = a, !.named = b, !.grant = TRUE].pc = "check"
  BY DEF Resting
<1>4. [Resting EXCEPT !.pc = "check", !.addr = a, !.named = b, !.grant = TRUE].grant
  BY DEF Resting
<1>5. ~[Resting EXCEPT !.pc = "check", !.addr = a, !.named = b, !.grant = TRUE].fresh
  BY DEF Resting
<1> QED BY <1>2, <1>3, <1>4, <1>5

\* A thread that goes on to look for the node.
LEMMA CheckFields ==
    ASSUME NEW c \in Calls, NEW q \in {"connect", "find"}
    PROVE  LET d == [c EXCEPT !.pc = q, !.named = FALSE]
           IN  /\ d \in Calls
               /\ d.pc = q
               /\ d.grant = c.grant
               /\ d.fresh = c.fresh
<1>1. [c EXCEPT !.pc = q, !.named = FALSE] \in Calls
  BY DEF Calls
<1>2. [c EXCEPT !.pc = q, !.named = FALSE].pc = q
  BY DEF Calls
<1>3. [c EXCEPT !.pc = q, !.named = FALSE].grant = c.grant
  BY DEF Calls
<1>4. [c EXCEPT !.pc = q, !.named = FALSE].fresh = c.fresh
  BY DEF Calls
<1> QED BY <1>1, <1>2, <1>3, <1>4

\* A thread that has found a node.
LEMMA FoundFields ==
    ASSUME NEW c \in Calls, NEW n \in Nodes
    PROVE  LET d == [c EXCEPT !.pc = "found", !.pnode = n]
           IN  /\ d \in Calls
               /\ d.pc = "found"
               /\ d.pnode = n
               /\ d.grant = c.grant
               /\ d.fresh = c.fresh
<1>1. [c EXCEPT !.pc = "found", !.pnode = n] \in Calls
  BY DEF Calls
<1>2. [c EXCEPT !.pc = "found", !.pnode = n].pc = "found"
  BY DEF Calls
<1>3. [c EXCEPT !.pc = "found", !.pnode = n].pnode = n
  BY DEF Calls
<1>4. [c EXCEPT !.pc = "found", !.pnode = n].grant = c.grant
  BY DEF Calls
<1>5. [c EXCEPT !.pc = "found", !.pnode = n].fresh = c.fresh
  BY DEF Calls
<1> QED BY <1>1, <1>2, <1>3, <1>4, <1>5

\* A thread that goes on.
LEMMA GoFields ==
    ASSUME NEW c \in Calls, NEW q \in {"connect", "move"}
    PROVE  LET d == [c EXCEPT !.pc = q]
           IN  /\ d \in Calls
               /\ d.pc = q
               /\ d.pnode = c.pnode
               /\ d.grant = c.grant
               /\ d.fresh = c.fresh
<1>1. [c EXCEPT !.pc = q] \in Calls
  BY DEF Calls
<1>2. [c EXCEPT !.pc = q].pc = q
  BY DEF Calls
<1>3. [c EXCEPT !.pc = q].pnode = c.pnode
  BY DEF Calls
<1>4. [c EXCEPT !.pc = q].grant = c.grant
  BY DEF Calls
<1>5. [c EXCEPT !.pc = q].fresh = c.fresh
  BY DEF Calls
<1> QED BY <1>1, <1>2, <1>3, <1>4, <1>5

\* A thread that has made a node.
LEMMA MakeFields ==
    ASSUME NEW c \in Calls, NEW n \in Nodes
    PROVE  LET d == [c EXCEPT !.pc = "move", !.pnode = n, !.fresh = TRUE]
           IN  /\ d \in Calls
               /\ d.pc = "move"
               /\ d.pnode = n
               /\ d.grant = c.grant
               /\ d.fresh = TRUE
<1>1. [c EXCEPT !.pc = "move", !.pnode = n, !.fresh = TRUE] \in Calls
  BY DEF Calls
<1>2. [c EXCEPT !.pc = "move", !.pnode = n, !.fresh = TRUE].pc = "move"
  BY DEF Calls
<1>3. [c EXCEPT !.pc = "move", !.pnode = n, !.fresh = TRUE].pnode = n
  BY DEF Calls
<1>4. [c EXCEPT !.pc = "move", !.pnode = n, !.fresh = TRUE].grant = c.grant
  BY DEF Calls
<1>5. [c EXCEPT !.pc = "move", !.pnode = n, !.fresh = TRUE].fresh = TRUE
  BY DEF Calls
<1> QED BY <1>1, <1>2, <1>3, <1>4, <1>5

\* A thread that has handed its slot over.
LEMMA MoveFields ==
    ASSUME NEW c \in Calls
    PROVE  LET d == [c EXCEPT !.pc = "mark", !.grant = FALSE]
           IN  /\ d \in Calls
               /\ d.pc = "mark"
               /\ d.pnode = c.pnode
               /\ d.grant = FALSE
               /\ d.fresh = c.fresh
<1>1. [c EXCEPT !.pc = "mark", !.grant = FALSE] \in Calls
  BY DEF Calls
<1>2. [c EXCEPT !.pc = "mark", !.grant = FALSE].pc = "mark"
  BY DEF Calls
<1>3. [c EXCEPT !.pc = "mark", !.grant = FALSE].pnode = c.pnode
  BY DEF Calls
<1>4. [c EXCEPT !.pc = "mark", !.grant = FALSE].grant = FALSE
  BY DEF Calls
<1>5. [c EXCEPT !.pc = "mark", !.grant = FALSE].fresh = c.fresh
  BY DEF Calls
<1> QED BY <1>1, <1>2, <1>3, <1>4, <1>5

\* A step of one thread.
LEMMA CallWritten ==
    ASSUME OpenerTypes, NEW o \in Openers, NEW c \in Calls, opener' = [opener EXCEPT ![o] = c]
    PROVE  OpenerTypes' /\ opener'[o] = c /\ \A p \in Openers \ {o} : opener'[p] = opener[p]
BY DEF OpenerTypes

\* Threads that use a node after the step used it before.
Fewer(p) ==
    \/ opener'[p].pc \notin {"move", "mark"} /\ ~opener'[p].fresh
    \/ /\ opener'[p].pc \in {"move", "mark"} /\ opener[p].pc \in {"move", "mark"}
       /\ opener'[p].pnode = opener[p].pnode /\ opener'[p].fresh = opener[p].fresh

\* Steps of the threads that change none of what Held reads of the nodes.
LEMMA HeldFewer ==
    ASSUME Types, Control, Held, \A p \in Openers : Fewer(p),
           UNCHANGED <<socket, message>>,
           \A m \in Nodes : /\ node'[m].nRefCount = node[m].nRefCount /\ node'[m].where = node[m].where
                            /\ node'[m].fNetworkNode = node[m].fNetworkNode
                            /\ node'[m].fInbound = node[m].fInbound
    PROVE  Held'
<1>1. /\ socket.copy \subseteq Nodes /\ message.copy \subseteq Nodes
      /\ \A o \in Openers : opener[o].fresh => opener[o].pnode \in Nodes
  BY DEF Types, SocketTypes, MessageTypes, Control, Held, Makers
<1>2. \A p \in Openers : opener'[p].fresh =>
         opener'[p].pc \in {"move", "mark"} /\ opener[p].fresh /\ opener'[p].pnode = opener[p].pnode
  BY DEF Fewer
<1>3. Makers'
  BY SMTT(20), <1>1, <1>2 DEF Held, Makers
<1>4. \A m \in Nodes : (Live(m)' <=> Live(m)) /\ (First(m)' <=> First(m))
  BY DEF Live, First
<1>5. Used'
  BY <1>1, <1>2, <1>4 DEF Held, Used
<1>6. ASSUME NEW n \in Nodes, Live(n)'
      PROVE  Counts(n)'
  <2>1. Counts(n)
    BY <1>4, <1>6 DEF Held, References
  <2>2. Copies(n)' = Copies(n) /\ One(First(n))' = One(First(n))
    BY <1>4 DEF Copies, One
  <2>3. One(First(n) /\ node[n].fNetworkNode)' = One(First(n) /\ node[n].fNetworkNode)
    BY <1>4 DEF One
  <2>4. ASSUME NEW o \in Openers, opener'[o].pnode = n, opener'[o].pc \in {"move", "mark"}, ~opener'[o].fresh
        PROVE  node'[n].nRefCount >= Copies(n)' + One(First(n))' + 1
    <3>1. opener[o].pnode = n /\ opener[o].pc \in {"move", "mark"} /\ ~opener[o].fresh
      BY <2>4 DEF Fewer
    <3> QED BY <2>1, <2>2, <3>1 DEF Counts
  <2>5. ASSUME NEW o \in Openers, opener'[o].pnode = n, opener'[o].fresh
        PROVE  node'[n].nRefCount >= Copies(n)' + One(First(n) /\ node[n].fNetworkNode)' + 1
    BY <1>2, <2>1, <2>2, <2>3, <2>5 DEF Counts
  <2> QED BY <2>1, <2>2, <2>4, <2>5 DEF Counts
<1> QED BY <1>3, <1>5, <1>6 DEF Held, References

\* Steps of a thread that leave the nodes alone and that use none.
LEMMA QuietStep ==
    ASSUME IInv, NEW o \in Openers, NEW c \in Calls, opener' = [opener EXCEPT ![o] = c],
           ~c.fresh, c.pc \notin {"move", "mark"},
           c.pc = "found" => c.pnode \in vNodes,
           UNCHANGED <<node, pnodeSync, socket, message>>
    PROVE  IInv'
<1> USE DEF IInv
<1>1. OpenerTypes' /\ opener'[o] = c /\ \A p \in Openers \ {o} : opener'[p] = opener[p]
  BY CallWritten DEF Types
<1>2. Types'
  BY <1>1 DEF Types, NodeTypes, SocketTypes, MessageTypes
<1>3. Control'
  <2>1. ASSUME NEW p \in Openers, opener'[p].pc \in {"found", "move", "mark"}
        PROVE  opener'[p].pnode \in Nodes /\ node'[opener'[p].pnode].where # "unborn"
    <3>1. CASE p = o
      BY <1>1, <2>1, <3>1 DEF vNodes
    <3>2. CASE p # o
      BY <1>1, <2>1, <3>2 DEF Control
    <3> QED BY <3>1, <3>2
  <2>2. vNodes' = vNodes /\ vNodesDisconnected' = vNodesDisconnected
    BY DEF vNodes, vNodesDisconnected
  <2> QED BY <2>1, <2>2 DEF Control
<1>4. Sync'
  BY DEF Sync
<1>5. ASSUME NEW p \in Openers
      PROVE  Fewer(p)
  <2>1. CASE p = o
    BY <1>1, <2>1 DEF Fewer
  <2>2. CASE p # o
    BY <1>1, <2>2 DEF Fewer, Makers
  <2> QED BY <2>1, <2>2
<1>6. Held'
  BY <1>5, HeldFewer DEF Held
<1> QED BY <1>2, <1>3, <1>4, <1>6 DEF Held

\* Acquire, the checks before the connection, and the returns.
LEMMA OpeningStep ==
    ASSUME IInv, NEW o \in Openers,
           \/ Acquire(o) \/ CheckAddr(o) \/ FindAgain(o)
           \/ Connect(o) /\ Return(o)
    PROVE  IInv'
<1> USE DEF IInv
<1>1. opener[o] \in Calls
  BY DEF Types, OpenerTypes
<1>2. opener[o].pc \notin {"move", "mark"} => ~opener[o].fresh
  BY DEF Makers
<1>3. CASE Acquire(o)
  <2>1. PICK a \in Addrs, b \in BOOLEAN :
          opener' = [opener EXCEPT ![o] = [Resting EXCEPT !.pc = "check", !.addr = a, !.named = b, !.grant = TRUE]]
    BY <1>3 DEF Acquire
  <2>2. PICK d : d = [Resting EXCEPT !.pc = "check", !.addr = a, !.named = b, !.grant = TRUE]
    OBVIOUS
  <2>3. d \in Calls /\ d.pc = "check" /\ ~d.fresh
    BY <2>2, AcquireFields
  <2>4. opener' = [opener EXCEPT ![o] = d] /\ UNCHANGED <<node, pnodeSync, socket, message>>
    BY <1>3, <2>1, <2>2 DEF Acquire
  <2> QED BY <2>3, <2>4, QuietStep
<1>4. CASE Return(o)
  <2>1. opener' = [opener EXCEPT ![o] = Resting] /\ UNCHANGED <<node, pnodeSync, socket, message>>
    BY <1>4 DEF Return
  <2> QED BY <2>1, RestingFields, QuietStep
<1>5. CASE CheckAddr(o) /\ ~Return(o)
  <2>1. PICK q \in {"connect", "find"} :
          opener' = [opener EXCEPT ![o] = [opener[o] EXCEPT !.pc = q, !.named = FALSE]]
    BY <1>5 DEF CheckAddr
  <2>2. PICK d : d = [opener[o] EXCEPT !.pc = q, !.named = FALSE]
    OBVIOUS
  <2>3. opener[o].pc = "check"
    BY <1>5 DEF CheckAddr
  <2>4. d \in Calls /\ d.pc = q /\ d.fresh = opener[o].fresh
    BY <1>1, <2>2, CheckFields
  <2>5. opener' = [opener EXCEPT ![o] = d] /\ UNCHANGED <<node, pnodeSync, socket, message>>
    BY <1>5, <2>1, <2>2 DEF CheckAddr
  <2> QED BY <1>2, <2>3, <2>4, <2>5, QuietStep
<1>6. CASE FindAgain(o)
  <2>1. opener[o].pc = "find" /\ UNCHANGED <<node, pnodeSync, socket, message>>
    BY <1>6 DEF FindAgain
  <2>2. ASSUME NEW n \in vNodes, opener' = [opener EXCEPT ![o] = [opener[o] EXCEPT !.pc = "found", !.pnode = n]]
        PROVE  IInv'
    <3>1. PICK d : d = [opener[o] EXCEPT !.pc = "found", !.pnode = n]
      OBVIOUS
    <3>2. n \in Nodes
      BY DEF vNodes
    <3>3. d \in Calls /\ d.pc = "found" /\ d.pnode = n /\ d.fresh = opener[o].fresh
      BY <1>1, <3>1, <3>2, FoundFields
    <3>4. opener' = [opener EXCEPT ![o] = d]
      BY <2>2, <3>1
    <3> QED BY <1>2, <2>1, <3>3, <3>4, QuietStep
  <2>3. ASSUME opener' = [opener EXCEPT ![o] = [opener[o] EXCEPT !.pc = "connect"]]
        PROVE  IInv'
    <3>1. PICK d : d = [opener[o] EXCEPT !.pc = "connect"]
      OBVIOUS
    <3>2. d \in Calls /\ d.pc = "connect" /\ d.fresh = opener[o].fresh
      BY <1>1, <3>1, GoFields
    <3>3. opener' = [opener EXCEPT ![o] = d]
      BY <2>3, <3>1
    <3> QED BY <1>2, <2>1, <3>2, <3>3, QuietStep
  <2> QED BY <1>6, <2>2, <2>3 DEF FindAgain
<1> QED BY <1>3, <1>4, <1>5, <1>6

\* The slot is handed over: the thread uses the node as before.
LEMMA MoveGrantStep ==
    ASSUME IInv, NEW o \in Openers, MoveGrant(o)
    PROVE  IInv'
<1> USE DEF IInv
<1> DEFINE n == opener[o].pnode
<1>1. opener[o] \in Calls /\ opener[o].pc = "move" /\ n \in Nodes /\ opener[o].grant \in BOOLEAN
  BY DEF Types, OpenerTypes, MoveGrant, Control, Calls
<1>2. PICK x, d :
        /\ x = [node[n] EXCEPT !.grant = opener[o].grant] /\ node' = [node EXCEPT ![n] = x]
        /\ d = [opener[o] EXCEPT !.pc = "mark", !.grant = FALSE] /\ opener' = [opener EXCEPT ![o] = d]
        /\ UNCHANGED <<pnodeSync, socket, message>>
  BY DEF MoveGrant
<1>3. /\ NodeTypes' /\ \A m \in Nodes \ {n} : Kept(m)
      /\ node'[n].where = node[n].where /\ node'[n].nRefCount = node[n].nRefCount
      /\ node'[n].fNetworkNode = node[n].fNetworkNode /\ node'[n].fInbound = node[n].fInbound
  BY <1>1, <1>2, GrantWritten DEF Types
<1>4. d \in Calls /\ d.pc = "mark" /\ d.pnode = n /\ d.fresh = opener[o].fresh
  BY <1>1, <1>2, MoveFields
<1>5. OpenerTypes' /\ opener'[o] = d /\ \A p \in Openers \ {o} : opener'[p] = opener[p]
  BY <1>2, <1>4, CallWritten DEF Types
<1>6. \A m \in Nodes : /\ node'[m].nRefCount = node[m].nRefCount /\ node'[m].where = node[m].where
                       /\ node'[m].fNetworkNode = node[m].fNetworkNode
                       /\ node'[m].fInbound = node[m].fInbound
  BY <1>3 DEF Kept
<1>7. Types'
  BY <1>2, <1>3, <1>5 DEF Types, SocketTypes, MessageTypes
<1> HIDE DEF n
<1>8. Control'
  <2>1. ASSUME NEW p \in Openers, opener'[p].pc \in {"found", "move", "mark"}
        PROVE  opener'[p].pnode \in Nodes /\ node'[opener'[p].pnode].where # "unborn"
    <3>1. CASE p = o
      BY SMTT(20), <1>1, <1>4, <1>5, <1>6, <3>1 DEF Control, n
    <3>2. CASE p # o
      BY <1>5, <1>6, <2>1, <3>2 DEF Control
    <3> QED BY <3>1, <3>2
  <2>2. vNodes' = vNodes /\ vNodesDisconnected' = vNodesDisconnected
    BY <1>6 DEF vNodes, vNodesDisconnected
  <2> QED BY <1>2, <2>1, <2>2 DEF Control
<1>9. Sync'
  BY <1>2 DEF Sync
<1>10. ASSUME NEW p \in Openers
       PROVE  Fewer(p)
  <2>1. CASE p = o
    BY <1>1, <1>4, <1>5, <2>1 DEF Fewer, n
  <2>2. CASE p # o
    BY <1>5, <2>2 DEF Fewer, Makers
  <2> QED BY <2>1, <2>2
<1>11. Held'
  BY <1>2, <1>6, <1>10, HeldFewer DEF Held
<1> QED BY <1>7, <1>8, <1>9, <1>11 DEF Held

\* AddRef of the node that was found; it may have been deleted.
LEMMA RefFoundStep ==
    ASSUME IInv, NEW o \in Openers, RefFound(o)
    PROVE  IInv'
<1> USE DEF IInv
<1> DEFINE n == opener[o].pnode
<1>1. opener[o] \in Calls /\ opener[o].pc = "found" /\ n \in Nodes /\ ~opener[o].fresh
  BY DEF Types, OpenerTypes, RefFound, Control, Makers
<1>2. PICK d :
        /\ node' = [m \in Nodes |-> IF m \in {n} THEN [node[m] EXCEPT !.nRefCount = @ + 1] ELSE node[m]]
        /\ d = [opener[o] EXCEPT !.pc = "move"] /\ opener' = [opener EXCEPT ![o] = d]
        /\ UNCHANGED <<pnodeSync, socket, message>>
  BY DEF RefFound, AddRefs
<1>3. /\ NodeTypes'
      /\ \A m \in Nodes : /\ node'[m].nRefCount = node[m].nRefCount + (IF m \in {n} THEN 1 ELSE 0)
                          /\ node'[m].where = node[m].where
                          /\ node'[m].fNetworkNode = node[m].fNetworkNode
                          /\ node'[m].fInbound = node[m].fInbound
  BY ZenonT(60), <1>2, Added DEF Types
<1>4. d \in Calls /\ d.pc = "move" /\ d.pnode = n /\ d.fresh = opener[o].fresh
  BY <1>1, <1>2, GoFields
<1>5. OpenerTypes' /\ opener'[o] = d /\ \A p \in Openers \ {o} : opener'[p] = opener[p]
  BY <1>2, <1>4, CallWritten DEF Types
<1>6. Types'
  BY <1>2, <1>3, <1>5 DEF Types, SocketTypes, MessageTypes
<1> HIDE DEF n
<1>7. Control'
  <2>1. ASSUME NEW p \in Openers, opener'[p].pc \in {"found", "move", "mark"}
        PROVE  opener'[p].pnode \in Nodes /\ node'[opener'[p].pnode].where # "unborn"
    <3>1. CASE p = o
      BY SMTT(20), <1>1, <1>3, <1>4, <1>5, <3>1 DEF Control, n
    <3>2. CASE p # o
      BY SMTT(20), <1>3, <1>5, <2>1, <3>2 DEF Control
    <3> QED BY <3>1, <3>2
  <2>2. vNodes' = vNodes /\ vNodesDisconnected' = vNodesDisconnected
    BY <1>3 DEF vNodes, vNodesDisconnected
  <2> QED BY <1>2, <2>1, <2>2 DEF Control
<1>8. Sync'
  BY <1>2 DEF Sync
<1>9. \A p \in Openers : opener'[p].fresh => p # o /\ opener'[p] = opener[p] /\ opener[p].pnode \in Nodes
  BY <1>1, <1>4, <1>5 DEF Makers, Control
<1>10. Makers'
  BY SMTT(20), <1>3, <1>9 DEF Makers
<1>11. \A m \in Nodes : (Live(m)' <=> Live(m)) /\ (First(m)' <=> First(m))
  BY <1>2, <1>3 DEF Live, First
<1>12. Used'
  BY <1>2, <1>9, <1>11 DEF Used, Types, SocketTypes, MessageTypes
<1>13. ASSUME NEW m \in Nodes, Live(m)'
       PROVE  Counts(m)'
  <2>1. Counts(m) /\ Copies(m)' = Copies(m)
    BY <1>2, <1>11, <1>13 DEF References, Copies
  <2>2. /\ One(First(m))' = One(First(m)) /\ One(First(m)) \in Int
        /\ One(First(m) /\ node[m].fNetworkNode)' = One(First(m) /\ node[m].fNetworkNode)
        /\ One(First(m) /\ node[m].fNetworkNode) \in Int
    <3>1. One(First(m))' = One(First(m))
      BY <1>11 DEF One
    <3>2. One(First(m) /\ node[m].fNetworkNode)' = One(First(m) /\ node[m].fNetworkNode)
      BY <1>3, <1>11 DEF One
    <3>3. One(First(m)) \in Int /\ One(First(m) /\ node[m].fNetworkNode) \in Int
      BY SMTT(20) DEF One
    <3> QED BY <3>1, <3>2, <3>3
  <2>3. node[m].nRefCount \in Int /\ Copies(m) \in Int
    BY CopiesInt DEF Types, NodeTypes, CNodes
  <2>4. \A k \in Int : node[m].nRefCount >= k => node'[m].nRefCount >= k
    BY SMTT(20), <1>3, <2>3
  <2>5. \A k \in Int : m = n /\ node[m].nRefCount >= k => node'[m].nRefCount >= k + 1
    BY SMTT(20), <1>3, <2>3
  <2>6. /\ Copies(m) + One(First(m)) \in Int /\ Copies(m) + One(First(m)) + 1 \in Int
        /\ Copies(m) + One(First(m) /\ node[m].fNetworkNode) + 1 \in Int
    BY SMTT(20), <2>2, <2>3
  <2>7. node'[m].nRefCount >= Copies(m)' + One(First(m))'
    BY <2>1, <2>2, <2>4, <2>6 DEF Counts
  <2>8. ASSUME NEW p \in Openers, opener'[p].pnode = m, opener'[p].pc \in {"move", "mark"}, ~opener'[p].fresh
        PROVE  node'[m].nRefCount >= Copies(m)' + One(First(m))' + 1
    <3>1. CASE p = o
      <4>1. m = n /\ node[m].nRefCount >= Copies(m) + One(First(m))
        BY <1>4, <1>5, <2>1, <2>8, <3>1 DEF Counts
      <4> QED BY <2>1, <2>2, <2>5, <2>6, <4>1
    <3>2. CASE p # o
      <4>1. node[m].nRefCount >= Copies(m) + One(First(m)) + 1
        BY <1>5, <2>1, <2>8, <3>2 DEF Counts
      <4> QED BY <2>1, <2>2, <2>4, <2>6, <4>1
    <3> QED BY <3>1, <3>2
  <2>9. ASSUME NEW p \in Openers, opener'[p].pnode = m, opener'[p].fresh
        PROVE  node'[m].nRefCount >= Copies(m)' + One(First(m) /\ node[m].fNetworkNode)' + 1
    <3>1. node[m].nRefCount >= Copies(m) + One(First(m) /\ node[m].fNetworkNode) + 1
      BY <1>9, <2>1, <2>9 DEF Counts
    <3> QED BY <2>1, <2>2, <2>4, <2>6, <3>1
  <2> QED BY <2>7, <2>8, <2>9 DEF Counts
<1> QED BY <1>6, <1>7, <1>8, <1>10, <1>12, <1>13 DEF References

\* A thread makes a node, which the reference it is made with protects.
LEMMA ConnectStep ==
    ASSUME IInv, NEW o \in Openers, opener[o].pc = "connect", NEW n \in Nodes, node[n] = Unborn,
           node' = [node EXCEPT ![n] = [Unborn EXCEPT !.where = "vNodes", !.nRefCount = 1,
                                                      !.addr = opener[o].addr]],
           opener' = [opener EXCEPT ![o] = [opener[o] EXCEPT !.pc = "move", !.pnode = n, !.fresh = TRUE]],
           UNCHANGED <<pnodeSync, socket, message>>
    PROVE  IInv'
<1> USE DEF IInv
<1>1. opener[o] \in Calls /\ opener[o].addr \in Addrs \cup {None} /\ ~opener[o].fresh
  BY DEF Types, OpenerTypes, Calls, Makers
<1>2. /\ NodeTypes' /\ \A m \in Nodes \ {n} : Kept(m)
      /\ node'[n].where = "vNodes" /\ node'[n].nRefCount = 1 /\ ~node'[n].fNetworkNode /\ ~node'[n].fInbound
  BY <1>1, BornOutbound DEF Types
<1>3. PICK d : d = [opener[o] EXCEPT !.pc = "move", !.pnode = n, !.fresh = TRUE]
                /\ opener' = [opener EXCEPT ![o] = d]
  OBVIOUS
<1>4. d \in Calls /\ d.pc = "move" /\ d.pnode = n /\ d.fresh
  BY ZenonT(60), <1>1, <1>3, MakeFields
<1>5. OpenerTypes' /\ opener'[o] = d /\ \A p \in Openers \ {o} : opener'[p] = opener[p]
  BY <1>3, <1>4, CallWritten DEF Types
<1>6. Types'
  BY <1>2, <1>5 DEF Types, SocketTypes, MessageTypes
<1>7. node[n].where = "unborn"
  BY SMTT(20) DEF Unborn
<1>8. /\ n \notin socket.copy /\ n \notin message.copy
      /\ \A p \in Openers : opener[p].pc \in {"found", "move", "mark"} => opener[p].pnode # n
      /\ \A p \in Openers : opener[p].fresh => opener[p].pc \in {"move", "mark"} /\ opener[p].pnode # n
  BY <1>7 DEF Used, Live, Control, Makers
<1>9. /\ socket.copy \subseteq Nodes /\ message.copy \subseteq Nodes
      /\ \A p \in Openers : opener[p].fresh => opener[p].pnode \in Nodes
  BY DEF Types, SocketTypes, MessageTypes, Control, Makers
<1>10. Control'
  <2>1. ASSUME NEW p \in Openers, opener'[p].pc \in {"found", "move", "mark"}
        PROVE  opener'[p].pnode \in Nodes /\ node'[opener'[p].pnode].where # "unborn"
    <3>1. CASE p = o
      BY <1>2, <1>4, <1>5, <3>1
    <3>2. CASE p # o
      BY SMTT(20), <1>2, <1>5, <2>1, <3>2 DEF Control, Kept
    <3> QED BY <3>1, <3>2
  <2>2. vNodes \subseteq vNodes' /\ vNodesDisconnected \subseteq vNodesDisconnected'
    BY <1>2, <1>7 DEF vNodes, vNodesDisconnected, Kept
  <2> QED BY <2>1, <2>2 DEF Control
<1>11. Sync'
  BY DEF Sync
<1>12. Makers'
  <2>1. ASSUME NEW p \in Openers, opener'[p].fresh
        PROVE  opener'[p].pc \in {"move", "mark"} /\ ~node'[opener'[p].pnode].fInbound
    <3>1. CASE p = o
      BY <1>2, <1>4, <1>5, <3>1
    <3>2. CASE p # o
      BY SMTT(20), <1>2, <1>5, <1>8, <1>9, <2>1, <3>2 DEF Makers, Kept
    <3> QED BY <3>1, <3>2
  <2>2. ASSUME NEW p \in Openers, NEW q \in Openers, opener'[p].fresh, opener'[q].fresh,
               opener'[p].pnode = opener'[q].pnode
        PROVE  p = q
    <3>1. CASE p = o
      BY SMTT(20), <1>4, <1>5, <1>8, <2>2, <3>1
    <3>2. CASE q = o
      BY <1>4, <1>5, <1>8, <2>2, <3>2
    <3>3. CASE p # o /\ q # o
      BY <1>5, <2>2, <3>3 DEF Makers
    <3> QED BY <3>1, <3>2, <3>3
  <2> QED BY <2>1, <2>2 DEF Makers
<1>13. Used'
  <2>1. \A m \in socket'.copy \cup message'.copy : Live(m)'
    BY <1>2, <1>8, <1>9 DEF Used, Live, Kept
  <2>2. ASSUME NEW p \in Openers, opener'[p].fresh
        PROVE  Live(opener[p].pnode)'
    <3>1. CASE p = o
      BY <1>2, <1>4, <1>5, <3>1 DEF Live
    <3>2. CASE p # o
      BY SMTT(20), <1>2, <1>5, <1>8, <1>9, <2>2, <3>2 DEF Used, Live, Kept
    <3> QED BY <3>1, <3>2
  <2> QED BY <2>1, <2>2 DEF Used
<1>14. ASSUME NEW m \in Nodes, Live(m)'
       PROVE  Counts(m)'
  <2>1. CASE m # n
    <3>1. Kept(m)
      BY <1>2, <2>1
    <3>2. Counts(m) /\ Copies(m)' = Copies(m) /\ One(First(m))' = One(First(m))
          /\ One(First(m) /\ node[m].fNetworkNode)' = One(First(m) /\ node[m].fNetworkNode)
      BY <1>14, <3>1 DEF References, Copies, Live, First, Kept, One
    <3>3. \A p \in Openers : opener'[p].pnode = m => opener'[p] = opener[p]
      BY <1>4, <1>5, <2>1
    <3> QED BY <3>1, <3>2, <3>3 DEF Counts, Kept
  <2>2. CASE m = n
    <3>1. One(First(m))' = 1 /\ Copies(m)' = 0 /\ One(First(m) /\ node[m].fNetworkNode)' = 0
      <4>1. One(First(m))' = 1 /\ One(First(m) /\ node[m].fNetworkNode)' = 0
        BY <1>2, <2>2 DEF One, First
      <4>2. One(m \in socket.copy)' = 0 /\ One(m \in message.copy)' = 0
        BY <1>8, <2>2 DEF One
      <4> QED BY SMTT(20), <4>1, <4>2 DEF Copies
    <3>2. node'[m].nRefCount >= Copies(m)' + One(First(m))'
          /\ node'[m].nRefCount >= Copies(m)' + One(First(m) /\ node[m].fNetworkNode)' + 1
      BY SMTT(20), <1>2, <2>2, <3>1
    <3>3. \A p \in Openers : opener'[p].pnode = m /\ opener'[p].pc \in {"move", "mark"} => p = o
      BY <1>5, <1>8, <2>2
    <3> QED BY <1>4, <1>5, <3>2, <3>3 DEF Counts
  <2> QED BY <2>1, <2>2
<1> QED BY <1>6, <1>10, <1>11, <1>12, <1>13, <1>14 DEF References

\* A node is completed: by its maker, which no longer uses it, or by a thread whose
\* reference protects the maker.
LEMMA MarkStep ==
    ASSUME IInv, NEW o \in Openers, Mark(o)
    PROVE  IInv'
<1> USE DEF IInv
<1> DEFINE n == opener[o].pnode
<1>1. opener[o] \in Calls /\ opener[o].pc = "mark" /\ n \in Nodes
  BY DEF Types, OpenerTypes, Mark, Control
<1>2. PICK x :
        /\ x = [node[n] EXCEPT !.fNetworkNode = TRUE] /\ node' = [node EXCEPT ![n] = x]
        /\ opener' = [opener EXCEPT ![o] = Resting] /\ UNCHANGED <<pnodeSync, socket, message>>
  BY DEF Mark
<1>3. /\ NodeTypes' /\ \A m \in Nodes \ {n} : Kept(m)
      /\ node'[n].where = node[n].where
      /\ node'[n].nRefCount = node[n].nRefCount /\ node'[n].fInbound = node[n].fInbound
  BY <1>1, <1>2, Completed DEF Types
<1>4. OpenerTypes' /\ opener'[o] = Resting /\ \A p \in Openers \ {o} : opener'[p] = opener[p]
  BY <1>2, RestingFields, CallWritten DEF Types
<1>5. \A m \in Nodes : /\ node'[m].nRefCount = node[m].nRefCount /\ node'[m].where = node[m].where
                       /\ node'[m].fInbound = node[m].fInbound
  BY <1>3 DEF Kept
<1>6. Types'
  BY <1>2, <1>3, <1>4 DEF Types, SocketTypes, MessageTypes
<1> HIDE DEF n
<1>7. \A p \in Openers : opener'[p].fresh \/ opener'[p].pc \in {"found", "move", "mark"} =>
         p # o /\ opener'[p] = opener[p]
  BY <1>4, RestingFields
<1>8. Control'
  <2>1. \A p \in Openers : opener'[p].pc \in {"found", "move", "mark"} =>
           opener'[p].pnode \in Nodes /\ node'[opener'[p].pnode].where # "unborn"
    BY <1>5, <1>7 DEF Control
  <2>2. vNodes' = vNodes /\ vNodesDisconnected' = vNodesDisconnected
    BY <1>5 DEF vNodes, vNodesDisconnected
  <2> QED BY <1>2, <2>1, <2>2 DEF Control
<1>9. Sync'
  BY <1>2 DEF Sync
<1>10. \A p \in Openers : opener'[p].fresh => opener'[p] = opener[p] /\ opener[p].pnode \in Nodes
  BY <1>7 DEF Makers, Control
<1>11. Makers'
  BY SMTT(20), <1>5, <1>10 DEF Makers
<1>12. \A m \in Nodes : (Live(m)' <=> Live(m)) /\ (First(m)' <=> First(m))
  BY <1>2, <1>5 DEF Live, First
<1>13. Used'
  <2>1. socket.copy \subseteq Nodes /\ message.copy \subseteq Nodes
    BY DEF Types, SocketTypes, MessageTypes
  <2>2. \A m \in socket'.copy \cup message'.copy : Live(m)'
    BY <1>2, <1>12, <2>1 DEF Used
  <2>3. \A p \in Openers : opener'[p].fresh => Live(opener[p].pnode)'
    BY <1>10, <1>12 DEF Used
  <2> QED BY <2>2, <2>3 DEF Used
<1>14. ASSUME NEW m \in Nodes, Live(m)'
       PROVE  Counts(m)'
  <2>1. Counts(m) /\ Copies(m)' = Copies(m) /\ One(First(m))' = One(First(m))
    BY <1>2, <1>12, <1>14 DEF References, Copies, One
  <2>2. node'[m].nRefCount = node[m].nRefCount /\ node[m].nRefCount \in Int /\ Copies(m) \in Int
    BY <1>5, CopiesInt DEF Types, NodeTypes, CNodes
  <2>3. ASSUME NEW p \in Openers, opener'[p].pnode = m, opener'[p].pc \in {"move", "mark"}, ~opener'[p].fresh
        PROVE  node'[m].nRefCount >= Copies(m)' + One(First(m))' + 1
    BY <1>7, <2>1, <2>2, <2>3 DEF Counts
  <2>4. ASSUME NEW p \in Openers, opener'[p].pnode = m, opener'[p].fresh
        PROVE  node'[m].nRefCount >= Copies(m)' + One(First(m) /\ node[m].fNetworkNode)' + 1
    <3>1. p # o /\ opener[p].pnode = m /\ opener[p].fresh
      BY <1>7, <2>4
    <3>2. CASE m # n
      <4>1. node'[m].fNetworkNode = node[m].fNetworkNode
        BY <1>3, <3>2 DEF Kept
      <4>2. One(First(m) /\ node[m].fNetworkNode)' = One(First(m) /\ node[m].fNetworkNode)
        BY <1>12, <4>1 DEF One
      <4> QED BY <2>1, <2>2, <3>1, <4>2 DEF Counts
    <3>3. CASE m = n
      <4>1. ~opener[o].fresh
        BY <3>1, <3>3 DEF Makers, n
      <4>2. node[m].nRefCount >= Copies(m) + One(First(m)) + 1
        BY <1>1, <2>1, <3>3, <4>1 DEF Counts, n
      <4>3. /\ One(First(m)) \in Int /\ One(First(m) /\ node[m].fNetworkNode)' \in Int
            /\ One(First(m) /\ node[m].fNetworkNode)' <= One(First(m))'
        BY SMTT(20) DEF One
      <4> QED BY SMTT(20), <2>1, <2>2, <4>2, <4>3
    <3> QED BY <3>2, <3>3
  <2> QED BY <2>1, <2>2, <2>3, <2>4 DEF Counts
<1> QED BY <1>6, <1>8, <1>9, <1>11, <1>13, <1>14 DEF References

-----------------------------------------------------------------------------
(* The invariant.                                                           *)

LEMMA InitOK == Init => IInv
<1> SUFFICES ASSUME Init PROVE IInv
  OBVIOUS
<1>1. Types
  <2>1. NodeTypes
    BY Made DEF Init, NodeTypes
  <2>2. SocketTypes /\ MessageTypes
    BY DEF Init, SocketTypes, MessageTypes
  <2>3. OpenerTypes
    BY RestingFields DEF Init, OpenerTypes
  <2> QED BY <2>1, <2>2, <2>3 DEF Types
<1>2. /\ socket.pc = "top" /\ socket.copy = {} /\ socket.todo = {}
      /\ message.pc = "copy" /\ message.copy = {} /\ ~message.fHaveSyncNode
  BY DEF Init
<1>3. \A o \in Openers : opener[o].pc = "idle" /\ ~opener[o].fresh
  BY RestingFields DEF Init
<1>4. \A n \in Nodes : ~Live(n)
  BY DEF Init, Unborn, Live
<1> QED BY <1>1, <1>2, <1>3, <1>4 DEF IInv, Control, Sync, Makers, Used, References

LEMMA NextOK == IInv /\ [Next]_cvars => IInv'
<1> SUFFICES ASSUME IInv, [Next]_cvars PROVE IInv'
  OBVIOUS
<1>1. CASE SocketStep
  BY <1>1, PassStep, TakeOutStep, DropFirstRefStep, DeleteStep, AcceptStep, SocketCopyStep,
     ServiceStep, SocketReleaseStep DEF SocketStep
<1>2. CASE MessageStep
  BY <1>2, MessageCopyStep, WatchStep, DropSyncPeerStep, MessagesStep, MessageReleaseStep DEF MessageStep
<1>3. ASSUME NEW o \in Openers, Acquire(o) \/ OpenerStep(o)
      PROVE  IInv'
  <2>1. CASE Acquire(o) \/ CheckAddr(o) \/ FindAgain(o)
    BY <2>1, OpeningStep
  <2>2. CASE RefFound(o)
    BY <2>2, RefFoundStep
  <2>3. CASE Connect(o)
    <3>1. CASE Return(o)
      BY <2>3, <3>1, OpeningStep
    <3>2. CASE ~Return(o)
      <4>1. opener[o].pc = "connect"
        BY <2>3 DEF Connect
      <4>2. PICK n \in Nodes :
              /\ node[n] = Unborn
              /\ node' = [node EXCEPT ![n] = [Unborn EXCEPT !.where = "vNodes", !.nRefCount = 1,
                                                            !.addr = opener[o].addr]]
              /\ opener' = [opener EXCEPT ![o] = [opener[o] EXCEPT !.pc = "move", !.pnode = n, !.fresh = TRUE]]
              /\ UNCHANGED <<pnodeSync, socket, message>>
        BY <2>3, <3>2 DEF Connect
      <4> QED BY <4>1, <4>2, ConnectStep
    <3> QED BY <3>1, <3>2
  <2>4. CASE MoveGrant(o)
    BY <2>4, MoveGrantStep
  <2>5. CASE Mark(o)
    BY <2>5, MarkStep
  <2> QED BY <1>3, <2>1, <2>2, <2>3, <2>4, <2>5 DEF OpenerStep
<1>4. CASE UNCHANGED cvars
  <2>1. UNCHANGED <<node, pnodeSync, socket, message, opener>>
    BY <1>4 DEF cvars
  <2>2. Types' /\ Control' /\ Sync'
    BY SMTT(20), <2>1 DEF IInv, Types, NodeTypes, SocketTypes, MessageTypes, OpenerTypes, Control, Sync,
                vNodes, vNodesDisconnected
  <2>3. \A n \in Nodes : (Live(n)' <=> Live(n)) /\ (First(n)' <=> First(n))
    BY <2>1 DEF Live, First
  <2>4. Held'
    BY <2>1, <2>3, HeldSame DEF IInv, Held
  <2> QED BY <2>2, <2>4 DEF IInv, Held
<1> QED BY <1>1, <1>2, <1>3, <1>4 DEF Next

LEMMA Invariance == Spec => []IInv
BY InitOK, NextOK, PTL DEF Spec

(***************************************************************************)
(* A node is deleted only when no handler has it in its copy and its maker *)
(* is done with it, and the watchdog of ThreadMessageHandler2 only ever    *)
(* disconnects a node of its own copy, for any number of nodes and of      *)
(* threads.                                                                *)
(***************************************************************************)
THEOREM NodesKept == Spec => []UsedAreAlive
<1>1. IInv => UsedAreAlive
  BY DEF IInv, UsedAreAlive, Used, Sync, Live, Alive
<1> QED BY <1>1, Invariance, PTL

-----------------------------------------------------------------------------
(* The slots.                                                               *)

Holders == {o \in Openers : opener[o].grant}
Granted == {n \in Nodes : node[n].grant}

\* The finite sets the slots are counted in.
LEMMA SlotSets ==
    /\ IsFiniteSet(Holders) /\ Cardinality(Holders) \in Nat
    /\ IsFiniteSet(Granted) /\ Cardinality(Granted) \in Nat
<1>1. Holders \subseteq Openers /\ Granted \subseteq Nodes
  BY DEF Holders, Granted
<1> QED BY <1>1, FS_Subset, FS_CardinalityType, ConnectionsAssumption

\* Grants counts the nodes of a set that have a slot.
LEMMA GrantsCount ==
    /\ Grants(Nodes) = Cardinality(Granted)
    /\ \A S \in SUBSET Nodes : Grants(S) = Cardinality(Granted \cap S)
<1>1. {n \in Nodes : node[n].grant} = Granted
  BY DEF Granted
<1>2. ASSUME NEW S \in SUBSET Nodes
      PROVE  {n \in S : node[n].grant} = Granted \cap S
  BY DEF Granted
<1> QED BY <1>1, <1>2 DEF Grants

\* Steps that take the slots of the nodes of S back.
LEMMA SlotsReturned ==
    ASSUME Slots, opener' = opener, NEW S \in SUBSET Nodes,
           Granted' = Granted \ S, value' = value + Grants(S)
    PROVE  Slots'
<1>1. /\ IsFiniteSet(Granted) /\ Cardinality(Granted) \in Nat /\ Cardinality(Holders) \in Nat
  BY SlotSets
<1>2. Holders' = Holders
  BY DEF Holders
<1>3. IsFiniteSet(Granted \cap S) /\ Cardinality(Granted \cap S) \in Nat
  <2>1. Granted \cap S \subseteq Granted
    OBVIOUS
  <2> QED BY <1>1, <2>1, FS_Subset, FS_CardinalityType
<1>4. Cardinality(Granted') = Cardinality(Granted) - Cardinality(Granted \cap S)
  BY <1>1, FS_Difference
<1>5. value \in Int /\ value + Cardinality(Holders) + Cardinality(Granted) = nMaxOutbound
  BY GrantsCount DEF Slots, SlotsConserved, Holders
<1>6. value' = value + Cardinality(Granted \cap S)
  BY GrantsCount
<1>7. value' \in Int /\ value' + Cardinality(Holders') + Cardinality(Granted') = nMaxOutbound
  BY SMTT(20), <1>1, <1>2, <1>3, <1>4, <1>5, <1>6
<1>8. Grants(Nodes)' = Cardinality(Granted')
  BY DEF Grants, Granted
<1> QED BY <1>7, <1>8 DEF Slots, SlotsConserved, Holders

\* Steps that move no slot.
LEMMA SlotsSame ==
    ASSUME Slots, UNCHANGED <<opener, value>>,
           \A m \in Nodes : node'[m].grant = node[m].grant
    PROVE  Slots'
<1>1. Granted' = Granted \ {}
  BY DEF Granted
<1>2. Grants({}) = 0
  <2>1. {n \in {} : node[n].grant} = {}
    OBVIOUS
  <2> QED BY <2>1, FS_EmptySet DEF Grants
<1>3. value' = value + Grants({})
  BY SMTT(20), <1>2 DEF Slots
<1> QED BY SMTT(20), <1>1, <1>3, SlotsReturned

\* Steps of a thread that give it a slot or take its slot back.
LEMMA SlotsCalled ==
    ASSUME Slots, OpenerTypes, NEW o \in Openers, NEW c \in Calls,
           opener' = [opener EXCEPT ![o] = c], c.grant <=> c.pc \notin {"idle", "mark"},
           \A m \in Nodes : node'[m].grant = node[m].grant,
           value' = value + One(opener[o].grant) - One(c.grant)
    PROVE  Slots'
<1>1. /\ IsFiniteSet(Holders) /\ Cardinality(Holders) \in Nat /\ Cardinality(Granted) \in Nat
      /\ IsFiniteSet(Holders \ {o})
  BY SlotSets, FS_Difference
<1>2. OpenerTypes' /\ opener'[o] = c /\ \A p \in Openers \ {o} : opener'[p] = opener[p]
  BY CallWritten
<1>3. Holders' = IF c.grant THEN (Holders \ {o}) \cup {o} ELSE Holders \ {o}
  BY <1>2 DEF Holders
<1>4. Cardinality(Holders) = Cardinality(Holders \ {o}) + One(opener[o].grant)
  <2>1. CASE opener[o].grant
    <3>1. o \in Holders
      BY <2>1 DEF Holders
    <3>2. Cardinality(Holders \ {o}) = Cardinality(Holders) - 1
      BY <1>1, <3>1, FS_RemoveElement
    <3>3. One(opener[o].grant) = 1
      BY <2>1 DEF One
    <3> QED BY SMTT(20), <1>1, <3>2, <3>3
  <2>2. CASE ~opener[o].grant
    <3>1. Holders \ {o} = Holders
      BY <2>2 DEF Holders
    <3>2. One(opener[o].grant) = 0
      BY <2>2 DEF One
    <3>3. Cardinality(Holders \ {o}) = Cardinality(Holders)
      BY <3>1
    <3> QED BY SMTT(20), <1>1, <3>2, <3>3
  <2> QED BY <2>1, <2>2
<1>5. Cardinality(Holders') = Cardinality(Holders \ {o}) + One(c.grant)
  <2>1. Cardinality(Holders \ {o}) \in Nat
    BY <1>1, FS_CardinalityType
  <2>2. CASE c.grant
    <3>1. Cardinality((Holders \ {o}) \cup {o}) = Cardinality(Holders \ {o}) + 1
      BY <1>1, FS_AddElement
    <3>2. One(c.grant) = 1
      BY <2>2 DEF One
    <3> QED BY <1>3, <2>2, <3>1, <3>2
  <2>3. CASE ~c.grant
    <3>1. One(c.grant) = 0
      BY <2>3 DEF One
    <3>2. Cardinality(Holders') = Cardinality(Holders \ {o})
      BY <1>3, <2>3
    <3> QED BY SMTT(20), <2>1, <3>1, <3>2
  <2> QED BY <2>2, <2>3
<1>6. Granted' = Granted
  BY DEF Granted
<1>7. value \in Int /\ value + Cardinality(Holders) + Cardinality(Granted) = nMaxOutbound
  BY GrantsCount DEF Slots, SlotsConserved, Holders
<1>8. One(opener[o].grant) \in Int /\ One(c.grant) \in Int /\ Cardinality(Holders \ {o}) \in Nat
  BY SMTT(20), <1>1, FS_CardinalityType DEF One
<1>9. value' \in Int /\ value' + Cardinality(Holders') + Cardinality(Granted') = nMaxOutbound
  BY SMTT(20), <1>1, <1>4, <1>5, <1>6, <1>7, <1>8
<1>10. Grants(Nodes)' = Cardinality(Granted')
  BY DEF Grants, Granted
<1>11. \A p \in Openers : opener'[p].grant <=> opener'[p].pc \notin {"idle", "mark"}
  BY <1>2 DEF Slots
<1> QED BY <1>9, <1>10, <1>11 DEF Slots, SlotsConserved, Holders

\* The handlers: slots are only taken back, from nodes that go.
LEMMA HandlerSlots ==
    ASSUME IInv, Slots, SocketStep \/ MessageStep
    PROVE  Slots'
<1> USE DEF IInv
<1>1. NodeTypes /\ opener' = opener
  BY DEF Types, SocketStep, MessageStep, BeginPass, TakeOut, DropFirstRef, Keep, DeleteUnreferenced, Accept,
         SocketCopy, Service, SocketRelease, MessageCopy, StartSync, SetSync, Watch, DropSyncPeer, Messages,
         MessageRelease
<1>2. ASSUME UNCHANGED <<node, value>>
      PROVE  Slots'
  BY <1>1, <1>2, SlotsSame
<1>3. ASSUME NEW S, AddRefs(S) \/ Releases(S), UNCHANGED value
      PROVE  Slots'
  <2>1. \A m \in Nodes : node'[m].grant = node[m].grant
    BY <1>1, <1>3, Added, Dropped DEF AddRefs, Releases
  <2> QED BY <1>1, <1>3, <2>1, SlotsSame
<1>4. ASSUME NEW n \in Nodes, node' = [node EXCEPT ![n].fDisconnect = TRUE], UNCHANGED value
      PROVE  Slots'
  <2>1. \A m \in Nodes : node'[m].grant = node[m].grant
    BY <1>1, <1>4, Marked DEF Kept
  <2> QED BY <1>1, <1>4, <2>1, SlotsSame
<1>5. CASE BeginPass \/ Keep \/ StartSync \/ SetSync \/ Watch
  BY <1>2, <1>5 DEF BeginPass, Keep, StartSync, SetSync, Watch
<1>6. CASE DropFirstRef \/ SocketCopy \/ SocketRelease \/ MessageCopy \/ MessageRelease
  BY <1>3, <1>6 DEF DropFirstRef, SocketCopy, SocketRelease, MessageCopy, MessageRelease
<1>7. CASE Service \/ DropSyncPeer \/ Messages
  <2>1. CASE Service \/ Messages
    <3>1. PICK n \in socket.copy \cup message.copy : Fails(n)
      BY <2>1 DEF Service, Messages
    <3>2. n \in Nodes /\ node' = [node EXCEPT ![n].fDisconnect = TRUE] /\ UNCHANGED value
      BY <2>1, <3>1 DEF Fails, CloseSocketDisconnect, Types, SocketTypes, MessageTypes, Service, Messages
    <3> QED BY <1>4, <3>2
  <2>2. CASE DropSyncPeer
    <3>1. message.pSync \in Nodes /\ UNCHANGED value
      BY <2>2 DEF DropSyncPeer, Sync, Types, MessageTypes
    <3>2. node' = [node EXCEPT ![message.pSync].fDisconnect = TRUE]
      BY <2>2 DEF DropSyncPeer
    <3> QED BY <1>4, <3>1, <3>2
  <2> QED BY <1>7, <2>1, <2>2
<1>8. CASE TakeOut
  <2>1. PICK n \in socket.todo :
          /\ node' = [node EXCEPT ![n] = [node[n] EXCEPT !.where = "disconnected", !.fDisconnect = TRUE,
                                                         !.grant = FALSE]]
          /\ value' = value + Grants({n})
    BY <1>8 DEF TakeOut
  <2>2. PICK x : x = [node[n] EXCEPT !.where = "disconnected", !.fDisconnect = TRUE, !.grant = FALSE]
                 /\ node' = [node EXCEPT ![n] = x]
    BY <2>1
  <2>3. n \in Nodes
    BY DEF Control, vNodes
  <2>4. node'[n].grant = FALSE /\ \A m \in Nodes \ {n} : Kept(m)
    BY <1>1, <2>2, <2>3, TakenOut
  <2>5. Granted' = Granted \ {n}
    BY <2>3, <2>4 DEF Granted, Kept
  <2>6. {n} \in SUBSET Nodes /\ value' = value + Grants({n})
    BY <2>1, <2>3
  <2> QED BY <1>1, <2>5, <2>6, SlotsReturned
<1>9. CASE DeleteUnreferenced
  <2> DEFINE gone == {n \in vNodesDisconnected : node[n].nRefCount <= 0}
  <2>1. /\ node' = [n \in Nodes |-> IF n \in gone
                                    THEN [node[n] EXCEPT !.where = "deleted", !.grant = FALSE]
                                    ELSE node[n]]
        /\ value' = value + Grants(gone)
    BY <1>9 DEF DeleteUnreferenced
  <2>2. gone \in SUBSET Nodes
    BY DEF vNodesDisconnected
  <2> HIDE DEF gone
  <2>3. /\ \A m \in Nodes \ gone : Kept(m)
        /\ \A m \in Nodes \cap gone : ~node'[m].grant
    BY <1>1, <2>1, Deleted
  <2>4. Granted' = Granted \ gone
    BY <2>3 DEF Granted, Kept
  <2> QED BY <1>1, <2>1, <2>2, <2>4, SlotsReturned
<1>10. CASE Accept
  <2>1. UNCHANGED value
    BY <1>10 DEF Accept
  <2>2. ASSUME NEW n \in Nodes, NEW a \in Addrs, node[n] = Unborn,
               node' = [node EXCEPT ![n] = [Unborn EXCEPT !.where = "vNodes", !.addr = a,
                                                          !.nRefCount = 1, !.fInbound = TRUE]]
        PROVE  Slots'
    <3>1. ~node'[n].grant /\ \A m \in Nodes \ {n} : Kept(m)
      BY <1>1, <2>2, BornInbound
    <3>2. node[n].grant = FALSE
      BY SMTT(20), <2>2 DEF Unborn
    <3>3. NodeTypes'
      BY <1>1, <2>2, BornInbound
    <3>4. node'[n].grant = node[n].grant
      BY <3>1, <3>2, <3>3 DEF NodeTypes, CNodes
    <3>5. \A m \in Nodes : node'[m].grant = node[m].grant
      BY <3>1, <3>4 DEF Kept
    <3> QED BY <1>1, <2>1, <3>5, SlotsSame
  <2> QED BY <1>2, <1>10, <2>1, <2>2 DEF Accept
<1> QED BY <1>5, <1>6, <1>7, <1>8, <1>9, <1>10 DEF SocketStep, MessageStep

\* The slot of a thread goes to its node, and the slot the node had goes back.
LEMMA MoveSlots ==
    ASSUME IInv, Slots, NEW o \in Openers, MoveGrant(o)
    PROVE  Slots'
<1> USE DEF IInv
<1> DEFINE n == opener[o].pnode
<1>1. opener[o] \in Calls /\ opener[o].pc = "move" /\ n \in Nodes /\ opener[o].grant = TRUE
  BY DEF Types, OpenerTypes, MoveGrant, Control, Calls, Slots
<1>2. PICK x, d :
        /\ x = [node[n] EXCEPT !.grant = opener[o].grant] /\ node' = [node EXCEPT ![n] = x]
        /\ d = [opener[o] EXCEPT !.pc = "mark", !.grant = FALSE] /\ opener' = [opener EXCEPT ![o] = d]
        /\ value' = value + Grants({n})
  BY DEF MoveGrant
<1>3. node'[n].grant = TRUE /\ \A m \in Nodes \ {n} : Kept(m)
  BY <1>1, <1>2, GrantWritten DEF Types
<1>4. d \in Calls /\ d.pc = "mark" /\ d.grant = FALSE
  BY <1>1, <1>2, MoveFields
<1>5. opener'[o] = d /\ \A p \in Openers \ {o} : opener'[p] = opener[p]
  BY <1>2, <1>4, CallWritten DEF Types
<1> HIDE DEF n
<1>6. Granted' = (Granted \ {n}) \cup {n} /\ Holders' = Holders \ {o} /\ o \in Holders
  <2>1. Granted' = (Granted \ {n}) \cup {n}
    BY <1>1, <1>3 DEF Granted, Kept
  <2>2. Holders' = Holders \ {o} /\ o \in Holders
    BY <1>1, <1>4, <1>5 DEF Holders
  <2> QED BY <2>1, <2>2
<1>7. /\ IsFiniteSet(Granted) /\ Cardinality(Granted) \in Nat
      /\ IsFiniteSet(Holders) /\ Cardinality(Holders) \in Nat
  BY SlotSets
<1>8. Cardinality(Holders') = Cardinality(Holders) - 1
  BY <1>6, <1>7, FS_RemoveElement
<1>9. Cardinality(Granted') = Cardinality(Granted) - Cardinality(Granted \cap {n}) + 1
  <2>1. IsFiniteSet(Granted \ {n}) /\ Cardinality(Granted \ {n}) = Cardinality(Granted) - Cardinality(Granted \cap {n})
    BY <1>7, FS_Difference
  <2>2. Cardinality((Granted \ {n}) \cup {n}) = Cardinality(Granted \ {n}) + 1
    BY <2>1, FS_AddElement
  <2> QED BY <1>6, <2>1, <2>2
<1>10. Cardinality(Granted \cap {n}) \in Nat
  <2>1. Granted \cap {n} \subseteq Granted
    OBVIOUS
  <2> QED BY <1>7, <2>1, FS_Subset, FS_CardinalityType
<1>11. value \in Int /\ value + Cardinality(Holders) + Cardinality(Granted) = nMaxOutbound
  BY GrantsCount DEF Slots, SlotsConserved, Holders
<1>12. value' = value + Cardinality(Granted \cap {n})
  BY <1>1, <1>2, GrantsCount
<1>13. value' \in Int /\ value' + Cardinality(Holders') + Cardinality(Granted') = nMaxOutbound
  BY SMTT(20), <1>7, <1>8, <1>9, <1>10, <1>11, <1>12
<1>14. Grants(Nodes)' = Cardinality(Granted')
  BY DEF Grants, Granted
<1>15. \A p \in Openers : opener'[p].grant <=> opener'[p].pc \notin {"idle", "mark"}
  BY <1>4, <1>5 DEF Slots
<1> QED BY <1>13, <1>14, <1>15 DEF Slots, SlotsConserved, Holders

\* The steps of a thread other than MoveTo.
LEMMA CallSlots ==
    ASSUME IInv, Slots, NEW o \in Openers,
           Acquire(o) \/ CheckAddr(o) \/ FindAgain(o) \/ RefFound(o) \/ Connect(o) \/ Mark(o)
    PROVE  Slots'
<1> USE DEF IInv
<1>1. /\ NodeTypes /\ OpenerTypes /\ opener[o] \in Calls /\ opener[o].grant \in BOOLEAN /\ value \in Int
      /\ opener[o].grant <=> opener[o].pc \notin {"idle", "mark"}
  BY DEF Types, OpenerTypes, Calls, Slots
<1>2. ASSUME UNCHANGED value, \A m \in Nodes : node'[m].grant = node[m].grant,
             NEW d \in Calls, opener' = [opener EXCEPT ![o] = d], d.grant = opener[o].grant,
             opener[o].pc \notin {"idle", "mark"}, d.pc \notin {"idle", "mark"}
      PROVE  Slots'
  <2>1. One(opener[o].grant) = One(d.grant) /\ One(d.grant) \in Int
    BY SMTT(20), <1>2 DEF One
  <2>2. value' = value + One(opener[o].grant) - One(d.grant)
    BY SMTT(20), <1>1, <1>2, <2>1
  <2>3. d.grant <=> d.pc \notin {"idle", "mark"}
    BY <1>1, <1>2
  <2> QED BY <1>1, <1>2, <2>2, <2>3, SlotsCalled
<1>3. CASE Acquire(o)
  <2>1. PICK a \in Addrs, b \in BOOLEAN :
          opener' = [opener EXCEPT ![o] = [Resting EXCEPT !.pc = "check", !.addr = a, !.named = b, !.grant = TRUE]]
    BY <1>3 DEF Acquire
  <2>2. PICK d : d = [Resting EXCEPT !.pc = "check", !.addr = a, !.named = b, !.grant = TRUE]
                 /\ opener' = [opener EXCEPT ![o] = d]
    BY <2>1
  <2>3. d \in Calls /\ d.pc = "check" /\ d.grant
    BY <2>2, AcquireFields
  <2>4. value' = value - 1 /\ node' = node /\ ~opener[o].grant
    BY <1>1, <1>3 DEF Acquire
  <2>5. One(opener[o].grant) = 0 /\ One(d.grant) = 1
    BY <2>3, <2>4 DEF One
  <2>6. value' = value + One(opener[o].grant) - One(d.grant)
    BY SMTT(20), <1>1, <2>4, <2>5
  <2>7. d.grant <=> d.pc \notin {"idle", "mark"}
    BY <2>3
  <2> QED BY <1>1, <2>2, <2>3, <2>4, <2>6, <2>7, SlotsCalled
<1>4. ASSUME opener' = [opener EXCEPT ![o] = Resting], \A m \in Nodes : node'[m].grant = node[m].grant,
             value' = value + One(opener[o].grant)
      PROVE  Slots'
  <2>1. One(Resting.grant) = 0 /\ Resting.grant = FALSE
    BY DEF One, Resting
  <2>2. One(opener[o].grant) \in Int
    BY SMTT(20) DEF One
  <2>3. value' = value + One(opener[o].grant) - One(Resting.grant)
    BY SMTT(20), <1>1, <1>4, <2>1, <2>2
  <2> QED BY <1>1, <1>4, <2>3, RestingFields, SlotsCalled
<1>5. CASE Return(o)
  BY <1>4, <1>5 DEF Return, One
<1>6. CASE Mark(o)
  <2>1. PICK x : /\ x = [node[opener[o].pnode] EXCEPT !.fNetworkNode = TRUE]
                 /\ node' = [node EXCEPT ![opener[o].pnode] = x]
                 /\ opener' = [opener EXCEPT ![o] = Resting] /\ value' = value
    BY <1>6 DEF Mark
  <2>2. opener[o].pc = "mark" /\ opener[o].pnode \in Nodes
    BY <1>6 DEF Mark, Control
  <2>3. \A m \in Nodes : node'[m].grant = node[m].grant
    BY <1>1, <2>1, <2>2, Completed DEF Kept
  <2>4. One(opener[o].grant) = 0
    BY <1>1, <2>2 DEF One
  <2>5. value' = value + One(opener[o].grant)
    BY SMTT(20), <1>1, <2>1, <2>4
  <2> QED BY <1>4, <2>1, <2>3, <2>5
<1>7. CASE CheckAddr(o) /\ ~Return(o)
  <2>1. PICK q \in {"connect", "find"} :
          opener' = [opener EXCEPT ![o] = [opener[o] EXCEPT !.pc = q, !.named = FALSE]]
    BY <1>7 DEF CheckAddr
  <2>2. PICK d : d = [opener[o] EXCEPT !.pc = q, !.named = FALSE] /\ opener' = [opener EXCEPT ![o] = d]
    BY <2>1
  <2>3. d \in Calls /\ d.pc = q /\ d.grant = opener[o].grant
    BY <1>1, <2>2, CheckFields
  <2>4. opener[o].pc = "check" /\ UNCHANGED <<node, value>>
    BY <1>7 DEF CheckAddr
  <2> QED BY <1>2, <2>2, <2>3, <2>4
<1>8. CASE FindAgain(o)
  <2>1. opener[o].pc = "find" /\ UNCHANGED <<node, value>>
    BY <1>8 DEF FindAgain
  <2>2. PICK d \in Calls : /\ opener' = [opener EXCEPT ![o] = d] /\ d.grant = opener[o].grant
                           /\ d.pc \in {"found", "connect"}
    <3>1. ASSUME NEW n \in vNodes, opener' = [opener EXCEPT ![o] = [opener[o] EXCEPT !.pc = "found", !.pnode = n]]
          PROVE  \E d \in Calls : /\ opener' = [opener EXCEPT ![o] = d] /\ d.grant = opener[o].grant
                                  /\ d.pc \in {"found", "connect"}
      <4>1. PICK d : d = [opener[o] EXCEPT !.pc = "found", !.pnode = n]
        OBVIOUS
      <4>2. n \in Nodes
        BY DEF vNodes
      <4>3. d \in Calls /\ d.pc = "found" /\ d.grant = opener[o].grant
        BY <1>1, <4>1, <4>2, FoundFields
      <4> QED BY <3>1, <4>1, <4>3
    <3>2. ASSUME opener' = [opener EXCEPT ![o] = [opener[o] EXCEPT !.pc = "connect"]]
          PROVE  \E d \in Calls : /\ opener' = [opener EXCEPT ![o] = d] /\ d.grant = opener[o].grant
                                  /\ d.pc \in {"found", "connect"}
      BY <1>1, <3>2, GoFields
    <3> QED BY <1>8, <3>1, <3>2 DEF FindAgain
  <2> QED BY <1>2, <2>1, <2>2
<1>9. CASE RefFound(o)
  <2>1. opener[o].pc = "found" /\ UNCHANGED value /\ AddRefs({opener[o].pnode})
    BY <1>9 DEF RefFound
  <2>2. \A m \in Nodes : node'[m].grant = node[m].grant
    BY <1>1, <2>1, Added DEF AddRefs
  <2>3. PICK d : d = [opener[o] EXCEPT !.pc = "move"] /\ opener' = [opener EXCEPT ![o] = d]
    BY <1>9 DEF RefFound
  <2>4. d \in Calls /\ d.pc = "move" /\ d.grant = opener[o].grant
    BY <1>1, <2>3, GoFields
  <2> QED BY <1>2, <2>1, <2>2, <2>3, <2>4
<1>10. CASE Connect(o) /\ ~Return(o)
  <2>1. PICK n \in Nodes :
          /\ node[n] = Unborn
          /\ node' = [node EXCEPT ![n] = [Unborn EXCEPT !.where = "vNodes", !.nRefCount = 1,
                                                        !.addr = opener[o].addr]]
          /\ opener' = [opener EXCEPT ![o] = [opener[o] EXCEPT !.pc = "move", !.pnode = n, !.fresh = TRUE]]
          /\ UNCHANGED value
    BY <1>10 DEF Connect
  <2>2. opener[o].addr \in Addrs \cup {None} /\ opener[o].pc = "connect"
    BY <1>1, <1>10 DEF Calls, Connect
  <2>3. NodeTypes' /\ ~node'[n].grant /\ \A m \in Nodes \ {n} : Kept(m)
    BY <1>1, <2>1, <2>2, BornOutbound
  <2>4. node[n].grant = FALSE /\ node'[n].grant \in BOOLEAN
    BY <2>1, <2>3 DEF Unborn, NodeTypes, CNodes
  <2>5. \A m \in Nodes : node'[m].grant = node[m].grant
    BY <2>3, <2>4 DEF Kept
  <2>6. PICK d : /\ d = [opener[o] EXCEPT !.pc = "move", !.pnode = n, !.fresh = TRUE]
                 /\ opener' = [opener EXCEPT ![o] = d]
    BY <2>1
  <2>7. d \in Calls /\ d.pc = "move" /\ d.grant = opener[o].grant
    BY <1>1, <2>6, MakeFields
  <2> QED BY <1>2, <2>1, <2>2, <2>5, <2>6, <2>7
<1> QED BY <1>3, <1>5, <1>6, <1>7, <1>8, <1>9, <1>10

(***************************************************************************)
(* The slots of semOutbound are conserved: CSemaphoreGrant's MoveTo, its   *)
(* destructor and Release return every slot once, whichever thread does it *)
(* and whatever becomes of the node, for any number of nodes, of threads   *)
(* and of slots.                                                           *)
(***************************************************************************)
THEOREM SlotsKept == Spec => []SlotsConserved
<1>1. Init => Slots
  <2> SUFFICES ASSUME Init PROVE Slots
    OBVIOUS
  <2>1. \A o \in Openers : opener[o].pc = "idle" /\ ~opener[o].grant
    BY RestingFields DEF Init
  <2>2. Holders = {} /\ Granted = {}
    BY <2>1 DEF Init, Holders, Granted, Unborn
  <2>3. value = nMaxOutbound /\ value \in Int
    BY SMTT(20), ConnectionsAssumption DEF Init
  <2>4. value + Cardinality(Holders) + Cardinality(Granted) = nMaxOutbound
    BY SMTT(20), <2>2, <2>3, FS_EmptySet
  <2> QED BY <2>1, <2>3, <2>4, GrantsCount DEF Slots, SlotsConserved, Holders
<1>2. IInv /\ Slots /\ [Next]_cvars => Slots'
  <2> SUFFICES ASSUME IInv, Slots, [Next]_cvars PROVE Slots'
    OBVIOUS
  <2>1. CASE SocketStep \/ MessageStep
    BY <2>1, HandlerSlots
  <2>2. ASSUME NEW o \in Openers, Acquire(o) \/ OpenerStep(o)
        PROVE  Slots'
    BY <2>2, MoveSlots, CallSlots DEF OpenerStep
  <2>3. CASE UNCHANGED cvars
    BY <2>3, SlotsSame DEF cvars
  <2> QED BY <2>1, <2>2, <2>3 DEF Next
<1>3. Slots => SlotsConserved
  BY DEF Slots
<1> QED BY <1>1, <1>2, <1>3, Invariance, PTL DEF Spec
=============================================================================
