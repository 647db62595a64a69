----------------------------- MODULE Connections -----------------------------
(***************************************************************************)
(* The life of a CNode: it is made by a thread that opens connections or by *)
(* the socket handler, used by the socket and message handlers through      *)
(* counted references, taken out of vNodes when it is to be disconnected,   *)
(* and deleted when no reference is left.  An outbound connection holds one *)
(* of the slots of semOutbound.                                             *)
(*                                                                          *)
(* A step is what a thread does under cs_vNodes, or one access to a node    *)
(* without it.  The socket handler holds cs_vNodes during its whole pass    *)
(* over the nodes to disconnect.  Every CNode is a new object.              *)
(***************************************************************************)
EXTENDS Integers, FiniteSets

CONSTANTS
    Nodes,              \* the CNode objects
    Addrs,
    Openers,            \* ThreadOpenConnections, ThreadOpenAddedConnections
    nMaxOutbound,
    nMaxInbound,
    None

\* The threads, the nodes and the slots there are.
ASSUME ConnectionsAssumption ==
    IsFiniteSet(Nodes) /\ IsFiniteSet(Openers) /\ nMaxOutbound \in Nat

VARIABLES
    node,               \* the members of each CNode
    value,              \* semOutbound
    pnodeSync,
    socket,             \* ThreadSocketHandler2
    message,            \* ThreadMessageHandler2
    opener              \* OpenNetworkConnection, in each of the opening threads

cvars == <<node, value, pnodeSync, socket, message, opener>>

Unborn == [where |-> "unborn", addr |-> None, nRefCount |-> 0, fDisconnect |-> FALSE,
           fNetworkNode |-> FALSE, fInbound |-> FALSE, grant |-> FALSE]
Resting == [pc |-> "idle", addr |-> None, named |-> FALSE, grant |-> FALSE, pnode |-> None, fresh |-> FALSE]

vNodes == {n \in Nodes : node[n].where = "vNodes"}
vNodesDisconnected == {n \in Nodes : node[n].where = "disconnected"}

\* cs_vNodes is free.
Unlocked == socket.pc \notin {"pass", "release"}

Grants(S) == Cardinality({n \in S : node[n].grant})
-----------------------------------------------------------------------------
AddRefs(S) == node' = [n \in Nodes |-> IF n \in S THEN [node[n] EXCEPT !.nRefCount = @ + 1] ELSE node[n]]
Releases(S) == node' = [n \in Nodes |-> IF n \in S THEN [node[n] EXCEPT !.nRefCount = @ - 1] ELSE node[n]]

\* CloseSocketDisconnect: fDisconnect, and no sync node if it was n.
CloseSocketDisconnect(n) ==
    /\ node' = [node EXCEPT ![n].fDisconnect = TRUE]
    /\ pnodeSync' = IF pnodeSync = n THEN None ELSE pnodeSync

\* What a handler may find wrong with a node: the socket is closed, or the node is
\* only marked.
Fails(n) ==
    \/ CloseSocketDisconnect(n)
    \/ node' = [node EXCEPT ![n].fDisconnect = TRUE] /\ UNCHANGED pnodeSync
-----------------------------------------------------------------------------
(* ThreadSocketHandler2.                                                    *)

\* The lock is taken and vNodes copied.
BeginPass ==
    /\ socket.pc = "top"
    /\ socket' = [socket EXCEPT !.pc = "pass", !.todo = vNodes]
    /\ UNCHANGED <<node, value, pnodeSync, message, opener>>

\* A node that is to be disconnected leaves vNodes, and its slot is returned.
TakeOut ==
    /\ socket.pc = "pass"
    /\ \E n \in socket.todo :
        /\ node[n].fDisconnect \/ node[n].nRefCount <= 0
        /\ node' = [node EXCEPT ![n] = [@ EXCEPT !.where = "disconnected", !.fDisconnect = TRUE, !.grant = FALSE]]
        /\ value' = value + Grants({n})
        /\ pnodeSync' = IF pnodeSync = n THEN None ELSE pnodeSync
        /\ socket' = [socket EXCEPT !.pc = "release", !.todo = @ \ {n}, !.pnode = n]
    /\ UNCHANGED <<message, opener>>

\* Mutant: the first reference is dropped whether or not the node is complete.
DropFirstRefAlways ==
    /\ socket.pc = "release"
    /\ Releases({socket.pnode})
    /\ socket' = [socket EXCEPT !.pc = "pass", !.pnode = None]
    /\ UNCHANGED <<value, pnodeSync, message, opener>>

\* The reference the node was made with goes, if its maker has completed it.
DropFirstRef ==
    /\ socket.pc = "release"
    /\ Releases({n \in {socket.pnode} : node[n].fNetworkNode \/ node[n].fInbound})
    /\ socket' = [socket EXCEPT !.pc = "pass", !.pnode = None]
    /\ UNCHANGED <<value, pnodeSync, message, opener>>

Keep ==
    /\ socket.pc = "pass"
    /\ \E n \in socket.todo :
        /\ ~(node[n].fDisconnect \/ node[n].nRefCount <= 0)
        /\ socket' = [socket EXCEPT !.todo = @ \ {n}]
    /\ UNCHANGED <<node, value, pnodeSync, message, opener>>

\* The disconnected nodes nobody refers to are deleted, and the lock released.  A
\* slot such a node still has is returned by its destructor.
DeleteUnreferenced ==
    /\ socket.pc = "pass" /\ socket.todo = {}
    /\ LET gone == {n \in vNodesDisconnected : node[n].nRefCount <= 0}
       IN  /\ node' = [n \in Nodes |-> IF n \in gone
                                       THEN [node[n] EXCEPT !.where = "deleted", !.grant = FALSE]
                                       ELSE node[n]]
           /\ value' = value + Grants(gone)
    /\ socket' = [socket EXCEPT !.pc = "accept"]
    /\ UNCHANGED <<pnodeSync, message, opener>>

\* A connection comes in, or none does.
Accept ==
    /\ socket.pc = "accept"
    /\ \/ UNCHANGED node
       \/ \E n \in Nodes, a \in Addrs :
            /\ node[n] = Unborn
            /\ Cardinality({m \in vNodes : node[m].fInbound}) < nMaxInbound
            /\ node' = [node EXCEPT ![n] = [Unborn EXCEPT !.where = "vNodes", !.addr = a,
                                                          !.nRefCount = 1, !.fInbound = TRUE]]
    /\ socket' = [socket EXCEPT !.pc = "copy"]
    /\ UNCHANGED <<value, pnodeSync, message, opener>>

SocketCopy ==
    /\ socket.pc = "copy"
    /\ AddRefs(vNodes)
    /\ socket' = [socket EXCEPT !.pc = "service", !.copy = vNodes]
    /\ UNCHANGED <<value, pnodeSync, message, opener>>

\* Receive, send and the inactivity checks find something wrong with a node.
Service ==
    /\ socket.pc = "service"
    /\ \E n \in socket.copy : Fails(n)
    /\ UNCHANGED <<value, socket, message, opener>>

SocketRelease ==
    /\ socket.pc = "service"
    /\ Releases(socket.copy)
    /\ socket' = [socket EXCEPT !.pc = "top", !.copy = {}]
    /\ UNCHANGED <<value, pnodeSync, message, opener>>
-----------------------------------------------------------------------------
(* ThreadMessageHandler2.                                                   *)

MessageCopy ==
    /\ message.pc = "copy" /\ Unlocked
    /\ AddRefs(vNodes)
    /\ message' = [message EXCEPT !.pc = "sync", !.copy = vNodes,
                                  !.fHaveSyncNode = pnodeSync \in vNodes]
    /\ UNCHANGED <<value, pnodeSync, socket, opener>>

\* StartSync chooses among the nodes that looked connected, if there is one.
StartSync ==
    /\ message.pc = "sync"
    /\ \/ /\ ~message.fHaveSyncNode
          /\ \E n \in message.copy :
                ~node[n].fDisconnect /\ message' = [message EXCEPT !.pc = "start", !.pSync = n]
       \/ message' = [message EXCEPT !.pc = "watch"]
    /\ UNCHANGED <<node, value, pnodeSync, socket, opener>>

SetSync ==
    /\ message.pc = "start"
    /\ pnodeSync' = message.pSync
    /\ message' = [message EXCEPT !.pc = "watch", !.pSync = None]
    /\ UNCHANGED <<node, value, socket, opener>>

\* The stall watchdog reads the global once and may find the tip stalled.
Watch ==
    /\ message.pc = "watch"
    /\ \/ /\ message.fHaveSyncNode /\ pnodeSync # None
          /\ message' = [message EXCEPT !.pc = "drop", !.pSync = pnodeSync]
       \/ message' = [message EXCEPT !.pc = "messages"]
    /\ UNCHANGED <<node, value, pnodeSync, socket, opener>>

DropSyncPeer ==
    /\ message.pc = "drop"
    /\ node' = [node EXCEPT ![message.pSync].fDisconnect = TRUE]
    /\ pnodeSync' = None
    /\ message' = [message EXCEPT !.pc = "messages", !.pSync = None]
    /\ UNCHANGED <<value, socket, opener>>

\* ProcessMessages or SendMessages disconnects a node.
Messages ==
    /\ message.pc = "messages"
    /\ \E n \in message.copy : ~node[n].fDisconnect /\ Fails(n)
    /\ UNCHANGED <<value, socket, message, opener>>

MessageRelease ==
    /\ message.pc = "messages" /\ Unlocked
    /\ Releases(message.copy)
    /\ message' = [message EXCEPT !.pc = "copy", !.copy = {}, !.fHaveSyncNode = FALSE]
    /\ UNCHANGED <<value, pnodeSync, socket, opener>>
-----------------------------------------------------------------------------
(* The threads that open connections.                                       *)

\* CSemaphoreGrant grant(*semOutbound), and an address or a name is chosen.
Acquire(o) ==
    /\ opener[o].pc = "idle"
    /\ value > 0
    /\ value' = value - 1
    /\ \E a \in Addrs, named \in BOOLEAN :
          opener' = [opener EXCEPT ![o] = [Resting EXCEPT !.pc = "check", !.addr = a,
                                                          !.named = named, !.grant = TRUE]]
    /\ UNCHANGED <<node, pnodeSync, socket, message>>

\* OpenNetworkConnection returns false, or no address was found: ~CSemaphoreGrant.
Return(o) ==
    /\ value' = value + (IF opener[o].grant THEN 1 ELSE 0)
    /\ opener' = [opener EXCEPT ![o] = Resting]
    /\ UNCHANGED <<node, pnodeSync, socket, message>>

\* FindNode of the address; a connection that is refused for another reason (a ban,
\* a local address, a name that is connected) returns here as well.
CheckAddr(o) ==
    /\ opener[o].pc = "check" /\ Unlocked
    /\ \/ Return(o)
       \/ /\ opener[o].named \/ \A n \in vNodes : node[n].addr # opener[o].addr
          /\ opener' = [opener EXCEPT ![o] = [@ EXCEPT !.pc = IF opener[o].named THEN "connect" ELSE "find",
                                                       !.named = FALSE]]
          /\ UNCHANGED <<node, value, pnodeSync, socket, message>>

\* ConnectNode looks for an existing connection once more.
FindAgain(o) ==
    /\ opener[o].pc = "find" /\ Unlocked
    /\ \/ \E n \in vNodes :
            /\ node[n].addr = opener[o].addr
            /\ opener' = [opener EXCEPT ![o] = [@ EXCEPT !.pc = "found", !.pnode = n]]
       \/ /\ \A n \in vNodes : node[n].addr # opener[o].addr
          /\ opener' = [opener EXCEPT ![o].pc = "connect"]
    /\ UNCHANGED <<node, value, pnodeSync, socket, message>>

\* AddRef of the node that was found, without the lock.
RefFound(o) ==
    /\ opener[o].pc = "found"
    /\ AddRefs({opener[o].pnode})
    /\ opener' = [opener EXCEPT ![o].pc = "move"]
    /\ UNCHANGED <<value, pnodeSync, socket, message>>

\* The socket is connected, or not.
Connect(o) ==
    /\ opener[o].pc = "connect" /\ Unlocked
    /\ \/ Return(o)
       \/ \E n \in Nodes :
            /\ node[n] = Unborn
            /\ node' = [node EXCEPT ![n] = [Unborn EXCEPT !.where = "vNodes", !.nRefCount = 1,
                                                          !.addr = opener[o].addr]]
            /\ opener' = [opener EXCEPT ![o] = [@ EXCEPT !.pc = "move", !.pnode = n, !.fresh = TRUE]]
            /\ UNCHANGED <<value, pnodeSync, socket, message>>

\* Mutant: a slot the node has already is forgotten.
MoveGrantOver(o) ==
    /\ opener[o].pc = "move"
    /\ node' = [node EXCEPT ![opener[o].pnode].grant = opener[o].grant]
    /\ opener' = [opener EXCEPT ![o] = [@ EXCEPT !.pc = "mark", !.grant = FALSE]]
    /\ UNCHANGED <<value, pnodeSync, socket, message>>

\* MoveTo: a slot the node has already is returned first.
MoveGrant(o) ==
    /\ opener[o].pc = "move"
    /\ value' = value + Grants({opener[o].pnode})
    /\ node' = [node EXCEPT ![opener[o].pnode].grant = opener[o].grant]
    /\ opener' = [opener EXCEPT ![o] = [@ EXCEPT !.pc = "mark", !.grant = FALSE]]
    /\ UNCHANGED <<pnodeSync, socket, message>>

\* fNetworkNode completes the node.
Mark(o) ==
    /\ opener[o].pc = "mark"
    /\ node' = [node EXCEPT ![opener[o].pnode].fNetworkNode = TRUE]
    /\ opener' = [opener EXCEPT ![o] = Resting]
    /\ UNCHANGED <<value, pnodeSync, socket, message>>
-----------------------------------------------------------------------------
Init ==
    /\ node = [n \in Nodes |-> Unborn]
    /\ value = nMaxOutbound
    /\ pnodeSync = None
    /\ socket = [pc |-> "top", todo |-> {}, copy |-> {}, pnode |-> None]
    /\ message = [pc |-> "copy", copy |-> {}, fHaveSyncNode |-> FALSE, pSync |-> None]
    /\ opener = [o \in Openers |-> Resting]

SocketStep ==
    \/ BeginPass \/ TakeOut \/ DropFirstRef \/ Keep \/ DeleteUnreferenced
    \/ Accept \/ SocketCopy \/ Service \/ SocketRelease

MessageStep ==
    MessageCopy \/ StartSync \/ SetSync \/ Watch \/ DropSyncPeer \/ Messages \/ MessageRelease

OpenerStep(o) ==
    CheckAddr(o) \/ FindAgain(o) \/ RefFound(o) \/ Connect(o) \/ MoveGrant(o) \/ Mark(o)

Next ==
    \/ SocketStep
    \/ MessageStep
    \/ \E o \in Openers : Acquire(o) \/ OpenerStep(o)

Spec == Init /\ [][Next]_cvars

-----------------------------------------------------------------------------
(* Properties.                                                              *)

Alive(n) == node[n].where # "deleted"

\* "wait until threads are done using it" (ThreadSocketHandler2): the nodes the
\* handlers have copied, and a node its maker is completing, are not deleted,
\* although the maker holds no reference of its own.  "pSync is either that live node
\* or NULL" (the watchdog of ThreadMessageHandler2), although the socket handler
\* changes pnodeSync at any time and StartSync may have chosen a node that has been
\* disconnected since.
UsedAreAlive ==
    /\ \A n \in socket.copy \cup message.copy : Alive(n)
    /\ \A o \in Openers : opener[o].fresh => Alive(opener[o].pnode)
    /\ message.pc = "drop" => message.pSync \in message.copy

\* No slot is made or lost: each is free, with an opening thread, or with a node.
SlotsConserved ==
    value + Cardinality({o \in Openers : opener[o].grant}) + Grants(Nodes) = nMaxOutbound
=============================================================================
