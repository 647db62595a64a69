------------------------------- MODULE Snapshot -------------------------------
(***************************************************************************)
(* Snap-sync: a fresh node fetches a copy of a peer's chain files, stages it  *)
(* in <datadir>/snapshot, restarts, and loads it in place of its own chain    *)
(* (main.cpp: CreateChainSnapshot, ApplySnapshotIfPresent, SnapReset,         *)
(* SnapFetchSendMessages and the "snapshot" and "snapchunk" handlers;         *)
(* init.cpp: the start of the node).                                          *)
(*                                                                          *)
(* A handler runs under cs_main and is one action.  The start of the node is  *)
(* one action for each file removed or renamed, since the process may die     *)
(* between any two.  A file is the chain it was copied from and its length;   *)
(* a peer's files grow with its chain and keep their prefix, so a hash is     *)
(* right exactly when chain and length are.  Clocks are ages, as in           *)
(* BlockDownload.                                                             *)
(***************************************************************************)
EXTENDS Integers, Sequences, FiniteSets, Functions

CONSTANTS
    Peers,
    ChainAt,               \* the chain a peer is on: "main", which has the hardened
                           \* checkpoints, or another
    Files,                 \* the sequence of files a manifest lists
    IndexFiles,            \* the ones of txleveldb
    Size,                  \* length of a file in a snapshot of version 0
    MaxGrow,               \* bound on the growth of the peers' files, together
    SNAP_CHUNK_BYTES, SNAP_PEER_TIMEOUT, SNAP_GIVEUP_SECONDS,
    Faults,                \* the kinds of fault: "crash", "disconnect", "disk"
    MaxFaults,             \* bound on their number
    MaxUnasked,            \* bound on the manifests a fetch takes without a request
    None

ASSUME SnapshotAssumption ==
    /\ Files \in Seq(STRING) /\ Files # <<>>
    /\ \A i, j \in DOMAIN Files : Files[i] = Files[j] => i = j
    /\ IndexFiles \subseteq {Files[i] : i \in DOMAIN Files}
    /\ ChainAt \in [Peers -> {"main", "other"}]
    /\ Size \in [{Files[i] : i \in DOMAIN Files} -> Nat \ {0}]
    /\ MaxGrow \in Nat /\ MaxFaults \in Nat /\ MaxUnasked \in Nat
    /\ Faults \subseteq {"crash", "disconnect", "disk"}
    /\ SNAP_CHUNK_BYTES \in Nat \ {0}
    /\ SNAP_PEER_TIMEOUT \in Nat /\ SNAP_GIVEUP_SECONDS \in Nat
    /\ None \notin Peers
    /\ None \notin [chain : {"own", "main", "other", "mixed"}, len : Nat]

VARIABLES
    data,           \* the chain files of the data directory, None for no file
    height,         \* of its chain: 0 below the gate of 1000 blocks, 1 above, 2 at the tip
    stage,          \* the files in <datadir>/snapshot,
    linked,         \*   those of them that are hard links to the chain files,
    manifest,       \*   its manifest.txt
    ready,          \*   and its READY marker
    rejected,       \* the snapshot-rejected marker
    pc,             \* how far the node has started
    cur,            \* the next file to rename while a snapshot is applied
    g_fSnapshotApplied,
    g_snap,
    requests,       \* getsnapshot and getsnapchunk messages not yet answered
    connected,
    live,           \* growth of each peer's files so far
    faults,         \* the number of faults so far
    diskFailed,     \* history: one of them was a failure of the disk
    bad             \* history: the chain in data failed the verification

faultVars == <<faults, diskFailed>>
disk == <<data, height, stage, linked, manifest, ready, rejected>>
peerVars == <<connected, live>>
vars == <<disk, pc, cur, g_fSnapshotApplied, g_snap, requests, peerVars, faultVars, bad>>

FileSet == {Files[i] : i \in DOMAIN Files}
Own == [chain |-> "own", len |-> 0]
NoFiles == [f \in FileSet |-> None]
OwnFiles == [f \in FileSet |-> Own]

\* A manifest names the chain and the length of its files; None is no manifest.
Expected(m, f) == IF m.chain = "own" THEN Own
                  ELSE [chain |-> m.chain, len |-> Size[f] + m.version]

Intact(files, m) == \A f \in FileSet : files[f] = Expected(m, f)

\* CSnapFetch at its start; nUnasked, which the code does not have, counts the
\* manifests taken without a request.
NoFetch == [fWanted |-> FALSE, nPeer |-> None, manifest |-> None,
            nCurFile |-> 1, nCurOffset |-> 0, setAsked |-> {},
            nWantStart |-> 0, nLastProgress |-> 0, nUnasked |-> 0]

SnapFetching == g_snap.fWanted /\ g_snap.nPeer # None

Fault(kind) ==
    /\ kind \in Faults
    /\ faults < MaxFaults
    /\ faults' = faults + 1
    /\ diskFailed' = (diskFailed \/ kind = "disk")

\* fs::remove_all(GetSnapshotDir())
RemoveStaging == stage' = NoFiles /\ linked' = {} /\ manifest' = None /\ ready' = FALSE

\* The process ends, and its memory is lost.
Stop ==
    /\ pc' = "down" /\ cur' = 1 /\ g_fSnapshotApplied' = FALSE
    /\ g_snap' = NoFetch /\ requests' = {}
-----------------------------------------------------------------------------
(* The start of the node (AppInit2).                                         *)

\* A new process.
Start ==
    /\ pc = "down"
    /\ pc' = IF rejected THEN "wipe" ELSE "apply"
    /\ UNCHANGED <<disk, cur, g_fSnapshotApplied, g_snap, requests, peerVars, faultVars, bad>>

\* The chain files are removed one by one, the block files before the index.
RemoveFile(f) ==
    /\ data[f] # None
    /\ f \in IndexFiles => \A g \in FileSet \ IndexFiles : data[g] = None
    /\ data' = [data EXCEPT ![f] = None]
    /\ height' = 0
    /\ bad' = (bad /\ data' # NoFiles)

\* Mutant: the marker may go before the chain.
WipeRejectedMarkerFirst ==
    /\ pc = "wipe"
    /\ \/ /\ \E f \in FileSet : RemoveFile(f)
          /\ UNCHANGED <<stage, linked, manifest, ready, rejected, pc, faultVars>>
       \/ /\ RemoveStaging
          /\ rejected' = FALSE
          /\ pc' = "apply"
          /\ UNCHANGED <<data, height, bad, faultVars>>
    /\ UNCHANGED <<cur, g_fSnapshotApplied, g_snap, requests, peerVars>>

\* A chain that failed the verification is wiped, then the staging directory and
\* the marker; where the disk fails, the start goes on.
WipeRejected ==
    /\ pc = "wipe"
    /\ \/ /\ \E f \in FileSet : RemoveFile(f)
          /\ UNCHANGED <<stage, linked, manifest, ready, rejected, pc, faultVars>>
       \/ /\ data = NoFiles
          /\ RemoveStaging
          /\ rejected' = FALSE
          /\ pc' = "apply"
          /\ UNCHANGED <<data, height, bad, faultVars>>
       \/ /\ Fault("disk")
          /\ pc' = "apply"
          /\ UNCHANGED <<disk, bad>>
    /\ UNCHANGED <<cur, g_fSnapshotApplied, g_snap, requests, peerVars>>

\* Mutant: only the presence of the files is checked.
SnapshotIntactExists == \A f \in FileSet : stage[f] # None

\* Every file staged has the hash of the manifest.
SnapshotIntact == Intact(stage, manifest)

\* ApplySnapshotIfPresent, up to the first change of the chain files: a snapshot
\* this node fetched, or one put there by hand into an empty data directory.
ApplySnapshot ==
    /\ pc = "apply"
    /\ IF manifest = None \/ (~ready /\ data # NoFiles)
       THEN pc' = "load" /\ UNCHANGED <<stage, linked, manifest, ready>>
       ELSE IF SnapshotIntact
       THEN pc' = "replace" /\ UNCHANGED <<stage, linked, manifest, ready>>
       ELSE pc' = "load" /\ RemoveStaging
    /\ UNCHANGED <<data, height, rejected, cur, g_fSnapshotApplied, g_snap, requests,
                   peerVars, faultVars, bad>>

\* The old chain is removed, if there is one,
RemoveOldChain ==
    /\ pc = "replace"
    /\ \/ /\ \E f \in FileSet : RemoveFile(f)
          /\ UNCHANGED <<pc, cur>>
       \/ /\ data = NoFiles
          /\ pc' = "rename" /\ cur' = 1
          /\ UNCHANGED <<data, height, bad>>
    /\ UNCHANGED <<stage, linked, manifest, ready, rejected, g_fSnapshotApplied, g_snap,
                   requests, peerVars, faultVars>>

\* the files of the snapshot are renamed into its place, in the manifest's order,
RenameFile ==
    /\ pc = "rename"
    /\ cur \in DOMAIN Files
    /\ data' = [data EXCEPT ![Files[cur]] = stage[Files[cur]]]
    /\ stage' = [stage EXCEPT ![Files[cur]] = None]
    /\ linked' = linked \ {Files[cur]}
    /\ height' = 1
    /\ cur' = cur + 1
    /\ UNCHANGED <<manifest, ready, rejected, pc, g_fSnapshotApplied, g_snap, requests,
                   peerVars, faultVars, bad>>

\* and the staging directory goes.  Where a removal or a rename fails, the start
\* goes on with what there is (see ApplyFails).
SnapshotApplied ==
    /\ pc = "rename"
    /\ cur \notin DOMAIN Files
    /\ RemoveStaging
    /\ g_fSnapshotApplied' = TRUE
    /\ pc' = "load"
    /\ UNCHANGED <<data, height, rejected, cur, g_snap, requests, peerVars, faultVars, bad>>

\* The exception is caught; the staging directory stays.
ApplyFails ==
    /\ pc \in {"replace", "rename"}
    /\ pc = "rename" => cur \in DOMAIN Files
    /\ Fault("disk")
    /\ pc' = "load" /\ cur' = 1
    /\ UNCHANGED <<disk, g_fSnapshotApplied, g_snap, requests, peerVars, bad>>

\* The files are those of one chain at one time.
Whole(files) ==
    \/ files = OwnFiles
    \/ \E p \in Peers, v \in 0..MaxGrow : Intact(files, [chain |-> ChainAt[p], version |-> v])

\* LoadBlockIndex: an empty index starts from the genesis block; an index that
\* is not whole, or has lost its blocks, does not load.
LoadBlockIndex ==
    /\ pc = "load"
    /\ \/ /\ \A f \in IndexFiles : data[f] = None
          /\ data' = OwnFiles /\ height' = 0 /\ bad' = FALSE
          /\ pc' = "verify"
          /\ UNCHANGED <<cur, g_fSnapshotApplied, g_snap, requests>>
       \/ /\ Whole(data)
          /\ pc' = "verify"
          /\ UNCHANGED <<data, height, bad, cur, g_fSnapshotApplied, g_snap, requests>>
       \/ /\ ~Whole(data) /\ \E f \in IndexFiles : data[f] # None
          /\ Stop
          /\ UNCHANGED <<data, height, bad>>
    /\ UNCHANGED <<stage, linked, manifest, ready, rejected, peerVars, faultVars>>

\* Checkpoints::VerifyHardenedInChain
VerifyHardenedInChain == \A f \in FileSet : data[f].chain # "other"

\* The snapshot just applied is verified; a wrong one leaves its marker, unless
\* the disk fails, and the node stops.  A node below the gate then
\* wants a snapshot.
VerifySnapshot ==
    /\ pc = "verify"
    /\ IF g_fSnapshotApplied /\ ~VerifyHardenedInChain
       THEN /\ Stop
            /\ \/ rejected' = TRUE /\ RemoveStaging /\ UNCHANGED faultVars
               \/ /\ Fault("disk")
                  /\ UNCHANGED <<rejected, stage, linked, manifest, ready>>
            /\ bad' = TRUE
       ELSE /\ pc' = "run"
            /\ g_snap' = [NoFetch EXCEPT !.fWanted = ~g_fSnapshotApplied /\ height = 0]
            /\ UNCHANGED <<rejected, stage, linked, manifest, ready, faultVars, bad, cur,
                           g_fSnapshotApplied, requests>>
    /\ UNCHANGED <<data, height, peerVars>>

\* The process dies.
Crash ==
    /\ pc # "down"
    /\ Fault("crash")
    /\ Stop
    /\ UNCHANGED <<disk, peerVars, bad>>
-----------------------------------------------------------------------------
(* The fetch.                                                                *)

\* The client forgets what it has; discovery starts again.
SnapReset ==
    /\ g_snap' = [g_snap EXCEPT !.nPeer = None, !.manifest = None, !.nCurFile = 1,
                                !.nCurOffset = 0, !.setAsked = {}, !.nLastProgress = 0]
    /\ RemoveStaging

\* SnapFetchSendMessages for the peer p, in every pass of the handler loop: give
\* up, ask, or abandon a silent peer.
GivesUp == g_snap.nPeer = None /\ g_snap.nWantStart > SNAP_GIVEUP_SECONDS

SnapGiveUp(p) ==
    /\ GivesUp
    /\ g_snap' = NoFetch
    /\ RemoveStaging
    /\ requests' = {}          \* the answers are ignored from now on

SnapAsk(p) ==
    /\ ~GivesUp /\ g_snap.nPeer = None /\ p \notin g_snap.setAsked
    /\ g_snap' = [g_snap EXCEPT !.setAsked = @ \cup {p}]
    /\ requests' = requests \cup {[peer |-> p, file |-> None, offset |-> 0]}
    /\ UNCHANGED <<stage, linked, manifest, ready>>

\* Mutant: a silent peer is never abandoned.
SnapAbandonNever(p) == FALSE /\ SnapReset /\ UNCHANGED requests

SnapAbandon(p) ==
    /\ g_snap.nPeer = p /\ g_snap.nLastProgress > SNAP_PEER_TIMEOUT
    /\ SnapReset
    /\ UNCHANGED requests

SnapFetchSendMessages(p) ==
    /\ pc = "run" /\ p \in connected
    /\ g_snap.fWanted
    /\ SnapGiveUp(p) \/ SnapAsk(p) \/ SnapAbandon(p)
    /\ UNCHANGED <<data, height, rejected, pc, cur, g_fSnapshotApplied, peerVars, faultVars, bad>>

\* "snapshot": the manifest of a peer that has staged its files when they had
\* grown by v.  The first one is taken, whether this node has asked for it or not,
\* unless the staging directory cannot be made.  The chunks asked for in an earlier
\* attempt are ignored, or are those this attempt asks for, so they are forgotten.
RecvSnapshot(p, v) ==
    LET req == [peer |-> p, file |-> None, offset |-> 0]
        left == requests \ {req}
        wanted == g_snap.fWanted /\ g_snap.nPeer = None
        unasked == IF req \in requests THEN 0 ELSE 1
    IN
    /\ pc = "run"
    /\ p \in connected
    /\ v \in 0..live[p]
    /\ \/ /\ ~wanted
          /\ requests' = left
          /\ UNCHANGED <<g_snap, stage, linked, manifest, ready, faultVars>>
       \/ /\ wanted
          /\ g_snap.nUnasked + unasked <= MaxUnasked
          /\ g_snap' = [g_snap EXCEPT !.nPeer = p, !.nCurFile = 1, !.nCurOffset = 0,
                             !.manifest = [chain |-> ChainAt[p], version |-> v],
                             !.nLastProgress = 0, !.nUnasked = @ + unasked]
          /\ requests' = {r \in left : r.file = None} \cup {[peer |-> p, file |-> 1, offset |-> 0]}
          /\ UNCHANGED <<stage, linked, manifest, ready, faultVars>>
       \/ /\ wanted
          /\ Fault("disk")
          /\ SnapReset
          /\ requests' = left
    /\ UNCHANGED <<data, height, rejected, pc, cur, g_fSnapshotApplied, peerVars, bad>>

\* fopen with "wb" for the first chunk and "ab" for the others: what n more bytes
\* of the chain c make of the file f.
Appended(f, c, n) ==
    LET begun == stage[f] = [chain |-> c, len |-> g_snap.nCurOffset]
    IN  [chain |-> IF g_snap.nCurOffset = 0 \/ begun THEN c ELSE "mixed",
         len |-> g_snap.nCurOffset + n]

\* A hard link is the chain file itself.
Write(f, content) ==
    /\ stage' = [stage EXCEPT ![f] = content]
    /\ data' = IF f \in linked THEN [data EXCEPT ![f] = content] ELSE data

\* The bytes the peer reads at an offset of its file.
Chunk(p, i, offset) ==
    LET left == Size[Files[i]] + live[p] - offset
    IN  IF left < 0 THEN 0 ELSE IF left < SNAP_CHUNK_BYTES THEN left ELSE SNAP_CHUNK_BYTES

\* "snapchunk" with n bytes: written, if the file can be opened, and, when the file
\* is complete, checked against the manifest.  After the last file the manifest and
\* READY are written and the node restarts.
RecvSnapChunk(req, n) ==
    LET p == req.peer
        i == g_snap.nCurFile
        f == Files[i]
        content == Appended(f, ChainAt[p], n)
        done == n = 0 \/ content.len >= Expected(g_snap.manifest, f).len
        next == IF done THEN [peer |-> p, file |-> i + 1, offset |-> 0]
                ELSE [peer |-> p, file |-> i, offset |-> content.len]
        ignored == \/ ~g_snap.fWanted \/ g_snap.nPeer # p
                   \/ req.file # i \/ req.offset # g_snap.nCurOffset
        wrong == done /\ content # Expected(g_snap.manifest, f)
        last == done /\ i = Len(Files)
    IN
    /\ pc = "run"
    /\ req \in requests /\ req.file # None
    /\ n \in {0, Chunk(p, req.file, req.offset)}
    /\ \/ /\ ignored
          /\ requests' = requests \ {req}
          /\ UNCHANGED <<disk, g_snap, pc, cur, g_fSnapshotApplied, faultVars>>
       \/ /\ ~ignored
          /\ Fault("disk")
          /\ requests' = requests \ {req}
          /\ SnapReset
          /\ UNCHANGED <<data, height, rejected, pc, cur, g_fSnapshotApplied>>
       \/ /\ ~ignored /\ wrong
          /\ requests' = requests \ {req}
          /\ SnapReset
          /\ data' = IF f \in linked THEN [data EXCEPT ![f] = content] ELSE data
          /\ UNCHANGED <<height, rejected, pc, cur, g_fSnapshotApplied, faultVars>>
       \/ /\ ~ignored /\ ~wrong /\ ~last
          /\ Write(f, content)
          /\ g_snap' = [g_snap EXCEPT !.nCurFile = next.file, !.nCurOffset = next.offset,
                                      !.nLastProgress = 0]
          /\ requests' = (requests \ {req}) \cup {next}
          /\ UNCHANGED <<height, linked, manifest, ready, rejected, pc, cur, g_fSnapshotApplied,
                         faultVars>>
       \/ /\ ~ignored /\ ~wrong /\ last
          /\ Write(f, content)
          /\ manifest' = g_snap.manifest
          /\ \/ ready' = TRUE /\ UNCHANGED faultVars
             \/ ready' = FALSE /\ Fault("crash")     \* between the two files
          /\ Stop
          /\ UNCHANGED <<height, linked, rejected>>
    /\ UNCHANGED <<peerVars, bad>>
-----------------------------------------------------------------------------
(* The rest of the node, the peers and time.                                 *)

\* Blocks arrive; not while a snapshot is fetched.
Sync ==
    /\ pc = "run"
    /\ ~SnapFetching
    /\ height < 2
    /\ height' = height + 1
    /\ UNCHANGED <<data, stage, linked, manifest, ready, rejected, pc, cur, g_fSnapshotApplied,
                   g_snap, requests, peerVars, faultVars, bad>>

\* A synced node stages its own chain for others, as hard links
\* (MaybeCreateAutoSnapshot, CreateChainSnapshot).
CreateChainSnapshot ==
    /\ pc = "run"
    /\ height = 2
    /\ stage' = data /\ linked' = FileSet
    /\ manifest' = [chain |-> "own", version |-> 0] /\ ready' = FALSE
    /\ UNCHANGED <<data, height, rejected, pc, cur, g_fSnapshotApplied, g_snap, requests,
                   peerVars, faultVars, bad>>

Disconnect(p) ==
    /\ p \in connected
    /\ Fault("disconnect")
    /\ connected' = connected \ {p}
    /\ requests' = {r \in requests : r.peer # p}
    /\ UNCHANGED <<disk, pc, cur, g_fSnapshotApplied, g_snap, live, bad>>

\* A peer's chain, and with it every file it serves, grows.  Only growth since its
\* manifest can be told from here, so it matters while the node fetches from it.
Grow(p) ==
    /\ pc = "run" /\ SnapFetching /\ g_snap.nPeer = p
    /\ SumFunction(live) < MaxGrow
    /\ live' = [live EXCEPT ![p] = @ + 1]
    /\ UNCHANGED <<disk, pc, cur, g_fSnapshotApplied, g_snap, requests, connected, faultVars, bad>>

Older(age, max) == IF age <= max THEN age + 1 ELSE age

Tick ==
    /\ pc = "run"
    /\ g_snap.fWanted
    /\ g_snap' = [g_snap EXCEPT !.nWantStart = Older(@, SNAP_GIVEUP_SECONDS),
                                !.nLastProgress = Older(@, SNAP_PEER_TIMEOUT)]
    /\ UNCHANGED <<disk, pc, cur, g_fSnapshotApplied, requests, peerVars, faultVars, bad>>
-----------------------------------------------------------------------------
\* A fresh data directory, or one with a snapshot put there by hand.
Init ==
    /\ data = NoFiles /\ height = 0
    /\ \/ stage = NoFiles /\ manifest = None
       \/ \E p \in Peers : /\ manifest = [chain |-> ChainAt[p], version |-> 0]
                           /\ stage = [f \in FileSet |-> Expected(manifest, f)]
    /\ linked = {} /\ ready = FALSE /\ rejected = FALSE
    /\ pc = "down" /\ cur = 1
    /\ g_fSnapshotApplied = FALSE
    /\ g_snap = NoFetch
    /\ requests = {}
    /\ connected = Peers
    /\ live = [p \in Peers |-> 0]
    /\ faults = 0 /\ diskFailed = FALSE
    /\ bad = FALSE

Startup ==
    \/ Start \/ WipeRejected \/ ApplySnapshot \/ RemoveOldChain \/ RenameFile
    \/ SnapshotApplied \/ ApplyFails \/ LoadBlockIndex \/ VerifySnapshot

Next ==
    \/ Startup \/ Crash \/ Sync \/ CreateChainSnapshot \/ Tick
    \/ \E p \in Peers :
         \/ SnapFetchSendMessages(p) \/ Disconnect(p) \/ Grow(p)
         \/ \E v \in 0..MaxGrow : RecvSnapshot(p, v)
    \/ \E req \in requests : \E n \in 0..SNAP_CHUNK_BYTES : RecvSnapChunk(req, n)

Spec == Init /\ [][Next]_vars

\* The process goes on, time passes and the handler loop serves every peer that
\* is connected; the peers may stay silent.
FairSpec ==
    /\ Spec
    /\ WF_vars(Startup) /\ WF_vars(Tick)
    /\ \A p \in Peers : WF_vars(SnapFetchSendMessages(p))
-----------------------------------------------------------------------------
\* However often the process dies while a snapshot is fetched, staged or renamed,
\* what is loaded as an applied snapshot is one peer's files of one time.
AppliedWhole == g_fSnapshotApplied /\ pc \in {"load", "verify"} => Whole(data)

\* A chain that failed the verification is never run on by a later start, as long
\* as the disk obeys: the marker outlives every crash until the chain is gone.
RejectedNeverRuns == pc = "run" /\ ~diskFailed => ~bad

\* A fetch ends, with a snapshot or by giving up, however the peers delay or drop
\* their answers, outgrow their manifests or offer one unasked, unless the peer it
\* has settled on disconnects or none is left.  Manifests nobody asked for come
\* MaxUnasked times at most: each may follow a failed download before the next pass
\* gives up, so peers that never stop sending them keep the fetch alive.
FetchEnds == (pc = "run" /\ g_snap.fWanted) ~>
             \/ pc # "run" \/ ~g_snap.fWanted
             \/ SnapFetching /\ g_snap.nPeer \notin connected
             \/ connected = {}
=============================================================================
