------------------------------ MODULE KeyPool --------------------------------
(***************************************************************************)
(* The keys of a wallet: the key pool, its users (CReserveKey), locking, the *)
(* encryption of the wallet, the rewriting of wallet.dat (CDB::Rewrite), and *)
(* what a crash leaves in the file.                                          *)
(*                                                                          *)
(* A key is the number it was generated with.  Except for KeepKey, which    *)
(* one Berkeley DB write makes atomic, every operation holds cs_wallet and  *)
(* is a step; EncryptWallet and CDB::Rewrite are several, since the process *)
(* may die between any two of their writes.  Each write outside a           *)
(* transaction reaches the file at once (DB_AUTO_COMMIT).  CDB::Rewrite     *)
(* holds bitdb.cs_db and so keeps every other user from the file.           *)
(***************************************************************************)
EXTENDS Integers, FiniteSets, FiniteSetsExt

CONSTANTS
    Clients,            \* the CReserveKey objects
    Target,             \* -keypool
    MaxKeys,            \* bound on the number of keys generated
    MaxCompactions      \* bound on the number of times the file is compacted

ASSUME KeyPoolAssumption == Target \in Nat /\ MaxCompactions \in Nat

VARIABLES
    dat,                \* wallet.dat: key, ckey, mkey and pool records
    rewrite,            \* wallet.dat.rewrite, likewise
    mem,                \* CWallet: whether running, its keys, setKeyPool, locked
    held,               \* the index and key each client has reserved
    encrypting,         \* how far EncryptWallet, or CDB::Rewrite, is
    generated,          \* the number of keys generated
    kept,               \* keys taken from the pool for good
    reused,             \* history: the index of a reserved key was written again
    merged,             \* history: CDB::Rewrite has copied into an earlier copy
    stranded,           \* history: a start has found no wallet.dat, but a copy
    compactions         \* the number of times the file was compacted

history == <<merged, stranded, compactions>>
kvars == <<dat, rewrite, mem, held, encrypting, generated, kept, reused, history>>

NoFile == [exists |-> FALSE, key |-> {}, ckey |-> {}, mkey |-> FALSE, pool |-> [i \in {} |-> 0]]

Nobody == [nIndex |-> 0, vchPubKey |-> 0]       \* nIndex = -1
Reserved == {held[c].nIndex : c \in Clients} \ {0}
KeysIn(file) == file.key \cup file.ckey
IsCrypted == mem.fUseCrypto
-----------------------------------------------------------------------------
(* Operations on the state s, which has dat, mem, generated and reused.     *)

State == [dat |-> dat, mem |-> mem, generated |-> generated, reused |-> reused]

Becomes(s) == dat' = s.dat /\ mem' = s.mem /\ generated' = s.generated /\ reused' = s.reused

\* GenerateNewKey and WritePool, n times, from the index nEnd on.
AddPoolKeys(s, nEnd, n) ==
    LET keys == (s.generated + 1)..(s.generated + n)
        indexes == nEnd..(nEnd + n - 1)
    IN  [dat |-> [s.dat EXCEPT !.key = IF s.mem.fUseCrypto THEN @ ELSE @ \cup keys,
                               !.ckey = IF s.mem.fUseCrypto THEN @ \cup keys ELSE @,
                               !.pool = [i \in DOMAIN @ \cup indexes |->
                                            IF i \in indexes THEN s.generated + 1 + (i - nEnd) ELSE @[i]]],
         mem |-> [s.mem EXCEPT !.keys = @ \cup keys, !.setKeyPool = @ \cup indexes],
         generated |-> s.generated + n,
         reused |-> s.reused \/ indexes \cap Reserved # {}]

NextIndex(s) == IF s.mem.setKeyPool = {} THEN 1 ELSE Max(s.mem.setKeyPool) + 1

\* TopUpKeyPool: up to one key more than the target.
ToppedUp(s, nTargetSize) ==
    LET size == Cardinality(s.mem.setKeyPool)
    IN  IF s.mem.locked \/ size > nTargetSize THEN s
        ELSE AddPoolKeys(s, NextIndex(s), nTargetSize + 1 - size)

InBounds(s) == s.generated <= MaxKeys
Idle == mem.running /\ encrypting = "no"

\* Without the file, CDB's constructor throws before anything is changed.
Opens == dat.exists
-----------------------------------------------------------------------------
TopUpKeyPool ==
    /\ Idle /\ Opens
    /\ \E nSize \in 1..Target :
          LET s == ToppedUp(State, nSize) IN InBounds(s) /\ Becomes(s)
    /\ UNCHANGED <<rewrite, held, encrypting, kept, history>>

\* ReserveKeyFromKeyPool for CReserveKey::GetReservedKey: without a record, or with
\* an unknown key, it throws, when nIndex is set already.
GetReservedKey(c) ==
    /\ Idle /\ Opens
    /\ held[c].nIndex = 0
    /\ LET s == ToppedUp(State, Target)
           nIndex == Min(s.mem.setKeyPool)
       IN  /\ InBounds(s)
           /\ s.mem.setKeyPool # {}
           /\ Becomes([s EXCEPT !.mem.setKeyPool = @ \ {nIndex}])
           /\ held' = [held EXCEPT ![c] =
                 [nIndex |-> nIndex,
                  vchPubKey |-> IF nIndex \in DOMAIN s.dat.pool /\ s.dat.pool[nIndex] \in s.mem.keys
                                THEN s.dat.pool[nIndex] ELSE 0]]
    /\ UNCHANGED <<rewrite, encrypting, kept, history>>

\* Mutant: the record stays.
KeepKeyOnly(c) ==
    /\ mem.running /\ Opens /\ encrypting # "copied"
    /\ held[c].vchPubKey # 0
    /\ kept' = kept \cup {held[c].vchPubKey}
    /\ held' = [held EXCEPT ![c] = Nobody]
    /\ UNCHANGED <<dat, rewrite, mem, encrypting, generated, reused, history>>

\* Without cs_wallet, so also while the wallet is being encrypted.
KeepKey(c) ==
    /\ mem.running /\ Opens /\ encrypting # "copied"
    /\ held[c].vchPubKey # 0
    /\ dat' = [dat EXCEPT !.pool = [i \in DOMAIN @ \ {held[c].nIndex} |-> @[i]]]
    /\ kept' = kept \cup {held[c].vchPubKey}
    /\ held' = [held EXCEPT ![c] = Nobody]
    /\ UNCHANGED <<rewrite, mem, encrypting, generated, reused, history>>

ReturnKey(c) ==
    /\ Idle
    /\ held[c].nIndex # 0
    /\ mem' = [mem EXCEPT !.setKeyPool = @ \cup {held[c].nIndex}]
    /\ held' = [held EXCEPT ![c] = Nobody]
    /\ UNCHANGED <<dat, rewrite, encrypting, generated, kept, reused, history>>

\* GetKeyFromPool reserves and keeps in one step; without a record it throws.  (With
\* an empty pool, this and GetReservedKey give the default key or none.)
GetKeyFromPool ==
    /\ Idle /\ Opens
    /\ LET s == ToppedUp(State, Target)
           nIndex == Min(s.mem.setKeyPool)
       IN  /\ InBounds(s)
           /\ s.mem.setKeyPool # {}
           /\ Becomes([s EXCEPT !.mem.setKeyPool = @ \ {nIndex},
                                !.dat.pool = [i \in DOMAIN @ \ {nIndex} |-> @[i]]])
           /\ kept' = kept \cup {s.dat.pool[i] : i \in {nIndex} \cap DOMAIN s.dat.pool}
    /\ UNCHANGED <<rewrite, held, encrypting, history>>

Lock ==
    /\ Idle /\ IsCrypted
    /\ mem' = [mem EXCEPT !.locked = TRUE]
    /\ UNCHANGED <<dat, rewrite, held, encrypting, generated, kept, reused, history>>

Unlock ==
    /\ Idle /\ mem.locked
    /\ mem' = [mem EXCEPT !.locked = FALSE]
    /\ UNCHANGED <<dat, rewrite, held, encrypting, generated, kept, reused, history>>
-----------------------------------------------------------------------------
(* EncryptWallet.                                                           *)

\* EncryptKeys: in memory, and in a transaction of the file.
EncryptKeys ==
    /\ Idle /\ Opens /\ ~IsCrypted
    /\ mem' = [mem EXCEPT !.fUseCrypto = TRUE]
    /\ encrypting' = "keys"
    /\ UNCHANGED <<dat, rewrite, held, generated, kept, reused, history>>

\* Mutant: the keys are written outside the transaction.
CommitPart ==
    /\ mem.running /\ encrypting = "keys"
    /\ dat' = [dat EXCEPT !.ckey = @ \cup mem.keys, !.mkey = TRUE]
    /\ encrypting' = "committed"
    /\ UNCHANGED <<rewrite, mem, held, generated, kept, reused, history>>

\* TxnCommit: the master key and the encrypted keys are there, the others erased.
Commit ==
    /\ mem.running /\ encrypting = "keys"
    /\ dat' = [dat EXCEPT !.ckey = @ \cup mem.keys, !.key = @ \ mem.keys, !.mkey = TRUE]
    /\ encrypting' = "committed"
    /\ UNCHANGED <<rewrite, mem, held, generated, kept, reused, history>>

\* NewKeyPool replaces keys that backups have unencrypted: the records go one by
\* one,
ErasePool ==
    /\ mem.running /\ encrypting = "committed"
    /\ IF mem.setKeyPool = {}
       THEN encrypting' = "erased" /\ UNCHANGED <<dat, mem>>
       ELSE LET nIndex == Min(mem.setKeyPool)
            IN  /\ dat' = [dat EXCEPT !.pool = [i \in DOMAIN @ \ {nIndex} |-> @[i]]]
                /\ mem' = [mem EXCEPT !.setKeyPool = @ \ {nIndex}]
                /\ UNCHANGED encrypting
    /\ UNCHANGED <<rewrite, held, generated, kept, reused, history>>

\* and new ones, from index 1 on, come one by one; then the wallet is locked, and the
\* file rewritten.
WritePool ==
    /\ mem.running /\ encrypting = "erased"
    /\ LET size == Cardinality(mem.setKeyPool)
           s == AddPoolKeys(State, size + 1, 1)
       IN  IF size = Target
           THEN /\ mem' = [mem EXCEPT !.locked = TRUE]
                /\ encrypting' = "flushed"
                /\ UNCHANGED <<dat, generated, reused>>
           ELSE InBounds(s) /\ Becomes(s) /\ UNCHANGED encrypting
    /\ UNCHANGED <<rewrite, held, kept, history>>

-----------------------------------------------------------------------------
(* CDB::Rewrite, by EncryptWallet, by compactwallet, and by the compaction at  *)
(* the start or in ThreadFlushWalletDB.                                       *)

\* Mutant: the records are not copied.
CopyNothing ==
    /\ mem.running /\ Opens
    /\ \/ encrypting = "flushed" /\ UNCHANGED compactions
       \/ Idle /\ compactions < MaxCompactions /\ compactions' = compactions + 1
    /\ rewrite' = [rewrite EXCEPT !.exists = TRUE]
    /\ merged' = (merged \/ rewrite.exists)
    /\ encrypting' = "copied"
    /\ UNCHANGED <<dat, mem, held, generated, kept, reused, stranded>>

\* The records are added to the copy; an earlier one, which a crash or a failure has
\* left, is not emptied, and its records are not overwritten (DB_NOOVERWRITE).
Copy ==
    /\ mem.running /\ Opens
    /\ \/ encrypting = "flushed" /\ UNCHANGED compactions
       \/ Idle /\ compactions < MaxCompactions /\ compactions' = compactions + 1
    /\ rewrite' = [exists |-> TRUE, key |-> rewrite.key \cup dat.key,
                   ckey |-> rewrite.ckey \cup dat.ckey, mkey |-> rewrite.mkey \/ dat.mkey,
                   pool |-> [i \in DOMAIN rewrite.pool \cup DOMAIN dat.pool |->
                               IF i \in DOMAIN rewrite.pool THEN rewrite.pool[i] ELSE dat.pool[i]]]
    /\ merged' = (merged \/ rewrite.exists)
    /\ encrypting' = "copied"
    /\ UNCHANGED <<dat, mem, held, generated, kept, reused, stranded>>

\* The file is removed,
Remove ==
    /\ mem.running /\ encrypting = "copied"
    /\ dat' = NoFile
    /\ encrypting' = "removed"
    /\ UNCHANGED <<rewrite, mem, held, generated, kept, reused, history>>

\* and the copy renamed.
Rename ==
    /\ mem.running /\ encrypting = "removed"
    /\ dat' = rewrite
    /\ rewrite' = NoFile
    /\ encrypting' = "no"
    /\ UNCHANGED <<mem, held, generated, kept, reused, history>>

\* The copying fails, the removal (and then the renaming, onto a file that is there)
\* or the renaming; the node goes on with what is left.
RewriteFails ==
    /\ mem.running /\ encrypting \in {"copied", "removed"}
    /\ encrypting' = "no"
    /\ UNCHANGED <<dat, rewrite, mem, held, generated, kept, reused, history>>
-----------------------------------------------------------------------------
(* The process dies at any point, also by exit(1) in EncryptWallet, and     *)
(* LoadWallet reads what is in the file.                                    *)

WalletCrash ==
    /\ mem.running
    /\ mem' = [mem EXCEPT !.running = FALSE, !.keys = {}, !.setKeyPool = {}]
    /\ held' = [c \in Clients |-> Nobody]
    /\ encrypting' = "no"
    /\ reused' = FALSE
    /\ UNCHANGED <<dat, rewrite, generated, kept, history>>

\* Without wallet.dat an empty one is created ("cr+"), whether there is a copy or not.
LoadWallet ==
    /\ ~mem.running
    /\ dat' = [dat EXCEPT !.exists = TRUE]
    /\ stranded' = (stranded \/ ~dat.exists)
    /\ mem' = [running |-> TRUE, keys |-> KeysIn(dat), setKeyPool |-> DOMAIN dat.pool,
               fUseCrypto |-> dat.mkey, locked |-> dat.mkey]
    /\ UNCHANGED <<rewrite, held, encrypting, generated, kept, reused, merged, compactions>>
-----------------------------------------------------------------------------
KeyPoolInit ==
    /\ dat = [NoFile EXCEPT !.exists = TRUE]
    /\ rewrite = NoFile
    /\ mem = [running |-> TRUE, keys |-> {}, setKeyPool |-> {}, fUseCrypto |-> FALSE, locked |-> FALSE]
    /\ held = [c \in Clients |-> Nobody]
    /\ encrypting = "no"
    /\ generated = 0
    /\ kept = {}
    /\ reused = FALSE /\ merged = FALSE /\ stranded = FALSE
    /\ compactions = 0

KeyPoolNext ==
    \/ TopUpKeyPool
    \/ \E c \in Clients : GetReservedKey(c)
    \/ \E c \in Clients : KeepKey(c)
    \/ \E c \in Clients : ReturnKey(c)
    \/ GetKeyFromPool
    \/ Lock
    \/ Unlock
    \/ EncryptKeys
    \/ Commit
    \/ ErasePool
    \/ WritePool
    \/ Copy
    \/ Remove
    \/ Rename
    \/ RewriteFails
    \/ WalletCrash
    \/ LoadWallet

KeyPoolSpec == KeyPoolInit /\ [][KeyPoolNext]_kvars
-----------------------------------------------------------------------------
(* Properties.                                                              *)

\* "Take key pair from key pool so it won't be used again" (CommitTransaction): a
\* key that was kept is in no record of the pool, not even after a crash, unless
\* CDB::Rewrite has copied into a copy left by an earlier one, which brings the
\* records erased since back.
\* Two clients never have the same key, and every index of setKeyPool has a record of
\* a known key, so that neither "read failed" nor "unknown key in key pool"
\* (ReserveKeyFromKeyPool) is thrown; this holds until the index of a reserved key is
\* written again, which TopUpKeyPool does when the pool is empty (it starts at 1) and
\* NewKeyPool always does.  The comment does not hold after that: when the first holder
\* returns the index, the key the second one has is offered again and used twice.
UsedOnce ==
    ~merged =>
        /\ \A i \in DOMAIN dat.pool : dat.pool[i] \notin kept
        /\ ~reused =>
              /\ \A c, d \in Clients :
                    c # d /\ held[c].vchPubKey # 0 => held[c].vchPubKey # held[d].vchPubKey
              /\ Opens => \A i \in mem.setKeyPool :
                             i \in DOMAIN dat.pool /\ dat.pool[i] \in mem.keys

Given == (kept \cup {held[c].vchPubKey : c \in Clients}) \ {0}

\* A key that was given out is on the disk whenever the process may die: in the
\* wallet file or in a copy CDB::Rewrite has left.  Until a start finds no wallet
\* file, it is in the file, or, while there is none, in the copy that is to replace it.
\* (If the process dies between Remove and Rename the next start finds none and goes
\* on with an empty wallet, although "the original is replaced atomically" according
\* to compactwallet; the keys are then in wallet.dat.rewrite alone.)
KeysDurable ==
    /\ Given \subseteq KeysIn(dat) \cup KeysIn(rewrite)
    /\ ~stranded => Given \subseteq KeysIn(IF dat.exists THEN dat ELSE rewrite)

\* "die and let the user reload their unencrypted wallet" (EncryptWallet): the file
\* is wholly plain or wholly encrypted, and so is a copy of it, until CDB::Rewrite
\* copies into one left by an earlier rewriting.
WhollyEncrypted ==
    ~merged => \A file \in {dat, rewrite} : IF file.mkey THEN file.key = {} ELSE file.ckey = {}
=============================================================================
