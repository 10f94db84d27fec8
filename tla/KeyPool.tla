-------------------------------- MODULE KeyPool --------------------------------
(***************************************************************************)
(* The keys of the wallet: the key pool of wallet.cpp, from which threads  *)
(* reserve keys that they keep or return, the encryption of the wallet,    *)
(* and what the wallet file holds of both when the process dies.           *)
(*                                                                         *)
(* What happens under cs_wallet is one operation, but each of its writes   *)
(* to the file is a step, so that the process may die in between.  KeepKey *)
(* and the timer of walletpassphrase do not take cs_wallet.  Berkeley DB   *)
(* is external: a write that has returned survives the process, and a      *)
(* transaction is in the file as a whole or not at all.  Passphrases are   *)
(* left out: who calls Unlock knows it.                                    *)
(***************************************************************************)
EXTENDS Integers, FiniteSetsExt, Functions

CONSTANTS
    Thread,
    Target,    \* -keypool
    MaxKey     \* bound: keys made in all

ASSUME KeyPoolAssumption == Target \in Nat \ {0} /\ MaxKey \in Nat

VARIABLES
    keys,         \* mapKeys or mapCryptedKeys
    crypted,      \* fUseCrypto
    unlocked,     \* vMasterKey is not empty
    setKeyPool,
    held,         \* what each CReserveKey has: [index, key]; index 0: nothing
    op,           \* the operation that holds cs_wallet: [pc, who, key]
    file,         \* wallet.dat
    copy,         \* wallet.dat.rewrite
    made,         \* the number of keys made so far
    given,        \* keys that were kept, and used
    old,          \* keys from before the encryption
    mixed         \* an index was written while a thread had it reserved

memory == <<keys, crypted, unlocked, setKeyPool>>
ghosts == <<given, old, mixed>>
vars   == <<memory, held, op, file, copy, made, ghosts>>

Key     == 1 .. MaxKey
Nothing == [index |-> 0, key |-> 0]
Nobody  == "nobody"
Free    == [pc |-> "free", who |-> Nobody, key |-> 0]

\* plain: "key" records; crypted: "ckey"; master: "mkey"; pool: "pool"
NewFile == [plain |-> {}, crypted |-> {}, master |-> FALSE, pool |-> <<>>]
NoFile  == [plain |-> {0}, crypted |-> {}, master |-> FALSE, pool |-> <<>>]

KeysIn(f)   == (f.plain \cup IF f.master THEN f.crypted ELSE {}) \ {0}
IsLocked    == crypted /\ ~unlocked
Holders     == {t \in Thread : held[t] # Nothing}

TypeOK ==
    /\ keys \subseteq Key /\ crypted \in BOOLEAN /\ unlocked \in BOOLEAN
    /\ setKeyPool \subseteq Key
    /\ held \in [Thread -> [index : 0 .. MaxKey, key : 0 .. MaxKey]]
    /\ op \in [pc  : {"free", "fill", "erase", "renew", "rewrite", "copied", "removed"},
              who : Thread \cup {Nobody}, key : 0 .. MaxKey]
    /\ \A f \in {file, copy} : f = NoFile \/
          /\ f.plain \subseteq Key /\ f.crypted \subseteq Key /\ f.master \in BOOLEAN
          /\ DOMAIN f.pool \subseteq Key /\ Range(f.pool) \subseteq Key
    /\ made \in 0 .. MaxKey /\ given \subseteq Key /\ old \subseteq Key /\ mixed \in BOOLEAN

Init ==
    /\ keys = {} /\ crypted = FALSE /\ unlocked = FALSE /\ setKeyPool = {}
    /\ held = [t \in Thread |-> Nothing] /\ op = Free
    /\ file = NewFile /\ copy = NoFile
    /\ made = 0 /\ given = {} /\ old = {} /\ mixed = FALSE

----------------------------------------------------------------------------
(* The parts that operations are made of. *)

MemoryOnly(f, k) ==  \* mutant: in an encrypted wallet a new key is not written
    IF crypted THEN f ELSE [f EXCEPT !.plain = @ \cup {k}]

\* AddKeyPubKey, AddCryptedKey
WriteKey(f, k) ==
    IF crypted THEN [f EXCEPT !.crypted = @ \cup {k}] ELSE [f EXCEPT !.plain = @ \cup {k}]

GenerateNewKey ==
    /\ ~IsLocked
    /\ made' = made + 1
    /\ keys' = keys \cup {made'}
    /\ file' = WriteKey(file, made')
    /\ op' = [op EXCEPT !.key = made']

\* WritePool, and the index goes into setKeyPool
AddToPool(index) ==
    /\ file' = [file EXCEPT !.pool = [i \in DOMAIN @ \cup {index} |->
                                         IF i = index THEN op.key ELSE @[i]]]
    /\ setKeyPool' = setKeyPool \cup {index}
    /\ mixed' = (mixed \/ \E t \in Thread : held[t].index = index)
    /\ op' = [op EXCEPT !.key = 0]

Erased(f, index) == [f EXCEPT !.pool = Restrict(@, DOMAIN @ \ {index})]

KeepAsWell(index) == setKeyPool  \* mutant: a reserved index stays in the set

TakenOut(index) == setKeyPool \ {index}

(***************************************************************************)
(* The rest of ReserveKeyFromKeyPool: the oldest index.  If its record     *)
(* cannot be read, or is of an unknown key, this throws: GetKeyFromPool    *)
(* forgets the index, the destructor of CReserveKey returns it.            *)
(***************************************************************************)
TakeFirst(t) ==
    LET index    == Min(setKeyPool)
        readable == index \in DOMAIN file.pool /\ file.pool[index] \in keys
    IN  IF setKeyPool = {} THEN UNCHANGED <<setKeyPool, held>>
        ELSE IF readable THEN
            /\ setKeyPool' = TakenOut(index)
            /\ held' = [held EXCEPT ![t] = [index |-> index, key |-> file.pool[index]]]
        ELSE
            /\ setKeyPool' \in {setKeyPool, TakenOut(index)}
            /\ UNCHANGED held

----------------------------------------------------------------------------
(* The key pool. *)

\* TopUpKeyPool, for nobody or at the start of ReserveKeyFromKeyPool
StartFill(t) ==
    /\ op = Free /\ ~IsLocked
    /\ t # Nobody => held[t] = Nothing
    /\ made + Target + 1 - Cardinality(setKeyPool) <= MaxKey
    /\ op' = [op EXCEPT !.pc = "fill", !.who = t]
    /\ UNCHANGED <<memory, held, file, copy, made, ghosts>>

Short == Cardinality(setKeyPool) < Target + 1

NextIndex == IF setKeyPool = {} THEN 1 ELSE Max(setKeyPool) + 1

FillNewKey ==
    /\ op.pc = "fill" /\ op.key = 0 /\ Short
    /\ GenerateNewKey
    /\ UNCHANGED <<crypted, unlocked, setKeyPool, held, copy, ghosts>>

FillWrite ==
    /\ op.pc = "fill" /\ op.key # 0
    /\ AddToPool(NextIndex)
    /\ UNCHANGED <<keys, crypted, unlocked, held, copy, made, given, old>>

\* the wallet was locked by the timer: GenerateNewKey throws
FillThrows ==
    /\ op.pc = "fill" /\ op.key = 0 /\ Short /\ IsLocked
    /\ op' = Free
    /\ UNCHANGED <<memory, held, file, copy, made, ghosts>>

FillDone ==
    /\ op.pc = "fill" /\ op.key = 0 /\ ~Short
    /\ IF op.who = Nobody THEN UNCHANGED <<setKeyPool, held>> ELSE TakeFirst(op.who)
    /\ op' = Free
    /\ UNCHANGED <<keys, crypted, unlocked, file, copy, made, ghosts>>

ReserveLocked(t) ==
    /\ op = Free /\ IsLocked /\ held[t] = Nothing
    /\ TakeFirst(t)
    /\ UNCHANGED <<keys, crypted, unlocked, op, file, copy, made, ghosts>>

NotErased(f, index) == f  \* mutant: the record of a used key stays in the file

KeptFile(f, index) == Erased(f, index)

\* KeepKey, and the key is used; Rewrite waits for open files, and they for it
Keep(t) ==
    /\ held[t] # Nothing /\ op.pc \notin {"copied", "removed"}
    /\ file' = KeptFile(file, held[t].index)
    /\ given' = given \cup {held[t].key}
    /\ held' = [held EXCEPT ![t] = Nothing]
    /\ UNCHANGED <<memory, op, copy, made, old, mixed>>

Return(t) ==
    /\ held[t] # Nothing /\ op = Free
    /\ setKeyPool' = setKeyPool \cup {held[t].index}
    /\ held' = [held EXCEPT ![t] = Nothing]
    /\ UNCHANGED <<keys, crypted, unlocked, op, file, copy, made, ghosts>>

----------------------------------------------------------------------------
(* Encryption. *)

PlainKept(f) == [f EXCEPT !.crypted = keys, !.master = TRUE]  \* mutant: no fEraseUnencryptedKey

EncryptedFile(f) == [plain |-> {}, crypted |-> keys, master |-> TRUE, pool |-> f.pool]

(***************************************************************************)
(* EncryptWallet up to TxnCommit, then Lock and Unlock.  If the            *)
(* transaction fails the process dies with the file as it was.  A wallet   *)
(* has at least the default key.  Bound: one encryption.                   *)
(***************************************************************************)
EncryptWallet ==
    /\ op = Free /\ ~crypted /\ keys # {} /\ old = {}
    /\ made + Target <= MaxKey
    /\ file' = EncryptedFile(file)
    /\ crypted' = TRUE /\ unlocked' = TRUE
    /\ old' = keys
    /\ op' = [op EXCEPT !.pc = "erase"]
    /\ UNCHANGED <<keys, setKeyPool, held, copy, made, given, mixed>>

\* NewKeyPool: the records of setKeyPool go one by one
EraseOld ==
    /\ op.pc = "erase"
    /\ \E index \in setKeyPool :
          /\ index \in DOMAIN file.pool
          /\ \A i \in setKeyPool : i < index => i \notin DOMAIN file.pool
          /\ file' = Erased(file, index)
    /\ UNCHANGED <<memory, held, op, copy, made, ghosts>>

ErasedAll ==
    /\ op.pc = "erase" /\ setKeyPool \cap DOMAIN file.pool = {}
    /\ setKeyPool' = {}
    /\ op' = [op EXCEPT !.pc = "renew"]
    /\ UNCHANGED <<keys, crypted, unlocked, held, file, copy, made, ghosts>>

RenewKey ==
    /\ op.pc = "renew" /\ op.key = 0 /\ Cardinality(setKeyPool) < Target
    /\ GenerateNewKey
    /\ UNCHANGED <<crypted, unlocked, setKeyPool, held, copy, ghosts>>

RenewWrite ==
    /\ op.pc = "renew" /\ op.key # 0
    /\ AddToPool(Cardinality(setKeyPool) + 1)
    /\ UNCHANGED <<keys, crypted, unlocked, held, copy, made, given, old>>

RenewDone ==
    /\ op.pc = "renew" /\ op.key = 0 /\ Cardinality(setKeyPool) = Target
    /\ unlocked' = FALSE
    /\ op' = [op EXCEPT !.pc = "rewrite"]
    /\ UNCHANGED <<keys, crypted, setKeyPool, held, file, copy, made, ghosts>>

\* CDB::Rewrite: a copy of the records, which takes the place of the file
RewriteCopy ==
    /\ op.pc = "rewrite"
    /\ copy' = file
    /\ op' = [op EXCEPT !.pc = "copied"]
    /\ UNCHANGED <<memory, held, file, made, ghosts>>

RewriteRemove ==
    /\ op.pc = "copied"
    /\ file' = NoFile
    /\ op' = [op EXCEPT !.pc = "removed"]
    /\ UNCHANGED <<memory, held, copy, made, ghosts>>

RewriteRename ==
    /\ op.pc = "removed"
    /\ file' = copy /\ copy' = NoFile
    /\ op' = Free
    /\ UNCHANGED <<memory, held, made, ghosts>>

Unlock ==
    /\ op = Free /\ IsLocked
    /\ keys # {}
    /\ unlocked' = TRUE
    /\ UNCHANGED <<keys, crypted, setKeyPool, held, op, file, copy, made, ghosts>>

\* walletlock, or the timer of walletpassphrase, which may find the wallet at work
Lock ==
    /\ op.pc \in {"free", "fill"} /\ crypted /\ unlocked
    /\ unlocked' = FALSE
    /\ UNCHANGED <<keys, crypted, setKeyPool, held, op, file, copy, made, ghosts>>

\* the process ends anywhere and starts again: LoadWallet makes a file if there is none
Restart ==
    LET f == IF file = NoFile THEN NewFile ELSE file
    IN
    /\ file' = f
    /\ keys' = KeysIn(f) /\ crypted' = (f.crypted # {}) /\ unlocked' = FALSE
    /\ setKeyPool' = DOMAIN f.pool
    /\ held' = [t \in Thread |-> Nothing] /\ op' = Free /\ mixed' = FALSE
    /\ UNCHANGED <<copy, made, given, old>>

Next ==
    \/ \E t \in Thread \cup {Nobody} : StartFill(t)
    \/ FillNewKey \/ FillWrite \/ FillThrows \/ FillDone
    \/ \E t \in Thread : ReserveLocked(t) \/ Keep(t) \/ Return(t)
    \/ EncryptWallet \/ EraseOld \/ ErasedAll \/ RenewKey \/ RenewWrite \/ RenewDone
    \/ RewriteCopy \/ RewriteRemove \/ RewriteRename
    \/ Unlock \/ Lock \/ Restart

Spec == Init /\ [][Next]_vars

----------------------------------------------------------------------------
(* Properties. *)

(***************************************************************************)
(* A key that was used, or that a thread has reserved in order to use it,  *)
(* can be got back from the files, wherever the process dies: it is in     *)
(* wallet.dat or, for a moment of CDB::Rewrite, in wallet.dat.rewrite,     *)
(* together with the master key if it is encrypted.                        *)
(***************************************************************************)
KeysSaved ==
    given \cup {held[t].key : t \in Holders} \subseteq KeysIn(file) \cup KeysIn(copy)

(***************************************************************************)
(* The file is encrypted as a whole or not at all, like the wallet in      *)
(* memory: no plain key beside encrypted ones, so that SetCrypted succeeds *)
(* at load time and Unlock does not find keys that do not decrypt.         *)
(***************************************************************************)
EncryptedWhole ==
    file # NoFile =>
        /\ file.plain = {} \/ file.crypted = {}
        /\ file.master <=> crypted
        /\ keys = KeysIn(file)

(***************************************************************************)
(* Records of the pool are of keys that the wallet has, whenever the       *)
(* process died: "unknown key in key pool" is never thrown.                *)
(***************************************************************************)
PoolKeysKnown == file # NoFile => Range(file.pool) \subseteq KeysIn(file)

(***************************************************************************)
(* "Take key pair from key pool so it won't be used again"                 *)
(* (wallet.cpp:1975): two threads never have the same key, and a key that  *)
(* was used is neither reserved nor on record as unused.  As it stands     *)
(* this fails: the index of a new key goes by setKeyPool, which a reserved *)
(* index has left, so that NewKeyPool, or TopUpKeyPool after the pool of a *)
(* locked wallet was used up, writes it again.  When the thread returns it *)
(* the new key under this index is there for two.                          *)
(***************************************************************************)
UsedOnce ==
    /\ \A s, t \in Holders : s # t => held[s].key # held[t].key
    /\ \A t \in Holders : held[t].key \notin given /\ held[t].index \notin setKeyPool
    /\ file # NoFile => Range(file.pool) \cap given = {}

(***************************************************************************)
(* Keys are used once through any number of reservations, returns, locks,  *)
(* crashes and restarts, unless an index was written while it was          *)
(* reserved.                                                               *)
(***************************************************************************)
KeysApart == ~mixed => UsedOnce

(***************************************************************************)
(* Each index of setKeyPool can be read from the file, under the same      *)
(* condition: "ReserveKeyFromKeyPool(): read failed" is not thrown.        *)
(***************************************************************************)
PoolReadable ==
    (~mixed /\ op.pc \notin {"erase", "removed"}) => setKeyPool \subseteq DOMAIN file.pool

(***************************************************************************)
(* A key can be taken from the pool whenever setKeyPool is not empty,      *)
(* whatever was interrupted before: "unknown key in key pool" is never     *)
(* thrown, and "read failed" only after an index was written while it was  *)
(* reserved.                                                               *)
(***************************************************************************)
PoolUsable == TypeOK /\ PoolKeysKnown /\ PoolReadable

(***************************************************************************)
(* "Mark old keypool keys as used, and generate all new keys"              *)
(* (wallet.cpp:2148): no key from before the encryption is on record as    *)
(* unused once the wallet is encrypted.  This fails if the process dies    *)
(* before NewKeyPool is through, and for keys that were reserved.          *)
(***************************************************************************)
OldKeysUsed == (op = Free /\ crypted) => Range(file.pool) \cap old = {}
===============================================================================
