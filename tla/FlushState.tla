------------------------------ MODULE FlushState ------------------------------
(***************************************************************************)
(* What a node keeps on disk and in which order it gets there: the block   *)
(* and undo files, the block index database and the coin database, written *)
(* by AcceptBlock, ConnectTip, DisconnectTip and FlushStateToDisk of       *)
(* main.cpp and read again by LoadBlockIndexDB and VerifyDB.               *)
(*                                                                         *)
(* Everything runs under cs_main, so only failures come between the steps  *)
(* of a flush: a process that dies (the operating system still has what    *)
(* was written), a loss of power (what was not synced is gone), a write to *)
(* a file or a database that fails.  The coins are the block whose unspent *)
(* outputs they are.  A file is the set of blocks it has records of; a     *)
(* record past the size that CBlockFileInfo gives is overwritten by the    *)
(* next one, and a write that failed leaves a hole below that size.        *)
(***************************************************************************)
EXTENDS Integers, FiniteSetsExt

CONSTANTS
    Block, Genesis, Parent, Anc, Height,  \* the headers that exist, as in ChainState
    MaxFile,       \* files are 0 .. MaxFile
    PerFile,       \* blocks that fit in a file: MAX_BLOCKFILE_SIZE
    Target,        \* nPruneTarget, in blocks
    Keep,          \* MIN_BLOCKS_TO_KEEP
    CheckDepth,    \* -checkblocks
    MaxFailures,   \* bound: how many writes to files and databases fail
    MaxRestarts    \* bound: how often the node is started again

File   == 0 .. MaxFile
NoFile == -1

ASSUME FlushAssumption ==
    /\ Genesis \in Block
    /\ Parent \in [Block \ {Genesis} -> Block]
    /\ Anc \in [Block -> SUBSET Block]
    /\ Anc[Genesis] = {Genesis}
    /\ \A b \in Block : b \in Anc[b] /\ Genesis \in Anc[b]
    /\ \A b \in Block \ {Genesis} : Anc[b] = Anc[Parent[b]] \cup {b}
    /\ Height \in [Block -> Nat]
    /\ \A b \in Block \ {Genesis} : Height[b] = Height[Parent[b]] + 1
    /\ MaxFile \in Nat /\ PerFile \in Nat \ {0} /\ Target \in Nat
    /\ Keep \in Nat /\ CheckDepth \in Nat
    /\ MaxFailures \in Nat /\ MaxRestarts \in Nat

VARIABLES
    \* memory
    index,       \* mapBlockIndex and what its entries say of the disk, see Index
    dirty,       \* setDirtyBlockIndex
    info,        \* vinfoBlockFile, see Info
    dirtyFiles,  \* setDirtyFileInfo
    lastFile,    \* nLastBlockFile
    checkPrune,  \* fCheckForPruning
    tip,         \* chainActive.Tip()
    coins,       \* pcoinsTip: best, and the block whose coins it shows
    pc,          \* the step of FlushStateToDisk that is next, or "idle"
    job,         \* what this flush writes, and the files it has to unlink
    node,        \* running; stopping after AbortNode; exiting; refused: it would not start
    \* disk
    dIndex, dInfo, dLast,  \* the block index database
    blk, rev,              \* blk?????.dat and rev?????.dat
    blkSynced, revSynced,  \* the part of them that FileCommit has synced
    dCoins,                \* the coin database
    dMaybe,                \* what it may be after a loss of power: it is not synced
    \* history
    faults,                \* a database write has failed, the power was lost
    lost,                  \* the positions given to blocks whose WriteBlockToDisk failed
    top,                   \* the height of the highest block that was ever connected
    failures,              \* how many writes have failed
    restarts               \* how often the node has been started again

memory == <<index, dirty, info, dirtyFiles, lastFile, checkPrune, tip, coins>>
files  == <<blk, rev, blkSynced, revSynced>>
disk   == <<dIndex, dInfo, dLast, blk, rev, blkSynced, revSynced, dCoins, dMaybe>>
history == <<faults, lost, top, failures, restarts>>
vars   == <<memory, pc, job, node, disk, history>>

\* the entries that exist; nFile where BLOCK_HAVE_DATA is set; BLOCK_HAVE_UNDO
Index == [known : SUBSET Block, file : [Block -> File \cup {NoFile}], undo : SUBSET Block]
\* the blocks a file has, and those it has undo records of
Info  == [data : [File -> SUBSET Block], undo : [File -> SUBSET Block]]
Coins == [best : Block, shows : Block]

HaveData(ix) == {b \in Block : ix.file[b] # NoFile}

\* what to write: nothing, the block index, or the coins as well
Mode  == {"none", "index", "full"}
Job   == [mode : Mode, prune : SUBSET File]
JobOf(mode) == [mode |-> mode, prune |-> {}]
Fault == {"write", "power"}

TypeOK ==
    /\ index \in Index /\ dIndex \in Index /\ info \in Info /\ dInfo \in Info
    /\ dirty \subseteq Block /\ dirtyFiles \subseteq File
    /\ {lastFile, dLast} \subseteq File /\ checkPrune \in BOOLEAN
    /\ tip \in Block /\ coins \in Coins /\ dCoins \in Coins /\ dMaybe \subseteq Coins
    /\ {blk, rev, blkSynced, revSynced} \subseteq [File -> SUBSET Block]
    /\ pc \in {"idle", "check", "commit", "index", "unlink", "coins"}
    /\ job \in Job /\ faults \subseteq Fault /\ lost \subseteq Block \X File /\ top \in Nat
    /\ failures \in 0 .. MaxFailures
    /\ node \in {"running", "stopping", "exiting", "refused"} /\ restarts \in 0 .. MaxRestarts

\* a data directory that holds the genesis block
GenesisFile == [f \in File |-> IF f = 0 THEN {Genesis} ELSE {}]
Nothing     == [f \in File |-> {}]

Init ==
    /\ index = [known |-> {Genesis}, undo |-> {},
                file |-> [b \in Block |-> IF b = Genesis THEN 0 ELSE NoFile]]
    /\ info = [data |-> GenesisFile, undo |-> Nothing]
    /\ dirty = {} /\ dirtyFiles = {} /\ lastFile = 0 /\ checkPrune = FALSE
    /\ tip = Genesis /\ coins = [best |-> Genesis, shows |-> Genesis]
    /\ pc = "idle" /\ job = JobOf("none") /\ node = "running"
    /\ dIndex = index /\ dInfo = info /\ dLast = 0
    /\ blk = GenesisFile /\ blkSynced = GenesisFile /\ rev = Nothing /\ revSynced = Nothing
    /\ dCoins = coins /\ dMaybe = {coins}
    /\ faults = {} /\ lost = {} /\ top = Height[Genesis]
    /\ failures = 0 /\ restarts = 0

----------------------------------------------------------------------------
(* Blocks arrive and are connected. *)

Ready   == node = "running" /\ pc = "idle"
\* after AbortNode the threads go on until they are interrupted, but no block is connected
Serving == node \in {"running", "stopping"} /\ pc = "idle"

\* FlushStateToDisk is called; whether it is time to write is decided there
ThenFlush(modes) == pc' = "check" /\ \E mode \in modes : job' = JobOf(mode)

\* AcceptBlockHeader: the entries that a block needs, its own and those before it
NewEntries(b) == Anc[b] \ index.known

IsFull(f) == Cardinality(info.data[f]) >= PerFile

WriteFails == failures < MaxFailures /\ failures' = failures + 1

NeverSynced(synced, file) == synced  \* mutant: the file is left without a sync

\* FlushBlockFile: the last file is synced, its blocks and its undo records
FlushBlockFile(synced, file) == [synced EXCEPT ![lastFile] = file[lastFile]]

\* FindBlockPos: the file that gets the next block; one that is full is synced and left
IsNext(f) ==
    /\ f \in lastFile .. MaxFile /\ ~IsFull(f)
    /\ \A g \in lastFile .. (f - 1) : IsFull(g)
Left(synced, file, f) == IF f = lastFile THEN synced ELSE FlushBlockFile(synced, file)

\* what is after the end that info knows is overwritten, and a record written there
Cut(file, known, f) == [file EXCEPT ![f] = @ \cap known[f]]
Written(file, known, f, b) == [file EXCEPT ![f] = (@ \cap known[f]) \cup {b}]

(***************************************************************************)
(* A block that was asked for, so not one of the active chain, gets its    *)
(* header into the index and a position in file f, and disk space may have *)
(* to be made.                                                             *)
(***************************************************************************)
BlockArrives(b, f) ==
    /\ Serving
    /\ b \notin Anc[tip] /\ index.file[b] = NoFile
    /\ IsNext(f) /\ lastFile' = f
    /\ info' = [info EXCEPT !.data[f] = @ \cup {b}]
    /\ revSynced' = Left(revSynced, rev, f)
    /\ checkPrune' = TRUE
    /\ UNCHANGED <<tip, coins, dIndex, dInfo, dLast, rev, dCoins, dMaybe, faults, top, restarts>>

(***************************************************************************)
(* AcceptBlock.  If WriteBlockToDisk reports a failure, AbortNode stops    *)
(* the node, but AcceptBlock goes on and the block is entered in the index *)
(* all the same.                                                           *)
(***************************************************************************)
AcceptBlock(b) ==
    \E f \in File :
        /\ BlockArrives(b, f)
        /\ index' = [index EXCEPT !.known = @ \cup NewEntries(b), !.file[b] = f]
        /\ dirty' = dirty \cup {b} \cup NewEntries(b) /\ dirtyFiles' = dirtyFiles \cup {f}
        /\ ThenFlush({"none"})
        /\ \/ /\ blk' = Written(blk, info.data, f, b)
              /\ blkSynced' = Cut(Left(blkSynced, blk, f), info.data, f)
              /\ lost' = lost \ {<<b, f>>} /\ UNCHANGED <<node, failures>>
           \/ /\ WriteFails
              /\ blk' = blk /\ blkSynced' = Left(blkSynced, blk, f)
              /\ lost' = lost \cup {<<b, f>>} /\ node' = "stopping"

(***************************************************************************)
(* AcceptBlock does not get as far as ReceivedBlockTransactions: there is  *)
(* no disk space (FindBlockPos), or the stream throws; that exception is   *)
(* caught in AcceptBlock, which calls AbortNode, or only by the message    *)
(* thread, depending on what ios_base::failure is derived from.  The place *)
(* in the file stays taken.                                                *)
(***************************************************************************)
AcceptBlockFails(b) ==
    /\ WriteFails
    /\ \E f \in File :
          /\ BlockArrives(b, f)
          /\ \/ /\ blk' = blk /\ blkSynced' = Left(blkSynced, blk, f)
                /\ dirtyFiles' = dirtyFiles /\ node' = "stopping"
             \/ /\ blk' = Cut(blk, info.data, f)
                /\ blkSynced' = Cut(Left(blkSynced, blk, f), info.data, f)
                /\ dirtyFiles' = dirtyFiles \cup {f} /\ node' \in {node, "stopping"}
    /\ index' = [index EXCEPT !.known = @ \cup NewEntries(b)]
    /\ dirty' = dirty \cup NewEntries(b)
    /\ UNCHANGED <<pc, job, lost>>

Readable(ix, b) == ix.file[b] # NoFile /\ b \in blk[ix.file[b]]
UndoReadable(ix, b) == b \in ix.undo /\ b \in rev[ix.file[b]]

HigherOf(h, b) == IF Height[b] > h THEN Height[b] ELSE h

Connectable(b) == b \in index.known \ {Genesis} /\ Parent[b] = tip /\ Readable(index, b)

(***************************************************************************)
(* ConnectTip: the undo record goes to the undo file of the block's own    *)
(* file, unless there is one already.  The coins are flushed, if need be,  *)
(* before chainActive moves.                                               *)
(***************************************************************************)
ConnectTip(b) ==
    LET f == index.file[b]
        writesUndo == b \notin index.undo
    IN
    /\ Ready /\ Connectable(b)
    /\ coins' = [best |-> b, shows |-> IF coins.shows = coins.best THEN b ELSE coins.shows]
    /\ top' = HigherOf(top, b)
    /\ IF writesUndo
       THEN /\ rev' = Written(rev, info.undo, f, b) /\ revSynced' = Cut(revSynced, info.undo, f)
            /\ info' = [info EXCEPT !.undo[f] = @ \cup {b}]
            /\ index' = [index EXCEPT !.undo = @ \cup {b}]
            /\ dirty' = dirty \cup {b} /\ dirtyFiles' = dirtyFiles \cup {f}
            /\ checkPrune' = TRUE
       ELSE UNCHANGED <<rev, revSynced, info, index, dirty, dirtyFiles, checkPrune>>
    /\ ThenFlush({"none", "full"})
    /\ UNCHANGED <<lastFile, tip, node, dIndex, dInfo, dLast, blk, blkSynced,
                   dCoins, dMaybe, faults, lost, failures, restarts>>

(***************************************************************************)
(* The undo record cannot be written: FindUndoPos has taken the place for  *)
(* it; the view of the block is dropped.  AbortNode is called, except when *)
(* it is the stream that throws: then the exception leaves ConnectTip.     *)
(***************************************************************************)
ConnectTipFails(b) ==
    LET f == index.file[b] IN
    /\ WriteFails
    /\ Ready /\ Connectable(b) /\ b \notin index.undo
    /\ info' = [info EXCEPT !.undo[f] = @ \cup {b}]
    /\ dirtyFiles' = dirtyFiles \cup {f} /\ checkPrune' = TRUE
    /\ \/ node' = "stopping" /\ UNCHANGED <<rev, revSynced>>
       \/ /\ UNCHANGED node
          /\ rev' = Cut(rev, info.undo, f) /\ revSynced' = Cut(revSynced, info.undo, f)
    /\ UNCHANGED <<index, dirty, lastFile, tip, coins, pc, job, dIndex, dInfo, dLast,
                   blk, blkSynced, dCoins, dMaybe, faults, lost, top, restarts>>

\* DisconnectTip reads the block and its undo record
DisconnectTip ==
    /\ Ready /\ tip # Genesis
    /\ Readable(index, tip) /\ UndoReadable(index, tip)
    /\ coins' = [best |-> Parent[tip], shows |-> IF coins.shows = coins.best THEN Parent[tip] ELSE coins.shows]
    /\ ThenFlush({"none", "full"})
    /\ UNCHANGED <<index, dirty, info, dirtyFiles, lastFile, checkPrune, tip, node, disk, history>>

\* the block cannot be read: AbortNode.  An undo record that cannot be read
\* only makes the reorganisation fail.
ReadFails ==
    /\ Ready
    /\ \/ tip # Genesis /\ ~Readable(index, tip)
       \/ \E b \in HaveData(index) \ {Genesis} : Parent[b] = tip /\ ~Readable(index, b)
    /\ node' = "stopping"
    /\ UNCHANGED <<memory, pc, job, disk, history>>

----------------------------------------------------------------------------
(* FlushStateToDisk. *)

PruneAnyFile == {f \in 0 .. (lastFile - 1) : info.data[f] # {}}  \* mutant: heights are not looked at

\* the files that FindFilesToPrune may take: not the last, nothing near the tip
Prunable ==
    {f \in 0 .. (lastFile - 1) :
        info.data[f] # {} /\ \A b \in info.data[f] : Height[b] <= Height[tip] - Keep}

Stored(fs) == MapThenSumSet(LAMBDA f : Cardinality(info.data[f]), fs)

\* FindFilesToPrune: from the first file on, until the rest is below the target
FilesToPrune ==
    {f \in Prunable : Stored(File) - Stored({g \in Prunable : g < f}) >= Target}

\* ConnectTip and DisconnectTip move chainActive when the flush has succeeded
Finish == pc' = "idle" /\ job' = JobOf("none")
             /\ tip' = IF node = "running" THEN coins.best ELSE tip

(***************************************************************************)
(* The decision what to write.  PruneOneBlockFile takes the blocks of a    *)
(* file out of the index in memory; pruning makes it a full flush.         *)
(***************************************************************************)
FlushCheck ==
    LET gone   == IF checkPrune THEN FilesToPrune ELSE {}
        \* nFile of an entry without data is 0
        pruned == {b \in index.known : \/ index.file[b] \in gone
                                       \/ index.file[b] = NoFile /\ 0 \in gone}
    IN
    /\ pc = "check"
    /\ checkPrune' = FALSE
    /\ index' = [index EXCEPT !.file = [b \in Block |-> IF b \in pruned THEN NoFile ELSE @[b]],
                             !.undo = @ \ pruned]
    /\ info' = [data |-> [f \in File |-> IF f \in gone THEN {} ELSE info.data[f]],
                undo |-> [f \in File |-> IF f \in gone THEN {} ELSE info.undo[f]]]
    /\ dirty' = dirty \cup pruned /\ dirtyFiles' = dirtyFiles \cup gone
    /\ IF gone = {} /\ job.mode = "none"
       THEN Finish
       ELSE /\ pc' = "commit"
            /\ job' = [mode |-> IF gone = {} THEN job.mode ELSE "full", prune |-> gone]
            /\ UNCHANGED tip
    /\ UNCHANGED <<lastFile, coins, node, disk, history>>

\* the block files are synced
FlushCommit ==
    /\ pc = "commit" /\ pc' = "index"
    /\ blkSynced' = FlushBlockFile(blkSynced, blk)
    /\ revSynced' = FlushBlockFile(revSynced, rev)
    /\ UNCHANGED <<memory, job, node, dIndex, dInfo, dLast, blk, rev, dCoins, dMaybe, history>>

UpdateExisting(old, new, S) ==  \* mutant: entries are updated, never added
    [known |-> old.known,
     file  |-> [b \in Block |-> IF b \in S THEN new.file[b] ELSE old.file[b]],
     undo  |-> (old.undo \ S) \cup (new.undo \cap S)]

UpdateEntries(old, new, S) ==
    [known |-> old.known \cup S,
     file  |-> [b \in Block |-> IF b \in S THEN new.file[b] ELSE old.file[b]],
     undo  |-> (old.undo \ S) \cup (new.undo \cap S)]

UpdateInfo(old, new, S) ==
    [data |-> [f \in File |-> IF f \in S THEN new.data[f] ELSE old.data[f]],
     undo |-> [f \in File |-> IF f \in S THEN new.undo[f] ELSE old.undo[f]]]

\* WriteBatchSync: one synced batch of the dirty entries
FlushIndex ==
    /\ pc = "index"
    /\ dIndex' = UpdateEntries(dIndex, index, dirty)
    /\ dInfo' = UpdateInfo(dInfo, info, dirtyFiles)
    /\ dLast' = lastFile
    /\ dirty' = {} /\ dirtyFiles' = {}
    /\ IF job.mode = "full"
       THEN /\ pc' = (IF job.prune = {} THEN "coins" ELSE "unlink")
            /\ UNCHANGED <<job, tip>>
       ELSE Finish
    /\ UNCHANGED <<index, info, lastFile, checkPrune, coins, node, files, dCoins, dMaybe, history>>

Abandon == pc' = "idle" /\ job' = JobOf("none")
              /\ node' = IF node = "running" THEN "stopping" ELSE node

\* the batch is not written; the sets of dirty entries have been emptied for it
FlushIndexFails ==
    /\ WriteFails /\ pc = "index"
    /\ dirty' = {} /\ dirtyFiles' = {}
    /\ Abandon /\ faults' = faults \cup {"write"}
    /\ UNCHANGED <<index, info, lastFile, checkPrune, tip, coins, disk, lost, top, restarts>>

\* CheckDiskSpace, before the block files and before the coins
OutOfSpace ==
    /\ WriteFails /\ pc \in {"commit", "coins"}
    /\ Abandon
    /\ UNCHANGED <<memory, disk, faults, lost, top, restarts>>

Unlinked(file, f) == [file EXCEPT ![f] = {}]

\* UnlinkPrunedFiles, one file after the other
FlushUnlink ==
    LET f == Min(job.prune)
    IN
    /\ pc = "unlink"
    /\ blk' = Unlinked(blk, f) /\ blkSynced' = Unlinked(blkSynced, f)
    /\ rev' = Unlinked(rev, f) /\ revSynced' = Unlinked(revSynced, f)
    /\ job' = [job EXCEPT !.prune = @ \ {f}]
    /\ pc' = IF job'.prune = {} THEN "coins" ELSE pc
    /\ UNCHANGED <<memory, node, dIndex, dInfo, dLast, dCoins, dMaybe, history>>

\* pcoinsTip->Flush(), a batch that is not synced
FlushCoins ==
    /\ pc = "coins"
    /\ dCoins' = coins /\ dMaybe' = dMaybe \cup {coins}
    /\ Finish
    /\ UNCHANGED <<index, dirty, info, dirtyFiles, lastFile, checkPrune, coins, node,
                   dIndex, dInfo, dLast, files, history>>

\* the batch is not written; the cache has been emptied for it, its best block stays
FlushCoinsFails ==
    /\ WriteFails /\ pc = "coins"
    /\ coins' = [coins EXCEPT !.shows = dCoins.shows]
    /\ Abandon /\ faults' = faults \cup {"write"}
    /\ UNCHANGED <<index, dirty, info, dirtyFiles, lastFile, checkPrune, tip, disk, lost, top, restarts>>

\* FLUSH_STATE_PERIODIC at the end of ActivateBestChain, reached also when the
\* node is stopping, and the calls of the RPC server
PeriodicFlush ==
    /\ Serving
    /\ ThenFlush({"index", "full"})
    /\ UNCHANGED <<memory, node, disk, history>>

----------------------------------------------------------------------------
(* The end of the process, and the next start. *)

\* Shutdown: a last flush
Shutdown ==
    /\ Serving
    /\ node' = "exiting"
    /\ ThenFlush({"full"})
    /\ UNCHANGED <<memory, disk, history>>

(***************************************************************************)
(* LoadBlockIndexDB, VerifyDB and PruneAndFlush.  The node does not start  *)
(* when the best block of the coins is unknown (ConnectBlock asserts), a   *)
(* block file is missing, or the last blocks cannot be verified.  A file   *)
(* all of whose writes failed may have been allocated or not.              *)
(***************************************************************************)
Start(c, b, r) ==
    LET present(x)  == x \in b[dIndex.file[x]]
        undone(x)   == x \in dIndex.undo /\ x \in r[dIndex.file[x]]
        verifies    == \A x \in Anc[c.best] \ {Genesis} :
                          Height[x] >= Height[c.best] - CheckDepth
                            => dIndex.file[x] # NoFile /\ present(x) /\ undone(x)
        exists(x)   == b[dIndex.file[x]] # {}
        starts(allocated) ==
            /\ c.best \in dIndex.known
            /\ \A x \in HaveData(dIndex) : exists(x) \/ (allocated /\ <<x, dIndex.file[x]>> \in lost)
            /\ verifies
    IN
    /\ index' = dIndex /\ info' = dInfo /\ lastFile' = dLast
    /\ dirty' = {} /\ dirtyFiles' = {} /\ checkPrune' = TRUE
    /\ coins' = c /\ tip' = c.best
    /\ job' = JobOf("none")
    /\ restarts < MaxRestarts /\ restarts' = restarts + 1
    /\ node' \in {IF starts(allocated) THEN "running" ELSE "refused" : allocated \in BOOLEAN}
    /\ pc' = IF node' = "running" THEN "check" ELSE "idle"
    /\ UNCHANGED <<lost, top, failures>>

\* the process ends at any point; what was written is there
Crash ==
    /\ node # "refused"
    /\ Start(dCoins, blk, rev)
    /\ UNCHANGED <<disk, faults>>

\* what was not synced is gone
PowerLoss ==
    /\ node # "refused"
    /\ \E c \in dMaybe : Start(c, blkSynced, revSynced) /\ dCoins' = c /\ dMaybe' = {c}
    /\ blk' = blkSynced /\ rev' = revSynced
    /\ faults' = faults \cup {"power"}
    /\ UNCHANGED <<dIndex, dInfo, dLast, blkSynced, revSynced>>

Next ==
    \/ \E b \in Block : AcceptBlock(b) \/ AcceptBlockFails(b) \/ ConnectTip(b) \/ ConnectTipFails(b)
    \/ DisconnectTip \/ ReadFails
    \/ FlushCheck \/ FlushCommit \/ FlushIndex \/ FlushUnlink \/ FlushCoins
    \/ FlushIndexFails \/ FlushCoinsFails \/ OutOfSpace \/ PeriodicFlush
    \/ Shutdown \/ Crash \/ PowerLoss

Spec == Init /\ [][Next]_vars
----------------------------------------------------------------------------
(* Properties. *)

(***************************************************************************)
(* The coins never get to disk before the headers they rest on: whatever   *)
(* the coin database holds, also after a loss of power, every block of its *)
(* best chain has an entry in the block index database.  FlushStateToDisk  *)
(* writes the index first (main.cpp:1956); a failed index batch breaks it. *)
(***************************************************************************)
BestIndexed ==
    "write" \notin faults =>
        \A c \in dMaybe \cup {dCoins} : Anc[c.best] \subseteq dIndex.known

(***************************************************************************)
(* The block index database names a position only for a block whose record *)
(* is in that file and has been synced, through pruning, reuse of the      *)
(* space after a restart, failed writes, crashes and loss of power.  The   *)
(* only exceptions are the positions at which WriteBlockToDisk itself      *)
(* reported a failure: AcceptBlock enters those (main.cpp:2802-2804).      *)
(***************************************************************************)
IndexNamesData ==
    \A b \in HaveData(dIndex) :
        LET f == dIndex.file[b] IN <<b, f>> \notin lost => b \in blk[f] /\ b \in blkSynced[f]

(***************************************************************************)
(* As long as the power stays on, an undo record that the database names   *)
(* is in the undo file of the block's file, and no undo record is named of *)
(* a block whose data has been pruned.                                     *)
(***************************************************************************)
IndexNamesUndo ==
    "power" \notin faults =>
        \A b \in dIndex.undo : dIndex.file[b] # NoFile /\ b \in rev[dIndex.file[b]]

(***************************************************************************)
(* What the block index database says of the disk is true: the data and    *)
(* the undo records it names are in the files.                             *)
(***************************************************************************)
IndexTruthful == TypeOK /\ IndexNamesData /\ IndexNamesUndo

\* a block that was never written is named on disk
LostIsNamed == \E b \in HaveData(dIndex) : <<b, dIndex.file[b]>> \in lost

(***************************************************************************)
(* As long as no database write has failed and the power stays on, a node  *)
(* whose process dies at any point, between any two steps of a flush, is   *)
(* refused a start on the data directory it left only if a block is named  *)
(* whose write had failed, or if the coins on disk are so far behind the   *)
(* highest block ever connected that VerifyDB reads below the Keep blocks  *)
(* that are exempt from pruning: after a crash between the removal of the  *)
(* files and the flush of the coins, or a reorganisation of that depth.    *)
(***************************************************************************)
StartsAgain ==
    node = "refused" /\ faults = {} =>
        LostIsNamed \/ Height[coins.best] - CheckDepth <= top - Keep

(***************************************************************************)
(* "full block available in blk*.dat" (chain.h:88): every block that the   *)
(* index on disk says it has the data of is in its file.  It need not be:  *)
(* AcceptBlock goes on after WriteBlockToDisk has failed.                  *)
(***************************************************************************)
DataAvailable == \A b \in HaveData(dIndex) : b \in blk[dIndex.file[b]]

(***************************************************************************)
(* "First make sure all block and undo data is flushed to disk"            *)
(* (main.cpp:1930): an undo record that the synced index names is synced.  *)
(* It is not: FlushBlockFile syncs the last file, ConnectTip writes the    *)
(* undo record to the undo file of the block's own file.                   *)
(***************************************************************************)
UndoSynced ==
    \A b \in dIndex.undo : dIndex.file[b] # NoFile => b \in revSynced[dIndex.file[b]]
===============================================================================
