--------------------------- MODULE FlushStateProofs ---------------------------
(***************************************************************************)
(* Proofs about FlushState, for every tree of blocks, number of files,     *)
(* size of a file, prune target and number of failing writes and restarts. *)
(* What makes the properties inductive: while no batch has been lost, what *)
(* is not dirty is on disk as it is in memory (Synced); until pruning has  *)
(* dropped it, a position that the database names is still the one in      *)
(* memory, so that the space of its record is not reused (Kept, Dropped);  *)
(* only the last file holds records that are not synced (MemoryData).      *)
(* That the node starts again needs, on top of it, that the blocks within  *)
(* Keep of the highest block ever connected have their undo records named, *)
(* in memory for the chain of the tip and on disk for that of the coins on *)
(* disk: pruning leaves both alone (StartInv).                             *)
(***************************************************************************)
EXTENDS FlushState, FiniteSetTheorems, TLAPS

----------------------------------------------------------------------------
(* The inductive invariant. *)

\* what an index says of the block files is what their CBlockFileInfo says
IndexFits(ix, inf) ==
    /\ HaveData(ix) \subseteq ix.known
    /\ ix.undo \subseteq HaveData(ix)
    /\ \A b \in HaveData(ix) : b \in inf.data[ix.file[b]]
    /\ \A b \in ix.undo : b \in inf.undo[ix.file[b]]

MemoryFits == IndexFits(index, info)
DiskFits   == IndexFits(dIndex, dInfo)

\* every block the index in memory names is in its file, unless its write was
\* the one that failed; only the last file may hold blocks that are not synced,
\* and none once it has been committed
MemoryData ==
    \A b \in HaveData(index) :
        LET f == index.file[b] IN
        /\ f <= lastFile
        /\ <<b, f>> \notin lost =>
              b \in blk[f] /\ (f # lastFile \/ pc = "index" => b \in blkSynced[f])

DiskData == IndexNamesData /\ \A b \in HaveData(dIndex) : dIndex.file[b] <= dLast

LastGrows == dLast <= lastFile

MemoryUndo == "power" \notin faults => \A b \in index.undo : b \in rev[index.file[b]]
DiskUndo   == "power" \notin faults => \A b \in dIndex.undo : b \in rev[dIndex.file[b]]

\* what is not dirty is on disk as it is in memory, if no batch was lost
Synced ==
    "write" \notin faults =>
        /\ index.known \ dirty \subseteq dIndex.known
        /\ \A b \in Block \ dirty : b \in index.undo => b \in dIndex.undo

\* a dirty entry that names a file is written together with what info says of it
DirtyKnown ==
    /\ dirty \subseteq index.known
    /\ \A b \in dirty : index.file[b] # NoFile => index.file[b] \in dirtyFiles
    /\ pc \in {"commit", "index"} => job.prune \subseteq dirtyFiles
    /\ pc \in {"unlink", "coins"} => dirty = {}

\* where FlushStateToDisk is, and what it has still to do
Control ==
    /\ pc \in {"idle", "check", "coins"} => job.prune = {}
    /\ pc = "unlink" => job.prune # {}
    /\ pc \in {"commit", "index"} /\ job.prune # {} => job.mode = "full"
    /\ node = "refused" => pc = "idle"

\* pruning has dropped what the database says of b: its file is empty for good,
\* and it is written with that file; the block lies deep below the highest tip
Dropped(b) ==
    LET f == dIndex.file[b] IN
    /\ info.data[f] = {} /\ f < lastFile
    /\ f \in dirtyFiles => b \in dirty
    /\ Height[b] <= top - Keep

\* until pruning drops it, what the database names the index in memory names
Kept ==
    \A b \in HaveData(dIndex) :
        \/ index.file[b] = dIndex.file[b] /\ (b \in dIndex.undo => b \in index.undo)
        \/ Dropped(b)

\* nothing names a file that is to be unlinked
NoneInPruned ==
    /\ \A b \in Block : index.file[b] \notin job.prune
    /\ pc = "unlink" => \A b \in Block : dIndex.file[b] \notin job.prune

BestKnown ==
    "write" \notin faults =>
        Anc[coins.best] \subseteq index.known /\ Anc[tip] \subseteq index.known

\* no chain that the node or its disk knows ends above top
BelowTop ==
    /\ Height[tip] <= top /\ Height[coins.best] <= top
    /\ \A c \in dMaybe \cup {dCoins} : Height[c.best] <= top

IInv ==
    /\ TypeOK /\ MemoryFits /\ DiskFits /\ MemoryData /\ DiskData /\ LastGrows
    /\ MemoryUndo /\ DiskUndo /\ Synced /\ DirtyKnown /\ Control /\ Kept
    /\ NoneInPruned /\ BestKnown /\ BestIndexed /\ BelowTop


LEMMA LeastNatural ==
  ASSUME NEW S \in SUBSET Nat, S # {}
  PROVE  \E x \in S : \A y \in S : x <= y
<1> DEFINE Less == {p \in Nat \X Nat : p[1] < p[2]}
<1>1. IsWellFoundedOn(Less, Nat) BY NatLessThanWellFounded DEF OpToRel
<1>2. PICK x \in S : \A y \in S : <<y, x>> \notin Less
  <2> HIDE DEF Less
  <2> QED BY <1>1, WFMin
<1>3. \A y \in S : x <= y
  <2> TAKE y \in S
  <2>1. x \in Nat /\ y \in Nat /\ ~(y < x) BY <1>2
  <2> QED BY <2>1
<1> QED BY <1>3

LEMMA MinInSet ==
  ASSUME NEW S \in SUBSET Nat, S # {}
  PROVE  Min(S) \in S
BY LeastNatural DEF Min


----------------------------------------------------------------------------
(* Every action keeps the invariant *)

LEMMA InitHolds == Init => IInv
<1> SUFFICES ASSUME Init PROVE IInv
  OBVIOUS
<1>t. /\ Genesis \in Block /\ 0 \in File /\ NoFile \notin File /\ Height[Genesis] \in Nat
      /\ Anc[Genesis] = {Genesis} /\ MaxRestarts \in Nat /\ MaxFailures \in Nat
  BY FlushAssumption DEF FlushAssumption, File, NoFile
<1>1. /\ index \in Index /\ info \in Info /\ coins \in Coins /\ job \in Job /\ job.prune = {}
      /\ HaveData(index) = {Genesis} /\ index.file[Genesis] = 0
      /\ GenesisFile \in [File -> SUBSET Block] /\ Nothing \in [File -> SUBSET Block]
      /\ index.known = {Genesis} /\ index.undo = {} /\ Genesis \in info.data[0] /\ coins.best = Genesis
  BY <1>t DEF Init, Index, Info, Coins, Job, JobOf, Mode, HaveData, GenesisFile, Nothing
<1>2. TypeOK
  <2>1. /\ dIndex \in Index /\ dInfo \in Info /\ dCoins \in Coins /\ dMaybe \subseteq Coins
        /\ {blk, rev, blkSynced, revSynced} \subseteq [File -> SUBSET Block]
        /\ {lastFile, dLast} \subseteq File /\ tip \in Block /\ top \in Nat
    BY <1>t, <1>1 DEF Init
  <2>2. failures \in 0 .. MaxFailures /\ restarts \in 0 .. MaxRestarts
    BY <1>t DEF Init
  <2>3. /\ dirty = {} /\ dirtyFiles = {} /\ checkPrune = FALSE /\ pc = "idle"
        /\ node = "running" /\ faults = {} /\ lost = {}
    BY DEF Init
  <2>q. QED  BY <1>1, <2>1, <2>2, <2>3 DEF TypeOK
<1>3. /\ MemoryFits /\ DiskFits
  BY <1>t, <1>1 DEF Init, MemoryFits, DiskFits, IndexFits
<1>4. /\ MemoryData /\ DiskData /\ LastGrows
  BY <1>t, <1>1 DEF Init, MemoryData, DiskData, IndexNamesData, LastGrows, GenesisFile
<1>5. /\ MemoryUndo /\ DiskUndo /\ Synced /\ DirtyKnown /\ Control /\ Kept
  BY <1>t, <1>1 DEF Init, MemoryUndo, DiskUndo, Synced, DirtyKnown, Control, Kept
<1>6. NoneInPruned /\ BestKnown /\ BestIndexed /\ BelowTop
  BY <1>t, <1>1 DEF Init, NoneInPruned, BestKnown, BestIndexed, BelowTop
<1>q. QED  BY <1>2, <1>3, <1>4, <1>5, <1>6 DEF IInv

(***************************************************************************)
(* What AcceptBlock does to the state, whether the write succeeds or       *)
(* fails: nothing that info has a record of is lost, and b gets a position *)
(* in the index or only uses up space.                                     *)
(***************************************************************************)
Stores(b, f) ==
    /\ pc = "idle" /\ node \in {"running", "stopping"} /\ node' \in {"running", "stopping"}
    /\ node' = "running" => node = "running"
    /\ index.file[b] = NoFile /\ f >= lastFile /\ lastFile' = f
    /\ info' \in Info /\ info'.undo = info.undo
    /\ info'.data = [info.data EXCEPT ![f] = @ \cup {b}]
    /\ index' \in Index /\ index'.known = index.known \cup Anc[b] /\ index'.undo = index.undo
    /\ blk' \in [File -> SUBSET Block] /\ blkSynced' \in [File -> SUBSET Block]
    /\ revSynced' \in [File -> SUBSET Block]
    /\ \A g \in File \ {f} : blk'[g] = blk[g]
    /\ \A g \in File \ {f, lastFile} : blkSynced'[g] = blkSynced[g]
    /\ blk[f] \cap info.data[f] \subseteq blk'[f]
    /\ blkSynced[f] \cap info.data[f] \subseteq blkSynced'[f]
    /\ f # lastFile => blkSynced'[lastFile] = blk[lastFile]
    /\ lost' \subseteq Block \X File /\ failures' \in 0 .. MaxFailures
    /\ \A x \in Block, g \in File : <<x, g>> # <<b, f>> => (<<x, g>> \in lost' <=> <<x, g>> \in lost)
    /\ \/ /\ index'.file = [index.file EXCEPT ![b] = f]
          /\ dirty' = dirty \cup {b} \cup (Anc[b] \ index.known)
          /\ dirtyFiles' = dirtyFiles \cup {f}
          /\ <<b, f>> \in lost' \/ b \in blk'[f]
          /\ pc' = "check" /\ job' \in Job /\ job'.prune = {}
       \/ /\ index'.file = index.file
          /\ dirty' = dirty \cup (Anc[b] \ index.known)
          /\ dirtyFiles' \in {dirtyFiles, dirtyFiles \cup {f}}
          /\ UNCHANGED <<pc, job>>
    /\ checkPrune' = TRUE
    /\ UNCHANGED <<tip, coins, dIndex, dInfo, dLast, rev, dCoins, dMaybe, faults, top, restarts>>

LEMMA FilesAfterWrite ==
    ASSUME IInv, NEW f \in File, NEW b \in Block
    PROVE  /\ Left(blkSynced, blk, f) \in [File -> SUBSET Block]
           /\ Left(revSynced, rev, f) \in [File -> SUBSET Block]
           /\ \A g \in File \ {lastFile} : Left(blkSynced, blk, f)[g] = blkSynced[g]
           /\ Left(blkSynced, blk, f)[f] = blkSynced[f]
           /\ f # lastFile => Left(blkSynced, blk, f)[lastFile] = blk[lastFile]
BY DEF IInv, TypeOK, Left, FlushBlockFile

LEMMA AcceptBlockStores ==
    ASSUME IInv, NEW b \in Block, AcceptBlock(b)
    PROVE  \E f \in File : Stores(b, f)
<1>1. PICK f \in File :
        /\ BlockArrives(b, f)
        /\ index' = [index EXCEPT !.known = @ \cup NewEntries(b), !.file[b] = f]
        /\ dirty' = dirty \cup {b} \cup NewEntries(b) /\ dirtyFiles' = dirtyFiles \cup {f}
        /\ ThenFlush({"none"})
        /\ \/ /\ blk' = Written(blk, info.data, f, b)
              /\ blkSynced' = Cut(Left(blkSynced, blk, f), info.data, f)
              /\ lost' = lost \ {<<b, f>>} /\ UNCHANGED <<node, failures>>
           \/ /\ WriteFails
              /\ blk' = blk /\ blkSynced' = Left(blkSynced, blk, f)
              /\ lost' = lost \cup {<<b, f>>} /\ node' = "stopping"
  BY DEF AcceptBlock
<1>2. /\ info' \in Info /\ info'.undo = info.undo
      /\ info'.data = [info.data EXCEPT ![f] = @ \cup {b}]
  BY <1>1 DEF BlockArrives, IInv, TypeOK, Info
<1>3. /\ index' \in Index /\ index'.known = index.known \cup Anc[b] /\ index'.undo = index.undo
      /\ index'.file = [index.file EXCEPT ![b] = f]
  BY <1>1, FlushAssumption DEF IInv, TypeOK, Index, NewEntries, FlushAssumption
<1>4. job' \in Job /\ job'.prune = {} /\ pc' = "check"
  BY <1>1 DEF ThenFlush, JobOf, Job, Mode
<1>5. f >= lastFile /\ pc = "idle" /\ node \in {"running", "stopping"}
  BY <1>1 DEF BlockArrives, IsNext, Serving, IInv, TypeOK, File
<1>6. /\ \A g \in File \ {f} : blk'[g] = blk[g]
      /\ \A g \in File \ {f, lastFile} : blkSynced'[g] = blkSynced[g]
      /\ blk[f] \cap info.data[f] \subseteq blk'[f]
      /\ blkSynced[f] \cap info.data[f] \subseteq blkSynced'[f]
      /\ f # lastFile => blkSynced'[lastFile] = blk[lastFile]
      /\ blk' \in [File -> SUBSET Block] /\ blkSynced' \in [File -> SUBSET Block]
      /\ <<b, f>> \in lost' \/ b \in blk'[f]
  <2>1. blk \in [File -> SUBSET Block] /\ blkSynced \in [File -> SUBSET Block]
    BY DEF IInv, TypeOK
  <2> DEFINE left == Left(blkSynced, blk, f)
  <2>2. /\ left \in [File -> SUBSET Block]
        /\ \A g \in File \ {lastFile} : left[g] = blkSynced[g]
        /\ left[f] = blkSynced[f] /\ (f # lastFile => left[lastFile] = blk[lastFile])
    BY FilesAfterWrite
  <2>l. lastFile \in File
    BY DEF IInv, TypeOK
  <2> HIDE DEF left
  <2>3. CASE /\ blk' = Written(blk, info.data, f, b)
             /\ blkSynced' = Cut(left, info.data, f)
    <3>1. /\ blk' = [blk EXCEPT ![f] = (@ \cap info.data[f]) \cup {b}]
          /\ blkSynced' = [left EXCEPT ![f] = @ \cap info.data[f]]
      BY <2>3 DEF Written, Cut
    <3>2. /\ \A g \in File \ {f} : blk'[g] = blk[g] /\ blkSynced'[g] = left[g]
          /\ blk'[f] = (blk[f] \cap info.data[f]) \cup {b}
          /\ blkSynced'[f] = blkSynced[f] \cap info.data[f]
          /\ blk' \in [File -> SUBSET Block] /\ blkSynced' \in [File -> SUBSET Block]
      BY <2>1, <2>2, <3>1
    <3> HIDE DEF left
    <3>q. QED  BY <2>2, <2>l, <3>2
  <2>4. CASE blk' = blk /\ blkSynced' = left /\ lost' = lost \cup {<<b, f>>}
    BY <2>1, <2>2, <2>4
  <2>q. QED  BY <1>1, <2>3, <2>4 DEF left
<1>7. /\ lost' \subseteq Block \X File /\ failures' \in 0 .. MaxFailures
      /\ \A x \in Block, g \in File : <<x, g>> # <<b, f>> => (<<x, g>> \in lost' <=> <<x, g>> \in lost)
  BY <1>1, FlushAssumption DEF IInv, TypeOK, WriteFails, FlushAssumption
<1>8. revSynced' \in [File -> SUBSET Block]
  BY <1>1, FilesAfterWrite DEF BlockArrives
<1>q. QED
  BY <1>1, <1>2, <1>3, <1>4, <1>5, <1>6, <1>7, <1>8 DEF Stores, BlockArrives, NewEntries

LEMMA AcceptBlockFailsStores ==
    ASSUME IInv, NEW b \in Block, AcceptBlockFails(b)
    PROVE  \E f \in File : Stores(b, f)
<1>1. PICK f \in File :
        /\ BlockArrives(b, f)
        /\ \/ /\ blk' = blk /\ blkSynced' = Left(blkSynced, blk, f)
              /\ dirtyFiles' = dirtyFiles /\ node' = "stopping"
           \/ /\ blk' = Cut(blk, info.data, f)
              /\ blkSynced' = Cut(Left(blkSynced, blk, f), info.data, f)
              /\ dirtyFiles' = dirtyFiles \cup {f} /\ node' \in {node, "stopping"}
  BY DEF AcceptBlockFails
<1>2. /\ info' \in Info /\ info'.undo = info.undo
      /\ info'.data = [info.data EXCEPT ![f] = @ \cup {b}]
  BY <1>1 DEF BlockArrives, IInv, TypeOK, Info
<1>3. /\ index' \in Index /\ index'.known = index.known \cup Anc[b] /\ index'.undo = index.undo
      /\ index'.file = index.file
  BY FlushAssumption DEF AcceptBlockFails, IInv, TypeOK, Index, NewEntries, FlushAssumption
<1>4. /\ UNCHANGED <<pc, job, lost>> /\ dirty' = dirty \cup (Anc[b] \ index.known)
      /\ failures' \in 0 .. MaxFailures
  BY FlushAssumption DEF AcceptBlockFails, NewEntries, WriteFails, IInv, TypeOK, FlushAssumption
<1>5. f >= lastFile /\ pc = "idle" /\ node \in {"running", "stopping"}
  BY <1>1 DEF BlockArrives, IsNext, Serving, IInv, TypeOK, File
<1>6. /\ \A g \in File \ {f} : blk'[g] = blk[g]
      /\ \A g \in File \ {f, lastFile} : blkSynced'[g] = blkSynced[g]
      /\ blk[f] \cap info.data[f] \subseteq blk'[f]
      /\ blkSynced[f] \cap info.data[f] \subseteq blkSynced'[f]
      /\ f # lastFile => blkSynced'[lastFile] = blk[lastFile]
      /\ blk' \in [File -> SUBSET Block] /\ blkSynced' \in [File -> SUBSET Block]
  <2>1. blk \in [File -> SUBSET Block] /\ blkSynced \in [File -> SUBSET Block]
    BY DEF IInv, TypeOK
  <2> DEFINE left == Left(blkSynced, blk, f)
  <2>2. /\ left \in [File -> SUBSET Block]
        /\ \A g \in File \ {lastFile} : left[g] = blkSynced[g]
        /\ left[f] = blkSynced[f] /\ (f # lastFile => left[lastFile] = blk[lastFile])
    BY FilesAfterWrite
  <2>l. lastFile \in File
    BY DEF IInv, TypeOK
  <2> HIDE DEF left
  <2>3. CASE blk' = Cut(blk, info.data, f) /\ blkSynced' = Cut(left, info.data, f)
    <3>1. /\ blk' = [blk EXCEPT ![f] = @ \cap info.data[f]]
          /\ blkSynced' = [left EXCEPT ![f] = @ \cap info.data[f]]
      BY <2>3 DEF Cut
    <3>2. /\ \A g \in File \ {f} : blk'[g] = blk[g] /\ blkSynced'[g] = left[g]
          /\ blk'[f] = blk[f] \cap info.data[f]
          /\ blkSynced'[f] = blkSynced[f] \cap info.data[f]
          /\ blk' \in [File -> SUBSET Block] /\ blkSynced' \in [File -> SUBSET Block]
      BY <2>1, <2>2, <3>1
    <3>q. QED  BY <2>2, <2>l, <3>2
  <2>4. CASE blk' = blk /\ blkSynced' = left
    BY <2>1, <2>2, <2>4
  <2>q. QED  BY <1>1, <2>3, <2>4 DEF left
<1>7. lost' \subseteq Block \X File /\ revSynced' \in [File -> SUBSET Block]
  BY <1>1, <1>4, FilesAfterWrite DEF BlockArrives, IInv, TypeOK
<1>q. QED
  BY <1>1, <1>2, <1>3, <1>4, <1>5, <1>6, <1>7 DEF Stores, BlockArrives

LEMMA StoresKeeps ==
    ASSUME IInv, NEW b \in Block, NEW f \in File, Stores(b, f)
    PROVE  IInv'
<1>t. /\ index.file \in [Block -> File \cup {NoFile}] /\ index'.file \in [Block -> File \cup {NoFile}]
      /\ info.data \in [File -> SUBSET Block] /\ lastFile \in File /\ f >= lastFile
      /\ lastFile' = f /\ index.file[b] = NoFile
      /\ \A g \in File : g \in Nat
      /\ blk \in [File -> SUBSET Block] /\ blkSynced \in [File -> SUBSET Block]
  BY FlushAssumption DEF IInv, TypeOK, Index, Info, Stores, File, FlushAssumption
<1>1. TypeOK'
  <2>1. /\ dirty' \subseteq Block /\ dirtyFiles' \subseteq File /\ checkPrune' \in BOOLEAN
    BY FlushAssumption DEF Stores, IInv, TypeOK, FlushAssumption
  <2>2. /\ index' \in Index /\ info' \in Info /\ lost' \subseteq Block \X File
        /\ failures' \in 0 .. MaxFailures /\ lastFile' \in File
        /\ blk' \in [File -> SUBSET Block] /\ blkSynced' \in [File -> SUBSET Block]
        /\ revSynced' \in [File -> SUBSET Block]
        /\ node' \in {"running", "stopping", "exiting", "refused"}
    BY DEF Stores
  <2>3. pc' \in {"idle", "check"} /\ job' \in Job
    BY DEF Stores, IInv, TypeOK
  <2>4. UNCHANGED <<tip, coins, dIndex, dInfo, dLast, rev, dCoins, dMaybe, faults, top, restarts>>
    BY DEF Stores
  <2>q. QED  BY <2>1, <2>2, <2>3, <2>4 DEF IInv, TypeOK
<1>2. MemoryFits'
  <2>1. /\ \A x \in HaveData(index)' : x # b => x \in HaveData(index) /\ index'.file[x] = index.file[x]
        /\ b \in HaveData(index)' => index'.file[b] = f
    BY <1>t DEF Stores, HaveData
  <2>2. /\ \A g \in File : info.data[g] \subseteq info'.data[g]
        /\ b \in info'.data[f]
    BY <1>t DEF Stores
  <2>3. /\ HaveData(index) \subseteq index.known /\ index.undo \subseteq HaveData(index)
        /\ \A x \in HaveData(index) : x \in info.data[index.file[x]] /\ index.file[x] \in File
        /\ \A x \in index.undo : x \in info.undo[index.file[x]]
        /\ b \notin HaveData(index)
    BY <1>t DEF IInv, MemoryFits, IndexFits, HaveData
  <2>4. /\ index'.known = index.known \cup Anc[b] /\ index'.undo = index.undo /\ b \in Anc[b]
        /\ info'.undo = info.undo
    BY FlushAssumption DEF Stores, FlushAssumption
  <2>5. HaveData(index') \subseteq index'.known
    BY <2>1, <2>3, <2>4
  <2>6. index'.undo \subseteq HaveData(index')
    <3>1. ASSUME NEW x \in index.undo PROVE x \in HaveData(index')
      <4>1. x \in Block /\ x # b /\ index.file[x] # NoFile
        BY <2>3 DEF HaveData
      <4>2. index'.file[x] = index.file[x]
        BY <1>t, <4>1 DEF Stores
      <4>q. QED  BY <4>1, <4>2 DEF HaveData
    <3>q. QED  BY <2>4, <3>1
  <2>7. \A x \in index'.undo : index'.file[x] = index.file[x]
    BY <2>1, <2>3, <2>4, <2>6
  <2>q. QED  BY <2>1, <2>2, <2>3, <2>4, <2>5, <2>6, <2>7 DEF MemoryFits, IndexFits
<1>3. DiskFits'
  BY DEF Stores, IInv, DiskFits, IndexFits, HaveData
<1>4. MemoryData'
  <2>1. SUFFICES ASSUME NEW x \in HaveData(index)'
                 PROVE  /\ index'.file[x] <= f
                        /\ <<x, index'.file[x]>> \notin lost' =>
                             /\ x \in blk'[index'.file[x]]
                             /\ index'.file[x] # f => x \in blkSynced'[index'.file[x]]
    <3>1. pc' # "index"  BY DEF Stores
    <3>q. QED  BY <1>t, <3>1 DEF MemoryData
  <2>2. x \in Block /\ index'.file[x] \in File
    BY <1>t DEF HaveData
  <2>3. CASE index'.file[x] = f /\ x = b
    <3>1. f # NoFile  BY <1>t DEF NoFile
    <3>2. <<b, f>> \in lost' \/ b \in blk'[f]
      BY <1>t, <2>3, <3>1 DEF Stores
    <3>q. QED  BY <1>t, <2>3, <3>2
  <2>4. CASE ~(index'.file[x] = f /\ x = b)
    <3>1. x \in HaveData(index) /\ index'.file[x] = index.file[x]
      BY <1>t, <2>2, <2>4 DEF Stores, HaveData, NoFile, File
    <3>2. /\ index.file[x] <= lastFile /\ x \in info.data[index.file[x]]
          /\ <<x, index.file[x]>> \notin lost =>
                /\ x \in blk[index.file[x]]
                /\ index.file[x] # lastFile => x \in blkSynced[index.file[x]]
      BY <3>1 DEF IInv, MemoryData, MemoryFits, IndexFits
    <3>3. <<x, index.file[x]>> \in lost' <=> <<x, index.file[x]>> \in lost
      BY <2>2, <2>4, <3>1 DEF Stores
    <3>q. QED  BY <1>t, <2>2, <3>1, <3>2, <3>3 DEF Stores
  <2>q. QED  BY <2>3, <2>4
<1>5. DiskData'
  <2>1. SUFFICES ASSUME NEW x \in HaveData(dIndex), <<x, dIndex.file[x]>> \notin lost'
                 PROVE  x \in blk'[dIndex.file[x]] /\ x \in blkSynced'[dIndex.file[x]]
    BY DEF Stores, IInv, DiskData, IndexNamesData, HaveData
  <2>2. x \in Block /\ dIndex.file[x] \in File
    BY DEF IInv, TypeOK, Index, HaveData
  <2>3. \/ index.file[x] = dIndex.file[x] /\ x \in info.data[dIndex.file[x]]
        \/ dIndex.file[x] < lastFile /\ dIndex.file[x] # f
    BY <1>t, <2>2 DEF IInv, Kept, Dropped, MemoryFits, IndexFits, HaveData
  <2>4. <<x, dIndex.file[x]>> # <<b, f>>
    BY <1>t, <2>2, <2>3 DEF HaveData
  <2>5. x \in blk[dIndex.file[x]] /\ x \in blkSynced[dIndex.file[x]]
    BY <2>1, <2>2, <2>4 DEF Stores, IInv, DiskData, IndexNamesData
  <2>6. CASE dIndex.file[x] < lastFile /\ dIndex.file[x] # f
    BY <1>t, <2>2, <2>5, <2>6 DEF Stores
  <2>7. CASE x \in info.data[dIndex.file[x]]
    BY <1>t, <2>2, <2>5, <2>7 DEF Stores
  <2>q. QED  BY <2>3, <2>6, <2>7
<1>6. LastGrows'
  BY <1>t DEF Stores, IInv, LastGrows, TypeOK, File
<1>7. MemoryUndo'
  BY <1>t DEF Stores, IInv, MemoryUndo, MemoryFits, IndexFits, HaveData
<1>8. DiskUndo'
  BY DEF Stores, IInv, DiskUndo
<1>9. Synced'
  BY DEF Stores, IInv, Synced
<1>10. DirtyKnown'
  <2>1. \A x \in Anc[b] \ index.known : index.file[x] = NoFile
    BY FlushAssumption DEF IInv, MemoryFits, IndexFits, HaveData, FlushAssumption
  <2>q. QED  BY <1>t, <2>1, FlushAssumption DEF Stores, IInv, DirtyKnown, TypeOK, FlushAssumption
<1>11. Control'
  BY DEF Stores, IInv, Control
<1>12. Kept'
  <2>1. SUFFICES ASSUME NEW x \in HaveData(dIndex)
                 PROVE  \/ index'.file[x] = dIndex.file[x] /\ (x \in dIndex.undo => x \in index.undo)
                        \/ Dropped(x)'
    BY DEF Stores, Kept, HaveData
  <2>2. x \in Block /\ dIndex.file[x] \in File
    BY DEF IInv, TypeOK, Index, HaveData
  <2>3. CASE index.file[x] = dIndex.file[x] /\ (x \in dIndex.undo => x \in index.undo)
    BY <1>t, <2>2, <2>3 DEF Stores, HaveData
  <2>4. CASE Dropped(x)
    BY <1>t, <2>2, <2>4 DEF Stores, Dropped
  <2>q. QED  BY <2>3, <2>4 DEF IInv, Kept
<1>13. NoneInPruned'
  BY DEF Stores, IInv, NoneInPruned, Control
<1>14. BestKnown'
  BY DEF Stores, IInv, BestKnown
<1>15. BestIndexed'
  BY DEF Stores, IInv, BestIndexed
<1>16. BelowTop'
  BY DEF Stores, IInv, BelowTop
<1>q. QED  BY <1>1, <1>2, <1>3, <1>4, <1>5, <1>6, <1>7, <1>8, <1>9, <1>10, <1>11,
    <1>12, <1>13, <1>14, <1>15, <1>16 DEF IInv

\* an undo record is written to a file that holds a block, and what info has
\* a record of stays; no such file has been dropped
LEMMA UndoStays ==
    ASSUME IInv, NEW b \in Block, b \in HaveData(index), NEW x \in dIndex.undo,
           dIndex.file[x] = index.file[b]
    PROVE  x \in info.undo[index.file[b]]
BY DEF IInv, TypeOK, Index, Info, DiskFits, MemoryFits, IndexFits, HaveData, Kept, Dropped

LEMMA ConnectTipKeeps ==
    ASSUME IInv, NEW b \in Block, ConnectTip(b), b \notin index.undo
    PROVE  IInv'
<1>f. /\ pc = "idle" /\ node = "running"
      /\ b # Genesis
      /\ Parent[b] = tip
      /\ b \in index.known
      /\ index.file[b] \in File
      /\ b \in HaveData(index)
      /\ coins' \in Coins
      /\ coins'.best = b
      /\ top' \in Nat /\ top' >= top /\ top' >= Height[b]
      /\ pc' = "check"
      /\ job' \in Job
      /\ job'.prune = {}
      /\ rev' = [rev EXCEPT ![index.file[b]] = (@ \cap info.undo[index.file[b]]) \cup {b}]
      /\ revSynced' \in [File -> SUBSET Block]
      /\ info' \in Info
      /\ info'.data = info.data
      /\ info'.undo = [info.undo EXCEPT ![index.file[b]] = @ \cup {b}]
      /\ index' \in Index
      /\ index'.known = index.known
      /\ index'.file = index.file
      /\ index'.undo = index.undo \cup {b}
      /\ dirty' = dirty \cup {b}
      /\ dirtyFiles' = dirtyFiles \cup {index.file[b]}
      /\ checkPrune' = TRUE
      /\ UNCHANGED <<lastFile, tip, node, dIndex, dInfo, dLast, blk, blkSynced,
                    dCoins, dMaybe, faults, lost, failures, restarts>>
  <2>1. /\ pc = "idle" /\ node = "running" /\ b # Genesis /\ Parent[b] = tip
        /\ b \in index.known /\ index.file[b] \in File /\ b \in HaveData(index)
    BY DEF IInv, TypeOK, Index, ConnectTip, Ready, Connectable, Readable, HaveData
  <2>2. /\ index' \in Index /\ index'.known = index.known
        /\ index'.file = index.file /\ index'.undo = index.undo \cup {b}
    BY DEF IInv, TypeOK, Index, ConnectTip
  <2>3. /\ info' \in Info /\ info'.data = info.data
        /\ info'.undo = [info.undo EXCEPT ![index.file[b]] = @ \cup {b}]
    BY <2>1 DEF IInv, TypeOK, Info, ConnectTip
  <2>4. job' \in Job /\ job'.prune = {} /\ pc' = "check"
    BY DEF ConnectTip, ThenFlush, JobOf, Job, Mode
  <2>5. coins' \in Coins /\ coins'.best = b
    BY DEF IInv, TypeOK, Coins, ConnectTip
  <2>6. top' \in Nat /\ top' >= top /\ top' >= Height[b]
    BY FlushAssumption DEF IInv, TypeOK, ConnectTip, HigherOf, FlushAssumption
  <2>7. revSynced' \in [File -> SUBSET Block]
    BY DEF IInv, TypeOK, ConnectTip, Cut
  <2>q. QED  BY <2>1, <2>2, <2>3, <2>4, <2>5, <2>6, <2>7 DEF ConnectTip, Written
<1>1. TypeOK'
  BY <1>f DEF IInv, TypeOK
<1>2. MemoryFits'
  BY <1>f, FlushAssumption DEF IInv, FlushAssumption, MemoryFits, IndexFits, HaveData,
      TypeOK, Index, Info, NoFile, File
<1>3. DiskFits'
  BY <1>f DEF IInv, DiskFits, IndexFits, HaveData
<1>4. MemoryData'
  BY <1>f DEF IInv, MemoryData, HaveData
<1>5. DiskData'
  BY <1>f DEF IInv, DiskData, IndexNamesData, HaveData
<1>6. LastGrows'
  BY <1>f DEF IInv, LastGrows
<1>7. MemoryUndo'
  BY <1>f DEF IInv, MemoryUndo, MemoryFits, IndexFits, HaveData, TypeOK, Index, File,
      NoFile
<1>8. DiskUndo'
  BY <1>f, UndoStays DEF IInv, DiskUndo, DiskFits, IndexFits, HaveData, TypeOK, Index
<1>9. Synced'
  BY <1>f DEF IInv, Synced
<1>10. DirtyKnown'
  BY <1>f DEF IInv, DirtyKnown
<1>11. Control'
  BY <1>f DEF IInv, Control
<1>12. Kept'
  <2>1. SUFFICES ASSUME NEW x \in HaveData(dIndex), Dropped(x)
                 PROVE  Dropped(x)'
    BY <1>f DEF IInv, Kept, HaveData
  <2>2. dIndex.file[x] # index.file[b]
    BY <1>f, <2>1 DEF IInv, Dropped, MemoryFits, IndexFits
  <2>3. x \in Block /\ Height[x] \in Nat /\ Keep \in Nat
    BY FlushAssumption DEF HaveData, FlushAssumption
  <2>q. QED  BY <1>f, <2>1, <2>2, <2>3 DEF Dropped, IInv, TypeOK
<1>13. NoneInPruned'
  BY <1>f DEF NoneInPruned
<1>14. BestKnown'
  BY <1>f, FlushAssumption DEF IInv, FlushAssumption, BestKnown, TypeOK
<1>15. BestIndexed'
  BY <1>f DEF IInv, BestIndexed
<1>16. BelowTop'
  BY <1>f, FlushAssumption DEF IInv, BelowTop, TypeOK, Coins, FlushAssumption
<1>q. QED  BY <1>1, <1>2, <1>3, <1>4, <1>5, <1>6, <1>7, <1>8, <1>9, <1>10, <1>11,
    <1>12, <1>13, <1>14, <1>15, <1>16 DEF IInv

\* the undo record of a block that was connected before is not written again
LEMMA ReconnectTipKeeps ==
    ASSUME IInv, NEW b \in Block, ConnectTip(b), b \in index.undo
    PROVE  IInv'
<1>f. /\ pc = "idle" /\ node = "running"
      /\ b # Genesis
      /\ Parent[b] = tip
      /\ b \in index.known
      /\ coins' \in Coins
      /\ coins'.best = b
      /\ top' \in Nat /\ top' >= top /\ top' >= Height[b]
      /\ pc' = "check"
      /\ job' \in Job
      /\ job'.prune = {}
      /\ UNCHANGED <<index, dirty, info, dirtyFiles, lastFile, checkPrune, tip, node,
                    dIndex, dInfo, dLast, blk, rev, blkSynced, revSynced, dCoins,
                    dMaybe, faults, lost, failures, restarts>>
  BY FlushAssumption DEF IInv, TypeOK, Index, Info, Coins, FlushAssumption, Job, Mode,
      memory, disk, files, history, WriteFails, JobOf, ConnectTip, Ready, ThenFlush,
      Connectable, HigherOf
<1>1. TypeOK'
  BY <1>f DEF IInv, TypeOK
<1>2. MemoryFits'
  BY <1>f DEF IInv, MemoryFits, IndexFits, HaveData
<1>3. DiskFits'
  BY <1>f DEF IInv, DiskFits, IndexFits, HaveData
<1>4. MemoryData'
  BY <1>f DEF IInv, MemoryData, HaveData
<1>5. DiskData'
  BY <1>f DEF IInv, DiskData, IndexNamesData, HaveData
<1>6. LastGrows'
  BY <1>f DEF IInv, LastGrows
<1>7. MemoryUndo'
  BY <1>f DEF IInv, MemoryUndo
<1>8. DiskUndo'
  BY <1>f DEF IInv, DiskUndo
<1>9. Synced'
  BY <1>f DEF IInv, Synced
<1>10. DirtyKnown'
  BY <1>f DEF IInv, DirtyKnown
<1>11. Control'
  BY <1>f DEF IInv, Control
<1>12. Kept'
  <2>1. SUFFICES ASSUME NEW x \in HaveData(dIndex), Dropped(x)
                 PROVE  Dropped(x)'
    BY <1>f DEF IInv, Kept, HaveData
  <2>2. Height[x] \in Nat /\ Keep \in Nat /\ top \in Nat
    BY FlushAssumption DEF HaveData, FlushAssumption, IInv, TypeOK
  <2>q. QED  BY <1>f, <2>1, <2>2 DEF Dropped
<1>13. NoneInPruned'
  BY <1>f DEF NoneInPruned
<1>14. BestKnown'
  BY <1>f, FlushAssumption DEF IInv, FlushAssumption, BestKnown, TypeOK
<1>15. BestIndexed'
  BY <1>f DEF IInv, BestIndexed
<1>16. BelowTop'
  BY <1>f, FlushAssumption DEF IInv, BelowTop, TypeOK, Coins, FlushAssumption
<1>q. QED  BY <1>1, <1>2, <1>3, <1>4, <1>5, <1>6, <1>7, <1>8, <1>9, <1>10, <1>11,
    <1>12, <1>13, <1>14, <1>15, <1>16 DEF IInv

LEMMA ConnectTipFailsKeeps ==
    ASSUME IInv, NEW b \in Block, ConnectTipFails(b)
    PROVE  IInv'
<1>f. /\ pc = "idle" /\ node = "running"
      /\ node' \in {"running", "stopping"}
      /\ index.file[b] \in File
      /\ b \in HaveData(index)
      /\ rev' \in [File -> SUBSET Block] /\ revSynced' \in [File -> SUBSET Block]
      /\ \A g \in File \ {index.file[b]} : rev'[g] = rev[g]
      /\ rev[index.file[b]] \cap info.undo[index.file[b]] \subseteq rev'[index.file[b]]
      /\ info' \in Info
      /\ info'.data = info.data
      /\ info'.undo = [info.undo EXCEPT ![index.file[b]] = @ \cup {b}]
      /\ dirtyFiles' = dirtyFiles \cup {index.file[b]}
      /\ checkPrune' = TRUE
      /\ failures' \in 0 .. MaxFailures
      /\ UNCHANGED <<index, dirty, lastFile, tip, coins, pc, job, dIndex, dInfo, dLast, blk,
                    blkSynced, dCoins, dMaybe, faults, lost, top, restarts>>
  <2>1. /\ pc = "idle" /\ node = "running" /\ index.file[b] \in File /\ b \in HaveData(index)
    BY DEF IInv, TypeOK, Index, ConnectTipFails, Ready, Connectable, Readable, HaveData
  <2>2. /\ info' \in Info /\ info'.data = info.data
        /\ info'.undo = [info.undo EXCEPT ![index.file[b]] = @ \cup {b}]
    BY <2>1 DEF IInv, TypeOK, Info, ConnectTipFails
  <2>3. failures' \in 0 .. MaxFailures
    BY FlushAssumption DEF IInv, TypeOK, ConnectTipFails, WriteFails, FlushAssumption
  <2>4. /\ rev' \in [File -> SUBSET Block] /\ revSynced' \in [File -> SUBSET Block]
        /\ \A g \in File \ {index.file[b]} : rev'[g] = rev[g]
        /\ rev[index.file[b]] \cap info.undo[index.file[b]] \subseteq rev'[index.file[b]]
        /\ node' \in {"running", "stopping"}
    BY <2>1 DEF IInv, TypeOK, ConnectTipFails, Cut
  <2>q. QED  BY <2>1, <2>2, <2>3, <2>4 DEF ConnectTipFails, history
<1>1. TypeOK'
  BY <1>f DEF IInv, TypeOK
<1>2. MemoryFits'
  BY <1>f DEF IInv, MemoryFits, IndexFits, HaveData, TypeOK, Index, Info
<1>3. DiskFits'
  BY <1>f DEF IInv, DiskFits, IndexFits, HaveData
<1>4. MemoryData'
  BY <1>f DEF IInv, MemoryData, HaveData
<1>5. DiskData'
  BY <1>f DEF IInv, DiskData, IndexNamesData, HaveData
<1>6. LastGrows'
  BY <1>f DEF IInv, LastGrows
<1>7. MemoryUndo'
  BY <1>f DEF IInv, MemoryUndo, MemoryFits, IndexFits, HaveData, TypeOK, Index
<1>8. DiskUndo'
  BY <1>f, UndoStays DEF IInv, DiskUndo, DiskFits, IndexFits, HaveData, TypeOK, Index
<1>9. Synced'
  BY <1>f DEF IInv, Synced
<1>10. DirtyKnown'
  BY <1>f DEF IInv, DirtyKnown
<1>11. Control'
  BY <1>f DEF IInv, Control
<1>12. Kept'
  <2>1. SUFFICES ASSUME NEW x \in HaveData(dIndex), Dropped(x)
                 PROVE  Dropped(x)'
    BY <1>f DEF IInv, Kept, HaveData
  <2>2. dIndex.file[x] # index.file[b]
    BY <1>f, <2>1 DEF IInv, Dropped, MemoryFits, IndexFits
  <2>q. QED  BY <1>f, <2>1, <2>2 DEF Dropped
<1>13. NoneInPruned'
  BY <1>f DEF IInv, NoneInPruned
<1>14. BestKnown'
  BY <1>f DEF IInv, BestKnown
<1>15. BestIndexed'
  BY <1>f DEF IInv, BestIndexed
<1>16. BelowTop'
  BY <1>f DEF IInv, BelowTop
<1>q. QED  BY <1>1, <1>2, <1>3, <1>4, <1>5, <1>6, <1>7, <1>8, <1>9, <1>10, <1>11,
    <1>12, <1>13, <1>14, <1>15, <1>16 DEF IInv

LEMMA DisconnectTipKeeps ==
    ASSUME IInv, DisconnectTip
    PROVE  IInv'
<1>f. /\ pc = "idle" /\ node = "running"
      /\ tip # Genesis
      /\ coins' \in Coins
      /\ coins'.best = Parent[tip]
      /\ pc' = "check"
      /\ job' \in Job
      /\ job'.prune = {}
      /\ UNCHANGED <<index, dirty, info, dirtyFiles, lastFile, checkPrune, tip, node,
                    dIndex, dInfo, dLast, blk, rev, blkSynced, revSynced,
                    dCoins, dMaybe, faults, lost, top, failures, restarts>>
  BY FlushAssumption DEF IInv, TypeOK, Index, Info, Coins, FlushAssumption, Job, Mode,
      memory, disk, files, history, WriteFails, JobOf, DisconnectTip, Ready, ThenFlush
<1>1. TypeOK'
  BY <1>f DEF IInv, TypeOK
<1>2. MemoryFits'
  BY <1>f DEF IInv, MemoryFits, IndexFits, HaveData
<1>3. DiskFits'
  BY <1>f DEF IInv, DiskFits, IndexFits, HaveData
<1>4. MemoryData'
  BY <1>f DEF IInv, MemoryData, HaveData
<1>5. DiskData'
  BY <1>f DEF IInv, DiskData, IndexNamesData, HaveData
<1>6. LastGrows'
  BY <1>f DEF IInv, LastGrows
<1>7. MemoryUndo'
  BY <1>f DEF IInv, MemoryUndo
<1>8. DiskUndo'
  BY <1>f DEF IInv, DiskUndo
<1>9. Synced'
  BY <1>f DEF IInv, Synced
<1>10. DirtyKnown'
  BY <1>f DEF IInv, DirtyKnown
<1>11. Control'
  BY <1>f DEF IInv, Control
<1>12. Kept'
  BY <1>f DEF IInv, Kept, Dropped, HaveData
<1>13. NoneInPruned'
  BY <1>f DEF IInv, NoneInPruned, Control
<1>14. BestKnown'
  BY <1>f, FlushAssumption DEF IInv, FlushAssumption, BestKnown, TypeOK
<1>15. BestIndexed'
  BY <1>f DEF IInv, BestIndexed
<1>16. BelowTop'
  BY <1>f, FlushAssumption DEF IInv, BelowTop, TypeOK, FlushAssumption
<1>q. QED  BY <1>1, <1>2, <1>3, <1>4, <1>5, <1>6, <1>7, <1>8, <1>9, <1>10, <1>11,
    <1>12, <1>13, <1>14, <1>15, <1>16 DEF IInv

LEMMA ReadFailsKeeps ==
    ASSUME IInv, ReadFails
    PROVE  IInv'
<1>f. /\ pc = "idle" /\ node = "running"
      /\ node' = "stopping"
      /\ UNCHANGED <<index, dirty, info, dirtyFiles, lastFile, checkPrune, tip, coins,
                    pc, job, dIndex, dInfo, dLast, blk, rev, blkSynced, revSynced,
                    dCoins, dMaybe,
                    faults, lost, top, failures, restarts>>
  BY FlushAssumption DEF IInv, TypeOK, Index, Info, Coins, FlushAssumption, Job, Mode,
      memory, disk, files, history, WriteFails, JobOf, ReadFails, Ready
<1>1. TypeOK'
  BY <1>f DEF IInv, TypeOK
<1>2. MemoryFits'
  BY <1>f DEF IInv, MemoryFits, IndexFits, HaveData
<1>3. DiskFits'
  BY <1>f DEF IInv, DiskFits, IndexFits, HaveData
<1>4. MemoryData'
  BY <1>f DEF IInv, MemoryData, HaveData
<1>5. DiskData'
  BY <1>f DEF IInv, DiskData, IndexNamesData, HaveData
<1>6. LastGrows'
  BY <1>f DEF IInv, LastGrows
<1>7. MemoryUndo'
  BY <1>f DEF IInv, MemoryUndo
<1>8. DiskUndo'
  BY <1>f DEF IInv, DiskUndo
<1>9. Synced'
  BY <1>f DEF IInv, Synced
<1>10. DirtyKnown'
  BY <1>f DEF IInv, DirtyKnown
<1>11. Control'
  BY <1>f DEF IInv, Control
<1>12. Kept'
  BY <1>f DEF IInv, Kept, Dropped, HaveData
<1>13. NoneInPruned'
  BY <1>f DEF IInv, NoneInPruned
<1>14. BestKnown'
  BY <1>f DEF IInv, BestKnown
<1>15. BestIndexed'
  BY <1>f DEF IInv, BestIndexed
<1>16. BelowTop'
  BY <1>f DEF IInv, BelowTop
<1>q. QED  BY <1>1, <1>2, <1>3, <1>4, <1>5, <1>6, <1>7, <1>8, <1>9, <1>10, <1>11,
    <1>12, <1>13, <1>14, <1>15, <1>16 DEF IInv

LEMMA FlushCommitKeeps ==
    ASSUME IInv, FlushCommit
    PROVE  IInv'
<1>f. /\ pc = "commit"
      /\ pc' = "index"
      /\ blkSynced' = [blkSynced EXCEPT ![lastFile] = blk[lastFile]]
      /\ revSynced' = [revSynced EXCEPT ![lastFile] = rev[lastFile]]
      /\ UNCHANGED <<index, dirty, info, dirtyFiles, lastFile, checkPrune, tip, coins,
                    job, node, dIndex, dInfo, dLast, blk, rev, dCoins, dMaybe,
                    faults, lost, top, failures, restarts>>
  BY FlushAssumption DEF IInv, TypeOK, Index, Info, Coins, FlushAssumption, Job, Mode,
      memory, disk, files, history, WriteFails, JobOf, FlushCommit, FlushBlockFile
<1>1. TypeOK'
  BY <1>f DEF IInv, TypeOK
<1>2. MemoryFits'
  BY <1>f DEF IInv, MemoryFits, IndexFits, HaveData
<1>3. DiskFits'
  BY <1>f DEF IInv, DiskFits, IndexFits, HaveData
<1>4. MemoryData'
  BY <1>f DEF IInv, MemoryData, HaveData, TypeOK, File, NoFile, Index
<1>5. DiskData'
  BY <1>f DEF IInv, DiskData, IndexNamesData, HaveData, TypeOK, Index
<1>6. LastGrows'
  BY <1>f DEF IInv, LastGrows
<1>7. MemoryUndo'
  BY <1>f DEF IInv, MemoryUndo
<1>8. DiskUndo'
  BY <1>f DEF IInv, DiskUndo
<1>9. Synced'
  BY <1>f DEF IInv, Synced
<1>10. DirtyKnown'
  BY <1>f DEF IInv, DirtyKnown
<1>11. Control'
  BY <1>f DEF IInv, Control
<1>12. Kept'
  BY <1>f DEF IInv, Kept, Dropped, HaveData
<1>13. NoneInPruned'
  BY <1>f DEF IInv, NoneInPruned
<1>14. BestKnown'
  BY <1>f DEF IInv, BestKnown
<1>15. BestIndexed'
  BY <1>f DEF IInv, BestIndexed
<1>16. BelowTop'
  BY <1>f DEF IInv, BelowTop
<1>q. QED  BY <1>1, <1>2, <1>3, <1>4, <1>5, <1>6, <1>7, <1>8, <1>9, <1>10, <1>11,
    <1>12, <1>13, <1>14, <1>15, <1>16 DEF IInv

LEMMA OutOfSpaceKeeps ==
    ASSUME IInv, OutOfSpace
    PROVE  IInv'
<1>f. /\ pc \in {"commit", "coins"}
      /\ pc' = "idle"
      /\ job' \in Job
      /\ job'.prune = {}
      /\ node' = IF node = "running" THEN "stopping" ELSE node
      /\ failures' \in 0 .. MaxFailures
      /\ UNCHANGED <<index, dirty, info, dirtyFiles, lastFile, checkPrune, tip, coins,
                    dIndex, dInfo, dLast, blk, rev, blkSynced, revSynced,
                    dCoins, dMaybe,
                    faults, lost, top, restarts>>
  BY FlushAssumption DEF IInv, TypeOK, Index, Info, Coins, FlushAssumption, Job, Mode,
      memory, disk, files, history, WriteFails, JobOf, OutOfSpace, Abandon
<1>1. TypeOK'
  BY <1>f DEF IInv, TypeOK
<1>2. MemoryFits'
  BY <1>f DEF IInv, MemoryFits, IndexFits, HaveData
<1>3. DiskFits'
  BY <1>f DEF IInv, DiskFits, IndexFits, HaveData
<1>4. MemoryData'
  BY <1>f DEF IInv, MemoryData, HaveData
<1>5. DiskData'
  BY <1>f DEF IInv, DiskData, IndexNamesData, HaveData
<1>6. LastGrows'
  BY <1>f DEF IInv, LastGrows
<1>7. MemoryUndo'
  BY <1>f DEF IInv, MemoryUndo
<1>8. DiskUndo'
  BY <1>f DEF IInv, DiskUndo
<1>9. Synced'
  BY <1>f DEF IInv, Synced
<1>10. DirtyKnown'
  BY <1>f DEF IInv, DirtyKnown
<1>11. Control'
  BY <1>f DEF IInv, Control
<1>12. Kept'
  BY <1>f DEF IInv, Kept, Dropped, HaveData
<1>13. NoneInPruned'
  BY <1>f DEF NoneInPruned
<1>14. BestKnown'
  BY <1>f DEF IInv, BestKnown
<1>15. BestIndexed'
  BY <1>f DEF IInv, BestIndexed
<1>16. BelowTop'
  BY <1>f DEF IInv, BelowTop
<1>q. QED  BY <1>1, <1>2, <1>3, <1>4, <1>5, <1>6, <1>7, <1>8, <1>9, <1>10, <1>11,
    <1>12, <1>13, <1>14, <1>15, <1>16 DEF IInv

LEMMA PeriodicFlushKeeps ==
    ASSUME IInv, PeriodicFlush
    PROVE  IInv'
<1>f. /\ pc = "idle"
      /\ node \in {"running", "stopping"}
      /\ pc' = "check"
      /\ job' \in Job
      /\ job'.prune = {}
      /\ UNCHANGED <<index, dirty, info, dirtyFiles, lastFile, checkPrune, tip, coins,
                    node, dIndex, dInfo, dLast, blk, rev, blkSynced, revSynced,
                    dCoins, dMaybe,
                    faults, lost, top, failures, restarts>>
  BY FlushAssumption DEF IInv, TypeOK, Index, Info, Coins, FlushAssumption, Job, Mode,
      memory, disk, files, history, WriteFails, JobOf, PeriodicFlush, Serving,
      ThenFlush
<1>1. TypeOK'
  BY <1>f DEF IInv, TypeOK
<1>2. MemoryFits'
  BY <1>f DEF IInv, MemoryFits, IndexFits, HaveData
<1>3. DiskFits'
  BY <1>f DEF IInv, DiskFits, IndexFits, HaveData
<1>4. MemoryData'
  BY <1>f DEF IInv, MemoryData, HaveData
<1>5. DiskData'
  BY <1>f DEF IInv, DiskData, IndexNamesData, HaveData
<1>6. LastGrows'
  BY <1>f DEF IInv, LastGrows
<1>7. MemoryUndo'
  BY <1>f DEF IInv, MemoryUndo
<1>8. DiskUndo'
  BY <1>f DEF IInv, DiskUndo
<1>9. Synced'
  BY <1>f DEF IInv, Synced
<1>10. DirtyKnown'
  BY <1>f DEF IInv, DirtyKnown
<1>11. Control'
  BY <1>f DEF IInv, Control
<1>12. Kept'
  BY <1>f DEF IInv, Kept, Dropped, HaveData
<1>13. NoneInPruned'
  BY <1>f DEF NoneInPruned
<1>14. BestKnown'
  BY <1>f DEF IInv, BestKnown
<1>15. BestIndexed'
  BY <1>f DEF IInv, BestIndexed
<1>16. BelowTop'
  BY <1>f DEF IInv, BelowTop
<1>q. QED  BY <1>1, <1>2, <1>3, <1>4, <1>5, <1>6, <1>7, <1>8, <1>9, <1>10, <1>11,
    <1>12, <1>13, <1>14, <1>15, <1>16 DEF IInv

LEMMA ShutdownKeeps ==
    ASSUME IInv, Shutdown
    PROVE  IInv'
<1>f. /\ pc = "idle"
      /\ pc' = "check"
      /\ job' \in Job
      /\ job'.prune = {}
      /\ node' = "exiting"
      /\ UNCHANGED <<index, dirty, info, dirtyFiles, lastFile, checkPrune, tip, coins,
                    dIndex, dInfo, dLast, blk, rev, blkSynced, revSynced,
                    dCoins, dMaybe,
                    faults, lost, top, failures, restarts>>
  BY FlushAssumption DEF IInv, TypeOK, Index, Info, Coins, FlushAssumption, Job, Mode,
      memory, disk, files, history, WriteFails, JobOf, Shutdown, Serving, ThenFlush
<1>1. TypeOK'
  BY <1>f DEF IInv, TypeOK
<1>2. MemoryFits'
  BY <1>f DEF IInv, MemoryFits, IndexFits, HaveData
<1>3. DiskFits'
  BY <1>f DEF IInv, DiskFits, IndexFits, HaveData
<1>4. MemoryData'
  BY <1>f DEF IInv, MemoryData, HaveData
<1>5. DiskData'
  BY <1>f DEF IInv, DiskData, IndexNamesData, HaveData
<1>6. LastGrows'
  BY <1>f DEF IInv, LastGrows
<1>7. MemoryUndo'
  BY <1>f DEF IInv, MemoryUndo
<1>8. DiskUndo'
  BY <1>f DEF IInv, DiskUndo
<1>9. Synced'
  BY <1>f DEF IInv, Synced
<1>10. DirtyKnown'
  BY <1>f DEF IInv, DirtyKnown
<1>11. Control'
  BY <1>f DEF IInv, Control
<1>12. Kept'
  BY <1>f DEF IInv, Kept, Dropped, HaveData
<1>13. NoneInPruned'
  BY <1>f DEF NoneInPruned
<1>14. BestKnown'
  BY <1>f DEF IInv, BestKnown
<1>15. BestIndexed'
  BY <1>f DEF IInv, BestIndexed
<1>16. BelowTop'
  BY <1>f DEF IInv, BelowTop
<1>q. QED  BY <1>1, <1>2, <1>3, <1>4, <1>5, <1>6, <1>7, <1>8, <1>9, <1>10, <1>11,
    <1>12, <1>13, <1>14, <1>15, <1>16 DEF IInv

LEMMA FlushCoinsKeeps ==
    ASSUME IInv, FlushCoins
    PROVE  IInv'
<1>f. /\ pc = "coins"
      /\ pc' = "idle"
      /\ job' \in Job
      /\ job'.prune = {}
      /\ tip' \in {tip, coins.best}
      /\ dCoins' = coins
      /\ dMaybe' = dMaybe \cup {coins}
      /\ UNCHANGED <<index, dirty, info, dirtyFiles, lastFile, checkPrune, coins,
                    node, dIndex, dInfo, dLast, blk, rev, blkSynced, revSynced,
                    faults, lost, top, failures, restarts>>
  BY FlushAssumption DEF IInv, TypeOK, Index, Info, Coins, FlushAssumption, Job, Mode,
      memory, disk, files, history, WriteFails, JobOf, FlushCoins, Finish
<1>1. TypeOK'
  BY <1>f DEF IInv, TypeOK, Coins
<1>2. MemoryFits'
  BY <1>f DEF IInv, MemoryFits, IndexFits, HaveData
<1>3. DiskFits'
  BY <1>f DEF IInv, DiskFits, IndexFits, HaveData
<1>4. MemoryData'
  BY <1>f DEF IInv, MemoryData, HaveData
<1>5. DiskData'
  BY <1>f DEF IInv, DiskData, IndexNamesData, HaveData
<1>6. LastGrows'
  BY <1>f DEF IInv, LastGrows
<1>7. MemoryUndo'
  BY <1>f DEF IInv, MemoryUndo
<1>8. DiskUndo'
  BY <1>f DEF IInv, DiskUndo
<1>9. Synced'
  BY <1>f DEF IInv, Synced
<1>10. DirtyKnown'
  BY <1>f DEF IInv, DirtyKnown
<1>11. Control'
  BY <1>f DEF IInv, Control
<1>12. Kept'
  BY <1>f DEF IInv, Kept, Dropped, HaveData
<1>13. NoneInPruned'
  BY <1>f DEF NoneInPruned
<1>14. BestKnown'
  BY <1>f DEF IInv, BestKnown
<1>15. BestIndexed'
  BY <1>f DEF IInv, BestIndexed, Synced, DirtyKnown, BestKnown
<1>16. BelowTop'
  BY <1>f DEF IInv, BelowTop
<1>q. QED  BY <1>1, <1>2, <1>3, <1>4, <1>5, <1>6, <1>7, <1>8, <1>9, <1>10, <1>11,
    <1>12, <1>13, <1>14, <1>15, <1>16 DEF IInv

LEMMA FlushCoinsFailsKeeps ==
    ASSUME IInv, FlushCoinsFails
    PROVE  IInv'
<1>f. /\ pc = "coins"
      /\ coins' \in Coins
      /\ coins'.best = coins.best
      /\ pc' = "idle"
      /\ job' \in Job
      /\ job'.prune = {}
      /\ node' = IF node = "running" THEN "stopping" ELSE node
      /\ failures' \in 0 .. MaxFailures
      /\ faults' = faults \cup {"write"}
      /\ UNCHANGED <<index, dirty, info, dirtyFiles, lastFile, checkPrune, tip,
                    dIndex, dInfo, dLast, blk, rev, blkSynced, revSynced,
                    dCoins, dMaybe, lost, top, restarts>>
  BY FlushAssumption DEF IInv, TypeOK, Index, Info, Coins, FlushAssumption, Job, Mode,
      memory, disk, files, history, WriteFails, JobOf, FlushCoinsFails, Abandon
<1>1. TypeOK'
  BY <1>f DEF IInv, TypeOK, Fault
<1>2. MemoryFits'
  BY <1>f DEF IInv, MemoryFits, IndexFits, HaveData
<1>3. DiskFits'
  BY <1>f DEF IInv, DiskFits, IndexFits, HaveData
<1>4. MemoryData'
  BY <1>f DEF IInv, MemoryData, HaveData
<1>5. DiskData'
  BY <1>f DEF IInv, DiskData, IndexNamesData, HaveData
<1>6. LastGrows'
  BY <1>f DEF IInv, LastGrows
<1>7. MemoryUndo'
  BY <1>f DEF IInv, MemoryUndo
<1>8. DiskUndo'
  BY <1>f DEF IInv, DiskUndo
<1>9. Synced'
  BY <1>f DEF IInv, Synced
<1>10. DirtyKnown'
  BY <1>f DEF IInv, DirtyKnown
<1>11. Control'
  BY <1>f DEF IInv, Control
<1>12. Kept'
  BY <1>f DEF IInv, Kept, Dropped, HaveData
<1>13. NoneInPruned'
  BY <1>f DEF NoneInPruned
<1>14. BestKnown'
  BY <1>f DEF IInv, BestKnown
<1>15. BestIndexed'
  BY <1>f DEF IInv, BestIndexed
<1>16. BelowTop'
  BY <1>f DEF IInv, BelowTop
<1>q. QED  BY <1>1, <1>2, <1>3, <1>4, <1>5, <1>6, <1>7, <1>8, <1>9, <1>10, <1>11,
    <1>12, <1>13, <1>14, <1>15, <1>16 DEF IInv

LEMMA FlushIndexFailsKeeps ==
    ASSUME IInv, FlushIndexFails
    PROVE  IInv'
<1>f. /\ pc = "index"
      /\ dirty' = {}
      /\ dirtyFiles' = {}
      /\ pc' = "idle"
      /\ job' \in Job
      /\ job'.prune = {}
      /\ node' = IF node = "running" THEN "stopping" ELSE node
      /\ failures' \in 0 .. MaxFailures
      /\ faults' = faults \cup {"write"}
      /\ UNCHANGED <<index, info, lastFile, checkPrune, tip, coins,
                    dIndex, dInfo, dLast, blk, rev, blkSynced, revSynced,
                    dCoins, dMaybe, lost, top, restarts>>
  BY FlushAssumption DEF IInv, TypeOK, Index, Info, Coins, FlushAssumption, Job, Mode,
      memory, disk, files, history, WriteFails, JobOf, FlushIndexFails, Abandon
<1>1. TypeOK'
  BY <1>f DEF IInv, TypeOK, Fault
<1>2. MemoryFits'
  BY <1>f DEF IInv, MemoryFits, IndexFits, HaveData
<1>3. DiskFits'
  BY <1>f DEF IInv, DiskFits, IndexFits, HaveData
<1>4. MemoryData'
  BY <1>f DEF IInv, MemoryData, HaveData
<1>5. DiskData'
  BY <1>f DEF IInv, DiskData, IndexNamesData, HaveData
<1>6. LastGrows'
  BY <1>f DEF IInv, LastGrows
<1>7. MemoryUndo'
  BY <1>f DEF IInv, MemoryUndo
<1>8. DiskUndo'
  BY <1>f DEF IInv, DiskUndo
<1>9. Synced'
  BY <1>f DEF IInv, Synced
<1>10. DirtyKnown'
  BY <1>f DEF IInv, DirtyKnown
<1>11. Control'
  BY <1>f DEF IInv, Control
<1>12. Kept'
  BY <1>f DEF IInv, Kept, Dropped, HaveData
<1>13. NoneInPruned'
  BY <1>f DEF NoneInPruned
<1>14. BestKnown'
  BY <1>f DEF IInv, BestKnown
<1>15. BestIndexed'
  BY <1>f DEF IInv, BestIndexed
<1>16. BelowTop'
  BY <1>f DEF IInv, BelowTop
<1>q. QED  BY <1>1, <1>2, <1>3, <1>4, <1>5, <1>6, <1>7, <1>8, <1>9, <1>10, <1>11,
    <1>12, <1>13, <1>14, <1>15, <1>16 DEF IInv

LEMMA FlushUnlinkKeeps ==
    ASSUME IInv, FlushUnlink
    PROVE  IInv'
<1> DEFINE f == Min(job.prune)
<1>p. f \in job.prune
  <2>1. job.prune \in SUBSET Nat
    BY FlushAssumption DEF IInv, TypeOK, Job, File, FlushAssumption
  <2>2. job.prune # {}
    BY DEF IInv, Control, FlushUnlink
  <2>q. QED  BY <2>1, <2>2, MinInSet
<1>f. /\ f \in File
      /\ f \in job.prune
      /\ pc = "unlink"
      /\ blk' = [blk EXCEPT ![f] = {}]
      /\ blkSynced' = [blkSynced EXCEPT ![f] = {}]
      /\ rev' = [rev EXCEPT ![f] = {}]
      /\ revSynced' = [revSynced EXCEPT ![f] = {}]
      /\ job' \in Job
      /\ job'.prune = job.prune \ {f}
      /\ job'.mode = job.mode
      /\ pc' = IF job'.prune = {} THEN "coins" ELSE "unlink"
      /\ UNCHANGED <<index, dirty, info, dirtyFiles, lastFile, checkPrune, tip, coins,
                    node, dIndex, dInfo, dLast, dCoins, dMaybe, faults, lost, top,
                    failures, restarts>>
  BY <1>p, FlushAssumption DEF IInv, TypeOK, Job, Mode, memory, history, FlushUnlink,
      Unlinked
<1> HIDE DEF f
<1>1. TypeOK'
  BY <1>f DEF IInv, TypeOK
<1>2. MemoryFits'
  BY <1>f DEF IInv, MemoryFits, IndexFits, HaveData
<1>3. DiskFits'
  BY <1>f DEF IInv, DiskFits, IndexFits, HaveData
<1>4. MemoryData'
  BY <1>f DEF IInv, MemoryData, HaveData, TypeOK, NoneInPruned, Index, File, NoFile
<1>5. DiskData'
  BY <1>f DEF IInv, DiskData, IndexNamesData, HaveData, TypeOK, NoneInPruned, Index,
      File, NoFile
<1>6. LastGrows'
  BY <1>f DEF IInv, LastGrows
<1>7. MemoryUndo'
  BY <1>f DEF IInv, MemoryUndo, TypeOK, NoneInPruned, MemoryFits, IndexFits, HaveData,
      Index
<1>8. DiskUndo'
  BY <1>f DEF IInv, DiskUndo, TypeOK, NoneInPruned, DiskFits, IndexFits, HaveData,
      Index
<1>9. Synced'
  BY <1>f DEF IInv, Synced
<1>10. DirtyKnown'
  BY <1>f DEF IInv, DirtyKnown
<1>11. Control'
  BY <1>f DEF IInv, Control
<1>12. Kept'
  BY <1>f DEF IInv, Kept, Dropped, HaveData
<1>13. NoneInPruned'
  BY <1>f DEF IInv, NoneInPruned
<1>14. BestKnown'
  BY <1>f DEF IInv, BestKnown
<1>15. BestIndexed'
  BY <1>f DEF IInv, BestIndexed
<1>16. BelowTop'
  BY <1>f DEF IInv, BelowTop
<1>q. QED  BY <1>1, <1>2, <1>3, <1>4, <1>5, <1>6, <1>7, <1>8, <1>9, <1>10, <1>11,
    <1>12, <1>13, <1>14, <1>15, <1>16 DEF IInv

LEMMA FlushIndexKeeps ==
    ASSUME IInv, FlushIndex
    PROVE  IInv'
<1>f. /\ pc = "index"
      /\ dIndex' \in Index
      /\ dIndex'.known = dIndex.known \cup dirty
      /\ dIndex'.file = [b \in Block |-> IF b \in dirty THEN index.file[b] ELSE dIndex.file[b]]
      /\ dIndex'.undo = (dIndex.undo \ dirty) \cup (index.undo \cap dirty)
      /\ dInfo' \in Info
      /\ dInfo'.data = [f \in File |-> IF f \in dirtyFiles THEN info.data[f] ELSE dInfo.data[f]]
      /\ dInfo'.undo = [f \in File |-> IF f \in dirtyFiles THEN info.undo[f] ELSE dInfo.undo[f]]
      /\ dLast' = lastFile
      /\ dirty' = {}
      /\ dirtyFiles' = {}
      /\ job' \in Job
      /\ tip' \in {tip, coins.best}
      /\ \/ pc' = "unlink" /\ job' = job /\ job.prune # {}
         \/ pc' = "coins" /\ job' = job /\ job.prune = {}
         \/ pc' = "idle" /\ job'.prune = {} /\ job.mode # "full"
      /\ UNCHANGED <<index, info, lastFile, checkPrune, coins, node, blk, rev,
                    blkSynced, revSynced, dCoins, dMaybe, faults, lost, top, failures,
                    restarts>>
  <2>1. /\ dIndex' \in Index /\ dIndex'.known = dIndex.known \cup dirty
        /\ dIndex'.file = [b \in Block |-> IF b \in dirty THEN index.file[b] ELSE dIndex.file[b]]
        /\ dIndex'.undo = (dIndex.undo \ dirty) \cup (index.undo \cap dirty)
    BY DEF IInv, TypeOK, Index, FlushIndex, UpdateEntries
  <2>2. /\ dInfo' \in Info
        /\ dInfo'.data = [f \in File |-> IF f \in dirtyFiles THEN info.data[f] ELSE dInfo.data[f]]
        /\ dInfo'.undo = [f \in File |-> IF f \in dirtyFiles THEN info.undo[f] ELSE dInfo.undo[f]]
    BY DEF IInv, TypeOK, Info, FlushIndex, UpdateInfo
  <2>3. CASE job.mode = "full"
    BY <2>1, <2>2, <2>3 DEF IInv, TypeOK, FlushIndex, files, history
  <2>4. CASE job.mode # "full"
    <3>1. job' \in Job /\ job'.prune = {}
      <4>1. job' = JobOf("none")  BY <2>4 DEF FlushIndex, Finish
      <4>q. QED  BY <4>1 DEF JobOf, Job, Mode
    <3>q. QED  BY <2>1, <2>2, <2>4, <3>1 DEF FlushIndex, Finish, files, history
  <2>q. QED  BY <2>3, <2>4
<1>u. dIndex'.undo \subseteq HaveData(dIndex')
  BY <1>f DEF IInv, MemoryFits, DiskFits, IndexFits, HaveData, TypeOK, Index
<1>1. TypeOK'
  BY <1>f DEF IInv, TypeOK, Coins
<1>2. MemoryFits'
  BY <1>f DEF IInv, MemoryFits, IndexFits, HaveData
<1>3. DiskFits'
  <2>1. SUFFICES ASSUME NEW x \in HaveData(dIndex')
                 PROVE  /\ x \in dIndex'.known /\ x \in dInfo'.data[dIndex'.file[x]]
                        /\ x \in dIndex'.undo => x \in dInfo'.undo[dIndex'.file[x]]
    BY <1>f, <1>u DEF DiskFits, IndexFits
  <2>2. x \in Block /\ dIndex'.file[x] \in File
    BY <1>f DEF HaveData, Index
  <2>3. CASE x \in dirty
    BY <1>f, <2>2, <2>3 DEF IInv, DirtyKnown, MemoryFits, IndexFits, HaveData, NoFile, File
  <2>4. CASE x \notin dirty
    <3>1. x \in HaveData(dIndex) /\ dIndex'.file[x] = dIndex.file[x]
      BY <1>f, <2>1, <2>2, <2>4 DEF HaveData
    <3>2. dIndex.file[x] \in dirtyFiles =>
             index.file[x] = dIndex.file[x] /\ (x \in dIndex.undo => x \in index.undo)
      BY <2>4, <3>1 DEF IInv, Kept, Dropped
    <3>3. CASE dIndex.file[x] \in dirtyFiles
      BY <1>f, <2>2, <2>4, <3>1, <3>2, <3>3 DEF IInv, MemoryFits, DiskFits, IndexFits, HaveData
    <3>4. CASE dIndex.file[x] \notin dirtyFiles
      BY <1>f, <2>2, <2>4, <3>1, <3>4 DEF IInv, DiskFits, IndexFits
    <3>q. QED  BY <3>3, <3>4
  <2>q. QED  BY <2>3, <2>4
<1>4. MemoryData'
  BY <1>f DEF IInv, MemoryData, HaveData
<1>5. DiskData'
  <2>1. SUFFICES ASSUME NEW x \in HaveData(dIndex')
                 PROVE  /\ <<x, dIndex'.file[x]>> \notin lost =>
                              x \in blk[dIndex'.file[x]] /\ x \in blkSynced[dIndex'.file[x]]
                        /\ dIndex'.file[x] <= lastFile
    BY <1>f DEF DiskData, IndexNamesData, HaveData
  <2>2. x \in Block /\ dIndex'.file[x] # NoFile
    BY DEF HaveData
  <2>3. CASE x \in dirty
    <3>1. x \in HaveData(index) /\ dIndex'.file[x] = index.file[x]
      BY <1>f, <2>2, <2>3 DEF HaveData
    <3>q. QED  BY <1>f, <3>1 DEF IInv, MemoryData
  <2>4. CASE x \notin dirty
    <3>1. x \in HaveData(dIndex) /\ dIndex'.file[x] = dIndex.file[x]
      BY <1>f, <2>2, <2>4 DEF HaveData
    <3>2. dIndex.file[x] \in Nat /\ dLast \in Nat /\ lastFile \in Nat
      BY <2>2, <3>1, FlushAssumption DEF IInv, TypeOK, Index, File, NoFile, HaveData
    <3>q. QED  BY <3>1, <3>2 DEF IInv, DiskData, IndexNamesData, LastGrows
  <2>q. QED  BY <2>3, <2>4
<1>6. LastGrows'
  BY <1>f DEF IInv, LastGrows, TypeOK, File
<1>7. MemoryUndo'
  BY <1>f DEF IInv, MemoryUndo
<1>8. DiskUndo'
  BY <1>f DEF IInv, DiskUndo, MemoryUndo, TypeOK, Index
<1>9. Synced'
  BY <1>f DEF IInv, TypeOK, Index, Synced
<1>10. DirtyKnown'
  BY <1>f DEF IInv, DirtyKnown
<1>11. Control'
  BY <1>f DEF IInv, Control
<1>12. Kept'
  <2>1. SUFFICES ASSUME NEW x \in HaveData(dIndex')
                 PROVE  \/ index.file[x] = dIndex'.file[x] /\ (x \in dIndex'.undo => x \in index.undo)
                        \/ Dropped(x)'
    BY <1>f DEF Kept
  <2>2. x \in Block
    BY DEF HaveData
  <2>3. CASE x \in dirty
    BY <1>f, <2>2, <2>3
  <2>4. CASE x \notin dirty
    <3>1. /\ x \in HaveData(dIndex) /\ dIndex'.file[x] = dIndex.file[x]
          /\ x \in dIndex'.undo <=> x \in dIndex.undo
      BY <1>f, <2>1, <2>2, <2>4 DEF HaveData
    <3>q. QED  BY <1>f, <3>1 DEF IInv, Kept, Dropped
  <2>q. QED  BY <2>3, <2>4
<1>13. NoneInPruned'
  <2>1. SUFFICES ASSUME pc' = "unlink", NEW x \in Block
                 PROVE  dIndex'.file[x] \notin job.prune
    BY <1>f DEF IInv, NoneInPruned
  <2>2. CASE x \in dirty
    BY <1>f, <2>2 DEF IInv, NoneInPruned
  <2>3. CASE x \notin dirty
    <3>1. job.prune \subseteq dirtyFiles /\ NoFile \notin job.prune
      BY <1>f, FlushAssumption DEF IInv, DirtyKnown, TypeOK, Job, File, NoFile, FlushAssumption
    <3>2. dIndex.file[x] \notin job.prune
      BY <2>3, <3>1 DEF IInv, Kept, Dropped, NoneInPruned, HaveData
    <3>q. QED  BY <1>f, <2>3, <3>2
  <2>q. QED  BY <2>2, <2>3
<1>14. BestKnown'
  BY <1>f DEF IInv, BestKnown
<1>15. BestIndexed'
  BY <1>f DEF IInv, BestIndexed
<1>16. BelowTop'
  BY <1>f DEF IInv, BelowTop
<1>q. QED  BY <1>1, <1>2, <1>3, <1>4, <1>5, <1>6, <1>7, <1>8, <1>9, <1>10, <1>11,
    <1>12, <1>13, <1>14, <1>15, <1>16 DEF IInv

LEMMA FlushCheckKeeps ==
    ASSUME IInv, FlushCheck
    PROVE  IInv'
<1> DEFINE gone   == IF checkPrune THEN FilesToPrune ELSE {}
           pruned == {b \in index.known : \/ index.file[b] \in gone
                                          \/ index.file[b] = NoFile /\ 0 \in gone}
<1>f. /\ pc = "check"
      /\ gone \subseteq File
      /\ \A f \in gone : f < lastFile /\ info.data[f] # {}
      /\ \A f \in gone : \A b \in info.data[f] : Height[b] <= Height[tip] - Keep
      /\ pruned \subseteq index.known
      /\ \A b \in index.known : index.file[b] \in gone => b \in pruned
      /\ \A b \in pruned : index.file[b] \in gone \cup {NoFile}
      /\ gone = {} => pruned = {}
      /\ checkPrune' = FALSE
      /\ index' \in Index
      /\ index'.known = index.known
      /\ index'.file = [b \in Block |-> IF b \in pruned THEN NoFile ELSE index.file[b]]
      /\ index'.undo = index.undo \ pruned
      /\ info' \in Info
      /\ info'.data = [f \in File |-> IF f \in gone THEN {} ELSE info.data[f]]
      /\ info'.undo = [f \in File |-> IF f \in gone THEN {} ELSE info.undo[f]]
      /\ dirty' = dirty \cup pruned
      /\ dirtyFiles' = dirtyFiles \cup gone
      /\ tip' \in {tip, coins.best}
      /\ job' \in Job
      /\ job'.prune = gone
      /\ \/ pc' = "idle" /\ gone = {}
         \/ pc' = "commit"
      /\ gone # {} => job'.mode = "full"
      /\ UNCHANGED <<lastFile, coins, node, dIndex, dInfo, dLast, blk, rev, blkSynced,
                    revSynced, dCoins, dMaybe, faults, lost, top, failures, restarts>>
  <2>1. /\ gone \subseteq File /\ pruned \subseteq index.known
        /\ \A f \in gone : f < lastFile /\ info.data[f] # {}
        /\ \A f \in gone : \A b \in info.data[f] : Height[b] <= Height[tip] - Keep
        /\ \A b \in index.known : index.file[b] \in gone => b \in pruned
        /\ \A b \in pruned : index.file[b] \in gone \cup {NoFile}
        /\ gone = {} => pruned = {}
    <3>1. gone \subseteq Prunable /\ lastFile \in File
      BY DEF FilesToPrune, IInv, TypeOK
    <3>2. gone \subseteq 0 .. (lastFile - 1) /\ 0 .. (lastFile - 1) \subseteq File
      BY <3>1, FlushAssumption DEF Prunable, File, FlushAssumption
    <3>3. /\ \A f \in gone : info.data[f] # {}
          /\ \A f \in gone : \A b \in info.data[f] : Height[b] <= Height[tip] - Keep
      BY <3>1 DEF Prunable
    <3>4. \A f \in gone : f < lastFile
      BY <3>1, <3>2, FlushAssumption DEF File, FlushAssumption
    <3> HIDE DEF gone
    <3>q. QED  BY <3>2, <3>3, <3>4
  <2>2. /\ pc = "check" /\ checkPrune' = FALSE
        /\ dirty' = dirty \cup pruned /\ dirtyFiles' = dirtyFiles \cup gone
        /\ index' = [index EXCEPT !.file = [b \in Block |-> IF b \in pruned THEN NoFile ELSE @[b]],
                                  !.undo = @ \ pruned]
        /\ info' = [data |-> [f \in File |-> IF f \in gone THEN {} ELSE info.data[f]],
                    undo |-> [f \in File |-> IF f \in gone THEN {} ELSE info.undo[f]]]
        /\ \/ gone = {} /\ Finish
           \/ /\ pc' = "commit" /\ tip' = tip
              /\ job' = [mode |-> IF gone = {} THEN job.mode ELSE "full", prune |-> gone]
        /\ UNCHANGED <<lastFile, coins, node, disk, history>>
    BY DEF FlushCheck
  <2> HIDE DEF gone, pruned
  <2>3. /\ index' \in Index /\ index'.known = index.known
        /\ index'.file = [b \in Block |-> IF b \in pruned THEN NoFile ELSE index.file[b]]
        /\ index'.undo = index.undo \ pruned
    BY <2>2 DEF IInv, TypeOK, Index
  <2>4. /\ info' \in Info
        /\ info'.data = [f \in File |-> IF f \in gone THEN {} ELSE info.data[f]]
        /\ info'.undo = [f \in File |-> IF f \in gone THEN {} ELSE info.undo[f]]
    BY <2>2 DEF IInv, TypeOK, Info
  <2>5. CASE gone = {} /\ Finish
    BY <2>1, <2>2, <2>3, <2>4, <2>5 DEF disk, history, Finish, JobOf, Job, Mode
  <2>6. CASE /\ pc' = "commit" /\ tip' = tip
             /\ job' = [mode |-> IF gone = {} THEN job.mode ELSE "full", prune |-> gone]
    <3>1. job.mode \in Mode  BY DEF IInv, TypeOK, Job
    <3>2. job' \in Job /\ job'.prune = gone /\ (gone # {} => job'.mode = "full")
      BY <2>1, <2>6, <3>1 DEF Job, Mode
    <3>q. QED  BY <2>1, <2>2, <2>3, <2>4, <2>6, <3>2 DEF disk, history
  <2>q. QED  BY <2>2, <2>5, <2>6
<1> HIDE DEF gone, pruned
<1>1. TypeOK'
  BY <1>f DEF IInv, TypeOK, Coins, Index
<1>2. MemoryFits'
  BY <1>f DEF IInv, MemoryFits, IndexFits, HaveData, TypeOK, Index, NoFile, File
<1>3. DiskFits'
  BY <1>f DEF IInv, DiskFits, IndexFits, HaveData
<1>4. MemoryData'
  BY <1>f DEF IInv, MemoryData, HaveData
<1>5. DiskData'
  BY <1>f DEF IInv, DiskData, IndexNamesData, HaveData
<1>6. LastGrows'
  BY <1>f DEF IInv, LastGrows
<1>7. MemoryUndo'
  BY <1>f DEF IInv, MemoryUndo, MemoryFits, IndexFits, HaveData, TypeOK, Index
<1>8. DiskUndo'
  BY <1>f DEF IInv, DiskUndo
<1>9. Synced'
  BY <1>f DEF IInv, Synced
<1>10. DirtyKnown'
  <2>1. \A b \in pruned : b \in Block /\ index'.file[b] = NoFile
    BY <1>f DEF IInv, TypeOK, Index
  <2>2. \A b \in dirty : b \in Block /\ index'.file[b] \in {NoFile, index.file[b]}
    BY <1>f DEF IInv, TypeOK
  <2>q. QED  BY <1>f, <2>1, <2>2 DEF IInv, DirtyKnown
<1>11. Control'
  BY <1>f DEF IInv, Control
<1>12. Kept'
  <2>1. SUFFICES ASSUME NEW x \in HaveData(dIndex)
                 PROVE  \/ index'.file[x] = dIndex.file[x] /\ (x \in dIndex.undo => x \in index'.undo)
                        \/ Dropped(x)'
    BY <1>f DEF Kept, HaveData
  <2>2. x \in Block /\ dIndex.file[x] \in File
    BY DEF IInv, TypeOK, Index, HaveData
  <2>3. CASE Dropped(x)
    BY <1>f, <2>2, <2>3 DEF Dropped
  <2>4. CASE index.file[x] = dIndex.file[x] /\ (x \in dIndex.undo => x \in index.undo)
    <3>1. CASE x \notin pruned
      BY <1>f, <2>2, <2>4, <3>1
    <3>2. CASE x \in pruned
      <4>1. dIndex.file[x] \in gone /\ x \in info.data[dIndex.file[x]]
        BY <1>f, <2>2, <2>4, <3>2 DEF IInv, MemoryFits, IndexFits, HaveData, File, NoFile
      <4>2. Height[x] <= Height[tip] - Keep
        BY <1>f, <4>1
      <4>3. Height[tip] <= top /\ Height[tip] \in Nat /\ Height[x] \in Nat /\ Keep \in Nat /\ top \in Nat
        BY <2>2, FlushAssumption DEF IInv, BelowTop, TypeOK, FlushAssumption
      <4>4. Height[x] <= top - Keep
        BY <4>2, <4>3
      <4>q. QED  BY <1>f, <2>2, <3>2, <4>1, <4>4 DEF Dropped
    <3>q. QED  BY <3>1, <3>2
  <2>q. QED  BY <2>3, <2>4 DEF IInv, Kept
<1>13. NoneInPruned'
  BY <1>f DEF IInv, TypeOK, NoneInPruned, Index, MemoryFits, IndexFits, HaveData, File,
      NoFile
<1>14. BestKnown'
  BY <1>f DEF IInv, BestKnown
<1>15. BestIndexed'
  BY <1>f DEF IInv, BestIndexed
<1>16. BelowTop'
  BY <1>f DEF IInv, BelowTop
<1>q. QED  BY <1>1, <1>2, <1>3, <1>4, <1>5, <1>6, <1>7, <1>8, <1>9, <1>10, <1>11,
    <1>12, <1>13, <1>14, <1>15, <1>16 DEF IInv

LEMMA CrashKeeps ==
    ASSUME IInv, Crash
    PROVE  IInv'
<1>f. /\ index' = dIndex
      /\ info' = dInfo
      /\ lastFile' = dLast
      /\ dirty' = {}
      /\ dirtyFiles' = {}
      /\ checkPrune' = TRUE
      /\ job' \in Job
      /\ job'.prune = {}
      /\ restarts' \in 0 .. MaxRestarts
      /\ node' \in {"running", "refused"}
      /\ pc' = IF node' = "running" THEN "check" ELSE "idle"
      /\ coins' = dCoins
      /\ tip' = dCoins.best
      /\ UNCHANGED <<dIndex, dInfo, dLast, blk, rev, blkSynced, revSynced,
                    dCoins, dMaybe,
                    faults, lost, top, failures>>
  <2>1. /\ index' = dIndex /\ info' = dInfo /\ lastFile' = dLast /\ dirty' = {} /\ dirtyFiles' = {}
        /\ checkPrune' = TRUE /\ coins' = dCoins /\ tip' = dCoins.best
        /\ job' = JobOf("none") /\ restarts < MaxRestarts /\ restarts' = restarts + 1
        /\ node' \in {"running", "refused"} /\ pc' = IF node' = "running" THEN "check" ELSE "idle"
        /\ UNCHANGED <<lost, top, failures>>
    BY DEF Crash, Start
  <2>2. job' \in Job /\ job'.prune = {}
    BY <2>1 DEF JobOf, Job, Mode
  <2>3. restarts' \in 0 .. MaxRestarts
    BY <2>1, FlushAssumption DEF IInv, TypeOK, FlushAssumption
  <2>q. QED  BY <2>1, <2>2, <2>3 DEF Crash, disk
<1>1. TypeOK'
  BY <1>f DEF IInv, TypeOK, Coins
<1>2. MemoryFits'
  BY <1>f DEF IInv, MemoryFits, IndexFits, HaveData, DiskFits, TypeOK
<1>3. DiskFits'
  BY <1>f DEF IInv, DiskFits, IndexFits, HaveData
<1>4. MemoryData'
  BY <1>f DEF IInv, MemoryData, HaveData, DiskData, IndexNamesData, TypeOK, Index,
      File, NoFile
<1>5. DiskData'
  BY <1>f DEF IInv, DiskData, IndexNamesData, HaveData
<1>6. LastGrows'
  BY <1>f DEF IInv, LastGrows, TypeOK, File
<1>7. MemoryUndo'
  BY <1>f DEF IInv, MemoryUndo, DiskUndo
<1>8. DiskUndo'
  BY <1>f DEF IInv, DiskUndo
<1>9. Synced'
  BY <1>f DEF IInv, Synced
<1>10. DirtyKnown'
  BY <1>f DEF IInv, DirtyKnown
<1>11. Control'
  BY <1>f DEF IInv, Control
<1>12. Kept'
  BY <1>f DEF IInv, Kept, Dropped, HaveData
<1>13. NoneInPruned'
  BY <1>f DEF NoneInPruned
<1>14. BestKnown'
  BY <1>f DEF IInv, BestKnown, BestIndexed
<1>15. BestIndexed'
  BY <1>f DEF IInv, BestIndexed
<1>16. BelowTop'
  BY <1>f DEF IInv, BelowTop
<1>q. QED  BY <1>1, <1>2, <1>3, <1>4, <1>5, <1>6, <1>7, <1>8, <1>9, <1>10, <1>11,
    <1>12, <1>13, <1>14, <1>15, <1>16 DEF IInv

LEMMA PowerLossKeeps ==
    ASSUME IInv, PowerLoss
    PROVE  IInv'
<1>p. PICK c \in dMaybe : Start(c, blkSynced, revSynced) /\ dCoins' = c /\ dMaybe' = {c}
  BY DEF PowerLoss
<1>f. /\ c \in dMaybe
      /\ index' = dIndex
      /\ info' = dInfo
      /\ lastFile' = dLast
      /\ dirty' = {}
      /\ dirtyFiles' = {}
      /\ checkPrune' = TRUE
      /\ job' \in Job
      /\ job'.prune = {}
      /\ restarts' \in 0 .. MaxRestarts
      /\ node' \in {"running", "refused"}
      /\ pc' = IF node' = "running" THEN "check" ELSE "idle"
      /\ coins' = c
      /\ tip' = c.best
      /\ dCoins' = c
      /\ dMaybe' = {c}
      /\ blk' = blkSynced
      /\ rev' = revSynced
      /\ faults' = faults \cup {"power"}
      /\ UNCHANGED <<dIndex, dInfo, dLast, blkSynced, revSynced, lost, top, failures>>
  <2>1. /\ index' = dIndex /\ info' = dInfo /\ lastFile' = dLast /\ dirty' = {} /\ dirtyFiles' = {}
        /\ checkPrune' = TRUE /\ coins' = c /\ tip' = c.best
        /\ job' = JobOf("none") /\ restarts < MaxRestarts /\ restarts' = restarts + 1
        /\ node' \in {"running", "refused"} /\ pc' = IF node' = "running" THEN "check" ELSE "idle"
        /\ UNCHANGED <<lost, top, failures>>
    BY <1>p DEF Start
  <2>2. job' \in Job /\ job'.prune = {}
    BY <2>1 DEF JobOf, Job, Mode
  <2>3. restarts' \in 0 .. MaxRestarts
    BY <2>1, FlushAssumption DEF IInv, TypeOK, FlushAssumption
  <2>q. QED  BY <1>p, <2>1, <2>2, <2>3 DEF PowerLoss
<1>1. TypeOK'
  BY <1>f DEF IInv, TypeOK, Coins, Fault
<1>2. MemoryFits'
  BY <1>f DEF IInv, MemoryFits, IndexFits, HaveData, DiskFits, TypeOK
<1>3. DiskFits'
  BY <1>f DEF IInv, DiskFits, IndexFits, HaveData
<1>4. MemoryData'
  BY <1>f DEF IInv, MemoryData, HaveData, DiskData, IndexNamesData, TypeOK, Index,
      File, NoFile
<1>5. DiskData'
  BY <1>f DEF IInv, DiskData, IndexNamesData, HaveData
<1>6. LastGrows'
  BY <1>f DEF IInv, LastGrows, TypeOK, File
<1>7. MemoryUndo'
  BY <1>f DEF IInv, MemoryUndo, DiskUndo
<1>8. DiskUndo'
  BY <1>f DEF IInv, DiskUndo
<1>9. Synced'
  BY <1>f DEF IInv, Synced
<1>10. DirtyKnown'
  BY <1>f DEF IInv, DirtyKnown
<1>11. Control'
  BY <1>f DEF IInv, Control
<1>12. Kept'
  BY <1>f DEF IInv, Kept, Dropped, HaveData
<1>13. NoneInPruned'
  BY <1>f DEF NoneInPruned
<1>14. BestKnown'
  BY <1>f DEF IInv, BestKnown, BestIndexed
<1>15. BestIndexed'
  BY <1>f DEF IInv, BestIndexed
<1>16. BelowTop'
  BY <1>f DEF IInv, BelowTop
<1>q. QED  BY <1>1, <1>2, <1>3, <1>4, <1>5, <1>6, <1>7, <1>8, <1>9, <1>10, <1>11,
    <1>12, <1>13, <1>14, <1>15, <1>16 DEF IInv

LEMMA NextKeeps == IInv /\ [Next]_vars => IInv'
<1>1. SUFFICES ASSUME IInv, [Next]_vars PROVE IInv'
  OBVIOUS
<1>2. CASE \E b \in Block : AcceptBlock(b) \/ AcceptBlockFails(b)
  BY <1>1, <1>2, AcceptBlockStores, AcceptBlockFailsStores, StoresKeeps
<1>3. CASE \E b \in Block : ConnectTip(b) \/ ConnectTipFails(b)
  BY <1>1, <1>3, ConnectTipKeeps, ReconnectTipKeeps, ConnectTipFailsKeeps
<1>4. CASE DisconnectTip
  BY <1>1, <1>4, DisconnectTipKeeps
<1>5. CASE ReadFails
  BY <1>1, <1>5, ReadFailsKeeps
<1>6. CASE FlushCheck
  BY <1>1, <1>6, FlushCheckKeeps
<1>7. CASE FlushCommit
  BY <1>1, <1>7, FlushCommitKeeps
<1>8. CASE FlushIndex
  BY <1>1, <1>8, FlushIndexKeeps
<1>9. CASE FlushUnlink
  BY <1>1, <1>9, FlushUnlinkKeeps
<1>10. CASE FlushCoins
  BY <1>1, <1>10, FlushCoinsKeeps
<1>11. CASE FlushIndexFails
  BY <1>1, <1>11, FlushIndexFailsKeeps
<1>12. CASE FlushCoinsFails
  BY <1>1, <1>12, FlushCoinsFailsKeeps
<1>13. CASE OutOfSpace
  BY <1>1, <1>13, OutOfSpaceKeeps
<1>14. CASE PeriodicFlush
  BY <1>1, <1>14, PeriodicFlushKeeps
<1>15. CASE Shutdown
  BY <1>1, <1>15, ShutdownKeeps
<1>16. CASE Crash
  BY <1>1, <1>16, CrashKeeps
<1>17. CASE PowerLoss
  BY <1>1, <1>17, PowerLossKeeps
<1>18. CASE UNCHANGED vars
  BY <1>1, <1>18 DEF vars, memory, disk, history, IInv, TypeOK, MemoryFits, DiskFits,
      IndexFits, HaveData, MemoryData, DiskData, IndexNamesData, LastGrows, MemoryUndo,
      DiskUndo, Synced, DirtyKnown, Control, Kept, Dropped, NoneInPruned, BestKnown,
      BestIndexed, BelowTop
<1>q. QED
  BY <1>1, <1>2, <1>3, <1>4, <1>5, <1>6, <1>7, <1>8, <1>9, <1>10, <1>11, <1>12, <1>13,
      <1>14, <1>15, <1>16, <1>17, <1>18 DEF Next

----------------------------------------------------------------------------
(* What is proved of every behaviour *)

(***************************************************************************)
(* The invariant holds in every reachable state: memory, database and      *)
(* block files stand to each other as IInv says, through flushes that are  *)
(* cut off at any step, failed writes, crashes and losses of power.        *)
(***************************************************************************)
THEOREM FlushInvariant == Spec => []IInv
BY InitHolds, NextKeeps, PTL DEF Spec

(***************************************************************************)
(* Every block of the best chain of the coins on disk has an entry in the  *)
(* block index database, unless a database write has failed:               *)
(* FlushStateToDisk writes the index before the coins.                     *)
(***************************************************************************)
THEOREM BestAlwaysIndexed == Spec => []BestIndexed
<1>1. IInv => BestIndexed
  BY DEF IInv
<1>q. QED  BY <1>1, FlushInvariant, PTL

(***************************************************************************)
(* The block index database names only block records that are in the files *)
(* and synced, except at the positions whose WriteBlockToDisk failed (after *)
(* which AcceptBlock goes on, main.cpp:2802-2804), and, as long as the     *)
(* power stays on, only undo records that are in the undo files.           *)
(***************************************************************************)
THEOREM IndexAlwaysTruthful == Spec => []IndexTruthful
<1>1. IInv => IndexTruthful
  BY DEF IInv, DiskData, DiskUndo, DiskFits, IndexFits, HaveData, IndexTruthful,
      IndexNamesUndo
<1>q. QED  BY <1>1, FlushInvariant, PTL

----------------------------------------------------------------------------
(* That the node starts again: what is needed on top of IInv.  The blocks  *)
(* less than Keep below the highest block ever connected keep their undo   *)
(* records: pruning looks at chainActive, which never ended above it.      *)

\* the blocks of a chain that ends in t that no pruning has ever reached
Recent(t) == {b \in Anc[t] \ {Genesis} : Height[b] > top - Keep}

TipIsBest == node = "running" /\ pc = "idle" => tip = coins.best

MemoryRecent == faults = {} => Recent(coins.best) \subseteq index.undo
DiskRecent   == faults = {} => Recent(dCoins.best) \subseteq dIndex.undo

StartInv == TipIsBest /\ MemoryRecent /\ DiskRecent /\ StartsAgain

LEMMA InitStart == Init => StartInv
<1> SUFFICES ASSUME Init PROVE StartInv
  OBVIOUS
<1>1. Recent(Genesis) = {}
  BY FlushAssumption DEF FlushAssumption, Recent
<1>2. coins.best = Genesis /\ dCoins.best = Genesis /\ tip = Genesis /\ node = "running"
  BY DEF Init
<1>q. QED  BY <1>1, <1>2 DEF StartInv, TipIsBest, MemoryRecent, DiskRecent, StartsAgain

LEMMA StoresStarts ==
    ASSUME IInv, StartInv, NEW b \in Block, NEW f \in File, Stores(b, f)
    PROVE  StartInv'
<1>1. node' # "refused" /\ Recent(coins.best)' = Recent(coins.best)
      /\ Recent(dCoins.best)' = Recent(dCoins.best)
  BY DEF Stores, Recent
<1>q. QED
  BY <1>1 DEF Stores, StartInv, TipIsBest, MemoryRecent, DiskRecent, StartsAgain

LEMMA ConnectTipStarts ==
    ASSUME IInv, StartInv, NEW b \in Block, ConnectTip(b)
    PROVE  StartInv'
<1>1. /\ pc = "idle" /\ node = "running" /\ pc' = "check"
      /\ b # Genesis /\ Parent[b] = tip /\ coins'.best = b
      /\ UNCHANGED <<node, dIndex, dCoins, faults>>
  BY DEF ConnectTip, Ready, Connectable, ThenFlush
<1>2. index'.undo = index.undo \cup {b}
  <2>1. CASE b \in index.undo
    BY <2>1 DEF ConnectTip
  <2>2. CASE b \notin index.undo
    BY <2>2 DEF IInv, TypeOK, Index, ConnectTip
  <2>q. QED  BY <2>1, <2>2
<1>3. top' >= top /\ top' \in Nat /\ top \in Nat /\ Keep \in Nat
  BY FlushAssumption DEF ConnectTip, HigherOf, IInv, TypeOK, FlushAssumption
<1>4. ASSUME NEW t \in Block PROVE Recent(t)' \subseteq Recent(t)
  <2>1. \A x \in Anc[t] : Height[x] \in Nat
    BY FlushAssumption DEF FlushAssumption
  <2>q. QED  BY <1>3, <2>1 DEF Recent
<1>5. Recent(b) \subseteq Recent(tip) \cup {b}
  BY <1>1, FlushAssumption DEF FlushAssumption, Recent
<1>6. tip = coins.best /\ dCoins.best \in Block
  BY <1>1 DEF StartInv, TipIsBest, IInv, TypeOK, Coins
<1>7. MemoryRecent'
  <2>1. Recent(coins.best)' = Recent(b)'
    BY <1>1 DEF Recent
  <2>q. QED  BY <1>1, <1>2, <1>4, <1>5, <1>6, <2>1 DEF StartInv, MemoryRecent
<1>8. DiskRecent'
  <2>1. Recent(dCoins.best)' \subseteq Recent(dCoins.best)
    BY <1>1, <1>3, <1>4, <1>6 DEF Recent
  <2>q. QED  BY <1>1, <2>1 DEF StartInv, DiskRecent
<1>q. QED  BY <1>1, <1>7, <1>8 DEF StartInv, TipIsBest, StartsAgain

LEMMA DisconnectTipStarts ==
    ASSUME IInv, StartInv, DisconnectTip
    PROVE  StartInv'
<1>1. /\ pc = "idle" /\ node = "running" /\ pc' = "check" /\ tip # Genesis
      /\ coins'.best = Parent[tip]
      /\ UNCHANGED <<index, node, dIndex, dCoins, faults, top>>
  BY DEF DisconnectTip, Ready, ThenFlush, disk, history
<1>2. Recent(Parent[tip]) \subseteq Recent(tip) /\ tip = coins.best
  BY <1>1, FlushAssumption DEF IInv, TypeOK, StartInv, TipIsBest, Recent, FlushAssumption
<1>3. Recent(coins.best)' = Recent(Parent[tip]) /\ Recent(dCoins.best)' = Recent(dCoins.best)
  BY <1>1 DEF Recent
<1>q. QED  BY <1>1, <1>2, <1>3 DEF StartInv, TipIsBest, MemoryRecent, DiskRecent, StartsAgain

LEMMA FlushCheckStarts ==
    ASSUME IInv, StartInv, FlushCheck
    PROVE  StartInv'
<1> DEFINE gone   == IF checkPrune THEN FilesToPrune ELSE {}
           pruned == {b \in index.known : \/ index.file[b] \in gone
                                          \/ index.file[b] = NoFile /\ 0 \in gone}
<1>1. /\ pc = "check" /\ pc' \in {"idle", "commit"}
      /\ pc' = "idle" /\ node = "running" => tip' = coins.best
      /\ UNCHANGED <<coins, node, dIndex, dCoins, faults, top>>
  BY DEF FlushCheck, Finish, disk, history
<1>2. index'.undo = index.undo \ pruned
  <2>1. index' = [index EXCEPT !.file = [b \in Block |-> IF b \in pruned THEN NoFile ELSE @[b]],
                               !.undo = @ \ pruned]
    BY DEF FlushCheck
  <2> HIDE DEF pruned
  <2>q. QED  BY <2>1 DEF IInv, TypeOK, Index
<1>3. ASSUME NEW b \in Recent(coins.best), b \in index.undo
      PROVE  b \notin pruned
  <2>1. SUFFICES ASSUME b \in pruned PROVE FALSE
    OBVIOUS
  <2>2. b \in Block /\ index.file[b] \in File /\ b \in info.data[index.file[b]]
    BY <1>3 DEF IInv, TypeOK, Index, MemoryFits, IndexFits, HaveData
  <2>3. index.file[b] \in gone
    BY <2>1, <2>2, FlushAssumption DEF File, NoFile, FlushAssumption
  <2>4. index.file[b] \in Prunable
    BY <2>3 DEF FilesToPrune
  <2>5. Height[b] <= Height[tip] - Keep
    BY <2>2, <2>4 DEF Prunable
  <2>6. Height[tip] <= top /\ Height[b] > top - Keep
    BY <1>3 DEF IInv, BelowTop, Recent
  <2>7. /\ Height[b] \in Nat /\ Height[tip] \in Nat /\ top \in Nat /\ Keep \in Nat
    BY <2>2, FlushAssumption DEF IInv, TypeOK, FlushAssumption
  <2>q. QED  BY <2>5, <2>6, <2>7
<1> HIDE DEF gone, pruned
<1>4. Recent(coins.best)' = Recent(coins.best) /\ Recent(dCoins.best)' = Recent(dCoins.best)
  BY <1>1 DEF Recent
<1>5. node # "refused"
  BY <1>1 DEF IInv, Control
<1>q. QED
  BY <1>1, <1>2, <1>3, <1>4, <1>5 DEF StartInv, TipIsBest, MemoryRecent, DiskRecent, StartsAgain

LEMMA FlushIndexStarts ==
    ASSUME IInv, StartInv, FlushIndex
    PROVE  StartInv'
<1>1. /\ pc = "index" /\ (pc' = "idle" /\ node = "running" => tip' = coins.best)
      /\ UNCHANGED <<index, coins, node, dCoins, faults, top>>
  BY DEF FlushIndex, Finish, history
<1>2. dIndex'.undo = (dIndex.undo \ dirty) \cup (index.undo \cap dirty)
  BY DEF FlushIndex, UpdateEntries
<1>3. Recent(coins.best)' = Recent(coins.best) /\ Recent(dCoins.best)' = Recent(dCoins.best)
  BY <1>1 DEF Recent
<1>4. ASSUME NEW x \in Recent(dCoins.best), x \in dIndex.undo
      PROVE  x \in dIndex'.undo
  <2>1. x \in HaveData(dIndex)
    BY <1>4 DEF IInv, DiskFits, IndexFits
  <2>2. ~Dropped(x)
    <3>1. Height[x] > top - Keep
      BY <1>4 DEF Recent
    <3>2. Height[x] \in Nat /\ top \in Nat /\ Keep \in Nat
      BY <2>1, FlushAssumption DEF HaveData, IInv, TypeOK, FlushAssumption
    <3>q. QED  BY <3>1, <3>2 DEF Dropped
  <2>3. x \in index.undo
    BY <1>4, <2>1, <2>2 DEF IInv, Kept
  <2>q. QED  BY <1>2, <1>4, <2>3
<1>5. node # "refused"
  BY <1>1 DEF IInv, Control
<1>q. QED
  BY <1>1, <1>3, <1>4, <1>5 DEF StartInv, TipIsBest, MemoryRecent, DiskRecent, StartsAgain

LEMMA FlushCoinsStarts ==
    ASSUME IInv, StartInv, FlushCoins
    PROVE  StartInv'
<1>1. /\ pc = "coins" /\ (node = "running" => tip' = coins.best)
      /\ dCoins' = coins /\ UNCHANGED <<index, coins, node, dIndex, faults, top>>
  BY DEF FlushCoins, Finish, history
<1>2. faults = {} => index.undo \subseteq dIndex.undo
  BY <1>1 DEF IInv, TypeOK, Index, Synced, DirtyKnown
<1>3. Recent(coins.best)' = Recent(coins.best) /\ Recent(dCoins.best)' = Recent(coins.best)
  BY <1>1 DEF Recent
<1>4. node # "refused"
  BY <1>1 DEF IInv, Control
<1>q. QED
  BY <1>1, <1>2, <1>3, <1>4 DEF StartInv, TipIsBest, MemoryRecent, DiskRecent, StartsAgain

LEMMA CrashStarts ==
    ASSUME IInv, StartInv, Crash
    PROVE  StartInv'
<1>1. /\ index' = dIndex /\ coins' = dCoins /\ tip' = dCoins.best
      /\ UNCHANGED <<dIndex, dCoins, faults, top, lost>>
      /\ pc' = "idle" => node' # "running"
  BY DEF Crash, Start, disk
<1>2. Recent(coins.best)' = Recent(dCoins.best) /\ Recent(dCoins.best)' = Recent(dCoins.best)
  BY <1>1 DEF Recent
<1>3. ASSUME faults = {}, ~LostIsNamed, Height[dCoins.best] - CheckDepth > top - Keep
      PROVE  node' = "running"
  <2>1. Recent(dCoins.best) \subseteq dIndex.undo
    BY <1>3 DEF StartInv, DiskRecent
  <2>2. dCoins.best \in dIndex.known
    BY <1>3, FlushAssumption DEF IInv, BestIndexed, TypeOK, Coins, FlushAssumption
  <2>3. \A x \in HaveData(dIndex) : x \in blk[dIndex.file[x]]
    BY <1>3 DEF IInv, DiskData, IndexNamesData, LostIsNamed
  <2>4. \A x \in dIndex.undo : dIndex.file[x] # NoFile /\ x \in rev[dIndex.file[x]]
                                 /\ x \in blk[dIndex.file[x]]
    BY <1>3, <2>3 DEF IInv, DiskUndo, DiskFits, IndexFits, HaveData
  <2>5. ASSUME NEW x \in Anc[dCoins.best] \ {Genesis}, Height[x] >= Height[dCoins.best] - CheckDepth
        PROVE  x \in dIndex.undo
    <3>1. /\ Height[x] \in Nat /\ Height[dCoins.best] \in Nat /\ top \in Nat
          /\ Keep \in Nat /\ CheckDepth \in Nat
      BY <2>5, FlushAssumption DEF IInv, TypeOK, Coins, FlushAssumption
    <3>2. Height[x] > top - Keep
      BY <1>3, <2>5, <3>1
    <3>q. QED  BY <2>1, <2>5, <3>2 DEF Recent
  <2>q. QED  BY <2>2, <2>3, <2>4, <2>5 DEF Crash, Start
<1>4. StartsAgain'
  <2>1. SUFFICES ASSUME node' = "refused", faults = {}
                 PROVE  LostIsNamed \/ Height[dCoins.best] - CheckDepth <= top - Keep
    BY <1>1 DEF StartsAgain, LostIsNamed, HaveData
  <2>2. Height[dCoins.best] \in Nat /\ top \in Nat /\ Keep \in Nat /\ CheckDepth \in Nat
    BY FlushAssumption DEF IInv, TypeOK, Coins, FlushAssumption
  <2>q. QED  BY <1>3, <2>1, <2>2
<1>q. QED  BY <1>1, <1>2, <1>4 DEF StartInv, TipIsBest, MemoryRecent, DiskRecent

LEMMA OthersStart ==
    ASSUME IInv, StartInv,
           \/ \E b \in Block : ConnectTipFails(b)
           \/ ReadFails \/ FlushCommit \/ FlushUnlink \/ FlushIndexFails \/ FlushCoinsFails
           \/ OutOfSpace \/ PeriodicFlush \/ Shutdown \/ PowerLoss
    PROVE  StartInv'
<1>1. CASE /\ UNCHANGED <<index, tip, coins, dIndex, dCoins, faults, top>>
           /\ node' # "refused"
           /\ node' = "running" /\ pc' = "idle" => node = "running" /\ pc = "idle"
  <2>1. Recent(coins.best)' = Recent(coins.best) /\ Recent(dCoins.best)' = Recent(dCoins.best)
    BY <1>1 DEF Recent
  <2>q. QED
    BY <1>1, <2>1 DEF StartInv, TipIsBest, MemoryRecent, DiskRecent, StartsAgain
<1>2. CASE \E b \in Block : ConnectTipFails(b)
  BY <1>1, <1>2 DEF ConnectTipFails, Ready
<1>3. CASE ReadFails \/ PeriodicFlush \/ Shutdown
  BY <1>1, <1>3 DEF ReadFails, PeriodicFlush, Shutdown, Ready, Serving, ThenFlush, memory,
      disk, history
<1>4. CASE FlushCommit \/ FlushUnlink
  <2>1. node # "refused"
    BY <1>4 DEF IInv, Control, FlushCommit, FlushUnlink
  <2>q. QED  BY <1>1, <1>4, <2>1 DEF FlushCommit, FlushUnlink, memory, history
<1>5. CASE OutOfSpace
  <2>1. node # "refused"
    BY <1>5 DEF IInv, Control, OutOfSpace
  <2>q. QED  BY <1>1, <1>5, <2>1 DEF OutOfSpace, Abandon, memory, disk
<1>6. CASE FlushIndexFails \/ FlushCoinsFails
  <2>1. faults' # {} /\ node' # "running"
    BY <1>6 DEF FlushIndexFails, FlushCoinsFails, Abandon
  <2>q. QED  BY <2>1 DEF StartInv, TipIsBest, MemoryRecent, DiskRecent, StartsAgain
<1>7. CASE PowerLoss
  <2>1. faults' # {} /\ tip' = coins'.best
    BY <1>7 DEF PowerLoss, Start
  <2>q. QED  BY <2>1 DEF StartInv, TipIsBest, MemoryRecent, DiskRecent, StartsAgain
<1>q. QED  BY <1>2, <1>3, <1>4, <1>5, <1>6, <1>7

LEMMA NextStarts == IInv /\ StartInv /\ [Next]_vars => StartInv'
<1>1. SUFFICES ASSUME IInv, StartInv, [Next]_vars PROVE StartInv'
  OBVIOUS
<1>2. CASE \E b \in Block : AcceptBlock(b) \/ AcceptBlockFails(b)
  BY <1>1, <1>2, AcceptBlockStores, AcceptBlockFailsStores, StoresStarts
<1>3. CASE \E b \in Block : ConnectTip(b)
  BY <1>1, <1>3, ConnectTipStarts
<1>4. CASE DisconnectTip
  BY <1>1, <1>4, DisconnectTipStarts
<1>5. CASE FlushCheck
  BY <1>1, <1>5, FlushCheckStarts
<1>6. CASE FlushIndex
  BY <1>1, <1>6, FlushIndexStarts
<1>7. CASE FlushCoins
  BY <1>1, <1>7, FlushCoinsStarts
<1>8. CASE Crash
  BY <1>1, <1>8, CrashStarts
<1>9. CASE \/ \E b \in Block : ConnectTipFails(b)
           \/ ReadFails \/ FlushCommit \/ FlushUnlink \/ FlushIndexFails \/ FlushCoinsFails
           \/ OutOfSpace \/ PeriodicFlush \/ Shutdown \/ PowerLoss
  BY <1>1, <1>9, OthersStart
<1>10. CASE UNCHANGED vars
  <2>1. Recent(coins.best)' = Recent(coins.best) /\ Recent(dCoins.best)' = Recent(dCoins.best)
    BY <1>10 DEF Recent, vars, memory, disk, history
  <2>q. QED
    BY <1>1, <1>10, <2>1 DEF vars, memory, disk, history, StartInv, TipIsBest, MemoryRecent,
        DiskRecent, StartsAgain, LostIsNamed, HaveData
<1>q. QED
  BY <1>1, <1>2, <1>3, <1>4, <1>5, <1>6, <1>7, <1>8, <1>9, <1>10 DEF Next

(***************************************************************************)
(* As long as no database write has failed and the power stays on, a node  *)
(* whose process dies between any two steps starts again, unless a block   *)
(* is named whose own write had failed, or the coins on disk lie so far    *)
(* below the highest block ever connected that VerifyDB reads among blocks *)
(* that could be pruned.  By default it reads 288 blocks, and pruning      *)
(* keeps 960: that leaves 672 blocks.                                      *)
(***************************************************************************)
THEOREM AlwaysStartsAgain == Spec => []StartsAgain
<1>1. StartInv => StartsAgain
  BY DEF StartInv
<1>q. QED  BY <1>1, InitStart, NextStarts, FlushInvariant, PTL DEF Spec
===============================================================================
