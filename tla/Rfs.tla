---------------------------------- MODULE Rfs ----------------------------------
(***************************************************************************)
(* The file system OS-master/FS/rfs.c: makeDir, removeDir and openDir on   *)
(* the root directory, over inodes, data blocks, the two caches of the     *)
(* superblock and the list of open directories.                            *)
(*                                                                         *)
(* A block's content is its directory entries.  An entry has the address   *)
(* <<b, p>>: position p behind the start of block b.  Entry 0 of a         *)
(* directory is at position -1, that is in the last bytes of block b - 1.  *)
(* Times, sizes, owners and modes are left out.  i_blocks[1] and           *)
(* i_blocks[2] are always 0 (nothing allocates a second block), so that a  *)
(* directory's 26th entry goes to block 0, the boot block.                 *)
(***************************************************************************)
EXTENDS Integers, Sequences, FiniteSets

CONSTANTS TOTALBLOCKS, FirstData,      \* blocks 0 .. FirstData-1 are reserved
          CACHESIZE, MAXDIRENTRIES, INODETABLESIZE,
          Names,                       \* what the user calls directories
          KeepFirst,                   \* the user keeps the directory of link 1
          MaxLinks,                    \* bound: entries the root is given
          MaxOpen                      \* bound: directories opened

ASSUME RfsAssumption ==
    /\ TOTALBLOCKS \in Nat /\ FirstData \in 1 .. TOTALBLOCKS - 1
    /\ CACHESIZE \in Nat \ {0, 1}      \* the new root's block looks free
    /\ INODETABLESIZE \in Nat \ {0} /\ MAXDIRENTRIES \in Nat \ {0, 1}
    /\ MaxLinks \in 1 .. 3 * MAXDIRENTRIES   \* i_blocks[3] is uninitialised
    /\ Names \cap {"", ".", ".."} = {}
    /\ IsFiniteSet(Names) /\ KeepFirst \in BOOLEAN

VARIABLES
    entry,        \* the directory entries on the device
    inode,        \* the inode table on the device: i_blocks[0] and i_nlinks
    freeblocks,   \* sb_freeblocks from sb_freeblockindex on
    freeinodes,   \* sb_freeinodes from sb_freeinodeindex on
    nfreeblocks, nfreeinodes,
    rootdir,      \* sb_rootdir, which is also currDirINode
    open          \* ofo_inode: the copies of inodes made when they were opened

disk == <<entry, inode, freeblocks, freeinodes, nfreeblocks, nfreeinodes, rootdir>>
vars == <<disk, open>>

DataBlocks == FirstData .. TOTALBLOCKS - 1
INodes == 0 .. INODETABLESIZE - 1
Address == (0 .. TOTALBLOCKS) \X (-1 .. MAXDIRENTRIES - 1)
NoEntry == [d_name |-> "", d_inode |-> 0]
nullINode == [block |-> 0, nlinks |-> 0]

(* The first CACHESIZE members of S, the one found last in front: the scan *)
(* fills the cache from its end.                                           *)
Cached(S) ==
    LET first == {x \in S : Cardinality({y \in S : y < x}) < CACHESIZE}
    IN  [k \in 1 .. Cardinality(first) |->
           CHOOSE x \in first : Cardinality({y \in first : y > x}) = k - 1]

(* getDirEntryAddress; in C, -1 % MAXDIRENTRIES is -1.                     *)
DirEntryAddress(linkNo, in) ==
    <<IF linkNo \div MAXDIRENTRIES = 0 THEN in.block ELSE 0,
      IF linkNo = 0 THEN -1 ELSE (linkNo - 1) % MAXDIRENTRIES>>

(* A block whose first byte is 0 counts as free; so does an inode without  *)
(* a first block.  The caches are filled only when they are empty.         *)
BlankTail(e, b) == e[<<b, -1>>] = NoEntry                    \* faulty variant
LooksFree(e, b) == e[<<b, 0>>].d_name = ""
FetchFreeBlocks == IF nfreeblocks = 0 THEN <<>>
                   ELSE Cached({b \in DataBlocks : LooksFree(entry, b)})
FetchFreeINodes == IF nfreeinodes = 0 THEN <<>>
                   ELSE Cached({i \in INodes : inode[i].block = 0})

BlockCache == IF freeblocks = <<>> THEN FetchFreeBlocks ELSE freeblocks
INodeCache == IF freeinodes = <<>> THEN FetchFreeINodes ELSE freeinodes

Init ==
    LET blocks == Cached(DataBlocks)
        inodes == Cached(INodes)
        root == [block |-> Head(blocks), nlinks |-> 1]
    IN  /\ freeblocks = Tail(blocks) /\ freeinodes = Tail(inodes)
        /\ nfreeblocks = TOTALBLOCKS - FirstData - 1
        /\ nfreeinodes = INODETABLESIZE - 1
        /\ rootdir = Head(inodes) /\ open = <<>>
        /\ inode = [i \in INodes |-> IF i = rootdir THEN root ELSE nullINode]
        /\ entry = [a \in Address |->
                      IF a = DirEntryAddress(0, root)
                      THEN [d_name |-> ".", d_inode |-> rootdir] ELSE NoEntry]

-----------------------------------------------------------------------------
Root == inode[rootdir]

Links == 0 .. Root.nlinks - 1
At(linkNo) == entry[DirEntryAddress(linkNo, Root)]

(* fileExists in the root directory: the first link with that name, or -1. *)
fileExists(name) ==
    LET found == {l \in Links : At(l).d_name = name}
    IN  IF found = {} THEN -1 ELSE CHOOSE l \in found : \A m \in found : l <= m

Write(e, linkNo, in, name, i) ==
    [e EXCEPT ![DirEntryAddress(linkNo, in)] = [d_name |-> name, d_inode |-> i]]

(* makeDir: refused if the name exists; else the directory gets a block    *)
(* and an inode, its two own entries, and the root a new last link.  The   *)
(* model stops short of the last block and inode, where allocBlock and     *)
(* allocINode return -1 and makeDir uses that as a number.                 *)
Added(e, dir, i, name) ==
    LET own == Write(Write(e, 0, dir, ".", i), 1, dir, "..", rootdir)
    IN  Write(own, Root.nlinks, Root, name, i)
KeepCached(name) ==                                          \* faulty variant
    /\ fileExists(name) = -1 /\ Root.nlinks < MaxLinks
    /\ BlockCache # <<>> /\ INodeCache # <<>>
    /\ LET dir == [block |-> Head(BlockCache), nlinks |-> 2]
           i == Head(INodeCache)
       IN  /\ entry' = Added(entry, dir, i, name)
           /\ inode' = [inode EXCEPT ![i] = dir, ![rootdir].nlinks = @ + 1]
    /\ freeblocks' = BlockCache /\ freeinodes' = Tail(INodeCache)
    /\ nfreeblocks' = nfreeblocks - 1 /\ nfreeinodes' = nfreeinodes - 1
    /\ UNCHANGED <<rootdir, open>>
makeDir(name) ==
    IF fileExists(name) # -1
    THEN UNCHANGED vars
    ELSE /\ Root.nlinks < MaxLinks
         /\ BlockCache # <<>> /\ INodeCache # <<>>
         /\ LET dir == [block |-> Head(BlockCache), nlinks |-> 2]
                i == Head(INodeCache)
            IN  /\ entry' = Added(entry, dir, i, name)
                /\ inode' = [inode EXCEPT ![i] = dir, ![rootdir].nlinks = @ + 1]
         /\ freeblocks' = Tail(BlockCache) /\ freeinodes' = Tail(INodeCache)
         /\ nfreeblocks' = nfreeblocks - 1 /\ nfreeinodes' = nfreeinodes - 1
         /\ UNCHANGED <<rootdir, open>>

(* freeBlock blanks the block, with the entry 0 of the block behind it.    *)
freeBlock(e, b) ==
    [a \in Address |-> IF a = <<b + 1, -1>> \/ (a[1] = b /\ a[2] >= 0)
                       THEN NoEntry ELSE e[a]]

(* freeDirEntry: the root's last entry takes the place of the removed one. *)
BlankOnly(e, linkNo) ==                                      \* faulty variant
    [e EXCEPT ![DirEntryAddress(Root.nlinks - 1, Root)] = NoEntry]
freeDirEntry(e, linkNo) ==
    LET last == DirEntryAddress(Root.nlinks - 1, Root)
    IN  [e EXCEPT ![DirEntryAddress(linkNo, Root)] = e[last], ![last] = NoEntry]

(* removeDir: refused for an unknown name, for the root and for a          *)
(* directory that has no links or more than two (the test of the answer,   *)
(* line 309, is always true).  The root's inode is not written back, so    *)
(* that its number of links does not shrink.                               *)
Refused(linkNo) ==
    \/ linkNo = -1
    \/ At(linkNo).d_inode = rootdir
    \/ inode[At(linkNo).d_inode].nlinks \notin 1 .. 2
Uncounted(name) ==                                           \* faulty variant
    LET linkNo == fileExists(name)
        i == At(linkNo).d_inode
    IN  /\ ~Refused(linkNo) /\ linkNo # 1
        /\ entry' = freeDirEntry(freeBlock(entry, inode[i].block), linkNo)
        /\ inode' = [inode EXCEPT ![i] = nullINode]
        /\ nfreeinodes' = nfreeinodes + 1
        /\ UNCHANGED <<nfreeblocks, freeblocks, freeinodes, rootdir, open>>
removeDir(name) ==
    LET linkNo == fileExists(name)
        i == At(linkNo).d_inode
    IN  IF Refused(linkNo)
        THEN UNCHANGED vars
        ELSE /\ KeepFirst => linkNo # 1
             /\ entry' = freeDirEntry(freeBlock(entry, inode[i].block), linkNo)
             /\ inode' = [inode EXCEPT ![i] = nullINode]
             /\ nfreeblocks' = nfreeblocks + 1
             /\ nfreeinodes' = nfreeinodes + 1
             /\ open' = [k \in DOMAIN open |->
                           IF open[k].ino = i THEN [open[k] EXCEPT !.removed = TRUE] ELSE open[k]]
             /\ UNCHANGED <<freeblocks, freeinodes, rootdir>>

(* openDir: the handle is the number of the inode, whose copy is looked    *)
(* for in the list and added at its end; of the copy, the block is kept    *)
(* here.  Nothing takes it out again, and removeDir does not look at the   *)
(* list; removed is a history variable: it tells which copies are out of   *)
(* date.                                                                   *)
isOpen(i) == \E k \in DOMAIN open : open[k].ino = i
addOpenFile(i) == open' = Append(open, [ino |-> i, block |-> inode[i].block, removed |-> FALSE])
OpenAgain(name) ==                                           \* faulty variant
    /\ fileExists(name) # -1 /\ Len(open) < MaxOpen
    /\ addOpenFile(At(fileExists(name)).d_inode) /\ UNCHANGED disk
openDir(name) ==
    LET linkNo == fileExists(name)
        i == At(linkNo).d_inode
    IN  /\ IF linkNo = -1 \/ isOpen(i) THEN UNCHANGED open
           ELSE Len(open) < MaxOpen /\ addOpenFile(i)
        /\ UNCHANGED disk

Next ==
    \/ \E name \in Names : makeDir(name) \/ removeDir(name)
    \/ \E name \in Names \cup {"."} : openDir(name)

Spec == Init /\ [][Next]_vars

-----------------------------------------------------------------------------
InUse == {i \in INodes : inode[i].block # 0}
BlocksInUse == {inode[i].block : i \in InUse}

(* Type invariant; the counts of sb_n... stay between none and all.        *)
TypeOK ==
    /\ entry \in [Address -> [d_name : Names \cup {"", ".", ".."}, d_inode : INodes]]
    /\ inode \in [INodes -> [block : {0} \cup DataBlocks, nlinks : 0 .. MaxLinks]]
    /\ freeblocks \in Seq(DataBlocks) /\ freeinodes \in Seq(INodes)
    /\ nfreeblocks \in 0 .. Cardinality(DataBlocks) /\ nfreeinodes \in INodes
    /\ rootdir \in INodes
    /\ open \in Seq([ino : INodes, block : DataBlocks, removed : BOOLEAN])

(* No block belongs to two directories, and none that is in use is still   *)
(* on offer in the cache (allocBlock, fetchFreeBlocks).                    *)
OwnBlock ==
    /\ \A i, j \in InUse : i # j => inode[i].block # inode[j].block
    /\ \A k \in DOMAIN freeblocks : freeblocks[k] \notin BlocksInUse
    /\ \A k \in DOMAIN freeinodes : freeinodes[k] \notin InUse

(* sb_nfreeblocks and sb_nfreeinodes (lines 22-23) are the numbers of free *)
(* data blocks and inodes.                                                 *)
FreeCount ==
    /\ nfreeblocks = Cardinality(DataBlocks \ BlocksInUse)
    /\ nfreeinodes = Cardinality(INodes \ InUse)

(* Every inode in use but the root's is named by exactly one entry of the  *)
(* root, and by a different name: no directory is lost, none is named      *)
(* after its removal (freeDirEntry and the order of makeDir's writes).     *)
Named == {l \in Links : At(l).d_name \in Names}
Reachable ==
    /\ {At(l).d_inode : l \in Named} = InUse \ {rootdir}
    /\ \A l, m \in Named :
         l # m => At(l).d_inode # At(m).d_inode /\ At(l).d_name # At(m).d_name

(* Every directory leads back to its parent, whatever was made and removed *)
(* around it.                                                              *)
ParentEntry ==
    \A i \in InUse \ {rootdir} :
      entry[DirEntryAddress(1, inode[i])] = [d_name |-> "..", d_inode |-> rootdir]

(* A directory is opened once, and its copy has the block the directory    *)
(* has on the device, as long as that directory is there: only removing it *)
(* makes the handle point to something else (openDir, isOpen, lines        *)
(* 558-594).                                                               *)
OpenOnce ==
    /\ \A j, k \in DOMAIN open : j # k => open[j].ino # open[k].ino
    /\ \A k \in DOMAIN open : ~open[k].removed =>
         /\ open[k].ino \in InUse
         /\ open[k].block = inode[open[k].ino].block
=============================================================================
