-------------------------------- MODULE RfsProofs --------------------------------
(***************************************************************************)
(* Safety of the file system's directories, for any size of the device and *)
(* of its caches.  Assumed are what the code needs of its user: the        *)
(* directory of the root's first link stays, and the root gets no more     *)
(* links than its own block and the boot block have entries.               *)
(***************************************************************************)
EXTENDS Rfs, FiniteSetTheorems, FunctionTheorems, SequenceTheorems, WellFoundedInduction,
        TLAPS

-----------------------------------------------------------------------------
(* A cache as a queue in which nothing is twice, and the numbers in a      *)
(* finite set.                                                             *)
Members(q) == {q[i] : i \in 1 .. Len(q)}
Once(q) == \A i, j \in 1 .. Len(q) : q[i] = q[j] => i = j

LEMMA TailLemma ==
    ASSUME NEW S, NEW q \in Seq(S), q # <<>>, Once(q)
    PROVE  /\ Tail(q) \in Seq(S) /\ Once(Tail(q)) /\ Len(Tail(q)) = Len(q) - 1
           /\ \A i \in 1 .. Len(q) - 1 : Tail(q)[i] = q[i + 1]
           /\ Head(q) = q[1] /\ Head(q) \in S
           /\ Members(Tail(q)) = Members(q) \ {q[1]}
  <1>1. /\ Tail(q) \in Seq(S) /\ Len(Tail(q)) = Len(q) - 1
        /\ \A i \in 1 .. Len(q) - 1 : Tail(q)[i] = q[i + 1]
        /\ Head(q) = q[1] /\ Head(q) \in S
    OBVIOUS
  <1>2. Once(Tail(q))
    BY <1>1 DEF Once
  <1>3. Members(Tail(q)) \subseteq Members(q) \ {q[1]}
    BY <1>1 DEF Members, Once
  <1>4. Members(q) \ {q[1]} \subseteq Members(Tail(q))
    <2> SUFFICES ASSUME NEW i \in 1 .. Len(q), i # 1
                 PROVE  \E j \in 1 .. Len(Tail(q)) : Tail(q)[j] = q[i]
      BY DEF Members
    <2>1. i - 1 \in 1 .. Len(Tail(q)) /\ Tail(q)[i - 1] = q[i]
      BY <1>1
    <2> QED BY <2>1
  <1> QED BY <1>1, <1>2, <1>3, <1>4

(* The number of greater elements ranks a finite set.                      *)
LEMMA RankLemma ==
    ASSUME NEW F \in SUBSET Int, IsFiniteSet(F)
    PROVE  \A k \in 1 .. Cardinality(F) :
             \E x \in F : Cardinality({y \in F : y > x}) = k - 1
  <1> DEFINE n == Cardinality(F)
             Above(x) == {y \in F : y > x}
             rank == [x \in F |-> Cardinality(Above(x))]
  <1>1. n \in Nat
    BY FS_CardinalityType
  <1>2. ASSUME NEW x \in F PROVE IsFiniteSet(Above(x)) /\ rank[x] \in 0 .. n - 1
    <2>1. Above(x) \subseteq F /\ x \notin Above(x)
      OBVIOUS
    <2>2. IsFiniteSet(Above(x)) /\ Cardinality(Above(x)) <= n /\ Above(x) # F
      BY <2>1, FS_Subset
    <2>3. Cardinality(Above(x)) # n /\ Cardinality(Above(x)) \in Nat
      BY <2>1, <2>2, FS_Subset, FS_CardinalityType
    <2> QED BY <1>1, <2>2, <2>3
  <1>3. ASSUME NEW x \in F, NEW y \in F, x < y PROVE rank[x] # rank[y]
    <2>0. \A z \in F : z \in Int
      OBVIOUS
    <2>1. Above(y) \subseteq Above(x) /\ y \in Above(x) /\ y \notin Above(y)
      <3>1. y \in Above(x) /\ y \notin Above(y)
        BY <1>3, <2>0
      <3>2. ASSUME NEW z \in F, z > y PROVE z > x
        BY <1>3, <2>0, <3>2
      <3> QED BY <3>1, <3>2
    <2>2. IsFiniteSet(Above(x)) /\ Above(x) # Above(y)
      BY <1>2, <2>1
    <2>3. Cardinality(Above(x)) # Cardinality(Above(y))
      BY <2>1, <2>2, FS_Subset
    <2> QED BY <2>3
  <1>4. rank \in Injection(F, 0 .. n - 1)
    <2>1. rank \in [F -> 0 .. n - 1]
      BY <1>2
    <2>2. \A x, y \in F : rank[x] = rank[y] => x = y
      <3>1. \A x, y \in F : x # y => x < y \/ y < x
        OBVIOUS
      <3> QED BY <1>3, <3>1
    <2> QED BY <2>1, <2>2, Fun_IsInj
  <1>5. IsFiniteSet(0 .. n - 1) /\ Cardinality(0 .. n - 1) = n
    BY <1>1, FS_Interval
  <1>6. rank \in Surjection(F, 0 .. n - 1)
    BY <1>4, <1>5, FS_Injection
  <1>7. \A j \in 0 .. n - 1 : \E x \in F : rank[x] = j
    <2> HIDE DEF rank, n
    <2> QED BY <1>6, Fun_SurjectionProperties
  <1> QED BY <1>1, <1>7

(* A set of numbers that is not empty has a least element.                 *)
LEMMA FirstOf ==
    ASSUME NEW F \in SUBSET Nat, F # {}
    PROVE  \E l \in F : \A m \in F : l <= m
  <1>1. IsWellFoundedOn(OpToRel(<, Nat), Nat)
    BY NatLessThanWellFounded, Zenon
  <1>2. PICK l \in F : \A m \in F : ~(<<m, l>> \in OpToRel(<, Nat))
    BY <1>1, WFMin, Zenon
  <1>3. \A m \in F : ~(m < l)
    BY <1>2, Zenon DEF OpToRel
  <1> QED BY <1>3

-----------------------------------------------------------------------------

Kept == KeepFirst = TRUE /\ MaxLinks <= 2 * MAXDIRENTRIES

-----------------------------------------------------------------------------
LEMMA Sizes ==
    /\ CACHESIZE \in Nat /\ CACHESIZE > 1
    /\ TOTALBLOCKS \in Nat /\ FirstData \in Nat /\ 1 <= FirstData /\ FirstData < TOTALBLOCKS
    /\ INODETABLESIZE \in Nat /\ INODETABLESIZE > 0
    /\ MAXDIRENTRIES \in Nat /\ MAXDIRENTRIES > 1
    /\ MaxLinks \in Nat /\ MaxLinks >= 1
  <1>1. /\ CACHESIZE \in Nat \ {0, 1} /\ INODETABLESIZE \in Nat \ {0}
        /\ MAXDIRENTRIES \in Nat \ {0, 1} /\ TOTALBLOCKS \in Nat
        /\ FirstData \in 1 .. TOTALBLOCKS - 1 /\ MaxLinks \in 1 .. 3 * MAXDIRENTRIES
    BY RfsAssumption, Zenon
  <1> QED BY <1>1

(* The caches.                                                             *)
LEMMA CachedLemma ==
    ASSUME NEW S \in SUBSET Int, IsFiniteSet(S)
    PROVE  Cached(S) \in Seq(S) /\ Once(Cached(S))
  <1> DEFINE first == {x \in S : Cardinality({y \in S : y < x}) < CACHESIZE}
             n == Cardinality(first)
             Ranked(k, x) == Cardinality({y \in first : y > x}) = k - 1
             c == [k \in 1 .. n |-> CHOOSE x \in first : Ranked(k, x)]
  <1>1. first \in SUBSET Int /\ IsFiniteSet(first) /\ first \subseteq S
    BY FS_Subset
  <1>2. n \in Nat
    BY <1>1, FS_CardinalityType
  <1>3. \A k \in 1 .. n : \E x \in first : Ranked(k, x)
    BY <1>1, RankLemma
  <1> HIDE DEF first
  <1>4. \A k \in 1 .. n : c[k] \in first /\ Ranked(k, c[k])
    BY <1>3
  <1>5. Cached(S) = c
    BY DEF Cached, first
  <1> HIDE DEF Ranked
  <1>6. c \in Seq(S) /\ Len(c) = n
    <2>1. c \in [1 .. n -> first]
      BY <1>4
    <2>2. c \in [1 .. n -> S]
      BY <1>1, <2>1
    <2> HIDE DEF c, n
    <2> QED BY <1>2, <2>2
  <1>7. ASSUME NEW j \in 1 .. n, NEW k \in 1 .. n, c[j] = c[k] PROVE j = k
    <2>1. Cardinality({y \in first : y > c[k]}) = j - 1 /\ Cardinality({y \in first : y > c[k]}) = k - 1
      BY <1>4, <1>7 DEF Ranked
    <2> QED BY <2>1
  <1> HIDE DEF c
  <1> QED BY <1>5, <1>6, <1>7 DEF Once

(* The whole of an interval fills the cache with two blocks at least.      *)
LEMMA CachedInterval ==
    ASSUME NEW a \in Int, NEW b \in Int, a <= b
    PROVE  /\ Cached(a .. b) # <<>>
           /\ a < b => Tail(Cached(a .. b)) # <<>>
  <1> DEFINE S == a .. b
             first == {x \in S : Cardinality({y \in S : y < x}) < CACHESIZE}
  <1>1. IsFiniteSet(first) /\ Len(Cached(S)) = Cardinality(first) /\ Cardinality(first) \in Nat
    <2>1. IsFiniteSet(S)
      BY FS_Interval
    <2>2. IsFiniteSet(first)
      BY <2>1, FS_Subset
    <2>3. Cardinality(first) \in Nat
      BY <2>2, FS_CardinalityType
    <2> HIDE DEF first
    <2>4. DOMAIN Cached(S) = 1 .. Cardinality(first)
      BY DEF Cached, first
    <2>5. Cached(S) \in Seq(S)
      BY <2>1, CachedLemma
    <2> QED BY <2>2, <2>3, <2>4, <2>5
  <1>2. a \in first
    <2>1. {y \in S : y < a} = {}
      OBVIOUS
    <2>2. Cardinality({y \in S : y < a}) = 0
      BY <2>1, FS_EmptySet
    <2>3. 0 < CACHESIZE /\ a \in S
      BY Sizes
    <2> QED BY <2>2, <2>3
  <1>3. a < b => a + 1 \in first
    <2>1. {y \in S : y < a + 1} = {a}
      OBVIOUS
    <2>2. Cardinality({a}) = 1
      BY FS_Singleton
    <2>3. Cardinality({y \in S : y < a + 1}) = 1
      BY <2>1, <2>2, Zenon
    <2>4. 1 < CACHESIZE /\ (a < b => a + 1 \in S)
      BY Sizes
    <2> QED BY <2>3, <2>4
  <1> HIDE DEF first
  <1>4. Cardinality(first) # 0
    BY <1>1, <1>2, FS_EmptySet
  <1>5. a < b => Cardinality(first) # 1
    <2> SUFFICES ASSUME a < b, Cardinality(first) = 1 PROVE FALSE
      OBVIOUS
    <2>1. PICK x : first = {x}
      BY <1>1, FS_Singleton
    <2> QED BY <1>2, <1>3, <2>1
  <1>6. Cached(S) \in Seq(S)
    BY FS_Interval, CachedLemma
  <1> DEFINE q == Cached(S)
  <1> HIDE DEF q
  <1>7. q \in Seq(S) /\ Len(q) \in Nat /\ Len(q) # 0 /\ (a < b => Len(q) # 1)
    BY <1>1, <1>4, <1>5, <1>6 DEF q
  <1>8. q # <<>>
    BY <1>7
  <1>9. ASSUME Len(q) # 1 PROVE Tail(q) # <<>>
    <2>1. Tail(q) \in Seq(S) /\ Len(Tail(q)) = Len(q) - 1
      BY <1>7, <1>8
    <2> DEFINE m == Len(q)
    <2>2. m \in Nat /\ m # 1 /\ Len(Tail(q)) = m - 1
      BY <1>7, <1>9, <2>1
    <2> HIDE DEF m
    <2>3. Len(Tail(q)) # 0
      BY <2>2
    <2> QED BY <2>1, <2>3, EmptySeq
  <1> QED BY <1>7, <1>8, <1>9 DEF q

-----------------------------------------------------------------------------
(* Where the root's links are.                                             *)
LEMMA DivMod ==
    ASSUME NEW m \in Nat, m > 0, NEW l \in 0 .. 2 * m - 1
    PROVE  /\ l \div m = IF l < m THEN 0 ELSE 1
           /\ l % m = IF l < m THEN l ELSE l - m
  OBVIOUS

LEMMA AddressForm ==
    ASSUME NEW l \in 0 .. 2 * MAXDIRENTRIES - 1, NEW in
    PROVE  DirEntryAddress(l, in) =
             IF l = 0 THEN <<in.block, -1>>
             ELSE IF l < MAXDIRENTRIES THEN <<in.block, l - 1>>
             ELSE <<0, IF l = MAXDIRENTRIES THEN l - 1 ELSE l - 1 - MAXDIRENTRIES>>
  <1>1. MAXDIRENTRIES \in Nat /\ MAXDIRENTRIES > 1
    BY Sizes
  <1>2. l \div MAXDIRENTRIES = IF l < MAXDIRENTRIES THEN 0 ELSE 1
    BY <1>1, DivMod
  <1>3. ASSUME l # 0
        PROVE  (l - 1) % MAXDIRENTRIES = IF l - 1 < MAXDIRENTRIES THEN l - 1 ELSE l - 1 - MAXDIRENTRIES
    <2>1. l - 1 \in 0 .. 2 * MAXDIRENTRIES - 1
      BY <1>1, <1>3
    <2> QED BY <1>1, <2>1, DivMod
  <1> QED BY <1>1, <1>2, <1>3 DEF DirEntryAddress

(* Links have different addresses, in the root's block or the boot block,  *)
(* and only link 0 has one outside of these.                               *)
LEMMA AddressLemma ==
    ASSUME NEW l \in 0 .. 2 * MAXDIRENTRIES - 1, NEW in, in.block \in DataBlocks
    PROVE  /\ DirEntryAddress(l, in) \in Address
           /\ l = 0 => DirEntryAddress(l, in) = <<in.block, -1>>
           /\ l = 1 => DirEntryAddress(l, in) = <<in.block, 0>>
           /\ l # 0 => /\ DirEntryAddress(l, in)[1] \in {0, in.block}
                       /\ DirEntryAddress(l, in)[2] >= 0
           /\ \A m \in 0 .. 2 * MAXDIRENTRIES - 1 :
                l # m => DirEntryAddress(l, in) # DirEntryAddress(m, in)
  <1> DEFINE M == MAXDIRENTRIES
             b == in.block
             a(n) == DirEntryAddress(n, in)
  <1>1. M \in Nat /\ M > 1 /\ b \in 1 .. TOTALBLOCKS /\ TOTALBLOCKS \in Nat
    BY Sizes DEF DataBlocks
  <1>2. \A n \in 0 .. 2 * M - 1 :
          a(n) = IF n = 0 THEN <<b, -1>> ELSE IF n < M THEN <<b, n - 1>>
                 ELSE <<0, IF n = M THEN n - 1 ELSE n - 1 - M>>
    BY AddressForm
  <1> HIDE DEF a, b, M
  <1>3. a(l) = <<a(l)[1], a(l)[2]>> /\ a(l)[1] \in 0 .. TOTALBLOCKS /\ a(l)[2] \in -1 .. M - 1
    BY <1>1, <1>2 DEF M
  <1>4. \A m \in 0 .. 2 * M - 1 : l # m => a(l) # a(m)
    BY <1>1, <1>2 DEF M
  <1>5. /\ l = 0 => a(l) = <<b, -1>>
        /\ l = 1 => a(l) = <<b, 0>>
        /\ l # 0 => a(l)[1] \in {0, b} /\ a(l)[2] >= 0
    BY <1>1, <1>2 DEF M
  <1>6. a(l) \in Address
    BY <1>3 DEF Address, M
  <1> QED BY <1>4, <1>5, <1>6 DEF a, b, M

-----------------------------------------------------------------------------
(* The inductive invariant: the properties, that the root is a directory   *)
(* with its block and its links, that the caches offer nothing twice, and  *)
(* that no block in use looks free.                                        *)
Entries == [d_name : Names \cup {"", ".", ".."}, d_inode : INodes]
RootInv ==
    /\ rootdir \in INodes
    /\ Root.block \in DataBlocks /\ Root.nlinks \in 1 .. MaxLinks
    /\ At(0) \in {NoEntry, [d_name |-> ".", d_inode |-> rootdir]}
    /\ \A l \in Links \ {0} : At(l).d_name \in Names \cup {""}
    /\ Root.nlinks > 1 => At(1).d_name \in Names
    /\ Root.nlinks = 1 => freeblocks # <<>> \/ nfreeblocks = 0
CacheInv == Once(freeblocks) /\ Once(freeinodes)
IInv ==
    /\ TypeOK /\ RootInv /\ CacheInv
    /\ OwnBlock /\ FreeCount /\ Reachable /\ ParentEntry /\ OpenOnce

LEMMA NameFacts == "" \notin Names /\ "." \notin Names /\ ".." \notin Names
  BY RfsAssumption, Zenon

LEMMA FoundLemma ==
    ASSUME NEW name, Root.nlinks \in Nat
    PROVE  IF fileExists(name) = -1
           THEN \A l \in Links : At(l).d_name # name
           ELSE fileExists(name) \in Links /\ At(fileExists(name)).d_name = name
  <1> DEFINE found == {l \in Links : At(l).d_name = name}
  <1>1. CASE found = {}
    BY <1>1 DEF fileExists
  <1>2. CASE found # {}
    <2>1. found \in SUBSET (0 .. Root.nlinks)
      BY DEF Links
    <2> HIDE DEF found
    <2>2. \E l \in found : \A m \in found : l <= m
      BY <1>2, <2>1, FirstOf
    <2>3. fileExists(name) = CHOOSE l \in found : \A m \in found : l <= m
      BY <1>2, Zenon DEF fileExists, found
    <2>4. fileExists(name) \in found
      BY <2>2, <2>3
    <2>5. fileExists(name) # -1
      BY <2>1, <2>4
    <2> QED BY <2>4, <2>5 DEF found
  <1> QED BY <1>1, <1>2

(* What the caches offer is free and offered once.                         *)
LEMMA BlockOffer ==
    ASSUME IInv
    PROVE  /\ BlockCache \in Seq(DataBlocks) /\ Once(BlockCache)
           /\ Members(BlockCache) \cap BlocksInUse = {}
  <1>1. CASE freeblocks # <<>>
    <2>1. BlockCache = freeblocks /\ freeblocks \in Seq(DataBlocks) /\ Once(freeblocks)
      BY <1>1 DEF BlockCache, IInv, TypeOK, CacheInv
    <2>2. \A k \in 1 .. Len(freeblocks) : freeblocks[k] \notin BlocksInUse
      BY <2>1 DEF IInv, OwnBlock
    <2> QED BY <2>1, <2>2 DEF Members
  <1>2. CASE freeblocks = <<>> /\ nfreeblocks = 0
    <2>1. BlockCache = <<>>
      BY <1>2 DEF BlockCache, FetchFreeBlocks
    <2> QED BY <2>1 DEF Members, Once
  <1>3. CASE freeblocks = <<>> /\ nfreeblocks # 0
    <2> DEFINE free == {b \in DataBlocks : LooksFree(entry, b)}
    <2>1. BlockCache = Cached(free)
      BY <1>3 DEF BlockCache, FetchFreeBlocks
    <2>2. free \in SUBSET Int /\ IsFiniteSet(free)
      <3>1. DataBlocks \in SUBSET Int /\ IsFiniteSet(DataBlocks)
        BY Sizes, FS_Interval DEF DataBlocks
      <3>2. free \in SUBSET DataBlocks
        OBVIOUS
      <3> QED BY <3>1, <3>2, FS_Subset
    <2>3. ASSUME NEW i \in InUse PROVE inode[i].block \notin free
      <3>1. CASE i = rootdir
        <4>1. Root.nlinks > 1 /\ Root.block \in DataBlocks
          <5>1. /\ Root.nlinks \in 1 .. MaxLinks /\ Root.nlinks # 1 /\ Root.block \in DataBlocks
                /\ MaxLinks \in Nat
            BY <1>3, Sizes, Zenon DEF IInv, RootInv
          <5> QED BY <5>1
        <4>2. At(1).d_name # "" /\ DirEntryAddress(1, Root) = <<Root.block, 0>>
          <5>1. At(1).d_name # ""
            BY <4>1, NameFacts, Zenon DEF IInv, RootInv
          <5>2. 1 \in 0 .. 2 * MAXDIRENTRIES - 1
            BY Sizes
          <5> QED BY <4>1, <5>1, <5>2, AddressLemma
        <4> QED BY <3>1, <4>2 DEF At, Root, LooksFree
      <3>2. CASE i # rootdir
        <4>1. inode[i].block \in DataBlocks
          BY DEF IInv, TypeOK, InUse
        <4>2. DirEntryAddress(1, inode[i]) = <<inode[i].block, 0>>
          BY <4>1, Sizes, AddressLemma
        <4>3. entry[<<inode[i].block, 0>>].d_name = ".."
          BY <3>2, <4>2 DEF IInv, ParentEntry
        <4> QED BY <4>3 DEF LooksFree
      <3> QED BY <3>1, <3>2
    <2> HIDE DEF free
    <2>4. Cached(free) \in Seq(free) /\ Once(Cached(free))
      BY <2>2, CachedLemma
    <2>5. \A k \in 1 .. Len(Cached(free)) : Cached(free)[k] \in free
      BY <2>4, ElementOfSeq
    <2>6. Cached(free) \in Seq(DataBlocks)
      BY <2>4, SeqMonotonic DEF free
    <2>7. \A b \in BlocksInUse : b \notin free
      BY <2>3 DEF BlocksInUse
    <2> QED BY <2>1, <2>4, <2>5, <2>6, <2>7 DEF Members
  <1> QED BY <1>1, <1>2, <1>3

LEMMA INodeOffer ==
    ASSUME IInv
    PROVE  /\ INodeCache \in Seq(INodes) /\ Once(INodeCache)
           /\ Members(INodeCache) \cap InUse = {}
  <1>1. CASE freeinodes # <<>>
    <2>1. INodeCache = freeinodes /\ freeinodes \in Seq(INodes) /\ Once(freeinodes)
      BY <1>1 DEF INodeCache, IInv, TypeOK, CacheInv
    <2>2. \A k \in 1 .. Len(freeinodes) : freeinodes[k] \notin InUse
      BY <2>1 DEF IInv, OwnBlock
    <2> QED BY <2>1, <2>2 DEF Members
  <1>2. CASE freeinodes = <<>> /\ nfreeinodes = 0
    <2>1. INodeCache = <<>>
      BY <1>2 DEF INodeCache, FetchFreeINodes
    <2> QED BY <2>1 DEF Members, Once
  <1>3. CASE freeinodes = <<>> /\ nfreeinodes # 0
    <2> DEFINE free == {i \in INodes : inode[i].block = 0}
    <2>1. INodeCache = Cached(free)
      BY <1>3 DEF INodeCache, FetchFreeINodes
    <2>2. free \in SUBSET Int /\ IsFiniteSet(free)
      <3>1. INodes \in SUBSET Int /\ IsFiniteSet(INodes)
        BY Sizes, FS_Interval DEF INodes
      <3>2. free \in SUBSET INodes
        OBVIOUS
      <3> QED BY <3>1, <3>2, FS_Subset
    <2>3. free \cap InUse = {} /\ free \subseteq INodes
      BY DEF InUse
    <2> HIDE DEF free
    <2>4. Cached(free) \in Seq(free) /\ Once(Cached(free))
      BY <2>2, CachedLemma
    <2>5. \A k \in 1 .. Len(Cached(free)) : Cached(free)[k] \in free
      BY <2>4, ElementOfSeq
    <2>6. Cached(free) \in Seq(INodes)
      BY <2>3, <2>4, SeqMonotonic
    <2> QED BY <2>1, <2>3, <2>4, <2>5, <2>6 DEF Members
  <1> QED BY <1>1, <1>2, <1>3

LEMMA FreeINodeTypes ==
    ASSUME NEW U \in SUBSET INodes, NEW r \in U
    PROVE  IsFiniteSet(INodes \ U) /\ Cardinality(INodes \ U) \in INodes
  <1>1. IsFiniteSet(INodes) /\ Cardinality(INodes) = INODETABLESIZE
    BY Sizes, FS_Interval DEF INodes
  <1>2. /\ IsFiniteSet(INodes \ {r}) /\ Cardinality(INodes \ {r}) = INODETABLESIZE - 1
    BY <1>1, FS_RemoveElement
  <1>3. INodes \ U \in SUBSET (INodes \ {r})
    OBVIOUS
  <1>4. IsFiniteSet(INodes \ U) /\ Cardinality(INodes \ U) <= INODETABLESIZE - 1
    BY <1>2, <1>3, FS_Subset
  <1>5. Cardinality(INodes \ U) \in Nat
    BY <1>4, FS_CardinalityType
  <1> QED BY <1>4, <1>5, Sizes DEF INodes

LEMMA FreeBlockTypes ==
    ASSUME NEW B
    PROVE  /\ IsFiniteSet(DataBlocks \ B)
           /\ Cardinality(DataBlocks \ B) \in 0 .. Cardinality(DataBlocks)
  <1>1. IsFiniteSet(DataBlocks)
    BY Sizes, FS_Interval DEF DataBlocks
  <1>2. DataBlocks \ B \in SUBSET DataBlocks
    OBVIOUS
  <1>3. IsFiniteSet(DataBlocks \ B) /\ Cardinality(DataBlocks \ B) <= Cardinality(DataBlocks)
    BY <1>1, <1>2, FS_Subset
  <1> QED BY <1>1, <1>3, FS_CardinalityType

-----------------------------------------------------------------------------
(* makeDir: what it writes.                                                *)
LinkRange == 0 .. 2 * MAXDIRENTRIES - 1

Makes(new, b, i, name) ==
    /\ new \in [Address -> Entries]
    /\ \A l \in Links : new[DirEntryAddress(l, Root)] = At(l)
    /\ new[DirEntryAddress(Root.nlinks, Root)] = [d_name |-> name, d_inode |-> i]
    /\ new[<<b, 0>>] = [d_name |-> "..", d_inode |-> rootdir]
    /\ \A c \in DataBlocks \ {b, Root.block} : new[<<c, 0>>] = entry[<<c, 0>>]

LEMMA AddedLemma ==
    ASSUME Kept, IInv, Root.nlinks < MaxLinks, NEW name \in Names, NEW i \in INodes,
           NEW b \in DataBlocks, b # Root.block
    PROVE  Makes(Added(entry, [block |-> b, nlinks |-> 2], i, name), b, i, name)
  <1> DEFINE n == Root.nlinks
             a(l) == DirEntryAddress(l, Root)
             dir == [block |-> b, nlinks |-> 2]
             dot == [d_name |-> ".", d_inode |-> i]
             dots == [d_name |-> "..", d_inode |-> rootdir]
             link == [d_name |-> name, d_inode |-> i]
             new == Added(entry, dir, i, name)
  <1>1. /\ entry \in [Address -> Entries] /\ Root.block \in DataBlocks /\ rootdir \in INodes
        /\ n \in 1 .. MaxLinks - 1 /\ MaxLinks <= 2 * MAXDIRENTRIES
    <2>1. /\ entry \in [Address -> Entries] /\ Root.block \in DataBlocks /\ rootdir \in INodes
          /\ n \in 1 .. MaxLinks
      BY Zenon DEF IInv, TypeOK, RootInv, Entries
    <2> QED BY <2>1, Sizes DEF Kept
  <1>2. dot \in Entries /\ dots \in Entries /\ link \in Entries
    BY <1>1 DEF Entries
  <1>3. dir.block = b /\ n \in LinkRange /\ Links \subseteq LinkRange /\ n \notin Links
    BY <1>1, Sizes DEF LinkRange, Links
  <1>4. DirEntryAddress(0, dir) = <<b, -1>> /\ DirEntryAddress(1, dir) = <<b, 0>>
    <2>1. 0 \in LinkRange /\ 1 \in LinkRange
      BY Sizes DEF LinkRange
    <2> QED BY <1>3, <2>1, AddressLemma DEF LinkRange
  <1>5. /\ \A l \in LinkRange : a(l) \in Address /\ (l # n => a(l) # a(n))
        /\ \A l \in LinkRange : a(l) # <<b, -1>> /\ a(l) # <<b, 0>>
        /\ \A c \in DataBlocks \ {Root.block} : a(n) # <<c, 0>>
    <2>1. \A l, m \in LinkRange : a(l) \in Address /\ (l # m => a(l) # a(m))
      BY <1>1, AddressLemma DEF LinkRange
    <2>2. \A l \in LinkRange : a(l) = <<Root.block, -1>> \/ a(l)[1] \in {0, Root.block}
      BY <1>1, AddressLemma DEF LinkRange
    <2>3. \A c \in DataBlocks : c # 0
      BY Sizes DEF DataBlocks
    <2>4. \A l \in LinkRange : \A c \in DataBlocks \ {Root.block}, p \in {-1, 0} : a(l) # <<c, p>>
      BY <2>2, <2>3
    <2> QED BY <1>3, <2>1, <2>4
  <1>6. new = [entry EXCEPT ![<<b, -1>>] = dot, ![<<b, 0>>] = dots, ![a(n)] = link]
    BY <1>4 DEF Added, Write
  <1>7. <<b, -1>> \in Address /\ <<b, 0>> \in Address /\ <<b, 0>> # <<b, -1>>
    BY Sizes DEF Address, DataBlocks
  <1> HIDE DEF dot, dots, link, new, a, n
  <1>8. \A x \in Address : new[x] = IF x = a(n) THEN link ELSE IF x = <<b, 0>> THEN dots
                                    ELSE IF x = <<b, -1>> THEN dot ELSE entry[x]
    BY <1>1, <1>6
  <1>9. new \in [Address -> Entries]
    BY <1>1, <1>2, <1>6, <1>8
  <1>10. \A l \in Links : new[a(l)] = entry[a(l)]
    BY <1>3, <1>5, <1>8
  <1>11. new[a(n)] = link /\ new[<<b, 0>>] = dots
    BY <1>3, <1>5, <1>7, <1>8
  <1>12. \A c \in DataBlocks \ {b, Root.block} : new[<<c, 0>>] = entry[<<c, 0>>]
    <2>1. \A c \in DataBlocks : <<c, 0>> \in Address
      BY Sizes DEF Address, DataBlocks
    <2> QED BY <1>5, <1>8, <2>1
  <1> QED BY <1>9, <1>10, <1>11, <1>12 DEF new, a, n, link, dots, At, Makes

LEMMA SameAddress ==
    ASSUME NEW in, NEW jn, in.block = jn.block
    PROVE  \A l : DirEntryAddress(l, in) = DirEntryAddress(l, jn)
  BY DEF DirEntryAddress

LEMMA DiskStays ==
    ASSUME IInv, UNCHANGED disk, OpenOnce',
           open' \in Seq([ino : INodes, block : DataBlocks, removed : BOOLEAN])
    PROVE  IInv'
  <1> USE DEF disk
  <1>1. Root' = Root /\ Links' = Links /\ InUse' = InUse
    BY DEF Root, Links, InUse
  <1>2. BlocksInUse' = BlocksInUse
    BY <1>1 DEF BlocksInUse
  <1>3. \A l : At(l)' = At(l)
    BY <1>1 DEF At
  <1>4. Named' = Named
    BY <1>1, <1>3 DEF Named
  <1>5. TypeOK' /\ CacheInv'
    BY DEF IInv, TypeOK, CacheInv
  <1>6. RootInv'
    BY <1>1, <1>3 DEF IInv, RootInv
  <1>7. OwnBlock' /\ FreeCount'
    BY <1>1, <1>2 DEF IInv, OwnBlock, FreeCount
  <1>8. Reachable'
    BY <1>1, <1>3, <1>4 DEF IInv, Reachable
  <1>9. ParentEntry'
    BY <1>1 DEF IInv, ParentEntry
  <1> QED BY <1>5, <1>6, <1>7, <1>8, <1>9 DEF IInv

LEMMA StutterLemma == IInv /\ UNCHANGED vars => IInv'
  <1> SUFFICES ASSUME IInv, UNCHANGED vars PROVE IInv'
    OBVIOUS
  <1>1. UNCHANGED disk /\ open' = open /\ InUse' = InUse /\ inode' = inode
    BY DEF vars, disk, InUse
  <1>2. OpenOnce'
    BY <1>1 DEF IInv, OpenOnce
  <1> QED BY <1>1, <1>2, DiskStays DEF IInv, TypeOK

(* A name that is not there gives a new directory in a block and an inode  *)
(* that nobody uses, and a new last link of the root.                      *)
LEMMA MakeStep == ASSUME Kept, NEW name \in Names PROVE IInv /\ makeDir(name) => IInv'
  <1> SUFFICES ASSUME IInv, makeDir(name) PROVE IInv'
    OBVIOUS
  <1>1. CASE UNCHANGED vars
    BY <1>1, StutterLemma
  <1>2. CASE ~ UNCHANGED vars
    <2> DEFINE b == Head(BlockCache)
               i == Head(INodeCache)
               n == Root.nlinks
               dir == [block |-> b, nlinks |-> 2]
               a(l) == DirEntryAddress(l, Root)
    <2>1. /\ fileExists(name) = -1
          /\ n < MaxLinks /\ BlockCache # <<>> /\ INodeCache # <<>>
          /\ entry' = Added(entry, dir, i, name)
          /\ inode' = [inode EXCEPT ![i] = dir, ![rootdir].nlinks = @ + 1]
          /\ freeblocks' = Tail(BlockCache) /\ freeinodes' = Tail(INodeCache)
          /\ nfreeblocks' = nfreeblocks - 1 /\ nfreeinodes' = nfreeinodes - 1
          /\ UNCHANGED <<rootdir, open>>
      BY <1>2, Zenon DEF makeDir
    <2>2. /\ rootdir \in INodes /\ Root.block \in DataBlocks /\ n \in 1 .. MaxLinks - 1
          /\ inode \in [INodes -> [block : {0} \cup DataBlocks, nlinks : 0 .. MaxLinks]]
      <3>1. /\ rootdir \in INodes /\ Root.block \in DataBlocks /\ n \in 1 .. MaxLinks
            /\ inode \in [INodes -> [block : {0} \cup DataBlocks, nlinks : 0 .. MaxLinks]]
        BY Zenon DEF IInv, RootInv, TypeOK
      <3> QED BY <2>1, <3>1, Sizes
    <2>3. \A c \in DataBlocks : c # 0
      BY Sizes DEF DataBlocks
    <2>4. rootdir \in InUse
      BY <2>2, <2>3 DEF InUse, Root
    <2>5. /\ b \in DataBlocks \ BlocksInUse
          /\ freeblocks' \in Seq(DataBlocks) /\ Once(freeblocks')
          /\ Members(freeblocks') \subseteq DataBlocks \ (BlocksInUse \cup {b})
      <3>1. /\ Tail(BlockCache) \in Seq(DataBlocks) /\ Once(Tail(BlockCache)) /\ b \in DataBlocks
            /\ b = BlockCache[1] /\ Members(Tail(BlockCache)) = Members(BlockCache) \ {b}
        BY <2>1, BlockOffer, TailLemma
      <3>2. b \in Members(BlockCache)
        BY <2>1, <3>1, BlockOffer DEF Members
      <3>3. Members(freeblocks') \subseteq DataBlocks
        BY <2>1, <3>1, ElementOfSeq DEF Members
      <3> QED BY <2>1, <3>1, <3>2, <3>3, BlockOffer
    <2>6. /\ i \in INodes \ InUse
          /\ freeinodes' \in Seq(INodes) /\ Once(freeinodes')
          /\ Members(freeinodes') \subseteq INodes \ (InUse \cup {i})
      <3>1. /\ Tail(INodeCache) \in Seq(INodes) /\ Once(Tail(INodeCache)) /\ i \in INodes
            /\ i = INodeCache[1] /\ Members(Tail(INodeCache)) = Members(INodeCache) \ {i}
        BY <2>1, INodeOffer, TailLemma
      <3>2. i \in Members(INodeCache)
        BY <2>1, <3>1, INodeOffer DEF Members
      <3>3. Members(freeinodes') \subseteq INodes
        BY <2>1, <3>1, ElementOfSeq DEF Members
      <3> QED BY <2>1, <3>1, <3>2, <3>3, INodeOffer
    <2>7. Root.block \in BlocksInUse /\ b # Root.block /\ i # rootdir
      BY <2>4, <2>5, <2>6 DEF BlocksInUse, Root
    <2> HIDE DEF b, i, dir
    <2>8. dir.block = b /\ dir.nlinks = 2 /\ dir \in [block : {0} \cup DataBlocks, nlinks : 0 .. MaxLinks]
      BY <2>2, <2>5, Sizes DEF dir
    <2>9. /\ inode' \in [INodes -> [block : {0} \cup DataBlocks, nlinks : 0 .. MaxLinks]]
          /\ inode'[i] = dir /\ Root'.block = Root.block /\ Root'.nlinks = n + 1
          /\ \A j \in INodes \ {i, rootdir} : inode'[j] = inode[j]
          /\ \A j \in INodes \ {i} : inode'[j].block = inode[j].block
      <3>1. inode' = [j \in INodes |-> IF j = rootdir THEN [Root EXCEPT !.nlinks = n + 1]
                                       ELSE IF j = i THEN dir ELSE inode[j]]
        BY <2>1, <2>2, <2>6, <2>7 DEF Root
      <3>2. Root \in [block : {0} \cup DataBlocks, nlinks : 0 .. MaxLinks]
        BY <2>2 DEF Root
      <3>3. /\ [Root EXCEPT !.nlinks = n + 1] \in [block : {0} \cup DataBlocks, nlinks : 0 .. MaxLinks]
            /\ [Root EXCEPT !.nlinks = n + 1].block = Root.block
            /\ [Root EXCEPT !.nlinks = n + 1].nlinks = n + 1
        BY <2>2, <3>2, Sizes
      <3>4. Root' = [Root EXCEPT !.nlinks = n + 1]
        BY <2>1, <2>2, <3>1 DEF Root
      <3> QED BY <2>2, <2>6, <2>7, <2>8, <3>1, <3>3, <3>4 DEF Root
    <2>10. InUse' = InUse \cup {i} /\ BlocksInUse' = BlocksInUse \cup {b}
      <3>1. InUse' = InUse \cup {i}
        BY <2>3, <2>5, <2>6, <2>8, <2>9 DEF InUse
      <3>2. BlocksInUse' = {inode'[j].block : j \in InUse'}
        BY DEF BlocksInUse
      <3>3. \A j \in InUse : j \in INodes \ {i}
        BY <2>6 DEF InUse
      <3> QED BY <2>8, <2>9, <3>1, <3>2, <3>3 DEF BlocksInUse
    <2>11. /\ entry' \in [Address -> Entries]
           /\ \A l \in Links : entry'[a(l)] = entry[a(l)]
           /\ entry'[a(n)] = [d_name |-> name, d_inode |-> i]
           /\ entry'[<<b, 0>>] = [d_name |-> "..", d_inode |-> rootdir]
           /\ \A c \in DataBlocks \ {b, Root.block} : entry'[<<c, 0>>] = entry[<<c, 0>>]
      <3>1. entry' = Added(entry, [block |-> b, nlinks |-> 2], i, name)
        BY <2>1 DEF dir
      <3>2. /\ Root.nlinks < MaxLinks /\ i \in INodes /\ b \in DataBlocks /\ b # Root.block
        BY <2>1, <2>5, <2>6, <2>7
      <3>3. Makes(entry', b, i, name)
        BY <3>1, <3>2, AddedLemma, Zenon
      <3> QED BY <3>3, Zenon DEF Makes, At
    <2>12. Links' = Links \cup {n} /\ n \notin Links /\ 0 \in Links
      BY <2>2, <2>9 DEF Links
    <2>a. \A l : entry'[DirEntryAddress(l, Root')] = entry'[a(l)]
      BY <2>9, SameAddress
    <2>13. CacheInv' /\ OwnBlock'
      <3>1. \A j, k \in InUse' : j # k => inode'[j].block # inode'[k].block
        <4>1. \A j \in InUse : inode'[j].block = inode[j].block /\ inode[j].block # b
          BY <2>5, <2>6, <2>9 DEF InUse, BlocksInUse
        <4> QED BY <2>8, <2>9, <2>10, <4>1 DEF IInv, OwnBlock
      <3>2. \A k \in DOMAIN freeblocks' : freeblocks'[k] \notin BlocksInUse'
        BY <2>5, <2>10, LenProperties DEF Members
      <3>3. \A k \in DOMAIN freeinodes' : freeinodes'[k] \notin InUse'
        BY <2>6, <2>10, LenProperties DEF Members
      <3> QED BY <2>5, <2>6, <3>1, <3>2, <3>3 DEF CacheInv, OwnBlock
    <2>14. FreeCount'
      <3>1. DataBlocks \ BlocksInUse' = (DataBlocks \ BlocksInUse) \ {b}
        BY <2>10
      <3>2. INodes \ InUse' = (INodes \ InUse) \ {i}
        BY <2>10
      <3>3. IsFiniteSet(DataBlocks \ BlocksInUse) /\ IsFiniteSet(INodes \ InUse)
        BY <2>4, FreeBlockTypes, FreeINodeTypes DEF InUse
      <3>4. /\ Cardinality(DataBlocks \ BlocksInUse') = Cardinality(DataBlocks \ BlocksInUse) - 1
            /\ Cardinality(INodes \ InUse') = Cardinality(INodes \ InUse) - 1
        <4>1. b \in DataBlocks \ BlocksInUse /\ i \in INodes \ InUse
          BY <2>5, <2>6
        <4> QED BY <3>1, <3>2, <3>3, <4>1, FS_RemoveElement
      <3> QED BY <2>1, <3>4 DEF IInv, FreeCount
    <2>15. TypeOK'
      <3>1. rootdir \in InUse' /\ InUse' \in SUBSET INodes
        BY <2>4, <2>10 DEF InUse
      <3>2. nfreeblocks' \in 0 .. Cardinality(DataBlocks) /\ nfreeinodes' \in INodes
        BY <2>14, <3>1, FreeBlockTypes, FreeINodeTypes DEF FreeCount
      <3> QED BY <2>1, <2>2, <2>5, <2>6, <2>9, <2>11, <3>2 DEF IInv, TypeOK, Entries
    <2>16. RootInv'
      <3>1. Root'.block \in DataBlocks /\ Root'.nlinks \in 1 .. MaxLinks /\ Root'.nlinks > 1
        BY <2>2, <2>9, Sizes
      <3>2. entry'[a(0)] \in {NoEntry, [d_name |-> ".", d_inode |-> rootdir]}
        BY <2>11, <2>12 DEF IInv, RootInv, At
      <3>3. \A l \in Links' \ {0} : entry'[a(l)].d_name \in Names \cup {""}
        <4>1. \A l \in Links \ {0} : entry[a(l)].d_name \in Names \cup {""}
          BY DEF IInv, RootInv, At
        <4>2. n # 0 /\ entry'[a(n)].d_name \in Names
          BY <2>2, <2>11
        <4> HIDE DEF a, n
        <4> QED BY <2>11, <2>12, <4>1, <4>2
      <3>4. entry'[a(1)].d_name \in Names
        <4>1. CASE n = 1
          BY <2>11, <4>1
        <4>2. CASE n # 1
          <5>1. n > 1 /\ 1 \in Links
            BY <2>2, <4>2 DEF Links
          <5>2. entry[a(1)].d_name \in Names
            BY <5>1 DEF IInv, RootInv, At
          <5> QED BY <2>11, <5>1, <5>2
        <4> QED BY <4>1, <4>2
      <3>5. Root'.nlinks # 1
        BY <3>1
      <3> QED BY <2>1, <2>2, <2>a, <3>1, <3>2, <3>3, <3>4, <3>5 DEF RootInv, At
    <2>17. Reachable'
      <3>1. /\ \A l \in Links : entry[a(l)].d_name # name
            /\ {entry[a(l)].d_inode : l \in Named} = InUse \ {rootdir}
            /\ \A l, m \in Named : l # m => /\ entry[a(l)].d_inode # entry[a(m)].d_inode
                                           /\ entry[a(l)].d_name # entry[a(m)].d_name
        BY <2>1, <2>2, FoundLemma DEF IInv, Reachable, At
      <3>2. Named = {l \in Links : entry[a(l)].d_name \in Names}
        BY DEF Named, At
      <3>3. Named' = {l \in Links' : entry'[a(l)].d_name \in Names}
        BY <2>a DEF Named, At
      <3> HIDE DEF a, n
      <3>4. Named' = Named \cup {n} /\ Named \subseteq Links
        BY <2>11, <2>12, <3>2, <3>3
      <3>5. \A l \in Named : entry[a(l)].d_inode \in InUse
        BY <3>1
      <3>6. \A l \in Named : entry'[a(l)] = entry[a(l)]
        BY <2>11, <3>4
      <3>7. entry'[a(n)].d_name = name /\ entry'[a(n)].d_inode = i
        BY <2>11
      <3>8. {entry'[a(l)].d_inode : l \in Named'} = InUse' \ {rootdir}
        BY <2>7, <2>10, <3>1, <3>4, <3>6, <3>7
      <3>9. \A l, m \in Named' : l # m => /\ entry'[a(l)].d_inode # entry'[a(m)].d_inode
                                          /\ entry'[a(l)].d_name # entry'[a(m)].d_name
        BY <2>6, <3>1, <3>4, <3>5, <3>6, <3>7
      <3>10. /\ {entry'[DirEntryAddress(l, Root')].d_inode : l \in Named'} = InUse' \ {rootdir}
             /\ \A l, m \in Named' : l # m =>
                  /\ entry'[DirEntryAddress(l, Root')].d_inode # entry'[DirEntryAddress(m, Root')].d_inode
                  /\ entry'[DirEntryAddress(l, Root')].d_name # entry'[DirEntryAddress(m, Root')].d_name
        BY <2>a, <3>8, <3>9
      <3> QED BY <2>1, <3>10 DEF Reachable, At
    <2>18. ParentEntry'
      <3> SUFFICES ASSUME NEW j \in InUse' \ {rootdir}
                   PROVE  entry'[DirEntryAddress(1, inode'[j])] = [d_name |-> "..", d_inode |-> rootdir]
        BY <2>1 DEF ParentEntry
      <3>1. 1 \in LinkRange
        BY Sizes DEF LinkRange
      <3>2. CASE j = i
        <4>1. DirEntryAddress(1, inode'[j]) = <<b, 0>>
          BY <2>5, <2>8, <2>9, <3>1, <3>2, AddressLemma DEF LinkRange
        <4> QED BY <2>11, <4>1
      <3>3. CASE j # i
        <4>1. j \in InUse \ {rootdir} /\ j \in INodes \ {i, rootdir}
          BY <2>10, <3>3 DEF InUse
        <4> DEFINE c == inode[j].block
        <4>2. inode'[j] = inode[j] /\ c \in BlocksInUse /\ c \in DataBlocks
          BY <2>2, <2>9, <4>1 DEF InUse, BlocksInUse
        <4>3. c # b /\ c # Root.block
          BY <2>4, <2>5, <4>1, <4>2 DEF IInv, OwnBlock, Root
        <4>4. DirEntryAddress(1, inode[j]) = <<c, 0>>
          BY <4>2, <3>1, AddressLemma DEF LinkRange
        <4>5. entry[<<c, 0>>] = [d_name |-> "..", d_inode |-> rootdir]
          BY <4>1, <4>4 DEF IInv, ParentEntry
        <4> QED BY <2>11, <4>2, <4>3, <4>4, <4>5
      <3> QED BY <3>2, <3>3
    <2>19. OpenOnce'
      <3>1. /\ \A j, k \in DOMAIN open : j # k => open[j].ino # open[k].ino
            /\ \A k \in DOMAIN open : ~open[k].removed =>
                  open[k].ino \in InUse /\ open[k].block = inode[open[k].ino].block
        BY DEF IInv, OpenOnce
      <3>2. \A j \in InUse : inode'[j].block = inode[j].block /\ j \in InUse'
        BY <2>6, <2>9, <2>10 DEF InUse
      <3> QED BY <2>1, <3>1, <3>2, Zenon DEF OpenOnce
    <2> QED BY <2>13, <2>14, <2>15, <2>16, <2>17, <2>18, <2>19 DEF IInv
  <1> QED BY <1>1, <1>2

-----------------------------------------------------------------------------
(* removeDir: what it blanks and moves.                                    *)
Removes(new, b, k) ==
    LET last == Root.nlinks - 1
    IN  /\ new \in [Address -> Entries]
        /\ new[DirEntryAddress(last, Root)] = NoEntry
        /\ k # last => new[DirEntryAddress(k, Root)] = At(last)
        /\ new[DirEntryAddress(0, Root)] \in {NoEntry, At(0)}
        /\ \A l \in Links \ {0, k, last} : new[DirEntryAddress(l, Root)] = At(l)
        /\ \A c \in DataBlocks \ {b, Root.block} : new[<<c, 0>>] = entry[<<c, 0>>]

LEMMA RemovedLemma ==
    ASSUME Kept, IInv, NEW k \in Links, k # 0, NEW b \in DataBlocks, b # Root.block
    PROVE  Removes(freeDirEntry(freeBlock(entry, b), k), b, k)
  <1> DEFINE last == Root.nlinks - 1
             a(l) == DirEntryAddress(l, Root)
             f == freeBlock(entry, b)
             new == freeDirEntry(f, k)
  <1>1. /\ entry \in [Address -> Entries] /\ Root.block \in DataBlocks
        /\ Root.nlinks \in 1 .. MaxLinks /\ MaxLinks \in Nat /\ MaxLinks <= 2 * MAXDIRENTRIES
    <2>1. /\ entry \in [Address -> Entries] /\ Root.block \in DataBlocks
          /\ Root.nlinks \in 1 .. MaxLinks
      BY Zenon DEF IInv, TypeOK, RootInv, Entries
    <2> QED BY <2>1, Sizes DEF Kept
  <1>2. NoEntry \in Entries
    BY Sizes DEF NoEntry, Entries, INodes
  <1>3. last \in Links \ {0} /\ Links \subseteq LinkRange /\ k \in LinkRange /\ 0 \in Links
    BY <1>1, Sizes DEF LinkRange, Links
  <1>4. \A l, m \in LinkRange : a(l) \in Address /\ (l # m => a(l) # a(m))
    BY <1>1, AddressLemma DEF LinkRange
  <1>5. \A l \in LinkRange \ {0} : a(l)[1] \in {0, Root.block} /\ a(l)[2] >= 0
    BY <1>1, AddressLemma DEF LinkRange
  <1>6. a(0) = <<Root.block, -1>>
    BY <1>1, <1>3, AddressLemma DEF LinkRange
  <1>7. /\ f \in [Address -> Entries]
        /\ \A x \in Address : f[x] = IF x = <<b + 1, -1>> \/ (x[1] = b /\ x[2] >= 0)
                                     THEN NoEntry ELSE entry[x]
    BY <1>1, <1>2 DEF freeBlock
  <1>8. new = [f EXCEPT ![a(k)] = f[a(last)], ![a(last)] = NoEntry]
    BY DEF freeDirEntry
  <1>9. \A c \in DataBlocks : c # 0 /\ c \in Nat /\ <<c, 0>> \in Address
    BY Sizes DEF DataBlocks, Address
  <1> HIDE DEF a, f, new, last
  <1>10. \A l \in LinkRange \ {0} : f[a(l)] = entry[a(l)]
    <2>1. \A l \in LinkRange \ {0} : a(l) # <<b + 1, -1>> /\ a(l)[1] # b
      <3> SUFFICES ASSUME NEW l \in LinkRange \ {0} PROVE a(l) # <<b + 1, -1>> /\ a(l)[1] # b
        OBVIOUS
      <3>1. a(l)[1] # b
        BY <1>5, <1>9
      <3>2. <<b + 1, -1>>[2] = -1 /\ a(l)[2] # -1
        BY <1>5
      <3> QED BY <3>1, <3>2
    <2> QED BY <1>4, <1>7, <2>1
  <1>11. f[a(0)] \in {NoEntry, entry[a(0)]}
    BY <1>3, <1>4, <1>7
  <1>12. \A c \in DataBlocks \ {b} : f[<<c, 0>>] = entry[<<c, 0>>]
    <2> SUFFICES ASSUME NEW c \in DataBlocks \ {b} PROVE f[<<c, 0>>] = entry[<<c, 0>>]
      OBVIOUS
    <2> DEFINE x == <<c, 0>>
    <2>1. x \in Address /\ x # <<b + 1, -1>> /\ x[1] # b
      BY <1>9
    <2> HIDE DEF x
    <2>2. f[x] = entry[x]
      BY <1>7, <2>1
    <2> QED BY <2>2 DEF x
  <1>13. \A x \in Address : new[x] = IF x = a(last) THEN NoEntry
                                     ELSE IF x = a(k) THEN f[a(last)] ELSE f[x]
    BY <1>7, <1>8
  <1>14. new \in [Address -> Entries]
    BY <1>2, <1>3, <1>4, <1>7, <1>8
  <1>15. /\ new[a(last)] = NoEntry
         /\ k # last => new[a(k)] = entry[a(last)]
    BY <1>3, <1>4, <1>10, <1>13
  <1>16. new[a(0)] \in {NoEntry, entry[a(0)]}
    BY <1>3, <1>4, <1>11, <1>13
  <1>17. \A l \in Links \ {0, k, last} : new[a(l)] = entry[a(l)]
    BY <1>3, <1>4, <1>10, <1>13
  <1>18. \A c \in DataBlocks \ {b, Root.block} : new[<<c, 0>>] = entry[<<c, 0>>]
    <2>1. \A l \in LinkRange \ {0} : \A c \in DataBlocks \ {Root.block} : a(l) # <<c, 0>>
      BY <1>5, <1>9
    <2>2. a(last) \in Address /\ last \in LinkRange \ {0} /\ k \in LinkRange \ {0}
      BY <1>3, <1>4
    <2> SUFFICES ASSUME NEW c \in DataBlocks \ {b, Root.block} PROVE new[<<c, 0>>] = entry[<<c, 0>>]
      OBVIOUS
    <2>3. <<c, 0>> \in Address /\ <<c, 0>> # a(last) /\ <<c, 0>> # a(k)
      BY <1>9, <2>1, <2>2
    <2> QED BY <1>12, <1>13, <2>3
  <1> QED BY <1>14, <1>15, <1>16, <1>17, <1>18 DEF a, f, new, last, At, Removes

LEMMA DotLemma == IInv => At(0).d_name \in {"", "."}
  <1>1. IInv => At(0) \in {NoEntry, [d_name |-> ".", d_inode |-> rootdir]}
    BY Zenon DEF IInv, RootInv
  <1>2. NoEntry.d_name = "" /\ [d_name |-> ".", d_inode |-> rootdir].d_name = "."
    BY DEF NoEntry
  <1> QED BY <1>1, <1>2

(* A name that is there is that of a directory of its own.                 *)
LEMMA NamedLemma ==
    ASSUME IInv, NEW name \in Names, fileExists(name) # -1
    PROVE  LET k == fileExists(name)
           IN  k \in Named /\ k # 0 /\ At(k).d_inode \in InUse \ {rootdir}
  <1> DEFINE k == fileExists(name)
  <1>1. Root.nlinks \in Nat
    <2>1. Root.nlinks \in 1 .. MaxLinks
      BY Zenon DEF IInv, RootInv
    <2> QED BY <2>1, Sizes
  <1>2. k \in Links /\ At(k).d_name = name
    BY <1>1, FoundLemma
  <1>3. At(0).d_name \in {"", "."}
    BY DotLemma
  <1>4. k # 0
    BY <1>2, <1>3, NameFacts
  <1>5. k \in Named
    BY <1>2 DEF Named
  <1>6. At(k).d_inode \in InUse \ {rootdir}
    BY <1>5 DEF IInv, Reachable
  <1> QED BY <1>4, <1>5, <1>6

(* The directory's block and inode come free, its entry is overwritten by  *)
(* the last one, and the root's number of links stays.                     *)
LEMMA RemoveStep == ASSUME Kept, NEW name \in Names PROVE IInv /\ removeDir(name) => IInv'
  <1> SUFFICES ASSUME IInv, removeDir(name) PROVE IInv'
    OBVIOUS
  <1>1. CASE UNCHANGED vars
    BY <1>1, StutterLemma
  <1>2. CASE ~ UNCHANGED vars
    <2> DEFINE k == fileExists(name)
               i == At(k).d_inode
               b == inode[i].block
               n == Root.nlinks
               last == n - 1
               a(l) == DirEntryAddress(l, Root)
    <2>1. /\ ~Refused(k) /\ k # 1
          /\ entry' = freeDirEntry(freeBlock(entry, b), k)
          /\ inode' = [inode EXCEPT ![i] = nullINode]
          /\ nfreeblocks' = nfreeblocks + 1 /\ nfreeinodes' = nfreeinodes + 1
          /\ open' = [j \in DOMAIN open |->
                        IF open[j].ino = i THEN [open[j] EXCEPT !.removed = TRUE] ELSE open[j]]
          /\ UNCHANGED <<freeblocks, freeinodes, rootdir>>
      BY <1>2, Zenon DEF removeDir, Kept
    <2>2. k \in Named /\ k \in Links /\ k # 0 /\ k # -1 /\ i \in InUse \ {rootdir}
      BY <2>1, NamedLemma DEF Refused, Named
    <2>3. /\ rootdir \in INodes /\ Root.block \in DataBlocks /\ n \in 1 .. MaxLinks /\ MaxLinks \in Nat
          /\ inode \in [INodes -> [block : {0} \cup DataBlocks, nlinks : 0 .. MaxLinks]]
      BY Sizes, Zenon DEF IInv, RootInv, TypeOK
    <2>4. last \in Links /\ last # 0 /\ last # 1 /\ 0 \in Links /\ 1 \in Links /\ n > 1
      BY <2>1, <2>2, <2>3 DEF Links
    <2>5. rootdir \in InUse /\ i \in INodes /\ b # 0 /\ b \in DataBlocks /\ b \in BlocksInUse
      <3>1. \A c \in DataBlocks : c # 0
        BY Sizes DEF DataBlocks
      <3> QED BY <2>2, <2>3, <3>1 DEF InUse, BlocksInUse, Root
    <2>6. \A j \in InUse : j # i => inode[j].block # b
      BY <2>2 DEF IInv, OwnBlock
    <2>7. b # Root.block
      BY <2>2, <2>5, <2>6 DEF Root
    <2>8. /\ entry' \in [Address -> Entries]
          /\ entry'[a(last)] = NoEntry
          /\ k # last => entry'[a(k)] = entry[a(last)]
          /\ entry'[a(0)] \in {NoEntry, entry[a(0)]}
          /\ \A l \in Links \ {0, k, last} : entry'[a(l)] = entry[a(l)]
          /\ \A c \in DataBlocks \ {b, Root.block} : entry'[<<c, 0>>] = entry[<<c, 0>>]
      <3>1. Removes(entry', b, k)
        <4> HIDE DEF k, b
        <4> QED BY <2>1, <2>2, <2>5, <2>7, RemovedLemma
      <3> QED BY <3>1, Zenon DEF Removes, At
    <2> HIDE DEF k, i, b
    <2>9. /\ inode' \in [INodes -> [block : {0} \cup DataBlocks, nlinks : 0 .. MaxLinks]]
          /\ inode'[i].block = 0 /\ \A j \in INodes \ {i} : inode'[j] = inode[j]
          /\ Root' = Root
      <3>1. nullINode \in [block : {0} \cup DataBlocks, nlinks : 0 .. MaxLinks] /\ nullINode.block = 0
        BY <2>3 DEF nullINode
      <3> QED BY <2>1, <2>2, <2>3, <2>5, <3>1 DEF Root
    <2>10. InUse' = InUse \ {i} /\ BlocksInUse' = BlocksInUse \ {b}
      <3>1. InUse' = InUse \ {i}
        BY <2>9 DEF InUse
      <3>2. BlocksInUse' = {inode'[j].block : j \in InUse'}
        BY DEF BlocksInUse
      <3>3. \A j \in InUse \ {i} : inode'[j] = inode[j]
        BY <2>9 DEF InUse
      <3>4. BlocksInUse' = {inode[j].block : j \in InUse \ {i}}
        BY <3>1, <3>2, <3>3
      <3>5. inode[i].block = b /\ i \in InUse
        BY <2>2 DEF b
      <3> QED BY <2>6, <3>1, <3>4, <3>5 DEF BlocksInUse
    <2>11. Links' = Links /\ \A l : entry'[DirEntryAddress(l, Root')] = entry'[a(l)]
      BY <2>9 DEF Links
    <2>12. CacheInv' /\ OwnBlock'
      <3>1. \A j, m \in InUse' : j # m => inode'[j].block # inode'[m].block
        <4>1. \A j \in InUse' : inode'[j] = inode[j] /\ j \in InUse
          BY <2>9, <2>10 DEF InUse
        <4> QED BY <4>1 DEF IInv, OwnBlock
      <3> QED BY <2>1, <2>10, <3>1 DEF IInv, CacheInv, OwnBlock
    <2>13. FreeCount'
      <3>1. /\ DataBlocks \ BlocksInUse' = (DataBlocks \ BlocksInUse) \cup {b}
            /\ INodes \ InUse' = (INodes \ InUse) \cup {i}
        BY <2>2, <2>5, <2>10
      <3>2. IsFiniteSet(DataBlocks \ BlocksInUse) /\ IsFiniteSet(INodes \ InUse)
        BY <2>5, FreeBlockTypes, FreeINodeTypes DEF InUse
      <3>3. b \notin DataBlocks \ BlocksInUse /\ i \notin INodes \ InUse
        BY <2>2, <2>5
      <3>4. /\ Cardinality(DataBlocks \ BlocksInUse') = Cardinality(DataBlocks \ BlocksInUse) + 1
            /\ Cardinality(INodes \ InUse') = Cardinality(INodes \ InUse) + 1
        BY <3>1, <3>2, <3>3, FS_AddElement
      <3> QED BY <2>1, <3>4 DEF IInv, FreeCount
    <2>14. /\ open' \in Seq([ino : INodes, block : DataBlocks, removed : BOOLEAN])
           /\ DOMAIN open' = DOMAIN open
           /\ \A j \in DOMAIN open :
                /\ open'[j].ino = open[j].ino /\ open'[j].block = open[j].block
                /\ ~open'[j].removed => ~open[j].removed /\ open[j].ino # i
      <3> DEFINE Files == [ino : INodes, block : DataBlocks, removed : BOOLEAN]
      <3>1. open \in Seq(Files)
        BY DEF IInv, TypeOK
      <3>2. \A j \in DOMAIN open : open[j] \in Files
        <4> HIDE DEF Files
        <4> QED BY <3>1, ElementOfSeq, LenProperties
      <3>3. \A x \in Files : /\ [x EXCEPT !.removed = TRUE] \in Files
                             /\ [x EXCEPT !.removed = TRUE].ino = x.ino
                             /\ [x EXCEPT !.removed = TRUE].block = x.block
                             /\ [x EXCEPT !.removed = TRUE].removed = TRUE
        OBVIOUS
      <3> HIDE DEF Files
      <3>4. open' \in [DOMAIN open -> Files]
        BY <2>1, <3>2, <3>3
      <3>5. DOMAIN open = 1 .. Len(open) /\ Len(open) \in Nat
        BY <3>1, LenProperties
      <3>6. open' \in Seq(Files)
        BY <3>4, <3>5
      <3> QED BY <2>1, <3>2, <3>3, <3>6 DEF Files
    <2>15. TypeOK'
      <3>1. rootdir \in InUse' /\ InUse' \in SUBSET INodes
        BY <2>2, <2>5, <2>10 DEF InUse
      <3>2. nfreeblocks' \in 0 .. Cardinality(DataBlocks) /\ nfreeinodes' \in INodes
        BY <2>13, <3>1, FreeBlockTypes, FreeINodeTypes DEF FreeCount
      <3> QED BY <2>1, <2>3, <2>8, <2>9, <2>14, <3>2 DEF IInv, TypeOK, Entries
    <2>16. RootInv'
      <3>1. entry[a(0)] \in {NoEntry, [d_name |-> ".", d_inode |-> rootdir]}
        BY DEF IInv, RootInv, At
      <3>2. \A l \in Links \ {0} : entry[a(l)].d_name \in Names \cup {""}
        BY DEF IInv, RootInv, At
      <3>3. NoEntry.d_name = ""
        BY DEF NoEntry
      <3>4. \A l \in Links \ {0} : entry'[a(l)].d_name \in Names \cup {""}
        <4> HIDE DEF a, last
        <4> QED BY <2>2, <2>4, <2>8, <3>2, <3>3
      <3>5. entry[a(1)].d_name \in Names
        BY <2>4 DEF IInv, RootInv, At
      <3>6. entry'[a(1)].d_name \in Names
        <4> HIDE DEF a, last
        <4> QED BY <2>1, <2>4, <2>8, <3>5
      <3>7. entry'[a(0)] \in {NoEntry, [d_name |-> ".", d_inode |-> rootdir]}
        BY <2>8, <3>1
      <3>8. n # 1
        BY <2>3, <2>4
      <3> QED BY <2>1, <2>3, <2>9, <2>11, <3>4, <3>6, <3>7, <3>8 DEF RootInv, At
    <2>17. Reachable'
      <3>1. /\ {entry[a(l)].d_inode : l \in Named} = InUse \ {rootdir}
            /\ \A l, m \in Named : l # m => /\ entry[a(l)].d_inode # entry[a(m)].d_inode
                                           /\ entry[a(l)].d_name # entry[a(m)].d_name
        BY DEF IInv, Reachable, At
      <3>2. Named = {l \in Links : entry[a(l)].d_name \in Names}
        BY DEF Named, At
      <3>3. Named' = {l \in Links : entry'[a(l)].d_name \in Names}
        BY <2>11 DEF Named, At
      <3>4. entry[a(k)].d_inode = i
        BY DEF i, At
      <3>5. entry'[a(0)].d_name \notin Names /\ entry[a(0)].d_name \notin Names /\ NoEntry.d_name \notin Names
        <4>1. entry[a(0)].d_name \in {"", "."}
          BY DotLemma DEF At
        <4>2. NoEntry.d_name = ""
          BY DEF NoEntry
        <4> QED BY <2>8, <4>1, <4>2, NameFacts
      <3> HIDE DEF a, last
      <3>6. /\ {entry'[a(l)].d_inode : l \in Named'} = {entry[a(l)].d_inode : l \in Named \ {k}}
            /\ \A l, m \in Named' : l # m => /\ entry'[a(l)].d_inode # entry'[a(m)].d_inode
                                            /\ entry'[a(l)].d_name # entry'[a(m)].d_name
        <4>1. CASE k = last \/ last \notin Named
          <5>1. Named' = Named \ {k}
            BY <2>2, <2>4, <2>8, <3>2, <3>3, <3>5, <4>1
          <5>2. \A l \in Named' : entry'[a(l)] = entry[a(l)]
            BY <2>2, <2>4, <2>8, <3>2, <3>3, <3>5, <4>1
          <5> QED BY <3>1, <5>1, <5>2
        <4>2. CASE k # last /\ last \in Named
          <5>1. Named' = Named \ {last}
            BY <2>2, <2>4, <2>8, <3>2, <3>3, <3>5, <4>2
          <5>2. /\ entry'[a(k)] = entry[a(last)]
                /\ \A l \in Named \ {last, k} : entry'[a(l)] = entry[a(l)]
            BY <2>2, <2>4, <2>8, <3>2, <3>3, <3>5, <4>2
          <5>3. {entry'[a(l)].d_inode : l \in Named'} = {entry[a(l)].d_inode : l \in Named \ {k}}
            BY <2>2, <4>2, <5>1, <5>2
          <5> QED BY <2>2, <3>1, <4>2, <5>1, <5>2, <5>3
        <4> QED BY <4>1, <4>2
      <3>7. {entry[a(l)].d_inode : l \in Named \ {k}} = InUse' \ {rootdir}
        BY <2>2, <2>10, <3>1, <3>4
      <3>8. /\ {entry'[DirEntryAddress(l, Root')].d_inode : l \in Named'} = InUse' \ {rootdir}
            /\ \A l, m \in Named' : l # m =>
                 /\ entry'[DirEntryAddress(l, Root')].d_inode # entry'[DirEntryAddress(m, Root')].d_inode
                 /\ entry'[DirEntryAddress(l, Root')].d_name # entry'[DirEntryAddress(m, Root')].d_name
        BY <2>11, <3>6, <3>7
      <3> QED BY <2>1, <3>8 DEF Reachable, At
    <2>18. ParentEntry'
      <3> SUFFICES ASSUME NEW j \in InUse' \ {rootdir}
                   PROVE  entry'[DirEntryAddress(1, inode'[j])] = [d_name |-> "..", d_inode |-> rootdir]
        BY <2>1 DEF ParentEntry
      <3>1. j \in InUse \ {rootdir} /\ j \in INodes \ {i}
        BY <2>10 DEF InUse
      <3> DEFINE c == inode[j].block
      <3>2. inode'[j] = inode[j] /\ c \in BlocksInUse /\ c \in DataBlocks
        BY <2>3, <2>9, <3>1 DEF InUse, BlocksInUse
      <3>3. c # b /\ c # Root.block
        BY <2>5, <2>6, <3>1 DEF IInv, OwnBlock, Root
      <3>4. DirEntryAddress(1, inode[j]) = <<c, 0>>
        <4>1. 1 \in LinkRange
          BY Sizes DEF LinkRange
        <4> QED BY <3>2, <4>1, AddressLemma DEF LinkRange
      <3>5. entry[<<c, 0>>] = [d_name |-> "..", d_inode |-> rootdir]
        BY <3>1, <3>4 DEF IInv, ParentEntry
      <3> QED BY <2>8, <3>2, <3>3, <3>4, <3>5
    <2>19. OpenOnce'
      <3>1. /\ \A j, m \in DOMAIN open : j # m => open[j].ino # open[m].ino
            /\ \A m \in DOMAIN open : ~open[m].removed =>
                  open[m].ino \in InUse /\ open[m].block = inode[open[m].ino].block
        BY DEF IInv, OpenOnce
      <3>2. \A j \in InUse \ {i} : inode'[j].block = inode[j].block /\ j \in InUse'
        BY <2>9, <2>10 DEF InUse
      <3> QED BY <2>14, <3>1, <3>2 DEF OpenOnce
    <2> QED BY <2>12, <2>13, <2>15, <2>16, <2>17, <2>18, <2>19 DEF IInv
  <1> QED BY <1>1, <1>2

-----------------------------------------------------------------------------
(* openDir: the copy is that of a directory in use, or of the root.        *)
LEMMA OpenStep == ASSUME NEW name \in Names \cup {"."} PROVE IInv /\ openDir(name) => IInv'
  <1> SUFFICES ASSUME IInv, openDir(name) PROVE IInv'
    OBVIOUS
  <1> DEFINE k == fileExists(name)
             i == At(k).d_inode
             Files == [ino : INodes, block : DataBlocks, removed : BOOLEAN]
             new == [ino |-> i, block |-> inode[i].block, removed |-> FALSE]
  <1>1. UNCHANGED disk /\ open \in Seq(Files)
    BY DEF openDir, IInv, TypeOK
  <1>2. InUse' = InUse /\ inode' = inode
    BY <1>1 DEF disk, InUse
  <1>3. /\ \A j, m \in DOMAIN open : j # m => open[j].ino # open[m].ino
        /\ \A m \in DOMAIN open : ~open[m].removed =>
              open[m].ino \in InUse /\ open[m].block = inode[open[m].ino].block
    BY DEF IInv, OpenOnce
  <1>4. CASE open' = open
    <2>1. OpenOnce'
      BY <1>2, <1>3, <1>4, Zenon DEF OpenOnce
    <2> QED BY <1>1, <1>4, <2>1, DiskStays
  <1>5. CASE open' # open
    <2>1. k # -1 /\ ~isOpen(i) /\ open' = Append(open, new)
      BY <1>5, Zenon DEF openDir, addOpenFile
    <2>2. i \in InUse
      <3>1. CASE name \in Names
        BY <2>1, <3>1, NamedLemma
      <3>2. CASE name = "."
        <4>1. Root.nlinks \in Nat
          <5>1. Root.nlinks \in 1 .. MaxLinks
            BY Zenon DEF IInv, RootInv
          <5> QED BY <5>1, Sizes
        <4>2. k \in Links /\ At(k).d_name = "."
          BY <2>1, <3>2, <4>1, FoundLemma
        <4>3. k = 0
          <5>1. \A l \in Links \ {0} : At(l).d_name \in Names \cup {""}
            BY Zenon DEF IInv, RootInv
          <5> QED BY <4>2, <5>1, NameFacts
        <4>4. At(0) # NoEntry
          <5>1. At(0).d_name = "."
            BY <4>2, <4>3, Zenon
          <5>2. NoEntry.d_name = ""
            BY DEF NoEntry
          <5>3. "" # "."
            OBVIOUS
          <5> QED BY <5>1, <5>2, <5>3, Zenon
        <4>5. At(0) = [d_name |-> ".", d_inode |-> rootdir]
          BY <4>4, Zenon DEF IInv, RootInv
        <4>6. rootdir \in InUse
          <5>1. rootdir \in INodes /\ Root.block \in DataBlocks
            BY Zenon DEF IInv, RootInv
          <5> QED BY <5>1, Sizes DEF InUse, Root, DataBlocks
        <4> QED BY <4>3, <4>5, <4>6
      <3> QED BY <3>1, <3>2
    <2>3. i \in INodes /\ inode[i].block \in DataBlocks
      BY <2>2 DEF IInv, TypeOK, InUse
    <2>4. new \in Files /\ new.ino = i /\ new.block = inode[i].block /\ new.removed = FALSE
      BY <2>3
    <2>5. \A j \in DOMAIN open : open[j].ino # i
      BY <2>1 DEF isOpen
    <2> HIDE DEF new, i, Files
    <2>6. /\ open' \in Seq(Files) /\ Len(open') = Len(open) + 1 /\ Len(open) \in Nat
          /\ open'[Len(open) + 1] = new /\ \A j \in 1 .. Len(open) : open'[j] = open[j]
      BY <1>1, <2>1, <2>4
    <2>7. DOMAIN open = 1 .. Len(open) /\ DOMAIN open' = 1 .. Len(open) + 1
      BY <1>1, <2>6, LenProperties
    <2>8. \A j \in DOMAIN open' : IF j \in DOMAIN open THEN open'[j] = open[j] ELSE open'[j] = new
      BY <2>6, <2>7
    <2>9. \A j, m \in DOMAIN open' : j # m => open'[j].ino # open'[m].ino
      <3>1. \A j, m \in DOMAIN open' : j \notin DOMAIN open /\ m \notin DOMAIN open => j = m
        BY <2>6, <2>7
      <3> QED BY <1>3, <2>4, <2>5, <2>8, <3>1
    <2>10. \A m \in DOMAIN open' : ~open'[m].removed =>
             open'[m].ino \in InUse /\ open'[m].block = inode[open'[m].ino].block
      BY <1>3, <2>2, <2>4, <2>8
    <2>11. OpenOnce'
      BY <1>2, <2>9, <2>10, Zenon DEF OpenOnce
    <2> QED BY <1>1, <2>6, <2>11, DiskStays DEF Files
  <1> QED BY <1>4, <1>5

LEMMA InitIInv == Kept /\ Init => IInv
  <1> SUFFICES ASSUME Kept, Init PROVE IInv
    OBVIOUS
  <1> DEFINE blocks == Cached(DataBlocks)
             inodes == Cached(INodes)
             root == [block |-> Head(blocks), nlinks |-> 1]
             dot == [d_name |-> ".", d_inode |-> rootdir]
  <1>1. /\ freeblocks = Tail(blocks) /\ freeinodes = Tail(inodes)
        /\ nfreeblocks = TOTALBLOCKS - FirstData - 1
        /\ nfreeinodes = INODETABLESIZE - 1
        /\ rootdir = Head(inodes) /\ open = <<>>
        /\ inode = [i \in INodes |-> IF i = rootdir THEN root ELSE nullINode]
        /\ entry = [a \in Address |-> IF a = DirEntryAddress(0, root) THEN dot ELSE NoEntry]
    BY DEF Init
  <1>2. /\ IsFiniteSet(DataBlocks) /\ Cardinality(DataBlocks) = TOTALBLOCKS - FirstData
        /\ DataBlocks \in SUBSET Int /\ \A c \in DataBlocks : c # 0
        /\ IsFiniteSet(INodes) /\ Cardinality(INodes) = INODETABLESIZE /\ INodes \in SUBSET Int
    <2>1. IsFiniteSet(DataBlocks) /\ Cardinality(DataBlocks) = TOTALBLOCKS - FirstData
      BY Sizes, FS_Interval DEF DataBlocks
    <2>2. IsFiniteSet(INodes) /\ Cardinality(INodes) = INODETABLESIZE
      BY Sizes, FS_Interval DEF INodes
    <2>3. DataBlocks \in SUBSET Int /\ (\A c \in DataBlocks : c # 0) /\ INodes \in SUBSET Int
      BY Sizes DEF DataBlocks, INodes
    <2> QED BY <2>1, <2>2, <2>3
  <1>3. /\ blocks \in Seq(DataBlocks) /\ Once(blocks) /\ blocks # <<>>
        /\ nfreeblocks # 0 => Tail(blocks) # <<>>
    <2>1. FirstData <= TOTALBLOCKS - 1 /\ (nfreeblocks # 0 => FirstData < TOTALBLOCKS - 1)
      BY <1>1, Sizes
    <2> QED BY <1>2, <2>1, Sizes, CachedLemma, CachedInterval DEF DataBlocks
  <1>4. inodes \in Seq(INodes) /\ Once(inodes) /\ inodes # <<>>
    BY <1>2, Sizes, CachedLemma, CachedInterval DEF INodes
  <1> HIDE DEF blocks, inodes
  <1>5. /\ freeblocks \in Seq(DataBlocks) /\ Once(freeblocks) /\ Head(blocks) \in DataBlocks
        /\ \A j \in 1 .. Len(freeblocks) : freeblocks[j] # Head(blocks)
    <2>1. Head(blocks) \notin Members(freeblocks)
      BY <1>1, <1>3, TailLemma
    <2> QED BY <1>1, <1>3, <2>1, TailLemma DEF Members
  <1>6. /\ freeinodes \in Seq(INodes) /\ Once(freeinodes) /\ rootdir \in INodes
        /\ \A j \in 1 .. Len(freeinodes) : freeinodes[j] # rootdir
    <2>1. rootdir \notin Members(freeinodes)
      BY <1>1, <1>4, TailLemma
    <2> QED BY <1>1, <1>4, <2>1, TailLemma DEF Members
  <1>7. /\ root.block = Head(blocks) /\ root.nlinks = 1 /\ Root = root
        /\ root \in [block : {0} \cup DataBlocks, nlinks : 0 .. MaxLinks]
        /\ nullINode \in [block : {0} \cup DataBlocks, nlinks : 0 .. MaxLinks]
    BY <1>1, <1>5, <1>6, Sizes DEF Root, nullINode
  <1> HIDE DEF root
  <1>8. inode \in [INodes -> [block : {0} \cup DataBlocks, nlinks : 0 .. MaxLinks]]
    BY <1>1, <1>7
  <1>9. InUse = {rootdir} /\ BlocksInUse = {Head(blocks)}
    <2>1. InUse = {rootdir}
      BY <1>1, <1>2, <1>5, <1>6, <1>7 DEF InUse, nullINode
    <2> QED BY <1>1, <1>6, <1>7, <2>1 DEF BlocksInUse
  <1>10. Links = {0} /\ 0 \in LinkRange
    BY <1>7, Sizes DEF Links, LinkRange
  <1>11. At(0) = dot
    <2>1. DirEntryAddress(0, root) \in Address
      BY <1>5, <1>7, <1>10, AddressLemma DEF LinkRange
    <2> QED BY <1>1, <1>7, <2>1 DEF At
  <1>12. NoEntry \in Entries /\ dot \in Entries
    BY <1>6, Sizes DEF NoEntry, Entries, INodes
  <1>13. FreeCount
    <2>1. Cardinality(DataBlocks \ {Head(blocks)}) = TOTALBLOCKS - FirstData - 1
      BY <1>2, <1>5, FS_RemoveElement
    <2>2. Cardinality(INodes \ {rootdir}) = INODETABLESIZE - 1
      BY <1>2, <1>6, FS_RemoveElement
    <2> QED BY <1>1, <1>9, <2>1, <2>2 DEF FreeCount
  <1>14. TypeOK
    <2>1. nfreeblocks \in 0 .. Cardinality(DataBlocks) /\ nfreeinodes \in INodes
      BY <1>1, <1>2, Sizes DEF INodes
    <2>2. entry \in [Address -> Entries]
      BY <1>1, <1>12
    <2>3. open \in Seq([ino : INodes, block : DataBlocks, removed : BOOLEAN])
      BY <1>1, EmptySeq
    <2> QED BY <1>5, <1>6, <1>8, <2>1, <2>2, <2>3, Zenon DEF TypeOK, Entries
  <1>15. RootInv
    <2>1. Root.nlinks = 1 /\ Root.block \in DataBlocks /\ Root.nlinks \in 1 .. MaxLinks /\ ~(Root.nlinks > 1)
      BY <1>5, <1>7, Sizes
    <2> QED BY <1>1, <1>3, <1>6, <1>10, <1>11, <2>1, Zenon DEF RootInv
  <1>16. OwnBlock /\ CacheInv
    <2>1. DOMAIN freeblocks = 1 .. Len(freeblocks) /\ DOMAIN freeinodes = 1 .. Len(freeinodes)
      BY <1>5, <1>6, LenProperties
    <2> QED BY <1>5, <1>6, <1>9, <2>1 DEF OwnBlock, CacheInv
  <1>17. Reachable
    <2>1. Named = {}
      <3>1. At(0).d_name \notin Names
        <4>1. dot.d_name = "."
          OBVIOUS
        <4> HIDE DEF dot
        <4> QED BY <1>11, <4>1, NameFacts, Zenon
      <3> QED BY <1>10, <3>1, Zenon DEF Named
    <2> QED BY <1>9, <2>1 DEF Reachable
  <1>18. ParentEntry
    BY <1>9 DEF ParentEntry
  <1>19. OpenOnce
    BY <1>1 DEF OpenOnce
  <1> QED BY <1>13, <1>14, <1>15, <1>16, <1>17, <1>18, <1>19 DEF IInv

LEMMA SpecIInv == ASSUME Kept PROVE Spec => []IInv
  <1>1. Init => IInv
    BY InitIInv
  <1>2. IInv /\ [Next]_vars => IInv'
    BY MakeStep, RemoveStep, OpenStep, StutterLemma DEF Next
  <1> QED BY <1>1, <1>2, PTL DEF Spec

-----------------------------------------------------------------------------
(* The entries, inodes, caches and counters keep their types; the counts   *)
(* stay between none and all.                                              *)
THEOREM TypeAlways == ASSUME Kept PROVE Spec => []TypeOK
  <1>1. IInv => TypeOK
    BY DEF IInv
  <1> QED BY <1>1, SpecIInv, PTL

(* makeDir never hands out a block that belongs to a directory, however    *)
(* often the caches are emptied and filled again.                          *)
THEOREM OwnBlockAlways == ASSUME Kept PROVE Spec => []OwnBlock
  <1>1. IInv => OwnBlock
    BY DEF IInv
  <1> QED BY <1>1, SpecIInv, PTL

(* The superblock's counts are the numbers of free blocks and inodes.      *)
THEOREM FreeCountAlways == ASSUME Kept PROVE Spec => []FreeCount
  <1>1. IInv => FreeCount
    BY DEF IInv
  <1> QED BY <1>1, SpecIInv, PTL

(* Removing a directory loses no other and leaves no name behind.          *)
THEOREM ReachableAlways == ASSUME Kept PROVE Spec => []Reachable
  <1>1. IInv => Reachable
    BY DEF IInv
  <1> QED BY <1>1, SpecIInv, PTL

(* Every directory keeps its way to its parent.                            *)
THEOREM ParentEntryAlways == ASSUME Kept PROVE Spec => []ParentEntry
  <1>1. IInv => ParentEntry
    BY DEF IInv
  <1> QED BY <1>1, SpecIInv, PTL

(* A directory is open once, with the block it has on the device until it  *)
(* is removed.                                                             *)
THEOREM OpenOnceAlways == ASSUME Kept PROVE Spec => []OpenOnce
  <1>1. IInv => OpenOnce
    BY DEF IInv
  <1> QED BY <1>1, SpecIInv, PTL
================================================================================
