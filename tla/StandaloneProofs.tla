-------------------------- MODULE StandaloneProofs --------------------------
(***************************************************************************)
(* Proofs about four programs that share nothing: the memory pool, the     *)
(* parallel convolution, the token bucket and the timer thread of Time.    *)
(*                                                                         *)
(* For any block size, page size and number of pages the free list of      *)
(* FixedSizePool is intact and its blocks are apart.  The parallel         *)
(* convolution is the sequential one for every input and kernel, whatever  *)
(* the tasks' order and whichever of them are started.  A full bucket is   *)
(* noticed for any producers, consumers and demands.  A timer runs no more *)
(* often than it was started, and not after a stop that came in time, for  *)
(* any timers and timeouts.                                                *)
(***************************************************************************)
EXTENDS FixedSizePool, Convolution, TokenBucket, TimerThread, TLAPS

-----------------------------------------------------------------------------
(* FixedSizePool *)

\* Offsets of different blocks of a page are different.
LEMMA Multiples ==
  ASSUME NEW s \in Nat \ {0}, NEW i \in Nat, NEW j \in Nat, i * s = j * s
  PROVE  i = j
<1>1. CASE i < j
  <2>1. PICK d \in Nat \ {0} : j = i + d
    <3>1. j - i \in Nat \ {0} /\ j = i + (j - i)
      BY <1>1, SMT
    <3>. QED  BY <3>1, Zenon
  <2>2. j * s = i * s + d * s
    BY <2>1, SMT
  <2>3. d * s > 0
    BY SMT
  <2>. QED  BY <2>2, <2>3, SMT
<1>2. CASE j < i
  <2>1. PICK d \in Nat \ {0} : i = j + d
    <3>1. i - j \in Nat \ {0} /\ i = j + (i - j)
      BY <1>2, SMT
    <3>. QED  BY <3>1, Zenon
  <2>2. i * s = j * s + d * s
    BY <2>1, SMT
  <2>3. d * s > 0
    BY SMT
  <2>. QED  BY <2>2, <2>3, SMT
<1>. QED  BY <1>1, <1>2

\* The block before the i-th one.
LEMMA Predecessor ==
  ASSUME NEW s \in Nat \ {0}, NEW i \in Nat \ {0}
  PROVE  /\ i * s # 0
         /\ i * s - s = (i - 1) * s
         /\ i * s - s \in Nat
<1>1. PICK k \in Nat : i = k + 1
  <2>. WITNESS i - 1 \in Nat
  <2>. QED  OBVIOUS
<1>2. i * s = k * s + s
  BY <1>1, SMT
<1>3. k * s \in Nat
  BY SMT
<1>. QED  BY <1>1, <1>2, <1>3, SMT

\* More blocks take more bytes.
LEMMA Monotone ==
  ASSUME NEW s \in Nat, NEW i \in Nat, NEW j \in Nat, i <= j
  PROVE  i * s <= j * s
<1>1. PICK d \in Nat : j = i + d
  <2>1. j - i \in Nat /\ j = i + (j - i)
    BY SMT
  <2>. QED  BY <2>1, Zenon
<1>2. j * s = i * s + d * s /\ d * s \in Nat /\ i * s \in Nat
  BY <1>1, SMT
<1>. QED  BY <1>2, SMT

\* Division with remainder, and what it leaves of a multiple.
LEMMA DivMod ==
  ASSUME NEW n \in Nat, NEW s \in Nat \ {0}
  PROVE  /\ n \div s \in Nat /\ n % s \in 0 .. s - 1
         /\ n = s * (n \div s) + (n % s)
<1>1. n % s \in 0 .. s - 1
  BY SMT
<1>2. n \div s \in Nat
  BY SMT
<1>3. n = s * (n \div s) + (n % s)
  BY SMT
<1>. QED  BY <1>1, <1>2, <1>3

\* A multiple leaves no remainder.
LEMMA NoRemainder ==
  ASSUME NEW k \in Nat, NEW s \in Nat \ {0}
  PROVE  (k * s) % s = 0
<1>. DEFINE r == (k * s) % s
            q == (k * s) \div s
<1>1. k * s \in Nat
  BY SMT
<1>2. q \in Nat /\ r \in 0 .. s - 1 /\ k * s = s * q + r
  BY <1>1, DivMod
<1>. HIDE DEF r, q
<1>3. CASE k <= q
  BY <1>2, <1>3, SMT
<1>4. CASE k > q
  <2>1. PICK d \in Nat \ {0} : k = q + d
    <3>1. k - q \in Nat \ {0} /\ k = q + (k - q)
      BY <1>2, <1>4
    <3>. QED  BY <3>1, Zenon
  <2>2. k * s = s * q + d * s
    BY <1>2, <2>1, SMT
  <2>3. d * s = r
    BY <1>2, <2>2, SMT
  <2>4. d * s >= s
    BY <2>1, SMT
  <2>. QED  BY <1>2, <2>3, <2>4
<1>. QED  BY <1>2, <1>3, <1>4 DEF r

-----------------------------------------------------------------------------
\* What adjust_block_size returns: room for the size asked for and for a
\* pointer, a multiple of the pointer's size, and not too much for a page.
LEMMA AdjustedSize ==
  ASSUME NEW n \in Requested
  PROVE  /\ AdjustBlockSize(n) \in Nat
         /\ n <= AdjustBlockSize(n) /\ PointerSize <= AdjustBlockSize(n)
         /\ \E k \in Nat : AdjustBlockSize(n) = k * PointerSize
         /\ AdjustBlockSize(n) * PerPage < Wrap
<1>. DEFINE k == IF n < PointerSize THEN PointerSize ELSE n
            m == k + PointerSize - 1
<1>1. k \in Nat /\ k >= n /\ k >= PointerSize /\ k \in Requested \cup {PointerSize}
  BY PoolAssumption
<1>2. m \in Nat /\ m = k + PointerSize - 1
  BY <1>1, PoolAssumption
<1>3. (k + PointerSize) * PerPage < Wrap
  BY <1>1, PoolAssumption, Zenon
<1>4. (k + PointerSize) * PerPage >= k + PointerSize
  <2>. HIDE DEF k
  <2>. QED  BY <1>1, PoolAssumption, SMT
<1>5. m < Wrap
  <2>1. (k + PointerSize) * PerPage \in Nat
    <3>. HIDE DEF k
    <3>. QED  BY <1>1, PoolAssumption, SMT
  <2>. HIDE DEF k
  <2>. QED  BY <1>1, <1>2, <1>3, <1>4, <2>1, PoolAssumption, SMT
<1>6. m % Wrap = m
  <2>. HIDE DEF m
  <2>. QED  BY <1>2, <1>5, PoolAssumption, SMT
<1>7. m % PointerSize \in 0 .. PointerSize - 1
  <2>. HIDE DEF m
  <2>. QED  BY <1>2, PoolAssumption, SMT
<1>8. AdjustBlockSize(n) = m - (m % PointerSize)
  BY <1>6 DEF AdjustBlockSize, AlignUp
<1>. DEFINE q == m % PointerSize
<1>9. q \in 0 .. PointerSize - 1 /\ AdjustBlockSize(n) = m - q
  BY <1>7, <1>8
<1>10. AdjustBlockSize(n) = (m \div PointerSize) * PointerSize
       /\ m \div PointerSize \in Nat
  <2>1. /\ m \div PointerSize \in Nat
        /\ m = PointerSize * (m \div PointerSize) + q
    <3>. HIDE DEF m
    <3>. QED  BY <1>2, DivMod, PoolAssumption
  <2>. DEFINE d == m \div PointerSize
  <2>. HIDE DEF d, q, m, k
  <2>. QED  BY <1>2, <1>9, <2>1, PoolAssumption, SMT DEF d
<1>. HIDE DEF q, m, k
<1>11. /\ AdjustBlockSize(n) \in Nat /\ AdjustBlockSize(n) <= k + PointerSize
       /\ n <= AdjustBlockSize(n) /\ PointerSize <= AdjustBlockSize(n)
  BY <1>1, <1>2, <1>9, PoolAssumption, SMT
<1>12. AdjustBlockSize(n) * PerPage <= (k + PointerSize) * PerPage
  BY <1>1, <1>11, Monotone, PoolAssumption
<1>13. AdjustBlockSize(n) * PerPage < Wrap
  <2>1. AdjustBlockSize(n) * PerPage \in Nat /\ (k + PointerSize) * PerPage \in Nat
    BY <1>1, <1>11, PoolAssumption, SMT
  <2>. QED  BY <1>3, <1>12, <2>1, PoolAssumption, SMT
<1>. QED  BY <1>10, <1>11, <1>13

-----------------------------------------------------------------------------
PoolInv == PoolTypeOK /\ blockSize > 0 /\ ListIsIntact

\* What expand() leaves behind: the blocks of the new page, linked from the
\* last one to the first one.
LEMMA Expansion ==
  ASSUME PoolTypeOK, blockSize > 0, header = Null, NEW p, p = pages + 1
  PROVE  /\ Cut(p) \cap Block = {}
         /\ \A i \in 1 .. PerPage : Expanded(p)[i] \in Cut(p)
         /\ \A i, j \in 1 .. PerPage : Expanded(p)[i] = Expanded(p)[j] => i = j
         /\ \A b \in Cut(p) : \E i \in 1 .. PerPage : b = Expanded(p)[i]
         /\ LastOf(p) = Expanded(p)[1]
         /\ DOMAIN Linked(p) = Block \cup Cut(p)
         /\ \A b \in Block : Linked(p)[b] = next[b]
         /\ \A i \in 1 .. PerPage :
              Linked(p)[Expanded(p)[i]]
                = IF i = PerPage THEN Null ELSE Expanded(p)[i + 1]
<1>. USE PoolAssumption
<1>1. blockSize \in Nat \ {0} /\ pages \in Nat /\ DOMAIN next = Block
  BY DEF PoolTypeOK
<1>2. \A b \in Block : b[1] # p
  <2>. SUFFICES ASSUME NEW q \in 1 .. pages, NEW b \in Cut(q) PROVE b[1] # p
    BY DEF Block
  <2>. QED  BY <1>1 DEF Cut
<1>3. Cut(p) \cap Block = {}
  BY <1>2 DEF Cut
<1>4. \A i \in 1 .. PerPage :
        Expanded(p)[i] = <<p, (PerPage - i) * blockSize>>
  BY DEF Expanded
<1>5. \A i \in 1 .. PerPage : Expanded(p)[i] \in Cut(p)
  <2>. SUFFICES ASSUME NEW i \in 1 .. PerPage PROVE Expanded(p)[i] \in Cut(p)
    OBVIOUS
  <2>1. PerPage - i \in 0 .. PerPage - 1
    BY SMT
  <2>. QED  BY <1>4, <2>1, Zenon DEF Cut
<1>6. \A i, j \in 1 .. PerPage : Expanded(p)[i] = Expanded(p)[j] => i = j
  <2>. SUFFICES ASSUME NEW i \in 1 .. PerPage, NEW j \in 1 .. PerPage,
                       Expanded(p)[i] = Expanded(p)[j]
                PROVE  i = j
    OBVIOUS
  <2>1. (PerPage - i) * blockSize = (PerPage - j) * blockSize
    BY <1>4
  <2>2. PerPage - i \in Nat /\ PerPage - j \in Nat
    BY SMT
  <2>3. PerPage - i = PerPage - j
    BY <1>1, <2>1, <2>2, Multiples
  <2>. QED  BY <2>3, SMT
<1>7. \A b \in Cut(p) : \E i \in 1 .. PerPage : b = Expanded(p)[i]
  <2>. SUFFICES ASSUME NEW k \in 0 .. PerPage - 1
                PROVE  \E i \in 1 .. PerPage :
                         <<p, k * blockSize>> = Expanded(p)[i]
    BY DEF Cut
  <2>1. PerPage - k \in 1 .. PerPage /\ PerPage - (PerPage - k) = k
    BY SMT
  <2>. QED  BY <1>4, <2>1
<1>8. LastOf(p) = Expanded(p)[1]
  BY <1>4 DEF LastOf
<1>9. DOMAIN Linked(p) = Block \cup Cut(p)
  BY <1>1 DEF Linked
<1>10. \A b \in Block : Linked(p)[b] = next[b]
  BY <1>1, <1>3 DEF Linked
<1>11. ASSUME NEW i \in 1 .. PerPage
       PROVE  Linked(p)[Expanded(p)[i]]
                = IF i = PerPage THEN Null ELSE Expanded(p)[i + 1]
  <2>. DEFINE b == Expanded(p)[i]
  <2>1. b \in Cut(p) /\ b[2] = (PerPage - i) * blockSize
    BY <1>4, <1>5
  <2>2. Linked(p)[b] = IF b[2] = 0 THEN Null ELSE <<p, b[2] - blockSize>>
    BY <2>1 DEF Linked
  <2>3. CASE i = PerPage
    <3>1. b[2] = 0
      BY <1>1, <2>1, <2>3, SMT
    <3>. QED  BY <2>2, <2>3, <3>1
  <2>4. CASE i # PerPage
    <3>1. PerPage - i \in Nat \ {0} /\ (PerPage - i) - 1 = PerPage - (i + 1)
      BY <2>4, SMT
    <3>2. /\ (PerPage - i) * blockSize # 0
          /\ (PerPage - i) * blockSize - blockSize
               = (PerPage - (i + 1)) * blockSize
      BY <1>1, <3>1, Predecessor
    <3>3. i + 1 \in 1 .. PerPage
      BY <2>4, SMT
    <3>. QED  BY <1>4, <2>1, <2>2, <2>4, <3>2, <3>3
  <2>. QED  BY <2>3, <2>4
<1>. QED  BY <1>3, <1>5, <1>6, <1>7, <1>8, <1>9, <1>10, <1>11

\* A new pool has no block and an empty list.
LEMMA InitPoolInv == PoolInit => PoolInv
<1>. SUFFICES ASSUME PoolInit PROVE PoolInv
  OBVIOUS
<1>1. /\ requested \in Requested /\ blockSize = AdjustBlockSize(requested)
      /\ pages = 0 /\ header = Null /\ next = <<>> /\ live = {} /\ chain = <<>>
  BY DEF PoolInit
<1>2. blockSize \in Nat /\ blockSize > 0
  BY <1>1, AdjustedSize, PoolAssumption
<1>3. Block = {}
  BY <1>1 DEF Block
<1>4. next \in [{} -> {Null, Junk}]
  BY <1>1
<1>5. PoolTypeOK
  BY <1>1, <1>2, <1>3, <1>4 DEF PoolTypeOK
<1>6. ListIsIntact
  BY <1>1, <1>3 DEF ListIsIntact, ToSet
<1>. QED  BY <1>2, <1>5, <1>6 DEF PoolInv

\* The list and the blocks handed out, with ToSet expanded.
LEMMA ListFacts ==
  ASSUME PoolInv
  PROVE  /\ header = IF chain = <<>> THEN Null ELSE chain[1]
         /\ \A i \in 1 .. Len(chain) :
              /\ chain[i] \in Block \ live
              /\ next[chain[i]] = IF i = Len(chain) THEN Null ELSE chain[i + 1]
         /\ \A i, j \in 1 .. Len(chain) : chain[i] = chain[j] => i = j
         /\ \A b \in Block \ live : \E i \in 1 .. Len(chain) : b = chain[i]
         /\ Null \notin Block
<1>1. DOMAIN chain = 1 .. Len(chain)
  BY DEF PoolInv, PoolTypeOK
<1>2. ToSet(chain) = {chain[i] : i \in 1 .. Len(chain)}
  BY <1>1 DEF ToSet
<1>3. Null \notin Block
  <2>1. Block \subseteq Nat \X Nat
    <3>. SUFFICES ASSUME NEW p \in 1 .. pages, NEW i \in 0 .. PerPage - 1
                  PROVE  <<p, i * blockSize>> \in Nat \X Nat
      BY DEF Block, Cut
    <3>1. p \in Nat /\ i \in Nat /\ blockSize \in Nat
      BY PoolAssumption DEF PoolInv, PoolTypeOK
    <3>2. i * blockSize \in Nat
      BY <3>1, SMT
    <3>. QED  BY <3>1, <3>2
  <2>. QED  BY <2>1, PoolAssumption
<1>. QED  BY <1>2, <1>3 DEF PoolInv, ListIsIntact

\* How the parts of the invariant are put together again.
LEMMA Intact ==
  ASSUME chain' \in Seq(Block'),
         header' = IF chain' = <<>> THEN Null ELSE chain'[1],
         \A i \in 1 .. Len(chain') :
           /\ chain'[i] \in Block' \ live'
           /\ next'[chain'[i]]
                = IF i = Len(chain') THEN Null ELSE chain'[i + 1],
         \A i, j \in 1 .. Len(chain') : chain'[i] = chain'[j] => i = j,
         \A b \in Block' \ live' : \E i \in 1 .. Len(chain') : b = chain'[i]
  PROVE  ListIsIntact'
<1>1. DOMAIN chain' = 1 .. Len(chain')
  OBVIOUS
<1>2. ToSet(chain)' = {chain'[i] : i \in 1 .. Len(chain')}
  BY <1>1 DEF ToSet
<1>3. ToSet(chain)' = Block' \ live'
  BY <1>2
<1>. QED  BY <1>3 DEF ListIsIntact

\* Taking the head off the list leaves a list of the others.
LEMMA AllocateFreeInv == PoolInv /\ AllocateFree => PoolInv'
<1>. SUFFICES ASSUME PoolInv, AllocateFree PROVE PoolInv'
  OBVIOUS
<1>1. /\ header # Null /\ header' = next[header] /\ live' = live \cup {header}
      /\ chain' = Tail(chain) /\ next' = next /\ Block' = Block
      /\ requested' = requested /\ blockSize' = blockSize /\ pages' = pages
  BY DEF AllocateFree, Block, Cut
<1>2. chain # <<>> /\ chain \in Seq(Block) /\ header = chain[1]
  BY <1>1, ListFacts DEF PoolInv, PoolTypeOK
<1>3. Len(chain) \in Nat \ {0} /\ Len(chain') = Len(chain) - 1
  BY <1>1, <1>2
<1>4. \A i \in 1 .. Len(chain') : chain'[i] = chain[i + 1] /\ i + 1 \in 1 .. Len(chain)
  BY <1>1, <1>2, <1>3
<1>5. chain' \in Seq(Block')
  BY <1>1, <1>2
<1>6. header' = IF chain' = <<>> THEN Null ELSE chain'[1]
  <2>1. next[chain[1]] = IF Len(chain) = 1 THEN Null ELSE chain[2]
    BY <1>3, ListFacts
  <2>2. CASE Len(chain) = 1
    <3>1. chain' = <<>>
      BY <1>3, <1>5, <2>2
    <3>. QED  BY <1>1, <1>2, <2>1, <2>2, <3>1
  <2>3. CASE Len(chain) # 1
    <3>1. 1 \in 1 .. Len(chain') /\ 1 + 1 = 2
      BY <1>3, <2>3
    <3>2. chain' # <<>> /\ chain'[1] = chain[2]
      BY <1>4, <3>1
    <3>. QED  BY <1>1, <1>2, <2>1, <2>3, <3>2
  <2>. QED  BY <2>2, <2>3
<1>7. ASSUME NEW i \in 1 .. Len(chain')
      PROVE  /\ chain'[i] \in Block' \ live'
             /\ next'[chain'[i]]
                  = IF i = Len(chain') THEN Null ELSE chain'[i + 1]
  <2>1. chain'[i] = chain[i + 1] /\ i + 1 \in 1 .. Len(chain) /\ i + 1 # 1
    BY <1>4
  <2>2. chain[i + 1] \in Block \ live /\ chain[i + 1] # chain[1]
    BY <1>3, <2>1, ListFacts
  <2>3. next[chain[i + 1]] = IF i + 1 = Len(chain) THEN Null ELSE chain[(i + 1) + 1]
    BY <2>1, ListFacts
  <2>4. i # Len(chain') => chain'[i + 1] = chain[(i + 1) + 1]
    BY <1>3, <1>4
  <2>5. i + 1 = Len(chain) <=> i = Len(chain')
    BY <1>3
  <2>6. chain'[i] \in Block' \ live'
    BY <1>1, <1>2, <2>1, <2>2
  <2>7. next'[chain'[i]] = IF i = Len(chain') THEN Null ELSE chain'[i + 1]
    BY <1>1, <2>1, <2>3, <2>4, <2>5, Zenon
  <2>. QED  BY <2>6, <2>7
<1>8. \A i, j \in 1 .. Len(chain') : chain'[i] = chain'[j] => i = j
  <2>. SUFFICES ASSUME NEW i \in 1 .. Len(chain'), NEW j \in 1 .. Len(chain'),
                       chain'[i] = chain'[j]
                PROVE  i = j
    OBVIOUS
  <2>1. i + 1 = j + 1
    BY <1>4, ListFacts
  <2>. QED  BY <2>1
<1>9. ASSUME NEW b \in Block' \ live'
      PROVE  \E i \in 1 .. Len(chain') : b = chain'[i]
  <2>1. PICK k \in 1 .. Len(chain) : b = chain[k]
    BY <1>1, ListFacts
  <2>2. k # 1
    BY <1>1, <1>2, <2>1
  <2>3. k - 1 \in 1 .. Len(chain') /\ (k - 1) + 1 = k
    BY <1>3, <2>2
  <2>. QED  BY <1>4, <2>1, <2>3
<1>10. ListIsIntact'
  BY <1>5, <1>6, <1>7, <1>8, <1>9, Intact
<1>11. PoolTypeOK'
  <2>1. header' \in Block \cup {Null}
    <3>1. CASE chain' = <<>>
      BY <1>6, <3>1
    <3>2. CASE chain' # <<>>
      BY <1>1, <1>5, <1>6, <3>2
    <3>. QED  BY <3>1, <3>2
  <2>2. header \in Block
    BY <1>1 DEF PoolInv, PoolTypeOK
  <2>. QED  BY <1>1, <1>5, <2>1, <2>2 DEF PoolInv, PoolTypeOK
<1>. QED  BY <1>1, <1>10, <1>11 DEF PoolInv

\* What a user writes to his block is on no block of the list.
LEMMA WriteInv == ASSUME NEW b \in live, PoolInv, WriteBlock(b) PROVE PoolInv'
<1>1. /\ next' = [next EXCEPT ![b] = Junk] /\ Block' = Block
      /\ header' = header /\ live' = live /\ chain' = chain
      /\ requested' = requested /\ blockSize' = blockSize /\ pages' = pages
  BY DEF WriteBlock, Block, Cut
<1>2. next \in [Block -> Block \cup {Null, Junk}] /\ chain \in Seq(Block)
  BY DEF PoolInv, PoolTypeOK
<1>3. \A c \in Block \ live : next'[c] = next[c]
  BY <1>1, <1>2
<1>4. ListIsIntact'
  BY <1>1, <1>2, <1>3, ListFacts, Intact
<1>5. PoolTypeOK'
  BY <1>1, <1>2 DEF PoolInv, PoolTypeOK
<1>. QED  BY <1>1, <1>4, <1>5 DEF PoolInv

\* A block given back becomes the head of the list.
LEMMA DeallocateInv == ASSUME NEW b \in live, PoolInv, Deallocate(b) PROVE PoolInv'
<1>1. /\ next' = [next EXCEPT ![b] = header] /\ Block' = Block
      /\ header' = b /\ live' = live \ {b} /\ chain' = <<b>> \o chain
      /\ requested' = requested /\ blockSize' = blockSize /\ pages' = pages
  BY DEF Deallocate, Block, Cut
<1>2. /\ next \in [Block -> Block \cup {Null, Junk}] /\ chain \in Seq(Block)
      /\ header \in Block \cup {Null} /\ live \subseteq Block /\ b \in Block
  BY DEF PoolInv, PoolTypeOK
<1>3. /\ chain' \in Seq(Block') /\ Len(chain') = Len(chain) + 1
      /\ Len(chain) \in Nat /\ chain' # <<>> /\ chain'[1] = b
      /\ \A i \in 1 .. Len(chain) : chain'[i + 1] = chain[i]
  BY <1>1, <1>2
<1>4. \A i \in 2 .. Len(chain') :
        i - 1 \in 1 .. Len(chain) /\ chain'[i] = chain[i - 1]
  <2>. SUFFICES ASSUME NEW i \in 2 .. Len(chain')
                PROVE  i - 1 \in 1 .. Len(chain) /\ chain'[i] = chain[i - 1]
    OBVIOUS
  <2>1. i - 1 \in 1 .. Len(chain) /\ (i - 1) + 1 = i
    BY <1>3
  <2>. QED  BY <1>3, <2>1
<1>5. ASSUME NEW i \in 1 .. Len(chain')
      PROVE  /\ chain'[i] \in Block' \ live'
             /\ next'[chain'[i]]
                  = IF i = Len(chain') THEN Null ELSE chain'[i + 1]
  <2>1. CASE i = 1
    <3>1. next'[b] = header
      BY <1>1, <1>2
    <3>2. CASE chain = <<>>
      BY <1>1, <1>2, <1>3, <2>1, <3>1, <3>2, ListFacts
    <3>3. CASE chain # <<>>
      <4>1. Len(chain) # 0 /\ chain'[1 + 1] = chain[1] /\ 1 # Len(chain')
        BY <1>2, <1>3, <3>3
      <4>. QED  BY <1>1, <1>2, <1>3, <2>1, <3>1, <3>3, <4>1, ListFacts
    <3>. QED  BY <3>2, <3>3
  <2>2. CASE i # 1
    <3>1. i \in 2 .. Len(chain')
      BY <1>3, <2>2
    <3>2. i - 1 \in 1 .. Len(chain) /\ chain'[i] = chain[i - 1]
      BY <1>4, <3>1
    <3>3. chain[i - 1] \in Block \ live /\ chain[i - 1] # b
      BY <3>2, ListFacts
    <3>4. next'[chain[i - 1]] = next[chain[i - 1]]
      BY <1>1, <1>2, <3>3
    <3>5. next[chain[i - 1]]
            = IF i - 1 = Len(chain) THEN Null ELSE chain[(i - 1) + 1]
      BY <3>2, ListFacts
    <3>6. i - 1 = Len(chain) <=> i = Len(chain')
      BY <1>3
    <3>7. i # Len(chain') => chain'[i + 1] = chain[(i - 1) + 1]
      <4>. SUFFICES ASSUME i # Len(chain') PROVE chain'[i + 1] = chain[(i - 1) + 1]
        OBVIOUS
      <4>1. i + 1 \in 2 .. Len(chain') /\ (i + 1) - 1 = (i - 1) + 1
        BY <1>3
      <4>. QED  BY <1>4, <4>1
    <3>. QED  BY <1>1, <3>2, <3>3, <3>4, <3>5, <3>6, <3>7, Zenon
  <2>. QED  BY <2>1, <2>2
<1>6. \A i, j \in 1 .. Len(chain') : chain'[i] = chain'[j] => i = j
  <2>. SUFFICES ASSUME NEW i \in 1 .. Len(chain'), NEW j \in 1 .. Len(chain'),
                       chain'[i] = chain'[j]
                PROVE  i = j
    OBVIOUS
  <2>1. \A k \in 2 .. Len(chain') : chain'[k] # b
    BY <1>4, ListFacts
  <2>2. i = 1 \/ i \in 2 .. Len(chain')
    BY <1>3
  <2>3. j = 1 \/ j \in 2 .. Len(chain')
    BY <1>3
  <2>4. CASE i \in 2 .. Len(chain') /\ j \in 2 .. Len(chain')
    <3>1. i - 1 = j - 1
      BY <1>4, <2>4, ListFacts
    <3>. QED  BY <2>4, <3>1
  <2>. QED  BY <1>3, <2>1, <2>2, <2>3, <2>4
<1>7. ASSUME NEW c \in Block' \ live'
      PROVE  \E i \in 1 .. Len(chain') : c = chain'[i]
  <2>1. CASE c = b
    <3>1. 1 \in 1 .. Len(chain')
      BY <1>3
    <3>. QED  BY <1>3, <2>1, <3>1
  <2>2. CASE c # b
    <3>1. PICK k \in 1 .. Len(chain) : c = chain[k]
      BY <1>1, <2>2, ListFacts
    <3>2. k + 1 \in 1 .. Len(chain')
      BY <1>3
    <3>. QED  BY <1>3, <3>1, <3>2
  <2>. QED  BY <2>1, <2>2
<1>8. ListIsIntact'
  BY <1>1, <1>3, <1>5, <1>6, <1>7, Intact
<1>9. PoolTypeOK'
  BY <1>1, <1>2, <1>3 DEF PoolInv, PoolTypeOK
<1>. QED  BY <1>1, <1>8, <1>9 DEF PoolInv

\* A new page is linked into a list, whose head is handed out.
LEMMA AllocateNewInv == PoolInv /\ AllocateNew => PoolInv'
<1>. SUFFICES ASSUME PoolInv, AllocateNew PROVE PoolInv'
  OBVIOUS
<1>. DEFINE p == pages + 1
            new == Expanded(p)
<1>1. /\ header = Null /\ pages' = p /\ next' = Linked(p)
      /\ header' = next'[LastOf(p)] /\ live' = live \cup {LastOf(p)}
      /\ chain' = Tail(new) \o chain
      /\ requested' = requested /\ blockSize' = blockSize
  BY DEF AllocateNew
<1>2. /\ pages \in Nat /\ PerPage \in Nat \ {0} /\ chain \in Seq(Block)
      /\ next \in [Block -> Block \cup {Null, Junk}] /\ live \subseteq Block
  BY PoolAssumption DEF PoolInv, PoolTypeOK
<1>3. /\ Cut(p) \cap Block = {}
      /\ \A i \in 1 .. PerPage : new[i] \in Cut(p)
      /\ \A i, j \in 1 .. PerPage : new[i] = new[j] => i = j
      /\ \A b \in Cut(p) : \E i \in 1 .. PerPage : b = new[i]
      /\ LastOf(p) = new[1]
      /\ DOMAIN Linked(p) = Block \cup Cut(p)
      /\ \A b \in Block : Linked(p)[b] = next[b]
      /\ \A i \in 1 .. PerPage :
           Linked(p)[new[i]] = IF i = PerPage THEN Null ELSE new[i + 1]
  BY <1>1, Expansion DEF PoolInv
<1>4. Block' = Block \cup Cut(p)
  <2>1. \A q : Cut(q)' = Cut(q)
    BY <1>1 DEF Cut
  <2>2. 1 .. p = (1 .. pages) \cup {p}
    BY <1>2
  <2>3. Block' = UNION {Cut(q) : q \in 1 .. p}
    BY <1>1, <2>1 DEF Block
  <2>. QED  BY <2>2, <2>3 DEF Block
<1>5. chain = <<>>
  <2>. SUFFICES ASSUME chain # <<>> PROVE FALSE
    OBVIOUS
  <2>1. header = chain[1] /\ 1 \in 1 .. Len(chain)
    BY <1>2, ListFacts
  <2>. QED  BY <1>1, <2>1, ListFacts
<1>6. new \in Seq(Block') /\ Len(new) = PerPage
  <2>1. new = [i \in 1 .. PerPage |-> new[i]]
    BY DEF Expanded
  <2>2. \A i \in 1 .. PerPage : new[i] \in Block'
    BY <1>3, <1>4
  <2>. HIDE DEF new
  <2>. QED  BY <1>2, <2>1, <2>2
<1>. HIDE DEF new
<1>7. chain' = Tail(new)
  BY <1>1, <1>2, <1>5, <1>6
<1>8. chain' \in Seq(Block') /\ Len(chain') = PerPage - 1
  BY <1>2, <1>6, <1>7
<1>9. \A i \in 1 .. Len(chain') : chain'[i] = new[i + 1] /\ i + 1 \in 2 .. PerPage
  BY <1>2, <1>6, <1>7, <1>8
<1>10. live' = Block \cup {new[1]}
  <2>1. Len(chain) = 0
    BY <1>5
  <2>2. Block \ live = {}
    BY <2>1, ListFacts
  <2>. QED  BY <1>1, <1>2, <1>3, <2>2
<1>11. 1 \in 1 .. PerPage
  BY <1>2
<1>12. header' = IF chain' = <<>> THEN Null ELSE chain'[1]
  <2>1. header' = IF 1 = PerPage THEN Null ELSE new[1 + 1]
    BY <1>1, <1>3, <1>11
  <2>2. CASE PerPage = 1
    BY <1>8, <2>1, <2>2
  <2>3. CASE PerPage # 1
    <3>1. 1 \in 1 .. Len(chain')
      BY <1>2, <1>8, <2>3
    <3>2. chain' # <<>> /\ chain'[1] = new[1 + 1]
      BY <1>9, <3>1
    <3>. QED  BY <2>1, <2>3, <3>2
  <2>. QED  BY <2>2, <2>3
<1>13. ASSUME NEW i \in 1 .. Len(chain')
       PROVE  /\ chain'[i] \in Block' \ live'
              /\ next'[chain'[i]]
                   = IF i = Len(chain') THEN Null ELSE chain'[i + 1]
  <2>1. chain'[i] = new[i + 1] /\ i + 1 \in 1 .. PerPage /\ i + 1 # 1
    BY <1>9
  <2>2. chain'[i] \in Cut(p) /\ chain'[i] # new[1]
    BY <1>3, <1>11, <2>1
  <2>3. next'[chain'[i]] = IF i + 1 = PerPage THEN Null ELSE new[(i + 1) + 1]
    BY <1>1, <1>3, <2>1
  <2>4. i + 1 = PerPage <=> i = Len(chain')
    BY <1>2, <1>8
  <2>5. i # Len(chain') => chain'[i + 1] = new[(i + 1) + 1]
    <3>. SUFFICES ASSUME i # Len(chain') PROVE chain'[i + 1] = new[(i + 1) + 1]
      OBVIOUS
    <3>1. i + 1 \in 1 .. Len(chain')
      BY <1>2, <1>8
    <3>. QED  BY <1>9, <3>1
  <2>6. chain'[i] \in Block' \ live'
    BY <1>3, <1>4, <1>10, <2>2
  <2>. QED  BY <2>3, <2>4, <2>5, <2>6, Zenon
<1>14. \A i, j \in 1 .. Len(chain') : chain'[i] = chain'[j] => i = j
  <2>. SUFFICES ASSUME NEW i \in 1 .. Len(chain'), NEW j \in 1 .. Len(chain'),
                       chain'[i] = chain'[j]
                PROVE  i = j
    OBVIOUS
  <2>1. i + 1 \in 1 .. PerPage /\ j + 1 \in 1 .. PerPage
    BY <1>9
  <2>2. i + 1 = j + 1
    BY <1>3, <1>9, <2>1
  <2>. QED  BY <2>2
<1>15. ASSUME NEW b \in Block' \ live'
       PROVE  \E i \in 1 .. Len(chain') : b = chain'[i]
  <2>1. b \in Cut(p) /\ b # new[1]
    BY <1>4, <1>10
  <2>2. PICK k \in 1 .. PerPage : b = new[k]
    BY <1>3, <2>1
  <2>3. k - 1 \in 1 .. Len(chain') /\ (k - 1) + 1 = k
    BY <1>2, <1>8, <2>1, <2>2
  <2>. QED  BY <1>9, <2>2, <2>3
<1>16. ListIsIntact'
  BY <1>8, <1>12, <1>13, <1>14, <1>15, Intact
<1>17. PoolTypeOK'
  <2>1. header' \in Block' \cup {Null}
    <3>1. CASE chain' = <<>>
      BY <1>12, <3>1
    <3>2. CASE chain' # <<>>
      BY <1>8, <1>12, <3>2
    <3>. QED  BY <3>1, <3>2
  <2>2. next' \in [Block' -> Block' \cup {Null, Junk}]
    <3>1. next' = [b \in Block' |-> next'[b]]
      BY <1>1, <1>3, <1>4 DEF Linked
    <3>2. \A b \in Block : next'[b] \in Block' \cup {Null, Junk}
      BY <1>1, <1>2, <1>3, <1>4
    <3>3. ASSUME NEW b \in Cut(p) PROVE next'[b] \in Block' \cup {Null, Junk}
      <4>1. PICK i \in 1 .. PerPage : b = new[i]
        BY <1>3
      <4>2. next'[b] = IF i = PerPage THEN Null ELSE new[i + 1]
        BY <1>1, <1>3, <4>1
      <4>3. i # PerPage => i + 1 \in 1 .. PerPage
        BY <1>2
      <4>. QED  BY <1>3, <1>4, <4>2, <4>3
    <3>. QED  BY <1>4, <3>1, <3>2, <3>3
  <2>3. live' \subseteq Block'
    BY <1>3, <1>4, <1>10, <1>11
  <2>4. pages' \in Nat
    BY <1>1, <1>2
  <2>. QED  BY <1>1, <1>8, <2>1, <2>2, <2>3, <2>4 DEF PoolInv, PoolTypeOK
<1>. QED  BY <1>1, <1>16, <1>17 DEF PoolInv

-----------------------------------------------------------------------------
\* The invariant holds in every behaviour.
THEOREM SpecPoolInv == PoolSpec => []PoolInv
<1>1. PoolInv /\ [PoolNext]_poolVars => PoolInv'
  <2>. SUFFICES ASSUME PoolInv, [PoolNext]_poolVars PROVE PoolInv'
    OBVIOUS
  <2>1. CASE AllocateFree
    BY <2>1, AllocateFreeInv
  <2>2. CASE AllocateNew
    BY <2>2, AllocateNewInv
  <2>3. ASSUME NEW b \in live, WriteBlock(b) PROVE PoolInv'
    BY <2>3, WriteInv
  <2>4. ASSUME NEW b \in live, Deallocate(b) PROVE PoolInv'
    BY <2>4, DeallocateInv
  <2>5. CASE UNCHANGED poolVars
    <3>1. Block' = Block
      BY <2>5 DEF poolVars, Block, Cut
    <3>2. ToSet(chain)' = ToSet(chain)
      BY <2>5 DEF poolVars, ToSet
    <3>3. PoolTypeOK' /\ ListIsIntact'
      BY <2>5, <3>1, <3>2 DEF poolVars, PoolInv, PoolTypeOK, ListIsIntact
    <3>. QED  BY <2>5, <3>3 DEF poolVars, PoolInv
  <2>. QED  BY <2>1, <2>2, <2>3, <2>4, <2>5 DEF PoolNext
<1>. QED  BY InitPoolInv, <1>1, PTL DEF PoolSpec

\* Type correctness: pointers of the list point to blocks.
THEOREM PoolTypeCorrect == PoolSpec => []PoolTypeOK
<1>1. PoolInv => PoolTypeOK
  BY DEF PoolInv
<1>. QED  BY SpecPoolInv, <1>1, PTL

\* The free list never loses, repeats or hands out twice a block, for every
\* block size, page size and sequence of calls (Fixed_size_pool.h:67-84).
THEOREM FreeListIntact == PoolSpec => []ListIsIntact
<1>1. PoolInv => ListIsIntact
  BY DEF PoolInv
<1>. QED  BY SpecPoolInv, <1>1, PTL

-----------------------------------------------------------------------------
\* The size of a block never changes.
SizeIsAdjusted == blockSize = AdjustBlockSize(requested)

\* The invariants give what BlocksAreApart says of any two blocks.
LEMMA Apart == PoolTypeOK /\ SizeIsAdjusted => BlocksAreApart
<1>. SUFFICES ASSUME PoolTypeOK, SizeIsAdjusted PROVE BlocksAreApart
  OBVIOUS
<1>1. /\ requested \in Requested /\ blockSize \in Nat /\ DOMAIN next = Block
      /\ PerPage \in Nat \ {0} /\ PointerSize \in Nat \ {0} /\ Wrap \in Nat
  BY PoolAssumption DEF PoolTypeOK
<1>2. PICK k \in Nat : blockSize = k * PointerSize
  BY <1>1, AdjustedSize DEF SizeIsAdjusted
<1>3. /\ requested <= blockSize /\ PointerSize <= blockSize
      /\ blockSize * PerPage < Wrap
  BY <1>1, AdjustedSize DEF SizeIsAdjusted
<1>4. (blockSize * PerPage) % Wrap = blockSize * PerPage
  <2>. DEFINE x == blockSize * PerPage
  <2>1. x \in Nat /\ x < Wrap
    BY <1>1, <1>3, SMT
  <2>. HIDE DEF x
  <2>2. x % Wrap = x
    BY <1>1, <2>1, SMT
  <2>. QED  BY <2>2 DEF x
<1>5. ASSUME NEW b \in Block
      PROVE  \E p \in 1 .. pages, i \in 0 .. PerPage - 1 :
               b = <<p, i * blockSize>>
  BY DEF Block, Cut
<1>6. ASSUME NEW i \in 0 .. PerPage - 1
      PROVE  /\ (i * blockSize) % PointerSize = 0
             /\ i * blockSize + blockSize <= (blockSize * PerPage) % Wrap
  <2>1. i \in Nat /\ i + 1 \in Nat /\ i + 1 <= PerPage
    BY <1>1
  <2>2. (i * k) * PointerSize = i * blockSize /\ i * k \in Nat
    BY <1>1, <1>2, <2>1, SMT
  <2>3. ((i * k) * PointerSize) % PointerSize = 0
    BY <1>1, <2>2, NoRemainder
  <2>4. (i + 1) * blockSize <= PerPage * blockSize
    BY <1>1, <2>1, Monotone
  <2>5. /\ (i + 1) * blockSize = i * blockSize + blockSize
        /\ PerPage * blockSize = blockSize * PerPage
    BY <1>1, <2>1, SMT
  <2>6. (i * blockSize) % PointerSize = 0
    BY <2>2, <2>3
  <2>. QED  BY <1>4, <2>4, <2>5, <2>6
<1>7. ASSUME NEW i \in 0 .. PerPage - 1, NEW j \in 0 .. PerPage - 1, i < j
      PROVE  i * blockSize + blockSize <= j * blockSize
  <2>1. i \in Nat /\ j \in Nat /\ i + 1 \in Nat /\ i + 1 <= j
    BY <1>1, <1>7
  <2>2. (i + 1) * blockSize <= j * blockSize
    BY <1>1, <2>1, Monotone
  <2>3. (i + 1) * blockSize = i * blockSize + blockSize
    BY <1>1, <2>1, SMT
  <2>. QED  BY <2>2, <2>3
<1>8. ASSUME NEW b \in Block, NEW c \in Block \ {b}
      PROVE  b[1] # c[1] \/ b[2] + blockSize <= c[2] \/ c[2] + blockSize <= b[2]
  <2>1. PICK p \in 1 .. pages, i \in 0 .. PerPage - 1 : b = <<p, i * blockSize>>
    BY <1>5
  <2>2. PICK q \in 1 .. pages, j \in 0 .. PerPage - 1 : c = <<q, j * blockSize>>
    BY <1>5
  <2>3. CASE p # q
    BY <2>1, <2>2, <2>3
  <2>4. CASE p = q
    <3>1. i # j
      BY <2>1, <2>2, <2>4
    <3>2. i < j \/ j < i
      BY <1>1, <3>1
    <3>3. CASE i < j
      BY <1>7, <2>1, <2>2, <3>3
    <3>4. CASE j < i
      BY <1>7, <2>1, <2>2, <3>4
    <3>. QED  BY <3>2, <3>3, <3>4
  <2>. QED  BY <2>3, <2>4
<1>9. ASSUME NEW b \in Block
      PROVE  b[2] % PointerSize = 0 /\ b[2] + blockSize <= (blockSize * PerPage) % Wrap
  <2>1. PICK p \in 1 .. pages, i \in 0 .. PerPage - 1 : b = <<p, i * blockSize>>
    BY <1>5
  <2>. QED  BY <1>6, <2>1
<1>. QED  BY <1>1, <1>3, <1>8, <1>9 DEF BlocksAreApart

\* However often and in whatever order blocks are taken and given back, no two
\* of them overlap, each lies within its page, is aligned, and has room for
\* what was asked for and for the link (Fixed_size_pool.h:8-11, 27-49).
THEOREM BlocksStayApart == PoolSpec => []BlocksAreApart
<1>1. PoolInit => SizeIsAdjusted
  BY DEF PoolInit, SizeIsAdjusted
<1>2. SizeIsAdjusted /\ [PoolNext]_poolVars => SizeIsAdjusted'
  <2>. SUFFICES ASSUME SizeIsAdjusted, [PoolNext]_poolVars PROVE SizeIsAdjusted'
    OBVIOUS
  <2>1. requested' = requested /\ blockSize' = blockSize
    BY DEF PoolNext, AllocateFree, AllocateNew, WriteBlock, Deallocate, poolVars
  <2>. QED  BY <2>1 DEF SizeIsAdjusted
<1>. QED  BY <1>1, <1>2, Apart, PoolTypeCorrect, PTL DEF PoolSpec

-----------------------------------------------------------------------------
(* Convolution *)

Arrays == {"output", "output1"}

InBlock(c, t) == /\ Rows(t).first <= c[1] /\ c[1] < Rows(t).end
                 /\ Cols(t).first <= c[2] /\ c[2] < Cols(t).end

\* The loops come to c before they come to d.
Before(c, d) == c[1] < d[1] \/ (c[1] = d[1] /\ c[2] < d[2])

ConvolutionTypeOK ==
  /\ size \in [input : Nat, kernel : Nat]
  /\ stage \in {"launch", "get", "single", "returned", "unwind", "thrown"}
  /\ count \in 0 .. 4
  /\ call \in [Caller -> {"none", "running", "ended"}]
  /\ at \in [Caller -> Int \X Int]
  /\ DOMAIN array = Arrays
  /\ \A a \in Arrays : array[a] = [c \in Cells |-> array[a][c]]

\* Where a call stands in its loops.
AtIsInLoops ==
  \A t \in Caller : call[t] # "none" =>
    /\ Rows(t).first <= at[t][1] /\ at[t][1] <= Rows(t).end
    /\ Cols(t).first <= at[t][2] /\ at[t][2] <= Cols(t).end
    /\ Cols(t).first < Cols(t).end => at[t][2] < Cols(t).end
    /\ call[t] = "ended" => ~(at[t][1] < Rows(t).end /\ at[t][2] < Cols(t).end)

\* What a call has left behind it is done.
BehindIsDone ==
  \A t \in Caller, c \in Cells :
    call[t] # "none" /\ InBlock(c, t) /\ Before(c, at[t])
      => array[Target(t)][c] = Sum(c)

\* What func does says which calls there are.
StageKnows ==
  /\ stage = "thrown" \/ OutputLen >= 0
  /\ stage = "launch" => \A t \in Task : call[t] = "none" <=> t > count
  /\ stage = "get" => \A t \in Task : /\ call[t] # "none"
                                      /\ t <= count => call[t] = "ended"
  /\ stage \in {"single", "returned"} =>
       /\ call[Single] # "none" /\ \A t \in Task : call[t] = "ended"
  /\ stage \in {"launch", "get", "unwind", "thrown"} => call[Single] = "none"
  /\ stage = "unwind" => \A t \in Task : t > count => call[t] # "running"
  /\ stage = "thrown" => \A t \in Task : call[t] # "running"
  /\ stage = "returned" => call[Single] = "ended"

Inv == ConvolutionTypeOK /\ AtIsInLoops /\ BehindIsDone /\ StageKnows

-----------------------------------------------------------------------------
\* The blocks of the tasks are apart and make up the output; so is, and does,
\* the block of the single call.
LEMMA BlocksPartition ==
  ASSUME size \in [input : Nat, kernel : Nat], OutputLen >= 0, NEW c \in Cells
  PROVE  /\ InBlock(c, Single)
         /\ \E t \in Task : InBlock(c, t)
         /\ \A t, u \in Task : InBlock(c, t) /\ InBlock(c, u) => t = u
<1>1. /\ OutputLen \in Nat /\ Half \in Nat /\ Half <= OutputLen
  BY DEF OutputLen, Half
<1>2. c[1] \in 0 .. OutputLen - 1 /\ c[2] \in 0 .. OutputLen - 1
  BY DEF Cells
<1> QED
  BY <1>1, <1>2 DEF InBlock, Rows, Cols, Task, Single

\* The loops stay within the output.
LEMMA BoundsAre ==
  ASSUME size \in [input : Nat, kernel : Nat], OutputLen >= 0, NEW t \in Caller
  PROVE  /\ Rows(t).first \in Nat /\ Rows(t).end \in Nat
         /\ Cols(t).first \in Nat /\ Cols(t).end \in Nat
         /\ Rows(t).first <= Rows(t).end /\ Rows(t).end <= OutputLen
         /\ Cols(t).first <= Cols(t).end /\ Cols(t).end <= OutputLen
         /\ Target(t) \in Arrays /\ OutputLen \in Nat
<1>1. /\ OutputLen \in Nat /\ Half \in Nat /\ Half <= OutputLen
  BY DEF OutputLen, Half
<1> QED
  BY <1>1 DEF Rows, Cols, Target, Arrays, Caller, Task, Single

\* A call that has ended has done its block.
LEMMA EndedIsDone ==
  ASSUME Inv, OutputLen >= 0, NEW t \in Caller, call[t] = "ended",
         NEW c \in Cells, InBlock(c, t)
  PROVE  array[Target(t)][c] = Sum(c)
<1>1. at[t] \in Int \X Int /\ c[1] \in Int /\ c[2] \in Int
  BY DEF Inv, ConvolutionTypeOK, Cells
<1>2. ~(at[t][1] < Rows(t).end /\ at[t][2] < Cols(t).end)
  BY DEF Inv, AtIsInLoops
<1>3. /\ at[t][1] <= Rows(t).end
      /\ Cols(t).first < Cols(t).end => at[t][2] < Cols(t).end
  BY DEF Inv, AtIsInLoops
<1>4. Before(c, at[t])
  BY <1>1, <1>2, <1>3, BoundsAre DEF InBlock, Before, Inv, ConvolutionTypeOK
<1> QED
  BY <1>4 DEF Inv, BehindIsDone

\* After the tasks are joined the output is whole.
LEMMA WholeWhenJoined ==
  ASSUME Inv, stage \in {"single", "returned"}
  PROVE  /\ array["output"] = [c \in Cells |-> Sum(c)]
         /\ stage = "returned" => array["output1"] = [c \in Cells |-> Sum(c)]
<1>1. OutputLen >= 0 /\ \A t \in Task : call[t] = "ended"
  BY DEF Inv, StageKnows
<1>2. size \in [input : Nat, kernel : Nat]
  BY DEF Inv, ConvolutionTypeOK
<1>3. ASSUME NEW c \in Cells
      PROVE  /\ array["output"][c] = Sum(c)
             /\ stage = "returned" => array["output1"][c] = Sum(c)
  <2>1. PICK t \in Task : InBlock(c, t)
    BY <1>1, <1>2, BlocksPartition
  <2>2. array["output"][c] = Sum(c)
    <3>1. t \in Caller /\ Target(t) = "output"
      BY DEF Caller, Target, Task, Single
    <3> QED
      BY <1>1, <2>1, <3>1, EndedIsDone
  <2>3. ASSUME stage = "returned" PROVE array["output1"][c] = Sum(c)
    <3>1. Single \in Caller /\ Target(Single) = "output1"
      BY DEF Caller, Target
    <3>2. InBlock(c, Single) /\ call[Single] = "ended"
      BY <1>1, <1>2, <2>3, BlocksPartition DEF Inv, StageKnows
    <3> QED
      BY <1>1, <3>1, <3>2, EndedIsDone
  <2> QED
    BY <2>2, <2>3
<1> QED
  BY <1>3 DEF Inv, ConvolutionTypeOK, Arrays

-----------------------------------------------------------------------------
\* No call has begun.
LEMMA InvInit == ConvolutionInit => Inv
<1> SUFFICES ASSUME ConvolutionInit PROVE Inv
  OBVIOUS
<1>1. ConvolutionTypeOK
  BY SizesAssumption DEF ConvolutionInit, ConvolutionTypeOK, Arrays
<1>2. AtIsInLoops /\ BehindIsDone
  BY DEF ConvolutionInit, AtIsInLoops, BehindIsDone
<1>3. StageKnows
  BY SizesAssumption DEF ConvolutionInit, StageKnows, OutputLen, Task, Caller, Single
<1> QED
  BY <1>1, <1>2, <1>3 DEF Inv

\* A call begins: it has done nothing yet.
LEMMA Begins ==
  ASSUME Inv, OutputLen >= 0, NEW t \in Caller, call[t] = "none", Begin(t),
         UNCHANGED <<size, array>>
  PROVE  /\ call' \in [Caller -> {"none", "running", "ended"}]
         /\ at' \in [Caller -> Int \X Int]
         /\ AtIsInLoops' /\ BehindIsDone'
<1>1. /\ size' = size /\ array' = array /\ Cells' = Cells
      /\ \A u \in Caller : Rows(u)' = Rows(u) /\ Cols(u)' = Cols(u)
      /\ \A c \in Cells : Sum(c)' = Sum(c)
  BY DEF Cells, Rows, Cols, OutputLen, Half, Sum
<1>2. size \in [input : Nat, kernel : Nat]
  BY DEF Inv, ConvolutionTypeOK
<1>3. /\ Rows(t).first \in Nat /\ Rows(t).end \in Nat
      /\ Cols(t).first \in Nat /\ Cols(t).end \in Nat
      /\ Rows(t).first <= Rows(t).end /\ Cols(t).first <= Cols(t).end
  BY <1>2, BoundsAre
<1>4. /\ call' \in [Caller -> {"none", "running", "ended"}]
      /\ at' \in [Caller -> Int \X Int]
      /\ call'[t] = "running" /\ at'[t] = <<Rows(t).first, Cols(t).first>>
      /\ \A u \in Caller : u # t => call'[u] = call[u] /\ at'[u] = at[u]
  BY <1>3 DEF Begin, Inv, ConvolutionTypeOK
<1>5. AtIsInLoops'
  BY <1>1, <1>3, <1>4 DEF Inv, AtIsInLoops
<1>6. BehindIsDone'
  <2> SUFFICES ASSUME NEW u \in Caller, NEW c \in Cells,
                      call'[u] # "none", InBlock(c, u), Before(c, at'[u])
               PROVE  array[Target(u)][c] = Sum(c)
    BY <1>1 DEF BehindIsDone, InBlock, Before, Target
  <2>1. CASE u = t
    BY <1>3, <1>4, <2>1 DEF InBlock, Before, Cells
  <2>2. CASE u # t
    BY <1>4, <2>2 DEF Inv, BehindIsDone
  <2> QED
    BY <2>1, <2>2
<1> QED
  BY <1>4, <1>5, <1>6

\* A call writes the next cell of its block, or ends behind the last one.
LEMMA InvConvBlock ==
  ASSUME Inv, NEW t \in Caller, ConvBlock(t)
  PROVE  Inv'
<1> DEFINE i == at[t][1]
           j == at[t][2]
<1>1. /\ size' = size /\ Cells' = Cells /\ OutputLen' = OutputLen
      /\ \A u \in Caller : Rows(u)' = Rows(u) /\ Cols(u)' = Cols(u)
      /\ \A c \in Cells : Sum(c)' = Sum(c)
      /\ UNCHANGED <<stage, count>>
  BY DEF ConvBlock, Cells, Rows, Cols, OutputLen, Half, Sum
<1>2. size \in [input : Nat, kernel : Nat] /\ at[t] \in Int \X Int
  BY DEF Inv, ConvolutionTypeOK
<1>3. call[t] = "running" /\ OutputLen >= 0
  BY DEF ConvBlock, Running, Inv, StageKnows, Caller
<1>4. /\ Rows(t).first \in Nat /\ Rows(t).end \in Nat
      /\ Cols(t).first \in Nat /\ Cols(t).end \in Nat
      /\ Rows(t).end <= OutputLen /\ Cols(t).end <= OutputLen
      /\ Target(t) \in Arrays /\ OutputLen \in Nat
  BY <1>2, <1>3, BoundsAre
<1>5. /\ Rows(t).first <= i /\ i <= Rows(t).end
      /\ Cols(t).first <= j /\ j <= Cols(t).end
      /\ Cols(t).first < Cols(t).end => j < Cols(t).end
  BY <1>3 DEF Inv, AtIsInLoops
<1>6. CASE t \in Writing
  <2>1. /\ i < Rows(t).end /\ j < Cols(t).end /\ at[t] \in Cells
    BY <1>2, <1>4, <1>5, <1>6 DEF Writing, Cells
  <2> DEFINE cell == IF j + 1 < Cols(t).end THEN <<i, j + 1>>
                     ELSE <<i + 1, Cols(t).first>>
  <2>2. /\ array' = [array EXCEPT ![Target(t)][at[t]] = Sum(at[t])]
        /\ at' = [at EXCEPT ![t] = cell] /\ call' = call
    BY <1>6 DEF ConvBlock
  <2>3. /\ cell \in Int \X Int
        /\ Rows(t).first <= cell[1] /\ cell[1] <= Rows(t).end
        /\ Cols(t).first <= cell[2] /\ cell[2] < Cols(t).end
    BY <1>2, <1>4, <1>5, <2>1
  <2>4. ASSUME NEW c \in Cells, InBlock(c, t), Before(c, cell)
        PROVE  c = at[t] \/ Before(c, at[t])
    <3>1. c = <<c[1], c[2]>> /\ c[1] \in Int /\ c[2] \in Int
      BY DEF Cells
    <3>2. at[t] = <<i, j>> /\ i \in Int /\ j \in Int
      BY <1>2
    <3>3. (c[1] = i /\ c[2] = j) \/ c[1] < i \/ (c[1] = i /\ c[2] < j)
      BY <1>4, <1>5, <2>1, <2>4, <3>1, <3>2 DEF InBlock, Before
    <3> QED
      BY <3>1, <3>2, <3>3 DEF Before
  <2> HIDE DEF cell
  <2>5. /\ at' \in [Caller -> Int \X Int] /\ at'[t] = cell
        /\ \A u \in Caller : u # t => at'[u] = at[u]
    BY <2>2, <2>3 DEF Inv, ConvolutionTypeOK
  <2>6. /\ DOMAIN array' = Arrays
        /\ \A a \in Arrays : array'[a] = [c \in Cells |-> array'[a][c]]
        /\ array'[Target(t)][at[t]] = Sum(at[t])
        /\ \A a \in Arrays, c \in Cells :
             array'[a][c] = array[a][c] \/ (c = at[t] /\ array'[a][c] = Sum(c))
    <3> DEFINE T == Target(t)
               new == [array[T] EXCEPT ![at[t]] = Sum(at[t])]
    <3>1. array' = [array EXCEPT ![T] = new]
      BY <2>2
    <3>2. /\ DOMAIN array = Arrays /\ T \in Arrays
          /\ \A a \in Arrays : array[a] = [c \in Cells |-> array[a][c]]
      BY <1>4 DEF Inv, ConvolutionTypeOK
    <3>3. DOMAIN array[T] = Cells
      <4>1. array[T] = [c \in Cells |-> array[T][c]]
        BY <3>2
      <4> QED
        BY <4>1
    <3>4. /\ new = [c \in Cells |-> new[c]] /\ new[at[t]] = Sum(at[t])
          /\ \A c \in Cells : c # at[t] => new[c] = array[T][c]
      BY <2>1, <3>3
    <3> HIDE DEF new, T
    <3>5. /\ DOMAIN array' = Arrays /\ array'[T] = new
          /\ \A a \in Arrays : a # T => array'[a] = array[a]
      BY <3>1, <3>2
    <3>6. \A a \in Arrays : array'[a] = [c \in Cells |-> array'[a][c]]
      <4> TAKE a \in Arrays
      <4>1. CASE a = T
        BY <3>4, <3>5, <4>1
      <4>2. CASE a # T
        <5>1. array[a] = [c \in Cells |-> array[a][c]] /\ array'[a] = array[a]
          BY <3>2, <3>5, <4>2
        <5> QED
          BY <5>1
      <4> QED
        BY <4>1, <4>2
    <3>7. array'[Target(t)][at[t]] = Sum(at[t])
      BY <3>4, <3>5 DEF T
    <3>8. \A a \in Arrays, c \in Cells :
            array'[a][c] = array[a][c] \/ (c = at[t] /\ array'[a][c] = Sum(c))
      BY <3>4, <3>5
    <3> QED
      BY <3>5, <3>6, <3>7, <3>8
  <2>7. ConvolutionTypeOK'
    BY <1>1, <2>2, <2>5, <2>6 DEF Inv, ConvolutionTypeOK
  <2>8. AtIsInLoops'
    <3> SUFFICES ASSUME NEW u \in Caller, call[u] # "none"
                 PROVE  /\ Rows(u).first <= at'[u][1] /\ at'[u][1] <= Rows(u).end
                        /\ Cols(u).first <= at'[u][2] /\ at'[u][2] <= Cols(u).end
                        /\ Cols(u).first < Cols(u).end => at'[u][2] < Cols(u).end
                        /\ call[u] = "ended" =>
                             ~(at'[u][1] < Rows(u).end /\ at'[u][2] < Cols(u).end)
      BY <1>1, <2>2 DEF AtIsInLoops
    <3>1. CASE u = t
      <4>1. cell[2] \in Int /\ call[u] # "ended" /\ at'[u] = cell
        BY <1>3, <2>3, <2>5, <3>1
      <4> QED
        BY <1>4, <2>3, <3>1, <4>1
    <3>2. CASE u # t
      <4>1. at'[u] = at[u]
        BY <2>5, <3>2
      <4> QED
        BY <4>1 DEF Inv, AtIsInLoops
    <3> QED
      BY <3>1, <3>2
  <2>9. BehindIsDone'
    <3> SUFFICES ASSUME NEW u \in Caller, NEW c \in Cells,
                        call[u] # "none", InBlock(c, u), Before(c, at'[u])
                 PROVE  array'[Target(u)][c] = Sum(c)
      BY <1>1, <2>2 DEF BehindIsDone, InBlock, Before, Target
    <3>1. Target(u) \in Arrays
      BY DEF Target, Arrays
    <3>2. CASE u # t \/ c # at[t]
      <4>1. Before(c, at[u])
        BY <2>4, <2>5, <3>2
      <4>2. array[Target(u)][c] = Sum(c)
        BY <4>1 DEF Inv, BehindIsDone
      <4> QED
        BY <2>6, <3>1, <4>2
    <3>3. CASE u = t /\ c = at[t]
      BY <2>6, <3>3
    <3> QED
      BY <3>2, <3>3
  <2>10. StageKnows'
    BY <1>1, <2>2 DEF Inv, StageKnows
  <2> QED
    BY <2>7, <2>8, <2>9, <2>10 DEF Inv
<1>7. CASE t \notin Writing
  <2>1. /\ call' = [call EXCEPT ![t] = "ended"] /\ array' = array /\ at' = at
        /\ ~(i < Rows(t).end /\ j < Cols(t).end)
    BY <1>3, <1>7 DEF ConvBlock, Writing, Running
  <2>2. /\ call' \in [Caller -> {"none", "running", "ended"}]
        /\ call'[t] = "ended" /\ \A u \in Caller : u # t => call'[u] = call[u]
    BY <2>1 DEF Inv, ConvolutionTypeOK
  <2>3. ConvolutionTypeOK'
    BY <1>1, <2>1, <2>2 DEF Inv, ConvolutionTypeOK
  <2>4. AtIsInLoops'
    BY <1>1, <1>3, <1>5, <2>1, <2>2 DEF Inv, AtIsInLoops
  <2>5. BehindIsDone'
    BY <1>1, <1>3, <2>1, <2>2 DEF Inv, BehindIsDone, InBlock, Before, Target
  <2>6. StageKnows'
    BY <1>1, <1>3, <2>2 DEF Inv, StageKnows, Caller, Task, Single
  <2> QED
    BY <2>3, <2>4, <2>5, <2>6 DEF Inv
<1> QED
  BY <1>6, <1>7

\* Steps of func that begin no call.
LEMMA InvFunc ==
  ASSUME Inv, UNCHANGED <<size, call, at, array>>,
         stage' \in {"launch", "get", "single", "returned", "unwind", "thrown"},
         count' \in 0 .. 4, StageKnows'
  PROVE  Inv'
<1>1. /\ size' = size /\ Cells' = Cells
      /\ \A u \in Caller : Rows(u)' = Rows(u) /\ Cols(u)' = Cols(u)
      /\ \A c \in Cells : Sum(c)' = Sum(c)
  BY DEF Cells, Rows, Cols, OutputLen, Half, Sum
<1>2. ConvolutionTypeOK'
  BY <1>1 DEF Inv, ConvolutionTypeOK
<1>3. AtIsInLoops'
  BY <1>1 DEF Inv, AtIsInLoops
<1>4. BehindIsDone'
  BY <1>1 DEF Inv, BehindIsDone, InBlock, Before, Target
<1> QED
  BY <1>2, <1>3, <1>4 DEF Inv

\* Every step keeps the invariant.
LEMMA InvNext == Inv /\ [ConvolutionNext]_convolutionVars => Inv'
<1> SUFFICES ASSUME Inv, [ConvolutionNext]_convolutionVars PROVE Inv'
  OBVIOUS
<1>1. count \in 0 .. 4 /\ StageKnows /\ ConvolutionTypeOK
  BY DEF Inv, ConvolutionTypeOK
<1>2. CASE Launch
  <2>1. stage = "launch" /\ count < 4 /\ UNCHANGED <<size, array>> /\ OutputLen' = OutputLen
    BY <1>2 DEF Launch, OutputLen
  <2>2. CASE Begin(count + 1) /\ count' = count + 1 /\ UNCHANGED stage
    <3>1. count + 1 \in Task /\ count + 1 \in Caller /\ count + 1 > count
      BY <1>1, <2>1 DEF Caller, Task
    <3>a. call[count + 1] = "none" /\ OutputLen >= 0
      BY <1>1, <2>1, <3>1 DEF StageKnows
    <3>2. /\ call' \in [Caller -> {"none", "running", "ended"}]
          /\ at' \in [Caller -> Int \X Int]
          /\ AtIsInLoops' /\ BehindIsDone'
      BY <2>1, <2>2, <3>1, <3>a, Begins
    <3>3. ConvolutionTypeOK'
      <4>1. Cells' = Cells /\ array' = array /\ size' = size
        BY <2>1 DEF Cells
      <4>2. count' \in 0 .. 4 /\ stage' = stage
        BY <1>1, <2>1, <2>2
      <4> QED
        BY <1>1, <3>2, <4>1, <4>2 DEF ConvolutionTypeOK
    <3>4. StageKnows'
      BY <1>1, <2>1, <2>2, <3>1, <3>a DEF StageKnows, ConvolutionTypeOK, Begin, Caller, Task, Single
    <3> QED
      BY <3>2, <3>3, <3>4 DEF Inv
  <2>3. CASE stage' = "unwind" /\ UNCHANGED <<call, at, count>>
    <3>1. StageKnows'
      BY <1>1, <2>1, <2>3 DEF StageKnows
    <3> QED
      BY <1>1, <2>1, <2>3, <3>1, InvFunc
  <2> QED
    BY <1>2, <2>2, <2>3 DEF Launch
<1>3. CASE Get
  <2>1. UNCHANGED <<size, array>> /\ OutputLen' = OutputLen
    BY <1>3 DEF Get, OutputLen
  <2>2. CASE /\ stage = "launch" /\ count = 4
             /\ stage' = "get" /\ count' = 0
             /\ UNCHANGED <<call, at>>
    <3>1. StageKnows'
      BY <1>1, <2>1, <2>2 DEF StageKnows, Task
    <3> QED
      BY <1>1, <2>1, <2>2, <3>1, InvFunc
  <2>3. CASE /\ stage = "get" /\ count < 4 /\ call[count + 1] = "ended"
             /\ count' = count + 1
             /\ UNCHANGED <<stage, call, at>>
    <3>1. StageKnows'
      BY <1>1, <2>1, <2>3 DEF StageKnows, Task
    <3> QED
      BY <1>1, <2>1, <2>3, <3>1, InvFunc
  <2>4. CASE /\ stage = "get" /\ count = 4
             /\ stage' = "single" /\ Begin(Single)
             /\ UNCHANGED count
    <3>1. Single \in Caller /\ call[Single] = "none" /\ OutputLen >= 0
      BY <1>1, <2>4 DEF StageKnows, Caller
    <3>2. /\ call' \in [Caller -> {"none", "running", "ended"}]
          /\ at' \in [Caller -> Int \X Int]
          /\ AtIsInLoops' /\ BehindIsDone'
      BY <2>1, <2>4, <3>1, Begins
    <3>3. ConvolutionTypeOK'
      BY <1>1, <2>1, <2>4, <3>2 DEF ConvolutionTypeOK, Cells, OutputLen
    <3>4. StageKnows'
      BY <1>1, <2>1, <2>4, <3>1 DEF StageKnows, ConvolutionTypeOK, Begin, Caller, Task, Single
    <3> QED
      BY <3>2, <3>3, <3>4 DEF Inv
  <2> QED
    BY <1>3, <2>2, <2>3, <2>4 DEF Get
<1>4. CASE Return
  <2>1. /\ stage = "single" /\ call[Single] = "ended" /\ stage' = "returned"
        /\ UNCHANGED <<size, count, call, at, array>> /\ OutputLen' = OutputLen
    BY <1>4 DEF Return, OutputLen
  <2>2. StageKnows'
    BY <1>1, <2>1 DEF StageKnows
  <2> QED
    BY <1>1, <2>1, <2>2, InvFunc
<1>5. CASE Unwind
  <2>1. /\ stage = "unwind" /\ UNCHANGED <<size, call, at, array>>
        /\ \/ count > 0 /\ call[count] = "ended" /\ count' = count - 1 /\ UNCHANGED stage
           \/ count = 0 /\ stage' = "thrown" /\ UNCHANGED count
        /\ OutputLen' = OutputLen
    BY <1>5 DEF Unwind, OutputLen
  <2>2. StageKnows'
    BY <1>1, <2>1 DEF StageKnows, Task
  <2> QED
    BY <1>1, <2>1, <2>2, InvFunc
<1>6. CASE UNCHANGED convolutionVars
  <2>1. UNCHANGED <<size, call, at, array, stage, count>> /\ OutputLen' = OutputLen
    BY <1>6 DEF convolutionVars, OutputLen
  <2>2. StageKnows'
    BY <1>1, <2>1 DEF StageKnows
  <2> QED
    BY <1>1, <2>1, <2>2, InvFunc DEF ConvolutionTypeOK
<1> QED
  BY <1>2, <1>3, <1>4, <1>5, <1>6, InvConvBlock DEF ConvolutionNext

-----------------------------------------------------------------------------
\* Writers of one array stand in blocks that are apart.
LEMMA InvImplies == Inv => ParallelIsSequential
<1> SUFFICES ASSUME Inv PROVE ParallelIsSequential
  OBVIOUS
<1>1. ASSUME NEW t \in Writing, NEW u \in Writing, t # u, Target(t) = Target(u)
      PROVE  at[t] # at[u]
  <2>1. /\ t \in Caller /\ u \in Caller /\ call[t] = "running" /\ call[u] = "running"
    BY DEF Writing, Running
  <2>2. t \in Task /\ u \in Task
    BY <1>1, <2>1 DEF Target, Caller, Task, Single
  <2>3. OutputLen >= 0 /\ size \in [input : Nat, kernel : Nat]
    BY <2>1, <2>2 DEF Inv, StageKnows, ConvolutionTypeOK
  <2>4. InBlock(at[t], t) /\ InBlock(at[u], u)
    BY <2>1 DEF Inv, AtIsInLoops, InBlock, Writing
  <2>5. at[t] \in Cells
    <3>1. at[t] \in Int \X Int
      BY <2>1 DEF Inv, ConvolutionTypeOK
    <3> QED
      BY <2>1, <2>3, <2>4, <3>1, BoundsAre DEF InBlock, Cells
  <2> QED
    BY <1>1, <2>2, <2>3, <2>4, <2>5, BlocksPartition
<1>2. /\ stage \in {"single", "returned"} => Running \subseteq {Single}
      /\ stage \in {"returned", "thrown"} => Running = {}
  BY DEF Inv, StageKnows, Running, Caller
<1> QED
  BY <1>1, <1>2, WholeWhenJoined DEF ParallelIsSequential

\* Whatever the sizes, the order of the tasks and the point at which one of
\* them cannot be started: the tasks compute what one call computes, never
\* write one cell both, and are over before func uses or frees the output
\* (matrix.h:61-80).
THEOREM ParallelConvolution == ConvolutionSpec => []ParallelIsSequential
<1>1. ConvolutionInit => Inv
  BY InvInit
<1>2. Inv /\ [ConvolutionNext]_convolutionVars => Inv'
  BY InvNext
<1> QED
  BY <1>1, <1>2, InvImplies, PTL DEF ConvolutionSpec

-----------------------------------------------------------------------------
(* TokenBucket *)

\* TypeOK is not inductive by itself: a consumer counts its rounds down after
\* the wait, so that it only waits while rounds are left has to be part of the
\* invariant.

\* A consumer inside consumetoken has a round left.
RoundsLeft == \A c \in Consumer :
                pc[c] \in {"enter", "waiting", "woken"} => left[c] > 0

IInv == TypeOK /\ RoundsLeft /\ FullIsNoticed

\* Nobody waits for an empty bucket at the start.
LEMMA InitIInv == Init => IInv
  BY BucketAssumption DEF Init, IInv, TypeOK, RoundsLeft, FullIsNoticed, Waiting

\* Adding a token keeps the invariant: whoever waits when the bucket becomes
\* full, somebody has been woken in the same step.
LEMMA AddKeepsIInv ==
  ASSUME IInv, NEW p \in Producer, AddTaken(p) PROVE IInv'
<1> USE BucketAssumption DEF IInv
<1>1. /\ tokens' \in 0 .. TakenMax
      /\ left' \in [Consumer -> Nat]
      /\ running' \in [Producer \cup Consumer -> BOOLEAN]
      /\ tried' \subseteq Tries
  BY DEF AddTaken, TypeOK
<1>2. CASE Waiting = {} /\ UNCHANGED pc
  <2>1. Waiting' = {}
    BY <1>2 DEF Waiting
  <2> QED
    BY <1>1, <1>2, <2>1 DEF TypeOK, RoundsLeft, FullIsNoticed, AddTaken
<1>3. CASE \E c \in Waiting : pc' = [pc EXCEPT ![c] = "woken"]
  <2>1. PICK c \in Waiting : pc' = [pc EXCEPT ![c] = "woken"]
    BY <1>3
  <2>2. c \in Consumer /\ pc[c] = "waiting"
    BY DEF Waiting
  <2>3. TypeOK' /\ pc'[c] = "woken"
    BY <1>1, <2>1, <2>2 DEF TypeOK
  <2>4. RoundsLeft'
    BY <2>1, <2>2 DEF RoundsLeft, AddTaken, TypeOK
  <2> QED
    BY <2>2, <2>3, <2>4 DEF FullIsNoticed
<1> QED
  BY <1>2, <1>3 DEF AddTaken, NotifyOne

\* A consumer that takes tokens leaves the bucket less than full, one that
\* finds too few of them has not found it full.
LEMMA ConsumeKeepsIInv ==
  ASSUME IInv, NEW c \in Consumer, Consume(c) PROVE IInv'
<1> USE BucketAssumption DEF IInv
<1>0. Demand[c] \in 1 .. TakenMax /\ left[c] \in Nat /\ tokens \in 0 .. TakenMax
  BY DEF TypeOK
<1>1. CASE ConsumerLoop(c)
  <2>1. pc[c] = "loop" /\ pc'[c] \in {"enter", "done"}
    BY <1>1 DEF ConsumerLoop, TypeOK
  <2>2. \A d \in Consumer : d # c => pc'[d] = pc[d]
    BY <1>1 DEF ConsumerLoop, TypeOK
  <2>3. TypeOK'
    BY <1>1 DEF ConsumerLoop, TypeOK
  <2>4. RoundsLeft'
    BY <1>0, <1>1, <2>2 DEF ConsumerLoop, RoundsLeft, TypeOK
  <2>5. FullIsNoticed'
    BY <1>1, <2>1, <2>2 DEF ConsumerLoop, FullIsNoticed, Waiting
  <2> QED
    BY <2>3, <2>4, <2>5
<1>2. CASE Take(c)
  <2>1. tokens' < TakenMax /\ tokens' \in 0 .. TakenMax
    BY <1>0, <1>2 DEF Take
  <2>2. left[c] > 0
    BY <1>2 DEF Take, RoundsLeft
  <2>3. TypeOK'
    BY <1>0, <1>2, <2>1, <2>2 DEF Take, TypeOK
  <2>4. RoundsLeft'
    BY <1>2 DEF Take, RoundsLeft, TypeOK
  <2>5. FullIsNoticed'
    BY <2>1 DEF FullIsNoticed
  <2> QED
    BY <2>3, <2>4, <2>5
<1>3. CASE Wait(c)
  <2>1. tokens' # TakenMax
    BY <1>0, <1>3 DEF Wait
  <2>2. TypeOK' /\ RoundsLeft'
    BY <1>3 DEF Wait, TypeOK, RoundsLeft
  <2> QED
    BY <2>1, <2>2 DEF FullIsNoticed
<1> QED
  BY <1>1, <1>2, <1>3 DEF Consume

\* No thread breaks the invariant.
LEMMA NextIInv == IInv /\ [Next]_vars => IInv'
<1> SUFFICES ASSUME IInv, [Next]_vars PROVE IInv'
  OBVIOUS
<1> USE BucketAssumption
<1>1. CASE \E p \in Producer : AddTaken(p)
  BY <1>1, AddKeepsIInv
<1>2. ASSUME NEW p \in Producer, ProducerEnds(p) PROVE IInv'
  <2>1. \A c \in Consumer : pc'[c] = pc[c]
    BY <1>2 DEF ProducerEnds, IInv, TypeOK
  <2> QED
    BY <1>2, <2>1
    DEF ProducerEnds, IInv, TypeOK, RoundsLeft, FullIsNoticed, Waiting
<1>3. CASE \E c \in Consumer : Consume(c)
  BY <1>3, ConsumeKeepsIInv
<1>4. ASSUME NEW c \in Consumer, SpuriousWakeup(c) PROVE IInv'
  BY <1>4 DEF SpuriousWakeup, IInv, TypeOK, RoundsLeft, FullIsNoticed, Waiting
<1>5. ASSUME NEW n \in Tries, TryConsume(n) PROVE IInv'
  <2>1. tokens' \in 0 .. TakenMax /\ (tokens' = TakenMax => tokens = TakenMax)
    BY <1>5 DEF TryConsume, IInv, TypeOK
  <2> QED
    BY <1>5, <2>1
    DEF TryConsume, IInv, TypeOK, RoundsLeft, FullIsNoticed, Waiting
<1>6. ASSUME NEW t \in Producer \cup Consumer, Stop(t) PROVE IInv'
  BY <1>6 DEF Stop, IInv, TypeOK, RoundsLeft, FullIsNoticed, Waiting
<1>7. CASE UNCHANGED vars
  BY <1>7 DEF vars, IInv, TypeOK, RoundsLeft, FullIsNoticed, Waiting
<1> QED
  BY <1>1, <1>2, <1>3, <1>4, <1>5, <1>6, <1>7 DEF Next

\* The inductive invariant holds in every behaviour.
THEOREM SpecIInv == Spec => []IInv
  BY InitIInv, NextIInv, PTL DEF Spec

\* The bucket never overflows and is never overdrawn, by any mix of waiting
\* and trying consumers.
THEOREM TypeCorrect == Spec => []TypeOK
<1>1. IInv => TypeOK
  BY DEF IInv
<1> QED
  BY <1>1, SpecIInv, PTL

\* A full bucket never has only sleeping consumers.
THEOREM NoticedWhenFull == Spec => []FullIsNoticed
<1>1. IInv => FullIsNoticed
  BY DEF IInv
<1> QED
  BY <1>1, SpecIInv, PTL

-----------------------------------------------------------------------------
(* TimerThread *)

\* What a timer that is stopped while the thread is past its look at
\* is_stopped is remembered by.
CaughtInWindow ==
  worker \in {"expired?", "pop"} /\ current \in stopped => current \in window

TimerInv == RunsPaidByStarts /\ CaughtInWindow

\* No timer is started at the start.
LEMMA InitTimerInv == TimerInit => TimerInv
<1> USE DelaysAssumption
<1> SUFFICES ASSUME TimerInit PROVE TimerInv
  OBVIOUS
<1>1. TimerTypeOK
  BY DEF TimerInit, TimerTypeOK
<1>2. ASSUME NEW t \in Timer PROVE entries[t] + OnItsWay(t) <= owed[t]
  <2>1. entries[t] = 0 /\ owed[t] = 0 /\ t \notin clearing \cup starting
    BY DEF TimerInit
  <2> QED
    BY <2>1 DEF OnItsWay
<1>3. CaughtInWindow
  BY DEF TimerInit, CaughtInWindow
<1> QED
  BY <1>1, <1>2, <1>3 DEF TimerInv, RunsPaidByStarts

\* The numbers of a timer.
LEMMA Balanced ==
  ASSUME TimerTypeOK, RunsPaidByStarts, NEW t \in Timer
  PROVE  /\ entries[t] \in Nat /\ owed[t] \in Nat /\ MaxEntries \in Nat
         /\ owed[t] <= MaxEntries
         /\ entries[t] + (IF t \in clearing \cup starting THEN 1 ELSE 0) <= owed[t]
  BY DelaysAssumption DEF TimerTypeOK, RunsPaidByStarts, OnItsWay

\* A start pays for the entry it puts on the heap, an entry for the callback
\* it is taken off for.
LEMMA NextTimerInv == TimerInv /\ [TimerNext]_timerVars => TimerInv'
<1> SUFFICES ASSUME TimerInv, [TimerNext]_timerVars PROVE TimerInv'
  OBVIOUS
<1> USE DelaysAssumption
<1>0. TimerTypeOK /\ RunsPaidByStarts /\ CaughtInWindow
  BY DEF TimerInv, RunsPaidByStarts
<1> DEFINE Due(t) == IF t \in clearing \cup starting THEN 1 ELSE 0
<1>a. ASSUME \A u \in Timer : entries'[u] + Due(u)' <= owed'[u], TimerTypeOK'
      PROVE  RunsPaidByStarts'
  BY <1>a DEF RunsPaidByStarts, OnItsWay
<1>1. ASSUME NEW t \in Timer, Start(t) PROVE TimerInv'
  <2>1. ASSUME NEW u \in Timer
        PROVE  entries'[u] + Due(u)' <= owed'[u] /\ owed'[u] \in 0 .. MaxEntries
    BY <1>0, <1>1, Balanced DEF Start, TimerTypeOK, heap
  <2>2. owed' = [u \in Timer |-> owed'[u]]
    BY <1>0, <1>1 DEF Start, TimerTypeOK
  <2>3. TimerTypeOK'
    BY <1>0, <1>1, <2>1, <2>2 DEF Start, TimerTypeOK, Queued, heap, thread
  <2>4. CaughtInWindow'
    BY <1>0, <1>1 DEF Start, CaughtInWindow, thread
  <2> QED
    BY <1>a, <2>1, <2>3, <2>4 DEF TimerInv
<1>b. ASSUME NEW t \in Timer, NEW d \in Delays, SetExpiry(t, d) PROVE TimerInv'
  <2>1. ASSUME NEW u \in Timer PROVE entries'[u] + Due(u)' <= owed'[u]
    BY <1>0, <1>b, Balanced DEF SetExpiry
  <2>2. d \in Int
    OBVIOUS
  <2>3. TimerTypeOK'
    BY <1>0, <1>b, <2>2 DEF SetExpiry, TimerTypeOK, Queued, thread
  <2>4. CaughtInWindow'
    BY <1>0, <1>b DEF SetExpiry, CaughtInWindow, thread
  <2> QED
    BY <1>a, <2>1, <2>3, <2>4 DEF TimerInv
<1>2. ASSUME NEW t \in Timer, AddTimer(t) PROVE TimerInv'
  <2>1. ASSUME NEW u \in Timer
        PROVE  entries'[u] + Due(u)' <= owed'[u] /\ entries'[u] \in 0 .. MaxEntries
    BY <1>0, <1>2, Balanced DEF AddTimer, TimerTypeOK
  <2>2. worker' \notin {"stopped?", "expired?", "pop"}
    BY <1>2 DEF AddTimer, Notified, MutexHeld
  <2>3. entries' = [u \in Timer |-> entries'[u]]
    BY <1>0, <1>2 DEF AddTimer, TimerTypeOK
  <2>4. TimerTypeOK'
    BY <1>0, <1>2, <2>1, <2>2, <2>3 DEF AddTimer, TimerTypeOK
  <2> QED
    BY <1>a, <2>1, <2>2, <2>4 DEF TimerInv, CaughtInWindow
<1>3. ASSUME NEW t \in Timer, StopTimer(t) PROVE TimerInv'
  <2>1. TimerTypeOK'
    BY <1>0, <1>3 DEF StopTimer, TimerTypeOK, Queued, thread, heap
  <2>2. CaughtInWindow'
    BY <1>0, <1>3 DEF StopTimer, CaughtInWindow, thread
  <2> QED
    BY <1>0, <1>3, <2>1, <2>2 DEF TimerInv, RunsPaidByStarts, OnItsWay, StopTimer, heap
<1>4. ASSUME StopManager PROVE TimerInv'
  <2>1. worker' \notin {"stopped?", "expired?", "pop"}
    BY <1>4 DEF StopManager, Notified, MutexHeld
  <2> QED
    BY <1>0, <1>4, <2>1
    DEF TimerInv, RunsPaidByStarts, OnItsWay, CaughtInWindow, StopManager, TimerTypeOK, user, heap
<1>5. ASSUME Lock \/ LookAtTop \/ Timeout \/ Wake \/ Join PROVE TimerInv'
  <2>1. worker' \in {"stopped?", "expired?", "pop"} => current' \in Queued'
    BY <1>0, <1>5 DEF TimerTypeOK, Lock, LookAtTop, Timeout, Wake, Join, Step, Top,
                      Queued, heap, thread
  <2>2. worker' \notin {"expired?", "pop"} \/ UNCHANGED <<worker, current>>
    BY <1>5 DEF Lock, LookAtTop, Timeout, Wake, Join, Step, thread
  <2>3. UNCHANGED <<user, heap, sleep, owed, window>>
    BY <1>5 DEF Lock, LookAtTop, Timeout, Wake, Join, thread
  <2> QED
    BY <1>0, <2>1, <2>2, <2>3
    DEF TimerInv, RunsPaidByStarts, OnItsWay, CaughtInWindow, TimerTypeOK, user, heap
<1>6. ASSUME current \in Queued, Removed(current), worker' = "lock",
             owed' = owed \/ owed' = [owed EXCEPT ![current] = @ - 1],
             window' \subseteq window, UNCHANGED <<user, sleep>>
      PROVE  TimerInv'
  <2>1. ASSUME NEW u \in Timer
        PROVE  /\ entries'[u] + Due(u)' <= owed'[u]
               /\ entries'[u] \in 0 .. MaxEntries /\ owed'[u] \in 0 .. MaxEntries
    BY <1>0, <1>6, Balanced DEF Removed, Queued, TimerTypeOK, user
  <2>2. entries' = [u \in Timer |-> entries'[u]] /\ owed' = [u \in Timer |-> owed'[u]]
    BY <1>0, <1>6 DEF Removed, TimerTypeOK
  <2>3. TimerTypeOK'
    BY <1>0, <1>6, <2>1, <2>2 DEF TimerTypeOK, user
  <2> QED
    BY <1>6, <1>a, <2>1, <2>3 DEF TimerInv, CaughtInWindow
<1>7. ASSUME CheckStopped PROVE TimerInv'
  <2>1. CASE Step("stopped?", "lock") /\ Removed(current)
    BY <1>0, <1>6, <1>7, <2>1 DEF CheckStopped, Step, TimerTypeOK
  <2>2. CASE Step("stopped?", "expired?") /\ current \notin stopped /\ UNCHANGED heap
    BY <1>0, <1>7, <2>2
    DEF CheckStopped, Step, TimerInv, RunsPaidByStarts, OnItsWay, CaughtInWindow, TimerTypeOK,
        Queued, user, heap
  <2> QED
    BY <1>7, <2>1, <2>2 DEF CheckStopped
<1>8. ASSUME CheckExpired PROVE TimerInv'
  <2>1. current \in Timer /\ current \in Queued
    BY <1>0, <1>8 DEF CheckExpired, Step, TimerTypeOK, Queued
  <2>2. TimerTypeOK'
    BY <1>0, <1>8, <2>1 DEF CheckExpired, Step, TimerTypeOK, Queued, user, heap
  <2>3. CaughtInWindow'
    BY <1>0, <1>8 DEF CheckExpired, Step, CaughtInWindow, user
  <2> QED
    BY <1>0, <1>8, <2>2, <2>3 DEF CheckExpired, TimerInv, RunsPaidByStarts, OnItsWay, user, heap
<1>9. ASSUME RunCallback PROVE TimerInv'
  BY <1>0, <1>6, <1>9 DEF RunCallback, Step, TimerTypeOK
<1>10. ASSUME Tick PROVE TimerInv'
  <2>1. remaining' \in [Timer -> Int] /\ sleep' \in Nat
    BY <1>0, <1>10 DEF Tick, Passed, TimerTypeOK
  <2> QED
    BY <1>0, <1>10, <2>1
    DEF Tick, TimerInv, RunsPaidByStarts, OnItsWay, CaughtInWindow, TimerTypeOK, Queued, heap
<1>11. CASE UNCHANGED timerVars
  BY <1>0, <1>11 DEF timerVars, user, heap, thread, TimerInv, RunsPaidByStarts,
                     OnItsWay, CaughtInWindow, TimerTypeOK, Queued
<1> QED
  BY <1>1, <1>b, <1>2, <1>3, <1>4, <1>5, <1>7, <1>8, <1>9, <1>10, <1>11 DEF TimerNext, Run

\* Only RunCallback runs a timer, the one the thread has looked at.
LEMMA QuietStep ==
  TimerInv /\ [TimerNext]_timerVars =>
    [\A t \in stopped : owed'[t] < owed[t] => t \in window]_timerVars
<1> SUFFICES ASSUME TimerInv, TimerNext, NEW t \in stopped, owed'[t] < owed[t]
             PROVE  t \in window
  OBVIOUS
<1>1. owed \in [Timer -> 0 .. MaxEntries] /\ MaxEntries \in Nat
  BY DelaysAssumption DEF TimerInv, RunsPaidByStarts, TimerTypeOK
<1>2. ASSUME NEW u \in Timer, Start(u) PROVE owed'[t] >= owed[t]
  <2>1. CASE t \in Timer
    BY <1>1, <1>2, <2>1 DEF Start
  <2>2. CASE t \notin Timer
    BY <2>2 DEF TimerInv, RunsPaidByStarts, TimerTypeOK
  <2> QED
    BY <2>1, <2>2
<1>3. owed[t] \in Int /\ owed'[t] # owed[t]
  BY <1>1 DEF TimerInv, RunsPaidByStarts, TimerTypeOK
<1>4. RunCallback
  <2>1. CASE \E u \in Timer : Start(u)
    <3> PICK u \in Timer : Start(u)
      BY <2>1
    <3>1. owed'[t] \in Int
      BY <1>1, <1>3 DEF Start, TimerInv, RunsPaidByStarts, TimerTypeOK
    <3> QED
      BY <1>2, <1>3, <3>1
  <2>2. CASE ~\E u \in Timer : Start(u)
    BY <1>3, <2>2 DEF TimerNext, Run, SetExpiry, AddTimer, StopTimer, StopManager, Join,
                      Lock, LookAtTop, CheckStopped, CheckExpired, Timeout, Wake, Tick
  <2> QED
    BY <2>1, <2>2
<1>5. t = current
  BY <1>3, <1>4 DEF RunCallback, TimerInv, RunsPaidByStarts, TimerTypeOK
<1> QED
  BY <1>4, <1>5 DEF RunCallback, Step, TimerInv, CaughtInWindow

\* The inductive invariant of the timer thread.
THEOREM TimerInvHolds == TimerSpec => []TimerInv
  BY InitTimerInv, NextTimerInv, PTL DEF TimerSpec

\* For any timers and timeouts a start makes a callback run at most once
\* (time.cpp:11-16, TimerManager.cpp:49-64).
THEOREM RunsArePaid == TimerSpec => []RunsPaidByStarts
<1>1. TimerInv => RunsPaidByStarts
  BY DEF TimerInv
<1> QED
  BY <1>1, TimerInvHolds, PTL

\* A stopped timer runs only if the thread had looked at is_stopped before
\* the stop (TimerManager.cpp:49-64).
THEOREM StoppedIsQuiet == TimerSpec => QuietOnceStopped
  BY QuietStep, TimerInvHolds, PTL DEF TimerSpec, QuietOnceStopped

\* Once the manager is told to stop its thread never waits again: it is about
\* to look at stopped_flag, or has returned.
StopIsSeen ==
  /\ flag => worker \in {"lock", "exited"}
  /\ owner # "using" => flag

\* With the places the thread can be at, which no action leaves.
StopInv ==
  /\ StopIsSeen
  /\ worker \in {"lock", "exited", "wait", "waitUntil"}
                  \cup {"empty?", "stopped?", "expired?", "pop"}

\* The notification of stop() cannot fall between the thread's look at
\* stopped_flag and its wait, since it holds mtx from one to the other
\* (TimerManager.cpp:22-44): the safety half of DestructorReturns.
THEOREM StopIsNoticed == TimerSpec => []StopIsSeen
<1>1. TimerInit => StopInv
  BY DEF TimerInit, StopInv, StopIsSeen
<1>2. StopInv /\ [TimerNext]_timerVars => StopInv'
  <2> SUFFICES ASSUME StopInv, [TimerNext]_timerVars
               PROVE  StopInv'
    OBVIOUS
  <2> USE DEF StopInv, StopIsSeen
  <2>1. ASSUME NEW t \in Timer,
               \/ Start(t) \/ AddTimer(t) \/ StopTimer(t)
               \/ \E d \in Delays : SetExpiry(t, d)
        PROVE  StopInv'
    BY <2>1 DEF Start, SetExpiry, AddTimer, StopTimer, Notified, thread
  <2>2. CASE StopManager \/ Join
    BY <2>2 DEF StopManager, Join, MutexHeld, Notified, thread
  <2>3. CASE Lock \/ LookAtTop \/ CheckStopped \/ CheckExpired
    BY <2>3 DEF Lock, LookAtTop, CheckStopped, CheckExpired, Step
  <2>4. CASE RunCallback \/ Timeout \/ Wake \/ Tick
    BY <2>4 DEF RunCallback, Timeout, Wake, Tick, Step
  <2>5. CASE UNCHANGED timerVars
    BY <2>5 DEF timerVars, thread
  <2> QED
    BY <2>1, <2>2, <2>3, <2>4, <2>5 DEF TimerNext, Run
<1>3. StopInv => StopIsSeen
  BY DEF StopInv
<1> QED
  BY <1>1, <1>2, <1>3, PTL DEF TimerSpec
=============================================================================
