--------------------------- MODULE FixedSizePool ---------------------------
(***************************************************************************)
(* FixedSizePool of momery_pool.  A page is cut into blocks of blockSize   *)
(* bytes; a free block's first word points to the next free block, and     *)
(* once the block is handed out its user writes what he likes there.  A    *)
(* block is <<page, offset in bytes>>.  Sizes wrap around at Wrap.         *)
(***************************************************************************)
EXTENDS Naturals, Sequences, SequencesExt, FiniteSets

CONSTANTS
  Requested,    \* block sizes the pool may be constructed with
  PointerSize,  \* sizeof(void *), also its alignment
  PerPage,      \* blocks_per_page_
  Wrap,         \* 2^w for a std::size_t of w bits
  MaxPages,     \* bound on the pages
  Null, Junk

\* allocate() follows a null pointer in a pool with no blocks in a page, and
\* sizes that wrap around make pages too small: the callers see to both.
ASSUME PoolAssumption ==
  /\ PointerSize \in Nat \ {0} /\ PerPage \in Nat \ {0}
  /\ Wrap \in Nat /\ MaxPages \in Nat
  /\ Requested \subseteq Nat
  /\ \A n \in Requested \cup {PointerSize} :
       (n + PointerSize) * PerPage < Wrap
  /\ Null # Junk /\ Null \notin Nat \X Nat /\ Junk \notin Nat \X Nat

VARIABLES
  requested,    \* what the constructor was given
  blockSize,    \* block_size_
  pages,        \* Len(pages_)
  header,       \* free_list_header
  next,         \* the first word of each block, as a pointer
  live,         \* the blocks handed out
  chain         \* history: the free blocks, the one given back last first

poolVars == <<requested, blockSize, pages, header, next, live, chain>>

AlignUp(n, align) == LET m == (n + align - 1) % Wrap IN m - (m % align)

\* Mutant: the size is not rounded up.
AtLeastAPointer(n) == IF n < PointerSize THEN PointerSize ELSE n

\* adjust_block_size
AdjustBlockSize(n) ==
  AlignUp(IF n < PointerSize THEN PointerSize ELSE n, PointerSize)

PoolInit == /\ requested \in Requested
            /\ blockSize = AdjustBlockSize(requested)
            /\ pages = 0 /\ header = Null /\ next = <<>>
            /\ live = {} /\ chain = <<>>

-----------------------------------------------------------------------------
\* The blocks expand() cuts page p into.
Cut(p) == {<<p, i * blockSize>> : i \in 0 .. PerPage - 1}

LastOf(p) == <<p, (PerPage - 1) * blockSize>>

\* expand(): each block of the new page points to the one before it, the
\* first one to what was the head of the list.
Linked(p) == [b \in DOMAIN next \cup Cut(p) |->
                IF b \notin Cut(p) THEN next[b]
                ELSE IF b[2] = 0 THEN header ELSE <<p, b[2] - blockSize>>]

Expanded(p) == [i \in 1 .. PerPage |-> <<p, (PerPage - i) * blockSize>>]

\* Mutant: the head is handed out and stays the head.
AllocateAgain ==
  /\ header # Null
  /\ live' = live \cup {header}
  /\ UNCHANGED <<requested, blockSize, pages, header, next, chain>>

\* allocate() with a free block.
AllocateFree ==
  /\ header # Null
  /\ header' = next[header]
  /\ live' = live \cup {header}
  /\ chain' = Tail(chain)
  /\ UNCHANGED <<requested, blockSize, pages, next>>

\* allocate() with none: expand() first.
AllocateNew ==
  /\ header = Null /\ pages < MaxPages
  /\ pages' = pages + 1
  /\ next' = Linked(pages')
  /\ header' = next'[LastOf(pages')]
  /\ live' = live \cup {LastOf(pages')}
  /\ chain' = Tail(Expanded(pages')) \o chain
  /\ UNCHANGED <<requested, blockSize>>

\* The user of a block writes to it.
WriteBlock(b) == /\ b \in live
                 /\ next' = [next EXCEPT ![b] = Junk]
                 /\ UNCHANGED <<requested, blockSize, pages, header, live, chain>>

\* dealloccate(p), for a block its caller owns.
Deallocate(b) ==
  /\ b \in live
  /\ next' = [next EXCEPT ![b] = header]
  /\ header' = b
  /\ live' = live \ {b}
  /\ chain' = <<b>> \o chain
  /\ UNCHANGED <<requested, blockSize, pages>>

PoolNext == \/ AllocateFree \/ AllocateNew
            \/ \E b \in live : WriteBlock(b) \/ Deallocate(b)

PoolSpec == PoolInit /\ [][PoolNext]_poolVars

-----------------------------------------------------------------------------
\* The blocks of all pages.
Block == UNION {Cut(p) : p \in 1 .. pages}

\* Types of the variables: pointers point to blocks.
PoolTypeOK == /\ requested \in Requested /\ blockSize \in Nat /\ pages \in Nat
              /\ header \in Block \cup {Null}
              /\ next \in [Block -> Block \cup {Null, Junk}]
              /\ live \subseteq Block
              /\ chain \in Seq(Block)

\* From its head the free list leads through all blocks that are not handed
\* out, through each once, whatever users write to the blocks they hold
\* (Fixed_size_pool.h:71-72, 81-83).
ListIsIntact ==
  /\ header = IF chain = <<>> THEN Null ELSE chain[1]
  /\ \A i \in 1 .. Len(chain) :
       next[chain[i]] = IF i = Len(chain) THEN Null ELSE chain[i + 1]
  /\ \A i, j \in 1 .. Len(chain) : chain[i] = chain[j] => i = j
  /\ ToSet(chain) = Block \ live

\* Any two blocks are apart, each lies within its page, is aligned and has
\* room for what was asked for and for the link
\* (Fixed_size_pool.h:8-11, 27-49).
BlocksAreApart ==
  /\ requested <= blockSize /\ PointerSize <= blockSize
  /\ \A b \in DOMAIN next :
       /\ b[2] % PointerSize = 0
       /\ b[2] + blockSize <= (blockSize * PerPage) % Wrap
       /\ \A c \in DOMAIN next \ {b} :
            b[1] # c[1] \/ b[2] + blockSize <= c[2] \/ c[2] + blockSize <= b[2]
=============================================================================
