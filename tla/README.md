# A TLA+ verification of btrfs-reading-module

The repository is a C library that reads btrfs images: it opens an image that
is mapped into memory, follows paths, lists directories and reads files. It
never writes. The modules here model its core, TLC checks them on small
instances, and TLAPS proves all but the liveness properties for every image that
satisfies the assumptions named in section 5.

## 1. The system

A call goes down through four layers and returns:

    test/test.c                     maps the image, calls the library, prints
      src/btrfs.c                   btrfs_openfs, btrfs_delete, btrfs_stat, btrfs_readdir,
                                    btrfs_read, btrfs_readlink
        src/btrfs_low.c             one btrfs_low_* function per call, with traversal handlers
          lib/crc32c.c              the hash of a name
          btrfs_find_in_btree.c     search for one key
          btrfs_traverse_btree.c    walk over a whole tree, calling a handler
            btrfs_chunk_list.c      logical address -> address in the image

Nothing runs concurrently, nothing is persisted, no message is sent. What is
hard is of another kind: searches whose result the code takes on trust, an
environment (the image) that decides what is found, allocations that fail half
way, clean-up paths that fall through one another, a handler called back from a
recursion that must stop the recursion, integers at their limits, and memory
whose owner changes.

### Components

| Component | State | Operations | Right when |
|---|---|---|---|
| keys and node search (`btrfs_key.c`, `btrfs_find_in_btree.c`) | left, right, middle, rel | `btrfs_comp_keys`, `__btrfs_binary_search` | the order is total; the search keeps the contract in its comment, probes only items, halves the range |
| descent (`btrfs_find_in_btree.c`) | header, key_ptr, the item found | `btrfs_find_in_btree` | it gives what a lookup in the ordered set of the tree's keys gives, and stops only at a block that is not mapped |
| traversal (`btrfs_traverse_btree.c`) | one loop variable and block per activation, the handler's result | `btrfs_traverse_btree` | every item reaches the handler, once and in order, until it breaks; nothing after that |
| chunk list (`btrfs_chunk_list.c`) | a linked list of chunks, an array per node | `_new`, `_delete`, `_resolve` | each byte of each chunk is found in the stripe and row where it is; nothing leaks |
| open and close (`btrfs.c`, `btrfs_low.c`) | the handle, the list, the root of the file system tree | `btrfs_openfs`, `btrfs_delete` | after an error nothing is allocated; after success the image is mapped |
| path lookup and stat (`btrfs.c`, `btrfs_low.c`) | tree, directory, the rest of the path | `btrfs_get_file_id`, `btrfs_low_locate_file`, `btrfs_low_find_tree_root`, `btrfs_low_stat`, `btrfs_stat` | it ends where the names lead, through directories and subvolumes, and says what the inode says |
| listing (`btrfs_low.c`) | a growing array, its length and capacity | `btrfs_low_list_files`, the caller's frees | complete, in order, never past the array, nothing leaks |
| file read (`btrfs_low.c`) | position, bytes read, the buffer | `btrfs_low_read` | the bytes of the file, in the buffer, to the end of the file |
| handle and session (`include/btrfs.h`) | the handle, nothing between two calls | open, any calls, close; `btrfs_readlink` | each answer is that of a read-only file system, and depends on nothing that was called before |
| hash of a name (`lib/crc32c.c`) | the register, how many bytes were taken | `calculate_crc32c` | it is the CRC-32C of the bytes, wherever the name lies in memory |
| structures, debug output, test client | | | section 8 |

### How they interact

`btrfs_openfs` builds a first chunk list from the array in the superblock. With
that list it traverses the chunk tree, and the traversal's handler puts more
nodes in front of the list; then it searches the root tree, through the longer
list, for the root of the file system tree. Path lookup searches a file system
tree, traverses it with a handler that breaks at the entry it wants, and goes to
another tree through the root tree at a subvolume. Listing is one traversal,
reading one search per extent; each of them begins with the lookup of its path,
and so do `btrfs_stat` and `btrfs_readlink`, which is a read. What the calls share
is the handle: an open that ran out of memory goes on with part of the chunks,
and every later call finds the trees through that part. The traversal calls the handler back; the handler
talks to its caller through an accumulator and to the walk through CONTINUE or
BREAK. The caller owns what a listing returns.

The hazards of this code, each at its line and with the properties that watch
it, are listed in `PROJECT.json`.

## 2. The modules

| Module | What it is | Code |
|---|---|---|
| `BtrfsKeys` | the order of keys, `btrfs_comp_keys`, the contract of the node search | `btrfs_key.c`, comment of `__btrfs_binary_search` |
| `BtrfsBinarySearch` | the node search, one probe per step | `__btrfs_binary_search` |
| `BtrfsTree` | what a well formed tree is | the structures the code reads |
| `OrderedLookup` | abstract: a lookup in an ordered set of keys | |
| `BtrfsFindInBtree` | the descent, one level per step | `btrfs_find_in_btree` |
| `ItemScan` | abstract: an ordered scan that may lose items and may be broken | |
| `BtrfsTraverseBtree` | the recursive walk, one frame per activation | `btrfs_traverse_btree` |
| `BtrfsChunkList` | nodes, what they cover, and address translation | `btrfs_chunk_list.c` |
| `BtrfsOpenfs` | the life of a handle, every allocation and clean-up path | `btrfs_openfs`, `btrfs_delete`, `btrfs_low_read_*`, `btrfs_chunk_list_delete` |
| `BtrfsSearch` | what a search answers, where it faults and where it goes astray, for the functions that call it | `btrfs_find_in_btree` |
| `BtrfsLocateFile` | following a path, and stat | `btrfs_get_file_id`, `btrfs_low_locate_file`, `btrfs_low_find_tree_root`, `btrfs_low_stat`, `btrfs_stat` |
| `BtrfsListFiles` | a listing on an explicit heap | `btrfs_low_list_files` and its handler, the loop of `test.c` |
| `BtrfsRead` | a read, one extent per step | `btrfs_low_read`, `__btrfs_low_read` |
| `ReadOnlyFs` | abstract: what the calls of `include/btrfs.h` promise, with no trees and chunks | |
| `BtrfsSession` | one handle from open to close, and all calls on it | `btrfs.c`; it composes `BtrfsOpenfs`, `BtrfsLocateFile`, `BtrfsRead` |
| `Crc32c` | the hash of a name, one byte or slice per step | `lib/crc32c.c` |
| `*Theorems` | proofs about the modules they extend; `BtrfsLookupTheorems` has those of the node search, the descent and the hash | |
| `BtrfsSessionRefinement` | the proof that the session implements `ReadOnlyFs` | |
| `MC*` | the instances TLC checks; `MCSmallTrees` builds trees | |

They build on one another as the code does, from below:

* `BtrfsBinarySearch` proves `SearchContract` of the node search;
  `BtrfsFindInBtree` uses that contract for each node in place of the loop.
* `BtrfsFindInBtree` implements `OrderedLookup`, and `BtrfsTraverseBtree`
  implements `ItemScan`: each is shown by an `INSTANCE ... WITH` and checked as a
  temporal property. `BtrfsRead` and `BtrfsLocateFile` use the answer of a lookup
  for each search (`BtrfsSearch`: the nearest key that is not above the query, and
  a fault when it is in a leaf that is not mapped; when all keys are above the query,
  nothing in a tree of one leaf, and in any other the pointer that was never set of
  finding 1), and `BtrfsListFiles`, `BtrfsLocateFile` and `BtrfsSession` the order of a
  scan for each traversal.
* `BtrfsOpenfs` and `BtrfsRead` use `BtrfsChunkList` for every translation of an
  address.
* `BtrfsSession` takes `BtrfsOpenfs` and `BtrfsRead` as instances (`opening`,
  `reading`), with their own state as variables of the session and their image as
  an expression of the disk and of the tree the walk has reached, and extends
  `BtrfsLocateFile`. When the open has succeeded, `View` works out what the handle
  sees: of each tree on the disk, whether its root is mapped, and which keys are
  in leaves that are not. The listing is one step there; its memory is the subject
  of `BtrfsListFiles`.
* `BtrfsSession` implements `ReadOnlyFs`, on a disk whose file system is given
  in `Contents`: its objects, and the place of each, that is, the tree and the object
  id where its items are. What it is for a disk to hold that file system is
  `ContentsAssumption` (section 5). The mapping takes the abstract file system from `Contents`
  while the image is open, with `whole` false if a chunk was lost, the call as it
  is, and the answer from `ret`, the struct stat, the names and the buffer once
  the call is over.

How state and actions correspond to the code: variables are the local variables
of the C function (`left`, `right`, `middle`, `rel`; `header`, `key_ptr`; the
accumulator's `result`, `length`, `capacity`, `ret`), plus a `pc`. An action is
the code from one allocation, search, translation, loop test or call of a
handler to the next. A variable that C leaves uninitialised starts with any value
(`middle`, `rel`, `keyPtr`). `malloc` and `realloc` may each succeed or fail, and
`realloc` may move or not. A null or wild pointer that is followed ends in the
state "crash", a failed `assert` in "abort". A heap is a set of addresses
(`BtrfsOpenfs`) or a map from addresses to what is stored (`BtrfsListFiles`), and
an address is never handed out twice, so that a stale pointer is always told
apart from a fresh one. A call that searches a tree below its first key, or that takes
bytes for a tree that are none, ends in the state "astray": what it does from there on
is undefined, and nothing is said of it but when it comes to that. An entry whose
subvolume has no root item is what leads there. `TreeRoots` has every outcome of the
unchecked search for the root item: the root of another tree, or, for the bytes of some
other item, every tree, no tree, or `Elsewhere`, an address that is mapped and has no
tree (`WalkStrays`, `ListStrays`, `SearchGoesAstray`). In `Crc32c` a word is the set of its bits that are one.
Each table is given by its eight entries for single bits: all nine tables of the
source are linear, entry `a ^ b` being entry `a` `^` entry `b`, so these are all
there is to them.

Operators under a comment that begins with "Wrong" (or that calls what follows
wrong) are not part of the specifications. Each is the neighbouring definition
with one plausible mistake in it; `PROJECT.json` pairs each property with such a
mistake, which the property rejects. They keep the properties honest.

## 3. The runs

Eight runs pass; they check 40 properties between them.

| Run | Instance | What it shows |
|---|---|---|
| `BinarySearch` | all nodes with at most five of five keys that differ in every part of the key; ten queries in, between, below and above them | the contract of the node search, that it keeps the answer in its range, stays in the node and halves the range |
| `FindInRange` | all trees of one to three levels over at most four keys; nine queries, exact and not; all blocks mapped, or any one missing | the descent gives the answer of an ordered lookup, ends, and crashes only at a block that is not mapped |
| `OpenImage` | fifteen images: one or two chunks in the superblock, chunks of one to four stripes, two leaves of the chunk tree and three, and images with no superblock, no chunks, missing blocks, no file system root | the heap is what the handle reaches, errors and close leave none, the list maps every byte where it is, an address that was mapped never moves |
| `Traverse` | the same trees; none, one or two blocks missing; a handler that may break at any item | the walk implements the scan: in order, complete but for what is under missing blocks, nothing after a BREAK |
| `ListFiles` | zero to seven names, with items of other directories before, between and after; every allocation failing or not | the array is sound, nothing leaks, the listing is complete and in order |
| `Read` | files with inline extents, holes, several extents, gaps, shared extents, extents in one to three stripes, in none, preallocated, unknown and overwritten from the second byte on, one whose leaf is not mapped, and a tree that has no files; every offset to 12 and length to 9 | the bytes of the file, inside the buffer, up to the end, and nobody else's while each extent is in one piece |
| `Session` | a disk with a subvolume, a snapshot, colliding names, a file with a hole and an extent in two stripes, a link, and two metadata chunks; the same with a packed item and an entry of another type, with a root item gone so that the search for it ends at a back reference, at the other subvolume's root item or at that of the checksums, with a shared extent and a gap; the open with any allocation failing; 107 calls (all paths of up to two names and some of three, reads, links and listings, one path that is not absolute) | each answer is that of the abstract file system, whatever was called before and however much of the image is mapped; walks end where the names lead; "not there" is only said of what is not there; listed names exist; no call runs into a block that is not mapped unless chunks were lost, and none goes astray but on the disks with a root item gone; every call ends |
| `NameHash` | buffers of 0 to 23 bytes at the four alignments: of a single bit for lengths with every number of bytes before, in and after the slices, the library's seed, and the check value of CRC-32C | the register is that of the bitwise definition after every step; slices are aligned and inside the buffer |

Four runs each end in a violation: `FindAbsentKey`, `OpenTwoStripes`, `ReadShared` and
`ListMoved`. They are the first four findings of section 7.

### Bounds, and why they are enough

* A node of five keys takes three probes, one more than are needed to move both
  ends of the range, and gives every parity of the range. Of trees, four keys
  and three levels give every shape of a node's neighbourhood: first, inner and
  last child, root with one child or several, leaf root, empty root. What the
  small trees cannot show, the proofs say for every size (section 5).
* One missing block covers each place of a search's path; a walk passes two
  missing blocks that are siblings, cousins, or one above the other.
* Chunks have at most four stripes and nine bytes with stripe lengths from one
  to four, so that every chunk of several stripes has a second row or a part of
  one. Two chunks are not in order of address.
* Seven names fill the array of four slots, its enlargement to eight and to
  sixteen being asked for at the third and the seventh name. Two or six names
  leave it full, the others leave room that is given back.
* `IntLimit = 8` stands for 2^31: `ToInt` wraps at that width, and lengths up to
  nine lie on both sides of the limit.
* `IntLimit` is 1048576 in the session, above the length of every request: a client
  may not ask for more than the int that `btrfs_read` returns can say.
* The session's disk has each tree in one or two leaves and its leaves in two
  chunks, so that a handle with three, four or all of its chunks has the root tree,
  the top tree and the subvolumes whole, in part or not at all. Names, hashes and
  inode numbers come back in each of the trees. Handles on which the file system
  root is not found never open. Of the history only the last listing is kept, and
  only until something else is called: all other state of a call is gone when it
  returns, so that any order of calls is covered by any two in a row.
* The register of `Crc32c` is linear in the bits of the buffer and of the start
  value, so buffers of one bit stand for all buffers of their length (each of its
  steps is: `ShiftedIsLinear`, `EntryIsLinear`); the lengths give none to two slices
  with none to seven bytes behind them.
* `MaxOffset` in `BtrfsLocateFile` stands for the offset -1 of a key, above every
  offset of the images.
* Variables are bounded by these inputs; no state constraint is used. Deadlock is
  checked in every run: a call that has ended stutters in `Stopped`.

## 4. Fairness

Every specification has weak fairness on the steps of the call itself, and on
nothing else. A C function that was called runs on until it returns; no other
thread can hold it up. What is left to the environment has no fairness: the
caller need not close a handle or free a listing, and a handler may break or not.
A handler that does not return is excluded, and no handler of the library loops.
Every liveness property is that a call ends (`Termination`,
`OpenAndCloseReturn`, `CallReturns`).

## 5. What is proved

All proofs are checked by tlapm to the last leaf. They hold for every value of
the constants that satisfies the named assumptions, all of which TLC evaluates:

* trees are well formed, nodes sorted (`TreesAssumption`, `ArraysAssumption`);
* a chunk has a positive stripe length and at least one stripe, and an image has the
  fields of `Image` (`ImagesAssumption`);
* a logical address belongs to one chunk (`ChunksAssumption`). Chunks may be
  repeated, and are: the chunk tree has those of the superblock again. The code
  takes the first chunk of its list that covers an address, so it relies on this;
* an image whose root tree can be read at all has all blocks on the way to the
  root item in its chunks (`RootPathAssumption`, used by `CrashIsExplained` alone);
* a tree that is read has finitely many items, those of its extent keys are extents,
  and its root is a leaf or is not (`FilesAssumption`), and the extents of the file that is read do not reach into one
  another (`ExtentsAssumption`);
* a disk has its file system root among its trees and the root item of it in the root
  tree, its trees have finitely many items of the types their keys say, the names in
  one DIR_ITEM differ from one another and have the hash that its key says, what an
  entry of a file or a subvolume names has an object id of 256 or more, every root item
  has the address of a tree of the disk, and no offset is above `MaxOffset`
  (`DisksAssumption`); the chunks of a disk are apart, and each root and each leaf of its
  trees lies in one that is not of two stripes (`ChunksAssumption` of `BtrfsSession`);
* a file system tree of several leaves, that is, the one at the root and those of the
  subvolumes that have an entry, has a key that is not above that of a root directory's
  inode (`RangeAssumption`). It is all that keeps the searches of a walk in range; of
  trees of other kinds nothing is assumed;
* a disk that is named in `Contents` holds that file system (`ContentsAssumption`,
  used by the refinement alone). `HoldsFs` says so item by item: the root directory
  is at the root of the file system tree, each object's inode is in its place, its
  entries lead to the places of the objects which the directory has under these names,
  and each of its bytes is in an extent that has it as it was written (`HoldsExtent`:
  inline, a hole, or whole and in one piece of a chunk). `IsSound` leaves out what the
  code does not deal with (section 7 and the hazards): names that collide in one item,
  entries of subvolumes that are gone, and chunks of two stripes; extents that are
  shared in part are not as they were written, and none reaches into another. The run has disks with each of these but the last, without `Contents`,
  for the properties that hold there, too;
* what a call answers is told apart from no answer, and a crash from a number
  (`AnswersAssumption`);
* a hash is a number (`HashAssumption`), a call is one of the interface, and asks for
  less than `IntLimit` bytes (`CallsAssumption`, `ReadCallsAssumption`);
* a buffer to be hashed is a sequence of bytes and a start value
  (`BuffersAssumption`);
* the null pointer and the fault are not places in the image
  (`PointersAssumption`), nowhere is not a place in a tree (`NowhereAssumption`), and
  the sizes of a request are numbers.

Some definitions choose what they speak of by `CHOOSE`: the searches (`Nearest`,
`FirstCovering`), and the recursive functions `PlacesOn` of a path and
`ShiftRegister` of a buffer. That what they choose exists is the least-number
principle, which `BtrfsKeysTheorems` takes from the well-founded order of the naturals
(`LeastNat`). It turns it into `GreatestNat` and, part by part of the key, into
`GreatestKey`; a recursive function exists because a least argument up to which there
is none would have one, and has only the values its equation gives it because a least
argument where two of them differ is not there (`PlacesFacts`, `RunExists`,
`RunsAgree`). The induction theorems of the library, which would say so at once, take
the property as an operator.

**Keys** (`BtrfsKeysTheorems`). `KeyOrder`: the order is irreflexive, transitive
and total; `CompKeysSign`: `btrfs_comp_keys` is its sign. `GreatestKey`: of finitely many keys one is the
greatest.

**Node search** (`BtrfsLookupTheorems`). `SearchTypeCorrect`, `AnswerKept`,
`SearchIsCorrect`, `ProbesHalve`. The inductive invariant is the type invariant,
`RangeKeepsAnswer`, and `SearchAtPc`, what holds at each `searchPc`. The contract alone is
not inductive: at the return one has to know that all below `left` is lower and
all from `right` on greater, that the loop ended with `left = right` or with
`rel = 0`, and, since `middle` and `rel` start undefined, that a node that is not
empty was probed at all. The lemma `ProbeFacts` gives the arithmetic of `middle`.

**Descent** (the same module). `TypeCorrect`, `DescentIsRight`,
`AnswerIsRight`, `CrashIsExplained`, `EachStepDescends`, `Refinement`. The
invariant says that the current node *represents* the tree for this query
(`Represents`): its keys are keys of the tree, every stored key up to the query
has one of the node's between it and the query, and an internal node starts with
a key that is not above the query. When the block of a child is not mapped, it
says that `key_ptr` still leads towards the answer (`LostWay`). `AtPc` ties the
two to the places in the code. `SubtreeHoldsAnswer` alone is not inductive: it
does not say that the next search finds a child at all. The heart is the lemma
`ChildRepresents`: the child which the contract picks represents the tree if its
parent does, because all keys of the children to its left are below its own first
key, all to its right are above the query, and its first key is in the child.
So every node on the way starts with a key that is not above the query, `key_ptr`
is set in each step, and `InRange` is needed at the root only. `Refinement` is
`RangeSpec => ImplementsLookup`; the answer of an ordered lookup is shown unique.

`InRange` is a precondition of the calls in `btrfs_low.c`, not of the function:
what happens without it is the first finding. They keep it as long as every entry of a
subvolume has its root item (`FaultsNeedLostChunks`, with `RangeAssumption`), and do not
where one has none: finding 8.

**Traversal** (`BtrfsTraverseBtreeTheorems`). `TypeCorrect`, `EveryItemIsHandled`,
`WalkIsScan`. The invariant speaks of the stack of activations and of what is left,
the keys neither handed over nor lost: every activation stands at the entry by which
it called the next (`CallsChild`), the blocks lie in one another (`Nested`), what is
left in the block of an activation is exactly what lies behind the entry its loop has
come to (`LeavesTheRest`), and all that is left outside of a block comes after the
block (`KeepsOrder`). Without the last, the item that is handed over next could not be
shown to be the least of those left, which is what `ItemScan` asks; `HandlesEveryItem`
alone says nothing of a walk that is under way. `WalkIsScan` is
`Spec => ImplementsScan`, with one lemma for what each step maps to: calling the
handler is a step of the scan, passing over a block that is not mapped loses the
least keys that are left, and all else stutters.

**Opening and closing** (`BtrfsOpenfsTheorems`). `TypeCorrect`,
`HeapIsAccounted`, `NoLeak`, for images with any number of chunks and stripes.
The invariant is that the heap is exactly what is reachable from the handle and
the list, with `Disjoint`, that no address is owned twice and all are at most
`last`, and `AtPc`, that the handle and the list are there when they should be.
Without `Disjoint` the freeing of a node could free another's.

**The map of an image** (the same module). `StripeHoldsByte`: the arithmetic of rows,
stripes and places finds each byte of a chunk where it is, for every stripe length and
number of stripes but two (the second finding). `OpenMaps`, `NothingMoves` and
`CrashIsExplained` lift it to the list that an open builds. Their invariant, `MapInv`,
says that each node was made of a chunk of the image (`NothingElse`), that all chunks
read so far have a node (`SysKept`, `TreeKept`, with the place in the chunk tree up to
which that holds), and that the list from the sys array goes on in the longer one. The
lemma `ResolveIs` is the heart: which of the nodes that cover an address comes first
does not matter, as two of them are of the same chunk, and two nodes of one chunk
resolve alike. `ResolveResult` says that a fault comes from a chunk of two stripes and
from no other.

**Listing** (`BtrfsListFilesTheorems`). `TypeCorrect`, `SoundArray`, `NoLeak`, for
directories of every size and whichever allocation fails. The invariant says who owns
which address: the heap is the array and one name for each slot from the first that is
not yet freed (`OwnsFrom`), and while the scan runs the slots hold the names of the
items so far, in order (`Holds`). `ListingMayBeRead` and `CompleteListing` assume that
a shrinking `realloc` stays where it is (`~ ShrinkMoves`); the seventh finding is what
happens when it does not.

**Read** (`BtrfsReadTheorems`). `TypeCorrect`, `NoOverrun`, `OwnBytesOnly`,
`ContentIsRead`, `NotCutShort`, for every tree, list of chunks, offset, length and width
of an int. The invariant adds to the types that the query is that of an extent of the
file (`LooksForExtent`) and that the loop has come as far as it has copied
(`CountsWhatItCopied`: the position is the offset asked for plus the bytes read, which
are those in the buffer). `ToIntFacts` gives what the conversion to int does to a count:
it keeps one that fits, and makes no count greater. That only one extent holds a byte
(`HeldOnce`) makes the extent which the search finds the one the file's content is
defined by. `OwnBytesOnly` is for files whose extents are each in one piece
(`InOnePiece`): the bytes that it takes for the file's are those at the addresses of its
extents, each resolved for itself (`OwnBytes`), and not what follows the start of an
extent in the image; that the code copies the latter is finding 7. The extents may be
shared, preallocated or of any length there. `NotCutShort` needs besides that a call which copies nothing is at the end
of the file (`CopiesUnlessAtEnd`).

**Hash** (`BtrfsLookupTheorems`). `AlignedSlices`, `EveryByteIsTaken` and `HashIsRight`,
for buffers of every length at every address. Of the slices the invariant says that
`taken` is a whole number of them past the first bytes while they are taken, and that
all bytes are taken at the return. `HashIsRight` says that what `calculate_crc32c`
returns is the CRC-32C of the buffer, which `Crc32c` defines by the shift register that
takes one bit after the other. Its invariant, `RegisterIsSum`, is that the
register of the code is the shift register after the `taken` bytes so far. That a byte or a slice keeps it
goes in three steps:

1. the entries for single bits of all nine tables are one orbit of the polynomial:
   each is the one before it, shifted once through the register (`TablesFollow`; the 64
   constants of the source are compared one by one);
2. the register is linear: shifting an exclusive or is the exclusive or of what is
   shifted, and so are the entries of a table (`ShiftedIsLinear`, `EntryIsLinear`). So
   what holds of the entries for single bits holds of all 256 (`EntriesFollow`), and a
   table takes a byte as the register takes its eight bits (`TableTakesByte`);
3. the tables of a slice are those of a byte followed by one to seven more
   (`TermsShift`), so that a slice is taken as its eight bytes would be
   (`FourBytes`, `EightBytes`).

On the other side the eight bits of a byte, which enter the shift register one by one,
are shown to do what the byte does that enters at once (`BitEnters`, `ByteEnters`).

**Session** (`BtrfsSessionTheorems`). `SessionTypeCorrect`,
`FaultsOnlyWhereChunksAreLost`, `WalkFollowsPath`, `FilesAreFound`,
`ListedNamesAreFound`, for every set of disks and every order of calls. The theorems
about opening are taken over by an instance for the image of the disk (`openProofs`),
with their assumptions proved of it. The first invariant, `IInv`, is the invariants of
the open handle (`OpenInv`), that the view was worked out from its chunk list
(`SeesDisk`), the types, and what is known at each point of a walk and of a read
(`AtPc`, `AtRead`). A walk that has found the hash knows that the item is there and can
be read; without that, the item which `ScanTree` compares could be in a lost leaf.
`FaultsNeedLostChunks` follows from `OpenMaps`: when no chunk was left out, every leaf
of the disk is mapped (`LeavesAreMapped`), so no search ends in a lost one
(`NothingIsLost`). Its second half, that a call goes astray only on an image with an
entry that has lost its root item, rests on a third part of the invariant, `InFsTree`:
on all other images a walk is in a file system tree and at an object id of at least 256,
so that what it looks for is not below the first key (`NotBelowFirst`,
`StraysAreBroken`, `ReadStraysAreBroken`). That is kept at the entry of a subvolume
because the nearest key of the root tree is then the root item that was looked for
(`RootsAgree`). Where the root item is gone, nothing is assumed of what the walk finds.

`FollowsPath` is kept by each step of the walk, because the entry that a search accepts
is the only one of its name in the directory (`OneEntry`), and where it leads is
where the reference definition goes (`EnterEntry`, `RootsAgree`). `FindsFile` is not inductive: `PathInv` adds that a walk
which has given up stands before a path that leads nowhere. It uses that names with one
hash are in one item (`EnterNothing`), and that beyond nowhere is nowhere
(`NowhereStays`). `ListedNamesExist` speaks of a listing and of a walk that is over;
`ListInv` says of all between the two that the path was walked on this handle, that the
listed name is the first of its item and in a leaf that can be read, and that the
walk which asks for it passes where the listing passed (`SamePrefix`).

**The session as a read-only file system** (`BtrfsSessionRefinement`).
`SessionIsReadOnlyFs` is `SessionSpec => ImplementsReadOnlyFs`: on every disk that
holds a file system, each call answers as `ReadOnlyFs` does, whatever was called
before and however much of the image the handle maps. The argument:

1. A handle sees some of its disk, and that as it is (`SeenFacts`, `SeenItems`); all
   of it when no chunk was lost (`WholeSeesAll`). So where a name leads does not depend
   on what else is seen (`EnterSeen`), and by induction along the path a walk comes to
   the place of the object which the abstract file system has there, or, only if
   chunks were lost, nowhere (`PathSeen`).
2. Of a chunk the list of a handle resolves every address or none (`ChunkResolves`, from
   `ResolveIs` and the stripe arithmetic, which gives a byte one place only,
   `ByteHasOnePlace`). So an extent is seen with its bytes, or with zeros for all of
   them (`ExtentSeen`).
3. The theorems about reads are taken over by a second instance (`readProofs`), for
   the object that the path of the call leads to, with their assumptions proved of the
   disk. `ReadInv` is their invariant with `StaysInBuffer`, `ReadsContent` and
   `ReadsToTheEnd`, and says besides that a read which stops with an error did so on a
   handle that lost chunks, or of an object that has no bytes (`ExtentIsFound`).
   `ReadsContent` speaks of the extents of the tree; `FileHeld` turns it into the bytes
   of the object.
4. `AnswerInv` keeps the types of what is answered, so that an answer is told apart from
   none.
5. One lemma for each way in which a call ends says that the answer is `Right`:
   `NotFoundIsRight`, `StatIsRight`, `ListDirIsRight` (a strictly sorted sequence of as
   many items as there are holds each of them, `SortedIsComplete`, and no two have one
   name), `ReadReturnsIsRight`, `ReadlinkReturnsIsRight` and `ReadFaultsIsRight`. None
   goes astray, since a disk that holds a file system has all its root items
   (`NeverAstray`).
   `StepsOfFs` maps each step of the session to `Mount`, `Ask`, `Answer`, `Forget` or a
   stutter.

## 6. What is only model-checked

Liveness (`Termination`, `OpenAndCloseReturn`, `CallReturns`) is outside of what the
prover can do. `EachStepDescends` and `ProbesHalve` are the steps of such arguments.
Every invariant and every other property that a passing run checks is proved as well.

## 7. Findings

1. **`btrfs_find_in_btree` with an absent key** (`btrfs_find_in_btree.c:162-171`,
   run `FindAbsentKey`). The result of the search of an internal node is ignored.
   For a key below the first key of the root, `key_ptr` is read before it is set.
   The header promises NULL. The library's own calls come to this by finding 8.
2. **Chunks of two stripes** (`btrfs_chunk_list.c:31`, run `OpenTwoStripes`).
   The array for the other stripes is allocated for more than one of them, so that
   a chunk of two keeps only its first and the second is read from a null array.
3. **The offset of an extent** (`btrfs_low.c:449`, run `ReadShared`). The field `offset`
   of the extent item is not used: a read that begins in an extent which is in the file
   from its sixth byte on gives the extent's first. This is what an overwrite leaves
   behind it, and what a clone of a part of a file has.
4. **The shrinking realloc** (`btrfs_low.c:387-391`, run `ListMoved`). The caller is
   given the address from before it.

Four more disagreements of the code with a comment have no run of their own. The models
and the properties do as the code does, and say so:

5. **What `exact` means** (`btrfs_find_in_btree.c:175`). The comment of the header
   (`btrfs_find_in_btree.h:19-20`) says "if exact is true finds not exactly key but item
   with maximal key that obejectid and type is equals to query". The code does the
   reverse: with `exact` it finds the key or nothing, and without it the greatest key up
   to the query. Asked with `exact` for (2, 0, 4), a tree that has (2, 0, 3) gives NULL
   where the comment has that item. Without `exact` the key that is found may have any
   object and type, so the comment is not the code's with the flag reversed, either. All
   callers use the function as it is coded; `OrderedLookup`, `ReturnsAnswer` and
   `ImplementsLookup` state what is coded, and so contradict the comment.
6. **The end of an extent** (`btrfs_low.c:418` and `444`). The count is cut at
   `ram_bytes`, and `num_bytes`, the "number of valid bytes within the file extent item"
   (`struct/btrfs_file_extent_item.h:96`), is not used: of an extent whose end was
   overwritten the old bytes are read, in place of the extent that is behind it in the
   file. `ReadsContent` is stated for extents that are whole in the file (`WholeExtents`);
   the run `Read` has a file of such extents for the other properties.
7. **Extents that go on in another stripe** (`btrfs_low.c:434` and `449`). Only the start
   is resolved. The rest is copied from behind it in the image, where other extents are,
   or what no chunk has; a stripe's size is "determined by the stripe_len field in struct
   btrfs_chunk" (`struct/btrfs_stripe.h:18-19`). `ReadsContent` and `NoForeignBytes` are
   stated for extents in one piece (`InOnePiece`), by the address of each byte.
8. **Entries of subvolumes that are gone** (`btrfs_low.c:134`). The
   search for the root item takes the nearest lower item for it. The walk goes on in
   whatever tree that is, or at an address made of some bytes of the item, though the
   `fs_tree` of a file id is to be the "bytenr of fs_tree root" (`btrfs_low.h:14`). On a
   handle that has all its chunks this leads to finding 1: the keys of the tree of
   checksums are all above those of the files that are looked for there. The run
   `Session` has three disks with this, and `FaultsNeedLostChunks` says that a call may go
   astray there on a whole handle, too, and on no other disks.

Met on the way, with nothing in the repository that says otherwise, so that no run
is a counterexample to it; the models do as the code does:

* Only the first entry of a DIR_ITEM is compared (`btrfs_low.c:175`) and listed
  (line 326), so the second of two names with one hash is neither found nor listed.
  `FindsFile` names the exception (`Behind`).
* A path that ends in a slash, has two in a row, or uses "." or ".." is not found:
  the empty name and the dots are looked up like any other.
* A read does not know the size of a file: behind it come the bytes that its last
  extent has left over. A gap between extents ends it (line 501), and a file with no
  extents gives -ENOENT. The bytes of an extent that no chunk maps are zeros (line
  451), and `ReadsContent` says so. `Reads` in `ReadOnlyFs` says how far an answer is trusted.
* An open that ran out of memory in the chunk tree succeeds (line 95), and the
  calls on that handle find less or stop at a block that is not mapped.
* The bytes of a preallocated extent are read as they lie on the disk (line 428, where a
  comment of the code doubts it), though the file has zeros there.
* The profile of a chunk is not looked at: two copies are read as two stripes, the
  second of which is the second finding.
* Every error of the walk becomes -ENOENT (`btrfs.c:114-127`), the -EIO of an entry
  of an unknown type included.

The passing runs exclude these causes where they must, and say so: `ShrinkMoves =
FALSE` in `ListFiles`; `Behind` and `Intact` in `FindsFile`; `WholeExtents` in
`ReadsContent`; `InOnePiece` in `NoForeignBytes`; `InRange` in the descent. Images with chunks of two stripes are part
of `OpenImage`: there `CrashNeedsLostChunks` says what a crash may come from.

## 8. What is not modelled

* What a call does once it has gone astray: it may fault, find something, or never
  return. `CallReturns` and `Termination` count it as over.
* The fields that `btrfs_stat` copies without a decision (owner, mode but for the
  type, device, blocks, times).
* The build of `crc32c.c` for big endian machines.
* The packed structures and byte order accessors: one-line reads. A model has the
  fields that the code uses.
* The superblock search, which is the comparison of a magic number: the image says
  whether there is one.
* Compressed and encrypted extents: the code does not tell them apart, so neither do
  the models; no property speaks of them.
* The debug output: only in debug builds and without effect on results. One of its
  calls prints the chunk list before it is assigned (listed under the hazards).
* `test/test.c` but for its calls and its use of a listing: arguments, `open`,
  `mmap`, printing.
* Chunks with zero stripes or a stripe length of zero: no file system driver
  writes them, and the code does not look for them.

## 9. Plan

Done, in this order: keys, node search and its proofs; trees, descent, its
refinement and proofs; chunk list, open and close, and their proofs; traversal and
its refinement; listing; read; path lookup and stat; the hash of a name; the session
and its refinement.

Then the proofs: of the hash's slices, the traversal and its refinement to `ItemScan`,
the listing, the read, and the map that an open builds; of the session's types, its
faults, its walks and its listings; and of the hash itself.

Last, the refinement of the session to `ReadOnlyFs` for every disk, with the assumption
that relates `Contents` to `Disks`. What the plan has left is liveness, which stays with
TLC.
