----------------------- MODULE BtrfsSessionRefinement -----------------------
(***************************************************************************)
(* The session implements the read-only file system: on every disk that    *)
(* holds one, each call answers as ReadOnlyFs does.  In this order:        *)
(*   - a handle sees some of its disk, and that as it is, so that the path *)
(*     of a call leads it to the place of the object that the abstract     *)
(*     file system has there;                                              *)
(*   - the theorems about reads (readProofs) speak of the bytes of that    *)
(*     object, as the extents on the disk hold them;                       *)
(*   - each way in which a call ends gives a right answer.                 *)
(***************************************************************************)
EXTENDS BtrfsSessionTheorems

(***************************************************************************)
(* What a handle sees of a disk whose file system is known: less than all  *)
(* of it when chunks were lost, but nothing else.                          *)
(***************************************************************************)
Full == FullView(Disks[disk])
Held == Contents[disk]

\* A disk that is known is sound and holds its file system.
LEMMA KnownFacts ==
    ASSUME Known
    PROVE  disk \in DOMAIN Disks /\ IsSound(Disks[disk]) /\ HoldsFs(Disks[disk], Held)
BY ContentsAssumption, Zenon DEF Known, Held

\* All of the disk, tree by tree.
LEMMA FullFacts ==
    /\ Full.fsRoot = OpenImage(Disks[disk]).fsRoot
    /\ Full.roots = ItemsOf(Disks[disk].trees[Disks[disk].root])
    /\ DOMAIN Full.trees = DOMAIN Disks[disk].trees
    /\ \A b \in DOMAIN Disks[disk].trees : Full.trees[b] = ItemsOf(Disks[disk].trees[b])
BY DEF Full, FullView

\* The handle sees some of the trees, and those as they are.
LEMMA SeenFacts ==
    ASSUME OpenInv, SeesDisk, openPc = "open"
    PROVE  /\ image.fsRoot = Full.fsRoot /\ image.roots = Full.roots
           /\ DOMAIN image.trees = {b \in DOMAIN Full.trees : IsMapped(chunkList, b)}
           /\ \A b \in DOMAIN image.trees : image.trees[b] = Full.trees[b]
BY FullFacts DEF SeesDisk, View

\* The list of the handle is made of the chunks of the disk.
LEMMA ChunksFacts ==
    ASSUME OpenInv
    PROVE  LET chunks == openProofs!ChunksOf(OpenImage(Disks[disk])) IN
           /\ chunks \subseteq openProofs!Chunk /\ openProofs!Apart(chunks)
           /\ openProofs!MadeOf(chunkList, chunks)
           /\ chunkList \in Seq(openProofs!Node)
<1>1. openProofs!TypeOK /\ openProofs!MapInv
  BY DEF OpenInv, openProofs!IInv
<1>2. /\ openProofs!ChunksOf(OpenImage(Disks[disk])) \subseteq openProofs!Chunk
      /\ openProofs!Apart(openProofs!ChunksOf(OpenImage(Disks[disk])))
  BY <1>1, openProofs!ImageFacts, ImagesAreImages, ImagesChunksApart, ImagesRootPaths, PointersAssumption
<1>. QED  BY <1>1, <1>2 DEF openProofs!TypeOK, openProofs!MapInv, openProofs!NothingElse

\* A disk that is known has no chunk of two stripes.
LEMMA OnlyMemoryLosesChunks ==
    ASSUME Known, OpenInv
    PROVE  /\ ~ \E i \in DOMAIN chunkList : chunkList[i].numStripes = 2
           /\ LostChunks <=> outOfMemory
<1> DEFINE chunks == openProofs!ChunksOf(OpenImage(Disks[disk]))
<1>1. chunks \subseteq openProofs!Chunk /\ openProofs!MadeOf(chunkList, chunks)
  BY ChunksFacts
<1>2. \A c \in chunks : Len(c.stripes) /= 2
  BY KnownFacts, SameChunks DEF IsSound
<1> HIDE DEF chunks
<1>3. ASSUME NEW i \in DOMAIN chunkList PROVE chunkList[i].numStripes /= 2
  <2>1. PICK c \in chunks : openProofs!IsNodeOf(chunkList[i], c)
    BY <1>1 DEF openProofs!MadeOf
  <2>2. chunkList[i].numStripes = Len(c.stripes)
    BY <2>1 DEF openProofs!IsNodeOf, openProofs!NewNode
  <2>. QED  BY <1>2, <2>2
<1>. QED  BY <1>3 DEF LostChunks

\* An address in a chunk is mapped when no chunk was left out.
LEMMA AddressIsMapped ==
    ASSUME OpenInv, openPc = "open", ~ LostChunks, NEW a \in Nat,
           \E c \in openProofs!ChunksOf(OpenImage(Disks[disk])) : openProofs!Within(c, a)
    PROVE  IsMapped(chunkList, a)
<1> DEFINE chunks == openProofs!ChunksOf(OpenImage(Disks[disk]))
<1>1. /\ chunks \subseteq openProofs!Chunk /\ openProofs!MadeOf(chunkList, chunks)
      /\ chunkList \in Seq(openProofs!Node)
  BY ChunksFacts
<1>2. \A c \in chunks : openProofs!KeptIn(chunkList, c)
  BY openProofs!EverythingKept, ImagesAreImages, ImagesChunksApart, ImagesRootPaths,
     PointersAssumption DEF OpenInv, LostChunks
<1> HIDE DEF chunks
<1>3. openProofs!Resolve(chunkList, a) /= Unmapped
  <2>1. \E i \in DOMAIN chunkList : openProofs!Covers(chunkList[i], a)
    BY <1>1, <1>2, openProofs!UnmappedIsOutside,
       ImagesAreImages, ImagesChunksApart, ImagesRootPaths, PointersAssumption DEF chunks
  <2>. QED  BY <1>1, <2>1, openProofs!ResolveResult,
                ImagesAreImages, ImagesChunksApart, ImagesRootPaths, PointersAssumption
<1>4. Resolve(chunkList, a) /= Fault
  BY FaultsInTwoStripes DEF LostChunks
<1>. QED  BY <1>3, <1>4, SameOperators DEF IsMapped

\* A handle that lost no chunk sees all trees.
LEMMA WholeSeesAll ==
    ASSUME Known, OpenInv, SeesDisk, openPc = "open", ~ outOfMemory
    PROVE  DOMAIN image.trees = DOMAIN Full.trees
<1>1. ASSUME NEW b \in DOMAIN Disks[disk].trees
      PROVE  IsMapped(chunkList, b)
  <2>1. disk \in DOMAIN Disks /\ b \in Nat
    BY DiskFacts, Zenon DEF OpenInv
  <2>2. \E c \in openProofs!ChunksOf(OpenImage(Disks[disk])) : openProofs!Within(c, b)
    BY <2>1, ChunksAssumption, SameChunks, Zenon
  <2>. QED  BY <2>1, <2>2, AddressIsMapped, OnlyMemoryLosesChunks
<1>. QED  BY <1>1, SeenFacts, FullFacts

\* A sequence of length one has one element.
LEMMA OneElement ==
    ASSUME NEW S, NEW s \in Seq(S), Len(s) = 1
    PROVE  DOMAIN s = {1} /\ s[1] \in S
OBVIOUS

\* An item of a directory on a disk that is known: one entry, with the hash of its name.
LEMMA FullItem ==
    ASSUME Known, NEW b \in DOMAIN Full.trees, NEW k \in DOMAIN Full.trees[b], k.type = DIR_ITEM
    PROVE  /\ k \in Key /\ DOMAIN Full.trees[b][k] = {1}
           /\ Full.trees[b][k][1] \in Entry
           /\ Hash[Full.trees[b][k][1].name] = k.offset
           /\ Full.trees[b][k][1].name \notin {".", ".."}
<1> DEFINE items == ItemsOf(Disks[disk].trees[b])
           value == items[k]
<1>1. disk \in DOMAIN Disks /\ b \in DOMAIN Disks[disk].trees /\ Full.trees[b] = items
  BY KnownFacts, FullFacts
<1>2. k \in Key /\ Item(k, value)
  <2>1. DOMAIN items \in SUBSET Key /\ \A l \in DOMAIN items : Item(l, items[l])
    BY <1>1, TreeItems, Zenon
  <2>. QED  BY <1>1, <2>1
<1>3. Len(value) = 1 /\ value[1].name \notin {".", ".."}
  BY <1>1, KnownFacts, Zenon DEF IsSound
<1> HIDE DEF value
<1>4. /\ value \in Seq(Entry)
      /\ \A n \in DOMAIN value : Hash[value[n].name] = k.offset
  BY <1>2, ItemFacts, Zenon
<1>5. DOMAIN value = {1} /\ value[1] \in Entry
  BY <1>3, <1>4, OneElement
<1>. QED  BY <1>1, <1>2, <1>3, <1>4, <1>5 DEF value

\* The entries of a directory, by the items they are in.
LEMMA FullEntries ==
    ASSUME Known, NEW place, NEW e
    PROVE  e \in EntriesOf(Full, place) <=>
             \E k \in DirItems(Full, place) : e = Full.trees[place.tree][k][1]
<1>1. e \in EntriesOf(Full, place) <=>
        \E k \in DirItems(Full, place) : e \in ToSet(Full.trees[place.tree][k])
  BY DEF EntriesOf
<1>2. ASSUME NEW k \in DirItems(Full, place)
      PROVE  e \in ToSet(Full.trees[place.tree][k]) <=> e = Full.trees[place.tree][k][1]
  <2>1. place.tree \in DOMAIN Full.trees /\ k \in DOMAIN Full.trees[place.tree] /\ k.type = DIR_ITEM
    BY DEF DirItems, KeysOf
  <2>2. DOMAIN Full.trees[place.tree][k] = {1}
    BY <2>1, FullItem, Zenon
  <2>. QED  BY <2>2 DEF ToSet
<1>. QED  BY <1>1, <1>2, Zenon

\* Where the entry with a name is; so there is one at most.
LEMMA FullEntryPlace ==
    ASSUME Known, NEW place, NEW k \in DirItems(Full, place)
    PROVE  LET e == Full.trees[place.tree][k][1] IN
           /\ place.tree \in DOMAIN Full.trees /\ k \in DOMAIN Full.trees[place.tree]
           /\ e \in Entry /\ k = DirKey(place, e.name) /\ e.name \notin {".", ".."}
<1>1. /\ place.tree \in DOMAIN Full.trees /\ k \in DOMAIN Full.trees[place.tree]
      /\ k.type = DIR_ITEM /\ k.objectid = place.objectid
  BY DEF DirItems, KeysOf
<1> DEFINE e == Full.trees[place.tree][k][1]
<1>2. k \in Key /\ e \in Entry /\ Hash[e.name] = k.offset /\ e.name \notin {".", ".."}
  BY <1>1, FullItem, Zenon
<1> HIDE DEF e
<1>3. k = DirKey(place, e.name)
  BY <1>1, <1>2, KeyIsItsParts DEF DirKey
<1>. QED  BY <1>1, <1>2, <1>3 DEF e

\* So a directory has one entry of a name.
LEMMA FullOneEntry ==
    ASSUME Known, NEW place, NEW e \in EntriesOf(Full, place), NEW f \in EntriesOf(Full, place),
           e.name = f.name
    PROVE  e = f
<1>1. PICK k \in DirItems(Full, place) : e = Full.trees[place.tree][k][1]
  BY FullEntries, Zenon
<1>2. PICK l \in DirItems(Full, place) : f = Full.trees[place.tree][l][1]
  BY FullEntries, Zenon
<1>3. k = DirKey(place, e.name) /\ l = DirKey(place, f.name)
  BY <1>1, <1>2, FullEntryPlace, Zenon
<1>. QED  BY <1>1, <1>2, <1>3

\* The handle sees entries that are there, and all of them when it lost no chunk.
LEMMA SeenItems ==
    ASSUME Known, OpenInv, SeesDisk, openPc = "open", NEW place
    PROVE  /\ \A k \in DirItems(image, place) :
                /\ k \in DirItems(Full, place)
                /\ image.trees[place.tree][k] = Full.trees[place.tree][k]
           /\ ~ outOfMemory => DirItems(image, place) = DirItems(Full, place)
           /\ EntriesOf(image, place) \subseteq EntriesOf(Full, place)
           /\ ~ outOfMemory => EntriesOf(image, place) = EntriesOf(Full, place)
<1>1. /\ DOMAIN image.trees \subseteq DOMAIN Full.trees
      /\ \A b \in DOMAIN image.trees : image.trees[b] = Full.trees[b]
      /\ ~ outOfMemory => DOMAIN image.trees = DOMAIN Full.trees
  BY SeenFacts, WholeSeesAll, Zenon
<1>2. \A k \in DirItems(image, place) :
        k \in DirItems(Full, place) /\ image.trees[place.tree][k] = Full.trees[place.tree][k]
  BY <1>1 DEF DirItems, KeysOf
<1>3. ~ outOfMemory => DirItems(image, place) = DirItems(Full, place)
  BY <1>1, <1>2 DEF DirItems, KeysOf
<1>. QED  BY <1>2, <1>3 DEF EntriesOf

\* Where a name leads does not depend on what else the handle sees.
LEMMA EnterSeen ==
    ASSUME Known, OpenInv, SeesDisk, openPc = "open", NEW place, NEW name,
           Enter(image, place, name) /= Nowhere \/ ~ outOfMemory
    PROVE  /\ Enter(image, place, name) = Enter(Full, place, name)
           /\ Enter(image, place, name) /= Nowhere =>
                place /= Nowhere /\ \E e \in EntriesOf(Full, place) : e.name = name
<1>1. \A e : Target(image, place, e) = Target(Full, place, e)
  BY SeenFacts DEF Target, RootItems
<1>2. CASE \E e \in EntriesOf(image, place) : e.name = name
  <2> DEFINE e == CHOOSE e \in EntriesOf(image, place) : e.name = name
             f == CHOOSE f \in EntriesOf(Full, place) : f.name = name
  <2>1. e \in EntriesOf(image, place) /\ e.name = name
    BY <1>2
  <2>2. e \in EntriesOf(Full, place)
    BY <2>1, SeenItems
  <2>3. f \in EntriesOf(Full, place) /\ f.name = name
    BY <2>1, <2>2
  <2>4. e = f
    BY <2>1, <2>2, <2>3, FullOneEntry, Zenon
  <2>5. Enter(image, place, name) = IF place /= Nowhere THEN Target(image, place, e) ELSE Nowhere
    BY <1>2 DEF Enter
  <2>6. Enter(Full, place, name) = IF place /= Nowhere THEN Target(Full, place, f) ELSE Nowhere
    BY <2>3 DEF Enter
  <2> HIDE DEF e, f
  <2>7. Enter(image, place, name) = Enter(Full, place, name)
    BY <1>1, <2>4, <2>5, <2>6
  <2>. QED  BY <2>1, <2>2, <2>5, <2>7
<1>3. CASE ~ \E e \in EntriesOf(image, place) : e.name = name
  <2>1. Enter(image, place, name) = Nowhere
    BY <1>3 DEF Enter
  <2>2. EntriesOf(image, place) = EntriesOf(Full, place)
    BY <2>1, SeenItems
  <2>. QED  BY <1>3, <2>1, <2>2 DEF Enter
<1>. QED  BY <1>2, <1>3

\* The image of an open handle has a root item for each subvolume that has an entry.
LEMMA SeenIntact ==
    ASSUME Known, OpenInv, SeesDisk, openPc = "open"
    PROVE  Intact(image)
<1>1. Intact(Full)
  BY KnownFacts DEF IsSound, Full
<1>2. \A s : RootItems(image, s) = RootItems(Full, s)
  BY SeenFacts DEF RootItems
<1> SUFFICES ASSUME NEW b \in DOMAIN image.trees, NEW k \in DOMAIN image.trees[b],
                    k.type = DIR_ITEM, NEW n \in DOMAIN image.trees[b][k],
                    image.trees[b][k][n].type = ROOT_ITEM
             PROVE  RootItems(image, image.trees[b][k][n].objectid) /= {}
  BY DEF Intact
<1>3. b \in DOMAIN Full.trees /\ image.trees[b] = Full.trees[b]
  BY SeenFacts
<1>. QED  BY <1>1, <1>2, <1>3, Zenon DEF Intact

----------------------------------------------------------------------------

\* What a path of a file system leads to after each number of its names.
LEMMA ObjectsFacts ==
    ASSUME NEW f, NEW path, Len(path) \in Nat
    PROVE  /\ Fs!ObjectsOn(f, path)[0] = f.root
           /\ \A n \in 1 .. Len(path) :
                Fs!ObjectsOn(f, path)[n] = Fs!Child(f, Fs!ObjectsOn(f, path)[n - 1], path[n])
<1> DEFINE Makes(h, m) ==
             h = [n \in 0 .. m |-> IF n = 0 THEN f.root ELSE Fs!Child(f, h[n - 1], path[n])]
           Failing == {m \in 0 .. Len(path) : ~ \E h : Makes(h, m)}
<1>1. \E h : Makes(h, Len(path))
  <2> SUFFICES ASSUME ~ \E h : Makes(h, Len(path)) PROVE FALSE
    OBVIOUS
  <2>1. Failing \in SUBSET Nat /\ Len(path) \in Failing
    OBVIOUS
  <2>2. PICK m \in Failing : \A l \in Failing : m <= l
    BY <2>1, LeastNat
  <2>3. m \in 0 .. Len(path) /\ ~ \E h : Makes(h, m)
    OBVIOUS
  <2>4. m /= 0
    <3>1. Makes([n \in 0 .. 0 |-> f.root], 0)
      OBVIOUS
    <3>. QED  BY <2>3, <3>1
  <2>5. m - 1 \in 0 .. Len(path) /\ m - 1 \notin Failing
    <3>1. m - 1 \in 0 .. Len(path) /\ ~ m <= m - 1
      BY <2>3, <2>4
    <3> HIDE DEF Failing
    <3>. QED  BY <2>2, <3>1
  <2>6. PICK h : Makes(h, m - 1)
    BY <2>5
  <2> DEFINE g == [n \in 0 .. m |-> IF n = m THEN Fs!Child(f, h[m - 1], path[m]) ELSE h[n]]
  <2>7. \A n \in 0 .. m - 1 : g[n] = h[n]
    BY <2>3
  <2>8. g[m] = Fs!Child(f, g[m - 1], path[m])
    BY <2>3, <2>4, <2>7
  <2>9. h[0] = f.root /\ \A n \in 1 .. m - 1 : h[n] = Fs!Child(f, h[n - 1], path[n])
    BY <2>3, <2>4, <2>6
  <2>10. g[0] = f.root /\ \A n \in 1 .. m : g[n] = Fs!Child(f, g[n - 1], path[n])
    BY <2>3, <2>4, <2>7, <2>8, <2>9
  <2>11. g = [n \in 0 .. m |-> g[n]]
    OBVIOUS
  <2> HIDE DEF g
  <2>12. Makes(g, m)
    <3>1. \A n \in 0 .. m : g[n] = IF n = 0 THEN f.root ELSE Fs!Child(f, g[n - 1], path[n])
      BY <2>3, <2>10
    <3>2. [n \in 0 .. m |-> g[n]] =
          [n \in 0 .. m |-> IF n = 0 THEN f.root ELSE Fs!Child(f, g[n - 1], path[n])]
      BY <3>1
    <3>. QED  BY <2>11, <3>2
  <2>. QED  BY <2>3, <2>12
<1> DEFINE objects == Fs!ObjectsOn(f, path)
<1>2. Fs!ObjectsOn(f, path) = CHOOSE h : Makes(h, Len(path))
  BY DEF Fs!ObjectsOn
<1>3. Makes(objects, Len(path))
  BY <1>1, <1>2
<1> HIDE DEF objects
<1>4. /\ objects[0] = f.root
      /\ \A n \in 1 .. Len(path) : objects[n] = Fs!Child(f, objects[n - 1], path[n])
  BY <1>3
<1>. QED  BY <1>4 DEF objects

\* The file system that the session stands for while an image is open.
Mounted == [whole |-> ~ outOfMemory, root |-> Held.root, objects |-> Held.objects]

\* What is known of an object and its place.
LEMMA ObjectFacts ==
    ASSUME Known, NEW id \in DOMAIN Held.objects
    PROVE  LET o     == Held.objects[id]
               place == Held.places[id]
               items == ItemsOf(Disks[disk].trees[place.tree])
           IN  /\ id /= NoObject
               /\ place \in [tree : DOMAIN Full.trees, objectid : Nat] /\ place /= Nowhere
               /\ place.tree \in DOMAIN Disks[disk].trees /\ Full.trees[place.tree] = items
               /\ HoldsInode(items, place.objectid, o)
               /\ HoldsBytes(Disks[disk], items, place.objectid, o)
               /\ DOMAIN o.entries = {e.name : e \in EntriesOf(Full, place)}
               /\ \A name \in DOMAIN o.entries :
                    /\ o.entries[name] \in DOMAIN Held.objects
                    /\ Enter(Full, place, name) = Held.places[o.entries[name]]
<1> DEFINE o     == Held.objects[id]
           place == Held.places[id]
           items == ItemsOf(Disks[disk].trees[place.tree])
<1>1. /\ NoObject \notin DOMAIN Held.objects /\ DOMAIN Held.places = DOMAIN Held.objects
      /\ place \in [tree : DOMAIN Disks[disk].trees, objectid : Nat]
      /\ HoldsInode(items, place.objectid, o)
      /\ HoldsBytes(Disks[disk], items, place.objectid, o)
      /\ HoldsEntries(Disks[disk], place, o, Held.places)
  BY KnownFacts, Zenon DEF HoldsFs
<1>2. DOMAIN Disks[disk].trees \subseteq Nat
  BY KnownFacts, DiskFacts, Zenon
<1> HIDE DEF o, place, items
<1>3. place /= Nowhere
  BY <1>1, <1>2, NowhereAssumption
<1>4. place.tree \in DOMAIN Disks[disk].trees
  BY <1>1
<1>5. Full.trees[place.tree] = items /\ DOMAIN Full.trees = DOMAIN Disks[disk].trees
  BY <1>4, FullFacts, Zenon DEF items
<1>6. /\ DOMAIN o.entries = {e.name : e \in EntriesOf(Full, place)}
      /\ \A name \in DOMAIN o.entries :
            /\ o.entries[name] \in DOMAIN Held.objects
            /\ Enter(Full, place, name) = Held.places[o.entries[name]]
  BY <1>1 DEF HoldsEntries, Full
<1>7. id /= NoObject
  BY <1>1
<1>. QED  BY <1>1, <1>3, <1>4, <1>5, <1>6, <1>7 DEF o, place, items

\* A path leads to a place of the image only if it leads to an object, and to the
\* object's place; and a handle that lost no chunk finds it.
LEMMA PathSeen ==
    ASSUME Known, OpenInv, SeesDisk, openPc = "open", NEW path, Len(path) \in Nat,
           NEW n \in 0 .. Len(path)
    PROVE  LET id == Fs!ObjectsOn(Mounted, path)[n] IN
           /\ PlacesOn(image, path)[n] /= Nowhere =>
                id \in DOMAIN Held.objects /\ PlacesOn(image, path)[n] = Held.places[id]
           /\ ~ outOfMemory /\ PlacesOn(image, path)[n] = Nowhere => id = NoObject
<1> DEFINE p == PlacesOn(image, path)
           o == Fs!ObjectsOn(Mounted, path)
           Right(m) ==
             /\ p[m] /= Nowhere => o[m] \in DOMAIN Held.objects /\ p[m] = Held.places[o[m]]
             /\ ~ outOfMemory /\ p[m] = Nowhere => o[m] = NoObject
           Wrong == {m \in 0 .. Len(path) : ~ Right(m)}
<1>1. /\ p[0] = RootPlace(image)
      /\ \A m \in 1 .. Len(path) : p[m] = Enter(image, p[m - 1], path[m])
  BY PlacesFacts
<1>2. /\ o[0] = Mounted.root
      /\ \A m \in 1 .. Len(path) : o[m] = Fs!Child(Mounted, o[m - 1], path[m])
  BY ObjectsFacts
<1>3. Mounted.root = Held.root /\ Mounted.objects = Held.objects
  BY DEF Mounted
<1> HIDE DEF p, o
<1>4. Right(0)
  <2>1. Held.root \in DOMAIN Held.objects /\ Held.places[Held.root] = RootPlace(Full)
    BY KnownFacts DEF HoldsFs, Full
  <2>2. RootPlace(image) = RootPlace(Full)
    BY SeenFacts DEF RootPlace
  <2>3. Held.places[Held.root] /= Nowhere
    BY <2>1, ObjectFacts, Zenon
  <2>. QED  BY <1>1, <1>2, <1>3, <2>1, <2>2, <2>3
<1>5. ASSUME NEW m \in 1 .. Len(path), Right(m - 1)
      PROVE  Right(m)
  <2>1. p[m] = Enter(image, p[m - 1], path[m]) /\ o[m] = Fs!Child(Mounted, o[m - 1], path[m])
    BY <1>1, <1>2
  <2>2. CASE p[m - 1] = Nowhere
    <3>1. p[m] = Nowhere
      BY <2>1, <2>2 DEF Enter
    <3>2. ~ outOfMemory => o[m] = NoObject
      BY <1>5, <2>1, <2>2 DEF Fs!Child
    <3>. QED  BY <3>1, <3>2
  <2>3. CASE p[m - 1] /= Nowhere
    <3> DEFINE id == o[m - 1]
               place == p[m - 1]
    <3>1. id \in DOMAIN Held.objects /\ place = Held.places[id]
      BY <1>5, <2>3
    <3> HIDE DEF id, place
    <3>2. /\ id /= NoObject
          /\ DOMAIN Held.objects[id].entries = {e.name : e \in EntriesOf(Full, place)}
          /\ \A name \in DOMAIN Held.objects[id].entries :
               /\ Held.objects[id].entries[name] \in DOMAIN Held.objects
               /\ Enter(Full, place, name) = Held.places[Held.objects[id].entries[name]]
      BY <3>1, ObjectFacts, Zenon
    <3>3. o[m] = IF path[m] \in DOMAIN Held.objects[id].entries
                 THEN Held.objects[id].entries[path[m]] ELSE NoObject
      BY <1>3, <2>1, <3>2 DEF Fs!Child, id
    <3>4. p[m] = Enter(image, place, path[m])
      BY <2>1 DEF place
    <3>5. CASE p[m] /= Nowhere
      <4>1. p[m] = Enter(Full, place, path[m]) /\ \E e \in EntriesOf(Full, place) : e.name = path[m]
        BY <3>4, <3>5, EnterSeen, Zenon
      <4>2. path[m] \in DOMAIN Held.objects[id].entries
        BY <3>2, <4>1
      <4>. QED  BY <3>2, <3>3, <3>5, <4>1, <4>2
    <3>6. CASE p[m] = Nowhere /\ ~ outOfMemory
      <4>1. Enter(Full, place, path[m]) = Nowhere
        BY <3>4, <3>6, EnterSeen, Zenon
      <4>2. path[m] \notin DOMAIN Held.objects[id].entries
        <5> SUFFICES ASSUME path[m] \in DOMAIN Held.objects[id].entries PROVE FALSE
          OBVIOUS
        <5>1. Held.places[Held.objects[id].entries[path[m]]] /= Nowhere
          BY <3>2, ObjectFacts, Zenon
        <5>. QED  BY <3>2, <4>1, <5>1
      <4>. QED  BY <3>3, <3>6, <4>2
    <3>. QED  BY <3>5, <3>6
  <2>. QED  BY <2>2, <2>3
<1> SUFFICES ASSUME ~ Right(n) PROVE FALSE
  BY DEF p, o
<1>6. Wrong \in SUBSET Nat /\ n \in Wrong
  OBVIOUS
<1>7. PICK m \in Wrong : \A l \in Wrong : m <= l
  BY <1>6, LeastNat
<1>8. m \in 0 .. Len(path) /\ ~ Right(m) /\ m /= 0
  <2> HIDE DEF Right
  <2>. QED  BY <1>4, <1>7
<1>9. m \in 1 .. Len(path) /\ m - 1 \in 0 .. Len(path) /\ ~ m <= m - 1
  BY <1>8
<1>10. Right(m - 1)
  <2> HIDE DEF Right
  <2>. QED  BY <1>7, <1>9
<1>. QED  BY <1>5, <1>8, <1>9, <1>10

----------------------------------------------------------------------------
(***************************************************************************)
(* The bytes of a file.                                                    *)
(***************************************************************************)

\* A number has one quotient and one remainder.
LEMMA OneQuotient ==
    ASSUME NEW m \in Nat \ {0}, NEW a \in Nat, NEW b \in Nat,
           NEW r \in 0 .. m - 1, NEW t \in 0 .. m - 1, a * m + r = b * m + t
    PROVE  a = b /\ r = t
<1>1. ASSUME NEW x \in Nat, NEW y \in Nat, NEW u \in 0 .. m - 1, NEW v \in 0 .. m - 1,
             x < y
      PROVE  x * m + u < y * m + v
  <2>1. PICK d \in Nat : y = x + 1 + d
    <3>1. y - x - 1 \in Nat /\ y = x + 1 + (y - x - 1)
      BY <1>1
    <3>. QED  BY <3>1
  <2>2. y * m = x * m + m + d * m /\ d * m \in Nat /\ x * m \in Nat
    BY <2>1
  <2>. QED  BY <2>2
<1>2. a = b
  <2>1. a * m \in Nat /\ b * m \in Nat
    OBVIOUS
  <2>2. ~ a < b
    BY <1>1
  <2>3. ~ b < a
    BY <1>1
  <2>. QED  BY <2>2, <2>3
<1>3. a * m \in Nat
  OBVIOUS
<1>. QED  BY <1>2, <1>3

\* A byte of a chunk has one place.
LEMMA ByteHasOnePlace ==
    ASSUME NEW c \in Chunk, NEW o \in Nat, NEW p, NEW q, HoldsByte(c, p, o), HoldsByte(c, q, o)
    PROVE  p = q
<1> DEFINE N == Len(c.stripes)
<1>1. N \in Nat \ {0} /\ c.stripeLen \in Nat \ {0} /\ c.stripes \in Seq(Nat)
  <2>1. c.stripeLen \in Nat \ {0} /\ c.stripes \in Seq(Nat) \ {<<>>}
    BY DEF Chunk
  <2>. QED  BY <2>1
<1>2. PICK s \in 1 .. N, row \in 0 .. o, r \in 0 .. c.stripeLen - 1 :
        p = c.stripes[s] + row * c.stripeLen + r /\ o = (row * N + s - 1) * c.stripeLen + r
  BY DEF HoldsByte, ByteOfChunk
<1>3. PICK t \in 1 .. N, line \in 0 .. o, u \in 0 .. c.stripeLen - 1 :
        q = c.stripes[t] + line * c.stripeLen + u /\ o = (line * N + t - 1) * c.stripeLen + u
  BY DEF HoldsByte, ByteOfChunk
<1> HIDE DEF N
<1>4. /\ row \in Nat /\ line \in Nat /\ row * N \in Nat /\ line * N \in Nat
      /\ s - 1 \in 0 .. N - 1 /\ t - 1 \in 0 .. N - 1
      /\ row * N + s - 1 \in Nat /\ line * N + t - 1 \in Nat
  <2>1. row \in Nat /\ line \in Nat /\ s - 1 \in 0 .. N - 1 /\ t - 1 \in 0 .. N - 1
    BY <1>1
  <2>2. row * N \in Nat /\ line * N \in Nat
    BY <1>1, <2>1
  <2> DEFINE x == row * N
             y == line * N
  <2> HIDE DEF x, y
  <2>3. x + s - 1 \in Nat /\ y + t - 1 \in Nat
    BY <1>1, <2>2 DEF x, y
  <2>. QED  BY <2>1, <2>2, <2>3 DEF x, y
<1>5. row * N + s - 1 = line * N + t - 1 /\ r = u
  <2> DEFINE m == c.stripeLen
             x == row * N + s - 1
             y == line * N + t - 1
  <2>1. /\ m \in Nat \ {0} /\ x \in Nat /\ y \in Nat
        /\ r \in 0 .. m - 1 /\ u \in 0 .. m - 1 /\ x * m + r = y * m + u
    BY <1>1, <1>2, <1>3, <1>4
  <2> HIDE DEF m, x, y
  <2>2. x = y /\ r = u
    BY <2>1, OneQuotient
  <2>. QED  BY <2>2 DEF x, y
<1>6. row * N + (s - 1) = line * N + (t - 1)
  BY <1>1, <1>4, <1>5
<1>7. row = line /\ s - 1 = t - 1
  <2> DEFINE i == s - 1
             j == t - 1
  <2>1. /\ N \in Nat \ {0} /\ row \in Nat /\ line \in Nat
        /\ i \in 0 .. N - 1 /\ j \in 0 .. N - 1 /\ row * N + i = line * N + j
    BY <1>1, <1>4, <1>6
  <2> HIDE DEF i, j
  <2>2. row = line /\ i = j
    BY <2>1, OneQuotient
  <2>. QED  BY <2>2 DEF i, j
<1>. QED  BY <1>1, <1>2, <1>3, <1>5, <1>7

\* Through the list of a handle all of a chunk is found where it is, or nothing of it.
LEMMA ChunkResolves ==
    ASSUME Known, OpenInv, NEW c \in opening!ChunksOf(OpenImage(Disks[disk]))
    PROVE  \/ \A a \in Nat : \A place :
                opening!Within(c, a) /\ HoldsByte(c, place, a - c.start) =>
                    Resolve(chunkList, a) = place
           \/ \A a \in Nat : opening!Within(c, a) => Resolve(chunkList, a) = Unmapped
<1> DEFINE chunks == openProofs!ChunksOf(OpenImage(Disks[disk]))
<1>1. /\ c \in chunks /\ chunks \subseteq openProofs!Chunk /\ openProofs!Apart(chunks)
      /\ openProofs!MadeOf(chunkList, chunks) /\ chunkList \in Seq(openProofs!Node)
  BY ChunksFacts, SameChunks
<1>2. Len(c.stripes) /= 2
  BY KnownFacts DEF IsSound
<1>3. c \in Chunk /\ c \in openProofs!Chunk
  BY <1>1 DEF openProofs!Chunk, Chunk
<1> HIDE DEF chunks
<1>4. CASE openProofs!KeptIn(chunkList, c)
  <2>1. PICK i \in DOMAIN chunkList : openProofs!IsNodeOf(chunkList[i], c)
    BY <1>4 DEF openProofs!KeptIn
  <2>2. PICK moreAt \in Nat \ {openProofs!NullPtr} :
            chunkList[i] = openProofs!NewNode(c, chunkList[i].at, moreAt)
    <3>1. chunkList[i] \in openProofs!Node
      BY <1>1
    <3>. QED  BY <1>3, <2>1, <3>1, openProofs!NodeIsNew, ImagesAreImages, ImagesChunksApart,
                  ImagesRootPaths, PointersAssumption
  <2>3. ASSUME NEW a \in Nat, NEW place, opening!Within(c, a), HoldsByte(c, place, a - c.start)
        PROVE  Resolve(chunkList, a) = place
    <3>1. /\ openProofs!Covers(chunkList[i], a) /\ chunkList[i].start = c.start
          /\ a - c.start \in Nat
      <4>1. /\ chunkList[i].start = c.start /\ c.start \in Nat
            /\ (openProofs!Covers(chunkList[i], a) <=> openProofs!Within(c, a))
        BY <1>3, <2>1, openProofs!NodeOfFacts, ImagesAreImages, ImagesChunksApart,
           ImagesRootPaths, PointersAssumption
      <4>2. c.start <= a
        BY <2>3 DEF opening!Within
      <4>. QED  BY <2>3, <4>1, <4>2, SameChunks
    <3>2. openProofs!Resolve(chunkList, a) = openProofs!ResolveStripe(chunkList[i], a - c.start)
      BY <1>1, <3>1, openProofs!ResolveIs, ImagesAreImages, ImagesChunksApart,
         ImagesRootPaths, PointersAssumption
    <3>3. openProofs!HoldsByte(c, openProofs!ResolveStripe(chunkList[i], a - c.start), a - c.start)
      BY <1>2, <1>3, <2>2, <3>1, openProofs!StripeHoldsByte, ImagesAreImages, ImagesChunksApart,
         ImagesRootPaths, PointersAssumption
    <3>4. HoldsByte(c, Resolve(chunkList, a), a - c.start)
      BY <3>2, <3>3, SameOperators DEF openProofs!HoldsByte, HoldsByte,
         openProofs!ByteOfChunk, ByteOfChunk
    <3>. QED  BY <1>3, <2>3, <3>1, <3>4, ByteHasOnePlace
  <2>. QED  BY <2>3
<1>5. CASE ~ openProofs!KeptIn(chunkList, c)
  <2>1. ASSUME NEW a \in Nat, opening!Within(c, a)
        PROVE  Resolve(chunkList, a) = Unmapped
    <3>1. ASSUME NEW j \in DOMAIN chunkList, openProofs!Covers(chunkList[j], a) PROVE FALSE
      <4>1. PICK e \in chunks : openProofs!IsNodeOf(chunkList[j], e)
        BY <1>1 DEF openProofs!MadeOf
      <4>2. openProofs!Within(e, a)
        BY <1>1, <3>1, <4>1, openProofs!NodeOfFacts, ImagesAreImages, ImagesChunksApart,
           ImagesRootPaths, PointersAssumption
      <4>3. e = c
        BY <1>1, <2>1, <4>2, SameChunks DEF openProofs!Apart
      <4>. QED  BY <1>5, <4>1, <4>3 DEF openProofs!KeptIn
    <3>2. openProofs!Resolve(chunkList, a) = Unmapped
      BY <1>1, <3>1, openProofs!ResolveResult, ImagesAreImages, ImagesChunksApart,
         ImagesRootPaths, PointersAssumption
    <3>. QED  BY <3>2, SameOperators
  <2>. QED  BY <2>1
<1>. QED  BY <1>4, <1>5

\* What the reads of the known disks read from: any of their trees through any list.
KnownTrees ==
    UNION {{ItemsOf(Disks[name].trees[b]) : b \in DOMAIN Disks[name].trees} : name \in DOMAIN Contents}
ReadFiles ==
    {f \in [tree : KnownTrees \cup {<<>>}, lost : SUBSET Key, inner : BOOLEAN,
            chunks : Seq(Node), sizes : [Nat -> Nat]] :
        f.lost \subseteq DOMAIN f.tree}
ReadRequests == [file : Nat, offset : Nat, length : Nat]

\* The object that the path of the call leads to, and what a read of it reads from.
Id == Fs!ObjectsOn(Mounted, call.path)[Len(call.path)]
Named == Held.objects[Id]
TreeOfFile == IF fsTree \in DOMAIN image.trees THEN image.trees[fsTree] ELSE <<>>
ReadImage ==
    [tree |-> TreeOfFile, lost |-> LostOf(image, fsTree), inner |-> IsInner(image, fsTree),
     chunks |-> chunkList, sizes |-> [n \in Nat |-> Len(Named.bytes)]]

\* The theorems about reads, for the object that a call reads.
readProofs == INSTANCE BtrfsReadTheorems WITH
    Files <- ReadFiles, Requests <- ReadRequests, IntLimit <- IntLimit,
    image <- ReadImage, ret <- readRet, pc <- readPc

\* The trees of known disks have finitely many keys, and extents that are apart.
LEMMA KnownTree ==
    ASSUME NEW t \in KnownTrees \cup {<<>>}
    PROVE  /\ DOMAIN t \in SUBSET Key /\ IsFiniteSet(DOMAIN t)
           /\ \A k \in DOMAIN t : k.type = EXTENT_DATA => t[k] \in Extent
           /\ \A k, l \in ExtentsIn(t) :
                k.objectid = l.objectid /\ k.offset < l.offset => Reach(t, k) <= l.offset
<1>1. CASE t = <<>>
  <2>1. DOMAIN t = {}
    BY <1>1
  <2>. QED  BY <2>1, FS_EmptySet DEF ExtentsIn
<1>2. CASE t \in KnownTrees
  <2>0. PICK name \in DOMAIN Contents :
            t \in {ItemsOf(Disks[name].trees[b]) : b \in DOMAIN Disks[name].trees}
    BY <1>2 DEF KnownTrees
  <2>1. PICK b \in DOMAIN Disks[name].trees : t = ItemsOf(Disks[name].trees[b])
    BY <2>0
  <2>2. name \in DOMAIN Disks /\ IsSound(Disks[name])
    BY ContentsAssumption, Zenon
  <2>3. /\ DOMAIN t \in SUBSET Key /\ IsFiniteSet(DOMAIN t)
        /\ \A k \in DOMAIN t : Item(k, t[k])
    BY <2>1, <2>2, TreeItems, Zenon
  <2>4. \A k \in DOMAIN t : k.type = EXTENT_DATA => t[k] \in Extent
    BY <2>3, ItemFacts, Zenon
  <2>5. \A k, l \in ExtentsIn(t) :
            k.objectid = l.objectid /\ k.offset < l.offset => Reach(t, k) <= l.offset
    BY <2>1, <2>2, Zenon DEF IsSound
  <2>. QED  BY <2>3, <2>4, <2>5
<1>. QED  BY <1>1, <1>2

\* What the instance for reads calls by the same name is the same.
LEMMA SameData ==
    /\ readProofs!EXTENT_DATA = EXTENT_DATA
    /\ readProofs!Extent = Extent /\ readProofs!Key = Key
    /\ \A S : readProofs!IsFiniteSet(S) <=> IsFiniteSet(S)
    /\ readProofs!Node = Node
    /\ readProofs!Zero = reading!Zero /\ readProofs!ENOENT = ENOENT
    /\ \A e : readProofs!Length(e) = reading!Length(e)
BY DEF readProofs!EXTENT_DATA, EXTENT_DATA, readProofs!Extent, Extent,
       readProofs!Key, Key, readProofs!IsFiniteSet, IsFiniteSet,
       readProofs!Node, Node, readProofs!NullPtr, NullPtr,
       readProofs!Zero, reading!Zero, readProofs!ENOENT, ENOENT,
       readProofs!Length, reading!Length

\* So the assumptions of the theorems about reads hold of the reads of known disks.  What
\* is read from has keys and extents;
LEMMA ReadFilesAssumption ==
    \A f \in ReadFiles :
        /\ DOMAIN f.tree \subseteq readProofs!Key /\ readProofs!IsFiniteSet(DOMAIN f.tree)
        /\ \A k \in DOMAIN f.tree : k.type = readProofs!EXTENT_DATA => f.tree[k] \in readProofs!Extent
        /\ f.lost \subseteq DOMAIN f.tree
        /\ f.inner \in BOOLEAN
        /\ f.chunks \in Seq(readProofs!Node)
<1> SUFFICES ASSUME NEW f \in ReadFiles
             PROVE  /\ DOMAIN f.tree \subseteq Key /\ IsFiniteSet(DOMAIN f.tree)
                    /\ \A k \in DOMAIN f.tree : k.type = EXTENT_DATA => f.tree[k] \in Extent
                    /\ f.lost \subseteq DOMAIN f.tree
                    /\ f.inner \in BOOLEAN
                    /\ f.chunks \in Seq(Node)
  BY SameData
<1>1. /\ f.tree \in KnownTrees \cup {<<>>} /\ f.lost \subseteq DOMAIN f.tree
      /\ f.inner \in BOOLEAN /\ f.chunks \in Seq(Node)
  BY DEF ReadFiles
<1> DEFINE t == f.tree
<1> HIDE DEF t
<1>2. DOMAIN t \in SUBSET Key /\ IsFiniteSet(DOMAIN t) /\ \A k \in DOMAIN t : k.type = EXTENT_DATA => t[k] \in Extent
  BY <1>1, KnownTree DEF t
<1>. QED  BY <1>1, <1>2 DEF t

\* the requests are requests, of files that have a size;
LEMMA ReadRequestsAssumption ==
    /\ ReadRequests \subseteq [file : Nat, offset : Nat, length : Nat]
    /\ \A f \in ReadFiles, r \in ReadRequests : f.sizes[r.file] \in Nat
BY DEF ReadRequests, ReadFiles

\* and the extents of a file lie one behind the other.
LEMMA ReadExtentsAssumption ==
    \A f \in ReadFiles : \A k, l \in {k \in DOMAIN f.tree : k.type = readProofs!EXTENT_DATA} :
        k.objectid = l.objectid /\ k.offset < l.offset =>
            k.offset + readProofs!Length(f.tree[k]) <= l.offset
<1> SUFFICES ASSUME NEW f \in ReadFiles, NEW k \in {k \in DOMAIN f.tree : k.type = EXTENT_DATA},
                    NEW l \in {l \in DOMAIN f.tree : l.type = EXTENT_DATA},
                    k.objectid = l.objectid, k.offset < l.offset
             PROVE  k.offset + reading!Length(f.tree[k]) <= l.offset
  BY SameData
<1>1. f.tree \in KnownTrees \cup {<<>>} /\ k \in ExtentsIn(f.tree) /\ l \in ExtentsIn(f.tree)
  BY DEF ReadFiles, ExtentsIn
<1>2. Reach(f.tree, k) <= l.offset
  BY <1>1, KnownTree, Zenon
<1>. QED  BY <1>2 DEF Reach

\* The two instances of BtrfsRead search for the same extent, and find the same,
LEMMA SameSearch ==
    /\ reading!Query = readProofs!Query
    /\ reading!Finds <=> readProofs!Finds
    /\ reading!Found = readProofs!Found
    /\ reading!KeyAfter = readProofs!KeyAfter
    /\ reading!LeafIsLost <=> readProofs!LeafIsLost
    /\ reading!OutOfRange <=> readProofs!OutOfRange
<1>1. reading!Query = readProofs!Query
  BY DEF reading!Query, readProofs!Query
<1>2. \A k, l : reading!KeyLess(k, l) <=> readProofs!KeyLess(k, l)
  BY DEF reading!KeyLess, readProofs!KeyLess
<1>3. \A k, l : reading!KeyLeq(k, l) <=> readProofs!KeyLeq(k, l)
  BY <1>2 DEF reading!KeyLeq, readProofs!KeyLeq
<1>4. \A keys, k : reading!NotAbove(keys, k) = readProofs!NotAbove(keys, k)
  BY <1>3 DEF reading!NotAbove, readProofs!NotAbove
<1>5. \A keys, k : /\ reading!SearchFinds(keys, k) <=> readProofs!SearchFinds(keys, k)
                   /\ reading!Nearest(keys, k) = readProofs!Nearest(keys, k)
  BY <1>3, <1>4 DEF reading!SearchFinds, readProofs!SearchFinds, reading!Nearest, readProofs!Nearest
<1>. QED  BY <1>1, <1>4, <1>5 DEF reading!Finds, readProofs!Finds, reading!Found, readProofs!Found,
     reading!KeyAfter, readProofs!KeyAfter, reading!LeafIsLost, readProofs!LeafIsLost, ReadImage, TreeOfFile,
     reading!SearchFaults, readProofs!SearchFaults, reading!OutOfRange, readProofs!OutOfRange,
     reading!SearchStrays, readProofs!SearchStrays

\* resolve addresses alike,
LEMMA SameResolve ==
    \A list, a : reading!Resolve(list, a) = Resolve(list, a) /\ readProofs!Resolve(list, a) = Resolve(list, a)
BY DEF reading!Resolve, readProofs!Resolve, Resolve,
       reading!FirstCovering, readProofs!FirstCovering, FirstCovering,
       reading!Covers, readProofs!Covers, Covers,
       reading!ResolveStripe, readProofs!ResolveStripe, ResolveStripe,
       reading!NullPtr, readProofs!NullPtr, NullPtr

\* and take the same branches;
LEMMA SameReading ==
    /\ reading!FindsExtent <=> readProofs!FindsExtent
    /\ (reading!Searched <=> readProofs!Searched) /\ (reading!InLoop <=> readProofs!InLoop)
    /\ \A e : reading!Source(e) = readProofs!Source(e)
    /\ \A e, length, from : reading!Copied(e, length, from) = readProofs!Copied(e, length, from)
    /\ \A e, count, from : reading!Bytes(e, count, from) = readProofs!Bytes(e, count, from)
    /\ \A n : reading!ToInt(n) = readProofs!ToInt(n) /\ (reading!GoesOn(n) <=> readProofs!GoesOn(n))
    /\ reading!ENOENT = readProofs!ENOENT /\ reading!EINVAL = readProofs!EINVAL
<1>1. reading!FindsExtent <=> readProofs!FindsExtent
  BY SameSearch DEF reading!FindsExtent, readProofs!FindsExtent,
     reading!EXTENT_DATA, readProofs!EXTENT_DATA
<1>2. (reading!Searched <=> readProofs!Searched) /\ (reading!InLoop <=> readProofs!InLoop)
  BY SameSearch DEF reading!Searched, readProofs!Searched, reading!InLoop, readProofs!InLoop
<1>3. ASSUME NEW e PROVE reading!Source(e) = readProofs!Source(e)
  BY SameResolve DEF reading!Source, readProofs!Source, ReadImage
<1>4. \A e, count, from : reading!Bytes(e, count, from) = readProofs!Bytes(e, count, from)
  BY <1>3 DEF reading!Bytes, readProofs!Bytes, reading!Zero, readProofs!Zero
<1>5. \A e, length, from : reading!Copied(e, length, from) = readProofs!Copied(e, length, from)
  BY DEF reading!Copied, readProofs!Copied
<1>6. \A n : reading!ToInt(n) = readProofs!ToInt(n) /\ (reading!GoesOn(n) <=> readProofs!GoesOn(n))
  BY DEF reading!ToInt, readProofs!ToInt, reading!GoesOn, readProofs!GoesOn
<1>. QED  BY <1>1, <1>2, <1>3, <1>4, <1>5, <1>6
  DEF reading!ENOENT, readProofs!ENOENT, reading!EINVAL, readProofs!EINVAL

\* so a step of one is a step of the other.
LEMMA ReadingSteps ==
    ASSUME UNCHANGED ReadImage, reading!Step
    PROVE  readProofs!Step
<1>1. ReadImage.tree = TreeOfFile
  BY DEF ReadImage
<1>2. reading!NoExtent => readProofs!NoExtent
  BY SameReading DEF reading!NoExtent, readProofs!NoExtent
<1>3. reading!UnknownExtent => readProofs!UnknownExtent
  BY <1>1, SameReading, SameSearch DEF reading!UnknownExtent, readProofs!UnknownExtent, TreeOfFile
<1>4. reading!ResolveFaults => readProofs!ResolveFaults
  BY <1>1, SameReading, SameSearch DEF reading!ResolveFaults, readProofs!ResolveFaults, TreeOfFile
<1>5. reading!SearchFaultsInLeaf => readProofs!SearchFaultsInLeaf
  BY <1>1, SameReading, SameSearch DEF reading!SearchFaultsInLeaf, readProofs!SearchFaultsInLeaf
<1>6. reading!CopyExtent => readProofs!CopyExtent
  BY <1>1, SameReading, SameSearch DEF reading!CopyExtent, readProofs!CopyExtent, TreeOfFile
<1>7. reading!ReturnAll => readProofs!ReturnAll
  BY SameReading DEF reading!ReturnAll, readProofs!ReturnAll
<1>8. reading!SearchGoesAstray => readProofs!SearchGoesAstray
  BY <1>1, SameReading, SameSearch DEF reading!SearchGoesAstray, readProofs!SearchGoesAstray
<1>. QED  BY <1>2, <1>3, <1>4, <1>5, <1>6, <1>7, <1>8 DEF reading!Step, readProofs!Step

\* No address of a known disk is a fault.
LEMMA NoFault ==
    ASSUME Known, OpenInv, NEW a \in Nat
    PROVE  Resolve(chunkList, a) /= Fault
BY FaultsInTwoStripes, OnlyMemoryLosesChunks

\* An extent of a file, as a handle sees it: whole, with its bytes or with zeros for
\* those that it lost.
LEMMA ExtentSeen ==
    ASSUME Known, OpenInv, openPc = "open", NEW e \in Extent, NEW at \in Nat, NEW bytes \in Seq(Int),
           HoldsExtent(Disks[disk], e, at, bytes)
    PROVE  /\ e.type \in {"inline", "reg"} /\ reading!Length(e) = e.ramBytes
           /\ readProofs!Whole(e)
           /\ \A n \in 0 .. e.ramBytes - 1 : at + n < Len(bytes) =>
                LET b == IF readProofs!Source(e) = Unmapped THEN reading!Zero
                         ELSE readProofs!Source(e) + n
                IN  b = bytes[at + n + 1] \/ (outOfMemory /\ b = reading!Zero)
<1> DEFINE from == bytes[at + 1]
           InFile == {n \in 0 .. e.ramBytes - 1 : at + n < Len(bytes)}
           a == e.diskBytenr
           src == readProofs!Source(e)
<1>1. /\ e.ramBytes \in Nat /\ a \in Nat /\ e.inlineAt \in Nat /\ e.offset \in Nat
      /\ e.numBytes \in Nat /\ Len(bytes) \in Nat /\ at < Len(bytes) /\ from \in Int
  <2>1. at < Len(bytes)
    BY DEF HoldsExtent
  <2>. QED  BY <2>1 DEF Extent
<1>2. CASE e.type = "inline"
  <2>1. src = e.inlineAt /\ src /= Unmapped
    BY <1>1, <1>2, PointersAssumption DEF readProofs!Source
  <2>2. \A n \in InFile : bytes[at + n + 1] = e.inlineAt + n
    BY <1>2 DEF HoldsExtent
  <2>3. reading!Length(e) = e.ramBytes /\ readProofs!Whole(e)
    BY <1>2 DEF reading!Length, readProofs!Whole
  <2> HIDE DEF src
  <2>. QED  BY <1>1, <1>2, <2>1, <2>2, <2>3 DEF src
<1>3. CASE e.type /= "inline"
  <2>1. e.type = "reg" /\ e.offset = 0 /\ e.numBytes = e.ramBytes
    BY <1>3 DEF HoldsExtent
  <2>2. reading!Length(e) = e.ramBytes
    BY <2>1 DEF reading!Length
  <2>3. CASE a = 0
    <3>1. src = Unmapped
      BY <1>3, <2>3 DEF readProofs!Source
    <3>2. \A n \in InFile : bytes[at + n + 1] = reading!Zero
      BY <1>3, <2>3 DEF HoldsExtent
    <3>3. readProofs!Whole(e)
      BY <2>1, <2>3 DEF readProofs!Whole
    <3> HIDE DEF src
    <3>. QED  BY <1>1, <2>1, <2>2, <3>1, <3>2, <3>3 DEF src
  <2>4. CASE a /= 0
    <3>1. src = Resolve(chunkList, a)
      BY <1>3, <2>4, SameResolve DEF readProofs!Source, ReadImage
    <3>2. PICK c \in opening!ChunksOf(OpenImage(Disks[disk])) :
            /\ \A n \in 0 .. e.ramBytes - 1 :
                opening!Within(c, a + n) /\ HoldsByte(c, from + n, a + n - c.start)
            /\ \A n \in InFile : bytes[at + n + 1] = from + n
      BY <1>3, <2>4, Zenon DEF HoldsExtent
    <3>3. src /= Fault
      BY <1>1, <3>1, NoFault
    <3>4. readProofs!Whole(e) <=>
            \A n \in 0 .. e.ramBytes - 1 :
                Resolve(chunkList, a + n) = IF src = Unmapped THEN Unmapped ELSE src + n
      BY <1>3, <2>1, <2>4, <3>1, <3>3, SameResolve DEF readProofs!Whole, ReadImage
    <3> HIDE DEF src
    <3>5. CASE \A n \in 0 .. e.ramBytes - 1 : Resolve(chunkList, a + n) = from + n
      <4>1. 0 < e.ramBytes => src = from
        <5> SUFFICES ASSUME 0 < e.ramBytes PROVE src = from
          OBVIOUS
        <5>1. 0 \in 0 .. e.ramBytes - 1 /\ a + 0 = a /\ from + 0 = from
          BY <1>1
        <5>2. Resolve(chunkList, a + 0) = from + 0
          BY <3>5, <5>1, Zenon
        <5>. QED  BY <3>1, <5>1, <5>2, Zenon
      <4>2. readProofs!Whole(e)
        BY <1>1, <3>4, <3>5, <4>1, PointersAssumption
      <4>. QED  BY <1>1, <2>1, <2>2, <3>2, <4>1, <4>2, PointersAssumption DEF src
    <3>6. CASE \A n \in 0 .. e.ramBytes - 1 : Resolve(chunkList, a + n) = Unmapped
      <4>1. 0 < e.ramBytes => src = Unmapped
        <5> SUFFICES ASSUME 0 < e.ramBytes PROVE src = Unmapped
          OBVIOUS
        <5>1. 0 \in 0 .. e.ramBytes - 1 /\ a + 0 = a
          BY <1>1
        <5>2. Resolve(chunkList, a + 0) = Unmapped
          BY <3>6, <5>1, Zenon
        <5>. QED  BY <3>1, <5>1, <5>2, Zenon
      <4>2. readProofs!Whole(e)
        BY <1>1, <3>4, <3>6, <4>1
      <4>3. 0 < e.ramBytes => outOfMemory
        <5> SUFFICES ASSUME 0 < e.ramBytes, ~ outOfMemory PROVE FALSE
          OBVIOUS
        <5>1. opening!Within(c, a + 0) /\ 0 \in 0 .. e.ramBytes - 1
          BY <1>1, <3>2
        <5>2. opening!Within(c, a)
          BY <1>1, <5>1
        <5>3. IsMapped(chunkList, a)
          BY <1>1, <5>2, AddressIsMapped, OnlyMemoryLosesChunks, SameChunks
        <5>. QED  BY <3>1, <4>1, <5>3 DEF IsMapped
      <4>4. \A n \in 0 .. e.ramBytes - 1 : src = Unmapped /\ outOfMemory
        BY <1>1, <4>1, <4>3
      <4>5. ASSUME NEW n \in 0 .. e.ramBytes - 1
            PROVE  outOfMemory /\ (IF src = Unmapped THEN reading!Zero ELSE src + n) = reading!Zero
        BY <4>4, Zenon
      <4>6. e.type \in {"inline", "reg"} /\ reading!Length(e) = e.ramBytes
        BY <2>1, <2>2
      <4>. QED  BY <4>2, <4>5, <4>6, Zenon DEF src
    <3>7. \A n \in 0 .. e.ramBytes - 1 : a + n \in Nat
      <4> SUFFICES ASSUME NEW n \in 0 .. e.ramBytes - 1 PROVE a + n \in Nat
        OBVIOUS
      <4>1. a \in Nat /\ n \in Nat
        BY <1>1
      <4>. QED  BY <4>1
    <3>9. c.start \in Nat
      <4>1. c \in openProofs!Chunk
        BY <3>2, ChunksFacts, SameChunks
      <4>. QED  BY <4>1 DEF openProofs!Chunk
    <3>8. \/ \A n \in 0 .. e.ramBytes - 1 : Resolve(chunkList, a + n) = from + n
          \/ \A n \in 0 .. e.ramBytes - 1 : Resolve(chunkList, a + n) = Unmapped
      <4>1. CASE \A x \in Nat : \A place :
                   opening!Within(c, x) /\ HoldsByte(c, place, x - c.start) => Resolve(chunkList, x) = place
        <5>1. ASSUME NEW n \in 0 .. e.ramBytes - 1 PROVE Resolve(chunkList, a + n) = from + n
          <6>1. opening!Within(c, a + n) /\ HoldsByte(c, from + n, a + n - c.start) /\ a + n \in Nat
            BY <3>2, <3>7
          <6>2. a + n - c.start = (a + n) - c.start
            BY <1>1, <3>9
          <6>. QED  BY <4>1, <6>1, <6>2, Zenon
        <5>. QED  BY <5>1
      <4>2. CASE \A x \in Nat : opening!Within(c, x) => Resolve(chunkList, x) = Unmapped
        BY <3>2, <3>7, <4>2
      <4>3. Known /\ OpenInv /\ c \in opening!ChunksOf(OpenImage(Disks[disk]))
        BY <3>2
      <4>. QED  BY <4>1, <4>2, <4>3, ChunkResolves, Zenon
    <3>. QED  BY <3>5, <3>6, <3>8
  <2>. QED  BY <2>3, <2>4
<1>. QED  BY <1>2, <1>3

\* The object that a call reads, and its place, are those of its path.
AtNamed ==
    /\ openPc = "open" /\ fsTree \in Nat /\ objectid \in Nat
    /\ Id \in DOMAIN Held.objects /\ Place = Held.places[Id]

\* What the disk holds of the named object, and what of it the handle sees.
LEMMA NamedFacts ==
    ASSUME Known, IInv, AtNamed
    PROVE  /\ fsTree \in DOMAIN Disks[disk].trees
           /\ Full.trees[fsTree] = ItemsOf(Disks[disk].trees[fsTree])
           /\ HoldsInode(Full.trees[fsTree], objectid, Named)
           /\ HoldsBytes(Disks[disk], Full.trees[fsTree], objectid, Named)
           /\ Len(Named.bytes) \in Nat /\ Named.bytes \in Seq(Int)
           /\ DOMAIN Named.entries = {e.name : e \in EntriesOf(Full, Place)}
           /\ fsTree \in DOMAIN image.trees => image.trees[fsTree] = Full.trees[fsTree]
           /\ ~ outOfMemory => fsTree \in DOMAIN image.trees
<1>1. Place.tree = fsTree /\ Place.objectid = objectid
  BY DEF Place
<1>2. /\ fsTree \in DOMAIN Disks[disk].trees
      /\ Full.trees[fsTree] = ItemsOf(Disks[disk].trees[fsTree])
      /\ HoldsInode(Full.trees[fsTree], objectid, Named)
      /\ HoldsBytes(Disks[disk], Full.trees[fsTree], objectid, Named)
      /\ DOMAIN Named.entries = {e.name : e \in EntriesOf(Full, Place)}
  <2>1. LET o     == Held.objects[Id]
            place == Held.places[Id]
            items == ItemsOf(Disks[disk].trees[place.tree])
        IN  /\ place.tree \in DOMAIN Disks[disk].trees /\ Full.trees[place.tree] = items
            /\ HoldsInode(items, place.objectid, o)
            /\ HoldsBytes(Disks[disk], items, place.objectid, o)
            /\ DOMAIN o.entries = {e.name : e \in EntriesOf(Full, place)}
    BY ObjectFacts, Zenon DEF AtNamed
  <2>2. Place = Held.places[Id]
    BY DEF AtNamed
  <2>. QED  BY <1>1, <2>1, <2>2, Zenon DEF Named
<1>3. Len(Named.bytes) \in Nat /\ Named.bytes \in Seq(Int)
  BY <1>2 DEF HoldsBytes
<1>4. OpenInv /\ SeesDisk /\ openPc = "open"
  BY DEF IInv, AtNamed
<1>5. /\ fsTree \in DOMAIN image.trees => image.trees[fsTree] = Full.trees[fsTree]
      /\ ~ outOfMemory => fsTree \in DOMAIN image.trees
  <2>1. DOMAIN Full.trees = DOMAIN Disks[disk].trees
    BY FullFacts
  <2>2. fsTree \in DOMAIN image.trees => image.trees[fsTree] = Full.trees[fsTree]
    BY <1>4, SeenFacts, Zenon
  <2>3. ~ outOfMemory => DOMAIN image.trees = DOMAIN Full.trees
    BY <1>4, WholeSeesAll, Zenon
  <2>. QED  BY <1>2, <2>1, <2>2, <2>3
<1>. QED  BY <1>2, <1>3, <1>5

\* What a read reads from is one of the things that reads of known disks read from.
LEMMA ReadImageType ==
    ASSUME Known, IInv, AtNamed
    PROVE  ReadImage \in ReadFiles
<1>1. OpenInv /\ SeesDisk /\ openPc = "open"
  BY DEF IInv, AtNamed
<1>2. TreeOfFile \in KnownTrees \cup {<<>>}
  <2>1. CASE fsTree \in DOMAIN image.trees
    <3>1. TreeOfFile = ItemsOf(Disks[disk].trees[fsTree]) /\ fsTree \in DOMAIN Disks[disk].trees
      BY <2>1, NamedFacts DEF TreeOfFile
    <3>. QED  BY <3>1 DEF KnownTrees, Known
  <2>2. CASE fsTree \notin DOMAIN image.trees
    BY <2>2 DEF TreeOfFile
  <2>. QED  BY <2>1, <2>2
<1>3. LostOf(image, fsTree) \subseteq DOMAIN TreeOfFile
  <2>1. CASE fsTree \in DOMAIN image.trees
    <3>1. image.lost[fsTree] = LostKeys(chunkList, Disks[disk].trees[fsTree])
      BY <1>1, <2>1, ViewFacts, Zenon
    <3>2. DOMAIN TreeOfFile = KeysIn(Disks[disk].trees[fsTree])
      BY <2>1, NamedFacts DEF TreeOfFile, ItemsOf
    <3>. QED  BY <2>1, <3>1, <3>2 DEF LostOf, LostKeys, KeysIn
  <2>2. CASE fsTree \notin DOMAIN image.trees
    BY <2>2 DEF LostOf
  <2>. QED  BY <2>1, <2>2
<1>4. DOMAIN TreeOfFile \subseteq Key
  BY <1>2, KnownTree
<1>5. chunkList \in Seq(Node)
  BY <1>1, ListType
<1>6. [n \in Nat |-> Len(Named.bytes)] \in [Nat -> Nat]
  BY NamedFacts
<1> DEFINE tree == TreeOfFile
           lost == LostOf(image, fsTree)
           inner == IsInner(image, fsTree)
           sizes == [n \in Nat |-> Len(Named.bytes)]
<1>7. ReadImage = [tree |-> tree, lost |-> lost, inner |-> inner, chunks |-> chunkList, sizes |-> sizes]
  BY DEF ReadImage
<1>8. /\ tree \in KnownTrees \cup {<<>>} /\ lost \subseteq DOMAIN tree /\ lost \in SUBSET Key
      /\ chunkList \in Seq(Node) /\ sizes \in [Nat -> Nat]
  BY <1>2, <1>3, <1>4, <1>5, <1>6
<1>9. inner \in BOOLEAN
  BY DEF IsInner
<1> HIDE DEF tree, lost, inner, sizes
<1>. QED  BY <1>7, <1>8, <1>9 DEF ReadFiles

\* The extents of the file that is read are those that the disk holds it in.
LEMMA FileHeld ==
    ASSUME Known, IInv, AtNamed, readProofs!TypeOK, request.file = objectid
    PROVE  /\ readProofs!Size = Len(Named.bytes)
           /\ \A k \in readProofs!Extents :
                /\ HoldsExtent(Disks[disk], TreeOfFile[k], k.offset, Named.bytes)
                /\ k.offset \in Nat /\ TreeOfFile[k] \in Extent
           /\ readProofs!WholeExtents
           /\ fsTree \in DOMAIN image.trees => readProofs!Dense
           /\ \A k \in readProofs!Extents : \A position \in 0 .. Len(Named.bytes) - 1 :
                readProofs!Holds(k, position) =>
                    LET b == readProofs!FileByte(position) IN
                    b = Named.bytes[position + 1] \/ (outOfMemory /\ b = reading!Zero)
           /\ \A k \in readProofs!Extents :
                Named.kind = "link" => k.offset + readProofs!Length(TreeOfFile[k]) <= Len(Named.bytes)
<1> DEFINE size == Len(Named.bytes)
<1>1. ReadImage.tree = TreeOfFile /\ ReadImage.sizes = [n \in Nat |-> Len(Named.bytes)]
  BY DEF ReadImage
<1>2. size \in Nat /\ Named.bytes \in Seq(Int) /\ readProofs!Size = size
  BY <1>1, NamedFacts DEF readProofs!Size, AtNamed
<1>3. OpenInv /\ openPc = "open"
  BY DEF IInv, AtNamed
<1>4. ASSUME NEW k \in readProofs!Extents
      PROVE  /\ fsTree \in DOMAIN image.trees /\ TreeOfFile = Full.trees[fsTree]
             /\ k \in ExtentsIn(Full.trees[fsTree]) /\ k.objectid = objectid
             /\ HoldsExtent(Disks[disk], TreeOfFile[k], k.offset, Named.bytes)
             /\ k.offset \in Nat /\ TreeOfFile[k] \in Extent
             /\ readProofs!Length(TreeOfFile[k]) = reading!Length(TreeOfFile[k])
             /\ Named.kind = "link" => k.offset + readProofs!Length(TreeOfFile[k]) <= Len(Named.bytes)
  <2>1. k \in DOMAIN TreeOfFile /\ k.type = EXTENT_DATA /\ k.objectid = objectid
    BY <1>1, SameData DEF readProofs!Extents
  <2>2. fsTree \in DOMAIN image.trees /\ TreeOfFile = Full.trees[fsTree]
    BY <2>1, NamedFacts DEF TreeOfFile
  <2>3. k \in ExtentsIn(Full.trees[fsTree])
    BY <2>1, <2>2 DEF ExtentsIn
  <2>4. /\ HoldsExtent(Disks[disk], Full.trees[fsTree][k], k.offset, Named.bytes)
        /\ Named.kind = "link" => Reach(Full.trees[fsTree], k) <= Len(Named.bytes)
    <3>1. HoldsBytes(Disks[disk], Full.trees[fsTree], objectid, Named)
      BY NamedFacts
    <3>. QED  BY <2>1, <2>3, <3>1 DEF HoldsBytes
  <2>5. k.offset \in Nat /\ TreeOfFile[k] \in Extent
    <3>1. ReadImage \in ReadFiles
      BY ReadImageType
    <3>2. TreeOfFile \in KnownTrees \cup {<<>>}
      BY <1>1, <3>1 DEF ReadFiles
    <3>3. k \in Key /\ TreeOfFile[k] \in Extent
      BY <2>1, <3>2, KnownTree
    <3>. QED  BY <3>3 DEF Key
  <2>6. readProofs!Length(TreeOfFile[k]) = reading!Length(TreeOfFile[k])
    BY SameData
  <2>. QED  BY <2>1, <2>2, <2>3, <2>4, <2>5, <2>6 DEF Reach
<1>5. ASSUME NEW k \in readProofs!Extents
      PROVE  LET e == TreeOfFile[k] IN
             /\ reading!Length(e) = e.ramBytes /\ readProofs!Whole(e)
             /\ \A n \in 0 .. e.ramBytes - 1 : k.offset + n < size =>
                    LET b == IF readProofs!Source(e) = Unmapped THEN reading!Zero
                             ELSE readProofs!Source(e) + n
                    IN  b = Named.bytes[k.offset + n + 1] \/ (outOfMemory /\ b = reading!Zero)
  BY <1>2, <1>3, <1>4, ExtentSeen, Zenon
<1>6. readProofs!WholeExtents
  BY <1>1, <1>5 DEF readProofs!WholeExtents
<1>7. fsTree \in DOMAIN image.trees => readProofs!Dense
  <2> SUFFICES ASSUME fsTree \in DOMAIN image.trees, NEW position \in 0 .. size - 1
               PROVE  \E k \in readProofs!Extents : readProofs!Holds(k, position)
    BY <1>2 DEF readProofs!Dense
  <2>1. HoldsBytes(Disks[disk], Full.trees[fsTree], objectid, Named)
    BY NamedFacts
  <2>2. PICK k \in ExtentsIn(Full.trees[fsTree]) :
            k.objectid = objectid /\ k.offset <= position /\ position < Reach(Full.trees[fsTree], k)
    BY <2>1 DEF HoldsBytes
  <2>3. TreeOfFile = Full.trees[fsTree]
    BY NamedFacts DEF TreeOfFile
  <2>4. k \in readProofs!Extents
    BY <1>1, <2>2, <2>3, SameData DEF readProofs!Extents, ExtentsIn
  <2>5. readProofs!Holds(k, position)
    BY <1>1, <1>4, <2>2, <2>3, <2>4 DEF readProofs!Holds, Reach
  <2>. QED  BY <2>4, <2>5
<1>8. ASSUME NEW k \in readProofs!Extents, NEW position \in 0 .. size - 1,
             readProofs!Holds(k, position)
      PROVE  LET b == readProofs!FileByte(position) IN
             b = Named.bytes[position + 1] \/ (outOfMemory /\ b = reading!Zero)
  <2> DEFINE e == TreeOfFile[k]
             n == position - k.offset
             b == readProofs!FileByte(position)
  <2>1. position \in Nat /\ position < size /\ e.ramBytes \in Nat
    BY <1>2, <1>4 DEF Extent
  <2>2. n \in 0 .. e.ramBytes - 1 /\ k.offset + n = position /\ k.offset + n + 1 = position + 1
    <3>1. k.offset <= position /\ position < k.offset + readProofs!Length(e)
      BY <1>1, <1>8 DEF readProofs!Holds
    <3>2. readProofs!Length(e) = e.ramBytes
      BY <1>4, <1>5
    <3>. QED  BY <1>4, <2>1, <3>1, <3>2
  <2>3. b = IF readProofs!Source(e) = Unmapped THEN reading!Zero ELSE readProofs!Source(e) + n
    <3>1. b = readProofs!ByteIn(e, n)
      BY <1>1, <1>8, <2>1, readProofs!HeldByte, ReadFilesAssumption, ReadRequestsAssumption,
         ReadExtentsAssumption, PointersAssumption, IntLimitAssumption
    <3>2. readProofs!ByteIn(e, n) = IF readProofs!Source(e) = Unmapped THEN readProofs!Zero
                                       ELSE readProofs!Source(e) + n
      BY <1>1, <1>5, <2>2, readProofs!WholeByte, ReadFilesAssumption, ReadRequestsAssumption,
         ReadExtentsAssumption, PointersAssumption, IntLimitAssumption
    <3>. QED  BY <3>1, <3>2, SameData
  <2> HIDE DEF e, n, b
  <2>. QED  BY <1>5, <2>1, <2>2, <2>3 DEF e, n, b
<1>. QED  BY <1>2, <1>4, <1>6, <1>7, <1>8

\* What is known of a read while it runs: the theorems about reads, and what comes of
\* them for the object that the path of the call leads to.
ReadInv ==
    Known /\ pc = "read" =>
        /\ call.slash /\ AtNamed
        /\ readProofs!IInv /\ readProofs!StaysInBuffer
        /\ readProofs!ReadsContent /\ readProofs!ReadsToTheEnd
        /\ Named.kind = "link" => Len(buf) <= Len(Named.bytes)
        /\ fsTree \notin DOMAIN image.trees => buf = <<>>
        /\ readPc = "done" =>
            \/ readRet \in Nat /\ (fsTree \notin DOMAIN image.trees => call.length = 0)
            \/ readRet = ENOENT /\ (fsTree \notin DOMAIN image.trees \/ Len(Named.bytes) = 0)

\* The properties of a read that the theorems about reads show hold when it begins.
LEMMA ReadBegins ==
    readProofs!Init =>
        readProofs!IInv /\ readProofs!StaysInBuffer /\ readProofs!ReadsContent /\ readProofs!ReadsToTheEnd
<1> SUFFICES ASSUME readProofs!Init
             PROVE  readProofs!IInv /\ readProofs!StaysInBuffer
                    /\ readProofs!ReadsContent /\ readProofs!ReadsToTheEnd
  OBVIOUS
<1>1. readProofs!IInv
  BY readProofs!InitIInv, ReadFilesAssumption, ReadRequestsAssumption,
     ReadExtentsAssumption, PointersAssumption, IntLimitAssumption
<1>2. buf = <<>> /\ readPc = "loop" /\ request.length \in Nat
  BY DEF readProofs!Init, ReadRequests
<1>. QED  BY <1>1, <1>2 DEF readProofs!StaysInBuffer, readProofs!ReadsContent, readProofs!GivesContent,
     readProofs!ReadsToTheEnd

\* So they do in the state in which it has begun.
LEMMA ReadBeginsNext ==
    readProofs!Init' =>
        readProofs!IInv' /\ readProofs!StaysInBuffer' /\ readProofs!ReadsContent' /\ readProofs!ReadsToTheEnd'
BY ReadBegins, PTL

\* The named object stays the same during a call.
LEMMA NamedStays ==
    ASSUME UNCHANGED <<disk, openVars, image, call, fsTree, objectid>>
    PROVE  /\ Id' = Id /\ Named' = Named /\ (AtNamed' <=> AtNamed) /\ (Known' <=> Known)
           /\ Place' = Place /\ TreeOfFile' = TreeOfFile /\ UNCHANGED ReadImage
           /\ Held' = Held /\ Mounted' = Mounted /\ Full' = Full
<1>1. openPc' = openPc /\ chunkList' = chunkList /\ outOfMemory' = outOfMemory /\ disk' = disk
  BY DEF openVars
<1>2. Held' = Held /\ Full' = Full /\ (Known' <=> Known)
  BY <1>1 DEF Held, Full, Known
<1>3. Mounted' = Mounted
  BY <1>1, <1>2 DEF Mounted
<1>4. Id' = Id
  BY <1>3 DEF Id
<1>5. Named' = Named /\ Place' = Place /\ TreeOfFile' = TreeOfFile
  BY <1>2, <1>4 DEF Named, Place, TreeOfFile
<1>6. AtNamed' <=> AtNamed
  BY <1>1, <1>2, <1>4, <1>5 DEF AtNamed
<1>7. LostOf(image, fsTree)' = LostOf(image, fsTree)
  BY DEF LostOf
<1>8. ReadImage' = ReadImage
  BY <1>1, <1>5, <1>7 DEF ReadImage
<1>. QED  BY <1>1, <1>2, <1>3, <1>4, <1>5, <1>6, <1>8

\* A walk that has reached its file has reached the object.
LEMMA LocatedIsNamed ==
    ASSUME Known, IInv, PathInv, pc = "located", located = 0
    PROVE  AtNamed /\ call.slash
<1>1. OpenInv /\ SeesDisk /\ openPc = "open" /\ call.slash /\ walked = Len(call.path)
      /\ objectid \in Nat /\ Len(call.path) \in Nat
  BY CallFacts DEF IInv, AtPc
<1>2. Place = PlacesOn(image, call.path)[Len(call.path)] /\ Place /= Nowhere
  <2>1. Intact(image)
    BY <1>1, SeenIntact
  <2>. QED  BY <1>1, <2>1, PlaceFacts DEF PathInv, FollowsPath, Walking
<1>3. Id \in DOMAIN Held.objects /\ Place = Held.places[Id]
  <2>1. Len(call.path) \in 0 .. Len(call.path)
    BY <1>1
  <2>2. LET id == Fs!ObjectsOn(Mounted, call.path)[Len(call.path)] IN
        PlacesOn(image, call.path)[Len(call.path)] /= Nowhere =>
            id \in DOMAIN Held.objects /\ PlacesOn(image, call.path)[Len(call.path)] = Held.places[id]
    BY <1>1, <2>1, PathSeen
  <2>. QED  BY <1>2, <2>2 DEF Id
<1>4. fsTree \in Nat
  <2>1. Place.tree \in DOMAIN Disks[disk].trees
    BY <1>3, ObjectFacts, Zenon
  <2>2. disk \in DOMAIN Disks
    BY KnownFacts
  <2>3. DOMAIN Disks[disk].trees \subseteq Nat
    BY <2>2, DiskFacts
  <2>. QED  BY <2>1, <2>3 DEF Place
<1>. QED  BY <1>1, <1>3, <1>4 DEF AtNamed

\* A read begins at the object that the path leads to.
LEMMA StartReadReads ==
    ASSUME Known, IInv, PathInv, StartRead
    PROVE  ReadInv'
<1>1. /\ AtNamed /\ call.slash /\ call \in Calls /\ call.length \in Nat
      /\ pc = "located" /\ objectid \in Nat /\ request'.offset \in Nat
  <2>1. pc = "located" /\ located = 0 /\ call.op \in {"read", "readlink"}
    BY DEF StartRead, Located
  <2>2. call \in Calls /\ objectid \in Nat
    BY <2>1, CallFacts
  <2>3. call.offset \in Nat /\ call.length \in Nat
    BY <2>1, <2>2, ReadCall
  <2>. QED  BY <2>1, <2>2, <2>3, LocatedIsNamed DEF StartRead
<1>2. UNCHANGED <<disk, openVars, image, call, fsTree, objectid>>
  BY DEF StartRead
<1>3. /\ AtNamed' /\ ReadImage' = ReadImage /\ call' = call
  BY <1>1, <1>2, NamedStays
<1>4. readProofs!Init'
  <2>1. ReadImage' \in ReadFiles
    BY <1>1, <1>3, ReadImageType
  <2>2. request' \in ReadRequests /\ request'.file = objectid
    BY <1>1 DEF StartRead, ReadRequests
  <2>3. /\ key' = [objectid |-> request'.file, type |-> readProofs!EXTENT_DATA, offset |-> 0]
        /\ offset' = request'.offset /\ bytesRead' = 0 /\ buf' = <<>> /\ readRet' = 0 /\ readPc' = "loop"
    BY <2>2, SameData DEF StartRead
  <2>. QED  BY <2>1, <2>2, <2>3 DEF readProofs!Init
<1>5. buf' = <<>> /\ readPc' = "loop"
  BY DEF StartRead
<1>6. Named.kind = "link" => Len(buf') <= Len(Named'.bytes)
  BY <1>1, <1>2, <1>5, NamedStays, NamedFacts
<1>7. Named' = Named
  BY <1>2, NamedStays
<1>. QED  BY <1>1, <1>2, <1>3, <1>4, <1>5, <1>6, <1>7, ReadBeginsNext DEF ReadInv

\* Of a file that the handle sees and that has bytes an extent is always found.
LEMMA ExtentIsFound ==
    ASSUME Known, IInv, AtNamed, readProofs!IInv, request.file = objectid, readPc = "loop",
           fsTree \in DOMAIN image.trees, Len(Named.bytes) > 0
    PROVE  readProofs!FindsExtent
<1>1. readProofs!TypeOK
  BY DEF readProofs!IInv
<1>2. Len(Named.bytes) \in Nat
  BY NamedFacts
<1>3. readProofs!Size = Len(Named.bytes) /\ readProofs!Dense
  BY <1>1, FileHeld
<1>4. PICK k \in readProofs!Extents : readProofs!Holds(k, 0)
  <2>1. 0 \in 0 .. readProofs!Size - 1
    BY <1>2, <1>3
  <2>. QED  BY <1>3, <2>1 DEF readProofs!Dense
<1>5. k.offset <= offset
  <2>1. k.offset \in Nat /\ k.offset <= 0 /\ offset \in Nat
    BY <1>1, <1>4, FileHeld DEF readProofs!Holds, readProofs!TypeOK
  <2>. QED  BY <2>1
<1>. QED  BY <1>4, <1>5, readProofs!SearchFindsExtent, ReadFilesAssumption,
              ReadRequestsAssumption, ReadExtentsAssumption, PointersAssumption, IntLimitAssumption

\* One iteration of a read.
LEMMA ReadingReads ==
    ASSUME Known, IInv, ReadInv, Reading
    PROVE  ReadInv'
<1>1. /\ pc = "read" /\ pc' = "read" /\ reading!Step
      /\ UNCHANGED <<disk, openVars, image, call, fsTree, objectid>>
  BY DEF Reading, vars
<1>2. /\ call.slash /\ AtNamed
      /\ readProofs!IInv /\ readProofs!StaysInBuffer
      /\ readProofs!ReadsContent /\ readProofs!ReadsToTheEnd
      /\ Named.kind = "link" => Len(buf) <= Len(Named.bytes)
      /\ fsTree \notin DOMAIN image.trees => buf = <<>>
  BY <1>1 DEF ReadInv
<1>3. /\ AtNamed' /\ ReadImage' = ReadImage /\ Named' = Named /\ call' = call /\ image' = image
      /\ fsTree' = fsTree
  BY <1>1, <1>2, NamedStays
<1>4. readProofs!Step
  BY <1>1, <1>3, ReadingSteps
<1>5. [readProofs!Next]_readProofs!vars
  BY <1>4 DEF readProofs!Next
<1>6. /\ readProofs!IInv' /\ readProofs!StaysInBuffer'
      /\ readProofs!ReadsContent' /\ readProofs!ReadsToTheEnd'
  BY <1>2, <1>5, readProofs!NextIInv, readProofs!StaysInBufferKept,
     readProofs!ReadsContentKept, readProofs!ReadsToTheEndKept, ReadFilesAssumption,
     ReadRequestsAssumption, ReadExtentsAssumption, PointersAssumption, IntLimitAssumption
<1>7. /\ request.file = objectid /\ request.length = call.length
      /\ call.length \in Nat /\ call.length < IntLimit /\ IntLimit \in Nat
  <2>1. request = [file |-> objectid, length |-> call.length,
                   offset |-> IF call.op = "read" THEN call.offset ELSE 0]
    BY <1>1 DEF IInv, AtRead
  <2>. QED  BY <1>1, <2>1, ReadFacts, IntLimitAssumption
<1>8. /\ readProofs!TypeOK /\ Len(buf) \in Nat /\ bytesRead \in Nat
      /\ bytesRead <= Len(buf) /\ offset = request.offset + bytesRead /\ request.offset \in Nat
      /\ Len(Named.bytes) \in Nat
  <2>1. readProofs!TypeOK /\ bytesRead <= Len(buf) /\ offset = request.offset + bytesRead
    BY <1>2 DEF readProofs!IInv, readProofs!CountsWhatItCopied
  <2>2. buf \in Seq(Nat \cup {readProofs!Zero}) /\ bytesRead \in Nat /\ request.offset \in Nat
    BY <1>7, <2>1 DEF readProofs!TypeOK, ReadRequests
  <2>. QED  BY <1>2, <2>1, <2>2, NamedFacts
<1>9. ReadImage.tree = TreeOfFile
  BY DEF ReadImage
<1>10. readProofs!Extents /= {} => fsTree \in DOMAIN image.trees
  BY <1>9 DEF readProofs!Extents, TreeOfFile
<1> DEFINE Told ==
             readPc' = "done" =>
                \/ readRet' \in Nat /\ (fsTree \notin DOMAIN image.trees => call.length = 0)
                \/ readRet' = ENOENT /\ (fsTree \notin DOMAIN image.trees \/ Len(Named.bytes) = 0)
<1>11. readProofs!ToInt(bytesRead) = bytesRead
  <2>1. bytesRead < IntLimit
    BY <1>2, <1>7, <1>8 DEF readProofs!StaysInBuffer
  <2>. QED  BY <1>8, <2>1, readProofs!ToIntFacts, ReadFilesAssumption,
                ReadRequestsAssumption, ReadExtentsAssumption, PointersAssumption, IntLimitAssumption
<1>12. CASE readProofs!CopyExtent
  <2> DEFINE Count == readProofs!Count
             From == readProofs!From
             Found == readProofs!Found
             e == TreeOfFile[Found]
  <2>1. /\ Found \in readProofs!Extents /\ From \in Nat
        /\ Count \in 0 .. request.length - bytesRead
        /\ Count > 0 => From + Count <= e.ramBytes
        /\ readProofs!Got = Count
        /\ Len(buf') = bytesRead + Count
        /\ readProofs!Got > 0 => readPc' = readPc
        /\ readProofs!Got <= 0 => readRet' = IF readProofs!Got < 0 THEN readProofs!Got
                                       ELSE readProofs!ToInt(bytesRead)
        /\ readPc = "loop"
    BY <1>2, <1>7, <1>9, <1>12, readProofs!CopyFacts, ReadFilesAssumption,
       ReadRequestsAssumption, ReadExtentsAssumption, PointersAssumption, IntLimitAssumption
  <2>2. fsTree \in DOMAIN image.trees
    BY <1>10, <2>1
  <2>3. /\ HoldsExtent(Disks[disk], e, Found.offset, Named.bytes)
        /\ Found.offset \in Nat /\ e \in Extent
        /\ Named.kind = "link" => Found.offset + readProofs!Length(e) <= Len(Named.bytes)
    BY <1>2, <1>7, <1>8, <2>1, FileHeld, Zenon
  <2>4. readProofs!Length(e) = e.ramBytes /\ e.ramBytes \in Nat
    <3>1. reading!Length(e) = e.ramBytes
      BY <2>3 DEF HoldsExtent, reading!Length
    <3>. QED  BY <2>3, <3>1, SameData DEF Extent
  <2>5. From = offset - Found.offset
    BY DEF readProofs!From
  <2>6. Named.kind = "link" => Len(buf') <= Len(Named.bytes)
    <3> HIDE DEF Count, From, Found, e
    <3>1. CASE Count = 0
      BY <1>2, <1>8, <2>1, <3>1
    <3>2. CASE Count > 0 /\ Named.kind = "link"
      <4>1. From + Count <= e.ramBytes
        BY <2>1, <3>2
      <4>2. Found.offset + e.ramBytes <= Len(Named.bytes)
        BY <2>3, <2>4, <3>2
      <4>3. Count \in Nat /\ From \in Nat /\ Found.offset \in Nat /\ e.ramBytes \in Nat /\ offset \in Nat
        BY <1>7, <1>8, <2>1, <2>3, <2>4
      <4>4. offset + Count <= Len(Named.bytes)
        <5>1. offset + Count = Found.offset + (From + Count)
          BY <2>5, <4>3
        <5> DEFINE x == From + Count
                   at == Found.offset
        <5>2. x \in Nat /\ at \in Nat /\ offset + Count = at + x
          BY <4>3, <5>1
        <5>3. x <= e.ramBytes /\ at + e.ramBytes <= Len(Named.bytes)
          BY <4>1, <4>2
        <5> HIDE DEF x, at
        <5>. QED  BY <1>8, <4>3, <5>2, <5>3
      <4>. QED  BY <1>8, <2>1, <4>3, <4>4
    <3>. QED  BY <2>1, <3>1, <3>2
  <2>7. Told
    <3>1. CASE Count > 0
      BY <2>1, <3>1
    <3>2. CASE Count = 0
      BY <1>8, <1>11, <2>1, <2>2, <3>2
    <3>. QED  BY <2>1, <3>1, <3>2
  <2> HIDE DEF Told
  <2>8. Named'.kind = "link" => Len(buf') <= Len(Named'.bytes)
    BY <1>3, <2>6
  <2>. QED  BY <1>2, <1>3, <1>6, <2>2, <2>7, <2>8 DEF ReadInv, Told
<1>13. CASE ~ readProofs!CopyExtent
  <2>1. buf' = buf /\ (readProofs!NoExtent \/ readProofs!UnknownExtent \/ readProofs!ReturnAll
                       \/ readPc' \in {"crash", "astray"})
    BY <1>4, <1>13 DEF readProofs!Step, readProofs!ResolveFaults,
        readProofs!SearchFaultsInLeaf, readProofs!SearchGoesAstray, readProofs!NoExtent,
        readProofs!UnknownExtent, readProofs!ReturnAll
  <2>2. ASSUME readProofs!NoExtent PROVE Told
    <3>1. readRet' = ENOENT /\ ~ readProofs!FindsExtent /\ readPc = "loop"
      BY <2>2, SameData DEF readProofs!NoExtent, readProofs!Searched, readProofs!InLoop
    <3>2. fsTree \notin DOMAIN image.trees \/ Len(Named.bytes) = 0
      <4>1. ~ (fsTree \in DOMAIN image.trees /\ Len(Named.bytes) > 0)
        BY <1>2, <1>7, <3>1, ExtentIsFound
      <4>. QED  BY <1>8, <4>1
    <3>. QED  BY <3>1, <3>2
  <2>3. ASSUME readProofs!UnknownExtent PROVE FALSE
    <3>1. /\ readProofs!Found \in readProofs!Extents
          /\ TreeOfFile[readProofs!Found].type = "unknown"
      BY <1>2, <1>9, <2>3, readProofs!FoundExtent, ReadFilesAssumption,
         ReadRequestsAssumption, ReadExtentsAssumption, PointersAssumption, IntLimitAssumption
         DEF readProofs!UnknownExtent, readProofs!Searched, readProofs!InLoop
    <3>2. HoldsExtent(Disks[disk], TreeOfFile[readProofs!Found], readProofs!Found.offset, Named.bytes)
      BY <1>2, <1>7, <1>8, <3>1, FileHeld, Zenon
    <3>. QED  BY <3>1, <3>2 DEF HoldsExtent
  <2>4. ASSUME readProofs!ReturnAll PROVE Told
    <3>1. readRet' = bytesRead /\ bytesRead >= request.length
      BY <1>11, <2>4 DEF readProofs!ReturnAll
    <3>2. fsTree \notin DOMAIN image.trees => call.length = 0
      BY <1>2, <1>7, <1>8, <3>1
    <3>. QED  BY <1>8, <3>1, <3>2
  <2>5. Told
    BY <2>1, <2>2, <2>3, <2>4
  <2>6. Named'.kind = "link" => Len(buf') <= Len(Named'.bytes)
    BY <1>2, <1>3, <2>1
  <2> HIDE DEF Told
  <2>. QED  BY <1>2, <1>3, <1>6, <2>1, <2>5, <2>6 DEF ReadInv, Told
<1>. QED  BY <1>12, <1>13

\* Before a call reads, and after, nothing is to be kept.
LEMMA StepReads ==
    ASSUME IInv, PathInv, ReadInv, [SessionNext]_sessionVars
    PROVE  ReadInv'
<1>1. CASE pc' /= "read" \/ ~ Known'
  BY <1>1 DEF ReadInv
<1>2. CASE pc' = "read" /\ Known' /\ StartRead
  <2>1. Known
    BY <1>2 DEF StartRead, Known
  <2>. QED  BY <1>2, <2>1, StartReadReads
<1>3. CASE pc' = "read" /\ Known' /\ Reading
  <2>1. Known
    BY <1>3 DEF Reading, Known
  <2>. QED  BY <1>3, <2>1, ReadingReads
<1>4. CASE pc' = "read" /\ Known' /\ UNCHANGED sessionVars
  <2>1. Known /\ pc = "read" /\ UNCHANGED <<disk, openVars, image, call, fsTree, objectid>>
        /\ UNCHANGED <<readVars, call>> /\ image' = image
    BY <1>4 DEF sessionVars, vars, Known
  <2>2. /\ AtNamed' /\ ReadImage' = ReadImage /\ Named' = Named /\ call' = call /\ fsTree' = fsTree
    BY <2>1, NamedStays DEF ReadInv
  <2>3. [readProofs!Next]_readProofs!vars /\ buf' = buf /\ readPc' = readPc /\ readRet' = readRet
    BY <2>1, <2>2 DEF readProofs!vars, readVars
  <2>4. readProofs!IInv /\ readProofs!StaysInBuffer
        /\ readProofs!ReadsContent /\ readProofs!ReadsToTheEnd
    BY <2>1 DEF ReadInv
  <2>5. /\ readProofs!IInv' /\ readProofs!StaysInBuffer'
        /\ readProofs!ReadsContent' /\ readProofs!ReadsToTheEnd'
    BY <2>3, <2>4, readProofs!NextIInv, readProofs!StaysInBufferKept,
       readProofs!ReadsContentKept, readProofs!ReadsToTheEndKept, ReadFilesAssumption,
       ReadRequestsAssumption, ReadExtentsAssumption, PointersAssumption, IntLimitAssumption
  <2>. QED  BY <2>1, <2>2, <2>3, <2>5 DEF ReadInv
<1>5. ASSUME SessionNext, pc' = "read" PROVE StartRead \/ Reading \/ UNCHANGED sessionVars
  <2>1. CASE Opening \/ Close
    <3>1. pc = "idle" /\ pc' = pc
      BY <2>1, OpeningAt DEF Opening, Close, IInv, AtPc
    <3>. QED  BY <1>5, <3>1
  <2>2. CASE Walk
    BY <1>5, <2>2 DEF Walk, Step, Start, FindHash, ScanTree, EnterInode, EnterSubvolume, NextName,
       EnterOther, NotFound, Exists, StatInode, WalkFaults, WalkStrays
  <2>. QED  BY <1>5, <2>1, <2>2 DEF SessionNext, Call, CallStep, ListDir, ListStrays, ReadReturns,
                ReadlinkReturns, ReadFaults, Return, SessionOver
<1>. QED  BY <1>1, <1>2, <1>3, <1>4, <1>5

\* What is answered has the types that tell it apart from no answer.
Stat == [ino : Nat, dir : BOOLEAN, size : Nat, nlink : Nat]
AnswerInv ==
    Known =>
        /\ stat \in Stat \cup {NoStat}
        /\ names \in Seq(Names \cup {".", ".."})
        /\ buf \in Seq(Int)

\* A stat gives what a stat holds, or nothing.
LEMMA StatType ==
    ASSUME IInv, Walk, StatInode
    PROVE  stat' \in Stat \cup {stat}
<1>1. pc = "located" /\ OpenInv /\ SeesDisk
  BY DEF StatInode, IInv
<1>2. objectid \in Nat /\ openPc = "open"
  BY <1>1, CallFacts
<1>3. CASE InodeKey \in KeysOf(image, fsTree)
  <2>1. /\ fsTree \in DOMAIN image.trees
        /\ Item(InodeKey, image.trees[fsTree][InodeKey])
    BY <1>1, <1>2, <1>3, TreeFacts, Zenon
  <2>2. InodeKey.type = INODE_ITEM
    BY DEF InodeKey
  <2>3. image.trees[fsTree][InodeKey] \in Inode
    BY <2>1, <2>2, ItemFacts, Zenon
  <2>4. stat' = StatOf(objectid, image.trees[fsTree][InodeKey])
    BY <1>3 DEF StatInode
  <2>. QED  BY <1>2, <2>3, <2>4 DEF StatOf, Inode, Stat
<1>4. CASE InodeKey \notin KeysOf(image, fsTree)
  BY <1>4 DEF StatInode
<1>. QED  BY <1>3, <1>4

\* A listing gives names.
LEMMA NamesType ==
    ASSUME IInv, ListDir
    PROVE  names' \in Seq(Names \cup {".", ".."}) \cup {names}
<1>1. pc = "located" /\ OpenInv /\ SeesDisk /\ openPc = "open"
  BY CallFacts DEF ListDir, Located, IInv
<1>2. CASE UNCHANGED names
  BY <1>2
<1>3. CASE \E items \in [1 .. Cardinality(ItemsOfDir) -> ItemsOfDir] :
              names' = <<".", "..">> \o [n \in DOMAIN items |-> FirstName(items[n])]
  <2>1. PICK items \in [1 .. Cardinality(ItemsOfDir) -> ItemsOfDir] :
            names' = <<".", "..">> \o [n \in DOMAIN items |-> FirstName(items[n])]
    BY <1>3
  <2>2. ASSUME NEW k \in ItemsOfDir PROVE FirstName(k) \in Names
    <3>1. k \in KeysOf(image, fsTree) /\ k.type = DIR_ITEM
      BY DEF ItemsOfDir, IsItemOfDir
    <3>2. image.trees[fsTree][k][1] \in Entry
      BY <1>1, <3>1, EntryFacts, Zenon
    <3>. QED  BY <3>2 DEF FirstName, Entry
  <2>3. Cardinality(ItemsOfDir) \in Nat
    <3>1. IsFiniteSet(KeysOf(image, fsTree)) /\ ItemsOfDir \subseteq KeysOf(image, fsTree)
      BY <1>1, TreeFacts, Zenon DEF ItemsOfDir
    <3>. QED  BY <3>1, FS_Subset, FS_CardinalityType
  <2> DEFINE given == [n \in DOMAIN items |-> FirstName(items[n])]
  <2>4. given \in [1 .. Cardinality(ItemsOfDir) -> Names]
    BY <2>2
  <2>5. given \in Seq(Names)
    BY <2>3, <2>4
  <2>6. given \in Seq(Names \cup {".", ".."}) /\ <<".", "..">> \in Seq(Names \cup {".", ".."})
    BY <2>5
  <2> DEFINE told == Names \cup {".", ".."}
             dots == <<".", "..">>
  <2>7. given \in Seq(told) /\ dots \in Seq(told) /\ names' = dots \o given
    BY <2>1, <2>6
  <2> HIDE DEF given, told, dots
  <2>8. names' \in Seq(told)
    BY <2>7
  <2>. QED  BY <2>8 DEF told
<1>. QED  BY <1>2, <1>3 DEF ListDir

\* What is answered keeps its type.
LEMMA StepAnswers ==
    ASSUME IInv, PathInv, ReadInv, AnswerInv, [SessionNext]_sessionVars
    PROVE  AnswerInv'
<1> SUFFICES ASSUME Known' PROVE AnswerInv'
  BY DEF AnswerInv
<1>1. Known
  BY DEF SessionNext, Opening, Close, Call, CallStep, Walk, ListDir, ListStrays, StartRead, Reading, ReadReturns,
     ReadlinkReturns, ReadFaults, Return, SessionOver, sessionVars, Known
<1>2. stat \in Stat \cup {NoStat} /\ names \in Seq(Names \cup {".", ".."}) /\ buf \in Seq(Int)
  BY <1>1 DEF AnswerInv
<1>3. stat' \in Stat \cup {NoStat}
  <2>1. \/ stat' \in {stat, NoStat}
        \/ Walk /\ StatInode
    <3>1. Walk => stat' = stat \/ StatInode
      BY DEF Walk, Step, Start, FindHash, ScanTree, EnterInode, EnterSubvolume, NextName,
         EnterOther, NotFound, Exists, WalkFaults, WalkStrays
    <3>. QED  BY <3>1 DEF SessionNext, Opening, Close, Call, CallStep, ListDir, ListStrays, StartRead, Reading,
                  ReadReturns, ReadlinkReturns, ReadFaults, Return, SessionOver, sessionVars, vars
  <2>2. CASE Walk /\ StatInode
    BY <1>2, <2>2, StatType
  <2>. QED  BY <1>2, <2>1, <2>2
<1>4. names' \in Seq(Names \cup {".", ".."})
  <2>1. names' \in {names, <<>>} \/ ListDir
    BY DEF SessionNext, Opening, Close, Call, CallStep, Walk, ListStrays, StartRead, Reading,
       ReadReturns, ReadlinkReturns, ReadFaults, Return, SessionOver, sessionVars
  <2>2. CASE ListDir
    BY <1>2, <2>2, NamesType
  <2>3. <<>> \in Seq(Names \cup {".", ".."})
    OBVIOUS
  <2>. QED  BY <1>2, <2>1, <2>2, <2>3
<1>5. buf' \in Seq(Int)
  <2>1. CASE Reading
    <3>1. ReadInv' /\ pc' = "read"
      BY <2>1, StepReads DEF Reading, vars
    <3>2. readProofs!IInv'
      BY <3>1 DEF ReadInv
    <3>3. buf' \in Seq(Nat \cup {readProofs!Zero})
      BY <3>2 DEF readProofs!IInv, readProofs!TypeOK
    <3>4. Nat \cup {readProofs!Zero} \subseteq Int
      BY DEF readProofs!Zero
    <3> DEFINE bytes == Nat \cup {readProofs!Zero}
    <3> HIDE DEF bytes
    <3>5. buf' \in Seq(bytes) /\ bytes \subseteq Int
      BY <3>3, <3>4 DEF bytes
    <3>6. Len(buf') \in Nat /\ buf' \in [1 .. Len(buf') -> bytes]
      BY <3>5
    <3>7. buf' \in [1 .. Len(buf') -> Int]
      BY <3>5, <3>6
    <3>. QED  BY <3>6, <3>7
  <2>2. CASE ReadlinkReturns
    <3>1. pc = "read" /\ readPc = "done"
      BY <2>2 DEF ReadlinkReturns
    <3>2. readRet < 0 \/ readRet = Len(buf)
      BY <1>1, <3>1, ReadFacts DEF ReadInv, readProofs!StaysInBuffer, IInv, AtRead, ENOENT, EINVAL
    <3>3. SubSeq(buf, 1, Len(buf)) = buf /\ Append(buf, Nul) \in Seq(Int)
      BY <1>2 DEF Nul
    <3>. QED  BY <1>2, <2>2, <3>2, <3>3 DEF ReadlinkReturns
  <2>3. ~ Reading /\ ~ ReadlinkReturns => buf' \in {buf, <<>>}
    BY DEF SessionNext, Opening, Close, Call, CallStep, Walk, ListDir, ListStrays, StartRead,
       ReadReturns, ReadFaults, Return, SessionOver, sessionVars, readVars
  <2>4. <<>> \in Seq(Int)
    OBVIOUS
  <2>5. ASSUME ~ Reading, ~ ReadlinkReturns PROVE buf' \in Seq(Int)
    BY <1>2, <2>3, <2>4, <2>5
  <2>. QED  BY <2>1, <2>2, <2>5
<1>. QED  BY <1>3, <1>4, <1>5 DEF AnswerInv

\* The session keeps what is known of its reads and answers, on every disk that is known.
THEOREM SpecAnswerInv == SessionSpec => [](IInv /\ PathInv /\ ReadInv /\ AnswerInv)
<1>1. SessionInit => ReadInv /\ AnswerInv
  <2> SUFFICES ASSUME SessionInit PROVE ReadInv /\ AnswerInv
    OBVIOUS
  <2>1. pc = "idle" /\ stat = NoStat /\ names = <<>> /\ buf = <<>>
    BY DEF SessionInit
  <2>. QED  BY <2>1 DEF ReadInv, AnswerInv
<1>2. IInv /\ PathInv /\ ReadInv /\ AnswerInv /\ [SessionNext]_sessionVars =>
        ReadInv' /\ AnswerInv'
  BY StepReads, StepAnswers
<1>. QED  BY <1>1, <1>2, SpecPathInv, SpecIInv, PTL DEF SessionSpec

----------------------------------------------------------------------------

\* The abstract file system of an open image.
LEMMA FsIs ==
    ASSUME Known, openPc = "open"
    PROVE  /\ Fs!ObjectAt(call.path) = Id
           /\ Fs!Object = Named
           /\ Fs!IsDirectory <=> Named.kind = "dir"
           /\ Fs!Size = Len(Named.bytes)
<1>1. Fs!ObjectAt(call.path) = Id
  BY DEF Fs!ObjectAt, Id, Mounted, Held
<1>2. Fs!Object = Named
  BY <1>1 DEF Fs!Object, Named, Held
<1>. QED  BY <1>1, <1>2 DEF Fs!IsDirectory, Fs!Size

\* What makes an answer right, outcome by outcome.
LEMMA RightWithout ==
    ASSUME Known, openPc = "open", NEW a,
           \/ ~ call.slash /\ a.ret = EINVAL
           \/ call.slash /\ outOfMemory /\ a.ret \in {ENOENT, Crashed}
           \/ call.slash /\ Id = NoObject /\ a.ret = ENOENT
    PROVE  Fs!Right(a)
BY FsIs DEF Fs!Right

\* An answer about an object, call by call.
LEMMA RightOfObject ==
    ASSUME Known, openPc = "open", NEW a, call.slash, Id /= NoObject,
           \/ call.op = "exists" /\ a.ret = 0
           \/ call.op = "stat" /\ Fs!Stats(a)
           \/ call.op = "readdir" /\ Fs!Lists(a) /\ a.ret /= Crashed
           \/ /\ call.op = "read" /\ a.ret /= Crashed
              /\ Named.kind = "file" /\ Len(Named.bytes) > 0 => Fs!Reads(a)
           \/ /\ call.op = "readlink" /\ a.ret /= Crashed
              /\ Named.kind = "link" => Fs!ReadsLink(a)
    PROVE  Fs!Right(a)
<1>1. CASE call.op = "exists" /\ a.ret = 0
  BY <1>1, FsIs DEF Fs!Right
<1>2. CASE call.op = "stat" /\ Fs!Stats(a)
  BY <1>2, FsIs DEF Fs!Right
<1>3. CASE call.op = "readdir" /\ Fs!Lists(a) /\ a.ret /= Crashed
  BY <1>3, FsIs DEF Fs!Right, Fs!Returns
<1>4. CASE /\ call.op = "read" /\ a.ret /= Crashed
           /\ Named.kind = "file" /\ Len(Named.bytes) > 0 => Fs!Reads(a)
  BY <1>4, FsIs DEF Fs!Right, Fs!Returns
<1>5. CASE /\ call.op = "readlink" /\ a.ret /= Crashed
           /\ Named.kind = "link" => Fs!ReadsLink(a)
  BY <1>5, FsIs DEF Fs!Right, Fs!Returns
<1>. QED  BY <1>1, <1>2, <1>3, <1>4, <1>5

\* No name stands behind another with its hash.
LEMMA NothingBehind ==
    ASSUME Known, IInv, openPc = "open", Behind(Name)
    PROVE  FALSE
<1>1. OpenInv /\ SeesDisk
  BY DEF IInv
<1>2. PICK k \in DirItems(image, Place) : \E n \in DOMAIN image.trees[fsTree][k] : n > 1
  BY DEF Behind
<1>3. /\ k \in DirItems(Full, Place) /\ image.trees[fsTree][k] = Full.trees[fsTree][k]
  <2>1. Place.tree = fsTree
    BY DEF Place
  <2>2. k \in DirItems(Full, Place) /\ image.trees[Place.tree][k] = Full.trees[Place.tree][k]
    BY <1>1, <1>2, SeenItems, Zenon
  <2>. QED  BY <2>1, <2>2
<1>4. fsTree \in DOMAIN Full.trees /\ k \in DOMAIN Full.trees[fsTree] /\ k.type = DIR_ITEM
  BY <1>3 DEF DirItems, KeysOf, Place
<1>5. DOMAIN Full.trees[fsTree][k] = {1}
  BY <1>4, FullItem, Zenon
<1>. QED  BY <1>2, <1>3, <1>5

\* A path that was followed to no end leads to no object, or chunks were lost.
LEMMA NotFoundIsRight ==
    ASSUME Known, IInv, PathInv, pc = "located", located /= 0
    PROVE  call.slash /\ (outOfMemory \/ Id = NoObject)
<1>1. OpenInv /\ SeesDisk /\ openPc = "open" /\ call.slash /\ Len(call.path) \in Nat
  BY CallFacts DEF IInv, AtPc
<1>2. PlacesOn(image, call.path)[Len(call.path)] = Nowhere
  BY <1>1, SeenIntact, NothingBehind DEF PathInv
<1>3. Len(call.path) \in 0 .. Len(call.path)
  BY <1>1
<1>4. LET id == Fs!ObjectsOn(Mounted, call.path)[Len(call.path)] IN
      ~ outOfMemory /\ PlacesOn(image, call.path)[Len(call.path)] = Nowhere => id = NoObject
  BY <1>1, <1>3, PathSeen
<1>. QED  BY <1>1, <1>2, <1>4 DEF Id

\* What stat tells is in the inode of the object.
LEMMA StatIsRight ==
    ASSUME Known, IInv, AtNamed, NEW a,
           InodeKey \in KeysOf(image, fsTree), a.ret = 0,
           a.stat = StatOf(objectid, image.trees[fsTree][InodeKey])
    PROVE  Fs!Stats(a)
<1>1. fsTree \in DOMAIN image.trees /\ image.trees[fsTree] = Full.trees[fsTree]
  BY NamedFacts DEF KeysOf
<1>2. StatOf(objectid, image.trees[fsTree][InodeKey]) =
        [ino |-> Named.ino, dir |-> Named.kind = "dir", size |-> Len(Named.bytes), nlink |-> Named.links]
  <2>1. HoldsInode(Full.trees[fsTree], objectid, Named)
    BY NamedFacts
  <2>. QED  BY <1>1, <2>1 DEF HoldsInode, InodeKey
<1>3. a.stat = [ino |-> Named.ino, dir |-> Named.kind = "dir", size |-> Len(Named.bytes), nlink |-> Named.links]
  BY <1>2
<1>4. /\ Fs!Object = Named /\ Fs!Size = Len(Named.bytes)
  BY FsIs DEF AtNamed
<1>. QED  BY <1>3, <1>4, Zenon DEF Fs!Stats, Fs!IsDirectory

\* An item that is listed is that of an entry of the directory.
LEMMA ListedItem ==
    ASSUME Known, IInv, AtNamed, NEW k \in ItemsOfDir
    PROVE  /\ k \in Key /\ k = DirKey(Place, FirstName(k))
           /\ FirstName(k) \in DOMAIN Named.entries /\ FirstName(k) \notin {".", ".."}
<1>1. OpenInv /\ SeesDisk /\ openPc = "open"
  BY DEF IInv, AtNamed
<1>2. Place.tree = fsTree /\ Place.objectid = objectid
  BY DEF Place
<1>3. k \in DirItems(image, Place)
  BY <1>2 DEF ItemsOfDir, IsItemOfDir, DirItems
<1>4. k \in DirItems(Full, Place) /\ image.trees[Place.tree][k] = Full.trees[Place.tree][k]
  BY <1>1, <1>3, SeenItems, Zenon
<1>5. FirstName(k) = Full.trees[Place.tree][k][1].name
  BY <1>2, <1>4 DEF FirstName
<1>6. LET e == Full.trees[Place.tree][k][1] IN
      /\ k = DirKey(Place, e.name) /\ e.name \notin {".", ".."}
      /\ Place.tree \in DOMAIN Full.trees /\ k \in DOMAIN Full.trees[Place.tree]
  BY <1>4, FullEntryPlace, Zenon
<1>7. k \in Key
  <2>1. k.type = DIR_ITEM
    BY <1>4 DEF DirItems
  <2>. QED  BY <1>6, <2>1, FullItem, Zenon
<1>8. Full.trees[Place.tree][k][1] \in EntriesOf(Full, Place)
  BY <1>4, FullEntries, Zenon
<1>9. DOMAIN Named.entries = {e.name : e \in EntriesOf(Full, Place)}
  BY NamedFacts
<1>. QED  BY <1>5, <1>6, <1>7, <1>8, <1>9

\* Every entry is in an item that is listed when no chunk was lost.
LEMMA EntryIsListed ==
    ASSUME Known, IInv, AtNamed, ~ outOfMemory, NEW name \in DOMAIN Named.entries
    PROVE  \E k \in ItemsOfDir : FirstName(k) = name
<1>1. OpenInv /\ SeesDisk /\ openPc = "open"
  BY DEF IInv, AtNamed
<1>2. Place.tree = fsTree /\ Place.objectid = objectid
  BY DEF Place
<1>3. DOMAIN Named.entries = {e.name : e \in EntriesOf(Full, Place)}
  BY NamedFacts
<1>4. PICK e \in EntriesOf(Full, Place) : name = e.name
  BY <1>3
<1>5. PICK k \in DirItems(Full, Place) : e = Full.trees[Place.tree][k][1]
  BY <1>4, FullEntries, ZenonT(30)
<1>6. k \in DirItems(image, Place) /\ image.trees[Place.tree][k] = Full.trees[Place.tree][k]
  BY <1>1, <1>5, SeenItems, Zenon
<1>7. LostOf(image, fsTree) = {}
  BY <1>1, NothingIsLost, OnlyMemoryLosesChunks
<1>8. k \in ItemsOfDir
  BY <1>2, <1>6, <1>7 DEF ItemsOfDir, IsItemOfDir, DirItems
<1>. QED  BY <1>2, <1>4, <1>5, <1>6, <1>8 DEF FirstName

\* A strictly sorted sequence of as many items as there are holds each of them, once.
LEMMA SortedIsComplete ==
    ASSUME NEW S \in SUBSET Key, IsFiniteSet(S), NEW items \in [1 .. Cardinality(S) -> S],
           Sorted(items)
    PROVE  /\ \A i, j \in 1 .. Cardinality(S) : items[i] = items[j] => i = j
           /\ \A k \in S : \E i \in 1 .. Cardinality(S) : items[i] = k
<1> DEFINE m == Cardinality(S)
<1>1. m \in Nat
  BY FS_CardinalityType
<1> HIDE DEF m
<1>2. items \in [1 .. m -> S]
  BY DEF m
<1>3. Len(items) = m
  BY <1>1, <1>2
<1>4. ASSUME NEW i \in 1 .. m, NEW j \in 1 .. m, items[i] = items[j]
      PROVE  i = j
  <2>1. items[i] \in Key /\ items[j] \in Key
    BY <1>2
  <2>2. ~ KeyLess(items[i], items[j]) /\ ~ KeyLess(items[j], items[i])
    BY <1>4, <2>1 DEF Key, KeyLess
  <2>3. ~ i < j /\ ~ j < i
    BY <1>3, <2>2 DEF Sorted
  <2>. QED  BY <1>1, <2>3
<1>5. items \in Injection(1 .. m, S)
  BY <1>2, <1>4 DEF Injection, IsInjective
<1>6. Cardinality(1 .. m) = m
  BY <1>1, FS_Interval
<1>7. items \in Surjection(1 .. m, S)
  BY <1>5, <1>6, FS_Injection DEF m
<1>8. \A k \in S : \E i \in 1 .. m : items[i] = k
  BY <1>7 DEF Surjection
<1>. QED  BY <1>4, <1>8 DEF m

\* A listing tells the names of the directory, and all of them when no chunk was lost.
LEMMA ListDirIsRight ==
    ASSUME Known, IInv, PathInv, ListDir, NEW a, a.ret = ret', a.names = names'
    PROVE  Fs!Lists(a)
<1>1. AtNamed /\ OpenInv /\ SeesDisk /\ openPc = "open"
  BY LocatedIsNamed DEF IInv, AtNamed, ListDir, Located
<1>2. CASE ret' = ENOMEM
  BY <1>2 DEF Fs!Lists
<1>3. CASE ret' /= ENOMEM
  <2> DEFINE S == ItemsOfDir
             m == Cardinality(ItemsOfDir)
  <2>1. PICK items \in [1 .. m -> S] :
            Sorted(items) /\ names' = <<".", "..">> \o [n \in DOMAIN items |-> FirstName(items[n])]
    BY <1>3, Zenon DEF ListDir
  <2>2. S \in SUBSET Key /\ IsFiniteSet(S)
    <3>1. IsFiniteSet(KeysOf(image, fsTree)) /\ KeysOf(image, fsTree) \in SUBSET Key
      BY <1>1, TreeFacts, Zenon
    <3>. QED  BY <3>1, FS_Subset DEF ItemsOfDir
  <2>3. /\ \A i, j \in 1 .. m : items[i] = items[j] => i = j
        /\ \A k \in S : \E i \in 1 .. m : items[i] = k
    BY <2>1, <2>2, SortedIsComplete
  <2>4. m \in Nat
    BY <2>2, FS_CardinalityType
  <2>5. \A k \in S : /\ k = DirKey(Place, FirstName(k))
                     /\ FirstName(k) \in DOMAIN Named.entries /\ FirstName(k) \notin {".", ".."}
    BY <1>1, ListedItem
  <2> DEFINE given == [n \in 1 .. m |-> FirstName(items[n])]
             dots == <<".", "..">>
             all == dots \o given
  <2>6. names' = all
    BY <2>1
  <2>7. ret' = 0
    BY <1>3 DEF ListDir
  <2>8. ~ outOfMemory => \A name \in DOMAIN Named.entries : \E k \in S : FirstName(k) = name
    BY <1>1, EntryIsListed
  <2>9. /\ given \in [1 .. m -> DOMAIN Named.entries \ {".", ".."}]
        /\ \A i, j \in 1 .. m : given[i] = given[j] => i = j
        /\ ~ outOfMemory => \A name \in DOMAIN Named.entries : \E i \in 1 .. m : given[i] = name
    <3> HIDE DEF S, m
    <3>1. \A i \in 1 .. m : items[i] \in S
      BY <2>1
    <3>2. \A i, j \in 1 .. m : given[i] = given[j] => i = j
      <4> SUFFICES ASSUME NEW i \in 1 .. m, NEW j \in 1 .. m, FirstName(items[i]) = FirstName(items[j])
                   PROVE  i = j
        OBVIOUS
      <4>1. items[i] = DirKey(Place, FirstName(items[i])) /\ items[j] = DirKey(Place, FirstName(items[j]))
        BY <2>5, <3>1, Zenon
      <4>2. items[i] = items[j]
        BY <4>1
      <4>. QED  BY <2>3, <4>2, Zenon
    <3>3. ~ outOfMemory => \A name \in DOMAIN Named.entries : \E i \in 1 .. m : given[i] = name
      BY <2>3, <2>8
    <3>4. given \in [1 .. m -> DOMAIN Named.entries \ {".", ".."}]
      BY <2>5, <3>1
    <3>. QED  BY <3>2, <3>3, <3>4
  <2>10. /\ Len(all) = m + 2 /\ DOMAIN all = 1 .. m + 2
         /\ all[1] = "." /\ all[2] = ".." /\ \A i \in 3 .. m + 2 : all[i] = given[i - 2]
         /\ SubSeq(all, 1, 2) = <<".", "..">>
    <3> DEFINE names1 == (DOMAIN Named.entries) \cup {".", ".."}
    <3> HIDE DEF m, S, given
    <3>1. given \in Seq(names1) /\ Len(given) = m
      <4>1. given \in [1 .. m -> names1]
        BY <2>9
      <4>. QED  BY <2>4, <4>1
    <3>2. dots \in Seq(names1) /\ Len(dots) = 2 /\ dots[1] = "." /\ dots[2] = ".."
      OBVIOUS
    <3> HIDE DEF names1, dots
    <3>3. /\ all \in Seq(names1) /\ Len(all) = 2 + m
          /\ \A i \in 1 .. 2 + m : all[i] = IF i <= 2 THEN dots[i] ELSE given[i - 2]
      <4>1. /\ all \in Seq(names1) /\ Len(all) = Len(dots) + Len(given)
            /\ \A i \in 1 .. Len(dots) + Len(given) :
                 all[i] = IF i <= Len(dots) THEN dots[i] ELSE given[i - Len(dots)]
        BY <3>1, <3>2, ConcatProperties
      <4>. QED  BY <3>1, <3>2, <4>1
    <3> HIDE DEF all
    <3>4. DOMAIN all = 1 .. m + 2
      BY <2>4, <3>3
    <3>5. all[1] = "." /\ all[2] = ".." /\ \A i \in 3 .. m + 2 : all[i] = given[i - 2]
      BY <2>4, <3>2, <3>3
    <3>6. SubSeq(all, 1, 2) = <<all[1], all[2]>>
      <4> DEFINE x == SubSeq(all, 1, 2)
      <4>1. \A i \in 1 .. 2 : all[i] \in names1
        BY <2>4, <3>3
      <4>2. x \in Seq(names1) /\ Len(x) = 2 /\ x[1] = all[1] /\ x[2] = all[2]
        BY <4>1, SubSeqProperties
      <4> HIDE DEF x
      <4>3. x = <<x[1], x[2]>>
        BY <4>2
      <4>. QED  BY <4>2, <4>3 DEF x
    <3>. QED  BY <2>4, <3>3, <3>4, <3>5, <3>6
  <2> HIDE DEF S, m, given, all
  <2>11. Fs!IsInjective(all)
    <3>1. ASSUME NEW i \in 1 .. m + 2, NEW j \in 1 .. m + 2, all[i] = all[j]
          PROVE  i = j
      <4>1. \A n \in 1 .. m + 2 : n = 1 \/ n = 2 \/ (n \in 3 .. m + 2 /\ n - 2 \in 1 .. m)
        BY <2>4
      <4>2. \A n \in 3 .. m + 2 : n - 2 \in 1 .. m /\ all[n] \notin {".", ".."} /\ all[n] = given[n - 2]
        BY <2>4, <2>9, <2>10
      <4>3. CASE i \in 3 .. m + 2 /\ j \in 3 .. m + 2
        <5>1. i - 2 = j - 2
          BY <2>9, <3>1, <4>2, <4>3
        <5>. QED  BY <2>4, <5>1
      <4>. QED  BY <2>10, <3>1, <4>1, <4>2, <4>3
    <3>. QED  BY <2>10, <3>1 DEF Fs!IsInjective
  <2>12. Fs!ToSet(all) \subseteq {".", ".."} \cup DOMAIN Named.entries
    BY <2>4, <2>9, <2>10 DEF Fs!ToSet
  <2>13. ~ outOfMemory => DOMAIN Named.entries \subseteq Fs!ToSet(all)
    <3> SUFFICES ASSUME ~ outOfMemory, NEW name \in DOMAIN Named.entries
                 PROVE  \E i \in DOMAIN all : all[i] = name
      BY DEF Fs!ToSet
    <3>1. PICK i \in 1 .. m : given[i] = name
      BY <2>9
    <3>2. i + 2 \in 3 .. m + 2 /\ (i + 2) - 2 = i /\ i + 2 \in 1 .. m + 2
      BY <2>4
    <3>. QED  BY <2>10, <3>1, <3>2
  <2>. QED  BY <1>1, <2>6, <2>7, <2>10, <2>11, <2>12, <2>13, FsIs DEF Fs!Lists
<1>. QED  BY <1>2, <1>3

\* What a read in the session is about.
LEMMA ReadCallFacts ==
    ASSUME Known, IInv, ReadInv, pc = "read"
    PROVE  /\ call.slash /\ AtNamed /\ openPc = "open" /\ OpenInv
           /\ call.op \in {"read", "readlink"} /\ request.file = objectid
           /\ request.length = call.length /\ call.length \in Nat /\ call.length < IntLimit
           /\ request.offset = IF call.op = "read" THEN call.offset ELSE 0
           /\ request.offset \in Nat /\ buf \in Seq(Int) /\ Len(buf) \in Nat
           /\ readProofs!TypeOK
           /\ Id /= NoObject
<1>1. call.slash /\ AtNamed /\ openPc = "open" /\ OpenInv /\ readProofs!TypeOK
  BY DEF ReadInv, AtNamed, IInv, readProofs!IInv
<1>2. /\ call.op \in {"read", "readlink"}
      /\ request = [file |-> objectid, length |-> call.length,
                    offset |-> IF call.op = "read" THEN call.offset ELSE 0]
  BY DEF IInv, AtRead
<1>3. call.length \in Nat /\ call.length < IntLimit /\ call \in Calls
  BY ReadFacts
<1>4. call.offset \in Nat
  BY <1>2, <1>3, ReadCall
<1>5. Len(buf) \in Nat /\ buf \in Seq(Int)
  <2> DEFINE bytes == Nat \cup {readProofs!Zero}
  <2>1. buf \in Seq(bytes) /\ bytes \subseteq Int
    BY <1>1 DEF readProofs!TypeOK, readProofs!Zero
  <2> HIDE DEF bytes
  <2>2. Len(buf) \in Nat /\ buf \in [1 .. Len(buf) -> bytes]
    BY <2>1
  <2>3. buf \in [1 .. Len(buf) -> Int]
    BY <2>1, <2>2
  <2>. QED  BY <2>2, <2>3
<1>6. Id /= NoObject
  BY <1>1, ObjectFacts, Zenon DEF AtNamed
<1>. QED  BY <1>1, <1>2, <1>3, <1>4, <1>5, <1>6

\* Every byte that was read is that of the file, or a zero for one that was lost.
LEMMA ReadBytes ==
    ASSUME Known, IInv, ReadInv, pc = "read", NEW n \in 1 .. Len(buf),
           request.offset + n <= Len(Named.bytes)
    PROVE  Fs!Agree(buf[n], Named.bytes[request.offset + n])
<1>1. /\ AtNamed /\ openPc = "open" /\ request.file = objectid /\ request.offset \in Nat
      /\ readProofs!TypeOK /\ Len(Named.bytes) \in Nat /\ Len(buf) \in Nat
  BY ReadCallFacts, NamedFacts
<1>2. fsTree \in DOMAIN image.trees
  <2>1. buf /= <<>>
    BY <1>1
  <2>. QED  BY <2>1 DEF ReadInv
<1> DEFINE position == request.offset + n - 1
<1>3. position \in 0 .. Len(Named.bytes) - 1 /\ position + 1 = request.offset + n
  BY <1>1
<1>4. /\ readProofs!Size = Len(Named.bytes) /\ readProofs!WholeExtents /\ readProofs!Dense
  BY <1>1, <1>2, FileHeld
<1>5. buf[n] = readProofs!FileByte(position)
  BY <1>1, <1>3, <1>4 DEF ReadInv, readProofs!ReadsContent, readProofs!GivesContent
<1> HIDE DEF position
<1>6. PICK k \in readProofs!Extents : readProofs!Holds(k, position)
  BY <1>3, <1>4 DEF readProofs!Dense
<1>7. LET b == readProofs!FileByte(position) IN
      b = Named.bytes[position + 1] \/ (outOfMemory /\ b = reading!Zero)
  BY <1>1, <1>3, <1>6, FileHeld, Zenon
<1>8. buf[n] = Named.bytes[request.offset + n] \/ (outOfMemory /\ buf[n] = reading!Zero)
  BY <1>3, <1>5, <1>7
<1>. QED  BY <1>1, <1>8 DEF Fs!Agree

\* A read ends where it was asked to, or with the file.
LEMMA ReadLength ==
    ASSUME Known, IInv, ReadInv, pc = "read", readPc = "done", Len(Named.bytes) > 0,
           ~ (outOfMemory /\ readRet = ENOENT)
    PROVE  /\ readRet = Len(buf) /\ readRet \in Nat /\ readRet <= call.length
           /\ readRet = call.length \/ request.offset + readRet >= Len(Named.bytes)
<1>1. /\ AtNamed /\ openPc = "open" /\ request.file = objectid /\ request.offset \in Nat
      /\ request.length = call.length /\ call.length \in Nat /\ call.length < IntLimit
      /\ readProofs!TypeOK /\ Len(Named.bytes) \in Nat /\ Len(buf) \in Nat
  BY ReadCallFacts, NamedFacts
<1>2. readRet \in Nat /\ (fsTree \notin DOMAIN image.trees => call.length = 0 /\ buf = <<>>)
  <2>1. fsTree \notin DOMAIN image.trees => outOfMemory
    BY <1>1, NamedFacts
  <2>. QED  BY <1>1, <2>1 DEF ReadInv
<1>3. readRet = Len(buf) /\ Len(buf) <= call.length
  BY <1>1, <1>2 DEF ReadInv, readProofs!StaysInBuffer
<1>4. CASE fsTree \notin DOMAIN image.trees
  BY <1>1, <1>2, <1>3, <1>4
<1>5. CASE fsTree \in DOMAIN image.trees /\ request.offset < Len(Named.bytes)
  <2>1. /\ readProofs!Size = Len(Named.bytes) /\ readProofs!WholeExtents /\ readProofs!Dense
    BY <1>1, <1>5, FileHeld
  <2>2. readRet = request.length \/ request.offset + readRet >= readProofs!Size
    BY <1>1, <1>5, <2>1 DEF ReadInv, readProofs!ReadsToTheEnd
  <2>. QED  BY <1>1, <1>2, <1>3, <2>1, <2>2
<1>6. CASE ~ request.offset < Len(Named.bytes)
  BY <1>1, <1>2, <1>3, <1>6
<1>. QED  BY <1>4, <1>5, <1>6

\* What btrfs_read returns, and what is in the buffer then.
LEMMA ReadReturnsIsRight ==
    ASSUME Known, IInv, ReadInv, ReadReturns, NEW a, a.ret = ret', a.data = buf'
    PROVE  Fs!Right(a)
<1>1. pc = "read" /\ readPc = "done" /\ call.op = "read" /\ a.ret = readRet /\ a.data = buf
  BY DEF ReadReturns, readVars
<1>2. /\ call.slash /\ openPc = "open" /\ Id /= NoObject /\ request.offset = call.offset
      /\ call.offset \in Nat /\ AtNamed
  BY <1>1, ReadCallFacts
<1>3. a.ret /= Crashed
  BY <1>1, AnswersAssumption DEF IInv, AtRead, ENOENT, EINVAL
<1>4. CASE outOfMemory /\ readRet = ENOENT
  BY <1>1, <1>2, <1>4, RightWithout
<1>5. CASE Len(Named.bytes) > 0 /\ ~ (outOfMemory /\ readRet = ENOENT)
  <2>1. /\ readRet = Len(buf) /\ readRet \in Nat /\ readRet <= call.length
        /\ readRet = call.length \/ request.offset + readRet >= Len(Named.bytes)
    BY <1>1, <1>5, ReadLength
  <2>2. \A n \in 1 .. Len(buf) : call.offset + n <= Len(Named.bytes) =>
            Fs!Agree(buf[n], Named.bytes[call.offset + n])
    BY <1>1, <1>2, ReadBytes
  <2>3. Fs!Object = Named /\ Fs!Size = Len(Named.bytes)
    BY <1>2, FsIs
  <2>4. Fs!Reads(a)
    BY <1>1, <1>2, <2>1, <2>2, <2>3 DEF Fs!Reads
  <2>. QED  BY <1>1, <1>2, <1>3, <2>4, RightOfObject
<1>6. CASE ~ Len(Named.bytes) > 0
  BY <1>1, <1>2, <1>3, <1>6, RightOfObject
<1>. QED  BY <1>4, <1>5, <1>6

\* What btrfs_readlink returns, with the terminator that it may add.
LEMMA ReadlinkReturnsIsRight ==
    ASSUME Known, IInv, ReadInv, ReadlinkReturns, NEW a, a.ret = ret', a.data = buf'
    PROVE  Fs!Right(a)
<1>1. /\ pc = "read" /\ readPc = "done" /\ call.op = "readlink"
      /\ readRet \in {ENOENT, EINVAL} \cup Nat
  BY DEF ReadlinkReturns, IInv, AtRead
<1>2. /\ call.slash /\ openPc = "open" /\ Id /= NoObject /\ request.offset = 0
      /\ AtNamed /\ call.length \in Nat /\ buf \in Seq(Int) /\ Len(buf) \in Nat
  BY <1>1, ReadCallFacts
<1>3. a.ret /= Crashed
  BY <1>1, AnswersAssumption DEF ReadlinkReturns, ENOENT, EINVAL
<1>4. CASE outOfMemory /\ readRet = ENOENT
  <2>1. a.ret = ENOENT
    BY <1>4 DEF ReadlinkReturns, ENOENT
  <2>. QED  BY <1>2, <1>4, <2>1, RightWithout
<1>5. CASE Named.kind = "link" /\ ~ (outOfMemory /\ readRet = ENOENT)
  <2> DEFINE size == Len(Named.bytes)
  <2>1. size \in Nat /\ size > 0 /\ Named.bytes \in Seq(Int)
    <3>1. HoldsBytes(Disks[disk], Full.trees[fsTree], objectid, Named) /\ size \in Nat
      BY <1>2, NamedFacts
    <3>2. Named.bytes /= <<>> /\ Named.bytes \in Seq(Int)
      BY <1>5, <3>1 DEF HoldsBytes
    <3>. QED  BY <3>1, <3>2
  <2>2. /\ readRet = Len(buf) /\ readRet \in Nat /\ readRet <= call.length
        /\ readRet = call.length \/ readRet >= size
    BY <1>1, <1>2, <1>5, <2>1, ReadLength
  <2>3. Len(buf) <= size
    BY <1>1, <1>5 DEF ReadInv
  <2>4. \A n \in 1 .. Len(buf) : Fs!Agree(buf[n], Named.bytes[n])
    <3>1. ASSUME NEW n \in 1 .. Len(buf) PROVE Fs!Agree(buf[n], Named.bytes[n])
      <4>1. request.offset + n <= size /\ request.offset + n = n
        BY <1>2, <2>1, <2>3
      <4>. QED  BY <1>1, <4>1, ReadBytes
    <3>. QED  BY <3>1
  <2>5. /\ a.ret = 0
        /\ a.data = IF Terminates THEN Append(SubSeq(buf, 1, readRet), Nul) ELSE buf
    BY <2>2 DEF ReadlinkReturns
  <2>6. SubSeq(buf, 1, readRet) = buf
    BY <1>2, <2>2
  <2>7. Fs!Object = Named /\ Fs!Size = size
    BY <1>2, FsIs
  <2> HIDE DEF size
  <2>8. \A n \in 1 .. size : Append(Named.bytes, Nul)[n] = Named.bytes[n]
    BY <2>1 DEF size
  <2>9. Append(Named.bytes, Nul)[size + 1] = Nul
    BY <2>1 DEF size
  <2>10. CASE Terminates
    <3>1. Len(buf) = size /\ size < call.length
      BY <1>2, <2>1, <2>2, <2>3, <2>10 DEF Terminates
    <3>2. /\ a.data = Append(buf, Nul) /\ Len(a.data) = size + 1
          /\ a.data[size + 1] = Nul /\ \A n \in 1 .. size : a.data[n] = buf[n]
      <4>1. a.data = Append(buf, Nul)
        BY <2>5, <2>6, <2>10
      <4>2. Nul \in Int
        BY DEF Nul
      <4>3. /\ Len(Append(buf, Nul)) = Len(buf) + 1
            /\ \A n \in 1 .. Len(buf) : Append(buf, Nul)[n] = buf[n]
            /\ Append(buf, Nul)[Len(buf) + 1] = Nul
        BY <1>2, <4>2, AppendProperties
      <4>. QED  BY <3>1, <4>1, <4>3
    <3>3. ASSUME NEW n \in 1 .. size + 1
          PROVE  Fs!Agree(a.data[n], Append(Named.bytes, Nul)[n])
      <4>1. CASE n = size + 1
        <5>1. a.data[n] = Append(Named.bytes, Nul)[n]
          BY <2>9, <3>2, <4>1
        <5>. QED  BY <5>1, Zenon DEF Fs!Agree
      <4>2. CASE n \in 1 .. size
        <5>1. Fs!Agree(buf[n], Named.bytes[n])
          BY <2>4, <3>1, <4>2
        <5>2. a.data[n] = buf[n] /\ Append(Named.bytes, Nul)[n] = Named.bytes[n]
          BY <2>8, <3>2, <4>2
        <5>. QED  BY <5>1, <5>2, Zenon DEF Fs!Agree
      <4>3. n = size + 1 \/ n \in 1 .. size
        BY <2>1
      <4>. QED  BY <4>1, <4>2, <4>3, Zenon
    <3>4. Fs!ReadsLink(a)
      <4>1. Len(a.data) = IF call.length <= size THEN call.length ELSE size + 1
        BY <1>2, <2>1, <3>1, <3>2
      <4>2. \A n \in 1 .. Len(a.data) : Fs!Agree(a.data[n], Append(Fs!Object.bytes, Nul)[n])
        BY <2>7, <3>2, <3>3, Zenon
      <4>. QED  BY <2>5, <2>7, <4>1, <4>2, Zenon DEF Fs!ReadsLink
    <3>. QED  BY <1>1, <1>2, <1>3, <3>4, RightOfObject
  <2>11. CASE ~ Terminates
    <3>1. Len(buf) = call.length /\ call.length <= size /\ a.data = buf
      BY <1>2, <2>1, <2>2, <2>3, <2>5, <2>11 DEF Terminates
    <3>2. ASSUME NEW n \in 1 .. Len(a.data)
          PROVE  Fs!Agree(a.data[n], Append(Named.bytes, Nul)[n])
      <4>1. n \in 1 .. size /\ n \in 1 .. Len(buf)
        BY <1>2, <2>1, <3>1
      <4>. QED  BY <2>4, <2>8, <3>1, <4>1
    <3>3. Fs!ReadsLink(a)
      BY <1>2, <2>1, <2>5, <2>7, <3>1, <3>2 DEF Fs!ReadsLink
    <3>. QED  BY <1>1, <1>2, <1>3, <3>3, RightOfObject
  <2>. QED  BY <2>10, <2>11
<1>6. CASE Named.kind /= "link"
  BY <1>1, <1>2, <1>3, <1>6, RightOfObject
<1>. QED  BY <1>4, <1>5, <1>6

\* What the client is told.
Told ==
    [ret |-> IF pc = "done" THEN ret ELSE Crashed, stat |-> stat, names |-> names, data |-> buf]

\* An outcome that is a number is not that of a call that does not return.
LEMMA NumbersReturn == \A n \in Int : n /= Crashed
BY AnswersAssumption

\* A handle that has all chunks of a known disk sees the inode of each object.
LEMMA InodeIsSeen ==
    ASSUME Known, IInv, AtNamed, ~ outOfMemory
    PROVE  InodeKey \in KeysOf(image, fsTree)
<1>1. /\ HoldsInode(Full.trees[fsTree], objectid, Named)
      /\ fsTree \in DOMAIN image.trees /\ image.trees[fsTree] = Full.trees[fsTree]
  BY NamedFacts
<1>. QED  BY <1>1 DEF HoldsInode, InodeKey, KeysOf

\* On a known disk every subvolume has a root item, and no call goes astray.
LEMMA NeverAstray ==
    ASSUME Known, IInv, CallStep, openPc = "open", UNCHANGED image
    PROVE  pc' /= "astray"
<1>1. FaultsNeedLostChunks'
  BY NextIInv DEF SessionNext, IInv
<1>2. Intact(image)
  BY SeenIntact DEF IInv
<1>3. Intact(image)' <=> Intact(image)
  BY DEF Intact, RootItems
<1>. QED  BY <1>1, <1>2, <1>3 DEF FaultsNeedLostChunks

\* The steps of the walk that end a call answer as the file system does, and so does a
\* step into a block that is not mapped.
LEMMA WalkAnswersRight ==
    ASSUME Known, IInv, PathInv, Walk, ~ Answered, Answered',
           NEW a, a.ret = IF pc' = "done" THEN ret' ELSE Crashed, a.stat = stat'
    PROVE  Fs!Right(a)
<1>0. openPc = "open"
  BY DEF Walk, Step, Start, FindHash, ScanTree, EnterInode, EnterSubvolume, EnterOther, NotFound,
     Exists, StatInode, WalkFaults, WalkStrays, IInv, AtPc
<1>1. CASE Start
  <2>1. ~ call.slash /\ a.ret = EINVAL
    BY <1>1 DEF Start, Answered
  <2>. QED  BY <1>0, <2>1, RightWithout
<1>2. CASE NotFound
  <2>1. a.ret = ENOENT /\ pc = "located" /\ located /= 0
    BY <1>2 DEF NotFound
  <2>2. call.slash /\ (outOfMemory \/ Id = NoObject)
    BY <2>1, NotFoundIsRight
  <2>. QED  BY <1>0, <2>1, <2>2, RightWithout
<1>3. CASE Exists
  <2>1. a.ret = 0 /\ call.op = "exists" /\ AtNamed /\ call.slash
    BY <1>3, LocatedIsNamed DEF Exists
  <2>2. Id /= NoObject
    BY <2>1, KnownFacts DEF AtNamed, HoldsFs
  <2>. QED  BY <1>0, <2>1, <2>2, RightOfObject
<1>4. CASE StatInode
  <2>1. call.op = "stat" /\ AtNamed /\ call.slash /\ pc' = "done"
    BY <1>4, LocatedIsNamed DEF StatInode
  <2>2. Id /= NoObject
    BY <2>1, KnownFacts DEF AtNamed, HoldsFs
  <2>3. CASE InodeKey \in KeysOf(image, fsTree)
    <3>1. a.ret = 0 /\ a.stat = StatOf(objectid, image.trees[fsTree][InodeKey])
      BY <1>4, <2>3 DEF StatInode
    <3>2. Fs!Stats(a)
      BY <2>1, <2>3, <3>1, StatIsRight
    <3>. QED  BY <1>0, <2>1, <2>2, <3>2, RightOfObject
  <2>4. CASE InodeKey \notin KeysOf(image, fsTree)
    <3>1. outOfMemory
      BY <2>1, <2>4, InodeIsSeen
    <3>2. a.ret = ENOENT
      BY <1>4, <2>4 DEF StatInode
    <3>. QED  BY <1>0, <2>1, <3>1, <3>2, RightWithout
  <2>. QED  BY <2>3, <2>4
<1>5. CASE WalkFaults
  <2>1. FaultsNeedLostChunks'
    BY NextIInv DEF SessionNext, CallStep, IInv
  <2>2. pc' = "crash" /\ outOfMemory' = outOfMemory /\ chunkList' = chunkList
    BY <1>5 DEF WalkFaults, Walk, openVars
  <2>3. OpenInv
    BY DEF IInv
  <2>4. outOfMemory
    BY <2>1, <2>2, <2>3, OnlyMemoryLosesChunks DEF FaultsNeedLostChunks
  <2>5. call.slash
    BY <1>5 DEF WalkFaults, IInv, AtPc
  <2>. QED  BY <1>0, <2>2, <2>4, <2>5, RightWithout
<1>6. CASE WalkStrays
  <2>1. pc' = "astray" /\ UNCHANGED image
    BY <1>6 DEF WalkStrays
  <2>. QED  BY <1>0, <2>1, NeverAstray DEF CallStep
<1>7. \/ pc' \notin {"done", "crash", "astray"}
      \/ Start \/ NotFound \/ Exists \/ StatInode \/ WalkFaults \/ WalkStrays
  BY DEF Walk, Step, FindHash, ScanTree, EnterInode, EnterSubvolume, EnterOther, NextName
<1>. QED  BY <1>1, <1>2, <1>3, <1>4, <1>5, <1>6, <1>7 DEF Answered

\* So does a listing.
LEMMA ListingAnswersRight ==
    ASSUME Known, IInv, PathInv, ListDir, NEW a, a.ret = ret', a.names = names'
    PROVE  Fs!Right(a)
<1>1. pc = "located" /\ located = 0 /\ call.op = "readdir" /\ ret' \in {0, ENOMEM}
  BY DEF ListDir, Located
<1>2. AtNamed /\ call.slash /\ openPc = "open"
  BY <1>1, LocatedIsNamed DEF AtNamed
<1>3. Id /= NoObject
  BY <1>2, KnownFacts DEF AtNamed, HoldsFs
<1>4. a.ret /= Crashed
  BY <1>1, NumbersReturn DEF ENOMEM
<1>5. Fs!Lists(a)
  BY ListDirIsRight
<1>. QED  BY <1>1, <1>2, <1>3, <1>4, <1>5, RightOfObject

\* And a read that runs into a block that is not mapped.
LEMMA ReadFaultsIsRight ==
    ASSUME Known, IInv, ReadInv, ReadFaults, NEW a, a.ret = Crashed
    PROVE  Fs!Right(a)
<1>1. FaultsNeedLostChunks'
  BY NextIInv DEF SessionNext, CallStep, IInv
<1>2. /\ pc' \in {"crash", "astray"} /\ outOfMemory' = outOfMemory /\ chunkList' = chunkList
      /\ image' = image /\ pc = "read"
  BY DEF ReadFaults, openVars
<1>4. call.slash /\ openPc = "open"
  BY <1>2, ReadCallFacts
<1>5. pc' = "crash"
  BY <1>2, <1>4, NeverAstray DEF CallStep
<1>3. outOfMemory
  BY <1>1, <1>2, <1>5, OnlyMemoryLosesChunks DEF FaultsNeedLostChunks, IInv
<1>. QED  BY <1>3, <1>4, RightWithout

\* Each step with which a call ends gives the answer of the abstract file system.
LEMMA AnswersAreRight ==
    ASSUME Known, IInv, PathInv, ReadInv, CallStep, ~ Answered, Answered'
    PROVE  Fs!Right(Told')
<1> DEFINE a == Told'
<1>1. /\ a.ret = IF pc' = "done" THEN ret' ELSE Crashed
      /\ a.stat = stat' /\ a.names = names' /\ a.data = buf'
  BY DEF Told
<1> HIDE DEF a
<1>2. ASSUME pc' = "done" PROVE a.ret = ret'
  BY <1>1, <1>2
<1>3. ASSUME Walk PROVE Fs!Right(a)
  BY <1>1, <1>3, WalkAnswersRight, Zenon
<1>4. ASSUME ListDir PROVE Fs!Right(a)
  <2>1. pc' = "done"
    BY <1>4 DEF ListDir
  <2>. QED  BY <1>1, <1>2, <1>4, <2>1, ListingAnswersRight, Zenon
<1>5. ASSUME ReadReturns PROVE Fs!Right(a)
  <2>1. pc' = "done"
    BY <1>5 DEF ReadReturns
  <2>. QED  BY <1>1, <1>2, <1>5, <2>1, ReadReturnsIsRight, Zenon
<1>6. ASSUME ReadlinkReturns PROVE Fs!Right(a)
  <2>1. pc' = "done"
    BY <1>6 DEF ReadlinkReturns
  <2>. QED  BY <1>1, <1>2, <1>6, <2>1, ReadlinkReturnsIsRight, Zenon
<1>7. ASSUME ReadFaults PROVE Fs!Right(a)
  <2>1. a.ret = Crashed
    BY <1>1, <1>7 DEF ReadFaults
  <2>. QED  BY <1>7, <2>1, ReadFaultsIsRight, Zenon
<1>8. ~ StartRead /\ ~ Reading /\ ~ ListStrays
  <2>1. ASSUME ListStrays PROVE FALSE
    <3>1. pc = "located" /\ pc' = "astray" /\ UNCHANGED image
      BY <2>1 DEF ListStrays, Located
    <3>2. openPc = "open"
      BY <3>1, CallFacts DEF IInv
    <3>. QED  BY <3>1, <3>2, NeverAstray
  <2>. QED  BY <2>1 DEF StartRead, Reading, vars, Answered
<1>9. Fs!Right(a)
  BY <1>3, <1>4, <1>5, <1>6, <1>7, <1>8, Zenon DEF CallStep
<1>. QED  BY <1>9 DEF a

\* An answer is told apart from none.
LEMMA ToldIsAnAnswer ==
    ASSUME Known, IInv, AnswerInv
    PROVE  Told /= NoAnswer
<1>1. stat \in Stat \cup {NoStat} /\ names \in Seq(Names \cup {".", ".."}) /\ buf \in Seq(Int)
  BY DEF AnswerInv
<1>2. ret \in Int
  BY DEF IInv, SessionTypeOK, ENOENT, EINVAL, ENOMEM
<1> DEFINE rets == Int \cup {Crashed}
           stats == Stat \cup {NoStat}
           lists == Seq(Names \cup {".", ".."})
           bytes == Seq(Int)
<1>3. NoAnswer \notin [ret : rets, stat : stats, names : lists, data : bytes]
  BY AnswersAssumption DEF Stat
<1>4. (IF pc = "done" THEN ret ELSE Crashed) \in rets
  BY <1>2
<1>5. stat \in stats /\ names \in lists /\ buf \in bytes
  BY <1>1
<1> HIDE DEF rets, stats, lists, bytes
<1>6. Told \in [ret : rets, stat : stats, names : lists, data : bytes]
  BY <1>4, <1>5 DEF Told
<1>. QED  BY <1>3, <1>6

\* A call that is over has said something.
Tells == Told /= NoAnswer

\* It has in the state after a step, too.
LEMMA NextTellsToo ==
    Known' /\ IInv' /\ AnswerInv' => Told' /= NoAnswer
<1>1. Known /\ IInv /\ AnswerInv => Tells
  BY ToldIsAnAnswer DEF Tells
<1>2. Known' /\ IInv' /\ AnswerInv' => Tells'
  BY <1>1, PTL
<1>. QED  BY <1>2 DEF Tells

\* A step of the library is one of the abstract file system, or none.
LEMMA StepsOfFs ==
    ASSUME Known, IInv, PathInv, ReadInv, AnswerInv, IInv', AnswerInv', SessionNext
    PROVE  [Fs!Next]_Fs!fsVars
<1> DEFINE fs == IF Known /\ openPc = "open"
                 THEN [whole |-> ~ outOfMemory, root |-> Contents[disk].root,
                       objects |-> Contents[disk].objects]
                 ELSE NoObject
           answer == IF Answered THEN Told ELSE NoAnswer
<1>1. CASE Opening \/ Close
  <2>1. pc = "idle" /\ pc' = "idle" /\ call' = call
    <3>1. Opening => openPc /= "open"
      BY OpeningAt DEF Opening
    <3>. QED  BY <1>1, <3>1 DEF Opening, Close, IInv, AtPc
  <2>2. call = NoCall /\ answer = NoAnswer /\ answer' = NoAnswer
    BY <2>1 DEF IInv, AtPc, Answered
  <2>3. Fs!Mount
    BY <2>1, <2>2 DEF Fs!Mount, Told
  <2>. QED  BY <2>3 DEF Fs!Next
<1>2. ASSUME UNCHANGED <<disk, openVars>> PROVE fs' = fs
  BY <1>2 DEF openVars, Known
<1>3. CASE Call
  <2>1. pc = "idle" /\ pc' = "start" /\ call = NoCall /\ call' /= NoCall
    BY <1>3, ReadCallsAssumption DEF Call, IInv, AtPc
  <2>2. answer = NoAnswer /\ answer' = NoAnswer /\ fs' = fs
    BY <1>2, <1>3, <2>1 DEF Call, Answered
  <2> HIDE DEF fs
  <2>3. Fs!Ask
    BY <2>1, <2>2 DEF Fs!Ask, Told, fs
  <2>. QED  BY <2>3 DEF Fs!Next
<1>4. CASE CallStep
  <2>1. UNCHANGED <<disk, openVars>> /\ call' = call
    BY <1>4 DEF CallStep, Walk, Step, Start, FindHash, ScanTree, EnterInode, EnterSubvolume, EnterOther,
       NotFound, Exists, StatInode, WalkFaults, WalkStrays, ListDir, ListStrays, StartRead, Reading, ReadReturns,
       ReadlinkReturns, ReadFaults, vars
  <2>2. ~ Answered
    BY <1>4 DEF CallStep, Walk, Step, Start, FindHash, ScanTree, EnterInode, EnterSubvolume, EnterOther,
       NotFound, Exists, StatInode, WalkFaults, WalkStrays, ListDir, ListStrays, Located, StartRead, Reading, ReadReturns,
       ReadlinkReturns, ReadFaults, Answered
  <2>3. fs' = fs /\ answer = NoAnswer
    BY <1>2, <2>1, <2>2
  <2>4. CASE ~ Answered'
    <3>1. answer' = NoAnswer
      BY <2>4
    <3>2. UNCHANGED Fs!fsVars
      BY <2>1, <2>3, <3>1 DEF Fs!fsVars, Told
    <3>. QED  BY <3>2
  <2>5. CASE Answered'
    <3>1. Fs!Right(Told') /\ answer' = Told'
      <4>1. Fs!Right(Told')
        BY <1>4, <2>2, <2>5, AnswersAreRight, Zenon
      <4>2. answer' = Told'
        BY <2>5
      <4>. QED  BY <4>1, <4>2
    <3>2. Told' /= NoAnswer /\ call /= NoCall
      <4>1. Known'
        BY <2>1 DEF Known
      <4>2. pc /= "idle"
        BY <1>4 DEF CallStep, Walk, Step, Start, FindHash, ScanTree, EnterInode, EnterSubvolume,
           EnterOther, NotFound, Exists, StatInode, WalkFaults, WalkStrays, ListDir, ListStrays, Located, StartRead, Reading,
           ReadReturns, ReadlinkReturns, ReadFaults
      <4>. QED  BY <4>1, <4>2, NextTellsToo, CallFacts
    <3>3. Fs!Answer
      BY <2>1, <2>2, <2>3, <2>5, <3>1, <3>2 DEF Fs!Answer, Told
    <3>. QED  BY <3>3 DEF Fs!Next
  <2>. QED  BY <2>4, <2>5
<1>5. CASE Return
  <2>1. /\ pc = "done" /\ pc' = "idle" /\ call' = NoCall
        /\ UNCHANGED <<disk, openVars>>
    BY <1>5 DEF Return
  <2>2. answer = Told /\ answer' = NoAnswer /\ fs' = fs /\ Told /= NoAnswer
    BY <1>2, <2>1, ToldIsAnAnswer DEF Answered
  <2>3. Fs!Forget
    BY <2>1, <2>2 DEF Fs!Forget, Told
  <2>. QED  BY <2>3 DEF Fs!Next
<1>6. CASE SessionOver
  <2>1. UNCHANGED Fs!fsVars
    BY <1>6 DEF SessionOver, sessionVars, openVars, vars, readVars, Fs!fsVars, Answered, Known
  <2>. QED  BY <2>1
<1>. QED  BY <1>1, <1>3, <1>4, <1>5, <1>6 DEF SessionNext

\* The library implements the file system it promises: on every disk that holds one,
\* each call answers as that does, whatever was called before.
THEOREM SessionIsReadOnlyFs == SessionSpec => ImplementsReadOnlyFs
<1> DEFINE Inv == IInv /\ PathInv /\ ReadInv /\ AnswerInv
<1>1. Inv /\ Inv' /\ [SessionNext]_sessionVars => [Known => [Fs!Next]_Fs!fsVars]_sessionVars
  <2> SUFFICES ASSUME Inv, Inv', SessionNext, Known PROVE [Fs!Next]_Fs!fsVars
    OBVIOUS
  <2>. QED  BY StepsOfFs
<1>. QED  BY <1>1, SpecAnswerInv, PTL DEF ImplementsReadOnlyFs, SessionSpec
=============================================================================
