----------------------------- MODULE ReadOnlyFs -----------------------------
(***************************************************************************)
(* What the calls of the library promise, with no trees, keys or chunks: a *)
(* file system whose objects have an inode number and a number of links;   *)
(* a directory has an object for each of its names, a file and a symbolic  *)
(* link have bytes.  One call is made at a time, and its answer depends on *)
(* the file system and the call, and on nothing that was called before.    *)
(* Where the answer is left open (a directory that is read, a file that is *)
(* listed, a file with no bytes), any that returns will do.                *)
(*                                                                         *)
(* A file system that is not whole may refuse a call, or not return, leave *)
(* names out of a listing and give blanks for bytes; but what it does tell *)
(* is right.                                                               *)
(***************************************************************************)
EXTENDS Integers, SequencesExt

CONSTANTS
    NoObject, NoCall, NoAnswer,
    Terminator,       \* the byte that ends a string
    Blank,            \* the byte that stands for one that is lost
    Success, NotFound, NotAbsolute, NoMemory, Unreturned   \* the outcomes that are no count

VARIABLES
    fs,      \* whole, root and objects: from an identity to kind, ino, links, entries, bytes
    call,
    answer   \* what was returned: ret, stat, names and data

fsVars == <<fs, call, answer>>

\* What a path of the file system f leads to after each number of its names.
Child(f, id, name) ==
    IF id /= NoObject /\ name \in DOMAIN f.objects[id].entries
    THEN f.objects[id].entries[name] ELSE NoObject
ObjectsOn(f, path) ==
    LET after[n \in 0 .. Len(path)] ==
            IF n = 0 THEN f.root ELSE Child(f, after[n - 1], path[n])
    IN  after
ObjectAt(path) == ObjectsOn(fs, path)[Len(path)]

Object == fs.objects[ObjectAt(call.path)]
IsDirectory == Object.kind = "dir"
Size == Len(Object.bytes)

Stats(a) ==
    /\ a.ret = Success
    /\ a.stat = [ino |-> Object.ino, dir |-> IsDirectory, size |-> Size, nlink |-> Object.links]

Agree(byte, expected) == byte = expected \/ (~ fs.whole /\ byte = Blank)

\* Every name of the directory, once, after the two that each directory has.
Lists(a) ==
    \/ a.ret = NoMemory
    \/ /\ a.ret = Success
       /\ SubSeq(a.names, 1, 2) = <<".", "..">>
       /\ IsInjective(a.names)
       /\ ToSet(a.names) \subseteq {".", ".."} \cup DOMAIN Object.entries
       /\ fs.whole => DOMAIN Object.entries \subseteq ToSet(a.names)

\* The bytes of the file from the offset on: as many as were asked for or there are.
\* The file may have been given more room than it has bytes, so more may come.
Reads(a) ==
    /\ a.ret = Len(a.data)
    /\ a.ret <= call.length
    /\ a.ret = call.length \/ call.offset + a.ret >= Size
    /\ \A n \in 1 .. a.ret :
        call.offset + n <= Size => Agree(a.data[n], Object.bytes[call.offset + n])

\* The target of the link, cut off at the length, and a terminator if there is room.
ReadsLink(a) ==
    /\ a.ret = Success
    /\ Len(a.data) = IF call.length <= Size THEN call.length ELSE Size + 1
    /\ \A n \in 1 .. Len(a.data) : Agree(a.data[n], Append(Object.bytes, Terminator)[n])

Returns(a) == a.ret /= Unreturned

Right(a) ==
    IF ~ call.slash THEN a.ret = NotAbsolute
    ELSE IF ~ fs.whole /\ a.ret \in {NotFound, Unreturned} THEN TRUE
    ELSE IF ObjectAt(call.path) = NoObject THEN a.ret = NotFound
    ELSE CASE call.op = "exists" -> a.ret = Success
           [] call.op = "stat" -> Stats(a)
           [] call.op = "readdir" /\ IsDirectory -> Lists(a)
           [] call.op = "read" /\ Object.kind = "file" /\ Size > 0 -> Reads(a)
           [] call.op = "readlink" /\ Object.kind = "link" -> ReadsLink(a)
           [] OTHER -> Returns(a)

\* Between two calls it may be another file system.
Mount ==
    /\ call = NoCall
    /\ UNCHANGED <<call, answer>>

Ask ==
    /\ call = NoCall
    /\ call' /= NoCall
    /\ UNCHANGED <<fs, answer>>

Answer ==
    /\ call /= NoCall /\ answer = NoAnswer
    /\ answer' /= NoAnswer
    /\ Right(answer')
    /\ UNCHANGED <<fs, call>>

Forget ==
    /\ answer /= NoAnswer
    /\ call' = NoCall /\ answer' = NoAnswer
    /\ UNCHANGED fs

Next == Mount \/ Ask \/ Answer \/ Forget
Spec == call = NoCall /\ answer = NoAnswer /\ [][Next]_fsVars
=============================================================================
