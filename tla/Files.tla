------------------------------- MODULE Files -------------------------------
(* The guest's files (filesystem/, coreinit_fs.cpp): a tree of nodes that   *)
(* is filled from the host's disk as paths are looked up, and a client's    *)
(* tables of handles to its nodes.  A file's node owns the one stream with  *)
(* which every handle of the file reads.  The disk is that of Windows: a    *)
(* name is found whatever its case.                                         *)
EXTENDS Integers, FiniteSets, Sequences

CONSTANTS Disk,         \* "file" or "folder" of each path of the disk
          Listing,      \* the entries FindFirstFile and FindNextFile return
          GamePaths,    \* the paths the game opens
          SameName,     \* the pairs of names that differ in case only
          FileSize, ReadSizes,
          MaxHandles, MaxNodes  \* bounds

\* A listing of the disk starts with . and .., which are nowhere else in it.
ListsDirectory(s) ==
    /\ s \in Seq(STRING) /\ Len(s) >= 2 /\ s[1] = "." /\ s[2] = ".."
    /\ \A k \in 3 .. Len(s) : s[k] \notin {".", ".."}

\* The game does not open the root itself, which is not on the disk.
ASSUME FileAssumption ==
    /\ FileSize \in Nat /\ ReadSizes \subseteq Nat
    /\ MaxHandles \in Nat /\ MaxNodes > 2
    /\ \A p \in DOMAIN Disk : Disk[p] = "folder" =>
          p # <<>> /\ p \in DOMAIN Listing /\ ListsDirectory(Listing[p])
    /\ <<"data">> \in DOMAIN Disk /\ Disk[<<"data">>] = "folder"
    /\ \A path \in GamePaths : path \in Seq(STRING) \ {<<>>, <<"/">>}

VARIABLES nodes,        \* the nodes of the tree, the root first
          mOpenFiles, mOpenFolders,
          held,         \* the handles of files the game holds, and what it expects
          heldDirs      \* the same of directories

fileVars == <<nodes, mOpenFiles, mOpenFolders, held, heldDirs>>

None == 0
Root == 1

\* A folder of the host remembers where its search stands: cursor is the
\* entry in findData, None when the search is closed.
Folder(name, path) ==
    [type |-> "folder", name |-> name, path |-> path, children |-> <<>>, cursor |-> None]
File(name, path) ==
    [type |-> "file", name |-> name, path |-> path,
     open |-> FALSE, fail |-> FALSE, pos |-> 0]

-----------------------------------------------------------------------------
(* The tree.                                                                *)

addChild(ns, f, node) ==
    Append([ns EXCEPT ![f].children = Append(@, Len(ns) + 1)], node)

OnDisk(path, name) ==
    {p \in DOMAIN Disk : /\ Len(p) = Len(path) + 1 /\ SubSeq(p, 1, Len(path)) = path
                         /\ (p[Len(p)] = name \/ <<name, p[Len(p)]>> \in SameName)}

\* A child that is only on the disk becomes a node, with the disk's spelling
\* of its name.
findChild(ns, f, name) ==
    LET known == {k \in DOMAIN ns[f].children : ns[ns[f].children[k]].name = name}
        first == CHOOSE k \in known : \A j \in known : k <= j
        hosts == IF ns[f].path = <<>> THEN {} ELSE OnDisk(ns[f].path, name)
        p == CHOOSE p \in hosts : TRUE
        node == IF Disk[p] = "folder" THEN Folder(p[Len(p)], p)
                ELSE File(p[Len(p)], p)
    IN  CASE known # {} -> [nodes |-> ns, node |-> ns[f].children[first]]
          [] known = {} /\ hosts # {} ->
                [nodes |-> addChild(ns, f, node), node |-> Len(ns) + 1]
          [] OTHER -> [nodes |-> ns, node |-> None]

\* A path that does not start at the root finds nothing: nothing adds the
\* working directory to it.
findNode(ns, path) ==
    LET walk[n \in 1 .. Len(path)] ==
            IF n = 1
            THEN [nodes |-> ns, node |-> IF path[1] = "/" THEN Root ELSE None]
            ELSE LET before == walk[n - 1]
                 IN  IF before.node = None THEN before
                     ELSE IF before.nodes[before.node].type # "folder"
                     THEN [before EXCEPT !.node = None]
                     ELSE findChild(before.nodes, before.node, path[n])
    IN  walk[Len(path)]

mountHostFolder(ns, name, path) == addChild(ns, Root, Folder(name, path))

-----------------------------------------------------------------------------
(* A file's stream.                                                         *)

\* Opening a stream that is open fails, and leaves it open.
Opened(f) == IF f.open THEN [f EXCEPT !.fail = TRUE]
             ELSE [f EXCEPT !.open = TRUE, !.fail = FALSE, !.pos = 0]

Closed(f) == IF f.open THEN [f EXCEPT !.open = FALSE] ELSE [f EXCEPT !.fail = TRUE]
Available(f) == IF f.pos < FileSize THEN FileSize - f.pos ELSE 0
Got(f, size) == IF f.fail \/ ~f.open THEN 0
                ELSE IF size <= Available(f) THEN size ELSE Available(f)
\* A read that comes short fails the stream, which then moves no more.
Read(f, size) == [f EXCEPT !.pos = @ + Got(f, size), !.fail = @ \/ Got(f, size) < size]
Sought(f, pos) == IF f.fail \/ ~f.open THEN f ELSE [f EXCEPT !.pos = pos]
\* The size of a file that is not open is found by opening and closing it.
Stat(f) == IF f.open THEN f ELSE Closed(Opened(f))
SizeOf(f) == IF f.open /\ f.fail THEN -1 ELSE FileSize

-----------------------------------------------------------------------------
(* Handles.  A table is a function from 0; a slot without a node is free.   *)

MutantSlot(table) ==
    LET end == Cardinality(DOMAIN table) IN IF end < 2 THEN end ELSE 1

\* Slot 0 is never used again, and of the table of files never used.
Slot(table) ==
    LET free == {k \in DOMAIN table : k >= 1 /\ table[k] = None}
    IN  IF free = {} THEN Cardinality(DOMAIN table)
        ELSE CHOOSE k \in free : \A j \in free : k <= j

AddTo(table, node) ==
    [k \in DOMAIN table \cup {Slot(table)} |->
        IF k = Slot(table) THEN node ELSE table[k]]

InitFiles ==
    /\ nodes = mountHostFolder(<<Folder("/", <<>>)>>, "vol", <<"data">>)
    /\ mOpenFiles = [k \in {0} |-> None]
    /\ mOpenFolders = [k \in {} |-> None]
    /\ held = {} /\ heldDirs = {}

\* Nothing more is expected of a handle that shares its node.
Lost(h) == IF "pos" \in DOMAIN h THEN [h EXCEPT !.sound = FALSE, !.pos = 0]
           ELSE [h EXCEPT !.sound = FALSE, !.got = <<>>]
Unsound(handles, node) ==
    {IF h.node = node THEN Lost(h) ELSE h : h \in handles}

FSOpenFile ==
    \E path \in GamePaths :
        LET found == findNode(nodes, path)
            n == found.node
            alone == \A h \in held : h.node # n
        IN  /\ Len(found.nodes) <= MaxNodes
            /\ IF n = None \/ found.nodes[n].type # "file"
               THEN /\ nodes' = found.nodes
                    /\ UNCHANGED <<mOpenFiles, held>>
               ELSE /\ Cardinality(held \cup heldDirs) < MaxHandles
                    /\ nodes' = [found.nodes EXCEPT ![n] = Opened(@)]
                    /\ mOpenFiles' = AddTo(mOpenFiles, n)
                    /\ held' = Unsound(held, n) \cup
                          {[handle |-> Slot(mOpenFiles), node |-> n,
                            pos |-> 0, sound |-> alone]}
            /\ UNCHANGED <<mOpenFolders, heldDirs>>

FSGetStat ==
    \E path \in GamePaths :
        LET found == findNode(nodes, path)
            n == found.node
        IN  /\ Len(found.nodes) <= MaxNodes
            /\ nodes' = IF n = None \/ found.nodes[n].type # "file" THEN found.nodes
                        ELSE [found.nodes EXCEPT ![n] = Stat(@)]
            /\ UNCHANGED <<mOpenFiles, mOpenFolders, held, heldDirs>>

\* A read through a handle, from where the stream is or after a seek.
FSReadFile ==
    \E h \in held, size \in ReadSizes, pos \in ReadSizes \cup {-1} :
        LET n == mOpenFiles[h.handle]
            f == IF pos = -1 THEN nodes[n] ELSE Sought(nodes[n], pos)
            from == IF pos = -1 THEN h.pos ELSE pos
        IN  /\ nodes' = [nodes EXCEPT ![n] = Read(f, size)]
            /\ held' = (held \ {h}) \cup
                  {IF h.sound /\ from + size <= FileSize
                   THEN [h EXCEPT !.pos = from + size] ELSE Lost(h)}
            /\ UNCHANGED <<mOpenFiles, mOpenFolders, heldDirs>>

FSSetPosFile ==
    \E h \in held, pos \in ReadSizes :
        /\ nodes' = [nodes EXCEPT ![mOpenFiles[h.handle]] = Sought(@, pos)]
        /\ held' = (held \ {h}) \cup {IF h.sound THEN [h EXCEPT !.pos = pos] ELSE h}
        /\ UNCHANGED <<mOpenFiles, mOpenFolders, heldDirs>>

\* removeFile closes the stream a second time.
FSCloseFile ==
    \E h \in held :
        /\ nodes' = [nodes EXCEPT ![mOpenFiles[h.handle]] = Closed(Closed(@))]
        /\ mOpenFiles' = [mOpenFiles EXCEPT ![h.handle] = None]
        /\ held' = held \ {h}
        /\ UNCHANGED <<mOpenFolders, heldDirs>>

-----------------------------------------------------------------------------
(* Directories.                                                             *)

FSOpenDir ==
    \E path \in GamePaths :
        LET found == findNode(nodes, path)
            n == found.node
            alone == \A h \in heldDirs : h.node # n
        IN  /\ Len(found.nodes) <= MaxNodes
            /\ IF n = None \/ found.nodes[n].type # "folder"
               THEN /\ nodes' = found.nodes
                    /\ UNCHANGED <<mOpenFolders, heldDirs>>
               ELSE /\ Cardinality(held \cup heldDirs) < MaxHandles
                    /\ nodes' = [found.nodes EXCEPT ![n].cursor = 1]
                    /\ mOpenFolders' = AddTo(mOpenFolders, n)
                    /\ heldDirs' = Unsound(heldDirs, n) \cup
                          {[handle |-> Slot(mOpenFolders), node |-> n,
                            got |-> <<>>, ended |-> FALSE, sound |-> alone]}
            /\ UNCHANGED <<mOpenFiles, held>>

\* The entry in findData is returned unless the one after it, which is read
\* first, is . or .. (filesystem_win_folder.h:57): the second entry of every
\* directory is returned, and is "..".
ReadEntry(list, cursor) ==
    LET read[c \in 0 .. Len(list)] ==
            IF c = None THEN [cursor |-> None, found |-> FALSE, entry |-> ""]
            ELSE LET next == IF c < Len(list) THEN c + 1 ELSE None
                     data == IF next = None THEN list[c] ELSE list[next]
                 IN  IF data \notin {".", ".."}
                     THEN [cursor |-> next, found |-> TRUE, entry |-> list[c]]
                     ELSE IF next = None
                     THEN [cursor |-> None, found |-> FALSE, entry |-> ""]
                     ELSE read[next]
    IN  read[cursor]

FSReadDir ==
    \E h \in heldDirs :
        LET n == mOpenFolders[h.handle]
            r == ReadEntry(Listing[nodes[n].path], nodes[n].cursor)
        IN  /\ ~h.ended
            /\ nodes' = [nodes EXCEPT ![n].cursor = r.cursor]
            /\ heldDirs' = (heldDirs \ {h}) \cup
                  {IF ~r.found THEN [h EXCEPT !.ended = TRUE]
                   ELSE IF h.sound THEN [h EXCEPT !.got = Append(@, r.entry)]
                   ELSE h}
            /\ UNCHANGED <<mOpenFiles, mOpenFolders, held>>

FSCloseDir ==
    \E h \in heldDirs :
        /\ nodes' = [nodes EXCEPT ![mOpenFolders[h.handle]].cursor = None]
        /\ mOpenFolders' = [mOpenFolders EXCEPT ![h.handle] = None]
        /\ heldDirs' = heldDirs \ {h}
        /\ UNCHANGED <<mOpenFiles, held>>

NextFiles == FSOpenFile \/ FSGetStat \/ FSReadFile \/ FSSetPosFile \/ FSCloseFile
             \/ FSOpenDir \/ FSReadDir \/ FSCloseDir

SpecFiles == InitFiles /\ [][NextFiles]_fileVars

-----------------------------------------------------------------------------
(* Properties.                                                              *)

\* A handle the game holds is of the file it opened, whatever was opened and
\* closed since, and no two are the same; a handle it has closed is of none.
HandlesKeepTheirFile ==
    /\ \A h \in held : mOpenFiles[h.handle] = h.node
    /\ \A h \in heldDirs : mOpenFolders[h.handle] = h.node
    /\ \A k \in DOMAIN mOpenFiles :
          mOpenFiles[k] = None <=> ~\E h \in held : h.handle = k
    /\ \A k \in DOMAIN mOpenFolders :
          mOpenFolders[k] = None <=> ~\E h \in heldDirs : h.handle = k

\* Reads through a handle give the bytes at the position its own reads and
\* seeks have reached, as long as the file was not opened twice and no read
\* came short (after either the stream has failed for good).
ReadsWhereItIs ==
    \A h \in held : h.sound =>
        /\ nodes[h.node].open /\ ~nodes[h.node].fail
        /\ nodes[h.node].pos = h.pos
        /\ SizeOf(nodes[h.node]) = FileSize

\* Looking a path up again finds the node the first lookup found, whatever
\* was looked up in between, so that two opens of it meet the same stream:
\* unless the path spells a name in another case than the disk.
OneNodePerPath ==
    \A path \in GamePaths :
        LET first == findNode(nodes, path)
        IN  (\A k \in DOMAIN path : \A pair \in SameName : path[k] # pair[1])
            => findNode(first.nodes, path) = first

\* A listing that was read to its end has every entry of the directory once,
\* in the order of the disk, and never "." : ".." comes first, unless the
\* directory is empty.
ListingComplete ==
    \A h \in heldDirs : h.sound /\ h.ended =>
        LET all == Listing[nodes[h.node].path]
            entries == SubSeq(all, 3, Len(all))
        IN  h.got = IF entries = <<>> THEN <<>> ELSE <<"..">> \o entries

\* A handle reads the file it was opened on where the guest left it, a path has
\* one node however often it is looked up, and a listing names every child.
FilesKept ==
    /\ HandlesKeepTheirFile
    /\ ReadsWhereItIs
    /\ OneNodePerPath
    /\ ListingComplete

=============================================================================
