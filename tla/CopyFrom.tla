------------------------------ MODULE CopyFrom ------------------------------
(***************************************************************************)
(* Driver.CopyFrom (internal/docker/docker.go): extractCopyTar writes a tar *)
(* stream that comes out of a container into a host directory, or into one  *)
(* host file.  The archive is whatever the guest made of it, the host       *)
(* directory may hold files and symbolic links, and other programs may put  *)
(* links there while it is being written.                                   *)
(***************************************************************************)
EXTENDS Naturals, Sequences, SequencesExt

CONSTANTS
    Trees,       \* what the destination may hold beforehand
    MaxEntries,  \* bound: entries of the archive
    MaxLinks     \* bound: links others put there meanwhile

\* Components of archive names; a name of <<"", ...>> is absolute.
Parts == {"a", "b", ".", "..", ""}
RawNames == UNION {[1 .. n -> Parts] : n \in 1 .. 2}

\* The destination file's own name, in file mode.
Target == <<"dest">>

\* The host paths that matter, relative to the root that was opened.
Paths == (UNION {[1 .. n -> {"a", "b"}] : n \in 1 .. 2}) \cup {Target}

\* Links that lead to a place below the root, which is none of Paths, and links
\* that lead out of it.
Links == {"in", "out"}
Kinds == {"none", "dir", "file"} \cup Links

ASSUME CopyFromAssumption ==
    /\ Trees \subseteq [Paths -> Kinds]
    /\ MaxEntries \in Nat /\ MaxLinks \in Nat

VARIABLES
    asDir,      \* the destination is a directory
    fs,         \* what each path is
    pc,         \* reading the next entry, writing one, or how it returned
    entry,      \* the entry being written
    wroteFile,
    read,       \* entries so far
    links,      \* links put there by others so far
    fileOpened, \* some file was opened for writing (history)
    late,       \* links put there since the entry was checked (history)
    through     \* links the entry was written through (history)

fromVars == <<asDir, fs, pc, entry, wroteFile, read, links, fileOpened, late, through>>

-----------------------------------------------------------------------------
\* filepath.Clean of a relative name without "..".
Clean(raw) ==
    LET kept[i \in 0 .. Len(raw)] ==
            IF i = 0 THEN <<>>
            ELSE IF raw[i] \in {".", ""} THEN kept[i - 1] ELSE Append(kept[i - 1], raw[i])
    IN  kept[Len(raw)]

\* Mutant: the parent is refused only as the first component.
UnsafeLeading(raw) == raw[1] \in {"", ".."} \/ Clean(raw) = <<>>

\* safeArchiveName refuses an empty or absolute name, a component "..", and
\* what cleans to the root itself.
Unsafe(raw) ==
    \/ raw[1] = ""
    \/ \E i \in DOMAIN raw : raw[i] = ".."
    \/ Clean(raw) = <<>>

Above(p) == {SubSeq(p, 1, n) : n \in 1 .. Len(p)}

\* root.Lstat
Kind(p) == IF p \in Paths THEN fs[p] ELSE "none"

\* Mutant: only the last component is looked at.
RejectLinkAtEnd(p) == Kind(p) \in Links

\* rejectExistingSymlink: some component of the path is a link; below a file
\* Lstat fails.
RejectExistingSymlink(p) ==
    \E q \in Above(p) : Kind(q) \in Links \/ (q # p /\ Kind(q) = "file")

\* What root.MkdirAll needs of a path below the root.
DirsFit(p) == \A q \in Above(p) : fs[q] \in {"none", "dir"}

MkdirAll(p, f) == [q \in Paths |-> IF q \in Above(p) THEN "dir" ELSE f[q]]

InDir(p) == \A q \in Above(p) \ {p} : fs[q] = "dir"

\* os.Root refuses a link that leads out of the root and follows one that does
\* not; what is done below it is done elsewhere.
Followed(p) == {q \in Above(p) : fs[q] = "in" /\ InDir(q)}

-----------------------------------------------------------------------------
FromInit ==
    /\ fs \in Trees
    /\ asDir \in BOOLEAN
    /\ pc = "next" /\ entry = <<>> /\ wroteFile = FALSE /\ read = 0
    /\ links = 0 /\ fileOpened = FALSE /\ late = {} /\ through = {}

\* The end of the archive: in file mode there must have been a file.
AtEOF ==
    /\ pc = "next"
    /\ pc' = IF ~asDir /\ ~wroteFile THEN "err" ELSE "ok"
    /\ UNCHANGED <<asDir, fs, entry, wroteFile, read, links, fileOpened, late, through>>

\* The stream breaks, or the file system fails.
Broken ==
    /\ pc \in {"next", "mkdir", "parent", "open"}
    /\ pc' = "err"
    /\ UNCHANGED <<asDir, fs, entry, wroteFile, read, links, fileOpened, late, through>>

NextEntry ==
    /\ pc = "next" /\ read < MaxEntries
    /\ read' = read + 1 /\ late' = {} /\ through' = {}
    /\ UNCHANGED <<asDir, fs, links, fileOpened>>

\* A directory: "." is skipped before the name is looked at, and in file mode
\* every directory is.
DirEntry(raw) ==
    /\ NextEntry
    /\ LET name == Clean(raw) IN
       IF raw = <<".">> \/ raw = <<".", "">> THEN UNCHANGED <<pc, entry>>
       ELSE IF Unsafe(raw) THEN pc' = "err" /\ UNCHANGED entry
       ELSE IF ~asDir THEN UNCHANGED <<pc, entry>>
       ELSE IF RejectExistingSymlink(name) THEN pc' = "err" /\ UNCHANGED entry
       ELSE pc' = "mkdir" /\ entry' = name
    /\ UNCHANGED wroteFile

\* Mutant: a second file overwrites the first one.
FileEntryAgain(raw) ==
    /\ NextEntry
    /\ LET name == IF asDir THEN Clean(raw) ELSE Target IN
       IF Unsafe(raw) THEN pc' = "err" /\ UNCHANGED <<entry, wroteFile>>
       ELSE /\ wroteFile' = (wroteFile \/ ~asDir)
            /\ IF RejectExistingSymlink(name) THEN pc' = "err" /\ UNCHANGED entry
               ELSE pc' = "parent" /\ entry' = name

\* A regular file; file mode takes exactly one, under the destination's name.
FileEntry(raw) ==
    /\ NextEntry
    /\ LET name == IF asDir THEN Clean(raw) ELSE Target IN
       IF Unsafe(raw) \/ (~asDir /\ wroteFile)
       THEN pc' = "err" /\ UNCHANGED <<entry, wroteFile>>
       ELSE /\ wroteFile' = (wroteFile \/ ~asDir)
            /\ IF RejectExistingSymlink(name) THEN pc' = "err" /\ UNCHANGED entry
               ELSE pc' = "parent" /\ entry' = name

\* Links and special files of the archive: the name is checked, nothing is
\* written.
OtherEntry(raw) ==
    /\ NextEntry
    /\ pc' = IF Unsafe(raw) THEN "err" ELSE "next"
    /\ UNCHANGED <<entry, wroteFile>>

\* root.MkdirAll, after the check: of the directory, or of the file's parent.
MakeDirs(p, then) ==
    /\ IF p = <<>> \/ DirsFit(p)
       THEN /\ fs' = IF p = <<>> THEN fs ELSE MkdirAll(p, fs)
            /\ pc' = then
       ELSE UNCHANGED fs /\ pc' \in IF Followed(p) # {} THEN {then, "err"} ELSE {"err"}
    /\ through' = through \cup Followed(p)
    /\ UNCHANGED <<asDir, entry, wroteFile, read, links, fileOpened, late>>

Mkdir == pc = "mkdir" /\ MakeDirs(entry, "next")

MkdirParent == pc = "parent" /\ MakeDirs(Front(entry), "open")

\* root.OpenFile with O_TRUNC, then the copy; one that fails leaves the file.
OpenFile ==
    /\ pc = "open"
    /\ \/ /\ InDir(entry) /\ fs[entry] \in {"none", "file"}
          /\ fs' = [fs EXCEPT ![entry] = "file"]
          /\ fileOpened' = TRUE /\ pc' \in {"next", "err"}
       \/ /\ Followed(entry) # {}
          /\ fileOpened' = TRUE /\ pc' \in {"next", "err"}
          /\ UNCHANGED fs
       \/ /\ ~InDir(entry) \/ fs[entry] \notin {"none", "file"}
          /\ pc' = "err"
          /\ UNCHANGED <<fs, fileOpened>>
    /\ through' = through \cup Followed(entry)
    /\ UNCHANGED <<asDir, entry, wroteFile, read, links, late>>

\* Another program replaces what is at q, with all below it, by a link.
OtherLink(q, kind) ==
    /\ pc \notin {"ok", "err"} /\ links < MaxLinks
    /\ InDir(q)
    /\ fs' = [p \in Paths |-> IF p = q THEN kind ELSE IF q \in Above(p) THEN "none" ELSE fs[p]]
    /\ links' = links + 1 /\ late' = late \cup {q}
    /\ UNCHANGED <<asDir, pc, entry, wroteFile, read, fileOpened, through>>

FromNext ==
    \/ AtEOF \/ Broken \/ Mkdir \/ MkdirParent \/ OpenFile
    \/ \E raw \in RawNames : DirEntry(raw) \/ FileEntry(raw) \/ OtherEntry(raw)
    \/ \E q \in Paths, kind \in Links : OtherLink(q, kind)

FromSpec == FromInit /\ [][FromNext]_fromVars

-----------------------------------------------------------------------------
(* Properties.                                                              *)

\* safeArchiveName: whatever the names in the archive, the path that is about
\* to be written is one below the root.  In file mode it is the destination's own
\* and was not written before, and success means that it was, whether or not
\* there was a file to be replaced.
BelowRoot ==
    /\ pc \in {"mkdir", "parent", "open"} =>
          entry \in Paths /\ (~asDir => pc # "mkdir" /\ entry = Target /\ ~fileOpened)
    /\ ~asDir /\ pc = "ok" => fileOpened

\* rejectExistingSymlink looks before MkdirAll and OpenFile act: a link that an
\* entry is written through is one that appeared in between; none that was there
\* when the entry was looked at is followed.
LinksRejected == through \subseteq late
=============================================================================
