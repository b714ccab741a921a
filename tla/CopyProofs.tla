----------------------------- MODULE CopyProofs -----------------------------
(***************************************************************************)
(* What a return of CopyTo means, for host trees of every size; and where   *)
(* CopyFrom writes, for archives of any number of entries, whatever the     *)
(* destination holds and whichever links others put there meanwhile.        *)
(***************************************************************************)
EXTENDS CopyTo, CopyFrom, SequenceTheorems, TLAPS

-----------------------------------------------------------------------------
(* CopyTo.                                                                  *)

\* The inductive invariant of the archive's way from the walk to the guest.
THEOREM DeliveredInvariant == ToSpec => [](TypeOK /\ Delivered)
<1>1. ToInit => TypeOK /\ Delivered
  BY CopyToAssumption DEF ToInit, TypeOK, Delivered
<1>2. TypeOK /\ Delivered /\ [ToNext]_toVars => TypeOK' /\ Delivered'
  <2> SUFFICES ASSUME TypeOK, Delivered, [ToNext]_toVars
               PROVE  TypeOK' /\ Delivered'
    OBVIOUS
  <2> USE CopyToAssumption DEF TypeOK, Delivered
  <2>1. CASE WriteEntry
    BY <2>1 DEF WriteEntry
  <2>13. CASE EntryShrinks
    BY <2>13 DEF EntryShrinks, call
  <2>2. CASE WalkEnds
    BY <2>2 DEF WalkEnds, call
  <2>3. CASE WalkFails
    BY <2>3 DEF WalkFails, call
  <2>4. CASE WriteRefused
    BY <2>4 DEF WriteRefused, call
  <2>5. CASE WriteTrailer
    BY <2>5 DEF WriteTrailer, call
  <2>6. CASE CloseArchive
    BY <2>6 DEF CloseArchive, call
  <2>7. CASE Report
    BY <2>7 DEF Report, call
  <2>8. CASE EngineAccepts
    BY <2>8 DEF EngineAccepts, walk
  <2>9. CASE EngineFails
    BY <2>9 DEF EngineFails, walk
  <2>10. CASE CallReturns
    BY <2>10 DEF CallReturns, walk
  <2>11. CASE Drain
    BY <2>11 DEF Drain, walk
  <2>12. CASE UNCHANGED toVars
    BY <2>12 DEF toVars
  <2> QED
    BY <2>1, <2>2, <2>3, <2>4, <2>5, <2>6, <2>7, <2>8, <2>9, <2>10, <2>11, <2>12, <2>13
       DEF ToNext, Writer
<1> QED
  BY <1>1, <1>2, PTL DEF ToSpec

\* CopyTo's nil means that the guest received every entry of the host tree.
THEOREM CopiedThm == ToSpec => []NilMeansCopied
<1>1. TypeOK /\ Delivered => NilMeansCopied
  BY DEF Delivered, NilMeansCopied
<1> QED
  BY <1>1, DeliveredInvariant, PTL

-----------------------------------------------------------------------------
(* CopyFrom: names.                                                         *)

\* One component more, unless it is dropped.
Add(s, part) == IF part \in {".", ""} THEN s ELSE Append(s, part)

\* Names have at most two components.
LEMMA CleanUnfolds ==
    ASSUME NEW raw \in RawNames
    PROVE  \/ Len(raw) = 1 /\ Clean(raw) = Add(<<>>, raw[1])
           \/ Len(raw) = 2 /\ Clean(raw) = Add(Add(<<>>, raw[1]), raw[2])
  <1>1. Len(raw) \in {1, 2}
    BY DEF RawNames
  <1> DEFINE Step(f) == [i \in 0 .. Len(raw) |-> IF i = 0 THEN <<>> ELSE Add(f[i - 1], raw[i])]
             kept == CHOOSE f : f = Step(f)
             one == Add(<<>>, raw[1])
             two == Add(one, raw[2])
             fix == [i \in 0 .. Len(raw) |-> IF i = 0 THEN <<>> ELSE IF i = 1 THEN one ELSE two]
  <1>2. Clean(raw) = kept[Len(raw)]
    BY DEF Clean, Add
  <1>3. fix = Step(fix)
    <2>1. ASSUME NEW i \in 0 .. Len(raw) PROVE Step(fix)[i] = fix[i]
      <3>1. CASE i = 0
        BY <3>1
      <3>2. CASE i = 1
        BY <1>1, <3>2
      <3>3. CASE i = 2
        BY <1>1, <3>3
      <3> QED BY <1>1, <3>1, <3>2, <3>3
    <2> QED BY <2>1
  <1>4. kept = Step(kept)
    BY <1>3
  <1> HIDE DEF kept
  <1>5. kept[0] = <<>> /\ kept[1] = one
    BY <1>1, <1>4
  <1>6. Len(raw) = 2 => kept[2] = two
    BY <1>1, <1>4, <1>5
  <1> QED BY <1>1, <1>2, <1>5, <1>6

\* A name that safeArchiveName lets pass is a path below the root.
LEMMA CleanIsPath ==
    ASSUME NEW raw \in RawNames, ~Unsafe(raw)
    PROVE  Clean(raw) \in Paths /\ Clean(raw) # Target
  <1>1. PICK n \in {1, 2} : raw \in [1 .. n -> Parts] /\ Len(raw) = n
    BY DEF RawNames
  <1>2. raw[1] \in {"a", "b", ".", ""} /\ (n = 2 => raw[2] \in {"a", "b", ".", ""})
    <2>1. \A i \in 1 .. n : raw[i] \in {"a", "b", ".", ""}
      BY <1>1 DEF Unsafe, Parts
    <2>2. 1 \in 1 .. n /\ (n = 2 => 2 \in 1 .. n)
      OBVIOUS
    <2> QED BY <2>1, <2>2
  <1>3. Clean(raw) # <<>>
    BY DEF Unsafe
  <1>4. \A p : Append(<<>>, p) = <<p>>
    OBVIOUS
  <1>5. \A p, q \in Parts : Append(<<p>>, q) = <<p, q>>
    <2> TAKE p, q \in Parts
    <2>1. <<p>> \in Seq(Parts) /\ Len(<<p>>) = 1 /\ <<p>>[1] = p
      OBVIOUS
    <2>2. <<p, q>> \in Seq(Parts) /\ Len(<<p, q>>) = 2 /\ <<p, q>>[1] = p /\ <<p, q>>[2] = q
      OBVIOUS
    <2>3. PICK s \in Seq(Parts) : s = <<p>>
      BY <2>1
    <2>4. Append(s, q) \in Seq(Parts) /\ Len(Append(s, q)) = 2
          /\ Append(s, q)[1] = p /\ Append(s, q)[2] = q
      BY <2>1, <2>3
    <2>5. \A i \in 1 .. 2 : i = 1 \/ i = 2
      OBVIOUS
    <2>6. PICK u, v \in Seq(Parts) : u = Append(s, q) /\ v = <<p, q>>
      BY <2>2, <2>4
    <2> QED BY <2>2, <2>3, <2>4, <2>5, <2>6, SeqEqual
  <1>6. \A p, q \in {"a", "b"} : <<p>> \in Paths /\ <<p, q>> \in Paths
    BY DEF Paths
  <1>7. \A p, q \in {"a", "b"} : <<p>> # Target /\ <<p, q>> # Target
    BY DEF Target
  <1>8. \A p : Add(<<>>, p) = IF p \in {".", ""} THEN <<>> ELSE <<p>>
    BY <1>4 DEF Add
  <1>9. CASE n = 1
    <2>0. Clean(raw) = Add(<<>>, raw[1])
      BY <1>1, <1>9, CleanUnfolds
    <2>1. Clean(raw) = <<raw[1]>> /\ raw[1] \in {"a", "b"}
      BY <1>2, <1>3, <1>8, <2>0
    <2> QED BY <1>6, <1>7, <2>1
  <1>10. CASE n = 2
    <2>1. Clean(raw) = Add(Add(<<>>, raw[1]), raw[2])
      BY <1>1, <1>10, CleanUnfolds
    <2>2. raw[1] \in {"a", "b", ".", ""} /\ raw[2] \in {"a", "b", ".", ""}
      BY <1>2, <1>10
    <2>3. CASE raw[1] \in {".", ""}
      <3>1. Clean(raw) = <<raw[2]>> /\ raw[2] \in {"a", "b"}
        BY <1>3, <1>8, <2>1, <2>2, <2>3
      <3> QED BY <1>6, <1>7, <3>1
    <2>4. CASE raw[1] \in {"a", "b"}
      <3>1. \/ raw[2] \in {".", ""} /\ Clean(raw) = <<raw[1]>>
            \/ raw[2] \in {"a", "b"} /\ Clean(raw) = <<raw[1], raw[2]>>
        BY <1>5, <1>8, <2>1, <2>2, <2>4 DEF Add, Parts
      <3> QED BY <1>6, <1>7, <2>4, <3>1
    <2> QED BY <2>2, <2>3, <2>4
  <1> QED BY <1>9, <1>10

\* The paths above one below the root are below it, too.
LEMMA AboveIsBelow == \A p \in Paths : Above(p) \subseteq Paths
  <1> SUFFICES ASSUME NEW p \in Paths, NEW m \in 1 .. Len(p) PROVE SubSeq(p, 1, m) \in Paths
    BY DEF Above
  <1>1. CASE p = Target
    <2>1. Target \in Seq({"dest"}) /\ Len(Target) = 1 /\ SubSeq(Target, 1, 1) = Target
      <3>1. Target \in Seq({"dest"}) /\ Len(Target) = 1
        BY DEF Target
      <3> HIDE DEF Target
      <3> QED BY <3>1, SubSeqFull
    <2>2. m = 1
      BY <1>1, <2>1
    <2> QED BY <1>1, <2>1, <2>2
  <1>2. ASSUME NEW n \in 1 .. 2, p \in [1 .. n -> {"a", "b"}] PROVE SubSeq(p, 1, m) \in Paths
    <2>1. p \in Seq({"a", "b"}) /\ Len(p) = n
      BY <1>2
    <2>2. SubSeq(p, 1, m) \in [1 .. m -> {"a", "b"}]
      <3>1. SubSeq(p, 1, m) = [i \in 1 .. m |-> p[i]]
        BY <2>1
      <3>2. \A i \in 1 .. m : p[i] \in {"a", "b"}
        BY <1>2, <2>1
      <3> QED BY <3>1, <3>2
    <2>3. m \in 1 .. 2
      BY <2>1
    <2> QED BY <2>2, <2>3 DEF Paths
  <1> QED BY <1>1, <1>2 DEF Paths

-----------------------------------------------------------------------------
(* CopyFrom: the archive's entries.                                         *)

FromTypeOK ==
    /\ fs \in [Paths -> Kinds]
    /\ asDir \in BOOLEAN /\ wroteFile \in BOOLEAN /\ fileOpened \in BOOLEAN
    /\ pc \in {"next", "mkdir", "parent", "open", "ok", "err"}

\* On the path of an entry that was checked there are only links that were put
\* there since.
Checked ==
    /\ pc \in {"mkdir", "parent", "open"} =>
          entry \in Paths /\ \A q \in Above(entry) : fs[q] \in Links => q \in late
    /\ through \subseteq late

\* In file mode the destination is written once, and the flag says so.
OneFile ==
    ~asDir =>
        /\ pc # "mkdir"
        /\ pc = "next" => (wroteFile <=> fileOpened)
        /\ pc \in {"parent", "open"} => entry = Target /\ wroteFile /\ ~fileOpened
        /\ pc = "ok" => fileOpened

Extracting == FromTypeOK /\ Checked /\ OneFile

\* What is checked of a name that is to be written.
LEMMA CheckedName ==
    ASSUME FromTypeOK, NEW name \in Paths, ~RejectExistingSymlink(name)
    PROVE  \A q \in Above(name) : fs[q] \notin Links
  BY AboveIsBelow DEF RejectExistingSymlink, Kind

LEMMA TargetIsPath == Target \in Paths
  BY DEF Paths

\* The parent's path is a part of the entry's.
LEMMA AboveFront == \A p \in Paths : Front(p) # <<>> => Above(Front(p)) \subseteq Above(p)
  <1> SUFFICES ASSUME NEW p \in Paths, Front(p) # <<>>, NEW m \in 1 .. Len(Front(p))
               PROVE  SubSeq(Front(p), 1, m) \in Above(p)
    BY DEF Above
  <1>1. PICK n \in 1 .. 2 : p \in [1 .. n -> {"a", "b", "dest"}]
    <2>1. Target \in [1 .. 1 -> {"a", "b", "dest"}]
      BY DEF Target
    <2> QED BY <2>1 DEF Paths
  <1>2. p \in Seq({"a", "b", "dest"}) /\ Len(p) = n
    BY <1>1
  <1>3. Front(p) = SubSeq(p, 1, n - 1)
    BY <1>2 DEF Front
  <1>4. n = 2 /\ Len(Front(p)) = 1
    BY <1>2, <1>3
  <1>5. Front(p) = [i \in 1 .. 1 |-> p[i]]
    BY <1>2, <1>3, <1>4
  <1>6. m = 1 /\ Front(p) \in Seq({"a", "b", "dest"})
    BY <1>2, <1>4, <1>5
  <1>7. SubSeq(Front(p), 1, 1) = Front(p)
    BY <1>4, <1>6, SubSeqFull
  <1> QED BY <1>2, <1>3, <1>4, <1>6, <1>7 DEF Above

\* root.MkdirAll of a part of the entry's path.
LEMMA MakeDirsStep ==
    ASSUME Extracting, pc \in {"mkdir", "parent"}, NEW then \in {"next", "open"},
           NEW p, p # <<>> => Above(p) \subseteq Above(entry),
           pc = "mkdir" => then = "next", pc = "parent" => then = "open",
           MakeDirs(p, then)
    PROVE  Extracting'
  <1> USE DEF Extracting
  <1>1. /\ pc' \in {then, "err"}
        /\ fs' = fs \/ (p # <<>> /\ fs' = MkdirAll(p, fs))
        /\ UNCHANGED <<asDir, entry, wroteFile, fileOpened, late>>
    BY DEF MakeDirs
  <1>2. FromTypeOK'
    BY <1>1 DEF FromTypeOK, MkdirAll, Kinds
  <1>3. entry \in Paths /\ Above(entry) \subseteq Paths
    BY AboveIsBelow DEF Checked
  <1>4. \A q \in Above(entry) : fs'[q] \in Links => q \in late
    BY <1>1, <1>3 DEF Checked, MkdirAll, Links
  <1>5. Followed(p) \subseteq late
    <2>1. CASE p = <<>>
      BY <2>1 DEF Followed, Above
    <2>2. CASE p # <<>>
      BY <2>2 DEF Followed, Checked, Links
    <2> QED BY <2>1, <2>2
  <1>6. through' \subseteq late
    BY <1>5 DEF MakeDirs, Checked
  <1>7. Checked'
    BY <1>1, <1>3, <1>4, <1>6 DEF Checked
  <1>8. OneFile'
    BY <1>1 DEF OneFile
  <1> QED BY <1>2, <1>7, <1>8

LEMMA ExtractingStep == Extracting /\ [FromNext]_fromVars => Extracting'
  <1> SUFFICES ASSUME Extracting, [FromNext]_fromVars PROVE Extracting'
    OBVIOUS
  <1> USE TargetIsPath DEF Extracting
  <1>1. CASE AtEOF \/ Broken
    BY <1>1 DEF AtEOF, Broken, FromTypeOK, Checked, OneFile
  <1>2. CASE Mkdir
    BY <1>2, MakeDirsStep DEF Mkdir
  <1>3. CASE MkdirParent
    <2>1. Front(entry) # <<>> => Above(Front(entry)) \subseteq Above(entry)
      BY <1>3, AboveFront DEF MkdirParent, Checked
    <2> QED BY <1>3, <2>1, MakeDirsStep DEF MkdirParent
  <1>8. CASE OpenFile
    <2>1. /\ pc = "open" /\ pc' \in {"next", "err"} /\ (pc' = "next" => fileOpened')
          /\ fileOpened' \in BOOLEAN /\ UNCHANGED <<asDir, entry, wroteFile, late>>
          /\ fs' = fs \/ fs' = [fs EXCEPT ![entry] = "file"]
      BY <1>8 DEF OpenFile, FromTypeOK
    <2>2. FromTypeOK'
      BY <2>1 DEF FromTypeOK, Kinds
    <2>3. Followed(entry) \subseteq late
      BY <2>1 DEF Followed, Checked, Links
    <2>4. Checked'
      BY <1>8, <2>1, <2>3 DEF OpenFile, Checked
    <2>5. OneFile'
      BY <2>1 DEF OneFile
    <2> QED BY <2>2, <2>4, <2>5
  <1>4. ASSUME NEW raw \in RawNames, DirEntry(raw) PROVE Extracting'
    <2>0. /\ pc = "next" /\ late' = {} /\ through' = {}
          /\ UNCHANGED <<asDir, fs, fileOpened, wroteFile>>
      BY <1>4 DEF DirEntry, NextEntry
    <2>1. CASE UNCHANGED <<pc, entry>>
      BY <2>0, <2>1 DEF FromTypeOK, Checked, OneFile
    <2>2. CASE pc' = "err"
      BY <2>0, <2>2 DEF FromTypeOK, Checked, OneFile
    <2>3. CASE /\ ~Unsafe(raw) /\ asDir /\ ~RejectExistingSymlink(Clean(raw))
               /\ pc' = "mkdir" /\ entry' = Clean(raw)
      <3>1. Clean(raw) \in Paths /\ \A q \in Above(Clean(raw)) : fs[q] \notin Links
        BY <2>3, CleanIsPath, CheckedName
      <3> QED BY <2>0, <2>3, <3>1 DEF FromTypeOK, Checked, OneFile
    <2> QED BY <1>4, <2>1, <2>2, <2>3 DEF DirEntry
  <1>5. ASSUME NEW raw \in RawNames, FileEntry(raw) PROVE Extracting'
    <2>0. /\ wroteFile' \in BOOLEAN /\ UNCHANGED <<asDir, fs, fileOpened>> /\ pc = "next"
          /\ late' = {} /\ through' = {}
      BY <1>5 DEF FileEntry, NextEntry, FromTypeOK
    <2>1. CASE pc' = "err"
      BY <2>0, <2>1 DEF FromTypeOK, Checked, OneFile
    <2>2. CASE pc' # "err"
      <3>1. PICK name : name = IF asDir THEN Clean(raw) ELSE Target
        OBVIOUS
      <3>2. /\ ~Unsafe(raw) /\ ~RejectExistingSymlink(name)
            /\ pc' = "parent" /\ entry' = name
            /\ ~asDir => ~wroteFile /\ wroteFile'
        BY <1>5, <2>2, <3>1 DEF FileEntry, FromTypeOK
      <3>3. name \in Paths
        BY <3>1, <3>2, CleanIsPath
      <3>4. \A q \in Above(name) : fs[q] \notin Links
        BY <3>2, <3>3, CheckedName
      <3> QED BY <2>0, <3>1, <3>2, <3>3, <3>4 DEF FromTypeOK, Checked, OneFile
    <2> QED BY <2>1, <2>2
  <1>6. ASSUME NEW raw \in RawNames, OtherEntry(raw) PROVE Extracting'
    BY <1>6 DEF OtherEntry, NextEntry, FromTypeOK, Checked, OneFile
  <1>9. ASSUME NEW q \in Paths, NEW kind \in Links, OtherLink(q, kind) PROVE Extracting'
    <2>1. /\ late' = late \cup {q}
          /\ UNCHANGED <<asDir, pc, entry, wroteFile, fileOpened, through>>
          /\ \A p \in Paths : fs'[p] \in Links => p = q \/ fs'[p] = fs[p]
      BY <1>9 DEF OtherLink, Links
    <2>2. FromTypeOK'
      BY <1>9 DEF OtherLink, FromTypeOK, Kinds
    <2>3. Checked'
      <3>1. through' \subseteq late'
        BY <2>1 DEF Checked
      <3>2. ASSUME pc \in {"mkdir", "parent", "open"}, NEW p \in Above(entry),
                   fs'[p] \in Links
            PROVE  p \in late'
        <4>1. p \in Paths
          BY <3>2, AboveIsBelow DEF Checked
        <4> QED BY <2>1, <3>2, <4>1 DEF Checked
      <3> QED BY <2>1, <3>1, <3>2 DEF Checked
    <2>4. OneFile'
      BY <2>1 DEF OneFile
    <2> QED BY <2>2, <2>3, <2>4
  <1>7. CASE UNCHANGED fromVars
    BY <1>7 DEF fromVars, FromTypeOK, Checked, OneFile
  <1> QED
    BY <1>1, <1>2, <1>3, <1>4, <1>5, <1>6, <1>7, <1>8, <1>9 DEF FromNext

LEMMA ExtractingInvariant == FromSpec => []Extracting
  <1>1. FromInit => Extracting
    BY TargetIsPath, CopyFromAssumption
    DEF FromInit, Extracting, FromTypeOK, Checked, OneFile
  <1> QED BY <1>1, ExtractingStep, PTL DEF FromSpec

\* safeArchiveName keeps CopyFrom below the root it opened; in file mode exactly the
\* destination is written, once, and success means that it was.
THEOREM BelowRootThm == FromSpec => []BelowRoot
  <1>1. Extracting => BelowRoot
    BY DEF Extracting, Checked, OneFile, BelowRoot, FromTypeOK
  <1> QED BY <1>1, ExtractingInvariant, PTL

\* rejectExistingSymlink: whatever the destination holds and however many links
\* others put there, CopyFrom follows none that was there when it looked.
THEOREM LinksRejectedThm == FromSpec => []LinksRejected
  <1>1. Extracting => LinksRejected
    BY DEF Extracting, Checked, LinksRejected
  <1> QED BY <1>1, ExtractingInvariant, PTL
=============================================================================
