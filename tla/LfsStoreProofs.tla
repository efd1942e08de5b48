---------------------------- MODULE LfsStoreProofs ----------------------------
(***************************************************************************)
(* The git-lfs store for every number of clients, every object size and    *)
(* every number of lost connections and killed workers: an object's file,  *)
(* once there, is there for good, and as long as no two uploads of the     *)
(* object overlap it is a prefix of the object, whole when a client was    *)
(* told so, and frozen while it is read.                                   *)
(***************************************************************************)
EXTENDS LfsStore, FiniteSetTheorems, TLAPS

File == [len : 0..Size, data : SUBSET (1..Size)]
Prefix(n) == [len |-> n, data |-> 1..n]

\* A request that saw the object still finds it, and a request that reads or
\* writes has a file to do it with.
PcInv ==
    /\ \A u \in Uploaders :
           /\ upc[u] \in {"size", "verifySize", "accepted"} => oid # None
           /\ upc[u] \in {"body", "close"} => fd[u] # None
    /\ \A d \in Downloaders :
           /\ dpc[d] = "open" => oid # None
           /\ dpc[d] = "read" => rfd[d] # None

\* One upload at a time: it owns oid.tmp, which holds what it has written and
\* is no file that has been given out under the object's name.
UploadInv ==
    /\ \A u, v \in Uploaders :
           upc[u] \in Putting /\ upc[v] \in Putting => u = v
    /\ \A u \in Uploaders :
           /\ upc[u] \notin {"copy", "unlink"}
           /\ upc[u] \in {"body", "close"} =>
                  fd[u] = tmp /\ content[tmp] = Prefix(off[u])
           /\ upc[u] = "rename" => tmp # None /\ content[tmp] \in Prefixes

ServedInv ==
    /\ oid # None => oid # tmp /\ content[oid] \in Prefixes
    /\ \A d \in Downloaders :
           /\ clean[d]
           /\ dpc[d] = "read" => rfd[d] # tmp /\ content[rfd[d]] \in Prefixes

SoleInv == ~overlapped => UploadInv /\ ServedInv

IInv == TypeOK /\ PcInv /\ SoleInv

-------------------------------------------------------------------------------
\* None is no file.
LEMMA NoneIsNoFile == None \notin Files
<1>1. Cardinality(Uploaders) \in Nat /\ Cardinality(Downloaders) \in Nat
  BY LfsAssumption, FS_CardinalityType
<1> QED
  BY <1>1 DEF None, Files

\* Every prefix of the object is a file's content, the empty one among them.
LEMMA PrefixesAreFiles ==
    /\ \A n \in 0..Size : Prefix(n) \in Prefixes /\ Prefix(n) \in File
    /\ \A f \in Prefixes : \E n \in 0..Size : f = Prefix(n)
    /\ Empty = Prefix(0)
    /\ Empty \in File
    /\ Prefixes \subseteq File
<1>1. \A n \in 0..Size : Prefix(n) \in Prefixes
  BY DEF Prefix, Prefixes
<1>2. \A n \in 0..Size : Prefix(n) \in File
  BY LfsAssumption DEF Prefix, File
<1>3. \A f \in Prefixes : \E n \in 0..Size : f = Prefix(n)
  BY DEF Prefix, Prefixes
<1>4. Empty = Prefix(0)
  BY DEF Empty, Prefix
<1> QED
  BY <1>1, <1>2, <1>3, <1>4, LfsAssumption

\* A prefix as long as the object is the object.
LEMMA LongPrefixIsWhole ==
    ASSUME NEW f \in Prefixes, f.len = Size
    PROVE  f = Whole
BY DEF Prefixes, Whole

\* Writing a block keeps a file a file, and a prefix a prefix.
LEMMA ExtendedFile ==
    ASSUME NEW f \in File, NEW n \in 1..Size
    PROVE  Extended(f, n) \in File
BY LfsAssumption DEF File, Extended

LEMMA ExtendedPrefix ==
    ASSUME NEW n \in 0..Size
    PROVE  Extended(Prefix(n), n + 1) = Prefix(n + 1)
<1>1. (1..n) \cup {n + 1} = 1..(n + 1)
  BY LfsAssumption
<1>2. n + 1 > n
  BY LfsAssumption
<1> QED
  BY <1>1, <1>2 DEF Prefix, Extended

-------------------------------------------------------------------------------
LEMMA InitInv == Init => IInv
<1> SUFFICES ASSUME Init PROVE IInv
  OBVIOUS
<1>1. content \in [Files -> File]
  BY PrefixesAreFiles DEF Init
<1>2. TypeOK
  <2>1. /\ off \in [Uploaders -> 0..Size]
        /\ pos \in [Downloaders -> 0..Size]
        /\ aborts \in 0..MaxAborts
        /\ crashes \in 0..MaxCrashes
    BY LfsAssumption DEF Init
  <2>2. /\ upc \in [Uploaders -> UploadPC]
        /\ fd \in [Uploaders -> Files \cup {None}]
        /\ lost \in [Uploaders -> BOOLEAN]
        /\ dpc \in [Downloaders -> DownloadPC]
        /\ rfd \in [Downloaders -> Files \cup {None}]
        /\ clean \in [Downloaders -> BOOLEAN]
    BY DEF Init, UploadPC, DownloadPC
  <2> QED
    BY <1>1, <2>1, <2>2 DEF Init, TypeOK, File
<1>3. PcInv
  BY DEF Init, PcInv
<1>4. SoleInv
  BY DEF Init, SoleInv, UploadInv, ServedInv, Putting
<1> QED
  BY <1>2, <1>3, <1>4 DEF IInv

-------------------------------------------------------------------------------
LEMMA StepInv == IInv /\ [Next]_vars => IInv'
<1> SUFFICES ASSUME IInv, [Next]_vars PROVE IInv'
  OBVIOUS
<1> USE LfsAssumption, NoneIsNoFile
    DEF IInv, paths, uploads, downloads, faults, UGoes, UJumps, DGoes
<1>1. ASSUME NEW u \in Uploaders, BatchHasOid(u) PROVE IInv'
  <2>1. TypeOK'
    BY <1>1 DEF BatchHasOid, TypeOK, UploadPC
  <2>2. PcInv'
    BY <1>1 DEF BatchHasOid, TypeOK, PcInv
  <2>3. SoleInv'
    BY <1>1 DEF BatchHasOid, TypeOK, PcInv, SoleInv, UploadInv, ServedInv,
                Putting
  <2> QED
    BY <2>1, <2>2, <2>3
<1>2. ASSUME NEW u \in Uploaders, BatchSize(u) PROVE IInv'
  <2>1. TypeOK'
    BY <1>2 DEF BatchSize, TypeOK, UploadPC
  <2>2. PcInv'
    BY <1>2 DEF BatchSize, TypeOK, PcInv
  <2>3. SoleInv'
    BY <1>2 DEF BatchSize, TypeOK, PcInv, SoleInv, UploadInv, ServedInv,
                Putting
  <2> QED
    BY <2>1, <2>2, <2>3
<1>3. ASSUME NEW u \in Uploaders, OpensTmp(u) PROVE IInv'
  <2> DEFINE f == IF tmp = None THEN FreeFile ELSE tmp
  <2>1. /\ tmp = None => Unused(f)
        /\ tmp # None => f = tmp
    BY <1>3 DEF OpensTmp
  <2>2. /\ upc[u] = "put"
        /\ upc' = [upc EXCEPT ![u] = "body"]
        /\ tmp' = f
        /\ fd' = [fd EXCEPT ![u] = f]
        /\ content' = [content EXCEPT ![f] = Empty]
        /\ off' = [off EXCEPT ![u] = 0]
        /\ lost' = [lost EXCEPT ![u] = FALSE]
        /\ overlapped' =
              (overlapped \/ \E v \in Uploaders : upc[v] \in Putting)
        /\ UNCHANGED <<oid, downloads, faults>>
    BY <1>3 DEF OpensTmp
  <2> HIDE DEF f
  <2>3. f \in Files /\ f # None
    BY <2>1 DEF Unused, TypeOK
  <2>4. content' \in [Files -> File]
    BY <2>2, <2>3, PrefixesAreFiles DEF TypeOK, File
  <2>5. TypeOK'
    <3>1. off' \in [Uploaders -> 0..Size]
      BY <2>2 DEF TypeOK
    <3> QED
      BY <2>2, <2>3, <2>4, <3>1 DEF TypeOK, UploadPC, File
  <2>6. PcInv'
    BY <2>2, <2>3 DEF TypeOK, PcInv
  <2>7. ASSUME ~overlapped' PROVE UploadInv' /\ ServedInv'
    <3>1. /\ UploadInv /\ ServedInv
          /\ \A v \in Uploaders : upc[v] \notin Putting
      BY <2>2, <2>7 DEF SoleInv
    <3>2. \A v \in Uploaders : v # u => upc'[v] \notin Putting
      BY <2>2, <3>1 DEF TypeOK
    <3>3. content'[f] = Prefix(0) /\ off'[u] = 0 /\ fd'[u] = f
      BY <2>2, <2>3, PrefixesAreFiles DEF TypeOK
    <3>4. UploadInv'
      BY <2>2, <3>2, <3>3 DEF TypeOK, UploadInv, Putting
    <3>5. /\ oid # None => oid # f
          /\ \A d \in Downloaders : dpc[d] = "read" => rfd[d] # f
      BY <2>1, <3>1 DEF Unused, ServedInv
    <3>6. /\ oid # None => content'[oid] = content[oid]
          /\ \A d \in Downloaders :
                 dpc[d] = "read" => content'[rfd[d]] = content[rfd[d]]
      BY <2>2, <3>5 DEF TypeOK, PcInv
    <3>7. ServedInv'
      BY <2>2, <3>1, <3>5, <3>6 DEF ServedInv
    <3> QED
      BY <3>4, <3>7
  <2> QED
    BY <2>5, <2>6, <2>7 DEF SoleInv
<1>4. ASSUME NEW u \in Uploaders, WritesBlock(u) PROVE IInv'
  <2> DEFINE f == fd[u]
             n == off[u] + 1
  <2>1. /\ upc[u] = "body"
        /\ off[u] < Size
        /\ UNCHANGED <<paths, upc, fd, lost, downloads, faults, overlapped>>
    BY <1>4 DEF WritesBlock
  <2>2. f \in Files /\ off[u] \in 0..Size /\ n \in 1..Size
    BY <2>1 DEF TypeOK, PcInv
  <2>3. off' = [off EXCEPT ![u] = n] /\ off'[u] = n
    BY <1>4 DEF WritesBlock, TypeOK
  <2>4. content' = [content EXCEPT ![f] = Extended(content[f], n)]
    BY <1>4, <2>3 DEF WritesBlock
  <2>5. content \in [Files -> File]
    BY DEF TypeOK, File
  <2>6. Extended(content[f], n) \in File
    BY <2>2, <2>5, ExtendedFile
  <2>7. content' \in [Files -> File]
    BY <2>2, <2>4, <2>5, <2>6
  <2>8. off' \in [Uploaders -> 0..Size]
    BY <2>2, <2>3 DEF TypeOK
  <2> HIDE DEF n
  <2>9. TypeOK'
    BY <2>1, <2>7, <2>8 DEF TypeOK, File
  <2>10. PcInv'
    BY <2>1 DEF PcInv
  <2>11. ASSUME ~overlapped' PROVE UploadInv' /\ ServedInv'
    <3>1. UploadInv /\ ServedInv
      BY <2>1, <2>11 DEF SoleInv
    <3>2. f = tmp /\ content[f] = Prefix(off[u])
      BY <2>1, <3>1 DEF UploadInv
    <3>3. content'[f] = Prefix(n)
      BY <2>2, <2>4, <2>5, <3>2, ExtendedPrefix DEF n
    <3>4. \A v \in Uploaders : v # u => upc[v] \notin Putting
      BY <2>1, <3>1 DEF UploadInv, Putting
    <3>5. UploadInv'
      BY <2>1, <2>3, <3>1, <3>2, <3>3, <3>4 DEF UploadInv, Putting
    <3>6. /\ oid # None => content'[oid] = content[oid]
          /\ \A d \in Downloaders :
                 dpc[d] = "read" => content'[rfd[d]] = content[rfd[d]]
      BY <2>4, <3>1, <3>2 DEF ServedInv, TypeOK, PcInv
    <3>7. ServedInv'
      BY <2>1, <3>1, <3>6 DEF ServedInv
    <3> QED
      BY <3>5, <3>7
  <2> QED
    BY <2>9, <2>10, <2>11 DEF SoleInv
<1>5. ASSUME NEW u \in Uploaders, BodyEnds(u) PROVE IInv'
  <2>1. TypeOK'
    BY <1>5 DEF BodyEnds, TypeOK, UploadPC
  <2>2. PcInv'
    BY <1>5 DEF BodyEnds, TypeOK, PcInv
  <2>3. SoleInv'
    BY <1>5 DEF BodyEnds, TypeOK, PcInv, SoleInv, UploadInv, ServedInv, Putting
  <2> QED
    BY <2>1, <2>2, <2>3
<1>6. ASSUME NEW u \in Uploaders, Closes(u) PROVE IInv'
  <2>1. TypeOK'
    BY <1>6 DEF Closes, TypeOK, UploadPC
  <2>2. PcInv'
    BY <1>6 DEF Closes, TypeOK, PcInv
  <2>3. SoleInv'
    BY <1>6, PrefixesAreFiles DEF Closes, TypeOK, PcInv, SoleInv, UploadInv,
                                  ServedInv, Putting
  <2> QED
    BY <2>1, <2>2, <2>3
<1>7. ASSUME NEW u \in Uploaders, Renames(u) PROVE IInv'
  <2>1. TypeOK'
    BY <1>7 DEF Renames, Answered, TypeOK, UploadPC
  <2>2. PcInv'
    BY <1>7 DEF Renames, Answered, TypeOK, PcInv
  <2>3. SoleInv'
    BY <1>7 DEF Renames, Answered, TypeOK, PcInv, SoleInv, UploadInv,
                ServedInv, Putting
  <2> QED
    BY <2>1, <2>2, <2>3
<1>8. ASSUME NEW u \in Uploaders, RenameFails(u) PROVE IInv'
  <2>1. TypeOK'
    BY <1>8 DEF RenameFails, TypeOK, UploadPC
  <2>2. PcInv'
    BY <1>8 DEF RenameFails, TypeOK, PcInv
  <2>3. SoleInv'
    BY <1>8 DEF RenameFails, TypeOK, PcInv, SoleInv, UploadInv, ServedInv,
                Putting
  <2> QED
    BY <2>1, <2>2, <2>3
<1>9. ASSUME NEW u \in Uploaders, Copies(u) PROVE IInv'
  <2> DEFINE f == IF oid = None THEN FreeFile ELSE oid
  <2>1. /\ oid = None => Unused(f)
        /\ oid # None => f = oid
    BY <1>9 DEF Copies
  <2>2. /\ tmp # None
        /\ upc[u] = "copy"
        /\ upc' = [upc EXCEPT ![u] = "unlink"]
        /\ oid' = f
        /\ content' = [content EXCEPT ![f] = content[tmp]]
        /\ UNCHANGED <<tmp, fd, off, lost, downloads, faults, overlapped>>
    BY <1>9 DEF Copies
  <2> HIDE DEF f
  <2>3. f \in Files /\ f # None
    BY <2>1 DEF Unused, TypeOK
  <2>4. content \in [Files -> File] /\ tmp \in Files
    BY <2>2 DEF TypeOK, File
  <2>5. content' \in [Files -> File]
    BY <2>2, <2>3, <2>4
  <2>6. TypeOK'
    BY <2>2, <2>3, <2>5 DEF TypeOK, UploadPC, File
  <2>7. PcInv'
    BY <2>2, <2>3 DEF TypeOK, PcInv
  <2>8. SoleInv'
    BY <2>2 DEF SoleInv, UploadInv
  <2> QED
    BY <2>6, <2>7, <2>8
<1>10. ASSUME NEW u \in Uploaders, CopyFails(u) PROVE IInv'
  <2>1. TypeOK'
    BY <1>10 DEF CopyFails, TypeOK, UploadPC
  <2>2. PcInv'
    BY <1>10 DEF CopyFails, TypeOK, PcInv
  <2>3. SoleInv'
    BY <1>10 DEF CopyFails, TypeOK, PcInv, SoleInv, UploadInv, ServedInv,
                 Putting
  <2> QED
    BY <2>1, <2>2, <2>3
<1>11. ASSUME NEW u \in Uploaders, Unlinks(u) PROVE IInv'
  <2>1. TypeOK'
    BY <1>11 DEF Unlinks, Answered, TypeOK, UploadPC
  <2>2. PcInv'
    BY <1>11 DEF Unlinks, Answered, TypeOK, PcInv
  <2>3. SoleInv'
    BY <1>11 DEF Unlinks, Answered, TypeOK, PcInv, SoleInv, UploadInv,
                 ServedInv, Putting
  <2> QED
    BY <2>1, <2>2, <2>3
<1>12. ASSUME NEW u \in Uploaders, VerifyHasOid(u) PROVE IInv'
  <2>1. TypeOK'
    BY <1>12 DEF VerifyHasOid, TypeOK, UploadPC
  <2>2. PcInv'
    BY <1>12 DEF VerifyHasOid, TypeOK, PcInv
  <2>3. SoleInv'
    BY <1>12 DEF VerifyHasOid, TypeOK, PcInv, SoleInv, UploadInv, ServedInv,
                 Putting
  <2> QED
    BY <2>1, <2>2, <2>3
<1>13. ASSUME NEW u \in Uploaders, VerifySize(u) PROVE IInv'
  <2>1. TypeOK'
    BY <1>13 DEF VerifySize, TypeOK, UploadPC
  <2>2. PcInv'
    BY <1>13 DEF VerifySize, TypeOK, PcInv
  <2>3. SoleInv'
    BY <1>13 DEF VerifySize, TypeOK, PcInv, SoleInv, UploadInv, ServedInv,
                 Putting
  <2> QED
    BY <2>1, <2>2, <2>3
<1>14. ASSUME NEW u \in Uploaders, BodyLost(u) PROVE IInv'
  <2>1. TypeOK'
    BY <1>14 DEF BodyLost, TypeOK, UploadPC
  <2>2. PcInv'
    BY <1>14 DEF BodyLost, TypeOK, PcInv
  <2>3. SoleInv'
    BY <1>14 DEF BodyLost, TypeOK, PcInv, SoleInv, UploadInv, ServedInv,
                 Putting
  <2> QED
    BY <2>1, <2>2, <2>3
<1>15. ASSUME NEW u \in Uploaders, Crashes(u) PROVE IInv'
  <2>1. TypeOK'
    BY <1>15 DEF Crashes, TypeOK, UploadPC
  <2>2. PcInv'
    BY <1>15 DEF Crashes, TypeOK, PcInv
  <2>3. SoleInv'
    BY <1>15 DEF Crashes, TypeOK, PcInv, SoleInv, UploadInv, ServedInv, Putting
  <2> QED
    BY <2>1, <2>2, <2>3
<1>16. ASSUME NEW d \in Downloaders, DownloadHasOid(d) PROVE IInv'
  <2>1. TypeOK'
    BY <1>16 DEF DownloadHasOid, TypeOK, DownloadPC
  <2>2. PcInv'
    BY <1>16 DEF DownloadHasOid, TypeOK, PcInv
  <2>3. SoleInv'
    BY <1>16 DEF DownloadHasOid, TypeOK, PcInv, SoleInv, UploadInv, ServedInv
  <2> QED
    BY <2>1, <2>2, <2>3
<1>17. ASSUME NEW d \in Downloaders, DownloadOpens(d) PROVE IInv'
  <2>1. TypeOK'
    BY <1>17 DEF DownloadOpens, TypeOK, DownloadPC
  <2>2. PcInv'
    BY <1>17 DEF DownloadOpens, TypeOK, PcInv
  <2>3. SoleInv'
    BY <1>17 DEF DownloadOpens, TypeOK, PcInv, SoleInv, UploadInv, ServedInv
  <2> QED
    BY <2>1, <2>2, <2>3
<1>18. ASSUME NEW d \in Downloaders, SendsBlock(d) PROVE IInv'
  <2> DEFINE g == content[rfd[d]]
  <2>1. /\ dpc[d] = "read"
        /\ pos[d] < g.len
        /\ pos' = [pos EXCEPT ![d] = @ + 1]
        /\ UNCHANGED <<paths, content, uploads, dpc, rfd, faults, overlapped>>
    BY <1>18 DEF SendsBlock
  <2>2. g \in File /\ pos[d] \in 0..Size
    BY <2>1 DEF TypeOK, PcInv, File
  <2>3. pos[d] + 1 \in 1..Size /\ pos'[d] = pos[d] + 1
    BY <2>1, <2>2 DEF File, TypeOK
  <2>4. clean' = [clean EXCEPT ![d] = @ /\ pos[d] + 1 \in g.data]
    BY <1>18, <2>3 DEF SendsBlock
  <2>5. TypeOK'
    <3>1. pos' \in [Downloaders -> 0..Size]
      BY <2>1, <2>3 DEF TypeOK
    <3>2. clean' \in [Downloaders -> BOOLEAN]
      BY <2>4 DEF TypeOK
    <3> QED
      BY <2>1, <3>1, <3>2 DEF TypeOK
  <2>6. PcInv'
    BY <2>1 DEF PcInv
  <2>7. ASSUME ~overlapped' PROVE UploadInv' /\ ServedInv'
    <3>1. UploadInv /\ ServedInv
      BY <2>1, <2>7 DEF SoleInv
    <3>2. PICK n \in 0..Size : g = Prefix(n)
      BY <2>1, <3>1, PrefixesAreFiles DEF ServedInv
    <3>3. pos[d] + 1 \in g.data
      BY <2>1, <2>2, <3>2 DEF Prefix
    <3>4. \A e \in Downloaders : clean'[e]
      BY <2>4, <3>1, <3>3 DEF ServedInv, TypeOK
    <3>5. UploadInv'
      BY <2>1, <3>1 DEF UploadInv
    <3>6. ServedInv'
      BY <2>1, <3>1, <3>4 DEF ServedInv
    <3> QED
      BY <3>5, <3>6
  <2> QED
    BY <2>5, <2>6, <2>7 DEF SoleInv
<1>19. ASSUME NEW d \in Downloaders, DownloadEnds(d) PROVE IInv'
  <2>1. TypeOK'
    BY <1>19 DEF DownloadEnds, TypeOK, DownloadPC
  <2>2. PcInv'
    BY <1>19 DEF DownloadEnds, TypeOK, PcInv
  <2>3. SoleInv'
    BY <1>19 DEF DownloadEnds, TypeOK, PcInv, SoleInv, UploadInv, ServedInv
  <2> QED
    BY <2>1, <2>2, <2>3
<1>20. CASE UNCHANGED vars
  BY <1>20 DEF vars, TypeOK, PcInv, SoleInv, UploadInv, ServedInv
<1> QED
  BY <1>1, <1>2, <1>3, <1>4, <1>5, <1>6, <1>7, <1>8, <1>9, <1>10, <1>11, <1>12,
     <1>13, <1>14, <1>15, <1>16, <1>17, <1>18, <1>19, <1>20
     DEF Next, UploadStep, DownloadStep

\* Every reachable state satisfies the inductive invariant.
THEOREM Invariance == Spec => []IInv
<1>1. Init => IInv
  BY InitInv
<1>2. IInv /\ [Next]_vars => IInv'
  BY StepInv
<1> QED
  BY <1>1, <1>2, PTL DEF Spec

\* Type correctness.
THEOREM TypeCorrect == Spec => []TypeOK
<1>1. IInv => TypeOK
  BY DEF IInv
<1> QED
  BY <1>1, Invariance, PTL

\* While uploads do not overlap the stored file is a prefix of the object and
\* no download has sent a gap.
THEOREM PrefixStored == Spec => []StoredIsPrefix
<1>1. IInv => StoredIsPrefix
  BY DEF IInv, SoleInv, ServedInv, StoredIsPrefix
<1> QED
  BY <1>1, Invariance, PTL

-------------------------------------------------------------------------------
\* has_oid() stays true: only Renames and Copies touch the path, and each
\* gives it a file.
THEOREM ObjectStays == Spec => NeverVanishes
<1>1. ASSUME IInv, [Next]_vars PROVE oid # None => oid' # None
  <2> USE DEF paths, uploads, downloads, faults, UGoes, UJumps, DGoes
  <2>1. ASSUME NEW u \in Uploaders, Renames(u) PROVE oid' # None
    BY <2>1 DEF Renames
  <2>2. ASSUME NEW u \in Uploaders, Copies(u) PROVE oid' # None
    BY <2>2, NoneIsNoFile DEF Copies, Unused
  <2>3. ASSUME NEW u \in Uploaders, UploadStep(u) \/ BodyLost(u) \/ Crashes(u)
        PROVE  oid' = oid \/ oid' # None
    BY <2>1, <2>2, <2>3
       DEF UploadStep, BatchHasOid, BatchSize, OpensTmp, WritesBlock, BodyEnds,
           Closes, RenameFails, CopyFails, Unlinks, VerifyHasOid, VerifySize,
           BodyLost, Crashes
  <2>4. ASSUME NEW d \in Downloaders, DownloadStep(d) PROVE oid' = oid
    BY <2>4 DEF DownloadStep, DownloadHasOid, DownloadOpens, SendsBlock,
                DownloadEnds
  <2>5. CASE UNCHANGED vars
    BY <2>5 DEF vars
  <2> QED
    BY <1>1, <2>3, <2>4, <2>5 DEF Next
<1> QED
  BY <1>1, Invariance, PTL DEF Spec, NeverVanishes

\* A client is told that its object is there only by a comparison of sizes,
\* and a prefix as long as the object is the object.
THEOREM Accepted == Spec => AcceptedIsWhole
<1> DEFINE A == \A u \in Uploaders :
                    upc[u] # "accepted" /\ upc'[u] = "accepted" /\ ~overlapped
                        => content[oid] = Whole
<1>1. ASSUME IInv, [Next]_vars PROVE A
  <2> SUFFICES ASSUME NEW u \in Uploaders, upc[u] # "accepted",
                      upc'[u] = "accepted", ~overlapped
               PROVE  content[oid] = Whole
    OBVIOUS
  <2>1. /\ upc \in [Uploaders -> UploadPC]
        /\ upc[u] \in {"size", "verifySize"} => content[oid] \in Prefixes
    BY <1>1 DEF IInv, TypeOK, PcInv, SoleInv, ServedInv
  <2> USE DEF paths, uploads, downloads, faults, UGoes, UJumps, DGoes
  <2>2. ASSUME NEW v \in Uploaders, BatchSize(v) PROVE content[oid] = Whole
    BY <2>1, <2>2, LongPrefixIsWhole DEF BatchSize
  <2>3. ASSUME NEW v \in Uploaders, VerifySize(v) PROVE content[oid] = Whole
    BY <2>1, <2>3, LongPrefixIsWhole DEF VerifySize
  <2>4. ASSUME NEW v \in Uploaders,
               UploadStep(v), ~BatchSize(v), ~VerifySize(v)
        PROVE  FALSE
    BY <2>1, <2>4
       DEF UploadStep, BatchHasOid, OpensTmp, WritesBlock, BodyEnds, Closes,
           Renames, RenameFails, Copies, CopyFails, Unlinks, VerifyHasOid,
           Answered
  <2>5. ASSUME NEW v \in Uploaders, BodyLost(v) \/ Crashes(v) PROVE FALSE
    BY <2>1, <2>5 DEF BodyLost, Crashes
  <2>6. ASSUME NEW d \in Downloaders, DownloadStep(d) PROVE FALSE
    BY <2>6 DEF DownloadStep, DownloadHasOid, DownloadOpens, SendsBlock,
                DownloadEnds
  <2>7. CASE UNCHANGED vars
    BY <2>7 DEF vars
  <2> QED
    BY <1>1, <2>2, <2>3, <2>4, <2>5, <2>6, <2>7 DEF Next
<1> QED
  BY <1>1, Invariance, PTL DEF Spec, AcceptedIsWhole

\* The file a download reads is not oid.tmp, the only one an upload writes.
THEOREM ServedFrozen == Spec => ServedIsFrozen
<1> DEFINE A == \A d \in Downloaders :
                    dpc[d] = "read" /\ ~overlapped' =>
                        content'[rfd[d]] = content[rfd[d]]
<1>1. ASSUME IInv, [Next]_vars PROVE A
  <2> USE DEF paths, uploads, downloads, faults, UGoes, UJumps, DGoes
  <2>1. overlapped => overlapped'
    <3>1. ASSUME NEW u \in Uploaders,
                 UploadStep(u) \/ BodyLost(u) \/ Crashes(u)
          PROVE  overlapped => overlapped'
      BY <3>1
         DEF UploadStep, BatchHasOid, BatchSize, OpensTmp, WritesBlock,
             BodyEnds, Closes, Renames, RenameFails, Copies, CopyFails,
             Unlinks, VerifyHasOid, VerifySize, BodyLost, Crashes
    <3>2. ASSUME NEW d \in Downloaders, DownloadStep(d)
          PROVE  overlapped' = overlapped
      BY <3>2 DEF DownloadStep, DownloadHasOid, DownloadOpens, SendsBlock,
                  DownloadEnds
    <3>3. CASE UNCHANGED vars
      BY <3>3 DEF vars
    <3> QED
      BY <1>1, <3>1, <3>2, <3>3 DEF Next
  <2> SUFFICES ASSUME NEW e \in Downloaders, dpc[e] = "read", ~overlapped'
               PROVE  content'[rfd[e]] = content[rfd[e]]
    OBVIOUS
  <2>2. UploadInv /\ ServedInv
    BY <1>1, <2>1 DEF IInv, SoleInv
  <2>3. /\ content \in [Files -> File]
        /\ rfd[e] \in Files /\ rfd[e] # tmp
    BY <1>1, <2>2 DEF IInv, TypeOK, PcInv, ServedInv, File
  <2>4. ASSUME NEW u \in Uploaders, OpensTmp(u)
        PROVE  content'[rfd[e]] = content[rfd[e]]
    BY <2>3, <2>4 DEF OpensTmp, Unused
  <2>5. ASSUME NEW u \in Uploaders, WritesBlock(u)
        PROVE  content'[rfd[e]] = content[rfd[e]]
    BY <2>2, <2>3, <2>5 DEF WritesBlock, UploadInv
  <2>6. ASSUME NEW u \in Uploaders, Copies(u) PROVE FALSE
    BY <2>2, <2>6 DEF Copies, UploadInv
  <2>7. ASSUME NEW u \in Uploaders, UploadStep(u) \/ BodyLost(u) \/ Crashes(u)
        PROVE  content'[rfd[e]] = content[rfd[e]]
    BY <2>4, <2>5, <2>6, <2>7
       DEF UploadStep, BatchHasOid, BatchSize, BodyEnds, Closes, Renames,
           RenameFails, CopyFails, Unlinks, VerifyHasOid, VerifySize, BodyLost,
           Crashes
  <2>8. ASSUME NEW d \in Downloaders, DownloadStep(d)
        PROVE  content' = content
    BY <2>8 DEF DownloadStep, DownloadHasOid, DownloadOpens, SendsBlock,
                DownloadEnds
  <2>9. CASE UNCHANGED vars
    BY <2>9 DEF vars
  <2> QED
    BY <1>1, <2>7, <2>8, <2>9 DEF Next
<1> QED
  BY <1>1, Invariance, PTL DEF Spec, ServedIsFrozen
===============================================================================
