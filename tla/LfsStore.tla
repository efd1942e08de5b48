------------------------------- MODULE LfsStore -------------------------------
(***************************************************************************)
(* The git-lfs object store (git_lfs/lib.py) under the requests of         *)
(* git_lfs/app.py: several clients that upload one object and several that *)
(* download it, each request in a thread or process of its own.  Objects   *)
(* share no path, so one object is enough.                                 *)
(*                                                                         *)
(* The two paths of the object, oid and oid.tmp, name files; a file is its *)
(* length and the positions that hold the object's data (a writer whose    *)
(* file was truncated by another open() leaves a gap before its offset).   *)
(* Uploading clients follow the protocol: batch, then PUT if told to, then *)
(* verify, and from the start again after an error or a lost connection.   *)
(***************************************************************************)
EXTENDS Naturals, FiniteSets

CONSTANTS
    Uploaders, Downloaders,   \* the clients
    Size,                     \* the object's length, in blocks of 64kb
    MaxAborts,                \* bound: connections lost during a PUT
    MaxCrashes                \* bound: worker processes killed

ASSUME LfsAssumption ==
    /\ IsFiniteSet(Uploaders) /\ IsFiniteSet(Downloaders)
    /\ Size \in Nat \ {0}
    /\ MaxAborts \in Nat
    /\ MaxCrashes \in Nat

None == 0
Files == 1..(Cardinality(Uploaders) + Cardinality(Downloaders) + 2)

Empty == [len |-> 0, data |-> {}]
Whole == [len |-> Size, data |-> 1..Size]

\* A file after the object's n-th block was written at its place.
Extended(f, n) ==
    [len |-> IF n > f.len THEN n ELSE f.len, data |-> f.data \cup {n}]

Prefixes == {[len |-> n, data |-> 1..n] : n \in 0..Size}

VARIABLES
    tmp, oid,      \* the files the two paths name, or None
    content,       \* what each file holds
    upc,           \* where each uploader's request is
    fd,            \* the file an uploader writes
    off,           \* how many blocks it has written
    lost,          \* its connection was lost during the PUT
    dpc,           \* where each downloader's request is
    rfd,           \* the file it reads
    pos,           \* how many blocks it has sent
    clean,         \* history: none of them was a gap
    aborts, crashes,
    overlapped     \* history: two uploads had the object's file open at once

paths     == <<tmp, oid>>
uploads   == <<upc, fd, off, lost>>
downloads == <<dpc, rfd, pos, clean>>
faults    == <<aborts, crashes>>
vars      == <<paths, content, uploads, downloads, faults, overlapped>>

UploadPC == {"batch", "size", "put", "body", "close", "rename", "copy",
             "unlink", "verify", "verifySize", "accepted"}
Putting == {"body", "close", "rename", "copy", "unlink"}
DownloadPC == {"test", "open", "read", "done"}

\* A file nothing refers to; there are enough Files for one to exist always.
Unused(f) ==
    /\ f \in Files
    /\ f \notin {tmp, oid}
    /\ \A u \in Uploaders : fd[u] # f
    /\ \A d \in Downloaders : rfd[d] # f

FreeFile == CHOOSE f \in Files : Unused(f)

Init ==
    /\ tmp = None
    /\ oid = None
    /\ content = [f \in Files |-> Empty]
    /\ upc = [u \in Uploaders |-> "batch"]
    /\ fd = [u \in Uploaders |-> None]
    /\ off = [u \in Uploaders |-> 0]
    /\ lost = [u \in Uploaders |-> FALSE]
    /\ dpc = [d \in Downloaders |-> "test"]
    /\ rfd = [d \in Downloaders |-> None]
    /\ pos = [d \in Downloaders |-> 0]
    /\ clean = [d \in Downloaders |-> TRUE]
    /\ aborts = 0
    /\ crashes = 0
    /\ overlapped = FALSE

-------------------------------------------------------------------------------
(* Uploads.                                                                *)

UGoes(u, from, to) ==
    /\ upc[u] = from
    /\ upc' = [upc EXCEPT ![u] = to]

UJumps(u, from, to) ==
    /\ UGoes(u, from, to)
    /\ UNCHANGED <<paths, content, fd, off, lost, downloads, faults,
                   overlapped>>

\* Batch request, operation upload: has_oid(), then size_oid().
BatchHasOid(u) == UJumps(u, "batch", IF oid = None THEN "put" ELSE "size")

\* Mutant: an object that exists is never uploaded again.
BatchSize_AnySize(u) == UJumps(u, "size", "accepted")

\* The upload is skipped only if the size matches.
BatchSize(u) ==
    UJumps(u, "size", IF content[oid].len = Size THEN "accepted" ELSE "put")

\* Mutant: a retried upload goes on at the offset it had reached.
OpensTmp_KeepsOffset(u) ==
    /\ UGoes(u, "put", "body")
    /\ LET f == IF tmp = None THEN FreeFile ELSE tmp
       IN /\ tmp' = f
          /\ fd' = [fd EXCEPT ![u] = f]
          /\ content' = [content EXCEPT ![f] = Empty]
    /\ lost' = [lost EXCEPT ![u] = FALSE]
    /\ overlapped' = (overlapped \/ \E v \in Uploaders : upc[v] \in Putting)
    /\ UNCHANGED <<oid, off, downloads, faults>>

\* Mutant: an object that exists is written in place.
OpensTmp_InPlace(u) ==
    /\ UGoes(u, "put", "body")
    /\ LET f == IF oid # None THEN oid
                ELSE IF tmp = None THEN FreeFile ELSE tmp
       IN /\ tmp' = f
          /\ fd' = [fd EXCEPT ![u] = f]
          /\ content' = [content EXCEPT ![f] = Empty]
    /\ off' = [off EXCEPT ![u] = 0]
    /\ lost' = [lost EXCEPT ![u] = FALSE]
    /\ overlapped' = (overlapped \/ \E v \in Uploaders : upc[v] \in Putting)
    /\ UNCHANGED <<oid, downloads, faults>>

\* open(tmp_oid_path, 'wb'): truncates the file that is there, if any.
OpensTmp(u) ==
    /\ UGoes(u, "put", "body")
    /\ LET f == IF tmp = None THEN FreeFile ELSE tmp
       IN /\ tmp = None => Unused(f)
          /\ tmp' = f
          /\ fd' = [fd EXCEPT ![u] = f]
          /\ content' = [content EXCEPT ![f] = Empty]
    /\ off' = [off EXCEPT ![u] = 0]
    /\ lost' = [lost EXCEPT ![u] = FALSE]
    /\ overlapped' = (overlapped \/ \E v \in Uploaders : upc[v] \in Putting)
    /\ UNCHANGED <<oid, downloads, faults>>

\* f.write(chunk), at the writer's own offset.
WritesBlock(u) ==
    /\ upc[u] = "body"
    /\ off[u] < Size
    /\ off' = [off EXCEPT ![u] = @ + 1]
    /\ content' = [content EXCEPT ![fd[u]] = Extended(@, off'[u])]
    /\ UNCHANGED <<paths, upc, fd, lost, downloads, faults, overlapped>>

BodyEnds(u) == off[u] = Size /\ UJumps(u, "body", "close")

\* The read raises: __exit__ runs all the same.
BodyLost(u) ==
    /\ UGoes(u, "body", "close")
    /\ off[u] < Size
    /\ aborts < MaxAborts
    /\ aborts' = aborts + 1
    /\ lost' = [lost EXCEPT ![u] = TRUE]
    /\ UNCHANGED <<paths, content, fd, off, downloads, crashes, overlapped>>

Closes(u) ==
    /\ UGoes(u, "close", "rename")
    /\ fd' = [fd EXCEPT ![u] = None]
    /\ UNCHANGED <<paths, content, off, lost, downloads, faults, overlapped>>

\* What the client does next: it heard 'upload: ok', or no answer.
Answered(u) == IF lost[u] THEN "batch" ELSE "verify"

\* Mutant: after an error the wrong path is cleaned up.
Renames_RemovesObject(u) ==
    /\ tmp # None
    /\ UGoes(u, "rename", Answered(u))
    /\ oid' = IF lost[u] THEN None ELSE tmp
    /\ tmp' = None
    /\ UNCHANGED <<content, fd, off, lost, downloads, faults, overlapped>>

\* shutil.move: rename() ...
Renames(u) ==
    /\ tmp # None
    /\ UGoes(u, "rename", Answered(u))
    /\ oid' = tmp
    /\ tmp' = None
    /\ UNCHANGED <<content, fd, off, lost, downloads, faults, overlapped>>

\* ... and if that fails because another upload has moved the file,
RenameFails(u) == tmp = None /\ UJumps(u, "rename", "copy")

\* copy2() into the destination, if the file has appeared again in between,
Copies(u) ==
    /\ tmp # None
    /\ UGoes(u, "copy", "unlink")
    /\ LET f == IF oid = None THEN FreeFile ELSE oid
       IN /\ oid = None => Unused(f)
          /\ oid' = f
          /\ content' = [content EXCEPT ![f] = content[tmp]]
    /\ UNCHANGED <<tmp, fd, off, lost, downloads, faults, overlapped>>

CopyFails(u) == tmp = None /\ UJumps(u, "copy", "batch")

\* and unlink() of the source.
Unlinks(u) ==
    /\ UGoes(u, "unlink", IF tmp = None THEN "batch" ELSE Answered(u))
    /\ tmp' = None
    /\ UNCHANGED <<oid, content, fd, off, lost, downloads, faults, overlapped>>

\* Verify request: has_oid(), then size_oid() against the client's size.
VerifyHasOid(u) ==
    UJumps(u, "verify", IF oid = None THEN "batch" ELSE "verifySize")

VerifySize(u) ==
    UJumps(u, "verifySize",
           IF content[oid].len = Size THEN "accepted" ELSE "batch")

\* The worker process dies: its files are closed, oid.tmp stays.
Crashes(u) ==
    /\ upc[u] \in Putting
    /\ crashes < MaxCrashes
    /\ crashes' = crashes + 1
    /\ upc' = [upc EXCEPT ![u] = "batch"]
    /\ fd' = [fd EXCEPT ![u] = None]
    /\ UNCHANGED <<paths, content, off, lost, downloads, aborts, overlapped>>

UploadStep(u) ==
    \/ BatchHasOid(u) \/ BatchSize(u) \/ OpensTmp(u) \/ WritesBlock(u)
    \/ BodyEnds(u) \/ Closes(u) \/ Renames(u) \/ RenameFails(u) \/ Copies(u)
    \/ CopyFails(u) \/ Unlinks(u) \/ VerifyHasOid(u) \/ VerifySize(u)

-------------------------------------------------------------------------------
(* Downloads.                                                              *)

DGoes(d, from, to) ==
    /\ dpc[d] = from
    /\ dpc' = [dpc EXCEPT ![d] = to]

\* has_oid(): a missing object is answered with 404, and asked for again.
DownloadHasOid(d) ==
    /\ oid # None
    /\ DGoes(d, "test", "open")
    /\ UNCHANGED <<paths, content, uploads, rfd, pos, clean, faults,
                   overlapped>>

DownloadOpens(d) ==
    /\ DGoes(d, "open", "read")
    /\ rfd' = [rfd EXCEPT ![d] = oid]
    /\ UNCHANGED <<paths, content, uploads, pos, clean, faults, overlapped>>

SendsBlock(d) ==
    /\ dpc[d] = "read"
    /\ pos[d] < content[rfd[d]].len
    /\ pos' = [pos EXCEPT ![d] = @ + 1]
    /\ clean' = [clean EXCEPT ![d] = @ /\ pos'[d] \in content[rfd[d]].data]
    /\ UNCHANGED <<paths, content, uploads, dpc, rfd, faults, overlapped>>

DownloadEnds(d) ==
    /\ DGoes(d, "read", "done")
    /\ pos[d] >= content[rfd[d]].len
    /\ rfd' = [rfd EXCEPT ![d] = None]
    /\ UNCHANGED <<paths, content, uploads, pos, clean, faults, overlapped>>

DownloadStep(d) ==
    DownloadHasOid(d) \/ DownloadOpens(d) \/ SendsBlock(d) \/ DownloadEnds(d)

-------------------------------------------------------------------------------
Finished ==
    /\ \A u \in Uploaders : upc[u] = "accepted"
    /\ \A d \in Downloaders : dpc[d] = "done"

Next ==
    \/ \E u \in Uploaders : UploadStep(u) \/ BodyLost(u) \/ Crashes(u)
    \/ \E d \in Downloaders : DownloadStep(d)
    \/ Finished /\ UNCHANGED vars

Spec == Init /\ [][Next]_vars

\* A client that got no good answer tries again, and requests are served.
FairSpec == Spec /\ \A u \in Uploaders : WF_vars(UploadStep(u))

-------------------------------------------------------------------------------
(* Properties.                                                             *)

\* Type invariant.
TypeOK ==
    /\ {tmp, oid} \subseteq Files \cup {None}
    /\ content \in [Files -> [len : 0..Size, data : SUBSET (1..Size)]]
    /\ upc \in [Uploaders -> UploadPC]
    /\ fd \in [Uploaders -> Files \cup {None}]
    /\ off \in [Uploaders -> 0..Size]
    /\ lost \in [Uploaders -> BOOLEAN]
    /\ dpc \in [Downloaders -> DownloadPC]
    /\ rfd \in [Downloaders -> Files \cup {None}]
    /\ pos \in [Downloaders -> 0..Size]
    /\ clean \in [Downloaders -> BOOLEAN]
    /\ aborts \in 0..MaxAborts
    /\ crashes \in 0..MaxCrashes
    /\ overlapped \in BOOLEAN

\* has_oid() stays true once it was: what a request does after the test (the
\* stat in size_oid, the open of a download) finds the file (lib.py:165-175,
\* app.py:179-187).
NeverVanishes == [][oid # None => oid' # None]_vars

\* Unless two uploads of the object overlapped, the stored file is a prefix
\* of the object, whatever connections were lost and processes killed, and no
\* download has sent a gap.
StoredIsPrefix ==
    ~overlapped =>
        /\ oid # None => content[oid] \in Prefixes
        /\ \A d \in Downloaders : clean[d]

\* ... and an upload that is skipped or verified leaves the client with the
\* whole object in the store: comparing sizes is enough then.
AcceptedIsWhole ==
    [][\A u \in Uploaders :
           upc[u] # "accepted" /\ upc'[u] = "accepted" /\ ~overlapped =>
               content[oid] = Whole]_vars

\* ... and the file a download is reading does not change under it, although
\* the object may be uploaded again meanwhile (the rename gives the path to
\* another file).
ServedIsFrozen ==
    [][\A d \in Downloaders :
           dpc[d] = "read" /\ ~overlapped' =>
               content'[rfd[d]] = content[rfd[d]]]_vars

\* A client that tries again ends with the whole object in the store, also
\* after a lost connection has stored a truncated file under the final name.
RetryRepairs ==
    <>(\A u \in Uploaders : upc[u] = "accepted" /\ content[oid] = Whole)

\* test_lfs_app.py:267-272: after 'upload: ok' the file at oid_path has the
\* content that was sent.
OkMeansStored ==
    [][\A u \in Uploaders :
           upc[u] = "rename" /\ upc'[u] = "verify" =>
               content'[oid'] = Whole]_vars
===============================================================================
