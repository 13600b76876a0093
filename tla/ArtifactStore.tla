---------------------------- MODULE ArtifactStore ----------------------------
(***************************************************************************)
(* LocalArtifactStore: blobs in a directory, named by the digest of what   *)
(* is in them, each with a file that says when it expires, and the passes  *)
(* that resolve the artifacts of a step.  Several hosts may share the      *)
(* directory; nothing is locked.  A file that is created or written with   *)
(* one call is empty for a moment ("torn").                                *)
(***************************************************************************)
EXTENDS Tables

FilesOnly == UNCHANGED <<backend, tables, db, writes, handled, faults>>
ArtGoto(c, pc) == cl' = [cl EXCEPT ![c].pc = pc]

\* put, up to the blob's digest: the bytes go to a file with a fresh name that
\* nobody else knows.
ArtSpool(c, d) ==
  /\ Begin(c, "files")
  /\ cl' = [cl EXCEPT ![c] = [Idle EXCEPT !.pc = "spooled", !.s = d]]
  /\ FilesOnly /\ UNCHANGED files

\* A blob that is there already is as good, whatever its expiry.
ArtDeduplicate(c) ==
  /\ Resume(c, "files", "spooled") /\ cl[c].s \in files.blobs
  /\ files' = [files EXCEPT !.refs = @ \cup {cl[c].s}]
  /\ Return(c) /\ FilesOnly

\* The file is renamed to the blob.
ArtPlace(c) ==
  /\ Resume(c, "files", "spooled") /\ cl[c].s \notin files.blobs
  /\ files' = [files EXCEPT !.blobs = @ \cup {cl[c].s}]
  /\ ArtGoto(c, "placed") /\ FilesOnly

\* fs::write of the meta file: it is truncated, then filled.
ArtMark(c) ==
  /\ \/ /\ Resume(c, "files", "placed")
        /\ files' = [files EXCEPT !.meta[cl[c].s] = "torn"] /\ ArtGoto(c, "marking")
     \/ /\ Resume(c, "files", "marking")
        /\ files' = [files EXCEPT !.meta[cl[c].s] = "fresh", !.refs = @ \cup {cl[c].s}]
        /\ Return(c)
  /\ FilesOnly

\* ArtifactVolume::resolve fetches the inputs of a step one after the other.
ArtResolve(c, D) ==
  /\ Begin(c, "files")
  /\ cl' = [cl EXCEPT ![c] = [Idle EXCEPT !.pc = "resolve", !.todo = D]]
  /\ FilesOnly /\ UNCHANGED files
ArtResolved(c) ==
  /\ Resume(c, "files", "resolve") /\ cl[c].todo = {}
  /\ Return(c) /\ FilesOnly /\ UNCHANGED files

\* What get does next, given the verdict on the meta file.
Judged(c, d, next) ==
  /\ Resume(c, "files", "resolve") /\ d \in cl[c].todo
  /\ cl' = [cl EXCEPT ![c] = IF next = "error" THEN Idle ELSE [@ EXCEPT !.pc = next, !.s = d]]
  /\ FilesOnly /\ UNCHANGED files
\* Slip: a meta file that cannot be read counts as expired.
gc_unreadable(c, d) ==
  Judged(c, d, IF files.meta[d] \in {"none", "fresh"} THEN "open" ELSE "collect")
\* get and exists begin with gc_expired; a meta file that is not JSON is an
\* error, which fails the resolution.
gc_expired(c, d) ==
  Judged(c, d, CASE files.meta[d] \in {"none", "fresh"} -> "open"
                 [] files.meta[d] = "expired"           -> "collect"
                 [] files.meta[d] = "torn"              -> "error")

\* An expired artifact: its blob is removed, its meta file, and the answer is
\* None, which fails the resolution.
ArtRemoveBlob(c) ==
  /\ Resume(c, "files", "collect")
  /\ files' = [files EXCEPT !.blobs = @ \ {cl[c].s}]
  /\ ArtGoto(c, "collected") /\ FilesOnly
ArtRemoveMeta(c) ==
  /\ Resume(c, "files", "collected")
  /\ files' = [files EXCEPT !.meta[cl[c].s] = "none"]
  /\ Return(c) /\ FilesOnly

\* The blob is opened and read, or is not there (any more).
ArtOpen(c) ==
  /\ Resume(c, "files", "open")
  /\ cl' = [cl EXCEPT ![c] = IF cl[c].s \in files.blobs
                             THEN [cl[c] EXCEPT !.pc = "resolve", !.todo = @ \ {cl[c].s}, !.s = "none"]
                             ELSE Idle]
  /\ FilesOnly /\ UNCHANGED files

\* default_expiry has passed.
ArtExpires(d) ==
  /\ files.meta[d] = "fresh"
  /\ files' = [files EXCEPT !.meta[d] = "expired", !.aged = @ \cup {d}]
  /\ FilesOnly /\ UNCHANGED <<cl, calls>>

ArtNext ==
  \/ \E c \in Clients :
       \/ \E d \in Digests : ArtSpool(c, d) \/ gc_expired(c, d)
       \/ \E D \in SUBSET Digests \ {{}} : ArtResolve(c, D)
       \/ ArtDeduplicate(c) \/ ArtPlace(c) \/ ArtMark(c)
       \/ ArtRemoveBlob(c) \/ ArtRemoveMeta(c) \/ ArtOpen(c) \/ ArtResolved(c)
  \/ \E d \in Digests : ArtExpires(d)
=============================================================================
