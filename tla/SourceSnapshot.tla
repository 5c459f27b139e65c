---------------------------- MODULE SourceSnapshot ----------------------------
(***************************************************************************)
(* How a build gets its source (builder/snapshot.py, builder/source.py):   *)
(* the parts of the pinned snapshot are downloaded by a pool of threads,   *)
(* with retries that resume what an earlier attempt or an earlier run      *)
(* left, assembled into an archive, and the archive is unpacked, patched   *)
(* and overlaid.  The process may be killed between any two steps and run  *)
(* again, by this or by another revision of the builder.                   *)
(*                                                                         *)
(* A file is as long as it is and holds the right bytes so far, or not.    *)
(* The server and the network are external.                                *)
(***************************************************************************)
EXTENDS Naturals, FiniteSets

CONSTANTS
    PartCount,   \* parts of the archive
    Size,        \* length of an asset, in the units in which a transfer may end
    Workers,     \* max_workers
    Attempts,    \* attempts of _download_verified
    Revisions,   \* revisions of the builder that use the workspace
    PatchAdds,   \* the files each revision's patches add to the source
    Overlay,     \* the files each revision's overlays add to the source
    None

Files == UNION {PatchAdds[r] \cup Overlay[r] : r \in Revisions}

ASSUME SnapshotAssumption ==
    /\ PartCount \in Nat /\ Size \in Nat \ {0}
    /\ Workers \in Nat \ {0} /\ Attempts \in Nat \ {0}
    /\ None \notin Revisions
    /\ \A r \in Revisions : PatchAdds[r] \cap Overlay[r] = {}

Parts == 1..PartCount
Assets == 0..PartCount     \* 0 is the manifest

VARIABLES
    pc,          \* where the run is
    file,        \* the .partial file of each asset
    thread,      \* the download of each asset
    next,        \* the part whose result the main thread waits for or deletes
    manifest,    \* the manifest in the cache
    archive,     \* the archive in the cache
    assembling,  \* the archive being assembled
    rev,         \* the revision that runs
    base,        \* the unpacked snapshot: its state, or the revision that patched it
    added,       \* the revision that wrote each added file
    todo,        \* the overlay files still to copy
    out,         \* revisions whose object files are in the output directory
    leftover     \* in this run, rmtree left something behind

cache == <<file, thread, manifest, archive, assembling>>
workspace == <<base, added, todo, out, leftover>>
vars == <<pc, next, rev, cache, workspace>>

\* A file that is too long is one of full length with wrong bytes, and an empty
\* file is none: the code treats them alike.
Content(n, right) == [len |-> n, right |-> right \/ n = 0]
Absent == Content(0, TRUE)
Contents == [len : 0..Size, right : BOOLEAN]

Thread(state, attempt, faults) ==
    [pc |-> state, attempt |-> attempt, faults |-> faults]
Off == Thread("off", 1, 0)
AllOff == [a \in Assets |-> Off]
CacheEntry == {"absent", "bad", "good"}
NothingAdded == [f \in Files |-> None]

\* The cache is in any state that interrupted runs or a damaged disk left it in.
Init ==
    /\ pc = "idle" /\ next = 1 /\ rev = None
    /\ file \in [Assets -> {f \in Contents : f.len = 0 => f.right}]
    /\ thread = AllOff
    /\ manifest \in {"absent", "bad"} /\ archive \in {"absent", "bad"}
    /\ assembling \in {"absent", "partial"}
    /\ base = "absent" /\ added = NothingAdded /\ todo = {}
    /\ out = {} /\ leftover = FALSE

-----------------------------------------------------------------------------
(* One attempt of _download_verified.                                       *)

Valid(f) == f.len = Size /\ f.right

\* What a transfer starts from: a complete file with a wrong digest is deleted, a
\* short one is kept and resumed.
FoundWhateverItIs(f) == f
Found(f) == IF ~Valid(f) /\ f.len = Size THEN Absent ELSE f

\* What download_asset appends to: the server honours the range (206) or sends all
\* of the asset (200).
Starts(f) == {Absent} \cup {f}

\* n units arrive, the right ones or not; what is too long is wrong.
Received(s, n, right) == Content(s.len + n, s.right /\ (right \/ n = 0))

\* A failed attempt, without the bound and with it.
AttemptForever(attempt, faults) == Thread("running", attempt, 0)
NextAttempt(attempt, faults) ==
    IF attempt = Attempts THEN Thread("failed", attempt, faults)
    ELSE Thread("running", attempt + 1, faults)

\* The attempt leaves f; it may have raised an exception, a fault or not.
Transferred(a, f, raised, fault) ==
    LET attempt == thread[a].attempt
        faults == thread[a].faults + (IF fault THEN 1 ELSE 0)
    IN /\ file' = [file EXCEPT ![a] = f]
       /\ thread' = [thread EXCEPT ![a] = IF Valid(f) /\ ~raised
                                         THEN Thread("done", attempt, faults)
                                         ELSE NextAttempt(attempt, faults)]

\* An attempt finds a valid file, or raises before the file is opened, or transfers
\* something, which may end early with or without an exception.
Attempt(a) ==
    /\ thread[a].pc = "running"
    /\ \/ /\ Valid(file[a])
          /\ thread' = [thread EXCEPT ![a].pc = "done"]
          /\ UNCHANGED file
       \/ /\ ~Valid(file[a])
          /\ Transferred(a, Found(file[a]), TRUE, TRUE)
       \/ /\ ~Valid(file[a])
          /\ \E s \in Starts(Found(file[a])), right, raised \in BOOLEAN :
             \E n \in 0..Size - s.len :
                Transferred(a, Received(s, n, right), raised,
                            raised \/ ~right \/ s.len + n # Size)
    /\ UNCHANGED <<pc, next, rev, manifest, archive, assembling, workspace>>

-----------------------------------------------------------------------------
(* ensure_snapshot_manifest and ensure_snapshot_archive.                    *)

\* The exception leaves restore_source_snapshot; the parts stay.
EndRun == pc' = "idle" /\ thread' = AllOff /\ next' = 1

\* _validate_file, and a check that the file is there.
AnythingThere(entry) == entry # "absent"
Accepted(entry) == entry = "good"

StartRun ==
    /\ pc \in {"idle", "built"}
    /\ rev' = None /\ leftover' = FALSE /\ next' = 1 /\ todo' = {}
    /\ IF Accepted(manifest)
       THEN pc' = "archive" /\ thread' = AllOff /\ UNCHANGED manifest
       ELSE /\ manifest' = "absent"
            /\ thread' = [AllOff EXCEPT ![0] = Thread("running", 1, 0)]
            /\ pc' = "manifest"
    /\ UNCHANGED <<file, archive, assembling, base, added, out>>

ManifestFetched ==
    /\ pc = "manifest" /\ thread[0].pc = "done"
    /\ manifest' = "good"
    /\ file' = [file EXCEPT ![0] = Absent]
    /\ thread' = AllOff
    /\ pc' = "archive"
    /\ UNCHANGED <<next, rev, archive, assembling, workspace>>

ManifestFailed ==
    /\ pc = "manifest" /\ thread[0].pc = "failed"
    /\ EndRun
    /\ UNCHANGED <<rev, file, manifest, archive, assembling, workspace>>

EnsureArchive ==
    /\ pc = "archive"
    /\ IF Accepted(archive)
       THEN pc' = "clear" /\ UNCHANGED <<archive, assembling, thread>>
       ELSE /\ archive' = "absent" /\ assembling' = "absent"
            /\ thread' = [a \in Assets |->
                            IF a \in Parts THEN Thread("waiting", 1, 0) ELSE Off]
            /\ pc' = "fetch"
    /\ next' = 1
    /\ UNCHANGED <<rev, file, manifest, workspace>>

Running == {p \in Parts : thread[p].pc = "running"}

\* A thread of the pool takes the first part that waits.
StartPart(p) ==
    /\ thread[p].pc = "waiting"
    /\ \A q \in Parts : q < p => thread[q].pc # "waiting"
    /\ Cardinality(Running) < Workers
    /\ thread' = [thread EXCEPT ![p] = Thread("running", 1, 0)]
    /\ UNCHANGED <<pc, next, rev, file, manifest, archive, assembling, workspace>>

\* list(executor.map(...)) takes the results in the order of the parts.
TakeResult ==
    /\ pc = "fetch" /\ next \in Parts /\ thread[next].pc = "done"
    /\ next' = next + 1
    /\ UNCHANGED <<pc, rev, cache, workspace>>

\* The exception of a part cancels the parts that wait; the executor then waits
\* for those that run.
Cancelled(t) == IF t.pc = "waiting" THEN Thread("cancelled", 1, 0) ELSE t

PartFailed ==
    /\ pc = "fetch" /\ next \in Parts /\ thread[next].pc = "failed"
    /\ thread' = [a \in Assets |-> Cancelled(thread[a])]
    /\ pc' = "drain"
    /\ UNCHANGED <<next, rev, file, manifest, archive, assembling, workspace>>

\* The files after a run that failed, and what deleting them would leave.
PartsDeleted == [a \in Assets |-> IF a \in Parts THEN Absent ELSE file[a]]
PartsKept == file

Drained ==
    /\ pc = "drain"
    /\ \A p \in Parts : thread[p].pc \notin {"running", "waiting"}
    /\ file' = PartsKept
    /\ assembling' = "absent"
    /\ EndRun
    /\ UNCHANGED <<rev, manifest, archive, workspace>>

\* All parts are there, and the pool is shut down.
StartAssembly ==
    /\ pc = "fetch" /\ next \notin Parts
    /\ thread' = AllOff
    /\ assembling' = "partial"
    /\ pc' = "assembling"
    /\ UNCHANGED <<next, rev, file, manifest, archive, workspace>>

Assemble ==
    /\ pc = "assembling"
    /\ assembling' = IF \A p \in Parts : Valid(file[p]) THEN "good" ELSE "bad"
    /\ pc' = "verify"
    /\ UNCHANGED <<next, rev, file, thread, manifest, archive, workspace>>

\* The disk is full, or the assembled archive is not the pinned one.
AssemblyFailed ==
    /\ \/ pc = "assembling"
       \/ pc = "verify" /\ ~Accepted(assembling)
    /\ file' = PartsKept
    /\ assembling' = "absent"
    /\ EndRun
    /\ UNCHANGED <<rev, manifest, archive, workspace>>

Publish ==
    /\ pc = "verify" /\ Accepted(assembling)
    /\ archive' = assembling /\ assembling' = "absent"
    /\ next' = 1 /\ pc' = "cleanup"
    /\ UNCHANGED <<rev, file, thread, manifest, workspace>>

\* The finally clause deletes one part after the other.
CleanUp ==
    /\ pc = "cleanup"
    /\ IF next \in Parts
       THEN file' = [file EXCEPT ![next] = Absent] /\ next' = next + 1 /\ UNCHANGED pc
       ELSE pc' = "clear" /\ UNCHANGED <<file, next>>
    /\ UNCHANGED <<rev, thread, manifest, archive, assembling, workspace>>

-----------------------------------------------------------------------------
(* The rest of restore_source_snapshot, prepare_source, and the build.      *)

\* A rmtree that is not asked to delete the output directory.
ClearWorkspaceWithoutOut ==
    /\ pc = "clear"
    /\ rev' \in Revisions
    /\ base' \in {"absent"} \cup (IF base = "absent" THEN {} ELSE {"partial"})
    /\ added' \in {a \in [Files -> Revisions \cup {None}] :
                      \A f \in Files : a[f] \in {added[f], None}}
    /\ base' = "absent" => added' = NothingAdded
    /\ leftover' = (base' # "absent")
    /\ pc' = "extract"
    /\ UNCHANGED <<next, cache, todo, out>>

\* rmtree ignores errors: any part of a directory may stay.  Which revision runs
\* makes a difference from here on.
ClearWorkspace ==
    /\ pc = "clear"
    /\ rev' \in Revisions
    /\ base' \in {"absent"} \cup (IF base = "absent" THEN {} ELSE {"partial"})
    /\ added' \in {a \in [Files -> Revisions \cup {None}] :
                      \A f \in Files : a[f] \in {added[f], None}}
    /\ base' = "absent" => added' = NothingAdded
    /\ out' \in SUBSET out
    /\ leftover' = (base' # "absent" \/ out' # {})
    /\ pc' = "extract"
    /\ UNCHANGED <<next, cache, todo>>

StartExtract ==
    /\ pc = "extract"
    /\ base' = "partial"
    /\ pc' = "extracting"
    /\ UNCHANGED <<next, rev, cache, added, todo, out, leftover>>

\* The archive overwrites what was left of an earlier snapshot, and nothing else.
Extract ==
    /\ pc = "extracting"
    /\ base' = "pristine"
    /\ pc' = "patch"
    /\ UNCHANGED <<next, rev, cache, added, todo, out, leftover>>

\* git apply --check refuses to add a file that exists.
StartPatch ==
    /\ pc = "patch"
    /\ \A f \in PatchAdds[rev] : added[f] = None
    /\ base' = "partial"
    /\ \E S \in SUBSET PatchAdds[rev] :
          added' = [f \in Files |-> IF f \in S THEN rev ELSE added[f]]
    /\ pc' = "patching"
    /\ UNCHANGED <<next, rev, cache, todo, out, leftover>>

Patch ==
    /\ pc = "patching"
    /\ base' = rev
    /\ added' = [f \in Files |-> IF f \in PatchAdds[rev] THEN rev ELSE added[f]]
    /\ todo' = Overlay[rev]
    /\ pc' = "overlay"
    /\ UNCHANGED <<next, rev, cache, out, leftover>>

CopyOverlay(f) ==
    /\ pc = "overlay" /\ f \in todo
    /\ added[f] = None
    /\ added' = [added EXCEPT ![f] = rev]
    /\ todo' = todo \ {f}
    /\ UNCHANGED <<pc, next, rev, cache, base, out, leftover>>

\* Unpacking, patching or building fails, or an added file is in the way.
PrepareFailed ==
    /\ \/ pc \in {"extracting", "patch", "patching"}
       \/ pc = "overlay" /\ \E f \in todo : added[f] # None
    /\ EndRun
    /\ UNCHANGED <<rev, file, manifest, archive, assembling, workspace>>

\* The object files of the run join those that are in the output directory.
Build ==
    /\ pc = "overlay" /\ todo = {}
    /\ out' = out \cup {rev}
    /\ \/ pc' = "built" /\ UNCHANGED <<next, thread>>
       \/ EndRun
    /\ UNCHANGED <<rev, file, manifest, archive, assembling, base, added, todo, leftover>>

\* The process is killed.  What is on the disk stays.
Crash ==
    /\ pc # "idle"
    /\ EndRun
    /\ UNCHANGED <<rev, file, manifest, archive, assembling, workspace>>

Run ==
    \/ \E a \in Assets : Attempt(a)
    \/ ManifestFetched \/ ManifestFailed \/ EnsureArchive
    \/ \E p \in Parts : StartPart(p)
    \/ TakeResult \/ PartFailed \/ Drained
    \/ StartAssembly \/ Assemble \/ AssemblyFailed \/ Publish \/ CleanUp
    \/ ClearWorkspace \/ StartExtract \/ Extract \/ StartPatch \/ Patch
    \/ \E f \in Files : CopyOverlay(f)
    \/ PrepareFailed \/ Build

Next == StartRun \/ Run \/ Crash

Spec == Init /\ [][Next]_vars

\* A transfer ends: each read has a timeout, and the asset an end.
FairSpec == Spec /\ WF_vars(Run)

-----------------------------------------------------------------------------
(* Properties.                                                              *)

TypeOK ==
    /\ pc \in {"idle", "manifest", "archive", "fetch", "drain", "assembling",
               "verify", "cleanup", "clear", "extract", "extracting", "patch",
               "patching", "overlay", "built"}
    /\ next \in 1..PartCount + 1
    /\ rev \in Revisions \cup {None}
    /\ file \in [Assets -> Contents]
    /\ thread \in [Assets -> [pc : {"off", "waiting", "running", "done", "failed",
                                    "cancelled"},
                              attempt : 1..Attempts, faults : 0..Attempts]]
    /\ manifest \in CacheEntry /\ archive \in CacheEntry
    /\ assembling \in CacheEntry \cup {"partial"}
    /\ base \in {"absent", "partial", "pristine"} \cup Revisions
    /\ added \in [Files -> Revisions \cup {None}]
    /\ todo \in SUBSET Files
    /\ out \in SUBSET Revisions
    /\ leftover \in BOOLEAN

\* Nothing is unpacked, patched or built but a snapshot whose manifest and archive
\* have the pinned digests, whatever the cache held and wherever earlier runs
\* stopped (ensure_snapshot_manifest, ensure_snapshot_archive).
VerifiedBeforeUse ==
    /\ pc \in {"clear", "extract", "extracting", "patch", "patching", "overlay",
               "built"} => manifest = "good" /\ archive = "good"
    /\ base # "absent" => archive = "good"

\* A part that was downloaded and verified is downloaded no second time: it stays,
\* through failures of other parts and crashes, until the archive is in the cache
\* (the finally clause of ensure_snapshot_archive).
VerifiedPartsSurvive ==
    [][\A p \in Parts : Valid(file[p]) =>
            Valid(file'[p]) \/ archive' = "good"]_vars

\* Every fault costs two attempts at most: one for the faulty transfer, and one to
\* find out that what it left cannot be completed.  A cache in any state costs one.
\* With four attempts, one fault never fails a restore (_download_verified).
OneFaultIsMended ==
    \A a \in Assets : thread[a].pc = "failed" => 2 * thread[a].faults + 1 >= Attempts

\* What is built is the snapshot with the patches and the overlays of the revision
\* that runs.  Files of another run that rmtree could not delete (it ignores errors)
\* are refused where the revision adds a file of that name; without such a failure
\* nothing else is in the source or in the output (prepare_source, build_webrtc).
BuildsCurrentRevision ==
    pc = "built" =>
        /\ base = rev
        /\ \A f \in PatchAdds[rev] \cup Overlay[rev] : added[f] = rev
        /\ ~leftover => /\ out = {rev}
                        /\ \A f \in Files \ (PatchAdds[rev] \cup Overlay[rev]) :
                              added[f] = None

\* Every run ends, also when parts fail while others run or wait for a thread of
\* the pool (the with statement around the executor).
RunEnds == pc # "idle" ~> pc \in {"idle", "built"}
=============================================================================
