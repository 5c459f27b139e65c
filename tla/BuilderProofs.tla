----------------------------- MODULE BuilderProofs -----------------------------
(***************************************************************************)
(* Proofs about the builder: SourceSnapshot, for any number of parts,      *)
(* threads, attempts and revisions, any length of the assets and any files *)
(* that the revisions add; and ReleaseGate, for every set of commits,      *)
(* targets and builds, and any number of releases.                         *)
(***************************************************************************)
EXTENDS SourceSnapshot, ReleaseGate, TLAPS


-----------------------------------------------------------------------------
(* Faults and attempts.                                                     *)

\* One asset: the attempts that were used are at most two for each fault and one
\* for what the cache held.  When they are all that, the last one has left a
\* complete file with wrong bytes, which the next attempt deletes.
Budget(t, f) ==
    /\ t.pc \in {"off", "waiting"} => t.attempt = 1 /\ t.faults = 0
    /\ t.pc = "running" =>
          /\ t.attempt <= 2 * t.faults + 2
          /\ t.attempt = 2 * t.faults + 2 => f.len = Size /\ ~f.right
    /\ t.pc = "failed" => 2 * t.faults + 1 >= Attempts

ThreadType == [pc : {"off", "waiting", "running", "done", "failed", "cancelled"},
               attempt : Nat \ {0}, faults : Nat]

\* What the steps of a download keep.
FaultInv ==
    /\ file \in [Assets -> Contents]
    /\ thread \in [Assets -> ThreadType]
    /\ \A a \in Assets : Budget(thread[a], file[a])

LEMMA FoundIsShort ==
    ASSUME NEW f \in Contents, ~Valid(f)
    PROVE  /\ Found(f) \in Contents /\ Found(f).len # Size
           /\ Found(f) = f \/ Found(f) = Absent
           /\ f.len = Size => Found(f) = Absent
  BY SnapshotAssumption DEF Found, Absent, Content, Contents, Valid

LEMMA ReceivedTyped ==
    ASSUME NEW s \in Contents, NEW n \in 0..Size - s.len, NEW right \in BOOLEAN
    PROVE  /\ Received(s, n, right) \in Contents
           /\ Received(s, n, right).len = s.len + n
           /\ right /\ s.right => Received(s, n, right).right
  BY SnapshotAssumption DEF Received, Content, Contents

\* A transfer from the short or absent file f leaves the budget of its asset.
LEMMA TransferKeepsBudget ==
    ASSUME FaultInv, NEW a \in Assets, thread[a].pc = "running", ~Valid(file[a]),
           NEW g \in Contents, NEW raised \in BOOLEAN, NEW fault \in BOOLEAN,
           \* without a fault, a failure means that a short wrong file was resumed
           ~fault => \/ Valid(g) /\ ~raised
                     \/ g.len = Size /\ ~g.right /\ file[a].len # Size,
           Transferred(a, g, raised, fault)
    PROVE  FaultInv'
<1> DEFINE attempt == thread[a].attempt
           faults == thread[a].faults + (IF fault THEN 1 ELSE 0)
           v == IF Valid(g) /\ ~raised THEN Thread("done", attempt, faults)
                ELSE NextAttempt(attempt, faults)
<1>1. /\ attempt \in Nat \ {0} /\ thread[a].faults \in Nat
      /\ attempt <= 2 * thread[a].faults + 2
      /\ attempt = 2 * thread[a].faults + 2 => file[a].len = Size /\ ~file[a].right
  BY DEF FaultInv, ThreadType, Budget
<1>2. Attempts \in Nat \ {0}
  BY SnapshotAssumption
<1>3. faults \in Nat /\ faults = thread[a].faults + (IF fault THEN 1 ELSE 0)
  BY <1>1
<1>4. file' = [file EXCEPT ![a] = g] /\ thread' = [thread EXCEPT ![a] = v]
  BY DEF Transferred
<1>5. ASSUME ~(Valid(g) /\ ~raised)
      PROVE  /\ attempt + 1 <= 2 * faults + 2
             /\ attempt + 1 = 2 * faults + 2 => (g.len = Size /\ ~g.right)
  BY <1>1, <1>3, <1>5
<1> HIDE DEF attempt, faults
<1>6. v \in ThreadType /\ Budget(v, g)
  <2>1. CASE Valid(g) /\ ~raised
    BY <1>1, <1>3, <2>1 DEF Thread, ThreadType, Budget
  <2>2. CASE ~(Valid(g) /\ ~raised) /\ attempt = Attempts
    BY <1>1, <1>2, <1>3, <1>5, <2>2 DEF NextAttempt, Thread, ThreadType, Budget
  <2>3. CASE ~(Valid(g) /\ ~raised) /\ attempt # Attempts
    BY <1>1, <1>2, <1>3, <1>5, <2>3 DEF NextAttempt, Thread, ThreadType, Budget
  <2> QED
    BY <2>1, <2>2, <2>3
<1> QED
  BY <1>4, <1>6 DEF FaultInv

\* _download_verified, one attempt.
LEMMA AttemptKeepsBudget ==
    ASSUME FaultInv, NEW a \in Assets, Attempt(a)
    PROVE  FaultInv'
<1> DEFINE f == Found(file[a])
<1>1. file[a] \in Contents /\ thread[a] \in ThreadType /\ thread[a].pc = "running"
  BY DEF FaultInv, Attempt
<1>2. CASE Valid(file[a]) /\ thread' = [thread EXCEPT ![a].pc = "done"]
           /\ UNCHANGED file
  <2>1. [thread[a] EXCEPT !.pc = "done"] \in ThreadType
    BY <1>1 DEF ThreadType
  <2>2. Budget([thread[a] EXCEPT !.pc = "done"], file[a])
    BY <1>1 DEF ThreadType, Budget
  <2> QED
    BY <1>2, <2>1, <2>2 DEF FaultInv
<1>3. CASE ~Valid(file[a]) /\ Transferred(a, f, TRUE, TRUE)
  <2>1. f \in Contents
    BY <1>1, <1>3, FoundIsShort
  <2> QED
    BY <1>1, <1>3, <2>1, TransferKeepsBudget
<1>4. ASSUME ~Valid(file[a]),
             NEW s \in Starts(f), NEW right \in BOOLEAN, NEW raised \in BOOLEAN,
             NEW n \in 0..Size - s.len,
             Transferred(a, Received(s, n, right), raised,
                         raised \/ ~right \/ s.len + n # Size)
      PROVE  FaultInv'
  <2> DEFINE g == Received(s, n, right)
             fault == raised \/ ~right \/ s.len + n # Size
  <2>1. /\ s \in Contents
        /\ s = Absent \/ (s = file[a] /\ file[a].len # Size)
    <3>1. f \in Contents /\ (f = file[a] \/ f = Absent) /\ f.len # Size
      BY <1>1, <1>4, FoundIsShort
    <3>2. Absent \in Contents
      BY SnapshotAssumption DEF Absent, Content, Contents
    <3> QED
      BY <3>1, <3>2 DEF Starts
  <2>2. g \in Contents /\ g.len = s.len + n /\ (right /\ s.right => g.right)
    BY <2>1, ReceivedTyped
  <2>3. s = Absent => s.right
    <3>1. Absent = [len |-> 0, right |-> TRUE]
      BY DEF Absent, Content
    <3> QED
      BY <3>1
  <2>4. ~fault => \/ Valid(g) /\ ~raised
                  \/ g.len = Size /\ ~g.right /\ file[a].len # Size
    BY <2>1, <2>2, <2>3 DEF Valid
  <2>5. fault \in BOOLEAN
    OBVIOUS
  <2>6. Transferred(a, g, raised, fault)
    BY <1>4
  <2> HIDE DEF g, fault
  <2> QED
    BY <1>1, <1>4, <2>2, <2>4, <2>5, <2>6, TransferKeepsBudget
<1> QED
  BY <1>2, <1>3, <1>4 DEF Attempt

LEMMA AllOffWithinBudget ==
    ASSUME NEW f \in [Assets -> Contents]
    PROVE  /\ AllOff \in [Assets -> ThreadType]
           /\ \A a \in Assets : Budget(AllOff[a], f[a])
  BY DEF AllOff, Off, Thread, ThreadType, Budget

LEMMA FaultInvInit == Init => FaultInv
<1> SUFFICES ASSUME Init PROVE FaultInv
  OBVIOUS
<1>1. file \in [Assets -> Contents]
  BY DEF Init
<1> QED
  BY <1>1, AllOffWithinBudget DEF Init, FaultInv

LEMMA EndRunWithinBudget ==
    ASSUME EndRun, file' \in [Assets -> Contents]
    PROVE  FaultInv'
  BY AllOffWithinBudget DEF EndRun, FaultInv

\* When the parts are assembled and deleted, no thread writes them.
PoolClosed == pc \in {"assembling", "verify", "cleanup"} => thread = AllOff

LEMMA StepKeepsPoolClosed == PoolClosed /\ [Next]_vars => PoolClosed'
<1> SUFFICES ASSUME PoolClosed, [Next]_vars PROVE PoolClosed'
  OBVIOUS
<1>1. ASSUME NEW a \in Assets, Attempt(a) PROVE PoolClosed'
  <2>1. thread # AllOff
    BY <1>1 DEF Attempt, AllOff, Off, Thread
  <2> QED
    BY <1>1, <2>1 DEF Attempt, PoolClosed
<1>2. ASSUME NEW p \in Parts, StartPart(p) PROVE PoolClosed'
  <2>1. p \in Assets
    BY DEF Parts, Assets
  <2>2. thread # AllOff
    BY <1>2, <2>1 DEF StartPart, AllOff, Off, Thread
  <2> QED
    BY <1>2, <2>2 DEF StartPart, PoolClosed
<1>3. CASE StartRun \/ ManifestFetched \/ ManifestFailed \/ EnsureArchive \/ TakeResult
           \/ PartFailed \/ Drained
  BY <1>3 DEF StartRun, ManifestFetched, ManifestFailed, EnsureArchive, TakeResult,
     PartFailed, Drained, EndRun, PoolClosed
<1>4. CASE StartAssembly \/ Assemble \/ AssemblyFailed \/ Publish \/ CleanUp
  BY <1>4 DEF StartAssembly, Assemble, AssemblyFailed, Publish, CleanUp, EndRun, PoolClosed
<1>5. CASE ClearWorkspace \/ StartExtract \/ Extract \/ StartPatch \/ Patch
  BY <1>5 DEF ClearWorkspace, StartExtract, Extract, StartPatch, Patch, PoolClosed
<1>6. ASSUME NEW f \in Files, CopyOverlay(f) PROVE PoolClosed'
  BY <1>6 DEF CopyOverlay, cache, PoolClosed
<1>7. CASE PrepareFailed \/ Build \/ Crash
  BY <1>7 DEF PrepareFailed, Build, Crash, EndRun, PoolClosed
<1>8. CASE UNCHANGED vars
  BY <1>8 DEF vars, cache, PoolClosed
<1> QED
  BY <1>1, <1>2, <1>3, <1>4, <1>5, <1>6, <1>7, <1>8 DEF Next, Run

LEMMA StepKeepsFaultInv == FaultInv /\ PoolClosed /\ [Next]_vars => FaultInv'
<1> SUFFICES ASSUME FaultInv, PoolClosed, [Next]_vars PROVE FaultInv'
  OBVIOUS
<1> USE DEF workspace
<1>0. /\ file \in [Assets -> Contents] /\ thread \in [Assets -> ThreadType]
      /\ Absent \in Contents
  BY SnapshotAssumption DEF FaultInv, Absent, Content, Contents
<1>1. ASSUME NEW a \in Assets, Attempt(a) PROVE FaultInv'
  BY <1>1, AttemptKeepsBudget
<1>2. CASE StartRun
  <2>1. CASE thread' = AllOff
    BY <1>0, <1>2, <2>1, AllOffWithinBudget DEF StartRun, FaultInv
  <2>2. CASE thread' = [AllOff EXCEPT ![0] = Thread("running", 1, 0)]
    <3>1. thread' = [b \in Assets |-> IF b = 0 THEN Thread("running", 1, 0) ELSE Off]
      BY <2>2 DEF AllOff
    <3> QED
      BY <1>0, <1>2, <3>1 DEF StartRun, FaultInv, Budget, ThreadType, Off, Thread
  <2> QED
    BY <1>2, <2>1, <2>2 DEF StartRun
<1>3. CASE ManifestFetched
  <2>1. file' \in [Assets -> Contents]
    BY <1>0, <1>3 DEF ManifestFetched
  <2> QED
    BY <1>3, <2>1, AllOffWithinBudget DEF ManifestFetched, FaultInv
<1>4. CASE ManifestFailed
  BY <1>0, <1>4, EndRunWithinBudget DEF ManifestFailed
<1>5. CASE EnsureArchive
  <2>1. CASE thread' = [a \in Assets |->
                          IF a \in Parts THEN Thread("waiting", 1, 0) ELSE Off]
    BY <1>0, <1>5, <2>1 DEF EnsureArchive, FaultInv, Budget, ThreadType, Off, Thread
  <2> QED
    BY <1>5, <2>1 DEF EnsureArchive, FaultInv
<1>6. ASSUME NEW p \in Parts, StartPart(p) PROVE FaultInv'
  <2>1. p \in Assets
    BY DEF Parts, Assets
  <2>2. Thread("running", 1, 0) \in ThreadType /\ Budget(Thread("running", 1, 0), file[p])
    BY DEF Thread, ThreadType, Budget
  <2>3. /\ thread' = [thread EXCEPT ![p] = Thread("running", 1, 0)]
        /\ file' = file
    BY <1>6 DEF StartPart
  <2> QED
    BY <2>1, <2>2, <2>3 DEF FaultInv
<1>7. CASE TakeResult
  BY <1>7 DEF TakeResult, cache, FaultInv
<1>8. CASE PartFailed
  <2>1. \A a \in Assets : /\ Cancelled(thread[a]) \in ThreadType
                          /\ Budget(Cancelled(thread[a]), file[a])
    BY <1>0 DEF Cancelled, Thread, ThreadType, FaultInv, Budget
  <2>2. thread' = [a \in Assets |-> Cancelled(thread[a])] /\ file' = file
    BY <1>8 DEF PartFailed
  <2> QED
    BY <1>0, <2>1, <2>2 DEF FaultInv
<1>9. CASE Drained
  BY <1>0, <1>9, EndRunWithinBudget DEF Drained, PartsKept
<1>10. CASE StartAssembly
  BY <1>0, <1>10, AllOffWithinBudget DEF StartAssembly, FaultInv
<1>11. CASE Assemble
  BY <1>11 DEF Assemble, FaultInv
<1>12. CASE AssemblyFailed
  BY <1>0, <1>12, EndRunWithinBudget DEF AssemblyFailed, PartsKept
<1>13. CASE Publish
  BY <1>13 DEF Publish, FaultInv
<1>14. CASE CleanUp
  <2>1. file' \in [Assets -> Contents]
    BY <1>0, <1>14 DEF CleanUp
  <2>2. thread' = AllOff
    BY <1>14 DEF CleanUp, PoolClosed
  <2> QED
    BY <2>1, <2>2, AllOffWithinBudget DEF FaultInv
<1>15. CASE ClearWorkspace
  BY <1>15 DEF ClearWorkspace, cache, FaultInv
<1>16. CASE StartExtract \/ Extract \/ StartPatch \/ Patch
  BY <1>16 DEF StartExtract, Extract, StartPatch, Patch, cache, FaultInv
<1>17. ASSUME NEW f \in Files, CopyOverlay(f) PROVE FaultInv'
  BY <1>17 DEF CopyOverlay, cache, FaultInv
<1>18. CASE PrepareFailed
  BY <1>0, <1>18, EndRunWithinBudget DEF PrepareFailed
<1>19. CASE Build
  <2>1. CASE EndRun
    BY <1>0, <1>19, <2>1, EndRunWithinBudget DEF Build
  <2> QED
    BY <1>19, <2>1 DEF Build, FaultInv
<1>20. CASE Crash
  BY <1>0, <1>20, EndRunWithinBudget DEF Crash
<1>21. CASE UNCHANGED vars
  BY <1>21 DEF vars, cache, FaultInv
<1> QED
  BY <1>1, <1>2, <1>3, <1>4, <1>5, <1>6, <1>7, <1>8, <1>9, <1>10, <1>11, <1>12, <1>13,
     <1>14, <1>15, <1>16, <1>17, <1>18, <1>19, <1>20, <1>21 DEF Next, Run

\* With four attempts, one fault in a transfer never fails a restore, whatever the
\* cache held: a failed download has met (Attempts - 1) / 2 faults or more
\* (_download_verified).
THEOREM SpecOneFaultIsMended == Spec => []OneFaultIsMended
<1>1. Init => FaultInv /\ PoolClosed
  BY FaultInvInit DEF Init, PoolClosed
<1>2. FaultInv /\ PoolClosed /\ [Next]_vars => (FaultInv /\ PoolClosed)'
  BY StepKeepsPoolClosed, StepKeepsFaultInv
<1>3. FaultInv => OneFaultIsMended
  BY DEF FaultInv, Budget, OneFaultIsMended
<1> QED
  BY <1>1, <1>2, <1>3, PTL DEF Spec

-----------------------------------------------------------------------------
(* What is unpacked was verified.                                           *)

\* What a run has verified by the time it is there; and a run that finds the archive
\* damaged or missing has found no source that was unpacked from it.
VerifiedInv ==
    /\ pc \notin {"idle", "manifest"} => manifest = "good"
    /\ pc \in {"cleanup", "clear", "extract", "extracting", "patch", "patching",
              "overlay", "built"} => archive = "good"
    /\ base # "absent" => archive = "good"

LEMMA StepKeepsVerifiedInv == VerifiedInv /\ [Next]_vars => VerifiedInv'
<1> SUFFICES ASSUME VerifiedInv, [Next]_vars PROVE VerifiedInv'
  OBVIOUS
<1> USE DEF VerifiedInv, Accepted
<1>1. ASSUME NEW a \in Assets, Attempt(a) PROVE VerifiedInv'
  BY <1>1 DEF Attempt, workspace
<1>2. ASSUME NEW p \in Parts, StartPart(p) PROVE VerifiedInv'
  BY <1>2 DEF StartPart, workspace
<1>3. CASE StartRun
  BY <1>3 DEF StartRun
<1>4. CASE ManifestFetched \/ ManifestFailed
  BY <1>4 DEF ManifestFetched, ManifestFailed, EndRun, workspace
<1>5. CASE EnsureArchive
  BY <1>5 DEF EnsureArchive, workspace
<1>6. CASE TakeResult \/ PartFailed \/ Drained
  BY <1>6 DEF TakeResult, PartFailed, Drained, EndRun, cache, workspace
<1>7. CASE StartAssembly \/ Assemble \/ AssemblyFailed
  BY <1>7 DEF StartAssembly, Assemble, AssemblyFailed, EndRun, workspace
<1>8. CASE Publish \/ CleanUp
  BY <1>8 DEF Publish, CleanUp, workspace
<1>9. CASE ClearWorkspace \/ StartExtract \/ Extract \/ StartPatch \/ Patch
  BY <1>9 DEF ClearWorkspace, StartExtract, Extract, StartPatch, Patch, cache
<1>10. ASSUME NEW f \in Files, CopyOverlay(f) PROVE VerifiedInv'
  BY <1>10 DEF CopyOverlay, cache
<1>11. CASE PrepareFailed \/ Build \/ Crash
  BY <1>11 DEF PrepareFailed, Build, Crash, EndRun, workspace
<1>12. CASE UNCHANGED vars
  BY <1>12 DEF vars, cache, workspace
<1> QED
  BY <1>1, <1>2, <1>3, <1>4, <1>5, <1>6, <1>7, <1>8, <1>9, <1>10, <1>11, <1>12 DEF Next, Run

\* Whatever earlier runs left in the cache, and wherever they stopped, only a snapshot
\* with the pinned digests is unpacked, patched and built (ensure_snapshot_manifest,
\* ensure_snapshot_archive).
THEOREM SpecVerifiedBeforeUse == Spec => []VerifiedBeforeUse
<1>1. Init => VerifiedInv
  BY DEF Init, VerifiedInv
<1>2. VerifiedInv => VerifiedBeforeUse
  BY DEF VerifiedInv, VerifiedBeforeUse
<1> QED
  BY <1>1, <1>2, StepKeepsVerifiedInv, PTL DEF Spec

\* No step but the deletion after the archive was published takes a verified part.
LEMMA StepKeepsVerifiedParts ==
    ASSUME FaultInv, VerifiedInv, [Next]_vars, NEW p \in Parts, Valid(file[p])
    PROVE  Valid(file'[p]) \/ archive' = "good"
<1>0. /\ p \in Assets /\ p # 0
      /\ DOMAIN file = Assets
  BY SnapshotAssumption DEF Parts, Assets, FaultInv
<1>1. ASSUME NEW a \in Assets, Attempt(a) PROVE file'[p] = file[p]
  <2>1. CASE Valid(file[a])
    BY <1>1, <2>1 DEF Attempt
  <2>2. CASE ~Valid(file[a])
    <3>1. \E g : file' = [file EXCEPT ![a] = g]
      BY <1>1, <2>2 DEF Attempt, Transferred
    <3>2. a # p
      BY <2>2
    <3> QED
      BY <1>0, <3>1, <3>2
  <2> QED
    BY <2>1, <2>2
<1>2. CASE ManifestFetched
  BY <1>0, <1>2 DEF ManifestFetched
<1>3. CASE Drained \/ AssemblyFailed
  BY <1>3 DEF Drained, AssemblyFailed, PartsKept
<1>4. CASE CleanUp
  BY <1>4 DEF CleanUp, VerifiedInv
<1>5. CASE StartRun \/ ManifestFailed \/ EnsureArchive \/ TakeResult \/ PartFailed
           \/ StartAssembly \/ Assemble \/ Publish
  BY <1>5 DEF StartRun, ManifestFailed, EnsureArchive, TakeResult, PartFailed,
     StartAssembly, Assemble, Publish, cache
<1>6. ASSUME NEW q \in Parts, StartPart(q) PROVE file' = file
  BY <1>6 DEF StartPart
<1>7. CASE ClearWorkspace \/ StartExtract \/ Extract \/ StartPatch \/ Patch
  BY <1>7 DEF ClearWorkspace, StartExtract, Extract, StartPatch, Patch, cache
<1>8. ASSUME NEW f \in Files, CopyOverlay(f) PROVE file' = file
  BY <1>8 DEF CopyOverlay, cache
<1>9. CASE PrepareFailed \/ Build \/ Crash \/ UNCHANGED vars
  BY <1>9 DEF PrepareFailed, Build, Crash, vars, cache
<1> QED
  BY <1>1, <1>2, <1>3, <1>4, <1>5, <1>6, <1>7, <1>8, <1>9 DEF Next, Run

\* A part that was downloaded and verified is downloaded no second time: it stays,
\* through failures of other parts and crashes, until the archive is in the cache
\* (the finally clause of ensure_snapshot_archive).
THEOREM SpecVerifiedPartsSurvive == Spec => VerifiedPartsSurvive
<1>1. Init => FaultInv /\ PoolClosed /\ VerifiedInv
  BY FaultInvInit DEF Init, PoolClosed, VerifiedInv
<1>2. FaultInv /\ PoolClosed /\ VerifiedInv /\ [Next]_vars
        => (FaultInv /\ PoolClosed /\ VerifiedInv)'
  BY StepKeepsPoolClosed, StepKeepsFaultInv, StepKeepsVerifiedInv
<1>3. FaultInv /\ VerifiedInv /\ [Next]_vars
        => [\A p \in Parts : Valid(file[p]) => Valid(file'[p]) \/ archive' = "good"]_vars
  BY StepKeepsVerifiedParts
<1> QED
  BY <1>1, <1>2, <1>3, PTL DEF Spec, VerifiedPartsSurvive

-----------------------------------------------------------------------------
(* What is built is what the revision asks for.                             *)

Mine(r) == PatchAdds[r] \cup Overlay[r]

Preparing == {"extract", "extracting", "patch", "patching", "overlay"}

\* When nothing of an earlier run was left, nothing but the files of this revision
\* has been added, and no object file is there before the build.
NothingForeign ==
    pc \in Preparing \cup {"built"} =>
        /\ rev \in Revisions
        /\ ~leftover => /\ out = IF pc = "built" THEN {rev} ELSE {}
                        /\ \A f \in Files \ Mine(rev) : added[f] = None

\* The patches are applied when the overlays are copied, and every file of the
\* revision is its own or still to be copied.
FilesInPlace ==
    pc \in {"overlay", "built"} =>
        /\ base = rev
        /\ pc = "built" => todo = {}
        /\ \A f \in Mine(rev) \ todo : added[f] = rev

WorkspaceInv ==
    /\ added \in [Files -> Revisions \cup {None}]
    /\ pc = "overlay" => todo \subseteq Overlay[rev]
    /\ NothingForeign
    /\ FilesInPlace

\* Steps that only move files and threads of the cache, and end before the workspace
\* is touched.
LEMMA CacheStepKeepsWorkspace ==
    ASSUME WorkspaceInv, UNCHANGED <<rev, base, added, todo, out, leftover>>,
           pc' = pc \/ pc' \notin Preparing \cup {"built"}
    PROVE  WorkspaceInv'
  BY DEF WorkspaceInv, NothingForeign, FilesInPlace, Preparing

LEMMA MineAreFiles == \A r \in Revisions : Mine(r) \subseteq Files
  BY DEF Mine, Files

LEMMA StepKeepsWorkspaceInv == WorkspaceInv /\ [Next]_vars => WorkspaceInv'
<1> SUFFICES ASSUME WorkspaceInv, [Next]_vars PROVE WorkspaceInv'
  OBVIOUS
<1>0. added \in [Files -> Revisions \cup {None}]
  BY DEF WorkspaceInv
<1>1. ASSUME NEW a \in Assets, Attempt(a) PROVE WorkspaceInv'
  BY <1>1, CacheStepKeepsWorkspace DEF Attempt, workspace
<1>2. ASSUME NEW p \in Parts, StartPart(p) PROVE WorkspaceInv'
  BY <1>2, CacheStepKeepsWorkspace DEF StartPart, workspace
<1>3. CASE StartRun
  <2>1. added' = added /\ pc' \notin Preparing \cup {"built"}
    BY <1>3 DEF StartRun, Preparing
  <2> QED
    BY <1>0, <2>1 DEF WorkspaceInv, NothingForeign, FilesInPlace, Preparing
<1>4. CASE ManifestFetched \/ ManifestFailed \/ EnsureArchive \/ TakeResult
           \/ PartFailed \/ Drained
  BY <1>4, CacheStepKeepsWorkspace DEF ManifestFetched, ManifestFailed, EnsureArchive,
     TakeResult, PartFailed, Drained, EndRun, workspace, Preparing
<1>5. CASE StartAssembly \/ Assemble \/ AssemblyFailed \/ Publish \/ CleanUp
  BY <1>5, CacheStepKeepsWorkspace DEF StartAssembly, Assemble, AssemblyFailed, Publish,
     CleanUp, EndRun, workspace, Preparing
<1>6. CASE ClearWorkspace
  <2>1. added' \in [Files -> Revisions \cup {None}] /\ rev' \in Revisions
    BY <1>6 DEF ClearWorkspace
  <2>2. ~leftover' => out' = {} /\ added' = NothingAdded
    BY <1>6 DEF ClearWorkspace
  <2>3. pc' = "extract"
    BY <1>6 DEF ClearWorkspace
  <2> QED
    BY <2>1, <2>2, <2>3 DEF WorkspaceInv, NothingForeign, FilesInPlace, NothingAdded
<1>7. CASE StartExtract \/ Extract
  BY <1>7 DEF StartExtract, Extract, WorkspaceInv, NothingForeign, FilesInPlace, Preparing
<1>8. CASE StartPatch
  <2>1. PICK S \in SUBSET PatchAdds[rev] :
              added' = [f \in Files |-> IF f \in S THEN rev ELSE added[f]]
    BY <1>8 DEF StartPatch
  <2>2. rev \in Revisions /\ pc = "patch" /\ pc' = "patching"
        /\ rev' = rev /\ out' = out /\ leftover' = leftover
    BY <1>8 DEF StartPatch, WorkspaceInv, NothingForeign, Preparing
  <2>3. added' \in [Files -> Revisions \cup {None}]
    BY <1>0, <2>1, <2>2
  <2>4. \A f \in Files \ Mine(rev) : added'[f] = added[f]
    BY <2>1 DEF Mine
  <2>5. NothingForeign'
    BY <2>2, <2>4 DEF WorkspaceInv, NothingForeign, Preparing
  <2> QED
    BY <2>2, <2>3, <2>5 DEF WorkspaceInv, FilesInPlace
<1>9. CASE Patch
  <2>1. /\ added' = [f \in Files |-> IF f \in PatchAdds[rev] THEN rev ELSE added[f]]
        /\ base' = rev /\ todo' = Overlay[rev]
    BY <1>9 DEF Patch
  <2>2. rev \in Revisions /\ pc = "patching" /\ pc' = "overlay"
        /\ rev' = rev /\ out' = out /\ leftover' = leftover
    BY <1>9 DEF Patch, WorkspaceInv, NothingForeign, Preparing
  <2>3. added' \in [Files -> Revisions \cup {None}]
    BY <1>0, <2>1, <2>2
  <2>4. /\ \A f \in Files \ Mine(rev) : added'[f] = added[f]
        /\ \A f \in Mine(rev) \ Overlay[rev] : added'[f] = rev
    BY <2>1, <2>2, MineAreFiles DEF Mine
  <2>5. NothingForeign'
    BY <2>2, <2>4 DEF WorkspaceInv, NothingForeign, Preparing
  <2>6. FilesInPlace'
    BY <2>1, <2>2, <2>4 DEF FilesInPlace
  <2> QED
    BY <2>1, <2>2, <2>3, <2>5, <2>6 DEF WorkspaceInv
<1>10. ASSUME NEW g \in Files, CopyOverlay(g) PROVE WorkspaceInv'
  <2>1. /\ added' = [added EXCEPT ![g] = rev] /\ todo' = todo \ {g}
        /\ g \in todo /\ pc = "overlay" /\ pc' = pc
        /\ UNCHANGED <<rev, base, out, leftover>>
    BY <1>10 DEF CopyOverlay
  <2>2. rev \in Revisions /\ g \in Mine(rev)
    BY <2>1 DEF WorkspaceInv, NothingForeign, Preparing, Mine
  <2>3. added' \in [Files -> Revisions \cup {None}]
    BY <1>0, <2>1, <2>2
  <2>4. /\ added'[g] = rev
        /\ \A f \in Files : f # g => added'[f] = added[f]
    BY <1>0, <2>1
  <2>5. NothingForeign'
    BY <2>1, <2>2, <2>4 DEF WorkspaceInv, NothingForeign
  <2>6. FilesInPlace'
    BY <2>1, <2>2, <2>4, MineAreFiles DEF WorkspaceInv, FilesInPlace
  <2> QED
    BY <2>1, <2>3, <2>5, <2>6 DEF WorkspaceInv
<1>11. CASE PrepareFailed \/ Crash
  BY <1>11, CacheStepKeepsWorkspace DEF PrepareFailed, Crash, EndRun, workspace, Preparing
<1>12. CASE Build
  <2>1. CASE EndRun
    <3>1. pc' \notin Preparing \cup {"built"}
      BY <2>1 DEF EndRun, Preparing
    <3> QED
      BY <1>0, <1>12, <3>1 DEF Build, WorkspaceInv, NothingForeign, FilesInPlace, Preparing
  <2>2. CASE pc' = "built"
    <3>1. /\ pc = "overlay" /\ todo = {} /\ out' = out \cup {rev}
          /\ UNCHANGED <<rev, base, added, todo, leftover>>
      BY <1>12 DEF Build
    <3> QED
      BY <2>2, <3>1 DEF WorkspaceInv, NothingForeign, FilesInPlace, Preparing
  <2> QED
    BY <1>12, <2>1, <2>2 DEF Build
<1>13. CASE UNCHANGED vars
  BY <1>13, CacheStepKeepsWorkspace DEF vars, cache, workspace
<1> QED
  BY <1>1, <1>2, <1>3, <1>4, <1>5, <1>6, <1>7, <1>8, <1>9, <1>10, <1>11, <1>12, <1>13
  DEF Next, Run

\* Whatever was left behind by which revision, a build that ends holds the snapshot
\* with this revision's patches and overlays; and when rmtree left nothing behind, no
\* other file and no other object file (prepare_source, build_webrtc).
THEOREM SpecBuildsCurrentRevision == Spec => []BuildsCurrentRevision
<1>1. Init => WorkspaceInv
  BY DEF Init, WorkspaceInv, NothingForeign, FilesInPlace, NothingAdded, Preparing
<1>2. WorkspaceInv => BuildsCurrentRevision
  BY DEF WorkspaceInv, NothingForeign, FilesInPlace, BuildsCurrentRevision, Mine
<1> QED
  BY <1>1, <1>2, StepKeepsWorkspaceInv, PTL DEF Spec

-----------------------------------------------------------------------------
(* What a release hands out belongs together.  The gate reads metadata      *)
(* alone.  What makes that enough is that metadata cannot be attached to    *)
(* other slices than those it describes (ArchiveInv) and that the two       *)
(* slices of a composition are of one commit (ComposerInv), because the     *)
(* metadata names only the commit of the first.                             *)

\* A composition under way has read two packages of one commit.
ComposerInv == composer.pc # "idle" => Commit(composer.x64) = Commit(composer.arm64)

\* The metadata in an archive describes the slices beside it.
ArchiveInv ==
    xcframework # NoBuild =>
        /\ xcframework.metadata = Metadata(xcframework.x64, xcframework.arm64)
        /\ Commit(xcframework.x64) = Commit(xcframework.arm64)

CountersOK == releases \in [Platforms -> Nat]

GateInv == ComposerInv /\ ArchiveInv /\ CountersOK

-----------------------------------------------------------------------------

\* Initially there is neither a composition nor an archive.
LEMMA InitGateInv == GateInit => GateInv
  BY DEF GateInit, GateInv, ComposerInv, ArchiveInv, CountersOK, Idle

\* A step of compose_macos_xcframework keeps the invariant.
LEMMA ComposeKeepsGateInv ==
    ASSUME GateInv,
           StartComposition \/ WriteSidecar \/ DeleteArchive \/ Zip \/ CompositionStops
    PROVE  GateInv'
<1> USE DEF GateInv, ComposerInv, ArchiveInv, CountersOK
<1>1. CASE StartComposition
  <2>1. Commit(package[X64]) = Commit(package[Arm64])
    BY <1>1 DEF StartComposition, Composable
  <2>2. ComposerInv'
    BY <1>1, <2>1 DEF StartComposition, Commit
  <2> QED BY <1>1, <2>2 DEF StartComposition, Commit, Metadata
<1>2. CASE WriteSidecar
  BY <1>2 DEF WriteSidecar, Commit, Metadata
<1>3. CASE DeleteArchive
  BY <1>3 DEF DeleteArchive, Commit, Metadata
<1>4. CASE Zip
  <2>1. Commit(composer.x64) = Commit(composer.arm64)
    BY <1>4 DEF Zip
  <2>2. ArchiveInv'
    BY <1>4, <2>1 DEF Zip, Commit, Metadata
  <2> QED BY <1>4, <2>2 DEF Zip, Idle
<1>5. CASE CompositionStops
  BY <1>5 DEF CompositionStops, Idle, Commit, Metadata
<1> QED BY <1>1, <1>2, <1>3, <1>4, <1>5

\* A release counts one platform up and touches no file.
LEMMA PublishCounts ==
    ASSUME CountersOK, NEW platform \in Platforms, PublishRelease(platform)
    PROVE  /\ CountersOK'
           /\ \A p \in Platforms : releases'[p] # releases[p] => p = platform
  BY DEF CountersOK, PublishRelease

\* The invariant is inductive: no other step touches compositions and archives.
LEMMA NextKeepsGateInv == ASSUME GateInv, [GateNext]_gateVars PROVE GateInv'
<1> USE DEF GateInv, ComposerInv, ArchiveInv
<1>1. CASE StartComposition \/ WriteSidecar \/ DeleteArchive \/ Zip \/ CompositionStops
  BY <1>1, ComposeKeepsGateInv
<1>2. CASE UNCHANGED <<xcframework, composer>> /\ UNCHANGED releases
  BY <1>2 DEF CountersOK, Commit, Metadata
<1>3. CASE \E p \in Platforms : PublishRelease(p)
  <2>1. PICK p \in Platforms : PublishRelease(p)
    BY <1>3
  <2>2. CountersOK'
    BY <2>1, PublishCounts
  <2>3. UNCHANGED <<xcframework, composer>>
    BY <2>1 DEF PublishRelease, macos
  <2> QED BY <2>2, <2>3 DEF Commit, Metadata
<1>4. CASE \/ \E b \in Builds["android"] : PackageAar(b)
           \/ PackageAndroid \/ PackageStops
           \/ \E t \in All \ {"android"} : \E b \in Builds[t] : Package(t, b)
           \/ SmokeTest \/ Probe \/ UNCHANGED gateVars
  <2>1. UNCHANGED <<xcframework, composer>> /\ UNCHANGED releases
    BY <1>4 DEF PackageAar, PackageAndroid, PackageStops, Package, SmokeTest, Probe,
                macos, gateVars
  <2> QED BY <1>2, <2>1
<1>5. CASE \E r \in Commits : PublishStable(r) \/ PublishPreview(r)
  BY <1>3, <1>5 DEF PublishStable, PublishPreview, Platforms
<1> QED BY <1>1, <1>4, <1>5 DEF GateNext

\* The invariant holds throughout.
LEMMA SpecGateInv == GateSpec => []GateInv
<1>1. GateInv /\ [GateNext]_gateVars => GateInv'
  BY NextKeepsGateInv
<1> QED BY InitGateInv, <1>1, PTL DEF GateSpec

-----------------------------------------------------------------------------

\* Equal metadata means equal commits, of both slices.
LEMMA VerifiedCommits ==
    ASSUME ArchiveInv, XcframeworkVerified
    PROVE  /\ Commit(xcframework.x64) = Commit(package[X64])
           /\ Commit(xcframework.arm64) = Commit(package[Arm64])
<1>1. Metadata(xcframework.x64, xcframework.arm64) = Metadata(package[X64], package[Arm64])
  BY DEF ArchiveInv, XcframeworkVerified, ProvenanceMatches
<1>2. Commit(xcframework.x64) = Commit(package[X64])
  BY <1>1 DEF Metadata
<1> QED BY <1>2 DEF ArchiveInv, XcframeworkVerified, ProvenanceMatches

\* Every release was validated by the builder of some commit.
LEMMA ReleaseIsValidated ==
    ASSUME GateInv, [GateNext]_gateVars, NEW p \in Platforms,
           releases'[p] # releases[p]
    PROVE  \E r \in Commits :
             /\ PackagesCompatible(r, IF p = "all" THEN All ELSE Preview)
             /\ AarVerified /\ XcframeworkVerified
<1>1. PICK r \in Commits : PublishStable(r) \/ PublishPreview(r)
  <2>1. ~(UNCHANGED releases)
    OBVIOUS
  <2> QED BY <2>1 DEF GateNext, gateVars, PackageAar, PackageAndroid, PackageStops, Package,
             StartComposition, WriteSidecar, DeleteArchive, Zip, CompositionStops,
             SmokeTest, Probe
<1>2. CASE PublishStable(r)
  <2>1. p = "all"
    BY <1>2, PublishCounts DEF PublishStable, Platforms, GateInv
  <2> QED BY <1>2, <2>1 DEF PublishStable
<1>3. CASE PublishPreview(r)
  <2>1. p = "macos-android"
    BY <1>3, PublishCounts DEF PublishPreview, Platforms, GateInv
  <2> QED BY <1>3, <2>1 DEF PublishPreview
<1> QED BY <1>1, <1>2, <1>3

\* The slices of a released XCFramework are of the commit of the packages beside it.
THEOREM SpecFrameworkOfItsPackages == GateSpec => FrameworkOfItsPackages
<1>1. ASSUME GateInv, [GateNext]_gateVars, releases' # releases
      PROVE  /\ Commit(xcframework.x64) = Commit(package[X64])
             /\ Commit(xcframework.arm64) = Commit(package[Arm64])
  <2>1. XcframeworkVerified
    BY <1>1 DEF GateNext, gateVars, PackageAar, PackageAndroid, PackageStops, Package,
       StartComposition, WriteSidecar, DeleteArchive, Zip, CompositionStops,
       SmokeTest, Probe, PublishStable, PublishPreview
  <2> QED BY <1>1, <2>1, VerifiedCommits DEF GateInv
<1>2. GateInv /\ [GateNext]_gateVars =>
        [releases' # releases =>
          /\ Commit(xcframework.x64) = Commit(package[X64])
          /\ Commit(xcframework.arm64) = Commit(package[Arm64])]_gateVars
  BY <1>1
<1> QED BY <1>2, SpecGateInv, PTL DEF GateSpec, FrameworkOfItsPackages

\* Packages, AAR and slices of a release were built for one source and configuration.
THEOREM SpecReleaseOfOneSource == GateSpec => ReleaseOfOneSource
<1> DEFINE Targets(p) == IF p = "all" THEN All ELSE Preview
           OneSource(p) ==
             \E c \in {Config[r] : r \in Commits} :
                 /\ \A t \in IF p = "all" THEN All ELSE Preview :
                       Config[Commit(package[t])] = c
                 /\ \A b \in {aar, xcframework.x64, xcframework.arm64} :
                       Config[Commit(b)] = c
<1>1. ASSUME GateInv, [GateNext]_gateVars, NEW p \in Platforms,
             releases'[p] # releases[p]
      PROVE  OneSource(p)
  <2>1. PICK r \in Commits : /\ PackagesCompatible(r, Targets(p))
                             /\ AarVerified /\ XcframeworkVerified
    BY <1>1, ReleaseIsValidated
  <2>2. \A t \in Targets(p) : Config[Commit(package[t])] = Config[r]
    BY <2>1 DEF PackagesCompatible, Loads
  <2>3. "android" \in Targets(p) /\ X64 \in Targets(p) /\ Arm64 \in Targets(p)
    BY DEF All, Preview
  <2>4. Config[Commit(aar)] = Config[r]
    BY <2>1, <2>2, <2>3 DEF AarVerified
  <2>5. /\ Config[Commit(xcframework.x64)] = Config[r]
        /\ Config[Commit(xcframework.arm64)] = Config[r]
    BY <1>1, <2>1, <2>2, <2>3, VerifiedCommits DEF GateInv
  <2> QED BY <2>2, <2>4, <2>5
<1>2. GateInv /\ [GateNext]_gateVars =>
        [\A p \in Platforms : releases'[p] # releases[p] => OneSource(p)]_gateVars
  BY <1>1
<1> QED BY <1>2, SpecGateInv, PTL DEF GateSpec, ReleaseOfOneSource

\* What a preview calls tested was tested.
THEOREM SpecEvidenceOfTheRelease == GateSpec => EvidenceOfTheRelease
<1>1. ASSUME GateInv, [GateNext]_gateVars,
             releases'["macos-android"] # releases["macos-android"]
      PROVE  smoke.aar = package["android"] /\ Commit(probe) = Commit(xcframework.arm64)
  <2>1. PICK r \in Commits : PublishStable(r) \/ PublishPreview(r)
    BY <1>1 DEF GateNext, gateVars, PackageAar, PackageAndroid, PackageStops, Package,
       StartComposition, WriteSidecar, DeleteArchive, Zip, CompositionStops,
       SmokeTest, Probe
  <2>2. ~PublishStable(r)
    BY <1>1, PublishCounts DEF PublishStable, Platforms, GateInv
  <2>3. AarVerified /\ XcframeworkVerified /\ EvidenceVerified
    BY <2>1, <2>2 DEF PublishPreview
  <2> QED BY <1>1, <2>3, VerifiedCommits DEF GateInv, AarVerified, EvidenceVerified
<1>2. GateInv /\ [GateNext]_gateVars =>
        [releases'["macos-android"] # releases["macos-android"] =>
          /\ smoke.aar = package["android"]
          /\ Commit(probe) = Commit(xcframework.arm64)]_gateVars
  BY <1>1
<1> QED BY <1>2, SpecGateInv, PTL DEF GateSpec, EvidenceOfTheRelease
=============================================================================
