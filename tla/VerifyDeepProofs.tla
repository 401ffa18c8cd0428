--------------------------- MODULE VerifyDeepProofs ---------------------------
(***************************************************************************)
(* Theorems about VerifyDeep, for every set of projects and digests and any *)
(* number of commands and faults: what is reported valid is consistent,    *)
(* although the reads of a verification see different moments; and what    *)
(* was frozen and answered is reported valid.                              *)
(*                                                                         *)
(* What makes it so: a frozen project keeps its revision, content and      *)
(* package, nobody touches a package file that is whole, and nothing more  *)
(* is appended to the events of a frozen project.                          *)
(***************************************************************************)
EXTENDS VerifyDeep, FileStoreProofs, WellFoundedInduction

-----------------------------------------------------------------------------
(* Names. *)

\* A package file is named after its content, and what a project is frozen with
\* or about to be frozen with is the package of that project and of its content,
\* made from the revision before.
NameInv ==
    /\ \A d \in Digests : \A g \in packagesOnDisk[d] : g \in Package => g.content = d
    /\ \A p \in Projects : \A e \in envelopesOnDisk[p] :
          e # NoFile /\ e.package # NoPackage =>
              /\ e.package.project = p /\ e.package.content = e.content
              /\ e.revision = e.package.source + 1
    /\ Putting /\ work.envelope.package # NoPackage =>
          /\ work.envelope.package.project = work.project
          /\ work.envelope.package.content = work.envelope.content
          /\ work.envelope.revision = work.envelope.package.source + 1
    /\ Saving => work.package.source = envelopes[work.project].revision
    /\ \A p \in Projects : approved[p] # NoPackage =>
          /\ approved[p].project = p /\ approved[p].content = envelopes[p].content
          /\ approved[p].source = envelopes[p].revision

LEMMA InitName == Init => NameInv
  BY SentinelAssumption DEF Init, NameInv, Putting, Saving

LEMMA NameStep == TypeInv /\ StoreInv /\ OwnInv /\ NameInv /\ [Next]_vars => NameInv'
<1> SUFFICES ASSUME TypeInv, StoreInv, OwnInv, NameInv, [Next]_vars
             PROVE  NameInv'
  OBVIOUS
<1> USE SentinelAssumption
<1>0. TypeOK /\ WorkInv /\ ApprovedInv
  BY DEF TypeInv
<1>1. ASSUME UNCHANGED <<envelopes, envelopesOnDisk, packagesOnDisk, approved>>,
             Putting' => Putting /\ work' = work, Saving' => Saving /\ work' = work
      PROVE  NameInv'
  BY <1>1 DEF NameInv
<1>2. ASSUME NEW p \in Projects, CommitEdit(p)
      PROVE  NameInv'
  <2>1. UNCHANGED <<envelopes, envelopesOnDisk, packagesOnDisk, approved>> /\ ~Saving'
    BY <1>2 DEF CommitEdit, Begin, files, projectFiles, packageFiles, Saving
  <2>2. PICK d \in Digests :
           \/ Begin([kind |-> "commit", project |-> p,
                     envelope |-> [revision |-> 1, content |-> d, package |-> NoPackage,
                                   failed |-> 0]], "creating")
           \/ /\ envelopes[p] \in Envelope
              /\ envelopes[p].package = NoPackage
              /\ Begin([kind |-> "commit", project |-> p,
                        envelope |-> [envelopes[p] EXCEPT !.revision = @ + 1, !.content = d]],
                       "creating")
    BY <1>2, Zenon DEF CommitEdit
  <2>3. work'.envelope.package = NoPackage
    <3>1. CASE Begin([kind |-> "commit", project |-> p,
                      envelope |-> [revision |-> 1, content |-> d, package |-> NoPackage,
                                    failed |-> 0]], "creating")
      BY <3>1 DEF Begin
    <3>2. CASE /\ envelopes[p] \in Envelope
               /\ envelopes[p].package = NoPackage
               /\ work'.envelope = [envelopes[p] EXCEPT !.revision = @ + 1, !.content = d]
      <4> DEFINE f == [envelopes[p] EXCEPT !.revision = @ + 1]
      <4>1. f \in Envelope /\ f.package = NoPackage
        BY <3>2 DEF Envelope
      <4>2. [f EXCEPT !.content = d].package = NoPackage
        BY <4>1 DEF Envelope
      <4> QED BY <3>2, <4>2
    <3> QED BY <2>2, <3>1, <3>2 DEF Begin
  <2> QED BY <2>1, <2>3 DEF NameInv
<1>3. ASSUME NEW p \in Projects, SaveRequest(p)
      PROVE  NameInv'
  <2>1. /\ UNCHANGED <<envelopes, envelopesOnDisk, packagesOnDisk, approved>> /\ work'.project = p
        /\ envelopes[p] \in Envelope /\ work'.envelope = [envelopes[p] EXCEPT !.failed = @ + 1]
        /\ ~Saving'
    BY <1>3 DEF SaveRequest, Begin, files, projectFiles, packageFiles, Saving
  <2>2. /\ work'.envelope.package = envelopes[p].package
        /\ work'.envelope.revision = envelopes[p].revision
        /\ work'.envelope.content = envelopes[p].content /\ envelopes[p] \in envelopesOnDisk[p]
    BY <2>1 DEF Envelope, StoreInv
  <2> QED BY <2>1, <2>2 DEF NameInv
<1>4. ASSUME NEW p \in Projects, SavePackage(p)
      PROVE  NameInv'
  <2>1. /\ UNCHANGED <<envelopes, envelopesOnDisk, packagesOnDisk, approved>> /\ step' = "opening"
        /\ work'.project = p /\ work'.package.source = envelopes[p].revision
    BY <1>4 DEF SavePackage, Begin, files, projectFiles, packageFiles
  <2> QED BY <2>1 DEF NameInv, Putting
<1>5. ASSUME NEW p \in Projects, CommitFreeze(p)
      PROVE  NameInv'
  <2>1. /\ UNCHANGED <<envelopes, envelopesOnDisk, packagesOnDisk>> /\ work'.project = p
        /\ work'.envelope = [envelopes[p] EXCEPT !.revision = @ + 1, !.package = approved[p]]
        /\ approved[p] # NoPackage /\ approved' = [approved EXCEPT ![p] = NoPackage] /\ ~Saving'
    BY <1>5 DEF CommitFreeze, Begin, files, projectFiles, packageFiles, Saving
  <2>2. envelopes[p] \in Envelope
    BY <1>0, <2>1 DEF ApprovedInv
  <2>3. /\ work'.envelope.package = approved[p] /\ work'.envelope.content = envelopes[p].content
        /\ work'.envelope.revision = envelopes[p].revision + 1
    <3> DEFINE f == [envelopes[p] EXCEPT !.revision = @ + 1]
    <3>1. /\ f \in Envelope /\ f.content = envelopes[p].content
          /\ f.revision = envelopes[p].revision + 1
      BY <2>2 DEF Envelope
    <3>2. /\ [f EXCEPT !.package = approved[p]].package = approved[p]
          /\ [f EXCEPT !.package = approved[p]].content = f.content
          /\ [f EXCEPT !.package = approved[p]].revision = f.revision
      BY <3>1 DEF Envelope
    <3> QED BY <2>1, <3>1, <3>2
  <2>4. \A q \in Projects : approved'[q] # NoPackage => approved'[q] = approved[q]
    BY <1>0, <2>1 DEF TypeOK
  <2> QED BY <2>1, <2>3, <2>4 DEF NameInv
<1>6. ASSUME NEW p \in Projects, AbandonFreeze(p)
      PROVE  NameInv'
  <2>1. /\ UNCHANGED <<envelopes, envelopesOnDisk, packagesOnDisk, work, step>>
        /\ approved' = [approved EXCEPT ![p] = NoPackage]
    BY <1>6 DEF AbandonFreeze, files, projectFiles, packageFiles
  <2>2. \A q \in Projects : approved'[q] # NoPackage => approved'[q] = approved[q]
    BY <1>0, <2>1 DEF TypeOK
  <2> QED BY <2>1, <2>2 DEF NameInv, Putting, Saving
<1>7. CASE CreateTemp \/ WriteTemp \/ SyncTemp
  <2>1. UNCHANGED <<envelopes, envelopesOnDisk, packagesOnDisk, approved>>
    BY <1>7 DEF CreateTemp, WriteTemp, SyncTemp, GiveUp, projectFiles, packageFiles
  <2>2. (Putting' => Putting /\ work' = work) /\ ~Saving'
    BY <1>7 DEF CreateTemp, WriteTemp, SyncTemp, GiveUp, Return, Continue, Putting, Saving
  <2> QED BY <1>1, <2>1, <2>2
<1>8. CASE RenameTemp
  <2>1. UNCHANGED <<packagesOnDisk, approved>> /\ ~Putting' /\ ~Saving'
    BY <1>8 DEF RenameTemp, GiveUp, Return, Continue, packageFiles, Putting, Saving
  <2>2. /\ Putting /\ work \in Work /\ work.kind \in {"commit", "request"}
        /\ temp.synced /\ temp.content = work.envelope
    BY <1>0, <1>8 DEF RenameTemp, WorkInv, Putting, TypeOK
  <2>3. work.project \in Projects
    BY <2>2, WorkKinds
  <2>4. \A p \in Projects : \A e \in envelopesOnDisk'[p] :
           e \in envelopesOnDisk[p] \/ (p = work.project /\ e = work.envelope)
    <3>1. ASSUME NEW p \in Projects, NEW e \in envelopesOnDisk'[p],
                 envelopesOnDisk' = [envelopesOnDisk EXCEPT ![work.project] =
                     @ \cup {temp.content} \cup (IF temp.synced THEN {} ELSE {Torn})]
          PROVE  e \in envelopesOnDisk[p] \/ (p = work.project /\ e = work.envelope)
      BY <1>0, <2>2, <2>3, <3>1 DEF TypeOK
    <3> QED BY <1>8, <3>1 DEF RenameTemp, GiveUp, projectFiles
  <2>5. \A p \in Projects : approved[p] # NoPackage => envelopes'[p] = envelopes[p]
    <3>1. \A p \in Projects : approved[p] # NoPackage => work.project # p
      BY <1>0, <2>2 DEF ApprovedInv, Putting
    <3> QED BY <1>0, <1>8, <3>1 DEF RenameTemp, GiveUp, projectFiles, TypeOK
  <2> QED BY <2>1, <2>2, <2>4, <2>5 DEF NameInv
<1>9. CASE SyncProjects
  <2>1. UNCHANGED <<envelopes, packagesOnDisk, approved>> /\ ~Putting' /\ ~Saving'
    BY <1>9 DEF SyncProjects, Return, packageFiles, Putting, Saving
  <2>2. \A p \in Projects : envelopesOnDisk'[p] \subseteq envelopesOnDisk[p]
    BY <1>9 DEF SyncProjects, StoreInv
  <2> QED BY <2>1, <2>2 DEF NameInv
<1>10. CASE WriteFrame \/ SyncFrame
  <2>1. UNCHANGED <<envelopes, envelopesOnDisk, packagesOnDisk, approved>> /\ ~Putting' /\ ~Saving'
    BY <1>10 DEF WriteFrame, SyncFrame, Return, Continue, projectFiles, packageFiles, Putting, Saving
  <2> QED BY <1>1, <2>1
<1>11. CASE OpenPackage \/ WritePackage \/ SyncPackage \/ SyncPackages
  <2>1. Saving /\ work \in Work /\ work.kind = "package"
    BY <1>0, <1>11 DEF OpenPackage, WritePackage, SyncPackage, SyncPackages, WorkInv, Saving, TypeOK
  <2>2. work.project \in Projects /\ work.package \in Package /\ Digest \in Digests
    BY <2>1, WorkKinds DEF Digest, Package
  <2>3. UNCHANGED <<envelopes, envelopesOnDisk>> /\ ~Putting' /\ (Saving' => work' = work)
    BY <1>11 DEF OpenPackage, WritePackage, SyncPackage, SyncPackages, RemovePackage,
                 Return, Continue, projectFiles, Putting, Saving
  <2>4. \A p \in Projects : approved'[p] # NoPackage =>
           approved'[p] = approved[p] \/ (p = work.project /\ approved'[p] = work.package)
    <3>1. UNCHANGED approved \/ Approve
      BY <1>11 DEF OpenPackage, WritePackage, SyncPackage, SyncPackages, RemovePackage
    <3> QED BY <1>0, <2>2, <3>1 DEF Approve, TypeOK
  <2>5. \A p \in Projects : approved'[p] # NoPackage =>
           /\ approved'[p].project = p /\ approved'[p].content = envelopes'[p].content
           /\ approved'[p].source = envelopes'[p].revision
    BY <2>1, <2>3, <2>4 DEF NameInv, OwnInv
  <2>6. \A d \in Digests : \A g \in packagesOnDisk'[d] : g \in Package =>
           g \in packagesOnDisk[d] \/ (d = work.package.content /\ g = work.package)
    <3>1. CASE UNCHANGED packagesOnDisk
      BY <3>1
    <3>2. ASSUME NEW c \in {NoFile, Torn, work.package}, MayHold(c)
          PROVE  \A d \in Digests : \A g \in packagesOnDisk'[d] : g \in Package =>
                    g \in packagesOnDisk[d] \/ (d = work.package.content /\ g = work.package)
      BY <1>0, <2>2, <3>2 DEF MayHold, Digest, TypeOK
    <3>3. ASSUME packagesOnDisk' = [d \in Digests |-> Settled(d)]
          PROVE  \A d \in Digests : \A g \in packagesOnDisk'[d] : g \in Package =>
                    g \in packagesOnDisk[d] \/ (d = work.package.content /\ g = work.package)
      BY <3>3 DEF Settled, OwnInv
    <3> QED BY <1>11, <3>1, <3>2, <3>3
            DEF OpenPackage, WritePackage, SyncPackage, SyncPackages, RemovePackage, packageFiles
  <2> QED BY <2>1, <2>3, <2>5, <2>6 DEF NameInv
<1>12. CASE Kill
  <2>1. /\ UNCHANGED <<envelopes, envelopesOnDisk, packagesOnDisk>> /\ ~Putting' /\ ~Saving'
        /\ approved' = [p \in Projects |-> NoPackage]
    BY <1>12 DEF Kill, Stop, packageFiles, Putting, Saving
  <2> QED BY <2>1 DEF NameInv
<1>13. CASE PowerFailure
  <2>1. ~Putting' /\ ~Saving' /\ approved' = [p \in Projects |-> NoPackage]
    BY <1>13 DEF PowerFailure, Stop, Putting, Saving
  <2>2. \A p \in Projects : envelopesOnDisk'[p] \subseteq envelopesOnDisk[p]
    BY <1>13 DEF PowerFailure
  <2>3. \A d \in Digests : packagesOnDisk'[d] \subseteq packagesOnDisk[d]
    BY <1>13 DEF PowerFailure
  <2> QED BY <2>1, <2>2, <2>3 DEF NameInv
<1>14. CASE Start \/ UNCHANGED vars
  <2>1. UNCHANGED <<envelopes, envelopesOnDisk, packagesOnDisk, approved, work, step>>
    BY <1>14 DEF Start, vars, files, projectFiles, packageFiles
  <2> QED BY <1>1, <2>1 DEF Putting, Saving
<1> QED BY <1>2, <1>3, <1>4, <1>5, <1>6, <1>7, <1>8, <1>9, <1>10, <1>11, <1>12, <1>13, <1>14
        DEF Next

-----------------------------------------------------------------------------
(* What lasts while the process runs. *)

\* A frozen project stays at its revision, with its content and its package.
LEMMA FrozenStays ==
    ASSUME TypeInv, StoreInv, [Next]_vars, running', NEW p \in Projects,
           envelopes[p] \in Envelope
    PROVE  /\ envelopes'[p] \in Envelope
           /\ envelopes[p].package # NoPackage =>
                 /\ envelopes'[p].package = envelopes[p].package
                 /\ envelopes'[p].content = envelopes[p].content
                 /\ envelopes'[p].revision = envelopes[p].revision
<1> USE SentinelAssumption
<1>0. TypeOK /\ WorkInv /\ ApprovedInv
  BY DEF TypeInv
<1>1. CASE UNCHANGED envelopes
  BY <1>1
<1>2. CASE RenameTemp
  <2>1. /\ step = "renaming" /\ work \in Work /\ work.kind \in {"commit", "request"}
        /\ temp.content = work.envelope
    BY <1>0, <1>2 DEF RenameTemp, WorkInv, TypeOK
  <2>2. work.project \in Projects /\ work.envelope \in Envelope
    BY <2>1, WorkKinds
  <2>3. Atomic!Succeeds(work.envelope, envelopes[work.project])
    BY <2>1 DEF StoreInv
  <2>4. UNCHANGED envelopes \/ envelopes' = [envelopes EXCEPT ![work.project] = work.envelope]
    BY <1>2, <2>1 DEF RenameTemp, GiveUp, projectFiles
  <2>5. ASSUME p = work.project, envelopes' = [envelopes EXCEPT ![work.project] = work.envelope],
               envelopes[p].package # NoPackage
        PROVE  work.envelope = [envelopes[p] EXCEPT !.failed = @ + 1]
    BY <2>3, <2>5 DEF Atomic!Succeeds
  <2>6. work.envelope = [envelopes[p] EXCEPT !.failed = @ + 1] =>
           /\ work.envelope.package = envelopes[p].package
           /\ work.envelope.content = envelopes[p].content
           /\ work.envelope.revision = envelopes[p].revision
    BY DEF Envelope
  <2> QED BY <1>0, <1>1, <2>2, <2>4, <2>5, <2>6 DEF TypeOK
<1>3. ASSUME NEW q \in Projects, \/ CommitEdit(q) \/ SaveRequest(q) \/ SavePackage(q)
                                 \/ CommitFreeze(q) \/ AbandonFreeze(q)
      PROVE  UNCHANGED envelopes
  BY <1>3 DEF CommitEdit, SaveRequest, SavePackage, CommitFreeze, AbandonFreeze, files, projectFiles
<1>4. CASE CreateTemp \/ WriteTemp \/ SyncTemp \/ SyncProjects \/ WriteFrame \/ SyncFrame
  BY <1>1, <1>4 DEF CreateTemp, WriteTemp, SyncTemp, SyncProjects, WriteFrame, SyncFrame, GiveUp,
                    projectFiles
<1>5. CASE OpenPackage \/ WritePackage \/ SyncPackage \/ SyncPackages
  BY <1>1, <1>5 DEF OpenPackage, WritePackage, SyncPackage, SyncPackages, projectFiles
<1>6. CASE Kill \/ PowerFailure
  BY <1>6 DEF Kill, PowerFailure, Stop
<1>7. CASE Start \/ UNCHANGED vars
  BY <1>1, <1>7 DEF Start, vars, files, projectFiles
<1> QED BY <1>1, <1>2, <1>3, <1>4, <1>5, <1>6, <1>7 DEF Next

\* No call is at work on this package file.
Finished(d) == ~(Filling /\ work.package.content = d)

\* A package file that is whole stays as it is.
LEMMA PackageStays ==
    ASSUME TypeInv, [Next]_vars, running', NEW d \in Digests,
           packages[d] \in Package, Finished(d)
    PROVE  packages'[d] = packages[d] /\ Finished(d)'
<1> USE SentinelAssumption
<1>0. TypeOK /\ WorkInv /\ ApprovedInv
  BY DEF TypeInv
<1>1. ASSUME UNCHANGED packages, Filling' => Filling /\ work' = work
      PROVE  packages'[d] = packages[d] /\ Finished(d)'
  BY <1>1 DEF Finished
<1>2. ASSUME NEW q \in Projects, \/ CommitEdit(q) \/ SaveRequest(q) \/ SavePackage(q)
                                 \/ CommitFreeze(q) \/ AbandonFreeze(q)
      PROVE  UNCHANGED packages /\ (Filling' => Filling /\ work' = work)
  BY <1>2 DEF CommitEdit, SaveRequest, SavePackage, CommitFreeze, AbandonFreeze, Begin, files,
              packageFiles, Filling
<1>3. CASE CreateTemp \/ WriteTemp \/ SyncTemp \/ RenameTemp
  <2>1. UNCHANGED packages /\ ~Filling'
    BY <1>3 DEF CreateTemp, WriteTemp, SyncTemp, RenameTemp, GiveUp, Return, Continue,
                packageFiles, Filling
  <2> QED BY <1>1, <2>1
<1>4. CASE SyncProjects \/ WriteFrame \/ SyncFrame
  <2>1. UNCHANGED packages /\ ~Filling'
    BY <1>4 DEF SyncProjects, WriteFrame, SyncFrame, Return, Continue, packageFiles, Filling
  <2> QED BY <1>1, <2>1
<1>5. CASE OpenPackage
  <2>1. \/ UNCHANGED packages /\ ~Filling'
        \/ packages[Digest] = NoFile /\ Holds(Torn) /\ work' = work
    BY <1>5 DEF OpenPackage, Return, Continue, packageFiles, Filling
  <2>2. ASSUME packages[Digest] = NoFile, Holds(Torn), work' = work
        PROVE  packages'[d] = packages[d] /\ Finished(d)'
    BY <1>0, <2>2 DEF Holds, Digest, Finished, TypeOK
  <2> QED BY <1>1, <2>1, <2>2
<1>6. CASE WritePackage \/ SyncPackage \/ SyncPackages
  <2>1. Filling /\ Digest # d
    BY <1>6 DEF WritePackage, SyncPackage, SyncPackages, Filling, Finished, Digest
  <2>2. \/ UNCHANGED packages
        \/ Holds(work.package) \/ Holds(NoFile)
    BY <1>6 DEF WritePackage, SyncPackage, SyncPackages, RemovePackage, packageFiles
  <2>3. Filling' => work' = work
    BY <1>6 DEF WritePackage, SyncPackage, SyncPackages, RemovePackage, Return, Continue, Filling
  <2> QED BY <1>0, <2>1, <2>2, <2>3 DEF Holds, Digest, Finished, TypeOK
<1>7. CASE Kill \/ PowerFailure
  BY <1>7 DEF Kill, PowerFailure, Stop
<1>8. CASE Start \/ UNCHANGED vars
  BY <1>1, <1>8 DEF Start, vars, files, packageFiles, Filling
<1> QED BY <1>1, <1>2, <1>3, <1>4, <1>5, <1>6, <1>7, <1>8 DEF Next

\* No commit of this project is at work.
Quiet(p) == step # "idle" /\ work.project = p => work.kind # "commit"

\* The events of a frozen project stay as they are.
LEMMA EventsStay ==
    ASSUME TypeInv, [Next]_vars, running', NEW p \in Projects, Frozen(p), Quiet(p)
    PROVE  frames'[p] = frames[p] /\ Quiet(p)'
<1> USE SentinelAssumption
<1>0. TypeOK /\ WorkInv /\ ApprovedInv
  BY DEF TypeInv
<1>1. ASSUME UNCHANGED frames, step' # "idle" => step # "idle" /\ work' = work
      PROVE  frames'[p] = frames[p] /\ Quiet(p)'
  BY <1>1 DEF Quiet
<1>2. ASSUME NEW q \in Projects, CommitEdit(q)
      PROVE  frames'[p] = frames[p] /\ Quiet(p)'
  <2>1. UNCHANGED frames /\ work'.project = q /\ q # p
    BY <1>2 DEF CommitEdit, Begin, files, eventFiles, Frozen
  <2> QED BY <2>1 DEF Quiet
<1>3. ASSUME NEW q \in Projects, SaveRequest(q) \/ SavePackage(q)
      PROVE  frames'[p] = frames[p] /\ Quiet(p)'
  <2>1. SaveRequest(q) => UNCHANGED frames /\ work'.kind = "request"
    BY DEF SaveRequest, Begin, files, eventFiles
  <2>2. SavePackage(q) => UNCHANGED frames /\ work'.kind = "package"
    BY DEF SavePackage, Begin, files, eventFiles
  <2> QED BY <1>3, <2>1, <2>2 DEF Quiet
<1>4. ASSUME NEW q \in Projects, CommitFreeze(q)
      PROVE  frames'[p] = frames[p] /\ Quiet(p)'
  <2>1. UNCHANGED frames /\ work'.project = q /\ approved[q] # NoPackage
    BY <1>4 DEF CommitFreeze, Begin, files, eventFiles
  <2>2. q # p
    BY <1>0, <2>1 DEF ApprovedInv, Frozen
  <2> QED BY <2>1, <2>2 DEF Quiet
<1>5. ASSUME NEW q \in Projects, AbandonFreeze(q)
      PROVE  frames'[p] = frames[p] /\ Quiet(p)'
  BY <1>1, <1>5 DEF AbandonFreeze, files, eventFiles
<1>6. CASE CreateTemp \/ WriteTemp \/ SyncTemp \/ RenameTemp
  <2>1. UNCHANGED frames /\ (step' # "idle" => step # "idle" /\ work' = work)
    BY <1>6 DEF CreateTemp, WriteTemp, SyncTemp, RenameTemp, GiveUp, Return, Continue, eventFiles
  <2> QED BY <1>1, <2>1
<1>7. CASE SyncProjects
  <2>1. UNCHANGED frames /\ (step' # "idle" => step # "idle" /\ work' = work)
    BY <1>7 DEF SyncProjects, Return, eventFiles
  <2> QED BY <1>1, <2>1
<1>8. CASE WriteFrame \/ SyncFrame
  <2>1. step # "idle" /\ work.kind = "commit" /\ work.project # p
    BY <1>0, <1>8 DEF WriteFrame, SyncFrame, WorkInv, Quiet
  <2>2. \/ UNCHANGED frames
        \/ \E l : frames' = [frames EXCEPT ![work.project] = Append(@, l)]
    <3>1. CASE WriteFrame
      BY <3>1, Zenon DEF WriteFrame, AppendCut
    <3>2. CASE SyncFrame
      BY <3>2 DEF SyncFrame
    <3> QED BY <1>8, <3>1, <3>2
  <2>3. frames'[p] = frames[p]
    BY <1>0, <2>1, <2>2 DEF TypeOK
  <2>4. step' # "idle" => work' = work
    BY <1>8 DEF WriteFrame, SyncFrame, Return, Continue
  <2> QED BY <2>1, <2>3, <2>4 DEF Quiet
<1>9. CASE OpenPackage \/ WritePackage \/ SyncPackage \/ SyncPackages
  <2>1. UNCHANGED frames /\ (step' # "idle" => step # "idle" /\ work' = work)
    BY <1>9 DEF OpenPackage, WritePackage, SyncPackage, SyncPackages, RemovePackage, Return,
                Continue, eventFiles
  <2> QED BY <1>1, <2>1
<1>10. CASE Kill \/ PowerFailure
  BY <1>10 DEF Kill, PowerFailure, Stop
<1>11. CASE Start \/ UNCHANGED vars
  <2>1. UNCHANGED <<frames, work, step>>
    BY <1>11 DEF Start, vars, files, eventFiles
  <2> QED BY <1>1, <2>1
<1> QED BY <1>2, <1>3, <1>4, <1>5, <1>6, <1>7, <1>8, <1>9, <1>10, <1>11 DEF Next

-----------------------------------------------------------------------------
(* What a verification goes on with. *)

Valid == verdict = "valid"

\* The package it found is whole, and stays.
FoundInv ==
    /\ found \in Package /\ packages[found.content] = found
    /\ Finished(found.content)

\* The envelope it saw is that of its project, which is still the same if it was frozen.
StillSeen(p) ==
    /\ envelopes[p] \in Envelope
    /\ seen.package # NoPackage =>
          /\ envelopes[p].package = seen.package
          /\ envelopes[p].content = seen.content
          /\ envelopes[p].revision = seen.revision
SeenInv == seen \in Envelope /\ Owner \in Projects /\ StillSeen(Owner)

ReaderInv ==
    /\ ~running => place = "idle" /\ verdict = "none"
    /\ Valid => place = "done"
    /\ place \in {"owner", "events"} \/ Valid => FoundInv
    /\ place = "owner" => seen = NoFile /\ Owner = found.project
    /\ place = "package" /\ seen # NoFile => query[1] = "project"
    /\ place = "package" => query \in Queries
    /\ place \in {"package", "done"} /\ seen # NoFile => SeenInv
    /\ place = "events" \/ Valid => SeenInv
    /\ Valid => /\ Business(found, Owner, seen)
                /\ EventChain(frames[Owner], found, seen)
                /\ Quiet(Owner)

LEMMA SamePackage ==
    ASSUME NEW a \in Package, NEW b \in Package, a.project = b.project, a.content = b.content,
           a.source = b.source, a.frozenAt = b.frozenAt
    PROVE  a = b
  BY DEF Package

\* The found package is the one that the project it saw is frozen with.
LEMMA BusinessMeans ==
    ASSUME TypeInv, StoreInv, NameInv, FoundInv, SeenInv, Business(found, Owner, seen)
    PROVE  /\ found.project = Owner /\ Frozen(Owner) /\ envelopes[Owner].package = found
           /\ seen.package = found
<1> USE SentinelAssumption
<1> DEFINE p == Owner
           e == envelopes[p]
<1>1. p \in Projects /\ StillSeen(p)
  BY DEF SeenInv
<1>2. /\ e \in Envelope /\ e # NoFile /\ e \in envelopesOnDisk[p]
      /\ e.package = seen.package /\ e.content = seen.content /\ e.revision = seen.revision
      /\ e.package # NoPackage
  BY <1>1 DEF StillSeen, Business, StoreInv
<1>3. found \in Package /\ found.source \in Nat
  BY DEF FoundInv, Package
<1>4. /\ found.project = p /\ e.package.content = found.content
      /\ e.package.frozenAt = found.frozenAt /\ found.source = e.revision - 1
  BY <1>2 DEF Business
<1>5. /\ e.package \in Package /\ e.package.project = p
      /\ e.revision = e.package.source + 1 /\ e.package.source \in Nat
  BY <1>1, <1>2 DEF NameInv, Envelope, Package
<1>6. e.package.source = found.source
  BY <1>4, <1>5
<1>7. e.package = found
  <2>1. e.package.content = found.content /\ e.package.project = found.project
    BY <1>4, <1>5
  <2> QED BY <1>3, <1>4, <1>5, <1>6, <2>1, SamePackage
<1> QED BY <1>2, <1>4, <1>7 DEF Frozen

\* Whatever is written, what it goes on with lasts.
LEMMA FoundStays ==
    ASSUME TypeInv, [Next]_vars, running', UNCHANGED found, FoundInv
    PROVE  FoundInv'
<1>1. found.content \in Digests
  BY DEF FoundInv, Package
<1>2. packages[found.content] \in Package
  BY DEF FoundInv
<1>3. /\ packages'[found.content] = packages[found.content]
      /\ ~(Filling' /\ work'.package.content = found.content)
  BY <1>1, <1>2, PackageStays DEF FoundInv, Finished
<1> QED BY <1>3 DEF FoundInv, Finished

LEMMA SeenStays ==
    ASSUME TypeInv, StoreInv, [Next]_vars, running', UNCHANGED <<query, found, seen>>, SeenInv
    PROVE  SeenInv'
<1> DEFINE p == Owner
<1>1. p \in Projects /\ StillSeen(p)
  BY DEF SeenInv
<1>2. /\ envelopes'[p] \in Envelope
      /\ envelopes[p].package # NoPackage =>
            /\ envelopes'[p].package = envelopes[p].package
            /\ envelopes'[p].content = envelopes[p].content
            /\ envelopes'[p].revision = envelopes[p].revision
  BY <1>1, FrozenStays DEF StillSeen
<1>3. Owner' = Owner
  BY DEF Owner
<1> QED BY <1>1, <1>2, <1>3 DEF SeenInv, StillSeen

\* There is a first file among some.
LEMMA Least ==
    ASSUME NEW S \in SUBSET Nat, S # {}
    PROVE  \E x \in S : \A y \in S : x <= y
<1> DEFINE less == OpToRel(<, Nat)
<1>1. PICK x \in S : \A y \in S : <<y, x>> \notin less
  BY NatLessThanWellFounded, WFMin, Zenon
<1>2. ASSUME NEW y \in S PROVE ~(y < x)
  BY <1>1 DEF OpToRel
<1> QED BY <1>2

\* What LoadPackage returns.
LEMMA LoadPackageFacts ==
    ASSUME TypeInv, OwnInv, NameInv, step = "idle", NEW id, LoadPackage(id) \in Package
    PROVE  LET g == LoadPackage(id)
           IN  /\ packages[g.content] = g /\ Finished(g.content)
               /\ id[1] = "project" => g.project = id[2]
<1> DEFINE ends == {d \in Digests : packages[d] = Torn \/ Asked(d, id)}
           d == CHOOSE d \in ends : \A e \in ends : d <= e
<1>1. ends # {} /\ LoadPackage(id) = packages[d]
  BY SentinelAssumption DEF LoadPackage
<1>2. d \in ends
  <2>1. ends \in SUBSET Nat
    BY DigestAssumption
  <2> HIDE DEF ends
  <2>2. \E x \in ends : \A y \in ends : x <= y
    BY <1>1, <2>1, Least
  <2> QED BY <2>2
<1> HIDE DEF d
<1>3. d \in Digests /\ Asked(d, id)
  BY <1>1, <1>2, SentinelAssumption
<1> QED BY <1>1, <1>3 DEF Asked, OwnInv, NameInv, Finished, Filling

LEMMA InitReader == Init /\ ReaderInit => ReaderInv
  BY DEF Init, ReaderInit, ReaderInv, Valid

\* All that is known of the files.
FilesInv == TypeInv /\ StoreInv /\ OwnInv /\ NameInv /\ EventInv

LEMMA FilesStep == FilesInv /\ [DeepNext]_allVars => FilesInv'
<1>1. [DeepNext]_allVars => [Next]_vars
  BY DEF DeepNext, ReadProject, ReadPackage, ReadOwner, ReadEvents, Report, Write, allVars
<1> QED BY <1>1, TypeStep, StoreStep, OwnStep, NameStep, EventStep DEF FilesInv

LEMMA ReaderStep == FilesInv /\ ReaderInv /\ [DeepNext]_allVars => ReaderInv'
<1> SUFFICES ASSUME FilesInv, ReaderInv, [DeepNext]_allVars
             PROVE  ReaderInv'
  OBVIOUS
<1> USE SentinelAssumption
<1>0. TypeInv /\ TypeOK /\ StoreInv /\ OwnInv /\ NameInv /\ EventInv
  BY DEF FilesInv, TypeInv
<1>1. CASE ReadProject
  <2>1. /\ UNCHANGED vars /\ running /\ place = "idle" /\ place' = "package"
        /\ verdict' = verdict /\ query' \in Queries
        /\ seen' = IF query'[1] = "project" THEN envelopes[query'[2]] ELSE NoFile
    BY <1>1 DEF ReadProject, Free, Goto
  <2>2. ~Valid /\ ~Valid'
    BY <2>1 DEF ReaderInv, Valid
  <2>3. ASSUME seen' # NoFile PROVE SeenInv'
    <3>1. PICK p \in Projects : query' = <<"project", p>>
      BY <2>1, <2>3 DEF Queries
    <3>2. seen' = envelopes[p] /\ Owner' = p
      BY <2>1, <3>1 DEF Owner
    <3>3. envelopes' = envelopes /\ envelopes[p] \in Envelope
      BY <1>0, <2>1, <2>3, <3>2 DEF vars, files, projectFiles, TypeOK
    <3> QED BY <3>2, <3>3 DEF SeenInv, StillSeen
  <2>4. running' /\ (seen' # NoFile => query'[1] = "project")
    BY <2>1 DEF vars
  <2> QED BY <2>1, <2>2, <2>3, <2>4 DEF ReaderInv
<1>2. CASE ReadPackage
  <2>1. /\ UNCHANGED vars /\ running /\ step = "idle" /\ place = "package"
        /\ found' = LoadPackage(LookupID(query, seen))
        /\ \/ found' \notin Package /\ place' = "done" /\ verdict' = "error"
           \/ /\ found' \in Package /\ UNCHANGED verdict
              /\ place' = IF seen = NoFile THEN "owner" ELSE "events"
        /\ UNCHANGED <<query, seen>>
    BY <1>2 DEF ReadPackage, Free, Finish, Goto
  <2>2. ~Valid /\ ~Valid' /\ running'
    BY <2>1 DEF ReaderInv, Valid, vars
  <2>3. ASSUME found' \in Package
        PROVE  FoundInv' /\ (seen = NoFile => Owner' = found'.project)
    <3> DEFINE id == LookupID(query, seen)
    <3>1. /\ packages[found'.content] = found' /\ Finished(found'.content)
          /\ id[1] = "project" => found'.project = id[2]
      BY <1>0, <2>1, <2>3, LoadPackageFacts
    <3>2. FoundInv'
      BY <2>1, <2>3, <3>1 DEF FoundInv, Finished, Filling, vars, files, packageFiles
    <3>3. seen = NoFile => id = query
      BY DEF LookupID
    <3> QED BY <2>1, <3>1, <3>2, <3>3 DEF Owner
  <2>4. ASSUME seen # NoFile PROVE SeenInv'
    <3>1. SeenInv /\ query[1] = "project"
      BY <2>1, <2>4 DEF ReaderInv
    <3>2. Owner' = Owner
      BY <2>1, <3>1 DEF Owner
    <3> QED BY <2>1, <3>1, <3>2 DEF SeenInv, StillSeen, vars, files, projectFiles
  <2> QED BY <2>1, <2>2, <2>3, <2>4 DEF ReaderInv
<1>3. CASE ReadOwner
  <2>1. /\ UNCHANGED <<vars, query, found>> /\ (UNCHANGED verdict \/ verdict' = "error")
        /\ running /\ place = "owner"
        /\ seen' = envelopes[found.project]
        /\ \/ seen' = NoFile /\ place' = "done"
           \/ seen' # NoFile /\ place' = "events"
    BY <1>3 DEF ReadOwner, Free, Finish, Goto
  <2>2. ~Valid /\ ~Valid' /\ running'
    BY <2>1 DEF ReaderInv, Valid, vars
  <2>3. /\ FoundInv /\ found.project \in Projects
        /\ Owner = found.project /\ Owner' = Owner
    BY <2>1 DEF ReaderInv, FoundInv, Package, Owner
  <2>4. FoundInv'
    BY <2>1, <2>3 DEF FoundInv, Finished, Filling, vars, files, packageFiles
  <2>5. ASSUME seen' # NoFile PROVE SeenInv'
    <3>1. envelopes' = envelopes /\ seen' \in Envelope
      BY <1>0, <2>1, <2>3, <2>5 DEF vars, files, projectFiles, TypeOK
    <3> QED BY <2>1, <2>3, <3>1 DEF SeenInv, StillSeen
  <2> QED BY <2>1, <2>2, <2>4, <2>5 DEF ReaderInv
<1>4. CASE ReadEvents
  <2>1. /\ UNCHANGED <<vars, query, seen, found>> /\ running /\ step = "idle" /\ place = "events"
        /\ place' = "done"
        /\ verdict' = IF Business(found, Owner, seen) /\ EventChain(frames[Owner], found, seen)
                      THEN "valid" ELSE "invalid"
    BY <1>4 DEF ReadEvents, Free, Finish, Goto
  <2>2. FoundInv /\ SeenInv /\ Owner' = Owner
    BY <2>1 DEF ReaderInv, Owner
  <2>3. FoundInv' /\ SeenInv'
    BY <2>1, <2>2 DEF FoundInv, SeenInv, StillSeen, Finished, Filling, vars, files, packageFiles,
                      projectFiles
  <2>4. Quiet(Owner)'
    BY <2>1 DEF Quiet, vars
  <2>5. Valid' => Business(found, Owner, seen)' /\ EventChain(frames[Owner], found, seen)'
    BY <2>1, <2>2 DEF Valid, Business, EventChain, Readable, Joined, vars, files, eventFiles
  <2>6. running'
    BY <2>1 DEF vars
  <2> QED BY <2>1, <2>3, <2>4, <2>5, <2>6 DEF ReaderInv
<1>5. ASSUME Forget PROVE ReaderInv'
  BY <1>5 DEF Forget, ReaderInv, Valid
<1>6. ASSUME [Next]_vars, running', UNCHANGED reader
      PROVE  ReaderInv'
  <2>1. UNCHANGED <<place, query, seen, found, verdict>>
    BY <1>6 DEF reader
  <2>2. Valid' = Valid /\ Owner' = Owner
    BY <2>1 DEF Valid, Owner
  <2>3. FoundInv => FoundInv'
    BY <1>0, <1>6, <2>1, FoundStays
  <2>4. SeenInv => SeenInv'
    BY <1>0, <1>6, <2>1, SeenStays
  <2>5. ASSUME Valid
        PROVE  /\ Business(found, Owner, seen)'
               /\ EventChain(frames[Owner], found, seen)'
               /\ Quiet(Owner)'
    <3> DEFINE p == Owner
    <3>1. /\ FoundInv /\ SeenInv /\ Business(found, p, seen)
          /\ EventChain(frames[p], found, seen) /\ Quiet(p)
      BY <2>5 DEF ReaderInv
    <3>2. p \in Projects /\ Frozen(p)
      BY <1>0, <3>1, BusinessMeans DEF SeenInv
    <3>3. frames'[p] = frames[p]
          /\ (step' # "idle" /\ work'.project = p => work'.kind # "commit")
      BY <1>0, <1>6, <3>1, <3>2, EventsStay DEF Quiet
    <3>4. p' = p
      BY <2>2
    <3> QED BY <2>1, <3>1, <3>3, <3>4 DEF Business, EventChain, Readable, Joined, Quiet
  <2> QED BY <1>6, <2>1, <2>2, <2>3, <2>4, <2>5 DEF ReaderInv
<1>7. CASE Write
  BY <1>5, <1>6, <1>7 DEF Write
<1>8. CASE UNCHANGED allVars
  <2>1. [Next]_vars /\ UNCHANGED reader /\ running' = running
    BY <1>8 DEF allVars, vars
  <2>2. CASE running
    BY <1>6, <2>1, <2>2
  <2>3. CASE ~running
    BY <2>1, <2>3 DEF ReaderInv, Valid, reader
  <2> QED BY <2>2, <2>3
<1> QED BY <1>1, <1>2, <1>3, <1>4, <1>5, <1>7, <1>8 DEF DeepNext, Report

\* What is reported valid is so: the project is frozen with the very package of
\* the file, and its last event is that of the freeze (service.go:163-222).
THEOREM ValidMeansConsistent == DeepSpec => []ValidIsConsistent
<1>1. FilesInv /\ ReaderInv => ValidIsConsistent
  <2> SUFFICES ASSUME FilesInv, ReaderInv, Valid
               PROVE  LET p == found.project IN
                      /\ Frozen(p) /\ envelopes[p].package = found
                      /\ packages[found.content] = found
                      /\ Readable(frames[p])
                      /\ frames[p][Len(frames[p])] =
                            [frames[p][Len(frames[p])] EXCEPT
                                !.revision = envelopes[p].revision, !.package = found]
    BY DEF ValidIsConsistent, Valid
  <2> USE SentinelAssumption
  <2> DEFINE p == found.project
             n == Len(frames[p])
             last == frames[p][n]
  <2>1. /\ FoundInv /\ SeenInv /\ Business(found, Owner, seen)
        /\ EventChain(frames[Owner], found, seen)
    BY DEF ReaderInv
  <2>2. /\ p = Owner /\ p \in Projects /\ StillSeen(p) /\ Frozen(p)
        /\ envelopes[p].package = found
    BY <2>1, BusinessMeans DEF FilesInv, SeenInv
  <2>3. frames[p] \in Seq(Line) /\ frames[p] # <<>>
    BY <2>1, <2>2 DEF FilesInv, TypeInv, TypeOK, EventChain
  <2>4. n \in DOMAIN frames[p] /\ last \in Line /\ last # Torn
    BY <2>1, <2>2, <2>3, EmptySeq, LenProperties, ElementOfSeq DEF EventChain, Readable
  <2>5. last \in Frame /\ last.package # NoPackage /\ last.revision = seen.revision
    BY <2>1, <2>2, <2>4 DEF EventChain, Line
  <2>6. envelopes[p] \in envelopesOnDisk[p]
    BY <2>2 DEF FilesInv, StoreInv
  <2>7. last.package = found
    BY <2>2, <2>4, <2>5, <2>6 DEF FilesInv, EventInv, EventsFollowEnvelopes
  <2>8. last.revision = envelopes[p].revision
    BY <2>1, <2>2, <2>5 DEF StillSeen, Business
  <2>9. last = [last EXCEPT !.revision = envelopes[p].revision, !.package = found]
    BY <2>5, <2>7, <2>8 DEF Frame
  <2> QED BY <2>1, <2>2, <2>9 DEF FoundInv, EventChain
<1>2. Init /\ ReaderInit => FilesInv /\ ReaderInv
  BY InitType, InitStore, InitOwn, InitName, InitEvents, InitReader DEF FilesInv
<1> QED BY <1>1, <1>2, FilesStep, ReaderStep, PTL DEF DeepSpec

-----------------------------------------------------------------------------
(* What was answered, as long as every call ended and removed what it failed to *)
(* write.                                                                       *)

Uncrashed == kills = 0 /\ powerFailures = 0 /\ unremoved = 0

LEMMA StillUncrashed ==
    ASSUME TypeOK, [Next]_vars, Uncrashed'
    PROVE  Uncrashed /\ ~Kill /\ ~PowerFailure /\ ~Fail(1)
<1>1. kills \in Nat /\ powerFailures \in Nat /\ unremoved \in Nat
  BY DEF TypeOK
<1>2. ~Kill /\ ~PowerFailure /\ ~Fail(1)
  BY <1>1 DEF Uncrashed, Kill, PowerFailure, Fail
<1> QED BY <1>1, <1>2, MishapsGrow DEF Uncrashed

\* A package file written in part is the one that is being written.
TornInv == \A d \in Digests : packages[d] = Torn => step = "filling" /\ work.package.content = d

LEMMA TornStep ==
    ASSUME TypeInv, TornInv, [Next]_vars, ~Kill, ~PowerFailure, ~Fail(1)
    PROVE  TornInv'
<1> USE SentinelAssumption
<1>0. TypeOK /\ WorkInv /\ ApprovedInv
  BY DEF TypeInv
<1>1. ASSUME UNCHANGED packages, step # "filling"
      PROVE  TornInv'
  BY <1>1 DEF TornInv
<1>2. ASSUME NEW q \in Projects, \/ CommitEdit(q) \/ SaveRequest(q) \/ SavePackage(q)
                                 \/ CommitFreeze(q) \/ AbandonFreeze(q)
      PROVE  TornInv'
  <2>1. UNCHANGED packages /\ step # "filling"
    BY <1>2 DEF CommitEdit, SaveRequest, SavePackage, CommitFreeze, AbandonFreeze, Free, files,
                packageFiles
  <2> QED BY <1>1, <2>1
<1>3. CASE CreateTemp \/ WriteTemp \/ SyncTemp \/ RenameTemp \/ SyncProjects \/ WriteFrame \/ SyncFrame
  <2>1. UNCHANGED packages /\ step # "filling"
    BY <1>3 DEF CreateTemp, WriteTemp, SyncTemp, RenameTemp, SyncProjects, WriteFrame, SyncFrame,
                packageFiles
  <2> QED BY <1>1, <2>1
<1>4. CASE OpenPackage
  <2>1. step # "filling" /\ work \in Work /\ work.kind = "package"
    BY <1>0, <1>4 DEF OpenPackage, WorkInv, TypeOK
  <2>2. \/ UNCHANGED packages
        \/ Holds(Torn) /\ step' = "filling" /\ work' = work
    BY <1>4 DEF OpenPackage, Continue, packageFiles
  <2> QED BY <1>0, <1>1, <2>1, <2>2 DEF Holds, Digest, TornInv, TypeOK
<1>5. CASE WritePackage
  <2>1. work.package \in Package /\ Digest \in Digests
    BY <1>0, <1>5, WorkKinds DEF WritePackage, WorkInv, TypeOK, Digest, Package
  <2>2. Holds(work.package) \/ Holds(NoFile)
    BY <1>5 DEF WritePackage, RemovePackage
  <2> QED BY <1>0, <2>1, <2>2, ZenonT(30) DEF Holds, Digest, TornInv, TypeOK
<1>6. CASE SyncPackage \/ SyncPackages
  <2>1. step # "filling" /\ (UNCHANGED packages \/ Holds(NoFile))
    BY <1>6 DEF SyncPackage, SyncPackages, RemovePackage, packageFiles
  <2> QED BY <1>0, <1>1, <2>1 DEF Holds, TornInv, TypeOK
<1>7. CASE Start \/ UNCHANGED vars
  <2>1. UNCHANGED <<packages, work, step>>
    BY <1>7 DEF Start, vars, files, packageFiles
  <2> QED BY <2>1 DEF TornInv
<1> QED BY <1>2, <1>3, <1>4, <1>5, <1>6, <1>7 DEF Next

\* The last event is the one of this revision of the project, and can be read
\* unless it shares its line.
EndsWith(file, e) ==
    /\ Readable(file) \/ Joined(file, Len(file))
    /\ file # <<>>
    /\ file[Len(file)].revision = e.revision
    /\ file[Len(file)].package = e.package

Committing ==
    /\ step \in {"creating", "writing", "syncing", "renaming", "settling", "framing", "flushing"}
    /\ work.kind = "commit"

\* A commit on its way carries a later revision than any that was answered; an
\* answered revision that is still the last has the last event.
AnswerInv ==
    /\ \A p \in Projects : envelopes[p] \in Envelope => envelopes[p].revision # 0
    /\ \A p \in Projects : answered[p] # 0 =>
          envelopes[p] \in Envelope /\ answered[p] <= envelopes[p].revision
    /\ Committing => answered[work.project] < work.envelope.revision
    /\ step = "flushing" => EndsWith(frames[work.project], work.envelope)
    /\ \A p \in Projects : answered[p] # 0 /\ answered[p] = envelopes[p].revision =>
          EndsWith(frames[p], envelopes[p])

LEMMA AnswerStep ==
    ASSUME TypeInv, StoreInv, AnswerInv, [Next]_vars, ~Kill, ~PowerFailure
    PROVE  AnswerInv'
<1> USE SentinelAssumption
<1>0. TypeOK /\ WorkInv /\ ApprovedInv
  BY DEF TypeInv
<1>a. /\ answered \in [Projects -> Nat] /\ envelopes \in [Projects -> Envelope \cup {NoFile}]
      /\ \A e \in Envelope : e.revision \in Nat
  BY <1>0 DEF TypeOK, Envelope
<1>1. ASSUME UNCHANGED <<envelopes, frames, answered>>, Committing' => Committing /\ work' = work,
             step' # "flushing"
      PROVE  AnswerInv'
  BY <1>1 DEF AnswerInv, EndsWith, Readable, Joined
<1>2. ASSUME NEW p \in Projects, UNCHANGED <<envelopes, frames, answered>>,
             step' = "creating", work'.project = p,
             \/ envelopes[p] = NoFile /\ work'.envelope.revision = 1
             \/ envelopes[p] \in Envelope /\ work'.envelope.revision = envelopes[p].revision + 1
      PROVE  AnswerInv'
  <2>1. answered[p] < work'.envelope.revision
    BY <1>a, <1>2 DEF AnswerInv
  <2> QED BY <1>2, <2>1 DEF AnswerInv, EndsWith, Readable, Joined
<1>3. ASSUME NEW p \in Projects, CommitEdit(p)
      PROVE  AnswerInv'
  <2>1. UNCHANGED <<envelopes, frames, answered>> /\ step' = "creating" /\ work'.project = p
    BY <1>3 DEF CommitEdit, Begin, files, projectFiles, eventFiles, ghosts
  <2>2. PICK d \in Digests :
           \/ /\ envelopes[p] = NoFile
              /\ Begin([kind |-> "commit", project |-> p,
                        envelope |-> [revision |-> 1, content |-> d, package |-> NoPackage,
                                      failed |-> 0]], "creating")
           \/ /\ envelopes[p] \in Envelope
              /\ envelopes[p].package = NoPackage
              /\ Begin([kind |-> "commit", project |-> p,
                        envelope |-> [envelopes[p] EXCEPT !.revision = @ + 1, !.content = d]],
                       "creating")
    BY <1>3, Zenon DEF CommitEdit
  <2>3. CASE envelopes[p] = NoFile
    BY <1>2, <2>1, <2>2, <2>3 DEF Begin
  <2>4. CASE envelopes[p] # NoFile
    <3>1. /\ envelopes[p] \in Envelope
          /\ work'.envelope = [envelopes[p] EXCEPT !.revision = @ + 1, !.content = d]
      BY <2>2, <2>4 DEF Begin
    <3>2. work'.envelope.revision = envelopes[p].revision + 1
      <4> DEFINE f == [envelopes[p] EXCEPT !.revision = @ + 1]
      <4>1. f \in Envelope /\ f.revision = envelopes[p].revision + 1
        BY <3>1 DEF Envelope
      <4>2. [f EXCEPT !.content = d].revision = f.revision
        BY <4>1 DEF Envelope
      <4> QED BY <3>1, <4>1, <4>2
    <3> QED BY <1>2, <2>1, <3>1, <3>2
  <2> QED BY <2>3, <2>4
<1>4. ASSUME NEW p \in Projects, SaveRequest(p)
      PROVE  AnswerInv'
  <2>1. UNCHANGED <<envelopes, frames, answered>> /\ step' = "creating" /\ work'.kind = "request"
    BY <1>4 DEF SaveRequest, Begin, files, projectFiles, eventFiles, ghosts
  <2> QED BY <1>1, <2>1 DEF Committing
<1>5. ASSUME NEW p \in Projects, SavePackage(p) \/ AbandonFreeze(p)
      PROVE  AnswerInv'
  <2>1. UNCHANGED <<envelopes, frames, answered>> /\ step' \in {"opening", "idle"}
    BY <1>5 DEF SavePackage, AbandonFreeze, Begin, Free, files, projectFiles, eventFiles, ghosts
  <2> QED BY <1>1, <2>1 DEF Committing
<1>6. ASSUME NEW p \in Projects, CommitFreeze(p)
      PROVE  AnswerInv'
  <2>1. /\ UNCHANGED <<envelopes, frames, answered>> /\ step' = "creating" /\ work'.project = p
        /\ work'.envelope = [envelopes[p] EXCEPT !.revision = @ + 1, !.package = approved[p]]
        /\ approved[p] # NoPackage
    BY <1>6 DEF CommitFreeze, Begin, files, projectFiles, eventFiles, ghosts
  <2>2. envelopes[p] \in Envelope
    BY <1>0, <2>1 DEF ApprovedInv
  <2>3. work'.envelope.revision = envelopes[p].revision + 1
    <3> DEFINE f == [envelopes[p] EXCEPT !.revision = @ + 1]
    <3>1. f \in Envelope /\ f.revision = envelopes[p].revision + 1
      BY <2>2 DEF Envelope
    <3>2. [f EXCEPT !.package = approved[p]].revision = f.revision
      BY <3>1 DEF Envelope
    <3> QED BY <2>1, <3>1, <3>2
  <2> QED BY <1>2, <2>1, <2>2, <2>3
<1>7. CASE CreateTemp \/ WriteTemp \/ SyncTemp \/ SyncProjects
  <2>1. /\ UNCHANGED <<envelopes, frames, answered>>
        /\ step' # "flushing" /\ (step' # "idle" => work' = work)
    BY <1>7 DEF CreateTemp, WriteTemp, SyncTemp, SyncProjects, GiveUp, Return, Continue,
                projectFiles, eventFiles, ghosts
  <2>2. step \in {"creating", "writing", "syncing", "settling"}
    BY <1>7 DEF CreateTemp, WriteTemp, SyncTemp, SyncProjects
  <2> QED BY <1>1, <2>1, <2>2 DEF Committing
<1>8. CASE RenameTemp
  <2>1. /\ step = "renaming" /\ work \in Work /\ work.kind \in {"commit", "request"}
        /\ temp.content = work.envelope /\ UNCHANGED <<frames, answered>>
        /\ step' \in {"settling", "idle"} /\ (step' # "idle" => work' = work)
    BY <1>0, <1>8 DEF RenameTemp, WorkInv, TypeOK, GiveUp, Return, Continue, eventFiles, ghosts
  <2>2. work.project \in Projects /\ work.envelope \in Envelope
    BY <2>1, WorkKinds
  <2> DEFINE q == work.project
             e == work.envelope
  <2>3. CASE UNCHANGED envelopes
    BY <1>1, <2>1, <2>3 DEF Committing
  <2>4. CASE envelopes' = [envelopes EXCEPT ![q] = e]
    <3>1. envelopes'[q] = e /\ \A p \in Projects : p # q => envelopes'[p] = envelopes[p]
      BY <1>a, <2>2, <2>4
    <3>2. Atomic!Succeeds(e, envelopes[q])
      BY <2>1 DEF StoreInv
    <3>3. \/ envelopes[q] = NoFile /\ e.revision = 1
          \/ envelopes[q] \in Envelope /\ e.revision = envelopes[q].revision + 1
          \/ /\ envelopes[q] \in Envelope
             /\ e.revision = envelopes[q].revision /\ e.package = envelopes[q].package
      <4>1. CASE envelopes[q] = NoFile
        BY <3>2, <4>1 DEF Atomic!Succeeds
      <4>2. CASE envelopes[q] \in Envelope
        <5>1. \/ e.revision = envelopes[q].revision + 1
              \/ e = [envelopes[q] EXCEPT !.failed = @ + 1]
          BY <3>2, <4>2 DEF Atomic!Succeeds
        <5>2. e = [envelopes[q] EXCEPT !.failed = @ + 1] =>
                 e.revision = envelopes[q].revision /\ e.package = envelopes[q].package
          BY <4>2 DEF Envelope
        <5> QED BY <4>2, <5>1, <5>2
      <4> QED BY <1>a, <2>2, <4>1, <4>2
    <3>4. e.revision # 0 /\ (answered[q] # 0 => answered[q] <= e.revision)
      BY <1>a, <2>2, <3>3 DEF AnswerInv
    <3>5. answered[q] # 0 /\ answered[q] = e.revision => EndsWith(frames[q], e)
      <4>1. ASSUME answered[q] # 0, answered[q] = e.revision
            PROVE  envelopes[q].revision = e.revision /\ e.package = envelopes[q].package
        BY <1>a, <2>2, <3>3, <4>1 DEF AnswerInv
      <4> QED BY <2>2, <4>1 DEF AnswerInv, EndsWith
    <3>6. Committing' => answered'[work'.project] < work'.envelope.revision
      BY <2>1 DEF Committing, AnswerInv
    <3>7. \A p \in Projects : envelopes'[p] \in Envelope => envelopes'[p].revision # 0
      BY <3>1, <3>4 DEF AnswerInv
    <3>8. \A p \in Projects : answered'[p] # 0 =>
             envelopes'[p] \in Envelope /\ answered'[p] <= envelopes'[p].revision
      BY <2>1, <2>2, <3>1, <3>4 DEF AnswerInv
    <3>9. \A p \in Projects : answered'[p] # 0 /\ answered'[p] = envelopes'[p].revision =>
             EndsWith(frames'[p], envelopes'[p])
      BY <2>1, <2>2, <3>1, <3>5 DEF AnswerInv
    <3> QED BY <2>1, <3>6, <3>7, <3>8, <3>9 DEF AnswerInv
  <2> QED BY <1>8, <2>1, <2>3, <2>4 DEF RenameTemp, GiveUp, projectFiles
<1>9. CASE WriteFrame
  <2>1. /\ step = "framing" /\ work \in Work /\ work.kind = "commit"
        /\ UNCHANGED <<envelopes, answered>>
        /\ step' \in {"flushing", "idle"} /\ (step' # "idle" => work' = work)
    BY <1>0, <1>9 DEF WriteFrame, WorkInv, TypeOK, Return, Continue, projectFiles
  <2> DEFINE q == work.project
             e == work.envelope
             s == frames[q]
  <2>2. q \in Projects /\ e \in Envelope /\ s \in Seq(Line) /\ envelopes[q] = e
    BY <1>0, <2>1, WorkKinds DEF TypeOK, StoreInv
  <2>3. answered[q] # envelopes[q].revision
    BY <1>a, <2>1, <2>2 DEF AnswerInv, Committing
  <2>4. \A p \in Projects : p # q => frames'[p] = frames[p]
    <3>1. \/ UNCHANGED frames
          \/ \E l : frames' = [frames EXCEPT ![q] = Append(@, l)]
      BY <1>9, Zenon DEF WriteFrame, AppendCut
    <3> QED BY <1>0, <2>2, <3>1 DEF TypeOK
  <2>5. \A p \in Projects : answered'[p] # 0 /\ answered'[p] = envelopes'[p].revision =>
           EndsWith(frames'[p], envelopes'[p])
    BY <2>1, <2>3, <2>4 DEF AnswerInv
  <2>6. step' = "flushing" => EndsWith(frames'[q], e)
    <3> SUFFICES ASSUME step' = "flushing" PROVE EndsWith(frames'[q], e)
      OBVIOUS
    <3>1. Readable(s) /\ frames' = [frames EXCEPT ![q] = Append(@, NextFrame(@, e))]
      BY <1>9 DEF WriteFrame, Return
    <3>2. frames'[q] = Append(s, NextFrame(s, e))
      BY <1>0, <2>2, <3>1 DEF TypeOK
    <3>3. Readable(frames'[q]) \/ Joined(frames'[q], Len(frames'[q]))
      BY <2>2, <3>1, <3>2, ReadableAppend
    <3>4. NextFrame(s, e) \in Line
      BY <2>2, <3>1, NextFrameType DEF Line
    <3>5. /\ frames'[q] \in Seq(Line) /\ Len(frames'[q]) = Len(s) + 1 /\ Len(s) \in Nat
          /\ frames'[q][Len(s) + 1] = NextFrame(s, e)
      BY <2>2, <3>2, <3>4, AppendFacts, LenProperties
    <3>6. frames'[q] # <<>>
      BY <3>5, EmptySeq
    <3>7. NextFrame(s, e).revision = e.revision /\ NextFrame(s, e).package = e.package
      BY DEF NextFrame
    <3> QED BY <3>3, <3>5, <3>6, <3>7 DEF EndsWith
  <2>7. Committing' => answered'[work'.project] < work'.envelope.revision
    BY <2>1 DEF Committing, AnswerInv
  <2> QED BY <2>1, <2>5, <2>6, <2>7 DEF AnswerInv
<1>10. CASE SyncFrame
  <2>1. /\ step = "flushing" /\ work \in Work /\ work.kind = "commit"
        /\ UNCHANGED <<envelopes, frames>> /\ step' = "idle"
        /\ \/ UNCHANGED answered
           \/ answered' = [answered EXCEPT ![work.project] = work.envelope.revision]
    BY <1>0, <1>10 DEF SyncFrame, WorkInv, TypeOK, Return, projectFiles
  <2>2. work.project \in Projects /\ work.envelope \in Envelope
        /\ envelopes[work.project] = work.envelope
    BY <2>1, WorkKinds DEF StoreInv
  <2>3. CASE UNCHANGED answered
    BY <1>1, <2>1, <2>3 DEF Committing
  <2>4. CASE answered' = [answered EXCEPT ![work.project] = work.envelope.revision]
    <3>1. \A p \in Projects :
             answered'[p] = IF p = work.project THEN work.envelope.revision ELSE answered[p]
      BY <1>a, <2>4
    <3>2. EndsWith(frames[work.project], work.envelope)
      BY <2>1 DEF AnswerInv
    <3>3. \A p \in Projects : answered'[p] # 0 =>
             envelopes'[p] \in Envelope /\ answered'[p] <= envelopes'[p].revision
      BY <1>a, <2>1, <2>2, <3>1 DEF AnswerInv
    <3>4. \A p \in Projects : answered'[p] # 0 /\ answered'[p] = envelopes'[p].revision =>
             EndsWith(frames'[p], envelopes'[p])
      BY <2>1, <2>2, <3>1, <3>2 DEF AnswerInv
    <3> QED BY <2>1, <3>3, <3>4 DEF AnswerInv, Committing
  <2> QED BY <2>1, <2>3, <2>4
<1>11. CASE OpenPackage \/ WritePackage \/ SyncPackage \/ SyncPackages
  <2>1. /\ UNCHANGED <<envelopes, frames, answered>>
        /\ step' \in {"idle", "filling", "keeping", "listing"}
    BY <1>11 DEF OpenPackage, WritePackage, SyncPackage, SyncPackages, RemovePackage, Return,
                 Continue, projectFiles, eventFiles, ghosts
  <2> QED BY <1>1, <2>1 DEF Committing
<1>12. CASE Start \/ UNCHANGED vars
  <2>1. UNCHANGED <<envelopes, frames, answered, work, step>>
    BY <1>12 DEF Start, vars, files, projectFiles, eventFiles, ghosts
  <2> QED BY <2>1 DEF AnswerInv, Committing, EndsWith, Readable, Joined
<1> QED BY <1>3, <1>4, <1>5, <1>6, <1>7, <1>8, <1>9, <1>10, <1>11, <1>12 DEF Next

\* The verification saw a frozen project whose freeze was the last answer.
Recent == seen \in Envelope /\ seen.package # NoPackage /\ since = seen.revision

\* The files of its project have no line of two events.
Apart == \A i \in DOMAIN frames[Owner] : ~Joined(frames[Owner], i)

\* It finds the package, and nothing else is answered to its end.
RecentInv ==
    /\ place \in {"package", "owner"} /\ seen = NoFile => since = 0
    /\ place \in {"package", "events", "done"} /\ Recent =>
          SeenInv /\ answered[Owner] = since
    /\ place \in {"events", "done"} /\ Recent => FoundInv /\ found.content = seen.content
    /\ place = "done" /\ Recent /\ found = seen.package /\ Apart => Valid
    /\ place = "done" /\ Recent => Quiet(Owner)

\* All that is known while the process never ended.
UncrashedInv == Uncrashed => TornInv /\ AnswerInv /\ RecentInv

\* The package of a frozen project is found by its content.
LEMMA FindPackage ==
    ASSUME TypeInv, OwnInv, NameInv, TornInv, step = "idle",
           NEW c \in Digests, packages[c] \in Package
    PROVE  LoadPackage(<<"package", c>>) = packages[c]
<1> DEFINE id == <<"package", c>>
           ends == {d \in Digests : packages[d] = Torn \/ Asked(d, id)}
<1>1. \A d \in Digests : packages[d] # Torn
  BY DEF TornInv
<1>2. \A d \in Digests : packages[d] \in Package => packages[d].content = d
  BY DEF OwnInv, NameInv
<1>3. ends = {c}
  BY <1>1, <1>2 DEF Asked
<1> HIDE DEF ends
<1>4. (CHOOSE d \in ends : \A e \in ends : d <= e) = c
  <2>1. c <= c
    BY DigestAssumption
  <2> QED BY <1>3, <2>1
<1>5. LoadPackage(id) = IF ends = {} THEN NoFile
                        ELSE packages[CHOOSE d \in ends : \A e \in ends : d <= e]
  BY DEF LoadPackage, ends
<1> QED BY <1>3, <1>4, <1>5

\* While the process runs, the last answer of a project that stays is the same.
LEMMA AnswerStays ==
    ASSUME TypeInv, StoreInv, [Next]_vars, NEW p \in Projects,
           answered[p] = envelopes[p].revision
    PROVE  answered'[p] = answered[p]
<1>0. TypeOK /\ WorkInv
  BY DEF TypeInv
<1>1. CASE SyncFrame
  <2>1. /\ step = "flushing" /\ work \in Work /\ work.kind = "commit"
        /\ \/ UNCHANGED answered
           \/ answered' = [answered EXCEPT ![work.project] = work.envelope.revision]
    BY <1>0, <1>1, SentinelAssumption DEF SyncFrame, WorkInv, TypeOK
  <2>2. envelopes[work.project] = work.envelope
    BY <2>1 DEF StoreInv
  <2> QED BY <1>0, <2>1, <2>2 DEF TypeOK
<1>2. ~SyncFrame => UNCHANGED answered
  BY DEF Next, vars, ghosts, CommitEdit, SaveRequest, SavePackage, CommitFreeze, AbandonFreeze,
     CreateTemp, WriteTemp, SyncTemp, RenameTemp, SyncProjects, WriteFrame, OpenPackage, WritePackage,
     SyncPackage, SyncPackages, Kill, PowerFailure, Stop, Start
<1> QED BY <1>1, <1>2

LEMMA RecentStep ==
    ASSUME FilesInv, HeldInv, ReaderInv, TornInv, AnswerInv, RecentInv, Uncrashed,
           [DeepNext]_allVars
    PROVE  RecentInv'
<1> USE SentinelAssumption
<1>0. TypeInv /\ TypeOK /\ StoreInv /\ OwnInv /\ NameInv /\ EventInv
  BY DEF FilesInv, TypeInv
<1>1. CASE ReadProject
  <2>1. /\ UNCHANGED vars /\ place' = "package" /\ query' \in Queries
        /\ seen' = IF query'[1] = "project" THEN envelopes[query'[2]] ELSE NoFile
        /\ since' = IF query'[1] = "project" THEN answered[query'[2]] ELSE 0
    BY <1>1 DEF ReadProject, Goto
  <2>2. UNCHANGED <<envelopes, answered>>
    BY <2>1 DEF vars, files, projectFiles, ghosts
  <2>3. CASE query'[1] # "project"
    BY <2>1, <2>3 DEF RecentInv, Recent
  <2>4. CASE query'[1] = "project"
    <3>1. PICK p \in Projects : query' = <<"project", p>>
      BY <2>1, <2>4 DEF Queries
    <3>2. seen' = envelopes[p] /\ since' = answered[p] /\ Owner' = p
      BY <2>1, <3>1 DEF Owner
    <3>3. seen' = NoFile => since' = 0
      BY <3>2 DEF AnswerInv
    <3>4. Recent' => SeenInv' /\ answered'[p] = since'
      BY <2>2, <3>2 DEF Recent, SeenInv, StillSeen
    <3> QED BY <2>1, <3>2, <3>3, <3>4 DEF RecentInv
  <2> QED BY <2>3, <2>4
<1>2. CASE ReadPackage
  <2>1. /\ UNCHANGED <<vars, query, since, seen>> /\ step = "idle" /\ running /\ place = "package"
        /\ found' = LoadPackage(LookupID(query, seen))
        /\ \/ found' \notin Package /\ place' = "done"
           \/ /\ found' \in Package
              /\ place' = IF seen = NoFile THEN "owner" ELSE "events"
        /\ found' \in Package => UNCHANGED verdict
    BY <1>2 DEF ReadPackage, Free, Finish, Goto
  <2>2. CASE ~Recent
    <3>1. ~Recent' /\ place' # "package"
      BY <2>1, <2>2 DEF Recent
    <3> QED BY <2>1, <3>1 DEF RecentInv
  <2>3. CASE Recent
    <3> DEFINE p == Owner
    <3>1. p \in Projects /\ StillSeen(p) /\ answered[p] = since /\ query[1] = "project"
      BY <2>1, <2>3 DEF RecentInv, SeenInv, ReaderInv, Recent
    <3>2. /\ envelopes[p] \in envelopesOnDisk[p] /\ envelopes[p] # NoFile
          /\ envelopes[p].package = seen.package /\ envelopes[p].package # NoPackage
          /\ envelopes[p].content = seen.content /\ seen.content \in Digests
          /\ envelopes[p].package.content = seen.content
      BY <1>0, <2>3, <3>1 DEF StillSeen, Recent, StoreInv, NameInv, Envelope
    <3> DEFINE c == seen.content
    <3>3. packages[c] \in Package /\ packages[c].content = c
      <4>1. c \in Held
        BY <3>1, <3>2 DEF HeldInv
      <4> QED BY <1>0, <3>2, <4>1 DEF Held, Tidy, Uncrashed, OwnInv, NameInv
    <3>4. LookupID(query, seen) = <<"package", c>>
      BY <2>3, <3>2 DEF LookupID, Recent
    <3>5. found' = packages[c]
      BY <1>0, <2>1, <3>2, <3>3, <3>4, FindPackage
    <3>6. /\ UNCHANGED <<envelopes, packages, answered, work, step, seen, since>>
          /\ place' = "events" /\ Owner' = p
      BY <2>1, <2>3, <3>1, <3>3, <3>5
         DEF vars, files, projectFiles, packageFiles, ghosts, Recent, Owner
    <3>7. FoundInv' /\ found'.content = seen'.content
      BY <2>1, <3>3, <3>5, <3>6 DEF FoundInv, Finished, Filling
    <3>8. SeenInv' /\ answered'[Owner'] = since'
      BY <2>3, <3>1, <3>6 DEF SeenInv, StillSeen, Recent
    <3> QED BY <3>6, <3>7, <3>8 DEF RecentInv
  <2> QED BY <2>2, <2>3
<1>3. CASE ReadOwner
  <2>1. /\ UNCHANGED <<vars, query, found, since>> /\ place = "owner"
        /\ seen' = envelopes[found.project] /\ place' \in {"done", "events"}
    BY <1>3 DEF ReadOwner, Finish, Goto
  <2>2. FoundInv /\ found.project \in Projects
    BY <2>1 DEF ReaderInv, FoundInv, Package
  <2>3. place = "owner" /\ seen = NoFile => since = 0
    BY DEF RecentInv
  <2>4. seen' \in Envelope => seen'.revision # 0
    BY <2>1, <2>2 DEF AnswerInv
  <2>5. seen = NoFile
    BY <2>1 DEF ReaderInv
  <2>6. ~Recent'
    BY <2>1, <2>3, <2>4, <2>5 DEF Recent
  <2> QED BY <2>1, <2>6 DEF RecentInv
<1>4. CASE ReadEvents
  <2>1. /\ UNCHANGED <<vars, query, seen, found, since>> /\ step = "idle"
        /\ place = "events" /\ place' = "done"
        /\ verdict' = IF Business(found, Owner, seen) /\ EventChain(frames[Owner], found, seen)
                      THEN "valid" ELSE "invalid"
    BY <1>4 DEF ReadEvents, Free, Finish, Goto
  <2>2. /\ UNCHANGED <<envelopes, frames, packages, answered, work, step>>
        /\ Recent' = Recent /\ Owner' = Owner
    BY <2>1 DEF Recent, Owner, vars, files, projectFiles, eventFiles, packageFiles, ghosts
  <2>3. CASE ~Recent
    BY <2>1, <2>2, <2>3 DEF RecentInv
  <2>4. CASE Recent
    <3> DEFINE p == Owner
    <3>1. FoundInv /\ found.content = seen.content /\ SeenInv /\ answered[p] = since
      BY <2>1, <2>4 DEF RecentInv
    <3>2. p \in Projects /\ StillSeen(p)
      BY <3>1 DEF SeenInv
    <3>3. FoundInv' /\ SeenInv' /\ answered'[Owner'] = since' /\ Quiet(Owner)'
      BY <2>1, <2>2, <3>1 DEF FoundInv, SeenInv, StillSeen, Finished, Filling, Quiet
    <3>4. ASSUME found = seen.package, Apart PROVE Valid'
      <4>1. /\ envelopes[p] \in envelopesOnDisk[p] /\ envelopes[p] # NoFile
            /\ envelopes[p].package = found /\ found # NoPackage /\ found \in Package
            /\ envelopes[p].revision = seen.revision /\ seen.revision \in Nat
        BY <1>0, <2>4, <3>1, <3>2, <3>4 DEF StillSeen, Recent, StoreInv, FoundInv, Envelope
      <4>2. found.project = p /\ seen.revision = found.source + 1 /\ found.source \in Nat
        BY <1>0, <3>2, <4>1 DEF NameInv, Package
      <4>3. Business(found, p, seen)
        BY <2>4, <3>1, <3>4, <4>1, <4>2 DEF Business, Recent
      <4>4. answered[p] = envelopes[p].revision /\ envelopes[p].revision # 0
        BY <2>4, <3>1, <3>2, <4>1 DEF Recent, AnswerInv, StillSeen
      <4>5. EndsWith(frames[p], envelopes[p])
        BY <3>2, <4>4 DEF AnswerInv
      <4>6. Readable(frames[p])
        BY <3>4, <4>5, SMTT(30) DEF EndsWith, Apart
      <4>7. EventChain(frames[p], found, seen)
        BY <4>1, <4>5, <4>6 DEF EndsWith, EventChain
      <4> QED BY <2>1, <4>3, <4>7 DEF Valid
    <3>5. Apart' = Apart
      BY <2>2 DEF Apart, Joined
    <3> QED BY <2>1, <2>2, <3>1, <3>3, <3>4, <3>5 DEF RecentInv
  <2> QED BY <2>3, <2>4
<1>5. ASSUME Forget PROVE RecentInv'
  BY <1>5 DEF Forget, RecentInv
<1>6. ASSUME [Next]_vars, running', UNCHANGED reader
      PROVE  RecentInv'
  <2>1. UNCHANGED <<place, query, seen, found, verdict, since>>
    BY <1>6 DEF reader
  <2>2. Recent' = Recent /\ Valid' = Valid /\ Owner' = Owner
    BY <2>1 DEF Recent, Valid, Owner
  <2>3. FoundInv => FoundInv'
    BY <1>0, <1>6, <2>1, FoundStays
  <2>4. ASSUME Recent, SeenInv, answered[Owner] = since
        PROVE  /\ SeenInv' /\ answered'[Owner'] = since'
               /\ Quiet(Owner) => Quiet(Owner)' /\ Apart' = Apart
    <3> DEFINE p == Owner
    <3>1. p \in Projects /\ StillSeen(p)
      BY <2>4 DEF SeenInv
    <3>2. answered[p] = envelopes[p].revision /\ Frozen(p)
      BY <2>4, <3>1 DEF StillSeen, Recent, Frozen
    <3>3. answered'[p] = answered[p]
      BY <1>0, <1>6, <3>1, <3>2, AnswerStays
    <3>4. SeenInv'
      BY <1>0, <1>6, <2>1, <2>4, SeenStays
    <3>5. Quiet(p) => /\ frames'[p] = frames[p]
                      /\ step' # "idle" /\ work'.project = p => work'.kind # "commit"
      BY <1>0, <1>6, <3>1, <3>2, EventsStay DEF Quiet
    <3> HIDE DEF p
    <3>6. Owner' = p /\ Owner = p
      BY <2>2 DEF p
    <3> QED BY <2>1, <2>4, <3>3, <3>4, <3>5, <3>6 DEF Quiet, Apart, Joined
  <2> QED BY <2>1, <2>2, <2>3, <2>4 DEF RecentInv
<1>7. CASE Write
  BY <1>5, <1>6, <1>7 DEF Write
<1>8. CASE UNCHANGED allVars
  <2>1. [Next]_vars /\ UNCHANGED reader /\ running' = running
    BY <1>8 DEF allVars, vars
  <2>2. CASE running
    BY <1>6, <2>1, <2>2
  <2>3. CASE ~running
    BY <2>1, <2>3 DEF ReaderInv, RecentInv, reader
  <2> QED BY <2>2, <2>3
<1> QED BY <1>1, <1>2, <1>3, <1>4, <1>5, <1>7, <1>8 DEF DeepNext, Report

LEMMA UncrashedStep ==
    FilesInv /\ HeldInv /\ ReaderInv /\ UncrashedInv /\ [DeepNext]_allVars => UncrashedInv'
<1> SUFFICES ASSUME FilesInv, HeldInv, ReaderInv, UncrashedInv, [DeepNext]_allVars, Uncrashed'
             PROVE  TornInv' /\ AnswerInv' /\ RecentInv'
  BY DEF UncrashedInv
<1>1. [Next]_vars
  BY DEF DeepNext, ReadProject, ReadPackage, ReadOwner, ReadEvents, Report, Write, allVars
<1>2. TypeInv /\ TypeOK /\ StoreInv
  BY DEF FilesInv, TypeInv
<1>3. Uncrashed /\ ~Kill /\ ~PowerFailure /\ ~Fail(1)
  BY <1>1, <1>2, StillUncrashed
<1>4. TornInv /\ AnswerInv /\ RecentInv
  BY <1>3 DEF UncrashedInv
<1> QED BY <1>1, <1>2, <1>3, <1>4, TornStep, AnswerStep, RecentStep

\* A verification of a project that begins after its freeze was answered reports
\* it valid, as long as every call ended and removed what it failed to write, no
\* two events of the project share a line, and no earlier freeze left the package
\* file of another moment (service.go:163-222, service_test.go:75).
THEOREM AnsweredFreezeVerifies == DeepSpec => []AnsweredFreezeIsValid
<1>1. FilesInv /\ ReaderInv /\ UncrashedInv => AnsweredFreezeIsValid
  <2> SUFFICES ASSUME FilesInv, ReaderInv, UncrashedInv, kills + powerFailures + unremoved = 0,
                      place = "done", seen # NoFile, seen.package # NoPackage,
                      since = seen.revision, packages[seen.content] = seen.package, Apart
               PROVE  verdict = "valid"
    BY DEF AnsweredFreezeIsValid, Apart
  <2>1. Uncrashed
    BY DEF FilesInv, TypeInv, TypeOK, Uncrashed
  <2>2. RecentInv
    BY <2>1 DEF UncrashedInv
  <2>3. seen \in Envelope
    BY DEF ReaderInv, SeenInv
  <2>4. Recent
    BY <2>3 DEF Recent
  <2>5. FoundInv /\ found.content = seen.content
    BY <2>2, <2>4 DEF RecentInv
  <2>6. found = seen.package
    BY <2>5 DEF FoundInv
  <2> QED BY <2>2, <2>4, <2>6 DEF RecentInv, Valid
<1>2. Init /\ ReaderInit => FilesInv /\ HeldInv /\ ReaderInv /\ UncrashedInv
  <2> USE SentinelAssumption
  <2>1. Init => TornInv /\ AnswerInv
    BY DEF Init, TornInv, AnswerInv, Committing
  <2>2. ReaderInit => RecentInv
    BY DEF ReaderInit, RecentInv
  <2> QED BY <2>1, <2>2, InitType, InitStore, InitOwn, InitName, InitEvents, InitHeld, InitReader
          DEF FilesInv, UncrashedInv
<1>3. FilesInv /\ HeldInv /\ [DeepNext]_allVars => HeldInv'
  <2>1. [DeepNext]_allVars => [Next]_vars
    BY DEF DeepNext, ReadProject, ReadPackage, ReadOwner, ReadEvents, Report, Write, allVars
  <2> QED BY <2>1, HeldStep DEF FilesInv
<1> QED BY <1>1, <1>2, <1>3, FilesStep, ReaderStep, UncrashedStep, PTL DEF DeepSpec

=============================================================================
