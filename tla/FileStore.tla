------------------------------- MODULE FileStore -------------------------------
(***************************************************************************)
(* internal/store at the grain of its file operations: atomicJSON and the  *)
(* frame of Commit, SaveRequest, SavePackage, and Open with its            *)
(* verification of the events.  Any of them may return an error, the       *)
(* process may be killed between any two of them, and the power may fail.  *)
(*                                                                         *)
(* The mutex of the store is held from the first to the last file          *)
(* operation of a call, so at most one call is at work, the one in work    *)
(* and step.  Between the two calls of a freeze, SavePackage and Commit,   *)
(* the lock of its project keeps other commands on that project out (see   *)
(* CommandPipeline), not those on others: the three directories are shared.*)
(*                                                                         *)
(* After a power failure a file name stands for one of the contents it may *)
(* have on the disk: what is written and not synced may be torn, and what  *)
(* is created, renamed or removed may be undone until its directory is     *)
(* synced.  After a kill everything written is still there.                *)
(***************************************************************************)
EXTENDS Naturals, Sequences

CONSTANTS Projects,
          NoFile, Torn,            \* no such file; a file or frame written in part
          NoPackage, NoWork,
          Digests,                 \* digests of contents, the names of package files
          MaxCalls,                \* bound on the commands that write
          MaxErrors, MaxKills, MaxPowerFailures

ASSUME BoundAssumption ==
    /\ MaxCalls \in Nat /\ MaxErrors \in Nat /\ MaxKills \in Nat /\ MaxPowerFailures \in Nat

\* What a freeze approves is named by its digest; source is the revision it was
\* made from, frozenAt the moment.
Package == [project : Projects, content : Digests, source : Nat, frozenAt : Nat]

\* The envelope file: the project, which has a package when it is frozen, and
\* the number of failures its records hold besides one acceptance a revision.
Envelope == [revision : Nat, content : Digests, package : Package \cup {NoPackage},
             failed : Nat]

\* An event frame, whole; the digest of an event is known by its revision.  One
\* that is not ended lacks the newline, and shares its line with the next.
Frame == [sequence : Nat, previous : Nat, revision : Nat,
          package : Package \cup {NoPackage}, ended : BOOLEAN]

Work == [kind : {"commit", "request"}, project : Projects, envelope : Envelope]
            \cup [kind : {"package"}, project : Projects, package : Package]

\* A pending file of atomicJSON, and what an append wrote to an event file.
TempFile == [content : Envelope \cup {Torn}, synced : BOOLEAN]
Line == Frame \cup {Torn}

ASSUME SentinelAssumption ==
    /\ NoFile \notin Envelope \cup Package /\ Torn \notin Envelope \cup Package \cup Frame
    /\ NoFile # Torn /\ NoPackage \notin Package /\ NoWork \notin Work

VARIABLES
    envelopes,        \* projects/<id>.json as readers see it
    envelopesOnDisk,  \* the contents a power failure may leave there
    leftovers,        \* projects/.pending-*.json files of calls that ended in a crash
    frames,           \* events/<id>.frames
    framesSynced,     \* how many of its frames are synced
    framesListed,     \* projects whose event file is known to be in its directory on the disk
    packages,         \* packages/<digest>.json
    packagesOnDisk,
    packagesSynced,   \* the package files whose content is synced
    running,          \* the service was started and has the store open
    work, step, temp, \* the call at work, its next file operation, its pending file
    approved,         \* packages saved by freezes that have not committed yet
    calls,            \* commands that wrote so far, which serves as the clock
    answered,         \* the last revision whose Commit returned no error
    cutOff,           \* projects one of whose appends was not completed
    vanished,         \* projects whose event file a power failure took
    errors, kills, powerFailures,
    unremoved         \* errors after which the file of the call stayed, as its removal failed

projectFiles == <<envelopes, envelopesOnDisk, leftovers>>
eventFiles == <<frames, framesSynced, framesListed>>
packageFiles == <<packages, packagesOnDisk, packagesSynced>>
files == <<projectFiles, eventFiles, packageFiles>>
ghosts == <<answered, cutOff, vanished>>
mishaps == <<errors, unremoved>>
faults == <<mishaps, kills, powerFailures>>
vars == <<files, running, work, step, temp, approved, calls, ghosts, faults>>

Steps == {"idle", "creating", "writing", "syncing", "renaming", "settling", "framing",
          "flushing", "opening", "filling", "keeping", "listing"}

-----------------------------------------------------------------------------
(* What readers make of the files. *)

\* The i-th frame stands on the line of the one before it.
Joined(file, i) == i > 1 /\ file[i - 1] # Torn /\ ~file[i - 1].ended

\* readEventsUnlocked: an incomplete line, a line of two frames, a gap in the
\* numbers and a foreign predecessor are errors; a last line without its newline
\* is none.
Readable(file) ==
    \A i \in DOMAIN file :
        /\ file[i] # Torn /\ ~Joined(file, i)
        /\ file[i].sequence = i
        /\ file[i].previous = IF i = 1 THEN 0 ELSE file[i - 1].revision

\* verifyAllEvents.
Opens == \A p \in Projects : Readable(frames[p])

\* ListProjects: its pattern matches the pending files too.
ListProjectsFails ==
    \/ \E p \in Projects : envelopes[p] = Torn
    \/ \E t \in leftovers : t.content = Torn

-----------------------------------------------------------------------------
Init ==
    /\ envelopes = [p \in Projects |-> NoFile]
    /\ envelopesOnDisk = [p \in Projects |-> {NoFile}]
    /\ leftovers = {}
    /\ frames = [p \in Projects |-> <<>>]
    /\ framesSynced = [p \in Projects |-> 0]
    /\ framesListed = {}
    /\ packages = [d \in Digests |-> NoFile]
    /\ packagesOnDisk = [d \in Digests |-> {NoFile}]
    /\ packagesSynced = {}
    /\ running = TRUE
    /\ work = NoWork /\ step = "idle" /\ temp = NoFile
    /\ approved = [p \in Projects |-> NoPackage]
    /\ calls = 0
    /\ answered = [p \in Projects |-> 0]
    /\ cutOff = {} /\ vanished = {}
    /\ errors = 0 /\ unremoved = 0 /\ kills = 0 /\ powerFailures = 0

Free == running /\ step = "idle"

Begin(w, first) == work' = w /\ step' = first
\* The call returns.
Return == work' = NoWork /\ step' = "idle" /\ temp' = NoFile
\* A file operation fails, and with it as many removals of what the call leaves.
Fail(removals) ==
    /\ errors < MaxErrors /\ errors' = errors + 1
    /\ unremoved' = unremoved + removals
Error == Fail(0)
Continue(next) == step' = next /\ UNCHANGED <<work, mishaps>>

\* Contents that the directories know or may know after a power failure.
UsedDigests ==
    {e.content : e \in (UNION {envelopesOnDisk[p] : p \in Projects}) \cap Envelope}
        \cup {d \in Digests : packagesOnDisk[d] # {NoFile}}

\* The command's bound, and its moment.
Call == calls < MaxCalls /\ calls' = calls + 1

\* Commit of a command other than a freeze, which makes another content.
CommitEdit(p) ==
    /\ Free /\ approved[p] = NoPackage /\ Call
    /\ \E d \in Digests \ UsedDigests :
          \/ /\ envelopes[p] = NoFile
             /\ Begin([kind |-> "commit", project |-> p,
                       envelope |-> [revision |-> 1, content |-> d, package |-> NoPackage,
                                     failed |-> 0]], "creating")
          \/ /\ envelopes[p] \in Envelope
             /\ envelopes[p].package = NoPackage
             /\ Begin([kind |-> "commit", project |-> p,
                       envelope |-> [envelopes[p] EXCEPT !.revision = @ + 1, !.content = d]],
                      "creating")
    /\ UNCHANGED <<files, running, temp, approved, ghosts, faults>>

\* SaveRequest of a failure.
SaveRequest(p) ==
    /\ Free /\ approved[p] = NoPackage /\ Call
    /\ envelopes[p] \in Envelope
    /\ Begin([kind |-> "request", project |-> p,
              envelope |-> [envelopes[p] EXCEPT !.failed = @ + 1]], "creating")
    /\ UNCHANGED <<files, running, temp, approved, ghosts, faults>>

\* SavePackage, called by the mutation of a freeze.
SavePackage(p) ==
    /\ Free /\ approved[p] = NoPackage /\ Call
    /\ envelopes[p] \in Envelope /\ envelopes[p].package = NoPackage
    /\ Begin([kind |-> "package", project |-> p,
              package |-> [project |-> p, content |-> envelopes[p].content,
                           source |-> envelopes[p].revision, frozenAt |-> calls']], "opening")
    /\ UNCHANGED <<files, running, temp, approved, ghosts, faults>>

\* Commit of the freeze whose package was saved.
CommitFreeze(p) ==
    /\ Free /\ approved[p] # NoPackage
    /\ Begin([kind |-> "commit", project |-> p,
              envelope |-> [envelopes[p] EXCEPT !.revision = @ + 1, !.package = approved[p]]],
             "creating")
    /\ approved' = [approved EXCEPT ![p] = NoPackage]
    /\ UNCHANGED <<files, running, temp, calls, ghosts, faults>>

\* The context was cancelled meanwhile, and Commit returns at once.
AbandonFreeze(p) ==
    /\ Free /\ approved[p] # NoPackage
    /\ Error
    /\ approved' = [approved EXCEPT ![p] = NoPackage]
    /\ UNCHANGED <<files, running, work, step, temp, calls, ghosts, kills, powerFailures>>

-----------------------------------------------------------------------------
(* atomicJSON. *)

\* Mutation: the pending file stays.
GiveUpLittering ==
    /\ Error /\ Return
    /\ leftovers' = leftovers \cup (IF temp = NoFile THEN {} ELSE {temp})
    /\ UNCHANGED <<envelopes, envelopesOnDisk>>

\* An error before the rename removes the pending file, if there is one yet; an
\* error of the removal is dropped.
GiveUp ==
    /\ Return
    /\ \/ Error /\ UNCHANGED leftovers
       \/ temp # NoFile /\ Fail(1) /\ leftovers' = leftovers \cup {temp}
    /\ UNCHANGED <<envelopes, envelopesOnDisk>>

CreateTemp ==
    /\ step = "creating"
    /\ \/ /\ temp' = [content |-> Torn, synced |-> FALSE]
          /\ Continue("writing")
          /\ UNCHANGED projectFiles
       \/ GiveUp
    /\ UNCHANGED <<eventFiles, packageFiles, running, approved, calls, ghosts, kills, powerFailures>>

WriteTemp ==
    /\ step = "writing"
    /\ \/ /\ temp' = [content |-> work.envelope, synced |-> FALSE]
          /\ Continue("syncing")
          /\ UNCHANGED projectFiles
       \/ GiveUp
    /\ UNCHANGED <<eventFiles, packageFiles, running, approved, calls, ghosts, kills, powerFailures>>

\* Mutation: the pending file is not synced.
SyncTempSkipped ==
    /\ step = "syncing"
    /\ Continue("renaming")
    /\ UNCHANGED <<files, running, temp, approved, calls, ghosts, kills, powerFailures>>

\* Sync, Close and Chmod.
SyncTemp ==
    /\ step = "syncing"
    /\ \/ /\ temp' = [temp EXCEPT !.synced = TRUE]
          /\ Continue("renaming")
          /\ UNCHANGED projectFiles
       \/ GiveUp
    /\ UNCHANGED <<eventFiles, packageFiles, running, approved, calls, ghosts, kills, powerFailures>>

RenameTemp ==
    /\ step = "renaming"
    /\ \/ /\ envelopes' = [envelopes EXCEPT ![work.project] = temp.content]
          /\ envelopesOnDisk' = [envelopesOnDisk EXCEPT ![work.project] =
                @ \cup {temp.content} \cup (IF temp.synced THEN {} ELSE {Torn})]
          /\ temp' = NoFile
          /\ Continue("settling")
          /\ UNCHANGED leftovers
       \/ GiveUp
    /\ UNCHANGED <<eventFiles, packageFiles, running, approved, calls, ghosts,
                   kills, powerFailures>>

\* Mutation: the directory is not synced.
SyncProjectsSkipped ==
    /\ step = "settling"
    /\ \/ work.kind = "commit" /\ step' = "framing" /\ UNCHANGED <<work, temp>>
       \/ work.kind = "request" /\ Return
    /\ UNCHANGED <<files, running, approved, calls, ghosts, faults>>

\* Mutation: an error of the sync is dropped.
SyncProjectsUnchecked ==
    /\ step = "settling"
    /\ \/ envelopesOnDisk' = [p \in Projects |-> {envelopes[p]}] /\ UNCHANGED mishaps
       \/ Error /\ UNCHANGED envelopesOnDisk
    /\ \/ work.kind = "commit" /\ step' = "framing" /\ UNCHANGED <<work, temp>>
       \/ work.kind = "request" /\ Return
    /\ UNCHANGED <<envelopes, leftovers, eventFiles, packageFiles, running, approved, calls,
                   ghosts, kills, powerFailures>>

\* The sync of the directory settles what every name in it stands for.
SyncProjects ==
    /\ step = "settling"
    /\ \/ /\ envelopesOnDisk' = [p \in Projects |-> {envelopes[p]}]
          /\ UNCHANGED mishaps
          /\ \/ work.kind = "commit" /\ step' = "framing" /\ UNCHANGED <<work, temp>>
             \/ work.kind = "request" /\ Return
       \/ Error /\ Return /\ UNCHANGED envelopesOnDisk
    /\ UNCHANGED <<envelopes, leftovers, eventFiles, packageFiles, running, approved, calls,
                   ghosts, kills, powerFailures>>

-----------------------------------------------------------------------------
(* appendEventLocked. *)

\* Mutation: frames are numbered by the revision.
NextFrameByRevision(file, e) ==
    [sequence |-> e.revision,
     previous |-> IF file = <<>> THEN 0 ELSE file[Len(file)].revision,
     revision |-> e.revision, package |-> e.package, ended |-> TRUE]

NextFrame(file, e) ==
    [sequence |-> Len(file) + 1,
     previous |-> IF file = <<>> THEN 0 ELSE file[Len(file)].revision,
     revision |-> e.revision, package |-> e.package, ended |-> TRUE]

\* What is there of a frame that was not written to its end: a part of its text,
\* or all of it and no newline.
Cuts(line) == {Torn} \cup IF line = Torn THEN {} ELSE {[line EXCEPT !.ended = FALSE]}
AppendCut ==
    LET p == work.project
    IN  \E cut \in Cuts(NextFrame(frames[p], work.envelope)) :
            frames' = [frames EXCEPT ![p] = Append(@, cut)]

\* A write that fails may have written a part.
WriteFrame ==
    /\ step = "framing"
    /\ LET p == work.project IN
       \/ /\ ~Readable(frames[p])
          /\ Return
          /\ UNCHANGED <<frames, cutOff, mishaps>>
       \/ /\ Readable(frames[p])
          /\ frames' = [frames EXCEPT ![p] = Append(@, NextFrame(@, work.envelope))]
          /\ Continue("flushing")
          /\ UNCHANGED <<temp, cutOff>>
       \/ /\ Readable(frames[p])
          /\ Error /\ Return
          /\ \/ UNCHANGED <<frames, cutOff>>
             \/ AppendCut /\ cutOff' = cutOff \cup {p}
    /\ UNCHANGED <<projectFiles, framesSynced, framesListed, packageFiles, running, approved,
                   calls, answered, vanished, kills, powerFailures>>

\* Mutation: the frame is not synced.
SyncFrameSkipped ==
    /\ step = "flushing"
    /\ answered' = [answered EXCEPT ![work.project] = work.envelope.revision]
    /\ Return
    /\ UNCHANGED <<files, running, approved, calls, cutOff, vanished, faults>>

SyncFrame ==
    /\ step = "flushing"
    /\ LET p == work.project IN
       \/ /\ framesSynced' = [framesSynced EXCEPT ![p] = Len(frames[p])]
          /\ answered' = [answered EXCEPT ![p] = work.envelope.revision]
          /\ Return /\ UNCHANGED <<mishaps, cutOff>>
       \/ /\ Error /\ Return
          /\ cutOff' = cutOff \cup {p}
          /\ UNCHANGED <<framesSynced, answered>>
    /\ UNCHANGED <<projectFiles, frames, framesListed, packageFiles, running, approved,
                   calls, vanished, kills, powerFailures>>

-----------------------------------------------------------------------------
(* SavePackage. *)

Digest == work.package.content
Holds(content) == packages' = [packages EXCEPT ![Digest] = content]
MayHold(content) == packagesOnDisk' = [packagesOnDisk EXCEPT ![Digest] = @ \cup {content}]
Approve == approved' = [approved EXCEPT ![work.project] = work.package]

\* An error after the file was created removes it; the removal is not synced, and
\* an error of it is dropped.
RemovePackage ==
    /\ Return
    /\ \/ /\ Error
          /\ Holds(NoFile) /\ MayHold(NoFile) /\ packagesSynced' = packagesSynced \ {Digest}
       \/ Fail(1) /\ UNCHANGED packageFiles
    /\ UNCHANGED approved

\* The file is created exclusively.  One that is there is read and kept.
OpenPackage ==
    /\ step = "opening"
    /\ \/ /\ packages[Digest] = NoFile
          /\ Holds(Torn) /\ MayHold(Torn)
          /\ Continue("filling")
          /\ UNCHANGED <<packagesSynced, temp, approved>>
       \/ /\ packages[Digest] = NoFile
          /\ Error /\ Return
          /\ UNCHANGED <<packageFiles, approved>>
       \/ /\ packages[Digest] = Torn
          /\ Return
          /\ UNCHANGED <<packageFiles, approved, mishaps>>
       \/ /\ packages[Digest] \in Package
          /\ Return /\ Approve
          /\ UNCHANGED <<packageFiles, mishaps>>
    /\ UNCHANGED <<projectFiles, eventFiles, running, calls, ghosts, kills, powerFailures>>

WritePackage ==
    /\ step = "filling"
    /\ \/ /\ Holds(work.package) /\ MayHold(work.package)
          /\ Continue("keeping")
          /\ UNCHANGED <<packagesSynced, temp, approved>>
       \/ RemovePackage
    /\ UNCHANGED <<projectFiles, eventFiles, running, calls, ghosts, kills, powerFailures>>

SyncPackage ==
    /\ step = "keeping"
    /\ \/ /\ packagesSynced' = packagesSynced \cup {Digest}
          /\ Continue("listing")
          /\ UNCHANGED <<packages, packagesOnDisk, temp, approved>>
       \/ RemovePackage
    /\ UNCHANGED <<projectFiles, eventFiles, running, calls, ghosts, kills, powerFailures>>

\* Mutation: the directory is not synced.
SyncPackagesSkipped ==
    /\ step = "listing"
    /\ Return /\ Approve
    /\ UNCHANGED <<files, running, calls, ghosts, faults>>

\* What the sync of the directory leaves open is the content of other files
\* that were never synced themselves.
Settled(d) ==
    {packages[d]} \cup IF packages[d] = NoFile \/ d \in packagesSynced THEN {} ELSE {Torn}
SyncPackages ==
    /\ step = "listing"
    /\ \/ /\ packagesOnDisk' = [d \in Digests |-> Settled(d)]
          /\ Return /\ Approve
          /\ UNCHANGED <<packages, packagesSynced, mishaps>>
       \/ RemovePackage
    /\ UNCHANGED <<projectFiles, eventFiles, running, calls, ghosts, kills, powerFailures>>

-----------------------------------------------------------------------------
(* Crashes. *)

Pending == IF temp = NoFile THEN {} ELSE {temp}

\* Whatever the call at work has not done will not be done.
Stop ==
    /\ running /\ running' = FALSE
    /\ work' = NoWork /\ step' = "idle" /\ temp' = NoFile
    /\ approved' = [p \in Projects |-> NoPackage]
    /\ cutOff' = cutOff \cup {p \in Projects : step \in {"framing", "flushing"} /\ p = work.project}
    /\ UNCHANGED <<calls, answered, mishaps>>

\* The process is killed; a frame may be written in part.
Kill ==
    /\ kills < MaxKills /\ kills' = kills + 1
    /\ Stop
    /\ leftovers' = leftovers \cup Pending
    /\ \/ UNCHANGED frames
       \/ step = "framing" /\ Readable(frames[work.project]) /\ AppendCut
    /\ UNCHANGED <<envelopes, envelopesOnDisk, framesSynced, framesListed, packageFiles,
                   vanished, powerFailures>>

\* What a power failure may leave of a pending file, if it leaves it.
Remains(t) == {[content |-> c, synced |-> TRUE] :
                   c \in {t.content} \cup (IF t.synced THEN {} ELSE {Torn})}

\* The synced frames stay, of the others some, the last of them maybe in part.
\* No sync covers the directory of the event files, so a new file may be gone.
FrameOutcomes(p) ==
    {SubSeq(frames[p], 1, n) : n \in framesSynced[p]..Len(frames[p])}
        \cup (UNION {{Append(SubSeq(frames[p], 1, n), cut) : cut \in Cuts(frames[p][n + 1])} :
                          n \in framesSynced[p]..(Len(frames[p]) - 1)})
        \cup (IF p \in framesListed THEN {} ELSE {<<>>})

PowerFailure ==
    /\ powerFailures < MaxPowerFailures /\ powerFailures' = powerFailures + 1
    /\ Stop
    /\ envelopes' \in {f \in [Projects -> UNION {envelopesOnDisk[p] : p \in Projects}] :
                           \A p \in Projects : f[p] \in envelopesOnDisk[p]}
    /\ envelopesOnDisk' = [p \in Projects |-> {envelopes'[p]}]
    /\ leftovers' \in SUBSET UNION {Remains(t) : t \in leftovers \cup Pending}
    /\ frames' \in {f \in [Projects -> UNION {FrameOutcomes(p) : p \in Projects}] :
                           \A p \in Projects : f[p] \in FrameOutcomes(p)}
    /\ framesSynced' = [p \in Projects |-> Len(frames'[p])]
    /\ framesListed' = {p \in Projects : frames'[p] # <<>>}
    /\ vanished' = vanished \cup {p \in Projects : Len(frames'[p]) < framesSynced[p]}
    /\ packages' \in {f \in [Digests -> UNION {packagesOnDisk[d] : d \in Digests}] :
                           \A d \in Digests : f[d] \in packagesOnDisk[d]}
    /\ packagesOnDisk' = [d \in Digests |-> {packages'[d]}]
    /\ packagesSynced' = {d \in Digests : packages'[d] # NoFile}
    /\ UNCHANGED kills

\* newRuntime: the service starts if the store opens.
Start ==
    /\ ~running /\ Opens
    /\ running' = TRUE
    /\ UNCHANGED <<files, work, step, temp, approved, calls, ghosts, faults>>

Next ==
    \/ \E p \in Projects : \/ CommitEdit(p) \/ SaveRequest(p) \/ SavePackage(p)
                           \/ CommitFreeze(p) \/ AbandonFreeze(p)
    \/ CreateTemp \/ WriteTemp \/ SyncTemp \/ RenameTemp \/ SyncProjects
    \/ WriteFrame \/ SyncFrame
    \/ OpenPackage \/ WritePackage \/ SyncPackage \/ SyncPackages
    \/ Kill \/ PowerFailure \/ Start

Spec == Init /\ [][Next]_vars

-----------------------------------------------------------------------------
(* Properties. *)

\* Every variable has its type; in particular no envelope is ever torn, which
\* the pending file, its sync and the rename are for (atomic.go).
TypeOK ==
    /\ envelopes \in [Projects -> Envelope \cup {NoFile}]
    /\ envelopesOnDisk \in [Projects -> SUBSET (Envelope \cup {NoFile})]
    /\ leftovers \subseteq TempFile
    /\ frames \in [Projects -> Seq(Line)]
    /\ framesSynced \in [Projects -> Nat]
    /\ framesListed \subseteq Projects
    /\ packages \in [Digests -> Package \cup {NoFile, Torn}]
    /\ packagesOnDisk \in [Digests -> SUBSET (Package \cup {NoFile, Torn})]
    /\ packagesSynced \subseteq Digests
    /\ running \in BOOLEAN
    /\ work \in Work \cup {NoWork}
    /\ step \in Steps
    /\ temp \in TempFile \cup {NoFile}
    /\ approved \in [Projects -> Package \cup {NoPackage}]
    /\ calls \in Nat
    /\ answered \in [Projects -> Nat]
    /\ cutOff \subseteq Projects /\ vanished \subseteq Projects
    /\ errors \in Nat /\ unremoved \in Nat /\ kills \in Nat /\ powerFailures \in Nat

\* The events are those of revisions the project has, in their order, and a
\* freeze in the events is the freeze of the project: now, and whatever a power
\* failure leaves (projects.go:130-135).
EventsFollowEnvelopes ==
    \A p \in Projects : \A i \in DOMAIN frames[p] : frames[p][i] # Torn =>
            /\ \A e \in envelopesOnDisk[p] :
                  /\ e # NoFile /\ frames[p][i].revision <= e.revision
                  /\ frames[p][i].package \in {NoPackage, e.package}
            /\ \A j \in 1..(i - 1) : frames[p][j].revision < frames[p][i].revision

\* However many events are missing because calls failed or the process ended:
\* without what the last append wrote, an event file always reads well, and with
\* it unless an append was cut off; all other projects keep accepting commands
\* and keep no start from working (events.go:37-138).
ChainReadable ==
    \A p \in Projects :
        \/ Readable(frames[p])
        \/ p \in cutOff /\ Readable(SubSeq(frames[p], 1, Len(frames[p]) - 1))

\* The last revision whose commit returned without error has its event, whole and
\* with its newline, after any crash that leaves the event file; and a reader gets
\* to it, unless the append before it was cut off right before its newline and the
\* two share a line (events.go:63-71).
AnsweredHasEvent ==
    \A p \in Projects : answered[p] # 0 /\ p \notin vanished =>
        \E i \in DOMAIN frames[p] :
            /\ frames[p][i] # Torn /\ frames[p][i].ended
            /\ frames[p][i].revision = answered[p]
            /\ Readable(SubSeq(frames[p], 1, i)) \/ Joined(frames[p], i)

HasPackage(p) ==
    /\ packages[envelopes[p].content] \in Package
    /\ packages[envelopes[p].content].project = p
Frozen(p) == envelopes[p] \in Envelope /\ envelopes[p].package # NoPackage

\* A frozen project has its package file, whole, after kills and after power
\* failures.  Where a power failure comes after a kill, or after a removal that
\* failed, the file may be gone: it was kept unsynced (review_ops.go:130,
\* packages.go:13-70).
FrozenHasPackage ==
    kills + unremoved = 0 \/ powerFailures = 0 => \A p \in Projects : Frozen(p) => HasPackage(p)

\* Whatever calls fail, the list of projects works and shows every project once,
\* as long as no call leaves its pending file: that takes the end of the process
\* amid a call, or a removal that fails too (atomic.go:18-23, projects.go:84-104).
ListShowsProjects == kills + powerFailures + unremoved = 0 => ~ListProjectsFails /\ leftovers = {}

\* The envelopes are an atomic store: a new one is there in whole or not at all,
\* and what was answered survives everything.
Atomic == INSTANCE AtomicStore WITH
    value <- envelopes, durable <- envelopesOnDisk, NoValue <- NoFile
IsAtomicStore == Atomic!Spec
=============================================================================
