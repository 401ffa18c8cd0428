---------------------------- MODULE FileStoreProofs ----------------------------
(***************************************************************************)
(* Theorems about FileStore, for every set of projects and digests and any  *)
(* number of commands, errors, kills and power failures.                    *)
(***************************************************************************)
EXTENDS FileStore, SequenceTheorems, TLAPS

-----------------------------------------------------------------------------
(* Event files as lists. *)

\* What a prefix is made of.
LEMMA PrefixFacts ==
    ASSUME NEW T, NEW s \in Seq(T), NEW n \in 0..Len(s)
    PROVE  /\ SubSeq(s, 1, n) \in Seq(T) /\ Len(SubSeq(s, 1, n)) = n
           /\ \A i \in 1..n : SubSeq(s, 1, n)[i] = s[i]
<1>1. Len(s) \in Nat /\ \A i \in 1..n : s[i] \in T
  BY LenProperties, ElementOfSeq
<1> QED BY <1>1, SubSeqProperties

\* What appending one line does.
LEMMA AppendFacts ==
    ASSUME NEW T, NEW s \in Seq(T), NEW e \in T
    PROVE  /\ Append(s, e) \in Seq(T) /\ Len(Append(s, e)) = Len(s) + 1
           /\ \A i \in 1..Len(s) : Append(s, e)[i] = s[i]
           /\ Append(s, e)[Len(s) + 1] = e
  OBVIOUS

\* What is left of a frame that was cut.
LEMMA CutsFacts ==
    ASSUME NEW line \in Line, NEW cut \in Cuts(line)
    PROVE  /\ cut \in Line
           /\ cut # Torn =>
                 /\ line # Torn /\ ~cut.ended
                 /\ cut.sequence = line.sequence /\ cut.previous = line.previous
                 /\ cut.revision = line.revision /\ cut.package = line.package
<1> DEFINE rest == [line EXCEPT !.ended = FALSE]
<1>1. line \in Frame =>
         /\ rest \in Frame /\ ~rest.ended
         /\ rest.sequence = line.sequence /\ rest.previous = line.previous
         /\ rest.revision = line.revision /\ rest.package = line.package
  BY DEF Frame
<1>2. cut = Torn \/ (line # Torn /\ cut = rest)
  BY DEF Cuts
<1> QED BY <1>1, <1>2 DEF Line

\* A power failure leaves some first lines of an event file, after them maybe
\* one cut off that was not synced, or no file.
LEMMA FrameOutcomesFacts ==
    ASSUME NEW p \in Projects, frames[p] \in Seq(Line), framesSynced[p] \in Nat,
           NEW f \in FrameOutcomes(p)
    PROVE  \/ f = <<>>
           \/ \E n \in framesSynced[p]..Len(frames[p]) : f = SubSeq(frames[p], 1, n)
           \/ \E n \in framesSynced[p]..(Len(frames[p]) - 1) :
                 \E cut \in Cuts(frames[p][n + 1]) :
                    f = Append(SubSeq(frames[p], 1, n), cut)
<1> DEFINE Prefixes == {SubSeq(frames[p], 1, n) : n \in framesSynced[p]..Len(frames[p])}
           CutAfter(n) == {Append(SubSeq(frames[p], 1, n), cut) : cut \in Cuts(frames[p][n + 1])}
           NoneLeft == IF p \in framesListed THEN {} ELSE {<<>>}
<1>1. FrameOutcomes(p) = Prefixes
                            \cup (UNION {CutAfter(n) : n \in framesSynced[p]..(Len(frames[p]) - 1)})
                            \cup NoneLeft
  BY Zenon DEF FrameOutcomes
<1>2. CASE f \in Prefixes
  BY <1>2
<1>3. ASSUME NEW n \in framesSynced[p]..(Len(frames[p]) - 1), f \in CutAfter(n)
      PROVE  \E cut \in Cuts(frames[p][n + 1]) : f = Append(SubSeq(frames[p], 1, n), cut)
  BY <1>3
<1>4. CASE f \in NoneLeft
  BY <1>4
<1>5. f \in Prefixes \/ f \in NoneLeft
         \/ \E n \in framesSynced[p]..(Len(frames[p]) - 1) : f \in CutAfter(n)
  <2> HIDE DEF Prefixes, CutAfter, NoneLeft
  <2> QED BY <1>1
<1> QED BY <1>2, <1>3, <1>4, <1>5

LEMMA FrameOutcomesType ==
    ASSUME NEW p \in Projects, frames[p] \in Seq(Line), framesSynced[p] \in Nat,
           NEW f \in FrameOutcomes(p)
    PROVE  f \in Seq(Line)
<1>1. Len(frames[p]) \in Nat
  BY LenProperties
<1>2. CASE f = <<>>
  BY <1>2, EmptySeq
<1>3. ASSUME NEW n \in framesSynced[p]..Len(frames[p]), f = SubSeq(frames[p], 1, n)
      PROVE  f \in Seq(Line)
  <2>1. n \in 0..Len(frames[p])
    BY <1>1
  <2> QED BY <1>3, <2>1, PrefixFacts
<1>4. ASSUME NEW n \in framesSynced[p]..(Len(frames[p]) - 1),
             NEW cut \in Cuts(frames[p][n + 1]), f = Append(SubSeq(frames[p], 1, n), cut)
      PROVE  f \in Seq(Line)
  <2>1. n \in 0..Len(frames[p]) /\ n + 1 \in 1..Len(frames[p])
    BY <1>1
  <2>3. frames[p][n + 1] \in Line
    BY <2>1, ElementOfSeq
  <2>4. cut \in Line
    BY <2>3, CutsFacts
  <2>2. SubSeq(frames[p], 1, n) \in Seq(Line)
    BY <2>1, PrefixFacts
  <2> QED BY <1>4, <2>2, <2>4, AppendFacts
<1> QED BY <1>2, <1>3, <1>4, FrameOutcomesFacts

-----------------------------------------------------------------------------
(* Calls. *)

\* Which call is at work where, and what its pending file holds.
WorkInv ==
    /\ work = NoWork <=> step = "idle"
    /\ ~running => step = "idle"
    /\ step \in {"creating", "writing", "syncing", "renaming", "settling"} =>
          work.kind \in {"commit", "request"}
    /\ step \in {"framing", "flushing"} => work.kind = "commit"
    /\ step \in {"opening", "filling", "keeping", "listing"} => work.kind = "package"
    /\ step \in {"syncing", "renaming"} => temp \in TempFile /\ temp.content = work.envelope
    /\ step = "renaming" => temp.synced

\* A package that waits for its commit is that of a project that is not frozen
\* and that no other call is about.
ApprovedInv ==
    /\ \A p \in Projects : approved[p] # NoPackage =>
          /\ envelopes[p] \in Envelope /\ envelopes[p].package = NoPackage
          /\ step # "idle" => work.project # p
    /\ step \in {"opening", "filling", "keeping", "listing"} =>
          envelopes[work.project] \in Envelope /\ envelopes[work.project].package = NoPackage

TypeInv == TypeOK /\ WorkInv /\ ApprovedInv

LEMMA WorkKinds ==
    ASSUME NEW w \in Work
    PROVE  /\ w.project \in Projects
           /\ w.kind \in {"commit", "request"} => w.envelope \in Envelope
           /\ w.kind = "package" => w.package \in Package
           /\ w.kind \in {"commit", "request", "package"}
  BY DEF Work

LEMMA InitType == Init => TypeInv
  BY BoundAssumption, SentinelAssumption, EmptySeq
     DEF Init, TypeInv, TypeOK, WorkInv, ApprovedInv, Line, Steps

\* The envelopes a call may write.
LEMMA EditedEnvelope ==
    ASSUME NEW e \in Envelope, NEW d \in Digests
    PROVE  [e EXCEPT !.revision = @ + 1, !.content = d] \in Envelope
<1> DEFINE f == [e EXCEPT !.revision = @ + 1]
<1>1. f \in Envelope
  BY DEF Envelope
<1>2. [f EXCEPT !.content = d] \in Envelope
  BY <1>1 DEF Envelope
<1>3. [e EXCEPT !.revision = @ + 1, !.content = d] = [f EXCEPT !.content = d]
  OBVIOUS
<1> QED BY <1>2, <1>3

LEMMA FailedEnvelope ==
    ASSUME NEW e \in Envelope
    PROVE  [e EXCEPT !.failed = @ + 1] \in Envelope
  BY DEF Envelope

LEMMA FrozenEnvelope ==
    ASSUME NEW e \in Envelope, NEW pkg \in Package
    PROVE  [e EXCEPT !.revision = @ + 1, !.package = pkg] \in Envelope
<1> DEFINE f == [e EXCEPT !.revision = @ + 1]
<1>1. f \in Envelope
  BY DEF Envelope
<1>2. [f EXCEPT !.package = pkg] \in Envelope
  BY <1>1 DEF Envelope
<1>3. [e EXCEPT !.revision = @ + 1, !.package = pkg] = [f EXCEPT !.package = pkg]
  OBVIOUS
<1> QED BY <1>2, <1>3

LEMMA WorkOf ==
    ASSUME NEW p \in Projects, NEW e \in Envelope
    PROVE  /\ [kind |-> "commit", project |-> p, envelope |-> e] \in Work
           /\ [kind |-> "request", project |-> p, envelope |-> e] \in Work
  BY DEF Work

\* The frame that goes to the end of a readable file.
LEMMA NextFrameType ==
    ASSUME NEW f \in Seq(Line), NEW e \in Envelope, Readable(f)
    PROVE  NextFrame(f, e) \in Frame
<1>1. Len(f) \in Nat /\ DOMAIN f = 1..Len(f)
  BY LenProperties
<1>2. f # <<>> => f[Len(f)] \in Frame
  <2>1. f # <<>> => Len(f) \in DOMAIN f /\ f[Len(f)] \in Line
    BY <1>1, EmptySeq, ElementOfSeq
  <2> QED BY <2>1 DEF Readable, Line
<1> QED BY <1>1, <1>2 DEF NextFrame, Frame, Envelope

\* A call at work that is cut off while it appends: one line more, which is part
\* of the next frame.
LEMMA AppendCutFacts ==
    ASSUME TypeInv, step = "framing", Readable(frames[work.project]), AppendCut
    PROVE  /\ frames' \in [Projects -> Seq(Line)]
           /\ \E cut \in Line :
                 /\ frames' = [frames EXCEPT ![work.project] = Append(@, cut)]
                 /\ cut # Torn => /\ ~cut.ended /\ cut.revision = work.envelope.revision
                                  /\ cut.package = work.envelope.package
<1> DEFINE p == work.project
           next == NextFrame(frames[p], work.envelope)
<1>1. work \in Work /\ work.kind = "commit"
  BY DEF TypeInv, TypeOK, WorkInv
<1>2. p \in Projects /\ work.envelope \in Envelope /\ frames[p] \in Seq(Line)
  BY <1>1, WorkKinds DEF TypeInv, TypeOK
<1>3. next \in Frame
  BY <1>2, NextFrameType
<1>4. PICK cut \in Cuts(next) : frames' = [frames EXCEPT ![p] = Append(@, cut)]
  BY Zenon DEF AppendCut
<1>5. /\ cut \in Line
      /\ cut # Torn => ~cut.ended /\ cut.revision = next.revision /\ cut.package = next.package
  <2>1. next \in Line
    BY <1>3 DEF Line
  <2> HIDE DEF next
  <2> QED BY <1>4, <2>1, CutsFacts
<1>8. next.revision = work.envelope.revision /\ next.package = work.envelope.package
  BY DEF NextFrame
<1>6. Append(frames[p], cut) \in Seq(Line)
  BY <1>2, <1>5, AppendFacts
<1>7. frames' \in [Projects -> Seq(Line)]
  BY <1>2, <1>4, <1>6 DEF TypeInv, TypeOK
<1> QED BY <1>4, <1>5, <1>7, <1>8

\* Another content a package file may have keeps the type.
LEMMA MayHoldType ==
    ASSUME packagesOnDisk \in [Digests -> SUBSET (Package \cup {NoFile, Torn})],
           NEW c \in Package \cup {NoFile, Torn}, NEW d \in Digests
    PROVE  [packagesOnDisk EXCEPT ![d] = @ \cup {c}]
               \in [Digests -> SUBSET (Package \cup {NoFile, Torn})]
<1>1. packagesOnDisk[d] \cup {c} \in SUBSET (Package \cup {NoFile, Torn})
  OBVIOUS
<1> QED BY <1>1

LEMMA TypeStep == TypeInv /\ [Next]_vars => TypeInv'
<1> SUFFICES ASSUME TypeInv, [Next]_vars
             PROVE  TypeInv'
  OBVIOUS
<1> USE BoundAssumption, SentinelAssumption
<1> USE DEF TypeInv, TypeOK, WorkInv, ApprovedInv, Steps
<1>1. ASSUME NEW p \in Projects, CommitEdit(p)
      PROVE  TypeInv'
  <2>1. PICK e \in Envelope : Begin([kind |-> "commit", project |-> p, envelope |-> e], "creating")
    <3>1. PICK d \in Digests :
             \/ Begin([kind |-> "commit", project |-> p,
                       envelope |-> [revision |-> 1, content |-> d, package |-> NoPackage,
                                     failed |-> 0]], "creating")
             \/ /\ envelopes[p] \in Envelope
                /\ Begin([kind |-> "commit", project |-> p,
                          envelope |-> [envelopes[p] EXCEPT !.revision = @ + 1, !.content = d]],
                         "creating")
      BY <1>1, Zenon DEF CommitEdit
    <3>2. [revision |-> 1, content |-> d, package |-> NoPackage, failed |-> 0] \in Envelope
      BY DEF Envelope
    <3>3. envelopes[p] \in Envelope =>
             [envelopes[p] EXCEPT !.revision = @ + 1, !.content = d] \in Envelope
      BY ONLY EditedEnvelope
    <3> QED BY ONLY <3>1, <3>2, <3>3, Zenon
  <2>2. work' \in Work /\ work'.project = p /\ work'.kind = "commit" /\ step' = "creating"
    BY <2>1, WorkOf DEF Begin
  <2> HIDE DEF Envelope, Work
  <2> QED
    BY <1>1, <2>2 DEF CommitEdit, Free, Call, files, projectFiles, eventFiles,
                      packageFiles, ghosts, faults, mishaps
<1>2. ASSUME NEW p \in Projects, SaveRequest(p)
      PROVE  TypeInv'
  <2>0. envelopes[p] \in Envelope
    BY <1>2 DEF SaveRequest
  <2>1. [envelopes[p] EXCEPT !.failed = @ + 1] \in Envelope
    BY ONLY <2>0, FailedEnvelope
  <2>2. work' \in Work /\ work'.project = p /\ work'.kind = "request" /\ step' = "creating"
    BY <1>2, <2>1, WorkOf DEF SaveRequest, Begin
  <2> QED
    BY <1>2, <2>2 DEF SaveRequest, Free, Call, files, projectFiles, eventFiles,
                      packageFiles, ghosts, faults, mishaps
<1>3. ASSUME NEW p \in Projects, SavePackage(p)
      PROVE  TypeInv'
  <2>1. envelopes[p] \in Envelope /\ envelopes[p].package = NoPackage /\ approved[p] = NoPackage
    BY <1>3 DEF SavePackage
  <2>2. [project |-> p, content |-> envelopes[p].content, source |-> envelopes[p].revision,
         frozenAt |-> calls'] \in Package
    BY <1>3, <2>1 DEF SavePackage, Call, Envelope, Package
  <2>3. work' \in Work /\ work'.project = p /\ work'.kind = "package" /\ step' = "opening"
    BY <1>3, <2>2 DEF SavePackage, Begin, Work
  <2> QED
    BY <1>3, <2>1, <2>3 DEF SavePackage, Free, Call, files, projectFiles, eventFiles,
                      packageFiles, ghosts, faults, mishaps
<1>4. ASSUME NEW p \in Projects, CommitFreeze(p)
      PROVE  TypeInv'
  <2>1. envelopes[p] \in Envelope /\ approved[p] \in Package
    BY <1>4 DEF CommitFreeze
  <2>2. [envelopes[p] EXCEPT !.revision = @ + 1, !.package = approved[p]] \in Envelope
    BY ONLY <2>1, FrozenEnvelope
  <2>3. work' \in Work /\ work'.project = p /\ work'.kind = "commit" /\ step' = "creating"
    BY <1>4, <2>2, WorkOf DEF CommitFreeze, Begin
  <2> QED
    BY <1>4, <2>3 DEF CommitFreeze, Free, files, projectFiles, eventFiles, packageFiles,
                      ghosts, faults, mishaps
<1>5. ASSUME NEW p \in Projects, AbandonFreeze(p)
      PROVE  TypeInv'
  BY <1>5 DEF AbandonFreeze, Free, Error, Fail, mishaps, files, projectFiles, eventFiles, packageFiles, ghosts
<1>6. CASE CreateTemp
  <2>1. [content |-> Torn, synced |-> FALSE] \in TempFile
    BY DEF TempFile
  <2>3. temp' \in TempFile \cup {NoFile} /\ step' \in Steps
    BY <1>6, <2>1 DEF CreateTemp, GiveUp, Return, Continue
  <2>4. work' \in Work \cup {NoWork} /\ errors' \in Nat /\ unremoved' \in Nat
    BY <1>6 DEF CreateTemp, GiveUp, Error, Fail, mishaps, Return, Continue
  <2>5. /\ leftovers' \subseteq TempFile
        /\ UNCHANGED <<envelopes, envelopesOnDisk, eventFiles, packageFiles, running, approved,
                       calls, ghosts, kills, powerFailures>>
    BY <1>6 DEF CreateTemp, GiveUp, projectFiles
  <2>6. TypeOK'
    BY <2>3, <2>4, <2>5 DEF eventFiles, packageFiles, ghosts
  <2>7. WorkInv'
    BY <1>6, <2>1, <2>5 DEF CreateTemp, GiveUp, Return, Continue
  <2>8. ApprovedInv'
    BY <1>6, <2>5 DEF CreateTemp, GiveUp, Return, Continue, projectFiles
  <2> QED BY <2>6, <2>7, <2>8
<1>7. CASE WriteTemp
  <2>1. /\ [content |-> work.envelope, synced |-> FALSE] \in TempFile
        /\ [content |-> work.envelope, synced |-> FALSE].content = work.envelope
    BY <1>7, WorkKinds DEF TempFile, WriteTemp
  <2>3. temp' \in TempFile \cup {NoFile} /\ step' \in Steps
    BY <1>7, <2>1 DEF WriteTemp, GiveUp, Return, Continue
  <2>4. work' \in Work \cup {NoWork} /\ errors' \in Nat /\ unremoved' \in Nat
    BY <1>7 DEF WriteTemp, GiveUp, Error, Fail, mishaps, Return, Continue
  <2>5. /\ leftovers' \subseteq TempFile
        /\ UNCHANGED <<envelopes, envelopesOnDisk, eventFiles, packageFiles, running, approved,
                       calls, ghosts, kills, powerFailures>>
    BY <1>7 DEF WriteTemp, GiveUp, projectFiles
  <2>6. TypeOK'
    BY <2>3, <2>4, <2>5 DEF eventFiles, packageFiles, ghosts
  <2>7. WorkInv'
    <3>1. CASE Return
      BY <2>5, <3>1 DEF Return
    <3>2. CASE ~Return
      <4>1. temp' \in TempFile /\ temp'.content = work.envelope /\ step' = "syncing" /\ work' = work
        BY <1>7, <2>1, <3>2 DEF WriteTemp, GiveUp, Continue
      <4> QED BY <1>7, <2>5, <4>1 DEF WriteTemp
    <3> QED BY <3>1, <3>2
  <2>8. ApprovedInv'
    BY <1>7, <2>5 DEF WriteTemp, GiveUp, Return, Continue, projectFiles
  <2> QED BY <2>6, <2>7, <2>8
<1>8. CASE SyncTemp
  <2>1. step = "syncing" /\ temp \in TempFile /\ temp.content = work.envelope
    BY <1>8 DEF SyncTemp
  <2>2. /\ [temp EXCEPT !.synced = TRUE] \in TempFile
        /\ [temp EXCEPT !.synced = TRUE].content = work.envelope
        /\ [temp EXCEPT !.synced = TRUE].synced
    BY <2>1 DEF TempFile
  <2>3. temp' \in TempFile \cup {NoFile} /\ step' \in Steps
    BY <1>8, <2>1, <2>2 DEF SyncTemp, GiveUp, Return, Continue
  <2>4. work' \in Work \cup {NoWork} /\ errors' \in Nat /\ unremoved' \in Nat
    BY <1>8 DEF SyncTemp, GiveUp, Error, Fail, mishaps, Return, Continue
  <2>5. /\ leftovers' \subseteq TempFile
        /\ UNCHANGED <<envelopes, envelopesOnDisk, eventFiles, packageFiles, running, approved,
                       calls, ghosts, kills, powerFailures>>
    BY <1>8 DEF SyncTemp, GiveUp, projectFiles
  <2>6. TypeOK'
    BY <2>3, <2>4, <2>5 DEF eventFiles, packageFiles, ghosts
  <2>7. WorkInv'
    <3>1. CASE Return
      BY <2>5, <3>1 DEF Return
    <3>2. CASE ~Return
      <4>1. /\ temp' \in TempFile /\ temp'.content = work.envelope /\ temp'.synced
            /\ step' = "renaming" /\ work' = work
        BY <1>8, <2>2, <3>2 DEF SyncTemp, GiveUp, Continue
      <4> QED BY <1>8, <2>5, <4>1 DEF SyncTemp
    <3> QED BY <3>1, <3>2
  <2>8. ApprovedInv'
    BY <1>8, <2>5 DEF SyncTemp, GiveUp, Return, Continue, projectFiles
  <2> QED BY <2>6, <2>7, <2>8
<1>9. CASE RenameTemp
  <2>1. /\ step = "renaming" /\ work \in Work /\ work.envelope \in Envelope
        /\ work.project \in Projects /\ temp.content = work.envelope /\ temp.synced
    BY <1>9, WorkKinds DEF RenameTemp
  <2>2. CASE GiveUp /\ UNCHANGED <<eventFiles, packageFiles, running, approved, calls, ghosts,
                                   kills, powerFailures>>
    <3>1. TypeOK'
      BY <2>2 DEF GiveUp, Error, Fail, mishaps, Return, projectFiles, eventFiles, packageFiles, ghosts
    <3>2. WorkInv' /\ ApprovedInv'
      BY <2>2 DEF GiveUp, Return, projectFiles
    <3> QED BY <3>1, <3>2
  <2>3. CASE /\ envelopes' = [envelopes EXCEPT ![work.project] = work.envelope]
             /\ envelopesOnDisk' = [envelopesOnDisk EXCEPT ![work.project] = @ \cup {work.envelope}]
             /\ temp' = NoFile /\ Continue("settling")
             /\ UNCHANGED <<leftovers, eventFiles, packageFiles, running, approved, calls, ghosts,
                            kills, powerFailures>>
    <3>1. TypeOK'
      BY <2>1, <2>3 DEF Continue, mishaps, eventFiles, packageFiles, ghosts
    <3>2. WorkInv' /\ ApprovedInv'
      BY <2>1, <2>3 DEF Continue
    <3> QED BY <3>1, <3>2
  <2> QED BY <1>9, <2>1, <2>2, <2>3, SMTT(30) DEF RenameTemp
<1>10. CASE SyncProjects
  <2>1. /\ step = "settling" /\ work \in Work /\ work.kind \in {"commit", "request"}
    BY <1>10 DEF SyncProjects
  <2>2. /\ envelopesOnDisk' \in [Projects -> SUBSET (Envelope \cup {NoFile})]
        /\ errors' \in Nat /\ unremoved' \in Nat
        /\ \/ step' = "framing" /\ work.kind = "commit" /\ UNCHANGED <<work, temp>>
           \/ Return
        /\ UNCHANGED <<envelopes, leftovers, eventFiles, packageFiles, running, approved, calls,
                       ghosts, kills, powerFailures>>
    BY <1>10 DEF SyncProjects, Error, Fail, mishaps
  <2>3. TypeOK'
    BY <2>1, <2>2 DEF Return, eventFiles, packageFiles, ghosts
  <2>4. WorkInv' /\ ApprovedInv'
    BY <2>1, <2>2 DEF Return
  <2> QED BY <2>3, <2>4
<1>11. CASE WriteFrame
  <2>1. /\ step = "framing" /\ work \in Work /\ work.project \in Projects
        /\ work.envelope \in Envelope
    BY <1>11, WorkKinds DEF WriteFrame
  <2>2. frames' \in [Projects -> Seq(Line)]
    <3>0. frames[work.project] \in Seq(Line)
      BY <2>1
    <3>1. Readable(frames[work.project]) =>
             NextFrame(frames[work.project], work.envelope) \in Line
      <4>1. Readable(frames[work.project]) =>
               NextFrame(frames[work.project], work.envelope) \in Frame
        BY ONLY <2>1, <3>0, NextFrameType
      <4> QED BY <4>1 DEF Line
    <3>2. Readable(frames[work.project]) =>
             Append(frames[work.project], NextFrame(frames[work.project], work.envelope)) \in Seq(Line)
      BY <3>0, <3>1, AppendFacts
    <3>3. Readable(frames[work.project]) /\ AppendCut => frames' \in [Projects -> Seq(Line)]
      BY <2>1, AppendCutFacts
    <3> QED BY <1>11, <2>1, <3>2, <3>3 DEF WriteFrame, Error, Fail, mishaps, Return, Continue
  <2>3. /\ temp' \in TempFile \cup {NoFile} /\ step' \in Steps /\ errors' \in Nat /\ unremoved' \in Nat
        /\ work' \in Work \cup {NoWork}
    BY <1>11 DEF WriteFrame, Error, Fail, mishaps, Return, Continue
  <2>4. cutOff' \subseteq Projects
    BY <1>11, <2>1 DEF WriteFrame
  <2>5. TypeOK'
    BY <1>11, <2>2, <2>3, <2>4 DEF WriteFrame, projectFiles, packageFiles
  <2>6. WorkInv'
    BY <1>11, <2>1 DEF WriteFrame, Return, Continue
  <2>7. ApprovedInv'
    BY <1>11, <2>1 DEF WriteFrame, Return, Continue, projectFiles
  <2> QED BY <2>5, <2>6, <2>7
<1>12. CASE SyncFrame
  <2>1. /\ step = "flushing" /\ work \in Work /\ work.project \in Projects
        /\ work.envelope.revision \in Nat
    BY <1>12, WorkKinds DEF SyncFrame, Envelope
  <2>2. Len(frames[work.project]) \in Nat
    BY <2>1, LenProperties
  <2>3. TypeOK'
    <3>1. framesSynced' \in [Projects -> Nat] /\ answered' \in [Projects -> Nat]
      <4>1. CASE /\ framesSynced' = [framesSynced EXCEPT ![work.project] = Len(frames[work.project])]
                 /\ answered' = [answered EXCEPT ![work.project] = work.envelope.revision]
        BY <2>1, <2>2, <4>1
      <4>2. CASE UNCHANGED <<framesSynced, answered>>
        BY <4>2
      <4> QED BY <1>12, <4>1, <4>2 DEF SyncFrame
    <3>2. /\ work' = NoWork /\ step' = "idle" /\ temp' = NoFile /\ errors' \in Nat /\ unremoved' \in Nat
          /\ cutOff' \subseteq Projects
      BY <1>12, <2>1 DEF SyncFrame, Error, Fail, mishaps, Return
    <3> QED BY <1>12, <3>1, <3>2 DEF SyncFrame, projectFiles, packageFiles
  <2>4. WorkInv' /\ ApprovedInv'
    BY <1>12, <2>1 DEF SyncFrame, Return, projectFiles
  <2> QED BY <2>3, <2>4
<1>13. CASE OpenPackage
  <2>1. /\ step = "opening" /\ work \in Work /\ work.project \in Projects
        /\ work.package \in Package /\ Digest \in Digests
    BY <1>13, WorkKinds DEF OpenPackage, Digest, Package
  <2>2. packages' \in [Digests -> Package \cup {NoFile, Torn}]
    BY <1>13, <2>1 DEF OpenPackage, Holds, MayHold, packageFiles
  <2>3. packagesOnDisk' \in [Digests -> SUBSET (Package \cup {NoFile, Torn})]
    <3>1. ASSUME NEW c \in Package \cup {NoFile, Torn}, MayHold(c)
          PROVE  packagesOnDisk' \in [Digests -> SUBSET (Package \cup {NoFile, Torn})]
      BY <2>1, <3>1, MayHoldType DEF MayHold
    <3>2. UNCHANGED packagesOnDisk \/ MayHold(Torn)
      BY <1>13 DEF OpenPackage, RemovePackage, packageFiles
    <3> QED BY <2>1, <3>1, <3>2
  <2>4. packagesSynced' \subseteq Digests
    BY <1>13, <2>1 DEF OpenPackage, Holds, MayHold, packageFiles
  <2>5. /\ work' \in Work \cup {NoWork} /\ step' \in Steps /\ temp' \in TempFile \cup {NoFile}
        /\ errors' \in Nat /\ unremoved' \in Nat
    BY <1>13 DEF OpenPackage, RemovePackage, Error, Fail, mishaps, Return, Continue
  <2>6. approved' \in [Projects -> Package \cup {NoPackage}]
    BY <1>13, <2>1 DEF OpenPackage, RemovePackage, Approve
  <2>7. UNCHANGED <<projectFiles, eventFiles, running, calls, ghosts, kills, powerFailures>>
    BY <1>13 DEF OpenPackage
  <2>8. TypeOK'
    BY <2>2, <2>3, <2>4, <2>5, <2>6, <2>7 DEF projectFiles, eventFiles, ghosts
  <2>9. WorkInv'
    BY <1>13, <2>1, <2>7 DEF OpenPackage, RemovePackage, Return, Continue
  <2>10. ApprovedInv'
    BY <1>13, <2>1, <2>6, <2>7 DEF OpenPackage, RemovePackage, Return, Continue, Approve, projectFiles
  <2> QED BY <2>8, <2>9, <2>10
<1>14. CASE WritePackage
  <2>1. /\ step = "filling" /\ work \in Work /\ work.project \in Projects
        /\ work.package \in Package /\ Digest \in Digests
    BY <1>14, WorkKinds DEF WritePackage, Digest, Package
  <2>2. packages' \in [Digests -> Package \cup {NoFile, Torn}]
    BY <1>14, <2>1 DEF WritePackage, RemovePackage, Holds, MayHold, packageFiles
  <2>3. packagesOnDisk' \in [Digests -> SUBSET (Package \cup {NoFile, Torn})]
    <3>1. ASSUME NEW c \in Package \cup {NoFile, Torn}, MayHold(c)
          PROVE  packagesOnDisk' \in [Digests -> SUBSET (Package \cup {NoFile, Torn})]
      BY <2>1, <3>1, MayHoldType DEF MayHold
    <3>2. UNCHANGED packagesOnDisk \/ MayHold(work.package) \/ MayHold(NoFile)
      BY <1>14 DEF WritePackage, RemovePackage, packageFiles
    <3> QED BY <2>1, <3>1, <3>2
  <2>4. packagesSynced' \subseteq Digests
    BY <1>14, <2>1 DEF WritePackage, RemovePackage, Holds, MayHold, packageFiles
  <2>5. /\ work' \in Work \cup {NoWork} /\ step' \in Steps /\ temp' \in TempFile \cup {NoFile}
        /\ errors' \in Nat /\ unremoved' \in Nat
    BY <1>14 DEF WritePackage, RemovePackage, Error, Fail, mishaps, Return, Continue
  <2>6. approved' \in [Projects -> Package \cup {NoPackage}]
    BY <1>14, <2>1 DEF WritePackage, RemovePackage, Approve
  <2>7. UNCHANGED <<projectFiles, eventFiles, running, calls, ghosts, kills, powerFailures>>
    BY <1>14 DEF WritePackage
  <2>8. TypeOK'
    BY <2>2, <2>3, <2>4, <2>5, <2>6, <2>7 DEF projectFiles, eventFiles, ghosts
  <2>9. WorkInv'
    BY <1>14, <2>1, <2>7 DEF WritePackage, RemovePackage, Return, Continue
  <2>10. ApprovedInv'
    BY <1>14, <2>1, <2>6, <2>7 DEF WritePackage, RemovePackage, Return, Continue, Approve, projectFiles
  <2> QED BY <2>8, <2>9, <2>10
<1>15. CASE SyncPackage
  <2>1. /\ step = "keeping" /\ work \in Work /\ work.project \in Projects
        /\ work.package \in Package /\ Digest \in Digests
    BY <1>15, WorkKinds DEF SyncPackage, Digest, Package
  <2>2. packages' \in [Digests -> Package \cup {NoFile, Torn}]
    BY <1>15, <2>1 DEF SyncPackage, RemovePackage, Holds, MayHold, packageFiles
  <2>3. packagesOnDisk' \in [Digests -> SUBSET (Package \cup {NoFile, Torn})]
    <3>1. ASSUME NEW c \in Package \cup {NoFile, Torn}, MayHold(c)
          PROVE  packagesOnDisk' \in [Digests -> SUBSET (Package \cup {NoFile, Torn})]
      BY <2>1, <3>1, MayHoldType DEF MayHold
    <3>2. UNCHANGED packagesOnDisk \/ MayHold(NoFile)
      BY <1>15 DEF SyncPackage, RemovePackage, packageFiles
    <3> QED BY <2>1, <3>1, <3>2
  <2>4. packagesSynced' \subseteq Digests
    BY <1>15, <2>1 DEF SyncPackage, RemovePackage, Holds, MayHold, packageFiles
  <2>5. /\ work' \in Work \cup {NoWork} /\ step' \in Steps /\ temp' \in TempFile \cup {NoFile}
        /\ errors' \in Nat /\ unremoved' \in Nat
    BY <1>15 DEF SyncPackage, RemovePackage, Error, Fail, mishaps, Return, Continue
  <2>6. approved' \in [Projects -> Package \cup {NoPackage}]
    BY <1>15, <2>1 DEF SyncPackage, RemovePackage, Approve
  <2>7. UNCHANGED <<projectFiles, eventFiles, running, calls, ghosts, kills, powerFailures>>
    BY <1>15 DEF SyncPackage
  <2>8. TypeOK'
    BY <2>2, <2>3, <2>4, <2>5, <2>6, <2>7 DEF projectFiles, eventFiles, ghosts
  <2>9. WorkInv'
    BY <1>15, <2>1, <2>7 DEF SyncPackage, RemovePackage, Return, Continue
  <2>10. ApprovedInv'
    BY <1>15, <2>1, <2>6, <2>7 DEF SyncPackage, RemovePackage, Return, Continue, Approve, projectFiles
  <2> QED BY <2>8, <2>9, <2>10
<1>16. CASE SyncPackages
  <2>1. /\ step = "listing" /\ work \in Work /\ work.project \in Projects
        /\ work.package \in Package /\ Digest \in Digests
    BY <1>16, WorkKinds DEF SyncPackages, Digest, Package
  <2>2. packages' \in [Digests -> Package \cup {NoFile, Torn}]
    BY <1>16, <2>1 DEF SyncPackages, RemovePackage, Holds, MayHold, packageFiles
  <2>3. packagesOnDisk' \in [Digests -> SUBSET (Package \cup {NoFile, Torn})]
    <3>1. ASSUME NEW c \in Package \cup {NoFile, Torn}, MayHold(c)
          PROVE  packagesOnDisk' \in [Digests -> SUBSET (Package \cup {NoFile, Torn})]
      BY <2>1, <3>1, MayHoldType DEF MayHold
    <3>2. \A d \in Digests : Settled(d) \in SUBSET (Package \cup {NoFile, Torn})
      BY DEF Settled
    <3>3. \/ packagesOnDisk' = [d \in Digests |-> Settled(d)]
          \/ MayHold(NoFile) \/ UNCHANGED packagesOnDisk
      BY <1>16 DEF SyncPackages, RemovePackage, packageFiles
    <3> QED BY <3>1, <3>2, <3>3
  <2>4. packagesSynced' \subseteq Digests
    BY <1>16, <2>1 DEF SyncPackages, RemovePackage, Holds, MayHold, packageFiles
  <2>5. /\ work' \in Work \cup {NoWork} /\ step' \in Steps /\ temp' \in TempFile \cup {NoFile}
        /\ errors' \in Nat /\ unremoved' \in Nat
    BY <1>16 DEF SyncPackages, RemovePackage, Error, Fail, mishaps, Return, Continue
  <2>6. approved' \in [Projects -> Package \cup {NoPackage}]
    BY <1>16, <2>1 DEF SyncPackages, RemovePackage, Approve
  <2>7. UNCHANGED <<projectFiles, eventFiles, running, calls, ghosts, kills, powerFailures>>
    BY <1>16 DEF SyncPackages
  <2>8. TypeOK'
    BY <2>2, <2>3, <2>4, <2>5, <2>6, <2>7 DEF projectFiles, eventFiles, ghosts
  <2>9. WorkInv'
    BY <1>16, <2>1, <2>7 DEF SyncPackages, RemovePackage, Return, Continue
  <2>10. ApprovedInv'
    BY <1>16, <2>1, <2>6, <2>7 DEF SyncPackages, RemovePackage, Return, Continue, Approve, projectFiles
  <2> QED BY <2>8, <2>9, <2>10
<1>17. ASSUME Stop
       PROVE  /\ running' = FALSE /\ work' = NoWork /\ step' = "idle" /\ temp' = NoFile
              /\ approved' = [p \in Projects |-> NoPackage] /\ cutOff' \subseteq Projects
              /\ UNCHANGED <<calls, answered, errors, unremoved>>
  BY <1>17, WorkKinds DEF Stop, mishaps
<1>18. ASSUME Stop
       PROVE  WorkInv' /\ ApprovedInv'
  <2>1. step' = "idle" /\ work' = NoWork /\ \A p \in Projects : approved'[p] = NoPackage
    BY <1>17, <1>18
  <2> QED BY <2>1
<1>19. Pending \subseteq TempFile
  BY DEF Pending
<1>20. CASE Kill
  <2>1. Stop /\ kills' \in Nat /\ leftovers' \subseteq TempFile
    BY <1>19, <1>20 DEF Kill
  <2>2. frames' \in [Projects -> Seq(Line)]
    <3>1. CASE UNCHANGED frames
      BY <3>1
    <3>2. CASE step = "framing" /\ Readable(frames[work.project]) /\ AppendCut
      BY <3>2, AppendCutFacts
    <3> QED BY <1>20, <3>1, <3>2 DEF Kill
  <2>3. /\ running' = FALSE /\ work' = NoWork /\ step' = "idle" /\ temp' = NoFile
        /\ approved' \in [Projects -> Package \cup {NoPackage}] /\ cutOff' \subseteq Projects
        /\ UNCHANGED <<calls, answered, errors, unremoved>>
    BY <1>17, <2>1
  <2>4. UNCHANGED <<envelopes, envelopesOnDisk, framesSynced, framesListed, packageFiles,
                    vanished, powerFailures>>
    BY <1>20 DEF Kill
  <2>5. TypeOK'
    BY ONLY TypeOK, <2>1, <2>2, <2>3, <2>4 DEF TypeOK, packageFiles, Steps
  <2> QED BY <1>18, <2>1, <2>5
<1>21. CASE PowerFailure
  <2>1. Stop /\ powerFailures' \in Nat /\ kills' \in Nat
    BY <1>21 DEF PowerFailure
  <2>2. /\ envelopes' \in [Projects -> Envelope \cup {NoFile}]
        /\ envelopesOnDisk' \in [Projects -> SUBSET (Envelope \cup {NoFile})]
    <3>1. DOMAIN envelopes' = Projects /\ envelopes' = [p \in Projects |-> envelopes'[p]]
      BY <1>21 DEF PowerFailure
    <3>2. \A p \in Projects : envelopes'[p] \in Envelope \cup {NoFile}
      BY <1>21 DEF PowerFailure
    <3>3. envelopesOnDisk' = [p \in Projects |-> {envelopes'[p]}]
      BY <1>21 DEF PowerFailure
    <3> QED BY <3>1, <3>2, <3>3
  <2>3. leftovers' \subseteq TempFile
    <3>1. ASSUME NEW t \in TempFile
          PROVE  Remains(t) \subseteq TempFile
      <4>1. {t.content} \cup (IF t.synced THEN {} ELSE {Torn}) \subseteq Envelope \cup {Torn}
        BY DEF TempFile
      <4>2. \A c \in Envelope \cup {Torn} : [content |-> c, synced |-> TRUE] \in TempFile
        BY DEF TempFile
      <4> QED BY ONLY <4>1, <4>2 DEF Remains
    <3>2. leftovers' \in SUBSET UNION {Remains(t) : t \in leftovers \cup Pending}
      BY <1>21 DEF PowerFailure
    <3>3. leftovers \cup Pending \subseteq TempFile
      BY <1>19
    <3> QED BY ONLY <3>1, <3>2, <3>3
  <2>4. frames' \in [Projects -> Seq(Line)]
    <3>1. frames' = [p \in Projects |-> frames'[p]] /\ \A p \in Projects : frames'[p] \in FrameOutcomes(p)
      BY <1>21 DEF PowerFailure
    <3>2. ASSUME NEW p \in Projects
          PROVE  FrameOutcomes(p) \subseteq Seq(Line)
      BY FrameOutcomesType
    <3> QED BY <3>1, <3>2
  <2>5. framesSynced' \in [Projects -> Nat] /\ framesListed' \subseteq Projects /\ vanished' \subseteq Projects
    <3>1. \A p \in Projects : Len(frames'[p]) \in Nat
      BY <2>4, LenProperties
    <3> QED BY <1>21, <3>1 DEF PowerFailure
  <2>6. /\ packages' \in [Digests -> Package \cup {NoFile, Torn}]
        /\ packagesOnDisk' \in [Digests -> SUBSET (Package \cup {NoFile, Torn})]
        /\ packagesSynced' \subseteq Digests
    <3>1. DOMAIN packages' = Digests /\ packages' = [d \in Digests |-> packages'[d]]
      BY <1>21 DEF PowerFailure
    <3>2. \A d \in Digests : packages'[d] \in Package \cup {NoFile, Torn}
      BY <1>21 DEF PowerFailure
    <3>3. /\ packagesOnDisk' = [d \in Digests |-> {packages'[d]}]
          /\ packagesSynced' \subseteq Digests
      BY <1>21 DEF PowerFailure
    <3> QED BY <3>1, <3>2, <3>3
  <2>7. TypeOK'
    <3>1. /\ running' = FALSE /\ work' = NoWork /\ step' = "idle" /\ temp' = NoFile
          /\ approved' \in [Projects -> Package \cup {NoPackage}] /\ cutOff' \subseteq Projects
          /\ UNCHANGED <<calls, answered, errors, unremoved>>
      BY <1>17, <2>1
    <3> QED BY ONLY TypeOK, <2>1, <2>2, <2>3, <2>4, <2>5, <2>6, <3>1 DEF TypeOK, Steps
  <2> QED BY <1>18, <2>1, <2>7
<1>22. CASE Start
  BY <1>22 DEF Start, files, projectFiles, eventFiles, packageFiles, ghosts, faults, mishaps
<1>23. CASE UNCHANGED vars
  BY <1>23 DEF vars, files, projectFiles, eventFiles, packageFiles, ghosts, faults, mishaps
<1> QED
  BY <1>1, <1>2, <1>3, <1>4, <1>5, <1>6, <1>7, <1>8, <1>9, <1>10, <1>11, <1>12, <1>13, <1>14,
     <1>15, <1>16, <1>20, <1>21, <1>22, <1>23 DEF Next

\* The type invariant: in particular no envelope is ever torn.
THEOREM TypeCorrect == Spec => []TypeOK
<1>1. TypeInv => TypeOK
  BY DEF TypeInv
<1> QED BY <1>1, InitType, TypeStep, PTL DEF Spec

-----------------------------------------------------------------------------
(* The envelopes are an atomic store. *)

\* What readers see may survive a power failure; a call writes a successor of
\* what is there, and goes on to the event when that is settled.
StoreInv ==
    /\ \A p \in Projects : envelopes[p] \in envelopesOnDisk[p]
    /\ step \in {"creating", "writing", "syncing", "renaming"} =>
          Atomic!Succeeds(work.envelope, envelopes[work.project])
    /\ step \in {"settling", "framing", "flushing"} => envelopes[work.project] = work.envelope
    /\ step \in {"framing", "flushing"} => envelopesOnDisk[work.project] = {work.envelope}

LEMMA InitStore == Init => StoreInv
  BY DEF Init, StoreInv

\* Commands of any kind write successors.
LEMMA Successors ==
    ASSUME NEW e \in Envelope
    PROVE  /\ Atomic!Succeeds([e EXCEPT !.failed = @ + 1], e)
           /\ e.package = NoPackage =>
                 /\ \A d \in Digests :
                       Atomic!Succeeds([e EXCEPT !.revision = @ + 1, !.content = d], e)
                 /\ \A pkg \in Package :
                       Atomic!Succeeds([e EXCEPT !.revision = @ + 1, !.package = pkg], e)
           /\ \A d \in Digests :
                 Atomic!Succeeds([revision |-> 1, content |-> d, package |-> NoPackage,
                                  failed |-> 0], NoFile)
<1>1. e # NoFile
  BY SentinelAssumption
<1>2. Atomic!Succeeds([e EXCEPT !.failed = @ + 1], e)
  BY <1>1 DEF Atomic!Succeeds
<1>3. ASSUME NEW d \in Digests
      PROVE  [e EXCEPT !.revision = @ + 1, !.content = d].revision = e.revision + 1
  BY DEF Envelope
<1>4. ASSUME NEW pkg \in Package
      PROVE  [e EXCEPT !.revision = @ + 1, !.package = pkg].revision = e.revision + 1
  BY DEF Envelope
<1> QED BY <1>1, <1>2, <1>3, <1>4 DEF Atomic!Succeeds

LEMMA StoreStep == TypeInv /\ StoreInv /\ [Next]_vars => StoreInv'
<1> SUFFICES ASSUME TypeInv, StoreInv, [Next]_vars
             PROVE  StoreInv'
  OBVIOUS
<1> USE SentinelAssumption
<1> USE DEF StoreInv
<1>0. TypeOK /\ WorkInv /\ ApprovedInv
  BY DEF TypeInv
<1>1. ASSUME NEW p \in Projects, CommitEdit(p)
      PROVE  StoreInv'
  <2>1. UNCHANGED <<envelopes, envelopesOnDisk>> /\ step' = "creating" /\ work'.project = p
    BY <1>1 DEF CommitEdit, Begin, files, projectFiles
  <2>2. PICK d \in Digests :
           \/ /\ envelopes[p] = NoFile
              /\ Begin([kind |-> "commit", project |-> p,
                        envelope |-> [revision |-> 1, content |-> d, package |-> NoPackage,
                                      failed |-> 0]], "creating")
           \/ /\ envelopes[p] \in Envelope
              /\ envelopes[p].package = NoPackage
              /\ Begin([kind |-> "commit", project |-> p,
                        envelope |-> [envelopes[p] EXCEPT !.revision = @ + 1, !.content = d]],
                       "creating")
    BY <1>1, Zenon DEF CommitEdit
  <2>3. Atomic!Succeeds(work'.envelope, envelopes[p])
    <3>1. CASE envelopes[p] = NoFile
      <4>1. work'.envelope.revision = 1
        BY <2>2, <3>1 DEF Begin
      <4> QED BY <3>1, <4>1 DEF Atomic!Succeeds
    <3>2. CASE envelopes[p] # NoFile
      <4>1. envelopes[p] \in Envelope /\ envelopes[p].package = NoPackage
        BY <2>2, <3>2
      <4>2. work'.envelope = [envelopes[p] EXCEPT !.revision = @ + 1, !.content = d]
        BY <2>2, <3>2 DEF Begin
      <4> QED BY <4>1, <4>2, Successors, ZenonT(30)
    <3> QED BY <3>1, <3>2
  <2>4. Atomic!Succeeds(work'.envelope, envelopes'[work'.project])
    BY <2>1, <2>3
  <2> QED BY <2>1, <2>4
<1>2. ASSUME NEW p \in Projects, SaveRequest(p)
      PROVE  StoreInv'
  <2>1. /\ UNCHANGED <<envelopes, envelopesOnDisk>> /\ step' = "creating" /\ work'.project = p
        /\ envelopes[p] \in Envelope /\ work'.envelope = [envelopes[p] EXCEPT !.failed = @ + 1]
    BY <1>2 DEF SaveRequest, Begin, files, projectFiles
  <2>2. Atomic!Succeeds([envelopes[p] EXCEPT !.failed = @ + 1], envelopes[p])
    BY <2>1, Successors
  <2>3. Atomic!Succeeds(work'.envelope, envelopes'[work'.project])
    BY <2>1, <2>2
  <2> QED BY <2>1, <2>3
<1>3. ASSUME NEW p \in Projects, SavePackage(p)
      PROVE  StoreInv'
  BY <1>3 DEF SavePackage, Begin, files, projectFiles
<1>4. ASSUME NEW p \in Projects, CommitFreeze(p)
      PROVE  StoreInv'
  <2>1. /\ UNCHANGED <<envelopes, envelopesOnDisk>> /\ step' = "creating" /\ work'.project = p
        /\ work'.envelope = [envelopes[p] EXCEPT !.revision = @ + 1, !.package = approved[p]]
    BY <1>4 DEF CommitFreeze, Begin, files, projectFiles
  <2>2. envelopes[p] \in Envelope /\ envelopes[p].package = NoPackage /\ approved[p] \in Package
    BY <1>0, <1>4 DEF CommitFreeze, ApprovedInv, TypeOK
  <2>3. Atomic!Succeeds([envelopes[p] EXCEPT !.revision = @ + 1, !.package = approved[p]],
                        envelopes[p])
    BY <2>2, Successors
  <2>4. Atomic!Succeeds(work'.envelope, envelopes'[work'.project])
    BY <2>1, <2>3
  <2> QED BY <2>1, <2>4
<1>5. ASSUME NEW p \in Projects, AbandonFreeze(p)
      PROVE  StoreInv'
  BY <1>5 DEF AbandonFreeze, files, projectFiles
<1>6. ASSUME UNCHANGED <<envelopes, envelopesOnDisk>>,
             \/ step' = "idle"
             \/ step' \in {"opening", "filling", "keeping", "listing"}
             \/ /\ UNCHANGED work
                /\ \/ step = "creating" /\ step' = "writing"
                   \/ step = "writing" /\ step' = "syncing"
                   \/ step = "syncing" /\ step' = "renaming"
                   \/ step = "framing" /\ step' = "flushing"
       PROVE StoreInv'
  BY <1>6
<1>7. CASE CreateTemp \/ WriteTemp \/ SyncTemp
  BY <1>6, <1>7 DEF CreateTemp, WriteTemp, SyncTemp, GiveUp, Return, Continue, projectFiles
<1>8. CASE WriteFrame \/ SyncFrame
  BY <1>6, <1>8 DEF WriteFrame, SyncFrame, Return, Continue, projectFiles
<1>9. CASE OpenPackage \/ WritePackage \/ SyncPackage \/ SyncPackages
  BY <1>6, <1>9 DEF OpenPackage, WritePackage, SyncPackage, SyncPackages, RemovePackage, Return,
                    Continue, projectFiles
<1>10. CASE Kill
  BY <1>6, <1>10 DEF Kill, Stop
<1>11. CASE RenameTemp
  <2>1. work.project \in Projects /\ temp.content = work.envelope /\ step = "renaming"
    BY <1>0, <1>11, WorkKinds DEF RenameTemp, WorkInv, TypeOK
  <2>2. CASE GiveUp
    BY <1>6, <2>2 DEF GiveUp, Return, projectFiles
  <2>3. CASE /\ envelopes' = [envelopes EXCEPT ![work.project] = temp.content]
             /\ envelopesOnDisk' = [envelopesOnDisk EXCEPT ![work.project] =
                   @ \cup {temp.content} \cup (IF temp.synced THEN {} ELSE {Torn})]
             /\ Continue("settling")
    BY <1>0, <2>1, <2>3 DEF Continue, TypeOK
  <2> QED BY <1>11, <2>2, <2>3 DEF RenameTemp
<1>12. CASE SyncProjects
  <2>1. work.project \in Projects /\ step = "settling" /\ UNCHANGED envelopes
    BY <1>0, <1>12, WorkKinds DEF SyncProjects, WorkInv, TypeOK
  <2>2. CASE Return /\ UNCHANGED envelopesOnDisk
    BY <1>6, <2>1, <2>2 DEF Return
  <2>3. CASE envelopesOnDisk' = [p \in Projects |-> {envelopes[p]}] /\ Return
    BY <2>1, <2>3 DEF Return
  <2>4. CASE /\ envelopesOnDisk' = [p \in Projects |-> {envelopes[p]}]
             /\ step' = "framing" /\ UNCHANGED work
    BY <2>1, <2>4
  <2> QED BY <1>12, <2>2, <2>3, <2>4 DEF SyncProjects
<1>13. CASE PowerFailure
  <2>1. step' = "idle" /\ envelopesOnDisk' = [p \in Projects |-> {envelopes'[p]}]
    BY <1>13 DEF PowerFailure, Stop
  <2> QED BY <2>1
<1>14. CASE Start \/ UNCHANGED vars
  BY <1>14 DEF Start, vars, files, projectFiles
<1> QED
  BY <1>1, <1>2, <1>3, <1>4, <1>5, <1>7, <1>8, <1>9, <1>10, <1>11, <1>12, <1>13, <1>14 DEF Next

LEMMA InitAtomic == Init => Atomic!Init
  BY DEF Init, Atomic!Init

\* Every step is one of the atomic store, or none.
LEMMA AtomicStep ==
    TypeInv /\ StoreInv /\ [Next]_vars => [Atomic!Next]_Atomic!vars
<1> SUFFICES ASSUME TypeInv, StoreInv, [Next]_vars
             PROVE  Atomic!Next \/ UNCHANGED <<envelopes, envelopesOnDisk, answered>>
  BY DEF Atomic!vars
<1> USE SentinelAssumption
<1>0. TypeOK /\ WorkInv /\ ApprovedInv
  BY DEF TypeInv
<1>1. ASSUME NEW p \in Projects,
             CommitEdit(p) \/ SaveRequest(p) \/ SavePackage(p) \/ CommitFreeze(p) \/ AbandonFreeze(p)
      PROVE  UNCHANGED <<envelopes, envelopesOnDisk, answered>>
  BY <1>1 DEF CommitEdit, SaveRequest, SavePackage, CommitFreeze, AbandonFreeze, files,
              projectFiles, ghosts
<1>2. CASE CreateTemp \/ WriteTemp \/ SyncTemp \/ WriteFrame
  BY <1>2 DEF CreateTemp, WriteTemp, SyncTemp, WriteFrame, GiveUp, projectFiles, ghosts
<1>3. CASE OpenPackage \/ WritePackage \/ SyncPackage \/ SyncPackages
  BY <1>3 DEF OpenPackage, WritePackage, SyncPackage, SyncPackages, projectFiles, ghosts
<1>4. CASE Kill \/ Start \/ UNCHANGED vars
  BY <1>4 DEF Kill, Stop, Start, vars, files, projectFiles, ghosts
<1>5. CASE RenameTemp
  <2>1. /\ step = "renaming" /\ work.project \in Projects /\ work.envelope \in Envelope
        /\ temp.content = work.envelope /\ temp.synced
    BY <1>0, <1>5, WorkKinds DEF RenameTemp, WorkInv, TypeOK
  <2>2. CASE GiveUp /\ UNCHANGED ghosts
    BY <2>2 DEF GiveUp, projectFiles, ghosts
  <2>3. CASE /\ envelopes' = [envelopes EXCEPT ![work.project] = temp.content]
             /\ envelopesOnDisk' = [envelopesOnDisk EXCEPT ![work.project] =
                   @ \cup {temp.content} \cup (IF temp.synced THEN {} ELSE {Torn})]
             /\ UNCHANGED ghosts
    <3>1. PICK p \in Projects : p = work.project
      BY <2>1
    <3>2. envelopes'[p] = work.envelope /\ envelopes' = [envelopes EXCEPT ![p] = envelopes'[p]]
      BY <1>0, <2>1, <2>3, <3>1 DEF TypeOK
    <3>3. Atomic!Succeeds(envelopes'[p], envelopes[p])
      BY <2>1, <3>1, <3>2 DEF StoreInv
    <3>4. envelopesOnDisk' = [envelopesOnDisk EXCEPT ![p] = @ \cup {envelopes'[p]}]
      BY <2>1, <2>3, <3>1, <3>2
    <3>5. Atomic!Replace(p)
      BY <2>1, <2>3, <3>1, <3>2, <3>3, <3>4 DEF Atomic!Replace, ghosts
    <3> QED BY <3>5 DEF Atomic!Next
  <2> QED BY <1>5, <2>2, <2>3 DEF RenameTemp
<1>6. CASE SyncProjects
  <2>1. UNCHANGED <<envelopes, answered>>
    BY <1>6 DEF SyncProjects, ghosts
  <2>2. CASE UNCHANGED envelopesOnDisk
    BY <2>1, <2>2
  <2>3. CASE envelopesOnDisk' = [p \in Projects |-> {envelopes[p]}]
    BY <2>1, <2>3 DEF Atomic!Settle, Atomic!Next
  <2> QED BY <1>6, <2>2, <2>3 DEF SyncProjects
<1>7. CASE SyncFrame
  <2>1. /\ step = "flushing" /\ work.project \in Projects /\ work.envelope \in Envelope
        /\ UNCHANGED <<envelopes, envelopesOnDisk>>
    BY <1>0, <1>7, WorkKinds DEF SyncFrame, WorkInv, TypeOK, projectFiles
  <2>2. CASE UNCHANGED answered
    BY <2>1, <2>2
  <2>3. CASE answered' = [answered EXCEPT ![work.project] = work.envelope.revision]
    <3>1. PICK p \in Projects : p = work.project
      BY <2>1
    <3>2. envelopes[p] = work.envelope /\ envelopes[p] # NoFile /\ envelopesOnDisk[p] = {envelopes[p]}
      BY <2>1, <3>1 DEF StoreInv
    <3>3. Atomic!Answer(p)
      BY <2>1, <2>3, <3>1, <3>2 DEF Atomic!Answer
    <3> QED BY <3>3 DEF Atomic!Next
  <2> QED BY <1>7, <2>2, <2>3 DEF SyncFrame
<1>8. CASE PowerFailure
  <2>1. /\ envelopes' = [p \in Projects |-> envelopes'[p]]
        /\ \A p \in Projects : envelopes'[p] \in envelopesOnDisk[p]
        /\ envelopesOnDisk' = [p \in Projects |-> {envelopes'[p]}]
        /\ UNCHANGED answered
    BY <1>8 DEF PowerFailure, Stop
  <2> QED BY <2>1 DEF Atomic!PowerFailure, Atomic!Next
<1> QED
  BY <1>1, <1>2, <1>3, <1>4, <1>5, <1>6, <1>7, <1>8 DEF Next

\* The envelopes of the commands of all projects, through failing calls, kills
\* and power failures, are an atomic store (atomic.go:10-51, projects.go:64-137).
THEOREM ImplementsAtomicStore == Spec => IsAtomicStore
<1>1. Spec => [](TypeInv /\ StoreInv)
  BY InitType, TypeStep, InitStore, StoreStep, PTL DEF Spec
<1> QED BY <1>1, InitAtomic, AtomicStep, PTL DEF Spec, IsAtomicStore, Atomic!Spec

-----------------------------------------------------------------------------
(* Event files and power failures. *)

\* What a power failure leaves of an event file and is not torn was there, but
\* for its newline.
LEMMA FrameOutcomesKept ==
    ASSUME NEW p \in Projects, frames[p] \in Seq(Line), framesSynced[p] \in Nat,
           NEW f \in FrameOutcomes(p), NEW i \in DOMAIN f, f[i] # Torn
    PROVE  /\ i \in DOMAIN frames[p] /\ frames[p][i] # Torn
           /\ f[i].revision = frames[p][i].revision /\ f[i].package = frames[p][i].package
           /\ \A j \in 1..(i - 1) : f[j] = frames[p][j]
<1>1. Len(frames[p]) \in Nat /\ DOMAIN frames[p] = 1..Len(frames[p])
  BY LenProperties
<1>2. CASE f = <<>>
  BY <1>2
<1>3. ASSUME NEW n \in framesSynced[p]..Len(frames[p]), f = SubSeq(frames[p], 1, n)
      PROVE  /\ i \in DOMAIN frames[p] /\ f[i] = frames[p][i]
             /\ \A j \in 1..(i - 1) : f[j] = frames[p][j]
  <2>1. n \in 0..Len(frames[p])
    BY <1>1
  <2>2. f \in Seq(Line) /\ Len(f) = n /\ \A j \in 1..n : f[j] = frames[p][j]
    BY <1>3, <2>1, PrefixFacts
  <2>3. i \in 1..n
    BY <2>2, LenProperties
  <2> QED BY <1>1, <2>1, <2>2, <2>3
<1>4. ASSUME NEW n \in framesSynced[p]..(Len(frames[p]) - 1),
             NEW cut \in Cuts(frames[p][n + 1]), f = Append(SubSeq(frames[p], 1, n), cut)
      PROVE  /\ i \in DOMAIN frames[p] /\ frames[p][i] # Torn
             /\ f[i].revision = frames[p][i].revision /\ f[i].package = frames[p][i].package
             /\ \A j \in 1..(i - 1) : f[j] = frames[p][j]
  <2>1. n \in 0..Len(frames[p]) /\ n + 1 \in 1..Len(frames[p])
    BY <1>1
  <2>2. /\ SubSeq(frames[p], 1, n) \in Seq(Line) /\ Len(SubSeq(frames[p], 1, n)) = n
        /\ \A j \in 1..n : SubSeq(frames[p], 1, n)[j] = frames[p][j]
    BY <2>1, PrefixFacts
  <2>3. frames[p][n + 1] \in Line
    BY <2>1, ElementOfSeq
  <2>4. /\ cut \in Line
        /\ cut # Torn => /\ frames[p][n + 1] # Torn
                         /\ cut.revision = frames[p][n + 1].revision
                         /\ cut.package = frames[p][n + 1].package
    BY <2>3, CutsFacts
  <2>5. /\ f \in Seq(Line) /\ Len(f) = n + 1 /\ f[n + 1] = cut
        /\ \A j \in 1..n : f[j] = SubSeq(frames[p], 1, n)[j]
    BY <1>4, <2>2, <2>4, AppendFacts
  <2>6. i \in 1..(n + 1)
    BY <2>5, LenProperties
  <2>7. CASE i = n + 1
    BY <1>1, <2>1, <2>2, <2>4, <2>5, <2>7
  <2>8. CASE i \in 1..n
    BY <1>1, <2>1, <2>2, <2>5, <2>8
  <2> QED BY <2>1, <2>6, <2>7, <2>8
<1> QED BY <1>2, <1>3, <1>4, FrameOutcomesFacts

-----------------------------------------------------------------------------
(* Events follow envelopes. *)

\* A commit on its way carries a later revision than every event there is.
EventInv ==
    /\ EventsFollowEnvelopes
    /\ /\ step \in {"creating", "writing", "syncing", "renaming", "settling", "framing"}
       /\ work.kind = "commit"
       => \A i \in DOMAIN frames[work.project] :
             frames[work.project][i] # Torn =>
                 frames[work.project][i].revision < work.envelope.revision

LEMMA InitEvents == Init => EventInv
  BY DEF Init, EventInv, EventsFollowEnvelopes

LEMMA EventStep == TypeInv /\ StoreInv /\ EventInv /\ [Next]_vars => EventInv'
<1> SUFFICES ASSUME TypeInv, StoreInv, EventInv, [Next]_vars
             PROVE  EventInv'
  OBVIOUS
<1> USE SentinelAssumption
<1>0. TypeOK /\ WorkInv /\ ApprovedInv
  BY DEF TypeInv
<1>1. \A p \in Projects : \A i \in DOMAIN frames[p] :
          frames[p][i] # Torn => frames[p][i] \in Frame
  BY <1>0, ElementOfSeq, LenProperties DEF TypeOK, Line
<1>2. ASSUME NEW p \in Projects, NEW i \in DOMAIN frames[p], frames[p][i] # Torn
      PROVE  /\ envelopes[p] \in Envelope
             /\ frames[p][i].revision <= envelopes[p].revision
             /\ frames[p][i].package \in {NoPackage, envelopes[p].package}
  BY <1>0, <1>2 DEF EventInv, EventsFollowEnvelopes, StoreInv, TypeOK
<1>3. ASSUME UNCHANGED <<frames, envelopesOnDisk>>,
             \/ step' = "idle"
             \/ step' \in {"flushing", "opening", "filling", "keeping", "listing"}
             \/ /\ UNCHANGED work
                /\ step \in {"creating", "writing", "syncing", "renaming", "settling"}
             \/ /\ work' # NoWork
                /\ work'.kind = "request"
      PROVE  EventInv'
  BY <1>3 DEF EventInv, EventsFollowEnvelopes
<1>4. ASSUME NEW p \in Projects, UNCHANGED <<frames, envelopesOnDisk>>, work'.project = p,
             \/ envelopes[p] = NoFile
             \/ work'.envelope.revision = envelopes[p].revision + 1
      PROVE  EventInv'
  <2>1. EventsFollowEnvelopes'
    BY <1>4 DEF EventInv, EventsFollowEnvelopes
  <2>2. ASSUME NEW i \in DOMAIN frames[p], frames[p][i] # Torn
        PROVE  frames[p][i].revision < work'.envelope.revision
    <3>1. frames[p][i] \in Frame /\ envelopes[p] \in Envelope /\ envelopes[p] # NoFile
          /\ frames[p][i].revision <= envelopes[p].revision
      BY <1>1, <1>2, <2>2
    <3> QED BY <1>4, <3>1 DEF Frame, Envelope
  <2> QED BY <1>4, <2>1, <2>2 DEF EventInv
<1>5. ASSUME NEW p \in Projects, CommitEdit(p)
      PROVE  EventInv'
  <2>1. UNCHANGED <<frames, envelopesOnDisk>>
    BY <1>5 DEF CommitEdit, files, projectFiles, eventFiles
  <2>2. PICK d \in Digests :
           \/ /\ envelopes[p] = NoFile
              /\ Begin([kind |-> "commit", project |-> p,
                        envelope |-> [revision |-> 1, content |-> d, package |-> NoPackage,
                                      failed |-> 0]], "creating")
           \/ /\ envelopes[p] \in Envelope
              /\ envelopes[p].package = NoPackage
              /\ Begin([kind |-> "commit", project |-> p,
                        envelope |-> [envelopes[p] EXCEPT !.revision = @ + 1, !.content = d]],
                       "creating")
    BY <1>5, Zenon DEF CommitEdit
  <2>3. work'.project = p
    BY <2>2 DEF Begin
  <2>4. envelopes[p] # NoFile => work'.envelope.revision = envelopes[p].revision + 1
    <3>1. ASSUME envelopes[p] # NoFile
          PROVE  /\ envelopes[p] \in Envelope
                 /\ work'.envelope = [envelopes[p] EXCEPT !.revision = @ + 1, !.content = d]
      BY <2>2, <3>1 DEF Begin
    <3>2. envelopes[p] \in Envelope =>
             [envelopes[p] EXCEPT !.revision = @ + 1, !.content = d].revision
                 = envelopes[p].revision + 1
      BY DEF Envelope
    <3> QED BY <3>1, <3>2
  <2> QED BY <1>4, <2>1, <2>3, <2>4
<1>6. ASSUME NEW p \in Projects, CommitFreeze(p)
      PROVE  EventInv'
  <2>1. /\ UNCHANGED <<frames, envelopesOnDisk>> /\ work'.project = p
        /\ work'.envelope = [envelopes[p] EXCEPT !.revision = @ + 1, !.package = approved[p]]
        /\ envelopes[p] \in Envelope
    BY <1>0, <1>6 DEF CommitFreeze, Begin, ApprovedInv, files, projectFiles, eventFiles
  <2>2. work'.envelope.revision = envelopes[p].revision + 1
    BY <2>1 DEF Envelope
  <2> QED BY <1>4, <2>1, <2>2
<1>7. ASSUME NEW p \in Projects, SaveRequest(p) \/ SavePackage(p) \/ AbandonFreeze(p)
      PROVE  EventInv'
  <2>1. UNCHANGED <<frames, envelopesOnDisk>>
    BY <1>7 DEF SaveRequest, SavePackage, AbandonFreeze, files, projectFiles, eventFiles
  <2>2. \/ step' \in {"idle", "opening"}
        \/ work' # NoWork /\ work'.kind = "request"
    <3>1. CASE SaveRequest(p)
      <4>1. work' = [kind |-> "request", project |-> p,
                     envelope |-> [envelopes[p] EXCEPT !.failed = @ + 1]]
        BY <3>1 DEF SaveRequest, Begin
      <4>2. envelopes[p] \in Envelope
        BY <3>1 DEF SaveRequest
      <4>3. work' \in Work
        BY <4>1, <4>2, FailedEnvelope, WorkOf
      <4> QED BY <4>1, <4>3
    <3> QED BY <1>7, <3>1 DEF SavePackage, AbandonFreeze, Begin, Free
  <2> QED BY <1>3, <2>1, <2>2
<1>8. CASE CreateTemp \/ WriteTemp \/ SyncTemp
  BY <1>3, <1>8 DEF CreateTemp, WriteTemp, SyncTemp, GiveUp, Return, Continue, projectFiles,
                    eventFiles
<1>9. CASE OpenPackage \/ WritePackage \/ SyncPackage \/ SyncPackages
  BY <1>3, <1>9 DEF OpenPackage, WritePackage, SyncPackage, SyncPackages, RemovePackage, Return,
                    Continue, projectFiles, eventFiles
<1>10. CASE SyncFrame
  BY <1>3, <1>10 DEF SyncFrame, Return, projectFiles
<1>11. CASE RenameTemp
  <2>1. /\ step = "renaming" /\ work.project \in Projects /\ work.envelope \in Envelope
        /\ temp.content = work.envelope /\ temp.synced
    BY <1>0, <1>11, WorkKinds DEF RenameTemp, WorkInv, TypeOK
  <2>2. CASE GiveUp /\ UNCHANGED frames
    BY <1>3, <2>2 DEF GiveUp, Return, projectFiles
  <2>3. CASE /\ envelopesOnDisk' = [envelopesOnDisk EXCEPT ![work.project] =
                   @ \cup {temp.content} \cup (IF temp.synced THEN {} ELSE {Torn})]
             /\ Continue("settling")
             /\ UNCHANGED frames
    <3>1. envelopesOnDisk' = [envelopesOnDisk EXCEPT ![work.project] = @ \cup {work.envelope}]
      BY <2>1, <2>3
    <3>2. ASSUME NEW i \in DOMAIN frames[work.project], frames[work.project][i] # Torn
          PROVE  /\ frames[work.project][i].revision <= work.envelope.revision
                 /\ frames[work.project][i].package \in {NoPackage, work.envelope.package}
      <4> DEFINE old == envelopes[work.project]
                 f == frames[work.project][i]
      <4>1. /\ old \in Envelope /\ old # NoFile /\ f \in Frame
            /\ f.revision <= old.revision /\ f.package \in {NoPackage, old.package}
        BY <1>1, <1>2, <2>1, <3>2
      <4>2. Atomic!Succeeds(work.envelope, old)
        BY <2>1 DEF StoreInv
      <4>3. CASE work.envelope.revision = old.revision + 1 /\ old.package = NoPackage
        BY <4>1, <4>3 DEF Envelope, Frame
      <4>4. CASE work.envelope = [old EXCEPT !.failed = @ + 1]
        <5>1. work.envelope.revision = old.revision /\ work.envelope.package = old.package
          BY <4>1, <4>4 DEF Envelope
        <5> QED BY <4>1, <5>1
      <4> QED BY <4>1, <4>2, <4>3, <4>4 DEF Atomic!Succeeds
    <3>3. work.envelope # NoFile
      BY <2>1
    <3>4. EventsFollowEnvelopes'
      <4>1. ASSUME NEW p \in Projects, NEW e \in envelopesOnDisk'[p]
            PROVE  e \in envelopesOnDisk[p] \/ (p = work.project /\ e = work.envelope)
        <5>1. CASE p = work.project
          <6>1. envelopesOnDisk'[p] = envelopesOnDisk[p] \cup {work.envelope}
            BY <1>0, <2>1, <3>1, <5>1 DEF TypeOK
          <6> QED BY <4>1, <5>1, <6>1
        <5>2. CASE p # work.project
          <6>1. envelopesOnDisk'[p] = envelopesOnDisk[p]
            BY <1>0, <2>1, <3>1, <5>2 DEF TypeOK
          <6> QED BY <4>1, <6>1
        <5> QED BY <5>1, <5>2
      <4>2. UNCHANGED frames
        BY <2>3
      <4>3. SUFFICES ASSUME NEW p \in Projects, NEW i \in DOMAIN frames[p], frames[p][i] # Torn
                     PROVE  /\ \A e \in envelopesOnDisk'[p] :
                                  /\ e # NoFile /\ frames[p][i].revision <= e.revision
                                  /\ frames[p][i].package \in {NoPackage, e.package}
                            /\ \A j \in 1..(i - 1) : frames[p][j].revision < frames[p][i].revision
        BY <4>2 DEF EventsFollowEnvelopes
      <4>4. /\ \A e \in envelopesOnDisk[p] :
                  /\ e # NoFile /\ frames[p][i].revision <= e.revision
                  /\ frames[p][i].package \in {NoPackage, e.package}
            /\ \A j \in 1..(i - 1) : frames[p][j].revision < frames[p][i].revision
        BY <4>3 DEF EventInv, EventsFollowEnvelopes
      <4> QED BY <3>2, <3>3, <4>1, <4>3, <4>4
    <3> QED BY <2>1, <2>3, <3>4 DEF EventInv, Continue
  <2> QED BY <1>11, <2>2, <2>3 DEF RenameTemp, eventFiles
<1>12. CASE SyncProjects
  <2>1. /\ UNCHANGED frames /\ step = "settling"
        /\ \/ UNCHANGED envelopesOnDisk
           \/ envelopesOnDisk' = [p \in Projects |-> {envelopes[p]}]
        /\ step' = "idle" \/ UNCHANGED work
    BY <1>12 DEF SyncProjects, Return, eventFiles
  <2>2. \A p \in Projects : envelopesOnDisk'[p] \subseteq envelopesOnDisk[p]
    BY <2>1 DEF StoreInv
  <2>3. EventsFollowEnvelopes'
    BY <2>1, <2>2 DEF EventInv, EventsFollowEnvelopes
  <2> QED BY <2>1, <2>3 DEF EventInv
<1>13. step = "framing" => /\ work.project \in Projects /\ work.envelope \in Envelope
                           /\ frames[work.project] \in Seq(Line)
  BY <1>0, WorkKinds DEF WorkInv, TypeOK
<1>14. ASSUME step = "framing", UNCHANGED envelopesOnDisk, NEW x \in Line,
             x # Torn => /\ Readable(frames[work.project])
                         /\ x.revision = work.envelope.revision
                         /\ x.package = work.envelope.package,
             frames' = [frames EXCEPT ![work.project] = Append(@, x)],
             step' \in {"idle", "flushing"}
      PROVE  EventInv'
  <2> DEFINE s == frames[work.project]
  <2>1. /\ work.project \in Projects /\ work.envelope \in Envelope /\ work.kind = "commit"
        /\ s \in Seq(Line)
    BY <1>0, <1>13, <1>14 DEF WorkInv
  <2>2. /\ Append(s, x) \in Seq(Line) /\ Len(Append(s, x)) = Len(s) + 1 /\ Len(s) \in Nat
        /\ \A i \in 1..Len(s) : Append(s, x)[i] = s[i]
        /\ Append(s, x)[Len(s) + 1] = x
    BY <2>1, <2>1, AppendFacts, LenProperties
  <2>3. DOMAIN s = 1..Len(s) /\ DOMAIN Append(s, x) = 1..(Len(s) + 1)
    BY <2>1, <2>2, LenProperties
  <2>5. x # Torn => \A i \in 1..Len(s) : s[i] # Torn
    BY <1>14, <2>3 DEF Readable
  <2>6. /\ frames'[work.project] = Append(s, x)
        /\ \A p \in Projects : p # work.project => frames'[p] = frames[p]
    BY <1>0, <2>1, <1>14 DEF TypeOK
  <2>7. envelopesOnDisk[work.project] = {work.envelope}
    BY <1>14, <2>1 DEF StoreInv
  <2>8. \A i \in DOMAIN s : s[i] # Torn => s[i].revision < work.envelope.revision
    BY <1>14, <2>1 DEF EventInv
  <2>9. ASSUME NEW i \in DOMAIN Append(s, x), Append(s, x)[i] # Torn
        PROVE  /\ Append(s, x)[i].revision <= work.envelope.revision
               /\ Append(s, x)[i].package \in {NoPackage, work.envelope.package}
               /\ \A j \in 1..(i - 1) : Append(s, x)[j].revision < Append(s, x)[i].revision
    <3>1. CASE i = Len(s) + 1
      <4>1. x # Torn /\ Append(s, x)[i] = x /\ x.revision = work.envelope.revision
            /\ x.package = work.envelope.package
        BY <1>14, <2>2, <2>9, <3>1
      <4>2. work.envelope.revision \in Nat
        BY <2>1 DEF Envelope
      <4>3. \A j \in 1..(i - 1) : Append(s, x)[j] = s[j] /\ s[j].revision < work.envelope.revision
        BY <2>2, <2>3, <2>5, <2>8, <2>9, <3>1, <4>1
      <4> QED BY <4>1, <4>2, <4>3
    <3>2. CASE i \in 1..Len(s)
      <4>1. /\ Append(s, x)[i] = s[i] /\ s[i] # Torn /\ i \in DOMAIN s
            /\ \A j \in 1..(i - 1) : Append(s, x)[j] = s[j]
        BY <2>2, <2>3, <2>9, <3>2
      <4>2. /\ s[i].revision <= work.envelope.revision
            /\ s[i].package \in {NoPackage, work.envelope.package}
            /\ \A j \in 1..(i - 1) : s[j].revision < s[i].revision
        BY <2>1, <2>7, <4>1 DEF EventInv, EventsFollowEnvelopes
      <4> QED BY <4>1, <4>2
    <3> QED BY <2>2, <2>3, <2>9, <3>1, <3>2
  <2>10. EventsFollowEnvelopes'
    <3>1. ASSUME NEW p \in Projects, p # work.project, NEW i \in DOMAIN frames'[p],
                 frames'[p][i] # Torn
          PROVE  /\ \A e \in envelopesOnDisk'[p] :
                       /\ e # NoFile /\ frames'[p][i].revision <= e.revision
                       /\ frames'[p][i].package \in {NoPackage, e.package}
                 /\ \A j \in 1..(i - 1) : frames'[p][j].revision < frames'[p][i].revision
      BY <1>14, <2>1, <2>6, <3>1 DEF EventInv, EventsFollowEnvelopes
    <3>2. work.envelope # NoFile /\ envelopesOnDisk'[work.project] = {work.envelope}
      BY <1>14, <2>1, <2>7
    <3> QED BY <2>6, <2>9, <3>1, <3>2, ZenonT(30) DEF EventsFollowEnvelopes
  <2> QED BY <1>14, <2>10 DEF EventInv
<1>15. CASE WriteFrame
  <2>1. step = "framing" /\ UNCHANGED envelopesOnDisk
    BY <1>15 DEF WriteFrame, projectFiles
  <2> DEFINE s == frames[work.project]
             fr == NextFrame(s, work.envelope)
  <2>2. CASE UNCHANGED frames /\ Return
    BY <1>3, <2>1, <2>2 DEF Return
  <2>3. CASE /\ Readable(s) /\ frames' = [frames EXCEPT ![work.project] = Append(@, fr)]
             /\ step' = "flushing"
    <3>1. fr \in Line
      BY <1>13, <2>1, <2>3, NextFrameType DEF Line
    <3>2. fr.revision = work.envelope.revision /\ fr.package = work.envelope.package
      BY DEF NextFrame
    <3> HIDE DEF fr
    <3> QED BY <1>14, <2>1, <2>3, <3>1, <3>2
  <2>4. CASE Readable(s) /\ AppendCut /\ step' = "idle"
    BY <1>14, <2>1, <2>4, AppendCutFacts
  <2> QED BY <1>15, <2>2, <2>3, <2>4 DEF WriteFrame, Return, Continue
<1>16. CASE Kill
  <2>1. UNCHANGED envelopesOnDisk /\ step' = "idle"
    BY <1>16 DEF Kill, Stop
  <2>2. CASE UNCHANGED frames
    BY <1>3, <2>1, <2>2
  <2>3. CASE step = "framing" /\ Readable(frames[work.project]) /\ AppendCut
    BY <1>14, <2>1, <2>3, AppendCutFacts
  <2> QED BY <1>16, <2>2, <2>3 DEF Kill
<1>17. CASE PowerFailure
  <2>1. /\ step' = "idle"
        /\ \A p \in Projects : frames'[p] \in FrameOutcomes(p)
        /\ \A p \in Projects : envelopesOnDisk'[p] \subseteq envelopesOnDisk[p]
    BY <1>17 DEF PowerFailure, Stop
  <2>2. ASSUME NEW p \in Projects, NEW i \in DOMAIN frames'[p], frames'[p][i] # Torn
        PROVE  /\ i \in DOMAIN frames[p] /\ frames[p][i] # Torn
               /\ frames'[p][i].revision = frames[p][i].revision
               /\ frames'[p][i].package = frames[p][i].package
               /\ \A j \in 1..(i - 1) : frames'[p][j] = frames[p][j]
    <3>1. frames[p] \in Seq(Line) /\ framesSynced[p] \in Nat
      BY <1>0 DEF TypeOK
    <3>2. PICK f \in FrameOutcomes(p) : f = frames'[p]
      BY <2>1
    <3> QED BY <2>2, <3>1, <3>2, FrameOutcomesKept
  <2>3. ASSUME NEW p \in Projects, NEW i \in DOMAIN frames'[p], frames'[p][i] # Torn
        PROVE  \A j \in 1..(i - 1) : frames'[p][j].revision < frames'[p][i].revision
    <3>1. /\ i \in DOMAIN frames[p] /\ frames[p][i] # Torn
          /\ frames'[p][i].revision = frames[p][i].revision
          /\ \A j \in 1..(i - 1) : frames'[p][j] = frames[p][j]
      BY <2>2, <2>3
    <3>2. \A j \in 1..(i - 1) : frames[p][j].revision < frames[p][i].revision
      BY <2>3, <3>1 DEF EventInv, EventsFollowEnvelopes
    <3> QED BY <3>1, <3>2
  <2> QED BY <2>1, <2>2, <2>3 DEF EventInv, EventsFollowEnvelopes
<1>18. CASE Start \/ UNCHANGED vars
  BY <1>18 DEF Start, vars, files, projectFiles, eventFiles, EventInv, EventsFollowEnvelopes
<1> QED
  BY <1>5, <1>6, <1>7, <1>8, <1>9, <1>10, <1>11, <1>12, <1>15, <1>16, <1>17, <1>18 DEF Next

\* Events follow envelopes now and after any power failure (projects.go:130-135).
THEOREM EventsBehind == Spec => []EventsFollowEnvelopes
<1>1. EventInv => EventsFollowEnvelopes
  BY DEF EventInv
<1> QED BY <1>1, InitType, TypeStep, InitStore, StoreStep, InitEvents, EventStep, PTL DEF Spec

-----------------------------------------------------------------------------
(* Event files stay readable, and keep what was answered. *)

\* The first lines of a readable file are one.
LEMMA ReadableWithin ==
    ASSUME NEW s \in Seq(Line), NEW t \in Seq(Line), Len(t) <= Len(s),
           \A i \in 1..Len(t) : t[i] = s[i], Readable(s)
    PROVE  Readable(t)
<1>1. /\ Len(s) \in Nat /\ DOMAIN s = 1..Len(s) /\ Len(t) \in Nat /\ DOMAIN t = 1..Len(t)
  BY LenProperties
<1>2. ASSUME NEW i \in DOMAIN t
      PROVE  /\ t[i] # Torn /\ ~Joined(t, i) /\ t[i].sequence = i
             /\ t[i].previous = IF i = 1 THEN 0 ELSE t[i - 1].revision
  <2>1. i \in DOMAIN s /\ t[i] = s[i]
    BY <1>1, <1>2
  <2>2. i # 1 => t[i - 1] = s[i - 1]
    BY <1>1, <1>2
  <2>3. /\ s[i] # Torn /\ ~Joined(s, i) /\ s[i].sequence = i
        /\ s[i].previous = IF i = 1 THEN 0 ELSE s[i - 1].revision
    BY <2>1 DEF Readable
  <2>4. ~Joined(t, i)
    BY <1>1, <1>2, <2>2, <2>3 DEF Joined
  <2> QED BY <2>1, <2>2, <2>3, <2>4
<1> QED BY <1>2 DEF Readable

LEMMA ReadablePrefix ==
    ASSUME NEW s \in Seq(Line), NEW m \in 0..Len(s), NEW n \in 0..m,
           Readable(SubSeq(s, 1, m))
    PROVE  Readable(SubSeq(s, 1, n))
<1>1. Len(s) \in Nat /\ n \in 0..Len(s)
  BY LenProperties
<1>2. /\ SubSeq(s, 1, m) \in Seq(Line) /\ Len(SubSeq(s, 1, m)) = m
      /\ \A i \in 1..m : SubSeq(s, 1, m)[i] = s[i]
  BY PrefixFacts
<1>3. /\ SubSeq(s, 1, n) \in Seq(Line) /\ Len(SubSeq(s, 1, n)) = n
      /\ \A i \in 1..n : SubSeq(s, 1, n)[i] = s[i]
  BY <1>1, PrefixFacts
<1> DEFINE u == SubSeq(s, 1, m)
           t == SubSeq(s, 1, n)
<1>4. u \in Seq(Line) /\ t \in Seq(Line) /\ Len(t) <= Len(u) /\ Readable(u)
  BY <1>2, <1>3
<1>5. \A i \in 1..Len(t) : t[i] = u[i]
  BY <1>2, <1>3
<1> HIDE DEF u, t
<1>6. Readable(t)
  BY <1>4, <1>5, ReadableWithin
<1> QED BY <1>6 DEF t

LEMMA WholePrefix ==
    ASSUME NEW T, NEW s \in Seq(T)
    PROVE  SubSeq(s, 1, Len(s)) = s
<1>1. Len(s) \in Nat /\ Len(s) \in 0..Len(s)
  BY LenProperties
<1>2. /\ SubSeq(s, 1, Len(s)) \in Seq(T) /\ Len(SubSeq(s, 1, Len(s))) = Len(s)
      /\ \A i \in 1..Len(s) : SubSeq(s, 1, Len(s))[i] = s[i]
  BY <1>1, PrefixFacts
<1> QED BY <1>2, SeqEqual

LEMMA ButLast ==
    ASSUME NEW T, NEW s \in Seq(T), NEW e \in T
    PROVE  SubSeq(Append(s, e), 1, Len(Append(s, e)) - 1) = s
<1> DEFINE a == Append(s, e)
<1>1. /\ a \in Seq(T) /\ Len(a) = Len(s) + 1 /\ \A i \in 1..Len(s) : a[i] = s[i]
      /\ Len(s) \in Nat
  BY AppendFacts, LenProperties
<1>2. Len(a) - 1 = Len(s) /\ Len(s) \in 0..Len(a)
  BY <1>1
<1>3. /\ SubSeq(a, 1, Len(s)) \in Seq(T) /\ Len(SubSeq(a, 1, Len(s))) = Len(s)
      /\ \A i \in 1..Len(s) : SubSeq(a, 1, Len(s))[i] = a[i]
  BY <1>1, <1>2, PrefixFacts
<1>4. SubSeq(a, 1, Len(s)) = s
  BY <1>1, <1>3, SeqEqual
<1> QED BY <1>2, <1>4

\* Every line is ended by its newline.
Whole(file) == Readable(file) /\ \A i \in DOMAIN file : file[i].ended

\* appendEventLocked keeps a file readable, unless the last line was not ended.
LEMMA ReadableAppend ==
    ASSUME NEW s \in Seq(Line), NEW e \in Envelope, Readable(s),
           NEW a, a = Append(s, NextFrame(s, e))
    PROVE  /\ Readable(a) \/ Joined(a, Len(a))
           /\ Whole(s) => Whole(a)
<1> DEFINE fr == NextFrame(s, e)
<1>1. fr \in Line /\ fr # Torn
  BY NextFrameType, SentinelAssumption DEF Line
<1>2. /\ a \in Seq(Line) /\ Len(a) = Len(s) + 1 /\ \A i \in 1..Len(s) : a[i] = s[i]
      /\ a[Len(s) + 1] = fr
  BY <1>1, AppendFacts
<1>3. /\ Len(s) \in Nat /\ DOMAIN s = 1..Len(s) /\ DOMAIN a = 1..(Len(s) + 1)
  BY <1>2, LenProperties
<1>4. fr.sequence = Len(s) + 1 /\ fr.ended
      /\ fr.previous = IF s = <<>> THEN 0 ELSE s[Len(s)].revision
  BY DEF NextFrame
<1>5. s = <<>> <=> Len(s) = 0
  BY EmptySeq
<1> HIDE DEF fr
<1>6. ASSUME NEW i \in DOMAIN a
      PROVE  /\ a[i] # Torn /\ a[i].sequence = i
             /\ a[i].previous = IF i = 1 THEN 0 ELSE a[i - 1].revision
             /\ i # Len(a) => ~Joined(a, i)
  <2>1. CASE i \in 1..Len(s)
    <3>1. i \in DOMAIN s /\ a[i] = s[i] /\ (i # 1 => a[i - 1] = s[i - 1])
      BY <1>2, <1>3, <2>1
    <3>2. s[i] # Torn /\ ~Joined(s, i) /\ s[i].sequence = i
          /\ s[i].previous = IF i = 1 THEN 0 ELSE s[i - 1].revision
      BY <3>1 DEF Readable
    <3>3. ~Joined(a, i)
      BY <1>3, <2>1, <3>1, <3>2 DEF Joined
    <3> QED BY <3>1, <3>2, <3>3
  <2>2. CASE i = Len(s) + 1
    <3>1. a[i] = fr /\ (i = 1 <=> s = <<>>) /\ i = Len(a)
      BY <1>2, <1>3, <1>5, <2>2
    <3>2. CASE Len(s) = 0
      BY <1>1, <1>4, <1>5, <2>2, <3>1, <3>2
    <3>3. CASE Len(s) # 0
      <4>1. Len(s) \in 1..Len(s) /\ i - 1 = Len(s) /\ i # 1
        BY <1>3, <2>2, <3>3
      <4>2. a[i - 1] = s[Len(s)]
        BY <1>2, <4>1
      <4> QED BY <1>1, <1>4, <1>5, <2>2, <3>1, <3>3, <4>1, <4>2
    <3> QED BY <3>2, <3>3
  <2> QED BY <1>3, <2>1, <2>2
<1>7. Readable(a) \/ Joined(a, Len(a))
  BY <1>2, <1>6 DEF Readable
<1>8. ASSUME Whole(s)
      PROVE  Whole(a)
  <2>1. \A i \in DOMAIN a : a[i].ended
    BY <1>2, <1>3, <1>4, <1>8 DEF Whole
  <2>2. ~Joined(a, Len(a))
    <3>1. CASE Len(s) = 0
      BY <1>2, <3>1 DEF Joined
    <3>2. CASE Len(s) # 0
      <4>1. Len(a) - 1 \in DOMAIN a
        BY <1>2, <1>3, <3>2
      <4> QED BY <2>1, <4>1 DEF Joined
    <3> QED BY <3>1, <3>2
  <2> QED BY <1>7, <2>1, <2>2 DEF Whole
<1> QED BY <1>7, <1>8

\* The lines of a file but the last.
Front(file) == SubSeq(file, 1, Len(file) - 1)

\* A power failure leaves an event file unreadable only if a frame was on its way.
LEMMA FrameOutcomesReadable ==
    ASSUME NEW p \in Projects, frames[p] \in Seq(Line), framesSynced[p] \in Nat,
           framesSynced[p] <= Len(frames[p]),
           Readable(frames[p]) \/ Readable(Front(frames[p])),
           NEW f \in FrameOutcomes(p)
    PROVE  /\ Readable(f) \/ Readable(Front(f))
           /\ framesSynced[p] = Len(frames[p]) => f = <<>> \/ f = frames[p]
           /\ Len(f) >= framesSynced[p] => \A i \in 1..framesSynced[p] : f[i] = frames[p][i]
<1> DEFINE s == frames[p]
           k == framesSynced[p]
<1>1. Len(s) \in Nat /\ SubSeq(s, 1, Len(s)) = s
  BY LenProperties, WholePrefix
<1>2. ASSUME NEW n \in 0..(Len(s) - 1)
      PROVE  Readable(SubSeq(s, 1, n))
  <2>1. CASE Readable(s)
    <3>1. Len(s) \in 0..Len(s) /\ n \in 0..Len(s)
      BY <1>1
    <3> QED BY <1>1, <2>1, <3>1, ReadablePrefix
  <2>2. CASE Readable(Front(s))
    <3>1. (Len(s) - 1) \in 0..Len(s)
      BY <1>1, <1>2
    <3> QED BY <1>2, <2>2, <3>1, ReadablePrefix DEF Front
  <2> QED BY <2>1, <2>2
<1>3. CASE f = <<>>
  <2>1. Readable(f) /\ Len(f) = 0
    BY <1>3 DEF Readable
  <2> QED BY <2>1
<1>4. ASSUME NEW n \in k..Len(s), f = SubSeq(s, 1, n)
      PROVE  /\ Readable(f) \/ Readable(Front(f))
             /\ k = Len(s) => f = s
             /\ \A i \in 1..k : f[i] = s[i]
  <2>1. n \in 0..Len(s)
    BY <1>1
  <2>2. \A i \in 1..n : f[i] = s[i]
    BY <1>4, <2>1, PrefixFacts
  <2>3. \A i \in 1..k : f[i] = s[i]
    BY <1>1, <2>2
  <2>4. CASE n = Len(s)
    BY <1>1, <1>4, <2>3, <2>4
  <2>5. CASE n # Len(s)
    <3>1. n \in 0..(Len(s) - 1)
      BY <1>1, <2>1, <2>5
    <3> QED BY <1>2, <1>4, <2>3, <3>1
  <2> QED BY <2>4, <2>5
<1>5. ASSUME NEW n \in k..(Len(s) - 1), NEW line \in Cuts(s[n + 1]),
             f = Append(SubSeq(s, 1, n), line)
      PROVE  /\ Readable(Front(f)) /\ k # Len(s)
             /\ \A i \in 1..k : f[i] = s[i]
  <2>0. n \in 0..Len(s) /\ n \in 0..(Len(s) - 1) /\ n + 1 \in 1..Len(s)
    BY <1>1
  <2>1. n \in 0..Len(s) /\ n \in 0..(Len(s) - 1) /\ line \in Line
    BY <2>0, CutsFacts, ElementOfSeq
  <2>2. /\ SubSeq(s, 1, n) \in Seq(Line) /\ Len(SubSeq(s, 1, n)) = n
        /\ \A i \in 1..n : SubSeq(s, 1, n)[i] = s[i]
    BY <2>1, PrefixFacts
  <2>3. \A i \in 1..n : f[i] = SubSeq(s, 1, n)[i]
    BY <1>5, <2>1, <2>2, AppendFacts
  <2>4. Front(f) = SubSeq(s, 1, n)
    BY <1>5, <2>1, <2>2, ButLast DEF Front
  <2>5. k # Len(s) /\ \A i \in 1..k : f[i] = s[i]
    BY <1>1, <2>2, <2>3
  <2> QED BY <1>2, <2>1, <2>4, <2>5
<1> QED BY <1>3, <1>4, <1>5, FrameOutcomesFacts

\* Lines that are not synced belong to an append that is at work or was cut off;
\* the event of an answer is among the synced ones.
Flushing(p) == step = "flushing" /\ p = work.project
HasEvent(file, i, revision) ==
    /\ file[i] # Torn /\ file[i].ended /\ file[i].revision = revision
    /\ Readable(SubSeq(file, 1, i)) \/ Joined(file, i)
ChainInv ==
    /\ \A p \in Projects : framesSynced[p] <= Len(frames[p])
    /\ \A p \in Projects : Readable(frames[p]) \/ Readable(Front(frames[p]))
    /\ \A p \in Projects : p \in cutOff \/ Whole(frames[p])
    /\ \A p \in Projects : p \in cutOff \/ Flushing(p) \/ framesSynced[p] = Len(frames[p])
    /\ step = "flushing" =>
          LET f == frames[work.project] IN
          f # <<>> /\ HasEvent(f, Len(f), work.envelope.revision)
    /\ \A p \in Projects : answered[p] # 0 /\ p \notin vanished =>
          \E i \in 1..framesSynced[p] : HasEvent(frames[p], i, answered[p])

\* The event is there in every file that begins with the same lines.
LEMMA EventKept ==
    ASSUME NEW s \in Seq(Line), NEW t \in Seq(Line), NEW i \in 1..Len(s), i <= Len(t),
           \A j \in 1..i : t[j] = s[j], NEW r, HasEvent(s, i, r)
    PROVE  HasEvent(t, i, r)
<1>1. Len(s) \in Nat /\ Len(t) \in Nat /\ i \in 0..Len(s) /\ i \in 0..Len(t)
  BY LenProperties
<1>2. /\ SubSeq(s, 1, i) \in Seq(Line) /\ Len(SubSeq(s, 1, i)) = i
      /\ \A j \in 1..i : SubSeq(s, 1, i)[j] = s[j]
  BY <1>1, PrefixFacts
<1>3. /\ SubSeq(t, 1, i) \in Seq(Line) /\ Len(SubSeq(t, 1, i)) = i
      /\ \A j \in 1..i : SubSeq(t, 1, i)[j] = t[j]
  BY <1>1, PrefixFacts
<1>4. SubSeq(t, 1, i) = SubSeq(s, 1, i)
  BY <1>2, <1>3, SeqEqual
<1>5. Joined(s, i) => Joined(t, i)
  BY <1>1 DEF Joined
<1>6. t[i] = s[i]
  BY <1>1
<1> QED BY <1>4, <1>5, <1>6, Zenon DEF HasEvent

LEMMA InitChain == Init => ChainInv
<1>1. Readable(<<>>) /\ Len(<<>>) = 0
  BY DEF Readable
<1> QED BY <1>1 DEF Init, ChainInv, Whole

LEMMA ChainStep == TypeInv /\ ChainInv /\ [Next]_vars => ChainInv'
<1> SUFFICES ASSUME TypeInv, ChainInv, [Next]_vars
             PROVE  ChainInv'
  OBVIOUS
<1>0. TypeOK /\ WorkInv
  BY DEF TypeInv
<1>1. \A p \in Projects : frames[p] \in Seq(Line) /\ framesSynced[p] \in Nat /\ Len(frames[p]) \in Nat
  BY <1>0, LenProperties DEF TypeOK
<1>2. ASSUME UNCHANGED <<eventFiles, answered, vanished>>, step' # "flushing",
             \/ cutOff' = cutOff /\ step # "flushing"
             \/ cutOff' = cutOff \cup {p \in Projects : step \in {"framing", "flushing"}
                                                          /\ p = work.project}
      PROVE  ChainInv'
  <2>1. UNCHANGED <<frames, framesSynced>>
    BY <1>2 DEF eventFiles
  <2>2. cutOff \subseteq cutOff' /\ \A p \in Projects : Flushing(p) => p \in cutOff'
    BY <1>2 DEF Flushing
  <2> QED BY <1>2, <2>1, <2>2 DEF ChainInv, Flushing
<1>3. ASSUME UNCHANGED <<eventFiles, answered, vanished, cutOff>>,
             step # "flushing", step' # "flushing"
      PROVE  ChainInv'
  BY <1>2, <1>3
<1>4. ASSUME NEW p \in Projects, \/ CommitEdit(p) \/ SaveRequest(p) \/ SavePackage(p)
                                 \/ CommitFreeze(p) \/ AbandonFreeze(p)
      PROVE  ChainInv'
  <2>1. UNCHANGED <<eventFiles, answered, vanished, cutOff>>
    BY <1>4 DEF CommitEdit, SaveRequest, SavePackage, CommitFreeze, AbandonFreeze, files, ghosts
  <2>2. step # "flushing" /\ step' # "flushing"
    BY <1>4 DEF CommitEdit, SaveRequest, SavePackage, CommitFreeze, AbandonFreeze, Free, Begin
  <2> QED BY <1>3, <2>1, <2>2
<1>5. CASE CreateTemp \/ WriteTemp \/ SyncTemp \/ RenameTemp \/ SyncProjects
  <2>1. UNCHANGED <<eventFiles, answered, vanished, cutOff>>
    BY <1>5 DEF CreateTemp, WriteTemp, SyncTemp, RenameTemp, SyncProjects, ghosts
  <2>2. step # "flushing" /\ step' # "flushing"
    BY <1>5 DEF CreateTemp, WriteTemp, SyncTemp, RenameTemp, SyncProjects, GiveUp, Return, Continue
  <2> QED BY <1>3, <2>1, <2>2
<1>6. CASE OpenPackage \/ WritePackage \/ SyncPackage \/ SyncPackages
  <2>1. UNCHANGED <<eventFiles, answered, vanished, cutOff>>
    BY <1>6 DEF OpenPackage, WritePackage, SyncPackage, SyncPackages, ghosts
  <2>2. step # "flushing" /\ step' # "flushing"
    BY <1>6 DEF OpenPackage, WritePackage, SyncPackage, SyncPackages, RemovePackage, Return, Continue
  <2> QED BY <1>3, <2>1, <2>2
<1>7. ASSUME step = "framing", Readable(frames[work.project]), NEW x \in Line,
             frames' = [frames EXCEPT ![work.project] = Append(@, x)],
             \/ /\ x = NextFrame(frames[work.project], work.envelope)
                /\ step' = "flushing" /\ UNCHANGED <<work, cutOff>>
             \/ step' = "idle" /\ cutOff' = cutOff \cup {work.project},
             UNCHANGED <<framesSynced, answered, vanished>>
      PROVE  ChainInv'
  <2> DEFINE q == work.project
             s == frames[q]
             a == Append(s, x)
  <2>1. q \in Projects /\ work.envelope \in Envelope /\ s \in Seq(Line) /\ Len(s) \in Nat
    BY <1>0, <1>1, <1>7, WorkKinds DEF WorkInv, TypeOK
  <2>2. /\ a \in Seq(Line) /\ Len(a) = Len(s) + 1 /\ a[Len(a)] = x /\ Front(a) = s
        /\ \A i \in 1..Len(s) : a[i] = s[i]
    BY <1>7, <2>1, AppendFacts, ButLast DEF Front
  <2>3. frames'[q] = a /\ \A p \in Projects : p # q => frames'[p] = frames[p]
    BY <1>0, <1>7, <2>1 DEF TypeOK
  <2>4. step' = "flushing" => /\ Readable(a) \/ Joined(a, Len(a))
                              /\ Whole(s) => Whole(a)
    BY <1>7, <2>1, ReadableAppend
  <2>5. cutOff \subseteq cutOff' /\ (q \in cutOff' \/ (step' = "flushing" /\ work' = work))
    BY <1>7
  <2>6. \A p \in Projects : ~Flushing(p)
    BY <1>7 DEF Flushing
  <2> HIDE DEF a, s
  <2>7. \A p \in Projects : framesSynced'[p] <= Len(frames'[p])
    BY <1>1, <1>7, <2>1, <2>2, <2>3 DEF ChainInv, s
  <2>8. \A p \in Projects : Readable(frames'[p]) \/ Readable(Front(frames'[p]))
    BY <1>7, <2>2, <2>3 DEF ChainInv, s
  <2>9. \A p \in Projects : p \in cutOff' \/ Whole(frames'[p])
    BY <2>1, <2>3, <2>4, <2>5 DEF ChainInv, s
  <2>10. ASSUME NEW p \in Projects
         PROVE  p \in cutOff' \/ Flushing(p)' \/ framesSynced'[p] = Len(frames'[p])
    <3>1. CASE p = q
      BY <2>5, <3>1 DEF Flushing
    <3>2. CASE p # q
      BY <1>7, <2>3, <2>5, <2>6, <3>2 DEF ChainInv
    <3> QED BY <3>1, <3>2
  <2>11. step' = "flushing" => a # <<>> /\ HasEvent(a, Len(a), work.envelope.revision)
    <3> SUFFICES ASSUME step' = "flushing"
                 PROVE  a # <<>> /\ HasEvent(a, Len(a), work.envelope.revision)
      OBVIOUS
    <3>1. /\ x \in Frame /\ x.revision = work.envelope.revision /\ x.ended
      <4>1. x = NextFrame(s, work.envelope)
        BY <1>7 DEF s
      <4>2. NextFrame(s, work.envelope) \in Frame
        BY <1>7, <2>1, NextFrameType DEF s
      <4> QED BY <4>1, <4>2 DEF NextFrame
    <3>2. a # <<>> /\ SubSeq(a, 1, Len(a)) = a
      BY <2>1, <2>2, WholePrefix
    <3> QED BY <2>2, <2>4, <3>1, <3>2, SentinelAssumption DEF HasEvent
  <2>12. ASSUME NEW p \in Projects, answered'[p] # 0, p \notin vanished'
         PROVE  \E i \in 1..framesSynced'[p] : HasEvent(frames'[p], i, answered'[p])
    <3>1. PICK i \in 1..framesSynced[p] : HasEvent(frames[p], i, answered[p])
      BY <1>7, <2>12 DEF ChainInv
    <3>2. i \in 1..Len(frames[p])
      BY <1>1 DEF ChainInv
    <3>3. CASE p # q
      BY <1>7, <2>3, <3>1, <3>3
    <3>4. CASE p = q
      <4>1. s = frames[p] /\ frames'[p] = a
        BY <2>3, <3>4 DEF s
      <4>2. i \in 1..Len(s) /\ i <= Len(a) /\ \A j \in 1..i : a[j] = s[j]
        BY <2>1, <2>2, <3>2, <4>1
      <4>3. HasEvent(a, i, answered[p])
        BY <2>1, <2>2, <3>1, <4>1, <4>2, EventKept
      <4> QED BY <1>7, <4>1, <4>3
    <3> QED BY <3>3, <3>4
  <2>13. step' = "flushing" => work' = work
    BY <1>7
  <2> QED
    BY <2>3, <2>7, <2>8, <2>9, <2>10, <2>11, <2>12, <2>13 DEF ChainInv
<1>13. CASE WriteFrame
  <2>1. /\ step = "framing" /\ UNCHANGED <<framesSynced, framesListed, answered, vanished>>
        /\ work.project \in Projects /\ work.envelope \in Envelope
    BY <1>0, <1>13, WorkKinds DEF WriteFrame, WorkInv, TypeOK
  <2> DEFINE s == frames[work.project]
             fr == NextFrame(s, work.envelope)
  <2>2. CASE UNCHANGED <<frames, cutOff>> /\ Return
    BY <1>3, <2>1, <2>2 DEF eventFiles, Return
  <2>3. CASE /\ Readable(s) /\ frames' = [frames EXCEPT ![work.project] = Append(@, fr)]
             /\ step' = "flushing" /\ UNCHANGED <<work, cutOff>>
    <3>1. fr \in Line
      BY <1>1, <2>1, <2>3, NextFrameType DEF Line
    <3> QED BY <1>7, <2>1, <2>3, <3>1
  <2>4. CASE /\ Readable(s) /\ AppendCut
             /\ step' = "idle" /\ cutOff' = cutOff \cup {work.project}
    <3>1. PICK line \in Line : frames' = [frames EXCEPT ![work.project] = Append(@, line)]
      BY <2>1, <2>4, AppendCutFacts
    <3> QED BY <1>7, <2>1, <2>4, <3>1
  <2> QED BY <1>13, <2>2, <2>3, <2>4 DEF WriteFrame, Return, Continue
<1>8. CASE SyncFrame
  <2>1. /\ step = "flushing" /\ step' = "idle" /\ work.project \in Projects
        /\ work.envelope \in Envelope
        /\ UNCHANGED <<frames, framesListed, vanished>>
    BY <1>0, <1>8, WorkKinds DEF SyncFrame, WorkInv, TypeOK, Return
  <2> DEFINE q == work.project
  <2>2. CASE /\ framesSynced' = [framesSynced EXCEPT ![q] = Len(frames[q])]
             /\ answered' = [answered EXCEPT ![q] = work.envelope.revision]
             /\ UNCHANGED cutOff
    <3>1. /\ framesSynced'[q] = Len(frames[q]) /\ answered'[q] = work.envelope.revision
          /\ \A p \in Projects : p # q => framesSynced'[p] = framesSynced[p]
                                          /\ answered'[p] = answered[p]
      BY <1>0, <2>1, <2>2 DEF TypeOK
    <3>2. /\ Len(frames[q]) \in 1..Len(frames[q])
          /\ HasEvent(frames[q], Len(frames[q]), work.envelope.revision)
      BY <1>1, <2>1, EmptySeq DEF ChainInv
    <3>3. \A p \in Projects : Flushing(p) => p = q
      BY DEF Flushing
    <3>4. \A p \in Projects : framesSynced'[p] <= Len(frames'[p])
                              /\ (p \in cutOff' \/ framesSynced'[p] = Len(frames'[p]))
      BY <1>1, <2>1, <2>2, <3>1, <3>3 DEF ChainInv
    <3>5. ASSUME NEW p \in Projects, answered'[p] # 0, p \notin vanished'
          PROVE  \E i \in 1..framesSynced'[p] : HasEvent(frames'[p], i, answered'[p])
      <4>1. CASE p = q
        BY <2>1, <3>1, <3>2, <4>1
      <4>2. CASE p # q
        BY <2>1, <3>1, <3>5, <4>2 DEF ChainInv
      <4> QED BY <4>1, <4>2
    <3> QED BY <2>1, <2>2, <3>4, <3>5 DEF ChainInv
  <2>3. CASE cutOff' = cutOff \cup {q} /\ UNCHANGED <<framesSynced, answered>>
    <3>1. UNCHANGED <<eventFiles, answered, vanished>> /\ step' # "flushing"
      BY <2>1, <2>3 DEF eventFiles
    <3>2. cutOff' = cutOff \cup {p \in Projects : step \in {"framing", "flushing"}
                                                    /\ p = work.project}
      BY <2>1, <2>3
    <3> QED BY <1>2, <3>1, <3>2
  <2> QED BY <1>8, <2>2, <2>3 DEF SyncFrame
<1>9. CASE Kill
  <2>1. /\ step' = "idle" /\ UNCHANGED <<framesSynced, framesListed, answered, vanished>>
        /\ cutOff' = cutOff \cup {p \in Projects : step \in {"framing", "flushing"}
                                                     /\ p = work.project}
    BY <1>9 DEF Kill, Stop
  <2>2. CASE UNCHANGED frames
    <3>1. UNCHANGED <<eventFiles, answered, vanished>> /\ step' # "flushing"
      BY <2>1, <2>2 DEF eventFiles
    <3> QED BY <1>2, <2>1, <3>1
  <2>3. CASE step = "framing" /\ Readable(frames[work.project]) /\ AppendCut
    <3>1. PICK line \in Line : frames' = [frames EXCEPT ![work.project] = Append(@, line)]
      BY <2>3, AppendCutFacts
    <3>2. work.project \in Projects
      BY <1>0, <2>3, WorkKinds DEF WorkInv, TypeOK
    <3>3. cutOff' = cutOff \cup {work.project}
      BY <2>1, <2>3, <3>2
    <3> QED BY <1>7, <2>1, <2>3, <3>1, <3>3
  <2> QED BY <1>9, <2>2, <2>3 DEF Kill
<1>10. CASE PowerFailure
  <2>1. /\ step' = "idle" /\ UNCHANGED answered
        /\ framesSynced' = [p \in Projects |-> Len(frames'[p])]
        /\ vanished' = vanished \cup {p \in Projects : Len(frames'[p]) < framesSynced[p]}
        /\ cutOff' = cutOff \cup {p \in Projects : step \in {"framing", "flushing"}
                                                     /\ p = work.project}
        /\ \A p \in Projects : frames'[p] \in FrameOutcomes(p)
    BY <1>10 DEF PowerFailure, Stop
  <2>2. \A p \in Projects : frames'[p] \in Seq(Line) /\ Len(frames'[p]) \in Nat
    <3>1. TypeOK'
      BY TypeStep DEF TypeInv
    <3> QED BY <3>1, LenProperties DEF TypeOK
  <2>3. ASSUME NEW p \in Projects
        PROVE  /\ Readable(frames'[p]) \/ Readable(Front(frames'[p]))
               /\ framesSynced[p] = Len(frames[p]) => frames'[p] = <<>> \/ frames'[p] = frames[p]
               /\ Len(frames'[p]) >= framesSynced[p] =>
                     \A i \in 1..framesSynced[p] : frames'[p][i] = frames[p][i]
    <3>1. PICK f \in FrameOutcomes(p) : f = frames'[p]
      BY <2>1
    <3>2. framesSynced[p] <= Len(frames[p]) /\ (Readable(frames[p]) \/ Readable(Front(frames[p])))
      BY DEF ChainInv
    <3>3. /\ Readable(f) \/ Readable(Front(f))
          /\ framesSynced[p] = Len(frames[p]) => f = <<>> \/ f = frames[p]
          /\ Len(f) >= framesSynced[p] => \A i \in 1..framesSynced[p] : f[i] = frames[p][i]
      BY <1>1, <3>2, FrameOutcomesReadable
    <3> QED BY <3>1, <3>3
  <2>4. ASSUME NEW p \in Projects
        PROVE  p \in cutOff' \/ Whole(frames'[p])
    <3>1. p \notin cutOff' => p \notin cutOff /\ ~Flushing(p)
      BY <2>1 DEF Flushing
    <3>2. Whole(<<>>)
      BY DEF Whole, Readable
    <3> QED BY <2>3, <3>1, <3>2 DEF ChainInv
  <2>5. ASSUME NEW p \in Projects, answered'[p] # 0, p \notin vanished'
        PROVE  \E i \in 1..framesSynced'[p] : HasEvent(frames'[p], i, answered'[p])
    <3>1. p \notin vanished /\ Len(frames'[p]) >= framesSynced[p]
      BY <1>1, <2>1, <2>2, <2>5
    <3>2. PICK i \in 1..framesSynced[p] : HasEvent(frames[p], i, answered[p])
      BY <2>1, <2>5, <3>1 DEF ChainInv
    <3>3. i \in 1..framesSynced'[p] /\ i \in 1..Len(frames[p]) /\ i <= Len(frames'[p])
      BY <1>1, <2>1, <2>2, <3>1 DEF ChainInv
    <3>4. \A j \in 1..i : frames'[p][j] = frames[p][j]
      BY <1>1, <2>3, <3>1
    <3>5. HasEvent(frames'[p], i, answered[p])
      BY <1>1, <2>2, <3>2, <3>3, <3>4, EventKept
    <3> QED BY <2>1, <3>3, <3>5
  <2>6. \A p \in Projects : framesSynced'[p] = Len(frames'[p]) /\ framesSynced'[p] <= Len(frames'[p])
    BY <2>1, <2>2
  <2> QED BY <2>1, <2>3, <2>4, <2>5, <2>6 DEF ChainInv
<1>11. CASE Start
  <2>1. step = "idle"
    BY <1>0, <1>11 DEF Start, WorkInv
  <2>2. UNCHANGED <<eventFiles, answered, vanished, cutOff>> /\ step' = step
    BY <1>11 DEF Start, files, ghosts
  <2> QED BY <1>3, <2>1, <2>2
<1>12. CASE UNCHANGED vars
  BY <1>12 DEF vars, files, eventFiles, ghosts, ChainInv, Flushing
<1> QED
  BY <1>4, <1>5, <1>6, <1>8, <1>9, <1>10, <1>11, <1>12, <1>13 DEF Next

\* Nothing but the last line of an event file is ever unreadable, and that only
\* after an append that was cut off (events.go:37-138).
THEOREM ChainsReadable == Spec => []ChainReadable
<1>1. ChainInv => ChainReadable
  BY DEF ChainInv, ChainReadable, Front, Whole
<1> QED BY <1>1, InitType, TypeStep, InitChain, ChainStep, PTL DEF Spec

\* The last revision that was answered has its event, whole and with its newline;
\* a reader gets to it unless it shares its line with an event that was cut off
\* right before its newline (events.go:63-71).
THEOREM AnsweredKept == Spec => []AnsweredHasEvent
<1>1. TypeInv /\ ChainInv => AnsweredHasEvent
  <2> SUFFICES ASSUME TypeInv, ChainInv, NEW p \in Projects, answered[p] # 0, p \notin vanished
               PROVE  \E i \in DOMAIN frames[p] : HasEvent(frames[p], i, answered[p])
    BY DEF AnsweredHasEvent, HasEvent
  <2>1. /\ Len(frames[p]) \in Nat /\ DOMAIN frames[p] = 1..Len(frames[p])
        /\ framesSynced[p] \in Nat /\ framesSynced[p] <= Len(frames[p])
    BY LenProperties DEF TypeInv, TypeOK, ChainInv
  <2>2. PICK i \in 1..framesSynced[p] : HasEvent(frames[p], i, answered[p])
    BY DEF ChainInv
  <2> QED BY <2>1, <2>2
<1> QED BY <1>1, InitType, TypeStep, InitChain, ChainStep, PTL DEF Spec

-----------------------------------------------------------------------------
(* The list of projects. *)

\* What a step may add to the mishaps.
LEMMA MishapsGrow ==
    ASSUME TypeOK, [Next]_vars
    PROVE  /\ kills' \in {kills, kills + 1} /\ powerFailures' \in {powerFailures, powerFailures + 1}
           /\ unremoved' \in {unremoved, unremoved + 1}
<1>1. unremoved \in Nat
  BY DEF TypeOK
<1>2. CASE UNCHANGED <<mishaps, kills, powerFailures>>
  BY <1>2 DEF mishaps
<1>3. ASSUME NEW n \in {0, 1}, Fail(n), UNCHANGED <<kills, powerFailures>>
      PROVE  /\ kills' \in {kills, kills + 1} /\ powerFailures' \in {powerFailures, powerFailures + 1}
             /\ unremoved' \in {unremoved, unremoved + 1}
  BY <1>1, <1>3 DEF Fail
<1>4. ASSUME NEW p \in Projects, \/ CommitEdit(p) \/ SaveRequest(p) \/ SavePackage(p)
                                 \/ CommitFreeze(p) \/ AbandonFreeze(p)
      PROVE  \/ UNCHANGED <<mishaps, kills, powerFailures>>
             \/ Fail(0) /\ UNCHANGED <<kills, powerFailures>>
  BY <1>4 DEF CommitEdit, SaveRequest, SavePackage, CommitFreeze, AbandonFreeze, Error, faults
<1>5. CASE CreateTemp \/ WriteTemp \/ SyncTemp \/ RenameTemp
  <2>1. /\ UNCHANGED <<kills, powerFailures>>
        /\ UNCHANGED mishaps \/ Fail(0) \/ Fail(1)
    BY <1>5 DEF CreateTemp, WriteTemp, SyncTemp, RenameTemp, GiveUp, Error, Continue
  <2> QED BY <1>2, <1>3, <2>1
<1>6. CASE SyncProjects \/ WriteFrame \/ SyncFrame
  <2>1. /\ UNCHANGED <<kills, powerFailures>>
        /\ UNCHANGED mishaps \/ Fail(0)
    BY <1>6 DEF SyncProjects, WriteFrame, SyncFrame, Error, Continue
  <2> QED BY <1>2, <1>3, <2>1
<1>7. CASE OpenPackage \/ WritePackage \/ SyncPackage \/ SyncPackages
  <2>1. /\ UNCHANGED <<kills, powerFailures>>
        /\ UNCHANGED mishaps \/ Fail(0) \/ Fail(1)
    BY <1>7 DEF OpenPackage, WritePackage, SyncPackage, SyncPackages, RemovePackage, Error, Continue
  <2> QED BY <1>2, <1>3, <2>1
<1>8. CASE Kill
  BY <1>8 DEF Kill, Stop, mishaps
<1>9. CASE PowerFailure
  BY <1>9 DEF PowerFailure, Stop, mishaps
<1>10. CASE Start \/ UNCHANGED vars
  BY <1>2, <1>10 DEF Start, vars, faults
<1> QED BY <1>2, <1>3, <1>4, <1>5, <1>6, <1>7, <1>8, <1>9, <1>10 DEF Next

\* Only a crash and a removal that fails leave a pending file (atomic.go:18-23).
LEMMA NoLitter ==
    TypeOK /\ ListShowsProjects /\ [Next]_vars
        => (kills' + powerFailures' + unremoved' = 0 => leftovers' = {})
<1> SUFFICES ASSUME TypeOK, ListShowsProjects, [Next]_vars,
                    kills' + powerFailures' + unremoved' = 0
             PROVE  leftovers' = {}
  OBVIOUS
<1>1. kills \in Nat /\ powerFailures \in Nat /\ unremoved \in Nat
  BY DEF TypeOK
<1>2. kills = 0 /\ powerFailures = 0 /\ unremoved = 0
      /\ kills' = 0 /\ powerFailures' = 0 /\ unremoved' = 0
  BY <1>1, MishapsGrow
<1>3. leftovers = {}
  BY <1>2 DEF ListShowsProjects
<1>4. ASSUME NEW p \in Projects, \/ CommitEdit(p) \/ SaveRequest(p) \/ SavePackage(p)
                                 \/ CommitFreeze(p) \/ AbandonFreeze(p)
      PROVE  leftovers' = {}
  BY <1>3, <1>4 DEF CommitEdit, SaveRequest, SavePackage, CommitFreeze, AbandonFreeze, files,
                    projectFiles
<1>5. CASE CreateTemp \/ WriteTemp \/ SyncTemp \/ RenameTemp \/ SyncProjects
  <2>1. ~Fail(1)
    BY <1>2 DEF Fail
  <2> QED
    BY <1>3, <1>5, <2>1 DEF CreateTemp, WriteTemp, SyncTemp, RenameTemp, SyncProjects, GiveUp,
                            projectFiles
<1>6. CASE WriteFrame \/ SyncFrame \/ OpenPackage \/ WritePackage \/ SyncPackage \/ SyncPackages
  BY <1>3, <1>6 DEF WriteFrame, SyncFrame, OpenPackage, WritePackage, SyncPackage, SyncPackages,
                    projectFiles
<1>7. CASE Kill \/ PowerFailure
  BY <1>1, <1>2, <1>7 DEF Kill, PowerFailure
<1>8. CASE Start \/ UNCHANGED vars
  BY <1>3, <1>8 DEF Start, vars, files, projectFiles
<1> QED BY <1>4, <1>5, <1>6, <1>7, <1>8 DEF Next

\* Whatever calls fail, the list of projects works as long as the process does
\* not end amid a call and no removal fails (atomic.go:18-23, projects.go:84-104).
THEOREM ProjectsListed == Spec => []ListShowsProjects
<1>1. ASSUME TypeOK, kills + powerFailures + unremoved = 0 => leftovers = {}
      PROVE  ListShowsProjects
  <2>1. \A p \in Projects : envelopes[p] # Torn
    BY <1>1, SentinelAssumption DEF TypeOK
  <2> QED BY <1>1, <2>1 DEF ListShowsProjects, ListProjectsFails
<1>2. Init => TypeOK /\ ListShowsProjects
  BY <1>1, InitType DEF Init, TypeInv
<1>3. TypeInv /\ ListShowsProjects /\ [Next]_vars => ListShowsProjects'
  <2> SUFFICES ASSUME TypeInv, ListShowsProjects, [Next]_vars
               PROVE  ListShowsProjects'
    OBVIOUS
  <2>1. TypeOK' /\ TypeOK
    BY TypeStep DEF TypeInv
  <2>2. \A p \in Projects : envelopes'[p] # Torn
    BY <2>1, SentinelAssumption DEF TypeOK
  <2>3. kills' + powerFailures' + unremoved' = 0 => leftovers' = {}
    BY <2>1, NoLitter
  <2> QED BY <2>2, <2>3 DEF ListShowsProjects, ListProjectsFails
<1> QED BY <1>2, <1>3, InitType, TypeStep, PTL DEF Spec

-----------------------------------------------------------------------------
(* Whose package file is whose. *)

Putting == step \in {"creating", "writing", "syncing", "renaming"}
Saving == step \in {"opening", "filling", "keeping", "listing"}

\* A content belongs to one project, on the disk and on its way there, and so
\* does the package file named after it; a project never thaws.
OwnInv ==
    /\ \A p, q \in Projects : \A e \in envelopesOnDisk[p], f \in envelopesOnDisk[q] :
          e # NoFile /\ f # NoFile /\ e.content = f.content => p = q
    /\ \A p \in Projects : \A e \in envelopesOnDisk[p] : e # NoFile =>
          \A g \in packagesOnDisk[e.content] : g \in Package => g.project = p
    /\ Putting =>
          /\ \A p \in Projects : \A e \in envelopesOnDisk[p] :
                e # NoFile /\ e.content = work.envelope.content => p = work.project
          /\ \A g \in packagesOnDisk[work.envelope.content] :
                g \in Package => g.project = work.project
    /\ Saving => /\ work.package.project = work.project
                 /\ work.package.content = envelopes[work.project].content
    /\ \A p \in Projects : \A e \in envelopesOnDisk[p] : e # NoFile /\ e.package # NoPackage =>
          envelopes[p] # NoFile /\ envelopes[p].package # NoPackage
    /\ \A d \in Digests : packages[d] \in packagesOnDisk[d]

LEMMA InitOwn == Init => OwnInv
  BY DEF Init, OwnInv, Putting, Saving

LEMMA OwnStep == TypeInv /\ StoreInv /\ OwnInv /\ [Next]_vars => OwnInv'
<1> SUFFICES ASSUME TypeInv, StoreInv, OwnInv, [Next]_vars
             PROVE  OwnInv'
  OBVIOUS
<1> USE SentinelAssumption
<1>0. TypeOK /\ WorkInv /\ ApprovedInv
  BY DEF TypeInv
<1>1. ASSUME NEW p \in Projects, NEW e \in envelopesOnDisk[p], e # NoFile
      PROVE  e \in Envelope /\ e.content \in Digests
  <2>1. e \in Envelope
    BY <1>0, <1>1 DEF TypeOK
  <2> QED BY <2>1 DEF Envelope
<1>2. ASSUME UNCHANGED <<envelopes, envelopesOnDisk>>,
             \A d \in Digests : /\ packages'[d] \in packagesOnDisk'[d]
                                /\ packagesOnDisk'[d] \subseteq packagesOnDisk[d] \cup {NoFile, Torn},
             Putting' => Putting /\ work' = work, Saving' => Saving /\ work' = work
      PROVE  OwnInv'
  <2>1. ASSUME NEW d \in Digests, NEW g \in packagesOnDisk'[d], g \in Package
        PROVE  g \in packagesOnDisk[d]
    BY <1>2, <2>1
  <2>2. \A p \in Projects : \A e \in envelopesOnDisk'[p] : e # NoFile =>
           \A g \in packagesOnDisk'[e.content] : g \in Package => g.project = p
    BY <1>1, <1>2, <2>1 DEF OwnInv
  <2>3. Putting' => /\ Putting /\ work' = work
                    /\ \A g \in packagesOnDisk'[work.envelope.content] :
                          g \in Package => g.project = work.project
    <3>1. ASSUME Putting PROVE work.envelope.content \in Digests
      BY <1>0, <3>1, WorkKinds DEF WorkInv, TypeOK, Putting, Envelope
    <3> QED BY <1>2, <2>1, <3>1 DEF OwnInv
  <2> QED BY <1>2, <2>2, <2>3 DEF OwnInv
<1>3. ASSUME UNCHANGED <<envelopes, envelopesOnDisk, packageFiles>>,
             Putting' => Putting /\ work' = work, Saving' => Saving /\ work' = work
      PROVE  OwnInv'
  <2>1. UNCHANGED <<packages, packagesOnDisk>>
    BY <1>3 DEF packageFiles
  <2> QED BY <1>2, <1>3, <2>1 DEF OwnInv
<1>4. ASSUME NEW p \in Projects, UNCHANGED files, Putting', ~Saving', work'.project = p,
             \/ /\ envelopes[p] \in Envelope
                /\ work'.envelope.content = envelopes[p].content
             \/ work'.envelope.content \in Digests \ UsedDigests
      PROVE  OwnInv'
  <2>1. UNCHANGED <<envelopes, envelopesOnDisk, packages, packagesOnDisk>>
    BY <1>4 DEF files, projectFiles, packageFiles
  <2> DEFINE c == work'.envelope.content
  <2>2. /\ \A q \in Projects : \A e \in envelopesOnDisk[q] : e # NoFile /\ e.content = c => q = p
        /\ \A g \in packagesOnDisk[c] : g \in Package => g.project = p
    <3>1. CASE envelopes[p] \in Envelope /\ c = envelopes[p].content
      <4>1. envelopes[p] \in envelopesOnDisk[p] /\ envelopes[p] # NoFile
        BY <3>1 DEF StoreInv
      <4> QED BY <3>1, <4>1 DEF OwnInv
    <3>2. CASE c \in Digests \ UsedDigests
      <4>1. packagesOnDisk[c] = {NoFile}
        BY <3>2 DEF UsedDigests
      <4>2. ASSUME NEW q \in Projects, NEW e \in envelopesOnDisk[q], e # NoFile
            PROVE  e.content # c
        <5> DEFINE all == {envelopesOnDisk[r] : r \in Projects}
                   known == UNION all
        <5>1. envelopesOnDisk[q] \in all
          OBVIOUS
        <5>2. e \in known
          BY <4>2, <5>1, Zenon
        <5>3. {f.content : f \in known \cap Envelope} \subseteq UsedDigests
          BY DEF UsedDigests
        <5>4. e \in Envelope
          BY <1>1, <4>2
        <5> HIDE DEF known
        <5>5. e.content \in {f.content : f \in known \cap Envelope}
          BY <5>2, <5>4
        <5> QED BY <3>2, <5>3, <5>5
      <4> QED BY <4>1, <4>2
    <3> QED BY <1>4, <3>1, <3>2
  <2> QED BY <1>4, <2>1, <2>2 DEF OwnInv
<1>5. ASSUME NEW p \in Projects, CommitEdit(p)
      PROVE  OwnInv'
  <2>1. PICK d \in Digests \ UsedDigests :
           \/ /\ envelopes[p] = NoFile
              /\ Begin([kind |-> "commit", project |-> p,
                        envelope |-> [revision |-> 1, content |-> d, package |-> NoPackage,
                                      failed |-> 0]], "creating")
           \/ /\ envelopes[p] \in Envelope
              /\ envelopes[p].package = NoPackage
              /\ Begin([kind |-> "commit", project |-> p,
                        envelope |-> [envelopes[p] EXCEPT !.revision = @ + 1, !.content = d]],
                       "creating")
    BY <1>5, Zenon DEF CommitEdit
  <2>2. envelopes[p] \in Envelope =>
           [envelopes[p] EXCEPT !.revision = @ + 1, !.content = d].content = d
    BY DEF Envelope
  <2>3. work'.project = p /\ step' = "creating" /\ work'.envelope.content = d
    <3>1. CASE envelopes[p] = NoFile
      BY <2>1, <3>1 DEF Begin
    <3>2. CASE envelopes[p] \in Envelope
      <4>1. /\ step' = "creating" /\ work'.project = p
            /\ work'.envelope = [envelopes[p] EXCEPT !.revision = @ + 1, !.content = d]
        BY <2>1, <3>2 DEF Begin
      <4> QED BY <2>2, <3>2, <4>1
    <3> QED BY <2>1, <3>1, <3>2
  <2> QED BY <1>4, <1>5, <2>1, <2>3 DEF CommitEdit, Putting, Saving
<1>6. ASSUME NEW p \in Projects, SaveRequest(p) \/ CommitFreeze(p)
      PROVE  OwnInv'
  <2>1. /\ UNCHANGED files /\ step' = "creating" /\ work'.project = p
        /\ \/ work'.envelope = [envelopes[p] EXCEPT !.failed = @ + 1]
           \/ work'.envelope = [envelopes[p] EXCEPT !.revision = @ + 1, !.package = approved[p]]
        /\ envelopes[p] \in Envelope
    BY <1>0, <1>6 DEF SaveRequest, CommitFreeze, Begin, ApprovedInv
  <2>2. work'.envelope.content = envelopes[p].content
    BY <2>1 DEF Envelope
  <2> QED BY <1>4, <2>1, <2>2 DEF Putting, Saving
<1>7. ASSUME NEW p \in Projects, SavePackage(p)
      PROVE  OwnInv'
  <2>1. UNCHANGED <<envelopes, envelopesOnDisk, packages, packagesOnDisk>>
        /\ step' = "opening" /\ work'.project = p
        /\ work'.package = [project |-> p, content |-> envelopes[p].content,
                             source |-> envelopes[p].revision, frozenAt |-> calls']
    BY <1>7 DEF SavePackage, Begin, files, projectFiles, packageFiles
  <2> QED BY <2>1 DEF OwnInv, Putting, Saving
<1>8. ASSUME NEW p \in Projects, AbandonFreeze(p)
      PROVE  OwnInv'
  BY <1>3, <1>8 DEF AbandonFreeze, files, projectFiles, Putting, Saving
<1>9. CASE CreateTemp \/ WriteTemp \/ SyncTemp
  <2>1. UNCHANGED <<envelopes, envelopesOnDisk, packageFiles>>
    BY <1>9 DEF CreateTemp, WriteTemp, SyncTemp, GiveUp, projectFiles
  <2>2. Putting /\ (step' = "idle" \/ (work' = work /\ step' \in {"writing", "syncing", "renaming"}))
    <3>1. CASE CreateTemp
      BY <3>1 DEF CreateTemp, GiveUp, Return, Continue, Putting
    <3>2. CASE WriteTemp
      BY <3>2 DEF WriteTemp, GiveUp, Return, Continue, Putting
    <3>3. CASE SyncTemp
      BY <3>3 DEF SyncTemp, GiveUp, Return, Continue, Putting
    <3> QED BY <1>9, <3>1, <3>2, <3>3
  <2> QED BY <1>3, <2>1, <2>2 DEF Putting, Saving
<1>10. CASE RenameTemp
  <2>1. /\ step = "renaming" /\ work.project \in Projects /\ work.envelope \in Envelope
        /\ temp.content = work.envelope /\ temp.synced
    BY <1>0, <1>10, WorkKinds DEF RenameTemp, WorkInv, TypeOK
  <2>2. CASE GiveUp /\ UNCHANGED packageFiles
    BY <1>3, <2>2 DEF GiveUp, Return, projectFiles, Putting, Saving
  <2>3. CASE /\ envelopes' = [envelopes EXCEPT ![work.project] = temp.content]
             /\ envelopesOnDisk' = [envelopesOnDisk EXCEPT ![work.project] =
                   @ \cup {temp.content} \cup (IF temp.synced THEN {} ELSE {Torn})]
             /\ Continue("settling") /\ UNCHANGED packageFiles
    <3> DEFINE q == work.project
               n == work.envelope
    <3>1. /\ envelopes'[q] = n /\ n # NoFile /\ n.content \in Digests
          /\ envelopesOnDisk'[q] = envelopesOnDisk[q] \cup {n}
          /\ \A p \in Projects : p # q => /\ envelopes'[p] = envelopes[p]
                                          /\ envelopesOnDisk'[p] = envelopesOnDisk[p]
      BY <1>0, <2>1, <2>3 DEF TypeOK, Envelope
    <3>2. UNCHANGED <<packages, packagesOnDisk>> /\ ~Putting' /\ ~Saving' /\ Putting
      BY <2>1, <2>3 DEF packageFiles, Continue, Putting, Saving
    <3>3. ASSUME NEW p \in Projects, NEW e \in envelopesOnDisk'[p]
          PROVE  e \in envelopesOnDisk[p] \/ (p = q /\ e = n)
      <4>1. CASE p = q
        BY <3>1, <3>3, <4>1
      <4>2. CASE p # q
        BY <3>1, <3>3, <4>2
      <4> QED BY <4>1, <4>2
    <3>4. ASSUME NEW p \in Projects, NEW e \in envelopesOnDisk[p], e # NoFile,
                 e.content = n.content
          PROVE  p = q
      BY <3>2, <3>4 DEF OwnInv
    <3>5. ASSUME NEW p \in Projects, NEW r \in Projects, NEW e \in envelopesOnDisk'[p],
                 NEW f \in envelopesOnDisk'[r], e # NoFile, f # NoFile, e.content = f.content
          PROVE  p = r
      <4>1. CASE e \in envelopesOnDisk[p] /\ f \in envelopesOnDisk[r]
        BY <3>5, <4>1 DEF OwnInv
      <4>2. CASE e \in envelopesOnDisk[p] /\ r = q /\ f = n
        BY <3>4, <3>5, <4>2
      <4>3. CASE p = q /\ e = n /\ f \in envelopesOnDisk[r]
        BY <3>4, <3>5, <4>3
      <4> QED BY <3>3, <4>1, <4>2, <4>3
    <3>6. ASSUME NEW p \in Projects, NEW e \in envelopesOnDisk'[p], e # NoFile,
                 NEW g \in packagesOnDisk[e.content], g \in Package
          PROVE  g.project = p
      <4>1. CASE e \in envelopesOnDisk[p]
        BY <3>6, <4>1 DEF OwnInv
      <4>2. CASE p = q /\ e = n
        BY <3>2, <3>6, <4>2 DEF OwnInv
      <4> QED BY <3>3, <4>1, <4>2
    <3>7. ASSUME NEW p \in Projects, NEW e \in envelopesOnDisk'[p], e # NoFile,
                 e.package # NoPackage
          PROVE  envelopes'[p] # NoFile /\ envelopes'[p].package # NoPackage
      <4>1. CASE p # q
        BY <3>1, <3>7, <4>1 DEF OwnInv
      <4>2. CASE p = q /\ e = n
        BY <3>1, <3>7, <4>2
      <4>3. CASE p = q /\ e \in envelopesOnDisk[q]
        <5>1. envelopes[q] # NoFile /\ envelopes[q].package # NoPackage
          BY <2>1, <3>7, <4>3 DEF OwnInv
        <5>2. Atomic!Succeeds(n, envelopes[q])
          BY <2>1 DEF StoreInv
        <5>3. n = [envelopes[q] EXCEPT !.failed = @ + 1] /\ envelopes[q] \in Envelope
          BY <1>0, <2>1, <5>1, <5>2 DEF Atomic!Succeeds, TypeOK
        <5>4. n.package = envelopes[q].package
          BY <5>3 DEF Envelope
        <5> QED BY <3>1, <4>3, <5>1, <5>4
      <4> QED BY <3>3, <4>1, <4>2, <4>3
    <3> QED BY <3>2, <3>5, <3>6, <3>7 DEF OwnInv
  <2> QED BY <1>10, <2>2, <2>3 DEF RenameTemp
<1>11. CASE SyncProjects
  <2>1. UNCHANGED <<envelopes, packageFiles>> /\ ~Putting' /\ ~Saving'
    BY <1>11 DEF SyncProjects, Return, Putting, Saving
  <2>2. \A p \in Projects : envelopesOnDisk'[p] \subseteq envelopesOnDisk[p]
    BY <1>11 DEF SyncProjects, StoreInv
  <2>3. UNCHANGED <<packages, packagesOnDisk>>
    BY <2>1 DEF packageFiles
  <2> QED BY <2>1, <2>2, <2>3 DEF OwnInv
<1>12. CASE WriteFrame \/ SyncFrame
  <2>1. UNCHANGED <<envelopes, envelopesOnDisk, packageFiles>> /\ ~Putting' /\ ~Saving'
    BY <1>12 DEF WriteFrame, SyncFrame, Return, Continue, projectFiles, Putting, Saving
  <2> QED BY <1>3, <2>1
<1>13. CASE OpenPackage \/ WritePackage \/ SyncPackage \/ SyncPackages
  <2>1. /\ work.project \in Projects /\ work.package \in Package /\ Digest \in Digests
        /\ Saving /\ ~Putting' /\ (Saving' => work' = work)
        /\ UNCHANGED <<envelopes, envelopesOnDisk>>
    <3>1. Saving /\ ~Putting' /\ (Saving' => work' = work) /\ UNCHANGED <<envelopes, envelopesOnDisk>>
      BY <1>13 DEF OpenPackage, WritePackage, SyncPackage, SyncPackages, RemovePackage, Return,
                   Continue, projectFiles, Putting, Saving
    <3>2. work \in Work /\ work.kind = "package"
      BY <1>0, <3>1 DEF WorkInv, TypeOK, Saving
    <3>3. work.project \in Projects /\ work.package \in Package
      BY <3>2, WorkKinds
    <3> QED BY <3>1, <3>3 DEF Package, Digest
  <2>2. ASSUME NEW x \in {NoFile, Torn}, Holds(x), MayHold(x)
        PROVE  OwnInv'
    <3>1. ASSUME NEW d \in Digests
          PROVE  /\ packages'[d] \in packagesOnDisk'[d]
                 /\ packagesOnDisk'[d] \subseteq packagesOnDisk[d] \cup {NoFile, Torn}
      <4>1. /\ packages'[d] = IF d = Digest THEN x ELSE packages[d]
            /\ packagesOnDisk'[d] = IF d = Digest THEN packagesOnDisk[d] \cup {x}
                                    ELSE packagesOnDisk[d]
        BY <1>0, <2>1, <2>2 DEF TypeOK, Holds, MayHold
      <4> QED BY <4>1 DEF OwnInv
    <3> QED BY <1>2, <2>1, <3>1
  <2>3. CASE UNCHANGED <<packages, packagesOnDisk>>
    BY <1>2, <2>1, <2>3 DEF OwnInv
  <2>4. ASSUME Holds(work.package), MayHold(work.package)
        PROVE  OwnInv'
    <3>1. ASSUME NEW d \in Digests
          PROVE  /\ packages'[d] = IF d = Digest THEN work.package ELSE packages[d]
                 /\ packagesOnDisk'[d] = IF d = Digest THEN packagesOnDisk[d] \cup {work.package}
                                         ELSE packagesOnDisk[d]
      BY <1>0, <2>1, <2>4 DEF TypeOK, Holds, MayHold
    <3>2. \A d \in Digests : packages'[d] \in packagesOnDisk'[d]
      BY <3>1 DEF OwnInv
    <3>3. ASSUME NEW p \in Projects, NEW e \in envelopesOnDisk[p], e # NoFile,
                 NEW g \in packagesOnDisk'[e.content], g \in Package
          PROVE  g.project = p
      <4>1. e.content \in Digests
        BY <1>1, <3>3
      <4>2. CASE g \in packagesOnDisk[e.content]
        BY <3>3, <4>2 DEF OwnInv
      <4>3. CASE e.content = Digest /\ g = work.package
        <5>1. /\ work.package.project = work.project
              /\ work.package.content = envelopes[work.project].content
              /\ envelopes[work.project] \in envelopesOnDisk[work.project]
              /\ envelopes[work.project] # NoFile
          BY <1>0, <2>1 DEF OwnInv, StoreInv, ApprovedInv, Saving
        <5>2. p = work.project
          BY <2>1, <3>3, <4>3, <5>1 DEF OwnInv, Digest
        <5> QED BY <4>3, <5>1, <5>2
      <4> QED BY <3>1, <3>3, <4>1, <4>2, <4>3, ZenonT(30)
    <3> QED BY <2>1, <3>2, <3>3 DEF OwnInv
  <2>5. CASE SyncPackages /\ packagesOnDisk' = [d \in Digests |-> Settled(d)] /\ UNCHANGED packages
    <3>1. \A d \in Digests : /\ packages'[d] \in packagesOnDisk'[d]
                             /\ packagesOnDisk'[d] \subseteq packagesOnDisk[d] \cup {NoFile, Torn}
      BY <2>5 DEF Settled, OwnInv
    <3> QED BY <1>2, <2>1, <3>1
  <2>6. CASE RemovePackage
    <3>1. CASE Holds(NoFile) /\ MayHold(NoFile)
      BY <2>2, <3>1
    <3>2. CASE UNCHANGED packageFiles
      BY <2>3, <3>2 DEF packageFiles
    <3> QED BY <2>6, <3>1, <3>2 DEF RemovePackage
  <2>7. CASE OpenPackage
    BY <2>2, <2>3, <2>7 DEF OpenPackage, packageFiles
  <2>8. CASE WritePackage
    BY <2>4, <2>6, <2>8 DEF WritePackage
  <2>9. CASE SyncPackage
    BY <2>3, <2>6, <2>9 DEF SyncPackage
  <2>10. CASE SyncPackages
    BY <2>5, <2>6, <2>10 DEF SyncPackages
  <2> QED BY <1>13, <2>7, <2>8, <2>9, <2>10
<1>14. CASE Kill
  <2>1. UNCHANGED <<envelopes, envelopesOnDisk, packageFiles>> /\ ~Putting' /\ ~Saving'
    BY <1>14 DEF Kill, Stop, Putting, Saving
  <2> QED BY <1>3, <2>1
<1>15. CASE PowerFailure
  <2>1. /\ \A p \in Projects : envelopes'[p] \in envelopesOnDisk[p]
        /\ \A p \in Projects : envelopesOnDisk'[p] = {envelopes'[p]}
        /\ \A d \in Digests : packages'[d] \in packagesOnDisk[d]
        /\ \A d \in Digests : packagesOnDisk'[d] = {packages'[d]}
        /\ ~Putting' /\ ~Saving'
    BY <1>15 DEF PowerFailure, Stop, Putting, Saving
  <2>2. \A p \in Projects : envelopesOnDisk'[p] \subseteq envelopesOnDisk[p]
    BY <2>1
  <2>3. ASSUME NEW p \in Projects, NEW e \in envelopesOnDisk'[p], e # NoFile,
               NEW g \in packagesOnDisk'[e.content], g \in Package
        PROVE  g.project = p
    BY <1>1, <2>1, <2>2, <2>3 DEF OwnInv
  <2>4. \A p \in Projects : \A e \in envelopesOnDisk'[p] : e # NoFile /\ e.package # NoPackage =>
           envelopes'[p] # NoFile /\ envelopes'[p].package # NoPackage
    BY <2>1
  <2>5. \A p, q \in Projects : \A e \in envelopesOnDisk'[p], f \in envelopesOnDisk'[q] :
           e # NoFile /\ f # NoFile /\ e.content = f.content => p = q
    BY <2>2 DEF OwnInv
  <2>6. \A d \in Digests : packages'[d] \in packagesOnDisk'[d]
    BY <2>1
  <2> QED BY <2>1, <2>3, <2>4, <2>5, <2>6 DEF OwnInv
<1>16. CASE Start \/ UNCHANGED vars
  BY <1>3, <1>16 DEF Start, vars, files, projectFiles, Putting, Saving
<1> QED
  BY <1>5, <1>6, <1>7, <1>8, <1>9, <1>10, <1>11, <1>12, <1>13, <1>14, <1>15, <1>16 DEF Next

-----------------------------------------------------------------------------
(* The package of a frozen project. *)

\* No call left a package file that it had not synced.
Tidy == kills = 0 /\ unremoved = 0

LEMMA TidyBefore ==
    ASSUME TypeOK, [Next]_vars, Tidy'
    PROVE  Tidy
  BY MishapsGrow DEF TypeOK, Tidy

\* The package files that are there and stay there: as readers see it where the
\* power does not fail, on the disk where every call ended tidily.
Held == {d \in Digests : /\ powerFailures = 0 => packages[d] \in Package
                         /\ Tidy => packagesOnDisk[d] \subseteq Package}

Filling == step \in {"filling", "keeping", "listing"}

\* What is frozen, on its way to be frozen or approved has its package.  As long
\* as calls are tidy, a package file no call is at work on was synced, its name too.
HeldInv ==
    /\ \A p \in Projects : \A e \in envelopesOnDisk[p] :
          e # NoFile /\ e.package # NoPackage => e.content \in Held
    /\ Putting /\ work.envelope.package # NoPackage => work.envelope.content \in Held
    /\ \A p \in Projects : approved[p] # NoPackage => envelopes[p].content \in Held
    /\ Tidy => \A d \in Digests :
          packages[d] \in Package /\ ~(Filling /\ Digest = d)
             => packagesOnDisk[d] \subseteq Package /\ d \in packagesSynced
    /\ step \in {"keeping", "listing"} => packages[Digest] = work.package
    /\ step = "listing" => Digest \in packagesSynced

LEMMA InitHeld == Init => HeldInv
  BY SentinelAssumption DEF Init, HeldInv, Putting, Filling

LEMMA HeldStep == TypeInv /\ StoreInv /\ OwnInv /\ HeldInv /\ [Next]_vars => HeldInv'
<1> SUFFICES ASSUME TypeInv, StoreInv, OwnInv, HeldInv, [Next]_vars
             PROVE  HeldInv'
  OBVIOUS
<1> USE SentinelAssumption
<1>0. /\ TypeOK /\ WorkInv /\ ApprovedInv
      /\ Tidy' => Tidy
  BY TidyBefore DEF TypeInv
<1>1. ASSUME NEW p \in Projects, NEW e \in envelopesOnDisk[p], e # NoFile
      PROVE  e \in Envelope /\ e.content \in Digests
  <2>1. e \in Envelope
    BY <1>0, <1>1 DEF TypeOK
  <2> QED BY <2>1 DEF Envelope
<1>2. ASSUME UNCHANGED <<packages, packagesOnDisk, packagesSynced, powerFailures>>,
             UNCHANGED envelopes,
             \A p \in Projects : envelopesOnDisk'[p] \subseteq envelopesOnDisk[p],
             Putting' => \/ Putting /\ work' = work
                         \/ work'.envelope.package = NoPackage
                         \/ work'.envelope.content \in Held,
             \A p \in Projects : approved'[p] # NoPackage =>
                approved[p] # NoPackage \/ envelopes[p].content \in Held,
             ~Filling, ~Filling'
      PROVE  HeldInv'
  <2>1. Held \subseteq Held'
    BY <1>0, <1>2 DEF Held
  <2>2. \A p \in Projects : \A e \in envelopesOnDisk'[p] :
          e # NoFile /\ e.package # NoPackage => e.content \in Held
    BY <1>2 DEF HeldInv
  <2>3. Putting' /\ work'.envelope.package # NoPackage => work'.envelope.content \in Held
    BY <1>2 DEF HeldInv
  <2>4. \A p \in Projects : approved'[p] # NoPackage => envelopes[p].content \in Held
    BY <1>2 DEF HeldInv
  <2>5. Tidy' => \A d \in Digests :
          packages'[d] \in Package => packagesOnDisk'[d] \subseteq Package /\ d \in packagesSynced'
    BY <1>0, <1>2 DEF HeldInv
  <2>6. step' \notin {"keeping", "listing"}
    BY <1>2 DEF Filling
  <2> QED BY <1>2, <2>1, <2>2, <2>3, <2>4, <2>5, <2>6 DEF HeldInv
<1>3. ASSUME NEW p \in Projects, CommitEdit(p)
      PROVE  HeldInv'
  <2>1. PICK d \in Digests \ UsedDigests :
           \/ /\ envelopes[p] = NoFile
              /\ Begin([kind |-> "commit", project |-> p,
                        envelope |-> [revision |-> 1, content |-> d, package |-> NoPackage,
                                      failed |-> 0]], "creating")
           \/ /\ envelopes[p] \in Envelope
              /\ envelopes[p].package = NoPackage
              /\ Begin([kind |-> "commit", project |-> p,
                        envelope |-> [envelopes[p] EXCEPT !.revision = @ + 1, !.content = d]],
                       "creating")
    BY <1>3, Zenon DEF CommitEdit
  <2>2. step' = "creating" /\ work'.envelope.package = NoPackage
    <3>1. CASE envelopes[p] = NoFile
      BY <2>1, <3>1 DEF Begin
    <3>2. CASE envelopes[p] \in Envelope
      <4>1. /\ step' = "creating" /\ envelopes[p].package = NoPackage
            /\ work'.envelope = [envelopes[p] EXCEPT !.revision = @ + 1, !.content = d]
        BY <2>1, <3>2 DEF Begin
      <4> QED BY <3>2, <4>1 DEF Envelope
    <3> QED BY <2>1, <3>1, <3>2
  <2>3. UNCHANGED <<files, approved, faults>> /\ step = "idle"
    BY <1>3 DEF CommitEdit, Free
  <2> QED BY <1>2, <2>2, <2>3 DEF files, projectFiles, packageFiles, faults, mishaps, Filling
<1>4. ASSUME NEW p \in Projects, SaveRequest(p)
      PROVE  HeldInv'
  <2>1. /\ UNCHANGED <<files, approved, faults>> /\ step = "idle" /\ step' = "creating"
        /\ envelopes[p] \in Envelope
        /\ work'.envelope = [envelopes[p] EXCEPT !.failed = @ + 1]
    BY <1>4 DEF SaveRequest, Free, Begin
  <2>2. /\ work'.envelope.content = envelopes[p].content
        /\ work'.envelope.package = envelopes[p].package
    BY <2>1 DEF Envelope
  <2>3. envelopes[p].package # NoPackage => envelopes[p].content \in Held
    BY <2>1 DEF HeldInv, StoreInv
  <2> QED BY <1>2, <2>1, <2>2, <2>3 DEF files, projectFiles, packageFiles, faults, mishaps, Filling
<1>5. ASSUME NEW p \in Projects, CommitFreeze(p)
      PROVE  HeldInv'
  <2>1. /\ UNCHANGED <<files, faults>> /\ step = "idle" /\ step' = "creating"
        /\ approved' = [approved EXCEPT ![p] = NoPackage]
        /\ approved[p] # NoPackage /\ envelopes[p] \in Envelope
        /\ work'.envelope = [envelopes[p] EXCEPT !.revision = @ + 1, !.package = approved[p]]
    BY <1>0, <1>5 DEF CommitFreeze, Free, Begin, ApprovedInv
  <2>2. work'.envelope.content = envelopes[p].content
    BY <2>1 DEF Envelope
  <2>3. work'.envelope.content \in Held
    BY <2>1, <2>2 DEF HeldInv
  <2>4. \A q \in Projects : approved'[q] # NoPackage => approved[q] # NoPackage
    BY <1>0, <2>1 DEF TypeOK
  <2> QED BY <1>2, <2>1, <2>3, <2>4 DEF files, projectFiles, packageFiles, faults, mishaps, Filling
<1>6. ASSUME NEW p \in Projects, SavePackage(p) \/ AbandonFreeze(p)
      PROVE  HeldInv'
  <2>1. /\ UNCHANGED <<files, powerFailures>> /\ step = "idle"
        /\ step' \in {"idle", "opening"}
        /\ \/ UNCHANGED approved
           \/ approved' = [approved EXCEPT ![p] = NoPackage]
    BY <1>6 DEF SavePackage, AbandonFreeze, Free, Begin, faults, mishaps
  <2>2. \A q \in Projects : approved'[q] # NoPackage => approved[q] # NoPackage
    BY <1>0, <2>1 DEF TypeOK
  <2> QED BY <1>2, <2>1, <2>2 DEF files, projectFiles, packageFiles, Putting, Filling
<1>7. CASE CreateTemp \/ WriteTemp \/ SyncTemp
  <2>1. UNCHANGED <<envelopes, envelopesOnDisk, packageFiles, approved, powerFailures>>
    BY <1>7 DEF CreateTemp, WriteTemp, SyncTemp, GiveUp, projectFiles
  <2>2. /\ Putting /\ ~Filling /\ ~Filling'
        /\ Putting' => work' = work
    <3>1. CASE CreateTemp
      BY <3>1 DEF CreateTemp, GiveUp, Return, Continue, Putting, Filling
    <3>2. CASE WriteTemp
      BY <3>2 DEF WriteTemp, GiveUp, Return, Continue, Putting, Filling
    <3>3. CASE SyncTemp
      BY <3>3 DEF SyncTemp, GiveUp, Return, Continue, Putting, Filling
    <3> QED BY <1>7, <3>1, <3>2, <3>3
  <2> QED BY <1>2, <2>1, <2>2 DEF packageFiles
<1>8. CASE RenameTemp
  <2>1. /\ step = "renaming" /\ work.project \in Projects /\ work.envelope \in Envelope
        /\ temp.content = work.envelope /\ temp.synced
        /\ UNCHANGED <<packages, packagesOnDisk, packagesSynced, approved, powerFailures>>
        /\ ~Putting' /\ ~Filling' /\ ~Filling /\ Putting
    <3>1. work.project \in Projects /\ work.envelope \in Envelope /\ temp.content = work.envelope
          /\ temp.synced
      BY <1>0, <1>8, WorkKinds DEF RenameTemp, WorkInv, TypeOK
    <3> QED BY <1>8, <3>1 DEF RenameTemp, GiveUp, Return, Continue, packageFiles, Putting, Filling
  <2>2. CASE UNCHANGED <<envelopes, envelopesOnDisk>>
    BY <1>2, <2>1, <2>2
  <2>3. CASE /\ envelopes' = [envelopes EXCEPT ![work.project] = temp.content]
             /\ envelopesOnDisk' = [envelopesOnDisk EXCEPT ![work.project] =
                   @ \cup {temp.content} \cup (IF temp.synced THEN {} ELSE {Torn})]
    <3> DEFINE q == work.project
               n == work.envelope
    <3>1. /\ envelopesOnDisk'[q] = envelopesOnDisk[q] \cup {n}
          /\ \A p \in Projects : p # q => /\ envelopes'[p] = envelopes[p]
                                          /\ envelopesOnDisk'[p] = envelopesOnDisk[p]
      BY <1>0, <2>1, <2>3 DEF TypeOK
    <3>2. Held \subseteq Held'
      BY <1>0, <2>1 DEF Held
    <3>3. ASSUME NEW p \in Projects, NEW e \in envelopesOnDisk'[p], e # NoFile,
                 e.package # NoPackage
          PROVE  e.content \in Held
      <4>1. CASE e \in envelopesOnDisk[p]
        BY <3>3, <4>1 DEF HeldInv
      <4>2. CASE e = n
        BY <2>1, <3>3, <4>2 DEF HeldInv
      <4>3. e \in envelopesOnDisk[p] \/ e = n
        <5>1. CASE p = q
          BY <3>1, <3>3, <5>1
        <5>2. CASE p # q
          BY <3>1, <3>3, <5>2
        <5> QED BY <5>1, <5>2
      <4> QED BY <4>1, <4>2, <4>3
    <3>4. ASSUME NEW p \in Projects, approved[p] # NoPackage
          PROVE  envelopes[p].content \in Held /\ envelopes'[p] = envelopes[p]
      <4>1. p # q
        BY <1>0, <2>1, <3>4 DEF ApprovedInv
      <4> QED BY <3>1, <3>4, <4>1 DEF HeldInv
    <3>5. Tidy' => \A d \in Digests :
            packages'[d] \in Package => packagesOnDisk'[d] \subseteq Package /\ d \in packagesSynced'
      BY <1>0, <2>1 DEF HeldInv
    <3>6. step' \notin {"keeping", "listing"}
      BY <2>1 DEF Filling
    <3>7. \A p \in Projects : approved'[p] # NoPackage => envelopes'[p].content \in Held
      BY <2>1, <3>4
    <3> QED BY <2>1, <3>2, <3>3, <3>5, <3>6, <3>7 DEF HeldInv
  <2> QED BY <1>8, <2>2, <2>3 DEF RenameTemp, GiveUp, projectFiles
<1>9. CASE SyncProjects
  <2>1. /\ UNCHANGED <<envelopes, packageFiles, approved, powerFailures>>
        /\ ~Putting' /\ ~Filling /\ ~Filling'
    BY <1>9 DEF SyncProjects, Return, Putting, Filling
  <2>2. \A p \in Projects : envelopesOnDisk'[p] \subseteq envelopesOnDisk[p]
    BY <1>9 DEF SyncProjects, StoreInv
  <2> QED BY <1>2, <2>1, <2>2 DEF packageFiles
<1>10. CASE WriteFrame \/ SyncFrame
  <2>1. /\ UNCHANGED <<envelopes, envelopesOnDisk, packageFiles, approved, powerFailures>>
        /\ ~Putting' /\ ~Filling /\ ~Filling'
    BY <1>10 DEF WriteFrame, SyncFrame, Return, Continue, projectFiles, Putting, Filling
  <2> QED BY <1>2, <2>1 DEF packageFiles
<1>11. CASE OpenPackage \/ WritePackage \/ SyncPackage \/ SyncPackages
  <2> DEFINE q == work.project
  <2>1. /\ q \in Projects /\ work.package \in Package /\ Digest \in Digests
        /\ work.package.project = q /\ Digest = envelopes[q].content
        /\ envelopes[q] \in envelopesOnDisk[q] /\ envelopes[q] # NoFile
        /\ envelopes[q].package = NoPackage
        /\ Saving /\ ~Putting' /\ (Filling' => work' = work)
        /\ UNCHANGED <<envelopes, envelopesOnDisk, powerFailures>>
    <3>1. /\ Saving /\ ~Putting' /\ (Filling' => work' = work)
          /\ UNCHANGED <<envelopes, envelopesOnDisk, powerFailures>>
      BY <1>11 DEF OpenPackage, WritePackage, SyncPackage, SyncPackages, RemovePackage, Return,
                   Continue, projectFiles, Putting, Saving, Filling
    <3>2. work \in Work /\ work.kind = "package"
      BY <1>0, <3>1 DEF WorkInv, TypeOK, Saving
    <3>3. q \in Projects /\ work.package \in Package
      BY <3>2, WorkKinds
    <3>4. envelopes[q] \in Envelope /\ envelopes[q].package = NoPackage
          /\ envelopes[q] \in envelopesOnDisk[q]
      BY <1>0, <3>1, <3>3 DEF ApprovedInv, StoreInv, Saving
    <3>5. work.package.project = q /\ work.package.content = envelopes[q].content
      BY <3>1 DEF OwnInv
    <3> QED BY <3>1, <3>3, <3>4, <3>5 DEF Digest, Package
  <2>2. ASSUME NEW p \in Projects, NEW e \in envelopesOnDisk[p], e # NoFile,
               e.package # NoPackage
        PROVE  e.content # Digest
    <3>1. ASSUME p = q PROVE FALSE
      BY <2>1, <2>2, <3>1 DEF OwnInv
    <3> QED BY <2>1, <2>2, <3>1 DEF OwnInv
  <2>3. ASSUME NEW p \in Projects, approved[p] # NoPackage
        PROVE  /\ envelopes[p].content # Digest /\ envelopes[p].content \in Digests
               /\ p # q
    <3>1. p # q
      BY <1>0, <2>1, <2>3 DEF ApprovedInv, Saving
    <3>2. envelopes[p] \in Envelope /\ envelopes[p] \in envelopesOnDisk[p] /\ envelopes[p] # NoFile
      BY <1>0, <2>3 DEF ApprovedInv, StoreInv
    <3> QED BY <1>1, <2>1, <3>1, <3>2 DEF OwnInv
  <2>4. ASSUME Held \ {Digest} \subseteq Held',
               \A p \in Projects : approved'[p] # NoPackage =>
                  approved[p] # NoPackage \/ (p = q /\ Digest \in Held')
        PROVE  /\ \A p \in Projects : \A e \in envelopesOnDisk'[p] :
                     e # NoFile /\ e.package # NoPackage => e.content \in Held'
               /\ \A p \in Projects : approved'[p] # NoPackage => envelopes[p].content \in Held'
    <3>1. ASSUME NEW p \in Projects, NEW e \in envelopesOnDisk[p], e # NoFile,
                 e.package # NoPackage
          PROVE  e.content \in Held'
      BY <1>1, <2>2, <2>4, <3>1 DEF HeldInv
    <3>2. ASSUME NEW p \in Projects, approved'[p] # NoPackage
          PROVE  envelopes[p].content \in Held'
      BY <2>1, <2>3, <2>4, <3>2 DEF HeldInv
    <3> QED BY <2>1, <3>1, <3>2
  <2>5. ASSUME \A d \in Digests \ {Digest} :
                  /\ packages'[d] = packages[d] /\ packagesOnDisk'[d] = packagesOnDisk[d]
                  /\ d \in packagesSynced => d \in packagesSynced',
               \/ /\ step' \in {"filling", "keeping", "listing"} /\ work' = work
                  /\ step' \in {"keeping", "listing"} => packages'[Digest] = work.package
                  /\ step' = "listing" => Digest \in packagesSynced'
               \/ step' = "idle" /\ packages'[Digest] = NoFile,
               UNCHANGED approved
        PROVE  HeldInv'
    <3>1. Held \ {Digest} \subseteq Held'
      BY <1>0, <2>1, <2>5 DEF Held
    <3>2. Tidy' => \A d \in Digests :
             packages'[d] \in Package /\ ~(Filling' /\ Digest' = d)
                => packagesOnDisk'[d] \subseteq Package /\ d \in packagesSynced'
      <4> SUFFICES ASSUME Tidy', NEW d \in Digests, packages'[d] \in Package,
                          ~(Filling' /\ Digest' = d)
                   PROVE  packagesOnDisk'[d] \subseteq Package /\ d \in packagesSynced'
        OBVIOUS
      <4>1. d # Digest
        BY <2>5 DEF Digest, Filling
      <4>2. packages[d] \in Package /\ Tidy
        BY <1>0, <2>1, <2>5, <4>1
      <4> QED BY <2>5, <4>1, <4>2 DEF HeldInv
    <3>3. /\ step' \in {"keeping", "listing"} => packages'[Digest'] = work'.package
          /\ step' = "listing" => Digest' \in packagesSynced'
      BY <2>5 DEF Digest
    <3>4. /\ \A p \in Projects : \A e \in envelopesOnDisk'[p] :
                e # NoFile /\ e.package # NoPackage => e.content \in Held'
          /\ \A p \in Projects : approved'[p] # NoPackage => envelopes'[p].content \in Held'
      BY <2>1, <2>4, <2>5, <3>1
    <3> QED BY <2>1, <3>2, <3>3, <3>4 DEF HeldInv
  <2>6. ASSUME step' = "idle", Held \subseteq Held',
               \/ UNCHANGED approved
               \/ Approve /\ Digest \in Held',
               Tidy' => \A d \in Digests : packages'[d] \in Package
                                => packagesOnDisk'[d] \subseteq Package /\ d \in packagesSynced'
        PROVE  HeldInv'
    <3>1. \A p \in Projects : approved'[p] # NoPackage =>
                approved[p] # NoPackage \/ (p = q /\ Digest \in Held')
      BY <1>0, <2>1, <2>6 DEF Approve, TypeOK
    <3>2. /\ \A p \in Projects : \A e \in envelopesOnDisk'[p] :
                e # NoFile /\ e.package # NoPackage => e.content \in Held'
          /\ \A p \in Projects : approved'[p] # NoPackage => envelopes'[p].content \in Held'
      BY <2>1, <2>4, <2>6, <3>1
    <3> QED BY <2>1, <2>6, <3>2 DEF HeldInv
  <2>7. ASSUME NEW x, Holds(x), MayHold(x)
        PROVE  /\ packages'[Digest] = x
               /\ \A d \in Digests \ {Digest} :
                     packages'[d] = packages[d] /\ packagesOnDisk'[d] = packagesOnDisk[d]
    BY <1>0, <2>1, <2>7 DEF TypeOK, Holds, MayHold
  <2>8. CASE RemovePackage
    <3>1. UNCHANGED approved /\ step' = "idle"
      BY <2>8 DEF RemovePackage, Return
    <3>2. CASE Holds(NoFile) /\ MayHold(NoFile) /\ packagesSynced' = packagesSynced \ {Digest}
      <4>1. /\ packages'[Digest] = NoFile
            /\ \A d \in Digests \ {Digest} :
                  packages'[d] = packages[d] /\ packagesOnDisk'[d] = packagesOnDisk[d]
        BY <2>7, <3>2
      <4> QED BY <2>5, <3>1, <3>2, <4>1
    <3>3. CASE Fail(1) /\ UNCHANGED packageFiles
      <4>1. ~Tidy'
        BY <1>0, <3>3 DEF Fail, Tidy, TypeOK
      <4>2. Held \subseteq Held'
        BY <2>1, <3>3, <4>1 DEF Held, packageFiles
      <4> QED BY <2>6, <3>1, <4>1, <4>2
    <3> QED BY <2>8, <3>2, <3>3 DEF RemovePackage
  <2>9. CASE OpenPackage
    <3>1. ~Filling
      BY <2>9 DEF OpenPackage, Filling
    <3>2. CASE Holds(Torn) /\ MayHold(Torn) /\ Continue("filling")
               /\ UNCHANGED <<packagesSynced, approved>>
      <4>1. \A d \in Digests \ {Digest} :
               packages'[d] = packages[d] /\ packagesOnDisk'[d] = packagesOnDisk[d]
        BY <2>7, <3>2
      <4> QED BY <2>5, <3>2, <4>1 DEF Continue
    <3>3. CASE UNCHANGED packageFiles /\ Return
               /\ (UNCHANGED approved \/ (Approve /\ packages[Digest] \in Package))
      <4>1. UNCHANGED <<packages, packagesOnDisk, packagesSynced, powerFailures>>
        BY <2>1, <3>3 DEF packageFiles
      <4>2. Held \subseteq Held'
        BY <1>0, <4>1 DEF Held
      <4>3. packages[Digest] \in Package => Digest \in Held
        BY <2>1, <3>1 DEF HeldInv, Held
      <4>4. Tidy' => \A d \in Digests : packages'[d] \in Package
                             => packagesOnDisk'[d] \subseteq Package /\ d \in packagesSynced'
        BY <1>0, <3>1, <4>1 DEF HeldInv
      <4> QED BY <2>6, <3>3, <4>2, <4>3, <4>4 DEF Return
    <3> QED BY <2>9, <3>2, <3>3 DEF OpenPackage
  <2>10. CASE WritePackage
    <3>1. CASE Holds(work.package) /\ MayHold(work.package) /\ Continue("keeping")
               /\ UNCHANGED <<packagesSynced, approved>>
      <4>1. /\ packages'[Digest] = work.package
            /\ \A d \in Digests \ {Digest} :
                  packages'[d] = packages[d] /\ packagesOnDisk'[d] = packagesOnDisk[d]
        BY <2>7, <3>1
      <4> QED BY <2>5, <3>1, <4>1 DEF Continue
    <3> QED BY <2>8, <2>10, <3>1 DEF WritePackage
  <2>11. CASE SyncPackage
    <3>1. CASE packagesSynced' = packagesSynced \cup {Digest} /\ Continue("listing")
               /\ UNCHANGED <<packages, packagesOnDisk, approved>> /\ step = "keeping"
      <4>1. packages[Digest] = work.package
        BY <3>1 DEF HeldInv
      <4> QED BY <2>5, <3>1, <4>1 DEF Continue
    <3> QED BY <2>8, <2>11, <3>1 DEF SyncPackage
  <2>12. CASE SyncPackages
    <3>1. CASE /\ packagesOnDisk' = [d \in Digests |-> Settled(d)]
               /\ step' = "idle" /\ Approve /\ step = "listing"
               /\ UNCHANGED <<packages, packagesSynced>>
      <4>1. packages[Digest] = work.package /\ Digest \in packagesSynced
        BY <3>1 DEF HeldInv
      <4>2. ASSUME Tidy, NEW d \in Digests, packages[d] \in Package
            PROVE  packagesOnDisk'[d] = {packages[d]} /\ d \in packagesSynced
        <5>1. d \in packagesSynced
          BY <4>1, <4>2 DEF HeldInv
        <5> QED BY <3>1, <5>1 DEF Settled
      <4>3. ASSUME NEW d \in Held
            PROVE  d \in Held'
        <5>1. d \in Digests /\ packages[d] \in packagesOnDisk[d]
          BY DEF Held, OwnInv
        <5>2. Tidy => packages[d] \in Package
          BY <5>1 DEF Held
        <5> QED BY <1>0, <2>1, <3>1, <4>2, <5>1, <5>2 DEF Held
      <4>4. Digest \in Held'
        BY <1>0, <2>1, <3>1, <4>1, <4>2 DEF Held
      <4>5. Tidy' => \A d \in Digests : packages'[d] \in Package
                             => packagesOnDisk'[d] \subseteq Package /\ d \in packagesSynced'
        BY <1>0, <2>1, <3>1, <4>2
      <4> QED BY <2>6, <3>1, <4>3, <4>4, <4>5
    <3> QED BY <2>8, <2>12, <3>1 DEF SyncPackages, Return
  <2> QED BY <1>11, <2>9, <2>10, <2>11, <2>12
<1>12. CASE Kill
  <2>1. /\ kills \in Nat /\ kills' = kills + 1 /\ step' = "idle"
        /\ UNCHANGED <<envelopes, envelopesOnDisk, packages, packagesOnDisk, powerFailures>>
        /\ approved' = [p \in Projects |-> NoPackage]
    BY <1>0, <1>12 DEF Kill, Stop, TypeOK, packageFiles
  <2>2. ~Tidy'
    BY <2>1 DEF Tidy
  <2>3. Held \subseteq Held'
    BY <2>1, <2>2 DEF Held
  <2> QED BY <2>1, <2>2, <2>3 DEF HeldInv, Putting
<1>13. CASE PowerFailure
  <2>1. /\ powerFailures' # 0 /\ UNCHANGED kills /\ step' = "idle"
        /\ \A p \in Projects : envelopes'[p] \in envelopesOnDisk[p]
        /\ \A p \in Projects : envelopesOnDisk'[p] = {envelopes'[p]}
        /\ \A d \in Digests : packages'[d] \in packagesOnDisk[d]
        /\ \A d \in Digests : packagesOnDisk'[d] = {packages'[d]}
        /\ packagesSynced' = {d \in Digests : packages'[d] # NoFile}
        /\ approved' = [p \in Projects |-> NoPackage]
    BY <1>0, <1>13 DEF PowerFailure, Stop, TypeOK
  <2>2. Held \subseteq Held'
    BY <1>0, <2>1 DEF Held
  <2>3. \A p \in Projects : \A e \in envelopesOnDisk'[p] :
          e # NoFile /\ e.package # NoPackage => e.content \in Held'
    BY <2>1, <2>2 DEF HeldInv
  <2>4. Tidy' => \A d \in Digests : packages'[d] \in Package
                         => packagesOnDisk'[d] \subseteq Package /\ d \in packagesSynced'
    BY <2>1
  <2> QED BY <2>1, <2>3, <2>4 DEF HeldInv, Putting
<1>14. CASE Start
  <2>1. /\ UNCHANGED <<envelopes, envelopesOnDisk, packages, packagesOnDisk, packagesSynced,
                       powerFailures, approved, work, step>>
        /\ step = "idle"
    BY <1>0, <1>14 DEF Start, files, projectFiles, packageFiles, faults, mishaps, WorkInv
  <2> QED BY <1>2, <2>1 DEF Putting, Filling
<1>15. CASE UNCHANGED vars
  <2>1. UNCHANGED <<envelopes, envelopesOnDisk, packages, packagesOnDisk, packagesSynced,
                    powerFailures, kills, unremoved, approved, work, step>>
    BY <1>15 DEF vars, files, projectFiles, packageFiles, faults, mishaps
  <2>2. /\ Held' = Held /\ (Tidy' <=> Tidy) /\ Digest' = Digest
        /\ (Filling' <=> Filling) /\ (Putting' <=> Putting)
    BY <2>1 DEF Held, Tidy, Digest, Filling, Putting
  <2> QED BY <2>1, <2>2 DEF HeldInv
<1> QED
  BY <1>3, <1>4, <1>5, <1>6, <1>7, <1>8, <1>9, <1>10, <1>11, <1>12, <1>13, <1>14, <1>15 DEF Next

\* A frozen project has its package file, whole, after kills and after power
\* failures, where the power fails only after calls that were neither killed nor
\* left a package file they could not remove (review_ops.go:130, packages.go:13-70).
THEOREM PackageKept == Spec => []FrozenHasPackage
<1>1. TypeInv /\ StoreInv /\ OwnInv /\ HeldInv => FrozenHasPackage
  <2> SUFFICES ASSUME TypeInv, StoreInv, OwnInv, HeldInv, kills + unremoved = 0 \/ powerFailures = 0,
                      NEW p \in Projects, Frozen(p)
               PROVE  HasPackage(p)
    BY DEF FrozenHasPackage
  <2> DEFINE e == envelopes[p]
             d == e.content
  <2>1. e \in Envelope /\ e.package # NoPackage /\ e # NoFile /\ e \in envelopesOnDisk[p]
    BY SentinelAssumption DEF Frozen, StoreInv
  <2>2. d \in Held /\ d \in Digests
    BY <2>1 DEF HeldInv, Envelope
  <2>3. packages[d] \in packagesOnDisk[d]
    BY <2>2 DEF OwnInv
  <2>4. packages[d] \in Package
    <3>1. kills + unremoved = 0 => Tidy
      BY DEF TypeInv, TypeOK, Tidy
    <3> QED BY <2>2, <2>3, <3>1 DEF Held
  <2>5. packages[d].project = p
    BY <2>1, <2>3, <2>4 DEF OwnInv
  <2> QED BY <2>4, <2>5 DEF HasPackage
<1> QED BY <1>1, InitType, TypeStep, InitStore, StoreStep, InitOwn, OwnStep, InitHeld, HeldStep,
           PTL DEF Spec

=============================================================================
