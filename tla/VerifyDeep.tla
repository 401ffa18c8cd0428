------------------------------- MODULE VerifyDeep -------------------------------
(***************************************************************************)
(* The deep verification of a package, VerifyPackageDeep and               *)
(* VerifyPackageContent, and the download beside the commands of FileStore. *)
(* It takes no project lock: it reads the project, the package and the     *)
(* events one after the other, each while no call that writes is at work   *)
(* (the store's mutex is a read-write lock), and anything may be written   *)
(* between them.                                                           *)
(***************************************************************************)
EXTENDS FileStore

ASSUME DigestAssumption == Digests \subseteq Nat   \* package files sort by their names

VARIABLES place,    \* the next read
          query,    \* what is to be verified
          seen,     \* the envelope that was read, or NoFile
          found,    \* the package that was read
          verdict,
          since     \* the last answered revision of the project when it began

reader == <<place, query, seen, found, verdict, since>>
allVars == <<vars, reader>>

Queries == {<<"project", p>> : p \in Projects} \cup {<<"package", d>> : d \in Digests}

-----------------------------------------------------------------------------
\* LoadPackage reads the files in the order of their names, up to the first that
\* it cannot read or that is asked for: by project, or by package id or digest.
Asked(d, id) ==
    /\ packages[d] \in Package
    /\ \/ id[1] = "package" /\ packages[d].content = id[2]
       \/ id[1] = "project" /\ packages[d].project = id[2]
LoadPackage(id) ==
    LET ends == {d \in Digests : packages[d] = Torn \/ Asked(d, id)}
    IN  IF ends = {} THEN NoFile
        ELSE packages[CHOOSE d \in ends : \A e \in ends : d <= e]

\* Mutation: the package is looked up by whatever id was asked for.
LookupIDGiven(id, e) == id

\* A frozen project names its package.  (If that is not there, a second look-up
\* by its digest looks for the same content.)
LookupID(id, e) ==
    IF e # NoFile /\ e.package # NoPackage THEN <<"package", e.package.content>> ELSE id

\* Mutation: frozen_at is not compared.
BusinessWithoutMoment(pkg, p, e) ==
    /\ pkg.project = p
    /\ pkg.source = e.revision - 1
    /\ e.package # NoPackage
    /\ e.package.content = pkg.content
    /\ e.content = pkg.content

\* The business checks of VerifyPackageContent on a package and the project that
\* was read.  A package_id is made of the digest; the project_id in the payload
\* is part of the content.  The signer, which is the reviewer in every content,
\* and the structure of what was approved are the matter of ReleaseGate.
Business(pkg, p, e) ==
    /\ pkg.project = p
    /\ pkg.source = e.revision - 1
    /\ e.package # NoPackage
    /\ e.package.content = pkg.content
    /\ e.package.frozenAt = pkg.frozenAt
    /\ e.content = pkg.content

\* The checks of the event chain.
EventChain(file, pkg, e) ==
    /\ Readable(file) /\ file # <<>>
    /\ LET last == file[Len(file)] IN
           /\ last.package # NoPackage
           /\ last.revision = e.revision
           /\ last.package.content = pkg.content
           /\ last.package.source = pkg.source

-----------------------------------------------------------------------------
ReaderInit ==
    /\ place = "idle" /\ query = <<>> /\ seen = NoFile /\ found = NoFile
    /\ verdict = "none" /\ since = 0

Goto(next) == place' = next
Finish(v) == Goto("done") /\ verdict' = v

\* The request arrives, and LoadProject looks for a project of this id.
ReadProject ==
    /\ Free /\ place = "idle"
    /\ query' \in Queries
    /\ seen' = IF query'[1] = "project" THEN envelopes[query'[2]] ELSE NoFile
    /\ since' = IF query'[1] = "project" THEN answered[query'[2]] ELSE 0
    /\ Goto("package")
    /\ UNCHANGED <<vars, found, verdict>>

ReadPackage ==
    /\ Free /\ place = "package"
    /\ found' = LoadPackage(LookupID(query, seen))
    /\ IF found' \notin Package THEN Finish("error") /\ UNCHANGED seen
       ELSE UNCHANGED <<seen, verdict>> /\ Goto(IF seen = NoFile THEN "owner" ELSE "events")
    /\ UNCHANGED <<vars, query, since>>

\* Asked for a package, it reads the project of that.
ReadOwner ==
    /\ Free /\ place = "owner"
    /\ seen' = envelopes[found.project]
    /\ IF seen' = NoFile THEN Finish("error") ELSE Goto("events") /\ UNCHANGED verdict
    /\ UNCHANGED <<vars, query, found, since>>

\* The project whose envelope was read.
Owner == IF query[1] = "project" THEN query[2] ELSE found.project
ReadEvents ==
    /\ Free /\ place = "events"
    /\ Finish(IF Business(found, Owner, seen) /\ EventChain(frames[Owner], found, seen)
              THEN "valid" ELSE "invalid")
    /\ UNCHANGED <<vars, query, seen, found, since>>

\* The next verification.
Forget ==
    /\ place' = "idle" /\ query' = <<>> /\ seen' = NoFile /\ found' = NoFile
    /\ verdict' = "none" /\ since' = 0
Report == place = "done" /\ Forget /\ UNCHANGED vars

Write ==
    /\ Next
    /\ IF running' THEN UNCHANGED reader ELSE Forget

DeepNext == ReadProject \/ ReadPackage \/ ReadOwner \/ ReadEvents \/ Report \/ Write

DeepSpec == Init /\ ReaderInit /\ [][DeepNext]_allVars

-----------------------------------------------------------------------------
(* Properties. *)

\* What is reported valid is so, although the three reads saw three moments: the
\* project is frozen with the very package of its file, and the event of the
\* freeze is the last (service.go:163-222, package.go:127-209).
ValidIsConsistent ==
    verdict = "valid" =>
        LET p == found.project IN
        /\ Frozen(p) /\ envelopes[p].package = found /\ packages[found.content] = found
        /\ Readable(frames[p])
        /\ frames[p][Len(frames[p])] = [frames[p][Len(frames[p])] EXCEPT
                                           !.revision = envelopes[p].revision, !.package = found]

\* A verification of a project that begins after its freeze was answered reports
\* it valid, whatever other calls failed before it and whatever else is written
\* meanwhile, if every call that was begun ended and removed what it failed to
\* write, no event was appended behind one that was cut off right before its
\* newline, and the first freeze of this content is the one that succeeded
\* (service_test.go:75).
AnsweredFreezeIsValid ==
    /\ kills + powerFailures + unremoved = 0
    /\ place = "done" /\ seen # NoFile
    /\ seen.package # NoPackage /\ since = seen.revision
    /\ packages[seen.content] = seen.package
    /\ \A i \in DOMAIN frames[Owner] : ~Joined(frames[Owner], i)
    => verdict = "valid"

-----------------------------------------------------------------------------
(* What the documentation says of the program and the code does not do. *)

\* "项目冻结后只允许读取时间线、下载安装包" (README.md:49): the download of a frozen
\* project, which asks for its package by the id of the project, gives the
\* package it was frozen with.
DownloadIsFrozenPackage ==
    \A p \in Projects :
        Free /\ Frozen(p) /\ LoadPackage(<<"project", p>>) \in Package =>
            LoadPackage(<<"project", p>>).content = envelopes[p].package.content
=============================================================================
