----------------------------- MODULE DesktopUpdate -----------------------------
(***************************************************************************)
(* The desktop's updater over the lives of the application.  Every opening *)
(* of the browser workspace begins a check with a service of its own, and  *)
(* a check is not ended by the closing of its window, so two may run: they *)
(* share the staging root, and the platform's one updater.                 *)
(*                                                                         *)
(* An archive is named for what it is: its digest is its identity.  What a *)
(* server may answer is any announcement of any archive.                   *)
(***************************************************************************)
EXTENDS Integers, FiniteSets, Sequences, SequencesExt

CONSTANTS
    Nil,           \* no archive, no answer
    Ladder,         \* the versions released, from the lowest, each [core, pre]
    Archives,       \* what can be downloaded, each [version, signed]
    Checks,         \* the checks of one life, in the order they begin
    MaxLives        \* bound: lives of the application

---------------------------------------------------------------------------
(* The order of versions. *)

\* Identifiers are numbers or words; a number is before a word.
IdentifierAbove(x, y) ==
    IF x.number # y.number THEN y.number ELSE x.rank > y.rank

\* Seeded fault: the shorter of two prereleases that agree is the later one.
ComparePadded(x, y) ==
    LET apart(s, t) == {i \in 1..(IF Len(s) < Len(t) THEN Len(s) ELSE Len(t)) : s[i] # t[i]}
        first(s, t) == CHOOSE i \in apart(s, t) : \A j \in apart(s, t) : i <= j
    IN  IF apart(x.core, y.core) # {}
        THEN IF x.core[first(x.core, y.core)] > y.core[first(x.core, y.core)] THEN 1 ELSE -1
        ELSE IF apart(x.pre, y.pre) # {}
        THEN IF IdentifierAbove(x.pre[first(x.pre, y.pre)], y.pre[first(x.pre, y.pre)])
             THEN 1 ELSE -1
        ELSE IF Len(x.pre) = Len(y.pre) THEN 0 ELSE IF Len(x.pre) < Len(y.pre) THEN 1 ELSE -1

\* The cores decide, then the presence of a prerelease, then its first identifier that
\* differs, then its length.
CompareVersions(x, y) ==
    LET apart(s, t) == {i \in 1..(IF Len(s) < Len(t) THEN Len(s) ELSE Len(t)) : s[i] # t[i]}
        first(s, t) == CHOOSE i \in apart(s, t) : \A j \in apart(s, t) : i <= j
    IN  IF apart(x.core, y.core) # {}
        THEN IF x.core[first(x.core, y.core)] > y.core[first(x.core, y.core)] THEN 1 ELSE -1
        ELSE IF x.pre = <<>> \/ y.pre = <<>>
        THEN IF x.pre = y.pre THEN 0 ELSE IF x.pre # <<>> THEN -1 ELSE 1
        ELSE IF apart(x.pre, y.pre) # {}
        THEN IF IdentifierAbove(x.pre[first(x.pre, y.pre)], y.pre[first(x.pre, y.pre)])
             THEN 1 ELSE -1
        ELSE IF Len(x.pre) = Len(y.pre) THEN 0 ELSE IF Len(x.pre) < Len(y.pre) THEN -1 ELSE 1

\* Versions as a release is named, and the order SemVer gives them, said without a
\* comparison part by part: the first core, or identifier, that differs decides.
Identifiers == [number : BOOLEAN, rank : Nat]
Versions == {v \in [core : Seq(Nat), pre : Seq(Identifiers)] : Len(v.core) = 3}

Agree(s, t, n) == \A j \in 1..n : s[j] = t[j]

Precedes(x, y) ==
    \/ \E i \in 1..3 : x.core[i] < y.core[i] /\ Agree(x.core, y.core, i - 1)
    \/ x.core = y.core /\ x.pre # <<>> /\ y.pre = <<>>
    \/ /\ x.core = y.core
       /\ \E i \in 1..Len(x.pre) :
             /\ i <= Len(y.pre) /\ IdentifierAbove(y.pre[i], x.pre[i])
             /\ Agree(x.pre, y.pre, i - 1)
    \/ /\ x.core = y.core /\ x.pre # <<>>
       /\ Len(x.pre) < Len(y.pre) /\ Agree(x.pre, y.pre, Len(x.pre))

ASSUME LadderAssumption ==
    /\ Ladder \in Seq(Versions) /\ Ladder # <<>>
    /\ \A i, j \in 1..Len(Ladder) : i < j => Precedes(Ladder[i], Ladder[j])

ASSUME ArchivesAssumption ==
    /\ Archives \subseteq [version : Range(Ladder), signed : BOOLEAN]
    /\ Nil \notin Archives
ASSUME ChecksAssumption == Checks \in SUBSET Nat

---------------------------------------------------------------------------
VARIABLES
    application,    \* the version that runs, and in which life
    checks,         \* the checks of this life
    directories,    \* the staging root: its candidates and what each holds
    platform        \* what Squirrel fetches, and what it will install

updateVars == <<application, checks, directories, platform>>

---------------------------------------------------------------------------
(* A check. *)

Unbegun == [at |-> "none", announced |-> Nil, held |-> Nil]

UpdateInit ==
    /\ application = [version |-> Ladder[1], life |-> 1]
    /\ checks = [c \in Checks |-> Unbegun]
    /\ directories = {}
    /\ platform = [fetching |-> Nil, ready |-> Nil]

Directory(c) == [life |-> application.life, check |-> c]
Exists(c) == \E d \in directories : d.of = Directory(c)
CheckGoes(c, place) == checks' = [checks EXCEPT ![c].at = place]
CheckAt(c, place) == checks[c].at = place

\* A failure or a refusal: the check's own directory is removed, if it has one.
CheckFails(c) ==
    /\ CheckGoes(c, "done")
    /\ directories' = {d \in directories : d.of # Directory(c)}
    /\ UNCHANGED <<application, platform>>

\* The workspace is opened and the packaged policy names a signer.
BeginCheck(c) ==
    /\ CheckAt(c, "none")
    /\ \A b \in Checks : b < c => checks[b].at # "none"
    /\ CheckGoes(c, "manifest")
    /\ UNCHANGED <<application, directories, platform>>

\* Announced and downloaded, newer than what runs, and of the pinned signer.
Valid(announced, version, signed, digest) ==
    /\ signed
    /\ digest = announced.digest
    /\ CompareVersions(version, application.version) = 1

\* A manifest within its bounds, from its own address: what it claims is checked first.
ManifestAnswered(c) ==
    /\ CheckAt(c, "manifest")
    /\ \E v \in Range(Ladder), a \in Archives :
         LET announced == [version |-> v, digest |-> a] IN
         /\ Valid(announced, v, TRUE, a)
         /\ checks' = [checks EXCEPT ![c].at = "artifact", ![c].announced = announced]
    /\ UNCHANGED <<application, directories, platform>>

\* No update, no answer, a redirect, or a manifest that is refused.
ManifestRefused(c) == CheckAt(c, "manifest") /\ CheckFails(c)

ArtifactAnswered(c) ==
    /\ CheckAt(c, "artifact")
    /\ CheckGoes(c, "emptying")
    /\ UNCHANGED <<application, directories, platform>>

\* Every candidate of the root is removed, this process's too, then one is made.
EmptyStagingRoot(c) ==
    /\ CheckAt(c, "emptying")
    /\ directories' = {}
    /\ CheckGoes(c, "making")
    /\ UNCHANGED <<application, platform>>

MakeDirectory(c) ==
    /\ CheckAt(c, "making")
    /\ directories' = directories \union {[of |-> Directory(c), archive |-> Nil]}
    /\ CheckGoes(c, "downloading")
    /\ UNCHANGED <<application, platform>>

\* What was sent is written and its digest kept, though the directory may have gone
\* from under the open file.
DownloadArtifact(c) ==
    /\ CheckAt(c, "downloading")
    /\ \E a \in Archives :
         /\ checks' = [checks EXCEPT ![c].at = "inspecting", ![c].held = a]
         /\ directories' = {IF d.of = Directory(c) THEN [d EXCEPT !.archive = a] ELSE d :
                              d \in directories}
    /\ UNCHANGED <<application, platform>>

CheckInterrupted(c) ==
    /\ checks[c].at \in {"artifact", "emptying", "making", "downloading", "inspecting"}
    /\ CheckFails(c)

\* The archive is unpacked and read: its signature, its signer, its version; all that was
\* announced is checked again with what it says of itself.
InspectArtifact(c) ==
    LET archive == checks[c].held IN
    /\ CheckAt(c, "inspecting")
    /\ Exists(c)
    /\ archive.version = checks[c].announced.version
    /\ Valid(checks[c].announced, archive.version, archive.signed, archive)
    /\ CheckGoes(c, "staging")
    /\ UNCHANGED <<application, directories, platform>>

---------------------------------------------------------------------------
(* The installer, and the platform's updater behind it. *)

\* The feed is written beside the archive and the platform asked to fetch it; from here
\* on the directory is not removed by this check.
StageVerifiedUpdate(c) ==
    /\ CheckAt(c, "staging")
    /\ Exists(c)
    /\ platform' = [platform EXCEPT !.fetching = Directory(c)]
    /\ CheckGoes(c, "waiting")
    /\ UNCHANGED <<application, directories>>

StagingFails(c) ==
    /\ CheckAt(c, "staging")
    /\ CheckGoes(c, "done")
    /\ UNCHANGED <<application, directories, platform>>

\* An event is for every check that waits: one whose version or path it does not name
\* fails on it.
PlatformFetched ==
    /\ platform.fetching # Nil
    /\ \E d \in directories :
         /\ d.of = platform.fetching
         /\ platform' = [fetching |-> Nil, ready |-> d.archive]
    /\ checks' = [c \in Checks |->
                    IF checks[c].at # "waiting" THEN checks[c]
                    ELSE [checks[c] EXCEPT !.at =
                            IF Directory(c) = platform.fetching THEN "asking" ELSE "done"]]
    /\ UNCHANGED <<application, directories>>

\* An error, or nothing available: every waiting check fails.
PlatformFails ==
    /\ platform.fetching # Nil
    /\ platform' = [platform EXCEPT !.fetching = Nil]
    /\ checks' = [c \in Checks |->
                    IF checks[c].at = "waiting" THEN [checks[c] EXCEPT !.at = "done"]
                    ELSE checks[c]]
    /\ UNCHANGED <<application, directories>>

\* The check gives up; the platform does not know.
StagingTimesOut(c) ==
    /\ CheckAt(c, "waiting")
    /\ CheckGoes(c, "done")
    /\ UNCHANGED <<application, directories, platform>>

NextLife(version) ==
    /\ application.life < MaxLives
    /\ application' = [version |-> version, life |-> application.life + 1]
    /\ checks' = [c \in Checks |-> Unbegun]
    /\ platform' = [fetching |-> Nil, ready |-> Nil]
    /\ UNCHANGED directories

\* The owner takes the update now: what the platform holds is installed.
InstallPrepared(c) ==
    /\ CheckAt(c, "asking")
    /\ platform.ready # Nil
    /\ NextLife(platform.ready.version)

Later(c) ==
    /\ CheckAt(c, "asking")
    /\ CheckGoes(c, "done")
    /\ UNCHANGED <<application, directories, platform>>

\* The application ends, by a quit or a crash: the platform installs what it holds, or
\* does not get to it.
ApplicationEnds ==
    /\ \E version \in {application.version} \union
                      (IF platform.ready = Nil THEN {} ELSE {platform.ready.version}) :
         NextLife(version)

UpdateNext ==
    \/ \E c \in Checks :
         \/ BeginCheck(c) \/ ManifestAnswered(c) \/ ManifestRefused(c) \/ ArtifactAnswered(c)
         \/ EmptyStagingRoot(c) \/ MakeDirectory(c) \/ DownloadArtifact(c)
         \/ CheckInterrupted(c) \/ InspectArtifact(c)
         \/ StageVerifiedUpdate(c) \/ StagingFails(c) \/ StagingTimesOut(c)
         \/ InstallPrepared(c) \/ Later(c)
    \/ PlatformFetched \/ PlatformFails
    \/ ApplicationEnds

UpdateSpec == UpdateInit /\ [][UpdateNext]_updateVars

---------------------------------------------------------------------------
(* Properties. *)

PlaceOf(version) == CHOOSE i \in 1..Len(Ladder) : Ladder[i] = version

\* What the platform holds ready, from whichever check and however late, is signed by
\* Village and later in the order of releases than what runs.
ReadyIsNewer ==
    platform.ready # Nil =>
        /\ platform.ready.signed
        /\ PlaceOf(platform.ready.version) > PlaceOf(application.version)
===============================================================================
