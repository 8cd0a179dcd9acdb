------------------------------ MODULE Continuity -------------------------------
(***************************************************************************)
(* Site-session continuity: a source device publishes revisions of its     *)
(* cookies to a mailbox, a destination device fetches, applies and         *)
(* acknowledges them.  One grant, its row in D1, its mailbox object, the   *)
(* two devices with the files they keep, and the requests between them.    *)
(*                                                                         *)
(* A revision is named by its digest, the position at which it was made:   *)
(* digests never collide, and the cookies a revision holds matter only as  *)
(* "those of that revision".  Signatures, bindings and envelopes of other  *)
(* devices, which only refuse, are left out; the clocks of the devices are *)
(* the server's.  A device request that is refused for its own age leaves  *)
(* the state as a lost one does.                                           *)
(***************************************************************************)
EXTENDS Integers, Sequences

CONSTANTS
    Requests,             \* requests the Worker serves at one time
    NoRequest,
    Never,                \* no alarm is set
    RevisionLife,         \* how long a revision is valid (24 hours)
    GrantLife,            \* how long the grant is (at most 30 days)
    MaxDisturbances,      \* how often a request, an object or a process may fail
                          \* or a device lose its credential
    MaxTime, MaxRevision, MaxSequence    \* bounds of the exploration

ASSUME ContinuityAssumption ==
    /\ NoRequest \notin Requests
    /\ Never \notin Nat
    /\ RevisionLife \in Nat \ {0} /\ GrantLife \in Nat \ {0}
    /\ MaxDisturbances \in Nat
    /\ MaxTime \in Nat /\ MaxRevision \in Nat /\ MaxSequence \in Nat

VARIABLES
    now,
    active,               \* the devices whose credential is as the grant pinned it
    grant,                \* the row of continuity_grants: state, expires
    mailbox,              \* the object: its metadata, revisions and alarm
    minted,               \* every revision the source has made, by digest
    source,               \* its journal, and what its process is doing
    destination,          \* its journal, sequence store and browser profile
    requests,             \* per request: its progress and what it was sent
    disturbances          \* how many there were: only a bound

vars == <<now, active, grant, mailbox, minted, source, destination, requests,
          disturbances>>

-------------------------------------------------------------------------------
Devices == {"SOURCE", "DESTINATION"}
DeviceKinds == {"PUBLISH", "FETCH", "ACKNOWLEDGE"}

Revisions == [revision : Nat \ {0}, previous : Nat, expires : Nat]

\* current_revision and current_digest are written together, as are
\* appliedRevision and appliedDigest, publishedRevision and publishedDigest.
RevisionOf(d) == IF d = 0 THEN 0 ELSE minted[d].revision

Idle == [at |-> "IDLE"]

\* `named' is the digest of a PUBLISH and an ACKNOWLEDGE, the revision after
\* which a FETCH asks; `time' the instant its route was entered.
Sent(kind, named, sequence) ==
    [at |-> "SENT", kind |-> kind, named |-> named, sequence |-> sequence, time |-> 0]

OwnerCall(at) == [at |-> at, kind |-> "OWNER"]

\* What the digest of a request is taken of.
Envelope(q) == <<q.kind, q.named, q.sequence>>

NoMailbox(destroyed) ==
    [ status |-> "NONE", current |-> 0, acknowledged |-> 0, sequence |-> 0,
      accepted |-> Never, kept |-> {}, expires |-> 0, alarm |-> Never,
      destroyed |-> destroyed ]

Init ==
    /\ now = 0
    /\ active = Devices
    /\ grant = [state |-> "NONE", expires |-> 0]
    /\ mailbox = NoMailbox(FALSE)
    /\ minted = <<>>
    /\ source = [at |-> "IDLE", request |-> NoRequest, published |-> 0, pending |-> 0]
    /\ destination = [ at |-> "IDLE", request |-> NoRequest, fetched |-> 0,
                       applied |-> 0, reserved |-> 0,
                       profile |-> [digest |-> 0, whole |-> TRUE] ]
    /\ requests = [r \in Requests |-> Idle]
    /\ disturbances = 0

At(r, step) == requests[r].at = step

Goes(r, step) == requests' = [requests EXCEPT ![r].at = step]

\* Seeded fault: a revision is journaled only once it is published.
SourceStoppedForgetting ==
    [source EXCEPT !.at = "IDLE", !.request = NoRequest, !.pending = 0]

\* The process of a device ends what it is doing: an error, a time-out, a quit.
SourceStopped == [source EXCEPT !.at = "IDLE", !.request = NoRequest]
DestinationStopped ==
    [destination EXCEPT !.at = "IDLE", !.request = NoRequest, !.fetched = 0]

\* The request is over and has failed, for whoever still waits for it.
Fails(r) ==
    /\ requests' = [requests EXCEPT ![r] = Idle]
    /\ source' = IF source.request = r THEN SourceStopped ELSE source
    /\ destination' =
         IF destination.request = r THEN DestinationStopped ELSE destination

\* The request is answered.  An answer that gets lost is one after which the
\* process of the device stops.
AnswersSource(r, step) ==
    /\ requests' = [requests EXCEPT ![r] = Idle]
    /\ source' = IF source.request = r
                 THEN [source EXCEPT !.at = step, !.request = NoRequest]
                 ELSE source
    /\ UNCHANGED destination

AnswersDestination(r, step, d) ==
    /\ requests' = [requests EXCEPT ![r] = Idle]
    /\ destination' =
         IF destination.request = r
         THEN [destination EXCEPT !.at = step, !.fetched = d, !.request = NoRequest]
         ELSE destination
    /\ UNCHANGED source

Disturbed == disturbances < MaxDisturbances /\ disturbances' = disturbances + 1

cloud == <<active, grant, mailbox>>
clients == <<minted, source, destination>>

-------------------------------------------------------------------------------
(***************************************************************************)
(* The mailbox object.                                                     *)
(***************************************************************************)
NextExpiry(m) ==
    LET instants == {m.expires} \cup {minted[d].expires : d \in m.kept}
    IN  CHOOSE t \in instants : \A u \in instants : t <= u

\* scheduleNextAlarm
Scheduled(m) ==
    [m EXCEPT !.alarm = IF m.status = "ACTIVE" THEN NextExpiry(m) ELSE Never]

\* activeMetadata, at the instant the request's route was entered.
IsActiveAt(time) == mailbox.status = "ACTIVE" /\ mailbox.expires > time

\* publish, fetchAfter and acknowledge up to their first await, the
\* verification of a signature.
Admit(r) ==
    LET q == requests[r]
    IN  /\ At(r, "ROUTED")
        /\ IF /\ IsActiveAt(q.time)
              /\ q.kind = "PUBLISH" => minted[q.named].expires > q.time
           THEN Goes(r, "ADMITTED") /\ UNCHANGED <<source, destination>>
           ELSE Fails(r)
        /\ UNCHANGED <<now, disturbances, cloud, minted>>

Extends(d) ==
    /\ minted[d].revision = RevisionOf(mailbox.current) + 1
    /\ minted[d].previous = mailbox.current

\* Seeded fault: the transaction relies on the check made before the await.
StoreUnchecked(r) ==
    LET d == requests[r].named
    IN  /\ At(r, "ADMITTED") /\ requests[r].kind = "PUBLISH"
        /\ IF d = mailbox.current \/ Extends(d)
           THEN /\ mailbox' = Scheduled(
                     IF d = mailbox.current THEN mailbox
                     ELSE [mailbox EXCEPT !.kept = @ \cup {d}, !.current = d])
                /\ AnswersSource(r, "STORED")
           ELSE Fails(r) /\ UNCHANGED mailbox
        /\ UNCHANGED <<now, disturbances, active, grant, minted>>

\* The rest of publish.
Store(r) ==
    LET d == requests[r].named
    IN  /\ At(r, "ADMITTED") /\ requests[r].kind = "PUBLISH"
        /\ IF mailbox.status = "ACTIVE" /\ (d = mailbox.current \/ Extends(d))
           THEN /\ mailbox' = Scheduled(
                     IF d = mailbox.current THEN mailbox
                     ELSE [mailbox EXCEPT !.kept = @ \cup {d}, !.current = d])
                /\ AnswersSource(r, "STORED")
           ELSE Fails(r) /\ UNCHANGED mailbox
        /\ UNCHANGED <<now, disturbances, active, grant, minted>>

\* acceptDestinationSequenceInTransaction
AcceptsSequence(q) ==
    \/ q.sequence = mailbox.sequence /\ Envelope(q) = mailbox.accepted
    \/ q.sequence = mailbox.sequence + 1

Accepting(q) == [mailbox EXCEPT !.sequence = q.sequence, !.accepted = Envelope(q)]

\* The revisions after number n that are still valid at some time.
Later(n, time) ==
    {d \in mailbox.kept : RevisionOf(d) > n /\ minted[d].expires > time}

First(S) == CHOOSE d \in S : \A e \in S : RevisionOf(d) <= RevisionOf(e)

\* The rest of fetchAfter.
Serve(r) ==
    LET q == requests[r]
    IN  /\ At(r, "ADMITTED") /\ q.kind = "FETCH"
        /\ IF mailbox.status = "ACTIVE" /\ AcceptsSequence(q)
           THEN /\ mailbox' = Accepting(q)
                /\ IF Later(q.named, q.time) = {}
                   THEN AnswersDestination(r, "IDLE", 0)
                   ELSE AnswersDestination(r, "FETCHED", First(Later(q.named, q.time)))
           ELSE Fails(r) /\ UNCHANGED mailbox
        /\ UNCHANGED <<now, disturbances, active, grant, minted>>

WithAcknowledged(m, d) ==
    [m EXCEPT !.acknowledged = RevisionOf(d),
              !.kept = {e \in @ : RevisionOf(e) >= RevisionOf(d)}]

\* The rest of acknowledge.  One that is out of order, which a destination of
\* this code never sends, is refused only after its sequence was accepted, and
\* the transaction keeps that.
Acknowledge(r) ==
    LET q == requests[r]
        n == RevisionOf(q.named)
    IN  /\ At(r, "ADMITTED") /\ q.kind = "ACKNOWLEDGE"
        /\ IF /\ mailbox.status = "ACTIVE"
              /\ q.named \in mailbox.kept
              /\ AcceptsSequence(q)
           THEN IF n > mailbox.acknowledged + 1
                THEN mailbox' = Accepting(q) /\ Fails(r)
                ELSE /\ mailbox' = Scheduled(
                          IF n = mailbox.acknowledged + 1
                          THEN WithAcknowledged(Accepting(q), q.named)
                          ELSE Accepting(q))
                     /\ AnswersDestination(r, "FETCH", 0)
           ELSE Fails(r) /\ UNCHANGED mailbox
        /\ UNCHANGED <<now, disturbances, active, grant, minted>>

\* alarm
AlarmFires ==
    /\ mailbox.alarm # Never /\ mailbox.alarm <= now
    /\ mailbox' = Scheduled(
         IF mailbox.expires <= now
         THEN [mailbox EXCEPT !.status = "EXPIRED", !.kept = {}]
         ELSE [mailbox EXCEPT !.kept = {d \in @ : minted[d].expires > now}])
    /\ UNCHANGED <<now, disturbances, active, grant, clients, requests>>

\* The object leaves memory, and with it the requests that are in it.
Evict ==
    LET inside == {r \in Requests : At(r, "ADMITTED")}
    IN  /\ mailbox.destroyed \/ inside # {}
        /\ IF inside = {} THEN UNCHANGED disturbances ELSE Disturbed
        /\ mailbox' = [mailbox EXCEPT !.destroyed = FALSE]
        /\ requests' = [r \in Requests |-> IF r \in inside THEN Idle ELSE requests[r]]
        /\ source' = IF source.request \in inside THEN SourceStopped ELSE source
        /\ destination' =
             IF destination.request \in inside THEN DestinationStopped ELSE destination
        /\ UNCHANGED <<now, active, grant, minted>>

-------------------------------------------------------------------------------
(***************************************************************************)
(* The owner's requests (grants.ts).                                       *)
(***************************************************************************)
Ends(r) == requests' = [requests EXCEPT ![r] = Idle]

\* createContinuityGrant up to the mailbox: the row is inserted unless it is
\* there, and a row that is there is taken up while it is pending.
CreateGrant(r) ==
    /\ At(r, "IDLE")
    /\ active = Devices
    /\ grant.state \in {"NONE", "PENDING"}
    /\ grant' = IF grant.state = "NONE"
                THEN [state |-> "PENDING", expires |-> now + GrantLife]
                ELSE grant
    /\ requests' = [requests EXCEPT ![r] = OwnerCall("INITIALIZE")]
    /\ UNCHANGED <<now, disturbances, active, mailbox, clients>>

\* initialize
Initialize(r) ==
    /\ At(r, "INITIALIZE")
    /\ IF mailbox.destroyed
       THEN Ends(r) /\ UNCHANGED mailbox
       ELSE /\ mailbox' = Scheduled(
                 IF mailbox.status = "NONE"
                 THEN [mailbox EXCEPT !.status = "ACTIVE", !.expires = grant.expires]
                 ELSE mailbox)
            /\ Goes(r, "ACTIVATE")
    /\ UNCHANGED <<now, disturbances, active, grant, clients>>

\* The row as another request has left it.
Activate(r) ==
    /\ At(r, "ACTIVATE")
    /\ grant' = IF grant.state = "PENDING"
                THEN [grant EXCEPT !.state = "ACTIVE"]
                ELSE grant
    /\ Ends(r)
    /\ UNCHANGED <<now, disturbances, active, mailbox, clients>>

RevokeGrant(r) ==
    /\ At(r, "IDLE")
    /\ grant.state = "ACTIVE"
    /\ requests' = [requests EXCEPT ![r] = OwnerCall("REVOKE")]
    /\ UNCHANGED <<now, disturbances, cloud, clients>>

\* revoke, called for the owner or for a device whose credential has changed;
\* a mailbox that is not there makes the owner's request fail only.
RevokeMailbox(r) ==
    /\ At(r, "REVOKE")
    /\ mailbox' = IF mailbox.status = "ACTIVE"
                  THEN [mailbox EXCEPT !.status = "REVOKED", !.kept = {},
                                       !.alarm = Never]
                  ELSE mailbox
    /\ IF mailbox.status = "NONE" /\ requests[r].kind = "OWNER"
       THEN Ends(r)
       ELSE Goes(r, "MARK_REVOKED")
    /\ UNCHANGED <<now, disturbances, active, grant, clients>>

MarkRevoked(r) ==
    /\ At(r, "MARK_REVOKED")
    /\ grant' = IF grant.state = "ACTIVE"
                THEN [grant EXCEPT !.state = "REVOKED"]
                ELSE grant
    /\ Fails(r)
    /\ UNCHANGED <<now, disturbances, active, mailbox, minted>>

DeleteGrant(r) ==
    /\ At(r, "IDLE")
    /\ grant.state \notin {"NONE", "DELETED"}
    /\ requests' = [requests EXCEPT ![r] = OwnerCall("MARK_DELETING")]
    /\ UNCHANGED <<now, disturbances, cloud, clients>>

MarkDeleting(r) ==
    /\ At(r, "MARK_DELETING")
    /\ grant' = [grant EXCEPT !.state = "DELETING"]
    /\ Goes(r, "DESTROY")
    /\ UNCHANGED <<now, disturbances, active, mailbox, clients>>

\* destroy
Destroy(r) ==
    /\ At(r, "DESTROY")
    /\ mailbox' = IF mailbox.status = "NONE" THEN mailbox ELSE NoMailbox(TRUE)
    /\ Goes(r, "MARK_DELETED")
    /\ UNCHANGED <<now, disturbances, active, grant, clients>>

MarkDeleted(r) ==
    /\ At(r, "MARK_DELETED")
    /\ grant' = [grant EXCEPT !.state = "DELETED"]
    /\ Ends(r)
    /\ UNCHANGED <<now, disturbances, active, mailbox, clients>>

RevokeDevice(v) ==
    /\ Disturbed
    /\ v \in active
    /\ active' = active \ {v}
    /\ UNCHANGED <<now, grant, mailbox, clients, requests>>

-------------------------------------------------------------------------------
(***************************************************************************)
(* The devices' requests: activeGrantForEnvelope, between the entry of the *)
(* route and the call of the mailbox.                                      *)
(***************************************************************************)
Sender(q) == IF q.kind = "PUBLISH" THEN "SOURCE" ELSE "DESTINATION"

Route(r) ==
    /\ At(r, "SENT")
    /\ \/ /\ grant.state # "ACTIVE"
          /\ Fails(r)
       \/ /\ grant.state = "ACTIVE"
          /\ requests' = [requests EXCEPT
               ![r].at = IF Sender(requests[r]) \in active THEN "ROUTED" ELSE "REVOKE",
               ![r].time = now]
          /\ UNCHANGED <<source, destination>>
    /\ UNCHANGED <<now, disturbances, cloud, minted>>

\* The request, or the Worker that serves it, is lost.
RequestLost(r) ==
    /\ Disturbed /\ ~At(r, "IDLE")
    /\ Fails(r)
    /\ UNCHANGED <<now, cloud, minted>>

\* Something on the way delivers a request twice.
Duplicate(r, s) ==
    /\ Disturbed /\ At(r, "SENT") /\ At(s, "IDLE")
    /\ requests' = [requests EXCEPT ![s] = requests[r]]
    /\ UNCHANGED <<now, cloud, clients>>

-------------------------------------------------------------------------------
(***************************************************************************)
(* The source (FixtureContinuitySource.publishCurrent).                    *)
(***************************************************************************)
\* getContinuityActivations offers the grant to the device.
Offered(v) == v \in active /\ grant.state = "ACTIVE" /\ grant.expires > now

NewRevision ==
    [ revision |-> RevisionOf(source.published) + 1,
      previous |-> source.published,
      expires  |-> now + RevisionLife ]

\* The journal is read; a new revision is written to it before it is sent.
Publish(r) ==
    /\ source.at = "IDLE" /\ Offered("SOURCE") /\ At(r, "IDLE")
    /\ IF source.pending # 0
       THEN UNCHANGED minted
       ELSE /\ RevisionOf(source.published) < MaxRevision
            /\ minted' = Append(minted, NewRevision)
    /\ source' = [source EXCEPT !.at = "PUBLISHING", !.request = r,
                                !.pending = IF @ # 0 THEN @ ELSE Len(minted')]
    /\ requests' = [requests EXCEPT ![r] = Sent("PUBLISH", source'.pending, 0)]
    /\ UNCHANGED <<now, disturbances, cloud, destination>>

RecordPublished ==
    /\ source.at = "STORED"
    /\ source' = [SourceStopped EXCEPT !.published = source.pending, !.pending = 0]
    /\ UNCHANGED <<now, disturbances, cloud, minted, destination, requests>>

SourceStops ==
    /\ Disturbed /\ source.at # "IDLE"
    /\ source' = SourceStopped
    /\ UNCHANGED <<now, cloud, minted, destination, requests>>

-------------------------------------------------------------------------------
(***************************************************************************)
(* The destination (RuntimeContinuityActivation.applyDestination and       *)
(* FixtureContinuityDestination.apply).                                    *)
(***************************************************************************)
\* reserveNext writes the sequence to its file before the request is sent.
Ask(r, kind, named) ==
    /\ At(r, "IDLE")
    /\ destination.reserved < MaxSequence
    /\ requests' = [requests EXCEPT ![r] = Sent(kind, named, destination.reserved + 1)]
    /\ destination' =
         [destination EXCEPT !.at = "ASKING", !.request = r, !.reserved = @ + 1]
    /\ UNCHANGED <<now, disturbances, cloud, minted, source>>

Starts == destination.at = "IDLE" /\ Offered("DESTINATION")

\* An activation begins with the acknowledgement of what the journal holds.
Fetch(r) ==
    /\ destination.at = "FETCH" \/ (Starts /\ destination.applied = 0)
    /\ Ask(r, "FETCH", RevisionOf(destination.applied))

SendAcknowledgement(r) ==
    /\ destination.at = "ACKNOWLEDGE" \/ (Starts /\ destination.applied # 0)
    /\ Ask(r, "ACKNOWLEDGE", destination.applied)

\* A revision is whole and its source's: it opens until it expires.
Opens(d) == minted[d].expires > now

\* A revision that has expired or does not continue the journal is an error;
\* one that the journal holds is acknowledged again; cookies are written one
\* by one.
BeginApply ==
    LET d == destination.fetched
    IN  /\ destination.at = "FETCHED"
        /\ destination' =
             IF ~Opens(d) THEN DestinationStopped
             ELSE IF d = destination.applied
             THEN [destination EXCEPT !.at = "ACKNOWLEDGE", !.fetched = 0]
             ELSE IF /\ minted[d].revision = RevisionOf(destination.applied) + 1
                     /\ minted[d].previous = destination.applied
             THEN [destination EXCEPT !.at = "APPLYING",
                                      !.profile = [digest |-> d, whole |-> FALSE]]
             ELSE DestinationStopped
        /\ UNCHANGED <<now, disturbances, cloud, minted, source, requests>>

\* Seeded fault: the journal is written over cookies that are not all flushed.
FlushOmitted ==
    /\ destination.at = "APPLYING"
    /\ destination' = [destination EXCEPT !.at = "FLUSHED"]
    /\ UNCHANGED <<now, disturbances, cloud, minted, source, requests>>

Flush ==
    /\ destination.at = "APPLYING"
    /\ destination' = [destination EXCEPT !.at = "FLUSHED", !.profile.whole = TRUE]
    /\ UNCHANGED <<now, disturbances, cloud, minted, source, requests>>

RecordApplied ==
    /\ destination.at = "FLUSHED"
    /\ destination' = [destination EXCEPT !.at = "ACKNOWLEDGE", !.fetched = 0,
                                          !.applied = destination.fetched]
    /\ UNCHANGED <<now, disturbances, cloud, minted, source, requests>>

DestinationStops ==
    /\ Disturbed /\ destination.at # "IDLE"
    /\ destination' = DestinationStopped
    /\ UNCHANGED <<now, cloud, minted, source, requests>>

-------------------------------------------------------------------------------
Tick ==
    /\ now < MaxTime
    /\ now' = now + 1
    /\ UNCHANGED <<cloud, clients, requests, disturbances>>

RequestStep(r) ==
    \/ CreateGrant(r) \/ Initialize(r) \/ Activate(r)
    \/ RevokeGrant(r) \/ RevokeMailbox(r) \/ MarkRevoked(r)
    \/ DeleteGrant(r) \/ MarkDeleting(r) \/ Destroy(r) \/ MarkDeleted(r)
    \/ Route(r) \/ Admit(r) \/ Store(r) \/ Serve(r) \/ Acknowledge(r)
    \/ RequestLost(r)
    \/ Publish(r) \/ Fetch(r) \/ SendAcknowledgement(r)

Next ==
    \/ \E r \in Requests : RequestStep(r)
    \/ \E r, s \in Requests : Duplicate(r, s)
    \/ \E v \in Devices : RevokeDevice(v)
    \/ AlarmFires \/ Evict
    \/ RecordPublished \/ SourceStops
    \/ BeginApply \/ Flush \/ RecordApplied \/ DestinationStops
    \/ Tick

Spec == Init /\ [][Next]_vars

-------------------------------------------------------------------------------
(***************************************************************************)
(* Properties.                                                             *)
(***************************************************************************)
Digests == 1 .. Len(minted)

GrantRows ==
    [ state : {"NONE", "PENDING", "ACTIVE", "REVOKED", "DELETING", "DELETED"},
      expires : Nat ]

MailboxStates ==
    [ status : {"NONE", "ACTIVE", "REVOKED", "EXPIRED"},
      current : {0} \cup Digests, acknowledged : Nat, sequence : Nat,
      accepted : {Never} \cup (DeviceKinds \X Nat \X Nat),
      kept : SUBSET Digests, expires : Nat, alarm : Nat \cup {Never},
      destroyed : BOOLEAN ]

SourceStates ==
    [ at : {"IDLE", "PUBLISHING", "STORED"}, request : Requests \cup {NoRequest},
      published : {0} \cup Digests, pending : {0} \cup Digests ]

Profiles == [digest : {0} \cup Digests, whole : BOOLEAN]

DestinationStates ==
    [ at : {"IDLE", "FETCH", "ACKNOWLEDGE", "ASKING", "FETCHED", "APPLYING", "FLUSHED"},
      request : Requests \cup {NoRequest}, fetched : {0} \cup Digests,
      applied : {0} \cup Digests, reserved : Nat, profile : Profiles ]

OwnerCalls ==
    {"INITIALIZE", "ACTIVATE", "REVOKE", "MARK_REVOKED",
     "MARK_DELETING", "DESTROY", "MARK_DELETED"}

DeviceCalls == {"SENT", "ROUTED", "ADMITTED", "REVOKE", "MARK_REVOKED"}

RequestStates ==
    {Idle}
      \cup [at : OwnerCalls, kind : {"OWNER"}]
      \cup [at : DeviceCalls, kind : {"FETCH"},
            named : Nat, sequence : Nat, time : Nat]
      \cup [at : DeviceCalls, kind : {"PUBLISH", "ACKNOWLEDGE"},
            named : Digests, sequence : Nat, time : Nat]

TypeOK ==
    /\ now \in Nat /\ disturbances \in Nat
    /\ active \subseteq Devices
    /\ grant \in GrantRows
    /\ minted \in Seq(Revisions)
    /\ mailbox \in MailboxStates
    /\ source \in SourceStates
    /\ destination \in DestinationStates
    /\ requests \in [Requests -> RequestStates]

\* Whatever is lost or late, the mailbox of an active grant is at the revision
\* the source's journal says is published, or at the one it says is pending:
\* the source is never taken for a fork of its own chain (publishCurrent,
\* publish).
SourceCanResume ==
    grant.state = "ACTIVE" =>
        mailbox.current \in {source.published} \cup ({source.pending} \ {0})

\* Nothing is acknowledged before the destination's journal records it, and
\* the journal records a revision only when its cookies are all flushed: the
\* profile holds exactly the journal's revision, or the application of the
\* next one was begun (apply, applyDestination).
AcknowledgedIsFlushed ==
    /\ mailbox.acknowledged <= RevisionOf(destination.applied)
    /\ LET p == destination.profile
       IN  \/ p = [digest |-> destination.applied, whole |-> TRUE]
           \/ p.digest # 0 /\ minted[p.digest].previous = destination.applied

\* The retained revisions are the end of one chain, without a gap, and a
\* mailbox that is not active retains none, although publish and acknowledge
\* check the mailbox and await before they write to it.
RetainedIsChained ==
    /\ mailbox.status # "ACTIVE" => mailbox.kept = {}
    /\ \A d \in mailbox.kept :
          \/ d = mailbox.current
          \/ \E e \in mailbox.kept :
                /\ minted[e].previous = d
                /\ minted[e].revision = minted[d].revision + 1

\* The row of an active grant has a mailbox; that of a revoked one has been
\* fenced, whatever creations and deletions are under way, and an activation
\* that comes late does not undo it.
GrantFollowsMailbox ==
    /\ grant.state = "ACTIVE" => mailbox.status # "NONE"
    /\ grant.state = "REVOKED" => mailbox.status \in {"REVOKED", "EXPIRED"}

\* The alarm is set for the earliest expiry among the grant's and those of
\* the retained revisions, and only while the mailbox is active: what has
\* expired is removed without any request (scheduleNextAlarm).
AlarmTracksExpiry ==
    mailbox.alarm = IF mailbox.status = "ACTIVE" THEN NextExpiry(mailbox) ELSE Never
===============================================================================
