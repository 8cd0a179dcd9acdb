--------------------------- MODULE ContinuityProofs ----------------------------
(***************************************************************************)
(* Theorems about Continuity, for every number of concurrent requests, of  *)
(* revisions and of disturbances, and every life of grants and revisions.  *)
(***************************************************************************)
EXTENDS Continuity, TLAPS, WellFoundedInduction

-------------------------------------------------------------------------------
(***************************************************************************)
(* The earliest expiry.                                                    *)
(***************************************************************************)

\* Every nonempty set of instants has an earliest one.
LEMMA EarliestExists ==
    ASSUME NEW S \in SUBSET Nat, S # {}
    PROVE  \E t \in S : \A u \in S : t <= u
<1> DEFINE R == {ss \in Nat \X Nat : ss[1] < ss[2]}
<1>1. IsWellFoundedOn(R, Nat)
  BY NatLessThanWellFounded DEF OpToRel
<1> HIDE DEF R
<1>2. PICK x \in S : \A y \in S : ~ (<<y, x>> \in R)
  BY <1>1, WFMin
<1>3. ASSUME NEW y \in S PROVE x <= y
  <2>1. ~ (<<y, x>> \in R)
    BY <1>2
  <2>2. x \in Nat /\ y \in Nat
    OBVIOUS
  <2> QED BY <2>1, <2>2 DEF R
<1> QED BY <1>3

\* The numbers and expiries of the revisions that were made.
LEMMA MintedTypes ==
    ASSUME minted \in Seq(Revisions)
    PROVE  /\ \A d \in Digests : minted[d] \in Revisions
           /\ \A d \in {0} \cup Digests : RevisionOf(d) \in Nat /\ d \in Nat
<1>1. \A d \in Digests : minted[d] \in Revisions
  BY DEF Digests
<1>2. \A d \in Digests : RevisionOf(d) \in Nat /\ d \in Nat
  BY <1>1 DEF Digests, RevisionOf, Revisions
<1> QED BY <1>1, <1>2 DEF RevisionOf

\* The instant the alarm is set for is one.
LEMMA NextExpiryType ==
    ASSUME minted \in Seq(Revisions), NEW m \in MailboxStates
    PROVE  NextExpiry(m) \in Nat
<1> DEFINE instants == {m.expires} \cup {minted[d].expires : d \in m.kept}
<1>1. instants \in SUBSET Nat
  <2>1. m.expires \in Nat /\ m.kept \subseteq Digests
    BY DEF MailboxStates
  <2>2. \A d \in m.kept : minted[d].expires \in Nat
    BY <2>1, MintedTypes DEF Revisions
  <2> QED BY <2>1, <2>2
<1>2. instants # {}
  OBVIOUS
<1>3. \E t \in instants : \A u \in instants : t <= u
  <2> HIDE DEF instants
  <2> QED BY <1>1, <1>2, EarliestExists
<1>4. NextExpiry(m) = CHOOSE t \in instants : \A u \in instants : t <= u
  BY DEF NextExpiry
<1>5. NextExpiry(m) \in instants
  <2> HIDE DEF instants
  <2> QED BY <1>3, <1>4
<1> QED BY <1>1, <1>5

\* Setting the alarm leaves a mailbox a mailbox.
LEMMA ScheduledType ==
    ASSUME minted \in Seq(Revisions), NEW m \in MailboxStates
    PROVE  Scheduled(m) \in MailboxStates
BY NextExpiryType DEF Scheduled, MailboxStates

-------------------------------------------------------------------------------
(***************************************************************************)
(* Type correctness.  The steps of the devices' processes say which of the *)
(* fields they have set.                                                   *)
(***************************************************************************)
StepsBacked ==
    /\ source.request # NoRequest => source.at = "PUBLISHING"
    /\ source.at # "IDLE" => source.pending # 0
    /\ destination.at \in {"FETCHED", "APPLYING", "FLUSHED"} => destination.fetched # 0
    /\ destination.at = "ACKNOWLEDGE" => destination.applied # 0

ClientsInv ==
    /\ requests \in [Requests -> RequestStates]
    /\ source \in SourceStates
    /\ destination \in DestinationStates
    /\ StepsBacked

CloudInv ==
    /\ now \in Nat /\ disturbances \in Nat
    /\ active \subseteq Devices
    /\ grant \in GrantRows
    /\ minted \in Seq(Revisions)
    /\ mailbox \in MailboxStates

TypeInv == CloudInv /\ ClientsInv

USE ContinuityAssumption

\* What is known of a request by the await it is at.
LEMMA DeviceRequest ==
    ASSUME ClientsInv, NEW r \in Requests,
           requests[r].at \in {"SENT", "ROUTED", "ADMITTED"}
    PROVE  /\ requests[r].kind \in DeviceKinds
           /\ requests[r].sequence \in Nat /\ requests[r].time \in Nat
           /\ requests[r].named \in Nat
           /\ requests[r].kind # "FETCH" => requests[r].named \in Digests
           /\ \A at \in DeviceCalls : [requests[r] EXCEPT !.at = at] \in RequestStates
<1>1. requests[r] \in RequestStates
  BY DEF ClientsInv
<1>2. requests[r].at \notin OwnerCalls /\ requests[r].at # Idle.at
  BY DEF OwnerCalls, Idle
<1>3. Digests \subseteq Nat
  BY DEF Digests
<1> QED BY <1>1, <1>2, <1>3 DEF RequestStates, DeviceKinds, DeviceCalls, OwnerCalls, Idle

\* A request slot that is free is typed.
LEMMA IdleType == Idle \in RequestStates
BY DEF RequestStates

\* A source whose process ended is typed, and idle.
LEMMA SourceStoppedType ==
    ASSUME ClientsInv
    PROVE  /\ SourceStopped \in SourceStates
           /\ SourceStopped.request = NoRequest /\ SourceStopped.at = "IDLE"
BY DEF ClientsInv, SourceStopped, SourceStates

\* A destination whose process ended is typed, and idle.
LEMMA DestinationStoppedType ==
    ASSUME ClientsInv
    PROVE  /\ DestinationStopped \in DestinationStates
           /\ DestinationStopped.at = "IDLE"
BY DEF ClientsInv, DestinationStopped, DestinationStates

\* While no revision is made the types stay the same sets.
LEMMA SameDigests ==
    ASSUME UNCHANGED minted
    PROVE  /\ SourceStates' = SourceStates /\ DestinationStates' = DestinationStates
           /\ RequestStates' = RequestStates /\ MailboxStates' = MailboxStates
BY DEF SourceStates, DestinationStates, Profiles, RequestStates, MailboxStates, Digests

\* A request that fails leaves the devices typed.
LEMMA FailsKeeps ==
    ASSUME ClientsInv, NEW r \in Requests, Fails(r), UNCHANGED minted
    PROVE  ClientsInv'
<1>1. requests' \in [Requests -> RequestStates']
  BY IdleType, SameDigests DEF Fails, ClientsInv
<1>2. source' \in SourceStates' /\ destination' \in DestinationStates'
  BY SourceStoppedType, DestinationStoppedType, SameDigests DEF Fails, ClientsInv
<1>3. StepsBacked'
  BY SourceStoppedType, DestinationStoppedType DEF Fails, ClientsInv, StepsBacked
<1> QED BY <1>1, <1>2, <1>3 DEF ClientsInv

\* An answer to the source leaves the devices typed.
LEMMA AnswersSourceKeeps ==
    ASSUME ClientsInv, NEW r \in Requests, AnswersSource(r, "STORED"), UNCHANGED minted
    PROVE  ClientsInv'
<1>1. requests' \in [Requests -> RequestStates']
  BY IdleType, SameDigests DEF AnswersSource, ClientsInv
<1>2. source' \in SourceStates' /\ destination' \in DestinationStates'
  BY SameDigests DEF AnswersSource, ClientsInv, SourceStates
<1>3. StepsBacked'
  <2>1. CASE source.request = r
    <3>1. source.request # NoRequest
      BY <2>1
    <3>2. source' = [source EXCEPT !.at = "STORED", !.request = NoRequest]
      BY <2>1 DEF AnswersSource
    <3> QED BY <3>1, <3>2 DEF AnswersSource, ClientsInv, StepsBacked, SourceStates
  <2>2. CASE source.request # r
    BY <2>2 DEF AnswersSource, ClientsInv, StepsBacked
  <2> QED BY <2>1, <2>2
<1> QED BY <1>1, <1>2, <1>3 DEF ClientsInv

\* An answer to the destination leaves the devices typed.
LEMMA AnswersDestinationKeeps ==
    ASSUME ClientsInv, NEW r \in Requests, NEW step \in {"IDLE", "FETCH", "FETCHED"},
           NEW d \in {0} \cup Digests, step = "FETCHED" => d # 0,
           AnswersDestination(r, step, d), UNCHANGED minted
    PROVE  ClientsInv'
<1>1. requests' \in [Requests -> RequestStates']
  BY IdleType, SameDigests DEF AnswersDestination, ClientsInv
<1>2. source' \in SourceStates' /\ destination' \in DestinationStates'
  BY SameDigests DEF AnswersDestination, ClientsInv, DestinationStates
<1>3. StepsBacked'
  BY DEF AnswersDestination, ClientsInv, StepsBacked, DestinationStates
<1> QED BY <1>1, <1>2, <1>3 DEF ClientsInv

\* Only the requests change.
LEMMA RequestsKeep ==
    ASSUME ClientsInv, requests' \in [Requests -> RequestStates], UNCHANGED clients
    PROVE  ClientsInv'
<1>1. UNCHANGED minted
  BY DEF clients
<1>2. RequestStates' = RequestStates /\ source' \in SourceStates'
      /\ destination' \in DestinationStates'
  BY <1>1, SameDigests DEF ClientsInv, clients
<1> QED BY <1>2 DEF ClientsInv, StepsBacked, clients

\* A call of the owner begins.
LEMMA OwnerCallKeeps ==
    ASSUME ClientsInv, NEW r \in Requests, NEW at \in OwnerCalls,
           requests' = [requests EXCEPT ![r] = OwnerCall(at)], UNCHANGED clients
    PROVE  ClientsInv'
<1>1. OwnerCall(at) \in RequestStates
  BY DEF OwnerCall, RequestStates
<1> QED BY <1>1, RequestsKeep DEF ClientsInv

\* A request ends of which no device waits for the answer.
LEMMA EndsKeeps ==
    ASSUME ClientsInv, NEW r \in Requests, Ends(r), UNCHANGED clients
    PROVE  ClientsInv'
BY IdleType, RequestsKeep DEF ClientsInv, Ends

\* A call of the owner, or a fencing, goes on.
LEMMA OwnerGoes ==
    ASSUME ClientsInv, NEW r \in Requests, NEW step \in OwnerCalls,
           \/ requests[r].at \in
                {"INITIALIZE", "ACTIVATE", "MARK_DELETING", "DESTROY", "MARK_DELETED"}
           \/ requests[r].at = "REVOKE" /\ step = "MARK_REVOKED",
           Goes(r, step), UNCHANGED clients
    PROVE  ClientsInv'
<1>1. requests[r] \in RequestStates
  BY DEF ClientsInv
<1>2. [requests[r] EXCEPT !.at = step] \in RequestStates
  BY <1>1 DEF RequestStates, Idle, OwnerCalls, DeviceCalls
<1>3. requests' \in [Requests -> RequestStates]
  BY <1>2 DEF Goes, ClientsInv
<1> QED BY <1>3, RequestsKeep

\* The owner's requests.
LEMMA OwnerStepsType ==
    ASSUME TypeInv, NEW r \in Requests,
           \/ CreateGrant(r) \/ Initialize(r) \/ Activate(r)
           \/ RevokeGrant(r) \/ RevokeMailbox(r) \/ MarkRevoked(r)
           \/ DeleteGrant(r) \/ MarkDeleting(r) \/ Destroy(r) \/ MarkDeleted(r)
    PROVE  TypeInv'
<1> USE DEF TypeInv
<1>1. CASE CreateGrant(r)
  <2>1. CloudInv'
    <3>1. UNCHANGED minted
      BY <1>1 DEF CreateGrant, clients
    <3>2. mailbox' \in MailboxStates'
      BY <1>1, <3>1, SameDigests DEF CloudInv, CreateGrant
    <3>3. grant' \in GrantRows
      BY <1>1 DEF CloudInv, CreateGrant, GrantRows
    <3> QED BY <1>1, <3>1, <3>2, <3>3 DEF CloudInv, CreateGrant
  <2>2. ClientsInv'
    BY <1>1, OwnerCallKeeps DEF CreateGrant, OwnerCalls
  <2> QED BY <2>1, <2>2
<1>2. CASE Initialize(r)
  <2>1. UNCHANGED minted
    BY <1>2 DEF Initialize, clients
  <2>2. mailbox' \in MailboxStates'
    <3>1. [mailbox EXCEPT !.status = "ACTIVE", !.expires = grant.expires] \in MailboxStates
      BY DEF CloudInv, MailboxStates, GrantRows
    <3>2. mailbox' \in MailboxStates
      BY <1>2, <3>1, ScheduledType DEF Initialize, CloudInv
    <3> QED BY <2>1, <3>2, SameDigests
  <2>3. CloudInv'
    BY <1>2, <2>1, <2>2 DEF CloudInv, Initialize
  <2>4. ClientsInv'
    BY <1>2, EndsKeeps, OwnerGoes DEF Initialize, At, OwnerCalls
  <2> QED BY <2>3, <2>4
<1>3. CASE Activate(r)
  <2>1. UNCHANGED minted
    BY <1>3 DEF Activate, clients
  <2>2. CloudInv'
    <3>1. mailbox' \in MailboxStates'
      BY <1>3, <2>1, SameDigests DEF CloudInv, Activate
    <3>2. grant' \in GrantRows
      BY <1>3 DEF CloudInv, Activate, GrantRows
    <3> QED BY <1>3, <2>1, <3>1, <3>2 DEF CloudInv, Activate
  <2>3. ClientsInv'
    BY <1>3, EndsKeeps DEF Activate
  <2> QED BY <2>2, <2>3
<1>4. CASE RevokeGrant(r) \/ DeleteGrant(r)
  <2>1. UNCHANGED <<now, disturbances, cloud, clients>>
    BY <1>4 DEF RevokeGrant, DeleteGrant
  <2>2. CloudInv'
    BY <2>1, SameDigests DEF CloudInv, cloud, clients
  <2>3. ClientsInv'
    BY <1>4, OwnerCallKeeps DEF RevokeGrant, DeleteGrant, OwnerCalls
  <2> QED BY <2>2, <2>3
<1>5. CASE RevokeMailbox(r)
  <2>1. UNCHANGED minted
    BY <1>5 DEF RevokeMailbox, clients
  <2>2. mailbox' \in MailboxStates'
    <3>1. mailbox' \in MailboxStates
      BY <1>5 DEF RevokeMailbox, CloudInv, MailboxStates
    <3> QED BY <2>1, <3>1, SameDigests
  <2>3. CloudInv'
    BY <1>5, <2>1, <2>2 DEF CloudInv, RevokeMailbox
  <2>4. ClientsInv'
    BY <1>5, EndsKeeps, OwnerGoes DEF RevokeMailbox, At, OwnerCalls
  <2> QED BY <2>3, <2>4
<1>6. CASE MarkRevoked(r)
  <2>1. UNCHANGED minted
    BY <1>6 DEF MarkRevoked
  <2>2. CloudInv'
    <3>1. mailbox' \in MailboxStates'
      BY <1>6, <2>1, SameDigests DEF CloudInv, MarkRevoked
    <3>2. grant' \in GrantRows
      BY <1>6 DEF CloudInv, MarkRevoked, GrantRows
    <3> QED BY <1>6, <2>1, <3>1, <3>2 DEF CloudInv, MarkRevoked
  <2>3. ClientsInv'
    BY <1>6, FailsKeeps DEF MarkRevoked
  <2> QED BY <2>2, <2>3
<1>7. CASE MarkDeleting(r) \/ MarkDeleted(r)
  <2>1. UNCHANGED minted
    BY <1>7 DEF MarkDeleting, MarkDeleted, clients
  <2>2. CloudInv'
    <3>1. mailbox' \in MailboxStates'
      BY <1>7, <2>1, SameDigests DEF CloudInv, MarkDeleting, MarkDeleted
    <3>2. grant' \in GrantRows
      BY <1>7 DEF CloudInv, MarkDeleting, MarkDeleted, GrantRows
    <3> QED BY <1>7, <2>1, <3>1, <3>2 DEF CloudInv, MarkDeleting, MarkDeleted
  <2>3. ClientsInv'
    BY <1>7, EndsKeeps, OwnerGoes DEF MarkDeleting, MarkDeleted, At, OwnerCalls
  <2> QED BY <2>2, <2>3
<1>8. CASE Destroy(r)
  <2>1. UNCHANGED minted
    BY <1>8 DEF Destroy, clients
  <2>2. mailbox' \in MailboxStates'
    <3>1. NoMailbox(TRUE) \in MailboxStates
      BY DEF NoMailbox, MailboxStates
    <3>2. mailbox' \in MailboxStates
      BY <1>8, <3>1 DEF Destroy, CloudInv
    <3> QED BY <2>1, <3>2, SameDigests
  <2>3. CloudInv'
    BY <1>8, <2>1, <2>2 DEF CloudInv, Destroy
  <2>4. ClientsInv'
    BY <1>8, OwnerGoes DEF Destroy, At, OwnerCalls
  <2> QED BY <2>3, <2>4
<1> QED BY <1>1, <1>2, <1>3, <1>4, <1>5, <1>6, <1>7, <1>8

\* What a request of a device was accepted as, and what the mailbox is then.
LEMMA AcceptingType ==
    ASSUME TypeInv, NEW r \in Requests, At(r, "ADMITTED")
    PROVE  Accepting(requests[r]) \in MailboxStates
<1>1. /\ requests[r].kind \in DeviceKinds
      /\ requests[r].named \in Nat /\ requests[r].sequence \in Nat
  BY DeviceRequest DEF TypeInv, At
<1> QED BY <1>1 DEF TypeInv, CloudInv, MailboxStates, Accepting, Envelope

\* The first of some revisions is one of them.
LEMMA FirstIsIn ==
    ASSUME minted \in Seq(Revisions), NEW S \in SUBSET Digests, S # {}
    PROVE  First(S) \in S
<1> DEFINE numbers == {RevisionOf(d) : d \in S}
<1>1. numbers \in SUBSET Nat /\ numbers # {}
  BY MintedTypes
<1>2. PICK n \in numbers : \A m \in numbers : n <= m
  <2> HIDE DEF numbers
  <2> QED BY <1>1, EarliestExists
<1>3. PICK d \in S : RevisionOf(d) = n
  OBVIOUS
<1>4. \A e \in S : RevisionOf(d) <= RevisionOf(e)
  BY <1>2, <1>3
<1> QED BY <1>4 DEF First

\* The devices' requests.
LEMMA DeviceStepsType ==
    ASSUME TypeInv, NEW r \in Requests,
           \/ Route(r) \/ Admit(r) \/ Store(r) \/ Serve(r) \/ Acknowledge(r)
           \/ RequestLost(r)
    PROVE  TypeInv'
<1> USE DEF TypeInv
<1>1. CASE Route(r)
  <2>1. UNCHANGED minted
    BY <1>1 DEF Route
  <2>2. CloudInv'
    BY <1>1, <2>1, SameDigests DEF Route, CloudInv, cloud
  <2>3. ClientsInv'
    <3>1. CASE Fails(r)
      BY <2>1, <3>1, FailsKeeps
    <3>2. CASE ~Fails(r)
      <4>1. PICK at \in {"ROUTED", "REVOKE"} :
               requests' = [requests EXCEPT ![r].at = at, ![r].time = now]
        BY <1>1, <3>2 DEF Route
      <4>2. [requests[r] EXCEPT !.at = at, !.time = now] \in RequestStates
        <5>1. [requests[r] EXCEPT !.at = at] \in RequestStates
          BY <1>1, DeviceRequest DEF Route, At, DeviceCalls
        <5>2. now \in Nat
          BY DEF CloudInv
        <5>3. requests[r].kind \in DeviceKinds
          BY <1>1, DeviceRequest DEF Route, At
        <5>4. requests[r] \in RequestStates /\ requests[r].at = "SENT"
          BY <1>1 DEF ClientsInv, Route, At
        <5> QED BY <5>1, <5>2, <5>3, <5>4
              DEF RequestStates, DeviceKinds, DeviceCalls, OwnerCalls, Idle
      <4>3. requests' = [requests EXCEPT ![r] = [requests[r] EXCEPT !.at = at, !.time = now]]
        BY <4>1 DEF ClientsInv
      <4>4. requests' \in [Requests -> RequestStates]
        BY <4>2, <4>3 DEF ClientsInv
      <4>5. UNCHANGED clients
        BY <1>1, <3>2 DEF Route, clients
      <4> QED BY <4>4, <4>5, RequestsKeep
    <3> QED BY <3>1, <3>2
  <2> QED BY <2>2, <2>3
<1>2. CASE Admit(r)
  <2>1. UNCHANGED minted
    BY <1>2 DEF Admit
  <2>2. CloudInv'
    BY <1>2, <2>1, SameDigests DEF Admit, CloudInv, cloud
  <2>3. ClientsInv'
    <3>1. CASE Fails(r)
      BY <2>1, <3>1, FailsKeeps
    <3>2. CASE ~Fails(r)
      <4>1. Goes(r, "ADMITTED") /\ UNCHANGED clients
        BY <1>2, <3>2 DEF Admit, clients
      <4>2. [requests[r] EXCEPT !.at = "ADMITTED"] \in RequestStates
        BY <1>2, DeviceRequest DEF Admit, At, DeviceCalls
      <4>3. requests' \in [Requests -> RequestStates]
        BY <4>1, <4>2 DEF Goes, ClientsInv
      <4> QED BY <4>1, <4>3, RequestsKeep
    <3> QED BY <3>1, <3>2
  <2> QED BY <2>2, <2>3
<1>3. CASE Store(r)
  <2> DEFINE d == requests[r].named
             stored == [mailbox EXCEPT !.kept = @ \cup {d}, !.current = d]
  <2>1. UNCHANGED minted /\ d \in Digests
    BY <1>3, DeviceRequest DEF Store, At, DeviceKinds
  <2>2. stored \in MailboxStates /\ mailbox \in MailboxStates
    BY <2>1 DEF CloudInv, MailboxStates
  <2>3. mailbox' \in MailboxStates
    <3>1. Scheduled(stored) \in MailboxStates /\ Scheduled(mailbox) \in MailboxStates
      <4> HIDE DEF stored
      <4> QED BY <2>2, ScheduledType DEF CloudInv
    <3>2. mailbox' \in {mailbox, Scheduled(mailbox), Scheduled(stored)}
      BY <1>3 DEF Store
    <3> QED BY <2>2, <3>1, <3>2
  <2>4. CloudInv'
    BY <1>3, <2>1, <2>3, SameDigests DEF Store, CloudInv
  <2>5. ClientsInv'
    BY <1>3, <2>1, FailsKeeps, AnswersSourceKeeps DEF Store
  <2> QED BY <2>4, <2>5
<1>4. CASE Serve(r)
  <2> DEFINE q == requests[r]
  <2>1. UNCHANGED minted
    BY <1>4 DEF Serve
  <2>2. mailbox' \in MailboxStates
    BY <1>4, AcceptingType DEF Serve, CloudInv
  <2>3. CloudInv'
    BY <1>4, <2>1, <2>2, SameDigests DEF Serve, CloudInv
  <2>4. ClientsInv'
    <3>1. CASE Fails(r)
      BY <2>1, <3>1, FailsKeeps
    <3>2. CASE AnswersDestination(r, "IDLE", 0)
      BY <2>1, <3>2, AnswersDestinationKeeps
    <3>3. CASE /\ Later(q.named, q.time) # {}
               /\ AnswersDestination(r, "FETCHED", First(Later(q.named, q.time)))
      <4>1. Later(q.named, q.time) \in SUBSET Digests
        BY DEF CloudInv, MailboxStates, Later
      <4>2. First(Later(q.named, q.time)) \in Digests
        BY <3>3, <4>1, FirstIsIn DEF CloudInv
      <4>3. First(Later(q.named, q.time)) # 0
        BY <4>2 DEF Digests
      <4> QED BY <2>1, <3>3, <4>2, <4>3, AnswersDestinationKeeps
    <3> QED BY <1>4, <3>1, <3>2, <3>3 DEF Serve
  <2> QED BY <2>3, <2>4
<1>5. CASE Acknowledge(r)
  <2> DEFINE q == requests[r]
  <2>1. UNCHANGED minted
    BY <1>5 DEF Acknowledge
  <2>2. q.named \in Digests /\ RevisionOf(q.named) \in Nat
    BY <1>5, DeviceRequest, MintedTypes DEF Acknowledge, At, DeviceKinds, CloudInv
  <2>3. Accepting(q) \in MailboxStates
    BY <1>5, AcceptingType DEF Acknowledge
  <2>4. WithAcknowledged(Accepting(q), q.named) \in MailboxStates
    BY <2>2, <2>3 DEF WithAcknowledged, MailboxStates
  <2>5. mailbox' \in MailboxStates
    <3>1. /\ Scheduled(Accepting(q)) \in MailboxStates
          /\ Scheduled(WithAcknowledged(Accepting(q), q.named)) \in MailboxStates
      BY <2>3, <2>4, ScheduledType DEF CloudInv
    <3> QED BY <1>5, <2>3, <3>1 DEF Acknowledge, CloudInv
  <2>6. CloudInv'
    BY <1>5, <2>1, <2>5, SameDigests DEF Acknowledge, CloudInv
  <2>7. ClientsInv'
    BY <1>5, <2>1, FailsKeeps, AnswersDestinationKeeps DEF Acknowledge
  <2> QED BY <2>6, <2>7
<1>6. CASE RequestLost(r)
  <2>1. UNCHANGED minted
    BY <1>6 DEF RequestLost
  <2>2. CloudInv'
    BY <1>6, <2>1, SameDigests DEF RequestLost, Disturbed, CloudInv, cloud
  <2>3. ClientsInv'
    BY <1>6, <2>1, FailsKeeps DEF RequestLost
  <2> QED BY <2>2, <2>3
<1> QED BY <1>1, <1>2, <1>3, <1>4, <1>5, <1>6

\* A revision more: what is typed stays so.
LEMMA MoreDigests ==
    ASSUME minted \in Seq(Revisions), NEW v \in Revisions, minted' = Append(minted, v)
    PROVE  /\ minted' \in Seq(Revisions)
           /\ Digests \subseteq Digests' /\ Len(minted') \in Digests'
           /\ MailboxStates \subseteq MailboxStates'
           /\ SourceStates \subseteq SourceStates'
           /\ DestinationStates \subseteq DestinationStates'
           /\ RequestStates \subseteq RequestStates'
<1>1. minted' \in Seq(Revisions) /\ Len(minted') = Len(minted) + 1 /\ Len(minted) \in Nat
  OBVIOUS
<1>2. Digests \subseteq Digests' /\ Len(minted') \in Digests'
  BY <1>1 DEF Digests
<1>3. MailboxStates \subseteq MailboxStates'
  BY <1>2 DEF MailboxStates
<1>4. SourceStates \subseteq SourceStates'
  BY <1>2 DEF SourceStates
<1>5. DestinationStates \subseteq DestinationStates'
  BY <1>2 DEF DestinationStates, Profiles
<1>6. RequestStates \subseteq RequestStates'
  BY <1>2 DEF RequestStates
<1> QED BY <1>1, <1>2, <1>3, <1>4, <1>5, <1>6

\* The source.
LEMMA SourceStepsType ==
    ASSUME TypeInv,
           (\E r \in Requests : Publish(r)) \/ RecordPublished \/ SourceStops
    PROVE  TypeInv'
<1> USE DEF TypeInv
<1>1. ASSUME NEW r \in Requests, Publish(r) PROVE TypeInv'
  <2>1. /\ minted' \in Seq(Revisions)
        /\ MailboxStates \subseteq MailboxStates'
        /\ SourceStates \subseteq SourceStates'
        /\ DestinationStates \subseteq DestinationStates'
        /\ RequestStates \subseteq RequestStates'
        /\ Digests \subseteq Digests'
        /\ source.pending = 0 => Len(minted') \in Digests'
    <3>1. CASE source.pending # 0
      <4>1. UNCHANGED minted
        BY <1>1, <3>1 DEF Publish
      <4>2. Digests' = Digests
        BY <4>1 DEF Digests
      <4> QED BY <3>1, <4>1, <4>2, SameDigests DEF CloudInv
    <3>2. CASE source.pending = 0
      <4>1. RevisionOf(source.published) \in Nat
        BY MintedTypes DEF CloudInv, ClientsInv, SourceStates
      <4>2. NewRevision \in Revisions
        <5>1. source.published \in Nat /\ now + RevisionLife \in Nat
          BY DEF CloudInv, ClientsInv, SourceStates, Digests
        <5> QED BY <4>1, <5>1 DEF NewRevision, Revisions
      <4>3. minted' = Append(minted, NewRevision)
        BY <1>1, <3>2 DEF Publish
      <4> QED BY <4>2, <4>3, MoreDigests DEF CloudInv
    <3> QED BY <3>1, <3>2
  <2>2. CloudInv'
    BY <1>1, <2>1 DEF Publish, CloudInv, cloud
  <2> DEFINE sent == IF source.pending # 0 THEN source.pending ELSE Len(minted')
  <2>3. sent \in Digests'
    BY <2>1 DEF ClientsInv, SourceStates
  <2>4. sent # 0
    BY <2>3 DEF Digests
  <2>5. source' = [source EXCEPT !.at = "PUBLISHING", !.request = r, !.pending = sent]
    BY <1>1 DEF Publish, ClientsInv, SourceStates
  <2>6. source' \in SourceStates' /\ source'.at = "PUBLISHING" /\ source'.pending = sent
    <3> HIDE DEF sent
    <3> QED BY <2>1, <2>3, <2>5 DEF ClientsInv, SourceStates
  <2>7. requests' \in [Requests -> RequestStates']
    <3>1. Sent("PUBLISH", sent, 0) \in RequestStates'
      <4> HIDE DEF sent
      <4> QED BY <2>3 DEF Sent, RequestStates, DeviceCalls
    <3>2. requests' = [requests EXCEPT ![r] = Sent("PUBLISH", sent, 0)]
      BY <1>1, <2>6 DEF Publish
    <3> HIDE DEF sent
    <3> QED BY <2>1, <3>1, <3>2 DEF ClientsInv
  <2>8. destination' \in DestinationStates'
    BY <1>1, <2>1 DEF Publish, ClientsInv
  <2>9. StepsBacked'
    <3> HIDE DEF sent
    <3> QED BY <1>1, <2>4, <2>6 DEF Publish, ClientsInv, StepsBacked
  <2> QED BY <2>2, <2>6, <2>7, <2>8, <2>9 DEF ClientsInv
<1>2. CASE RecordPublished
  <2>1. UNCHANGED minted
    BY <1>2 DEF RecordPublished
  <2>2. CloudInv'
    BY <1>2, <2>1, SameDigests DEF RecordPublished, CloudInv, cloud
  <2>3. source' \in SourceStates
    BY <1>2, SourceStoppedType DEF RecordPublished, SourceStopped, ClientsInv, SourceStates
  <2>4. StepsBacked'
    BY <1>2 DEF RecordPublished, SourceStopped, ClientsInv, SourceStates, StepsBacked
  <2> QED BY <1>2, <2>1, <2>2, <2>3, <2>4, SameDigests DEF RecordPublished, ClientsInv
<1>3. CASE SourceStops
  <2>1. UNCHANGED minted
    BY <1>3 DEF SourceStops
  <2>2. CloudInv'
    BY <1>3, <2>1, SameDigests DEF SourceStops, Disturbed, CloudInv, cloud
  <2>3. StepsBacked'
    BY <1>3, SourceStoppedType DEF SourceStops, ClientsInv, StepsBacked
  <2> QED BY <1>3, <2>1, <2>2, <2>3, SameDigests, SourceStoppedType DEF SourceStops, ClientsInv
<1> QED BY <1>1, <1>2, <1>3

\* A request of the destination.
LEMMA AskKeeps ==
    ASSUME TypeInv, NEW r \in Requests, NEW kind \in {"FETCH", "ACKNOWLEDGE"},
           NEW named \in Nat, kind = "ACKNOWLEDGE" => named \in Digests,
           Ask(r, kind, named)
    PROVE  TypeInv'
<1> USE DEF TypeInv
<1>1. UNCHANGED minted
  BY DEF Ask
<1>2. CloudInv'
  BY <1>1, SameDigests DEF Ask, CloudInv, cloud
<1>3. destination' \in DestinationStates
  <2>1. destination \in DestinationStates /\ destination.reserved + 1 \in Nat
    BY DEF ClientsInv, DestinationStates
  <2> DEFINE n == destination.reserved + 1
  <2>2. destination' = [destination EXCEPT !.at = "ASKING", !.request = r, !.reserved = n]
    BY DEF Ask
  <2> HIDE DEF n
  <2>3. n \in Nat
    BY <2>1 DEF n
  <2> QED BY <2>1, <2>2, <2>3 DEF DestinationStates
<1>4. Sent(kind, named, destination.reserved + 1) \in RequestStates
  <2>1. destination.reserved + 1 \in Nat
    BY DEF ClientsInv, DestinationStates
  <2>2. CASE kind = "FETCH"
    BY <2>1, <2>2 DEF Sent, RequestStates, DeviceCalls
  <2>3. CASE kind = "ACKNOWLEDGE"
    BY <2>1, <2>3 DEF Sent, RequestStates, DeviceCalls
  <2> QED BY <2>2, <2>3
<1>5. requests' \in [Requests -> RequestStates]
  BY <1>4 DEF Ask, ClientsInv
<1>6. StepsBacked'
  BY DEF Ask, ClientsInv, DestinationStates, StepsBacked
<1> QED BY <1>1, <1>2, <1>3, <1>5, <1>6, SameDigests DEF Ask, ClientsInv

\* The destination.
LEMMA DestinationStepsType ==
    ASSUME TypeInv,
           \/ \E r \in Requests : Fetch(r) \/ SendAcknowledgement(r)
           \/ BeginApply \/ Flush \/ RecordApplied \/ DestinationStops
    PROVE  TypeInv'
<1> USE DEF TypeInv
<1>1. ASSUME NEW r \in Requests, Fetch(r) PROVE TypeInv'
  <2>1. RevisionOf(destination.applied) \in Nat
    BY MintedTypes DEF CloudInv, ClientsInv, DestinationStates
  <2> QED BY <1>1, <2>1, AskKeeps DEF Fetch
<1>2. ASSUME NEW r \in Requests, SendAcknowledgement(r) PROVE TypeInv'
  <2>1. destination.applied \in Digests
    BY <1>2 DEF SendAcknowledgement, ClientsInv, StepsBacked, DestinationStates, Starts
  <2>2. destination.applied \in Nat
    BY <2>1 DEF Digests
  <2> QED BY <1>2, <2>1, <2>2, AskKeeps DEF SendAcknowledgement
<1>3. ASSUME UNCHANGED <<now, cloud, minted, source, requests>>,
             disturbances' \in Nat,
             destination' \in DestinationStates, StepsBacked'
      PROVE  TypeInv'
  <2>1. UNCHANGED minted
    BY <1>3
  <2>2. CloudInv'
    BY <1>3, <2>1, SameDigests DEF CloudInv, cloud
  <2> QED BY <1>3, <2>1, <2>2, SameDigests DEF ClientsInv
<1>4. CASE BeginApply
  <2>1. destination.fetched \in Digests
    BY <1>4 DEF BeginApply, ClientsInv, StepsBacked, DestinationStates
  <2> DEFINE known == [destination EXCEPT !.at = "ACKNOWLEDGE", !.fetched = 0]
             begun == [destination EXCEPT !.at = "APPLYING",
                         !.profile = [digest |-> destination.fetched, whole |-> FALSE]]
  <2>2. \/ destination' = DestinationStopped
        \/ destination' = known /\ destination.applied = destination.fetched
        \/ destination' = begun
    BY <1>4 DEF BeginApply
  <2>3. /\ known \in DestinationStates /\ known.at = "ACKNOWLEDGE"
        /\ known.applied = destination.applied
        /\ begun \in DestinationStates /\ begun.at = "APPLYING"
        /\ begun.fetched = destination.fetched
    BY <2>1 DEF ClientsInv, DestinationStates, Profiles
  <2>4. destination' \in DestinationStates
    BY <2>2, <2>3, DestinationStoppedType
  <2>5. destination.fetched # 0
    BY <2>1 DEF Digests
  <2>6. StepsBacked'
    <3> HIDE DEF known, begun
    <3> QED BY <1>4, <2>2, <2>3, <2>5, DestinationStoppedType
          DEF BeginApply, ClientsInv, StepsBacked
  <2> QED BY <1>3, <1>4, <2>4, <2>6 DEF BeginApply, CloudInv
<1>5. CASE Flush
  <2>1. destination' \in DestinationStates
    BY <1>5 DEF Flush, ClientsInv, DestinationStates, Profiles
  <2>2. StepsBacked'
    BY <1>5 DEF Flush, ClientsInv, DestinationStates, StepsBacked
  <2> QED BY <1>3, <1>5, <2>1, <2>2 DEF Flush, CloudInv
<1>6. CASE RecordApplied
  <2>1. destination' \in DestinationStates
    BY <1>6 DEF RecordApplied, ClientsInv, DestinationStates
  <2>2. StepsBacked'
    BY <1>6 DEF RecordApplied, ClientsInv, DestinationStates, StepsBacked
  <2> QED BY <1>3, <1>6, <2>1, <2>2 DEF RecordApplied, CloudInv
<1>7. CASE DestinationStops
  <2>1. StepsBacked'
    BY <1>7, DestinationStoppedType DEF DestinationStops, ClientsInv, StepsBacked
  <2> QED BY <1>3, <1>7, <2>1, DestinationStoppedType
        DEF DestinationStops, Disturbed, CloudInv
<1> QED BY <1>1, <1>2, <1>4, <1>5, <1>6, <1>7

\* What happens to the object, to a device and on the way of a request.
LEMMA DisturbancesType ==
    ASSUME TypeInv,
           \/ \E r, s \in Requests : Duplicate(r, s)
           \/ \E v \in Devices : RevokeDevice(v)
           \/ AlarmFires \/ Evict \/ Tick \/ UNCHANGED vars
    PROVE  TypeInv'
<1> USE DEF TypeInv
<1>1. ASSUME UNCHANGED clients, now' \in Nat, disturbances' \in Nat,
             active' \subseteq Devices, UNCHANGED grant,
             mailbox' \in MailboxStates, requests' \in [Requests -> RequestStates]
      PROVE  TypeInv'
  <2>1. UNCHANGED minted
    BY <1>1 DEF clients
  <2> QED BY <1>1, <2>1, RequestsKeep, SameDigests DEF CloudInv
<1>2. ASSUME NEW r \in Requests, NEW s \in Requests, Duplicate(r, s) PROVE TypeInv'
  <2>1. requests' \in [Requests -> RequestStates]
    BY <1>2 DEF Duplicate, ClientsInv
  <2> QED BY <1>1, <1>2, <2>1 DEF Duplicate, Disturbed, CloudInv, cloud
<1>3. CASE \E v \in Devices : RevokeDevice(v)
  BY <1>1, <1>3 DEF RevokeDevice, Disturbed, CloudInv, ClientsInv
<1>4. CASE AlarmFires
  <2> DEFINE over == [mailbox EXCEPT !.status = "EXPIRED", !.kept = {}]
             fewer == [mailbox EXCEPT !.kept = {d \in @ : minted[d].expires > now}]
  <2>1. over \in MailboxStates /\ fewer \in MailboxStates
    BY DEF CloudInv, MailboxStates
  <2>2. mailbox' \in {Scheduled(over), Scheduled(fewer)}
    BY <1>4 DEF AlarmFires
  <2>3. mailbox' \in MailboxStates
    <3> HIDE DEF over, fewer
    <3> QED BY <2>1, <2>2, ScheduledType DEF CloudInv
  <2> QED BY <1>1, <1>4, <2>3 DEF AlarmFires, CloudInv, ClientsInv
<1>5. CASE Evict
  <2>1. UNCHANGED minted
    BY <1>5 DEF Evict
  <2>2. mailbox' \in MailboxStates
    BY <1>5 DEF Evict, CloudInv, MailboxStates
  <2>3. disturbances' \in Nat
    BY <1>5 DEF Evict, Disturbed, CloudInv
  <2>4. CloudInv'
    BY <1>5, <2>1, <2>2, <2>3, SameDigests DEF Evict, CloudInv
  <2>5. requests' \in [Requests -> RequestStates']
    BY <1>5, <2>1, IdleType, SameDigests DEF Evict, ClientsInv
  <2>6. source' \in {source, SourceStopped}
        /\ destination' \in {destination, DestinationStopped}
    BY <1>5 DEF Evict
  <2>7. source' \in SourceStates' /\ destination' \in DestinationStates'
    BY <2>1, <2>6, SourceStoppedType, DestinationStoppedType, SameDigests DEF ClientsInv
  <2>8. StepsBacked'
    BY <2>6, SourceStoppedType, DestinationStoppedType DEF ClientsInv, StepsBacked
  <2> QED BY <2>4, <2>5, <2>7, <2>8 DEF ClientsInv
<1>6. CASE Tick
  BY <1>1, <1>6 DEF Tick, CloudInv, ClientsInv, cloud
<1>7. CASE UNCHANGED vars
  BY <1>1, <1>7 DEF vars, clients, CloudInv, ClientsInv
<1> QED BY <1>2, <1>3, <1>4, <1>5, <1>6, <1>7

\* The types hold at first.
LEMMA InitType == Init => TypeInv
<1> SUFFICES ASSUME Init PROVE TypeInv
  OBVIOUS
<1>1. minted \in Seq(Revisions) /\ Len(minted) = 0
  BY DEF Init
<1>2. CloudInv
  BY <1>1 DEF Init, CloudInv, GrantRows, MailboxStates, NoMailbox, Devices
<1>3. ClientsInv
  BY IdleType
  DEF Init, ClientsInv, SourceStates, DestinationStates, Profiles, StepsBacked
<1> QED BY <1>2, <1>3 DEF TypeInv

\* Every step keeps the types.
LEMMA NextType == TypeInv /\ [Next]_vars => TypeInv'
<1> SUFFICES ASSUME TypeInv, [Next]_vars PROVE TypeInv'
  OBVIOUS
<1>1. ASSUME NEW r \in Requests, RequestStep(r) PROVE TypeInv'
  BY <1>1, OwnerStepsType, DeviceStepsType, SourceStepsType, DestinationStepsType
  DEF RequestStep
<1>2. CASE RecordPublished \/ SourceStops
  BY <1>2, SourceStepsType
<1>3. CASE BeginApply \/ Flush \/ RecordApplied \/ DestinationStops
  BY <1>3, DestinationStepsType
<1>4. ASSUME NEW r \in Requests, NEW s \in Requests, Duplicate(r, s) PROVE TypeInv'
  BY <1>4, DisturbancesType
<1>5. ASSUME NEW v \in Devices, RevokeDevice(v) PROVE TypeInv'
  BY <1>5, DisturbancesType
<1>6. CASE AlarmFires \/ Evict \/ Tick
  BY <1>6, DisturbancesType
<1>7. CASE UNCHANGED vars
  BY <1>7, DisturbancesType
<1> QED BY <1>1, <1>2, <1>3, <1>4, <1>5, <1>6, <1>7 DEF Next

\* Grant, mailbox, journals and requests have their types throughout: in
\* particular the devices' processes never publish, apply or acknowledge a
\* revision that was not made, and an alarm is an instant.
THEOREM TypeCorrect == Spec => []TypeOK
<1>1. TypeInv => TypeOK
  BY DEF TypeInv, CloudInv, ClientsInv, TypeOK
<1> QED BY <1>1, InitType, NextType, PTL DEF Spec

\* The types and what the steps of the processes say hold throughout.
LEMMA TypedThroughout == Spec => []TypeInv
BY InitType, NextType, PTL DEF Spec

-------------------------------------------------------------------------------
(***************************************************************************)
(* The row of the grant and its mailbox.  A call of the owner is many      *)
(* steps, and others pass between them: what makes the last step right is  *)
(* what the row and the mailbox can no longer become.                      *)
(***************************************************************************)
Fenced == mailbox.status \in {"REVOKED", "EXPIRED"}
Gone == grant.state \in {"DELETING", "DELETED"}

CallsBacked ==
    \A r \in Requests :
        /\ At(r, "DESTROY") => Gone
        /\ At(r, "ACTIVATE") \/ At(r, "REVOKE") => Gone \/ mailbox.status # "NONE"
        /\ At(r, "MARK_REVOKED") => Gone \/ Fenced

FollowsInv == GrantFollowsMailbox /\ CallsBacked

DelicateCalls == {"DESTROY", "ACTIVATE", "REVOKE", "MARK_REVOKED"}

\* A step that leaves the row and the mailbox's status alone, and brings no
\* request to a delicate call.
LEMMA CalmStep ==
    ASSUME FollowsInv, UNCHANGED grant, mailbox'.status = mailbox.status,
           \A r \in Requests : requests'[r].at \in DelicateCalls =>
              requests'[r].at = requests[r].at
    PROVE  FollowsInv'
<1>1. GrantFollowsMailbox'
  BY DEF FollowsInv, GrantFollowsMailbox
<1>2. CallsBacked'
  <2>1. Gone' = Gone /\ Fenced' = Fenced
    BY DEF Gone, Fenced
  <2> QED BY <2>1 DEF FollowsInv, CallsBacked, At, DelicateCalls
<1> QED BY <1>1, <1>2 DEF FollowsInv

\* A step that ends a request brings none to a delicate call.
LEMMA EndedCalm ==
    ASSUME ClientsInv, NEW r \in Requests, requests' = [requests EXCEPT ![r] = Idle]
    PROVE  \A s \in Requests : requests'[s].at \in DelicateCalls =>
              requests'[s].at = requests[s].at
BY DEF ClientsInv, Idle, DelicateCalls

\* A request that is sent brings none to a delicate call.
LEMMA SentCalm ==
    ASSUME ClientsInv, NEW r \in Requests, NEW k, NEW n, NEW q,
           requests' = [requests EXCEPT ![r] = Sent(k, n, q)]
    PROVE  \A s \in Requests : requests'[s].at \in DelicateCalls =>
              requests'[s].at = requests[s].at
BY DEF ClientsInv, Sent, DelicateCalls

\* The calls of the owner keep row and mailbox together.
LEMMA OwnerCallsFollow ==
    ASSUME TypeInv, FollowsInv, NEW r \in Requests,
           \/ CreateGrant(r) \/ Initialize(r) \/ Activate(r)
           \/ RevokeGrant(r) \/ RevokeMailbox(r) \/ MarkRevoked(r)
           \/ DeleteGrant(r) \/ MarkDeleting(r) \/ Destroy(r) \/ MarkDeleted(r)
    PROVE  FollowsInv'
<1> USE DEF TypeInv
<1>0. /\ requests \in [Requests -> RequestStates]
      /\ grant \in GrantRows /\ mailbox \in MailboxStates
      /\ \A s \in Requests : \A at \in {"INITIALIZE", "ACTIVATE", "REVOKE", "MARK_REVOKED",
             "MARK_DELETING", "DESTROY", "MARK_DELETED"} :
           /\ OwnerCall(at).at = at
           /\ At(s, at) => \A step \in STRING : [requests[s] EXCEPT !.at = step].at = step
  BY DEF ClientsInv, CloudInv, OwnerCall, RequestStates, At, Idle
<1>1. CASE CreateGrant(r)
  <2>1. GrantFollowsMailbox'
    BY <1>0, <1>1 DEF CreateGrant, FollowsInv, GrantFollowsMailbox, GrantRows
  <2>2. Gone' = Gone /\ Fenced' = Fenced /\ UNCHANGED mailbox
    BY <1>0, <1>1 DEF CreateGrant, Gone, Fenced, GrantRows
  <2>3. CallsBacked'
    BY <1>0, <1>1, <2>2 DEF CreateGrant, FollowsInv, CallsBacked, At
  <2> QED BY <2>1, <2>3 DEF FollowsInv
<1>2. CASE Initialize(r)
  <2>1. UNCHANGED grant /\ (mailbox.status # "NONE" => mailbox'.status = mailbox.status)
    BY <1>0, <1>2 DEF Initialize, Scheduled, MailboxStates
  <2>2. GrantFollowsMailbox'
    BY <2>1 DEF FollowsInv, GrantFollowsMailbox
  <2>3. Gone' = Gone /\ (Fenced => Fenced')
    BY <2>1 DEF Gone, Fenced
  <2>4. \/ Goes(r, "ACTIVATE") /\ mailbox'.status # "NONE"
        \/ Ends(r)
    BY <1>0, <1>2 DEF Initialize, Scheduled, MailboxStates
  <2>5. CallsBacked'
    <3>1. CASE Ends(r)
      BY <1>0, <2>1, <2>3, <3>1 DEF Ends, Idle, FollowsInv, CallsBacked, At
    <3>2. CASE Goes(r, "ACTIVATE") /\ mailbox'.status # "NONE"
      <4>1. requests'[r].at = "ACTIVATE"
            /\ \A s \in Requests : s # r => requests'[s] = requests[s]
        BY <1>0, <1>2, <3>2 DEF Goes, Initialize
      <4> QED BY <2>1, <2>3, <3>2, <4>1 DEF FollowsInv, CallsBacked, At
    <3> QED BY <2>4, <3>1, <3>2
  <2> QED BY <2>2, <2>5 DEF FollowsInv
<1>3. CASE Activate(r)
  <2>1. UNCHANGED mailbox /\ At(r, "ACTIVATE")
    BY <1>3 DEF Activate
  <2>2. GrantFollowsMailbox'
    BY <1>0, <1>3, <2>1
    DEF Activate, FollowsInv, CallsBacked, Gone, GrantFollowsMailbox, GrantRows
  <2>3. Gone' = Gone /\ Fenced' = Fenced
    BY <1>0, <1>3, <2>1 DEF Activate, Gone, Fenced, GrantRows
  <2>4. CallsBacked'
    BY <1>0, <1>3, <2>1, <2>3 DEF Activate, Ends, Idle, FollowsInv, CallsBacked, At
  <2> QED BY <2>2, <2>4 DEF FollowsInv
<1>4. CASE RevokeGrant(r)
  <2>1. UNCHANGED <<grant, mailbox>> /\ grant.state = "ACTIVE"
    BY <1>4 DEF RevokeGrant, cloud
  <2>2. Gone' = Gone /\ Fenced' = Fenced /\ mailbox.status # "NONE"
    BY <2>1 DEF Gone, Fenced, FollowsInv, GrantFollowsMailbox
  <2>3. CallsBacked'
    BY <1>0, <1>4, <2>1, <2>2 DEF RevokeGrant, FollowsInv, CallsBacked, At
  <2> QED BY <2>1, <2>3 DEF FollowsInv, GrantFollowsMailbox
<1>5. CASE RevokeMailbox(r)
  <2>1. /\ UNCHANGED grant /\ At(r, "REVOKE")
        /\ mailbox'.status = IF mailbox.status = "ACTIVE" THEN "REVOKED" ELSE mailbox.status
    BY <1>0, <1>5 DEF RevokeMailbox, MailboxStates
  <2>2. GrantFollowsMailbox'
    BY <2>1 DEF FollowsInv, GrantFollowsMailbox
  <2>3. Gone' = Gone /\ (Fenced => Fenced') /\ (mailbox.status # "NONE" => Fenced')
    BY <1>0, <2>1 DEF Gone, Fenced, MailboxStates
  <2>4. CallsBacked'
    <3>1. CASE Ends(r)
      BY <1>0, <2>1, <2>3, <3>1 DEF Ends, Idle, FollowsInv, CallsBacked, At
    <3>2. CASE Goes(r, "MARK_REVOKED")
      <4>1. requests'[r].at = "MARK_REVOKED"
            /\ \A s \in Requests : s # r => requests'[s] = requests[s]
        BY <1>0, <2>1, <3>2 DEF Goes
      <4>2. Gone' \/ Fenced'
        BY <2>1, <2>3 DEF FollowsInv, CallsBacked
      <4> QED BY <2>1, <2>3, <4>1, <4>2 DEF FollowsInv, CallsBacked, At
    <3> QED BY <1>5, <3>1, <3>2 DEF RevokeMailbox
  <2> QED BY <2>2, <2>4 DEF FollowsInv
<1>6. CASE MarkRevoked(r)
  <2>1. UNCHANGED mailbox /\ At(r, "MARK_REVOKED")
    BY <1>6 DEF MarkRevoked
  <2>2. GrantFollowsMailbox'
    BY <1>0, <1>6, <2>1
    DEF MarkRevoked, FollowsInv, CallsBacked, Gone, Fenced, GrantFollowsMailbox, GrantRows
  <2>3. Gone' = Gone /\ Fenced' = Fenced
    BY <1>0, <1>6, <2>1 DEF MarkRevoked, Gone, Fenced, GrantRows
  <2>4. CallsBacked'
    BY <1>0, <1>6, <2>1, <2>3 DEF MarkRevoked, Fails, Idle, FollowsInv, CallsBacked, At
  <2> QED BY <2>2, <2>4 DEF FollowsInv
<1>7. CASE DeleteGrant(r)
  BY <1>0, <1>7, CalmStep DEF DeleteGrant, cloud, DelicateCalls
<1>8. CASE MarkDeleting(r)
  <2>1. UNCHANGED mailbox /\ At(r, "MARK_DELETING") /\ grant'.state = "DELETING"
    BY <1>0, <1>8 DEF MarkDeleting, GrantRows
  <2>2. GrantFollowsMailbox' /\ Gone'
    BY <2>1 DEF GrantFollowsMailbox, Gone
  <2>3. CallsBacked'
    BY <2>2 DEF CallsBacked
  <2> QED BY <2>2, <2>3 DEF FollowsInv
<1>9. CASE Destroy(r)
  <2>1. UNCHANGED grant /\ Gone
    BY <1>9 DEF Destroy, FollowsInv, CallsBacked
  <2>2. Gone' /\ GrantFollowsMailbox'
    BY <2>1 DEF Gone, GrantFollowsMailbox
  <2>3. CallsBacked'
    BY <2>2 DEF CallsBacked
  <2> QED BY <2>2, <2>3 DEF FollowsInv
<1>10. CASE MarkDeleted(r)
  <2>1. grant'.state = "DELETED"
    BY <1>0, <1>10 DEF MarkDeleted, GrantRows
  <2>2. Gone' /\ GrantFollowsMailbox'
    BY <2>1 DEF Gone, GrantFollowsMailbox
  <2>3. CallsBacked'
    BY <2>2 DEF CallsBacked
  <2> QED BY <2>2, <2>3 DEF FollowsInv
<1> QED BY <1>1, <1>2, <1>3, <1>4, <1>5, <1>6, <1>7, <1>8, <1>9, <1>10

\* The requests of the devices keep row and mailbox together.
LEMMA DeviceCallsFollow ==
    ASSUME TypeInv, FollowsInv, NEW r \in Requests,
           \/ Route(r) \/ Admit(r) \/ Store(r) \/ Serve(r) \/ Acknowledge(r)
           \/ RequestLost(r) \/ Publish(r) \/ Fetch(r) \/ SendAcknowledgement(r)
    PROVE  FollowsInv'
<1> USE DEF TypeInv
<1>0. requests \in [Requests -> RequestStates] /\ mailbox \in MailboxStates
  BY DEF ClientsInv, CloudInv
<1>1. CASE Route(r)
  <2>1. UNCHANGED <<grant, mailbox>>
    BY <1>1 DEF Route, cloud
  <2>2. CASE Fails(r)
    BY <2>1, <2>2, CalmStep, EndedCalm DEF Fails
  <2>3. CASE /\ grant.state = "ACTIVE"
             /\ \A s \in Requests : s # r => requests'[s] = requests[s]
             /\ requests'[r].at \in {"ROUTED", "REVOKE"}
    <3>1. Gone' = Gone /\ Fenced' = Fenced /\ mailbox.status # "NONE"
      BY <2>1, <2>3 DEF Gone, Fenced, FollowsInv, GrantFollowsMailbox
    <3>2. CallsBacked'
      <4>1. UNCHANGED <<Gone, Fenced, mailbox>>
        BY <2>1, <3>1
      <4>2. ASSUME NEW s \in Requests, s # r
            PROVE  requests'[s] = requests[s]
        BY <2>3, <4>2
      <4>3. requests'[r].at \in {"ROUTED", "REVOKE"}
        BY <2>3
      <4> QED BY <3>1, <4>1, <4>2, <4>3 DEF FollowsInv, CallsBacked, At
    <3> QED BY <2>1, <3>2 DEF FollowsInv, GrantFollowsMailbox
  <2>4. \/ Fails(r)
        \/ /\ grant.state = "ACTIVE"
           /\ \A s \in Requests : s # r => requests'[s] = requests[s]
           /\ requests'[r].at \in {"ROUTED", "REVOKE"}
    <3>1. CASE ~Fails(r)
      <4>1. PICK at \in {"ROUTED", "REVOKE"} :
               requests' = [requests EXCEPT ![r].at = at, ![r].time = now]
        BY <1>1, <3>1 DEF Route
      <4>2. requests[r].kind \in DeviceKinds /\ requests[r] \in RequestStates
            /\ requests[r].at = "SENT"
        BY <1>0, <1>1, DeviceRequest DEF Route, At
      <4>3. [requests[r] EXCEPT !.at = at, !.time = now].at = at
        BY <4>2 DEF RequestStates, DeviceKinds, OwnerCalls, Idle
      <4>4. requests' = [requests EXCEPT ![r] = [requests[r] EXCEPT !.at = at, !.time = now]]
        BY <1>0, <4>1
      <4> QED BY <1>0, <1>1, <3>1, <4>3, <4>4 DEF Route
    <3> QED BY <3>1
  <2> QED BY <2>2, <2>3, <2>4
<1>2. CASE Admit(r)
  <2>1. UNCHANGED <<grant, mailbox>>
    BY <1>2 DEF Admit, cloud
  <2>2. CASE Fails(r)
    BY <2>1, <2>2, CalmStep, EndedCalm DEF Fails
  <2>3. CASE Goes(r, "ADMITTED")
    <3>1. requests[r].at = "ROUTED" /\ requests[r] \in RequestStates
      BY <1>0, <1>2 DEF Admit, At
    <3>2. [requests[r] EXCEPT !.at = "ADMITTED"].at = "ADMITTED"
      BY <3>1 DEF RequestStates, OwnerCalls, Idle
    <3> QED BY <1>0, <2>1, <2>3, <3>2, CalmStep DEF Goes, DelicateCalls
  <2> QED BY <1>2, <2>2, <2>3 DEF Admit
<1>3. CASE Store(r) \/ Serve(r) \/ Acknowledge(r)
  <2>1. UNCHANGED grant /\ mailbox'.status = mailbox.status
    BY <1>0, <1>3 DEF Store, Serve, Acknowledge, Scheduled, Accepting, WithAcknowledged,
                      MailboxStates
  <2>2. requests' = [requests EXCEPT ![r] = Idle]
    BY <1>3 DEF Store, Serve, Acknowledge, Fails, AnswersSource, AnswersDestination
  <2> QED BY <2>1, <2>2, CalmStep, EndedCalm
<1>4. CASE RequestLost(r)
  BY <1>4, CalmStep, EndedCalm DEF RequestLost, Fails, cloud
<1>5. CASE Publish(r) \/ Fetch(r) \/ SendAcknowledgement(r)
  <2>1. UNCHANGED <<grant, mailbox>>
    BY <1>5 DEF Publish, Fetch, SendAcknowledgement, Ask, cloud
  <2>2. PICK k, n, q : requests' = [requests EXCEPT ![r] = Sent(k, n, q)]
    BY <1>5 DEF Publish, Fetch, SendAcknowledgement, Ask
  <2> QED BY <2>1, <2>2, CalmStep, SentCalm
<1> QED BY <1>1, <1>2, <1>3, <1>4, <1>5

\* All other steps keep row and mailbox together; an alarm fires on an
\* active mailbox only.
LEMMA OtherStepsFollow ==
    ASSUME TypeInv, FollowsInv, AlarmTracksExpiry,
           \/ \E r, s \in Requests : Duplicate(r, s)
           \/ \E v \in Devices : RevokeDevice(v)
           \/ AlarmFires \/ Evict \/ Tick \/ UNCHANGED vars
           \/ RecordPublished \/ SourceStops
           \/ BeginApply \/ Flush \/ RecordApplied \/ DestinationStops
    PROVE  FollowsInv'
<1> USE DEF TypeInv
<1>0. requests \in [Requests -> RequestStates] /\ mailbox \in MailboxStates
  BY DEF ClientsInv, CloudInv
<1>1. ASSUME NEW r \in Requests, NEW s \in Requests, Duplicate(r, s) PROVE FollowsInv'
  BY <1>0, <1>1, CalmStep DEF Duplicate, At, cloud, DelicateCalls
<1>2. ASSUME NEW v \in Devices, RevokeDevice(v) PROVE FollowsInv'
  BY <1>2, CalmStep DEF RevokeDevice
<1>3. CASE AlarmFires
  <2>1. mailbox.status = "ACTIVE"
    BY <1>3 DEF AlarmFires, AlarmTracksExpiry
  <2>2. UNCHANGED <<grant, requests>> /\ mailbox'.status \in {"ACTIVE", "EXPIRED"}
    BY <1>0, <1>3, <2>1 DEF AlarmFires, Scheduled, MailboxStates
  <2>3. grant.state # "REVOKED" /\ ~Fenced /\ Gone' = Gone
    BY <2>1, <2>2 DEF FollowsInv, GrantFollowsMailbox, Fenced, Gone
  <2>4. GrantFollowsMailbox'
    BY <2>2, <2>3 DEF GrantFollowsMailbox
  <2>5. CallsBacked'
    BY <2>2, <2>3 DEF FollowsInv, CallsBacked, At
  <2> QED BY <2>4, <2>5 DEF FollowsInv
<1>4. CASE Evict
  <2>1. UNCHANGED grant /\ mailbox'.status = mailbox.status
    BY <1>0, <1>4 DEF Evict, MailboxStates
  <2>2. \A r \in Requests : requests'[r] \in {Idle, requests[r]}
    BY <1>4 DEF Evict
  <2> QED BY <2>1, <2>2, CalmStep DEF Idle, DelicateCalls
<1>5. CASE \/ Tick \/ UNCHANGED vars \/ RecordPublished \/ SourceStops
          \/ BeginApply \/ Flush \/ RecordApplied \/ DestinationStops
  <2>1. UNCHANGED <<grant, mailbox, requests>>
    BY <1>5 DEF Tick, vars, RecordPublished, SourceStops, BeginApply, Flush, RecordApplied,
                DestinationStops, cloud
  <2> QED BY <2>1, CalmStep
<1> QED BY <1>1, <1>2, <1>3, <1>4, <1>5

-------------------------------------------------------------------------------
(***************************************************************************)
(* The alarm.                                                              *)
(***************************************************************************)
\* A step that ends with setting the alarm sets it right.
LEMMA ScheduledTracks ==
    ASSUME NEW m \in MailboxStates, mailbox' = Scheduled(m), UNCHANGED minted
    PROVE  AlarmTracksExpiry'
<1>1. /\ mailbox'.status = m.status /\ mailbox'.expires = m.expires
      /\ mailbox'.kept = m.kept
      /\ mailbox'.alarm = IF m.status = "ACTIVE" THEN NextExpiry(m) ELSE Never
  BY DEF Scheduled, MailboxStates
<1>2. NextExpiry(mailbox)' = NextExpiry(m)
  BY <1>1 DEF NextExpiry
<1> QED BY <1>1, <1>2 DEF AlarmTracksExpiry

\* What the alarm depends on stays as it was.
LEMMA AlarmStays ==
    ASSUME AlarmTracksExpiry,
           mailbox'.status = mailbox.status, mailbox'.expires = mailbox.expires,
           mailbox'.kept = mailbox.kept, mailbox'.alarm = mailbox.alarm,
           \A d \in mailbox.kept : minted'[d] = minted[d]
    PROVE  AlarmTracksExpiry'
<1>1. {minted'[d].expires : d \in mailbox'.kept} = {minted[d].expires : d \in mailbox.kept}
  OBVIOUS
<1>2. NextExpiry(mailbox)' = NextExpiry(mailbox)
  BY <1>1 DEF NextExpiry
<1> QED BY <1>2 DEF AlarmTracksExpiry

\* Every step sets the alarm or leaves alone what it depends on.
LEMMA AlarmStep ==
    ASSUME TypeInv, AlarmTracksExpiry, [Next]_vars
    PROVE  AlarmTracksExpiry'
<1> USE DEF TypeInv
<1>0. mailbox \in MailboxStates /\ minted \in Seq(Revisions)
  BY DEF CloudInv
<1>1. ASSUME UNCHANGED <<mailbox, minted>> PROVE AlarmTracksExpiry'
  BY <1>1, AlarmStays
<1>2. ASSUME NEW r \in Requests, RequestStep(r) PROVE AlarmTracksExpiry'
  <2>1. CASE \/ CreateGrant(r) \/ Activate(r) \/ RevokeGrant(r) \/ MarkRevoked(r)
            \/ DeleteGrant(r) \/ MarkDeleting(r) \/ MarkDeleted(r)
            \/ Route(r) \/ Admit(r) \/ RequestLost(r) \/ Fetch(r) \/ SendAcknowledgement(r)
    <3>1. UNCHANGED <<mailbox, minted>>
      BY <2>1 DEF CreateGrant, Activate, RevokeGrant, MarkRevoked, DeleteGrant, MarkDeleting,
                  MarkDeleted, Route, Admit, RequestLost, Fetch, SendAcknowledgement, Ask,
                  cloud, clients
    <3> QED BY <1>1, <3>1
  <2>2. CASE Initialize(r)
    <3>1. UNCHANGED minted
      BY <2>2 DEF Initialize, clients
    <3> DEFINE opened == [mailbox EXCEPT !.status = "ACTIVE", !.expires = grant.expires]
    <3>2. opened \in MailboxStates
      BY <1>0 DEF MailboxStates, CloudInv, GrantRows
    <3>3. mailbox' \in {mailbox, Scheduled(mailbox), Scheduled(opened)}
      BY <2>2 DEF Initialize
    <3> HIDE DEF opened
    <3> QED BY <1>0, <1>1, <3>1, <3>2, <3>3, ScheduledTracks
  <2>3. CASE RevokeMailbox(r)
    <3>1. UNCHANGED minted
      BY <2>3 DEF RevokeMailbox, clients
    <3>2. CASE mailbox.status = "ACTIVE"
      BY <1>0, <2>3, <3>2 DEF RevokeMailbox, AlarmTracksExpiry, MailboxStates
    <3>3. CASE mailbox.status # "ACTIVE"
      BY <1>1, <2>3, <3>1, <3>3 DEF RevokeMailbox
    <3> QED BY <3>2, <3>3
  <2>4. CASE Destroy(r)
    <3>1. UNCHANGED minted
      BY <2>4 DEF Destroy, clients
    <3>2. CASE mailbox' = NoMailbox(TRUE)
      BY <3>2 DEF NoMailbox, AlarmTracksExpiry
    <3> QED BY <1>1, <2>4, <3>1, <3>2 DEF Destroy
  <2>5. CASE Store(r)
    <3> DEFINE d == requests[r].named
               stored == [mailbox EXCEPT !.kept = @ \cup {d}, !.current = d]
    <3>1. UNCHANGED minted /\ d \in Digests
      BY <2>5, DeviceRequest DEF Store, At, DeviceKinds
    <3>2. stored \in MailboxStates
      BY <1>0, <3>1 DEF MailboxStates
    <3>3. mailbox' \in {mailbox, Scheduled(mailbox), Scheduled(stored)}
      BY <2>5 DEF Store
    <3> HIDE DEF stored
    <3> QED BY <1>0, <1>1, <3>1, <3>2, <3>3, ScheduledTracks
  <2>6. CASE Serve(r)
    <3>1. UNCHANGED minted /\ mailbox' \in {mailbox, Accepting(requests[r])}
      BY <2>6 DEF Serve
    <3>2. LET m == Accepting(requests[r])
          IN  /\ m.status = mailbox.status /\ m.expires = mailbox.expires
              /\ m.kept = mailbox.kept /\ m.alarm = mailbox.alarm
      BY <1>0 DEF Accepting, MailboxStates
    <3> QED BY <1>1, <3>1, <3>2, AlarmStays
  <2>7. CASE Acknowledge(r)
    <3> DEFINE q == requests[r]
    <3>1. UNCHANGED minted /\ q.named \in Digests /\ RevisionOf(q.named) \in Nat
      BY <1>0, <2>7, DeviceRequest, MintedTypes DEF Acknowledge, At, DeviceKinds
    <3>2. Accepting(q) \in MailboxStates
      BY <2>7, AcceptingType DEF Acknowledge
    <3>3. WithAcknowledged(Accepting(q), q.named) \in MailboxStates
      BY <3>1, <3>2 DEF WithAcknowledged, MailboxStates
    <3>4. mailbox' \in {mailbox, Accepting(q), Scheduled(Accepting(q)),
                        Scheduled(WithAcknowledged(Accepting(q), q.named))}
      BY <2>7 DEF Acknowledge
    <3>5. /\ Accepting(q).status = mailbox.status /\ Accepting(q).expires = mailbox.expires
          /\ Accepting(q).kept = mailbox.kept /\ Accepting(q).alarm = mailbox.alarm
      BY <1>0 DEF Accepting, MailboxStates
    <3>6. CASE mailbox' = Accepting(q)
      BY <3>1, <3>5, <3>6, AlarmStays
    <3> QED BY <1>1, <3>1, <3>2, <3>3, <3>4, <3>6, ScheduledTracks
  <2>8. CASE Publish(r)
    <3>1. UNCHANGED mailbox
      BY <2>8 DEF Publish, cloud
    <3>2. minted' = minted \/ \E v : minted' = Append(minted, v)
      BY <2>8 DEF Publish
    <3>3. \A d \in mailbox.kept : d \in 1 .. Len(minted)
      BY <1>0 DEF MailboxStates, Digests
    <3>4. \A d \in mailbox.kept : minted'[d] = minted[d]
      BY <1>0, <3>2, <3>3
    <3> QED BY <3>1, <3>4, AlarmStays
  <2> QED BY <1>2, <2>1, <2>2, <2>3, <2>4, <2>5, <2>6, <2>7, <2>8 DEF RequestStep
<1>3. CASE AlarmFires
  <2> DEFINE over == [mailbox EXCEPT !.status = "EXPIRED", !.kept = {}]
             fewer == [mailbox EXCEPT !.kept = {d \in @ : minted[d].expires > now}]
  <2>1. over \in MailboxStates /\ fewer \in MailboxStates
    BY <1>0 DEF MailboxStates
  <2>2. UNCHANGED minted /\ mailbox' \in {Scheduled(over), Scheduled(fewer)}
    BY <1>3 DEF AlarmFires, clients
  <2> HIDE DEF over, fewer
  <2> QED BY <2>1, <2>2, ScheduledTracks
<1>4. CASE Evict
  <2>1. UNCHANGED minted /\ mailbox' = [mailbox EXCEPT !.destroyed = FALSE]
    BY <1>4 DEF Evict
  <2>2. /\ mailbox'.status = mailbox.status /\ mailbox'.expires = mailbox.expires
        /\ mailbox'.kept = mailbox.kept /\ mailbox'.alarm = mailbox.alarm
    BY <1>0, <2>1 DEF MailboxStates
  <2> QED BY <2>1, <2>2, AlarmStays
<1>5. CASE \/ Tick \/ UNCHANGED vars \/ RecordPublished \/ SourceStops
          \/ BeginApply \/ Flush \/ RecordApplied \/ DestinationStops
  <2>1. UNCHANGED <<mailbox, minted>>
    BY <1>5 DEF Tick, vars, RecordPublished, SourceStops, BeginApply, Flush, RecordApplied,
                DestinationStops, cloud, clients
  <2> QED BY <1>1, <2>1
<1>6. ASSUME NEW r \in Requests, NEW s \in Requests, Duplicate(r, s)
      PROVE  AlarmTracksExpiry'
  BY <1>1, <1>6 DEF Duplicate, cloud, clients
<1>7. ASSUME NEW v \in Devices, RevokeDevice(v) PROVE AlarmTracksExpiry'
  BY <1>1, <1>7 DEF RevokeDevice, clients
<1> QED BY <1>2, <1>3, <1>4, <1>5, <1>6, <1>7 DEF Next

\* The alarm is set for the earliest expiry of what the mailbox holds, whatever
\* order publications, acknowledgements, revocations and alarms come in.
THEOREM AlarmIsSet == Spec => []AlarmTracksExpiry
<1>1. Init => AlarmTracksExpiry
  BY DEF Init, NoMailbox, AlarmTracksExpiry
<1> QED BY <1>1, AlarmStep, TypedThroughout, PTL DEF Spec

\* The invariants of the grant's life hold throughout.
LEMMA GrantInvariants == Spec => [](TypeInv /\ AlarmTracksExpiry /\ FollowsInv)
<1>1. Init => FollowsInv
  <2> SUFFICES ASSUME Init PROVE FollowsInv
    OBVIOUS
  <2>1. GrantFollowsMailbox
    BY DEF Init, GrantFollowsMailbox
  <2>2. \A r \in Requests : requests[r].at = "IDLE"
    BY DEF Init, Idle
  <2> QED BY <2>1, <2>2 DEF FollowsInv, CallsBacked, At
<1>2. ASSUME TypeInv, AlarmTracksExpiry, FollowsInv, [Next]_vars PROVE FollowsInv'
  <2>1. ASSUME NEW r \in Requests, RequestStep(r) PROVE FollowsInv'
    BY <1>2, <2>1, OwnerCallsFollow, DeviceCallsFollow DEF RequestStep
  <2>2. CASE ~ \E r \in Requests : RequestStep(r)
    BY <1>2, <2>2, OtherStepsFollow DEF Next
  <2> QED BY <2>1, <2>2
<1> QED BY <1>1, <1>2, AlarmIsSet, TypedThroughout, PTL DEF Spec

\* The row of an active grant has a mailbox and that of a revoked one a fenced
\* mailbox, for any number of creations, revocations and deletions in progress
\* at one time.
THEOREM GrantHasItsMailbox == Spec => []GrantFollowsMailbox
<1>1. FollowsInv => GrantFollowsMailbox
  BY DEF FollowsInv
<1> QED BY <1>1, GrantInvariants, PTL

-------------------------------------------------------------------------------
(***************************************************************************)
(* The chain of retained revisions.  The alarm removes what has expired    *)
(* and leaves no gap because a revision that was made later does not       *)
(* expire earlier.                                                         *)
(***************************************************************************)
LaterExpiresLater ==
    /\ \A d \in Digests : minted[d].previous < d /\ minted[d].expires <= now + RevisionLife
    /\ \A d, e \in Digests : d < e => minted[d].expires <= minted[e].expires

\* Every step keeps the order of the expiries.
LEMMA LaterExpiresLaterStep ==
    ASSUME TypeInv, LaterExpiresLater, [Next]_vars
    PROVE  LaterExpiresLater'
<1> USE DEF TypeInv
<1>0. now \in Nat /\ minted \in Seq(Revisions) /\ RevisionLife \in Nat
  BY DEF CloudInv
<1>1. CASE UNCHANGED minted /\ now' \in {now, now + 1}
  <2>1. Digests' = Digests
    BY <1>1 DEF Digests
  <2>2. ASSUME NEW d \in Digests PROVE minted[d].expires <= now' + RevisionLife
    <3>1. minted[d].expires <= now + RevisionLife /\ minted[d].expires \in Nat
      BY <1>0, MintedTypes DEF LaterExpiresLater, Revisions
    <3> QED BY <1>0, <1>1, <3>1
  <2> QED BY <1>1, <2>1, <2>2 DEF LaterExpiresLater
<1>2. ASSUME NEW r \in Requests, Publish(r), source.pending = 0
      PROVE  LaterExpiresLater'
  <2>1. minted' = Append(minted, NewRevision) /\ now' = now
    BY <1>2 DEF Publish
  <2> DEFINE n == Len(minted) + 1
  <2>2. /\ Digests' = 1 .. n /\ minted'[n] = NewRevision
        /\ \A d \in Digests : minted'[d] = minted[d]
        /\ n \in Nat
    BY <1>0, <2>1 DEF Digests
  <2>3. NewRevision.previous < n /\ NewRevision.expires = now + RevisionLife
    BY <1>0 DEF NewRevision, ClientsInv, SourceStates, Digests
  <2>4. ASSUME NEW d \in Digests'
        PROVE  minted'[d].previous < d /\ minted'[d].expires <= now + RevisionLife
    <3>1. CASE d = n
      BY <1>0, <2>2, <2>3, <3>1
    <3>2. CASE d # n
      <4>1. d \in Digests
        BY <1>0, <2>2, <3>2 DEF Digests
      <4> QED BY <2>2, <4>1 DEF LaterExpiresLater
    <3> QED BY <3>1, <3>2
  <2>5. ASSUME NEW d \in Digests', NEW e \in Digests', d < e
        PROVE  minted'[d].expires <= minted'[e].expires
    <3>1. d \in Digests
      BY <1>0, <2>2, <2>5 DEF Digests
    <3>2. CASE e = n
      BY <2>2, <2>3, <3>1, <3>2 DEF LaterExpiresLater
    <3>3. CASE e # n
      <4>1. e \in Digests
        BY <1>0, <2>2, <3>3 DEF Digests
      <4> QED BY <2>2, <2>5, <3>1, <4>1 DEF LaterExpiresLater
    <3> QED BY <3>2, <3>3
  <2> QED BY <2>1, <2>4, <2>5 DEF LaterExpiresLater
<1>3. ASSUME NEW r \in Requests, RequestStep(r) PROVE LaterExpiresLater'
  <2>1. CASE Publish(r)
    BY <1>1, <1>2, <2>1 DEF Publish
  <2>2. CASE ~Publish(r)
    <3>1. UNCHANGED <<minted, now>>
      BY <1>3, <2>2
      DEF RequestStep, CreateGrant, Initialize, Activate, RevokeGrant, RevokeMailbox,
          MarkRevoked, DeleteGrant, MarkDeleting, Destroy, MarkDeleted, Route, Admit, Store,
          Serve, Acknowledge, RequestLost, Fetch, SendAcknowledgement, Ask, clients
    <3> QED BY <1>1, <3>1
  <2> QED BY <2>1, <2>2
<1>4. CASE \/ AlarmFires \/ Evict \/ Tick \/ UNCHANGED vars \/ RecordPublished \/ SourceStops
          \/ BeginApply \/ Flush \/ RecordApplied \/ DestinationStops
  <2>1. UNCHANGED minted /\ now' \in {now, now + 1}
    BY <1>4 DEF AlarmFires, Evict, Tick, vars, RecordPublished, SourceStops, BeginApply, Flush,
                RecordApplied, DestinationStops, clients
  <2> QED BY <1>1, <2>1
<1>5. ASSUME NEW r \in Requests, NEW s \in Requests, Duplicate(r, s)
      PROVE  LaterExpiresLater'
  BY <1>1, <1>5 DEF Duplicate, clients
<1>6. ASSUME NEW v \in Devices, RevokeDevice(v) PROVE LaterExpiresLater'
  BY <1>1, <1>6 DEF RevokeDevice, clients
<1> QED BY <1>3, <1>4, <1>5, <1>6 DEF Next

\* Of the retained revisions some are removed, but with each that stays, the
\* one that continues it.
LEMMA ShorterChain ==
    ASSUME RetainedIsChained,
           mailbox'.status = mailbox.status, mailbox'.current = mailbox.current,
           mailbox'.kept \subseteq mailbox.kept,
           \A d \in mailbox.kept : minted'[d] = minted[d],
           \A d \in mailbox'.kept : \A e \in mailbox.kept :
              /\ minted[e].previous = d
              /\ minted[e].revision = minted[d].revision + 1
              => e \in mailbox'.kept
    PROVE  RetainedIsChained'
<1>1. mailbox'.status # "ACTIVE" => mailbox'.kept = {}
  BY DEF RetainedIsChained
<1>2. ASSUME NEW d \in mailbox'.kept, d # mailbox'.current
      PROVE  \E e \in mailbox'.kept : /\ minted'[e].previous = d
                                      /\ minted'[e].revision = minted'[d].revision + 1
  <2>1. PICK e \in mailbox.kept : /\ minted[e].previous = d
                                  /\ minted[e].revision = minted[d].revision + 1
    BY <1>2 DEF RetainedIsChained
  <2> QED BY <1>2, <2>1
<1> QED BY <1>1, <1>2 DEF RetainedIsChained

\* Setting the alarm changes nothing else.
LEMMA ScheduledFields ==
    ASSUME NEW m \in MailboxStates
    PROVE  /\ Scheduled(m).status = m.status /\ Scheduled(m).kept = m.kept
           /\ Scheduled(m).current = m.current
BY DEF Scheduled, MailboxStates

\* Every step keeps the chain.
LEMMA RetainedStep ==
    ASSUME TypeInv, LaterExpiresLater, RetainedIsChained, [Next]_vars
    PROVE  RetainedIsChained'
<1> USE DEF TypeInv
<1>0. /\ mailbox \in MailboxStates /\ minted \in Seq(Revisions)
      /\ mailbox.kept \subseteq Digests
  BY DEF CloudInv, MailboxStates
<1>1. ASSUME mailbox'.status = mailbox.status, mailbox'.current = mailbox.current,
             mailbox'.kept = mailbox.kept, \A d \in mailbox.kept : minted'[d] = minted[d]
      PROVE  RetainedIsChained'
  BY <1>1, ShorterChain
<1>2. ASSUME mailbox'.kept = {} PROVE RetainedIsChained'
  BY <1>2 DEF RetainedIsChained
<1>3. ASSUME NEW r \in Requests, RequestStep(r) PROVE RetainedIsChained'
  <2>1. CASE \/ CreateGrant(r) \/ Activate(r) \/ RevokeGrant(r) \/ MarkRevoked(r)
            \/ DeleteGrant(r) \/ MarkDeleting(r) \/ MarkDeleted(r)
            \/ Route(r) \/ Admit(r) \/ RequestLost(r) \/ Fetch(r) \/ SendAcknowledgement(r)
    <3>1. UNCHANGED <<mailbox, minted>>
      BY <2>1 DEF CreateGrant, Activate, RevokeGrant, MarkRevoked, DeleteGrant, MarkDeleting,
                  MarkDeleted, Route, Admit, RequestLost, Fetch, SendAcknowledgement, Ask,
                  cloud, clients
    <3> QED BY <1>1, <3>1
  <2>2. CASE Initialize(r)
    <3>1. UNCHANGED minted
      BY <2>2 DEF Initialize, clients
    <3> DEFINE opened == [mailbox EXCEPT !.status = "ACTIVE", !.expires = grant.expires]
    <3>2. opened \in MailboxStates /\ opened.kept = mailbox.kept
      BY <1>0 DEF MailboxStates, CloudInv, GrantRows
    <3>3. \/ mailbox' \in {mailbox, Scheduled(mailbox)}
          \/ mailbox' = Scheduled(opened) /\ mailbox.status = "NONE"
      BY <2>2 DEF Initialize
    <3>4. CASE mailbox' = Scheduled(opened) /\ mailbox.status = "NONE"
      <4>1. mailbox.kept = {}
        BY <3>4 DEF RetainedIsChained
      <4>2. mailbox'.kept = {}
        <5> HIDE DEF opened
        <5> QED BY <3>2, <3>4, <4>1, ScheduledFields
      <4> QED BY <1>2, <4>2
    <3>5. CASE mailbox' \in {mailbox, Scheduled(mailbox)}
      BY <1>0, <1>1, <3>1, <3>5, ScheduledFields
    <3> QED BY <3>3, <3>4, <3>5
  <2>3. CASE RevokeMailbox(r)
    <3>1. UNCHANGED minted
      BY <2>3 DEF RevokeMailbox, clients
    <3>2. CASE mailbox.status = "ACTIVE"
      <4>1. mailbox'.kept = {}
        BY <1>0, <2>3, <3>2 DEF RevokeMailbox, MailboxStates
      <4> QED BY <1>2, <4>1
    <3>3. CASE mailbox.status # "ACTIVE"
      BY <1>1, <2>3, <3>1, <3>3 DEF RevokeMailbox
    <3> QED BY <3>2, <3>3
  <2>4. CASE Destroy(r)
    <3>1. UNCHANGED minted
      BY <2>4 DEF Destroy, clients
    <3>2. CASE mailbox' = NoMailbox(TRUE)
      BY <1>2, <3>2 DEF NoMailbox
    <3> QED BY <1>1, <2>4, <3>1, <3>2 DEF Destroy
  <2>5. CASE Store(r)
    <3> DEFINE d == requests[r].named
               stored == [mailbox EXCEPT !.kept = @ \cup {d}, !.current = d]
    <3>1. UNCHANGED minted /\ d \in Digests
      BY <2>5, DeviceRequest DEF Store, At, DeviceKinds
    <3>2. /\ stored \in MailboxStates /\ stored.status = mailbox.status
          /\ stored.kept = mailbox.kept \cup {d} /\ stored.current = d
      BY <1>0, <3>1 DEF MailboxStates
    <3>3. CASE mailbox' \in {mailbox, Scheduled(mailbox)}
      BY <1>0, <1>1, <3>1, <3>3, ScheduledFields
    <3>4. CASE /\ mailbox.status = "ACTIVE" /\ Extends(d)
               /\ mailbox' = Scheduled(stored)
      <4>1. /\ mailbox'.status = "ACTIVE" /\ mailbox'.kept = mailbox.kept \cup {d}
            /\ mailbox'.current = d
        <5> HIDE DEF stored
        <5> QED BY <3>2, <3>4, ScheduledFields
      <4>2. ASSUME NEW x \in mailbox'.kept, x # d
            PROVE  \E e \in mailbox'.kept :
                      /\ minted[e].previous = x
                      /\ minted[e].revision = minted[x].revision + 1
        <5>1. x \in mailbox.kept /\ x # 0
          BY <1>0, <4>1, <4>2 DEF Digests
        <5>2. CASE x = mailbox.current
          BY <3>4, <4>1, <5>1, <5>2 DEF Extends, RevisionOf
        <5>3. CASE x # mailbox.current
          BY <4>1, <5>1, <5>3 DEF RetainedIsChained
        <5> QED BY <5>2, <5>3
      <4> QED BY <3>1, <4>1, <4>2 DEF RetainedIsChained
    <3>5. \/ mailbox' \in {mailbox, Scheduled(mailbox)}
          \/ mailbox.status = "ACTIVE" /\ Extends(d) /\ mailbox' = Scheduled(stored)
      BY <2>5 DEF Store
    <3> QED BY <3>3, <3>4, <3>5
  <2>6. CASE Serve(r)
    <3>1. UNCHANGED minted /\ mailbox' \in {mailbox, Accepting(requests[r])}
      BY <2>6 DEF Serve
    <3>2. LET m == Accepting(requests[r])
          IN  /\ m.status = mailbox.status /\ m.current = mailbox.current
              /\ m.kept = mailbox.kept
      BY <1>0 DEF Accepting, MailboxStates
    <3> QED BY <1>1, <3>1, <3>2
  <2>7. CASE Acknowledge(r)
    <3> DEFINE q == requests[r]
               fewer == WithAcknowledged(Accepting(q), q.named)
    <3>1. UNCHANGED minted /\ q.named \in Digests /\ RevisionOf(q.named) \in Nat
      BY <1>0, <2>7, DeviceRequest, MintedTypes DEF Acknowledge, At, DeviceKinds
    <3>2. Accepting(q) \in MailboxStates
      BY <2>7, AcceptingType DEF Acknowledge
    <3>3. fewer \in MailboxStates
      BY <3>1, <3>2 DEF WithAcknowledged, MailboxStates
    <3>4. mailbox' \in {mailbox, Accepting(q), Scheduled(Accepting(q)), Scheduled(fewer)}
      BY <2>7 DEF Acknowledge
    <3>5. /\ Accepting(q).status = mailbox.status /\ Accepting(q).current = mailbox.current
          /\ Accepting(q).kept = mailbox.kept
      BY <1>0 DEF Accepting, MailboxStates
    <3>6. CASE mailbox' = Scheduled(fewer)
      <4>1. /\ mailbox'.status = fewer.status /\ mailbox'.current = fewer.current
            /\ mailbox'.kept = fewer.kept
        <5> HIDE DEF fewer
        <5> QED BY <3>3, <3>6, ScheduledFields
      <4>2. /\ fewer.status = mailbox.status /\ fewer.current = mailbox.current
            /\ fewer.kept = {e \in mailbox.kept : RevisionOf(e) >= RevisionOf(q.named)}
        BY <3>2, <3>5 DEF WithAcknowledged, MailboxStates
      <4>3. ASSUME NEW d \in mailbox'.kept, NEW e \in mailbox.kept,
                   minted[e].revision = minted[d].revision + 1
            PROVE  e \in mailbox'.kept
        <5>1. d \in Digests /\ e \in Digests /\ RevisionOf(d) >= RevisionOf(q.named)
          BY <1>0, <4>1, <4>2
        <5>2. RevisionOf(e) = RevisionOf(d) + 1 /\ RevisionOf(d) \in Nat
          BY <1>0, <4>3, <5>1, MintedTypes DEF RevisionOf, Digests
        <5>3. RevisionOf(e) >= RevisionOf(q.named)
          BY <3>1, <5>1, <5>2
        <5> QED BY <4>1, <4>2, <5>3
      <4> HIDE DEF fewer
      <4>4. mailbox'.kept \subseteq mailbox.kept
        BY <4>1, <4>2
      <4> QED BY <3>1, <4>1, <4>2, <4>3, <4>4, ShorterChain
    <3> HIDE DEF fewer
    <3>7. CASE mailbox' \in {mailbox, Accepting(q), Scheduled(Accepting(q))}
      BY <1>1, <3>1, <3>2, <3>5, <3>7, ScheduledFields
    <3> QED BY <3>4, <3>6, <3>7
  <2>8. CASE Publish(r)
    <3>1. UNCHANGED mailbox
      BY <2>8 DEF Publish, cloud
    <3>2. minted' = minted \/ \E v : minted' = Append(minted, v)
      BY <2>8 DEF Publish
    <3>3. \A d \in mailbox.kept : d \in 1 .. Len(minted)
      BY <1>0 DEF Digests
    <3>4. \A d \in mailbox.kept : minted'[d] = minted[d]
      BY <1>0, <3>2, <3>3
    <3> QED BY <1>1, <3>1, <3>4
  <2> QED BY <1>3, <2>1, <2>2, <2>3, <2>4, <2>5, <2>6, <2>7, <2>8 DEF RequestStep
<1>4. CASE AlarmFires
  <2> DEFINE over == [mailbox EXCEPT !.status = "EXPIRED", !.kept = {}]
             fewer == [mailbox EXCEPT !.kept = {d \in @ : minted[d].expires > now}]
  <2>1. /\ over \in MailboxStates /\ over.kept = {}
        /\ fewer \in MailboxStates /\ fewer.status = mailbox.status
        /\ fewer.current = mailbox.current
        /\ fewer.kept = {d \in mailbox.kept : minted[d].expires > now}
    BY <1>0 DEF MailboxStates
  <2>2. UNCHANGED minted /\ mailbox' \in {Scheduled(over), Scheduled(fewer)}
    BY <1>4 DEF AlarmFires, clients
  <2> HIDE DEF over, fewer
  <2>3. CASE mailbox' = Scheduled(over)
    BY <1>2, <2>1, <2>3, ScheduledFields
  <2>4. CASE mailbox' = Scheduled(fewer)
    <3>1. /\ mailbox'.status = mailbox.status /\ mailbox'.current = mailbox.current
          /\ mailbox'.kept = {d \in mailbox.kept : minted[d].expires > now}
      BY <2>1, <2>4, ScheduledFields
    <3>2. ASSUME NEW d \in mailbox'.kept, NEW e \in mailbox.kept, minted[e].previous = d
          PROVE  e \in mailbox'.kept
      <4>1. d \in Digests /\ e \in Digests /\ minted[d].expires > now
        BY <1>0, <3>1
      <4>2. d < e
        BY <3>2, <4>1 DEF LaterExpiresLater
      <4>3. minted[d].expires <= minted[e].expires
        BY <4>1, <4>2 DEF LaterExpiresLater
      <4>4. /\ minted[d].expires \in Nat /\ minted[e].expires \in Nat /\ now \in Nat
        BY <1>0, <4>1, MintedTypes DEF Revisions, CloudInv
      <4> QED BY <3>1, <4>1, <4>3, <4>4
    <3>3. mailbox'.kept \subseteq mailbox.kept
      BY <3>1
    <3> QED BY <2>2, <3>1, <3>2, <3>3, ShorterChain
  <2> QED BY <2>2, <2>3, <2>4
<1>5. CASE Evict
  <2>1. UNCHANGED minted /\ mailbox' = [mailbox EXCEPT !.destroyed = FALSE]
    BY <1>5 DEF Evict
  <2>2. /\ mailbox'.status = mailbox.status /\ mailbox'.current = mailbox.current
        /\ mailbox'.kept = mailbox.kept
    BY <1>0, <2>1 DEF MailboxStates
  <2> QED BY <1>1, <2>1, <2>2
<1>6. CASE \/ Tick \/ UNCHANGED vars \/ RecordPublished \/ SourceStops
          \/ BeginApply \/ Flush \/ RecordApplied \/ DestinationStops
  <2>1. UNCHANGED <<mailbox, minted>>
    BY <1>6 DEF Tick, vars, RecordPublished, SourceStops, BeginApply, Flush, RecordApplied,
                DestinationStops, cloud, clients
  <2> QED BY <1>1, <2>1
<1>7. ASSUME NEW r \in Requests, NEW s \in Requests, Duplicate(r, s)
      PROVE  RetainedIsChained'
  BY <1>1, <1>7 DEF Duplicate, cloud, clients
<1>8. ASSUME NEW v \in Devices, RevokeDevice(v) PROVE RetainedIsChained'
  BY <1>1, <1>8 DEF RevokeDevice, clients
<1> QED BY <1>3, <1>4, <1>5, <1>6, <1>7, <1>8 DEF Next

\* What the mailbox retains is the end of one chain without a gap, and it is
\* nothing when the mailbox is not active, whatever is published, acknowledged,
\* revoked or expires between a request's check and its write.
THEOREM RetainedStaysChained == Spec => []RetainedIsChained
<1>1. Init => LaterExpiresLater /\ RetainedIsChained
  <2> SUFFICES ASSUME Init PROVE LaterExpiresLater /\ RetainedIsChained
    OBVIOUS
  <2>1. Digests = {} /\ mailbox.kept = {}
    BY DEF Init, NoMailbox, Digests
  <2> QED BY <2>1 DEF LaterExpiresLater, RetainedIsChained
<1> QED BY <1>1, LaterExpiresLaterStep, RetainedStep, TypedThroughout, PTL DEF Spec

-------------------------------------------------------------------------------
(***************************************************************************)
(* The source and the mailbox.  The journal keeps a revision from before   *)
(* it is sent until the mailbox has it, so that all revisions ever made    *)
(* are one chain: number and digest coincide.                              *)
(***************************************************************************)
MintedInOrder ==
    /\ \A d \in Digests : minted[d].revision = d /\ minted[d].previous = d - 1
    /\ source.pending = 0 => source.published = Len(minted)
    /\ source.pending # 0 => /\ source.pending = Len(minted)
                             /\ Len(minted) = source.published + 1

WaitsForItsRevision ==
    source.request # NoRequest =>
        /\ requests[source.request].at \in DeviceCalls
        /\ requests[source.request].kind = "PUBLISH"
        /\ requests[source.request].named = source.pending

MailboxNotBehind ==
    ~Gone => /\ source.published <= mailbox.current
             /\ source.at = "STORED" => source.pending <= mailbox.current

SourceInv == MintedInOrder /\ WaitsForItsRevision /\ MailboxNotBehind

\* The number of a revision is its digest.
LEMMA NumbersAreDigests ==
    ASSUME MintedInOrder, NEW d \in {0} \cup Digests
    PROVE  RevisionOf(d) = d
BY DEF MintedInOrder, RevisionOf, Digests

\* Nothing is made, the source's process stops or goes on waiting, and the
\* mailbox does not go back while the grant exists.
LEMMA SourceKeeps ==
    ASSUME TypeInv, TypeInv', SourceInv, UNCHANGED minted,
           ~Gone' => ~Gone /\ mailbox.current <= mailbox'.current,
           \/ source' = SourceStopped
           \/ /\ UNCHANGED source
              /\ source.request # NoRequest =>
                    /\ requests'[source.request].at \in DeviceCalls
                    /\ requests'[source.request].kind = requests[source.request].kind
                    /\ requests'[source.request].named = requests[source.request].named
    PROVE  SourceInv'
<1>1. /\ source' \in SourceStates' /\ source \in SourceStates
      /\ mailbox \in MailboxStates /\ mailbox' \in MailboxStates'
  BY DEF TypeInv, ClientsInv, CloudInv
<1>2. /\ source'.published = source.published /\ source'.pending = source.pending
      /\ source'.at = source.at \/ source'.at = "IDLE"
      /\ source'.request \in {source.request, NoRequest}
      /\ source'.request # NoRequest => UNCHANGED source
  BY <1>1 DEF SourceStopped, SourceStates
<1>3. /\ mailbox.current \in Nat /\ mailbox'.current \in Nat
      /\ source.published \in Nat /\ source.pending \in Nat
  BY <1>1 DEF MailboxStates, SourceStates, Digests
<1>4. MintedInOrder'
  BY <1>2 DEF SourceInv, MintedInOrder, Digests
<1>5. WaitsForItsRevision'
  <2>1. CASE source' = SourceStopped
    <3>1. source'.request = NoRequest
      BY <2>1, SourceStoppedType DEF TypeInv
    <3> QED BY <3>1 DEF WaitsForItsRevision
  <2>2. CASE source' # SourceStopped
    BY <2>2 DEF SourceInv, WaitsForItsRevision
  <2> QED BY <2>1, <2>2
<1>6. MailboxNotBehind'
  <2> SUFFICES ASSUME ~Gone'
               PROVE  /\ source'.published <= mailbox'.current
                      /\ source'.at = "STORED" => source'.pending <= mailbox'.current
    BY DEF MailboxNotBehind
  <2>1. ~Gone /\ mailbox.current <= mailbox'.current
    OBVIOUS
  <2>2. source.published <= mailbox.current
    BY <2>1 DEF SourceInv, MailboxNotBehind
  <2>3. source'.at = "STORED" => source.pending <= mailbox.current
    BY <1>2, <2>1 DEF SourceInv, MailboxNotBehind
  <2> QED BY <1>2, <1>3, <2>1, <2>2, <2>3
<1> QED BY <1>4, <1>5, <1>6 DEF SourceInv

\* A step that ends request r, and with it what waits for it.
LEMMA SourceFails ==
    ASSUME TypeInv, TypeInv', SourceInv, NEW r \in Requests, Fails(r), UNCHANGED minted,
           ~Gone' => ~Gone /\ mailbox.current <= mailbox'.current
    PROVE  SourceInv'
<1>1. CASE source.request = r
  BY <1>1, SourceKeeps DEF Fails
<1>2. CASE source.request # r
  <2>1. UNCHANGED source
    BY <1>2 DEF Fails
  <2>2. source.request # NoRequest => requests'[source.request] = requests[source.request]
    BY <1>2 DEF Fails, TypeInv, ClientsInv, SourceStates
  <2> QED BY <2>1, <2>2, SourceKeeps DEF SourceInv, WaitsForItsRevision
<1> QED BY <1>1, <1>2

\* A step of a request for which the source does not wait.
LEMMA SourceUnconcerned ==
    ASSUME TypeInv, TypeInv', SourceInv, NEW r \in Requests, UNCHANGED <<minted, source>>,
           ~Gone' => ~Gone /\ mailbox.current <= mailbox'.current,
           \A s \in Requests : s # r => requests'[s] = requests[s],
           requests[r].at \notin DeviceCalls \/ requests[r].kind # "PUBLISH"
    PROVE  SourceInv'
<1>1. source.request # NoRequest => requests'[source.request] = requests[source.request]
  BY DEF SourceInv, WaitsForItsRevision, TypeInv, ClientsInv, SourceStates
<1> QED BY <1>1, SourceKeeps DEF SourceInv, WaitsForItsRevision

\* The calls of the owner keep the source's journal right.
LEMMA OwnerCallsSource ==
    ASSUME TypeInv, TypeInv', FollowsInv, SourceInv, NEW r \in Requests,
           \/ CreateGrant(r) \/ Initialize(r) \/ Activate(r)
           \/ RevokeGrant(r) \/ RevokeMailbox(r) \/ MarkRevoked(r)
           \/ DeleteGrant(r) \/ MarkDeleting(r) \/ Destroy(r) \/ MarkDeleted(r)
    PROVE  SourceInv'
<1>0. /\ requests \in [Requests -> RequestStates] /\ source \in SourceStates
      /\ grant \in GrantRows /\ mailbox \in MailboxStates /\ mailbox.current \in Nat
  BY DEF TypeInv, ClientsInv, CloudInv, MailboxStates, Digests
<1>1. CASE \/ CreateGrant(r) \/ Initialize(r) \/ Activate(r) \/ RevokeGrant(r)
          \/ DeleteGrant(r) \/ MarkDeleting(r) \/ Destroy(r) \/ MarkDeleted(r)
  <2>1. requests[r].at \notin DeviceCalls
    BY <1>1 DEF CreateGrant, Initialize, Activate, RevokeGrant, DeleteGrant, MarkDeleting,
                Destroy, MarkDeleted, At, DeviceCalls
  <2>2. UNCHANGED <<minted, source>>
    BY <1>1 DEF CreateGrant, Initialize, Activate, RevokeGrant, DeleteGrant, MarkDeleting,
                Destroy, MarkDeleted, clients
  <2>3. \A s \in Requests : s # r => requests'[s] = requests[s]
    BY <1>0, <1>1 DEF CreateGrant, Initialize, Activate, RevokeGrant, DeleteGrant, MarkDeleting,
                Destroy, MarkDeleted, Ends, Goes
  <2>4. ~Gone' => ~Gone /\ mailbox.current <= mailbox'.current
    <3>1. CASE MarkDeleting(r) \/ MarkDeleted(r)
      <4>1. grant'.state \in {"DELETING", "DELETED"}
        BY <1>0, <3>1 DEF MarkDeleting, MarkDeleted, GrantRows
      <4> QED BY <4>1 DEF Gone
    <3>2. CASE Destroy(r)
      BY <3>2 DEF Destroy, FollowsInv, CallsBacked, Gone
    <3>3. CASE Initialize(r)
      <4>1. UNCHANGED grant /\ mailbox'.current = mailbox.current
        BY <1>0, <3>3 DEF Initialize, Scheduled, MailboxStates
      <4> QED BY <1>0, <4>1 DEF Gone
    <3>4. CASE CreateGrant(r) \/ Activate(r)
      <4>1. UNCHANGED mailbox /\ (Gone => Gone')
        BY <1>0, <3>4 DEF CreateGrant, Activate, Gone, GrantRows
      <4> QED BY <1>0, <4>1
    <3>5. CASE RevokeGrant(r) \/ DeleteGrant(r)
      <4>1. UNCHANGED <<grant, mailbox>>
        BY <3>5 DEF RevokeGrant, DeleteGrant, cloud
      <4> QED BY <1>0, <4>1 DEF Gone
    <3> QED BY <1>1, <3>1, <3>2, <3>3, <3>4, <3>5
  <2> QED BY <2>1, <2>2, <2>3, <2>4, SourceUnconcerned
<1>2. CASE RevokeMailbox(r)
  <2>1. UNCHANGED <<minted, source, grant>> /\ At(r, "REVOKE")
    BY <1>2 DEF RevokeMailbox, clients
  <2>2. mailbox'.current = mailbox.current
    BY <1>0, <1>2 DEF RevokeMailbox, MailboxStates
  <2>3. ~Gone' => ~Gone /\ mailbox.current <= mailbox'.current
    BY <1>0, <2>1, <2>2 DEF Gone
  <2>4. \A s \in Requests : s # r => requests'[s] = requests[s]
    BY <1>0, <1>2 DEF RevokeMailbox, Ends, Goes
  <2>5. CASE requests[r].kind = "PUBLISH"
    <3>1. Goes(r, "MARK_REVOKED")
      BY <1>2, <2>5 DEF RevokeMailbox
    <3>2. requests'[r] = [requests[r] EXCEPT !.at = "MARK_REVOKED"]
      BY <1>0, <3>1 DEF Goes
    <3>3. /\ requests'[r].at \in DeviceCalls /\ requests'[r].kind = requests[r].kind
          /\ requests'[r].named = requests[r].named
      BY <1>0, <2>1, <2>5, <3>2 DEF RequestStates, At, Idle, OwnerCalls, DeviceCalls
    <3>4. source.request # NoRequest =>
             /\ requests'[source.request].at \in DeviceCalls
             /\ requests'[source.request].kind = requests[source.request].kind
             /\ requests'[source.request].named = requests[source.request].named
      BY <1>0, <2>4, <3>3 DEF SourceInv, WaitsForItsRevision, SourceStates
    <3> QED BY <2>1, <2>3, <3>4, SourceKeeps
  <2>6. CASE requests[r].kind # "PUBLISH"
    BY <2>1, <2>3, <2>4, <2>6, SourceUnconcerned
  <2> QED BY <2>5, <2>6
<1>3. CASE MarkRevoked(r)
  <2>1. UNCHANGED <<minted, mailbox>> /\ Fails(r)
    BY <1>3 DEF MarkRevoked
  <2>2. Gone' = Gone
    BY <1>0, <1>3 DEF MarkRevoked, Gone, GrantRows
  <2> QED BY <1>0, <2>1, <2>2, SourceFails
<1> QED BY <1>1, <1>2, <1>3

\* The requests of the devices keep the source's journal right.
LEMMA DeviceCallsSource ==
    ASSUME TypeInv, TypeInv', SourceInv, NEW r \in Requests,
           \/ Route(r) \/ Admit(r) \/ Store(r) \/ Serve(r) \/ Acknowledge(r)
           \/ RequestLost(r) \/ Fetch(r) \/ SendAcknowledgement(r)
    PROVE  SourceInv'
<1>0. /\ requests \in [Requests -> RequestStates] /\ source \in SourceStates
      /\ mailbox \in MailboxStates /\ mailbox.current \in Nat
  BY DEF TypeInv, ClientsInv, CloudInv, MailboxStates, Digests
<1>1. ASSUME UNCHANGED <<grant, mailbox>>
      PROVE  ~Gone' => ~Gone /\ mailbox.current <= mailbox'.current
  BY <1>0, <1>1 DEF Gone
<1>2. CASE Route(r) \/ Admit(r)
  <2>1. UNCHANGED <<grant, mailbox, minted>>
    BY <1>2 DEF Route, Admit, cloud
  <2>2. CASE Fails(r)
    BY <1>1, <2>1, <2>2, SourceFails
  <2>3. CASE ~Fails(r)
    <3>1. UNCHANGED source
      BY <1>2, <2>3 DEF Route, Admit
    <3>2. \/ \E at \in {"ROUTED", "REVOKE"} :
                requests' = [requests EXCEPT ![r].at = at, ![r].time = now]
          \/ requests' = [requests EXCEPT ![r].at = "ADMITTED"]
      BY <1>2, <2>3 DEF Route, Admit, Goes
    <3>3. /\ requests[r] \in RequestStates /\ requests[r].at \in {"SENT", "ROUTED"}
          /\ requests[r].kind \in DeviceKinds
      BY <1>0, <1>2, DeviceRequest DEF Route, Admit, At, TypeInv
    <3>4. \E at \in {"ROUTED", "REVOKE", "ADMITTED"} :
             \/ requests'[r] = [requests[r] EXCEPT !.at = at, !.time = now]
             \/ requests'[r] = [requests[r] EXCEPT !.at = at]
      BY <1>0, <3>2
    <3>5. /\ requests'[r].at \in DeviceCalls /\ requests'[r].kind = requests[r].kind
          /\ requests'[r].named = requests[r].named
      <4>1. requests[r] \in [at : DeviceCalls, kind : DeviceKinds,
                             named : Nat, sequence : Nat, time : Nat]
        BY <3>3 DEF RequestStates, Idle, OwnerCalls, DeviceCalls, DeviceKinds, Digests
      <4>2. PICK at \in {"ROUTED", "REVOKE", "ADMITTED"} :
               \/ requests'[r] = [requests[r] EXCEPT !.at = at, !.time = now]
               \/ requests'[r] = [requests[r] EXCEPT !.at = at]
        BY <3>4
      <4> QED BY <4>1, <4>2 DEF DeviceCalls
    <3>6. \A s \in Requests : s # r => requests'[s] = requests[s]
      BY <1>0, <3>2
    <3>7. source.request # NoRequest =>
             /\ requests'[source.request].at \in DeviceCalls
             /\ requests'[source.request].kind = requests[source.request].kind
             /\ requests'[source.request].named = requests[source.request].named
      BY <1>0, <3>5, <3>6 DEF SourceInv, WaitsForItsRevision, SourceStates
    <3> QED BY <1>1, <2>1, <3>1, <3>7, SourceKeeps
  <2> QED BY <2>2, <2>3
<1>3. CASE Store(r)
  <2> DEFINE d == requests[r].named
             stored == [mailbox EXCEPT !.kept = @ \cup {d}, !.current = d]
  <2>1. UNCHANGED <<grant, minted>> /\ d \in Digests
    BY <1>3, DeviceRequest DEF Store, At, DeviceKinds, TypeInv
  <2>2. CASE Fails(r) /\ UNCHANGED mailbox
    BY <1>1, <2>1, <2>2, SourceFails
  <2>3. CASE AnswersSource(r, "STORED") /\ mailbox'.current = d /\ mailbox.current <= d
    <3>1. ~Gone' => ~Gone /\ mailbox.current <= mailbox'.current
      BY <2>1, <2>3 DEF Gone
    <3>2. CASE source.request # r
      <4>1. UNCHANGED source
        BY <2>3, <3>2 DEF AnswersSource
      <4>2. source.request # NoRequest => requests'[source.request] = requests[source.request]
        BY <1>0, <2>3, <3>2 DEF AnswersSource, SourceStates
      <4> QED BY <2>1, <3>1, <4>1, <4>2, SourceKeeps DEF SourceInv, WaitsForItsRevision
    <3>3. CASE source.request = r
      <4>1. /\ source' = [source EXCEPT !.at = "STORED", !.request = NoRequest]
            /\ d = source.pending
        BY <2>3, <3>3 DEF AnswersSource, SourceInv, WaitsForItsRevision
      <4>2. /\ source'.at = "STORED" /\ source'.request = NoRequest
            /\ source'.published = source.published /\ source'.pending = source.pending
        BY <1>0, <4>1 DEF SourceStates
      <4>3. MintedInOrder'
        BY <2>1, <4>2 DEF SourceInv, MintedInOrder, Digests
      <4>4. WaitsForItsRevision'
        BY <4>2 DEF WaitsForItsRevision
      <4>5. source.published \in Nat /\ d \in Nat
        BY <1>0, <2>1 DEF SourceStates, Digests
      <4>6. MailboxNotBehind'
        BY <1>0, <2>3, <3>1, <4>1, <4>2, <4>5 DEF SourceInv, MailboxNotBehind
      <4> QED BY <4>3, <4>4, <4>6 DEF SourceInv
    <3> QED BY <3>2, <3>3
  <2>4. CASE /\ AnswersSource(r, "STORED")
             /\ d = mailbox.current /\ mailbox' = Scheduled(mailbox)
    BY <1>0, <2>3, <2>4, ScheduledFields
  <2>5. CASE /\ AnswersSource(r, "STORED")
             /\ Extends(d) /\ mailbox' = Scheduled(stored)
    <3>1. mailbox.current = d - 1
      BY <2>1, <2>5 DEF Extends, SourceInv, MintedInOrder
    <3>2. stored \in MailboxStates /\ stored.current = d
      BY <1>0, <2>1 DEF MailboxStates
    <3>3. mailbox'.current = d
      <4> HIDE DEF stored
      <4> QED BY <2>5, <3>2, ScheduledFields
    <3>4. d \in Nat
      BY <2>1 DEF Digests
    <3> QED BY <2>3, <2>5, <3>1, <3>3, <3>4
  <2> QED BY <1>3, <2>2, <2>4, <2>5 DEF Store
<1>4. CASE Serve(r) \/ Acknowledge(r)
  <2>1. UNCHANGED <<grant, minted>> /\ requests[r].kind # "PUBLISH"
    BY <1>4 DEF Serve, Acknowledge
  <2>2. mailbox'.current = mailbox.current
    BY <1>0, <1>4 DEF Serve, Acknowledge, Scheduled, Accepting, WithAcknowledged, MailboxStates
  <2>3. ~Gone' => ~Gone /\ mailbox.current <= mailbox'.current
    BY <1>0, <2>1, <2>2 DEF Gone
  <2>4. CASE Fails(r)
    BY <2>1, <2>3, <2>4, SourceFails
  <2>5. CASE ~Fails(r)
    <3>1. UNCHANGED source /\ \A s \in Requests : s # r => requests'[s] = requests[s]
      BY <1>0, <1>4, <2>5 DEF Serve, Acknowledge, AnswersDestination
    <3> QED BY <2>1, <2>3, <3>1, SourceUnconcerned
  <2> QED BY <2>4, <2>5
<1>5. CASE RequestLost(r)
  BY <1>1, <1>5, SourceFails DEF RequestLost, cloud
<1>6. CASE Fetch(r) \/ SendAcknowledgement(r)
  <2>1. /\ UNCHANGED <<grant, mailbox, minted, source>> /\ requests[r].at = "IDLE"
        /\ \A s \in Requests : s # r => requests'[s] = requests[s]
    BY <1>0, <1>6 DEF Fetch, SendAcknowledgement, Ask, At, cloud
  <2> QED BY <1>1, <2>1, SourceUnconcerned DEF DeviceCalls
<1> QED BY <1>2, <1>3, <1>4, <1>5, <1>6

\* The source's own steps keep its journal right.
LEMMA SourceOwnSteps ==
    ASSUME TypeInv, TypeInv', SourceInv,
           (\E r \in Requests : Publish(r)) \/ RecordPublished \/ SourceStops
    PROVE  SourceInv'
<1>0. /\ requests \in [Requests -> RequestStates] /\ source \in SourceStates
      /\ mailbox \in MailboxStates /\ mailbox.current \in Nat
      /\ minted \in Seq(Revisions) /\ source.published \in Nat
  <2>1. source \in SourceStates /\ mailbox \in MailboxStates
    BY DEF TypeInv, ClientsInv, CloudInv
  <2>2. source.published \in Nat
    BY <2>1 DEF SourceStates, Digests
  <2>3. mailbox.current \in Nat
    BY <2>1 DEF MailboxStates, Digests
  <2> QED BY <2>1, <2>2, <2>3 DEF TypeInv, ClientsInv, CloudInv
<1>1. ASSUME NEW r \in Requests, Publish(r) PROVE SourceInv'
  <2> DEFINE sent == IF source.pending # 0 THEN source.pending ELSE Len(minted')
  <2>1. source' = [source EXCEPT !.at = "PUBLISHING", !.request = r, !.pending = sent]
    BY <1>0, <1>1 DEF Publish, SourceStates
  <2>2. /\ source'.at = "PUBLISHING" /\ source'.request = r /\ source'.pending = sent
        /\ source'.published = source.published
    <3> HIDE DEF sent
    <3> QED BY <1>0, <2>1 DEF SourceStates
  <2>3. UNCHANGED <<grant, mailbox>>
    BY <1>1 DEF Publish, cloud
  <2>4. MintedInOrder'
    <3>1. CASE source.pending # 0
      <4>1. UNCHANGED minted /\ source'.pending = source.pending
        BY <1>1, <2>2, <3>1 DEF Publish
      <4> QED BY <2>2, <4>1 DEF SourceInv, MintedInOrder, Digests
    <3>2. CASE source.pending = 0
      <4> DEFINE n == Len(minted) + 1
      <4>1. minted' = Append(minted, NewRevision) /\ source.published = Len(minted)
        BY <1>1, <3>2 DEF Publish, SourceInv, MintedInOrder
      <4>2. /\ Len(minted') = n /\ Digests' = 1 .. n /\ minted'[n] = NewRevision
            /\ \A d \in Digests : minted'[d] = minted[d]
            /\ n \in Nat
        BY <1>0, <4>1 DEF Digests
      <4>3. RevisionOf(source.published) = source.published
        BY <1>0, NumbersAreDigests DEF SourceInv, SourceStates
      <4>4. NewRevision.revision = n /\ NewRevision.previous = n - 1
        BY <1>0, <4>1, <4>3 DEF NewRevision
      <4>5. ASSUME NEW d \in Digests'
            PROVE  minted'[d].revision = d /\ minted'[d].previous = d - 1
        <5>1. CASE d = n
          BY <4>2, <4>4, <5>1
        <5>2. CASE d # n
          <6>1. d \in Digests
            BY <1>0, <4>2, <5>2 DEF Digests
          <6> QED BY <4>2, <6>1 DEF SourceInv, MintedInOrder
        <5> QED BY <5>1, <5>2
      <4>6. source'.pending = n
        BY <2>2, <3>2, <4>2
      <4>7. /\ source'.pending = Len(minted') /\ source'.pending # 0
            /\ Len(minted') = source'.published + 1
        BY <1>0, <2>2, <4>1, <4>2, <4>6
      <4> QED BY <4>5, <4>7 DEF MintedInOrder
    <3> QED BY <3>1, <3>2
  <2>5. WaitsForItsRevision'
    <3>1. requests' = [requests EXCEPT ![r] = Sent("PUBLISH", sent, 0)]
      BY <1>1, <2>2 DEF Publish
    <3>2. requests'[r] = Sent("PUBLISH", sent, 0)
      <4> HIDE DEF sent
      <4> QED BY <1>0, <3>1
    <3> HIDE DEF sent
    <3> QED BY <2>2, <3>2 DEF WaitsForItsRevision, Sent, DeviceCalls
  <2>6. MailboxNotBehind'
    BY <2>2, <2>3 DEF SourceInv, MailboxNotBehind, Gone
  <2> QED BY <2>4, <2>5, <2>6 DEF SourceInv
<1>2. CASE RecordPublished
  <2>1. UNCHANGED <<grant, mailbox, minted>> /\ source.at = "STORED"
    BY <1>2 DEF RecordPublished, cloud
  <2>2. /\ source'.at = "IDLE" /\ source'.request = NoRequest
        /\ source'.published = source.pending /\ source'.pending = 0
    BY <1>0, <1>2 DEF RecordPublished, SourceStopped, SourceStates
  <2>3. source.pending # 0
    BY <2>1 DEF TypeInv, ClientsInv, StepsBacked
  <2>4. MintedInOrder'
    BY <2>1, <2>2, <2>3 DEF SourceInv, MintedInOrder, Digests
  <2>5. WaitsForItsRevision'
    BY <2>2 DEF WaitsForItsRevision
  <2>6. MailboxNotBehind'
    BY <2>1, <2>2 DEF SourceInv, MailboxNotBehind, Gone
  <2> QED BY <2>4, <2>5, <2>6 DEF SourceInv
<1>3. CASE SourceStops
  <2>1. UNCHANGED <<grant, mailbox, minted>> /\ source' = SourceStopped
    BY <1>3 DEF SourceStops, cloud
  <2> QED BY <1>0, <2>1, SourceKeeps DEF Gone
<1> QED BY <1>1, <1>2, <1>3

\* Every step keeps the source's journal right.
LEMMA SourceStep ==
    ASSUME TypeInv, TypeInv', FollowsInv, SourceInv, [Next]_vars
    PROVE  SourceInv'
<1>0. /\ requests \in [Requests -> RequestStates] /\ source \in SourceStates
      /\ mailbox \in MailboxStates /\ mailbox.current \in Nat
  BY DEF TypeInv, ClientsInv, CloudInv, MailboxStates, Digests
<1>1. ASSUME UNCHANGED <<grant, minted, source, requests>>, mailbox'.current = mailbox.current
      PROVE  SourceInv'
  BY <1>0, <1>1, SourceKeeps DEF SourceInv, WaitsForItsRevision, Gone
<1>2. ASSUME NEW r \in Requests, RequestStep(r) PROVE SourceInv'
  BY <1>2, OwnerCallsSource, DeviceCallsSource, SourceOwnSteps DEF RequestStep
<1>3. ASSUME NEW r \in Requests, NEW s \in Requests, Duplicate(r, s) PROVE SourceInv'
  <2>1. /\ UNCHANGED <<grant, mailbox, minted, source>> /\ requests[s].at = "IDLE"
        /\ \A t \in Requests : t # s => requests'[t] = requests[t]
    BY <1>0, <1>3 DEF Duplicate, At, cloud, clients
  <2> QED BY <1>0, <2>1, SourceUnconcerned DEF DeviceCalls, Gone
<1>4. ASSUME NEW v \in Devices, RevokeDevice(v) PROVE SourceInv'
  BY <1>1, <1>4 DEF RevokeDevice, clients
<1>5. CASE AlarmFires
  <2>1. mailbox'.current = mailbox.current
    BY <1>0, <1>5 DEF AlarmFires, Scheduled, MailboxStates
  <2> QED BY <1>1, <1>5, <2>1 DEF AlarmFires, clients
<1>6. CASE Evict
  <2>1. UNCHANGED <<grant, minted>> /\ mailbox'.current = mailbox.current
    BY <1>0, <1>6 DEF Evict, MailboxStates
  <2>2. CASE source' = SourceStopped
    BY <1>0, <2>1, <2>2, SourceKeeps DEF Gone
  <2>3. CASE source' # SourceStopped
    <3>1. UNCHANGED source /\ (source.request # NoRequest =>
                                requests'[source.request] = requests[source.request])
      BY <1>0, <1>6, <2>3 DEF Evict, SourceStates
    <3> QED BY <1>0, <2>1, <3>1, SourceKeeps DEF SourceInv, WaitsForItsRevision, Gone
  <2> QED BY <2>2, <2>3
<1>7. CASE RecordPublished \/ SourceStops
  BY <1>7, SourceOwnSteps
<1>8. CASE Tick \/ UNCHANGED vars \/ BeginApply \/ Flush \/ RecordApplied \/ DestinationStops
  <2>1. UNCHANGED <<grant, mailbox, minted, source, requests>>
    BY <1>8 DEF Tick, vars, BeginApply, Flush, RecordApplied, DestinationStops, cloud, clients
  <2> QED BY <1>1, <2>1
<1> QED BY <1>2, <1>3, <1>4, <1>5, <1>6, <1>7, <1>8 DEF Next

\* The source's journal is right throughout.
LEMMA SourceInvariant == Spec => [](TypeInv /\ SourceInv)
<1>1. Init => SourceInv
  <2> SUFFICES ASSUME Init PROVE SourceInv
    OBVIOUS
  <2>1. /\ Digests = {} /\ Len(minted) = 0 /\ source.request = NoRequest
        /\ source.published = 0 /\ source.pending = 0 /\ source.at = "IDLE"
        /\ mailbox.current = 0
    BY DEF Init, NoMailbox, Digests
  <2> QED BY <2>1 DEF SourceInv, MintedInOrder, WaitsForItsRevision, MailboxNotBehind
<1> QED BY <1>1, GrantInvariants, SourceStep, PTL DEF Spec

\* The source is never taken for a fork of its own chain: an active grant's
\* mailbox is where the journal says it is, or at the pending revision.
THEOREM SourceNeverForks == Spec => []SourceCanResume
<1>1. TypeInv /\ SourceInv => SourceCanResume
  <2> SUFFICES ASSUME TypeInv, SourceInv, grant.state = "ACTIVE"
               PROVE  mailbox.current \in {source.published} \cup ({source.pending} \ {0})
    BY DEF SourceCanResume
  <2>1. /\ mailbox.current \in {0} \cup Digests /\ source.published \in {0} \cup Digests
        /\ minted \in Seq(Revisions)
    BY DEF TypeInv, CloudInv, ClientsInv, MailboxStates, SourceStates
  <2>2. /\ mailbox.current \in Nat /\ source.published \in Nat /\ Len(minted) \in Nat
        /\ mailbox.current <= Len(minted)
    BY <2>1 DEF Digests
  <2>3. source.published <= mailbox.current
    BY DEF SourceInv, MailboxNotBehind, Gone
  <2> QED BY <2>2, <2>3 DEF SourceInv, MintedInOrder
<1> QED BY <1>1, SourceInvariant, PTL

-------------------------------------------------------------------------------
(***************************************************************************)
(* The destination.  The profile is ahead of the journal by at most the    *)
(* revision that is being applied, and the journal is ahead of whatever    *)
(* acknowledgement is on its way, first or repeated.                       *)
(***************************************************************************)
ProfileAtJournal ==
    /\ destination.at \in {"APPLYING", "FLUSHED"} =>
          /\ destination.fetched = destination.applied + 1
          /\ destination.profile.digest = destination.fetched
    /\ destination.at = "FLUSHED" => destination.profile.whole
    /\ \/ destination.profile = [digest |-> destination.applied, whole |-> TRUE]
       \/ destination.profile.digest = destination.applied + 1

NothingAcknowledgedEarly ==
    /\ mailbox.acknowledged <= destination.applied
    /\ \A r \in Requests :
          requests[r].at \in {"SENT", "ROUTED", "ADMITTED"} /\ requests[r].kind = "ACKNOWLEDGE"
             => requests[r].named <= destination.applied

DestinationInv == ProfileAtJournal /\ NothingAcknowledgedEarly

\* The destination's process starts nothing, or stops.
LEMMA DestinationKeeps ==
    ASSUME TypeInv, DestinationInv,
           mailbox'.acknowledged = mailbox.acknowledged,
           \A r \in Requests :
              requests'[r].at \in {"SENT", "ROUTED", "ADMITTED"}
                 /\ requests'[r].kind = "ACKNOWLEDGE" =>
              \E s \in Requests :
                 /\ requests[s].at \in {"SENT", "ROUTED", "ADMITTED"}
                 /\ requests[s].kind = "ACKNOWLEDGE"
                 /\ requests'[r].named = requests[s].named,
           \/ UNCHANGED destination
           \/ /\ destination'.at \notin {"APPLYING", "FLUSHED"}
              /\ destination'.applied = destination.applied
              /\ destination'.profile = destination.profile
    PROVE  DestinationInv'
<1>1. ProfileAtJournal'
  BY DEF DestinationInv, ProfileAtJournal
<1>2. destination'.applied = destination.applied
  OBVIOUS
<1>3. NothingAcknowledgedEarly'
  BY <1>2 DEF DestinationInv, NothingAcknowledgedEarly
<1> QED BY <1>1, <1>3 DEF DestinationInv

\* What a destination keeps whose process ended.
LEMMA DestinationStoppedFields ==
    ASSUME TypeInv
    PROVE  /\ DestinationStopped.at = "IDLE"
           /\ DestinationStopped.applied = destination.applied
           /\ DestinationStopped.profile = destination.profile
BY DEF TypeInv, ClientsInv, DestinationStopped, DestinationStates

\* A request that is over, or whose sender gives it up.
LEMMA DestinationFails ==
    ASSUME TypeInv, DestinationInv, NEW r \in Requests,
           mailbox'.acknowledged = mailbox.acknowledged,
           requests' = [requests EXCEPT ![r] = Idle],
           destination' \in {destination, DestinationStopped}
    PROVE  DestinationInv'
<1>1. \A s \in Requests : requests'[s] \in {Idle, requests[s]}
  BY DEF TypeInv, ClientsInv
<1> QED BY <1>1, DestinationKeeps, DestinationStoppedFields DEF Idle

\* Steps of requests that acknowledge nothing.
LEMMA RequestsOnTheirWay ==
    ASSUME TypeInv, DestinationInv, NEW r \in Requests,
           \/ CreateGrant(r) \/ Initialize(r) \/ Activate(r)
           \/ RevokeGrant(r) \/ RevokeMailbox(r) \/ MarkRevoked(r)
           \/ DeleteGrant(r) \/ MarkDeleting(r) \/ MarkDeleted(r)
           \/ Route(r) \/ Admit(r) \/ Store(r) \/ RequestLost(r) \/ Publish(r)
    PROVE  DestinationInv'
<1>0. /\ requests \in [Requests -> RequestStates] /\ mailbox \in MailboxStates
      /\ source \in SourceStates
  BY DEF TypeInv, ClientsInv, CloudInv
<1>1. CASE \/ CreateGrant(r) \/ Initialize(r) \/ Activate(r) \/ RevokeGrant(r)
          \/ RevokeMailbox(r) \/ DeleteGrant(r) \/ MarkDeleting(r) \/ MarkDeleted(r)
  <2>1. UNCHANGED destination
    BY <1>1 DEF CreateGrant, Initialize, Activate, RevokeGrant, RevokeMailbox, DeleteGrant,
                MarkDeleting, MarkDeleted, clients
  <2>2. mailbox'.acknowledged = mailbox.acknowledged
    BY <1>0, <1>1
    DEF CreateGrant, Initialize, Activate, RevokeGrant, RevokeMailbox, DeleteGrant,
        MarkDeleting, MarkDeleted, cloud, Scheduled, MailboxStates
  <2>3. \A s \in Requests : s # r => requests'[s] = requests[s]
    BY <1>0, <1>1
    DEF CreateGrant, Initialize, Activate, RevokeGrant, RevokeMailbox, DeleteGrant,
        MarkDeleting, MarkDeleted, Ends, Goes
  <2>4. requests'[r].at \notin {"SENT", "ROUTED", "ADMITTED"}
    <3>1. \/ requests'[r] = Idle
          \/ \E at \in OwnerCalls :
                \/ requests'[r] = OwnerCall(at)
                \/ /\ requests[r].at \in OwnerCalls
                   /\ requests'[r] = [requests[r] EXCEPT !.at = at]
      BY <1>0, <1>1
      DEF CreateGrant, Initialize, Activate, RevokeGrant, RevokeMailbox, DeleteGrant,
          MarkDeleting, MarkDeleted, Ends, Goes, At, OwnerCalls
    <3>2. ASSUME NEW at \in OwnerCalls, requests[r].at \in OwnerCalls
          PROVE  [requests[r] EXCEPT !.at = at].at = at
      BY <1>0, <3>2 DEF RequestStates, Idle, OwnerCalls, DeviceCalls
    <3>3. Idle.at \notin {"SENT", "ROUTED", "ADMITTED"}
      BY DEF Idle
    <3>4. ASSUME NEW at \in OwnerCalls
          PROVE  /\ OwnerCall(at).at = at
                 /\ at \notin {"SENT", "ROUTED", "ADMITTED"}
      BY DEF OwnerCall, OwnerCalls
    <3>5. CASE requests'[r] = Idle
      BY <3>3, <3>5
    <3>6. ASSUME NEW at \in OwnerCalls,
                 \/ requests'[r] = OwnerCall(at)
                 \/ /\ requests[r].at \in OwnerCalls
                    /\ requests'[r] = [requests[r] EXCEPT !.at = at]
          PROVE  requests'[r].at = at
      BY <3>2, <3>4, <3>6
    <3> QED BY <3>1, <3>4, <3>5, <3>6
  <2> QED BY <2>1, <2>2, <2>3, <2>4, DestinationKeeps
<1>2. CASE MarkRevoked(r) \/ RequestLost(r)
  BY <1>2, DestinationFails DEF MarkRevoked, RequestLost, Fails, cloud
<1>3. CASE Store(r)
  <2>1. mailbox'.acknowledged = mailbox.acknowledged
    BY <1>0, <1>3 DEF Store, Scheduled, MailboxStates
  <2>2. /\ requests' = [requests EXCEPT ![r] = Idle]
        /\ destination' \in {destination, DestinationStopped}
    BY <1>3 DEF Store, Fails, AnswersSource
  <2> QED BY <2>1, <2>2, DestinationFails
<1>4. CASE Route(r) \/ Admit(r)
  <2>1. UNCHANGED mailbox
    BY <1>4 DEF Route, Admit, cloud
  <2>2. CASE Fails(r)
    BY <2>1, <2>2, DestinationFails DEF Fails
  <2>3. CASE ~Fails(r)
    <3>1. UNCHANGED destination
      BY <1>4, <2>3 DEF Route, Admit
    <3>2. \/ \E at \in {"ROUTED", "REVOKE"} :
                requests' = [requests EXCEPT ![r].at = at, ![r].time = now]
          \/ requests' = [requests EXCEPT ![r].at = "ADMITTED"]
      BY <1>4, <2>3 DEF Route, Admit, Goes
    <3>3. /\ requests[r] \in RequestStates /\ requests[r].at \in {"SENT", "ROUTED"}
          /\ requests[r].kind \in DeviceKinds
      BY <1>0, <1>4, DeviceRequest DEF Route, Admit, At, TypeInv
    <3>4. \E at \in {"ROUTED", "REVOKE", "ADMITTED"} :
             \/ requests'[r] = [requests[r] EXCEPT !.at = at, !.time = now]
             \/ requests'[r] = [requests[r] EXCEPT !.at = at]
      BY <1>0, <3>2
    <3>5. requests'[r].kind = requests[r].kind /\ requests'[r].named = requests[r].named
      <4>1. requests[r] \in [at : DeviceCalls, kind : DeviceKinds,
                             named : Nat, sequence : Nat, time : Nat]
        BY <3>3 DEF RequestStates, Idle, OwnerCalls, DeviceCalls, DeviceKinds, Digests
      <4> QED BY <3>4, <4>1
    <3>6. \A s \in Requests : s # r => requests'[s] = requests[s]
      BY <1>0, <3>2
    <3> QED BY <2>1, <3>1, <3>3, <3>5, <3>6, DestinationKeeps
  <2> QED BY <2>2, <2>3
<1>5. CASE Publish(r)
  <2>1. UNCHANGED <<mailbox, destination>>
    BY <1>5 DEF Publish, cloud
  <2>2. PICK n : requests' = [requests EXCEPT ![r] = Sent("PUBLISH", n, 0)]
    BY <1>5 DEF Publish
  <2>3. /\ \A s \in Requests : s # r => requests'[s] = requests[s]
        /\ requests'[r].kind = "PUBLISH"
    BY <1>0, <2>2 DEF Sent
  <2> QED BY <2>1, <2>3, DestinationKeeps
<1> QED BY <1>1, <1>2, <1>3, <1>4, <1>5

\* Steps of requests at which the mailbox may acknowledge or forget.
LEMMA AcknowledgementsArrive ==
    ASSUME TypeInv, MintedInOrder, DestinationInv, NEW r \in Requests,
           Serve(r) \/ Acknowledge(r) \/ Destroy(r)
    PROVE  DestinationInv'
<1>0. /\ requests \in [Requests -> RequestStates] /\ mailbox \in MailboxStates
      /\ destination \in DestinationStates /\ destination.applied \in Nat
  BY DEF TypeInv, ClientsInv, CloudInv, DestinationStates, Digests
<1>1. ASSUME requests' = [requests EXCEPT ![r] = Idle],
             \/ destination' \in {destination, DestinationStopped}
             \/ \E step \in {"IDLE", "FETCH", "FETCHED"} : \E d :
                   destination' = [destination EXCEPT !.at = step, !.fetched = d,
                                                      !.request = NoRequest],
             mailbox'.acknowledged <= destination.applied
      PROVE  DestinationInv'
  <2>1. /\ destination'.applied = destination.applied
        /\ destination'.profile = destination.profile
        /\ destination' = destination \/ destination'.at \notin {"APPLYING", "FLUSHED"}
    <3>1. CASE destination' \in {destination, DestinationStopped}
      BY <3>1, DestinationStoppedFields
    <3>2. CASE \E step \in {"IDLE", "FETCH", "FETCHED"} : \E d :
                   destination' = [destination EXCEPT !.at = step, !.fetched = d,
                                                      !.request = NoRequest]
      BY <1>0, <3>2 DEF DestinationStates
    <3> QED BY <1>1, <3>1, <3>2
  <2>2. \A s \in Requests : requests'[s] \in {Idle, requests[s]}
    BY <1>0, <1>1
  <2>3. ProfileAtJournal'
    BY <2>1 DEF DestinationInv, ProfileAtJournal
  <2>4. NothingAcknowledgedEarly'
    <3>1. mailbox'.acknowledged <= destination'.applied
      BY <1>1, <2>1
    <3>2. ASSUME NEW s \in Requests, requests'[s].at \in {"SENT", "ROUTED", "ADMITTED"},
                 requests'[s].kind = "ACKNOWLEDGE"
          PROVE  requests'[s].named <= destination'.applied
      <4>1. requests'[s] = requests[s]
        BY <2>2, <3>2 DEF Idle
      <4> QED BY <2>1, <3>2, <4>1 DEF DestinationInv, NothingAcknowledgedEarly
    <3> QED BY <3>1, <3>2 DEF NothingAcknowledgedEarly
  <2> QED BY <2>3, <2>4 DEF DestinationInv
<1>2. CASE Serve(r)
  <2>1. mailbox'.acknowledged = mailbox.acknowledged
    BY <1>0, <1>2 DEF Serve, Accepting, MailboxStates
  <2>2. mailbox'.acknowledged <= destination.applied
    BY <2>1 DEF DestinationInv, NothingAcknowledgedEarly
  <2>3. requests' = [requests EXCEPT ![r] = Idle]
    BY <1>2 DEF Serve, Fails, AnswersDestination
  <2>4. CASE Fails(r)
    BY <1>1, <2>2, <2>3, <2>4 DEF Fails
  <2>5. CASE AnswersDestination(r, "IDLE", 0)
    BY <1>1, <2>2, <2>3, <2>5 DEF AnswersDestination
  <2>6. ASSUME NEW d, AnswersDestination(r, "FETCHED", d) PROVE DestinationInv'
    BY <1>1, <2>2, <2>3, <2>6 DEF AnswersDestination
  <2> QED BY <1>2, <2>4, <2>5, <2>6 DEF Serve
<1>3. CASE Acknowledge(r)
  <2> DEFINE q == requests[r]
             fewer == WithAcknowledged(Accepting(q), q.named)
  <2>1. /\ q.named \in Digests /\ RevisionOf(q.named) = q.named
        /\ q.named <= destination.applied
    <3>1. q.named \in Digests /\ q.at = "ADMITTED" /\ q.kind = "ACKNOWLEDGE"
      BY <1>3, DeviceRequest DEF Acknowledge, At, DeviceKinds, TypeInv
    <3> QED BY <3>1, NumbersAreDigests DEF DestinationInv, NothingAcknowledgedEarly
  <2>2. /\ Accepting(q).acknowledged = mailbox.acknowledged
        /\ Scheduled(Accepting(q)).acknowledged = mailbox.acknowledged
        /\ Scheduled(fewer).acknowledged = q.named
    BY <1>0, <2>1 DEF Accepting, Scheduled, WithAcknowledged, MailboxStates
  <2>3. mailbox' \in {mailbox, Accepting(q), Scheduled(Accepting(q)), Scheduled(fewer)}
    BY <1>3 DEF Acknowledge
  <2> HIDE DEF fewer
  <2>4. mailbox'.acknowledged \in {mailbox.acknowledged, q.named}
    BY <2>2, <2>3
  <2>5. mailbox'.acknowledged <= destination.applied
    BY <2>1, <2>4 DEF DestinationInv, NothingAcknowledgedEarly
  <2>6. requests' = [requests EXCEPT ![r] = Idle]
    BY <1>3 DEF Acknowledge, Fails, AnswersDestination
  <2>7. CASE Fails(r)
    BY <1>1, <2>5, <2>6, <2>7 DEF Fails
  <2>8. CASE AnswersDestination(r, "FETCH", 0)
    BY <1>1, <2>5, <2>6, <2>8 DEF AnswersDestination
  <2> QED BY <1>3, <2>7, <2>8 DEF Acknowledge
<1>4. CASE Destroy(r)
  <2>1. UNCHANGED destination /\ mailbox'.acknowledged \in {mailbox.acknowledged, 0}
    BY <1>4 DEF Destroy, NoMailbox, clients
  <2>2. \A s \in Requests : s # r => requests'[s] = requests[s]
    BY <1>0, <1>4 DEF Destroy, Goes
  <2>3. requests'[r].at = "MARK_DELETED"
    <3>1. requests[r] \in RequestStates /\ requests[r].at = "DESTROY"
      BY <1>0, <1>4 DEF Destroy, At
    <3>2. [requests[r] EXCEPT !.at = "MARK_DELETED"].at = "MARK_DELETED"
      BY <3>1 DEF RequestStates, Idle, OwnerCalls, DeviceCalls
    <3> QED BY <1>0, <1>4, <3>2 DEF Destroy, Goes
  <2>4. ProfileAtJournal'
    BY <2>1 DEF DestinationInv, ProfileAtJournal
  <2>5. NothingAcknowledgedEarly'
    <3>1. mailbox'.acknowledged <= destination'.applied
      <4>1. CASE mailbox'.acknowledged = mailbox.acknowledged
        BY <2>1, <4>1 DEF DestinationInv, NothingAcknowledgedEarly
      <4>2. CASE mailbox'.acknowledged = 0
        BY <1>0, <2>1, <4>2
      <4> QED BY <2>1, <4>1, <4>2
    <3>2. ASSUME NEW s \in Requests, requests'[s].at \in {"SENT", "ROUTED", "ADMITTED"},
                 requests'[s].kind = "ACKNOWLEDGE"
          PROVE  requests'[s].named <= destination'.applied
      <4>1. requests'[s] = requests[s]
        BY <2>2, <2>3, <3>2
      <4> QED BY <2>1, <3>2, <4>1 DEF DestinationInv, NothingAcknowledgedEarly
    <3> QED BY <3>1, <3>2 DEF NothingAcknowledgedEarly
  <2> QED BY <2>4, <2>5 DEF DestinationInv
<1> QED BY <1>2, <1>3, <1>4

\* The destination's own steps keep profile and journal together.
LEMMA DestinationOwnSteps ==
    ASSUME TypeInv, MintedInOrder, DestinationInv,
           \/ \E r \in Requests : Fetch(r) \/ SendAcknowledgement(r)
           \/ BeginApply \/ Flush \/ RecordApplied \/ DestinationStops
    PROVE  DestinationInv'
<1>0. /\ requests \in [Requests -> RequestStates] /\ mailbox \in MailboxStates
      /\ destination \in DestinationStates /\ mailbox.acknowledged \in Nat
      /\ destination.profile \in Profiles
  BY DEF TypeInv, ClientsInv, CloudInv, MailboxStates, DestinationStates
<1>a. destination.applied \in Nat /\ destination.fetched \in Nat
  BY <1>0 DEF DestinationStates, Digests
<1>1. ASSUME NEW r \in Requests, NEW kind, NEW named, Ask(r, kind, named),
             kind = "ACKNOWLEDGE" => named = destination.applied
      PROVE  DestinationInv'
  <2>1. /\ destination'.at = "ASKING" /\ destination'.applied = destination.applied
        /\ destination'.profile = destination.profile /\ UNCHANGED mailbox
    BY <1>0, <1>1 DEF Ask, DestinationStates, cloud
  <2>2. \A s \in Requests : s # r => requests'[s] = requests[s]
    BY <1>0, <1>1 DEF Ask
  <2>3. requests'[r].kind = kind /\ requests'[r].named = named
    BY <1>0, <1>1 DEF Ask, Sent
  <2>4. ProfileAtJournal'
    BY <2>1 DEF DestinationInv, ProfileAtJournal
  <2>5. NothingAcknowledgedEarly'
    <3>1. mailbox'.acknowledged <= destination'.applied
      BY <2>1 DEF DestinationInv, NothingAcknowledgedEarly
    <3>2. ASSUME NEW s \in Requests, requests'[s].at \in {"SENT", "ROUTED", "ADMITTED"},
                 requests'[s].kind = "ACKNOWLEDGE"
          PROVE  requests'[s].named <= destination'.applied
      <4>1. CASE s = r
        BY <1>1, <1>a, <2>1, <2>3, <3>2, <4>1
      <4>2. CASE s # r
        BY <2>1, <2>2, <3>2, <4>2 DEF DestinationInv, NothingAcknowledgedEarly
      <4> QED BY <4>1, <4>2
    <3> QED BY <3>1, <3>2 DEF NothingAcknowledgedEarly
  <2> QED BY <2>4, <2>5 DEF DestinationInv
<1>2. ASSUME NEW r \in Requests, Fetch(r) PROVE DestinationInv'
  BY <1>1, <1>2 DEF Fetch
<1>3. ASSUME NEW r \in Requests, SendAcknowledgement(r) PROVE DestinationInv'
  BY <1>1, <1>3 DEF SendAcknowledgement
<1>4. ASSUME UNCHANGED <<mailbox, requests>>, destination'.applied \in Nat,
             destination.applied <= destination'.applied, ProfileAtJournal'
      PROVE  DestinationInv'
  <2>1. mailbox'.acknowledged <= destination'.applied
    BY <1>0, <1>4, <1>a DEF DestinationInv, NothingAcknowledgedEarly
  <2>2. ASSUME NEW s \in Requests, requests[s].at \in {"SENT", "ROUTED", "ADMITTED"},
               requests[s].kind = "ACKNOWLEDGE"
        PROVE  requests[s].named <= destination'.applied
    <3>1. requests[s].named <= destination.applied
      BY <2>2 DEF DestinationInv, NothingAcknowledgedEarly
    <3>2. requests[s].named \in Nat
      BY <2>2, DeviceRequest DEF TypeInv
    <3> QED BY <1>4, <1>a, <3>1, <3>2
  <2>3. NothingAcknowledgedEarly'
    BY <1>4, <2>1, <2>2 DEF NothingAcknowledgedEarly
  <2> QED BY <1>4, <2>3 DEF DestinationInv
<1>5. CASE BeginApply
  <2> DEFINE d == destination.fetched
             known == [destination EXCEPT !.at = "ACKNOWLEDGE", !.fetched = 0]
             begun == [destination EXCEPT !.at = "APPLYING",
                         !.profile = [digest |-> d, whole |-> FALSE]]
  <2>1. \/ destination' \in {DestinationStopped, known}
        \/ destination' = begun /\ minted[d].previous = destination.applied
    BY <1>5 DEF BeginApply
  <2>2. /\ known.at = "ACKNOWLEDGE" /\ known.applied = destination.applied
        /\ known.profile = destination.profile
        /\ begun.at = "APPLYING" /\ begun.applied = destination.applied
        /\ begun.profile.digest = d /\ begun.fetched = d
    BY <1>0 DEF DestinationStates, Profiles
  <2>3. d \in Digests
    BY <1>0, <1>5 DEF BeginApply, TypeInv, ClientsInv, StepsBacked, DestinationStates
  <2>4. minted[d].previous = d - 1 /\ d \in Nat
    BY <2>3 DEF MintedInOrder, Digests
  <2> HIDE DEF known, begun
  <2>5. CASE destination' \in {DestinationStopped, known}
    <3>1. /\ destination'.at \notin {"APPLYING", "FLUSHED"}
          /\ destination'.applied = destination.applied
          /\ destination'.profile = destination.profile
      BY <2>2, <2>5, DestinationStoppedFields
    <3>2. ProfileAtJournal'
      BY <3>1 DEF DestinationInv, ProfileAtJournal
    <3> QED BY <1>4, <1>5, <1>a, <3>1, <3>2 DEF BeginApply, cloud
  <2>6. CASE destination' = begun /\ minted[d].previous = destination.applied
    <3>1. d = destination.applied + 1
      BY <1>a, <2>4, <2>6
    <3>2. ProfileAtJournal'
      BY <2>2, <2>6, <3>1 DEF ProfileAtJournal
    <3> QED BY <1>4, <1>5, <1>a, <2>2, <2>6, <3>2 DEF BeginApply, cloud
  <2> QED BY <2>1, <2>5, <2>6
<1>6. CASE Flush
  <2>1. /\ destination'.at = "FLUSHED" /\ destination'.fetched = destination.fetched
        /\ destination'.applied = destination.applied
        /\ destination'.profile.digest = destination.profile.digest
        /\ destination'.profile.whole = TRUE /\ destination.at = "APPLYING"
    BY <1>0, <1>6 DEF Flush, DestinationStates, Profiles
  <2>2. ProfileAtJournal'
    BY <2>1 DEF DestinationInv, ProfileAtJournal
  <2> QED BY <1>4, <1>6, <1>a, <2>1, <2>2 DEF Flush, cloud
<1>7. CASE RecordApplied
  <2>1. /\ destination'.at = "ACKNOWLEDGE" /\ destination'.applied = destination.fetched
        /\ destination'.profile = destination.profile /\ destination.at = "FLUSHED"
    BY <1>0, <1>7 DEF RecordApplied, DestinationStates
  <2>2. /\ destination.fetched = destination.applied + 1
        /\ destination.profile.digest = destination.fetched /\ destination.profile.whole
    BY <2>1 DEF DestinationInv, ProfileAtJournal
  <2>3. destination.profile = [digest |-> destination.fetched, whole |-> TRUE]
    BY <1>0, <2>2 DEF Profiles
  <2>4. ProfileAtJournal'
    BY <2>1, <2>3 DEF ProfileAtJournal
  <2> QED BY <1>4, <1>7, <1>a, <2>1, <2>2, <2>4 DEF RecordApplied, cloud
<1>8. CASE DestinationStops
  <2>1. /\ destination'.at = "IDLE" /\ destination'.applied = destination.applied
        /\ destination'.profile = destination.profile
    BY <1>8, DestinationStoppedFields DEF DestinationStops
  <2>2. ProfileAtJournal'
    BY <2>1 DEF DestinationInv, ProfileAtJournal
  <2> QED BY <1>4, <1>8, <1>a, <2>1, <2>2 DEF DestinationStops, cloud
<1> QED BY <1>2, <1>3, <1>5, <1>6, <1>7, <1>8

\* Every step keeps profile, journal and acknowledgements together.
LEMMA DestinationStep ==
    ASSUME TypeInv, MintedInOrder, DestinationInv, [Next]_vars
    PROVE  DestinationInv'
<1>0. requests \in [Requests -> RequestStates] /\ mailbox \in MailboxStates
  BY DEF TypeInv, ClientsInv, CloudInv
<1>1. ASSUME NEW r \in Requests, RequestStep(r) PROVE DestinationInv'
  BY <1>1, RequestsOnTheirWay, AcknowledgementsArrive, DestinationOwnSteps DEF RequestStep
<1>2. ASSUME NEW r \in Requests, NEW s \in Requests, Duplicate(r, s) PROVE DestinationInv'
  <2>1. UNCHANGED <<mailbox, destination>>
        /\ \A t \in Requests : requests'[t] \in {requests[t], requests[r]}
    BY <1>0, <1>2 DEF Duplicate, cloud, clients
  <2> QED BY <2>1, DestinationKeeps
<1>3. ASSUME UNCHANGED <<requests, destination>>,
             mailbox'.acknowledged = mailbox.acknowledged
      PROVE  DestinationInv'
  BY <1>3, DestinationKeeps
<1>4. ASSUME NEW v \in Devices, RevokeDevice(v) PROVE DestinationInv'
  BY <1>3, <1>4 DEF RevokeDevice, clients
<1>5. CASE AlarmFires
  <2>1. mailbox'.acknowledged = mailbox.acknowledged
    BY <1>0, <1>5 DEF AlarmFires, Scheduled, MailboxStates
  <2> QED BY <1>3, <1>5, <2>1 DEF AlarmFires, clients
<1>6. CASE Evict
  <2>1. /\ mailbox'.acknowledged = mailbox.acknowledged
        /\ \A t \in Requests : requests'[t] \in {Idle, requests[t]}
        /\ destination' \in {destination, DestinationStopped}
    BY <1>0, <1>6 DEF Evict, MailboxStates
  <2> QED BY <2>1, DestinationKeeps, DestinationStoppedFields DEF Idle
<1>7. CASE RecordPublished \/ SourceStops \/ Tick \/ UNCHANGED vars
  <2>1. UNCHANGED <<mailbox, destination, requests>>
    BY <1>7 DEF RecordPublished, SourceStops, Tick, vars, cloud, clients
  <2> QED BY <1>3, <2>1
<1>8. CASE BeginApply \/ Flush \/ RecordApplied \/ DestinationStops
  BY <1>8, DestinationOwnSteps
<1> QED BY <1>1, <1>2, <1>4, <1>5, <1>6, <1>7, <1>8 DEF Next

\* The mailbox counts a revision as acknowledged only after the destination's
\* journal has it, and the journal has it only when the profile holds all of
\* it, whatever is repeated, late or interrupted.
THEOREM AcknowledgedWasFlushed == Spec => []AcknowledgedIsFlushed
<1>1. Init => DestinationInv
  <2> SUFFICES ASSUME Init PROVE DestinationInv
    OBVIOUS
  <2>1. /\ mailbox.acknowledged = 0
        /\ destination.at = "IDLE" /\ destination.applied = 0
        /\ destination.profile = [digest |-> 0, whole |-> TRUE]
    BY DEF Init, NoMailbox
  <2>2. \A r \in Requests : requests[r].at = "IDLE"
    BY DEF Init, Idle
  <2> QED BY <2>1, <2>2 DEF DestinationInv, ProfileAtJournal, NothingAcknowledgedEarly
<1>2. TypeInv /\ SourceInv /\ DestinationInv => AcknowledgedIsFlushed
  <2> SUFFICES ASSUME TypeInv, MintedInOrder, DestinationInv PROVE AcknowledgedIsFlushed
    BY DEF SourceInv
  <2>1. /\ destination.applied \in {0} \cup Digests /\ destination.profile \in Profiles
    BY DEF TypeInv, ClientsInv, DestinationStates
  <2>2. RevisionOf(destination.applied) = destination.applied
    BY <2>1, NumbersAreDigests
  <2>3. CASE destination.profile.digest = destination.applied + 1
    <3>1. destination.applied \in Nat
      BY <2>1 DEF Digests
    <3>2. /\ destination.profile.digest # 0
          /\ destination.profile.digest \in {0} \cup Digests
      BY <2>1, <2>3, <3>1 DEF Profiles
    <3>3. minted[destination.profile.digest].previous = destination.applied
      BY <2>3, <3>1, <3>2 DEF MintedInOrder
    <3> QED BY <2>2, <3>2, <3>3
          DEF AcknowledgedIsFlushed, DestinationInv, NothingAcknowledgedEarly
  <2>4. CASE destination.profile = [digest |-> destination.applied, whole |-> TRUE]
    BY <2>2, <2>4 DEF AcknowledgedIsFlushed, DestinationInv, NothingAcknowledgedEarly
  <2> QED BY <2>3, <2>4 DEF DestinationInv, ProfileAtJournal
<1>3. SourceInv => MintedInOrder
  BY DEF SourceInv
<1> QED BY <1>1, <1>2, <1>3, SourceInvariant, DestinationStep, PTL DEF Spec
===============================================================================
