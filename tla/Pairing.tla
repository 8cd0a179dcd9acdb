------------------------------ MODULE Pairing ------------------------------
(***************************************************************************)
(* The pairing of desktops with one owner's account: the challenges and    *)
(* the devices of D1 (worker/browser-control/pairing.ts, whose handlers    *)
(* are statements of D1 that interleave), the part of the retention job    *)
(* that expires and prunes challenges, and the desktop's side of the       *)
(* ceremony (main/pairing-bootstrap.ts and pairing-window.ts).             *)
(*                                                                         *)
(* A handler that is one statement is one action; it takes its instant     *)
(* when it starts, so a statement may run under an instant at which a      *)
(* challenge that is past its expiry by now was not (Instants).  Only      *)
(* consumePairing reads and then writes: it is a call with a place.        *)
(* Secrets are numbered in the order a desktop mints them; the owner's     *)
(* page may begin a pairing from any request it was ever shown.            *)
(***************************************************************************)
EXTENDS Naturals, FiniteSets

CONSTANTS
  MaxChallenges,  \* bound: pairing ids, numbered in the order beginPairing draws them
  Desktops,       \* device ids: each is the digest of one desktop's public key
  MaxConsumptions, \* bound: calls of consumePairing, numbered in their order
  Attempts,       \* the attempts a challenge starts with (5 in the code)
  MaxSecrets,     \* bound: secrets a desktop mints
  MaxGeneration,  \* bound: credential generations of a device
  None

ASSUME PairingAssumption ==
  /\ MaxChallenges \in Nat /\ MaxConsumptions \in Nat
  /\ Attempts \in Nat \ {0}
  /\ MaxSecrets \in Nat
  /\ MaxGeneration \in Nat

Challenges == 1..MaxChallenges
Consumptions == 1..MaxConsumptions

VARIABLES
  challenges,  \* table pairing_challenges
  due,         \* the challenges whose expires_at has passed
  devices,     \* table devices: status and credential generation
  desktops,    \* what each desktop's process and its runtime vault hold
  minted,      \* how many secrets each desktop has minted
  consuming    \* the calls of consumePairing in flight

pairing == <<challenges, due, devices, desktops, minted, consuming>>

Open == {"PENDING_CONFIRMATION", "CONFIRMED"}
Closed == {"EXPIRED", "REJECTED", "CONSUMED"}

\* A row of pairing_challenges; one the retention job has dropped is kept as "PRUNED".
ChallengeRows ==
  [state : Open \cup Closed \cup {"PRUNED"}, device : Desktops, secret : Nat,
   attempts : Nat, confirmed : BOOLEAN]

ASSUME NoneAssumption == None \notin ChallengeRows \cup Open \cup Closed

PairingInit ==
  /\ challenges = [c \in Challenges |-> None]
  /\ due = {}
  /\ devices = [d \in Desktops |-> [status |-> "ABSENT", generation |-> 0]]
  /\ desktops = [d \in Desktops |->
                   [secret |-> 0, paired |-> FALSE, attached |-> FALSE, waiting |-> None]]
  /\ minted = [d \in Desktops |-> 0]
  /\ consuming = [k \in Consumptions |-> None]

-----------------------------------------------------------------------------
\* The owner's side: a browser page that shows challenges and decides them.

\* Whether an instant taken by a handler that writes now is past the expiry.
Instants(c) == {FALSE, (c \in due)}

StateOf(c) == IF challenges[c] = None THEN None ELSE challenges[c].state

Becomes(c, state) == challenges' = [challenges EXCEPT ![c].state = state]

\* PairingBootstrapService.request: the secret is minted once and kept in memory.
RequestPairing(d) ==
  /\ ~desktops[d].attached
  /\ desktops[d].secret = 0
  /\ minted[d] < MaxSecrets
  /\ minted' = [minted EXCEPT ![d] = @ + 1]
  /\ desktops' = [desktops EXCEPT ![d].secret = minted[d] + 1]
  /\ UNCHANGED <<challenges, due, devices, consuming>>

BeginPairing(c, d) ==
  /\ challenges[c] = None
  /\ \A earlier \in 1..(c - 1) : challenges[earlier] # None
  /\ \E s \in 1..minted[d] :
       challenges' = [challenges EXCEPT ![c] =
         [state |-> "PENDING_CONFIRMATION", device |-> d, secret |-> s,
          attempts |-> Attempts, confirmed |-> FALSE]]
  /\ UNCHANGED <<due, devices, desktops, minted, consuming>>

Elapse(c) ==
  /\ StateOf(c) \in Open
  /\ due' = due \cup {c}
  /\ due' # due
  /\ UNCHANGED <<challenges, devices, desktops, minted, consuming>>

\* getPairingStatus: reads, and marks an open challenge it finds past its expiry.
GetPairingStatus(c) ==
  /\ StateOf(c) \in Open
  /\ c \in due
  /\ Becomes(c, "EXPIRED")
  /\ UNCHANGED <<due, devices, desktops, minted, consuming>>

ConfirmPairing(c) ==
  /\ StateOf(c) = "PENDING_CONFIRMATION"
  /\ FALSE \in Instants(c)
  /\ challenges' = [challenges EXCEPT ![c].state = "CONFIRMED", ![c].confirmed = TRUE]
  /\ UNCHANGED <<due, devices, desktops, minted, consuming>>

RejectPairing(c) ==
  /\ StateOf(c) \in Open
  /\ Becomes(c, "REJECTED")
  /\ UNCHANGED <<due, devices, desktops, minted, consuming>>

RotateDeviceCredential(d) ==
  /\ devices[d].status = "ACTIVE"
  /\ devices[d].generation < MaxGeneration
  /\ devices' = [devices EXCEPT ![d].generation = @ + 1]
  /\ UNCHANGED <<challenges, due, desktops, minted, consuming>>

RevokeDevice(d) ==
  /\ devices[d].status = "ACTIVE"
  /\ devices' = [devices EXCEPT ![d].status = "REVOKED"]
  /\ UNCHANGED <<challenges, due, desktops, minted, consuming>>

\* The retention job expires what waits for a confirmation and drops what is closed.
RetainChallenges(c) ==
  /\ c \in due
  /\ \/ StateOf(c) = "PENDING_CONFIRMATION" /\ Becomes(c, "EXPIRED")
     \/ StateOf(c) \in Closed /\ Becomes(c, "PRUNED")
  /\ UNCHANGED <<due, devices, desktops, minted, consuming>>

-----------------------------------------------------------------------------
\* consumePairing: a read, a comparison of digests, then one write.

At(k, place) == consuming[k] # None /\ consuming[k].at = place

Done == [at |-> "done"]

\* An answer that nobody waits for any more is dropped.
Answers(k, ok) ==
  consuming' = [consuming EXCEPT ![k] =
    IF \E d \in Desktops : desktops[d].waiting = k THEN [@ EXCEPT !.at = "answered", !.ok = ok]
    ELSE Done]

\* PairingBootstrapService.complete, asked by a deep link that names any challenge.
CompletePairing(d, c, k) ==
  /\ ~desktops[d].paired /\ ~desktops[d].attached
  /\ desktops[d].waiting = None
  /\ desktops[d].secret # 0
  /\ challenges[c] # None
  /\ consuming[k] = None
  /\ \A earlier \in 1..(k - 1) : consuming[earlier] # None
  /\ \E late \in Instants(c) :
       consuming' = [consuming EXCEPT ![k] =
         [at |-> "reads", challenge |-> c, secret |-> desktops[d].secret, late |-> late,
          ok |-> FALSE]]
  /\ desktops' = [desktops EXCEPT ![d].waiting = k]
  /\ UNCHANGED <<challenges, due, devices, minted>>

\* The row as it is read now; what is written later rests on it.
ConsumptionReads(k) ==
  /\ At(k, "reads")
  /\ LET call == consuming[k]
         row == challenges[call.challenge] IN
     CASE row.state # "CONFIRMED" -> Answers(k, FALSE)
       [] row.state = "CONFIRMED" /\ call.late ->
            consuming' = [consuming EXCEPT ![k].at = "expires"]
       [] row.state = "CONFIRMED" /\ ~call.late ->
            consuming' = [consuming EXCEPT ![k].at =
              IF row.secret = call.secret THEN "inserts" ELSE "misses"]
  /\ UNCHANGED <<challenges, due, devices, desktops, minted>>

ConsumptionExpires(k) ==
  /\ At(k, "expires")
  /\ LET c == consuming[k].challenge IN
     challenges' = [challenges EXCEPT ![c].state = IF @ = "CONFIRMED" THEN "EXPIRED" ELSE @]
  /\ Answers(k, FALSE)
  /\ UNCHANGED <<due, devices, desktops, minted>>

ConsumptionMisses(k) ==
  /\ At(k, "misses")
  /\ LET c == consuming[k].challenge
         row == challenges[c] IN
     challenges' = [challenges EXCEPT ![c] =
       IF row.state # "CONFIRMED" THEN row
       ELSE [row EXCEPT !.attempts = IF @ = 0 THEN 0 ELSE @ - 1,
                        !.state = IF row.attempts <= 1 THEN "REJECTED" ELSE @]]
  /\ Answers(k, FALSE)
  /\ UNCHANGED <<due, devices, desktops, minted>>

\* Seeded fault: the batch replaces a device row instead of inserting one.
ReplacesDevice(k) ==
  /\ At(k, "inserts")
  /\ LET c == consuming[k].challenge
         d == challenges[c].device IN
     /\ devices' = [devices EXCEPT ![d] = [status |-> "ACTIVE", generation |-> 1]]
     /\ challenges' = [challenges EXCEPT ![c].state = IF @ = "CONFIRMED" THEN "CONSUMED" ELSE @]
     /\ Answers(k, TRUE)
  /\ UNCHANGED <<due, desktops, minted>>

\* The batch: a device that has a row already, of whatever status, refuses all of it.
ConsumptionInserts(k) ==
  /\ At(k, "inserts")
  /\ LET c == consuming[k].challenge
         d == challenges[c].device IN
     \/ /\ devices[d].status = "ABSENT"
        /\ devices' = [devices EXCEPT ![d] = [status |-> "ACTIVE", generation |-> 1]]
        /\ challenges' =
             [challenges EXCEPT ![c].state = IF @ = "CONFIRMED" THEN "CONSUMED" ELSE @]
        /\ Answers(k, TRUE)
     \/ /\ devices[d].status # "ABSENT"
        /\ Answers(k, FALSE)
        /\ UNCHANGED <<challenges, devices>>
  /\ UNCHANGED <<due, desktops, minted>>

-----------------------------------------------------------------------------
\* The desktop's side.

\* The answer arrives: it is the desktop's own device, or the ceremony is refused.
PairingAnswered(d) ==
  LET k == desktops[d].waiting IN
  /\ k # None
  /\ At(k, "answered")
  /\ desktops' = [desktops EXCEPT
       ![d].waiting = None,
       ![d].paired = consuming[k].ok /\ challenges[consuming[k].challenge].device = d,
       ![d].secret =
         IF consuming[k].ok /\ challenges[consuming[k].challenge].device = d THEN 0 ELSE @]
  /\ consuming' = [consuming EXCEPT ![k] = Done]
  /\ UNCHANGED <<challenges, due, devices, minted>>

\* The desktop no longer waits for a call, which goes on if it is not answered yet.
Forgets(k) ==
  consuming' = [j \in Consumptions |->
    IF j = k /\ At(j, "answered") THEN Done ELSE consuming[j]]

\* The answer is lost: the desktop shows a refusal and keeps its secret.
PairingUnanswered(d) ==
  /\ desktops[d].waiting # None
  /\ desktops' = [desktops EXCEPT ![d].waiting = None]
  /\ Forgets(desktops[d].waiting)
  /\ UNCHANGED <<challenges, due, devices, minted>>

\* attachSession stores the runtime identity: from then on the desktop starts paired.
AttachSession(d) ==
  /\ desktops[d].paired /\ ~desktops[d].attached
  /\ desktops' = [desktops EXCEPT ![d].attached = TRUE]
  /\ UNCHANGED <<challenges, due, devices, minted, consuming>>

\* A restart forgets the secret and the pairing that no session was attached to.
PairingRestart(d) ==
  /\ ~desktops[d].attached
  /\ desktops[d].secret # 0 \/ desktops[d].paired
  /\ desktops' = [desktops EXCEPT ![d].secret = 0, ![d].paired = FALSE, ![d].waiting = None]
  /\ Forgets(desktops[d].waiting)
  /\ UNCHANGED <<challenges, due, devices, minted>>

PairingNext ==
  \/ \E d \in Desktops :
       \/ RequestPairing(d) \/ RotateDeviceCredential(d) \/ RevokeDevice(d)
       \/ PairingAnswered(d) \/ PairingUnanswered(d) \/ AttachSession(d) \/ PairingRestart(d)
  \/ \E c \in Challenges :
       \/ \E d \in Desktops : BeginPairing(c, d)
       \/ Elapse(c) \/ GetPairingStatus(c) \/ ConfirmPairing(c) \/ RejectPairing(c)
       \/ RetainChallenges(c)
  \/ \E k \in Consumptions :
       \/ \E d \in Desktops, c \in Challenges : CompletePairing(d, c, k)
       \/ ConsumptionReads(k) \/ ConsumptionExpires(k) \/ ConsumptionMisses(k)
       \/ ConsumptionInserts(k)

PairingSpec == PairingInit /\ [][PairingNext]_pairing

-----------------------------------------------------------------------------
\* The life of a credential, whatever challenges of the same device are being
\* consumed, revoked, expired or retried meanwhile: it appears once, for a device the
\* owner confirmed a challenge of, it is rotated only while active, and a revoked one
\* stays as it is (consumePairing's INSERT, rotateDeviceCredential, revokeDevice).
CredentialLife ==
  [][\A d \in Desktops :
       LET old == devices[d]
           new == devices'[d] IN
       \/ new = old
       \/ /\ old.status = "ABSENT"
          /\ new = [status |-> "ACTIVE", generation |-> 1]
          /\ \E c \in Challenges :
               /\ challenges[c] # None
               /\ challenges[c].device = d /\ challenges[c].confirmed
       \/ /\ old.status = "ACTIVE" /\ new.status = "ACTIVE"
          /\ new.generation = old.generation + 1
       \/ old.status = "ACTIVE" /\ new.status = "REVOKED" /\ new.generation = old.generation
     ]_devices
=============================================================================
