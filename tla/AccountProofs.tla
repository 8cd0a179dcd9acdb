----------------------------- MODULE AccountProofs -----------------------------
(***************************************************************************)
(* Theorems about the owner's account, for any number of devices,          *)
(* challenges, sessions, grants, deletions and concurrent calls: the life  *)
(* of a device's credential (Pairing), that a principal's quota is neither *)
(* leaked nor given back twice (Quotas), and that a deletion verified in   *)
(* D1 has destroyed the account's objects (AccountErasure).                *)
(***************************************************************************)
EXTENDS Pairing, Quotas, AccountErasure, FiniteSetTheorems, TLAPS

-------------------------------------------------------------------------------
(***************************************************************************)
(* Pairing: types.                                                         *)
(***************************************************************************)
DeviceRows == [status : {"ABSENT", "ACTIVE", "REVOKED"}, generation : Nat]

DesktopStates ==
  [secret : Nat, paired : BOOLEAN, attached : BOOLEAN,
   waiting : Consumptions \cup {None}]

CallPlaces == {"reads", "expires", "misses", "inserts", "answered"}

CallStates ==
  [at : CallPlaces, challenge : Challenges, secret : Nat, late : BOOLEAN,
   ok : BOOLEAN]

PairingTypeOK ==
  /\ challenges \in [Challenges -> ChallengeRows \cup {None}]
  /\ devices \in [Desktops -> DeviceRows]
  /\ desktops \in [Desktops -> DesktopStates]
  /\ minted \in [Desktops -> Nat]
  /\ consuming \in [Consumptions -> CallStates \cup {Done, None}]

(***************************************************************************)
(* What a call of consumePairing read is still true when it writes: the    *)
(* challenge exists, and one about to insert a device was confirmed.  The  *)
(* mark of a confirmation outlives the state CONFIRMED.                    *)
(***************************************************************************)
CallOf(k) == consuming[k] \in CallStates /\ consuming[k] # None

ConfirmedIsMarked ==
  \A c \in Challenges : StateOf(c) = "CONFIRMED" => challenges[c].confirmed

ReadIsStillTrue ==
  \A k \in Consumptions : CallOf(k) =>
    /\ challenges[consuming[k].challenge] # None
    /\ consuming[k].at = "inserts" => challenges[consuming[k].challenge].confirmed

PairingInv == PairingTypeOK /\ ConfirmedIsMarked /\ ReadIsStillTrue

\* A call at a place is a call of a challenge.
LEMMA CallAtPlace ==
  ASSUME PairingTypeOK, NEW k \in Consumptions, NEW place \in CallPlaces, At(k, place)
  PROVE  /\ CallOf(k)
         /\ consuming[k].at = place
         /\ consuming[k].challenge \in Challenges
BY DEF PairingTypeOK, At, Done, CallOf, CallStates, CallPlaces

LEMMA PairingInitOK == PairingInit => PairingInv
BY PairingAssumption, NoneAssumption
   DEF PairingInit, PairingInv, PairingTypeOK, DeviceRows, DesktopStates,
       ConfirmedIsMarked, ReadIsStillTrue, CallOf, StateOf, Open

(***************************************************************************)
(* A step that rewrites rows of challenges it finds, moves no call to a    *)
(* place, and takes away no mark of a confirmation.                        *)
(***************************************************************************)
RowsOnly ==
  /\ \A c \in Challenges : challenges[c] # None =>
       /\ challenges'[c] # None
       /\ challenges[c].confirmed => challenges'[c].confirmed
  /\ \A k \in Consumptions : \/ consuming'[k] \in {consuming[k], Done}
                             \/ /\ CallOf(k) /\ consuming'[k].at = "answered"
                                /\ consuming'[k].challenge = consuming[k].challenge

LEMMA RowsKeepReads ==
  ASSUME PairingInv, RowsOnly
  PROVE  ReadIsStillTrue'
<1>1. \A k \in Consumptions : CallOf(k)' => CallOf(k)
  BY DEF RowsOnly, CallOf, CallStates, CallPlaces, Done
<1>2. \A k \in Consumptions : CallOf(k) => consuming[k].challenge \in Challenges
  BY DEF CallOf, CallStates
<1>3. \A k \in Consumptions : CallOf(k)' =>
        \/ consuming'[k] = consuming[k]
        \/ consuming'[k].at = "answered" /\ consuming'[k].challenge = consuming[k].challenge
  BY DEF RowsOnly, CallOf, CallStates, CallPlaces, Done
<1> QED
  BY <1>1, <1>2, <1>3 DEF PairingInv, ReadIsStillTrue, RowsOnly

\* A challenge in a state is a row.
LEMMA StateOfRow ==
  ASSUME PairingTypeOK, NEW c \in Challenges, StateOf(c) \in Open \cup Closed
  PROVE  challenges[c] \in ChallengeRows /\ challenges[c].state = StateOf(c)
BY NoneAssumption DEF PairingTypeOK, StateOf

\* One row changes its state to another than CONFIRMED, and nothing else moves.
LEMMA BecomesKeeps ==
  ASSUME PairingInv, NEW c \in Challenges, challenges[c] \in ChallengeRows,
         NEW state \in Closed \cup {"PRUNED"}, Becomes(c, state)
  PROVE  /\ challenges' \in [Challenges -> ChallengeRows \cup {None}]
         /\ ConfirmedIsMarked'
         /\ \A b \in Challenges : challenges[b] # None =>
              challenges'[b] # None /\ (challenges[b].confirmed => challenges'[b].confirmed)
<1> DEFINE row == [challenges[c] EXCEPT !.state = state]
<1>1. row \in ChallengeRows /\ row.state = state /\ row.confirmed = challenges[c].confirmed
  BY DEF ChallengeRows
<1>2. challenges' = [challenges EXCEPT ![c] = row]
  BY DEF Becomes
<1>3. state # "CONFIRMED"
  BY DEF Closed
<1> HIDE DEF row
<1> QED
  BY <1>1, <1>2, <1>3, NoneAssumption
     DEF PairingInv, PairingTypeOK, ConfirmedIsMarked, StateOf

\* An answer leaves the calls typed, and moves none to a place but the answered one.
LEMMA AnswersKeeps ==
  ASSUME PairingTypeOK, NEW k \in Consumptions, CallOf(k), NEW ok \in BOOLEAN, Answers(k, ok)
  PROVE  /\ consuming' \in [Consumptions -> CallStates \cup {Done, None}]
         /\ \A j \in Consumptions : \/ consuming'[j] \in {consuming[j], Done}
                                    \/ /\ CallOf(j) /\ consuming'[j].at = "answered"
                                       /\ consuming'[j].challenge = consuming[j].challenge
<1> DEFINE call == [consuming[k] EXCEPT !.at = "answered", !.ok = ok]
<1>1. call \in CallStates /\ call.at = "answered" /\ call.challenge = consuming[k].challenge
  BY DEF CallOf, CallStates, CallPlaces
<1>2. \/ consuming' = [consuming EXCEPT ![k] = call]
      \/ consuming' = [consuming EXCEPT ![k] = Done]
  BY DEF Answers
<1> HIDE DEF call
<1> QED
  BY <1>1, <1>2 DEF PairingTypeOK

(***************************************************************************)
(* Each action keeps the invariant.                                        *)
(***************************************************************************)
LEMMA DesktopSteps ==
  ASSUME PairingInv, NEW d \in Desktops,
         \/ RequestPairing(d) \/ RotateDeviceCredential(d) \/ RevokeDevice(d)
         \/ AttachSession(d)
  PROVE  PairingInv'
<1>1. PairingTypeOK'
  <2>1. desktops[d] \in DesktopStates /\ devices[d] \in DeviceRows /\ minted[d] \in Nat
    BY DEF PairingInv, PairingTypeOK
  <2>2. CASE RequestPairing(d)
    <3> DEFINE row == [desktops[d] EXCEPT !.secret = minted[d] + 1]
    <3>1. row \in DesktopStates
      BY <2>1 DEF DesktopStates
    <3>2. desktops' = [desktops EXCEPT ![d] = row]
      BY <2>2 DEF RequestPairing
    <3> HIDE DEF row
    <3> QED
      BY <2>1, <2>2, <3>1, <3>2 DEF RequestPairing, PairingInv, PairingTypeOK
  <2>3. CASE RotateDeviceCredential(d)
    BY <2>1, <2>3 DEF RotateDeviceCredential, PairingInv, PairingTypeOK, DeviceRows
  <2>4. CASE RevokeDevice(d)
    BY <2>1, <2>4 DEF RevokeDevice, PairingInv, PairingTypeOK, DeviceRows
  <2>5. CASE AttachSession(d)
    BY <2>1, <2>5 DEF AttachSession, PairingInv, PairingTypeOK, DesktopStates
  <2> QED
    BY <2>2, <2>3, <2>4, <2>5
<1>2. UNCHANGED <<challenges, consuming>>
  BY DEF RequestPairing, RotateDeviceCredential, RevokeDevice, AttachSession
<1> QED
  BY <1>1, <1>2 DEF PairingInv, ConfirmedIsMarked, StateOf, ReadIsStillTrue, CallOf

\* The desktop stops waiting: its call keeps its place, or is over.
LEMMA WaitingEnds ==
  ASSUME PairingInv, NEW d \in Desktops,
         PairingAnswered(d) \/ PairingUnanswered(d) \/ PairingRestart(d)
  PROVE  PairingInv'
<1>0. desktops[d] \in DesktopStates
  BY DEF PairingInv, PairingTypeOK
<1>1. \E row \in DesktopStates : desktops' = [desktops EXCEPT ![d] = row]
  <2>1. CASE PairingAnswered(d)
    <3> DEFINE k == desktops[d].waiting
               mine == consuming[k].ok /\ challenges[consuming[k].challenge].device = d
               row == [desktops[d] EXCEPT !.waiting = None, !.paired = mine,
                                          !.secret = IF mine THEN 0 ELSE @]
    <3>1. desktops' = [desktops EXCEPT ![d] = row]
      BY <2>1 DEF PairingAnswered
    <3>2. mine \in BOOLEAN
      OBVIOUS
    <3> HIDE DEF mine
    <3>3. row \in DesktopStates
      BY <1>0, <3>2 DEF DesktopStates
    <3> QED
      BY <3>1, <3>3
  <2>2. CASE PairingUnanswered(d)
    <3>1. [desktops[d] EXCEPT !.waiting = None] \in DesktopStates
      BY <1>0 DEF DesktopStates
    <3> QED
      BY <2>2, <3>1 DEF PairingUnanswered
  <2>3. CASE PairingRestart(d)
    <3>1. [desktops[d] EXCEPT !.secret = 0, !.paired = FALSE, !.waiting = None]
            \in DesktopStates
      BY <1>0 DEF DesktopStates
    <3> QED
      BY <2>3, <3>1 DEF PairingRestart
  <2> QED
    BY <2>1, <2>2, <2>3
<1>2. /\ consuming' \in [Consumptions -> CallStates \cup {Done, None}]
      /\ \A k \in Consumptions : consuming'[k] \in {consuming[k], Done}
  BY DEF PairingInv, PairingTypeOK, PairingAnswered, PairingUnanswered, PairingRestart, Forgets
<1>3. UNCHANGED <<challenges, devices, minted>>
  BY DEF PairingAnswered, PairingUnanswered, PairingRestart
<1>4. PairingTypeOK'
  BY <1>1, <1>2, <1>3 DEF PairingInv, PairingTypeOK
<1>5. ReadIsStillTrue'
  BY <1>2, <1>3, RowsKeepReads DEF RowsOnly
<1> QED
  BY <1>3, <1>4, <1>5 DEF PairingInv, ConfirmedIsMarked, StateOf

LEMMA PairingBegins ==
  ASSUME PairingInv, NEW c \in Challenges, NEW d \in Desktops, BeginPairing(c, d)
  PROVE  PairingInv'
<1>1. PICK s \in 1..minted[d] :
        challenges' = [challenges EXCEPT ![c] =
          [state |-> "PENDING_CONFIRMATION", device |-> d, secret |-> s,
           attempts |-> Attempts, confirmed |-> FALSE]]
  BY DEF BeginPairing
<1> DEFINE row == [state |-> "PENDING_CONFIRMATION", device |-> d, secret |-> s,
                   attempts |-> Attempts, confirmed |-> FALSE]
<1>2. row \in ChallengeRows /\ row.state = "PENDING_CONFIRMATION"
  BY PairingAssumption DEF PairingInv, PairingTypeOK, ChallengeRows, Open
<1>3. challenges' = [challenges EXCEPT ![c] = row]
  BY <1>1
<1>4. challenges[c] = None /\ UNCHANGED <<devices, desktops, minted, consuming>>
  BY DEF BeginPairing
<1> HIDE DEF row
<1>5. PairingTypeOK'
  BY <1>2, <1>3, <1>4 DEF PairingInv, PairingTypeOK
<1>6. ConfirmedIsMarked'
  BY <1>2, <1>3, NoneAssumption DEF PairingInv, PairingTypeOK, ConfirmedIsMarked, StateOf
<1>7. RowsOnly
  BY <1>3, <1>4, <1>2 DEF RowsOnly, PairingInv, PairingTypeOK
<1> QED
  BY <1>5, <1>6, <1>7, RowsKeepReads DEF PairingInv

LEMMA ChallengeSteps ==
  ASSUME PairingInv, NEW c \in Challenges,
         \/ Elapse(c) \/ GetPairingStatus(c) \/ ConfirmPairing(c) \/ RejectPairing(c)
         \/ RetainChallenges(c)
  PROVE  PairingInv'
<1>1. CASE Elapse(c)
  BY <1>1 DEF Elapse, PairingInv, PairingTypeOK, ConfirmedIsMarked, StateOf,
              ReadIsStillTrue, CallOf
<1>2. CASE ConfirmPairing(c)
  <2> DEFINE row == [challenges[c] EXCEPT !.state = "CONFIRMED", !.confirmed = TRUE]
  <2>1. challenges[c] \in ChallengeRows
    BY <1>2, StateOfRow DEF ConfirmPairing, PairingInv, Open
  <2>2. row \in ChallengeRows /\ row.confirmed
    BY <2>1 DEF ChallengeRows, Open
  <2>3. /\ challenges' = [challenges EXCEPT ![c] = row]
        /\ UNCHANGED <<devices, desktops, minted, consuming>>
    BY <1>2 DEF ConfirmPairing
  <2> HIDE DEF row
  <2>4. PairingTypeOK' /\ ConfirmedIsMarked' /\ RowsOnly
    BY <2>2, <2>3, NoneAssumption
       DEF PairingInv, PairingTypeOK, ConfirmedIsMarked, StateOf, RowsOnly
  <2> QED
    BY <2>4, RowsKeepReads DEF PairingInv
<1>3. CASE GetPairingStatus(c) \/ RejectPairing(c) \/ RetainChallenges(c)
  <2>1. /\ StateOf(c) \in Open \cup Closed
        /\ \E state \in Closed \cup {"PRUNED"} : Becomes(c, state)
        /\ UNCHANGED <<devices, desktops, minted, consuming>>
    BY <1>3 DEF GetPairingStatus, RejectPairing, RetainChallenges, Open, Closed
  <2>2. challenges[c] \in ChallengeRows
    BY <2>1, StateOfRow DEF PairingInv
  <2>3. /\ challenges' \in [Challenges -> ChallengeRows \cup {None}]
        /\ ConfirmedIsMarked'
        /\ RowsOnly
    BY <2>1, <2>2, BecomesKeeps DEF RowsOnly
  <2> QED
    BY <2>1, <2>3, RowsKeepReads DEF PairingInv, PairingTypeOK
<1> QED
  BY <1>1, <1>2, <1>3

LEMMA CompletionStep ==
  ASSUME PairingInv, NEW d \in Desktops, NEW c \in Challenges, NEW k \in Consumptions,
         CompletePairing(d, c, k)
  PROVE  PairingInv'
<1>1. PICK late \in Instants(c) :
        consuming' = [consuming EXCEPT ![k] =
          [at |-> "reads", challenge |-> c, secret |-> desktops[d].secret, late |-> late,
           ok |-> FALSE]]
  BY DEF CompletePairing
<1> DEFINE call == [at |-> "reads", challenge |-> c, secret |-> desktops[d].secret,
                    late |-> late, ok |-> FALSE]
<1>2. desktops[d] \in DesktopStates /\ late \in BOOLEAN
  <2>1. (c \in due) \in BOOLEAN
    OBVIOUS
  <2> QED
    BY <2>1 DEF PairingInv, PairingTypeOK, Instants
<1>3. call \in CallStates /\ call.at = "reads" /\ call.challenge = c
  BY <1>2 DEF CallStates, DesktopStates, CallPlaces
<1>4. [desktops[d] EXCEPT !.waiting = k] \in DesktopStates
  BY <1>2 DEF DesktopStates
<1>5. /\ consuming' = [consuming EXCEPT ![k] = call]
      /\ desktops' = [desktops EXCEPT ![d] = [desktops[d] EXCEPT !.waiting = k]]
      /\ challenges[c] # None
      /\ UNCHANGED <<challenges, devices, minted>>
  BY <1>1 DEF CompletePairing
<1> HIDE DEF call
<1>6. PairingTypeOK'
  BY <1>3, <1>4, <1>5 DEF PairingInv, PairingTypeOK
<1>7. ReadIsStillTrue'
  <2> SUFFICES ASSUME NEW j \in Consumptions, CallOf(j)'
               PROVE  /\ challenges'[consuming'[j].challenge] # None
                      /\ consuming'[j].at = "inserts" =>
                           challenges'[consuming'[j].challenge].confirmed
    BY DEF ReadIsStillTrue
  <2>1. CASE j = k
    BY <1>3, <1>5, <2>1 DEF PairingInv, PairingTypeOK
  <2>2. CASE j # k
    BY <1>5, <2>2 DEF PairingInv, PairingTypeOK, ReadIsStillTrue, CallOf
  <2> QED
    BY <2>1, <2>2
<1> QED
  BY <1>5, <1>6, <1>7 DEF PairingInv, ConfirmedIsMarked, StateOf

LEMMA ConsumptionReadsStep ==
  ASSUME PairingInv, NEW k \in Consumptions, ConsumptionReads(k)
  PROVE  PairingInv'
<1>1. /\ CallOf(k) /\ consuming[k].challenge \in Challenges
      /\ UNCHANGED <<challenges, devices, desktops, minted>>
  BY CallAtPlace DEF ConsumptionReads, PairingInv, CallPlaces
<1> DEFINE c == consuming[k].challenge
<1>2. challenges[c] \in ChallengeRows
  BY <1>1 DEF PairingInv, PairingTypeOK, ReadIsStillTrue
<1>3. CASE Answers(k, FALSE)
  BY <1>1, <1>3, AnswersKeeps, RowsKeepReads
     DEF PairingInv, PairingTypeOK, RowsOnly, ConfirmedIsMarked, StateOf
<1>4. CASE ~Answers(k, FALSE)
  <2>1. PICK place \in {"expires", "inserts", "misses"} :
          /\ consuming' = [consuming EXCEPT ![k].at = place]
          /\ challenges[c].state = "CONFIRMED"
    BY <1>4 DEF ConsumptionReads
  <2> DEFINE call == [consuming[k] EXCEPT !.at = place]
  <2>2. call \in CallStates /\ call.challenge = c
    BY <1>1, <2>1 DEF CallOf, CallStates, CallPlaces
  <2>3. consuming' = [consuming EXCEPT ![k] = call]
    BY <2>1
  <2>4. challenges[c] # None /\ challenges[c].confirmed
    BY <1>1, <1>2, <2>1, NoneAssumption DEF PairingInv, ConfirmedIsMarked, StateOf
  <2> HIDE DEF call
  <2>5. PairingTypeOK'
    BY <1>1, <2>2, <2>3 DEF PairingInv, PairingTypeOK
  <2>6. ReadIsStillTrue'
    <3> SUFFICES ASSUME NEW j \in Consumptions, CallOf(j)'
                 PROVE  /\ challenges'[consuming'[j].challenge] # None
                        /\ consuming'[j].at = "inserts" =>
                             challenges'[consuming'[j].challenge].confirmed
      BY DEF ReadIsStillTrue
    <3>1. CASE j = k
      BY <1>1, <2>2, <2>3, <2>4, <3>1 DEF PairingInv, PairingTypeOK
    <3>2. CASE j # k
      BY <1>1, <2>3, <3>2 DEF PairingInv, PairingTypeOK, ReadIsStillTrue, CallOf
    <3> QED
      BY <3>1, <3>2
  <2> QED
    BY <1>1, <2>5, <2>6 DEF PairingInv, ConfirmedIsMarked, StateOf
<1> QED
  BY <1>3, <1>4

\* The write of a consumption rewrites one row it finds, and keeps its mark.
LEMMA RowRewritten ==
  ASSUME PairingInv, NEW c \in Challenges, NEW row \in ChallengeRows,
         challenges[c] \in ChallengeRows, row.confirmed = challenges[c].confirmed,
         row.state = "CONFIRMED" => challenges[c].state = "CONFIRMED",
         challenges' = [challenges EXCEPT ![c] = row]
  PROVE  /\ challenges' \in [Challenges -> ChallengeRows \cup {None}]
         /\ ConfirmedIsMarked'
         /\ \A b \in Challenges : challenges[b] # None =>
              challenges'[b] # None /\ (challenges[b].confirmed => challenges'[b].confirmed)
BY NoneAssumption DEF PairingInv, PairingTypeOK, ConfirmedIsMarked, StateOf

LEMMA ConsumptionWrites ==
  ASSUME PairingInv, NEW k \in Consumptions,
         ConsumptionExpires(k) \/ ConsumptionMisses(k) \/ ConsumptionInserts(k)
  PROVE  PairingInv'
<1> DEFINE c == consuming[k].challenge
<1>1. CallOf(k) /\ c \in Challenges
  BY CallAtPlace
     DEF ConsumptionExpires, ConsumptionMisses, ConsumptionInserts, PairingInv, CallPlaces
<1>2. challenges[c] \in ChallengeRows
  BY <1>1 DEF PairingInv, PairingTypeOK, ReadIsStillTrue
<1>3. PICK ok \in BOOLEAN : Answers(k, ok)
  BY DEF ConsumptionExpires, ConsumptionMisses, ConsumptionInserts
<1>4. /\ challenges' \in [Challenges -> ChallengeRows \cup {None}]
      /\ ConfirmedIsMarked'
      /\ \A b \in Challenges : challenges[b] # None =>
           challenges'[b] # None /\ (challenges[b].confirmed => challenges'[b].confirmed)
  <2>1. CASE UNCHANGED challenges
    BY <2>1 DEF PairingInv, PairingTypeOK, ConfirmedIsMarked, StateOf
  <2>2. CASE ConsumptionMisses(k)
    <3> DEFINE old == challenges[c]
               row == IF old.state # "CONFIRMED" THEN old
                      ELSE [old EXCEPT !.attempts = IF @ = 0 THEN 0 ELSE @ - 1,
                              !.state = IF old.attempts <= 1 THEN "REJECTED" ELSE @]
    <3>1. challenges' = [challenges EXCEPT ![c] = row]
      BY <2>2 DEF ConsumptionMisses
    <3>2. /\ row \in ChallengeRows /\ row.confirmed = old.confirmed
          /\ row.state = "CONFIRMED" => old.state = "CONFIRMED"
      <4>1. old.attempts \in Nat /\ old \in ChallengeRows
        BY <1>2 DEF ChallengeRows
      <4>2. CASE old.state # "CONFIRMED"
        BY <4>1, <4>2
      <4>3. CASE old.state = "CONFIRMED"
        <5>1. (IF old.attempts = 0 THEN 0 ELSE old.attempts - 1) \in Nat
          BY <4>1
        <5> DEFINE left == IF old.attempts = 0 THEN 0 ELSE old.attempts - 1
                   state == IF old.attempts <= 1 THEN "REJECTED" ELSE old.state
        <5>2. row = [old EXCEPT !.attempts = left, !.state = state]
          BY <4>3
        <5>3. state \in {"REJECTED", "CONFIRMED"} /\ left \in Nat
          BY <4>3, <5>1
        <5> HIDE DEF left, state
        <5> QED
          BY <4>1, <4>3, <5>2, <5>3 DEF ChallengeRows, Open, Closed
      <4> QED
        BY <4>2, <4>3
    <3> HIDE DEF row
    <3> QED
      BY <1>1, <1>2, <3>1, <3>2, RowRewritten
  <2>3. CASE \E state \in {"EXPIRED", "CONSUMED"} :
               challenges' =
                 [challenges EXCEPT ![c].state = IF @ = "CONFIRMED" THEN state ELSE @]
    <3>1. PICK state \in {"EXPIRED", "CONSUMED"} :
            challenges' = [challenges EXCEPT ![c].state = IF @ = "CONFIRMED" THEN state ELSE @]
      BY <2>3
    <3> DEFINE old == challenges[c]
               row == [old EXCEPT !.state = IF @ = "CONFIRMED" THEN state ELSE @]
    <3>2. challenges' = [challenges EXCEPT ![c] = row]
      BY <3>1
    <3>3. /\ row \in ChallengeRows /\ row.confirmed = old.confirmed
          /\ row.state = "CONFIRMED" => old.state = "CONFIRMED"
      BY <1>2 DEF ChallengeRows, Closed
    <3> HIDE DEF row
    <3> QED
      BY <1>1, <1>2, <3>2, <3>3, RowRewritten
  <2> QED
    BY <2>1, <2>2, <2>3 DEF ConsumptionExpires, ConsumptionInserts
<1>5. /\ consuming' \in [Consumptions -> CallStates \cup {Done, None}]
      /\ ReadIsStillTrue'
  BY <1>1, <1>3, <1>4, AnswersKeeps, RowsKeepReads DEF RowsOnly, PairingInv
<1>6. devices' \in [Desktops -> DeviceRows] /\ UNCHANGED <<desktops, minted>>
  <2>1. [status |-> "ACTIVE", generation |-> 1] \in DeviceRows
    BY DEF DeviceRows
  <2>2. /\ UNCHANGED <<desktops, minted>>
        /\ \/ UNCHANGED devices
           \/ \E d : devices' = [devices EXCEPT ![d] = [status |-> "ACTIVE", generation |-> 1]]
    BY DEF ConsumptionExpires, ConsumptionMisses, ConsumptionInserts
  <2> QED
    BY <2>1, <2>2 DEF PairingInv, PairingTypeOK
<1> QED
  BY <1>4, <1>5, <1>6 DEF PairingInv, PairingTypeOK

\* Challenges and devices keep their shape, and a device is backed by the challenge that
\* made it: what a consumption suspended between its statements may still write is known
\* (pairing.ts).
THEOREM PairingInvariant == PairingSpec => []PairingInv
<1>1. PairingInit => PairingInv
  BY PairingInitOK
<1>2. PairingInv /\ [PairingNext]_pairing => PairingInv'
  <2> SUFFICES ASSUME PairingInv, [PairingNext]_pairing
               PROVE  PairingInv'
    OBVIOUS
  <2>1. CASE UNCHANGED pairing
    BY <2>1 DEF pairing, PairingInv, PairingTypeOK, ConfirmedIsMarked, StateOf,
                ReadIsStillTrue, CallOf
  <2>2. CASE PairingNext
    BY <2>2, DesktopSteps, WaitingEnds, PairingBegins, ChallengeSteps, CompletionStep,
       ConsumptionReadsStep, ConsumptionWrites DEF PairingNext
  <2> QED
    BY <2>1, <2>2
<1> QED
  BY <1>1, <1>2, PTL DEF PairingSpec

\* A credential appears once, for a device the owner confirmed, is rotated only while it
\* is active, and stays revoked: for any number of desktops, challenges and calls.
THEOREM CredentialsLive == PairingSpec => CredentialLife
<1> DEFINE Lives == \A d \in Desktops :
       LET old == devices[d]
           new == devices'[d] IN
       \/ new = old
       \/ /\ old.status = "ABSENT"
          /\ new = [status |-> "ACTIVE", generation |-> 1]
          /\ \E c \in Challenges :
               /\ challenges[c] # None
               /\ challenges[c].device = d /\ challenges[c].confirmed
       \/ /\ old.status = "ACTIVE" /\ new.status = "ACTIVE"
          /\ new.generation = old.generation + 1
       \/ old.status = "ACTIVE" /\ new.status = "REVOKED" /\ new.generation = old.generation
<1>1. PairingInv /\ [PairingNext]_pairing => [Lives]_devices
  <2> SUFFICES ASSUME PairingInv, PairingNext, devices' # devices
               PROVE  Lives
    BY DEF pairing
  <2>1. devices \in [Desktops -> DeviceRows]
    BY DEF PairingInv, PairingTypeOK
  <2>2. ASSUME NEW d \in Desktops, RotateDeviceCredential(d) \/ RevokeDevice(d)
        PROVE  Lives
    BY <2>1, <2>2 DEF RotateDeviceCredential, RevokeDevice, DeviceRows
  <2>3. ASSUME NEW k \in Consumptions, ConsumptionInserts(k)
        PROVE  Lives
    <3> DEFINE c == consuming[k].challenge
    <3>1. /\ c \in Challenges
          /\ challenges[c] \in ChallengeRows
          /\ challenges[c] # None
          /\ challenges[c].confirmed
      BY <2>3, CallAtPlace
         DEF ConsumptionInserts, PairingInv, PairingTypeOK, ReadIsStillTrue, CallPlaces
    <3>2. challenges[c].device \in Desktops
      BY <3>1 DEF ChallengeRows
    <3>3. /\ devices[challenges[c].device].status = "ABSENT"
          /\ devices' = [devices EXCEPT ![challenges[c].device] =
                           [status |-> "ACTIVE", generation |-> 1]]
      BY <2>3 DEF ConsumptionInserts
    <3> QED
      BY <2>1, <3>1, <3>2, <3>3
  <2>4. \/ \E d \in Desktops : RotateDeviceCredential(d) \/ RevokeDevice(d)
        \/ \E k \in Consumptions : ConsumptionInserts(k)
    BY DEF PairingNext, RequestPairing, PairingAnswered, PairingUnanswered, AttachSession,
           PairingRestart, BeginPairing, Elapse, GetPairingStatus, ConfirmPairing,
           RejectPairing, RetainChallenges, CompletePairing, ConsumptionReads,
           ConsumptionExpires, ConsumptionMisses
  <2> QED
    BY <2>2, <2>3, <2>4
<1> QED
  BY <1>1, PairingInvariant, PTL DEF PairingSpec, CredentialLife

-------------------------------------------------------------------------------
(***************************************************************************)
(* AccountErasure: types.                                                  *)
(***************************************************************************)
ObjectStates == {"PRESENT", "WIPED", Absent}
GrantStates == {Absent, "PENDING", "ACTIVE", "DELETING"} \cup Finished

ErasureTypeOK ==
  /\ account \in BOOLEAN /\ device \in BOOLEAN
  /\ rows \in SUBSET Sessions
  /\ grants \in [Grants -> GrantStates]
  /\ coordinators \in [Sessions -> ObjectStates]
  /\ mailboxes \in [Grants -> ObjectStates]
  /\ handlers \in [Handlers -> CallRecords \cup {Nothing}]
  /\ asked \in SUBSET (Sessions \cup Grants)
  /\ told \in SUBSET asked

(***************************************************************************)
(* The calls in flight.  A session or a grant has one call at a time, and  *)
(* what a call still creates the owner was not told of.  While a deletion  *)
(* is confirmed every other call knows it is not alone, so nothing more    *)
(* is told, and what the deletion owes stays what it was.                  *)
(***************************************************************************)
InFlight(h) == handlers[h] # Nothing
OfObject(h) == InFlight(h) /\ handlers[h].kind \notin {"plan", "confirm"}
Creates(h) == InFlight(h) /\ handlers[h].kind \in {"session", "grant"}

OneCallPerObject ==
  \A h, k \in Handlers : OfObject(h) /\ OfObject(k) /\ h # k => handlers[h].of # handlers[k].of

CreatesTheUntold == \A h \in Handlers : Creates(h) => handlers[h].of \in asked \ told

NoneIsAlone ==
  \A h, k \in Handlers : Confirms(h) /\ InFlight(k) /\ ~Confirms(k) => ~handlers[k].alone

OwesWhatWasTold == \A h \in Handlers : Confirms(h) => handlers[h].owed = told

(***************************************************************************)
(* What the owner was told of and still exists is named by a row; so is    *)
(* what a call that is alone is about to tell; and a call that is about to *)
(* take a grant's row away has destroyed its mailbox.                      *)
(***************************************************************************)
StandingSessions == {s \in told \cap Sessions : coordinators[s] = "PRESENT"}
StandingGrants == {g \in told \cap Grants : mailboxes[g] = "PRESENT"}

StandingIsNamed ==
  /\ StandingSessions \subseteq rows
  /\ \A g \in StandingGrants : grants[g] \notin {Absent, "DELETED"}

Named(h) ==
  handlers[h].alone =>
    /\ AtPlace(h, "session", "initializes") => handlers[h].of \in rows
    /\ AtPlace(h, "grant", "initializes") \/ AtPlace(h, "grant", "activates") =>
         grants[handlers[h].of] = "PENDING"

Destroyed(h) ==
  AtPlace(h, "delete", "writes") \/ AtPlace(h, "retire", "writes") =>
    mailboxes[handlers[h].of] # "PRESENT"

AloneIsNamed == \A h \in Handlers : InFlight(h) => Named(h)
DestroyedFirst == \A h \in Handlers : InFlight(h) => Destroyed(h)

(***************************************************************************)
(* How far a confirmed deletion has come: what still stands is in the      *)
(* lists it goes through, and nothing stands when a list is empty.         *)
(***************************************************************************)
Covers(h) ==
  LET at == handlers[h].at IN
  /\ at \in {"grants", "mailboxes", "coordinators", "checks"} =>
       StandingSessions \subseteq handlers[h].sessions
  /\ at = "mailboxes" => StandingGrants \subseteq handlers[h].grants
  /\ at \in {"coordinators", "checks", "drops", "cascades"} => StandingGrants = {}
  /\ at \in {"drops", "cascades"} => StandingSessions = {}
  /\ at = "records" /\ handlers[h].verified => StandingSessions = {} /\ StandingGrants = {}

ListsCover == \A h \in Handlers : Confirms(h) => Covers(h)

CallsInv == OneCallPerObject /\ CreatesTheUntold /\ NoneIsAlone /\ OwesWhatWasTold
NamesInv == StandingIsNamed /\ AloneIsNamed /\ DestroyedFirst
ErasureInv == ErasureTypeOK /\ CallsInv /\ NamesInv /\ ListsCover

LEMMA ErasureInitOK == ErasureInit => ErasureInv
<1> SUFFICES ASSUME ErasureInit PROVE ErasureInv
  OBVIOUS
<1>1. ErasureTypeOK
  BY ErasureAssumption DEF ErasureInit, ErasureTypeOK, ObjectStates, GrantStates, Sessions
<1>2. CallsInv
  BY DEF ErasureInit, CallsInv, OneCallPerObject, CreatesTheUntold, NoneIsAlone,
         OwesWhatWasTold, OfObject, Creates, Confirms, InFlight
<1>3. NamesInv
  BY IdAssumption, ErasureAssumption
     DEF ErasureInit, NamesInv, StandingIsNamed, AloneIsNamed, DestroyedFirst,
         StandingSessions, StandingGrants, AtPlace, Sessions, Absent, InFlight
<1>4. ListsCover
  BY DEF ErasureInit, ListsCover, Confirms
<1> QED
  BY <1>1, <1>2, <1>3, <1>4 DEF ErasureInv

(***************************************************************************)
(* A call that moves keeps what it is a call of; one that ends is gone.    *)
(***************************************************************************)
Keeps(h, call) ==
  /\ InFlight(h) /\ call \in CallRecords
  /\ call.kind = handlers[h].kind /\ call.of = handlers[h].of
  /\ call.alone = handlers[h].alone /\ call.owed = handlers[h].owed

Moves(h) ==
  \E call \in CallRecords \cup {Nothing} :
    /\ handlers' = [handlers EXCEPT ![h] = call]
    /\ call # Nothing => Keeps(h, call)

LEMMA GoesMoves ==
  ASSUME ErasureTypeOK, NEW h \in Handlers, InFlight(h), NEW at \in Places, Goes(h, at)
  PROVE  /\ Moves(h)
         /\ handlers'[h].kind = handlers[h].kind /\ handlers'[h].of = handlers[h].of
         /\ handlers'[h].at = at
         /\ handlers'[h].sessions = handlers[h].sessions
         /\ handlers'[h].grants = handlers[h].grants
         /\ handlers'[h].verified = handlers[h].verified
         /\ handlers'[h].alone = handlers[h].alone
<1> DEFINE call == [handlers[h] EXCEPT !.at = at]
<1>1. handlers[h] \in CallRecords
  BY DEF ErasureTypeOK, InFlight
<1>2. /\ Keeps(h, call)
      /\ call.at = at /\ call.sessions = handlers[h].sessions
      /\ call.grants = handlers[h].grants /\ call.verified = handlers[h].verified
  BY <1>1 DEF Keeps, CallRecords
<1>3. handlers' = [handlers EXCEPT ![h] = call]
  BY DEF Goes
<1> HIDE DEF call
<1> QED
  BY <1>2, <1>3 DEF Moves, Keeps, ErasureTypeOK

LEMMA EndsMoves ==
  ASSUME ErasureTypeOK, NEW h \in Handlers, Ends(h)
  PROVE  Moves(h) /\ handlers'[h] = Nothing
BY DEF ErasureTypeOK, Ends, Moves

\* The other calls stay as they are.
LEMMA MovesOne ==
  ASSUME ErasureTypeOK, NEW h \in Handlers, Moves(h)
  PROVE  /\ handlers' \in [Handlers -> CallRecords \cup {Nothing}]
         /\ \A k \in Handlers : k # h => handlers'[k] = handlers[k]
         /\ handlers'[h] # Nothing => Keeps(h, handlers'[h])
BY DEF ErasureTypeOK, Moves

LEMMA MovesKeepCalls ==
  ASSUME ErasureTypeOK, CallsInv, NEW h \in Handlers, Moves(h), UNCHANGED <<asked, told>>
  PROVE  CallsInv'
<1>1. \A k \in Handlers : handlers'[k] # Nothing =>
        /\ handlers[k] # Nothing
        /\ handlers'[k].kind = handlers[k].kind /\ handlers'[k].of = handlers[k].of
        /\ handlers'[k].alone = handlers[k].alone /\ handlers'[k].owed = handlers[k].owed
  BY MovesOne DEF Keeps, InFlight
<1> QED
  BY <1>1 DEF CallsInv, OneCallPerObject, CreatesTheUntold, NoneIsAlone, OwesWhatWasTold,
              OfObject, Creates, Confirms, InFlight

(***************************************************************************)
(* What a step of one call leaves of the facts about the others.           *)
(***************************************************************************)
Shrinks == StandingSessions' \subseteq StandingSessions /\ StandingGrants' \subseteq StandingGrants

LEMMA CoversStays ==
  ASSUME NEW h \in Handlers, Covers(h), Shrinks, handlers'[h] = handlers[h]
  PROVE  Covers(h)'
BY DEF Covers, Shrinks

LEMMA ListsStay ==
  ASSUME ListsCover, Shrinks, NEW h \in Handlers,
         \A k \in Handlers : k # h => handlers'[k] = handlers[k],
         Confirms(h)' => Covers(h)'
  PROVE  ListsCover'
<1> SUFFICES ASSUME NEW k \in Handlers, Confirms(k)' PROVE Covers(k)'
  BY DEF ListsCover
<1>1. CASE k # h
  <2>1. handlers'[k] = handlers[k] /\ Confirms(k)
    BY <1>1 DEF Confirms
  <2> QED
    BY <2>1, CoversStays DEF ListsCover
<1>2. CASE k = h
  BY <1>2
<1> QED
  BY <1>1, <1>2

\* A step that touches no object, no row of a session or a grant, and tells nothing.
NamesUntouched == UNCHANGED <<rows, grants, coordinators, mailboxes, told>>

LEMMA QuietNames ==
  ASSUME NamesInv, NamesUntouched, NEW h \in Handlers,
         \A k \in Handlers : k # h => handlers'[k] = handlers[k],
         InFlight(h)' => Named(h)' /\ Destroyed(h)'
  PROVE  NamesInv'
<1>1. Shrinks /\ StandingSessions' = StandingSessions /\ StandingGrants' = StandingGrants
  BY DEF NamesUntouched, Shrinks, StandingSessions, StandingGrants
<1>2. StandingIsNamed'
  BY <1>1 DEF NamesInv, StandingIsNamed, NamesUntouched
<1>3. \A k \in Handlers : InFlight(k)' => Named(k)' /\ Destroyed(k)'
  <2> SUFFICES ASSUME NEW k \in Handlers, InFlight(k)' PROVE Named(k)' /\ Destroyed(k)'
    OBVIOUS
  <2>1. CASE k # h
    BY <2>1 DEF NamesInv, AloneIsNamed, DestroyedFirst, Named, Destroyed, InFlight, AtPlace,
                NamesUntouched
  <2>2. CASE k = h
    BY <2>2
  <2> QED
    BY <2>1, <2>2
<1> QED
  BY <1>2, <1>3 DEF NamesInv, AloneIsNamed, DestroyedFirst

\* Places at which a call owes nothing to the rows and the objects it has met.
Quiet == {"enrolls", "starts", "inserts", "revokes", "destroys", "sessions", "verifies"}

LEMMA QuietMove ==
  ASSUME ErasureInv, NEW h \in Handlers, Moves(h), UNCHANGED asked, NamesUntouched,
         account' \in BOOLEAN, device' \in BOOLEAN,
         \/ handlers'[h] = Nothing
         \/ handlers'[h].at \in Quiet
         \/ handlers'[h].kind = "revoke"
  PROVE  ErasureInv'
<1>1. ErasureTypeOK'
  BY MovesOne DEF ErasureInv, ErasureTypeOK, NamesUntouched
<1>2. CallsInv'
  BY MovesKeepCalls DEF ErasureInv, NamesUntouched
<1>3. \A k \in Handlers : k # h => handlers'[k] = handlers[k]
  BY MovesOne DEF ErasureInv
<1>4. InFlight(h)' => Named(h)' /\ Destroyed(h)'
  BY DEF InFlight, Named, Destroyed, AtPlace, Quiet
<1>5. Confirms(h)' => Covers(h)'
  BY DEF Confirms, Covers, Quiet
<1>6. Shrinks
  BY DEF NamesUntouched, Shrinks, StandingSessions, StandingGrants
<1> QED
  BY <1>1, <1>2, <1>3, <1>4, <1>5, <1>6, QuietNames, ListsStay DEF ErasureInv

LEMMA QuietSteps ==
  ASSUME ErasureInv, NEW h \in Handlers,
         \/ FindsAccount(h) \/ EnrollsAccount(h) \/ SessionStarts(h) \/ GrantStarts(h)
         \/ GrantRevokes(h) \/ PlanStarts(h) \/ ConfirmStarts(h) \/ RecordsDeletion(h)
  PROVE  ErasureInv'
<1>0. ErasureTypeOK
  BY DEF ErasureInv
<1>1. CASE FindsAccount(h) \/ EnrollsAccount(h)
  <2>1. InFlight(h) /\ (Ends(h) \/ Goes(h, "starts") \/ Goes(h, "enrolls"))
    BY <1>1 DEF FindsAccount, EnrollsAccount, InFlight
  <2>2. Moves(h) /\ (handlers'[h] = Nothing \/ handlers'[h].at \in Quiet)
    BY <1>0, <2>1, GoesMoves, EndsMoves DEF Places, Quiet
  <2>3. NamesUntouched /\ UNCHANGED asked /\ account' \in BOOLEAN /\ device' \in BOOLEAN
    BY <1>0, <1>1 DEF FindsAccount, EnrollsAccount, NamesUntouched, d1, objects, bounds,
                      ErasureTypeOK
  <2> QED
    BY <2>2, <2>3, QuietMove
<1>2. CASE SessionStarts(h) \/ GrantStarts(h) \/ ConfirmStarts(h)
  <2>1. /\ InFlight(h)
        /\ Ends(h) \/ Goes(h, "inserts") \/ Goes(h, "verifies") \/ Goes(h, "sessions")
    BY <1>2 DEF SessionStarts, GrantStarts, ConfirmStarts, InFlight, AtPlace
  <2>2. Moves(h) /\ (handlers'[h] = Nothing \/ handlers'[h].at \in Quiet)
    BY <1>0, <2>1, GoesMoves, EndsMoves DEF Places, Quiet
  <2>3. NamesUntouched /\ UNCHANGED <<asked, account, device>>
    BY <1>2 DEF SessionStarts, GrantStarts, ConfirmStarts, NamesUntouched, d1, objects, bounds
  <2> QED
    BY <1>0, <2>2, <2>3, QuietMove DEF ErasureTypeOK
<1>3. CASE GrantRevokes(h)
  <2>1. InFlight(h) /\ handlers[h].kind = "revoke" /\ (Ends(h) \/ Goes(h, "writes"))
    BY <1>3 DEF GrantRevokes, InFlight, AtPlace
  <2>2. Moves(h) /\ (handlers'[h] = Nothing \/ handlers'[h].kind = "revoke")
    BY <1>0, <2>1, GoesMoves, EndsMoves DEF Places
  <2>3. NamesUntouched /\ UNCHANGED <<asked, account, device>>
    BY <1>3 DEF GrantRevokes, NamesUntouched, d1, objects, bounds
  <2> QED
    BY <1>0, <2>2, <2>3, QuietMove DEF ErasureTypeOK
<1>4. CASE PlanStarts(h) \/ RecordsDeletion(h)
  <2>1. Moves(h) /\ handlers'[h] = Nothing
    BY <1>0, <1>4, EndsMoves DEF PlanStarts, RecordsDeletion
  <2>2. NamesUntouched /\ UNCHANGED <<asked, account, device>>
    BY <1>4 DEF PlanStarts, RecordsDeletion, NamesUntouched, objects, bounds
  <2> QED
    BY <1>0, <2>1, <2>2, QuietMove DEF ErasureTypeOK
<1> QED
  BY <1>1, <1>2, <1>3, <1>4

(***************************************************************************)
(* A call is sent.                                                         *)
(***************************************************************************)
LEMMA CallTyped ==
  ASSUME NEW kind \in {"session", "grant", "delete", "revoke", "retire", "plan", "confirm"},
         NEW of,
         kind = "session" => of \in Sessions,
         kind \in {"grant", "delete", "revoke", "retire"} => of \in Grants,
         kind \in {"plan", "confirm"} => of \in Plans
  PROVE  /\ Call(kind, of) \in CallRecords
         /\ Call(kind, of).kind = kind /\ Call(kind, of).of = of
         /\ Call(kind, of).at = "finds"
         /\ Call(kind, of).alone => \A k \in Handlers : ~Confirms(k)
<1> DEFINE lone == \A k \in Handlers : ~Confirms(k)
<1>1. lone \in BOOLEAN
  OBVIOUS
<1>2. Call(kind, of) =
        [kind |-> kind, of |-> of, at |-> "finds", sessions |-> {}, grants |-> {},
         on |-> Nothing, verified |-> FALSE, alone |-> lone, owed |-> {}]
  BY DEF Call
<1> HIDE DEF lone
<1>3. Call(kind, of) \in CallRecords
  BY <1>1, <1>2 DEF CallRecords, Places
<1>4. Call(kind, of).alone = lone
  BY <1>2
<1> QED
  BY <1>2, <1>3, <1>4 DEF lone

LEMMA SendsTo ==
  ASSUME ErasureTypeOK, NEW h \in Handlers, NEW call \in CallRecords, Sends(h, call)
  PROVE  /\ handlers' \in [Handlers -> CallRecords \cup {Nothing}]
         /\ handlers[h] = Nothing /\ handlers'[h] = call
         /\ \A k \in Handlers : k # h =>
              /\ InFlight(k)' <=> InFlight(k)
              /\ handlers'[k].kind = handlers[k].kind /\ handlers'[k].of = handlers[k].of
              /\ handlers'[k].at = handlers[k].at /\ handlers'[k].owed = handlers[k].owed
              /\ handlers'[k].sessions = handlers[k].sessions
              /\ handlers'[k].grants = handlers[k].grants
              /\ handlers'[k].verified = handlers[k].verified
              /\ InFlight(k) =>
                   /\ handlers'[k].alone => handlers[k].alone
                   /\ call.kind = "confirm" => ~handlers'[k].alone
<1>1. \A k \in Handlers : InFlight(k) =>
        /\ [handlers[k] EXCEPT !.alone = FALSE] \in CallRecords
        /\ handlers[k] \in CallRecords
  BY DEF ErasureTypeOK, InFlight, CallRecords
<1>2. handlers[h] = Nothing /\ handlers'[h] = call
  BY DEF Sends
<1>3. ASSUME NEW k \in Handlers, k # h
      PROVE  \/ handlers'[k] = handlers[k]
             \/ /\ call.kind = "confirm" /\ InFlight(k)
                /\ handlers'[k] = [handlers[k] EXCEPT !.alone = FALSE]
  BY <1>3 DEF Sends, InFlight
<1>4. ASSUME NEW k \in Handlers, k # h, call.kind = "confirm", InFlight(k)
      PROVE  handlers'[k] = [handlers[k] EXCEPT !.alone = FALSE]
  BY <1>4 DEF Sends, InFlight
<1>5. handlers' \in [Handlers -> CallRecords \cup {Nothing}]
  <2>1. \A k \in Handlers : handlers'[k] \in CallRecords \cup {Nothing}
    BY <1>1, <1>2, <1>3 DEF ErasureTypeOK
  <2>2. \E F : handlers' = [k \in Handlers |-> F[k]]
    <3> DEFINE F == [k \in Handlers |->
          IF k = h THEN call
          ELSE IF call.kind = "confirm" /\ handlers[k] # Nothing
               THEN [handlers[k] EXCEPT !.alone = FALSE] ELSE handlers[k]]
    <3>1. handlers' = F
      BY DEF Sends
    <3>2. F = [k \in Handlers |-> F[k]]
      OBVIOUS
    <3> QED
      BY <3>1, <3>2
  <2> QED
    BY <2>1, <2>2
<1>6. \A k \in Handlers : InFlight(k) =>
        LET e == [handlers[k] EXCEPT !.alone = FALSE] IN
        /\ e.kind = handlers[k].kind /\ e.of = handlers[k].of
        /\ e.at = handlers[k].at /\ e.owed = handlers[k].owed
        /\ e.sessions = handlers[k].sessions /\ e.grants = handlers[k].grants
        /\ e.verified = handlers[k].verified /\ ~e.alone
  BY <1>1 DEF CallRecords
<1>7. ASSUME NEW k \in Handlers, k # h
      PROVE  InFlight(k)' <=> InFlight(k)
  BY <1>1, <1>3, <1>7, IdAssumption DEF InFlight
<1>8. ASSUME NEW k \in Handlers, k # h
      PROVE  /\ handlers'[k].kind = handlers[k].kind /\ handlers'[k].of = handlers[k].of
             /\ handlers'[k].at = handlers[k].at /\ handlers'[k].owed = handlers[k].owed
             /\ handlers'[k].sessions = handlers[k].sessions
             /\ handlers'[k].grants = handlers[k].grants
             /\ handlers'[k].verified = handlers[k].verified
  BY <1>3, <1>6, <1>8
<1>9. ASSUME NEW k \in Handlers, k # h, InFlight(k)
      PROVE  /\ handlers'[k].alone => handlers[k].alone
             /\ call.kind = "confirm" => ~handlers'[k].alone
  BY <1>3, <1>4, <1>6, <1>9
<1> QED
  BY <1>2, <1>5, <1>7, <1>8, <1>9

\* A call that is sent, at its first place, disturbs nothing but being alone.
LEMMA SentCall ==
  ASSUME ErasureInv, NEW h \in Handlers, NEW call \in CallRecords, Sends(h, call),
         call.at = "finds", NamesUntouched, UNCHANGED <<account, device>>,
         asked' \in SUBSET (Sessions \cup Grants), asked \subseteq asked',
         call.kind # "confirm" => (call.alone => \A k \in Handlers : ~Confirms(k)),
         call.kind = "confirm" => call.owed = told,
         call.kind \in {"session", "grant"} => call.of \in asked' \ asked,
         call.kind \in {"grant", "delete", "revoke", "retire"} => ~Served(call.of)
  PROVE  ErasureInv'
<1>0. ErasureTypeOK /\ CallsInv /\ NamesInv /\ ListsCover
  BY DEF ErasureInv
<1>1. ErasureTypeOK'
  BY <1>0, SendsTo DEF ErasureTypeOK, NamesUntouched
<1>2. NamesInv'
  <2>1. StandingIsNamed'
    BY <1>0 DEF NamesInv, StandingIsNamed, NamesUntouched, StandingSessions, StandingGrants
  <2>2. ASSUME NEW k \in Handlers, InFlight(k)'
        PROVE  Named(k)' /\ Destroyed(k)'
    <3>1. CASE k = h
      BY <1>0, <3>1, SendsTo DEF Named, Destroyed, AtPlace
    <3>2. CASE k # h
      BY <1>0, <2>2, <3>2, SendsTo
         DEF NamesInv, AloneIsNamed, DestroyedFirst, Named, Destroyed, AtPlace, InFlight,
             NamesUntouched
    <3> QED
      BY <3>1, <3>2
  <2> QED
    BY <2>1, <2>2 DEF NamesInv, AloneIsNamed, DestroyedFirst
<1>3. ListsCover'
  <2> SUFFICES ASSUME NEW k \in Handlers, Confirms(k)' PROVE Covers(k)'
    BY DEF ListsCover
  <2>1. StandingSessions' = StandingSessions /\ StandingGrants' = StandingGrants
    BY DEF NamesUntouched, StandingSessions, StandingGrants
  <2>2. CASE k = h
    BY <1>0, <2>2, SendsTo DEF Covers
  <2>3. CASE k # h
    BY <1>0, <2>1, <2>3, SendsTo DEF ListsCover, Covers, Confirms, InFlight
  <2> QED
    BY <2>2, <2>3
<1>4. NoneIsAlone' /\ OwesWhatWasTold'
  <2>1. ASSUME NEW j \in Handlers, NEW k \in Handlers, Confirms(j)', InFlight(k)', ~Confirms(k)'
        PROVE  ~handlers'[k].alone
    <3>1. CASE k = h
      BY <1>0, <2>1, <3>1, SendsTo, IdAssumption DEF Confirms, InFlight
    <3>2. CASE k # h
      BY <1>0, <2>1, <3>2, SendsTo DEF CallsInv, NoneIsAlone, Confirms, InFlight
    <3> QED
      BY <3>1, <3>2
  <2>2. ASSUME NEW k \in Handlers, Confirms(k)'
        PROVE  handlers'[k].owed = told
    BY <1>0, <2>2, SendsTo DEF CallsInv, OwesWhatWasTold, Confirms, InFlight
  <2> QED
    BY <2>1, <2>2 DEF NoneIsAlone, OwesWhatWasTold, NamesUntouched
<1>5. CreatesTheUntold'
  <2> SUFFICES ASSUME NEW k \in Handlers, Creates(k)' PROVE handlers'[k].of \in asked' \ told
    BY DEF CreatesTheUntold, NamesUntouched
  <2>1. CASE k = h
    BY <1>0, <2>1, SendsTo DEF Creates, ErasureTypeOK
  <2>2. CASE k # h
    BY <1>0, <2>2, SendsTo DEF Creates, CallsInv, CreatesTheUntold, InFlight
  <2> QED
    BY <2>1, <2>2
<1>6. OneCallPerObject'
  <2>1. ASSUME NEW k \in Handlers, k # h, OfObject(k), call.kind \notin {"plan", "confirm"}
        PROVE  handlers[k].of # call.of
    <3>1. handlers[k] \in CallRecords
      BY <1>0, <2>1 DEF OfObject, InFlight, ErasureTypeOK
    <3>2. CASE call.kind = "session"
      <4>1. call.of \in Sessions /\ call.of \notin asked
        BY <3>2 DEF CallRecords
      <4>2. CASE handlers[k].kind = "session"
        BY <1>0, <2>1, <4>1, <4>2 DEF CallsInv, CreatesTheUntold, Creates, OfObject
      <4>3. CASE handlers[k].kind # "session"
        BY <2>1, <3>1, <4>1, <4>3, IdAssumption DEF OfObject, CallRecords
      <4> QED
        BY <4>2, <4>3
    <3>3. CASE call.kind # "session"
      <4>1. call.kind \in {"grant", "delete", "revoke", "retire"}
        BY <2>1, <3>3 DEF CallRecords
      <4> QED
        BY <2>1, <4>1 DEF Served, OfObject, InFlight
    <3> QED
      BY <3>2, <3>3
  <2>2. \A k \in Handlers : k # h => (OfObject(k)' <=> OfObject(k))
    BY <1>0, SendsTo DEF OfObject, InFlight
  <2>3. OfObject(h)' => call.kind \notin {"plan", "confirm"}
    BY <1>0, SendsTo DEF OfObject
  <2> SUFFICES ASSUME NEW j \in Handlers, NEW k \in Handlers, OfObject(j)', OfObject(k)', j # k
               PROVE  handlers'[j].of # handlers'[k].of
    BY DEF OneCallPerObject
  <2>4. CASE j # h /\ k # h
    BY <1>0, <2>2, <2>4, SendsTo DEF CallsInv, OneCallPerObject
  <2>5. CASE j = h
    BY <1>0, <2>1, <2>2, <2>3, <2>5, SendsTo
  <2>6. CASE k = h
    BY <1>0, <2>1, <2>2, <2>3, <2>6, SendsTo
  <2> QED
    BY <2>4, <2>5, <2>6
<1> QED
  BY <1>1, <1>2, <1>3, <1>4, <1>5, <1>6 DEF ErasureInv, CallsInv

LEMMA SendSteps ==
  ASSUME ErasureInv, NEW h \in Handlers,
         \/ \E s \in Sessions : CreateSession(h, s)
         \/ \E g \in Grants :
              CreateGrant(h, g) \/ \E kind \in {"delete", "revoke", "retire"} : EndGrant(h, g, kind)
         \/ \E r \in Plans : PlanDeletion(h, r) \/ ConfirmDeletion(h, r)
  PROVE  ErasureInv'
<1>0. /\ asked \in SUBSET (Sessions \cup Grants) /\ told \subseteq asked
      /\ {"delete", "revoke", "retire"} \subseteq
           {"session", "grant", "delete", "revoke", "retire", "plan", "confirm"}
  BY DEF ErasureInv, ErasureTypeOK
<1>1. ASSUME NEW s \in Sessions, CreateSession(h, s)
      PROVE  ErasureInv'
  <2> DEFINE call == Call("session", s)
  <2>1. /\ Sends(h, call) /\ s \notin asked /\ asked' = asked \cup {s}
        /\ NamesUntouched /\ UNCHANGED <<account, device>>
    BY <1>1 DEF CreateSession, NamesUntouched, d1, objects
  <2>2. /\ call \in CallRecords /\ call.kind = "session" /\ call.of = s /\ call.at = "finds"
        /\ call.alone => \A k \in Handlers : ~Confirms(k)
    BY <1>0, CallTyped
  <2> HIDE DEF call
  <2> QED
    BY <1>0, <2>1, <2>2, SentCall
<1>2. ASSUME NEW g \in Grants, CreateGrant(h, g)
      PROVE  ErasureInv'
  <2> DEFINE call == Call("grant", g)
  <2>1. /\ Sends(h, call) /\ g \notin asked /\ asked' = asked \cup {g} /\ ~Served(g)
        /\ NamesUntouched /\ UNCHANGED <<account, device>>
    BY <1>2 DEF CreateGrant, NamesUntouched, d1, objects
  <2>2. /\ call \in CallRecords /\ call.kind = "grant" /\ call.of = g /\ call.at = "finds"
        /\ call.alone => \A k \in Handlers : ~Confirms(k)
    BY <1>0, CallTyped
  <2> HIDE DEF call
  <2> QED
    BY <1>0, <2>1, <2>2, SentCall
<1>3. ASSUME NEW g \in Grants, NEW kind \in {"delete", "revoke", "retire"}, EndGrant(h, g, kind)
      PROVE  ErasureInv'
  <2> DEFINE call == Call(kind, g)
  <2>1. /\ Sends(h, call) /\ ~Served(g)
        /\ NamesUntouched /\ UNCHANGED <<account, device, asked>>
    BY <1>3 DEF EndGrant, NamesUntouched, d1, objects, bounds
  <2>2. /\ call \in CallRecords /\ call.kind = kind /\ call.of = g /\ call.at = "finds"
        /\ call.alone => \A k \in Handlers : ~Confirms(k)
    BY <1>0, CallTyped
  <2> HIDE DEF call
  <2> QED
    BY <1>0, <2>1, <2>2, SentCall
<1>4. ASSUME NEW r \in Plans, PlanDeletion(h, r)
      PROVE  ErasureInv'
  <2> DEFINE call == Call("plan", r)
  <2>1. /\ Sends(h, call)
        /\ NamesUntouched /\ UNCHANGED <<account, device, asked>>
    BY <1>4 DEF PlanDeletion, NamesUntouched, d1, objects, bounds
  <2>2. /\ call \in CallRecords /\ call.kind = "plan" /\ call.of = r /\ call.at = "finds"
        /\ call.alone => \A k \in Handlers : ~Confirms(k)
    BY <1>0, CallTyped
  <2> HIDE DEF call
  <2> QED
    BY <1>0, <2>1, <2>2, SentCall
<1>5. ASSUME NEW r \in Plans, ConfirmDeletion(h, r)
      PROVE  ErasureInv'
  <2> DEFINE call == [Call("confirm", r) EXCEPT !.owed = told]
  <2>1. /\ Sends(h, call)
        /\ NamesUntouched /\ UNCHANGED <<account, device, asked>>
    BY <1>5 DEF ConfirmDeletion, NamesUntouched, d1, objects, bounds
  <2>2. Call("confirm", r) \in CallRecords /\ Call("confirm", r).kind = "confirm"
        /\ Call("confirm", r).at = "finds"
    BY <1>0, CallTyped
  <2>3. call \in CallRecords /\ call.kind = "confirm" /\ call.at = "finds" /\ call.owed = told
    BY <1>0, <2>2 DEF CallRecords
  <2> HIDE DEF call
  <2> QED
    BY <1>0, <2>1, <2>3, SentCall
<1> QED
  BY <1>1, <1>2, <1>3, <1>4, <1>5

(***************************************************************************)
(* The platform: evictions, a pairing that completes, a call cut short.    *)
(***************************************************************************)
LEMMA EvictionSteps ==
  ASSUME ErasureInv,
         \/ \E s \in Sessions : EvictsCoordinator(s)
         \/ \E g \in Grants : EvictsMailbox(g)
         \/ PairsDevice
  PROVE  ErasureInv'
<1>1. UNCHANGED <<handlers, asked, told, rows, grants>>
  BY DEF EvictsCoordinator, EvictsMailbox, PairsDevice, d1, bounds
<1>2. ErasureTypeOK'
  BY <1>1 DEF ErasureInv, ErasureTypeOK, EvictsCoordinator, EvictsMailbox, PairsDevice, d1,
              objects, ObjectStates
<1>3. /\ \A s \in Sessions : coordinators'[s] = "PRESENT" => coordinators[s] = "PRESENT"
      /\ \A g \in Grants : mailboxes'[g] = "PRESENT" => mailboxes[g] = "PRESENT"
  BY DEF ErasureInv, ErasureTypeOK, EvictsCoordinator, EvictsMailbox, PairsDevice, d1,
         objects, Absent
<1>4. Shrinks
  BY <1>1, <1>3 DEF Shrinks, StandingSessions, StandingGrants
<1>5. CallsInv'
  BY <1>1 DEF ErasureInv, CallsInv, OneCallPerObject, CreatesTheUntold, NoneIsAlone,
              OwesWhatWasTold, OfObject, Creates, Confirms, InFlight
<1>6. NamesInv'
  <2>1. StandingIsNamed' /\ AloneIsNamed'
    BY <1>1, <1>4 DEF ErasureInv, NamesInv, StandingIsNamed, AloneIsNamed, Named, InFlight,
                      AtPlace, Shrinks
  <2>2. \A h \in Handlers : InFlight(h) /\ handlers[h].kind \in {"delete", "retire"} =>
          handlers[h].of \in Grants
    BY DEF ErasureInv, ErasureTypeOK, InFlight, CallRecords
  <2>3. DestroyedFirst'
    BY <1>1, <1>3, <2>2 DEF ErasureInv, NamesInv, DestroyedFirst, Destroyed, InFlight, AtPlace
  <2> QED
    BY <2>1, <2>3 DEF NamesInv
<1>7. ListsCover'
  BY <1>1, <1>4, CoversStays DEF ErasureInv, ListsCover, Confirms
<1> QED
  BY <1>2, <1>5, <1>6, <1>7 DEF ErasureInv

LEMMA CutStep ==
  ASSUME ErasureInv, NEW h \in Handlers, CutShort(h)
  PROVE  ErasureInv'
<1>0. ErasureTypeOK /\ CallsInv /\ NamesInv /\ ListsCover
  BY DEF ErasureInv
<1>1. /\ InFlight(h) /\ Moves(h) /\ handlers'[h] = Nothing
      /\ \A k \in Handlers : k # h => handlers'[k] = handlers[k]
      /\ handlers' \in [Handlers -> CallRecords \cup {Nothing}]
      /\ NamesUntouched /\ UNCHANGED <<account, device>>
      /\ asked' = IF handlers[h].kind = "grant" THEN asked \ {handlers[h].of} ELSE asked
  BY <1>0, EndsMoves, MovesOne DEF CutShort, InFlight, NamesUntouched, d1, objects
<1>2. told \subseteq asked'
  BY <1>0, <1>1 DEF CallsInv, CreatesTheUntold, Creates, InFlight, ErasureTypeOK
<1>3. ErasureTypeOK'
  BY <1>0, <1>1, <1>2 DEF ErasureTypeOK, NamesUntouched
<1>4. \A k \in Handlers : InFlight(k)' => k # h /\ InFlight(k)
  BY <1>1 DEF InFlight
<1>5. CreatesTheUntold'
  <2> SUFFICES ASSUME NEW k \in Handlers, Creates(k)'
               PROVE  handlers'[k].of \in asked' \ told
    BY <1>1 DEF CreatesTheUntold, NamesUntouched
  <2>1. k # h /\ Creates(k) /\ handlers'[k] = handlers[k]
    BY <1>1, <1>4 DEF Creates
  <2>2. handlers[k].of \in asked \ told
    BY <1>0, <2>1 DEF CallsInv, CreatesTheUntold
  <2>3. handlers[h].kind = "grant" => handlers[k].of # handlers[h].of
    BY <1>0, <1>1, <2>1 DEF CallsInv, OneCallPerObject, OfObject, Creates
  <2> QED
    BY <1>1, <2>1, <2>2, <2>3
<1>6. OneCallPerObject' /\ NoneIsAlone' /\ OwesWhatWasTold'
  BY <1>0, <1>1, <1>4 DEF CallsInv, OneCallPerObject, NoneIsAlone, OwesWhatWasTold, OfObject,
                          Confirms, InFlight, NamesUntouched
<1>7. NamesInv' /\ ListsCover'
  <2>1. ~InFlight(h)' /\ ~Confirms(h)' /\ Shrinks
    BY <1>1 DEF InFlight, Confirms, NamesUntouched, Shrinks, StandingSessions, StandingGrants
  <2> QED
    BY <1>0, <1>1, <2>1, QuietNames, ListsStay
<1> QED
  BY <1>3, <1>5, <1>6, <1>7 DEF ErasureInv, CallsInv

(***************************************************************************)
(* A call's own step on the rows and the objects: it writes those of its   *)
(* own session or grant, or it confirms a deletion and no other is alone.  *)
(***************************************************************************)
Owned(h, g) == OfObject(h) /\ handlers[h].of = g

WritesItsOwn(h) ==
  /\ Confirms(h) \/ rows \subseteq rows'
  /\ Confirms(h) \/ \A g \in Grants : grants'[g] = grants[g] \/ Owned(h, g)
  /\ \A g \in Grants : mailboxes'[g] = "PRESENT" => mailboxes[g] = "PRESENT" \/ Owned(h, g)

LEMMA OthersNamed ==
  ASSUME ErasureInv, NEW h \in Handlers, InFlight(h), WritesItsOwn(h),
         NEW k \in Handlers, k # h, handlers'[k] = handlers[k], InFlight(k)
  PROVE  Named(k)' /\ Destroyed(k)'
<1>1. handlers[k] \in CallRecords /\ Named(k) /\ Destroyed(k)
  BY DEF ErasureInv, ErasureTypeOK, NamesInv, AloneIsNamed, DestroyedFirst, InFlight
<1>2. OfObject(k) => ~Owned(h, handlers[k].of)
  BY DEF ErasureInv, CallsInv, OneCallPerObject, Owned
<1>3. Confirms(h) /\ OfObject(k) => ~handlers[k].alone
  BY DEF ErasureInv, CallsInv, NoneIsAlone, OfObject, Confirms
<1>4. CASE ~OfObject(k)
  BY <1>1, <1>4 DEF Named, Destroyed, AtPlace, OfObject
<1>5. CASE OfObject(k)
  <2>1. Named(k)'
    BY <1>1, <1>2, <1>3, <1>5 DEF Named, AtPlace, WritesItsOwn, CallRecords
  <2>2. Destroyed(k)'
    BY <1>1, <1>2, <1>5 DEF Destroyed, AtPlace, WritesItsOwn, CallRecords
  <2> QED
    BY <2>1, <2>2
<1> QED
  BY <1>4, <1>5

TablesTyped ==
  /\ account \in BOOLEAN /\ device \in BOOLEAN
  /\ rows \in SUBSET Sessions
  /\ grants \in [Grants -> GrantStates]
  /\ coordinators \in [Sessions -> ObjectStates]
  /\ mailboxes \in [Grants -> ObjectStates]

LEMMA StepMove ==
  ASSUME ErasureInv, NEW h \in Handlers, InFlight(h), Moves(h), UNCHANGED <<asked, told>>,
         TablesTyped', WritesItsOwn(h), Shrinks, StandingIsNamed',
         InFlight(h)' => Named(h)' /\ Destroyed(h)',
         Confirms(h)' => Covers(h)'
  PROVE  ErasureInv'
<1>0. ErasureTypeOK /\ CallsInv /\ ListsCover
  BY DEF ErasureInv
<1>1. /\ \A k \in Handlers : k # h => handlers'[k] = handlers[k]
      /\ handlers' \in [Handlers -> CallRecords \cup {Nothing}]
  BY <1>0, MovesOne
<1>2. ErasureTypeOK'
  BY <1>0, <1>1 DEF ErasureTypeOK, TablesTyped
<1>3. AloneIsNamed' /\ DestroyedFirst'
  <2> SUFFICES ASSUME NEW k \in Handlers, InFlight(k)' PROVE Named(k)' /\ Destroyed(k)'
    BY DEF AloneIsNamed, DestroyedFirst
  <2>1. CASE k # h
    <3>1. handlers'[k] = handlers[k] /\ InFlight(k)
      BY <1>1, <2>1 DEF InFlight
    <3> QED
      BY <2>1, <3>1, OthersNamed
  <2> QED
    BY <2>1
<1> QED
  BY <1>0, <1>1, <1>2, <1>3, MovesKeepCalls, ListsStay DEF ErasureInv, NamesInv

\* A call that is alone tells the owner of what its rows name.
LEMMA StepTells ==
  ASSUME ErasureInv, NEW h \in Handlers, Creates(h), handlers[h].alone, Ends(h),
         UNCHANGED asked, told' = told \cup {handlers[h].of}, TablesTyped', WritesItsOwn(h),
         StandingIsNamed'
  PROVE  ErasureInv'
<1>0. ErasureTypeOK /\ CallsInv
  BY DEF ErasureInv
<1>1. /\ \A k \in Handlers : k # h => handlers'[k] = handlers[k]
      /\ handlers'[h] = Nothing
      /\ handlers' \in [Handlers -> CallRecords \cup {Nothing}]
  BY <1>0, EndsMoves, MovesOne
<1>2. handlers[h].of \in asked \ told
  BY <1>0 DEF CallsInv, CreatesTheUntold
<1>3. ErasureTypeOK'
  BY <1>0, <1>1, <1>2 DEF ErasureTypeOK, TablesTyped
<1>4. \A k \in Handlers : InFlight(k)' => k # h /\ InFlight(k) /\ handlers'[k] = handlers[k]
  BY <1>1 DEF InFlight
<1>5. \A k \in Handlers : ~Confirms(k) /\ ~Confirms(k)'
  <2>1. InFlight(h) /\ ~Confirms(h)
    BY DEF Creates, Confirms, InFlight
  <2>2. \A k \in Handlers : ~Confirms(k)
    BY <1>0, <2>1 DEF CallsInv, NoneIsAlone
  <2> QED
    BY <1>4, <2>2 DEF Confirms, InFlight
<1>6. CreatesTheUntold'
  <2> SUFFICES ASSUME NEW k \in Handlers, Creates(k)'
               PROVE  handlers'[k].of \in asked \ told'
    BY DEF CreatesTheUntold
  <2>1. k # h /\ Creates(k) /\ handlers'[k] = handlers[k]
    BY <1>4 DEF Creates, InFlight
  <2>2. handlers[k].of \in asked \ told
    BY <1>0, <2>1 DEF CallsInv, CreatesTheUntold
  <2>3. handlers[k].of # handlers[h].of
    BY <1>0, <2>1 DEF CallsInv, OneCallPerObject, OfObject, Creates
  <2> QED
    BY <2>1, <2>2, <2>3
<1>7. OneCallPerObject' /\ NoneIsAlone' /\ OwesWhatWasTold'
  BY <1>0, <1>4, <1>5 DEF CallsInv, OneCallPerObject, NoneIsAlone, OwesWhatWasTold, OfObject,
                          InFlight
<1>8. AloneIsNamed' /\ DestroyedFirst'
  BY <1>4, OthersNamed DEF AloneIsNamed, DestroyedFirst, Creates
<1>9. ListsCover'
  BY <1>5 DEF ListsCover
<1> QED
  BY <1>3, <1>6, <1>7, <1>8, <1>9 DEF ErasureInv, CallsInv, NamesInv

LEMMA SessionSteps ==
  ASSUME ErasureInv, NEW h \in Handlers, SessionInserts(h) \/ SessionInitializes(h)
  PROVE  ErasureInv'
<1> DEFINE s == handlers[h].of
<1>0. ErasureTypeOK /\ NamesInv
  BY DEF ErasureInv
<1>1. InFlight(h) /\ handlers[h].kind = "session" /\ s \in Sessions
  BY <1>0 DEF SessionInserts, SessionInitializes, AtPlace, InFlight, ErasureTypeOK, CallRecords
<1>2. CASE SessionInserts(h)
  <2>1. UNCHANGED <<account, device, grants, coordinators, mailboxes, asked, told>>
    BY <1>2 DEF SessionInserts, objects, bounds
  <2>2. rows' \in SUBSET Sessions /\ rows \subseteq rows'
    BY <1>0, <1>1, <1>2 DEF SessionInserts, ErasureTypeOK
  <2>3. WritesItsOwn(h) /\ Shrinks /\ StandingIsNamed' /\ TablesTyped'
    BY <1>0, <2>1, <2>2 DEF WritesItsOwn, Shrinks, StandingIsNamed, StandingSessions,
                            StandingGrants, NamesInv, TablesTyped, ErasureTypeOK
  <2>4. CASE Ends(h)
    <3>1. Moves(h) /\ handlers'[h] = Nothing
      BY <1>0, <2>4, EndsMoves
    <3> QED
      BY <1>1, <2>1, <2>3, <3>1, StepMove DEF InFlight, Confirms
  <2>5. CASE Goes(h, "initializes") /\ s \in rows'
    <3>1. /\ Moves(h) /\ handlers'[h].kind = "session" /\ handlers'[h].of = s
          /\ handlers'[h].at = "initializes"
      BY <1>0, <1>1, <2>5, GoesMoves DEF Places
    <3>2. Named(h)' /\ Destroyed(h)' /\ ~Confirms(h)'
      BY <2>5, <3>1 DEF Named, Destroyed, AtPlace, Confirms
    <3> QED
      BY <1>1, <2>1, <2>3, <3>1, <3>2, StepMove
  <2> QED
    BY <1>2, <2>4, <2>5 DEF SessionInserts
<1>3. CASE SessionInitializes(h)
  <2>1. /\ coordinators' = [coordinators EXCEPT ![s] = "PRESENT"]
        /\ told' = IF handlers[h].alone THEN told \cup {s} ELSE told
        /\ Ends(h)
        /\ UNCHANGED <<account, device, rows, grants, plans, mailboxes, asked>>
    BY <1>3 DEF SessionInitializes, Undisturbed, d1, bounds
  <2>2. WritesItsOwn(h) /\ TablesTyped'
    BY <1>0, <2>1 DEF WritesItsOwn, TablesTyped, ErasureTypeOK, ObjectStates
  <2>3. \A r \in Sessions : r # s => coordinators'[r] = coordinators[r]
    BY <1>0, <2>1 DEF ErasureTypeOK
  <2>4. CASE handlers[h].alone
    <3>1. s \in rows
      BY <1>0, <1>1, <1>3, <2>4
         DEF SessionInitializes, NamesInv, AloneIsNamed, Named, AtPlace, InFlight
    <3>2. StandingSessions' \subseteq StandingSessions \cup {s}
      BY <2>1, <2>3 DEF StandingSessions
    <3>3. StandingGrants' \subseteq StandingGrants
      BY <1>1, <2>1, IdAssumption DEF StandingGrants
    <3>4. StandingIsNamed'
      BY <1>0, <2>1, <3>1, <3>2, <3>3 DEF NamesInv, StandingIsNamed
    <3> QED
      BY <1>1, <2>1, <2>2, <2>4, <3>4, StepTells DEF Creates
  <2>5. CASE ~handlers[h].alone
    <3>1. told' = told /\ s \notin told
      BY <1>1, <2>1, <2>5 DEF ErasureInv, CallsInv, CreatesTheUntold, Creates
    <3>2. StandingSessions' = StandingSessions /\ StandingGrants' = StandingGrants
      BY <2>1, <2>3, <3>1 DEF StandingSessions, StandingGrants
    <3>3. Shrinks /\ StandingIsNamed'
      BY <1>0, <2>1, <3>2 DEF Shrinks, NamesInv, StandingIsNamed
    <3>4. Moves(h) /\ handlers'[h] = Nothing
      BY <1>0, <2>1, EndsMoves
    <3> QED
      BY <1>1, <2>1, <2>2, <3>1, <3>3, <3>4, StepMove DEF InFlight, Confirms
  <2> QED
    BY <2>4, <2>5
<1> QED
  BY <1>2, <1>3

LEMMA GrantSteps ==
  ASSUME ErasureInv, NEW h \in Handlers,
         GrantInserts(h) \/ GrantInitializes(h) \/ GrantActivates(h)
  PROVE  ErasureInv'
<1> DEFINE g == handlers[h].of
<1>0. ErasureTypeOK /\ NamesInv
  BY DEF ErasureInv
<1>1. InFlight(h) /\ handlers[h].kind = "grant" /\ g \in Grants /\ OfObject(h) /\ Owned(h, g)
  BY <1>0 DEF GrantInserts, GrantInitializes, GrantActivates, AtPlace, InFlight, OfObject,
              Owned, ErasureTypeOK, CallRecords
<1>2. g \notin told /\ g \notin Sessions
  BY <1>1, IdAssumption DEF ErasureInv, CallsInv, CreatesTheUntold, Creates
<1>3. CASE GrantInserts(h)
  <2>1. UNCHANGED <<account, device, rows, coordinators, mailboxes, asked, told>>
    BY <1>3 DEF GrantInserts, objects, bounds
  <2>2. /\ grants' \in [Grants -> GrantStates]
        /\ \A f \in Grants : f # g => grants'[f] = grants[f]
    BY <1>0, <1>1, <1>3 DEF GrantInserts, ErasureTypeOK, GrantStates
  <2>3. WritesItsOwn(h) /\ Shrinks /\ TablesTyped'
    BY <1>0, <1>1, <2>1, <2>2 DEF WritesItsOwn, Owned, Shrinks, StandingSessions,
                                  StandingGrants, TablesTyped, ErasureTypeOK
  <2>4. StandingIsNamed'
    BY <1>0, <1>2, <2>1, <2>2
       DEF NamesInv, StandingIsNamed, StandingSessions, StandingGrants
  <2>5. CASE Ends(h)
    <3>1. Moves(h) /\ handlers'[h] = Nothing
      BY <1>0, <2>5, EndsMoves
    <3> QED
      BY <1>1, <2>1, <2>3, <2>4, <3>1, StepMove DEF InFlight, Confirms
  <2>6. CASE Goes(h, "initializes") /\ grants'[g] = "PENDING"
    <3>1. /\ Moves(h) /\ handlers'[h].kind = "grant" /\ handlers'[h].of = g
          /\ handlers'[h].at = "initializes"
      BY <1>0, <1>1, <2>6, GoesMoves DEF Places
    <3>2. Named(h)' /\ Destroyed(h)' /\ ~Confirms(h)'
      BY <2>6, <3>1 DEF Named, Destroyed, AtPlace, Confirms
    <3> QED
      BY <1>1, <2>1, <2>3, <2>4, <3>1, <3>2, StepMove
  <2>7. Ends(h) \/ (Goes(h, "initializes") /\ grants'[g] = "PENDING")
    BY <1>0, <1>1, <1>3 DEF GrantInserts, ErasureTypeOK
  <2> QED
    BY <2>5, <2>6, <2>7
<1>4. CASE GrantInitializes(h)
  <2>1. UNCHANGED <<account, device, rows, grants, coordinators, asked, told>>
    BY <1>4 DEF GrantInitializes, d1, bounds
  <2>2. /\ mailboxes' \in [Grants -> ObjectStates]
        /\ \A f \in Grants : f # g => mailboxes'[f] = mailboxes[f]
    BY <1>0, <1>4 DEF GrantInitializes, ErasureTypeOK, ObjectStates
  <2>3. WritesItsOwn(h) /\ TablesTyped'
    BY <1>0, <1>1, <2>1, <2>2 DEF WritesItsOwn, TablesTyped, ErasureTypeOK
  <2>4. StandingSessions' = StandingSessions /\ StandingGrants' = StandingGrants
    BY <1>2, <2>1, <2>2 DEF StandingSessions, StandingGrants
  <2>5. Shrinks /\ StandingIsNamed'
    BY <1>0, <2>1, <2>4 DEF Shrinks, NamesInv, StandingIsNamed
  <2>6. CASE Ends(h)
    <3>1. Moves(h) /\ handlers'[h] = Nothing
      BY <1>0, <2>6, EndsMoves
    <3> QED
      BY <1>1, <2>1, <2>3, <2>5, <3>1, StepMove DEF InFlight, Confirms
  <2>7. CASE Goes(h, "activates")
    <3>1. /\ Moves(h) /\ handlers'[h].kind = "grant" /\ handlers'[h].of = g
          /\ handlers'[h].at = "activates" /\ handlers'[h].alone = handlers[h].alone
      BY <1>0, <1>1, <2>7, GoesMoves DEF Places
    <3>2. handlers[h].alone => grants[g] = "PENDING"
      BY <1>0, <1>1, <1>4
         DEF GrantInitializes, NamesInv, AloneIsNamed, Named, AtPlace, InFlight
    <3>3. Named(h)' /\ Destroyed(h)' /\ ~Confirms(h)'
      BY <2>1, <3>1, <3>2 DEF Named, Destroyed, AtPlace, Confirms
    <3> QED
      BY <1>1, <2>1, <2>3, <2>5, <3>1, <3>3, StepMove
  <2> QED
    BY <1>4, <2>6, <2>7 DEF GrantInitializes
<1>5. CASE GrantActivates(h)
  <2>1. /\ grants' = [grants EXCEPT ![g] = IF @ = "PENDING" THEN "ACTIVE" ELSE @]
        /\ told' = IF handlers[h].alone THEN told \cup {g} ELSE told
        /\ Ends(h)
        /\ UNCHANGED <<account, device, rows, coordinators, mailboxes, asked>>
    BY <1>5 DEF GrantActivates, Undisturbed, objects, bounds
  <2>2. /\ grants' \in [Grants -> GrantStates]
        /\ \A f \in Grants : f # g => grants'[f] = grants[f]
        /\ grants[g] = "PENDING" => grants'[g] = "ACTIVE"
    BY <1>0, <1>1, <2>1 DEF ErasureTypeOK, GrantStates
  <2>3. WritesItsOwn(h) /\ TablesTyped'
    BY <1>0, <1>1, <2>1, <2>2 DEF WritesItsOwn, Owned, TablesTyped, ErasureTypeOK
  <2>4. CASE handlers[h].alone
    <3>1. grants'[g] = "ACTIVE"
      BY <1>0, <1>1, <1>5, <2>2, <2>4
         DEF GrantActivates, NamesInv, AloneIsNamed, Named, AtPlace, InFlight
    <3>2. StandingGrants' \subseteq StandingGrants \cup {g}
      BY <2>1 DEF StandingGrants
    <3>3. StandingSessions' \subseteq StandingSessions
      BY <1>2, <2>1 DEF StandingSessions
    <3>4. \A f \in StandingGrants : f # g /\ f \in Grants
      BY <1>2 DEF StandingGrants
    <3>5. StandingIsNamed'
      BY <1>0, <2>1, <2>2, <3>1, <3>2, <3>3, <3>4 DEF NamesInv, StandingIsNamed, Absent
    <3> QED
      BY <1>1, <2>1, <2>3, <2>4, <3>5, StepTells DEF Creates
  <2>5. CASE ~handlers[h].alone
    <3>1. told' = told
      BY <2>1, <2>5
    <3>2. StandingSessions' = StandingSessions /\ StandingGrants' = StandingGrants
      BY <2>1, <3>1 DEF StandingSessions, StandingGrants
    <3>3. Shrinks /\ StandingIsNamed'
      BY <1>0, <1>2, <2>1, <2>2, <3>2
         DEF Shrinks, NamesInv, StandingIsNamed, StandingGrants
    <3>4. Moves(h) /\ handlers'[h] = Nothing
      BY <1>0, <2>1, EndsMoves
    <3> QED
      BY <1>1, <2>1, <2>3, <3>1, <3>3, <3>4, StepMove DEF InFlight, Confirms
  <2> QED
    BY <2>4, <2>5
<1> QED
  BY <1>3, <1>4, <1>5

LEMMA GrantEndSteps ==
  ASSUME ErasureInv, NEW h \in Handlers,
         GrantEndStarts(h) \/ GrantEndDestroys(h) \/ GrantEndWrites(h)
  PROVE  ErasureInv'
<1> DEFINE g == handlers[h].of
<1>0. ErasureTypeOK /\ NamesInv
  BY DEF ErasureInv
<1>1. /\ InFlight(h) /\ handlers[h].kind \in {"delete", "revoke", "retire"}
      /\ g \in Grants /\ Owned(h, g) /\ ~Confirms(h)
  BY <1>0 DEF GrantEndStarts, GrantEndDestroys, GrantEndWrites, AtPlace, InFlight, OfObject,
              Owned, Confirms, ErasureTypeOK, CallRecords
<1>2. CASE GrantEndStarts(h)
  <2>1. UNCHANGED <<account, device, rows, coordinators, mailboxes, asked, told>>
    BY <1>2 DEF GrantEndStarts, objects, bounds
  <2>2. /\ grants' \in [Grants -> GrantStates]
        /\ \A f \in Grants : grants'[f] = grants[f] \/ (f = g /\ grants'[f] = "DELETING")
    BY <1>0, <1>1, <1>2 DEF GrantEndStarts, ErasureTypeOK, GrantStates
  <2>3. WritesItsOwn(h) /\ Shrinks /\ TablesTyped'
    BY <1>0, <1>1, <2>1, <2>2 DEF WritesItsOwn, Owned, Shrinks, StandingSessions,
                                  StandingGrants, TablesTyped, ErasureTypeOK
  <2>4. StandingIsNamed'
    BY <1>0, <2>1, <2>2
       DEF NamesInv, StandingIsNamed, StandingSessions, StandingGrants, Absent
  <2>5. Ends(h) \/ Goes(h, "destroys") \/ Goes(h, "revokes")
    BY <1>2 DEF GrantEndStarts
  <2>6. Moves(h) /\ (handlers'[h] = Nothing \/ handlers'[h].at \in Quiet)
    BY <1>0, <1>1, <2>5, EndsMoves, GoesMoves DEF Places, Quiet
  <2>7. /\ InFlight(h)' => Named(h)' /\ Destroyed(h)'
        /\ Confirms(h)' => Covers(h)'
    BY <2>6 DEF InFlight, Named, Destroyed, Confirms, Covers, AtPlace, Quiet
  <2> QED
    BY <1>1, <2>1, <2>3, <2>4, <2>6, <2>7, StepMove
<1>3. CASE GrantEndDestroys(h)
  <2>1. UNCHANGED <<account, device, rows, grants, coordinators, asked, told>>
    BY <1>3 DEF GrantEndDestroys, d1, bounds
  <2>2. /\ mailboxes' \in [Grants -> ObjectStates]
        /\ \A f \in Grants : mailboxes'[f] = "PRESENT" => mailboxes[f] = "PRESENT"
        /\ mailboxes'[g] # "PRESENT"
    BY <1>0, <1>1, <1>3 DEF GrantEndDestroys, Destroys, ErasureTypeOK, ObjectStates, Absent
  <2>3. WritesItsOwn(h) /\ Shrinks /\ TablesTyped'
    BY <1>0, <2>1, <2>2 DEF WritesItsOwn, Shrinks, StandingSessions,
                            StandingGrants, TablesTyped, ErasureTypeOK
  <2>4. StandingIsNamed'
    BY <1>0, <2>1, <2>3 DEF NamesInv, StandingIsNamed, Shrinks
  <2>5. /\ Moves(h) /\ handlers'[h].kind = handlers[h].kind /\ handlers'[h].of = g
        /\ handlers'[h].at = "writes"
    BY <1>0, <1>1, <1>3, GoesMoves DEF GrantEndDestroys, Places
  <2>6. Named(h)' /\ Destroyed(h)' /\ ~Confirms(h)'
    BY <1>1, <2>2, <2>5 DEF Named, Destroyed, AtPlace, Confirms
  <2> QED
    BY <1>1, <2>1, <2>3, <2>4, <2>5, <2>6, StepMove
<1>4. CASE GrantEndWrites(h)
  <2>1. UNCHANGED <<account, device, rows, coordinators, mailboxes, asked, told>> /\ Ends(h)
    BY <1>4 DEF GrantEndWrites, objects, bounds
  <2>2. \A f \in Grants : f # g => grants'[f] = grants[f]
    BY <1>0, <1>4 DEF GrantEndWrites, ErasureTypeOK
  <2>3. /\ grants'[g] \in {grants[g], "DELETED", "REVOKED", Absent}
        /\ grants'[g] \in {"DELETED", Absent} /\ grants'[g] # grants[g] =>
             handlers[h].kind \in {"delete", "retire"}
    BY <1>0, <1>1, <1>4 DEF GrantEndWrites, ErasureTypeOK, Absent
  <2>4. grants' \in [Grants -> GrantStates]
    <3>1. \E new : grants' = [grants EXCEPT ![g] = new]
      BY <1>4 DEF GrantEndWrites
    <3> QED
      BY <1>0, <1>1, <2>3, <3>1 DEF ErasureTypeOK, GrantStates, Finished
  <2>5. WritesItsOwn(h) /\ Shrinks /\ TablesTyped'
    BY <1>0, <1>1, <2>1, <2>2, <2>4
       DEF WritesItsOwn, Owned, Shrinks, StandingSessions, StandingGrants, TablesTyped,
           ErasureTypeOK
  <2>6. handlers[h].kind \in {"delete", "retire"} => mailboxes[g] # "PRESENT"
    BY <1>0, <1>1, <1>4
       DEF GrantEndWrites, NamesInv, DestroyedFirst, Destroyed, AtPlace, InFlight
  <2>7. \A f \in StandingGrants' : f \in StandingGrants /\ f \in Grants /\
                                   mailboxes[f] = "PRESENT"
    BY <2>1 DEF StandingGrants
  <2>8. StandingIsNamed'
    BY <1>0, <2>1, <2>2, <2>3, <2>5, <2>6, <2>7
       DEF NamesInv, StandingIsNamed, Shrinks, Absent
  <2>9. Moves(h) /\ handlers'[h] = Nothing
    BY <1>0, <2>1, EndsMoves
  <2> QED
    BY <1>1, <2>1, <2>5, <2>8, <2>9, StepMove DEF InFlight, Confirms
<1> QED
  BY <1>2, <1>3, <1>4

(***************************************************************************)
(* The steps of a confirmed deletion.                                      *)
(***************************************************************************)
LEMMA ConfirmMoves ==
  ASSUME ErasureTypeOK, NEW h \in Handlers, Confirms(h), NEW call,
         handlers' = [handlers EXCEPT ![h] = call],
         call \in CallRecords, call.kind = "confirm", call.of = handlers[h].of,
         call.alone = handlers[h].alone, call.owed = handlers[h].owed
  PROVE  /\ InFlight(h) /\ Moves(h) /\ handlers'[h] = call
         /\ InFlight(h)' => Named(h)' /\ Destroyed(h)'
<1>1. InFlight(h) /\ Moves(h) /\ handlers'[h] = call
  BY DEF Moves, Keeps, Confirms, InFlight, ErasureTypeOK
<1> QED
  BY <1>1 DEF Named, Destroyed, AtPlace

LEMMA ConfirmGoes ==
  ASSUME ErasureTypeOK, NEW h \in Handlers, Confirms(h), NEW at \in Places, Goes(h, at)
  PROVE  /\ InFlight(h) /\ Moves(h)
         /\ handlers'[h].at = at /\ handlers'[h].sessions = handlers[h].sessions
         /\ handlers'[h].grants = handlers[h].grants
         /\ handlers'[h].verified = handlers[h].verified
         /\ InFlight(h)' => Named(h)' /\ Destroyed(h)'
<1>1. InFlight(h)
  BY DEF Confirms, InFlight
<1>2. handlers'[h].kind = "confirm"
  BY <1>1, GoesMoves DEF Confirms
<1> QED
  BY <1>1, <1>2, GoesMoves DEF Named, Destroyed, AtPlace

LEMMA ConfirmLists ==
  ASSUME ErasureInv, NEW h \in Handlers,
         ListsSessions(h) \/ ListsGrants(h) \/ ChecksCoordinator(h) \/ VerifiesDeletion(h)
  PROVE  ErasureInv'
<1>0. ErasureTypeOK /\ NamesInv /\ ListsCover
  BY DEF ErasureInv
<1>1. Confirms(h) /\ handlers[h] \in CallRecords /\ Covers(h)
  BY <1>0 DEF ListsSessions, ListsGrants, ChecksCoordinator, VerifiesDeletion, AtPlace,
              Confirms, ErasureTypeOK, ListsCover
<1>2. NamesUntouched /\ UNCHANGED <<account, device, asked>>
  BY DEF ListsSessions, ListsGrants, ChecksCoordinator, VerifiesDeletion, NamesUntouched,
         d1, objects, bounds
<1>3. StandingSessions' = StandingSessions /\ StandingGrants' = StandingGrants
  BY <1>2 DEF NamesUntouched, StandingSessions, StandingGrants
<1>4. TablesTyped' /\ WritesItsOwn(h) /\ Shrinks /\ StandingIsNamed'
  BY <1>0, <1>2, <1>3 DEF NamesUntouched, TablesTyped, ErasureTypeOK, WritesItsOwn, Shrinks,
                          NamesInv, StandingIsNamed
<1>5. CASE ListsSessions(h)
  <2> DEFINE call == [handlers[h] EXCEPT !.sessions = rows, !.at = "grants"]
  <2>1. handlers' = [handlers EXCEPT ![h] = call]
    BY <1>5 DEF ListsSessions
  <2>2. /\ call \in CallRecords /\ call.kind = "confirm" /\ call.of = handlers[h].of
        /\ call.alone = handlers[h].alone /\ call.owed = handlers[h].owed
        /\ call.at = "grants" /\ call.sessions = rows
    BY ZenonT(30), <1>0, <1>1 DEF CallRecords, Confirms, Places, ErasureTypeOK
  <2> HIDE DEF call
  <2>3. Covers(h)'
    BY <1>0, <1>1, <1>3, <2>1, <2>2, ConfirmMoves DEF Covers, NamesInv, StandingIsNamed
  <2> QED
    BY <1>0, <1>1, <1>2, <1>4, <2>1, <2>2, <2>3, ConfirmMoves, StepMove DEF NamesUntouched
<1>6. CASE ListsGrants(h)
  <2> DEFINE found == {g \in Grants : grants[g] \notin {Absent, "DELETED"}}
             call == [handlers[h] EXCEPT !.grants = found, !.at = "mailboxes"]
  <2>1. handlers' = [handlers EXCEPT ![h] = call]
    BY <1>6 DEF ListsGrants
  <2>2. /\ call \in CallRecords /\ call.kind = "confirm" /\ call.of = handlers[h].of
        /\ call.alone = handlers[h].alone /\ call.owed = handlers[h].owed
        /\ call.at = "mailboxes" /\ call.sessions = handlers[h].sessions
        /\ call.grants = found
    BY ZenonT(30), <1>1 DEF CallRecords, Confirms, Places
  <2>3. StandingGrants \subseteq found
    BY <1>0 DEF NamesInv, StandingIsNamed, StandingGrants
  <2>4. StandingSessions \subseteq handlers[h].sessions
    BY <1>1, <1>6 DEF Covers, ListsGrants, AtPlace
  <2> HIDE DEF call, found
  <2>5. Covers(h)'
    BY <1>0, <1>1, <1>3, <2>1, <2>2, <2>3, <2>4, ConfirmMoves DEF Covers
  <2> QED
    BY <1>0, <1>1, <1>2, <1>4, <2>1, <2>2, <2>5, ConfirmMoves, StepMove DEF NamesUntouched
<1>7. CASE ChecksCoordinator(h)
  <2> DEFINE s == handlers[h].on
  <2>1. CASE Ends(h)
    <3>1. Moves(h) /\ handlers'[h] = Nothing /\ InFlight(h)
      BY <1>0, <1>1, <2>1, EndsMoves DEF Confirms, InFlight
    <3> QED
      BY <1>2, <1>4, <3>1, StepMove DEF InFlight, Confirms, NamesUntouched
  <2>2. CASE coordinators[s] # "PRESENT"
    <3> DEFINE call == [handlers[h] EXCEPT !.sessions = @ \ {s}, !.on = Nothing,
                                           !.at = "coordinators"]
    <3>1. handlers' = [handlers EXCEPT ![h] = call]
      BY <1>7, <2>2 DEF ChecksCoordinator
    <3>2. /\ call \in CallRecords /\ call.kind = "confirm" /\ call.of = handlers[h].of
          /\ call.alone = handlers[h].alone /\ call.owed = handlers[h].owed
          /\ call.at = "coordinators" /\ call.sessions = handlers[h].sessions \ {s}
      BY ZenonT(30), <1>1 DEF CallRecords, Confirms, Places
    <3>3. StandingSessions \subseteq handlers[h].sessions \ {s} /\ StandingGrants = {}
      BY <1>1, <1>7, <2>2 DEF Covers, ChecksCoordinator, AtPlace, StandingSessions
    <3> HIDE DEF call
    <3>4. Covers(h)'
      BY <1>0, <1>1, <1>3, <3>1, <3>2, <3>3, ConfirmMoves DEF Covers
    <3> QED
      BY <1>0, <1>1, <1>2, <1>4, <3>1, <3>2, <3>4, ConfirmMoves, StepMove DEF NamesUntouched
  <2> QED
    BY <1>7, <2>1, <2>2 DEF ChecksCoordinator
<1>8. CASE VerifiesDeletion(h)
  <2> DEFINE call == [handlers[h] EXCEPT !.verified = NoRowsRemain, !.at = "records"]
  <2>1. handlers' = [handlers EXCEPT ![h] = call]
    BY <1>8 DEF VerifiesDeletion
  <2>2. NoRowsRemain \in BOOLEAN
    BY DEF NoRowsRemain
  <2>3. /\ call \in CallRecords /\ call.kind = "confirm" /\ call.of = handlers[h].of
        /\ call.alone = handlers[h].alone /\ call.owed = handlers[h].owed
        /\ call.at = "records" /\ call.verified = NoRowsRemain
    BY ZenonT(30), <1>1, <2>2 DEF CallRecords, Confirms, Places
  <2>4. NoRowsRemain => StandingSessions = {} /\ StandingGrants = {}
    BY <1>0 DEF NoRowsRemain, NamesInv, StandingIsNamed, StandingGrants
  <2> HIDE DEF call
  <2>5. Covers(h)'
    BY <1>0, <1>1, <1>3, <2>1, <2>3, <2>4, ConfirmMoves DEF Covers
  <2> QED
    BY <1>0, <1>1, <1>2, <1>4, <2>1, <2>3, <2>5, ConfirmMoves, StepMove DEF NamesUntouched
<1> QED
  BY <1>5, <1>6, <1>7, <1>8

LEMMA ConfirmDestroys ==
  ASSUME ErasureInv, NEW h \in Handlers, DestroysMailboxes(h) \/ DestroysCoordinators(h)
  PROVE  ErasureInv'
<1>0. ErasureTypeOK /\ NamesInv /\ ListsCover
  BY DEF ErasureInv
<1>1. Confirms(h) /\ handlers[h] \in CallRecords /\ Covers(h)
  BY <1>0 DEF DestroysMailboxes, DestroysCoordinators, AtPlace, Confirms, ErasureTypeOK,
              ListsCover
<1>2. UNCHANGED <<account, device, rows, grants, asked, told>>
  BY DEF DestroysMailboxes, DestroysCoordinators, d1, bounds
<1>3. /\ coordinators' \in [Sessions -> ObjectStates]
      /\ mailboxes' \in [Grants -> ObjectStates]
      /\ \A s \in Sessions : coordinators'[s] = "PRESENT" => coordinators[s] = "PRESENT"
      /\ \A g \in Grants : mailboxes'[g] = "PRESENT" => mailboxes[g] = "PRESENT"
  BY ZenonT(30), <1>0 DEF DestroysMailboxes, DestroysCoordinators, Destroys,
              ErasureTypeOK, ObjectStates, Absent
<1>4. Shrinks /\ WritesItsOwn(h) /\ TablesTyped'
  BY <1>0, <1>1, <1>2, <1>3
     DEF Shrinks, StandingSessions, StandingGrants, WritesItsOwn, TablesTyped, ErasureTypeOK
<1>5. StandingIsNamed'
  BY <1>0, <1>2, <1>4 DEF NamesInv, StandingIsNamed, Shrinks
<1>6. CASE DestroysMailboxes(h)
  <2>0. /\ StandingSessions \subseteq handlers[h].sessions
        /\ StandingGrants \subseteq handlers[h].grants
    BY <1>1, <1>6 DEF Covers, DestroysMailboxes, AtPlace
  <2>1. ASSUME NEW g \in handlers[h].grants, Destroys(g),
               handlers' = [handlers EXCEPT ![h].grants = @ \ {g}]
        PROVE  ErasureInv'
    <3> DEFINE call == [handlers[h] EXCEPT !.grants = @ \ {g}]
    <3>1. handlers' = [handlers EXCEPT ![h] = call]
      BY <2>1
    <3>2. /\ call \in CallRecords /\ call.kind = "confirm" /\ call.of = handlers[h].of
          /\ call.alone = handlers[h].alone /\ call.owed = handlers[h].owed
          /\ call.at = "mailboxes" /\ call.grants = handlers[h].grants \ {g}
          /\ call.sessions = handlers[h].sessions
      BY <1>1, <1>6 DEF CallRecords, Confirms, DestroysMailboxes, AtPlace
    <3>3. g \in Grants
      BY <1>1, <2>1 DEF CallRecords
    <3>4. g \notin StandingGrants'
      BY <1>0, <2>1, <3>3 DEF Destroys, StandingGrants, ErasureTypeOK, Absent
    <3> HIDE DEF call
    <3>5. Covers(h)'
      BY <1>0, <1>1, <1>4, <2>0, <3>1, <3>2, <3>4, ConfirmMoves DEF Covers, Shrinks
    <3> QED
      BY <1>0, <1>1, <1>2, <1>4, <1>5, <3>1, <3>2, <3>5, ConfirmMoves, StepMove
  <2>2. ASSUME handlers[h].grants = {}, Goes(h, "coordinators")
        PROVE  ErasureInv'
    <3>1. /\ InFlight(h) /\ Moves(h)
          /\ handlers'[h].at = "coordinators" /\ handlers'[h].sessions = handlers[h].sessions
          /\ InFlight(h)' => Named(h)' /\ Destroyed(h)'
      BY <1>0, <1>1, <2>2, ConfirmGoes DEF Places
    <3>2. Covers(h)'
      BY <1>4, <2>0, <2>2, <3>1 DEF Covers, Shrinks
    <3> QED
      BY <1>2, <1>4, <1>5, <3>1, <3>2, StepMove
  <2> QED
    BY <1>6, <2>1, <2>2 DEF DestroysMailboxes
<1>7. CASE DestroysCoordinators(h)
  <2>0. StandingSessions \subseteq handlers[h].sessions /\ StandingGrants = {}
    BY <1>1, <1>7 DEF Covers, DestroysCoordinators, AtPlace
  <2>1. CASE Ends(h)
    <3>1. Moves(h) /\ handlers'[h] = Nothing /\ InFlight(h)
      BY <1>0, <1>1, <2>1, EndsMoves DEF Confirms, InFlight
    <3> QED
      BY <1>2, <1>4, <1>5, <3>1, StepMove DEF InFlight, Confirms
  <2>2. ASSUME NEW s \in handlers[h].sessions,
               handlers' = [handlers EXCEPT ![h].on = s, ![h].at = "checks"]
        PROVE  ErasureInv'
    <3> DEFINE call == [handlers[h] EXCEPT !.on = s, !.at = "checks"]
    <3>1. handlers' = [handlers EXCEPT ![h] = call]
      BY <2>2
    <3>2. /\ call \in CallRecords /\ call.kind = "confirm" /\ call.of = handlers[h].of
          /\ call.alone = handlers[h].alone /\ call.owed = handlers[h].owed
          /\ call.at = "checks" /\ call.sessions = handlers[h].sessions
      BY ZenonT(30), <1>1, <2>2 DEF CallRecords, Confirms, Places
    <3> HIDE DEF call
    <3>3. Covers(h)'
      BY <1>0, <1>1, <1>4, <2>0, <3>1, <3>2, ConfirmMoves DEF Covers, Shrinks
    <3> QED
      BY <1>0, <1>1, <1>2, <1>4, <1>5, <3>1, <3>2, <3>3, ConfirmMoves, StepMove
  <2>3. ASSUME handlers[h].sessions = {}, Goes(h, "drops")
        PROVE  ErasureInv'
    <3>1. /\ InFlight(h) /\ Moves(h) /\ handlers'[h].at = "drops"
          /\ InFlight(h)' => Named(h)' /\ Destroyed(h)'
      BY <1>0, <1>1, <2>3, ConfirmGoes DEF Places
    <3>2. Covers(h)'
      BY <1>4, <2>0, <2>3, <3>1 DEF Covers, Shrinks
    <3> QED
      BY <1>2, <1>4, <1>5, <3>1, <3>2, StepMove
  <2> QED
    BY <1>7, <2>1, <2>2, <2>3 DEF DestroysCoordinators
<1> QED
  BY <1>6, <1>7

LEMMA ConfirmDrops ==
  ASSUME ErasureInv, NEW h \in Handlers, DropsGrants(h) \/ DropsAccount(h)
  PROVE  ErasureInv'
<1>0. ErasureTypeOK /\ NamesInv /\ ListsCover
  BY DEF ErasureInv
<1>1. Confirms(h) /\ handlers[h] \in CallRecords /\ Covers(h)
  BY <1>0 DEF DropsGrants, DropsAccount, AtPlace, Confirms, ErasureTypeOK, ListsCover
<1>2. UNCHANGED <<coordinators, mailboxes, asked, told>>
  BY DEF DropsGrants, DropsAccount, objects, bounds
<1>3. StandingSessions = {} /\ StandingGrants = {}
  BY <1>1 DEF Covers, DropsGrants, DropsAccount, AtPlace
<1>4. StandingSessions' = {} /\ StandingGrants' = {}
  BY <1>2, <1>3 DEF StandingSessions, StandingGrants
<1>5. TablesTyped' /\ WritesItsOwn(h) /\ Shrinks /\ StandingIsNamed'
  BY <1>0, <1>1, <1>2, <1>3, <1>4
     DEF TablesTyped, ErasureTypeOK, WritesItsOwn, Shrinks, StandingIsNamed, DropsGrants,
         DropsAccount, GrantStates
<1>6. Covers(h)'
  BY <1>4 DEF Covers
<1>7. /\ InFlight(h) /\ Moves(h)
      /\ InFlight(h)' => Named(h)' /\ Destroyed(h)'
  <2>1. Ends(h) \/ Goes(h, "cascades") \/ Goes(h, "verifies")
    BY DEF DropsGrants, DropsAccount
  <2>2. InFlight(h)
    BY <1>1 DEF Confirms, InFlight
  <2> QED
    BY <1>0, <1>1, <2>1, <2>2, ConfirmGoes, EndsMoves DEF Places, InFlight
<1> QED
  BY <1>2, <1>5, <1>6, <1>7, StepMove

\* Rows, objects and calls keep their shape, and whatever a deletion has read is what it
\* still has to destroy, wherever it is cut and resumed (worker/retention/).
THEOREM ErasureInvariant == ErasureSpec => []ErasureInv
<1>1. ErasureInit => ErasureInv
  BY ErasureInitOK
<1>2. ErasureInv /\ [ErasureNext]_erasure => ErasureInv'
  <2> SUFFICES ASSUME ErasureInv, [ErasureNext]_erasure
               PROVE  ErasureInv'
    OBVIOUS
  <2>1. CASE UNCHANGED erasure
    BY <2>1 DEF erasure, ErasureInv, ErasureTypeOK, CallsInv, OneCallPerObject,
                CreatesTheUntold, NoneIsAlone, OwesWhatWasTold, OfObject, Creates, Confirms,
                InFlight, NamesInv, StandingIsNamed, StandingSessions, StandingGrants,
                AloneIsNamed, Named, DestroyedFirst, Destroyed, AtPlace, ListsCover, Covers
  <2>2. ASSUME NEW h \in Handlers, Serves(h)
        PROVE  ErasureInv'
    BY <2>2, QuietSteps, SessionSteps, GrantSteps, GrantEndSteps, ConfirmLists,
       ConfirmDestroys, ConfirmDrops DEF Serves
  <2>3. CASE ErasureNext
    BY <2>2, <2>3, SendSteps, CutStep, EvictionSteps DEF ErasureNext
  <2> QED
    BY <2>1, <2>3
<1> QED
  BY <1>1, <1>2, PTL DEF ErasureSpec

\* A deletion verified in D1 has destroyed every object the owner was told of before it:
\* for any number of sessions, grants, deletions, calls in flight and calls cut short.
THEOREM ErasureVerified == ErasureSpec => []VerifiedMeansErased
<1>1. ErasureInv => VerifiedMeansErased
  <2> SUFFICES ASSUME ErasureInv, NEW h \in Handlers, AtPlace(h, "confirm", "records"),
                      handlers[h].verified
               PROVE  /\ \A s \in handlers[h].owed \cap Sessions : coordinators[s] # "PRESENT"
                      /\ \A g \in handlers[h].owed \cap Grants : mailboxes[g] # "PRESENT"
    BY DEF VerifiedMeansErased
  <2>1. handlers[h].owed = told /\ StandingSessions = {} /\ StandingGrants = {}
    BY DEF ErasureInv, CallsInv, OwesWhatWasTold, ListsCover, Covers, AtPlace, Confirms
  <2> QED
    BY <2>1 DEF StandingSessions, StandingGrants
<1> QED
  BY <1>1, ErasureInvariant, PTL

-------------------------------------------------------------------------------
(***************************************************************************)
(* Quotas: the balance of a minute's budget.  Only finitely many calls     *)
(* have been counted at any time, however many there may be; what a device *)
(* was allowed is in its row, which never passes the limit.                *)
(***************************************************************************)
QuotaPlaces == {"starts", "counted", "releases", "ends"}

QuotaTypeOK ==
  /\ principalUsage \in 0..Limit
  /\ deviceUsage \in [Devices -> 0..Limit]
  /\ quotaCalls \in [Calls -> [at : QuotaPlaces, device : Devices]]
  /\ allowed \in SUBSET {k \in Calls : quotaCalls[k].at = "ends"}
  /\ lost \in Nat
  /\ IsFiniteSet(allowed) /\ IsFiniteSet(Undecided)

AllowedOf(d) == {k \in allowed : quotaCalls[k].device = d}

DeviceRowCovers == \A d \in Devices : Cardinality(AllowedOf(d)) <= deviceUsage[d]

QuotaInv == QuotaTypeOK /\ BudgetBalances /\ DeviceRowCovers

LEMMA QuotaInitOK == QuotaInit => QuotaInv
<1> SUFFICES ASSUME QuotaInit PROVE QuotaInv
  OBVIOUS
<1>1. Undecided = {}
  BY DEF QuotaInit, Undecided
<1>2. \A d \in Devices : AllowedOf(d) = {}
  BY DEF QuotaInit, AllowedOf
<1>3. IsFiniteSet({}) /\ Cardinality({}) = 0
  BY FS_EmptySet
<1>4. QuotaTypeOK
  BY <1>1, <1>3, QuotaAssumption DEF QuotaInit, QuotaTypeOK, QuotaPlaces
<1>5. BudgetBalances
  BY <1>1, <1>3 DEF QuotaInit, BudgetBalances
<1>6. ASSUME NEW d \in Devices PROVE Cardinality(AllowedOf(d)) <= deviceUsage[d]
  <2>1. Cardinality(AllowedOf(d)) = 0
    BY <1>2, <1>3
  <2>2. deviceUsage[d] \in 0..MaxCount
    BY DEF QuotaInit
  <2> QED BY <2>1, <2>2, QuotaAssumption
<1> QED BY <1>4, <1>5, <1>6 DEF QuotaInv, DeviceRowCovers

\* A call that goes to a place leaves the others and every call's device as they are.
LEMMA QuotaCallGoes ==
  ASSUME QuotaTypeOK, NEW k \in Calls, NEW place \in QuotaPlaces, QuotaGoes(k, place)
  PROVE  /\ quotaCalls' \in [Calls -> [at : QuotaPlaces, device : Devices]]
         /\ \A c \in Calls : /\ quotaCalls'[c].device = quotaCalls[c].device
                             /\ c # k => quotaCalls'[c].at = quotaCalls[c].at
         /\ quotaCalls'[k].at = place
BY DEF QuotaTypeOK, QuotaGoes, QuotaPlaces

\* The calls undecided after a call has gone to a place.
LEMMA UndecidedAfter ==
  ASSUME QuotaTypeOK, NEW k \in Calls, NEW place \in QuotaPlaces, QuotaGoes(k, place)
  PROVE  Undecided' = IF place \in {"counted", "releases"} THEN Undecided \union {k}
                                                            ELSE Undecided \ {k}
BY QuotaCallGoes DEF Undecided

\* A call that leaves the undecided ones, or joins them, changes their number by one.
LEMMA UndecidedCount ==
  ASSUME QuotaTypeOK, NEW k \in Calls, NEW place \in QuotaPlaces, QuotaGoes(k, place)
  PROVE  /\ IsFiniteSet(Undecided') /\ Cardinality(Undecided') \in Nat
         /\ Cardinality(Undecided) \in Nat
         /\ Cardinality(Undecided') =
              IF k \in Undecided
              THEN IF place \in {"counted", "releases"} THEN Cardinality(Undecided)
                                                         ELSE Cardinality(Undecided) - 1
              ELSE IF place \in {"counted", "releases"} THEN Cardinality(Undecided) + 1
                                                         ELSE Cardinality(Undecided)
<1> DEFINE U == Undecided
<1>1. IsFiniteSet(U)
  BY DEF QuotaTypeOK
<1>2. /\ IsFiniteSet(U \union {k})
      /\ Cardinality(U \union {k}) = IF k \in U THEN Cardinality(U) ELSE Cardinality(U) + 1
  BY <1>1, FS_AddElement
<1>3. /\ IsFiniteSet(U \ {k})
      /\ Cardinality(U \ {k}) = IF k \in U THEN Cardinality(U) - 1 ELSE Cardinality(U)
  BY <1>1, FS_RemoveElement
<1>4. Cardinality(U) \in Nat
  BY <1>1, FS_CardinalityType
<1>5. Cardinality(U \union {k}) \in Nat
  BY <1>2, FS_CardinalityType
<1>6. Cardinality(U \ {k}) \in Nat
  BY <1>3, FS_CardinalityType
<1>7. Undecided' = IF place \in {"counted", "releases"} THEN U \union {k} ELSE U \ {k}
  BY UndecidedAfter
<1> QED BY <1>2, <1>3, <1>4, <1>5, <1>6, <1>7

\* A step that lets no call through leaves each device covered, whatever it counts.
LEMMA NoneLetThrough ==
  ASSUME QuotaInv, NEW k \in Calls, NEW place \in QuotaPlaces, QuotaGoes(k, place),
         k \notin allowed, UNCHANGED allowed,
         deviceUsage' \in [Devices -> 0..Limit],
         \A d \in Devices : deviceUsage[d] <= deviceUsage'[d]
  PROVE  DeviceRowCovers' /\ allowed' \in SUBSET {c \in Calls : quotaCalls'[c].at = "ends"}
<1>1. allowed' \in SUBSET {c \in Calls : quotaCalls'[c].at = "ends"}
  BY QuotaCallGoes DEF QuotaInv, QuotaTypeOK
<1>2. ASSUME NEW d \in Devices PROVE Cardinality(AllowedOf(d)') <= deviceUsage'[d]
  <2>1. AllowedOf(d)' = AllowedOf(d)
    BY QuotaCallGoes DEF QuotaInv, QuotaTypeOK, AllowedOf
  <2>2. IsFiniteSet(AllowedOf(d))
    BY FS_Subset DEF QuotaInv, QuotaTypeOK, AllowedOf
  <2>3. Cardinality(AllowedOf(d)) \in Nat
    BY <2>2, FS_CardinalityType
  <2>4. Cardinality(AllowedOf(d)) <= deviceUsage[d]
    BY DEF QuotaInv, DeviceRowCovers
  <2>5. deviceUsage[d] \in Nat /\ deviceUsage'[d] \in Nat /\ deviceUsage[d] <= deviceUsage'[d]
    BY QuotaAssumption DEF QuotaInv, QuotaTypeOK
  <2> QED BY <2>1, <2>3, <2>4, <2>5
<1> QED BY <1>1, <1>2 DEF DeviceRowCovers

\* A call about to be decided was not let through yet.
LEMMA UndecidedIsNotAllowed ==
  ASSUME QuotaTypeOK, NEW k \in Calls, quotaCalls[k].at # "ends"
  PROVE  k \notin allowed
BY DEF QuotaTypeOK

\* A call refused or failed at its device's row stays counted until it is given back.
LEMMA ReleaseBegins ==
  ASSUME QuotaInv, NEW k \in Calls, k \in Undecided, k \notin allowed,
         QuotaGoes(k, "releases"), UNCHANGED <<principalUsage, allowed, lost>>,
         deviceUsage' \in [Devices -> 0..Limit],
         \A d \in Devices : deviceUsage[d] <= deviceUsage'[d]
  PROVE  QuotaInv'
<1> DEFINE place == "releases"
<1>1. place \in QuotaPlaces /\ QuotaGoes(k, place) /\ QuotaTypeOK
  BY DEF QuotaInv, QuotaPlaces
<1>2. /\ IsFiniteSet(Undecided') /\ Cardinality(Undecided') = Cardinality(Undecided)
  BY <1>1, UndecidedCount
<1>3. /\ DeviceRowCovers'
      /\ allowed' \in SUBSET {c \in Calls : quotaCalls'[c].at = "ends"}
  BY <1>1, NoneLetThrough
<1>4. quotaCalls' \in [Calls -> [at : QuotaPlaces, device : Devices]]
  BY <1>1, QuotaCallGoes
<1>5. QuotaTypeOK'
  BY <1>2, <1>3, <1>4 DEF QuotaInv, QuotaTypeOK
<1>6. BudgetBalances'
  BY <1>2 DEF QuotaInv, BudgetBalances
<1> QED BY <1>3, <1>5, <1>6 DEF QuotaInv

\* The catch of a failed statement, which may have counted the call.
LEMMA DeviceFailsOK ==
  ASSUME QuotaInv, NEW k \in Calls, DeviceFails(k)
  PROVE  QuotaInv'
<1> DEFINE d == quotaCalls[k].device
<1>1. k \in Undecided /\ k \notin allowed
  BY UndecidedIsNotAllowed DEF QuotaInv, DeviceFails, QuotaAt, Undecided
<1>2. /\ deviceUsage' \in [Devices -> 0..Limit]
      /\ \A e \in Devices : deviceUsage[e] <= deviceUsage'[e]
  <2>1. deviceUsage \in [Devices -> 0..Limit] /\ d \in Devices
    BY DEF QuotaInv, QuotaTypeOK
  <2>2. CASE UNCHANGED deviceUsage
    BY <2>1, <2>2, QuotaAssumption
  <2>3. CASE deviceUsage[d] < Limit /\ deviceUsage' = [deviceUsage EXCEPT ![d] = @ + 1]
    BY <2>1, <2>3, QuotaAssumption
  <2> QED BY <2>2, <2>3 DEF DeviceFails
<1> QED BY <1>1, <1>2, ReleaseBegins DEF DeviceFails

\* A call whose count is given back, or lost, leaves the undecided ones.
LEMMA ReleaseEnds ==
  ASSUME QuotaInv, NEW k \in Calls, k \in Undecided, QuotaGoes(k, "ends"),
         UNCHANGED <<deviceUsage, allowed>>, principalUsage' \in 0..Limit, lost' \in Nat,
         lost' - principalUsage' = lost - principalUsage + 1
  PROVE  QuotaInv'
<1> DEFINE place == "ends"
<1>1. place \in QuotaPlaces /\ QuotaGoes(k, place) /\ QuotaTypeOK
  BY DEF QuotaInv, QuotaPlaces
<1>2. k \notin allowed
  BY <1>1, UndecidedIsNotAllowed DEF Undecided
<1>3. /\ IsFiniteSet(Undecided') /\ Cardinality(Undecided) \in Nat
      /\ Cardinality(Undecided') = Cardinality(Undecided) - 1
  BY <1>1, UndecidedCount
<1>4. /\ DeviceRowCovers'
      /\ allowed' \in SUBSET {c \in Calls : quotaCalls'[c].at = "ends"}
  BY <1>1, <1>2, NoneLetThrough, QuotaAssumption DEF QuotaTypeOK
<1>5. quotaCalls' \in [Calls -> [at : QuotaPlaces, device : Devices]]
  BY <1>1, QuotaCallGoes
<1>6. QuotaTypeOK'
  BY <1>3, <1>4, <1>5 DEF QuotaInv, QuotaTypeOK
<1>7. Cardinality(allowed) \in Nat /\ lost \in Nat /\ principalUsage \in Int
  BY QuotaAssumption, FS_CardinalityType DEF QuotaInv, QuotaTypeOK
<1>8. BudgetBalances'
  BY <1>3, <1>7, QuotaAssumption DEF QuotaInv, BudgetBalances
<1> QED BY <1>4, <1>6, <1>8 DEF QuotaInv

\* What is given back was counted: the count is positive, by the balance.
LEMMA ReleaseOK ==
  ASSUME QuotaInv, NEW k \in Calls, ReleasePrincipalQuota(k)
  PROVE  QuotaInv'
<1>1. k \in Undecided
  BY DEF ReleasePrincipalQuota, QuotaAt, Undecided
<1>2. Cardinality(Undecided) \in Nat /\ Cardinality(Undecided) # 0
  BY <1>1, FS_EmptySet, FS_CardinalityType DEF QuotaInv, QuotaTypeOK
<1>3. Cardinality(allowed) \in Nat /\ lost \in Nat /\ principalUsage \in 0..Limit
  BY FS_CardinalityType DEF QuotaInv, QuotaTypeOK
<1>4. principalUsage > 0
  BY <1>2, <1>3 DEF QuotaInv, BudgetBalances
<1>5. principalUsage' = principalUsage - 1 /\ principalUsage' \in 0..Limit
  BY <1>3, <1>4, QuotaAssumption DEF ReleasePrincipalQuota
<1>6. lost' \in Nat /\ lost' - principalUsage' = lost - principalUsage + 1
  BY <1>3, <1>5, QuotaAssumption DEF ReleasePrincipalQuota
<1> QED BY <1>1, <1>5, <1>6, ReleaseEnds DEF ReleasePrincipalQuota

LEMMA CutShortOK ==
  ASSUME QuotaInv, NEW k \in Calls, QuotaCutShort(k)
  PROVE  QuotaInv'
<1>1. k \in Undecided
  BY DEF QuotaCutShort, Undecided
<1>2. lost \in Nat /\ principalUsage \in 0..Limit
  BY DEF QuotaInv, QuotaTypeOK
<1>3. /\ principalUsage' \in 0..Limit /\ lost' \in Nat
      /\ lost' - principalUsage' = lost - principalUsage + 1
  BY <1>2, QuotaAssumption DEF QuotaCutShort
<1> QED BY <1>1, <1>3, ReleaseEnds DEF QuotaCutShort

\* The principal's statement.
LEMMA CountPrincipalOK ==
  ASSUME QuotaInv, NEW k \in Calls, CountPrincipal(k)
  PROVE  QuotaInv'
<1>1. k \notin Undecided /\ k \notin allowed
  BY UndecidedIsNotAllowed DEF QuotaInv, CountPrincipal, QuotaAt, Undecided
<1>2. CASE principalUsage < Limit /\ QuotaGoes(k, "counted")
           /\ principalUsage' = principalUsage + 1
  <2> DEFINE place == "counted"
  <2>1. place \in QuotaPlaces /\ QuotaGoes(k, place) /\ QuotaTypeOK
    BY <1>2 DEF QuotaInv, QuotaPlaces
  <2>2. /\ IsFiniteSet(Undecided') /\ Cardinality(Undecided) \in Nat
        /\ Cardinality(Undecided') = Cardinality(Undecided) + 1
    BY <1>1, <2>1, UndecidedCount
  <2>3. /\ DeviceRowCovers'
        /\ allowed' \in SUBSET {c \in Calls : quotaCalls'[c].at = "ends"}
    BY <1>1, <2>1, NoneLetThrough, QuotaAssumption
       DEF QuotaInv, QuotaTypeOK, CountPrincipal
  <2>4. quotaCalls' \in [Calls -> [at : QuotaPlaces, device : Devices]]
    BY <2>1, QuotaCallGoes
  <2>5. QuotaTypeOK'
    BY <1>2, <2>2, <2>3, <2>4, QuotaAssumption DEF QuotaInv, QuotaTypeOK, CountPrincipal
  <2>6. Cardinality(allowed) \in Nat /\ lost \in Nat
    BY FS_CardinalityType DEF QuotaInv, QuotaTypeOK
  <2>7. BudgetBalances'
    BY <1>2, <2>2, <2>6 DEF QuotaInv, BudgetBalances, CountPrincipal
  <2> QED BY <2>3, <2>5, <2>7 DEF QuotaInv
<1>3. CASE QuotaGoes(k, "ends") /\ UNCHANGED principalUsage
  <2> DEFINE place == "ends"
  <2>1. place \in QuotaPlaces /\ QuotaGoes(k, place) /\ QuotaTypeOK
    BY <1>3 DEF QuotaInv, QuotaPlaces
  <2>2. /\ IsFiniteSet(Undecided') /\ Cardinality(Undecided') = Cardinality(Undecided)
    BY <1>1, <2>1, UndecidedCount
  <2>3. /\ DeviceRowCovers'
        /\ allowed' \in SUBSET {c \in Calls : quotaCalls'[c].at = "ends"}
    BY <1>1, <2>1, NoneLetThrough, QuotaAssumption
       DEF QuotaInv, QuotaTypeOK, CountPrincipal
  <2>4. quotaCalls' \in [Calls -> [at : QuotaPlaces, device : Devices]]
    BY <2>1, QuotaCallGoes
  <2>5. QuotaTypeOK'
    BY <1>3, <2>2, <2>3, <2>4 DEF QuotaInv, QuotaTypeOK, CountPrincipal
  <2>6. BudgetBalances'
    BY <1>3, <2>2 DEF QuotaInv, BudgetBalances, CountPrincipal
  <2> QED BY <2>3, <2>5, <2>6 DEF QuotaInv
<1> QED BY <1>2, <1>3 DEF CountPrincipal

\* The device's statement.
LEMMA CountDeviceOK ==
  ASSUME QuotaInv, NEW k \in Calls, CountDevice(k)
  PROVE  QuotaInv'
<1> DEFINE d == quotaCalls[k].device
<1>1. k \in Undecided /\ k \notin allowed
  BY UndecidedIsNotAllowed DEF QuotaInv, CountDevice, QuotaAt, Undecided
<1>0. d \in Devices
  BY DEF QuotaInv, QuotaTypeOK
<1>2. CASE /\ deviceUsage[d] < Limit /\ QuotaGoes(k, "ends")
           /\ deviceUsage' = [deviceUsage EXCEPT ![d] = @ + 1]
           /\ allowed' = allowed \union {k}
  <2> DEFINE place == "ends"
  <2>1. place \in QuotaPlaces /\ QuotaGoes(k, place) /\ QuotaTypeOK
    BY <1>2 DEF QuotaInv, QuotaPlaces
  <2>2. /\ IsFiniteSet(Undecided') /\ Cardinality(Undecided) \in Nat
        /\ Cardinality(Undecided') = Cardinality(Undecided) - 1
    BY <1>1, <2>1, UndecidedCount
  <2>3. /\ quotaCalls' \in [Calls -> [at : QuotaPlaces, device : Devices]]
        /\ \A c \in Calls : /\ quotaCalls'[c].device = quotaCalls[c].device
                            /\ c # k => quotaCalls'[c].at = quotaCalls[c].at
        /\ quotaCalls'[k].at = "ends"
    BY <2>1, QuotaCallGoes
  <2>4. /\ IsFiniteSet(allowed) /\ Cardinality(allowed) \in Nat /\ lost \in Nat
        /\ IsFiniteSet(allowed') /\ Cardinality(allowed') = Cardinality(allowed) + 1
    BY <1>1, <1>2, FS_CardinalityType, FS_AddElement DEF QuotaInv, QuotaTypeOK
  <2>5. allowed' \in SUBSET {c \in Calls : quotaCalls'[c].at = "ends"}
    BY <1>2, <2>3 DEF QuotaInv, QuotaTypeOK
  <2>6. /\ deviceUsage' \in [Devices -> 0..Limit]
        /\ deviceUsage'[d] = deviceUsage[d] + 1
        /\ \A e \in Devices : e # d => deviceUsage'[e] = deviceUsage[e]
    BY <1>0, <1>2, QuotaAssumption DEF QuotaInv, QuotaTypeOK
  <2>7. QuotaTypeOK'
    BY <2>2, <2>3, <2>4, <2>5, <2>6 DEF QuotaInv, QuotaTypeOK, CountDevice
  <2>8. BudgetBalances'
    BY <2>2, <2>4 DEF QuotaInv, BudgetBalances, CountDevice
  <2>9. ASSUME NEW e \in Devices PROVE Cardinality(AllowedOf(e)') <= deviceUsage'[e]
    <3>1. AllowedOf(e)' = IF e = d THEN AllowedOf(e) \union {k} ELSE AllowedOf(e)
      BY <1>2, <2>3 DEF AllowedOf, QuotaInv, QuotaTypeOK
    <3>2. IsFiniteSet(AllowedOf(e))
      BY <2>4, FS_Subset DEF AllowedOf
    <3>3. Cardinality(AllowedOf(e)) \in Nat
      BY <3>2, FS_CardinalityType
    <3>4. k \notin AllowedOf(e)
      BY <1>1 DEF AllowedOf
    <3>5. Cardinality(AllowedOf(e) \union {k}) = Cardinality(AllowedOf(e)) + 1
      BY <3>2, <3>4, FS_AddElement
    <3>6. Cardinality(AllowedOf(e)) <= deviceUsage[e] /\ deviceUsage[e] \in Nat
      BY QuotaAssumption DEF QuotaInv, QuotaTypeOK, DeviceRowCovers
    <3>7. CASE e = d
      BY <2>6, <3>1, <3>3, <3>5, <3>6, <3>7
    <3>8. CASE e # d
      BY <2>6, <3>1, <3>6, <3>8
    <3> QED BY <3>7, <3>8
  <2> QED BY <2>7, <2>8, <2>9 DEF QuotaInv, DeviceRowCovers
<1>3. CASE QuotaGoes(k, "releases") /\ UNCHANGED <<deviceUsage, allowed>>
  <2>1. UNCHANGED <<principalUsage, lost>>
    BY DEF CountDevice
  <2> QED BY <1>1, <1>3, <2>1, ReleaseBegins, QuotaAssumption DEF QuotaInv, QuotaTypeOK
<1> QED BY <1>2, <1>3 DEF CountDevice

LEMMA QuotaNextOK == QuotaInv /\ [QuotaNext]_quotas => QuotaInv'
<1> SUFFICES ASSUME QuotaInv, [QuotaNext]_quotas PROVE QuotaInv'
  OBVIOUS
<1>1. ASSUME NEW k \in Calls, CountPrincipal(k) PROVE QuotaInv'
  BY <1>1, CountPrincipalOK
<1>2. ASSUME NEW k \in Calls, CountDevice(k) PROVE QuotaInv'
  BY <1>2, CountDeviceOK
<1>3. ASSUME NEW k \in Calls, DeviceFails(k) PROVE QuotaInv'
  BY <1>3, DeviceFailsOK
<1>4. ASSUME NEW k \in Calls, ReleasePrincipalQuota(k) PROVE QuotaInv'
  BY <1>4, ReleaseOK
<1>5. ASSUME NEW k \in Calls, QuotaCutShort(k) PROVE QuotaInv'
  BY <1>5, CutShortOK
<1>6. CASE UNCHANGED quotas
  BY <1>6 DEF quotas, QuotaInv, QuotaTypeOK, BudgetBalances, Undecided, DeviceRowCovers,
              AllowedOf
<1> QED BY <1>1, <1>2, <1>3, <1>4, <1>5, <1>6 DEF QuotaNext

\* The inductive invariant of a minute's budget: types, balance, and that each
\* device's row covers what the device was allowed.
THEOREM QuotaInvariant == QuotaSpec => []QuotaInv
<1>1. QuotaInit => QuotaInv
  BY QuotaInitOK
<1>2. QuotaInv /\ [QuotaNext]_quotas => QuotaInv'
  BY QuotaNextOK
<1> QED BY <1>1, <1>2, PTL DEF QuotaSpec

\* The principal's count is what was allowed, what is being decided and what was lost,
\* for any number of devices and of calls: consumeAuthenticatedQuota gives every count
\* it does not grant back, once.
THEOREM BudgetIsKept == QuotaSpec => []BudgetBalances
<1>1. QuotaInv => BudgetBalances
  BY DEF QuotaInv
<1> QED BY <1>1, QuotaInvariant, PTL

\* No principal is allowed more calls in a minute than the limit, nor is one of its
\* devices, however their statements interleave and whichever fail
\* (authenticatedQuotaLimits).
WithinLimits ==
  /\ Cardinality(allowed) <= Limit
  /\ \A d \in Devices : Cardinality(AllowedOf(d)) <= Limit

\* Every behaviour of the quotas keeps WithinLimits: the limit the code tests on two
\* counters bounds the calls that are let through.
THEOREM LimitsAreKept == QuotaSpec => []WithinLimits
<1>1. ASSUME QuotaInv PROVE WithinLimits
  <2>1. /\ Cardinality(allowed) \in Nat /\ Cardinality(Undecided) \in Nat
        /\ lost \in Nat /\ principalUsage \in 0..Limit
    BY <1>1, FS_CardinalityType DEF QuotaInv, QuotaTypeOK
  <2>2. Cardinality(allowed) <= Limit
    BY <1>1, <2>1, QuotaAssumption DEF QuotaInv, BudgetBalances
  <2>3. ASSUME NEW d \in Devices PROVE Cardinality(AllowedOf(d)) <= Limit
    <3>1. IsFiniteSet(AllowedOf(d))
      BY <1>1, FS_Subset DEF QuotaInv, QuotaTypeOK, AllowedOf
    <3>2. Cardinality(AllowedOf(d)) \in Nat
      BY <3>1, FS_CardinalityType
    <3>3. Cardinality(AllowedOf(d)) <= deviceUsage[d] /\ deviceUsage[d] \in 0..Limit
      BY <1>1 DEF QuotaInv, QuotaTypeOK, DeviceRowCovers
    <3> QED BY <3>2, <3>3, QuotaAssumption
  <2> QED BY <2>2, <2>3 DEF WithinLimits
<1> QED BY <1>1, QuotaInvariant, PTL
===============================================================================
