----------------------------- MODULE DesktopProofs -----------------------------
(***************************************************************************)
(* Theorems about the desktop application, for any number of calls,        *)
(* windows, lives, steps and commands: the owner's Gmail connection        *)
(* (GmailConnection), the browser workspace (BrowserWindow), the updater   *)
(* (DesktopUpdate) and the delegated workflow (DesktopWorkflow).           *)
(***************************************************************************)
EXTENDS DesktopWorkflow, BrowserWindow, DesktopUpdate, GmailConnection, TLAPS,
        FiniteSetTheorems, SequenceTheorems, WellFoundedInduction

--------------------------------------------------------------------------------
(***************************************************************************)
(* GmailConnection: types.                                                 *)
(***************************************************************************)
VaultOps ==
  [op : {"store", "remove", "read"}, by : Disconnections \cup {"connect", "refresh"}]

ConnectStates ==
  [phase : {"idle", "ceremony", "storing", "undoing"}, epoch : Nat, aborted : BOOLEAN,
   heard : BOOLEAN]

DisconnectStates ==
  [phase : {"idle", "reading", "revoking", "removing", "answered"}, grant : Nat, upTo : Nat,
   heard : BOOLEAN]

RefreshStates ==
  [phase : {"idle", "reading", "requesting", "answering", "removing"}, epoch : Nat,
   aborted : BOOLEAN, grant : Nat]

GmailTypeOK ==
  /\ vault \in Nat /\ epoch \in Nat /\ connects \in Nat /\ withdrawn \in Nat
  /\ queue \in Seq(VaultOps)
  /\ access \in [grant : Nat, fresh : BOOLEAN]
  /\ connect \in ConnectStates
  /\ disconnect \in [Disconnections -> DisconnectStates]
  /\ refresh \in RefreshStates

(***************************************************************************)
(* The connection under way has at most one operation in the vault, the    *)
(* one its phase waits for.  A disconnection that began while its token    *)
(* was being stored stands behind it, and one that began before that       *)
(* aborted it: so what a disconnection removes is never stored after it.   *)
(***************************************************************************)
ByConnect(i) == queue[i].by = "connect"
IsStore(i) == ByConnect(i) /\ queue[i].op = "store"

OneOperation ==
  /\ \A i, j \in 1..Len(queue) : ByConnect(i) /\ ByConnect(j) => i = j
  /\ \A i \in 1..Len(queue) : ByConnect(i) =>
       connect.phase = IF queue[i].op = "store" THEN "storing" ELSE "undoing"
  /\ connect.phase = "storing" => \E i \in 1..Len(queue) : IsStore(i)

StoreIsAhead ==
  \A i, j \in 1..Len(queue) :
    /\ IsStore(i) /\ queue[j].by \in Disconnections
    /\ disconnect[queue[j].by].upTo = connects
    => i < j

AskedWhenBegun ==
  \A j \in 1..Len(queue) :
    queue[j].by \in Disconnections => disconnect[queue[j].by].phase # "idle"

WithdrawalAborts ==
  \A d \in Disconnections :
    /\ disconnect[d].upTo <= connects
    /\ disconnect[d].upTo = connects /\ connect.phase = "ceremony" => connect.aborted

\* The grant of the connection under way was neither withdrawn nor canceled so far.
MayStore == (connect.phase = "ceremony" /\ ~connect.aborted) \/ connect.phase = "storing"

ConnectionIsNew ==
  /\ \A c \in canceled : c \in Nat /\ c <= connects
  /\ vault <= connects /\ withdrawn <= connects
  /\ connect.phase # "idle" => connects > 0 /\ connects \notin canceled
  /\ connect.phase \in {"ceremony", "storing"} => vault < connects
  /\ MayStore => withdrawn < connects

GmailInv ==
  /\ GmailTypeOK /\ OneOperation /\ StoreIsAhead /\ AskedWhenBegun /\ WithdrawalAborts
  /\ ConnectionIsNew /\ WithdrawnGrantIsGone

LEMMA GmailInitOK == GmailInit => GmailInv
BY GmailAssumption
   DEF GmailInit, GmailInv, GmailTypeOK, OneOperation, StoreIsAhead, AskedWhenBegun,
       WithdrawalAborts, ConnectionIsNew, MayStore, WithdrawnGrantIsGone, VaultOps,
       ConnectStates, DisconnectStates, RefreshStates, NoAccess, NoConnect, NoRefresh,
       NotAsked, ByConnect, IsStore

(***************************************************************************)
(* What a step makes of the vault's queue: it takes the first operation    *)
(* away (off = 1) or not, and may ask for one more.                        *)
(***************************************************************************)
Moved(off) ==
  /\ queue' \in Seq(VaultOps)
  /\ Len(queue') >= Len(queue) - off
  /\ \A i \in 1..Len(queue') :
       /\ i <= Len(queue) - off => i + off \in 1..Len(queue) /\ queue'[i] = queue[i + off]
       /\ i > Len(queue) - off => i = Len(queue')

LEMMA QueueAsked ==
  ASSUME queue \in Seq(VaultOps), NEW op \in {"store", "remove", "read"},
         NEW by \in Disconnections \cup {"connect", "refresh"}, Ask(op, by)
  PROVE  /\ Moved(0) /\ Len(queue') = Len(queue) + 1
         /\ queue'[Len(queue')] = [op |-> op, by |-> by]
<1> DEFINE x == [op |-> op, by |-> by]
<1>1. x \in VaultOps /\ queue' = Append(queue, x)
  BY DEF VaultOps, Ask
<1> HIDE DEF x
<1>2. /\ queue' \in Seq(VaultOps) /\ Len(queue') = Len(queue) + 1
      /\ \A i \in 1..Len(queue) : queue'[i] = queue[i]
      /\ queue'[Len(queue) + 1] = x
  BY <1>1
<1> QED
  BY <1>2 DEF Moved, x

LEMMA QueueTaken ==
  ASSUME queue \in Seq(VaultOps), queue # <<>>, queue' = Tail(queue)
  PROVE  Moved(1) /\ Len(queue') = Len(queue) - 1 /\ Len(queue) >= 1
<1>1. /\ queue' \in Seq(VaultOps) /\ Len(queue') = Len(queue) - 1 /\ Len(queue) >= 1
      /\ \A i \in 1..Len(queue') : queue'[i] = queue[i + 1]
      /\ Len(queue) \in Nat
  OBVIOUS
<1>2. \A i \in 1..Len(queue') : i + 1 \in 1..Len(queue) /\ i <= Len(queue) - 1
  BY <1>1
<1>3. Len(queue') >= Len(queue) - 1
  BY <1>1
<1>4. \A i \in 1..Len(queue') : ~(i > Len(queue) - 1)
  BY <1>1
<1> QED
  BY <1>1, <1>2, <1>3, <1>4 DEF Moved

LEMMA QueueTakenAsked ==
  ASSUME queue \in Seq(VaultOps), queue # <<>>, NEW op \in {"store", "remove", "read"},
         NEW by \in Disconnections \cup {"connect", "refresh"},
         queue' = Append(Tail(queue), [op |-> op, by |-> by])
  PROVE  /\ Moved(1) /\ Len(queue') = Len(queue) /\ Len(queue) >= 1
         /\ queue'[Len(queue')] = [op |-> op, by |-> by]
<1> DEFINE x == [op |-> op, by |-> by]
           rest == Tail(queue)
<1>1. x \in VaultOps /\ queue' = Append(rest, x)
  BY DEF VaultOps
<1>2. /\ rest \in Seq(VaultOps) /\ Len(rest) = Len(queue) - 1 /\ Len(queue) >= 1
      /\ \A i \in 1..Len(rest) : rest[i] = queue[i + 1]
  OBVIOUS
<1> HIDE DEF x, rest
<1>3. /\ queue' \in Seq(VaultOps) /\ Len(queue') = Len(rest) + 1
      /\ \A i \in 1..Len(rest) : queue'[i] = rest[i]
      /\ queue'[Len(rest) + 1] = x
  BY <1>1, <1>2
<1> QED
  BY <1>2, <1>3 DEF Moved, x

LEMMA QueueStays ==
  ASSUME queue \in Seq(VaultOps), queue' = queue
  PROVE  Moved(0) /\ Len(queue') = Len(queue)
BY DEF Moved

\* The operation whose turn it is.
LEMMA TurnIsFirst ==
  ASSUME queue \in Seq(VaultOps), NEW op, NEW by, Turn(op, by)
  PROVE  queue # <<>> /\ 1 \in 1..Len(queue) /\ queue[1].op = op /\ queue[1].by = by
BY DEF Turn

(***************************************************************************)
(* A step of another caller than the connection keeps the order of the     *)
(* vault's operations.                                                     *)
(***************************************************************************)
LEMMA OthersOperations ==
  ASSUME GmailInv, NEW off \in {0, 1}, Moved(off),
         off = 1 => queue[1].by # "connect",
         Len(queue') > Len(queue) - off => queue'[Len(queue')].by # "connect",
         connect'.phase = connect.phase, connects' = connects,
         \A d \in Disconnections :
           /\ disconnect'[d].upTo \in {disconnect[d].upTo, 0}
           /\ disconnect[d].phase # "idle" => disconnect'[d].phase # "idle",
         Len(queue') > Len(queue) - off /\ queue'[Len(queue')].by \in Disconnections =>
           disconnect'[queue'[Len(queue')].by].phase # "idle"
  PROVE  OneOperation' /\ StoreIsAhead' /\ AskedWhenBegun'
<1>0. queue \in Seq(VaultOps) /\ Len(queue) \in Nat /\ Len(queue') \in Nat
  BY DEF GmailInv, GmailTypeOK, Moved
<1>1. \A i \in 1..Len(queue') :
        \/ i + off \in 1..Len(queue) /\ queue'[i] = queue[i + off] /\ i <= Len(queue) - off
        \/ i = Len(queue') /\ i > Len(queue) - off /\ ~ByConnect(i)'
  BY <1>0 DEF Moved, ByConnect
<1>2. \A i \in 1..Len(queue) : ByConnect(i) =>
        i > off /\ i - off \in 1..Len(queue') /\ queue'[i - off] = queue[i]
  <2> SUFFICES ASSUME NEW i \in 1..Len(queue), ByConnect(i)
               PROVE  i > off /\ i - off \in 1..Len(queue') /\ queue'[i - off] = queue[i]
    OBVIOUS
  <2>1. i > off
    BY <1>0 DEF ByConnect
  <2>2. Len(queue') >= Len(queue) - off
    BY DEF Moved
  <2>3. i - off \in 1..Len(queue') /\ i - off <= Len(queue) - off
    BY <1>0, <2>1, <2>2
  <2>4. (i - off) + off = i
    BY <1>0
  <2> QED
    BY <2>1, <2>3, <2>4 DEF Moved
<1>3. OneOperation'
  <2>1. \A i, j \in 1..Len(queue') : ByConnect(i)' /\ ByConnect(j)' => i = j
    <3> SUFFICES ASSUME NEW i \in 1..Len(queue'), NEW j \in 1..Len(queue'),
                        ByConnect(i)', ByConnect(j)'
                 PROVE  i = j
      OBVIOUS
    <3>1. /\ i + off \in 1..Len(queue) /\ queue'[i] = queue[i + off]
          /\ j + off \in 1..Len(queue) /\ queue'[j] = queue[j + off]
      BY <1>1
    <3>2. i + off = j + off
      BY <3>1 DEF GmailInv, OneOperation, ByConnect
    <3> QED
      BY <3>2
  <2>2. ASSUME NEW i \in 1..Len(queue'), ByConnect(i)'
        PROVE  connect'.phase = IF queue'[i].op = "store" THEN "storing" ELSE "undoing"
    BY <1>0, <1>1, <2>2 DEF GmailInv, OneOperation, ByConnect
  <2>3. ASSUME connect.phase = "storing"
        PROVE  \E i \in 1..Len(queue') : IsStore(i)'
    <3>1. PICK i \in 1..Len(queue) : IsStore(i)
      BY <2>3 DEF GmailInv, OneOperation
    <3>2. i - off \in 1..Len(queue') /\ IsStore(i - off)'
      BY <1>2, <3>1 DEF IsStore, ByConnect
    <3> QED
      BY <3>2
  <2> QED
    BY <2>1, <2>2, <2>3 DEF OneOperation
<1>4. StoreIsAhead'
  <2> SUFFICES ASSUME NEW i \in 1..Len(queue'), NEW j \in 1..Len(queue'), IsStore(i)',
                      queue'[j].by \in Disconnections,
                      disconnect'[queue'[j].by].upTo = connects
               PROVE  i < j
    BY DEF StoreIsAhead
  <2>1. i + off \in 1..Len(queue) /\ queue'[i] = queue[i + off] /\ i <= Len(queue) - off
    BY <1>1 DEF IsStore
  <2>2. IsStore(i + off) /\ connects > 0
    BY <2>1 DEF IsStore, ByConnect, GmailInv, OneOperation, ConnectionIsNew
  <2>3. disconnect[queue'[j].by].upTo = connects
    BY <2>2 DEF GmailInv, GmailTypeOK
  <2>4. CASE j + off \in 1..Len(queue) /\ queue'[j] = queue[j + off]
    <3>1. i + off < j + off
      BY <2>1, <2>2, <2>3, <2>4 DEF GmailInv, StoreIsAhead
    <3> QED
      BY <3>1
  <2>5. CASE j = Len(queue') /\ j > Len(queue) - off
    BY <1>0, <2>1, <2>5
  <2> QED
    BY <1>1, <2>4, <2>5
<1>5. AskedWhenBegun'
  <2> SUFFICES ASSUME NEW j \in 1..Len(queue'), queue'[j].by \in Disconnections
               PROVE  disconnect'[queue'[j].by].phase # "idle"
    BY DEF AskedWhenBegun
  <2>1. CASE j + off \in 1..Len(queue) /\ queue'[j] = queue[j + off]
    BY <2>1 DEF GmailInv, AskedWhenBegun
  <2>2. CASE j = Len(queue') /\ j > Len(queue) - off
    BY <2>2
  <2> QED
    BY <1>1, <2>1, <2>2
<1> QED
  BY <1>3, <1>4, <1>5

\* A disconnection is asked for while it was not: what it asks stands at the end.
LEMMA OthersStep ==
  ASSUME GmailInv, GmailTypeOK', NEW off \in {0, 1}, Moved(off),
         off = 1 => queue[1].by # "connect",
         Len(queue') > Len(queue) - off => queue'[Len(queue')].by # "connect",
         connect'.phase = connect.phase, connect.aborted => connect'.aborted,
         UNCHANGED <<connects, withdrawn, canceled>>, vault' \in {vault, 0},
         \A d \in Disconnections :
           /\ disconnect'[d].upTo \in {disconnect[d].upTo, 0}
           /\ disconnect[d].phase # "idle" => disconnect'[d].phase # "idle",
         Len(queue') > Len(queue) - off /\ queue'[Len(queue')].by \in Disconnections =>
           disconnect'[queue'[Len(queue')].by].phase # "idle"
  PROVE  GmailInv'
<1>1. OneOperation' /\ StoreIsAhead' /\ AskedWhenBegun'
  BY OthersOperations
<1>2. WithdrawalAborts'
  <2> SUFFICES ASSUME NEW d \in Disconnections
               PROVE  /\ disconnect'[d].upTo <= connects'
                      /\ disconnect'[d].upTo = connects' /\ connect'.phase = "ceremony" =>
                           connect'.aborted
    BY DEF WithdrawalAborts
  <2>1. connect.phase = "ceremony" => connects > 0
    BY DEF GmailInv, ConnectionIsNew
  <2>2. connects \in Nat /\ disconnect[d].upTo <= connects
    BY DEF GmailInv, GmailTypeOK, WithdrawalAborts
  <2>3. disconnect[d].upTo = connects /\ connect.phase = "ceremony" => connect.aborted
    BY DEF GmailInv, WithdrawalAborts
  <2> QED
    BY <2>1, <2>2, <2>3
<1>3. ConnectionIsNew' /\ WithdrawnGrantIsGone'
  BY DEF GmailInv, ConnectionIsNew, MayStore, WithdrawnGrantIsGone, GmailTypeOK
<1> QED
  BY <1>1, <1>2, <1>3 DEF GmailInv

LEMMA GmailQuiet ==
  ASSUME GmailInv,
         \/ \E r \in Reviews : ReviewEnds(r)
         \/ GoogleAnswers \/ Refreshed \/ RefreshFails \/ AccessExpires \/ RevokedAtGoogle
         \/ UNCHANGED gmailVars
  PROVE  GmailInv'
<1>1. UNCHANGED <<vault, queue, epoch, connect, connects, disconnect, withdrawn, canceled>>
  BY DEF ReviewEnds, GoogleAnswers, Refreshed, RefreshFails, AccessExpires, RevokedAtGoogle,
         gmailVars
<1>2. access' \in [grant : Nat, fresh : BOOLEAN]
  <2>1. \/ access' \in {access, [access EXCEPT !.fresh = FALSE]}
        \/ access' = [grant |-> refresh.grant, fresh |-> TRUE]
    BY DEF ReviewEnds, GoogleAnswers, Refreshed, RefreshFails, AccessExpires, RevokedAtGoogle,
           gmailVars
  <2>2. access \in [grant : Nat, fresh : BOOLEAN] /\ refresh.grant \in Nat
    BY DEF GmailInv, GmailTypeOK, RefreshStates
  <2>3. [access EXCEPT !.fresh = FALSE] \in [grant : Nat, fresh : BOOLEAN]
    BY <2>2
  <2>4. [grant |-> refresh.grant, fresh |-> TRUE] \in [grant : Nat, fresh : BOOLEAN]
    BY <2>2
  <2> QED
    BY <2>1, <2>2, <2>3, <2>4
<1>3. refresh' \in RefreshStates
  <2>1. refresh' \in {refresh, NoRefresh, [refresh EXCEPT !.phase = "answering"]}
    BY DEF ReviewEnds, GoogleAnswers, Refreshed, RefreshFails, AccessExpires, RevokedAtGoogle,
           RefreshSettles, gmailVars
  <2>2. refresh \in RefreshStates
    BY DEF GmailInv, GmailTypeOK
  <2>3. [refresh EXCEPT !.phase = "answering"] \in RefreshStates /\ NoRefresh \in RefreshStates
    BY <2>2 DEF RefreshStates, NoRefresh
  <2> QED
    BY <2>1, <2>2, <2>3
<1>4. GmailTypeOK'
  BY <1>1, <1>2, <1>3 DEF GmailInv, GmailTypeOK
<1>5. Moved(0) /\ Len(queue') = Len(queue) /\ Len(queue) \in Nat
  BY <1>1, QueueStays DEF GmailInv, GmailTypeOK
<1> QED
  BY <1>1, <1>4, <1>5, OthersStep

LEMMA RefreshOperations ==
  ASSUME GmailInv,
         \/ \E r \in Reviews : BeginReview(r)
         \/ RefreshTokenRead \/ GrantInvalid \/ InvalidRemoved
  PROVE  GmailInv'
<1>0. GmailTypeOK /\ queue \in Seq(VaultOps) /\ Len(queue) \in Nat
  BY DEF GmailInv, GmailTypeOK
<1>1. UNCHANGED <<epoch, access, connect, connects, disconnect, withdrawn, canceled>>
  BY DEF BeginReview, RefreshTokenRead, GrantInvalid, InvalidRemoved
<1>2. vault' \in {vault, 0}
  BY DEF BeginReview, RefreshTokenRead, GrantInvalid, InvalidRemoved
<1>3. refresh' \in RefreshStates
  <2>1. \/ refresh' \in {refresh, NoRefresh, [refresh EXCEPT !.phase = "removing"]}
        \/ refresh' = [refresh EXCEPT !.phase = "requesting", !.grant = vault]
        \/ refresh' = [phase |-> "reading", epoch |-> epoch, aborted |-> FALSE, grant |-> 0]
    BY DEF BeginReview, RefreshTokenRead, GrantInvalid, InvalidRemoved, RefreshSettles
  <2>2. refresh \in RefreshStates /\ vault \in Nat /\ epoch \in Nat
    BY <1>0 DEF GmailTypeOK
  <2>3. /\ [refresh EXCEPT !.phase = "removing"] \in RefreshStates
        /\ NoRefresh \in RefreshStates
    BY <2>2 DEF RefreshStates, NoRefresh
  <2>4. [refresh EXCEPT !.phase = "requesting", !.grant = vault] \in RefreshStates
    BY <2>2 DEF RefreshStates
  <2>5. [phase |-> "reading", epoch |-> epoch, aborted |-> FALSE, grant |-> 0] \in RefreshStates
    BY <2>2 DEF RefreshStates
  <2> QED
    BY <2>1, <2>2, <2>3, <2>4, <2>5
<1>4. "refresh" # "connect" /\ "refresh" \notin Disconnections
  BY GmailAssumption DEF GmailAssumption
<1>5. \/ UNCHANGED queue
      \/ \E op \in {"read", "remove"} : Ask(op, "refresh")
      \/ \E op \in {"read", "remove"} : Turn(op, "refresh") /\ queue' = Tail(queue)
  BY DEF BeginReview, RefreshTokenRead, GrantInvalid, InvalidRemoved
<1>6. queue' \in Seq(VaultOps)
  BY <1>0, <1>5, QueueAsked, QueueTaken, TurnIsFirst DEF Moved
<1>7. GmailTypeOK'
  BY <1>0, <1>1, <1>2, <1>3, <1>6 DEF GmailTypeOK
<1>8. CASE UNCHANGED queue
  BY <1>0, <1>1, <1>2, <1>7, <1>8, QueueStays, OthersStep
<1>9. CASE \E op \in {"read", "remove"} : Ask(op, "refresh")
  <2>0. PICK op \in {"read", "remove"} : Ask(op, "refresh")
    BY <1>9
  <2>1. /\ Moved(0) /\ Len(queue') = Len(queue) + 1
        /\ queue'[Len(queue')].by = "refresh"
    <3>1. /\ Moved(0) /\ Len(queue') = Len(queue) + 1
          /\ queue'[Len(queue')] = [op |-> op, by |-> "refresh"]
      BY <1>0, <2>0, QueueAsked
    <3> QED
      BY <3>1
  <2> QED
    BY <1>0, <1>1, <1>2, <1>4, <1>7, <2>1, OthersStep
<1>10. CASE \E op \in {"read", "remove"} : Turn(op, "refresh") /\ queue' = Tail(queue)
  <2>1. /\ Moved(1) /\ Len(queue') = Len(queue) - 1 /\ queue[1].by = "refresh"
    BY <1>0, <1>10, QueueTaken, TurnIsFirst
  <2> QED
    BY <1>0, <1>1, <1>2, <1>4, <1>7, <2>1, OthersStep
<1> QED
  BY <1>5, <1>8, <1>9, <1>10

LEMMA ConnectIsMarked ==
  ASSUME GmailInv, ConnectTimesOut \/ WindowReopens
  PROVE  GmailInv'
<1>1. UNCHANGED <<vault, queue, epoch, access, connects, refresh, withdrawn, canceled>>
  BY DEF ConnectTimesOut, WindowReopens
<1>2. /\ connect' \in ConnectStates /\ connect'.phase = connect.phase
      /\ connect.aborted => connect'.aborted
  BY DEF GmailInv, GmailTypeOK, ConnectStates, ConnectTimesOut, WindowReopens
<1>3. /\ disconnect' \in [Disconnections -> DisconnectStates]
      /\ \A d \in Disconnections :
           disconnect'[d].upTo = disconnect[d].upTo /\ disconnect'[d].phase = disconnect[d].phase
  <2>1. disconnect \in [Disconnections -> DisconnectStates]
    BY DEF GmailInv, GmailTypeOK
  <2>2. CASE disconnect' = disconnect
    BY <2>1, <2>2
  <2>3. CASE disconnect' = [d \in Disconnections |-> [disconnect[d] EXCEPT !.heard = FALSE]]
    BY <2>1, <2>3 DEF DisconnectStates
  <2> QED
    BY <2>2, <2>3 DEF ConnectTimesOut, WindowReopens
<1>4. GmailTypeOK'
  BY <1>1, <1>2, <1>3 DEF GmailInv, GmailTypeOK
<1>5. Moved(0) /\ Len(queue') = Len(queue) /\ Len(queue) \in Nat
  BY <1>1, QueueStays DEF GmailInv, GmailTypeOK
<1> QED
  BY <1>1, <1>2, <1>3, <1>4, <1>5, OthersStep

LEMMA DisconnectionSteps ==
  ASSUME GmailInv, NEW d \in Disconnections,
         TokenToRevokeRead(d) \/ RevocationEnds(d) \/ WithdrawalFails(d)
  PROVE  GmailInv'
<1>0. /\ GmailTypeOK /\ queue \in Seq(VaultOps) /\ Len(queue) \in Nat
      /\ disconnect[d] \in DisconnectStates /\ d # "connect"
  BY GmailAssumption DEF GmailInv, GmailTypeOK, GmailAssumption
<1>1. UNCHANGED <<vault, epoch, connect, connects, refresh, withdrawn, canceled>>
  BY DEF TokenToRevokeRead, RevocationEnds, WithdrawalFails
<1>2. access' \in [grant : Nat, fresh : BOOLEAN]
  <2>1. access' \in {access, NoAccess}
    BY DEF TokenToRevokeRead, RevocationEnds, WithdrawalFails
  <2>2. NoAccess \in [grant : Nat, fresh : BOOLEAN] /\ access \in [grant : Nat, fresh : BOOLEAN]
    BY <1>0 DEF GmailTypeOK, NoAccess
  <2> QED
    BY <2>1, <2>2
<1>3. PICK row \in DisconnectStates :
        /\ disconnect' = [disconnect EXCEPT ![d] = row]
        /\ row.phase # "idle" /\ row.upTo \in {disconnect[d].upTo, 0}
  <2>1. CASE TokenToRevokeRead(d)
    <3>1. PICK token \in {IF vault # 0 THEN vault ELSE access.grant, access.grant} :
            disconnect' = [disconnect EXCEPT
                             ![d].phase = IF token # 0 THEN "revoking" ELSE "removing",
                             ![d].grant = token]
      BY <2>1 DEF TokenToRevokeRead
    <3> DEFINE row == [disconnect[d] EXCEPT
                         !.phase = IF token # 0 THEN "revoking" ELSE "removing", !.grant = token]
    <3>2. token \in Nat
      BY <1>0 DEF GmailTypeOK
    <3>3. row \in DisconnectStates /\ row.phase # "idle" /\ row.upTo = disconnect[d].upTo
      BY <1>0, <3>2 DEF DisconnectStates
    <3>4. disconnect' = [disconnect EXCEPT ![d] = row]
      BY <3>1
    <3> HIDE DEF row
    <3> QED
      BY <3>3, <3>4
  <2>2. CASE RevocationEnds(d)
    <3> DEFINE row == [disconnect[d] EXCEPT !.phase = "removing"]
    <3>1. row \in DisconnectStates /\ row.phase # "idle" /\ row.upTo = disconnect[d].upTo
      BY <1>0 DEF DisconnectStates
    <3>2. disconnect' = [disconnect EXCEPT ![d] = row]
      BY <2>2 DEF RevocationEnds
    <3> HIDE DEF row
    <3> QED
      BY <3>1, <3>2
  <2>3. CASE WithdrawalFails(d)
    <3> DEFINE row == [NotAsked EXCEPT !.phase = "answered"]
    <3>1. row \in DisconnectStates /\ row.phase # "idle" /\ row.upTo = 0
      BY DEF DisconnectStates, NotAsked
    <3>2. disconnect' = [disconnect EXCEPT ![d] = row]
      BY <2>3 DEF WithdrawalFails, DisconnectAnswers
    <3> HIDE DEF row
    <3> QED
      BY <3>1, <3>2
  <2> QED
    BY <2>1, <2>2, <2>3
<1>4. /\ disconnect' \in [Disconnections -> DisconnectStates]
      /\ disconnect'[d].phase # "idle"
      /\ \A e \in Disconnections :
           /\ disconnect'[e].upTo \in {disconnect[e].upTo, 0}
           /\ disconnect[e].phase # "idle" => disconnect'[e].phase # "idle"
  BY <1>0, <1>3 DEF GmailTypeOK
<1>5. \/ Turn("read", d) /\ queue' = Tail(queue)
      \/ Turn("read", d) /\ queue' = Append(Tail(queue), [op |-> "remove", by |-> d])
      \/ Turn("remove", d) /\ queue' = Tail(queue)
      \/ Ask("remove", d)
  BY DEF TokenToRevokeRead, RevocationEnds, WithdrawalFails, DisconnectAnswers
<1>6. PICK off \in {0, 1} :
        /\ Moved(off)
        /\ off = 1 => queue[1].by = d
        /\ \/ Len(queue') = Len(queue) - off
           \/ queue'[Len(queue')].by = d
  <2>1. CASE Ask("remove", d)
    <3>1. /\ Moved(0) /\ Len(queue') = Len(queue) + 1
          /\ queue'[Len(queue')] = [op |-> "remove", by |-> d]
      BY <1>0, <2>1, QueueAsked
    <3> QED
      BY <3>1
  <2>2. CASE (Turn("read", d) \/ Turn("remove", d)) /\ queue' = Tail(queue)
    BY <1>0, <2>2, QueueTaken, TurnIsFirst
  <2>3. CASE Turn("read", d) /\ queue' = Append(Tail(queue), [op |-> "remove", by |-> d])
    BY <1>0, <2>3, QueueTakenAsked, TurnIsFirst
  <2> QED
    BY <1>5, <2>1, <2>2, <2>3
<1>7. GmailTypeOK'
  BY <1>0, <1>1, <1>2, <1>4, <1>6 DEF GmailTypeOK, Moved
<1> QED
  BY <1>0, <1>1, <1>4, <1>6, <1>7, OthersStep

\* The connection has no operation left in the vault.
LEMMA ConnectionLeaves ==
  ASSUME GmailInv, NEW off \in {0, 1}, Moved(off), Len(queue') = Len(queue) - off,
         off = 1 => queue[1].by = "connect",
         off = 0 => connect.phase \in {"idle", "ceremony"},
         connect'.phase # "storing", disconnect' = disconnect
  PROVE  OneOperation' /\ StoreIsAhead' /\ AskedWhenBegun'
<1>0. Len(queue) \in Nat /\ Len(queue') \in Nat
  BY DEF GmailInv, GmailTypeOK, Moved
<1>1. \A i \in 1..Len(queue') : i + off \in 1..Len(queue) /\ queue'[i] = queue[i + off]
  BY <1>0 DEF Moved
<1>2. ASSUME NEW i \in 1..Len(queue')
      PROVE  ~ByConnect(i)'
  <2>1. CASE off = 0
    <3>1. ~ByConnect(i + off)
      BY <1>1, <1>2, <2>1 DEF GmailInv, OneOperation
    <3> QED
      BY <1>1, <1>2, <3>1 DEF ByConnect
  <2>2. CASE off = 1
    <3>1. i + off \in 1..Len(queue) /\ i + off # 1 /\ 1 \in 1..Len(queue)
      BY <1>0, <1>1, <1>2, <2>2
    <3>2. ~ByConnect(i + off)
      BY <2>2, <3>1 DEF GmailInv, OneOperation, ByConnect
    <3> QED
      BY <1>1, <1>2, <3>2 DEF ByConnect
  <2> QED
    BY <2>1, <2>2
<1>3. AskedWhenBegun'
  BY <1>1 DEF GmailInv, AskedWhenBegun
<1> QED
  BY <1>2, <1>3 DEF OneOperation, StoreIsAhead, IsStore

LEMMA ConnectionBegins ==
  ASSUME GmailInv, Connect \/ CeremonyFails
  PROVE  GmailInv'
<1>0. GmailTypeOK
  BY DEF GmailInv
<1>1. /\ UNCHANGED <<vault, queue, epoch, access, disconnect, refresh, withdrawn>>
      /\ connect.phase \in {"idle", "ceremony"} /\ connect'.phase \in {"idle", "ceremony"}
  BY DEF Connect, CeremonyFails, ConnectAnswers, NoConnect
<1>2. connects' \in Nat /\ connect' \in ConnectStates
  <2> DEFINE begun == [phase |-> "ceremony", epoch |-> epoch, aborted |-> FALSE, heard |-> TRUE]
  <2>1. connect' \in {NoConnect, begun} /\ connects' \in {connects, connects + 1}
    BY DEF Connect, CeremonyFails, ConnectAnswers
  <2>2. begun \in ConnectStates
    BY <1>0 DEF ConnectStates, GmailTypeOK
  <2>3. NoConnect \in ConnectStates
    BY DEF NoConnect, ConnectStates
  <2> HIDE DEF begun
  <2> QED
    BY <1>0, <2>1, <2>2, <2>3 DEF GmailTypeOK
<1>3. GmailTypeOK'
  BY <1>0, <1>1, <1>2 DEF GmailTypeOK
<1>4. Moved(0) /\ Len(queue') = Len(queue) /\ Len(queue) \in Nat
  BY <1>0, <1>1, QueueStays DEF GmailTypeOK
<1>5. OneOperation' /\ StoreIsAhead' /\ AskedWhenBegun'
  BY <1>1, <1>4, ConnectionLeaves
<1>6. CASE Connect
  <2>1. /\ connects' = connects + 1 /\ connect'.phase = "ceremony" /\ ~connect'.aborted
        /\ UNCHANGED canceled
    BY <1>6 DEF Connect
  <2>2. WithdrawalAborts'
    BY <1>0, <1>1, <2>1 DEF GmailInv, WithdrawalAborts, GmailTypeOK, DisconnectStates
  <2>3. ConnectionIsNew' /\ WithdrawnGrantIsGone'
    BY <1>0, <1>1, <2>1
       DEF GmailInv, ConnectionIsNew, MayStore, WithdrawnGrantIsGone, GmailTypeOK
  <2> QED
    BY <1>3, <1>5, <2>2, <2>3 DEF GmailInv
<1>7. CASE CeremonyFails
  <2>1. /\ connect.phase = "ceremony" /\ connect'.phase = "idle" /\ connects' = connects
        /\ canceled' \in {canceled, canceled \cup {connects}}
    BY <1>7 DEF CeremonyFails, ConnectAnswers, NoConnect
  <2>2. WithdrawalAborts'
    BY <1>1, <2>1 DEF GmailInv, WithdrawalAborts
  <2>3. ConnectionIsNew' /\ WithdrawnGrantIsGone'
    BY <1>0, <1>1, <2>1
       DEF GmailInv, ConnectionIsNew, MayStore, WithdrawnGrantIsGone, GmailTypeOK
  <2> QED
    BY <1>3, <1>5, <2>2, <2>3 DEF GmailInv
<1> QED
  BY <1>6, <1>7

LEMMA ConnectionAnswered ==
  ASSUME GmailInv, (TokenStored /\ ~Superseded) \/ TokenUndone \/ ConnectRefused
  PROVE  GmailInv'
<1>0. GmailTypeOK /\ queue \in Seq(VaultOps) /\ Len(queue) \in Nat
  BY DEF GmailInv, GmailTypeOK
<1>1. /\ UNCHANGED <<epoch, connects, disconnect, refresh, withdrawn>>
      /\ connect' = NoConnect /\ queue' = Tail(queue)
      /\ Turn("store", "connect") \/ Turn("remove", "connect")
  BY DEF TokenStored, TokenUndone, ConnectRefused, ConnectAnswers
<1>2. /\ Moved(1) /\ Len(queue') = Len(queue) - 1 /\ queue[1].by = "connect"
      /\ 1 \in 1..Len(queue)
  BY <1>0, <1>1, QueueTaken, TurnIsFirst
<1>3. OneOperation' /\ StoreIsAhead' /\ AskedWhenBegun'
  BY <1>1, <1>2, ConnectionLeaves DEF NoConnect
<1>4. connect.phase \in {"storing", "undoing"}
  BY <1>2 DEF GmailInv, OneOperation, ByConnect
<1>5. /\ vault' \in {vault, connects, 0}
      /\ vault' = connects /\ vault' # vault => connect.phase = "storing"
      /\ canceled' = canceled \/ (canceled' = canceled \cup {connects} /\ vault' = 0)
  <2>1. CASE TokenStored
    <3>1. queue[1].op = "store"
      BY <1>0, <2>1, TurnIsFirst DEF TokenStored
    <3>2. connect.phase = "storing"
      BY <1>2, <3>1 DEF GmailInv, OneOperation, ByConnect
    <3> QED
      BY <2>1, <3>2 DEF TokenStored
  <2>2. CASE TokenUndone
    <3>1. connects # 0
      BY <1>0, <1>4 DEF GmailInv, ConnectionIsNew
    <3> QED
      BY <2>2, <3>1 DEF TokenUndone
  <2>3. CASE ConnectRefused
    BY <2>3 DEF ConnectRefused
  <2> QED
    BY <2>1, <2>2, <2>3
<1>6. access' \in [grant : Nat, fresh : BOOLEAN]
  <2>1. access' \in {access, [grant |-> connects, fresh |-> TRUE]}
    BY DEF TokenStored, TokenUndone, ConnectRefused
  <2>2. [grant |-> connects, fresh |-> TRUE] \in [grant : Nat, fresh : BOOLEAN]
    BY <1>0 DEF GmailTypeOK
  <2> QED
    BY <1>0, <2>1, <2>2 DEF GmailTypeOK
<1>7. NoConnect \in ConnectStates
  BY DEF NoConnect, ConnectStates
<1>8. GmailTypeOK'
  <2>1. queue' \in Seq(VaultOps)
    BY <1>2 DEF Moved
  <2>2. vault' \in Nat
    BY <1>0, <1>5 DEF GmailTypeOK
  <2>3. connect' \in ConnectStates
    BY <1>1, <1>7
  <2> QED
    BY <1>0, <1>1, <1>6, <2>1, <2>2, <2>3 DEF GmailTypeOK
<1>9. WithdrawalAborts'
  BY <1>1 DEF GmailInv, WithdrawalAborts, NoConnect
<1>10. ConnectionIsNew' /\ WithdrawnGrantIsGone'
  BY <1>0, <1>1, <1>4, <1>5
     DEF GmailInv, ConnectionIsNew, MayStore, WithdrawnGrantIsGone, GmailTypeOK, NoConnect
<1> QED
  BY <1>3, <1>8, <1>9, <1>10 DEF GmailInv

\* The token of the connection is to be stored: every disconnection asked for so far was
\* asked for before this connection began, or it would have aborted it.
LEMMA ConnectionStores ==
  ASSUME GmailInv, CeremonyEnds
  PROVE  GmailInv'
<1>0. GmailTypeOK /\ queue \in Seq(VaultOps) /\ Len(queue) \in Nat
  BY DEF GmailInv, GmailTypeOK
<1>1. /\ UNCHANGED <<vault, epoch, access, connects, disconnect, refresh, withdrawn, canceled>>
      /\ connect.phase = "ceremony" /\ ~connect.aborted /\ Ask("store", "connect")
  BY DEF CeremonyEnds
<1>2. connect' \in ConnectStates /\ connect'.phase = "storing"
  <2>1. connect \in ConnectStates
    BY <1>0 DEF GmailTypeOK
  <2> QED
    BY <2>1 DEF CeremonyEnds, ConnectStates
<1>3. /\ Moved(0) /\ Len(queue') = Len(queue) + 1
      /\ queue'[Len(queue')] = [op |-> "store", by |-> "connect"]
  BY <1>0, <1>1, QueueAsked
<1>4. GmailTypeOK'
  BY <1>0, <1>1, <1>2, <1>3 DEF GmailTypeOK, Moved
<1>5. \A i \in 1..Len(queue') :
        \/ i \in 1..Len(queue) /\ queue'[i] = queue[i]
        \/ i = Len(queue') /\ i > Len(queue)
  BY <1>0, <1>3 DEF Moved
<1>6. \A i \in 1..Len(queue) : ~ByConnect(i)
  BY <1>1 DEF GmailInv, OneOperation
<1>7. \A i \in 1..Len(queue') : ByConnect(i)' => i = Len(queue')
  BY <1>5, <1>6 DEF ByConnect
<1>8. OneOperation'
  <2>0. PICK n \in 1..Len(queue') : n = Len(queue')
    BY <1>0, <1>3
  <2>1. queue'[n].by = "connect" /\ queue'[n].op = "store"
    BY <1>3, <2>0
  <2>2. \A i \in 1..Len(queue') : ByConnect(i)' => i = n
    BY <1>7, <2>0
  <2>3. IsStore(n)'
    BY <2>1 DEF IsStore, ByConnect
  <2>4. \A i \in 1..Len(queue') : ByConnect(i)' => queue'[i].op = "store"
    BY <2>1, <2>2
  <2> QED
    BY <1>2, <2>2, <2>3, <2>4 DEF OneOperation
<1>9. \A d \in Disconnections : disconnect[d].upTo # connects
  BY <1>1 DEF GmailInv, WithdrawalAborts
<1>10. StoreIsAhead'
  BY <1>1, <1>9 DEF StoreIsAhead
<1>11. AskedWhenBegun'
  BY <1>1, <1>3, <1>5, GmailAssumption DEF GmailInv, AskedWhenBegun, GmailAssumption
<1>12. WithdrawalAborts'
  BY <1>1, <1>9 DEF GmailInv, WithdrawalAborts
<1>13. ConnectionIsNew' /\ WithdrawnGrantIsGone'
  BY <1>1, <1>2 DEF GmailInv, ConnectionIsNew, MayStore, WithdrawnGrantIsGone
<1> QED
  BY <1>4, <1>8, <1>10, <1>11, <1>12, <1>13 DEF GmailInv

\* A token stored for a connection that was aborted meanwhile is to be removed again.
LEMMA ConnectionUndoes ==
  ASSUME GmailInv, TokenStored, Superseded
  PROVE  GmailInv'
<1>0. GmailTypeOK /\ queue \in Seq(VaultOps) /\ Len(queue) \in Nat
  BY DEF GmailInv, GmailTypeOK
<1>1. /\ UNCHANGED <<epoch, access, connects, disconnect, refresh, withdrawn, canceled>>
      /\ Turn("store", "connect") /\ vault' = connects
      /\ queue' = Append(Tail(queue), [op |-> "remove", by |-> "connect"])
  BY DEF TokenStored
<1>2. connect' \in ConnectStates /\ connect'.phase = "undoing"
  <2>1. connect \in ConnectStates
    BY <1>0 DEF GmailTypeOK
  <2> QED
    BY <2>1 DEF TokenStored, ConnectStates
<1>3. /\ Moved(1) /\ Len(queue') = Len(queue) /\ Len(queue) >= 1
      /\ queue'[Len(queue')] = [op |-> "remove", by |-> "connect"]
      /\ queue[1].by = "connect" /\ queue[1].op = "store" /\ 1 \in 1..Len(queue)
  BY <1>0, <1>1, TurnIsFirst, QueueTakenAsked
<1>4. GmailTypeOK'
  BY <1>0, <1>1, <1>2, <1>3 DEF GmailTypeOK, Moved
<1>5. \A i \in 1..Len(queue') :
        \/ i + 1 \in 1..Len(queue) /\ queue'[i] = queue[i + 1]
        \/ i = Len(queue')
  BY <1>0, <1>3 DEF Moved
<1>6. \A i \in 1..Len(queue) : ByConnect(i) => i = 1
  BY <1>3 DEF GmailInv, OneOperation, ByConnect
<1>7. \A i \in 1..Len(queue') : ByConnect(i)' => i = Len(queue')
  <2> SUFFICES ASSUME NEW i \in 1..Len(queue'), ByConnect(i)', i # Len(queue')
               PROVE  FALSE
    OBVIOUS
  <2>1. i + 1 \in 1..Len(queue) /\ ByConnect(i + 1)
    BY <1>5 DEF ByConnect
  <2>2. i + 1 = 1
    BY <1>6, <2>1
  <2> QED
    BY <2>2
<1>8. \A i \in 1..Len(queue') : ~IsStore(i)' 
  BY <1>3, <1>7 DEF IsStore, ByConnect
<1>9. OneOperation'
  BY <1>2, <1>7, <1>8 DEF OneOperation, IsStore
<1>10. StoreIsAhead'
  BY <1>8 DEF StoreIsAhead
<1>11. AskedWhenBegun'
  BY <1>1, <1>3, <1>5, GmailAssumption DEF GmailInv, AskedWhenBegun, GmailAssumption
<1>12. WithdrawalAborts'
  BY <1>1, <1>2 DEF GmailInv, WithdrawalAborts
<1>13. connect.phase = "storing"
  BY <1>3 DEF GmailInv, OneOperation, ByConnect
<1>14. ConnectionIsNew' /\ WithdrawnGrantIsGone'
  BY <1>0, <1>1, <1>2, <1>13
     DEF GmailInv, ConnectionIsNew, MayStore, WithdrawnGrantIsGone, GmailTypeOK
<1> QED
  BY <1>4, <1>9, <1>10, <1>11, <1>12, <1>14 DEF GmailInv

\* A disconnection is answered.  Had the connection under way begun before it, that one was
\* aborted, or its token stored already: the store would have been asked for first.
LEMMA DisconnectionAnswers ==
  ASSUME GmailInv, NEW d \in Disconnections, TokenRemoved(d)
  PROVE  GmailInv'
<1>0. /\ GmailTypeOK /\ queue \in Seq(VaultOps) /\ Len(queue) \in Nat
      /\ disconnect[d] \in DisconnectStates /\ d # "connect"
  BY GmailAssumption DEF GmailInv, GmailTypeOK, GmailAssumption
<1> DEFINE row == [NotAsked EXCEPT !.phase = "answered"]
<1>1. /\ UNCHANGED <<epoch, access, connect, connects, refresh, canceled>>
      /\ Turn("remove", d) /\ vault' = 0 /\ queue' = Tail(queue)
      /\ disconnect' = [disconnect EXCEPT ![d] = row]
      /\ withdrawn' = Greater(withdrawn, disconnect[d].upTo)
  BY DEF TokenRemoved, DisconnectAnswers
<1>2. row \in DisconnectStates /\ row.phase = "answered" /\ row.upTo = 0
  BY DEF DisconnectStates, NotAsked
<1> HIDE DEF row
<1>3. /\ disconnect' \in [Disconnections -> DisconnectStates]
      /\ \A e \in Disconnections :
           /\ disconnect'[e].upTo \in {disconnect[e].upTo, 0}
           /\ disconnect[e].phase # "idle" => disconnect'[e].phase # "idle"
  BY <1>0, <1>1, <1>2 DEF GmailTypeOK
<1>4. /\ Moved(1) /\ Len(queue') = Len(queue) - 1 /\ queue[1].by = d /\ 1 \in 1..Len(queue)
  BY <1>0, <1>1, TurnIsFirst, QueueTaken
<1>5. /\ withdrawn \in Nat /\ withdrawn' \in {withdrawn, disconnect[d].upTo}
      /\ withdrawn' \in Nat
  BY <1>0, <1>1 DEF GmailTypeOK, Greater, DisconnectStates
<1>6. GmailTypeOK'
  BY <1>0, <1>1, <1>3, <1>4, <1>5 DEF GmailTypeOK, Moved
<1>7. OneOperation' /\ StoreIsAhead' /\ AskedWhenBegun'
  BY <1>0, <1>1, <1>3, <1>4, OthersOperations
<1>8. WithdrawalAborts'
  <2> SUFFICES ASSUME NEW e \in Disconnections
               PROVE  /\ disconnect'[e].upTo <= connects
                      /\ disconnect'[e].upTo = connects /\ connect.phase = "ceremony" =>
                           connect.aborted
    BY <1>1 DEF WithdrawalAborts
  <2>1. connect.phase = "ceremony" => connects > 0
    BY DEF GmailInv, ConnectionIsNew
  <2>2. connects \in Nat /\ disconnect[e].upTo <= connects
    BY <1>0 DEF GmailInv, GmailTypeOK, WithdrawalAborts
  <2>3. disconnect[e].upTo = connects /\ connect.phase = "ceremony" => connect.aborted
    BY DEF GmailInv, WithdrawalAborts
  <2> QED
    BY <1>3, <2>1, <2>2, <2>3
<1>9. MayStore => disconnect[d].upTo # connects
  <2>1. CASE connect.phase = "ceremony" /\ ~connect.aborted
    BY <2>1 DEF GmailInv, WithdrawalAborts
  <2>2. CASE connect.phase = "storing"
    <3>1. PICK i \in 1..Len(queue) : IsStore(i)
      BY <2>2 DEF GmailInv, OneOperation
    <3>2. disconnect[d].upTo = connects => i < 1
      BY <1>4, <3>1 DEF GmailInv, StoreIsAhead
    <3> QED
      BY <3>1, <3>2
  <2> QED
    BY <2>1, <2>2 DEF MayStore
<1>10. disconnect[d].upTo <= connects /\ disconnect[d].upTo \in Nat /\ connects \in Nat
  BY <1>0 DEF GmailInv, WithdrawalAborts, GmailTypeOK, DisconnectStates
<1>11. ConnectionIsNew' /\ WithdrawnGrantIsGone'
  BY <1>0, <1>1, <1>5, <1>9, <1>10
     DEF GmailInv, ConnectionIsNew, MayStore, WithdrawnGrantIsGone, GmailTypeOK
<1> QED
  BY <1>6, <1>7, <1>8, <1>11 DEF GmailInv

\* The owner disconnects: what is under way is aborted, and the call's operation is the last.
LEMMA DisconnectionBegins ==
  ASSUME GmailInv, NEW d \in Disconnections, Disconnect(d)
  PROVE  GmailInv'
<1>0. /\ GmailTypeOK /\ queue \in Seq(VaultOps) /\ Len(queue) \in Nat
      /\ disconnect[d] \in DisconnectStates /\ d # "connect"
      /\ connect \in ConnectStates /\ refresh \in RefreshStates
  BY GmailAssumption DEF GmailInv, GmailTypeOK, GmailAssumption
<1> DEFINE row == [phase |-> "reading", grant |-> 0, upTo |-> connects, heard |-> TRUE]
<1>1. /\ UNCHANGED <<vault, access, connects, withdrawn, canceled>>
      /\ Ask("read", d) /\ disconnect[d].phase = "idle" /\ epoch' = epoch + 1
      /\ disconnect' = [disconnect EXCEPT ![d] = row]
  BY DEF Disconnect
<1>2. row \in DisconnectStates /\ row.phase = "reading" /\ row.upTo = connects
  BY <1>0 DEF DisconnectStates, GmailTypeOK
<1> HIDE DEF row
<1>3. /\ connect' \in ConnectStates /\ connect'.phase = connect.phase
      /\ connect.phase # "idle" => connect'.aborted
  BY <1>0 DEF Disconnect, ConnectStates
<1>4. refresh' \in RefreshStates
  BY <1>0 DEF Disconnect, RefreshStates
<1>5. /\ Moved(0) /\ Len(queue') = Len(queue) + 1
      /\ queue'[Len(queue')] = [op |-> "read", by |-> d]
  BY <1>0, <1>1, QueueAsked
<1>6. /\ disconnect' \in [Disconnections -> DisconnectStates]
      /\ disconnect'[d] = row
      /\ \A e \in Disconnections : e # d => disconnect'[e] = disconnect[e]
  BY <1>0, <1>1, <1>2 DEF GmailTypeOK
<1>7. GmailTypeOK'
  BY <1>0, <1>1, <1>3, <1>4, <1>5, <1>6 DEF GmailTypeOK, Moved
<1>8. \A i \in 1..Len(queue') :
        \/ /\ i \in 1..Len(queue) /\ queue'[i] = queue[i] /\ queue[i].by # d
        \/ i = Len(queue') /\ i > Len(queue) /\ queue'[i].by = d /\ ~ByConnect(i)'
  <2>1. \A i \in 1..Len(queue) : queue[i].by # d
    BY <1>1 DEF GmailInv, AskedWhenBegun
  <2> QED
    BY <1>0, <1>5, <2>1 DEF Moved, ByConnect
<1>9. \A i \in 1..Len(queue) : i \in 1..Len(queue') /\ queue'[i] = queue[i]
  BY <1>0, <1>5 DEF Moved
<1>10. OneOperation'
  <2>1. \A i \in 1..Len(queue') :
          ByConnect(i)' => i \in 1..Len(queue) /\ queue'[i] = queue[i] /\ ByConnect(i)
    BY <1>8 DEF ByConnect
  <2>2. \A i \in 1..Len(queue) : IsStore(i) => i \in 1..Len(queue') /\ IsStore(i)'
    BY <1>9 DEF IsStore, ByConnect
  <2>3. \A i, j \in 1..Len(queue') : ByConnect(i)' /\ ByConnect(j)' => i = j
    BY <2>1 DEF GmailInv, OneOperation
  <2>4. \A i \in 1..Len(queue') : ByConnect(i)' =>
          connect'.phase = IF queue'[i].op = "store" THEN "storing" ELSE "undoing"
    BY <1>3, <2>1 DEF GmailInv, OneOperation
  <2>5. connect'.phase = "storing" => \E i \in 1..Len(queue') : IsStore(i)'
    BY <1>3, <2>2 DEF GmailInv, OneOperation
  <2> QED
    BY <2>3, <2>4, <2>5 DEF OneOperation
<1>11. StoreIsAhead'
  <2> SUFFICES ASSUME NEW i \in 1..Len(queue'), NEW j \in 1..Len(queue'), IsStore(i)',
                      queue'[j].by \in Disconnections,
                      disconnect'[queue'[j].by].upTo = connects
               PROVE  i < j
    BY <1>1 DEF StoreIsAhead
  <2>1. i \in 1..Len(queue) /\ IsStore(i)
    BY <1>8 DEF IsStore, ByConnect
  <2>2. CASE j \in 1..Len(queue) /\ queue'[j] = queue[j] /\ queue[j].by # d
    <3>1. disconnect[queue[j].by].upTo = connects
      BY <1>6, <2>2
    <3> QED
      BY <2>1, <2>2, <3>1 DEF GmailInv, StoreIsAhead
  <2>3. CASE j = Len(queue') /\ j > Len(queue)
    BY <1>0, <2>1, <2>3
  <2> QED
    BY <1>8, <2>2, <2>3
<1>12. AskedWhenBegun'
  <2> SUFFICES ASSUME NEW j \in 1..Len(queue'), queue'[j].by \in Disconnections
               PROVE  disconnect'[queue'[j].by].phase # "idle"
    BY DEF AskedWhenBegun
  <2>1. CASE j \in 1..Len(queue) /\ queue'[j] = queue[j] /\ queue[j].by # d
    BY <1>6, <2>1 DEF GmailInv, AskedWhenBegun
  <2>2. CASE queue'[j].by = d
    BY <1>2, <1>6, <2>2
  <2> QED
    BY <1>8, <2>1, <2>2
<1>13. WithdrawalAborts'
  <2>1. connects \in Nat
    BY <1>0 DEF GmailTypeOK
  <2> QED
    BY <1>1, <1>2, <1>3, <1>6, <2>1 DEF GmailInv, WithdrawalAborts
<1>14. ConnectionIsNew' /\ WithdrawnGrantIsGone'
  BY <1>1, <1>3 DEF GmailInv, ConnectionIsNew, MayStore, WithdrawnGrantIsGone
<1> QED
  BY <1>7, <1>10, <1>11, <1>12, <1>13, <1>14 DEF GmailInv

--------------------------------------------------------------------------------
\* Every behaviour of the connection keeps the order the vault's operations stand in.
THEOREM GmailInvariant == GmailSpec => []GmailInv
<1>1. GmailInv /\ [GmailNext]_gmailVars => GmailInv'
  <2> SUFFICES ASSUME GmailInv, [GmailNext]_gmailVars
               PROVE  GmailInv'
    OBVIOUS
  <2>1. CASE Connect \/ CeremonyFails
    BY <2>1, ConnectionBegins
  <2>2. CASE ConnectTimesOut \/ WindowReopens
    BY <2>2, ConnectIsMarked
  <2>3. CASE CeremonyEnds
    BY <2>3, ConnectionStores
  <2>4. CASE TokenStored
    BY <2>4, ConnectionUndoes, ConnectionAnswered
  <2>5. CASE TokenUndone \/ ConnectRefused
    BY <2>5, ConnectionAnswered
  <2>6. CASE \E d \in Disconnections : Disconnect(d)
    BY <2>6, DisconnectionBegins
  <2>7. CASE \E d \in Disconnections :
               TokenToRevokeRead(d) \/ RevocationEnds(d) \/ WithdrawalFails(d)
    BY <2>7, DisconnectionSteps
  <2>8. CASE \E d \in Disconnections : TokenRemoved(d)
    BY <2>8, DisconnectionAnswers
  <2>9. CASE \/ \E r \in Reviews : BeginReview(r)
             \/ RefreshTokenRead \/ GrantInvalid \/ InvalidRemoved
    BY <2>9, RefreshOperations
  <2>10. CASE \/ \E r \in Reviews : ReviewEnds(r)
              \/ GoogleAnswers \/ Refreshed \/ RefreshFails \/ AccessExpires
              \/ RevokedAtGoogle \/ UNCHANGED gmailVars
    BY <2>10, GmailQuiet
  <2> QED
    BY <2>1, <2>2, <2>3, <2>4, <2>5, <2>6, <2>7, <2>8, <2>9, <2>10 DEF GmailNext
<1> QED
  BY <1>1, GmailInitOK, PTL DEF GmailSpec

\* Whatever is connecting, disconnecting and refreshing at once, and whichever operation of
\* the vault fails: a stored refresh token is of no connection that a completed disconnection
\* withdrew, nor of one that was answered as canceled.
THEOREM WithdrawnGrantsAreGone == GmailSpec => []WithdrawnGrantIsGone
<1>1. GmailInv => WithdrawnGrantIsGone
  BY DEF GmailInv
<1> QED
  BY <1>1, GmailInvariant, PTL

--------------------------------------------------------------------------------
(***************************************************************************)
(* BrowserWindow: what a window's state says of who may act in it.         *)
(* Forgetting closes the page before anything else, no page is loaded in   *)
(* a window twice, and a hand-back shields the input until it has ended.   *)
(***************************************************************************)
RowFenced(x) ==
  /\ x.input => x.controller = "USER" \/ ~x.view
  /\ x.takeover = "RECONCILING" => ~x.input
  /\ x.profile # "PRESENT" => x.blocked /\ ~x.view
  /\ x.forget \in {"wiping", "staging", "sealing"} => x.profile = "FORGETTING"

WindowsFenced ==
  /\ DOMAIN windows = Windows
  /\ \A w \in Windows :
       RowFenced(windows[w]) /\ (windows[w].phase = "none" => windows[w] = NewWindow)

(***************************************************************************)
(* What the disk keeps.  A profile whose removal was acknowledged is not   *)
(* there any more, or its removal is on record; the record is cleared only *)
(* when the directory is gone, and a launch that found no record shows no  *)
(* such profile, unless this process had it open before.                   *)
(***************************************************************************)
Launches ==
  {"idle", "erasing", "clearing", "protecting", "locking", "signing", "showing"}

WindowTypeOK ==
  /\ process \in [life : Nat, up : BOOLEAN, builder : BOOLEAN, launch : Launches]
  /\ saved \in [profile : Nat, made : Nat, lock : Nat,
                pending : {"NONE", "PRESENT", "ERASURE_FAILED"}]

ProfilesAreMade ==
  /\ saved.profile <= saved.made
  /\ forgotten \subseteq 1..saved.made
  /\ opened \subseteq 1..saved.made

WindowsShowOpened ==
  \A w \in Windows :
    windows[w].phase = "open" \/ windows[w].forget # "idle" => windows[w].shows \in opened

RemovalIsRecorded ==
  /\ saved.profile \in forgotten => saved.pending # "NONE"
  /\ \A w \in Windows :
       windows[w].forget = "sealing" /\ windows[w].shows = saved.profile =>
         saved.pending # "NONE"

LaunchIsOfKept ==
  /\ process.launch = "clearing" => saved.profile = 0
  /\ process.launch \in {"locking", "signing", "showing"} => saved.profile > 0
  /\ process.launch \in {"protecting", "locking", "signing", "showing"} =>
       saved.profile \notin forgotten \ opened

BindingsAreStates ==
  \A w \in Windows : windows[w].binding \in {"PRESENT", "ERASURE_FAILED"}

WindowInv ==
  /\ WindowsFenced /\ WindowTypeOK /\ ProfilesAreMade /\ WindowsShowOpened
  /\ RemovalIsRecorded /\ LaunchIsOfKept /\ BindingsAreStates

LEMMA WindowInitOK == WindowInit => WindowInv
BY WindowAssumption
   DEF WindowInit, WindowInv, WindowsFenced, RowFenced, WindowTypeOK, ProfilesAreMade,
       WindowsShowOpened, RemovalIsRecorded, LaunchIsOfKept, BindingsAreStates, NewWindow,
       Launches, Unlocked, WindowAssumption

\* Nothing is asked of a window that was not opened.
LEMMA AsksOfOpened ==
  ASSUME WindowsFenced, NEW w \in Windows, Controlling(w) \/ Forgetting(w)
  PROVE  windows[w].phase # "none"
<1> SUFFICES ASSUME windows[w] = NewWindow
             PROVE  FALSE
  BY DEF WindowsFenced
<1>1. windows[w].phase = "none" /\ windows[w].transfer = "idle" /\ windows[w].forget = "idle"
  BY DEF NewWindow
<1>2. ~Controlling(w)
  BY <1>1 DEF Controlling, RequestTakeover, RequestReturnControl, RequestTransfer, Asks,
     TransferDeclined, TakeoverConfirmed, ReturnConfirmed, ReloadFinishes, ReloadFails,
     CancelFutureAutomation, BrowserGone, TrustedRendererGone
<1>3. ~Forgetting(w)
  BY <1>1 DEF Forgetting, RequestForget, Asks, OwnerVerified, ForgetDeclined, ForgetConfirmed,
     SessionCleared, ForgetFails, StagePending, ForgetStaged
<1> QED
  BY <1>2, <1>3

(***************************************************************************)
(* A call of one window.                                                   *)
(***************************************************************************)
OnlyWindow(w) ==
  /\ DOMAIN windows' = Windows
  /\ \A v \in Windows : v # w => windows'[v] = windows[v]
  /\ windows'[w].phase = windows[w].phase
  /\ windows'[w].shows = windows[w].shows

\* What a call leaves of the fields that say who may act in the window.
LEMMA AlteredRow ==
  ASSUME DOMAIN windows = Windows, NEW w \in Windows, NEW changes, Alters(w, changes)
  PROVE  /\ DOMAIN windows' = Windows
         /\ \A v \in Windows : v # w => windows'[v] = windows[v]
         /\ \A f \in {"phase", "shows", "input", "controller", "view", "takeover", "profile",
                      "blocked", "forget", "binding"} :
              windows'[w][f] = IF f \in DOMAIN changes THEN changes[f] ELSE windows[w][f]
BY DEF Alters, NewWindow

LEMMA ControlKeepsRow ==
  ASSUME WindowInv, NEW w \in Windows, Controlling(w)
  PROVE  /\ OnlyWindow(w) /\ RowFenced(windows'[w])
         /\ windows'[w].forget = windows[w].forget /\ windows'[w].binding = windows[w].binding
<1> DEFINE Goal == /\ OnlyWindow(w) /\ RowFenced(windows'[w])
                   /\ windows'[w].forget = windows[w].forget
                   /\ windows'[w].binding = windows[w].binding
<1>0. DOMAIN windows = Windows /\ RowFenced(windows[w])
  BY DEF WindowInv, WindowsFenced
<1>1. ASSUME NEW changes, Alters(w, changes),
             DOMAIN changes \subseteq {"busy", "transfer", "connection"}
      PROVE  Goal
  BY <1>0, <1>1, AlteredRow DEF OnlyWindow, RowFenced
<1>2. ASSUME NEW dialog, RequestTransfer(w, "TAKE_OVER", dialog) \/
                        RequestTransfer(w, "RETURN", dialog)
      PROVE  Goal
  <2>1. \/ Alters(w, [busy |-> "TRANSFER", transfer |-> dialog])
        \/ Alters(w, [busy |-> "TRANSFER"])
    BY <1>2, Zenon DEF RequestTransfer
  <2>2. CASE Alters(w, [busy |-> "TRANSFER", transfer |-> dialog])
    BY <1>0, <2>2 DEF Alters, NewWindow, OnlyWindow, RowFenced
  <2>3. CASE Alters(w, [busy |-> "TRANSFER"])
    BY <1>0, <2>3 DEF Alters, NewWindow, OnlyWindow, RowFenced
  <2> QED
    BY <2>1, <2>2, <2>3, Zenon
<1>3. ASSUME Alters(w, EndsTransfer(w))
      PROVE  Goal
  <2>1. DOMAIN EndsTransfer(w) = {"transfer", "busy"}
    BY DEF EndsTransfer
  <2> QED
    BY <1>1, <1>3, <2>1
<1>4. CASE TakeoverConfirmed(w)
  <2>1. \/ Alters(w, EndsTransfer(w))
        \/ Alters(w, Both(EndsTransfer(w), [blocked |-> TRUE, input |-> TRUE,
                             job |-> "RUNNING_USER", controller |-> "USER"]))
           /\ windows[w].takeover = "NONE"
    BY <1>4, Zenon DEF TakeoverConfirmed
  <2>2. CASE /\ Alters(w, Both(EndsTransfer(w), [blocked |-> TRUE, input |-> TRUE,
                             job |-> "RUNNING_USER", controller |-> "USER"]))
             /\ windows[w].takeover = "NONE"
    BY <1>0, <2>2 DEF EndsTransfer, Both, Alters, NewWindow, OnlyWindow, RowFenced
  <2> QED
    BY <1>3, <2>1, <2>2, Zenon
<1>5. CASE ReturnConfirmed(w)
  <2>1. \/ Alters(w, EndsTransfer(w))
        \/ Alters(w, [controller |-> "NONE", takeover |-> "RECONCILING", input |-> FALSE,
                      transfer |-> "reloading"])
    BY <1>5, Zenon DEF ReturnConfirmed
  <2>2. CASE Alters(w, [controller |-> "NONE", takeover |-> "RECONCILING", input |-> FALSE,
                        transfer |-> "reloading"])
    BY <1>0, <2>2 DEF Alters, NewWindow, OnlyWindow, RowFenced
  <2> QED
    BY <1>3, <2>1, <2>2, Zenon
<1>6. CASE ReloadFinishes(w)
  BY <1>0, <1>6
     DEF ReloadFinishes, EndsTransfer, Both, Alters, NewWindow, OnlyWindow, RowFenced
<1>7. CASE ReloadFails(w)
  BY <1>0, <1>7
     DEF ReloadFails, EndsTransfer, Both, Alters, NewWindow, OnlyWindow, RowFenced
<1>8. CASE CancelFutureAutomation(w)
  BY <1>0, <1>8
     DEF CancelFutureAutomation, Canceled, Alters, NewWindow, OnlyWindow, RowFenced
<1>9. CASE BrowserGone(w)
  BY <1>0, <1>9 DEF BrowserGone, Alters, NewWindow, OnlyWindow, RowFenced
<1>10. CASE TrustedRendererGone(w)
  BY <1>0, <1>10 DEF TrustedRendererGone, Alters, NewWindow, OnlyWindow, RowFenced
<1>11. CASE TransferDeclined(w)
  BY <1>3, <1>11, Zenon DEF TransferDeclined
<1>12. CASE RequestTakeover(w) \/ RequestReturnControl(w)
  BY <1>2, <1>12, Zenon DEF RequestTakeover, RequestReturnControl
<1> QED
  BY <1>4, <1>5, <1>6, <1>7, <1>8, <1>9, <1>10, <1>11, <1>12 DEF Controlling

LEMMA ForgetKeepsRow ==
  ASSUME WindowInv, NEW w \in Windows, Forgetting(w)
  PROVE  /\ OnlyWindow(w) /\ RowFenced(windows'[w])
         /\ windows'[w].binding \in {"PRESENT", "ERASURE_FAILED"}
         /\ windows'[w].forget # "idle" => windows[w].forget # "idle" \/ windows[w].phase = "open"
         /\ windows'[w].forget = "sealing" =>
              windows[w].forget = "sealing" \/ StagePending(w)
<1>0. /\ DOMAIN windows = Windows /\ RowFenced(windows[w])
      /\ windows[w].binding \in {"PRESENT", "ERASURE_FAILED"}
  BY DEF WindowInv, WindowsFenced, BindingsAreStates
<1>1. CASE RequestForget(w)
  BY <1>0, <1>1 DEF RequestForget, Asks, Alters, NewWindow, OnlyWindow, RowFenced
<1>2. CASE OwnerVerified(w)
  BY <1>0, <1>2 DEF OwnerVerified, Alters, NewWindow, OnlyWindow, RowFenced
<1>3. CASE ForgetDeclined(w)
  BY <1>0, <1>3 DEF ForgetDeclined, EndsForget, Alters, NewWindow, OnlyWindow, RowFenced
<1>4. CASE ForgetConfirmed(w)
  BY <1>0, <1>4 DEF ForgetConfirmed, Alters, NewWindow, OnlyWindow, RowFenced
<1>5. CASE SessionCleared(w)
  BY <1>0, <1>5 DEF SessionCleared, Alters, NewWindow, OnlyWindow, RowFenced
<1>6. CASE ForgetFails(w)
  BY <1>0, <1>6 DEF ForgetFails, EndsForget, Both, Alters, NewWindow, OnlyWindow, RowFenced
<1>7. CASE StagePending(w)
  BY <1>0, <1>7 DEF StagePending, Alters, NewWindow, OnlyWindow, RowFenced
<1>8. CASE ForgetStaged(w)
  BY <1>0, <1>8 DEF ForgetStaged, EndsForget, Both, Alters, NewWindow, OnlyWindow, RowFenced
<1> QED
  BY <1>1, <1>2, <1>3, <1>4, <1>5, <1>6, <1>7, <1>8 DEF Forgetting

LEMMA OneWindowMoves ==
  ASSUME WindowInv, NEW w \in Windows, OnlyWindow(w), RowFenced(windows'[w]),
         windows[w].phase # "none", opened' = opened,
         windows'[w].binding \in {"PRESENT", "ERASURE_FAILED"},
         windows'[w].forget # "idle" => windows[w].forget # "idle" \/ windows[w].phase = "open"
  PROVE  WindowsFenced' /\ WindowsShowOpened' /\ BindingsAreStates'
<1>1. WindowsFenced'
  BY DEF WindowInv, WindowsFenced, OnlyWindow, Windows
<1>2. WindowsShowOpened'
  BY DEF WindowInv, WindowsShowOpened, OnlyWindow, Windows
<1>3. BindingsAreStates'
  BY DEF WindowInv, BindingsAreStates, OnlyWindow, Windows
<1> QED
  BY <1>1, <1>2, <1>3

LEMMA ControllingKeeps ==
  ASSUME WindowInv, NEW w \in Windows, Controlling(w)
  PROVE  WindowInv'
<1>1. UNCHANGED <<process, saved, forgotten, opened>>
  BY Zenon DEF Controlling, RequestTakeover, RequestReturnControl, RequestTransfer,
     TransferDeclined,
     TakeoverConfirmed, ReturnConfirmed, ReloadFinishes, ReloadFails,
     CancelFutureAutomation, BrowserGone, TrustedRendererGone
<1>2. /\ OnlyWindow(w) /\ RowFenced(windows'[w])
      /\ windows'[w].forget = windows[w].forget /\ windows'[w].binding = windows[w].binding
  BY ControlKeepsRow
<1>3. windows[w].phase # "none"
  BY AsksOfOpened DEF WindowInv
<1>4. windows[w].binding \in {"PRESENT", "ERASURE_FAILED"}
  BY DEF WindowInv, BindingsAreStates
<1>5. WindowsFenced' /\ WindowsShowOpened' /\ BindingsAreStates'
  BY <1>1, <1>2, <1>3, <1>4, OneWindowMoves
<1>6. WindowTypeOK' /\ ProfilesAreMade' /\ LaunchIsOfKept'
  BY <1>1 DEF WindowInv, WindowTypeOK, ProfilesAreMade, LaunchIsOfKept
<1>7. RemovalIsRecorded'
  BY <1>1, <1>2 DEF WindowInv, RemovalIsRecorded, OnlyWindow, Windows
<1> QED
  BY <1>5, <1>6, <1>7 DEF WindowInv

LEMMA ForgettingKeeps ==
  ASSUME WindowInv, NEW w \in Windows, Forgetting(w)
  PROVE  WindowInv'
<1>1. UNCHANGED <<process, opened>>
  BY DEF Forgetting, RequestForget, OwnerVerified, ForgetDeclined, ForgetConfirmed,
     SessionCleared, ForgetFails, StagePending, ForgetStaged
<1>2. /\ OnlyWindow(w) /\ RowFenced(windows'[w])
      /\ windows'[w].binding \in {"PRESENT", "ERASURE_FAILED"}
      /\ windows'[w].forget # "idle" => windows[w].forget # "idle" \/ windows[w].phase = "open"
      /\ windows'[w].forget = "sealing" => windows[w].forget = "sealing" \/ StagePending(w)
  BY ForgetKeepsRow
<1>3. windows[w].phase # "none"
  BY AsksOfOpened DEF WindowInv
<1>4. WindowsFenced' /\ WindowsShowOpened' /\ BindingsAreStates'
  BY <1>1, <1>2, <1>3, OneWindowMoves
<1>5. WindowTypeOK /\ windows[w].binding \in {"PRESENT", "ERASURE_FAILED"}
  BY DEF WindowInv, BindingsAreStates
<1>6. /\ saved' \in {saved, [saved EXCEPT !.pending = windows[w].binding]}
      /\ StagePending(w) => saved' = [saved EXCEPT !.pending = windows[w].binding]
      /\ saved' # saved => StagePending(w)
  BY DEF Forgetting, RequestForget, OwnerVerified, ForgetDeclined, ForgetConfirmed,
     SessionCleared, ForgetFails, StagePending, ForgetStaged
<1>7. /\ saved' \in [profile : Nat, made : Nat, lock : Nat,
                     pending : {"NONE", "PRESENT", "ERASURE_FAILED"}]
      /\ saved'.profile = saved.profile /\ saved'.made = saved.made
      /\ saved.pending # "NONE" => saved'.pending # "NONE"
      /\ StagePending(w) => saved'.pending # "NONE"
  BY <1>5, <1>6 DEF WindowTypeOK
<1>8. \/ forgotten' = forgotten
      \/ forgotten' = forgotten \cup {windows[w].shows} /\ windows[w].forget = "sealing"
  BY DEF Forgetting, RequestForget, OwnerVerified, ForgetDeclined, ForgetConfirmed,
     SessionCleared, ForgetFails, StagePending, ForgetStaged
<1>9. windows[w].forget = "sealing" => windows[w].shows \in opened
  BY DEF WindowInv, WindowsShowOpened
<1>10. WindowTypeOK'
  BY <1>1, <1>5, <1>7 DEF WindowTypeOK
<1>11. ProfilesAreMade'
  BY <1>1, <1>7, <1>8, <1>9 DEF WindowInv, ProfilesAreMade
<1>12. LaunchIsOfKept'
  BY <1>1, <1>7, <1>8, <1>9 DEF WindowInv, LaunchIsOfKept
<1>13. RemovalIsRecorded'
  <2>1. saved'.profile \in forgotten' => saved'.pending # "NONE"
    BY <1>7, <1>8 DEF WindowInv, RemovalIsRecorded
  <2>2. ASSUME NEW v \in Windows, windows'[v].forget = "sealing",
               windows'[v].shows = saved'.profile
        PROVE  saved'.pending # "NONE"
    <3>1. CASE windows[v].forget = "sealing"
      <4>1. windows[v].shows = saved.profile
        BY <1>2, <1>7, <2>2 DEF OnlyWindow
      <4> QED
        BY <1>7, <3>1, <4>1 DEF WindowInv, RemovalIsRecorded
    <3>2. CASE windows[v].forget # "sealing"
      <4>1. v = w
        BY <1>2, <2>2, <3>2 DEF OnlyWindow
      <4> QED
        BY <1>2, <1>7, <2>2, <3>2, <4>1
    <3> QED
      BY <3>1, <3>2
  <2> QED
    BY <2>1, <2>2 DEF RemovalIsRecorded
<1> QED
  BY <1>4, <1>10, <1>11, <1>12, <1>13 DEF WindowInv

\* The owner closes a window: what was being forgotten in it goes on.
LEMMA ClosingKeeps ==
  ASSUME WindowInv, NEW w \in Windows, CloseWindow(w)
  PROVE  WindowInv'
<1>0. /\ DOMAIN windows = Windows /\ RowFenced(windows[w]) /\ WindowTypeOK
      /\ windows[w].binding \in {"PRESENT", "ERASURE_FAILED"}
  BY DEF WindowInv, WindowsFenced, BindingsAreStates
<1>1. UNCHANGED <<process, forgotten, opened>> /\ windows[w].phase = "open"
  BY DEF CloseWindow
<1>2. /\ saved' \in [profile : Nat, made : Nat, lock : Nat,
                     pending : {"NONE", "PRESENT", "ERASURE_FAILED"}]
      /\ saved'.profile = saved.profile /\ saved'.made = saved.made
      /\ saved'.pending = saved.pending
  BY <1>0 DEF CloseWindow, WindowTypeOK, Unlocked
<1>3. /\ DOMAIN windows' = Windows
      /\ \A v \in Windows : v # w => windows'[v] = windows[v]
      /\ windows'[w].phase = "closed" /\ RowFenced(windows'[w])
      /\ windows'[w].binding \in {"PRESENT", "ERASURE_FAILED"}
      /\ \/ windows'[w].forget = "idle"
         \/ windows'[w].forget = windows[w].forget /\ windows'[w].shows = windows[w].shows
  <2>1. CASE windows[w].forget = "idle"
    <3>1. Alters(w, ClosedWindow)
      BY <2>1 DEF CloseWindow
    <3> QED
      BY <1>0, <3>1 DEF Alters, ClosedWindow, NewWindow, RowFenced
  <2>2. CASE windows[w].forget # "idle"
    <3>1. Alters(w, [phase |-> "closed", view |-> FALSE, input |-> FALSE, blocked |-> TRUE,
                     gone |-> FALSE, busy |-> "NONE", transfer |-> "idle"])
      BY <2>2 DEF CloseWindow
    <3> QED
      BY <1>0, <3>1 DEF Alters, NewWindow, RowFenced
  <2> QED
    BY <2>1, <2>2
<1>4. WindowsFenced'
  BY <1>3 DEF WindowInv, WindowsFenced, Windows
<1>5. WindowsShowOpened'
  BY <1>1, <1>3 DEF WindowInv, WindowsShowOpened, Windows
<1>6. BindingsAreStates'
  BY <1>3 DEF WindowInv, BindingsAreStates, Windows
<1>7. WindowTypeOK' /\ ProfilesAreMade' /\ LaunchIsOfKept'
  BY <1>0, <1>1, <1>2 DEF WindowInv, WindowTypeOK, ProfilesAreMade, LaunchIsOfKept
<1>8. RemovalIsRecorded'
  BY <1>1, <1>2, <1>3 DEF WindowInv, RemovalIsRecorded, Windows
<1> QED
  BY <1>4, <1>5, <1>6, <1>7, <1>8 DEF WindowInv

\* The process ends, and with it every call of its windows.
LEMMA EndKeeps ==
  ASSUME WindowInv, NEW lock \in Nat, Ends(lock)
  PROVE  WindowInv'
<1>0. WindowTypeOK
  BY DEF WindowInv
<1>1. /\ process' \in [life : Nat, up : BOOLEAN, builder : BOOLEAN, launch : Launches]
      /\ process'.launch = "idle"
  BY <1>0 DEF Ends, WindowTypeOK, Launches
<1>2. /\ saved' \in [profile : Nat, made : Nat, lock : Nat,
                     pending : {"NONE", "PRESENT", "ERASURE_FAILED"}]
      /\ saved'.profile = saved.profile /\ saved'.made = saved.made
      /\ saved'.pending = saved.pending
  BY <1>0 DEF Ends, WindowTypeOK
<1>3. /\ ClosedWindow.phase = "closed" /\ ClosedWindow.forget = "idle" /\ RowFenced(ClosedWindow)
      /\ ClosedWindow.binding = "PRESENT"
      /\ NewWindow.phase = "none" /\ NewWindow.forget = "idle" /\ RowFenced(NewWindow)
      /\ NewWindow.binding = "PRESENT"
  BY DEF ClosedWindow, NewWindow, RowFenced
<1>4. /\ DOMAIN windows' = Windows
      /\ \A w \in Windows : windows'[w] \in {NewWindow, ClosedWindow}
  BY DEF Ends
<1>5. WindowsFenced' /\ WindowsShowOpened' /\ BindingsAreStates'
  BY <1>3, <1>4 DEF WindowsFenced, WindowsShowOpened, BindingsAreStates, Windows
<1>6. WindowTypeOK' /\ ProfilesAreMade' /\ LaunchIsOfKept'
  BY <1>0, <1>1, <1>2 DEF WindowInv, WindowTypeOK, ProfilesAreMade, LaunchIsOfKept, Ends
<1>7. RemovalIsRecorded'
  BY <1>2, <1>3, <1>4 DEF WindowInv, RemovalIsRecorded, Ends, Windows
<1> QED
  BY <1>5, <1>6, <1>7 DEF WindowInv

\* The steps of a launch before its window is shown.
LEMMA LaunchingKeeps ==
  ASSUME WindowInv, Launching, ~ShowWindow
  PROVE  WindowInv'
<1>0. /\ WindowTypeOK /\ saved.lock \in Nat /\ process.life \in Nat
      /\ Unsigned \in Nat /\ Unlocked \in Nat
  BY WindowAssumption DEF WindowInv, WindowTypeOK, WindowAssumption, Unsigned, Unlocked
<1>1. CASE LaunchFails /\ ~process.builder
  <2>1. Ends(saved.lock)
    BY <1>1 DEF LaunchFails
  <2> QED
    BY <1>0, <2>1, EndKeeps
<1>2. ASSUME UNCHANGED <<windows, forgotten, opened>>, NEW place \in Launches,
             process' = [process EXCEPT !.launch = place], NEW kept,
             saved' = kept,
             kept \in [profile : Nat, made : Nat, lock : Nat,
                       pending : {"NONE", "PRESENT", "ERASURE_FAILED"}],
             kept.profile <= kept.made, kept.made >= saved.made,
             kept.profile # saved.profile => kept.profile \in {0, saved.made + 1},
             kept.pending # saved.pending => kept.profile = 0,
             place = "clearing" => kept.profile = 0,
             place \in {"locking", "signing", "showing"} => kept.profile > 0,
             /\ place \in {"protecting", "locking", "signing", "showing"}
             /\ kept.profile = saved.profile
             => kept.profile \notin forgotten \ opened
      PROVE  WindowInv'
  <2>1. process' \in [life : Nat, up : BOOLEAN, builder : BOOLEAN, launch : Launches]
        /\ process'.launch = place
    BY <1>0, <1>2 DEF WindowTypeOK
  <2>2. WindowTypeOK'
    BY <1>2, <2>1 DEF WindowTypeOK
  <2>3. WindowsFenced' /\ WindowsShowOpened' /\ BindingsAreStates'
    BY <1>2 DEF WindowInv, WindowsFenced, WindowsShowOpened, BindingsAreStates
  <2>4. saved.made \in Nat /\ kept.made \in Nat /\ kept.profile \in Nat
    BY <1>0, <1>2 DEF WindowTypeOK
  <2>5. 0 \notin forgotten /\ saved.made + 1 \notin forgotten
    BY <2>4 DEF WindowInv, ProfilesAreMade
  <2>6. ProfilesAreMade'
    BY <1>2, <2>4 DEF WindowInv, ProfilesAreMade
  <2>7. LaunchIsOfKept'
    BY <1>2, <2>1, <2>5 DEF LaunchIsOfKept
  <2>8. \A w \in Windows : windows[w].forget = "sealing" =>
          windows[w].shows # 0 /\ windows[w].shows # saved.made + 1
    BY <2>4 DEF WindowInv, WindowsShowOpened, ProfilesAreMade
  <2>9. RemovalIsRecorded'
    BY <1>2, <2>5, <2>8 DEF WindowInv, RemovalIsRecorded, Windows
  <2> QED
    BY <2>2, <2>3, <2>6, <2>7, <2>9 DEF WindowInv
<1>3. /\ saved \in [profile : Nat, made : Nat, lock : Nat,
                    pending : {"NONE", "PRESENT", "ERASURE_FAILED"}]
      /\ saved.profile <= saved.made /\ LaunchIsOfKept
      /\ saved.profile \in forgotten => saved.pending # "NONE"
  BY <1>0 DEF WindowInv, WindowTypeOK, ProfilesAreMade, RemovalIsRecorded
<1>4. CASE LaunchFails /\ process.builder
  <2>1. /\ process' = [process EXCEPT !.launch = "idle"] /\ "idle" \in Launches
        /\ UNCHANGED <<windows, saved, forgotten, opened>>
    BY <1>4 DEF LaunchFails, Launches
  <2> QED
    BY <1>2, <1>3, <2>1
<1>5. CASE OpenWorkspace
  <2>1. PICK place \in {"protecting", "erasing"} :
          /\ process' = [process EXCEPT !.launch = place]
          /\ place = "protecting" => saved.pending = "NONE"
          /\ UNCHANGED <<windows, saved, forgotten, opened>>
    BY <1>5 DEF OpenWorkspace
  <2>2. place \in Launches
    BY DEF Launches
  <2> QED
    BY <1>2, <1>3, <2>1, <2>2
<1>6. CASE EraseScopedProfile
  <2> DEFINE kept == [saved EXCEPT !.profile = 0]
  <2>1. /\ process' = [process EXCEPT !.launch = "clearing"] /\ saved' = kept
        /\ UNCHANGED <<windows, forgotten, opened>> /\ "clearing" \in Launches
    BY <1>6 DEF EraseScopedProfile, Launches
  <2>2. /\ kept \in [profile : Nat, made : Nat, lock : Nat,
                     pending : {"NONE", "PRESENT", "ERASURE_FAILED"}]
        /\ kept.profile = 0 /\ kept.made = saved.made /\ kept.pending = saved.pending
        /\ saved.made \in Nat
    BY <1>3
  <2> HIDE DEF kept
  <2> QED
    BY <1>2, <2>1, <2>2
<1>7. CASE ClearPending
  <2> DEFINE kept == [saved EXCEPT !.pending = "NONE"]
  <2>1. /\ process' = [process EXCEPT !.launch = "protecting"] /\ saved' = kept
        /\ UNCHANGED <<windows, forgotten, opened>> /\ "protecting" \in Launches
        /\ process.launch = "clearing"
    BY <1>7 DEF ClearPending, Launches
  <2>2. /\ kept \in [profile : Nat, made : Nat, lock : Nat,
                     pending : {"NONE", "PRESENT", "ERASURE_FAILED"}]
        /\ kept.profile = saved.profile /\ kept.made = saved.made /\ saved.made \in Nat
    BY <1>3
  <2>3. saved.profile = 0 /\ 0 \notin forgotten
    BY <1>3, <2>1 DEF LaunchIsOfKept, WindowInv, ProfilesAreMade
  <2> HIDE DEF kept
  <2> QED
    BY <1>2, <2>1, <2>2, <2>3
<1>8. CASE EnsureProtectedProfile
  <2> DEFINE made == [saved EXCEPT !.profile = saved.made + 1, !.made = saved.made + 1]
  <2>1. /\ process' = [process EXCEPT !.launch = "locking"]
        /\ \/ saved' = saved /\ saved.profile # 0
           \/ saved' = made
        /\ UNCHANGED <<windows, forgotten, opened>> /\ "locking" \in Launches
        /\ process.launch = "protecting"
    BY <1>8 DEF EnsureProtectedProfile, Launches
  <2>2. /\ made \in [profile : Nat, made : Nat, lock : Nat,
                     pending : {"NONE", "PRESENT", "ERASURE_FAILED"}]
        /\ made.profile = saved.made + 1 /\ made.made = saved.made + 1
        /\ made.pending = saved.pending
        /\ saved.made \in Nat /\ saved.profile \in Nat
    <3>1. saved.made \in Nat /\ saved.profile \in Nat /\ saved.made + 1 \in Nat
      BY <1>3
    <3> DEFINE named == [saved EXCEPT !.profile = saved.made + 1]
    <3>2. /\ named \in [profile : Nat, made : Nat, lock : Nat,
                        pending : {"NONE", "PRESENT", "ERASURE_FAILED"}]
          /\ named.profile = saved.made + 1 /\ named.pending = saved.pending
      BY <1>3, <3>1
    <3>3. made = [named EXCEPT !.made = saved.made + 1]
      BY DEF made
    <3> HIDE DEF named, made
    <3> QED
      BY <3>1, <3>2, <3>3
  <2> HIDE DEF made
  <2>3. made.profile # saved.profile /\ saved.made + 1 > 0
    BY <1>3, <2>2
  <2>4. CASE saved' = made
    BY <1>2, <1>3, <2>1, <2>2, <2>3, <2>4
  <2>5. CASE saved' = saved /\ saved.profile # 0
    <3>1. saved.profile > 0 /\ saved.profile \notin forgotten \ opened
      BY <1>3, <2>1, <2>2, <2>5 DEF LaunchIsOfKept
    <3> QED
      BY <1>2, <1>3, <2>1, <2>2, <2>5, <3>1
  <2> QED
    BY <2>1, <2>4, <2>5
<1>9. CASE AcquireLock \/ SignLock
  <2>1. PICK place \in {"signing", "showing"}, lock \in {Unsigned, process.life} :
          /\ process' = [process EXCEPT !.launch = place]
          /\ saved' = [saved EXCEPT !.lock = lock]
          /\ UNCHANGED <<windows, forgotten, opened>>
          /\ process.launch \in {"locking", "signing"}
    BY <1>9 DEF AcquireLock, SignLock
  <2> DEFINE kept == [saved EXCEPT !.lock = lock]
  <2>2. /\ kept \in [profile : Nat, made : Nat, lock : Nat,
                     pending : {"NONE", "PRESENT", "ERASURE_FAILED"}]
        /\ kept.profile = saved.profile /\ kept.made = saved.made
        /\ kept.pending = saved.pending /\ saved.made \in Nat
    BY <1>0, <1>3
  <2>3. saved' = kept /\ place \in Launches
    BY <2>1 DEF Launches
  <2> HIDE DEF kept
  <2>4. saved.profile > 0 /\ saved.profile \notin forgotten \ opened
    BY <1>3, <2>1 DEF LaunchIsOfKept
  <2>5. place # "clearing"
    OBVIOUS
  <2> QED
    BY <1>2, <1>3, <2>1, <2>2, <2>3, <2>4, <2>5
<1>10. \/ LaunchFails \/ OpenWorkspace \/ EraseScopedProfile \/ ClearPending
       \/ EnsureProtectedProfile \/ AcquireLock \/ SignLock
  BY DEF Launching, RemovalFails, ProtectionFails, ProfileInUse
<1> QED
  BY <1>1, <1>4, <1>5, <1>6, <1>7, <1>8, <1>9, <1>10, Zenon

\* The window is shown: it is new, and what it shows is of this process from now on.
LEMMA ShowingKeeps ==
  ASSUME WindowInv, ShowWindow
  PROVE  WindowInv'
<1>0. DOMAIN windows = Windows /\ WindowTypeOK
  BY DEF WindowInv, WindowsFenced
<1>1. PICK w \in Windows :
        NextWindow(w) /\ Alters(w, [phase |-> "open", view |-> TRUE, shows |-> saved.profile])
  BY DEF ShowWindow
<1>2. windows[w] = NewWindow
  BY <1>1 DEF WindowInv, WindowsFenced, NextWindow
<1>3. /\ DOMAIN windows' = Windows
      /\ \A v \in Windows : v # w => windows'[v] = windows[v]
      /\ windows'[w].phase = "open" /\ windows'[w].shows = saved.profile
      /\ windows'[w].forget = "idle" /\ windows'[w].binding = "PRESENT"
      /\ RowFenced(windows'[w])
  BY <1>0, <1>1, <1>2 DEF Alters, NewWindow, RowFenced
<1>4. /\ UNCHANGED <<saved, forgotten>> /\ opened' = opened \cup {saved.profile}
      /\ process.launch = "showing"
  BY DEF ShowWindow
<1>5. /\ process' \in [life : Nat, up : BOOLEAN, builder : BOOLEAN, launch : Launches]
      /\ process'.launch = "idle"
  BY <1>0 DEF ShowWindow, WindowTypeOK, Launches
<1>6. WindowTypeOK' /\ LaunchIsOfKept'
  BY <1>0, <1>4, <1>5 DEF WindowTypeOK, LaunchIsOfKept
<1>7. saved.profile \in 1..saved.made
  BY <1>0, <1>4 DEF WindowInv, LaunchIsOfKept, ProfilesAreMade, WindowTypeOK
<1>8. ProfilesAreMade'
  BY <1>4, <1>7 DEF WindowInv, ProfilesAreMade
<1>9. WindowsFenced'
  BY <1>3 DEF WindowInv, WindowsFenced, Windows
<1>10. WindowsShowOpened'
  BY <1>3, <1>4 DEF WindowInv, WindowsShowOpened, Windows
<1>11. BindingsAreStates'
  BY <1>3 DEF WindowInv, BindingsAreStates, Windows
<1>12. RemovalIsRecorded'
  BY <1>3, <1>4 DEF WindowInv, RemovalIsRecorded, Windows
<1> QED
  BY <1>6, <1>8, <1>9, <1>10, <1>11, <1>12 DEF WindowInv

LEMMA ProcessKeeps ==
  ASSUME WindowInv, StartProcess \/ BuilderWindow \/ UNCHANGED windowVars
  PROVE  WindowInv'
<1>1. UNCHANGED <<windows, saved, forgotten, opened>>
  BY Zenon DEF StartProcess, BuilderWindow, windowVars
<1>2. process \in [life : Nat, up : BOOLEAN, builder : BOOLEAN, launch : Launches]
  BY DEF WindowInv, WindowTypeOK
<1>3. /\ process' \in [life : Nat, up : BOOLEAN, builder : BOOLEAN, launch : Launches]
      /\ process'.launch = process.launch
  <2>1. CASE StartProcess
    <3>1. PICK builder \in BOOLEAN : process' = [process EXCEPT !.up = TRUE, !.builder = builder]
      BY <2>1, Zenon DEF StartProcess
    <3> DEFINE begun == [process EXCEPT !.up = TRUE]
    <3>2. /\ begun \in [life : Nat, up : BOOLEAN, builder : BOOLEAN, launch : Launches]
          /\ begun.launch = process.launch
      BY <1>2
    <3>3. process' = [begun EXCEPT !.builder = builder]
      BY <3>1
    <3> HIDE DEF begun
    <3> QED
      BY <3>2, <3>3
  <2>2. CASE BuilderWindow
    <3>1. process' = [process EXCEPT !.builder = ~process.builder]
      BY <2>2, Zenon DEF BuilderWindow
    <3> QED
      BY <1>2, <3>1
  <2> QED
    BY <1>2, <2>1, <2>2 DEF windowVars
<1> QED
  BY <1>1, <1>3
     DEF WindowInv, WindowsFenced, WindowTypeOK, ProfilesAreMade, WindowsShowOpened,
         RemovalIsRecorded, LaunchIsOfKept, BindingsAreStates

\* The browser workspace keeps its invariant, whatever crashes, fails or is reopened.
THEOREM WindowInvariant == WindowSpec => []WindowInv
<1>1. WindowInv /\ [WindowNext]_windowVars => WindowInv'
  <2> SUFFICES ASSUME WindowInv, [WindowNext]_windowVars
               PROVE  WindowInv'
    OBVIOUS
  <2>1. saved.lock \in Nat /\ Unlocked \in Nat
    BY DEF WindowInv, WindowTypeOK, Unlocked
  <2>2. CASE Crash \/ Quit
    BY <2>1, <2>2, EndKeeps DEF Crash, Quit
  <2>3. CASE \E w \in Windows : CloseWindow(w)
    BY <2>3, ClosingKeeps
  <2>4. CASE \E w \in Windows : Controlling(w)
    BY <2>4, ControllingKeeps
  <2>5. CASE \E w \in Windows : Forgetting(w)
    BY <2>5, ForgettingKeeps
  <2>6. CASE Launching
    BY <2>6, LaunchingKeeps, ShowingKeeps
  <2>7. CASE StartProcess \/ BuilderWindow \/ UNCHANGED windowVars
    BY <2>7, ProcessKeeps
  <2> QED
    BY <2>2, <2>3, <2>4, <2>5, <2>6, <2>7 DEF WindowNext
<1> QED
  BY <1>1, WindowInitOK, PTL DEF WindowSpec

\* No hand-back, reload, crash of the page or cancellation lets the owner's input reach the
\* page while the state says another has control of it.
THEOREM InputStaysOwners == WindowSpec => []InputIsOwners
<1>1. WindowInv => InputIsOwners
  BY DEF WindowInv, WindowsFenced, RowFenced, InputIsOwners
<1> QED
  BY <1>1, WindowInvariant, PTL

\* A hand-back that was under way when the forgetting closed the page does not give the
\* browser to automation again.
THEOREM ForgettingFences == WindowSpec => []FencedOnceForgetting
<1>1. WindowInv => FencedOnceForgetting
  BY DEF WindowInv, WindowsFenced, RowFenced, FencedOnceForgetting
<1> QED
  BY <1>1, WindowInvariant, PTL

\* A session whose forgetting was acknowledged is shown by no later process: its directory is
\* gone, or the record of its removal is there and is read before a window is shown.
THEOREM ForgottenIsNotShown == WindowSpec => ForgottenStaysForgotten
<1>1. ASSUME WindowInv, [WindowNext]_windowVars,
             NEW w \in Windows, windows[w].phase # "open", windows'[w].phase = "open"
      PROVE  windows'[w].shows \notin forgotten \ opened
  <2>0. DOMAIN windows = Windows
    BY <1>1 DEF WindowInv, WindowsFenced
  <2>1. CASE ShowWindow
    <3>1. PICK v \in Windows :
            Alters(v, [phase |-> "open", view |-> TRUE, shows |-> saved.profile])
      BY <2>1 DEF ShowWindow
    <3>2. /\ v # w => windows'[w] = windows[w]
          /\ windows'[v].shows = saved.profile
      BY <2>0, <3>1 DEF Alters, NewWindow
    <3>3. saved.profile \notin forgotten \ opened
      BY <1>1, <2>1 DEF WindowInv, LaunchIsOfKept, ShowWindow
    <3> QED
      BY <1>1, <3>2, <3>3
  <2>2. CASE UNCHANGED windows
    BY <1>1, <2>2
  <2>3. ASSUME NEW lock, Ends(lock)
        PROVE  FALSE
    <3>1. windows'[w] \in {NewWindow, ClosedWindow}
      BY <2>3 DEF Ends
    <3> QED
      BY <1>1, <3>1 DEF NewWindow, ClosedWindow
  <2>4. ASSUME NEW v \in Windows, Controlling(v) \/ Forgetting(v)
        PROVE  FALSE
    <3>1. OnlyWindow(v)
      BY <1>1, <2>4, ControlKeepsRow, ForgetKeepsRow
    <3> QED
      BY <1>1, <3>1 DEF OnlyWindow
  <2>5. ASSUME NEW v \in Windows, CloseWindow(v)
        PROVE  FALSE
    <3>1. windows'[v].phase = "closed" /\ (v # w => windows'[w] = windows[w])
      <4>1. CASE windows[v].forget = "idle"
        BY <2>0, <2>5, <4>1 DEF CloseWindow, Alters, ClosedWindow, NewWindow
      <4>2. CASE windows[v].forget # "idle"
        BY <2>0, <2>5, <4>2 DEF CloseWindow, Alters, NewWindow
      <4> QED
        BY <4>1, <4>2
    <3> QED
      BY <1>1, <3>1
  <2>6. CASE Launching /\ ~ShowWindow
    <3>1. UNCHANGED windows \/ Ends(saved.lock)
      BY <2>6 DEF Launching, OpenWorkspace, EraseScopedProfile, RemovalFails, ClearPending,
         EnsureProtectedProfile, ProtectionFails, AcquireLock, ProfileInUse, SignLock, LaunchFails
    <3> QED
      BY <2>2, <2>3, <3>1
  <2>7. CASE StartProcess \/ BuilderWindow \/ UNCHANGED windowVars
    BY <2>2, <2>7, Zenon DEF StartProcess, BuilderWindow, windowVars
  <2>8. CASE Crash \/ Quit
    BY <2>3, <2>8 DEF Crash, Quit
  <2> QED
    BY <1>1, <2>1, <2>4, <2>5, <2>6, <2>7, <2>8 DEF WindowNext
<1>2. WindowInv /\ [WindowNext]_windowVars =>
        [\A w \in Windows : windows[w].phase # "open" /\ windows'[w].phase = "open"
                              => windows'[w].shows \notin forgotten \ opened]_windowVars
  BY <1>1
<1> QED
  BY <1>2, WindowInvariant, PTL DEF WindowSpec, ForgottenStaysForgotten

--------------------------------------------------------------------------------
(***************************************************************************)
(* DesktopUpdate: the order of versions.                                   *)
(***************************************************************************)
\* A nonempty set of places has a first one.
LEMMA FirstPlace ==
  ASSUME NEW S \in SUBSET Nat, S # {}
  PROVE  \E i \in S : \A j \in S : i <= j
<1> DEFINE R == {ss \in Nat \X Nat : ss[1] < ss[2]}
<1>1. IsWellFoundedOn(R, Nat)
  BY NatLessThanWellFounded DEF OpToRel
<1> HIDE DEF R
<1>2. PICK i \in S : \A y \in S : ~(<<y, i>> \in R)
  BY <1>1, WFMin
<1>3. ASSUME NEW j \in S
      PROVE  i <= j
  <2>1. ~(<<j, i>> \in R) /\ i \in Nat /\ j \in Nat
    BY <1>2
  <2> QED
    BY <2>1 DEF R
<1> QED
  BY <1>3

LEMMA VersionFacts ==
  ASSUME NEW v \in Versions
  PROVE  /\ v.core \in Seq(Nat) /\ Len(v.core) = 3 /\ DOMAIN v.core = 1..3
         /\ \A i \in 1..3 : v.core[i] \in Nat
         /\ v.pre \in Seq(Identifiers) /\ Len(v.pre) \in Nat
         /\ \A i \in 1..Len(v.pre) : v.pre[i] \in Identifiers
BY DEF Versions

LEMMA SameCore ==
  ASSUME NEW x \in Versions, NEW y \in Versions, Agree(x.core, y.core, 3)
  PROVE  x.core = y.core
<1> DEFINE s == x.core
           t == y.core
<1>1. s \in Seq(Nat) /\ t \in Seq(Nat) /\ Len(s) = 3 /\ Len(t) = 3
  BY VersionFacts
<1>2. \A i \in 1..Len(s) : s[i] = t[i]
  BY <1>1 DEF Agree
<1> HIDE DEF s, t
<1>3. s = t
  BY <1>1, <1>2, SeqEqual
<1> QED
  BY <1>3 DEF s, t

\* What the updater finds higher is later in the order of SemVer.
LEMMA ComparisonIsPrecedence ==
  ASSUME NEW x \in Versions, NEW y \in Versions, CompareVersions(x, y) = 1
  PROVE  Precedes(y, x)
<1> DEFINE least(a, b) == IF a < b THEN a ELSE b
           cores == {i \in 1..least(Len(x.core), Len(y.core)) : x.core[i] # y.core[i]}
           parts == {i \in 1..least(Len(x.pre), Len(y.pre)) : x.pre[i] # y.pre[i]}
           c == CHOOSE i \in cores : \A j \in cores : i <= j
           p == CHOOSE i \in parts : \A j \in parts : i <= j
<1>1. \/ cores # {} /\ x.core[c] > y.core[c]
      \/ cores = {} /\ x.pre = <<>> /\ y.pre # <<>>
      \/ cores = {} /\ x.pre # <<>> /\ y.pre # <<>> /\ parts # {}
           /\ IdentifierAbove(x.pre[p], y.pre[p])
      \/ cores = {} /\ x.pre # <<>> /\ y.pre # <<>> /\ parts = {}
           /\ Len(x.pre) # Len(y.pre) /\ ~(Len(x.pre) < Len(y.pre))
  <2>1. CompareVersions(x, y) =
          IF cores # {}
          THEN IF x.core[c] > y.core[c] THEN 1 ELSE -1
          ELSE IF x.pre = <<>> \/ y.pre = <<>>
          THEN IF x.pre = y.pre THEN 0 ELSE IF x.pre # <<>> THEN -1 ELSE 1
          ELSE IF parts # {}
          THEN IF IdentifierAbove(x.pre[p], y.pre[p]) THEN 1 ELSE -1
          ELSE IF Len(x.pre) = Len(y.pre) THEN 0
               ELSE IF Len(x.pre) < Len(y.pre) THEN -1 ELSE 1
    BY DEF CompareVersions
  <2> HIDE DEF cores, parts, c, p
  <2> QED
    BY <2>1
<1>2. cores = {i \in 1..3 : x.core[i] # y.core[i]}
  BY VersionFacts
<1>3. /\ Len(x.pre) \in Nat /\ Len(y.pre) \in Nat
      /\ least(Len(x.pre), Len(y.pre)) \in Nat
      /\ least(Len(x.pre), Len(y.pre)) <= Len(x.pre)
      /\ least(Len(x.pre), Len(y.pre)) <= Len(y.pre)
      /\ Len(x.pre) < Len(y.pre) \/ least(Len(x.pre), Len(y.pre)) = Len(y.pre)
  BY VersionFacts
<1> HIDE DEF least
<1>4. cores # {} =>
        c \in 1..3 /\ x.core[c] # y.core[c] /\ Agree(x.core, y.core, c - 1)
  <2>1. cores # {} => \E i \in cores : \A j \in cores : i <= j
    BY <1>2, FirstPlace
  <2>2. cores # {} => c \in cores /\ \A j \in cores : c <= j
    <3> HIDE DEF cores
    <3> QED
      BY <2>1
  <2> HIDE DEF c
  <2> QED
    BY <1>2, <2>2 DEF Agree
<1>5. cores = {} => x.core = y.core
  BY <1>2, SameCore DEF Agree
<1>6. parts # {} =>
        /\ p \in 1..least(Len(x.pre), Len(y.pre)) /\ x.pre[p] # y.pre[p]
        /\ Agree(x.pre, y.pre, p - 1)
  <2>1. parts # {} => \E i \in parts : \A j \in parts : i <= j
    <3>1. parts \in SUBSET Nat
      BY <1>3
    <3> HIDE DEF parts
    <3> QED
      BY <3>1, FirstPlace
  <2>2. parts # {} => p \in parts /\ \A j \in parts : p <= j
    <3> HIDE DEF parts
    <3> QED
      BY <2>1
  <2> HIDE DEF p
  <2> QED
    BY <1>3, <2>2 DEF Agree
<1>7. parts = {} => Agree(x.pre, y.pre, least(Len(x.pre), Len(y.pre)))
  BY DEF Agree
<1> HIDE DEF cores, parts, c, p
<1>8. CASE cores # {} /\ x.core[c] > y.core[c]
  <2>1. c \in 1..3 /\ y.core[c] < x.core[c] /\ Agree(y.core, x.core, c - 1)
    BY <1>4, <1>8, VersionFacts DEF Agree
  <2> QED
    BY <2>1 DEF Precedes
<1>9. CASE cores = {} /\ x.pre = <<>> /\ y.pre # <<>>
  BY <1>5, <1>9 DEF Precedes
<1>10. CASE /\ cores = {} /\ x.pre # <<>> /\ y.pre # <<>> /\ parts # {}
            /\ IdentifierAbove(x.pre[p], y.pre[p])
  <2>1. /\ p \in 1..Len(y.pre) /\ p <= Len(x.pre) /\ IdentifierAbove(x.pre[p], y.pre[p])
        /\ Agree(y.pre, x.pre, p - 1)
    BY <1>3, <1>6, <1>10 DEF Agree
  <2> QED
    BY <1>5, <1>10, <2>1 DEF Precedes
<1>11. CASE /\ cores = {} /\ x.pre # <<>> /\ y.pre # <<>> /\ parts = {}
            /\ Len(x.pre) # Len(y.pre) /\ ~(Len(x.pre) < Len(y.pre))
  <2>1. Len(y.pre) < Len(x.pre) /\ Agree(y.pre, x.pre, Len(y.pre))
    BY <1>3, <1>7, <1>11 DEF Agree
  <2> QED
    BY <1>5, <1>11, <2>1 DEF Precedes
<1> QED
  BY <1>1, <1>8, <1>9, <1>10, <1>11

LEMMA AboveIsStrict ==
  ASSUME NEW a \in Identifiers, NEW b \in Identifiers, IdentifierAbove(a, b)
  PROVE  ~IdentifierAbove(b, a) /\ a # b
BY DEF IdentifierAbove, Identifiers

\* No two versions precede one another.
LEMMA PrecedenceIsStrict ==
  ASSUME NEW x \in Versions, NEW y \in Versions, Precedes(x, y), Precedes(y, x)
  PROVE  FALSE
<1>1. /\ \A i \in 1..3 : x.core[i] \in Nat /\ y.core[i] \in Nat
      /\ Len(x.pre) \in Nat /\ Len(y.pre) \in Nat
      /\ \A i \in 1..Len(x.pre) : x.pre[i] \in Identifiers
      /\ \A i \in 1..Len(y.pre) : y.pre[i] \in Identifiers
      /\ x.pre = <<>> => Len(x.pre) = 0
      /\ y.pre = <<>> => Len(y.pre) = 0
  BY SMTT(30), VersionFacts
<1>2. CASE x.core # y.core
  <2>1. PICK i \in 1..3 : x.core[i] < y.core[i] /\ Agree(x.core, y.core, i - 1)
    BY <1>2 DEF Precedes
  <2>2. PICK j \in 1..3 : y.core[j] < x.core[j] /\ Agree(y.core, x.core, j - 1)
    BY <1>2 DEF Precedes
  <2>3. i < j \/ j < i \/ i = j
    OBVIOUS
  <2> QED
    BY <1>1, <2>1, <2>2, <2>3 DEF Agree
<1>3. CASE x.core = y.core
  <2> DEFINE Before(u, v) ==
               \E i \in 1..Len(u) :
                 /\ i <= Len(v) /\ IdentifierAbove(v[i], u[i])
                 /\ Agree(u, v, i - 1)
             Short(u, v) == u # <<>> /\ Len(u) < Len(v) /\ Agree(u, v, Len(u))
  <2>1. \/ x.pre # <<>> /\ y.pre = <<>>
        \/ Before(x.pre, y.pre) \/ Short(x.pre, y.pre)
    BY <1>1, <1>3 DEF Precedes
  <2>2. \/ y.pre # <<>> /\ x.pre = <<>>
        \/ Before(y.pre, x.pre) \/ Short(y.pre, x.pre)
    BY <1>1, <1>3 DEF Precedes
  <2>3. CASE Before(x.pre, y.pre)
    <3>1. PICK i \in 1..Len(x.pre) :
            i <= Len(y.pre) /\ IdentifierAbove(y.pre[i], x.pre[i]) /\ Agree(x.pre, y.pre, i - 1)
      BY <2>3
    <3>2. ~IdentifierAbove(x.pre[i], y.pre[i]) /\ x.pre[i] # y.pre[i]
      <4>1. x.pre[i] \in Identifiers /\ y.pre[i] \in Identifiers
        BY <1>1, <3>1
      <4> QED
        BY <3>1, <4>1, AboveIsStrict
    <3>3. CASE Before(y.pre, x.pre)
      <4>1. PICK j \in 1..Len(y.pre) :
              j <= Len(x.pre) /\ IdentifierAbove(x.pre[j], y.pre[j])
              /\ Agree(y.pre, x.pre, j - 1)
        BY <3>3
      <4>2. ~IdentifierAbove(y.pre[j], x.pre[j]) /\ x.pre[j] # y.pre[j]
        <5>1. x.pre[j] \in Identifiers /\ y.pre[j] \in Identifiers
          BY <1>1, <4>1
        <5> QED
          BY <4>1, <5>1, AboveIsStrict
      <4>3. i < j \/ j < i \/ i = j
        BY <1>1
      <4>4. i \in 1..(j - 1) \/ j \in 1..(i - 1) \/ i = j
        BY <1>1, <4>3
      <4> QED
        BY <3>1, <3>2, <4>1, <4>2, <4>4 DEF Agree
    <3>4. CASE Short(y.pre, x.pre)
      BY <1>1, <3>1, <3>2, <3>4 DEF Agree
    <3>5. y.pre # <<>> /\ x.pre # <<>>
      BY <1>1, <3>1
    <3> QED
      BY <2>2, <3>3, <3>4, <3>5
  <2>4. CASE Short(x.pre, y.pre)
    <3>1. CASE Before(y.pre, x.pre)
      <4>1. PICK j \in 1..Len(y.pre) :
              j <= Len(x.pre) /\ IdentifierAbove(x.pre[j], y.pre[j])
        BY <3>1
      <4>2. x.pre[j] # y.pre[j]
        <5>1. x.pre[j] \in Identifiers /\ y.pre[j] \in Identifiers
          BY <1>1, <4>1
        <5> QED
          BY <4>1, <5>1, AboveIsStrict
      <4> QED
        BY <1>1, <2>4, <4>1, <4>2 DEF Agree
    <3> QED
      BY <1>1, <2>2, <2>4, <3>1
  <2>5. CASE x.pre # <<>> /\ y.pre = <<>>
    BY <1>1, <2>2, <2>5
  <2> QED
    BY <2>1, <2>3, <2>4, <2>5
<1> QED
  BY <1>2, <1>3

LEMMA LadderVersions ==
  /\ Ladder \in Seq(Versions) /\ Len(Ladder) \in Nat /\ DOMAIN Ladder = 1..Len(Ladder)
  /\ Range(Ladder) = {Ladder[i] : i \in 1..Len(Ladder)}
  /\ \A i \in 1..Len(Ladder) : Ladder[i] \in Versions
  /\ 1 \in 1..Len(Ladder)
BY LadderAssumption DEF Range

\* What the updater finds higher is later on the ladder.
LEMMA HigherIsLater ==
  ASSUME NEW v \in Range(Ladder), NEW w \in Range(Ladder), CompareVersions(v, w) = 1
  PROVE  PlaceOf(v) > PlaceOf(w)
<1> DEFINE i == PlaceOf(v)
           j == PlaceOf(w)
<1>1. i \in 1..Len(Ladder) /\ Ladder[i] = v /\ j \in 1..Len(Ladder) /\ Ladder[j] = w
  BY LadderVersions DEF PlaceOf
<1> HIDE DEF i, j
<1>2. v \in Versions /\ w \in Versions
  BY LadderVersions
<1>3. Precedes(w, v)
  BY <1>2, ComparisonIsPrecedence
<1>4. v # w
  BY <1>2, <1>3, PrecedenceIsStrict
<1>5. ~(i < j)
  BY <1>1, <1>2, <1>3, PrecedenceIsStrict, LadderAssumption
<1>6. i # j
  BY <1>1, <1>4
<1>7. i > j
  BY <1>1, <1>5, <1>6
<1> QED
  BY <1>7 DEF i, j

--------------------------------------------------------------------------------
(***************************************************************************)
(* DesktopUpdate: the inductive invariant.  What a check holds is what its *)
(* directory holds, from the download on and also when the check is over;  *)
(* what is staged passed the second validation, of the archive itself; and *)
(* what the platform fetches is the directory of a check of this life that *)
(* has staged.                                                             *)
(***************************************************************************)
UpdatePlaces ==
  {"none", "manifest", "artifact", "emptying", "making", "downloading", "inspecting",
   "staging", "waiting", "asking", "done"}

Directories == [life : Nat, check : Checks]

CheckStates ==
  [at : UpdatePlaces, held : Archives \cup {Nil},
   announced : [version : Range(Ladder), digest : Archives] \cup {Nil}]

UpdateTypeOK ==
  /\ application \in [version : Range(Ladder), life : Nat]
  /\ checks \in [Checks -> CheckStates]
  /\ directories \in SUBSET [of : Directories, archive : Archives \cup {Nil}]
  /\ platform \in [fetching : Directories \cup {Nil}, ready : Archives \cup {Nil}]

Newer(archive) ==
  /\ archive \in Archives /\ archive.signed
  /\ CompareVersions(archive.version, application.version) = 1

HeldIsStored ==
  \A d \in directories :
    /\ d.of.life <= application.life
    /\ \A c \in Checks : d.of = Directory(c) =>
         /\ checks[c].at \notin {"none", "manifest", "artifact", "emptying", "making"}
         /\ checks[c].at # "downloading" => d.archive = checks[c].held

StagedIsNewer ==
  \A c \in Checks :
    /\ checks[c].at = "inspecting" => checks[c].held \in Archives
    /\ checks[c].at \in {"staging", "waiting", "asking"} => Newer(checks[c].held)

FetchedIsStaged ==
  platform.fetching # Nil =>
    \E c \in Checks :
      /\ platform.fetching = Directory(c) /\ Newer(checks[c].held)
      /\ checks[c].at \in {"waiting", "asking", "done"}

ReadyIsStaged == platform.ready # Nil => Newer(platform.ready)

UpdateInv ==
  /\ UpdateTypeOK /\ HeldIsStored /\ StagedIsNewer /\ FetchedIsStaged /\ ReadyIsStaged

LEMMA UpdateInitOK == UpdateInit => UpdateInv
<1> SUFFICES ASSUME UpdateInit
             PROVE  UpdateInv
  OBVIOUS
<1>1. Ladder[1] \in Range(Ladder)
  BY LadderVersions
<1>2. Unbegun \in CheckStates /\ Unbegun.at = "none"
  BY DEF Unbegun, CheckStates, UpdatePlaces
<1>3. UpdateTypeOK
  BY <1>1, <1>2 DEF UpdateInit, UpdateTypeOK
<1> QED
  BY <1>2, <1>3
     DEF UpdateInit, UpdateInv, HeldIsStored, StagedIsNewer, FetchedIsStaged, ReadyIsStaged

\* A check moves and keeps what it holds and what was announced to it.
LEMMA CheckMoves ==
  ASSUME UpdateTypeOK, NEW c \in Checks, NEW place \in UpdatePlaces, CheckGoes(c, place)
  PROVE  /\ checks' \in [Checks -> CheckStates]
         /\ checks'[c].at = place /\ checks'[c].held = checks[c].held
         /\ \A b \in Checks \ {c} : checks'[b] = checks[b]
BY DEF CheckGoes, UpdateTypeOK, CheckStates

\* In one life the directories of two checks differ.
LEMMA DirectoryFacts ==
  ASSUME UpdateTypeOK
  PROVE  /\ \A c \in Checks : Directory(c) \in Directories
                              /\ Directory(c).life = application.life
         /\ \A b, c \in Checks : Directory(b) = Directory(c) => b = c
BY DEF Directory, Directories, UpdateTypeOK

\* A step of one check within a life that leaves the platform as it is.
Lives(c) ==
  /\ UNCHANGED <<application, platform>>
  /\ checks' \in [Checks -> CheckStates]
  /\ \A b \in Checks \ {c} : checks'[b] = checks[b]

LEMMA LivesOn ==
  ASSUME UpdateInv, NEW c \in Checks, Lives(c),
         \/ checks[c].at \notin {"waiting", "asking", "done"}
         \/ checks'[c].held = checks[c].held /\ checks'[c].at \in {"waiting", "asking", "done"},
         directories' \in SUBSET [of : Directories, archive : Archives \cup {Nil}],
         HeldIsStored',
         checks'[c].at = "inspecting" => checks'[c].held \in Archives,
         checks'[c].at \in {"staging", "waiting", "asking"} => Newer(checks'[c].held)
  PROVE  UpdateInv'
<1>1. \A b \in Checks : Directory(b)' = Directory(b)
  BY DEF Lives, Directory
<1>2. \A a : Newer(a)' <=> Newer(a)
  BY DEF Lives, Newer
<1>3. UpdateTypeOK'
  BY DEF Lives, UpdateInv, UpdateTypeOK
<1>4. StagedIsNewer'
  BY <1>2 DEF Lives, UpdateInv, StagedIsNewer, Newer
<1>5. FetchedIsStaged'
  <2> SUFFICES ASSUME platform'.fetching # Nil
               PROVE  FetchedIsStaged'
    BY DEF FetchedIsStaged
  <2>1. PICK b \in Checks :
          /\ platform.fetching = Directory(b) /\ Newer(checks[b].held)
          /\ checks[b].at \in {"waiting", "asking", "done"}
    BY DEF Lives, UpdateInv, FetchedIsStaged
  <2>2. checks'[b].held = checks[b].held /\ checks'[b].at \in {"waiting", "asking", "done"}
    BY <2>1 DEF Lives
  <2>3. platform'.fetching = Directory(b)' /\ Newer(checks[b].held)'
    <3>1. platform' = platform /\ application' = application
      BY DEF Lives
    <3> QED
      BY <1>1, <2>1, <2>2, <3>1 DEF Newer
  <2> QED
    BY <2>2, <2>3 DEF FetchedIsStaged, Newer
<1>6. ReadyIsStaged'
  BY DEF Lives, UpdateInv, ReadyIsStaged, Newer
<1> QED
  BY <1>3, <1>4, <1>5, <1>6 DEF UpdateInv

\* A check that moves, and whose own directory no place forbids, leaves every
\* directory as the invariant has it.
LEMMA StoredStays ==
  ASSUME UpdateInv, NEW c \in Checks, Lives(c), directories' \subseteq directories,
         checks'[c].held = checks[c].held,
         \/ \A d \in directories' : d.of # Directory(c)
         \/ checks[c].at \notin {"downloading"}
            /\ checks'[c].at \notin {"none", "manifest", "artifact", "emptying", "making"}
  PROVE  /\ HeldIsStored'
         /\ directories' \in SUBSET [of : Directories, archive : Archives \cup {Nil}]
<1>1. \A b \in Checks : Directory(b)' = Directory(b)
  BY DEF Lives, Directory
<1>2. ASSUME NEW d \in directories'
      PROVE  /\ d.of.life <= application'.life
             /\ \A b \in Checks : d.of = Directory(b)' =>
                  /\ checks'[b].at \notin {"none", "manifest", "artifact", "emptying", "making"}
                  /\ checks'[b].at # "downloading" => d.archive = checks'[b].held
  <2>1. d \in directories /\ d.of.life <= application'.life
    BY DEF Lives, UpdateInv, HeldIsStored
  <2>2. ASSUME NEW b \in Checks, d.of = Directory(b)'
        PROVE  /\ checks'[b].at \notin {"none", "manifest", "artifact", "emptying", "making"}
               /\ checks'[b].at # "downloading" => d.archive = checks'[b].held
    <3>1. /\ checks[b].at \notin {"none", "manifest", "artifact", "emptying", "making"}
          /\ checks[b].at # "downloading" => d.archive = checks[b].held
      BY <1>1, <2>1, <2>2 DEF UpdateInv, HeldIsStored
    <3>2. CASE b = c
      BY <1>1, <2>2, <3>1, <3>2
    <3>3. CASE b # c
      BY <3>1, <3>3 DEF Lives
    <3> QED
      BY <3>2, <3>3
  <2> QED
    BY <2>1, <2>2
<1> QED
  BY <1>2 DEF HeldIsStored, UpdateInv, UpdateTypeOK

\* A step of one check, but the staging of its update.
LEMMA CheckStep ==
  ASSUME UpdateInv, NEW c \in Checks,
         \/ BeginCheck(c) \/ ManifestAnswered(c) \/ ManifestRefused(c) \/ ArtifactAnswered(c)
         \/ EmptyStagingRoot(c) \/ MakeDirectory(c) \/ DownloadArtifact(c)
         \/ CheckInterrupted(c) \/ InspectArtifact(c)
         \/ StagingFails(c) \/ StagingTimesOut(c) \/ Later(c)
  PROVE  UpdateInv'
<1>1. UpdateTypeOK /\ checks[c] \in CheckStates /\ c \in DOMAIN checks
  BY DEF UpdateInv, UpdateTypeOK
<1>2. ASSUME NEW place \in UpdatePlaces, CheckGoes(c, place),
             UNCHANGED <<application, platform>>
      PROVE  Lives(c) /\ checks'[c].at = place /\ checks'[c].held = checks[c].held
  BY <1>1, <1>2, CheckMoves DEF Lives
<1>3. CASE BeginCheck(c)
  <2>1. Lives(c) /\ checks'[c].at = "manifest" /\ checks'[c].held = checks[c].held
        /\ UNCHANGED directories /\ checks[c].at = "none"
    BY <1>2, <1>3 DEF BeginCheck, CheckAt, UpdatePlaces
  <2>2. \A d \in directories' : d.of # Directory(c)
    BY <2>1 DEF UpdateInv, HeldIsStored
  <2> QED
    BY <2>1, <2>2, StoredStays, LivesOn
<1>4. CASE ManifestAnswered(c)
  <2>1. PICK v \in Range(Ladder), a \in Archives :
          checks' = [checks EXCEPT ![c].at = "artifact",
                                   ![c].announced = [version |-> v, digest |-> a]]
    BY <1>4 DEF ManifestAnswered
  <2>2. Lives(c) /\ checks'[c].at = "artifact" /\ checks'[c].held = checks[c].held
        /\ UNCHANGED directories /\ checks[c].at = "manifest"
    BY <1>1, <1>4, <2>1
       DEF ManifestAnswered, CheckAt, UpdatePlaces, Lives, CheckStates, UpdateTypeOK
  <2>3. \A d \in directories' : d.of # Directory(c)
    BY <2>2 DEF UpdateInv, HeldIsStored
  <2> QED
    BY <2>2, <2>3, StoredStays, LivesOn
<1>5. CASE ManifestRefused(c) \/ CheckInterrupted(c)
  <2>1. CheckFails(c) /\ checks[c].at \notin {"waiting", "asking", "done"}
    BY <1>5 DEF ManifestRefused, CheckInterrupted, CheckAt
  <2>2. Lives(c) /\ checks'[c].at = "done" /\ checks'[c].held = checks[c].held
        /\ directories' = {d \in directories : d.of # Directory(c)}
    BY <1>2, <2>1 DEF CheckFails, UpdatePlaces
  <2>3. \A d \in directories' : d.of # Directory(c)
    BY <2>2
  <2> QED
    BY <2>1, <2>2, <2>3, StoredStays, LivesOn
<1>6. CASE ArtifactAnswered(c)
  <2>1. Lives(c) /\ checks'[c].at = "emptying" /\ checks'[c].held = checks[c].held
        /\ UNCHANGED directories /\ checks[c].at = "artifact"
    BY <1>2, <1>6 DEF ArtifactAnswered, CheckAt, UpdatePlaces
  <2>2. \A d \in directories' : d.of # Directory(c)
    BY <2>1 DEF UpdateInv, HeldIsStored
  <2> QED
    BY <2>1, <2>2, StoredStays, LivesOn
<1>7. CASE EmptyStagingRoot(c)
  <2>1. Lives(c) /\ checks'[c].at = "making" /\ checks'[c].held = checks[c].held
        /\ directories' = {} /\ checks[c].at = "emptying"
    BY <1>2, <1>7 DEF EmptyStagingRoot, CheckAt, UpdatePlaces
  <2> QED
    BY <2>1, StoredStays, LivesOn
<1>8. CASE MakeDirectory(c)
  <2> DEFINE made == [of |-> Directory(c), archive |-> Nil]
  <2>1. Lives(c) /\ checks'[c].at = "downloading" /\ checks'[c].held = checks[c].held
        /\ directories' = directories \cup {made} /\ checks[c].at = "making"
    BY <1>2, <1>8 DEF MakeDirectory, CheckAt, UpdatePlaces
  <2>2. /\ made \in [of : Directories, archive : Archives \cup {Nil}]
        /\ made.of = Directory(c) /\ made.of.life = application.life
    BY <1>1, DirectoryFacts
  <2>3. \A d \in directories : d.of # Directory(c)
    BY <2>1 DEF UpdateInv, HeldIsStored
  <2> HIDE DEF made
  <2>4. \A b \in Checks : Directory(b)' = Directory(b)
    BY <2>1 DEF Lives, Directory
  <2>5. HeldIsStored'
    <3>1. ASSUME NEW d \in directories
          PROVE  /\ d.of.life <= application'.life
                 /\ \A b \in Checks : d.of = Directory(b)' =>
                     /\ checks'[b].at \notin {"none", "manifest", "artifact", "emptying",
                                              "making"}
                     /\ checks'[b].at # "downloading" => d.archive = checks'[b].held
      BY <2>1, <2>3, <2>4 DEF Lives, UpdateInv, HeldIsStored
    <3>2. /\ made.of.life <= application'.life
          /\ \A b \in Checks : made.of = Directory(b)' => b = c
      BY <1>1, <2>1, <2>2, <2>4, DirectoryFacts DEF Lives, UpdateTypeOK
    <3> QED
      BY <2>1, <3>1, <3>2 DEF HeldIsStored
  <2>6. directories' \in SUBSET [of : Directories, archive : Archives \cup {Nil}]
    BY <1>1, <2>1, <2>2 DEF UpdateTypeOK
  <2> QED
    BY <2>1, <2>5, <2>6, LivesOn
<1>9. CASE DownloadArtifact(c)
  <2> DEFINE Written(d, a) == IF d.of = Directory(c) THEN [d EXCEPT !.archive = a] ELSE d
  <2>1. PICK a \in Archives :
          /\ checks' = [checks EXCEPT ![c].at = "inspecting", ![c].held = a]
          /\ directories' = {Written(d, a) : d \in directories}
    BY <1>9 DEF DownloadArtifact
  <2>2. Lives(c) /\ checks'[c].at = "inspecting" /\ checks'[c].held = a
        /\ checks[c].at = "downloading"
    BY <1>1, <1>9, <2>1
       DEF DownloadArtifact, CheckAt, UpdatePlaces, Lives, CheckStates, UpdateTypeOK
  <2>3. ASSUME NEW d \in directories
        PROVE  /\ Written(d, a) \in [of : Directories, archive : Archives \cup {Nil}]
               /\ Written(d, a).of = d.of
               /\ Written(d, a).archive = IF d.of = Directory(c) THEN a ELSE d.archive
    BY <1>1 DEF UpdateTypeOK
  <2> HIDE DEF Written
  <2>4. directories' \in SUBSET [of : Directories, archive : Archives \cup {Nil}]
    BY <2>1, <2>3
  <2>5. \A b \in Checks : Directory(b)' = Directory(b)
    BY <2>2 DEF Lives, Directory
  <2>6. HeldIsStored'
    <3>1. ASSUME NEW d \in directories
          PROVE  /\ Written(d, a).of.life <= application'.life
                 /\ \A b \in Checks : Written(d, a).of = Directory(b)' =>
                     /\ checks'[b].at \notin {"none", "manifest", "artifact", "emptying",
                                              "making"}
                     /\ checks'[b].at # "downloading" =>
                          Written(d, a).archive = checks'[b].held
      <4>1. /\ d.of.life <= application'.life
            /\ \A b \in Checks \ {c} : d.of = Directory(b) =>
                 /\ checks'[b].at \notin {"none", "manifest", "artifact", "emptying",
                                          "making"}
                 /\ checks'[b].at # "downloading" => d.archive = checks'[b].held
        BY <2>2 DEF Lives, UpdateInv, HeldIsStored
      <4>2. \A b \in Checks \ {c} : Directory(b) # Directory(c)
        BY <1>1, DirectoryFacts
      <4> QED
        BY <2>2, <2>3, <2>5, <4>1, <4>2
    <3>2. ASSUME NEW e \in directories'
          PROVE  /\ e.of.life <= application'.life
                 /\ \A b \in Checks : e.of = Directory(b)' =>
                     /\ checks'[b].at \notin {"none", "manifest", "artifact", "emptying",
                                              "making"}
                     /\ checks'[b].at # "downloading" => e.archive = checks'[b].held
      <4>1. PICK d \in directories : e = Written(d, a)
        BY <2>1
      <4> QED
        BY <3>1, <4>1
    <3> QED
      BY <3>2 DEF HeldIsStored
  <2> QED
    BY <2>2, <2>4, <2>6, LivesOn
<1>10. CASE InspectArtifact(c)
  <2>1. Lives(c) /\ checks'[c].at = "staging" /\ checks'[c].held = checks[c].held
        /\ UNCHANGED directories /\ checks[c].at = "inspecting"
    BY <1>2, <1>10 DEF InspectArtifact, CheckAt, UpdatePlaces
  <2>2. Newer(checks[c].held)
    BY <1>10, <2>1 DEF InspectArtifact, Valid, UpdateInv, StagedIsNewer, Newer
  <2> QED
    BY <2>1, <2>2, StoredStays, LivesOn
<1>11. CASE StagingFails(c) \/ StagingTimesOut(c) \/ Later(c)
  <2>1. Lives(c) /\ checks'[c].at = "done" /\ checks'[c].held = checks[c].held
        /\ UNCHANGED directories /\ checks[c].at \in {"staging", "waiting", "asking"}
    BY <1>2, <1>11 DEF StagingFails, StagingTimesOut, Later, CheckAt, UpdatePlaces
  <2> QED
    BY <2>1, StoredStays, LivesOn
<1> QED
  BY <1>3, <1>4, <1>5, <1>6, <1>7, <1>8, <1>9, <1>10, <1>11

\* What a check holds is handed to the platform's updater.
LEMMA StagingStep ==
  ASSUME UpdateInv, NEW c \in Checks, StageVerifiedUpdate(c)
  PROVE  UpdateInv'
<1>1. UpdateTypeOK
  BY DEF UpdateInv
<1>2. /\ checks' \in [Checks -> CheckStates]
      /\ checks'[c].at = "waiting" /\ checks'[c].held = checks[c].held
      /\ \A b \in Checks \ {c} : checks'[b] = checks[b]
  BY <1>1, CheckMoves DEF StageVerifiedUpdate, UpdatePlaces
<1>3. /\ application' = application /\ directories' = directories
      /\ platform' = [platform EXCEPT !.fetching = Directory(c)]
      /\ checks[c].at = "staging"
  BY DEF StageVerifiedUpdate, CheckAt
<1>4. /\ \A b \in Checks : Directory(b)' = Directory(b)
      /\ \A a : Newer(a)' <=> Newer(a)
  BY <1>3 DEF Directory, Newer
<1>5. Newer(checks[c].held) /\ Directory(c) \in Directories
  BY <1>1, <1>3, DirectoryFacts DEF UpdateInv, StagedIsNewer
<1>6. /\ platform' \in [fetching : Directories \cup {Nil}, ready : Archives \cup {Nil}]
      /\ platform'.fetching = Directory(c) /\ platform'.ready = platform.ready
  BY <1>1, <1>3, <1>5 DEF UpdateTypeOK
<1>7. UpdateTypeOK'
  BY <1>1, <1>2, <1>3, <1>6 DEF UpdateTypeOK
<1>8. HeldIsStored'
  BY <1>2, <1>3, <1>4 DEF UpdateInv, HeldIsStored
<1>9. StagedIsNewer'
  <2>1. \A b \in Checks :
          /\ checks'[b].at = "inspecting" => checks'[b].held \in Archives
          /\ checks'[b].at \in {"staging", "waiting", "asking"} => Newer(checks'[b].held)
    BY <1>2, <1>5 DEF UpdateInv, StagedIsNewer
  <2> QED
    BY <1>3, <2>1 DEF StagedIsNewer, Newer
<1>10. FetchedIsStaged'
  <2>1. platform'.fetching = Directory(c)' /\ Newer(checks'[c].held)
    BY <1>2, <1>4, <1>5, <1>6
  <2> QED
    BY <1>2, <1>3, <2>1 DEF FetchedIsStaged, Newer
<1>11. ReadyIsStaged'
  BY <1>3, <1>6 DEF UpdateInv, ReadyIsStaged, Newer
<1> QED
  BY <1>7, <1>8, <1>9, <1>10, <1>11 DEF UpdateInv

\* The platform has fetched what was staged, or has not, and tells every check that
\* waits.
LEMMA PlatformStep ==
  ASSUME UpdateInv, PlatformFetched \/ PlatformFails
  PROVE  UpdateInv'
<1>1. UpdateTypeOK /\ application' = application /\ directories' = directories
      /\ platform.fetching # Nil
  BY DEF UpdateInv, PlatformFetched, PlatformFails
<1>2. /\ checks' \in [Checks -> CheckStates]
      /\ \A b \in Checks :
           \/ checks'[b] = checks[b] /\ checks[b].at # "waiting"
           \/ /\ checks[b].at = "waiting" /\ checks'[b].held = checks[b].held
              /\ checks'[b].at \in {"asking", "done"}
  <2>1. ASSUME NEW place \in {"asking", "done"}, NEW b \in Checks
        PROVE  /\ [checks[b] EXCEPT !.at = place] \in CheckStates
               /\ [checks[b] EXCEPT !.at = place].at = place
               /\ [checks[b] EXCEPT !.at = place].held = checks[b].held
    BY <1>1 DEF UpdateTypeOK, CheckStates, UpdatePlaces
  <2>2. \A b \in Checks : checks[b] \in CheckStates
    BY <1>1 DEF UpdateTypeOK
  <2>3. \/ checks' = [b \in Checks |->
                        IF checks[b].at # "waiting" THEN checks[b]
                        ELSE [checks[b] EXCEPT !.at =
                                IF Directory(b) = platform.fetching THEN "asking" ELSE "done"]]
        \/ checks' = [b \in Checks |->
                        IF checks[b].at = "waiting" THEN [checks[b] EXCEPT !.at = "done"]
                        ELSE checks[b]]
    BY DEF PlatformFetched, PlatformFails
  <2>4. ASSUME NEW b \in Checks
        PROVE  \/ checks'[b] = checks[b] /\ checks[b].at # "waiting"
               \/ /\ checks[b].at = "waiting"
                  /\ \E place \in {"asking", "done"} :
                       checks'[b] = [checks[b] EXCEPT !.at = place]
    BY <2>3
  <2>5. DOMAIN checks' = Checks /\ checks' = [b \in Checks |-> checks'[b]]
    BY <2>3
  <2>6. ASSUME NEW b \in Checks
        PROVE  /\ checks'[b] \in CheckStates
               /\ \/ checks'[b] = checks[b] /\ checks[b].at # "waiting"
                  \/ /\ checks[b].at = "waiting" /\ checks'[b].held = checks[b].held
                     /\ checks'[b].at \in {"asking", "done"}
    <3>1. CASE checks'[b] = checks[b] /\ checks[b].at # "waiting"
      BY <2>2, <3>1
    <3>2. CASE /\ checks[b].at = "waiting"
               /\ \E place \in {"asking", "done"} :
                    checks'[b] = [checks[b] EXCEPT !.at = place]
      <4>1. PICK place \in {"asking", "done"} : checks'[b] = [checks[b] EXCEPT !.at = place]
        BY <3>2
      <4> DEFINE moved == [checks[b] EXCEPT !.at = place]
      <4>2. moved \in CheckStates /\ moved.at = place /\ moved.held = checks[b].held
        BY <2>1
      <4>3. checks'[b] = moved
        BY <4>1
      <4> HIDE DEF moved
      <4> QED
        BY <3>2, <4>2, <4>3
    <3> QED
      BY <2>4, <3>1, <3>2
  <2> QED
    BY <2>5, <2>6
<1>3. /\ \A b \in Checks : Directory(b)' = Directory(b)
      /\ \A a : Newer(a)' <=> Newer(a)
  BY <1>1 DEF Directory, Newer
<1>4. /\ platform' \in [fetching : Directories \cup {Nil}, ready : Archives \cup {Nil}]
      /\ platform'.fetching = Nil
      /\ platform'.ready # Nil => Newer(platform'.ready)
  <2>1. CASE PlatformFetched
    <3>1. PICK d \in directories :
            d.of = platform.fetching /\ platform' = [fetching |-> Nil, ready |-> d.archive]
      BY <2>1 DEF PlatformFetched
    <3>2. PICK c \in Checks :
            /\ platform.fetching = Directory(c) /\ Newer(checks[c].held)
            /\ checks[c].at \in {"waiting", "asking", "done"}
      BY <1>1 DEF UpdateInv, FetchedIsStaged
    <3>3. d.archive = checks[c].held
      BY <3>1, <3>2 DEF UpdateInv, HeldIsStored
    <3> QED
      BY <1>1, <3>1, <3>2, <3>3 DEF UpdateTypeOK
  <2>2. CASE PlatformFails
    <3>1. platform' = [platform EXCEPT !.fetching = Nil]
      BY <2>2 DEF PlatformFails
    <3>2. platform \in [fetching : Directories \cup {Nil}, ready : Archives \cup {Nil}]
      BY <1>1 DEF UpdateTypeOK
    <3> QED
      BY <3>1, <3>2 DEF UpdateInv, ReadyIsStaged
  <2> QED
    BY <2>1, <2>2
<1>5. UpdateTypeOK'
  BY <1>1, <1>2, <1>4 DEF UpdateTypeOK
<1>6. HeldIsStored'
  BY <1>1, <1>2, <1>3 DEF UpdateInv, HeldIsStored
<1>7. StagedIsNewer'
  <2>1. \A b \in Checks :
          /\ checks'[b].at = "inspecting" => checks'[b].held \in Archives
          /\ checks'[b].at \in {"staging", "waiting", "asking"} => Newer(checks'[b].held)
    BY <1>2 DEF UpdateInv, StagedIsNewer
  <2> QED
    BY <1>1, <2>1 DEF StagedIsNewer, Newer
<1>8. FetchedIsStaged' /\ ReadyIsStaged'
  BY <1>1, <1>4 DEF FetchedIsStaged, ReadyIsStaged, Newer
<1> QED
  BY <1>5, <1>6, <1>7, <1>8 DEF UpdateInv

\* A new life begins: of the old one only the staging root is left.
LEMMA LifeStep ==
  ASSUME UpdateInv, NEW version \in Range(Ladder), NextLife(version)
  PROVE  UpdateInv'
<1>1. /\ application' = [version |-> version, life |-> application.life + 1]
      /\ application.life \in Nat /\ application'.life = application.life + 1
      /\ checks' = [c \in Checks |-> Unbegun] /\ directories' = directories
      /\ platform' = [fetching |-> Nil, ready |-> Nil]
  BY DEF NextLife, UpdateInv, UpdateTypeOK
<1>2. /\ Unbegun \in CheckStates
      /\ \A c \in Checks : checks'[c].at = "none"
  BY <1>1 DEF Unbegun, CheckStates, UpdatePlaces
<1>3. UpdateTypeOK'
  BY <1>1, <1>2 DEF UpdateInv, UpdateTypeOK
<1>4. ASSUME NEW d \in directories
      PROVE  d.of.life <= application'.life /\ \A c \in Checks : d.of # Directory(c)'
  <2>1. d.of.life <= application.life /\ d.of.life \in Nat
    BY DEF UpdateInv, UpdateTypeOK, HeldIsStored, Directories
  <2>2. \A c \in Checks : Directory(c)'.life = application.life + 1
    BY <1>1 DEF Directory
  <2>3. d.of.life # application.life + 1
    BY <1>1, <2>1
  <2>4. d.of.life <= application'.life
    BY <1>1, <2>1
  <2> QED
    BY <2>2, <2>3, <2>4
<1>5. HeldIsStored'
  BY <1>1, <1>4 DEF HeldIsStored
<1>6. StagedIsNewer' /\ FetchedIsStaged' /\ ReadyIsStaged'
  BY <1>1, <1>2 DEF StagedIsNewer, FetchedIsStaged, ReadyIsStaged
<1> QED
  BY <1>3, <1>5, <1>6 DEF UpdateInv

LEMMA UpdateStep == UpdateInv /\ [UpdateNext]_updateVars => UpdateInv'
<1> SUFFICES ASSUME UpdateInv, [UpdateNext]_updateVars
             PROVE  UpdateInv'
  OBVIOUS
<1>1. application.version \in Range(Ladder)
      /\ (platform.ready # Nil => platform.ready.version \in Range(Ladder))
  BY ArchivesAssumption DEF UpdateInv, UpdateTypeOK
<1>2. ASSUME NEW c \in Checks, InstallPrepared(c)
      PROVE  UpdateInv'
  BY <1>1, <1>2, LifeStep DEF InstallPrepared
<1>3. CASE ApplicationEnds
  <2>1. PICK version \in {application.version} \union
                         (IF platform.ready = Nil THEN {} ELSE {platform.ready.version}) :
          NextLife(version)
    BY <1>3 DEF ApplicationEnds
  <2>2. version \in Range(Ladder)
    BY <1>1
  <2> QED
    BY <2>1, <2>2, LifeStep
<1>4. CASE UNCHANGED updateVars
  BY <1>4
     DEF updateVars, UpdateInv, UpdateTypeOK, HeldIsStored, StagedIsNewer, FetchedIsStaged,
         ReadyIsStaged, Newer, Directory
<1> QED
  BY <1>2, <1>3, <1>4, CheckStep, StagingStep, PlatformStep DEF UpdateNext

\* For any number of releases, archives, checks and lives, whatever servers answer
\* and directories lose, the updater's types hold and what the platform fetches was
\* validated in this life.
THEOREM UpdateInvariant == UpdateSpec => []UpdateInv
<1> QED
  BY UpdateInitOK, UpdateStep, PTL DEF UpdateSpec

\* What the platform will install is signed by Village and later in the order of
\* SemVer than what runs, from whichever check it comes and however late.
THEOREM ReadyStaysNewer == UpdateSpec => []ReadyIsNewer
<1>1. UpdateInv => ReadyIsNewer
  <2> SUFFICES ASSUME UpdateInv, platform.ready # Nil
               PROVE  /\ platform.ready.signed
                      /\ PlaceOf(platform.ready.version) > PlaceOf(application.version)
    BY DEF ReadyIsNewer
  <2>1. Newer(platform.ready)
    BY DEF UpdateInv, ReadyIsStaged
  <2>2. platform.ready.version \in Range(Ladder) /\ application.version \in Range(Ladder)
    BY <2>1, ArchivesAssumption DEF Newer, UpdateInv, UpdateTypeOK
  <2> QED
    BY <2>1, <2>2, HigherIsLater DEF Newer
<1> QED
  BY <1>1, UpdateInvariant, PTL

--------------------------------------------------------------------------------
(***************************************************************************)
(* DesktopWorkflow: types.                                                 *)
(***************************************************************************)
Working ==
  {"run", "observe", "provider", "accepted", "verify", "execute", "dispatched", "performed",
   "recheck", "observed", "receipted", "reconcile", "reobserve"}

\* Where only a takeover or a hand-back stands, with the page the owner's.
OwnersPlaces == {"quiesce", "takingover", "capture", "progressed", "claimed"}

CallPlaces == {"idle", "join", "done"} \cup Working \cup OwnersPlaces

\* The answers of a run or a reconciliation, and those of every call.
AgentAnswers == {"RECEIPTED", "WAITING", "PROVIDER", "FENCED", "CANCELED", "THREW"}
CallAnswers == AgentAnswers \cup {"OWNER_CONTROL", "OWNER_STATE_ACCEPTED"}

CallResults == CallAnswers \cup {"NONE", "SATISFIED", "DISPATCHED", "OBSERVED"}

CallStates ==
  [pc : CallPlaces, kind : {"RUN", "RETRY", "TAKE_OVER", "HAND_BACK"}, action : Nat,
   cap : 0..NSteps, class : {"MUTATION", "READ_ONLY"}, epoch : Nat, asked : BOOLEAN,
   turn : Nat, step : 0..NSteps, run : Nat, from : 0..NSteps, left : Nat,
   res : CallResults, alone : BOOLEAN]

WorkflowStates ==
  {"READY", "STARTING", "WORKING", "OWNER_CONTROL", "HUMAN_GATE", "OFFLINE", "FAILED",
   "CANCELLED", "RECEIPTED_SUCCESS", "UNAVAILABLE"}

Outstanding == [action : Nat, step : Steps, epoch : Nat, cap : 0..NSteps]

CoordinatorStates ==
  [step : Steps, epoch : Nat, controller : {"AGENT", "USER"}, canceled : BOOLEAN,
   phase : {"ACCEPTED", "RECEIPTED", "RECONCILIATION_REQUIRED"},
   outstanding : SUBSET Outstanding,
   completed : Seq([step : Steps, actor : {"AGENT", "OWNER"}])]

JournalEntries ==
  [action : Nat, step : Steps, epoch : Nat, phase : Phases,
   class : {"READ_ONLY", "IDEMPOTENT", "NON_IDEMPOTENT"}]

CallsTypeOK ==
  /\ th \in [Threads -> CallStates]
  /\ \A t \in Threads : th[t].pc = "done" => th[t].res \in CallAnswers

WorkflowTypeOK ==
  /\ co \in CoordinatorStates /\ disk \in CoordinatorStates
  /\ journal \in Seq(JournalEntries)
  /\ page \in Steps
  /\ exec \in [epoch : Nat, blocked : BOOLEAN, inFlight : Threads \cup {None}]
  /\ ctl \in [step : Steps, epoch : Nat, generation : Nat, turns : Nat, reconciles : Nat]
  /\ ui \in [state : WorkflowStates, step : Steps, run : Nat]
  /\ CallsTypeOK
  /\ budget \in [actions : Nat, commands : Nat, faults : Nat]

(***************************************************************************)
(* DesktopWorkflow: the inductive invariant.  The lease: while the         *)
(* executor is not blocked, coordinator, controller and executor hold one  *)
(* lease, and what the owner's commands go through, or leave to the owner, *)
(* finds it blocked.                                                       *)
(***************************************************************************)
FlightIsDispatched ==
  \A t \in Threads : th[t].pc \in {"dispatched", "performed"} <=> exec.inFlight = t

OneLease == ~exec.blocked => co.epoch = exec.epoch /\ ctl.epoch = exec.epoch

OwnersArePlaced ==
  \A t \in Threads :
    th[t].pc \in OwnersPlaces \/ (th[t].pc = "done" /\ th[t].res = "OWNER_CONTROL") =>
      exec.blocked

\* The window shows the owner in control of an executor that runs only from
\* the return of a hand-back's lease to the publication of its answer.
OwnersWindow ==
  ui.state = "OWNER_CONTROL" /\ ~exec.blocked =>
    \E t \in Ops : th[t].pc = "done" /\ th[t].res = "OWNER_STATE_ACCEPTED"

QuietOwner == owner = "QUIESCED" => exec.blocked /\ exec.inFlight = None

\* The pump is never where only a command goes, nor answers as one.
PumpRuns ==
  /\ th[Pump].pc \notin OwnersPlaces \cup {"join"} /\ ~th[Pump].alone
  /\ th[Pump].pc = "done" => th[Pump].res \in AgentAnswers

\* The entries of an action were recorded under one lease.
OneBinding ==
  \A i, j \in 1..Len(journal) :
    journal[i].action = journal[j].action => journal[i].epoch = journal[j].epoch

LeaseInv ==
  /\ FlightIsDispatched /\ OneLease /\ OwnersArePlaced /\ OwnersWindow /\ QuietOwner
  /\ PumpRuns

(***************************************************************************)
(* A retry given while no pump ran keeps it so until it ends.              *)
(***************************************************************************)
Dispatches ==
  {i \in 1..Len(journal) :
     journal[i].step = Finalize /\ journal[i].phase = "DISPATCHED"
     /\ journal[i].class = "NON_IDEMPOTENT"}

NotDispatched(s) ==
  \A i \in 1..Len(journal) : ~(journal[i].step = s /\ journal[i].phase = "DISPATCHED")

ReconcilesAlone(t) ==
  /\ ~At(t, "idle") /\ At(Pump, "idle")
  /\ At(t, "reobserve") =>
       /\ ctl.step = co.step /\ th[t].cap \in {0, ctl.step}
       /\ th[t].res = "NONE" => NotDispatched(ctl.step)
  /\ At(t, "provider") => th[t].asked
  /\ At(t, "accepted") /\ ~th[t].asked /\ th[t].class = "MUTATION" => th[t].cap # Finalize
  /\ At(t, "execute") /\ ~th[t].asked /\ th[t].cap = Finalize =>
       ctl.step = Finalize /\ NotDispatched(Finalize)
  /\ At(t, "dispatched") /\ ~th[t].asked /\ th[t].cap = Finalize => Cardinality(Dispatches) = 1

RetryInv ==
  /\ \A t \in Threads : th[t].alone => ReconcilesAlone(t)
  /\ \A o \in co.outstanding \cup disk.outstanding : o.cap \in {0, o.step}

WorkflowInv ==
  WorkflowTypeOK /\ LeaseInv /\ OneBinding /\ InFlightHoldsItsLease /\ RetryInv

(***************************************************************************)
(* Moves of a call.                                                        *)
(***************************************************************************)
LEMMA ThreadFacts ==
  /\ Pump \in Threads /\ None \notin Threads /\ Pump \notin Ops /\ Ops \subseteq Threads
  /\ \A t \in Threads : t = Pump \/ t \in Ops
  /\ \A a, b \in Ops : a = b
BY WorkflowAssumption, OneCommandAssumption DEF Threads

LEMMA StepFacts ==
  /\ NSteps \in Nat /\ Steps \subseteq Nat /\ Steps \subseteq 0..NSteps /\ 0 \notin Steps
  /\ Finalize \in Steps /\ 1 \in Steps /\ 0 \in 0..NSteps /\ 0..NSteps \subseteq Nat
BY NStepsAssumption DEF Steps, Finalize

\* One call takes a new record and the others keep theirs.
Takes(t, c) ==
  /\ th' \in [Threads -> CallStates]
  /\ th'[t] = c
  /\ \A u \in Threads \ {t} : th'[u] = th[u]

LEMMA Taken ==
  ASSUME NEW t \in Threads, NEW c \in CallStates, th \in [Threads -> CallStates],
         th' = [th EXCEPT ![t] = c]
  PROVE  Takes(t, c)
BY DEF Takes

\* A record with another place, or with another place and result.
Placed(c, pc) == [c EXCEPT !.pc = pc]
Replied(c, res) == [c EXCEPT !.pc = "done", !.res = res]

LEMMA PlacedFields ==
  ASSUME NEW c \in CallStates, NEW pc \in CallPlaces
  PROVE  /\ Placed(c, pc) \in CallStates
         /\ Placed(c, pc).pc = pc /\ Placed(c, pc).kind = c.kind
         /\ Placed(c, pc).action = c.action /\ Placed(c, pc).cap = c.cap
         /\ Placed(c, pc).class = c.class /\ Placed(c, pc).asked = c.asked
         /\ Placed(c, pc).res = c.res /\ Placed(c, pc).alone = c.alone
BY DEF CallStates, Placed

LEMMA RepliedFields ==
  ASSUME NEW c \in CallStates, NEW res \in CallResults
  PROVE  /\ Replied(c, res) \in CallStates
         /\ Replied(c, res).pc = "done" /\ Replied(c, res).kind = c.kind
         /\ Replied(c, res).action = c.action /\ Replied(c, res).cap = c.cap
         /\ Replied(c, res).class = c.class /\ Replied(c, res).asked = c.asked
         /\ Replied(c, res).res = res /\ Replied(c, res).alone = c.alone
<1>1. "done" \in CallPlaces
  BY DEF CallPlaces
<1> QED BY <1>1 DEF CallStates, Replied

LEMMA Gone ==
  ASSUME NEW t \in Threads, NEW pc \in CallPlaces, th \in [Threads -> CallStates], Goto(t, pc)
  PROVE  Takes(t, Placed(th[t], pc))
<1>1. Placed(th[t], pc) \in CallStates
  BY PlacedFields
<1>2. th' = [th EXCEPT ![t] = Placed(th[t], pc)]
  BY DEF Goto, Placed
<1> QED BY <1>1, <1>2, Taken

LEMMA Ended ==
  ASSUME NEW t \in Threads, NEW res \in CallResults, th \in [Threads -> CallStates],
         EndsWith(t, res)
  PROVE  Takes(t, Replied(th[t], res))
<1>1. Replied(th[t], res) \in CallStates
  BY RepliedFields
<1>2. th' = [th EXCEPT ![t] = Replied(th[t], res)]
  <2>1. th' = [[th EXCEPT ![t].pc = "done"] EXCEPT ![t].res = res]
    BY DEF EndsWith
  <2>2. [th EXCEPT ![t].pc = "done"] = [th EXCEPT ![t] = [th[t] EXCEPT !.pc = "done"]]
    OBVIOUS
  <2>3. Replied(th[t], res) = [[th[t] EXCEPT !.pc = "done"] EXCEPT !.res = res]
    BY DEF Replied
  <2> QED BY <2>1, <2>2, <2>3
<1> QED BY <1>1, <1>2, Taken

(***************************************************************************)
(* What one step of an agent's call, a run or a reconciliation, may do.    *)
(***************************************************************************)
InFlightPlaces == {"dispatched", "performed"}

AgentMoves(t) ==
  /\ th' \in [Threads -> CallStates]
  /\ \A u \in Threads \ {t} : th'[u] = th[u]
  /\ th[t].pc \in Working
  /\ th'[t].pc \in Working \/ (th'[t].pc = "done" /\ th'[t].res \in AgentAnswers)
  /\ th'[t].alone = th[t].alone
  /\ th[t].pc \in InFlightPlaces => th'[t].action = th[t].action

JournalGrows(t) ==
  \E e \in JournalEntries :
    /\ CanRecord(journal, e) /\ journal' = Recorded(journal, e)
    /\ e.action = th[t].action /\ e.step = ctl.step /\ e.epoch = ctl.epoch

LEMMA GoneMoves ==
  ASSUME NEW t \in Threads, NEW pc \in Working, th \in [Threads -> CallStates],
         th[t].pc \in Working, Goto(t, pc)
  PROVE  /\ AgentMoves(t) /\ th'[t].pc = pc /\ th'[t].action = th[t].action
         /\ th'[t].cap = th[t].cap /\ th'[t].class = th[t].class
         /\ th'[t].asked = th[t].asked /\ th'[t].res = th[t].res
<1>1. pc \in CallPlaces
  BY DEF CallPlaces
<1>2. Takes(t, Placed(th[t], pc))
  BY <1>1, Gone
<1>3. th[t] \in CallStates
  OBVIOUS
<1> QED BY <1>1, <1>2, <1>3, PlacedFields DEF Takes, AgentMoves

LEMMA EndedMoves ==
  ASSUME NEW t \in Threads, NEW res \in AgentAnswers, th \in [Threads -> CallStates],
         th[t].pc \in Working, EndsWith(t, res)
  PROVE  AgentMoves(t) /\ th'[t].pc = "done"
<1>1. res \in CallResults
  BY DEF CallResults, CallAnswers
<1>2. Takes(t, Replied(th[t], res))
  BY <1>1, Ended
<1>3. th[t] \in CallStates
  OBVIOUS
<1>4. "done" \notin Working
  BY DEF Working
<1> QED BY <1>1, <1>2, <1>3, RepliedFields DEF Takes, AgentMoves

LEMMA MovesKeepCalls ==
  ASSUME NEW t \in Threads, CallsTypeOK, AgentMoves(t)
  PROVE  CallsTypeOK'
<1>1. "done" \notin Working
  BY DEF Working
<1>2. ASSUME NEW u \in Threads, th'[u].pc = "done" PROVE th'[u].res \in CallAnswers
  <2>1. CASE u = t
    BY <2>1, <1>1, <1>2 DEF AgentMoves, CallAnswers
  <2>2. CASE u # t
    BY <2>2, <1>2 DEF AgentMoves, CallsTypeOK
  <2> QED BY <2>1, <2>2
<1> QED BY <1>2 DEF AgentMoves, CallsTypeOK

\* A step that blocks the executor or leaves it keeps the lease, whatever it
\* does to the action in flight.
LEMMA MovesKeepOwners ==
  ASSUME NEW t \in Threads, LeaseInv, AgentMoves(t),
         exec'.epoch = exec.epoch, ~exec'.blocked => ~exec.blocked,
         co'.epoch = co.epoch, ctl'.epoch = ctl.epoch \/ ctl'.epoch = co.epoch,
         UNCHANGED ui
  PROVE  OneLease' /\ OwnersArePlaced' /\ OwnersWindow' /\ PumpRuns'
<1>2. /\ \A pc \in Working : pc \notin OwnersPlaces \cup {"join"} /\ pc # "done"
      /\ "done" \notin OwnersPlaces \cup {"join"}
      /\ "OWNER_CONTROL" \notin AgentAnswers /\ "OWNER_STATE_ACCEPTED" \notin AgentAnswers
  BY DEF Working, OwnersPlaces, AgentAnswers
<1>4. OneLease'
  BY DEF LeaseInv, OneLease
<1>5. ASSUME NEW u \in Threads,
             th'[u].pc \in OwnersPlaces \/ (th'[u].pc = "done" /\ th'[u].res = "OWNER_CONTROL")
      PROVE  exec'.blocked
  <2>1. u # t
    BY <1>2, <1>5 DEF AgentMoves
  <2> QED BY <1>5, <2>1 DEF LeaseInv, OwnersArePlaced, AgentMoves
<1>6. OwnersArePlaced'
  BY <1>5 DEF OwnersArePlaced
<1>7. ASSUME ui'.state = "OWNER_CONTROL", ~exec'.blocked
      PROVE  \E u \in Ops : th'[u].pc = "done" /\ th'[u].res = "OWNER_STATE_ACCEPTED"
  <2>1. PICK u \in Ops : th[u].pc = "done" /\ th[u].res = "OWNER_STATE_ACCEPTED"
    BY <1>7 DEF LeaseInv, OwnersWindow
  <2>2. u # t /\ u \in Threads
    BY <1>2, <2>1, ThreadFacts DEF AgentMoves
  <2> QED BY <2>1, <2>2 DEF AgentMoves
<1>8. OwnersWindow'
  BY <1>7 DEF OwnersWindow
<1>10. PumpRuns'
  <2>1. CASE t = Pump
    BY <1>2, <2>1 DEF LeaseInv, PumpRuns, AgentMoves
  <2>2. CASE t # Pump
    BY <2>2, ThreadFacts DEF LeaseInv, PumpRuns, AgentMoves
  <2> QED BY <2>1, <2>2
<1> QED BY <1>4, <1>6, <1>8, <1>10

\* A step that neither starts nor ends the action in flight keeps the lease.
LEMMA MovesKeepLease ==
  ASSUME NEW t \in Threads, WorkflowTypeOK, LeaseInv, AgentMoves(t),
         th[t].pc \in InFlightPlaces <=> th'[t].pc \in InFlightPlaces,
         exec' = exec \/ exec' = Fenced(exec),
         co'.epoch = co.epoch, ctl'.epoch = ctl.epoch \/ ctl'.epoch = co.epoch,
         UNCHANGED <<ui, owner>>
  PROVE  LeaseInv'
<1>1. /\ exec'.epoch = exec.epoch /\ exec'.inFlight = exec.inFlight
      /\ ~exec'.blocked => ~exec.blocked
  BY DEF WorkflowTypeOK, Fenced
<1>2. OneLease' /\ OwnersArePlaced' /\ OwnersWindow' /\ PumpRuns'
  BY <1>1, MovesKeepOwners
<1>3. FlightIsDispatched'
  BY <1>1 DEF LeaseInv, FlightIsDispatched, AgentMoves, InFlightPlaces
<1>9. QuietOwner'
  BY <1>1 DEF LeaseInv, QuietOwner, WorkflowTypeOK, Fenced
<1> QED BY <1>2, <1>3, <1>9 DEF LeaseInv

(***************************************************************************)
(* ActionJournal: what recording an entry does.                            *)
(***************************************************************************)

\* What was kept of a journal and an entry: n entries, all but the first k.
Keeps(all, e, kept, n, k) ==
  /\ Len(kept) = n /\ n + k = Len(all) + 1 /\ kept[n] = e
  /\ \A i \in 1..(n - 1) : i + k \in 1..Len(all) /\ kept[i] = all[i + k]

\* The entry comes last, behind the newest of those there were.
LEMMA RecordedEntries ==
  ASSUME NEW all \in Seq(JournalEntries), NEW e \in JournalEntries
  PROVE  /\ Recorded(all, e) \in Seq(JournalEntries)
         /\ \E n \in Nat \ {0}, k \in Nat : Keeps(all, e, Recorded(all, e), n, k)
<1> DEFINE longer == Append(all, e)
<1>1. /\ longer \in Seq(JournalEntries) /\ Len(longer) = Len(all) + 1 /\ Len(all) \in Nat
      /\ longer[Len(all) + 1] = e /\ \A i \in 1..Len(all) : longer[i] = all[i]
  OBVIOUS
<1>2. JournalLimit \in Nat \ {0}
  BY JournalLimitAssumption
<1> HIDE DEF longer
<1>3. Recorded(all, e) = IF Len(longer) > JournalLimit
                         THEN SubSeq(longer, Len(longer) - JournalLimit + 1, Len(longer))
                         ELSE longer
  BY DEF Recorded, longer
<1>4. CASE Len(longer) > JournalLimit
  <2> DEFINE k == Len(all) + 1 - JournalLimit
  <2> DEFINE kept == SubSeq(longer, k + 1, Len(all) + 1)
  <2>1. k \in Nat /\ k + 1 \in 1..(Len(all) + 1) /\ k + JournalLimit = Len(all) + 1
    BY <1>1, <1>2, <1>4
  <2>2. Recorded(all, e) = kept
    <3>1. Len(longer) - JournalLimit + 1 = k + 1
      BY <1>1, <1>2
    <3> QED BY <1>1, <1>3, <1>4, <3>1
  <2> HIDE DEF k
  <2>3. /\ kept \in Seq(JournalEntries) /\ Len(kept) = JournalLimit
        /\ \A i \in 1..JournalLimit : kept[i] = longer[i + k]
    BY <1>1, <1>2, <2>1
  <2> HIDE DEF kept
  <2>4. kept[JournalLimit] = e
    BY <1>1, <1>2, <2>1, <2>3
  <2>5. ASSUME NEW i \in 1..(JournalLimit - 1)
        PROVE  i + k \in 1..Len(all) /\ kept[i] = all[i + k]
    <3>1. i \in 1..JournalLimit /\ i + k \in 1..Len(all)
      BY <1>1, <1>2, <2>1
    <3> QED BY <1>1, <2>3, <3>1
  <2>6. Keeps(all, e, kept, JournalLimit, k)
    BY <2>1, <2>3, <2>4, <2>5 DEF Keeps
  <2> QED BY <1>2, <2>1, <2>2, <2>3, <2>6
<1>5. CASE ~(Len(longer) > JournalLimit)
  <2>1. Recorded(all, e) = longer
    BY <1>3, <1>5
  <2>2. \A i \in 1..(Len(all) + 1 - 1) : i + 0 \in 1..Len(all) /\ longer[i] = all[i + 0]
    BY <1>1
  <2>3. Len(all) + 1 \in Nat \ {0} /\ 0 \in Nat /\ Len(all) + 1 + 0 = Len(all) + 1
    BY <1>1
  <2>4. Keeps(all, e, longer, Len(all) + 1, 0)
    BY <1>1, <2>2, <2>3 DEF Keeps
  <2> QED BY <1>1, <2>1, <2>3, <2>4
<1> QED BY <1>4, <1>5

\* A nonempty set of places has a last one.
LEMMA LastPlace ==
  ASSUME NEW n \in Nat, NEW S \in SUBSET (1..n), S # {}
  PROVE  \E i \in S : \A j \in S : j <= i
<1> DEFINE R == {ss \in Nat \X Nat : ss[1] < ss[2]}
<1> DEFINE D == {d \in Nat : \E i \in S : d = n - i}
<1>1. IsWellFoundedOn(R, Nat)
  BY NatLessThanWellFounded DEF OpToRel
<1>2. D \in SUBSET Nat /\ D # {}
  <2>1. PICK i \in S : TRUE
    OBVIOUS
  <2>2. n - i \in Nat
    OBVIOUS
  <2> QED BY <2>2
<1> HIDE DEF R, D
<1>3. PICK d \in D : \A y \in D : ~(<<y, d>> \in R)
  BY <1>1, <1>2, WFMin
<1>4. PICK i \in S : d = n - i
  BY DEF D
<1>5. ASSUME NEW j \in S PROVE j <= i
  <2>1. n - j \in D
    <3>1. n - j \in Nat
      OBVIOUS
    <3> QED BY <3>1 DEF D
  <2>2. ~(<<n - j, d>> \in R)
    BY <1>3, <2>1
  <2>3. n - j \in Nat /\ d \in Nat /\ i \in Nat /\ j \in Nat
    BY <1>2, <1>4
  <2>4. ~(n - j < d)
    BY <2>2, <2>3 DEF R
  <2> QED BY <1>4, <2>3, <2>4
<1> QED BY <1>5

\* An accepted entry has the lease of every entry of its action.
LEMMA AcceptedBinding ==
  ASSUME NEW e \in JournalEntries, journal \in Seq(JournalEntries), OneBinding,
         CanRecord(journal, e), NEW i \in 1..Len(journal), journal[i].action = e.action
  PROVE  journal[i].epoch = e.epoch
<1> DEFINE S == {j \in 1..Len(journal) : journal[j].action = e.action}
<1>1. Len(journal) \in Nat /\ S \in SUBSET (1..Len(journal)) /\ i \in S
  OBVIOUS
<1>2. PICK l \in S : \A j \in S : j <= l
  BY <1>1, LastPlace
<1>3. l \in LastOf(journal, e.action)
  BY <1>2 DEF LastOf
<1>4. journal[l].epoch = e.epoch
  BY <1>3 DEF CanRecord, SameBinding
<1>5. journal[l].action = journal[i].action
  BY <1>2
<1> QED BY <1>4, <1>5 DEF OneBinding

LEMMA RecordedBinding ==
  ASSUME NEW e \in JournalEntries, journal \in Seq(JournalEntries), OneBinding,
         CanRecord(journal, e), journal' = Recorded(journal, e)
  PROVE  OneBinding'
<1>1. PICK n \in Nat \ {0}, k \in Nat :
        Keeps(journal, e, Recorded(journal, e), n, k)
  BY RecordedEntries
<1>2. ASSUME NEW i \in 1..n, NEW j \in 1..n, journal'[i].action = journal'[j].action
      PROVE  journal'[i].epoch = journal'[j].epoch
  <2>1. CASE i = n /\ j = n
    BY <2>1
  <2>2. CASE i = n /\ j # n
    <3>1. j \in 1..(n - 1)
      BY <2>2
    <3>2. j + k \in 1..Len(journal) /\ journal'[j] = journal[j + k] /\ journal'[i] = e
      BY <1>1, <2>2, <3>1 DEF Keeps
    <3> QED BY <1>2, <3>2, AcceptedBinding
  <2>3. CASE i # n /\ j = n
    <3>1. i \in 1..(n - 1)
      BY <2>3
    <3>2. i + k \in 1..Len(journal) /\ journal'[i] = journal[i + k] /\ journal'[j] = e
      BY <1>1, <2>3, <3>1 DEF Keeps
    <3> QED BY <1>2, <3>2, AcceptedBinding
  <2>4. CASE i # n /\ j # n
    <3>1. i \in 1..(n - 1) /\ j \in 1..(n - 1)
      BY <2>4
    <3>2. /\ i + k \in 1..Len(journal) /\ journal'[i] = journal[i + k]
          /\ j + k \in 1..Len(journal) /\ journal'[j] = journal[j + k]
      BY <1>1, <3>1 DEF Keeps
    <3> QED BY <1>2, <3>2 DEF OneBinding
  <2> QED BY <2>1, <2>2, <2>3, <2>4
<1>3. Len(journal') = n
  BY <1>1 DEF Keeps
<1> QED BY <1>2, <1>3 DEF OneBinding

\* A dispatch of the finalization that nothing dispatched before is the only one.
LEMMA FirstDispatch ==
  ASSUME NEW e \in JournalEntries, journal \in Seq(JournalEntries),
         journal' = Recorded(journal, e), NotDispatched(Finalize),
         e.step = Finalize, e.phase = "DISPATCHED", e.class = "NON_IDEMPOTENT"
  PROVE  Cardinality(Dispatches') = 1
<1>1. PICK n \in Nat \ {0}, k \in Nat :
        Keeps(journal, e, Recorded(journal, e), n, k)
  BY RecordedEntries
<1>2. Len(journal') = n /\ journal'[n] = e /\ n \in 1..n
  BY <1>1 DEF Keeps
<1>3. ASSUME NEW i \in 1..n, i # n
      PROVE  ~(journal'[i].step = Finalize /\ journal'[i].phase = "DISPATCHED")
  <2>1. i \in 1..(n - 1)
    BY <1>3
  <2>2. i + k \in 1..Len(journal) /\ journal'[i] = journal[i + k]
    BY <1>1, <2>1 DEF Keeps
  <2> QED BY <2>2 DEF NotDispatched
<1>4. Dispatches' = {n}
  BY <1>2, <1>3 DEF Dispatches
<1> QED BY <1>4, FS_Singleton

(***************************************************************************)
(* DesktopWorkflow: what an agent's step keeps of the journal and of a     *)
(* retry given alone.                                                      *)
(***************************************************************************)
LEMMA MovesKeepJournal ==
  ASSUME NEW t \in Threads, WorkflowTypeOK, LeaseInv, OneBinding, InFlightHoldsItsLease,
         AgentMoves(t), exec' = exec \/ exec' = Fenced(exec),
         UNCHANGED journal \/ JournalGrows(t)
  PROVE  journal' \in Seq(JournalEntries) /\ OneBinding' /\ InFlightHoldsItsLease'
<1>1. /\ exec'.epoch = exec.epoch /\ exec'.inFlight = exec.inFlight
      /\ ~exec'.blocked => ~exec.blocked
      /\ journal \in Seq(JournalEntries)
  BY DEF WorkflowTypeOK, Fenced
<1>2. journal' \in Seq(JournalEntries) /\ OneBinding'
  <2>1. CASE UNCHANGED journal
    BY <1>1, <2>1 DEF OneBinding
  <2>2. CASE JournalGrows(t)
    BY <1>1, <2>2, RecordedBinding, RecordedEntries DEF JournalGrows
  <2> QED BY <2>1, <2>2
<1>3. ASSUME exec'.inFlight # None, ~exec'.blocked
      PROVE  \A i \in 1..Len(journal') :
               journal'[i].action = th'[exec'.inFlight].action => journal'[i].epoch = exec'.epoch
  <2> DEFINE f == exec.inFlight
  <2>1. f \in Threads /\ th[f].pc \in InFlightPlaces
    BY <1>1, <1>3 DEF WorkflowTypeOK, LeaseInv, FlightIsDispatched, InFlightPlaces
  <2>2. th'[f].action = th[f].action
    BY <2>1 DEF AgentMoves
  <2>3. /\ \A i \in 1..Len(journal) :
             journal[i].action = th[f].action => journal[i].epoch = exec.epoch
        /\ ctl.epoch = exec.epoch
    BY <1>1, <1>3 DEF InFlightHoldsItsLease, LeaseInv, OneLease
  <2> HIDE DEF f
  <2>4. ASSUME NEW i \in 1..Len(journal'), journal'[i].action = th[f].action
        PROVE  journal'[i].epoch = exec.epoch
    <3>1. CASE UNCHANGED journal
      BY <2>3, <2>4, <3>1
    <3>2. CASE JournalGrows(t)
      <4>1. PICK e \in JournalEntries : journal' = Recorded(journal, e) /\ e.epoch = ctl.epoch
        BY <3>2 DEF JournalGrows
      <4>2. PICK n \in Nat \ {0}, k \in Nat : Keeps(journal, e, Recorded(journal, e), n, k)
        BY <1>1, RecordedEntries
      <4>3. CASE i = n
        BY <2>3, <4>1, <4>2, <4>3 DEF Keeps
      <4>4. CASE i # n
        <5>1. i \in 1..(n - 1)
          BY <4>1, <4>2, <4>4 DEF Keeps
        <5>2. i + k \in 1..Len(journal) /\ journal'[i] = journal[i + k]
          BY <4>1, <4>2, <5>1 DEF Keeps
        <5> QED BY <2>3, <2>4, <5>2
      <4> QED BY <4>3, <4>4
    <3> QED BY <3>1, <3>2
  <2> QED BY <1>1, <2>2, <2>4 DEF f
<1>4. InFlightHoldsItsLease'
  BY <1>3 DEF InFlightHoldsItsLease
<1> QED BY <1>2, <1>4

\* A step of an agent's call leaves every retry alone but its own.
LEMMA MovesKeepRetries ==
  ASSUME NEW t \in Threads, WorkflowTypeOK, LeaseInv, RetryInv, AgentMoves(t),
         t \in Ops /\ th[t].alone => ReconcilesAlone(t)'
  PROVE  \A u \in Threads : th'[u].alone => ReconcilesAlone(u)'
<1>1. SUFFICES ASSUME NEW u \in Threads, th'[u].alone
               PROVE  u = t /\ t \in Ops /\ th[t].alone
  OBVIOUS
<1>2. th[u].alone
  BY <1>1 DEF AgentMoves
<1>3. u \in Ops /\ At(Pump, "idle")
  BY <1>2, ThreadFacts DEF RetryInv, ReconcilesAlone, LeaseInv, PumpRuns
<1>4. "idle" \notin Working
  BY DEF Working
<1>5. t # Pump
  BY <1>3, <1>4 DEF At, AgentMoves
<1> QED BY <1>2, <1>3, <1>5, ThreadFacts

\* The places where a retry given alone has more to keep.
RetryPlaces == {"reobserve", "provider", "accepted", "execute", "dispatched"}

LEMMA RetryElsewhere ==
  ASSUME NEW t \in Ops, LeaseInv, RetryInv, AgentMoves(t), th[t].alone,
         th'[t].pc \notin RetryPlaces
  PROVE  ReconcilesAlone(t)'
<1>1. t \in Threads /\ Pump \in Threads /\ t # Pump
  BY ThreadFacts
<1>2. At(Pump, "idle")'
  BY <1>1 DEF RetryInv, ReconcilesAlone, At, AgentMoves
<1>3. th'[t].pc # "idle"
  BY DEF AgentMoves, Working
<1> QED BY <1>2, <1>3 DEF ReconcilesAlone, At, RetryPlaces

\* The pump waits while the retry given alone goes on, wherever it goes.
LEMMA PumpWaits ==
  ASSUME NEW t \in Ops, LeaseInv, RetryInv, AgentMoves(t), th[t].alone
  PROVE  ~At(t, "idle")' /\ At(Pump, "idle")'
<1>1. t \in Threads /\ Pump \in Threads /\ t # Pump
  BY ThreadFacts
<1>2. At(Pump, "idle")'
  BY <1>1 DEF RetryInv, ReconcilesAlone, At, AgentMoves
<1>3. th'[t].pc # "idle"
  BY DEF AgentMoves, Working
<1> QED BY <1>2, <1>3 DEF At

(***************************************************************************)
(* The entries an agent's step records.                                    *)
(***************************************************************************)
LEMMA EntryFields ==
  ASSUME WorkflowTypeOK, NEW action \in Nat, NEW phase \in Phases,
         NEW class \in {"MUTATION", "READ_ONLY"}
  PROVE  /\ Entry(action, phase, class) \in JournalEntries
         /\ Entry(action, phase, class).action = action
         /\ Entry(action, phase, class).phase = phase
         /\ Entry(action, phase, class).step = ctl.step
         /\ Entry(action, phase, class).epoch = ctl.epoch
         /\ class = "MUTATION" => Entry(action, phase, class).class = Class
BY DEF WorkflowTypeOK, Entry, Class, JournalEntries

LEMMA PhaseNames ==
  /\ "ACCEPTED" \in Phases /\ "DISPATCHED" \in Phases /\ "EFFECT_OBSERVED" \in Phases
  /\ "RECEIPTED" \in Phases /\ "RECONCILIATION_REQUIRED" \in Phases
BY DEF Phases

LEMMA RecordsGrows ==
  ASSUME WorkflowTypeOK, NEW t \in Threads, NEW phase \in Phases,
         NEW class \in {"MUTATION", "READ_ONLY"},
         CanRecord(journal, Entry(th[t].action, phase, class)),
         journal' = Recorded(journal, Entry(th[t].action, phase, class))
  PROVE  JournalGrows(t)
<1>1. th[t].action \in Nat
  BY DEF WorkflowTypeOK, CallsTypeOK, CallStates
<1>2. Entry(th[t].action, phase, class) \in JournalEntries
  BY <1>1, EntryFields
<1>3. /\ Entry(th[t].action, phase, class).action = th[t].action
      /\ Entry(th[t].action, phase, class).step = ctl.step
      /\ Entry(th[t].action, phase, class).epoch = ctl.epoch
  BY <1>1, EntryFields
<1> QED BY <1>2, <1>3 DEF JournalGrows

(***************************************************************************)
(* One step of an agent's call that leaves what is in flight there.        *)
(***************************************************************************)
ControllerStates ==
  [step : Steps, epoch : Nat, generation : Nat, turns : Nat, reconciles : Nat]

BudgetStates == [actions : Nat, commands : Nat, faults : Nat]

OwnCaps(c) == \A o \in c.outstanding : o.cap \in {0, o.step}

AgentStep(t) ==
  /\ AgentMoves(t) /\ (th[t].pc \in InFlightPlaces <=> th'[t].pc \in InFlightPlaces)
  /\ exec' = exec \/ exec' = Fenced(exec)
  /\ UNCHANGED journal \/ JournalGrows(t)
  /\ co' = co \/ (co' \in CoordinatorStates /\ co'.epoch = co.epoch /\ OwnCaps(co'))
  /\ disk' = disk \/ disk' = co \/ disk' = co'
  /\ ctl' \in ControllerStates /\ (ctl'.epoch = ctl.epoch \/ ctl'.epoch = co.epoch)
  /\ UNCHANGED <<page, ui, owner>>
  /\ budget' \in BudgetStates
  /\ t \in Ops /\ th[t].alone => ReconcilesAlone(t)'

LEMMA AgentStepKeeps ==
  ASSUME NEW t \in Threads, WorkflowInv, AgentStep(t)
  PROVE  WorkflowInv'
<1>1. /\ WorkflowTypeOK /\ LeaseInv /\ OneBinding /\ InFlightHoldsItsLease /\ RetryInv
      /\ AgentMoves(t)
  BY DEF WorkflowInv, AgentStep
<1>2. CallsTypeOK'
  BY <1>1, MovesKeepCalls DEF WorkflowTypeOK
<1>3. journal' \in Seq(JournalEntries) /\ OneBinding' /\ InFlightHoldsItsLease'
  BY <1>1, MovesKeepJournal DEF AgentStep
<1>4. co' \in CoordinatorStates /\ disk' \in CoordinatorStates /\ co'.epoch = co.epoch
  BY <1>1 DEF AgentStep, WorkflowTypeOK
<1>5. LeaseInv'
  <2>1. /\ exec' = exec \/ exec' = Fenced(exec)
        /\ ctl'.epoch = ctl.epoch \/ ctl'.epoch = co.epoch
        /\ UNCHANGED <<ui, owner>>
        /\ th[t].pc \in InFlightPlaces <=> th'[t].pc \in InFlightPlaces
    BY DEF AgentStep
  <2> QED BY <1>1, <1>4, <2>1, MovesKeepLease
<1>6. exec' \in [epoch : Nat, blocked : BOOLEAN, inFlight : Threads \cup {None}]
  BY <1>1 DEF AgentStep, WorkflowTypeOK, Fenced
<1>7. WorkflowTypeOK'
  BY <1>1, <1>2, <1>3, <1>4, <1>6
     DEF AgentStep, WorkflowTypeOK, ControllerStates, BudgetStates
<1>8. \A u \in Threads : th'[u].alone => ReconcilesAlone(u)'
  BY <1>1, MovesKeepRetries DEF AgentStep
<1>9. OwnCaps(co') /\ OwnCaps(disk')
  BY <1>1 DEF AgentStep, RetryInv, OwnCaps
<1>10. RetryInv'
  BY <1>8, <1>9 DEF RetryInv, OwnCaps
<1> QED BY <1>3, <1>5, <1>7, <1>10 DEF WorkflowInv

(***************************************************************************)
(* What such a step records, and where its call then is.                   *)
(***************************************************************************)
LEMMA RecordsGoes ==
  ASSUME WorkflowTypeOK, NEW t \in Threads, NEW pc \in Working, NEW phase \in Phases,
         NEW class \in {"MUTATION", "READ_ONLY"}, th[t].pc \in Working,
         Records(t, Entry(th[t].action, phase, class), Goto(t, pc))
  PROVE  /\ AgentMoves(t) /\ (UNCHANGED journal \/ JournalGrows(t))
         /\ \/ th'[t].pc = "done"
            \/ /\ th'[t].pc = pc /\ th'[t].cap = th[t].cap /\ th'[t].class = th[t].class
               /\ th'[t].asked = th[t].asked /\ th'[t].res = th[t].res
<1>1. th \in [Threads -> CallStates]
  BY DEF WorkflowTypeOK, CallsTypeOK
<1>2. "THREW" \in AgentAnswers
  BY DEF AgentAnswers
<1>3. CASE CanRecord(journal, Entry(th[t].action, phase, class))
  <2>1. Goto(t, pc) /\ journal' = Recorded(journal, Entry(th[t].action, phase, class))
    BY <1>3 DEF Records
  <2>2. JournalGrows(t)
    BY <1>3, <2>1, RecordsGrows
  <2> QED BY <1>1, <2>1, <2>2, GoneMoves
<1>4. CASE ~CanRecord(journal, Entry(th[t].action, phase, class))
  <2>1. UNCHANGED journal /\ EndsWith(t, "THREW")
    BY <1>4 DEF Records
  <2> QED BY <1>1, <1>2, <2>1, EndedMoves
<1> QED BY <1>3, <1>4

LEMMA RecordsEnds ==
  ASSUME WorkflowTypeOK, NEW t \in Threads, NEW res \in AgentAnswers, NEW phase \in Phases,
         NEW class \in {"MUTATION", "READ_ONLY"}, th[t].pc \in Working,
         Records(t, Entry(th[t].action, phase, class), EndsWith(t, res))
  PROVE  AgentMoves(t) /\ (UNCHANGED journal \/ JournalGrows(t)) /\ th'[t].pc = "done"
<1>1. th \in [Threads -> CallStates]
  BY DEF WorkflowTypeOK, CallsTypeOK
<1>2. "THREW" \in AgentAnswers
  BY DEF AgentAnswers
<1>3. CASE CanRecord(journal, Entry(th[t].action, phase, class))
  <2>1. EndsWith(t, res) /\ journal' = Recorded(journal, Entry(th[t].action, phase, class))
    BY <1>3 DEF Records
  <2>2. JournalGrows(t)
    BY <1>3, <2>1, RecordsGrows
  <2> QED BY <1>1, <2>1, <2>2, EndedMoves
<1>4. CASE ~CanRecord(journal, Entry(th[t].action, phase, class))
  <2>1. UNCHANGED journal /\ EndsWith(t, "THREW")
    BY <1>4 DEF Records
  <2> QED BY <1>1, <1>2, <2>1, EndedMoves
<1> QED BY <1>3, <1>4

\* The fence stops the call; a fault is counted.
LEMMA FenceMoves ==
  ASSUME WorkflowTypeOK, NEW t \in Threads, th[t].pc \in Working, FenceStops(t)
  PROVE  /\ AgentMoves(t) /\ th'[t].pc = "done" /\ exec' = Fenced(exec)
         /\ ctl' \in ControllerStates /\ ctl'.epoch = ctl.epoch
<1>1. th \in [Threads -> CallStates]
  BY DEF WorkflowTypeOK, CallsTypeOK
<1>2. FenceResult \in AgentAnswers
  BY DEF FenceResult, AgentAnswers
<1>3. EndsWith(t, FenceResult) /\ exec' = Fenced(exec) /\ ctl' = FencedController
  BY DEF FenceStops
<1>4. AgentMoves(t) /\ th'[t].pc = "done"
  BY <1>1, <1>2, <1>3, EndedMoves
<1>5. FencedController \in ControllerStates /\ FencedController.epoch = ctl.epoch
  BY DEF FencedController, WorkflowTypeOK, ControllerStates
<1> QED BY <1>3, <1>4, <1>5

LEMMA BoundFields ==
  ASSUME WorkflowTypeOK
  PROVE  /\ Bound(ctl) \in ControllerStates /\ Bound(ctl).step = co.step
         /\ Bound(ctl).epoch = co.epoch /\ Bound(ctl).generation = ctl.generation
         /\ Bound(ctl).turns = ctl.turns /\ Bound(ctl).reconciles = ctl.reconciles
BY DEF Bound, WorkflowTypeOK, CoordinatorStates, ControllerStates

LEMMA FaultKept ==
  ASSUME WorkflowTypeOK, Fault
  PROVE  budget' \in BudgetStates
<1>1. budget \in BudgetStates
  BY DEF WorkflowTypeOK, BudgetStates
<1>2. budget.faults + 1 \in Nat
  BY <1>1 DEF BudgetStates
<1> QED BY <1>1, <1>2 DEF Fault, BudgetStates

\* An action is accepted: the coordinator's only outstanding one.
LEMMA AcceptsMoves ==
  ASSUME WorkflowTypeOK, NEW t \in Threads, th[t].pc \in Working, NEW cap \in 0..NSteps,
         NEW class \in {"MUTATION", "READ_ONLY"}, ctl' \in ControllerStates,
         th[t].pc \notin InFlightPlaces, Accepts(t, cap, class, "accepted"),
         cap \in {0, ctl'.step}
  PROVE  /\ AgentMoves(t) /\ th'[t].pc = "accepted" /\ th'[t].cap = cap
         /\ th'[t].class = class /\ th'[t].asked = th[t].asked
         /\ co' \in CoordinatorStates /\ co'.epoch = co.epoch /\ OwnCaps(co')
         /\ budget' \in BudgetStates
<1> DEFINE action == budget.actions + 1
<1> DEFINE c == [th[t] EXCEPT !.pc = "accepted", !.action = action, !.cap = cap,
                              !.class = class, !.epoch = co.epoch]
<1> DEFINE o == [action |-> action, step |-> ctl'.step, epoch |-> co.epoch, cap |-> cap]
<1>1. action \in Nat /\ ctl'.step \in Steps /\ co.epoch \in Nat
  <2>1. budget \in BudgetStates /\ co \in CoordinatorStates
    BY DEF WorkflowTypeOK, BudgetStates
  <2>2. action \in Nat
    BY <2>1 DEF BudgetStates
  <2>3. ctl'.step \in Steps /\ co.epoch \in Nat
    BY <2>1 DEF ControllerStates, CoordinatorStates
  <2> QED BY <2>2, <2>3
<1>2. th[t] \in CallStates /\ th \in [Threads -> CallStates]
  BY DEF WorkflowTypeOK, CallsTypeOK
<1>3. budget' = [budget EXCEPT !.actions = action]
  BY DEF Accepts
<1>4. th' = [th EXCEPT ![t] = c]
  BY DEF Accepts
<1>5. co' = AcceptAction(co, action, ctl'.step, cap)
  BY DEF Accepts
<1> HIDE DEF action
<1>6. /\ c \in CallStates /\ c.pc = "accepted" /\ c.cap = cap /\ c.class = class
      /\ c.asked = th[t].asked /\ c.alone = th[t].alone
  <2>1. "accepted" \in CallPlaces
    BY DEF CallPlaces, Working
  <2> QED BY <1>1, <1>2, <2>1 DEF CallStates
<1> HIDE DEF c
<1>7. Takes(t, c)
  BY <1>2, <1>4, <1>6, Taken
<1>8. "accepted" \in Working
  BY DEF Working
<1>9. AgentMoves(t)
  BY <1>6, <1>7, <1>8 DEF Takes, AgentMoves
<1>10. o \in Outstanding /\ o.cap = cap /\ o.step = ctl'.step
  BY <1>1 DEF Outstanding
<1>11. co' = [co EXCEPT !.phase = "ACCEPTED", !.outstanding = {o}]
  BY <1>5 DEF AcceptAction
<1> HIDE DEF o
<1>12. co' \in CoordinatorStates /\ co'.epoch = co.epoch /\ co'.outstanding = {o}
  BY <1>10, <1>11 DEF WorkflowTypeOK, CoordinatorStates
<1>13. OwnCaps(co')
  BY <1>10, <1>12 DEF OwnCaps
<1>14. budget' \in BudgetStates
  BY <1>1, <1>3 DEF WorkflowTypeOK, BudgetStates
<1> QED BY <1>6, <1>7, <1>9, <1>12, <1>13, <1>14 DEF Takes

(***************************************************************************)
(* The steps of a run.                                                     *)
(***************************************************************************)
LEMMA InvFacts ==
  ASSUME WorkflowInv
  PROVE  /\ WorkflowTypeOK /\ LeaseInv /\ OneBinding /\ InFlightHoldsItsLease /\ RetryInv
         /\ th \in [Threads -> CallStates] /\ journal \in Seq(JournalEntries)
         /\ co \in CoordinatorStates /\ disk \in CoordinatorStates
         /\ ctl \in ControllerStates /\ budget \in BudgetStates
         /\ OwnCaps(co) /\ OwnCaps(disk)
<1>1. WorkflowTypeOK /\ RetryInv
  BY DEF WorkflowInv
<1>2. OwnCaps(co) /\ OwnCaps(disk)
  BY <1>1 DEF RetryInv, OwnCaps
<1> QED BY <1>2 DEF WorkflowInv, WorkflowTypeOK, CallsTypeOK, ControllerStates, BudgetStates

LEMMA PlaceNames ==
  /\ \A pc \in {"run", "observe", "provider", "accepted", "verify", "execute", "recheck",
                "observed", "receipted", "reconcile", "reobserve"} :
       pc \in Working /\ pc \notin InFlightPlaces
  /\ {"dispatched", "performed"} = InFlightPlaces
  /\ "dispatched" \in Working /\ "performed" \in Working /\ "done" \notin InFlightPlaces
  /\ {"RECEIPTED", "WAITING", "PROVIDER", "FENCED", "CANCELED", "THREW"} \subseteq AgentAnswers
BY DEF Working, InFlightPlaces, AgentAnswers

\* A step that ends where neither an action in flight nor a retry has more to keep.
LEMMA QuietMove ==
  ASSUME NEW t \in Threads, WorkflowInv, AgentMoves(t), th[t].pc \notin InFlightPlaces,
         th'[t].pc \notin InFlightPlaces \cup RetryPlaces
  PROVE  /\ th[t].pc \in InFlightPlaces <=> th'[t].pc \in InFlightPlaces
         /\ t \in Ops /\ th[t].alone => ReconcilesAlone(t)'
<1>1. LeaseInv /\ RetryInv
  BY DEF WorkflowInv
<1> QED BY <1>1, RetryElsewhere

LEMMA RunBeginSteps ==
  ASSUME NEW t \in Threads, WorkflowInv, RunBegin(t) \/ TimeExhausted(t)
  PROVE  AgentStep(t)
<1>1. /\ th[t].pc = "run" /\ th[t].pc \in Working /\ th[t].pc \notin InFlightPlaces
      /\ UNCHANGED <<co, disk, journal, page, ui, owner, budget>>
  BY PlaceNames DEF RunBegin, TimeExhausted, At
<1>2. CASE RunBegin(t) /\ FenceStops(t)
  <2>1. /\ AgentMoves(t) /\ th'[t].pc = "done" /\ exec' = Fenced(exec)
        /\ ctl' \in ControllerStates /\ ctl'.epoch = ctl.epoch
    BY <1>1, <1>2, InvFacts, FenceMoves
  <2>2. th'[t].pc \notin InFlightPlaces \cup RetryPlaces
    BY <2>1 DEF InFlightPlaces, RetryPlaces
  <2> QED BY <1>1, <2>1, <2>2, QuietMove, InvFacts DEF AgentStep
<1>3. CASE RunBegin(t) /\ ~FenceStops(t)
  <2>1. Goto(t, "observe") /\ ctl' = Bound(ctl) /\ exec' = exec
    BY <1>3 DEF RunBegin
  <2>2. AgentMoves(t) /\ th'[t].pc = "observe"
    BY <1>1, <2>1, InvFacts, GoneMoves, PlaceNames
  <2>3. th'[t].pc \notin InFlightPlaces \cup RetryPlaces
    BY <2>2 DEF InFlightPlaces, RetryPlaces
  <2> QED BY <1>1, <2>1, <2>2, <2>3, QuietMove, InvFacts, BoundFields DEF AgentStep
<1>4. CASE TimeExhausted(t)
  <2>1. EndsWith(t, "PROVIDER") /\ exec' = Fenced(exec) /\ ctl' = ctl
    BY <1>4 DEF TimeExhausted
  <2>2. AgentMoves(t) /\ th'[t].pc = "done"
    BY <1>1, <2>1, InvFacts, EndedMoves, PlaceNames
  <2>3. th'[t].pc \notin InFlightPlaces \cup RetryPlaces
    BY <2>2 DEF InFlightPlaces, RetryPlaces
  <2> QED BY <1>1, <2>1, <2>2, <2>3, QuietMove, InvFacts DEF AgentStep
<1> QED BY <1>2, <1>3, <1>4

LEMMA ObserveSteps ==
  ASSUME NEW t \in Threads, WorkflowInv, ObserveStep(t)
  PROVE  AgentStep(t)
<1>1. /\ th[t].pc = "observe" /\ th[t].pc \in Working /\ th[t].pc \notin InFlightPlaces
      /\ UNCHANGED <<disk, journal, page, exec, ui, owner>>
  BY PlaceNames DEF ObserveStep, At
<1>2. CASE UNCHANGED <<co, ctl, budget>> /\ \E res \in {"WAITING", "FENCED", "PROVIDER"} :
                                             EndsWith(t, res)
  <2>1. AgentMoves(t) /\ th'[t].pc = "done"
    BY <1>1, <1>2, InvFacts, EndedMoves, PlaceNames
  <2>2. th'[t].pc \notin InFlightPlaces \cup RetryPlaces
    BY <2>1 DEF InFlightPlaces, RetryPlaces
  <2> QED BY <1>1, <1>2, <2>1, <2>2, QuietMove, InvFacts DEF AgentStep
<1>3. CASE UNCHANGED ctl /\ Accepts(t, 0, "READ_ONLY", "accepted")
  <2>1. ctl' \in ControllerStates /\ 0 \in 0..NSteps
    BY <1>3, InvFacts, StepFacts
  <2>2. /\ AgentMoves(t) /\ th'[t].pc = "accepted" /\ th'[t].cap = 0
        /\ th'[t].class = "READ_ONLY"
        /\ co' \in CoordinatorStates /\ co'.epoch = co.epoch /\ OwnCaps(co')
        /\ budget' \in BudgetStates
    BY <1>1, <1>3, <2>1, InvFacts, AcceptsMoves
  <2>3. ASSUME t \in Ops, th[t].alone PROVE ReconcilesAlone(t)'
    BY <2>2, <2>3, InvFacts, PumpWaits DEF ReconcilesAlone, At
  <2>4. th'[t].pc \notin InFlightPlaces
    BY <2>2, PlaceNames
  <2> QED BY <1>1, <1>3, <2>1, <2>2, <2>3, <2>4 DEF AgentStep
<1>4. CASE /\ UNCHANGED <<co, budget>> /\ ctl' = [ctl EXCEPT !.turns = @ + 1]
           /\ th' = [th EXCEPT ![t] = [@ EXCEPT !.pc = "provider", !.asked = TRUE,
                         !.turn = ctl.generation, !.step = ctl.step, !.epoch = ctl.epoch]]
  <2> DEFINE c == [th[t] EXCEPT !.pc = "provider", !.asked = TRUE, !.turn = ctl.generation,
                                !.step = ctl.step, !.epoch = ctl.epoch]
  <2>1. th' = [th EXCEPT ![t] = c]
    BY <1>4
  <2>2. /\ ctl.step \in 0..NSteps /\ ctl.epoch \in Nat /\ ctl.generation \in Nat
        /\ ctl.turns + 1 \in Nat
    <3>1. ctl \in ControllerStates
      BY InvFacts
    <3>2. /\ ctl.step \in Steps /\ ctl.epoch \in Nat /\ ctl.generation \in Nat
          /\ ctl.turns \in Nat
      BY <3>1 DEF ControllerStates
    <3>3. ctl.step \in 0..NSteps
      BY <3>2, StepFacts
    <3> QED BY <3>2, <3>3
  <2>3. /\ c \in CallStates /\ c.pc = "provider" /\ c.asked = TRUE
        /\ c.action = th[t].action /\ c.alone = th[t].alone
    <3>1. "provider" \in CallPlaces
      BY DEF CallPlaces, Working
    <3>2. th[t] \in CallStates
      BY InvFacts
    <3> QED BY <2>2, <3>1, <3>2 DEF CallStates
  <2> HIDE DEF c
  <2>4. Takes(t, c)
    BY <2>1, <2>3, InvFacts, Taken
  <2>5. AgentMoves(t) /\ th'[t].pc = "provider" /\ th'[t].asked
    BY <1>1, <2>3, <2>4, PlaceNames DEF Takes, AgentMoves
  <2>6. ctl' \in ControllerStates /\ ctl'.epoch = ctl.epoch
    BY <1>4, <2>2, InvFacts DEF ControllerStates
  <2>7. ASSUME t \in Ops, th[t].alone PROVE ReconcilesAlone(t)'
    BY <2>5, <2>7, InvFacts, PumpWaits DEF ReconcilesAlone, At
  <2>8. th'[t].pc \notin InFlightPlaces
    BY <2>5, PlaceNames
  <2> QED BY <1>1, <1>4, <2>5, <2>6, <2>7, <2>8, InvFacts DEF AgentStep
<1> QED BY <1>2, <1>3, <1>4 DEF ObserveStep

LEMMA ProviderSteps ==
  ASSUME NEW t \in Threads, WorkflowInv, ProviderAnswers(t)
  PROVE  AgentStep(t)
<1>1. /\ th[t].pc = "provider" /\ th[t].pc \in Working /\ th[t].pc \notin InFlightPlaces
      /\ UNCHANGED <<disk, journal, page, ui, owner>>
  BY PlaceNames DEF ProviderAnswers, At
<1>2. CASE /\ \E res \in {"THREW", "WAITING", "PROVIDER"} : EndsWith(t, res)
           /\ UNCHANGED <<co, exec, budget>> /\ (ctl' = ctl \/ ctl' = Bound(ctl))
  <2>1. AgentMoves(t) /\ th'[t].pc = "done"
    BY <1>1, <1>2, InvFacts, EndedMoves, PlaceNames
  <2>2. th'[t].pc \notin InFlightPlaces \cup RetryPlaces
    BY <2>1 DEF InFlightPlaces, RetryPlaces
  <2>3. ctl' \in ControllerStates /\ (ctl'.epoch = ctl.epoch \/ ctl'.epoch = co.epoch)
    BY <1>2, InvFacts, BoundFields
  <2> QED BY <1>1, <1>2, <2>1, <2>2, <2>3, QuietMove, InvFacts DEF AgentStep
<1>3. CASE FenceStops(t) /\ UNCHANGED <<co, budget>>
  <2>1. /\ AgentMoves(t) /\ th'[t].pc = "done" /\ exec' = Fenced(exec)
        /\ ctl' \in ControllerStates /\ ctl'.epoch = ctl.epoch
    BY <1>1, <1>3, InvFacts, FenceMoves
  <2>2. th'[t].pc \notin InFlightPlaces \cup RetryPlaces
    BY <2>1 DEF InFlightPlaces, RetryPlaces
  <2> QED BY <1>1, <1>3, <2>1, <2>2, QuietMove, InvFacts DEF AgentStep
<1>4. ASSUME MatchesSnapshot(t), ctl' = Bound(ctl), exec' = exec,
             NEW cap \in {0, th[t].step}, Accepts(t, cap, "MUTATION", "accepted")
      PROVE  AgentStep(t)
  <2>1. ctl' \in ControllerStates /\ ctl'.step = co.step /\ ctl'.epoch = co.epoch
    BY <1>4, InvFacts, BoundFields
  <2>2. cap \in {0, ctl'.step} /\ cap \in 0..NSteps
    BY <1>4, <2>1, StepFacts DEF MatchesSnapshot, ControllerStates
  <2>3. /\ AgentMoves(t) /\ th'[t].pc = "accepted" /\ th'[t].asked = th[t].asked
        /\ co' \in CoordinatorStates /\ co'.epoch = co.epoch /\ OwnCaps(co')
        /\ budget' \in BudgetStates
    BY <1>1, <1>4, <2>1, <2>2, InvFacts, AcceptsMoves
  <2>4. ASSUME t \in Ops, th[t].alone PROVE ReconcilesAlone(t)'
    <3>1. th'[t].asked
      BY <1>1, <2>3, <2>4, InvFacts DEF RetryInv, ReconcilesAlone, At
    <3> QED BY <2>3, <2>4, <3>1, InvFacts, PumpWaits DEF ReconcilesAlone, At
  <2>5. th'[t].pc \notin InFlightPlaces
    BY <2>3, PlaceNames
  <2> QED BY <1>1, <1>4, <2>1, <2>3, <2>4, <2>5, InvFacts DEF AgentStep
<1> QED BY <1>2, <1>3, <1>4 DEF ProviderAnswers

LEMMA AcceptReturnSteps ==
  ASSUME NEW t \in Threads, WorkflowInv, AcceptReturns(t)
  PROVE  AgentStep(t)
<1>1. /\ th[t].pc = "accepted" /\ th[t].pc \in Working /\ th[t].pc \notin InFlightPlaces
      /\ UNCHANGED <<co, page, exec, ctl, ui, owner>>
  BY PlaceNames DEF AcceptReturns, At
<1>2. CASE /\ disk' = co /\ UNCHANGED budget
           /\ RecordsPhase(t, "ACCEPTED",
                  Goto(t, IF th[t].class = "READ_ONLY" THEN "verify" ELSE "execute"))
  <2> DEFINE pc == IF th[t].class = "READ_ONLY" THEN "verify" ELSE "execute"
  <2>1. pc \in Working /\ th[t].class \in {"MUTATION", "READ_ONLY"}
    BY InvFacts, PlaceNames DEF CallStates
  <2>2. Records(t, Entry(th[t].action, "ACCEPTED", th[t].class), Goto(t, pc))
    BY <1>2 DEF RecordsPhase
  <2>3. pc = "verify" \/ (pc = "execute" /\ th[t].class = "MUTATION")
    BY <2>1
  <2> HIDE DEF pc
  <2>4. /\ AgentMoves(t) /\ (UNCHANGED journal \/ JournalGrows(t))
        /\ \/ th'[t].pc = "done"
           \/ /\ th'[t].pc = pc /\ th'[t].cap = th[t].cap /\ th'[t].class = th[t].class
              /\ th'[t].asked = th[t].asked
    BY <1>1, <2>1, <2>2, InvFacts, PhaseNames, RecordsGoes
  <2>5. ASSUME t \in Ops, th[t].alone PROVE ReconcilesAlone(t)'
    <3>1. CASE th'[t].pc = "execute"
      <4>1. ReconcilesAlone(t) /\ th[t].class = "MUTATION"
        BY <2>3, <2>4, <2>5, <3>1, InvFacts DEF RetryInv
      <4>2. th'[t].asked \/ th'[t].cap # Finalize
        BY <1>1, <2>4, <3>1, <4>1 DEF ReconcilesAlone, At
      <4> QED BY <2>4, <2>5, <3>1, <4>2, InvFacts, PumpWaits DEF ReconcilesAlone, At
    <3>2. CASE th'[t].pc # "execute"
      <4>1. th'[t].pc \notin RetryPlaces
        BY <2>3, <2>4, <3>2 DEF RetryPlaces
      <4> QED BY <2>4, <2>5, <4>1, InvFacts, RetryElsewhere
    <3> QED BY <3>1, <3>2
  <2>6. th'[t].pc \notin InFlightPlaces
    BY <2>3, <2>4, PlaceNames
  <2> QED BY <1>1, <1>2, <2>4, <2>5, <2>6, InvFacts DEF AgentStep
<1>3. CASE Fault /\ EndsWith(t, "FENCED") /\ UNCHANGED <<disk, journal>>
  <2>1. AgentMoves(t) /\ th'[t].pc = "done"
    BY <1>1, <1>3, InvFacts, EndedMoves, PlaceNames
  <2>2. th'[t].pc \notin InFlightPlaces \cup RetryPlaces
    BY <2>1 DEF InFlightPlaces, RetryPlaces
  <2>3. budget' \in BudgetStates
    BY <1>3, InvFacts, FaultKept
  <2> QED BY <1>1, <1>3, <2>1, <2>2, <2>3, QuietMove, InvFacts DEF AgentStep
<1> QED BY <1>2, <1>3 DEF AcceptReturns

\* The steps that record a phase and go on, or end, in a quiet place.
LEMMA QuietRecord ==
  ASSUME NEW t \in Threads, WorkflowInv, th[t].pc \in Working, th[t].pc \notin InFlightPlaces,
         NEW phase \in Phases, NEW class \in {"MUTATION", "READ_ONLY"},
         \/ \E pc \in {"recheck", "observed"} :
              Records(t, Entry(th[t].action, phase, class), Goto(t, pc))
         \/ \E res \in AgentAnswers :
              Records(t, Entry(th[t].action, phase, class), EndsWith(t, res))
  PROVE  /\ AgentMoves(t) /\ (UNCHANGED journal \/ JournalGrows(t))
         /\ th[t].pc \in InFlightPlaces <=> th'[t].pc \in InFlightPlaces
         /\ t \in Ops /\ th[t].alone => ReconcilesAlone(t)'
<1>1. /\ AgentMoves(t) /\ (UNCHANGED journal \/ JournalGrows(t))
      /\ th'[t].pc \in {"recheck", "observed", "done"}
  BY InvFacts, RecordsGoes, RecordsEnds, PlaceNames
<1>2. th'[t].pc \notin InFlightPlaces \cup RetryPlaces
  BY <1>1 DEF InFlightPlaces, RetryPlaces
<1> QED BY <1>1, <1>2, QuietMove

LEMMA VerifySteps ==
  ASSUME NEW t \in Threads, WorkflowInv, VerifyDispatched(t) \/ Recheck(t) \/ Perform(t)
  PROVE  AgentStep(t)
<1>1. UNCHANGED <<co, disk, page, exec, ctl, ui, owner, budget>>
  BY DEF VerifyDispatched, Recheck, Perform
<1>2. th[t].class \in {"MUTATION", "READ_ONLY"}
  BY InvFacts DEF CallStates
<1>3. CASE VerifyDispatched(t)
  <2>1. th[t].pc \in Working /\ th[t].pc \notin InFlightPlaces
    BY <1>3, PlaceNames DEF VerifyDispatched, At
  <2>2. Records(t, Entry(th[t].action, "DISPATCHED", th[t].class), Goto(t, "recheck"))
    BY <1>3 DEF VerifyDispatched, RecordsPhase
  <2> QED BY <1>1, <1>2, <2>1, <2>2, InvFacts, PhaseNames, QuietRecord DEF AgentStep
<1>4. CASE Recheck(t)
  <2>1. th[t].pc \in Working /\ th[t].pc \notin InFlightPlaces
    BY <1>4, PlaceNames DEF Recheck, At
  <2>2. CASE EndsWith(t, "WAITING") /\ UNCHANGED journal
    <3>1. AgentMoves(t) /\ th'[t].pc = "done"
      BY <2>1, <2>2, InvFacts, EndedMoves, PlaceNames
    <3>2. th'[t].pc \notin InFlightPlaces \cup RetryPlaces
      BY <3>1 DEF InFlightPlaces, RetryPlaces
    <3> QED BY <1>1, <2>1, <2>2, <3>1, <3>2, QuietMove, InvFacts DEF AgentStep
  <2>3. CASE RecordsPhase(t, "EFFECT_OBSERVED", Goto(t, "observed"))
    <3>1. Records(t, Entry(th[t].action, "EFFECT_OBSERVED", th[t].class), Goto(t, "observed"))
      BY <2>3 DEF RecordsPhase
    <3> QED BY <1>1, <1>2, <2>1, <3>1, InvFacts, PhaseNames, QuietRecord DEF AgentStep
  <2>4. CASE RecordsPhase(t, "RECONCILIATION_REQUIRED", EndsWith(t, "WAITING"))
    <3>1. /\ Records(t, Entry(th[t].action, "RECONCILIATION_REQUIRED", th[t].class),
                     EndsWith(t, "WAITING"))
          /\ "WAITING" \in AgentAnswers
      BY <2>4, PlaceNames DEF RecordsPhase
    <3> QED BY <1>1, <1>2, <2>1, <3>1, InvFacts, PhaseNames, QuietRecord DEF AgentStep
  <2> QED BY <1>4, <2>2, <2>3, <2>4 DEF Recheck
<1>5. CASE Perform(t)
  <2>1. th[t].pc = "dispatched"
    BY <1>5 DEF Perform, At
  <2>2. PICK res \in {"SATISFIED", "THREW"} :
          th' = [th EXCEPT ![t].pc = "performed", ![t].res = res]
    BY <1>5 DEF Perform
  <2> DEFINE c == [[th[t] EXCEPT !.pc = "performed"] EXCEPT !.res = res]
  <2>3. th' = [th EXCEPT ![t] = c]
    <3>1. th' = [[th EXCEPT ![t].pc = "performed"] EXCEPT ![t].res = res]
      BY <2>2
    <3>2. [th EXCEPT ![t].pc = "performed"] = [th EXCEPT ![t] = [th[t] EXCEPT !.pc = "performed"]]
      OBVIOUS
    <3>3. th \in [Threads -> CallStates]
      BY InvFacts
    <3> QED BY <3>1, <3>2, <3>3
  <2>4. /\ c \in CallStates /\ c.pc = "performed" /\ c.action = th[t].action
        /\ c.alone = th[t].alone
    <3>1. "performed" \in CallPlaces /\ res \in CallResults
      BY DEF CallPlaces, Working, CallResults, CallAnswers, AgentAnswers
    <3>2. th[t] \in CallStates
      BY InvFacts
    <3> QED BY <3>1, <3>2 DEF CallStates
  <2> HIDE DEF c
  <2>5. Takes(t, c)
    BY <2>3, <2>4, InvFacts, Taken
  <2>6. AgentMoves(t) /\ th'[t].pc = "performed"
    BY <2>1, <2>4, <2>5, PlaceNames DEF Takes, AgentMoves
  <2>7. th'[t].pc \notin RetryPlaces
    BY <2>6 DEF RetryPlaces
  <2>8. th[t].pc \in InFlightPlaces /\ th'[t].pc \in InFlightPlaces /\ UNCHANGED journal
    BY <1>5, <2>1, <2>6, PlaceNames DEF Perform
  <2> QED BY <1>1, <2>6, <2>7, <2>8, RetryElsewhere, InvFacts DEF AgentStep
<1> QED BY <1>3, <1>4, <1>5

LEMMA CompletedFields ==
  ASSUME NEW c \in CoordinatorStates, NEW s \in Steps, NEW actor \in {"AGENT", "OWNER"}
  PROVE  /\ Completed(c, s, actor) \in CoordinatorStates
         /\ Completed(c, s, actor).epoch = c.epoch
         /\ Completed(c, s, actor).outstanding = {}
<1> DEFINE d == [c EXCEPT !.completed = Append(@, [step |-> s, actor |-> actor]),
                          !.phase = "RECEIPTED", !.outstanding = {}]
<1>1. c.completed \in Seq([step : Steps, actor : {"AGENT", "OWNER"}])
  BY DEF CoordinatorStates
<1>2. Append(c.completed, [step |-> s, actor |-> actor])
        \in Seq([step : Steps, actor : {"AGENT", "OWNER"}])
  BY <1>1
<1>3. d \in CoordinatorStates /\ d.epoch = c.epoch /\ d.outstanding = {}
  BY <1>2 DEF CoordinatorStates
<1>4. Completed(c, s, actor) = Advance(d)
  BY DEF Completed
<1> HIDE DEF d
<1>5. CASE d.step < NSteps
  <2>1. d.step + 1 \in Steps
    BY <1>3, <1>5, NStepsAssumption DEF CoordinatorStates, Steps
  <2>2. Advance(d) = [d EXCEPT !.step = d.step + 1, !.phase = "ACCEPTED"]
    BY <1>5 DEF Advance
  <2> DEFINE n == [d EXCEPT !.step = d.step + 1]
  <2>3. n \in CoordinatorStates /\ n.epoch = d.epoch /\ n.outstanding = d.outstanding
    BY <1>3, <2>1 DEF CoordinatorStates
  <2>4. Advance(d) = [n EXCEPT !.phase = "ACCEPTED"]
    BY <2>2
  <2> HIDE DEF n
  <2>5. /\ Advance(d) \in CoordinatorStates /\ Advance(d).epoch = n.epoch
        /\ Advance(d).outstanding = n.outstanding
    BY <2>3, <2>4 DEF CoordinatorStates
  <2> QED BY <1>3, <1>4, <2>3, <2>5
<1>6. CASE ~(d.step < NSteps)
  BY <1>3, <1>4, <1>6 DEF Advance
<1> QED BY <1>5, <1>6

LEMMA ReceiptSteps ==
  ASSUME NEW t \in Threads, WorkflowInv, Receipt(t) \/ ReceiptReturns(t) \/ ReceiptFails(t)
  PROVE  AgentStep(t)
<1>1. /\ th[t].pc \in Working /\ th[t].pc \notin InFlightPlaces
      /\ UNCHANGED <<page, exec, ctl, ui, owner>>
  BY PlaceNames DEF Receipt, ReceiptReturns, ReceiptFails, At
<1>2. th[t].class \in {"MUTATION", "READ_ONLY"} /\ ctl.step \in Steps
  BY InvFacts DEF CallStates, ControllerStates
<1>3. CASE Receipt(t)
  <2>1. co' = Completed(co, ctl.step, "AGENT") /\ Goto(t, "receipted")
        /\ UNCHANGED <<disk, journal, budget>>
    BY <1>3 DEF Receipt, RecordReceipt
  <2>2. AgentMoves(t) /\ th'[t].pc = "receipted"
    BY <1>1, <2>1, InvFacts, GoneMoves, PlaceNames
  <2>3. th'[t].pc \notin InFlightPlaces \cup RetryPlaces
    BY <2>2 DEF InFlightPlaces, RetryPlaces
  <2>4. co' \in CoordinatorStates /\ co'.epoch = co.epoch /\ OwnCaps(co')
    BY <1>2, <2>1, InvFacts, CompletedFields DEF OwnCaps
  <2> QED BY <1>1, <2>1, <2>2, <2>3, <2>4, QuietMove, InvFacts DEF AgentStep
<1>4. CASE ReceiptReturns(t)
  <2>1. /\ Records(t, Entry(th[t].action, "RECEIPTED", th[t].class), EndsWith(t, "RECEIPTED"))
        /\ disk' = co /\ UNCHANGED <<co, budget>>
    BY <1>4 DEF ReceiptReturns, RecordsPhase
  <2>2. "RECEIPTED" \in AgentAnswers
    BY PlaceNames
  <2> QED BY <1>1, <1>2, <2>1, <2>2, InvFacts, PhaseNames, QuietRecord DEF AgentStep
<1>5. CASE ReceiptFails(t)
  <2>1. /\ Records(t, Entry(th[t].action, "RECONCILIATION_REQUIRED", "MUTATION"),
                   EndsWith(t, "FENCED"))
        /\ Fault
        /\ UNCHANGED <<co, disk>> \/ (co' = InterruptReceipt(co) /\ disk' = co')
    BY <1>5 DEF ReceiptFails, RecordsDefault
  <2>2. "FENCED" \in AgentAnswers /\ budget' \in BudgetStates
    BY <2>1, PlaceNames, InvFacts, FaultKept
  <2>3. co' = InterruptReceipt(co) =>
          co' \in CoordinatorStates /\ co'.epoch = co.epoch /\ OwnCaps(co')
    BY InvFacts DEF InterruptReceipt, CoordinatorStates, OwnCaps
  <2>4. /\ AgentMoves(t) /\ (UNCHANGED journal \/ JournalGrows(t))
        /\ th[t].pc \in InFlightPlaces <=> th'[t].pc \in InFlightPlaces
        /\ t \in Ops /\ th[t].alone => ReconcilesAlone(t)'
    BY <1>1, <2>1, <2>2, PhaseNames, QuietRecord
  <2> QED BY <1>1, <2>1, <2>2, <2>3, <2>4, InvFacts DEF AgentStep
<1> QED BY <1>3, <1>4, <1>5

(***************************************************************************)
(* The steps of a reconciliation.                                          *)
(***************************************************************************)
LEMMA EvidenceKnown ==
  ASSUME NEW s \in Steps
  PROVE  /\ Evidence(s) \in {"RECEIPTED", "OBSERVED", "DISPATCHED", "NONE"}
         /\ Evidence(s) = "NONE" => NotDispatched(s)
<1>1. CASE HasPhase(journal, s, {"RECEIPTED"})
  BY <1>1 DEF Evidence
<1>2. CASE /\ ~HasPhase(journal, s, {"RECEIPTED"})
           /\ HasPhase(journal, s, {"EFFECT_OBSERVED"})
  BY <1>2 DEF Evidence
<1>3. CASE /\ ~HasPhase(journal, s, {"RECEIPTED"})
           /\ ~HasPhase(journal, s, {"EFFECT_OBSERVED"})
  <2>1. Evidence(s) = IF HasPhase(journal, s, {"DISPATCHED"}) \/ co.phase # "ACCEPTED"
                      THEN "DISPATCHED" ELSE "NONE"
    BY <1>3 DEF Evidence
  <2>2. ~HasPhase(journal, s, {"DISPATCHED"}) => NotDispatched(s)
    BY DEF HasPhase, NotDispatched
  <2> QED BY <2>1, <2>2
<1> QED BY <1>1, <1>2, <1>3

LEMMA ReconcileBegins ==
  ASSUME NEW t \in Threads, WorkflowInv, ReconcileBegin(t)
  PROVE  AgentStep(t)
<1>1. /\ th[t].pc = "reconcile" /\ th[t].pc \in Working /\ th[t].pc \notin InFlightPlaces
      /\ UNCHANGED <<co, disk, journal, page, ui, owner, budget>>
  BY PlaceNames DEF ReconcileBegin, At
<1>2. ctl \in ControllerStates /\ ctl.reconciles + 1 \in Nat
  <2>1. ctl \in ControllerStates
    BY InvFacts
  <2>2. ctl.reconciles \in Nat
    BY <2>1 DEF ControllerStates
  <2> QED BY <2>1, <2>2
<1>3. ASSUME NEW res \in AgentAnswers, EndsWith(t, res), exec' = exec \/ exec' = Fenced(exec),
             ctl' \in ControllerStates, ctl'.epoch = ctl.epoch \/ ctl'.epoch = co.epoch
      PROVE  AgentStep(t)
  <2>1. AgentMoves(t) /\ th'[t].pc = "done"
    BY <1>1, <1>3, InvFacts, EndedMoves
  <2>2. th'[t].pc \notin InFlightPlaces \cup RetryPlaces
    BY <2>1 DEF InFlightPlaces, RetryPlaces
  <2> QED BY <1>1, <1>3, <2>1, <2>2, QuietMove, InvFacts DEF AgentStep
<1>4. CASE EndsWith(t, "WAITING") /\ UNCHANGED <<ctl, exec>>
  BY <1>2, <1>3, <1>4, PlaceNames
<1>5. CASE /\ exec' = Fenced(exec) /\ EndsWith(t, FenceResult)
           /\ ctl' = [FencedController EXCEPT !.reconciles = @ + 1]
  <2>1. FenceResult \in AgentAnswers
    BY DEF FenceResult, AgentAnswers
  <2>2. /\ FencedController \in ControllerStates /\ FencedController.epoch = ctl.epoch
        /\ FencedController.reconciles = ctl.reconciles
    BY <1>2 DEF FencedController, ControllerStates
  <2>3. ctl' = [FencedController EXCEPT !.reconciles = ctl.reconciles + 1]
    BY <1>5, <2>2
  <2>4. ctl' \in ControllerStates /\ ctl'.epoch = ctl.epoch
    BY <1>2, <2>2, <2>3 DEF ControllerStates
  <2> QED BY <1>3, <1>5, <2>1, <2>4
<1>6. CASE ctl' = [Bound(ctl) EXCEPT !.reconciles = @ + 1] /\ exec' = exec
           /\ \/ co.outstanding = {} /\ Goto(t, "run")
              \/ \E o \in co.outstanding :
                   IF o.step # co.step \/ o.epoch # co.epoch
                   THEN EndsWith(t, "WAITING")
                   ELSE IF Evidence(o.step) = "RECEIPTED" THEN EndsWith(t, "RECEIPTED")
                   ELSE th' = [th EXCEPT ![t] = [@ EXCEPT !.pc = "reobserve",
                                  !.action = o.action, !.cap = o.cap, !.epoch = o.epoch,
                                  !.class = "MUTATION", !.res = Evidence(o.step)]]
  <2>1. Bound(ctl) \in ControllerStates /\ Bound(ctl).step = co.step
        /\ Bound(ctl).epoch = co.epoch /\ Bound(ctl).reconciles = ctl.reconciles
    BY InvFacts, BoundFields
  <2>2. ctl' \in ControllerStates /\ ctl'.epoch = co.epoch /\ ctl'.step = co.step
    <3>1. ctl' = [Bound(ctl) EXCEPT !.reconciles = ctl.reconciles + 1]
      BY <1>6, <2>1
    <3> QED BY <1>2, <2>1, <3>1 DEF ControllerStates
  <2>3. CASE Goto(t, "run")
    <3>1. AgentMoves(t) /\ th'[t].pc = "run"
      BY <1>1, <2>3, InvFacts, GoneMoves, PlaceNames
    <3>2. th'[t].pc \notin InFlightPlaces \cup RetryPlaces
      BY <3>1 DEF InFlightPlaces, RetryPlaces
    <3> QED BY <1>1, <1>6, <2>2, <3>1, <3>2, QuietMove, InvFacts DEF AgentStep
  <2>4. CASE EndsWith(t, "WAITING") \/ EndsWith(t, "RECEIPTED")
    BY <1>3, <1>6, <2>2, <2>4, PlaceNames
  <2>5. ASSUME NEW o \in co.outstanding, o.step = co.step,
               th' = [th EXCEPT ![t] = [@ EXCEPT !.pc = "reobserve",
                        !.action = o.action, !.cap = o.cap, !.epoch = o.epoch,
                        !.class = "MUTATION", !.res = Evidence(o.step)]]
        PROVE  AgentStep(t)
    <3> DEFINE c == [th[t] EXCEPT !.pc = "reobserve", !.action = o.action, !.cap = o.cap,
                       !.epoch = o.epoch, !.class = "MUTATION", !.res = Evidence(o.step)]
    <3>1. th' = [th EXCEPT ![t] = c]
      BY <2>5
    <3>2. o \in Outstanding /\ o.cap \in {0, o.step}
      BY InvFacts DEF CoordinatorStates, OwnCaps
    <3>3. /\ Evidence(o.step) \in CallResults
          /\ Evidence(o.step) = "NONE" => NotDispatched(o.step)
      BY <3>2, EvidenceKnown DEF Outstanding, CallResults, CallAnswers, AgentAnswers
    <3>4. /\ c \in CallStates /\ c.pc = "reobserve" /\ c.cap = o.cap
          /\ c.res = Evidence(o.step) /\ c.alone = th[t].alone
      <4>1. "reobserve" \in CallPlaces
        BY DEF CallPlaces, Working
      <4>2. th[t] \in CallStates
        BY InvFacts
      <4> QED BY <3>2, <3>3, <4>1, <4>2 DEF CallStates, Outstanding
    <3> HIDE DEF c
    <3>5. Takes(t, c)
      BY <3>1, <3>4, InvFacts, Taken
    <3>6. AgentMoves(t) /\ th'[t].pc = "reobserve"
      BY <1>1, <3>4, <3>5, PlaceNames DEF Takes, AgentMoves
    <3>7. ASSUME t \in Ops, th[t].alone PROVE ReconcilesAlone(t)'
      <4>1. NotDispatched(ctl.step)' \/ th'[t].res # "NONE"
        <5>1. ctl'.step = o.step /\ journal' = journal
          BY <1>1, <2>2, <2>5
        <5>2. th'[t].res = Evidence(o.step)
          BY <3>4, <3>5 DEF Takes
        <5> QED BY <3>3, <5>1, <5>2 DEF NotDispatched
      <4>2. ctl'.step = co'.step /\ th'[t].cap \in {0, ctl'.step}
        BY <1>1, <2>2, <2>5, <3>2, <3>4, <3>5 DEF Takes
      <4> QED BY <3>6, <3>7, <4>1, <4>2, InvFacts, PumpWaits DEF ReconcilesAlone, At
    <3>8. th'[t].pc \notin InFlightPlaces
      BY <3>6, PlaceNames
    <3> QED BY <1>1, <1>6, <2>2, <3>6, <3>7, <3>8, InvFacts DEF AgentStep
  <2> QED BY <1>6, <2>3, <2>4, <2>5
<1> QED BY <1>4, <1>5, <1>6 DEF ReconcileBegin

LEMMA ReconcileObserves ==
  ASSUME NEW t \in Threads, WorkflowInv, ReconcileObserve(t)
  PROVE  AgentStep(t)
<1>1. /\ th[t].pc = "reobserve" /\ th[t].pc \in Working /\ th[t].pc \notin InFlightPlaces
      /\ UNCHANGED <<disk, page, exec, ctl, ui, owner>>
  BY PlaceNames DEF ReconcileObserve, At
<1>2. CASE (EndsWith(t, "WAITING") \/ EndsWith(t, "FENCED")) /\ UNCHANGED <<co, journal, budget>>
  <2>1. AgentMoves(t) /\ th'[t].pc = "done"
    BY <1>1, <1>2, InvFacts, EndedMoves, PlaceNames
  <2>2. th'[t].pc \notin InFlightPlaces \cup RetryPlaces
    BY <2>1 DEF InFlightPlaces, RetryPlaces
  <2> QED BY <1>1, <1>2, <2>1, <2>2, QuietMove, InvFacts DEF AgentStep
<1>3. CASE Goto(t, "observed") /\ UNCHANGED <<co, journal, budget>>
  <2>1. AgentMoves(t) /\ th'[t].pc = "observed"
    BY <1>1, <1>3, InvFacts, GoneMoves, PlaceNames
  <2>2. th'[t].pc \notin InFlightPlaces \cup RetryPlaces
    BY <2>1 DEF InFlightPlaces, RetryPlaces
  <2> QED BY <1>1, <1>3, <2>1, <2>2, QuietMove, InvFacts DEF AgentStep
<1>4. CASE RecordsDefault(t, "EFFECT_OBSERVED", Goto(t, "observed")) /\ UNCHANGED <<co, budget>>
  <2>1. Records(t, Entry(th[t].action, "EFFECT_OBSERVED", "MUTATION"), Goto(t, "observed"))
    BY <1>4 DEF RecordsDefault
  <2> QED BY <1>1, <1>4, <2>1, InvFacts, PhaseNames, QuietRecord DEF AgentStep
<1>5. CASE th[t].res = "NONE" /\ Goto(t, "execute") /\ UNCHANGED <<co, journal, budget>>
  <2>1. /\ AgentMoves(t) /\ th'[t].pc = "execute" /\ th'[t].cap = th[t].cap
    BY <1>1, <1>5, InvFacts, GoneMoves, PlaceNames
  <2>2. ASSUME t \in Ops, th[t].alone PROVE ReconcilesAlone(t)'
    <3>1. ctl.step = co.step /\ th[t].cap \in {0, ctl.step} /\ NotDispatched(ctl.step)
      BY <1>1, <1>5, <2>2, InvFacts DEF RetryInv, ReconcilesAlone, At
    <3>2. Finalize # 0
      BY StepFacts
    <3>3. th'[t].cap = Finalize => ctl'.step = Finalize /\ NotDispatched(Finalize)'
      BY <1>1, <1>5, <2>1, <3>1, <3>2 DEF NotDispatched
    <3> QED BY <2>1, <2>2, <3>3, InvFacts, PumpWaits DEF ReconcilesAlone, At
  <2>3. th'[t].pc \notin InFlightPlaces
    BY <2>1, PlaceNames
  <2> QED BY <1>1, <1>5, <2>1, <2>2, <2>3, InvFacts DEF AgentStep
<1>6. CASE /\ th[t].res # "NONE" /\ ~AwaitsOwner(t) /\ UNCHANGED journal
           /\ Accepts(t, ctl.step, "MUTATION", "accepted")
  <2>1. ctl' \in ControllerStates /\ ctl.step \in {0, ctl'.step} /\ ctl.step \in 0..NSteps
    <3>1. ctl \in ControllerStates
      BY InvFacts
    <3>2. ctl.step \in Steps
      BY <3>1 DEF ControllerStates
    <3> QED BY <1>1, <3>1, <3>2, StepFacts
  <2>2. /\ AgentMoves(t) /\ th'[t].pc = "accepted" /\ th'[t].cap = ctl.step
        /\ co' \in CoordinatorStates /\ co'.epoch = co.epoch /\ OwnCaps(co')
        /\ budget' \in BudgetStates
    BY <1>1, <1>6, <2>1, InvFacts, AcceptsMoves
  <2>3. ASSUME t \in Ops, th[t].alone PROVE ReconcilesAlone(t)'
    <3>1. th'[t].cap # Finalize
      BY <1>6, <2>2 DEF AwaitsOwner
    <3> QED BY <2>2, <2>3, <3>1, InvFacts, PumpWaits DEF ReconcilesAlone, At
  <2>4. th'[t].pc \notin InFlightPlaces
    BY <2>2, PlaceNames
  <2> QED BY <1>1, <1>6, <2>1, <2>2, <2>3, <2>4, InvFacts DEF AgentStep
<1> QED BY <1>2, <1>3, <1>4, <1>5, <1>6 DEF ReconcileObserve

(***************************************************************************)
(* The steps that start an action in flight and end it.                    *)
(***************************************************************************)
LEMMA JournalKept ==
  ASSUME NEW t \in Threads, WorkflowInv, UNCHANGED journal \/ JournalGrows(t)
  PROVE  journal' \in Seq(JournalEntries) /\ OneBinding'
<1>1. journal \in Seq(JournalEntries) /\ OneBinding
  BY InvFacts
<1>2. CASE UNCHANGED journal
  BY <1>1, <1>2 DEF OneBinding
<1>3. CASE JournalGrows(t)
  BY <1>1, <1>3, RecordedBinding, RecordedEntries DEF JournalGrows
<1> QED BY <1>2, <1>3

LEMMA FlightStepKeeps ==
  ASSUME NEW t \in Threads, WorkflowInv, AgentMoves(t),
         NEW f \in {t, None}, exec' = [exec EXCEPT !.inFlight = f],
         f = t => ~exec.blocked,
         FlightIsDispatched', InFlightHoldsItsLease',
         UNCHANGED journal \/ JournalGrows(t),
         UNCHANGED <<co, disk, page, ctl, ui, owner>>, budget' \in BudgetStates,
         t \in Ops /\ th[t].alone => ReconcilesAlone(t)'
  PROVE  WorkflowInv'
<1>1. /\ exec' \in [epoch : Nat, blocked : BOOLEAN, inFlight : Threads \cup {None}]
      /\ exec'.epoch = exec.epoch /\ exec'.inFlight = f /\ exec'.blocked = exec.blocked
  BY InvFacts DEF WorkflowTypeOK
<1>2. WorkflowTypeOK /\ LeaseInv /\ RetryInv
  BY InvFacts
<1>3. OneLease' /\ OwnersArePlaced' /\ OwnersWindow' /\ PumpRuns'
  BY <1>1, <1>2, MovesKeepOwners
<1>4. QuietOwner'
  BY <1>1, <1>2 DEF LeaseInv, QuietOwner
<1>5. LeaseInv'
  BY <1>3, <1>4 DEF LeaseInv
<1>6. journal' \in Seq(JournalEntries) /\ OneBinding'
  BY JournalKept
<1>7. CallsTypeOK'
  BY <1>2, MovesKeepCalls DEF WorkflowTypeOK
<1>8. WorkflowTypeOK'
  BY <1>1, <1>2, <1>6, <1>7 DEF WorkflowTypeOK, BudgetStates
<1>9. \A u \in Threads : th'[u].alone => ReconcilesAlone(u)'
  BY <1>2, MovesKeepRetries
<1>10. RetryInv'
  BY <1>2, <1>9 DEF RetryInv
<1> QED BY <1>5, <1>6, <1>8, <1>10 DEF WorkflowInv

LEMMA ExecuteSteps ==
  ASSUME NEW t \in Threads, WorkflowInv, ExecuteAccepted(t)
  PROVE  WorkflowInv'
<1>1. /\ th[t].pc = "execute" /\ th[t].pc \in Working /\ th[t].pc \notin InFlightPlaces
      /\ UNCHANGED <<co, disk, page, ui, owner, budget>>
  BY PlaceNames DEF ExecuteAccepted, At
<1>2. CASE FenceStops(t) /\ UNCHANGED journal
  <2>1. /\ AgentMoves(t) /\ th'[t].pc = "done" /\ exec' = Fenced(exec)
        /\ ctl' \in ControllerStates /\ ctl'.epoch = ctl.epoch
    BY <1>1, <1>2, InvFacts, FenceMoves
  <2>2. th'[t].pc \notin InFlightPlaces \cup RetryPlaces
    BY <2>1 DEF InFlightPlaces, RetryPlaces
  <2>3. AgentStep(t)
    BY <1>1, <1>2, <2>1, <2>2, QuietMove, InvFacts DEF AgentStep
  <2> QED BY <2>3, AgentStepKeeps
<1>3. CASE EndsWith(t, "FENCED") /\ UNCHANGED <<journal, exec, ctl>>
  <2>1. AgentMoves(t) /\ th'[t].pc = "done"
    BY <1>1, <1>3, InvFacts, EndedMoves, PlaceNames
  <2>2. th'[t].pc \notin InFlightPlaces \cup RetryPlaces
    BY <2>1 DEF InFlightPlaces, RetryPlaces
  <2>3. AgentStep(t)
    BY <1>1, <1>3, <2>1, <2>2, QuietMove, InvFacts DEF AgentStep
  <2> QED BY <2>3, AgentStepKeeps
<1>4. CASE /\ RecordsDefault(t, "RECONCILIATION_REQUIRED", EndsWith(t, "WAITING"))
           /\ UNCHANGED <<exec, ctl>>
  <2>1. /\ Records(t, Entry(th[t].action, "RECONCILIATION_REQUIRED", "MUTATION"),
                   EndsWith(t, "WAITING"))
        /\ "WAITING" \in AgentAnswers
    BY <1>4, PlaceNames DEF RecordsDefault
  <2>2. AgentStep(t)
    BY <1>1, <1>4, <2>1, InvFacts, PhaseNames, QuietRecord DEF AgentStep
  <2> QED BY <2>2, AgentStepKeeps
<1> DEFINE e == Entry(th[t].action, "DISPATCHED", "MUTATION")
<1>5. CASE /\ MayExecute /\ exec.inFlight = None /\ CanRecord(journal, e)
           /\ journal' = Recorded(journal, e) /\ exec' = [exec EXCEPT !.inFlight = t]
           /\ Goto(t, "dispatched") /\ UNCHANGED ctl
  <2>1. /\ e \in JournalEntries /\ e.action = th[t].action /\ e.phase = "DISPATCHED"
        /\ e.step = ctl.step /\ e.epoch = ctl.epoch /\ e.class = Class
    <3>1. th[t].action \in Nat
      BY InvFacts DEF CallStates
    <3> QED BY <3>1, InvFacts, EntryFields, PhaseNames
  <2> HIDE DEF e
  <2>2. JournalGrows(t)
    BY <1>5, <2>1 DEF JournalGrows
  <2>3. /\ AgentMoves(t) /\ th'[t].pc = "dispatched" /\ th'[t].action = th[t].action
        /\ th'[t].cap = th[t].cap /\ th'[t].asked = th[t].asked
    BY <1>1, <1>5, InvFacts, GoneMoves, PlaceNames
  <2>4. exec'.inFlight = t /\ exec'.epoch = exec.epoch /\ exec'.blocked = exec.blocked
    BY <1>5, InvFacts DEF WorkflowTypeOK
  <2>5. FlightIsDispatched'
    <3>1. \A u \in Threads : th[u].pc \notin {"dispatched", "performed"}
      BY <1>5, InvFacts, ThreadFacts DEF LeaseInv, FlightIsDispatched
    <3> QED BY <2>3, <2>4, <3>1 DEF FlightIsDispatched, AgentMoves
  <2>6. InFlightHoldsItsLease'
    <3>1. OneBinding'
      BY <2>2, JournalKept
    <3>2. PICK n \in Nat \ {0}, k \in Nat : Keeps(journal, e, Recorded(journal, e), n, k)
      BY <2>1, InvFacts, RecordedEntries
    <3>3. n \in 1..Len(journal') /\ journal'[n] = e
      BY <1>5, <3>2 DEF Keeps
    <3>4. e.epoch = exec.epoch
      BY <1>5, <2>1 DEF MayExecute
    <3> QED BY <2>1, <2>3, <2>4, <3>1, <3>3, <3>4 DEF InFlightHoldsItsLease, OneBinding
  <2>7. ASSUME t \in Ops, th[t].alone PROVE ReconcilesAlone(t)'
    <3>1. ASSUME ~th'[t].asked, th'[t].cap = Finalize PROVE Cardinality(Dispatches') = 1
      <4>1. ctl.step = Finalize /\ NotDispatched(Finalize)
        BY <1>1, <2>3, <2>7, <3>1, InvFacts DEF RetryInv, ReconcilesAlone, At
      <4>2. e.step = Finalize /\ e.class = "NON_IDEMPOTENT"
        BY <2>1, <4>1 DEF Class
      <4> QED BY <1>5, <2>1, <4>1, <4>2, InvFacts, FirstDispatch
    <3> QED BY <2>3, <2>7, <3>1, InvFacts, PumpWaits DEF ReconcilesAlone, At
  <2>8. ~exec.blocked
    BY <1>5 DEF MayExecute
  <2> QED BY <1>1, <1>5, <2>2, <2>3, <2>5, <2>6, <2>7, <2>8, InvFacts, FlightStepKeeps
<1> QED BY <1>2, <1>3, <1>4, <1>5 DEF ExecuteAccepted

LEMMA PerformReturnSteps ==
  ASSUME NEW t \in Threads, WorkflowInv, PerformReturns(t)
  PROVE  WorkflowInv'
<1>1. /\ th[t].pc = "performed" /\ th[t].pc \in Working
      /\ exec' = [exec EXCEPT !.inFlight = None]
      /\ UNCHANGED <<co, disk, page, ctl, ui, owner>>
  BY PlaceNames DEF PerformReturns, At
<1>2. /\ AgentMoves(t) /\ th'[t].pc \in {"recheck", "done"} /\ budget' \in BudgetStates
      /\ UNCHANGED journal \/ JournalGrows(t)
  <2>1. CASE Goto(t, "recheck") /\ UNCHANGED <<journal, budget>>
    BY <1>1, <2>1, InvFacts, GoneMoves, PlaceNames
  <2>2. CASE /\ UNCHANGED budget \/ Fault
             /\ RecordsDefault(t, "RECONCILIATION_REQUIRED", EndsWith(t, "WAITING"))
    <3>1. /\ Records(t, Entry(th[t].action, "RECONCILIATION_REQUIRED", "MUTATION"),
                     EndsWith(t, "WAITING"))
          /\ "WAITING" \in AgentAnswers
      BY <2>2, PlaceNames DEF RecordsDefault
    <3>2. budget' \in BudgetStates
      BY <2>2, InvFacts, FaultKept
    <3> QED BY <1>1, <3>1, <3>2, InvFacts, PhaseNames, RecordsEnds
  <2> QED BY <2>1, <2>2 DEF PerformReturns
<1>3. exec'.inFlight = None
  BY <1>1, InvFacts DEF WorkflowTypeOK
<1>4. FlightIsDispatched'
  <2>1. exec.inFlight = t
    BY <1>1, InvFacts DEF LeaseInv, FlightIsDispatched
  <2>2. \A u \in Threads \ {t} : th[u].pc \notin {"dispatched", "performed"}
    BY <2>1, InvFacts DEF LeaseInv, FlightIsDispatched
  <2> QED BY <1>2, <1>3, <2>2, ThreadFacts DEF FlightIsDispatched, AgentMoves
<1>5. InFlightHoldsItsLease'
  BY <1>3 DEF InFlightHoldsItsLease
<1>6. t \in Ops /\ th[t].alone => ReconcilesAlone(t)'
  <2>1. th'[t].pc \notin RetryPlaces
    BY <1>2 DEF RetryPlaces
  <2> QED BY <1>2, <2>1, InvFacts, RetryElsewhere
<1>7. None # t
  BY ThreadFacts
<1> QED BY <1>1, <1>2, <1>4, <1>5, <1>6, <1>7, FlightStepKeeps

(***************************************************************************)
(* The owner's commands.                                                   *)
(***************************************************************************)
\* One command moves, and no action in flight with it.
OpMoves(t) ==
  /\ th' \in [Threads -> CallStates] /\ \A u \in Threads \ {t} : th'[u] = th[u]
  /\ th[t].pc \notin InFlightPlaces /\ th'[t].pc \notin InFlightPlaces
  /\ th'[t].pc = "done" => th'[t].res \in CallAnswers
  /\ th'[t].alone => At(Pump, "idle") /\ th'[t].pc \notin RetryPlaces \cup {"idle"}

LEMMA OpMovesKeep ==
  ASSUME NEW t \in Ops, WorkflowInv, OpMoves(t), exec'.inFlight = exec.inFlight
  PROVE  /\ CallsTypeOK' /\ PumpRuns' /\ FlightIsDispatched'
         /\ \A u \in Threads : th'[u].alone => ReconcilesAlone(u)'
<1>1. t \in Threads /\ Pump \in Threads /\ t # Pump
  BY ThreadFacts
<1>2. CallsTypeOK'
  BY <1>1, InvFacts DEF OpMoves, CallsTypeOK, WorkflowTypeOK
<1>3. PumpRuns'
  BY <1>1, InvFacts DEF OpMoves, LeaseInv, PumpRuns
<1>4. FlightIsDispatched'
  BY <1>1, InvFacts DEF OpMoves, LeaseInv, FlightIsDispatched, InFlightPlaces
<1>5. ASSUME NEW u \in Threads, th'[u].alone PROVE ReconcilesAlone(u)'
  <2>1. u # Pump
    BY <1>3, <1>5 DEF PumpRuns
  <2>2. u = t
    BY <2>1, ThreadFacts
  <2> QED BY <1>1, <1>5, <2>2 DEF OpMoves, ReconcilesAlone, At, RetryPlaces
<1> QED BY <1>2, <1>3, <1>4, <1>5

\* What a step outside the agent's calls has to show.
LEMMA OwnerStepKeeps ==
  ASSUME WorkflowInv, WorkflowTypeOK', UNCHANGED journal, exec'.inFlight = exec.inFlight,
         exec'.blocked \/ exec' = exec \/ exec.inFlight = None,
         \A u \in Threads : th[u].pc \in InFlightPlaces => th'[u] = th[u],
         LeaseInv', \A u \in Threads : th'[u].alone => ReconcilesAlone(u)',
         OwnCaps(co'), OwnCaps(disk')
  PROVE  WorkflowInv'
<1>1. OneBinding'
  BY InvFacts DEF OneBinding
<1>2. ASSUME exec'.inFlight # None, ~exec'.blocked
      PROVE  \A i \in 1..Len(journal') :
               journal'[i].action = th'[exec'.inFlight].action => journal'[i].epoch = exec'.epoch
  <2>1. exec' = exec /\ exec.inFlight \in Threads
    BY <1>2, InvFacts DEF WorkflowTypeOK
  <2>2. th[exec.inFlight].pc \in InFlightPlaces
    BY <2>1, InvFacts DEF LeaseInv, FlightIsDispatched, InFlightPlaces
  <2>3. th'[exec.inFlight] = th[exec.inFlight]
    BY <2>1, <2>2
  <2> QED BY <1>2, <2>1, <2>3, InvFacts DEF InFlightHoldsItsLease
<1>3. InFlightHoldsItsLease'
  BY <1>2 DEF InFlightHoldsItsLease
<1>4. RetryInv'
  BY DEF RetryInv, OwnCaps
<1> QED BY <1>1, <1>3, <1>4 DEF WorkflowInv

ExecutorStates == [epoch : Nat, blocked : BOOLEAN, inFlight : Threads \cup {None}]

UiStates == [state : WorkflowStates, step : Steps, run : Nat]

\* A command's step that leaves the executor blocked, or blocks it.
LEMMA BlockedStepKeeps ==
  ASSUME NEW t \in Ops, WorkflowInv, OpMoves(t), UNCHANGED journal,
         exec' \in ExecutorStates, exec'.inFlight = exec.inFlight, exec'.blocked,
         co' \in CoordinatorStates, disk' \in CoordinatorStates,
         OwnCaps(co'), OwnCaps(disk'), page' \in Steps, ctl' \in ControllerStates,
         ui' \in UiStates, budget' \in BudgetStates,
         owner' # owner => exec.inFlight = None \/ owner' # "QUIESCED"
  PROVE  WorkflowInv'
<1>1. /\ CallsTypeOK' /\ PumpRuns' /\ FlightIsDispatched'
      /\ \A u \in Threads : th'[u].alone => ReconcilesAlone(u)'
  BY OpMovesKeep
<1>2. WorkflowTypeOK'
  BY <1>1, InvFacts
     DEF WorkflowTypeOK, ExecutorStates, UiStates, ControllerStates, BudgetStates
<1>3. OneLease' /\ OwnersArePlaced' /\ OwnersWindow'
  BY DEF OneLease, OwnersArePlaced, OwnersWindow
<1>4. QuietOwner'
  BY InvFacts DEF QuietOwner, LeaseInv
<1>5. LeaseInv'
  BY <1>1, <1>3, <1>4 DEF LeaseInv
<1>6. \A u \in Threads : th[u].pc \in InFlightPlaces => th'[u] = th[u]
  BY DEF OpMoves
<1> QED BY <1>1, <1>2, <1>5, <1>6, OwnerStepKeeps

\* Where a command stands while the page is the owner's.
LEMMA OwnersPlaceNames ==
  /\ \A pc \in OwnersPlaces : pc \in CallPlaces /\ pc \notin InFlightPlaces
                              /\ pc \notin RetryPlaces \cup {"idle", "done"}
  /\ {"quiesce", "takingover", "capture", "progressed", "claimed"} = OwnersPlaces
  /\ "done" \notin InFlightPlaces /\ "done" \notin RetryPlaces \cup {"idle"}
  /\ "join" \notin InFlightPlaces /\ "join" \notin RetryPlaces \cup {"idle"}
  /\ "idle" \notin InFlightPlaces
  /\ {"idle", "done", "join"} \subseteq CallPlaces
BY DEF OwnersPlaces, CallPlaces, InFlightPlaces, RetryPlaces

LEMMA GoneOp ==
  ASSUME NEW t \in Ops, WorkflowInv, NEW pc \in OwnersPlaces, th[t].pc \in OwnersPlaces,
         Goto(t, pc)
  PROVE  OpMoves(t) /\ th'[t].pc = pc
<1>1. pc \in CallPlaces /\ th[t] \in CallStates /\ t \in Threads
  BY OwnersPlaceNames, InvFacts, ThreadFacts
<1>2. Takes(t, Placed(th[t], pc))
  BY <1>1, InvFacts, Gone
<1>3. th'[t].pc = pc /\ th'[t].alone = th[t].alone
  BY <1>1, <1>2, PlacedFields DEF Takes
<1>4. th[t].alone => At(Pump, "idle")
  BY <1>1, InvFacts DEF RetryInv, ReconcilesAlone
<1> QED BY <1>2, <1>3, <1>4, OwnersPlaceNames DEF Takes, OpMoves

LEMMA EndedOp ==
  ASSUME NEW t \in Ops, WorkflowInv, NEW res \in CallAnswers, th[t].pc \in OwnersPlaces,
         EndsWith(t, res)
  PROVE  OpMoves(t) /\ th'[t].pc = "done" /\ th'[t].res = res
<1>1. res \in CallResults /\ th[t] \in CallStates /\ t \in Threads
  BY InvFacts, ThreadFacts DEF CallResults
<1>2. Takes(t, Replied(th[t], res))
  BY <1>1, InvFacts, Ended
<1>3. th'[t].pc = "done" /\ th'[t].alone = th[t].alone /\ th'[t].res = res
  BY <1>1, <1>2, RepliedFields DEF Takes
<1>4. th[t].alone => At(Pump, "idle")
  BY <1>1, InvFacts DEF RetryInv, ReconcilesAlone
<1> QED BY <1>2, <1>3, <1>4, OwnersPlaceNames DEF Takes, OpMoves

\* A command's new record, while the pump waits or not alone.
LEMMA SetOp ==
  ASSUME NEW t \in Ops, WorkflowInv, NEW c \in CallStates,
         th[t].pc \notin InFlightPlaces, c.pc \notin InFlightPlaces,
         c.pc = "done" => c.res \in CallAnswers,
         c.alone => At(Pump, "idle") /\ c.pc \notin RetryPlaces \cup {"idle"},
         th' = [th EXCEPT ![t] = c]
  PROVE  OpMoves(t) /\ th'[t] = c
<1>1. Takes(t, c)
  BY InvFacts, ThreadFacts, Taken
<1> QED BY <1>1 DEF Takes, OpMoves

\* Nothing is alone while a command may be given.
LEMMA NoneAlone ==
  ASSUME NEW t \in Ops, WorkflowInv, At(t, "idle")
  PROVE  \A u \in Threads : ~th[u].alone
<1>1. SUFFICES ASSUME NEW u \in Threads, th[u].alone PROVE FALSE
  OBVIOUS
<1>2. u # Pump
  BY <1>1, InvFacts DEF LeaseInv, PumpRuns
<1>3. u = t
  BY <1>2, ThreadFacts
<1> QED BY <1>1, <1>3, InvFacts DEF RetryInv, ReconcilesAlone

LEMMA CommandKept ==
  ASSUME WorkflowInv, Counts
  PROVE  budget' \in BudgetStates
<1>1. budget \in BudgetStates
  BY InvFacts
<1>2. budget.commands + 1 \in Nat
  BY <1>1 DEF BudgetStates
<1> QED BY <1>1, <1>2 DEF Counts, BudgetStates

\* The records commands start with.
LEMMA IdleFields ==
  /\ Idle \in CallStates /\ Idle.pc = "idle" /\ Idle.alone = FALSE /\ Idle.kind = "RUN"
  /\ Idle.epoch = 0
BY StepFacts DEF Idle, CallStates, CallPlaces, CallResults

\* Outside a step: the types of what most steps leave alone.
LEMMA KeptTypes ==
  ASSUME WorkflowInv
  PROVE  /\ exec \in ExecutorStates /\ ui \in UiStates /\ page \in Steps
         /\ co.step \in Steps /\ co.epoch \in Nat /\ ctl.epoch \in Nat
         /\ ctl.generation + 1 \in Nat /\ ui.run + 1 \in Nat
<1>1. ctl \in ControllerStates /\ co \in CoordinatorStates
  BY InvFacts
<1>2. exec \in ExecutorStates /\ ui \in UiStates /\ page \in Steps
  BY InvFacts DEF WorkflowTypeOK, ExecutorStates, UiStates
<1>3. ctl.epoch \in Nat /\ ctl.generation \in Nat /\ ui.run \in Nat
  BY <1>1, <1>2 DEF ControllerStates, UiStates
<1> QED BY <1>1, <1>2, <1>3 DEF CoordinatorStates

\* A later turn of the provider is what a command begins with.
LEMMA NextTurn ==
  ASSUME WorkflowInv, ctl' = [ctl EXCEPT !.generation = @ + 1]
  PROVE  /\ ctl' \in ControllerStates /\ ctl'.epoch = ctl.epoch /\ ctl'.step = ctl.step
<1>1. ctl \in ControllerStates /\ ctl.generation + 1 \in Nat
  BY InvFacts, KeptTypes
<1> QED BY <1>1 DEF ControllerStates

LEMMA FencedFields ==
  ASSUME WorkflowInv, exec' = Fenced(exec)
  PROVE  exec' \in ExecutorStates /\ exec'.blocked /\ exec'.inFlight = exec.inFlight
<1>1. exec \in ExecutorStates
  BY KeptTypes
<1> QED BY <1>1 DEF ExecutorStates, Fenced

LEMMA RetrySteps ==
  ASSUME NEW t \in Ops, WorkflowInv, Retry(t)
  PROVE  WorkflowInv'
<1> DEFINE c == [Idle EXCEPT !.pc = "reconcile", !.kind = "RETRY", !.alone = At(Pump, "idle")]
<1>1. /\ th[t].pc = "idle" /\ Counts /\ ui.state = "FAILED"
      /\ UNCHANGED <<co, disk, fx, journal, page, exec, ctl, ui, owner>>
  <2>1. ui.state \in WorkflowStates
    BY InvFacts DEF WorkflowTypeOK
  <2>2. "RETRY" \in Offered[ui.state]
    BY DEF Retry, Command
  <2>3. ui.state = "FAILED"
    BY <2>1, <2>2 DEF WorkflowStates, Offered
  <2> QED BY <2>3 DEF Retry, Command, At
<1>2. th' = [th EXCEPT ![t] = c]
  BY DEF Retry
<1>3. /\ c \in CallStates /\ c.pc = "reconcile" /\ c.alone = At(Pump, "idle")
  <2>1. "reconcile" \in CallPlaces /\ At(Pump, "idle") \in BOOLEAN
    BY DEF CallPlaces, Working, At
  <2> HIDE DEF At
  <2>2. Idle \in CallStates
    BY IdleFields
  <2> QED BY <2>1, <2>2 DEF CallStates
<1> HIDE DEF c
<1>4. "reconcile" \notin InFlightPlaces /\ "reconcile" \notin RetryPlaces \cup {"idle"}
  BY DEF InFlightPlaces, RetryPlaces
<1>5. OpMoves(t) /\ th'[t] = c
  BY ZenonT(30), <1>1, <1>2, <1>3, <1>4, OwnersPlaceNames, SetOp
<1>6. /\ CallsTypeOK' /\ PumpRuns' /\ FlightIsDispatched'
      /\ \A u \in Threads : th'[u].alone => ReconcilesAlone(u)'
  BY <1>1, <1>5, OpMovesKeep
<1>7. budget' \in BudgetStates
  BY <1>1, CommandKept
<1>8. WorkflowTypeOK'
  BY <1>1, <1>6, <1>7, InvFacts DEF WorkflowTypeOK, BudgetStates
<1>9. OwnersArePlaced'
  <2>1. "reconcile" \notin OwnersPlaces
    BY DEF OwnersPlaces
  <2> QED BY <1>1, <1>3, <1>5, <2>1, InvFacts DEF LeaseInv, OwnersArePlaced, OpMoves
<1>10. OneLease' /\ OwnersWindow' /\ QuietOwner'
  BY <1>1, InvFacts DEF LeaseInv, OneLease, OwnersWindow, QuietOwner
<1>11. LeaseInv'
  BY <1>6, <1>9, <1>10 DEF LeaseInv
<1>12. OwnCaps(co') /\ OwnCaps(disk')
  BY <1>1, InvFacts
<1>13. \A u \in Threads : th[u].pc \in InFlightPlaces => th'[u] = th[u]
  BY <1>5 DEF OpMoves
<1> QED BY <1>1, <1>6, <1>8, <1>11, <1>12, <1>13, OwnerStepKeeps

LEMMA TakeOverSteps ==
  ASSUME NEW t \in Ops, WorkflowInv, TakeOver(t)
  PROVE  WorkflowInv'
<1>1. /\ th[t].pc = "idle" /\ Counts /\ ui.state \in {"WORKING", "HUMAN_GATE", "OFFLINE"}
      /\ ui' = [ui EXCEPT !.run = @ + 1] /\ ctl' = [ctl EXCEPT !.generation = @ + 1]
      /\ UNCHANGED <<co, disk, fx, journal, page, owner>>
  <2>1. ui.state \in WorkflowStates
    BY InvFacts DEF WorkflowTypeOK
  <2>2. "TAKE_OVER" \in Offered[ui.state]
    BY DEF TakeOver, Command
  <2>3. ui.state \in {"WORKING", "HUMAN_GATE", "OFFLINE"}
    BY <2>1, <2>2 DEF WorkflowStates, Offered
  <2> QED BY <2>3 DEF TakeOver, Command, At
<1>2. ui' \in UiStates /\ ui'.state = ui.state
  <2>1. ui \in UiStates /\ ui.run + 1 \in Nat
    BY KeptTypes
  <2> QED BY <1>1, <2>1 DEF UiStates
<1>3. ctl' \in ControllerStates /\ ctl'.epoch = ctl.epoch
  BY <1>1, NextTurn
<1>4. budget' \in BudgetStates
  BY <1>1, CommandKept
<1>5. CASE UNCHANGED <<exec, th>>
  <2>1. \A u \in Threads : ~th'[u].alone
    BY <1>1, <1>5, NoneAlone DEF At
  <2>2. WorkflowTypeOK'
    BY <1>1, <1>2, <1>3, <1>4, <1>5, InvFacts
       DEF WorkflowTypeOK, CallsTypeOK, BudgetStates, UiStates, ControllerStates
  <2>3. LeaseInv'
    <3>1. FlightIsDispatched' /\ OneLease' /\ OwnersArePlaced' /\ QuietOwner' /\ PumpRuns'
      BY <1>1, <1>3, <1>5, InvFacts
         DEF LeaseInv, FlightIsDispatched, OneLease, OwnersArePlaced, QuietOwner, PumpRuns
    <3>2. OwnersWindow'
      BY <1>1, <1>2 DEF OwnersWindow
    <3> QED BY <3>1, <3>2 DEF LeaseInv
  <2>4. OwnCaps(co') /\ OwnCaps(disk')
    BY <1>1, InvFacts
  <2> QED BY <1>1, <1>5, <2>1, <2>2, <2>3, <2>4, OwnerStepKeeps
<1>6. CASE /\ exec' = [exec EXCEPT !.blocked = TRUE, !.epoch = ctl.epoch + 1]
           /\ th' = [th EXCEPT ![t] = [Idle EXCEPT !.pc = "quiesce", !.kind = "TAKE_OVER",
                                                    !.epoch = ctl.epoch + 1]]
  <2> DEFINE c == [Idle EXCEPT !.pc = "quiesce", !.kind = "TAKE_OVER", !.epoch = ctl.epoch + 1]
  <2>1. ctl.epoch + 1 \in Nat
    BY KeptTypes
  <2>2. c \in CallStates /\ c.pc = "quiesce" /\ c.alone = FALSE
    BY <2>1, IdleFields, OwnersPlaceNames DEF CallStates
  <2>3. th' = [th EXCEPT ![t] = c]
    BY <1>6
  <2> HIDE DEF c
  <2>4. OpMoves(t)
    BY <1>1, <2>2, <2>3, OwnersPlaceNames, SetOp
  <2>5. exec' \in ExecutorStates /\ exec'.blocked /\ exec'.inFlight = exec.inFlight
    BY <1>6, <2>1, KeptTypes DEF ExecutorStates
  <2> QED BY <1>1, <1>2, <1>3, <1>4, <2>4, <2>5, InvFacts, KeptTypes, BlockedStepKeeps
<1> QED BY <1>5, <1>6 DEF TakeOver

\* The coordinator's two claims of a lease.
LEMMA LeaseFields ==
  ASSUME WorkflowInv
  PROVE  /\ Takeover(co) \in CoordinatorStates /\ OwnCaps(Takeover(co))
         /\ ClaimFreshLease(co) \in CoordinatorStates /\ OwnCaps(ClaimFreshLease(co))
         /\ CancelJob(co) \in CoordinatorStates /\ OwnCaps(CancelJob(co))
         /\ CancelJob(co).epoch = co.epoch
<1>1. co \in CoordinatorStates /\ OwnCaps(co)
  BY InvFacts
<1>2. co.epoch + 1 \in Nat
  BY <1>1 DEF CoordinatorStates
<1>3. /\ Takeover(co) \in CoordinatorStates /\ Takeover(co).outstanding = co.outstanding
      /\ ClaimFreshLease(co) \in CoordinatorStates
      /\ ClaimFreshLease(co).outstanding = co.outstanding
      /\ CancelJob(co) \in CoordinatorStates /\ CancelJob(co).outstanding = co.outstanding
      /\ CancelJob(co).epoch = co.epoch
  BY <1>1, <1>2 DEF CoordinatorStates, Takeover, ClaimFreshLease, CancelJob
<1> QED BY <1>1, <1>3 DEF OwnCaps

LEMMA QuiesceSteps ==
  ASSUME NEW t \in Ops, WorkflowInv, Quiesce(t)
  PROVE  WorkflowInv'
<1>1. /\ th[t].pc \in OwnersPlaces /\ co' = Takeover(co) /\ Goto(t, "takingover")
      /\ UNCHANGED <<disk, fx, journal, page, exec, ctl, ui, budget>>
      /\ owner' = "QUIESCED" => exec.inFlight = None
  BY OwnersPlaceNames DEF Quiesce, At, Settled
<1>2. exec.blocked
  BY <1>1, InvFacts, ThreadFacts DEF LeaseInv, OwnersArePlaced
<1>3. OpMoves(t)
  BY <1>1, OwnersPlaceNames, GoneOp
<1>4. co' \in CoordinatorStates /\ OwnCaps(co')
  BY <1>1, LeaseFields
<1> QED BY <1>1, <1>2, <1>3, <1>4, InvFacts, KeptTypes, BlockedStepKeeps

LEMMA TakeoverReturnSteps ==
  ASSUME NEW t \in Ops, WorkflowInv, TakeoverReturns(t)
  PROVE  WorkflowInv'
<1>1. /\ th[t].pc \in OwnersPlaces /\ EndsWith(t, "OWNER_CONTROL")
      /\ UNCHANGED <<co, fx, journal, page, exec, ui, owner>>
      /\ disk' = co \/ disk' = disk
  BY OwnersPlaceNames DEF TakeoverReturns, At
<1>2. exec.blocked
  BY <1>1, InvFacts, ThreadFacts DEF LeaseInv, OwnersArePlaced
<1>3. OpMoves(t)
  <2>1. "OWNER_CONTROL" \in CallAnswers
    BY DEF CallAnswers
  <2> QED BY <1>1, <2>1, EndedOp
<1>4. budget' \in BudgetStates
  BY InvFacts, FaultKept DEF TakeoverReturns
<1>5. ctl' \in ControllerStates
  <2>1. ctl \in ControllerStates /\ co.epoch \in Nat /\ th[t].epoch \in Nat
    <3>1. th[t] \in CallStates
      BY InvFacts, ThreadFacts
    <3> QED BY <3>1, InvFacts, KeptTypes DEF CallStates
  <2>2. PICK lease \in Nat : ctl' = [ctl EXCEPT !.epoch = lease]
    BY <2>1 DEF TakeoverReturns
  <2> QED BY <2>1, <2>2 DEF ControllerStates
<1>6. disk' \in CoordinatorStates /\ OwnCaps(disk')
  BY <1>1, InvFacts
<1> QED BY <1>1, <1>2, <1>3, <1>4, <1>5, <1>6, InvFacts, KeptTypes, BlockedStepKeeps

LEMMA HandBackSteps ==
  ASSUME NEW t \in Ops, WorkflowInv, HandBack(t)
  PROVE  WorkflowInv'
<1>1. /\ th[t].pc = "idle" /\ Counts /\ ui.state = "OWNER_CONTROL" /\ ctl' = Bound(ctl)
      /\ UNCHANGED <<co, disk, fx, journal, page, exec, ui, owner>>
  <2>1. ui.state \in WorkflowStates
    BY InvFacts DEF WorkflowTypeOK
  <2>2. "HAND_BACK" \in Offered[ui.state]
    BY DEF HandBack, Command
  <2>3. ui.state = "OWNER_CONTROL"
    BY <2>1, <2>2 DEF WorkflowStates, Offered
  <2> QED BY <2>3 DEF HandBack, Command, At
<1>2. exec.blocked
  <2>1. SUFFICES ASSUME ~exec.blocked PROVE FALSE
    BY InvFacts DEF WorkflowTypeOK
  <2>2. PICK u \in Ops : th[u].pc = "done"
    BY <1>1, <2>1, InvFacts DEF LeaseInv, OwnersWindow
  <2> QED BY <1>1, <2>2, ThreadFacts
<1>3. PICK pc \in {"done", "capture"}, res \in {"CANCELED", "NONE"} :
        /\ th' = [th EXCEPT ![t] = [Idle EXCEPT !.kind = "HAND_BACK", !.pc = pc, !.res = res]]
        /\ pc = "done" => res = "CANCELED"
  BY DEF HandBack
<1> DEFINE c == [Idle EXCEPT !.kind = "HAND_BACK", !.pc = pc, !.res = res]
<1>4. c \in CallStates /\ c.pc = pc /\ c.res = res /\ c.alone = FALSE
  <2>1. pc \in CallPlaces /\ res \in CallResults
    BY OwnersPlaceNames DEF CallResults, CallAnswers, AgentAnswers
  <2> QED BY <2>1, IdleFields DEF CallStates
<1>5. th' = [th EXCEPT ![t] = c]
  BY <1>3
<1> HIDE DEF c
<1>6. OpMoves(t)
  <2>1. pc \notin InFlightPlaces /\ "CANCELED" \in CallAnswers
    BY DEF InFlightPlaces, CallAnswers, AgentAnswers
  <2> QED BY <1>1, <1>3, <1>4, <1>5, <2>1, OwnersPlaceNames, SetOp
<1>7. budget' \in BudgetStates
  BY <1>1, CommandKept
<1>8. ctl' \in ControllerStates
  BY <1>1, InvFacts, BoundFields
<1> QED BY <1>1, <1>2, <1>6, <1>7, <1>8, InvFacts, KeptTypes, BlockedStepKeeps

LEMMA CaptureSteps ==
  ASSUME NEW t \in Ops, WorkflowInv, Capture(t)
  PROVE  WorkflowInv'
<1>1. /\ th[t].pc \in OwnersPlaces
      /\ UNCHANGED <<disk, journal, page, exec, ctl, ui, owner, budget>>
  BY OwnersPlaceNames DEF Capture, At
<1>2. exec.blocked
  BY <1>1, InvFacts, ThreadFacts DEF LeaseInv, OwnersArePlaced
<1>3. OpMoves(t)
  <2>1. "WAITING" \in CallAnswers
    BY DEF CallAnswers, AgentAnswers
  <2> QED BY <1>1, <2>1, OwnersPlaceNames, GoneOp, EndedOp DEF Capture
<1>4. co' \in CoordinatorStates /\ OwnCaps(co')
  <2>1. CASE UNCHANGED co
    BY <2>1, InvFacts
  <2>2. CASE co' = RecordOwnerProgress(co)
    BY <2>2, InvFacts, KeptTypes, CompletedFields DEF RecordOwnerProgress, OwnCaps
  <2> QED BY <2>1, <2>2 DEF Capture
<1> QED BY <1>1, <1>2, <1>3, <1>4, InvFacts, KeptTypes, BlockedStepKeeps

LEMMA ProgressReturnSteps ==
  ASSUME NEW t \in Ops, WorkflowInv, ProgressReturns(t)
  PROVE  WorkflowInv'
<1>1. /\ th[t].pc \in OwnersPlaces
      /\ UNCHANGED <<fx, journal, page, exec, ctl, ui, owner>>
      /\ disk' = co \/ disk' = disk
      /\ co' = ClaimFreshLease(co) \/ co' = co
  BY OwnersPlaceNames DEF ProgressReturns, At
<1>2. exec.blocked
  BY <1>1, InvFacts, ThreadFacts DEF LeaseInv, OwnersArePlaced
<1>3. OpMoves(t)
  <2>1. "FENCED" \in CallAnswers
    BY DEF CallAnswers, AgentAnswers
  <2> QED BY <1>1, <2>1, OwnersPlaceNames, GoneOp, EndedOp DEF ProgressReturns
<1>4. budget' \in BudgetStates
  BY InvFacts, FaultKept DEF ProgressReturns
<1>5. co' \in CoordinatorStates /\ OwnCaps(co') /\ disk' \in CoordinatorStates /\ OwnCaps(disk')
  BY <1>1, InvFacts, LeaseFields
<1> QED BY <1>1, <1>2, <1>3, <1>4, <1>5, InvFacts, KeptTypes, BlockedStepKeeps

\* The lease is handed to the executor: nothing is in flight, and no other
\* command holds the page for the owner.
LEMMA ClaimReturnSteps ==
  ASSUME NEW t \in Ops, WorkflowInv, ClaimReturns(t)
  PROVE  WorkflowInv'
<1>1. /\ th[t].pc \in OwnersPlaces
      /\ UNCHANGED <<co, fx, journal, page, ui>>
      /\ disk' = co \/ disk' = disk
  BY OwnersPlaceNames DEF ClaimReturns, At
<1>2. exec.blocked
  BY <1>1, InvFacts, ThreadFacts DEF LeaseInv, OwnersArePlaced
<1>3. budget' \in BudgetStates
  BY InvFacts, FaultKept DEF ClaimReturns
<1>4. disk' \in CoordinatorStates /\ OwnCaps(disk')
  BY <1>1, InvFacts
<1>5. CASE /\ MayReconcileLease /\ exec' = [exec EXCEPT !.epoch = co.epoch, !.blocked = FALSE]
           /\ ctl' = [ctl EXCEPT !.epoch = co.epoch] /\ owner' = "NONE"
           /\ EndsWith(t, "OWNER_STATE_ACCEPTED")
  <2>1. /\ exec' \in ExecutorStates /\ exec'.epoch = co.epoch /\ ~exec'.blocked
        /\ exec'.inFlight = exec.inFlight
    BY <1>5, KeptTypes DEF ExecutorStates
  <2>2. ctl' \in ControllerStates /\ ctl'.epoch = co.epoch
    <3>1. ctl \in ControllerStates /\ co.epoch \in Nat
      BY InvFacts, KeptTypes
    <3> QED BY <1>5, <3>1 DEF ControllerStates
  <2>3. OpMoves(t) /\ th'[t].pc = "done" /\ th'[t].res = "OWNER_STATE_ACCEPTED"
    <3>1. "OWNER_STATE_ACCEPTED" \in CallAnswers
      BY DEF CallAnswers
    <3> QED BY <1>1, <1>5, <3>1, EndedOp
  <2>4. /\ CallsTypeOK' /\ PumpRuns' /\ FlightIsDispatched'
        /\ \A u \in Threads : th'[u].alone => ReconcilesAlone(u)'
    BY <2>1, <2>3, OpMovesKeep
  <2>5. WorkflowTypeOK'
    BY <1>1, <1>3, <1>4, <2>1, <2>2, <2>4, InvFacts
       DEF WorkflowTypeOK, ExecutorStates, ControllerStates, BudgetStates
  <2>6. OneLease'
    BY <1>1, <2>1, <2>2 DEF OneLease
  <2>7. OwnersArePlaced'
    <3>1. ASSUME NEW u \in Threads
          PROVE  ~(th'[u].pc \in OwnersPlaces
                   \/ (th'[u].pc = "done" /\ th'[u].res = "OWNER_CONTROL"))
      <4>1. CASE u = t
        BY <2>3, <4>1, OwnersPlaceNames
      <4>2. CASE u # t
        <5>1. u = Pump
          BY <4>2, ThreadFacts
        <5>2. "OWNER_CONTROL" \notin AgentAnswers
          BY DEF AgentAnswers
        <5> QED BY <2>4, <5>1, <5>2 DEF PumpRuns
      <4> QED BY <4>1, <4>2
    <3> QED BY <3>1 DEF OwnersArePlaced
  <2>8. OwnersWindow' /\ QuietOwner'
    BY <1>5, <2>3 DEF OwnersWindow, QuietOwner
  <2>9. LeaseInv'
    BY <2>4, <2>6, <2>7, <2>8 DEF LeaseInv
  <2>10. exec.inFlight = None
    BY <1>5 DEF MayReconcileLease
  <2>11. \A u \in Threads : th[u].pc \in InFlightPlaces => th'[u] = th[u]
    BY <2>3 DEF OpMoves
  <2>12. OwnCaps(co')
    BY <1>1, InvFacts
  <2> QED BY <1>1, <1>4, <2>1, <2>4, <2>5, <2>9, <2>10, <2>11, <2>12, OwnerStepKeeps
<1>6. CASE UNCHANGED <<exec, ctl, owner>> /\ (EndsWith(t, "THREW") \/ EndsWith(t, "FENCED"))
  <2>1. OpMoves(t)
    <3>1. "THREW" \in CallAnswers /\ "FENCED" \in CallAnswers
      BY DEF CallAnswers, AgentAnswers
    <3> QED BY <1>1, <1>6, <3>1, EndedOp
  <2> QED BY <1>1, <1>2, <1>3, <1>4, <1>6, <2>1, InvFacts, KeptTypes, BlockedStepKeeps
<1> QED BY <1>5, <1>6 DEF ClaimReturns

\* What the projection makes of an answer.
LEMMA ProjectedStates ==
  ASSUME NEW res \in CallAnswers \ {"THREW"}
  PROVE  /\ Projected(res) \in WorkflowStates
         /\ Projected(res) = "OWNER_CONTROL" => res = "OWNER_CONTROL"
BY DEF Projected, CallAnswers, AgentAnswers, WorkflowStates

LEMMA PublishedFields ==
  ASSUME WorkflowInv, NEW res \in CallAnswers \ {"THREW"}, Publishes(res)
  PROVE  page' \in Steps /\ ui' \in UiStates /\ ui'.state = Projected(res) /\ ui'.run = ui.run
<1>1. ui \in UiStates /\ co.step \in Steps /\ Projected(res) \in WorkflowStates
  BY KeptTypes, ProjectedStates
<1> QED BY <1>1 DEF Publishes, UiStates

LEMMA CommandAfterSteps ==
  ASSUME NEW t \in Ops, WorkflowInv, CommandAfter(t)
  PROVE  WorkflowInv'
<1>1. /\ th[t].pc = "done" /\ th[t].res \in CallAnswers /\ t \in Threads
      /\ th[t] \in CallStates
      /\ UNCHANGED <<co, disk, fx, journal, exec, ctl, owner, budget>>
  BY InvFacts, ThreadFacts DEF CommandAfter, At, WorkflowTypeOK, CallsTypeOK
<1>2. OpMoves(t) /\ th'[t].pc \in {"idle", "join"}
  <2>1. CASE th' = [th EXCEPT ![t] = Idle]
    <3>1. Idle.pc = "idle" /\ "idle" # "done"
      BY IdleFields
    <3> QED BY <1>1, <2>1, <3>1, IdleFields, OwnersPlaceNames, SetOp
  <2>2. CASE th' = [th EXCEPT ![t] = [@ EXCEPT !.pc = "join"]]
    <3>1. th' = [th EXCEPT ![t] = Placed(th[t], "join")]
      BY <2>2 DEF Placed
    <3>2. /\ Placed(th[t], "join") \in CallStates /\ Placed(th[t], "join").pc = "join"
          /\ Placed(th[t], "join").alone = th[t].alone
      BY <1>1, PlacedFields, OwnersPlaceNames
    <3>3. th[t].alone => At(Pump, "idle")
      BY <1>1, InvFacts DEF RetryInv, ReconcilesAlone
    <3> QED BY ZenonT(30), <1>1, <3>1, <3>2, <3>3, OwnersPlaceNames, SetOp
  <2> QED BY <2>1, <2>2 DEF CommandAfter
<1>3. /\ CallsTypeOK' /\ PumpRuns' /\ FlightIsDispatched'
      /\ \A u \in Threads : th'[u].alone => ReconcilesAlone(u)'
  BY <1>1, <1>2, OpMovesKeep
<1>4. ASSUME th[t].res = "THREW"
      PROVE  page' \in Steps /\ ui' \in UiStates /\ OwnersWindow'
  <2>1. UNCHANGED <<ui, page>>
    BY <1>4 DEF CommandAfter
  <2>2. ASSUME ui.state = "OWNER_CONTROL", ~exec.blocked PROVE FALSE
    <3>1. PICK u \in Ops : th[u].pc = "done" /\ th[u].res = "OWNER_STATE_ACCEPTED"
      BY <2>2, InvFacts DEF LeaseInv, OwnersWindow
    <3> QED BY <1>4, <3>1, ThreadFacts
  <2>3. OwnersWindow'
    BY <1>1, <2>1, <2>2 DEF OwnersWindow
  <2> QED BY <2>1, <2>3, KeptTypes
<1>5. ASSUME th[t].res # "THREW"
      PROVE  page' \in Steps /\ ui' \in UiStates /\ OwnersWindow'
  <2>1. Publishes(th[t].res)
    BY <1>5 DEF CommandAfter
  <2>2. page' \in Steps /\ ui' \in UiStates /\ ui'.state = Projected(th[t].res)
    BY <1>1, <1>5, <2>1, PublishedFields
  <2>3. ui'.state = "OWNER_CONTROL" => exec.blocked
    BY <1>1, <1>5, <2>2, ProjectedStates, InvFacts DEF LeaseInv, OwnersArePlaced
  <2>4. OwnersWindow'
    BY <1>1, <2>3 DEF OwnersWindow
  <2> QED BY <2>2, <2>4
<1>6. page' \in Steps /\ ui' \in UiStates /\ OwnersWindow'
  BY <1>4, <1>5
<1>7. WorkflowTypeOK'
  BY <1>1, <1>3, <1>6, InvFacts DEF WorkflowTypeOK, UiStates
<1>8. OwnersArePlaced'
  BY <1>1, <1>2, InvFacts, OwnersPlaceNames DEF LeaseInv, OwnersArePlaced, OpMoves
<1>9. OneLease' /\ QuietOwner'
  BY <1>1, InvFacts DEF LeaseInv, OneLease, QuietOwner
<1>10. LeaseInv'
  BY <1>3, <1>6, <1>8, <1>9 DEF LeaseInv
<1>11. OwnCaps(co') /\ OwnCaps(disk')
  BY <1>1, InvFacts
<1>12. \A u \in Threads : th[u].pc \in InFlightPlaces => th'[u] = th[u]
  BY <1>2 DEF OpMoves
<1> QED BY <1>1, <1>3, <1>7, <1>10, <1>11, <1>12, OwnerStepKeeps

(***************************************************************************)
(* The pump starts and ends, and what happens to all at once.              *)
(***************************************************************************)
LEMMA PumpFields ==
  ASSUME NEW u \in UiStates, NEW left \in Nat
  PROVE  /\ PumpAt(u, left) \in CallStates /\ PumpAt(u, left).pc = "run"
         /\ PumpAt(u, left).alone = FALSE
<1>1. u.run \in Nat /\ u.step \in 0..NSteps /\ "run" \in CallPlaces
  BY StepFacts DEF UiStates, CallPlaces, Working
<1> QED BY <1>1, IdleFields DEF PumpAt, CallStates

LEMMA PumpStepKeeps ==
  ASSUME WorkflowInv, th' \in [Threads -> CallStates], th[Pump].pc \notin InFlightPlaces,
         th'[Pump].pc \in {"idle", "run"},
         \A u \in Ops : th'[u] = th[u] \/ (th'[u] = Idle /\ th[u].pc \notin InFlightPlaces),
         \A u \in Threads : ~th'[u].alone,
         UNCHANGED <<co, disk, journal, exec, ctl, owner>>,
         page' \in Steps, ui' \in UiStates, OwnersWindow', budget' \in BudgetStates
  PROVE  WorkflowInv'
<1>1. "idle" \notin InFlightPlaces /\ "run" \notin InFlightPlaces
      /\ "idle" \notin OwnersPlaces /\ "run" \notin OwnersPlaces
  BY DEF InFlightPlaces, OwnersPlaces
<1>2. \A u \in Threads : u = Pump \/ u \in Ops
  BY ThreadFacts
<1>3. \A u \in Threads : th[u].pc \in InFlightPlaces => th'[u] = th[u]
  BY <1>2
<1>4. \A u \in Threads : th'[u].pc \in InFlightPlaces => th'[u] = th[u]
  BY <1>1, <1>2, IdleFields
<1>5. CallsTypeOK'
  BY <1>2, InvFacts, IdleFields DEF WorkflowTypeOK, CallsTypeOK
<1>6. WorkflowTypeOK'
  BY <1>5, InvFacts DEF WorkflowTypeOK, UiStates, BudgetStates
<1>7. FlightIsDispatched'
  BY <1>3, <1>4, InvFacts DEF LeaseInv, FlightIsDispatched, InFlightPlaces
<1>8. OwnersArePlaced'
  BY <1>1, <1>2, IdleFields, InvFacts DEF LeaseInv, OwnersArePlaced
<1>9. PumpRuns'
  BY <1>1, ThreadFacts DEF PumpRuns
<1>10. OneLease' /\ QuietOwner'
  BY InvFacts DEF LeaseInv, OneLease, QuietOwner
<1>11. LeaseInv'
  BY <1>7, <1>8, <1>9, <1>10 DEF LeaseInv
<1>12. OwnCaps(co') /\ OwnCaps(disk')
  BY InvFacts
<1> QED BY <1>3, <1>6, <1>11, <1>12, OwnerStepKeeps

LEMMA JoinSteps ==
  ASSUME NEW t \in Ops, WorkflowInv, Join(t)
  PROVE  WorkflowInv'
<1>1. /\ th[t].pc = "join" /\ t \in Threads /\ Pump \in Threads /\ t # Pump
      /\ th \in [Threads -> CallStates]
      /\ UNCHANGED <<co, disk, fx, journal, page, exec, ctl, owner, budget>>
  BY InvFacts, ThreadFacts DEF Join, At
<1>2. ASSUME ui.state = "OWNER_CONTROL" PROVE exec.blocked
  <2>1. SUFFICES ASSUME ~exec.blocked PROVE FALSE
    BY InvFacts DEF WorkflowTypeOK
  <2>2. PICK u \in Ops : th[u].pc = "done"
    BY <1>2, <2>1, InvFacts DEF LeaseInv, OwnersWindow
  <2> QED BY <1>1, <2>2, ThreadFacts
<1>3. ASSUME NEW u \in Threads, th[u].alone PROVE u = t
  <2>1. u # Pump
    BY <1>3, InvFacts DEF LeaseInv, PumpRuns
  <2> QED BY <2>1, ThreadFacts
<1>4. \A u \in Ops : u = t
  BY ThreadFacts
<1>5. CASE th' = [th EXCEPT ![t] = Idle] /\ UNCHANGED ui
  <2>1. OpMoves(t) /\ th'[t] = Idle
    <3>1. /\ Idle \in CallStates /\ Idle.pc # "done" /\ Idle.pc \notin InFlightPlaces
          /\ ~Idle.alone /\ th[t].pc \notin InFlightPlaces
      BY <1>1, IdleFields, OwnersPlaceNames
    <3> QED BY <1>5, <3>1, SetOp
  <2>2. /\ CallsTypeOK' /\ PumpRuns' /\ FlightIsDispatched'
        /\ \A u \in Threads : th'[u].alone => ReconcilesAlone(u)'
    BY <1>1, <2>1, OpMovesKeep
  <2>3. WorkflowTypeOK'
    BY <1>1, <1>5, <2>2, InvFacts DEF WorkflowTypeOK
  <2>4. OwnersWindow'
    BY <1>1, <1>2, <1>5 DEF OwnersWindow
  <2>5. OwnersArePlaced'
    BY <1>1, <2>1, IdleFields, InvFacts, OwnersPlaceNames DEF LeaseInv, OwnersArePlaced, OpMoves
  <2>6. OneLease' /\ QuietOwner'
    BY <1>1, InvFacts DEF LeaseInv, OneLease, QuietOwner
  <2>7. LeaseInv'
    BY <2>2, <2>4, <2>5, <2>6 DEF LeaseInv
  <2>8. OwnCaps(co') /\ OwnCaps(disk')
    BY <1>1, InvFacts
  <2>9. \A u \in Threads : th[u].pc \in InFlightPlaces => th'[u] = th[u]
    BY <2>1 DEF OpMoves
  <2> QED BY <1>1, <2>2, <2>3, <2>7, <2>8, <2>9, OwnerStepKeeps
<1>6. CASE /\ At(Pump, "idle") /\ th' = [th EXCEPT ![t] = Idle, ![Pump] = PumpAt(ui', 4)]
           /\ ui' = [ui EXCEPT !.run = @ + 1,
                        !.state = IF th[t].kind = "RETRY" THEN "STARTING" ELSE @]
  <2>1. ui' \in UiStates /\ ui'.state \in {"STARTING", ui.state}
    <3>1. ui \in UiStates /\ ui.run + 1 \in Nat /\ "STARTING" \in WorkflowStates
      BY KeptTypes DEF WorkflowStates
    <3>2. PICK state \in {"STARTING", ui.state} :
            ui' = [ui EXCEPT !.run = ui.run + 1, !.state = state]
      BY <1>6
    <3> QED BY <3>1, <3>2 DEF UiStates
  <2> DEFINE c == PumpAt(ui', 4)
  <2>2. c \in CallStates /\ c.pc = "run" /\ c.alone = FALSE
    BY <2>1, PumpFields
  <2>3. th' = [[th EXCEPT ![t] = Idle] EXCEPT ![Pump] = c]
    BY <1>6
  <2> HIDE DEF c
  <2>4. /\ th' \in [Threads -> CallStates] /\ th'[Pump] = c /\ th'[t] = Idle
        /\ \A u \in Threads \ {t, Pump} : th'[u] = th[u]
    BY <1>1, <2>2, <2>3, IdleFields
  <2>5. \A u \in Threads : ~th'[u].alone
    BY <1>3, <2>2, <2>4, IdleFields
  <2>6. OwnersWindow'
    BY <1>1, <1>2, <2>1 DEF OwnersWindow
  <2>7. th[t].pc \notin InFlightPlaces /\ th[Pump].pc \notin InFlightPlaces
    BY <1>1, <1>6, OwnersPlaceNames DEF At
  <2>8. \A u \in Ops : th'[u] = Idle /\ th[u].pc \notin InFlightPlaces
    BY <1>4, <2>4, <2>7
  <2> QED BY <1>1, <2>1, <2>2, <2>4, <2>5, <2>6, <2>7, <2>8, InvFacts, KeptTypes, PumpStepKeeps
<1> QED BY <1>5, <1>6 DEF Join

LEMMA StartSteps ==
  ASSUME WorkflowInv, Start
  PROVE  WorkflowInv'
<1>1. PICK t \in Ops : Command(t, "START")
  BY DEF Start
<1>2. /\ th[t].pc = "idle" /\ Counts /\ th[Pump].pc = "idle" /\ th \in [Threads -> CallStates]
      /\ ui' = [ui EXCEPT !.state = "STARTING", !.run = @ + 1]
      /\ th' = [th EXCEPT ![Pump] = PumpAt(ui', 4)]
      /\ UNCHANGED <<co, disk, fx, journal, page, exec, ctl, owner>>
  BY <1>1, InvFacts DEF Start, Command, At
<1>3. ui' \in UiStates /\ ui'.state = "STARTING"
  <2>1. ui \in UiStates /\ ui.run + 1 \in Nat /\ "STARTING" \in WorkflowStates
    BY KeptTypes DEF WorkflowStates
  <2> QED BY <1>2, <2>1 DEF UiStates
<1> DEFINE c == PumpAt(ui', 4)
<1>4. c \in CallStates /\ c.pc = "run" /\ c.alone = FALSE
  BY <1>3, PumpFields
<1>5. th' = [th EXCEPT ![Pump] = c]
  BY <1>2
<1> HIDE DEF c
<1>6. /\ th' \in [Threads -> CallStates] /\ th'[Pump] = c
      /\ \A u \in Threads \ {Pump} : th'[u] = th[u]
  BY <1>2, <1>4, <1>5, ThreadFacts
<1>7. \A u \in Threads : ~th'[u].alone
  BY <1>1, <1>2, <1>4, <1>6, NoneAlone DEF At
<1>8. budget' \in BudgetStates
  BY <1>2, CommandKept
<1>9. OwnersWindow'
  BY <1>3 DEF OwnersWindow
<1>10. \A u \in Ops : th'[u] = th[u]
  BY <1>6, ThreadFacts
<1> QED BY <1>2, <1>3, <1>4, <1>6, <1>7, <1>8, <1>9, <1>10, KeptTypes, OwnersPlaceNames,
           PumpStepKeeps

LEMMA PumpAfterSteps ==
  ASSUME WorkflowInv, PumpAfter
  PROVE  WorkflowInv'
<1>1. /\ th[Pump].pc = "done" /\ th[Pump].res \in AgentAnswers
      /\ th \in [Threads -> CallStates] /\ th[Pump] \in CallStates
      /\ UNCHANGED <<co, disk, fx, journal, exec, ctl, owner, budget>>
  BY InvFacts, ThreadFacts DEF PumpAfter, At, LeaseInv, PumpRuns
<1>2. \A u \in Threads : ~th[u].alone
  BY <1>1, InvFacts DEF RetryInv, ReconcilesAlone, At
<1>3. /\ page' \in Steps /\ ui' \in UiStates
      /\ ui'.state = "OWNER_CONTROL" => ui.state = "OWNER_CONTROL"
  <2>1. CASE UNCHANGED <<ui, page>>
    BY <2>1, KeptTypes
  <2>2. CASE ui' = [ui EXCEPT !.state = "FAILED"] /\ UNCHANGED page
    <3>1. ui \in UiStates /\ "FAILED" \in WorkflowStates
      BY KeptTypes DEF WorkflowStates
    <3> QED BY <2>2, <3>1, KeptTypes DEF UiStates
  <2>3. CASE th[Pump].res # "THREW" /\ Publishes(th[Pump].res)
    <3>1. th[Pump].res \in CallAnswers \ {"THREW"} /\ th[Pump].res # "OWNER_CONTROL"
      BY <1>1, <2>3 DEF CallAnswers, AgentAnswers
    <3> QED BY <2>3, <3>1, PublishedFields, ProjectedStates
  <2> QED BY <2>1, <2>2, <2>3 DEF PumpAfter
<1>4. PICK c \in CallStates : /\ c.pc \in {"idle", "run"} /\ c.alone = FALSE
                              /\ th' = [th EXCEPT ![Pump] = c]
  <2>1. CASE th' = [th EXCEPT ![Pump] = Idle]
    BY <2>1, IdleFields
  <2>2. CASE PumpGoesOn /\ th' = [th EXCEPT ![Pump] = PumpAt(ui', th[Pump].left - 1)]
    <3>1. th[Pump].left - 1 \in Nat
      <4>1. th[Pump].left \in Nat /\ th[Pump].left > 1
        BY <1>1, <2>2 DEF CallStates, PumpGoesOn
      <4> QED BY <4>1
    <3> QED BY <1>3, <2>2, <3>1, PumpFields
  <2> QED BY <2>1, <2>2 DEF PumpAfter
<1>5. /\ th' \in [Threads -> CallStates] /\ th'[Pump] = c
      /\ \A u \in Threads \ {Pump} : th'[u] = th[u]
  BY <1>1, <1>4, ThreadFacts
<1>6. \A u \in Threads : ~th'[u].alone
  BY <1>2, <1>4, <1>5
<1>7. \A u \in Ops : th'[u] = th[u]
  BY <1>5, ThreadFacts
<1>8. OwnersWindow'
  BY <1>1, <1>3, <1>7, InvFacts DEF LeaseInv, OwnersWindow
<1>9. budget' \in BudgetStates
  BY <1>1, InvFacts
<1> QED BY <1>1, <1>3, <1>4, <1>5, <1>6, <1>7, <1>8, <1>9, OwnersPlaceNames, PumpStepKeeps

LEMMA CancelSteps ==
  ASSUME WorkflowInv, Cancel
  PROVE  WorkflowInv'
<1>1. PICK t \in Ops : Command(t, "CANCEL")
  BY DEF Cancel
<1>2. /\ th[t].pc = "idle" /\ Counts /\ exec' = Fenced(exec) /\ page' = co.step
      /\ ctl' = [ctl EXCEPT !.generation = @ + 1]
      /\ ui' = [state |-> Projected("CANCELED"), step |-> co.step, run |-> ui.run + 1]
      /\ UNCHANGED <<fx, journal, th, owner>>
  BY <1>1 DEF Cancel, Command, At
<1>3. co' = CancelJob(co) \/ co' = co
  BY DEF Cancel
<1>4. co' \in CoordinatorStates /\ OwnCaps(co')
  BY <1>3, InvFacts, LeaseFields
<1>5. disk' \in CoordinatorStates /\ OwnCaps(disk')
  BY <1>4, InvFacts DEF Cancel
<1>6. ui' \in UiStates
  <2>1. "CANCELED" \in CallAnswers \ {"THREW"}
    BY DEF CallAnswers, AgentAnswers
  <2> QED BY <1>2, <2>1, ProjectedStates, KeptTypes DEF UiStates
<1>7. OpMoves(t)
  <2>1. ~th[t].alone
    BY <1>1, NoneAlone, ThreadFacts DEF Command
  <2> QED BY <1>2, <2>1, InvFacts, OwnersPlaceNames DEF OpMoves
<1>8. exec' \in ExecutorStates /\ exec'.blocked /\ exec'.inFlight = exec.inFlight
  BY <1>2, FencedFields
<1>9. ctl' \in ControllerStates /\ budget' \in BudgetStates
  BY <1>2, NextTurn, CommandKept
<1> QED BY <1>2, <1>4, <1>5, <1>6, <1>7, <1>8, <1>9, KeptTypes, BlockedStepKeeps

\* The fence comes at any time, beside a retry too.
LEMMA FenceSteps ==
  ASSUME WorkflowInv, Fence
  PROVE  WorkflowInv'
<1>1. /\ Counts /\ exec' = Fenced(exec) /\ page' = co.step
      /\ ctl' = [ctl EXCEPT !.generation = @ + 1]
      /\ ui' = [state |-> Projected("OWNER_CONTROL"), step |-> co.step, run |-> ui.run + 1]
      /\ UNCHANGED <<co, disk, fx, journal, th, owner>>
  BY DEF Fence
<1>2. ui' \in UiStates
  <2>1. "OWNER_CONTROL" \in CallAnswers \ {"THREW"}
    BY DEF CallAnswers, AgentAnswers
  <2> QED BY <1>1, <2>1, ProjectedStates, KeptTypes DEF UiStates
<1>3. exec' \in ExecutorStates /\ exec'.blocked /\ exec'.inFlight = exec.inFlight
  BY <1>1, FencedFields
<1>4. ctl' \in ControllerStates /\ ctl'.step = ctl.step /\ budget' \in BudgetStates
  BY <1>1, NextTurn, CommandKept
<1>5. WorkflowTypeOK'
  BY <1>1, <1>2, <1>3, <1>4, InvFacts, KeptTypes
     DEF WorkflowTypeOK, CallsTypeOK, UiStates, ExecutorStates, ControllerStates, BudgetStates
<1>6. FlightIsDispatched' /\ PumpRuns'
  BY <1>1, <1>3, InvFacts DEF LeaseInv, FlightIsDispatched, PumpRuns
<1>7. OneLease' /\ OwnersArePlaced' /\ OwnersWindow'
  BY <1>3 DEF OneLease, OwnersArePlaced, OwnersWindow
<1>8. QuietOwner'
  BY <1>1, <1>3, InvFacts DEF LeaseInv, QuietOwner
<1>9. LeaseInv'
  BY <1>6, <1>7, <1>8 DEF LeaseInv
<1>10. ASSUME NEW u \in Threads, th'[u].alone PROVE ReconcilesAlone(u)'
  <2>1. ReconcilesAlone(u)
    BY <1>1, <1>10, InvFacts DEF RetryInv
  <2>2. NotDispatched(ctl.step)' <=> NotDispatched(ctl.step)
    BY <1>1, <1>4 DEF NotDispatched
  <2>3. NotDispatched(Finalize)' <=> NotDispatched(Finalize)
    BY <1>1 DEF NotDispatched
  <2>4. Dispatches' = Dispatches
    BY <1>1 DEF Dispatches
  <2> QED BY <1>1, <1>4, <2>1, <2>2, <2>3, <2>4 DEF ReconcilesAlone, At
<1>11. OwnCaps(co') /\ OwnCaps(disk')
  BY <1>1, InvFacts
<1>12. \A u \in Threads : th[u].pc \in InFlightPlaces => th'[u] = th[u]
  BY <1>1
<1> QED BY <1>1, <1>3, <1>5, <1>9, <1>10, <1>11, <1>12, OwnerStepKeeps

\* Every call idle, under the lease of a coordinator.
LEMMA FreshStart ==
  ASSUME NEW c \in CoordinatorStates
  PROVE  /\ NewExecutor(c) \in ExecutorStates /\ NewExecutor(c).epoch = c.epoch
         /\ NewExecutor(c).inFlight = None
         /\ NewController(c) \in ControllerStates /\ NewController(c).epoch = c.epoch
         /\ c.step \in Steps /\ [t \in Threads |-> Idle] \in [Threads -> CallStates]
BY IdleFields DEF NewExecutor, ExecutorStates, NewController, ControllerStates, CoordinatorStates

LEMMA RestartSteps ==
  ASSUME WorkflowInv, Restart
  PROVE  WorkflowInv'
<1>1. /\ co' = disk /\ disk' = disk /\ journal' = journal /\ page' = disk.step
      /\ exec' = NewExecutor(disk) /\ ctl' = NewController(disk) /\ owner' = "NONE"
      /\ ui' = [state |-> IF Restorable(fx) THEN "READY" ELSE "UNAVAILABLE",
                step |-> disk.step, run |-> 0]
      /\ th' = [t \in Threads |-> Idle] /\ Fault
  BY DEF Restart
<1>2. /\ disk \in CoordinatorStates /\ OwnCaps(disk) /\ journal \in Seq(JournalEntries)
      /\ OneBinding
  BY InvFacts
<1>3. /\ exec' \in ExecutorStates /\ exec'.epoch = disk.epoch /\ exec'.inFlight = None
      /\ ctl' \in ControllerStates /\ ctl'.epoch = disk.epoch
      /\ page' \in Steps /\ th' \in [Threads -> CallStates]
  BY <1>1, <1>2, FreshStart
<1>4. \A t \in Threads : th'[t].pc = "idle" /\ ~th'[t].alone
  BY <1>1, IdleFields
<1>5. ui' \in UiStates /\ ui'.state # "OWNER_CONTROL"
  BY <1>1, <1>3 DEF UiStates, WorkflowStates
<1>6. budget' \in BudgetStates
  BY <1>1, InvFacts, FaultKept
<1>7. WorkflowTypeOK'
  BY <1>1, <1>2, <1>3, <1>4, <1>5, <1>6
     DEF WorkflowTypeOK, CallsTypeOK, UiStates, ExecutorStates, ControllerStates, BudgetStates
<1>8. LeaseInv'
  <2>1. FlightIsDispatched'
    BY <1>3, <1>4, ThreadFacts DEF FlightIsDispatched
  <2>2. OneLease' /\ OwnersWindow' /\ QuietOwner'
    BY <1>1, <1>3, <1>5 DEF OneLease, OwnersWindow, QuietOwner
  <2>3. OwnersArePlaced' /\ PumpRuns'
    BY <1>4, ThreadFacts DEF OwnersArePlaced, PumpRuns, OwnersPlaces
  <2> QED BY <2>1, <2>2, <2>3 DEF LeaseInv
<1>9. OneBinding' /\ InFlightHoldsItsLease'
  BY <1>1, <1>2, <1>3 DEF OneBinding, InFlightHoldsItsLease
<1>10. RetryInv'
  BY <1>1, <1>2, <1>4 DEF RetryInv, OwnCaps
<1> QED BY <1>7, <1>8, <1>9, <1>10 DEF WorkflowInv

LEMMA WorkflowStarts ==
  ASSUME Init
  PROVE  WorkflowInv
<1>1. NewCoordinator \in CoordinatorStates /\ NewCoordinator.outstanding = {}
  BY StepFacts DEF NewCoordinator, CoordinatorStates
<1>2. /\ co = NewCoordinator /\ disk = NewCoordinator /\ journal = <<>> /\ page = 1
      /\ exec = NewExecutor(NewCoordinator) /\ ctl = NewController(NewCoordinator)
      /\ ui = [state |-> "READY", step |-> 1, run |-> 0] /\ owner = "NONE"
      /\ th = [t \in Threads |-> Idle]
      /\ budget = [actions |-> 0, commands |-> 0, faults |-> 0]
  BY DEF Init
<1>3. /\ exec \in ExecutorStates /\ exec.epoch = co.epoch /\ exec.inFlight = None
      /\ ctl \in ControllerStates /\ ctl.epoch = co.epoch
      /\ page \in Steps /\ th \in [Threads -> CallStates]
  BY <1>1, <1>2, FreshStart, StepFacts
<1>4. \A t \in Threads : th[t].pc = "idle" /\ ~th[t].alone
  BY <1>2, IdleFields
<1>5. ui \in UiStates /\ ui.state # "OWNER_CONTROL"
  BY <1>2, StepFacts DEF UiStates, WorkflowStates
<1>6. WorkflowTypeOK
  BY <1>1, <1>2, <1>3, <1>4, <1>5
     DEF WorkflowTypeOK, CallsTypeOK, UiStates, ExecutorStates, ControllerStates
<1>7. LeaseInv
  <2>1. FlightIsDispatched
    BY <1>3, <1>4, ThreadFacts DEF FlightIsDispatched
  <2>2. OneLease /\ OwnersWindow /\ QuietOwner
    BY <1>2, <1>3, <1>5 DEF OneLease, OwnersWindow, QuietOwner
  <2>3. OwnersArePlaced /\ PumpRuns
    BY <1>4, ThreadFacts DEF OwnersArePlaced, PumpRuns, OwnersPlaces
  <2> QED BY <2>1, <2>2, <2>3 DEF LeaseInv
<1>8. OneBinding /\ InFlightHoldsItsLease
  BY <1>2, <1>3 DEF OneBinding, InFlightHoldsItsLease
<1>9. RetryInv
  BY <1>1, <1>2, <1>4 DEF RetryInv
<1> QED BY <1>6, <1>7, <1>8, <1>9 DEF WorkflowInv

LEMMA WorkflowNext ==
  ASSUME WorkflowInv, [Next]_wvars
  PROVE  WorkflowInv'
<1>1. CASE UNCHANGED wvars
  <2>1. WorkflowTypeOK' /\ LeaseInv'
    BY <1>1, InvFacts
       DEF wvars, WorkflowTypeOK, CallsTypeOK, LeaseInv, FlightIsDispatched, OneLease,
           OwnersArePlaced, OwnersWindow, QuietOwner, PumpRuns
  <2>2. OneBinding' /\ InFlightHoldsItsLease'
    BY <1>1, InvFacts DEF wvars, OneBinding, InFlightHoldsItsLease
  <2>3. \A u \in Threads : ReconcilesAlone(u) => ReconcilesAlone(u)'
    BY <1>1 DEF wvars, ReconcilesAlone, At, NotDispatched, Dispatches
  <2>4. RetryInv'
    BY <1>1, <2>3, InvFacts DEF wvars, RetryInv
  <2> QED BY <2>1, <2>2, <2>4 DEF WorkflowInv
<1>2. ASSUME NEW t \in Threads, RunStep(t) PROVE WorkflowInv'
  <2>1. CASE RunBegin(t) \/ TimeExhausted(t)
    BY <2>1, RunBeginSteps, AgentStepKeeps
  <2>2. CASE ObserveStep(t)
    BY <2>2, ObserveSteps, AgentStepKeeps
  <2>3. CASE ProviderAnswers(t)
    BY <2>3, ProviderSteps, AgentStepKeeps
  <2>4. CASE AcceptReturns(t)
    BY <2>4, AcceptReturnSteps, AgentStepKeeps
  <2>5. CASE VerifyDispatched(t) \/ Recheck(t) \/ Perform(t)
    BY <2>5, VerifySteps, AgentStepKeeps
  <2>6. CASE ExecuteAccepted(t)
    BY <2>6, ExecuteSteps
  <2>7. CASE PerformReturns(t)
    BY <2>7, PerformReturnSteps
  <2>8. CASE Receipt(t) \/ ReceiptReturns(t) \/ ReceiptFails(t)
    BY <2>8, ReceiptSteps, AgentStepKeeps
  <2> QED BY <1>2, <2>1, <2>2, <2>3, <2>4, <2>5, <2>6, <2>7, <2>8 DEF RunStep
<1>3. ASSUME NEW t \in Ops, CommandStep(t) PROVE WorkflowInv'
  <2>1. t \in Threads
    BY ThreadFacts
  <2>2. CASE ReconcileBegin(t)
    BY <2>1, <2>2, ReconcileBegins, AgentStepKeeps
  <2>3. CASE ReconcileObserve(t)
    BY <2>1, <2>3, ReconcileObserves, AgentStepKeeps
  <2>4. CASE Retry(t) \/ TakeOver(t) \/ Quiesce(t) \/ TakeoverReturns(t)
    BY <2>4, RetrySteps, TakeOverSteps, QuiesceSteps, TakeoverReturnSteps
  <2>5. CASE HandBack(t) \/ Capture(t) \/ ProgressReturns(t) \/ ClaimReturns(t)
    BY <2>5, HandBackSteps, CaptureSteps, ProgressReturnSteps, ClaimReturnSteps
  <2>6. CASE CommandAfter(t) \/ Join(t)
    BY <2>6, CommandAfterSteps, JoinSteps
  <2> QED BY <1>3, <2>2, <2>3, <2>4, <2>5, <2>6 DEF CommandStep
<1>4. CASE Start \/ PumpAfter \/ Cancel \/ Fence \/ Restart
  BY <1>4, StartSteps, PumpAfterSteps, CancelSteps, FenceSteps, RestartSteps
<1> QED BY <1>1, <1>2, <1>3, <1>4 DEF Next

\* The delegated workflow keeps its types and its inductive invariant: one
\* lease for coordinator, controller and executor unless a takeover or a fence
\* blocked the executor, and a retry given alone kept alone
\* (desktop-delegated-workflow.ts, workflow-controller.ts, agent-executor.ts).
THEOREM WorkflowInvariant == Spec => []WorkflowInv
<1>1. Init => WorkflowInv
  BY WorkflowStarts
<1>2. WorkflowInv /\ [Next]_wvars => WorkflowInv'
  BY WorkflowNext
<1> QED BY <1>1, <1>2, PTL DEF Spec

\* Owner control that began quiesced stays quiet: no action of the agent is
\* dispatched or still runs until the lease is handed back
\* (markOfflineTakeover and reconcileAgentLease of the executor).
THEOREM QuietWhileOwners == Spec => []QuiescedIsQuiet
<1>1. WorkflowInv => QuiescedIsQuiet
  BY DEF WorkflowInv, LeaseInv, QuietOwner, QuiescedIsQuiet
<1> QED BY <1>1, WorkflowInvariant, PTL

\* Whatever order the journal's queue, a takeover and a hand-back come in, an
\* action in flight runs under the lease that all its entries carry, or the
\* executor is blocked.
THEOREM FlightHoldsLease == Spec => []InFlightHoldsItsLease
<1>1. WorkflowInv => InFlightHoldsItsLease
  BY DEF WorkflowInv
<1> QED BY <1>1, WorkflowInvariant, PTL

\* A retry given while no pump runs never dispatches the finalization again:
\* reconcile() finds its evidence, and nothing else dispatches meanwhile.
THEOREM FinalizeWaits == Spec => []UnknownFinalizeWaits
<1>1. ASSUME WorkflowInv, NEW t \in Threads, At(t, "dispatched"), th[t].alone, ~th[t].asked,
             th[t].cap = Finalize
      PROVE  Cardinality(Dispatches) = 1
  BY <1>1 DEF WorkflowInv, RetryInv, ReconcilesAlone
<1>2. WorkflowInv => UnknownFinalizeWaits
  BY <1>1 DEF UnknownFinalizeWaits, Dispatches
<1> QED BY <1>2, WorkflowInvariant, PTL
================================================================================
