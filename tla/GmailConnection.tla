---------------------------- MODULE GmailConnection ----------------------------
(***************************************************************************)
(* The owner's Gmail connection (gmail-oauth-controller.ts), the vault its *)
(* refresh token is kept in (gmail-token-store.ts over secret-vault.ts),   *)
(* the card of the builder's window that offers Connect or Disconnect      *)
(* (GmailConnectionCard.tsx), and the reviews of the inbox a run makes.    *)
(*                                                                         *)
(* Connecting, disconnecting and refreshing are calls with awaits in them, *)
(* and any number of them may be between two steps at once.  What they     *)
(* share is the number of the credential (epoch), the access token in      *)
(* memory and the vault, which serves one operation at a time, in the      *)
(* order they were asked for.  A grant is named by the number of the       *)
(* connection that obtained it: a token is of a grant.                     *)
(***************************************************************************)
EXTENDS Naturals, Sequences

CONSTANTS
    Disconnections,  \* the calls that may disconnect
    Reviews,         \* the reviews of the inbox that may be under way at once
    MaxConnects,     \* bound: connections the owner begins
    MaxReviews,      \* bound: reviews begun
    MaxTroubles,     \* bound: operations of the vault that fail
    MaxReopenings    \* bound: times the window is closed and opened again

GmailAssumption == /\ {MaxConnects, MaxReviews, MaxTroubles, MaxReopenings} \subseteq Nat
                   /\ Disconnections \cap {"connect", "refresh"} = {}

ASSUME GmailAssumption

VARIABLES
    vault,     \* the grant whose refresh token is stored, 0: none
    queue,     \* operations of the vault not yet carried out, oldest first
    epoch,     \* credentialEpoch
    access,    \* the access token in memory: its grant (0: none), and not yet expired
    connect,   \* the connection under way (activeConnect)
    connects,  \* connections begun: the last one's number is its grant's
    disconnect,\* per disconnection: what it does, and the token it withdraws
    refresh,   \* the refresh under way (refreshInFlight)
    review,    \* per review: what it does, and the token it was lent
    honoured,  \* the grants Google still answers for
    card,      \* what the card shows, and whether it waits for an answer
    withdrawn, \* history: the last connection a completed disconnection withdrew
    canceled,  \* history: the connections answered as canceled
    troubles, reopenings, reviewed  \* bounds used

gmailVars == <<vault, queue, epoch, access, connect, connects, disconnect, refresh, review,
               honoured, card, withdrawn, canceled, troubles, reopenings, reviewed>>

Grants == 0..MaxConnects
NoAccess == [grant |-> 0, fresh |-> FALSE]
NoConnect == [phase |-> "idle", epoch |-> 0, aborted |-> FALSE, heard |-> FALSE]
NoRefresh == [phase |-> "idle", epoch |-> 0, aborted |-> FALSE, grant |-> 0]
NotAsked == [phase |-> "idle", grant |-> 0, upTo |-> 0, heard |-> FALSE]
NoReview == [phase |-> "idle", grant |-> 0, since |-> 0]

GmailInit ==
    /\ vault = 0 /\ queue = <<>> /\ epoch = 0 /\ access = NoAccess
    /\ connect = NoConnect /\ connects = 0 /\ refresh = NoRefresh
    /\ disconnect = [d \in Disconnections |-> NotAsked]
    /\ review = [r \in Reviews |-> NoReview]
    /\ honoured = {} /\ card = [shows |-> "DISCONNECTED", pending |-> FALSE]
    /\ withdrawn = 0 /\ canceled = {} /\ troubles = 0 /\ reopenings = 0 /\ reviewed = 0

(***************************************************************************)
(* The vault.  A caller asks for an operation and goes on when it has been *)
(* carried out, or has failed.                                             *)
(***************************************************************************)
Ask(op, by) == queue' = Append(queue, [op |-> op, by |-> by])

Turn(op, by) == queue # <<>> /\ Head(queue) = [op |-> op, by |-> by]

\* The operation fails: the protection is unavailable, or the file is refused.
Trouble == troubles < MaxTroubles /\ troubles' = troubles + 1

(***************************************************************************)
(* Connecting.  The ceremony is the loopback server, the browser, the      *)
(* exchange of the code and the reading of the address: its awaits all     *)
(* race the abort, and touch nothing the others see.                       *)
(***************************************************************************)
Connect ==
    /\ card.shows = "DISCONNECTED" /\ ~card.pending
    /\ connect.phase = "idle" /\ connects < MaxConnects
    /\ connects' = connects + 1
    /\ connect' = [phase |-> "ceremony", epoch |-> epoch, aborted |-> FALSE, heard |-> TRUE]
    /\ card' = [card EXCEPT !.pending = TRUE]
    /\ UNCHANGED <<vault, queue, epoch, access, disconnect, refresh, review, honoured,
                   withdrawn, canceled, troubles, reopenings, reviewed>>

ConnectTimesOut ==
    /\ connect.phase # "idle" /\ ~connect.aborted
    /\ connect' = [connect EXCEPT !.aborted = TRUE]
    /\ UNCHANGED <<vault, queue, epoch, access, connects, disconnect, refresh, review, honoured,
                   card, withdrawn, canceled, troubles, reopenings, reviewed>>

\* The answer of connect, which a card closed since does not hear.
ConnectAnswers(connected) ==
    /\ connect' = NoConnect
    /\ card' = IF ~connect.heard THEN card
               ELSE [shows |-> IF connected THEN "CONNECTED" ELSE card.shows, pending |-> FALSE]

CeremonyFails ==
    /\ connect.phase = "ceremony"
    /\ ConnectAnswers(FALSE)
    /\ canceled' = IF connect.aborted THEN canceled \union {connects} ELSE canceled
    /\ UNCHANGED <<vault, queue, epoch, access, connects, disconnect, refresh, review, honoured,
                   withdrawn, troubles, reopenings, reviewed>>

\* Google granted access and named the account: the refresh token is to be stored.
CeremonyEnds ==
    /\ connect.phase = "ceremony" /\ ~connect.aborted
    /\ connect' = [connect EXCEPT !.phase = "storing"]
    /\ honoured' = honoured \union {connects}
    /\ Ask("store", "connect")
    /\ UNCHANGED <<vault, epoch, access, connects, disconnect, refresh, review, card, withdrawn,
                   canceled, troubles, reopenings, reviewed>>

\* What the connection finds once its token is stored.
Superseded == connect.aborted \/ connect.epoch # epoch

\* Seeded fault: a connection canceled meanwhile says so and leaves what it stored.
TokenStoredKept ==
    /\ Turn("store", "connect")
    /\ vault' = connects /\ queue' = Tail(queue)
    /\ ConnectAnswers(~Superseded)
    /\ access' = IF Superseded THEN access ELSE [grant |-> connects, fresh |-> TRUE]
    /\ canceled' = IF Superseded THEN canceled \union {connects} ELSE canceled
    /\ UNCHANGED <<epoch, connects, disconnect, refresh, review, honoured, withdrawn, troubles,
                   reopenings, reviewed>>

TokenStored ==
    /\ Turn("store", "connect")
    /\ vault' = connects
    /\ \/ /\ Superseded
          /\ connect' = [connect EXCEPT !.phase = "undoing"]
          /\ queue' = Append(Tail(queue), [op |-> "remove", by |-> "connect"])
          /\ UNCHANGED <<access, card>>
       \/ /\ ~Superseded
          /\ access' = [grant |-> connects, fresh |-> TRUE]
          /\ ConnectAnswers(TRUE)
          /\ queue' = Tail(queue)
    /\ UNCHANGED <<epoch, connects, disconnect, refresh, review, honoured, withdrawn, canceled,
                   troubles, reopenings, reviewed>>

TokenUndone ==
    /\ Turn("remove", "connect")
    /\ vault' = 0 /\ queue' = Tail(queue)
    /\ ConnectAnswers(FALSE)
    /\ canceled' = canceled \union {connects}
    /\ UNCHANGED <<epoch, access, connects, disconnect, refresh, review, honoured, withdrawn,
                   troubles, reopenings, reviewed>>

\* The vault refused the connection's token, or to remove it again.
ConnectRefused ==
    /\ Turn("store", "connect") \/ Turn("remove", "connect")
    /\ Trouble
    /\ queue' = Tail(queue)
    /\ ConnectAnswers(FALSE)
    /\ UNCHANGED <<vault, epoch, access, connects, disconnect, refresh, review, honoured,
                   withdrawn, canceled, reopenings, reviewed>>

(***************************************************************************)
(* Disconnecting.  It aborts what is under way, reads the token, forgets   *)
(* the access token, asks Google to revoke the grant and, whatever Google  *)
(* said within its five seconds, removes the token.                        *)
(***************************************************************************)
Disconnect(d) ==
    /\ card.shows = "CONNECTED" /\ ~card.pending
    /\ disconnect[d].phase = "idle"
    /\ epoch' = epoch + 1
    /\ connect' = [connect EXCEPT !.aborted = @ \/ connect.phase # "idle"]
    /\ refresh' = [refresh EXCEPT !.aborted = @ \/ refresh.phase # "idle"]
    /\ disconnect' = [disconnect EXCEPT
                        ![d] = [phase |-> "reading", grant |-> 0, upTo |-> connects,
                                heard |-> TRUE]]
    /\ card' = [card EXCEPT !.pending = TRUE]
    /\ Ask("read", d)
    /\ UNCHANGED <<vault, access, connects, review, honoured, withdrawn, canceled, troubles,
                   reopenings, reviewed>>

\* The token to revoke: the vault's or, when it has none to give, the one in memory.
TokenToRevokeRead(d) ==
    /\ Turn("read", d)
    /\ \E token \in {IF vault # 0 THEN vault ELSE access.grant, access.grant} :
          /\ IF vault # 0 /\ token # vault THEN Trouble ELSE UNCHANGED troubles
          /\ access' = NoAccess
          /\ disconnect' = [disconnect EXCEPT
                              ![d].phase = IF token # 0 THEN "revoking" ELSE "removing",
                              ![d].grant = token]
          /\ queue' = IF token # 0 THEN Tail(queue)
                      ELSE Append(Tail(queue), [op |-> "remove", by |-> d])
    /\ UNCHANGED <<vault, epoch, connect, connects, refresh, review, honoured, card, withdrawn,
                   canceled, reopenings, reviewed>>

\* Google revoked the grant, refused, or did not answer in time.
RevocationEnds(d) ==
    /\ disconnect[d].phase = "revoking"
    /\ honoured' \in {honoured, honoured \ {disconnect[d].grant}}
    /\ disconnect' = [disconnect EXCEPT ![d].phase = "removing"]
    /\ Ask("remove", d)
    /\ UNCHANGED <<vault, epoch, access, connect, connects, refresh, review, card, withdrawn,
                   canceled, troubles, reopenings, reviewed>>

DisconnectAnswers(d, removed) ==
    /\ queue' = Tail(queue)
    /\ disconnect' = [disconnect EXCEPT ![d] = [NotAsked EXCEPT !.phase = "answered"]]
    /\ card' = IF ~disconnect[d].heard THEN card
               ELSE [shows |-> IF removed THEN "DISCONNECTED" ELSE card.shows, pending |-> FALSE]

Greater(a, b) == IF a > b THEN a ELSE b

TokenRemoved(d) ==
    /\ Turn("remove", d)
    /\ vault' = 0
    /\ DisconnectAnswers(d, TRUE)
    /\ withdrawn' = Greater(withdrawn, disconnect[d].upTo)
    /\ UNCHANGED <<epoch, access, connect, connects, refresh, review, honoured, canceled, troubles,
                   reopenings, reviewed>>

WithdrawalFails(d) ==
    /\ Turn("remove", d) /\ Trouble
    /\ DisconnectAnswers(d, FALSE)
    /\ UNCHANGED <<vault, epoch, access, connect, connects, refresh, review, honoured, withdrawn,
                   canceled, reopenings, reviewed>>

(***************************************************************************)
(* Lending the access token to a review.  One that finds none, or an       *)
(* expired one, waits for the refresh under way, or starts one.            *)
(***************************************************************************)
Usable == access.grant # 0 /\ access.fresh

BeginReview(r) ==
    /\ review[r].phase = "idle" /\ reviewed < MaxReviews
    /\ reviewed' = reviewed + 1
    /\ \/ /\ Usable
          /\ review' = [review EXCEPT ![r] = [phase |-> "using", grant |-> access.grant,
                                              since |-> withdrawn]]
          /\ UNCHANGED <<refresh, queue>>
       \/ /\ ~Usable
          /\ review' = [review EXCEPT ![r] = [phase |-> "waiting", grant |-> 0,
                                              since |-> withdrawn]]
          /\ IF refresh.phase # "idle" THEN UNCHANGED <<refresh, queue>>
             ELSE /\ refresh' = [phase |-> "reading", epoch |-> epoch, aborted |-> FALSE,
                                 grant |-> 0]
                  /\ Ask("read", "refresh")
    /\ UNCHANGED <<vault, epoch, access, connect, connects, disconnect, honoured, card, withdrawn,
                   canceled, troubles, reopenings>>

\* A review answered, or given up by its run.
ReviewEnds(r) ==
    /\ review[r].phase # "idle"
    /\ review' = [review EXCEPT ![r] = NoReview]
    /\ UNCHANGED <<vault, queue, epoch, access, connect, connects, disconnect, refresh, honoured,
                   card, withdrawn, canceled, troubles, reopenings, reviewed>>

\* The refresh settles: who waited goes on with the token in memory, or fails.
RefreshSettles(token) ==
    /\ refresh' = NoRefresh
    /\ review' = [r \in Reviews |->
                    IF review[r].phase # "waiting" THEN review[r]
                    ELSE IF token = 0 THEN NoReview
                    ELSE [review[r] EXCEPT !.phase = "using", !.grant = token]]

RefreshTokenRead ==
    /\ Turn("read", "refresh")
    /\ queue' = Tail(queue)
    /\ \/ /\ vault # 0 /\ ~refresh.aborted
          /\ refresh' = [refresh EXCEPT !.phase = "requesting", !.grant = vault]
          /\ UNCHANGED <<review, troubles>>
       \/ /\ vault = 0 \/ refresh.aborted
          /\ RefreshSettles(0) /\ UNCHANGED troubles
       \/ Trouble /\ RefreshSettles(0)
    /\ UNCHANGED <<vault, epoch, access, connect, connects, disconnect, honoured, card, withdrawn,
                   canceled, reopenings, reviewed>>

\* Google's answer has begun; its body is read without looking at the abort.
GoogleAnswers ==
    /\ refresh.phase = "requesting" /\ ~refresh.aborted
    /\ refresh' = [refresh EXCEPT !.phase = "answering"]
    /\ UNCHANGED <<vault, queue, epoch, access, connect, connects, disconnect, review, honoured,
                   card, withdrawn, canceled, troubles, reopenings, reviewed>>

Refreshed ==
    /\ refresh.phase = "answering" /\ refresh.grant \in honoured
    /\ ~refresh.aborted /\ refresh.epoch = epoch
    /\ access' = [grant |-> refresh.grant, fresh |-> TRUE]
    /\ RefreshSettles(refresh.grant)
    /\ UNCHANGED <<vault, queue, epoch, connect, connects, disconnect, honoured, card, withdrawn,
                   canceled, troubles, reopenings, reviewed>>

\* No answer in time, a refusal that names no reason, or an abort.
RefreshFails ==
    /\ refresh.phase \in {"requesting", "answering"}
    /\ RefreshSettles(0)
    /\ UNCHANGED <<vault, queue, epoch, access, connect, connects, disconnect, honoured, card,
                   withdrawn, canceled, troubles, reopenings, reviewed>>

\* invalid_grant: the stored token is removed, whichever it is by then.
GrantInvalid ==
    /\ refresh.phase = "answering" /\ refresh.grant \notin honoured /\ ~refresh.aborted
    /\ refresh' = [refresh EXCEPT !.phase = "removing"]
    /\ Ask("remove", "refresh")
    /\ UNCHANGED <<vault, epoch, access, connect, connects, disconnect, review, honoured, card,
                   withdrawn, canceled, troubles, reopenings, reviewed>>

InvalidRemoved ==
    /\ Turn("remove", "refresh")
    /\ queue' = Tail(queue)
    /\ \/ vault' = 0 /\ UNCHANGED troubles
       \/ Trouble /\ UNCHANGED vault
    /\ RefreshSettles(0)
    /\ UNCHANGED <<epoch, access, connect, connects, disconnect, honoured, card, withdrawn,
                   canceled, reopenings, reviewed>>

(***************************************************************************)
(* The rest of the world: the access token expires, the owner revokes the  *)
(* grant at Google, the window is closed and opened again.                 *)
(***************************************************************************)
AccessExpires ==
    /\ Usable /\ access' = [access EXCEPT !.fresh = FALSE]
    /\ UNCHANGED <<vault, queue, epoch, connect, connects, disconnect, refresh, review, honoured,
                   card, withdrawn, canceled, troubles, reopenings, reviewed>>

RevokedAtGoogle ==
    /\ \E g \in honoured : honoured' = honoured \ {g}
    /\ UNCHANGED <<vault, queue, epoch, access, connect, connects, disconnect, refresh, review,
                   card, withdrawn, canceled, troubles, reopenings, reviewed>>

\* The new card shows what status reads; it hears no answer the old one waited for.
WindowReopens ==
    /\ reopenings < MaxReopenings /\ reopenings' = reopenings + 1
    /\ connect' = [connect EXCEPT !.heard = FALSE]
    /\ disconnect' = [d \in Disconnections |-> [disconnect[d] EXCEPT !.heard = FALSE]]
    /\ \/ /\ card' = [shows |-> IF vault = 0 THEN "DISCONNECTED" ELSE "CONNECTED",
                      pending |-> FALSE]
          /\ UNCHANGED troubles
       \/ Trouble /\ card' = [shows |-> "UNAVAILABLE", pending |-> FALSE]
    /\ UNCHANGED <<vault, queue, epoch, access, connects, refresh, review, honoured, withdrawn,
                   canceled, reviewed>>

GmailNext ==
    \/ Connect \/ ConnectTimesOut \/ CeremonyFails \/ CeremonyEnds
    \/ TokenStored \/ TokenUndone \/ ConnectRefused
    \/ \E d \in Disconnections :
          \/ Disconnect(d) \/ TokenToRevokeRead(d) \/ RevocationEnds(d)
          \/ TokenRemoved(d) \/ WithdrawalFails(d)
    \/ \E r \in Reviews : BeginReview(r) \/ ReviewEnds(r)
    \/ RefreshTokenRead \/ GoogleAnswers \/ Refreshed \/ RefreshFails
    \/ GrantInvalid \/ InvalidRemoved
    \/ AccessExpires \/ RevokedAtGoogle \/ WindowReopens

GmailSpec == GmailInit /\ [][GmailNext]_gmailVars

--------------------------------------------------------------------------------
(* The vault keeps no grant the owner was told is gone: neither one of a   *)
(* connection answered as canceled, although its token was being stored    *)
(* when it was aborted, nor one of a connection begun before a             *)
(* disconnection that was answered.                                        *)
WithdrawnGrantIsGone ==
    vault # 0 => vault > withdrawn /\ vault \notin canceled

(* What the owner confirms when disconnecting: "Future inbox-review steps  *)
(* will wait until you reconnect."  A review begun after the answer is     *)
(* lent no token of a grant that was withdrawn and that Google would still *)
(* answer for.                                                             *)
DisconnectedReadsNoMail ==
    \A r \in Reviews :
        review[r].phase = "using" /\ review[r].grant \in honoured =>
            review[r].grant > review[r].since
================================================================================
