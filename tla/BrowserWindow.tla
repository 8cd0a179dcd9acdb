----------------------------- MODULE BrowserWindow -----------------------------
(***************************************************************************)
(* The desktop's browser workspace over the lives of its process: the      *)
(* window, who controls the browser in it, the transfer of that control,   *)
(* the forgetting of the local session, and what the disk keeps of it (the *)
(* profile directory, its lock file, the pending removal).                 *)
(*                                                                         *)
(* A window is one createVillageAppWindow: its executor, its viewport, its *)
(* state and its gates are its own, and a request it began goes on after   *)
(* it is closed.  One process runs at a time (the single-instance lock),   *)
(* and a process may open the workspace again when its window is closed.   *)
(***************************************************************************)
EXTENDS Naturals

CONSTANTS
    MaxProcesses,   \* bound: lives of the application
    MaxWindows      \* bound: workspaces opened in them all

ASSUME WindowAssumption == MaxProcesses \in Nat /\ MaxWindows \in Nat

VARIABLES
    process,    \* the running application
    windows,    \* every window it or an earlier one opened
    saved,       \* what outlives the process
    forgotten,  \* profiles whose removal was acknowledged to the owner
    opened      \* profiles this process handed to Chromium

windowVars == <<process, windows, saved, forgotten, opened>>

Windows == 1..MaxWindows
Unlocked == 0           \* no lock file
Unsigned == MaxProcesses + 1    \* a lock file whose process id was never written

\* DesktopBrowserUiState, the executor, the viewport and the gates of a window to come.
NewWindow ==
    [phase |-> "none", job |-> "RUNNING_AGENT", controller |-> "AGENT", takeover |-> "NONE",
     connection |-> "ONLINE", profile |-> "PRESENT", erasure |-> "IDLE",
     blocked |-> FALSE, input |-> FALSE, view |-> FALSE, gone |-> FALSE,
     busy |-> "NONE", transfer |-> "idle", forget |-> "idle", binding |-> "PRESENT", shows |-> 0]

ClosedWindow == [NewWindow EXCEPT !.phase = "closed"]

WindowInit ==
    /\ process = [life |-> 1, up |-> FALSE, builder |-> FALSE, launch |-> "idle"]
    /\ windows = [w \in Windows |-> NewWindow]
    /\ saved = [profile |-> 0, made |-> 0, lock |-> Unlocked, pending |-> "NONE"]
    /\ forgotten = {}
    /\ opened = {}

Live == {w \in Windows : windows[w].phase = "open"}
NextWindow(w) == windows[w].phase = "none" /\ \A v \in 1..(w - 1) : windows[v].phase # "none"
\* What one call changes, and what another of its parts changes besides.
Both(changes, others) ==
    [f \in DOMAIN changes \union DOMAIN others |->
        IF f \in DOMAIN changes THEN changes[f] ELSE others[f]]

Alters(w, changes) ==
    windows' = [windows EXCEPT ![w] = [f \in DOMAIN NewWindow |->
                   IF f \in DOMAIN changes THEN changes[f] ELSE windows[w][f]]]

---------------------------------------------------------------------------
(* The process. *)

\* The application starts, as the Steward's window or as the workspace alone.
StartProcess ==
    /\ ~process.up
    /\ \E builder \in BOOLEAN :
         process' = [process EXCEPT !.up = TRUE, !.builder = builder]
    /\ UNCHANGED <<windows, saved, forgotten, opened>>

\* The next life of the application; requests of the last one end with it.
Ends(lock) ==
    /\ process' = [life |-> process.life + 1, up |-> FALSE, builder |-> FALSE, launch |-> "idle"]
    /\ windows' = [w \in Windows |->
                     IF windows[w].phase = "none" THEN NewWindow
                     ELSE ClosedWindow]
    /\ saved' = [saved EXCEPT !.lock = lock]
    /\ opened' = {}
    /\ UNCHANGED forgotten

Crash == process.up /\ process.life < MaxProcesses /\ Ends(saved.lock)

\* The builder's window is opened from the menu, or closed by the owner.
BuilderWindow ==
    /\ process.up
    /\ process' = [process EXCEPT !.builder = ~process.builder]
    /\ process.builder => Live # {} \/ process.launch # "idle"
    /\ UNCHANGED <<windows, saved, forgotten, opened>>

\* A quit closes the windows, whose hosts release the lock, and the process ends.
Quit ==
    /\ process.up /\ process.launch = "idle" /\ process.life < MaxProcesses
    /\ Ends(IF Live # {} THEN Unlocked ELSE saved.lock)

---------------------------------------------------------------------------
(* Opening the workspace: what was left to remove is removed first. *)

\* One workspace at a time: a launch counts until its window is closed.
OpenWorkspace ==
    /\ process.up /\ process.launch = "idle" /\ Live = {}
    /\ \E w \in Windows : NextWindow(w)
    /\ process' = [process EXCEPT !.launch =
                     IF saved.pending = "NONE" THEN "protecting" ELSE "erasing"]
    /\ UNCHANGED <<windows, saved, forgotten, opened>>

\* A first launch that fails ends the process; a later one is reported.
LaunchFails ==
    IF process.builder
    THEN /\ process' = [process EXCEPT !.launch = "idle"]
         /\ UNCHANGED <<windows, saved, forgotten, opened>>
    ELSE process.life < MaxProcesses /\ Ends(saved.lock)

\* Seeded fault: the record goes before the directory.
ClearFirst ==
    /\ process.launch = "erasing"
    /\ saved' = [saved EXCEPT !.pending = "NONE"]
    /\ process' = [process EXCEPT !.launch = "protecting"]
    /\ UNCHANGED <<windows, forgotten, opened>>

\* The directory is removed, and found absent; its record is there until then.
EraseScopedProfile ==
    /\ process.launch = "erasing"
    /\ saved' = [saved EXCEPT !.profile = 0]
    /\ process' = [process EXCEPT !.launch = "clearing"]
    /\ UNCHANGED <<windows, forgotten, opened>>

RemovalFails == process.launch = "erasing" /\ LaunchFails

ClearPending ==
    /\ process.launch = "clearing"
    /\ saved' = [saved EXCEPT !.pending = "NONE"]
    /\ process' = [process EXCEPT !.launch = "protecting"]
    /\ UNCHANGED <<windows, forgotten, opened>>

\* The profile's directory is there, private and excluded from the backups, or made.
EnsureProtectedProfile ==
    /\ process.launch = "protecting"
    /\ saved' = IF saved.profile # 0 THEN saved
               ELSE [saved EXCEPT !.profile = saved.made + 1, !.made = saved.made + 1]
    /\ process' = [process EXCEPT !.launch = "locking"]
    /\ UNCHANGED <<windows, forgotten, opened>>

ProtectionFails == process.launch = "protecting" /\ LaunchFails

\* A lock whose process is gone is unlinked, and taken in the same pass; its
\* number is written next.
AcquireLock ==
    /\ process.launch = "locking"
    /\ saved.lock # Unsigned /\ saved.lock # process.life
    /\ saved' = [saved EXCEPT !.lock = Unsigned]
    /\ process' = [process EXCEPT !.launch = "signing"]
    /\ UNCHANGED <<windows, forgotten, opened>>

\* The lock is held, or nobody can say by whom.
ProfileInUse ==
    /\ process.launch = "locking"
    /\ saved.lock \in {Unsigned, process.life}
    /\ LaunchFails

SignLock ==
    /\ process.launch = "signing"
    /\ saved' = [saved EXCEPT !.lock = process.life]
    /\ process' = [process EXCEPT !.launch = "showing"]
    /\ UNCHANGED <<windows, forgotten, opened>>

\* The view is loaded over the profile and the window shown.
ShowWindow ==
    /\ process.launch = "showing"
    /\ process' = [process EXCEPT !.launch = "idle"]
    /\ \E w \in Windows :
         /\ NextWindow(w)
         /\ Alters(w, [phase |-> "open", view |-> TRUE, shows |-> saved.profile])
    /\ opened' = opened \union {saved.profile}
    /\ UNCHANGED <<saved, forgotten>>

\* The owner closes the window: its host releases the lock, its transfers are of no
\* more use, and without another window the application quits.
CloseWindow(w) ==
    /\ windows[w].phase = "open" /\ process.builder
    /\ Alters(w, IF windows[w].forget = "idle" THEN ClosedWindow
              ELSE [phase |-> "closed", view |-> FALSE, input |-> FALSE, blocked |-> TRUE,
                    gone |-> FALSE, busy |-> "NONE", transfer |-> "idle"])
    /\ saved' = [saved EXCEPT !.lock = Unlocked]
    /\ UNCHANGED <<process, forgotten, opened>>

---------------------------------------------------------------------------
(* Who controls the browser. *)

\* The actions deriveBrowserUiModel gives buttons, in the order of its tests.
Buttons(w) ==
    LET s == windows[w]
        forget == IF s.profile = "ABSENT" THEN {} ELSE {"FORGET"}
    IN  CASE s.profile = "ERASURE_FAILED" \/ s.erasure = "FAILED" -> {"FORGET", "CANCEL"}
          [] s.profile = "FORGETTING" \/ s.erasure = "ERASING" -> {}
          [] s.connection = "ABSENT" \/ s.job = "WAITING_FOR_BROWSER" -> {"CANCEL"} \union forget
          [] s.takeover = "QUIESCING" -> {}
          [] s.takeover = "RECONCILING" -> {"CANCEL"} \union forget
          [] s.controller = "USER" -> {"RETURN", "CANCEL"} \union forget
          [] s.job = "CANCELED" -> {"FORGET"}
          [] OTHER -> {"TAKE_OVER", "CANCEL"} \union forget

\* One action of the pane at a time, until the renderer that asked is replaced.
Asks(w, action) ==
    /\ windows[w].phase = "open"
    /\ windows[w].busy = "NONE"
    /\ action \in Buttons(w)

Answered(w, action) == IF windows[w].busy = action THEN "NONE" ELSE windows[w].busy

\* Both requests share one gate: a second one waits for the first one's answer.
RequestTransfer(w, action, dialog) ==
    /\ Asks(w, action)
    /\ IF windows[w].transfer = "idle" THEN Alters(w, [busy |-> "TRANSFER", transfer |-> dialog])
       ELSE Alters(w, [busy |-> "TRANSFER"])
    /\ UNCHANGED <<process, saved, forgotten, opened>>

RequestTakeover(w) == RequestTransfer(w, "TAKE_OVER", "taking over")
RequestReturnControl(w) == RequestTransfer(w, "RETURN", "handing back")

EndsTransfer(w) == [transfer |-> "idle", busy |-> Answered(w, "TRANSFER")]

TransferDeclined(w) ==
    /\ windows[w].transfer \in {"taking over", "handing back"}
    /\ Alters(w, EndsTransfer(w))
    /\ UNCHANGED <<process, saved, forgotten, opened>>

\* Nothing is ever in flight in this executor, so the takeover quiesces at once.
TakeoverConfirmed(w) ==
    LET s == windows[w] IN
    /\ s.transfer = "taking over"
    /\ IF s.connection = "ONLINE" /\ s.controller = "AGENT" /\ s.takeover = "NONE"
       THEN Alters(w, Both(EndsTransfer(w), [blocked |-> TRUE, input |-> TRUE,
                                         job |-> "RUNNING_USER", controller |-> "USER"]))
       ELSE Alters(w, EndsTransfer(w))
    /\ UNCHANGED <<process, saved, forgotten, opened>>

ReturnConfirmed(w) ==
    LET s == windows[w] IN
    /\ s.transfer = "handing back"
    /\ IF s.connection = "ONLINE" /\ s.controller = "USER"
       THEN Alters(w, [controller |-> "NONE", takeover |-> "RECONCILING", input |-> FALSE,
                    transfer |-> "reloading"])
       ELSE Alters(w, EndsTransfer(w))
    /\ UNCHANGED <<process, saved, forgotten, opened>>

\* Seeded fault: the page is taken to have loaded, whatever it did.
ReloadAssumed(w) ==
    LET s == windows[w] IN
    /\ s.transfer = "reloading"
    /\ IF s.takeover = "RECONCILING"
       THEN Alters(w, Both(EndsTransfer(w), [blocked |-> FALSE, job |-> "RUNNING_AGENT",
                                         controller |-> "AGENT", takeover |-> "NONE"]))
       ELSE Alters(w, Both(EndsTransfer(w), [blocked |-> FALSE]))
    /\ UNCHANGED <<process, saved, forgotten, opened>>

\* The page has loaded again: the lease is reconciled, then the state is told, which
\* refuses what a cancellation or a crash has changed meanwhile.
ReloadFinishes(w) ==
    LET s == windows[w] IN
    /\ s.transfer = "reloading"
    /\ s.view
    /\ IF s.takeover = "RECONCILING"
       THEN Alters(w, Both(EndsTransfer(w), [blocked |-> FALSE, job |-> "RUNNING_AGENT",
                                         controller |-> "AGENT", takeover |-> "NONE"]))
       ELSE Alters(w, Both(EndsTransfer(w), [blocked |-> FALSE]))
    /\ UNCHANGED <<process, saved, forgotten, opened>>

\* Seeded fault: the input is given back before the state is asked.
InputFirst(w) ==
    LET s == windows[w] IN
    /\ s.transfer = "reloading"
    /\ IF s.takeover = "RECONCILING"
       THEN Alters(w, Both(EndsTransfer(w), [job |-> "RUNNING_USER", controller |-> "USER",
                                         takeover |-> "NONE", input |-> TRUE]))
       ELSE Alters(w, Both(EndsTransfer(w), [input |-> TRUE]))
    /\ UNCHANGED <<process, saved, forgotten, opened>>

\* The load failed or took too long: the owner has the browser again, unless the
\* state has changed, which refuses that too and leaves the input shielded.
ReloadFails(w) ==
    LET s == windows[w] IN
    /\ s.transfer = "reloading"
    /\ IF s.takeover = "RECONCILING"
       THEN Alters(w, Both(EndsTransfer(w), [job |-> "RUNNING_USER", controller |-> "USER",
                                         takeover |-> "NONE", input |-> TRUE]))
       ELSE Alters(w, EndsTransfer(w))
    /\ UNCHANGED <<process, saved, forgotten, opened>>

Canceled(w) ==
    [blocked |-> TRUE, job |-> "CANCELED", takeover |-> "NONE",
     controller |-> IF windows[w].controller = "USER" THEN "USER" ELSE "NONE"]

CancelFutureAutomation(w) ==
    /\ Asks(w, "CANCEL")
    /\ Alters(w, Canceled(w))
    /\ UNCHANGED <<process, saved, forgotten, opened>>

\* The page's renderer is lost: the browser is fenced and its input shielded, once.
BrowserGone(w) ==
    LET s == windows[w] IN
    /\ s.phase = "open" /\ s.view /\ ~s.gone
    /\ IF s.controller = "USER"
       THEN Alters(w, [gone |-> TRUE, blocked |-> TRUE, input |-> FALSE,
                    connection |-> "ABSENT", takeover |-> "OFFLINE_MARKED"])
       ELSE Alters(w, [gone |-> TRUE, blocked |-> TRUE, input |-> FALSE, connection |-> "ABSENT",
                    controller |-> "NONE", takeover |-> "NONE", job |-> "WAITING_FOR_BROWSER"])
    /\ UNCHANGED <<process, saved, forgotten, opened>>

\* The trusted renderer is lost and loaded again: the new page waits for nothing.
TrustedRendererGone(w) ==
    /\ windows[w].phase = "open" /\ windows[w].busy # "NONE"
    /\ Alters(w, [busy |-> "NONE"])
    /\ UNCHANGED <<process, saved, forgotten, opened>>

---------------------------------------------------------------------------
(* Forgetting the local session. *)

\* A request while one runs is given that one's answer.
RequestForget(w) ==
    LET s == windows[w] IN
    /\ Asks(w, "FORGET")
    /\ IF s.forget # "idle" THEN Alters(w, [busy |-> "FORGET"])
       ELSE Alters(w, [busy |-> "FORGET", forget |-> "verifying", erasure |-> "STEP_UP_REQUIRED",
                    binding |-> IF s.profile = "ERASURE_FAILED" THEN s.profile ELSE "PRESENT"])
    /\ UNCHANGED <<process, saved, forgotten, opened>>

EndsForget(w) == [forget |-> "idle", busy |-> Answered(w, "FORGET")]

OwnerVerified(w) ==
    /\ windows[w].forget = "verifying"
    /\ Alters(w, [forget |-> "confirming"])
    /\ UNCHANGED <<process, saved, forgotten, opened>>

\* Presence is not proved, or the owner thinks better of it.
ForgetDeclined(w) ==
    /\ windows[w].forget \in {"verifying", "confirming"}
    /\ Alters(w, EndsForget(w))
    /\ UNCHANGED <<process, saved, forgotten, opened>>

\* The token is minted and spent, automation fenced and the page closed at once.
ForgetConfirmed(w) ==
    /\ windows[w].forget = "confirming"
    /\ Alters(w, [forget |-> "wiping", erasure |-> "ERASING", profile |-> "FORGETTING",
               job |-> "CANCELED", controller |-> "NONE", takeover |-> "NONE",
               blocked |-> TRUE, view |-> FALSE])
    /\ UNCHANGED <<process, saved, forgotten, opened>>

\* Storage, permissions and credential references are cleared.
SessionCleared(w) ==
    /\ windows[w].forget = "wiping"
    /\ Alters(w, [forget |-> "staging"])
    /\ UNCHANGED <<process, saved, forgotten, opened>>

\* A step failed; a record of another state of the profile refuses this one.
ForgetFails(w) ==
    /\ windows[w].forget \in {"wiping", "staging", "sealing"}
    /\ Alters(w, Both(EndsForget(w), [erasure |-> "FAILED", profile |-> "ERASURE_FAILED",
                                  controller |-> "NONE", takeover |-> "NONE"]))
    /\ UNCHANGED <<process, saved, forgotten, opened>>

\* The record is written beside its place, synced and renamed into it.
StagePending(w) ==
    /\ windows[w].forget = "staging"
    /\ saved.pending \in {"NONE", windows[w].binding}
    /\ saved' = [saved EXCEPT !.pending = windows[w].binding]
    /\ Alters(w, [forget |-> "sealing"])
    /\ UNCHANGED <<process, forgotten, opened>>

\* The owner is told, and the application starts again.
ForgetStaged(w) ==
    /\ windows[w].forget = "sealing"
    /\ Alters(w, Both(EndsForget(w), [erasure |-> "COMPLETE", profile |-> "ABSENT",
                                  controller |-> "NONE", takeover |-> "NONE"]))
    /\ forgotten' = forgotten \union {windows[w].shows}
    /\ UNCHANGED <<process, saved, opened>>

---------------------------------------------------------------------------
Launching ==
    \/ OpenWorkspace \/ EraseScopedProfile \/ RemovalFails \/ ClearPending
    \/ EnsureProtectedProfile \/ ProtectionFails \/ AcquireLock \/ ProfileInUse
    \/ SignLock \/ ShowWindow

Controlling(w) ==
    \/ RequestTakeover(w) \/ RequestReturnControl(w) \/ TransferDeclined(w)
    \/ TakeoverConfirmed(w) \/ ReturnConfirmed(w) \/ ReloadFinishes(w) \/ ReloadFails(w)
    \/ CancelFutureAutomation(w) \/ BrowserGone(w) \/ TrustedRendererGone(w)

Forgetting(w) ==
    \/ RequestForget(w) \/ OwnerVerified(w) \/ ForgetDeclined(w) \/ ForgetConfirmed(w)
    \/ SessionCleared(w) \/ ForgetFails(w) \/ StagePending(w) \/ ForgetStaged(w)

WindowNext ==
    \/ StartProcess \/ Crash \/ BuilderWindow \/ Quit
    \/ Launching
    \/ \E w \in Windows : CloseWindow(w) \/ Controlling(w) \/ Forgetting(w)

WindowSpec == WindowInit /\ [][WindowNext]_windowVars

---------------------------------------------------------------------------
(* Properties. *)

\* A session the owner was told is forgotten is never shown by a later process,
\* whatever crashed, failed or was reopened between the answer and the removal.
ForgottenStaysForgotten ==
    [][\A w \in Windows : windows[w].phase # "open" /\ windows'[w].phase = "open"
                            => windows'[w].shows \notin forgotten \ opened]_windowVars

\* Input reaches the page only while the state says the owner has control, or after
\* the forgetting has closed the page.
InputIsOwners ==
    \A w \in Windows : windows[w].input => windows[w].controller = "USER" \/ ~windows[w].view

\* Once the page of a forgotten session is closed, a hand-back that was under way does
\* not give the browser to automation again.
FencedOnceForgetting ==
    \A w \in Windows :
        windows[w].profile \in {"FORGETTING", "ERASURE_FAILED", "ABSENT"} => windows[w].blocked
===============================================================================
