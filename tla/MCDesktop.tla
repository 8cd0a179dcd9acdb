------------------------------- MODULE MCDesktop -------------------------------
(***************************************************************************)
(* A small instance of the desktop application for TLC: the delegated      *)
(* workflow of its internal build, the browser workspace with what its     *)
(* disk keeps, the updater, and the owner's Gmail connection.  The         *)
(* packaged application runs the last three and the internal one the first *)
(* and no updater; what the first two share (the executor, the viewport)   *)
(* each owns a copy of, so each behaviour is of one of the four parts.     *)
(***************************************************************************)
EXTENDS DesktopWorkflow, BrowserWindow, DesktopUpdate, GmailConnection

VARIABLE part  \* the part whose behaviour this is

desktopVars == <<wvars, windowVars, updateVars, gmailVars, part>>

\* Four releases in the order of SemVer: 1.0.0-2, 1.0.0-a, 1.0.0-a.1 and 1.0.0.
Release(pre) == [core |-> <<1, 0, 0>>, pre |-> pre]
Number(r) == [number |-> TRUE, rank |-> r]
Word(r) == [number |-> FALSE, rank |-> r]

MCLadder ==
    << Release(<<Number(2)>>), Release(<<Word(1)>>), Release(<<Word(1), Number(1)>>),
       Release(<<>>) >>

\* Two genuine archives, and one another signer built.
MCArchives ==
    [version : {MCLadder[2], MCLadder[3]}, signed : {TRUE}]
        \union [version : {MCLadder[4]}, signed : {FALSE}]

MCChecks == 1..2

DesktopInit ==
    /\ part \in {"workflow", "window", "update", "gmail"}
    /\ Init /\ WindowInit /\ UpdateInit /\ GmailInit

DesktopNext ==
    /\ \/ part = "workflow" /\ Next /\ UNCHANGED <<windowVars, updateVars, gmailVars>>
       \/ part = "window" /\ WindowNext /\ UNCHANGED <<wvars, updateVars, gmailVars>>
       \/ part = "update" /\ UpdateNext /\ UNCHANGED <<wvars, windowVars, gmailVars>>
       \/ part = "gmail" /\ GmailNext /\ UNCHANGED <<wvars, windowVars, updateVars>>
    /\ UNCHANGED part

DesktopSpec == DesktopInit /\ [][DesktopNext]_desktopVars
===============================================================================
