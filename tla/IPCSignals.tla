----------------------------- MODULE IPCSignals ----------------------------
(***************************************************************************)
(* Signals shared between processes (hsa/src/ipc_signal.cpp).  A signal is *)
(* a file of one page in the user's temporary directory, found through the *)
(* name in its token; a process attached to it holds a shared flock on an  *)
(* open descriptor, which the kernel drops when the process dies.  The     *)
(* last process to leave marks the page retired and removes the name.      *)
(* Every system call is a step: the processes share nothing else.          *)
(*                                                                         *)
(* One token is followed.  `file` is its inode, which lives on while it is *)
(* open; the name can be created once, because the nonce is random.        *)
(***************************************************************************)
EXTENDS Naturals, FiniteSets

CONSTANTS Peers     \* processes that know the token

VARIABLES name,      \* "absent", "present" or "removed"
          token,     \* "unknown", "written" in the page, or "known" to other processes
          retired,   \* the page's retired flag
          locks,     \* process -> "none", "SH" or "EX"
          process,   \* what each process is doing
          everDead   \* all participants have died or left: the token is dead

ipcVars == <<name, token, retired, locks, process, everDead>>

IPCInit ==
    /\ name = "absent" /\ token = "unknown" /\ retired = FALSE
    /\ locks = [p \in Peers |-> "none"]
    /\ process = [p \in Peers |-> "none"]
    /\ everDead = FALSE

\* Peers through which the signal lives: whoever holds it or has its shared lock.
Participant == {"creating", "attached", "shared", "leaving", "sole"}
CanExclude(p) == \A q \in Peers \ {p} : locks[q] = "none"
CanShare(p) == \A q \in Peers \ {p} : locks[q] # "EX"

\* Dropping a lock; the token dies with the last participant.
Leave(p, next, l) ==
    /\ process' = [process EXCEPT ![p] = next]
    /\ locks' = [locks EXCEPT ![p] = l]
    /\ everDead' = (everDead \/ (token = "known" /\ ~\E q \in Peers : process'[q] \in Participant))

Step(p, next, l) ==
    /\ process' = [process EXCEPT ![p] = next]
    /\ locks' = [locks EXCEPT ![p] = l]
    /\ UNCHANGED everDead

-----------------------------------------------------------------------------
(* Creation                                                                *)

\* open(O_CREAT | O_EXCL) and the exclusive lock: another process may hold a lock in between.
CreateOpen(p) ==
    /\ process[p] = "none" /\ name = "absent"
    /\ name' = "present"
    /\ Step(p, "opened", "none")
    /\ UNCHANGED <<token, retired>>

CreateLock(p) ==
    /\ process[p] = "opened" /\ CanExclude(p)
    /\ Step(p, "locked", "EX")
    /\ UNCHANGED <<name, token, retired>>

\* ftruncate, mmap and the header; or one of them fails and ~SharedSignal removes the name.
CreateFill(p) ==
    /\ process[p] = "locked"
    /\ \/ token' = "written" /\ Step(p, "creating", "EX") /\ UNCHANGED name
       \/ name' = "removed" /\ Step(p, "none", "none") /\ UNCHANGED token
    /\ UNCHANGED retired

\* flock(LOCK_SH) turns the exclusive lock into a shared one and the signal is published; from then
\* on hsa_amd_ipc_signal_create hands the token out.
CreateShare(p) ==
    /\ process[p] = "creating"
    /\ token' = "known"
    /\ Step(p, "attached", "SH")
    /\ UNCHANGED <<name, retired>>

-----------------------------------------------------------------------------
(* Attachment                                                              *)

\* open, and fstat finds the page.
AttachOpen(p) ==
    /\ process[p] = "none" /\ name = "present" /\ token = "known"
    /\ Step(p, "probing", "none")
    /\ UNCHANGED <<name, token, retired>>

\* flock(LOCK_EX | LOCK_NB): success means nobody holds the signal.
AttachProbe(p) ==
    /\ process[p] = "probing"
    /\ Step(p, IF CanExclude(p) THEN "orphan" ELSE "sharing", IF CanExclude(p) THEN "EX" ELSE "none")
    /\ UNCHANGED <<name, token, retired>>

\* The orphan's name is removed and the call fails, closing the descriptor.
AttachOrphan(p) ==
    /\ process[p] = "orphan"
    /\ name' = "removed"
    /\ Step(p, "none", "none")
    /\ UNCHANGED <<token, retired>>

\* flock(LOCK_SH | LOCK_NB); when the lock is refused the call fails.
AttachShare(p) ==
    /\ process[p] = "sharing"
    /\ IF CanShare(p) THEN Step(p, "shared", "SH") ELSE Step(p, "none", "none")
    /\ UNCHANGED <<name, token, retired>>

\* Mutant: the retired flag is not looked at.
AttachVerifyToken(p) ==
    /\ process[p] = "shared"
    /\ Step(p, "attached", "SH")
    /\ UNCHANGED <<name, token, retired>>

\* The token in the page, and the retired flag: retired means the call fails.
AttachVerify(p) ==
    /\ process[p] = "shared"
    /\ IF retired THEN Leave(p, "none", "none") ELSE Step(p, "attached", "SH")
    /\ UNCHANGED <<name, token, retired>>

-----------------------------------------------------------------------------
(* Detachment and death                                                    *)

\* ~SharedSignal: LOCK_UN, then LOCK_EX | LOCK_NB.
DetachUnlock(p) ==
    /\ process[p] = "attached"
    /\ Step(p, "leaving", "none")
    /\ UNCHANGED <<name, token, retired>>

DetachProbe(p) ==
    /\ process[p] = "leaving"
    /\ IF CanExclude(p) THEN Step(p, "sole", "EX") ELSE Leave(p, "none", "none")
    /\ UNCHANGED <<name, token, retired>>

\* Alone: retire the page and remove the name, then close.
DetachRetire(p) ==
    /\ process[p] = "sole"
    /\ retired' = TRUE /\ name' = "removed"
    /\ Leave(p, "none", "none")
    /\ UNCHANGED token

\* The process dies: the kernel closes its descriptors and drops its locks; the name stays.
Dies(p) ==
    /\ process[p] \notin {"none", "dead"}
    /\ Leave(p, "dead", "none")
    /\ UNCHANGED <<name, token, retired>>

IPCNext ==
    \E p \in Peers :
        \/ CreateOpen(p) \/ CreateLock(p) \/ CreateFill(p) \/ CreateShare(p)
        \/ AttachOpen(p) \/ AttachProbe(p) \/ AttachOrphan(p) \/ AttachShare(p) \/ AttachVerify(p)
        \/ DetachUnlock(p) \/ DetachProbe(p) \/ DetachRetire(p)
        \/ Dies(p)

IPCSpec == IPCInit /\ [][IPCNext]_ipcVars

-----------------------------------------------------------------------------
(* Properties                                                              *)

\* ipc_signal.cpp:119-120: "An orphan file is not a live signal. Require another attachment's
\* shared lock; never revive a token after all participants have died."
NoRevival == everDead => \A p \in Peers : process[p] # "attached"

\* A signal whose last holder has left in good order stays retired: nobody attaches to the page
\* after its retired flag is set, however a late attacher's open, probe and lock interleave with the
\* departure (ipc_signal.cpp:32-47, 101-133).
RetiredStaysRetired == retired => \A p \in Peers : process[p] # "attached"

====
