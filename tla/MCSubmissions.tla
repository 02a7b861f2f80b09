--------------------------- MODULE MCSubmissions ---------------------------
(***************************************************************************)
(* Work handed to the GPU and answered through shared words, one at a      *)
(* time: the signal mailbox of the runtime and the command streams of the  *)
(* driver.  The two share no state in these models: `focus` says which of  *)
(* them runs, the other keeps an initial state.                            *)
(***************************************************************************)
EXTENDS MCSignalMailbox, CommandStreams

VARIABLE focus

mcVars == <<focus, mailboxVars, vars>>

MCInit ==
    /\ focus \in {"mailbox", "streams"}
    /\ MailboxInit /\ Init
    /\ focus = "streams" => value = [s \in Signals |-> Zero]

MCNext ==
    /\ UNCHANGED focus
    /\ \/ focus = "mailbox" /\ MailboxNext /\ UNCHANGED vars
       \/ focus = "streams" /\ Next /\ UNCHANGED mailboxVars

MCSpec == MCInit /\ [][MCNext]_mcVars

=============================================================================
