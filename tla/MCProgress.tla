----------------------------- MODULE MCProgress -----------------------------
(***************************************************************************)
(* What has to end whatever the GPU does: the stops of clients and driver, *)
(* and calls on the signal mailbox.  The two share no state in these       *)
(* models: `focus` says which of them runs.  The other stays in an initial *)
(* state, in which none of its fair actions is enabled.                    *)
(***************************************************************************)
EXTENDS DriverSession, MCSignalMailbox

VARIABLE focus

mcVars == <<focus, vars, mailboxVars>>

MCInit ==
    /\ focus \in {"session", "mailbox"}
    /\ Init /\ MailboxInit
    /\ focus = "session" => value = [s \in Signals |-> Zero]

MCNext ==
    /\ UNCHANGED focus
    /\ \/ focus = "session" /\ Next /\ UNCHANGED mailboxVars
       \/ focus = "mailbox" /\ MailboxNext /\ UNCHANGED vars

MCSpec == MCInit /\ [][MCNext]_mcVars /\ Fairness /\ CPUFairness

=============================================================================
