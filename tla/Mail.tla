-------------------------------- MODULE Mail --------------------------------
(***************************************************************************)
(* What a mailbox promises: mail is received in the order in which it was  *)
(* put in, each piece once.  The box may look empty to its owner while a   *)
(* piece is being put in, and then only.  Mailbox is shown to implement    *)
(* this module; TaskPool relies on it.                                     *)
(***************************************************************************)
EXTENDS Sequences

CONSTANTS Sender, Proxy, NULL

VARIABLES
    mail,       \* the pieces in the box
    sending,    \* the senders that have put a piece in but not returned
    received    \* what the owner has received last

mailVars == <<mail, sending, received>>

Init == mail = <<>> /\ sending = {} /\ received = NULL

PutIn(t) == \E p \in Proxy :
    /\ t \notin sending
    /\ \A i \in DOMAIN mail : mail[i] # p
    /\ mail' = Append(mail, p) /\ sending' = sending \cup {t}
    /\ UNCHANGED received
Return(t) ==
    /\ t \in sending /\ sending' = sending \ {t}
    /\ UNCHANGED <<mail, received>>
Receive ==
    /\ mail # <<>>
    /\ received' = Head(mail) /\ mail' = Tail(mail)
    /\ UNCHANGED sending
FindNothing ==
    /\ mail = <<>> \/ sending # {}
    /\ received' = NULL
    /\ UNCHANGED <<mail, sending>>
\* What is left is thrown away when nobody uses the box any more.
Drain ==
    /\ sending = {}
    /\ mail' = <<>>
    /\ UNCHANGED <<sending, received>>

Next ==
    \/ \E t \in Sender : PutIn(t) \/ Return(t)
    \/ Receive \/ FindNothing \/ Drain
Step == Next \/ UNCHANGED mailVars

Spec == Init /\ [][Next]_mailVars
=============================================================================
