------------------------------- MODULE Mailbox -------------------------------
(***************************************************************************)
(* The mailbox of an arena slot (src/src/tbb/mailbox.h): any thread mails  *)
(* task proxies to it without waiting, the thread in the slot receives     *)
(* them.  The list is singly linked: a sender takes the end of the list    *)
(* first and links its proxy to it after that, and meanwhile the list is   *)
(* broken in two.                                                          *)
(*                                                                         *)
(* next[Box] is my_first, next[p] is p's next_in_mailbox, and my_last is   *)
(* the cell, Box or a proxy, whose next is to be filled in.  A proxy's     *)
(* memory is freed as soon as it is received, and used again.              *)
(*                                                                         *)
(* mail records what is in the box: a piece counts from the moment its     *)
(* sender has taken the end of the list until the owner has received it.   *)
(* Only the drain reads it, to free the pieces that are left; that they    *)
(* are those to which the pointers lead is a property, InOrder.            *)
(***************************************************************************)
EXTENDS Integers, Sequences, FiniteSets

CONSTANTS
    Sender, Proxy, Box, NULL,
    MaxCalls        \* bound: pieces of mail

Assumptions ==
    /\ Box \notin Proxy /\ NULL \notin Proxy \cup {Box}
    /\ IsFiniteSet(Proxy) /\ MaxCalls \in Nat

VARIABLES
    next, my_last,
    alive,          \* the proxies in use
    pc, proxy, link,    \* of each sender; local
    owner,          \* what the owner is doing
    first, second,  \* local to the owner
    got,            \* the owner's last result
    mail,           \* the pieces in the box, in order (history)
    calls

vars == <<next, my_last, alive, pc, proxy, link, owner, first, second, got, mail, calls>>

Init ==
    /\ next = [c \in Proxy \cup {Box} |-> NULL] /\ my_last = Box
    /\ alive = {}
    /\ pc = [t \in Sender |-> "idle"]
    /\ proxy = [t \in Sender |-> NULL] /\ link = [t \in Sender |-> NULL]
    /\ owner = "idle" /\ first = NULL /\ second = NULL /\ got = NULL
    /\ mail = <<>> /\ calls = 0

Set(f, x, v) == [f EXCEPT ![x] = v]
Goto(t, from, to) == pc[t] = from /\ pc' = Set(pc, t, to)
Turns(from, to) == owner = from /\ owner' = to
ownerVars == <<owner, first, second, got>>
senderVars == <<pc, proxy, link, calls>>

(***************************************************************************)
(* mail_outbox::push                                                       *)
(***************************************************************************)
Mail(t) ==
    /\ Goto(t, "idle", "swap")
    /\ owner # "gone"
    /\ calls < MaxCalls /\ calls' = calls + 1
    /\ \E p \in Proxy \ alive :
        /\ alive' = alive \cup {p}
        /\ proxy' = Set(proxy, t, p)
        /\ next' = Set(next, p, NULL)
    /\ UNCHANGED <<my_last, link, mail, ownerVars>>
FetchAndStore(t) ==
    /\ Goto(t, "swap", "link")
    /\ link' = Set(link, t, my_last) /\ my_last' = proxy[t]
    /\ mail' = Append(mail, proxy[t])
    /\ UNCHANGED <<next, alive, proxy, calls, ownerVars>>
Link(t) ==
    /\ Goto(t, "link", "idle")
    /\ next' = Set(next, link[t], proxy[t])
    /\ link' = Set(link, t, NULL) /\ proxy' = Set(proxy, t, NULL)
    /\ UNCHANGED <<my_last, alive, mail, calls, ownerVars>>

(***************************************************************************)
(* mail_outbox::internal_pop                                               *)
(***************************************************************************)
\* The proxy is received, and freed.
Receives(p) ==
    /\ owner' = "idle" /\ got' = p
    /\ first' = NULL /\ second' = NULL
    /\ alive' = alive \ {p} /\ mail' = Tail(mail)

PopNone ==
    /\ owner = "idle" /\ next[Box] = NULL
    /\ got' = NULL
    /\ UNCHANGED <<next, my_last, alive, owner, first, second, mail, senderVars>>
PopFirst ==
    /\ Turns("idle", "first") /\ next[Box] # NULL
    /\ first' = next[Box]
    /\ UNCHANGED <<next, my_last, alive, second, got, mail, senderVars>>
SeeSecond ==
    /\ \/ Turns("first", "advance")
       \/ Turns("spin", "advance")
    /\ next[first] # NULL
    /\ second' = next[first]
    /\ UNCHANGED <<next, my_last, alive, first, got, mail, senderVars>>
Advance ==
    /\ owner = "advance"
    /\ next' = Set(next, Box, second)
    /\ Receives(first)
    /\ UNCHANGED <<my_last, senderVars>>
TakeOnly ==
    /\ Turns("first", "cas") /\ next[first] = NULL
    /\ next' = Set(next, Box, NULL)
    /\ UNCHANGED <<my_last, alive, first, second, got, mail, senderVars>>
\* Mutated form: the end of the list is moved back whoever has taken it.
StoreLast ==
    /\ owner = "cas"
    /\ my_last' = Box /\ Receives(first)
    /\ UNCHANGED <<next, senderVars>>
CompareAndSwapLast ==
    /\ owner = "cas"
    /\ IF my_last = first
       THEN my_last' = Box /\ Receives(first)
       ELSE owner' = "spin" /\ UNCHANGED <<my_last, alive, first, second, got, mail>>
    /\ UNCHANGED <<next, senderVars>>

\* The arena is freed when nobody uses the mailbox any more, with the mail
\* that is still in it.
Drain ==
    /\ Turns("idle", "gone") /\ \A t \in Sender : pc[t] = "idle"
    /\ alive' = alive \ {mail[i] : i \in DOMAIN mail} /\ mail' = <<>>
    /\ next' = Set(next, Box, NULL)
    /\ UNCHANGED <<my_last, first, second, got, senderVars>>

Next ==
    \/ \E t \in Sender : Mail(t) \/ FetchAndStore(t) \/ Link(t)
    \/ PopNone \/ PopFirst \/ SeeSecond \/ Advance \/ TakeOnly \/ CompareAndSwapLast
    \/ Drain

Spec == Init /\ [][Next]_vars

(***************************************************************************)
(* Properties.                                                             *)
(***************************************************************************)
sending == {t \in Sender : pc[t] = "link"}
Mailed == {mail[i] : i \in DOMAIN mail}
\* The cell whose next leads to the i-th piece.
Cell(i) == IF i = 1 THEN Box ELSE mail[i - 1]

\* Nobody follows a pointer into a proxy whose memory has been freed: a sender
\* links its proxy to one in use, and so does the owner find one.
NothingDangling ==
    /\ \A t \in Sender : pc[t] = "link" => link[t] \in alive \cup {Box}
    /\ \A c \in alive \cup {Box} : next[c] \in alive \cup {NULL}
    /\ first \in alive \cup {NULL}

\* The pointers lead through the box in the order in which the pieces were put
\* in, broken only where a sender is about to link its own piece, and end
\* where the end of the list is said to be.
InOrder ==
    owner # "gone" =>
        /\ my_last = Cell(Len(mail) + 1) /\ next[my_last] = NULL
        /\ \A i \in DOMAIN mail :
            \/ next[Cell(i)] = mail[i]
            \/ \E t \in sending : link[t] = Cell(i) /\ proxy[t] = mail[i]
            \/ i = 1 /\ first = mail[i]

\* Every proxy in use is on its way into the box or in it, and nothing is
\* left when the box is drained.
NothingLost ==
    /\ alive = Mailed \cup {proxy[t] : t \in {u \in Sender : pc[u] = "swap"}}
    /\ InOrder

\* The mailbox implements Mail.
Abstract == INSTANCE Mail WITH received <- got
ImplementsMail == Abstract!Spec
=============================================================================
