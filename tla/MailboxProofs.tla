---------------------------- MODULE MailboxProofs ----------------------------
(***************************************************************************)
(* The mailbox of an arena slot (Mailbox) implements the abstract mailbox  *)
(* (Mail), for any number of senders and proxies: pieces come out in the   *)
(* order in which they went in, once each, no piece is lost, and nobody    *)
(* follows a pointer into a proxy that has been freed.                     *)
(*                                                                         *)
(* The inductive invariant, BoxInv, says how the pointers stand to the     *)
(* pieces: InOrder for the list, Senders for what each sender is about to  *)
(* do to it, Owner for what the owner has seen of it.                      *)
(***************************************************************************)
EXTENDS Mailbox, TLAPS

TypeOK ==
    /\ next \in [Proxy \cup {Box} -> Proxy \cup {NULL}]
    /\ my_last \in Proxy \cup {Box}
    /\ alive \subseteq Proxy
    /\ pc \in [Sender -> {"idle", "swap", "link"}]
    /\ proxy \in [Sender -> Proxy \cup {NULL}]
    /\ link \in [Sender -> Proxy \cup {Box, NULL}]
    /\ owner \in {"idle", "first", "advance", "cas", "spin", "gone"}
    /\ first \in Proxy \cup {NULL} /\ second \in Proxy \cup {NULL} /\ got \in Proxy \cup {NULL}
    /\ mail \in Seq(Proxy)

\* No proxy is twice in the box.
Distinct == \A i, j \in DOMAIN mail : mail[i] = mail[j] => i = j

\* A proxy in use is in the box or in the hands of its sender.
InUse ==
    \A p \in Proxy : p \in alive <=>
        \/ \E i \in DOMAIN mail : mail[i] = p
        \/ \E t \in Sender : pc[t] = "swap" /\ proxy[t] = p

\* A sender has a proxy of its own, which is not yet in the box, or else is
\* and has to be linked to the cell before it, which leads nowhere.  The
\* first piece is linked before the owner sees it.
Swaps == \A t \in Sender : pc[t] = "swap" =>
    /\ proxy[t] \in Proxy /\ next[proxy[t]] = NULL
    /\ \A i \in DOMAIN mail : mail[i] # proxy[t]
Links == \A t \in Sender : pc[t] = "link" =>
    \E i \in DOMAIN mail :
        /\ link[t] = Cell(i) /\ proxy[t] = mail[i]
        /\ next[link[t]] = NULL
        /\ i = 1 => owner = "idle"
OwnProxy == \A t, u \in Sender :
    pc[t] # "idle" /\ pc[u] # "idle" /\ proxy[t] = proxy[u] => t = u

\* The owner is taking the first piece, and goes on to the second only when
\* it is linked.
Owner ==
    /\ owner \in {"first", "advance", "cas", "spin"} => mail # <<>> /\ first = mail[1]
    /\ owner \in {"idle", "gone"} => first = NULL
    /\ owner \in {"first", "advance"} => next[Box] \in {first, NULL}
    /\ owner \in {"cas", "spin", "gone"} => next[Box] = NULL
    /\ owner = "advance" => second = next[first] /\ second # NULL
Gone == owner = "gone" => mail = <<>> /\ \A t \in Sender : pc[t] = "idle"

BoxInv ==
    /\ TypeOK /\ Distinct /\ InUse
    /\ Swaps /\ Links /\ OwnProxy
    /\ Owner /\ Gone
    /\ InOrder

LEMMA InitBox == ASSUME Assumptions, Init PROVE BoxInv
<1>1. TypeOK
  BY DEF Init, TypeOK
<1>2. Distinct /\ InUse /\ Swaps /\ Links /\ OwnProxy /\ Owner /\ Gone
  BY DEF Init, Distinct, InUse, Swaps, Links, OwnProxy, Owner, Gone
<1>3. InOrder
  BY DEF Init, InOrder, Cell, sending, Assumptions
<1> QED
  BY <1>1, <1>2, <1>3 DEF BoxInv

(***************************************************************************)
(* The senders.                                                            *)
(***************************************************************************)
LEMMA MailBox ==
  ASSUME Assumptions, BoxInv, NEW t \in Sender, Mail(t)
  PROVE  BoxInv'
<1>1. PICK p \in Proxy \ alive :
        /\ alive' = alive \cup {p}
        /\ proxy' = [proxy EXCEPT ![t] = p]
        /\ next' = [next EXCEPT ![p] = NULL]
  BY DEF Mail, Set
<1>2. /\ pc[t] = "idle" /\ pc' = [pc EXCEPT ![t] = "swap"]
      /\ owner # "gone"
      /\ UNCHANGED <<my_last, link, mail, owner, first, second, got>>
  BY DEF Mail, Goto, Set, ownerVars
<1>3. TypeOK /\ TypeOK'
  BY <1>1, <1>2 DEF BoxInv, TypeOK
<1>4. p # Box /\ p # NULL /\ \A i \in DOMAIN mail : mail[i] # p
  BY <1>3 DEF BoxInv, InUse, Assumptions
<1>5. \A u \in Sender : pc[u] = "swap" => proxy[u] # p
  BY DEF BoxInv, InUse
<1>6. \A i \in DOMAIN mail : mail[i] \in Proxy
  BY <1>3 DEF TypeOK
<1>7. \A u \in Sender : u # t => pc'[u] = pc[u] /\ proxy'[u] = proxy[u]
  BY <1>1, <1>2, <1>3 DEF TypeOK
<1>8. pc'[t] = "swap" /\ proxy'[t] = p
  BY <1>1, <1>2, <1>3 DEF TypeOK
<1>9. \A c \in Proxy \cup {Box} : next'[c] = IF c = p THEN NULL ELSE next[c]
  BY <1>1, <1>3 DEF TypeOK
<1>10. Distinct'
  BY <1>2 DEF BoxInv, Distinct
<1>11. InUse'
  BY <1>1, <1>2, <1>7, <1>8 DEF BoxInv, InUse
<1>12. Swaps'
  BY <1>2, <1>4, <1>7, <1>8, <1>9 DEF BoxInv, Swaps
<1>13. Links'
  <2> SUFFICES ASSUME NEW u \in Sender, pc'[u] = "link"
               PROVE \E i \in DOMAIN mail' :
                        /\ link'[u] = Cell(i)' /\ proxy'[u] = mail'[i]
                        /\ next'[link'[u]] = NULL
                        /\ i = 1 => owner' = "idle"
    BY DEF Links
  <2>1. pc[u] = "link" /\ proxy'[u] = proxy[u]
    BY <1>7, <1>8
  <2>2. PICK i \in DOMAIN mail : /\ link[u] = Cell(i) /\ proxy[u] = mail[i]
                                 /\ next[link[u]] = NULL /\ (i = 1 => owner = "idle")
    BY <2>1 DEF BoxInv, Links
  <2>3. Cell(i)' = Cell(i)
    BY <1>2 DEF Cell
  <2>4. link[u] \in Proxy \cup {Box}
    BY <1>3, <1>6, <2>2 DEF Cell, TypeOK
  <2>5. next'[link'[u]] = NULL
    BY <1>2, <1>9, <2>2, <2>4
  <2> QED
    BY <1>2, <2>1, <2>2, <2>3, <2>5
<1>14. OwnProxy'
  <2>1. \A u \in Sender : pc[u] = "link" => proxy[u] # p
    BY <1>4 DEF BoxInv, Links
  <2>2. \A u \in Sender : pc[u] \in {"idle", "swap", "link"}
    BY <1>3 DEF TypeOK
  <2> QED
    BY <1>5, <1>7, <1>8, <2>1, <2>2 DEF BoxInv, OwnProxy
<1>15. Owner'
  <2>1. owner = "advance" => first # p /\ first \in Proxy
    BY <1>3, <1>4, <1>6 DEF BoxInv, Owner, TypeOK
  <2>2. next'[Box] = next[Box]
    BY <1>4, <1>9
  <2>3. owner = "advance" => next'[first] = next[first]
    BY <2>1, <1>9
  <2> QED
    BY <1>2, <2>2, <2>3 DEF BoxInv, Owner
<1>16. Gone'
  BY <1>2 DEF Gone
<1>17. InOrder'
  <2>1. \A i \in DOMAIN mail : next'[Cell(i)] = next[Cell(i)]
    BY <1>3, <1>4, <1>6, <1>9 DEF Cell, TypeOK
  <2>2. next'[my_last] = NULL
    BY <1>2, <1>3, <1>9 DEF BoxInv, InOrder, TypeOK
  <2>3. Cell(Len(mail) + 1)' = Cell(Len(mail) + 1)
    BY <1>2 DEF Cell
  <2>4. ASSUME NEW i \in DOMAIN mail,
               \E u \in sending : link[u] = Cell(i) /\ proxy[u] = mail[i]
        PROVE  \E u \in sending' : link'[u] = Cell(i) /\ proxy'[u] = mail[i]
    BY <1>2, <1>7, <1>8, <2>4 DEF sending
  <2>5. \A i : Cell(i)' = Cell(i)
    BY <1>2 DEF Cell
  <2> QED
    BY <1>2, <2>1, <2>2, <2>3, <2>4, <2>5 DEF BoxInv, InOrder
<1> QED
  BY <1>3, <1>10, <1>11, <1>12, <1>13, <1>14, <1>15, <1>16, <1>17 DEF BoxInv

LEMMA FetchAndStoreBox ==
  ASSUME Assumptions, BoxInv, NEW t \in Sender, FetchAndStore(t)
  PROVE  BoxInv'
<1>0. PICK n \in Nat : n = Len(mail)
  BY DEF BoxInv, TypeOK
<1>1. /\ pc[t] = "swap" /\ pc' = [pc EXCEPT ![t] = "link"]
      /\ link' = [link EXCEPT ![t] = my_last] /\ my_last' = proxy[t]
      /\ mail' = Append(mail, proxy[t])
      /\ UNCHANGED <<next, alive, proxy, owner, first, second, got>>
  BY DEF FetchAndStore, Goto, Set, ownerVars
<1>2. /\ TypeOK /\ n \in Nat /\ DOMAIN mail = 1 .. n
      /\ \A i \in DOMAIN mail : mail[i] \in Proxy
  BY <1>0 DEF BoxInv, TypeOK
<1>3. /\ proxy[t] \in Proxy /\ next[proxy[t]] = NULL
      /\ \A i \in DOMAIN mail : mail[i] # proxy[t]
  BY <1>1 DEF BoxInv, Swaps
<1>4. owner # "gone"
  BY <1>1 DEF BoxInv, Gone
<1>5. /\ DOMAIN mail' = 1 .. n + 1 /\ Len(mail') = n + 1
      /\ mail'[n + 1] = proxy[t]
      /\ \A i \in DOMAIN mail : mail'[i] = mail[i]
  BY <1>0, <1>1, <1>2, <1>3 DEF TypeOK
<1>6. /\ \A i \in 1 .. n + 1 : Cell(i)' = Cell(i)
      /\ Cell(n + 2)' = proxy[t]
  <2>1. ASSUME NEW i \in 1 .. n + 1 PROVE Cell(i)' = Cell(i)
    <3>1. i # 1 => i - 1 \in DOMAIN mail
      BY <1>2
    <3> QED
      BY <1>5, <3>1 DEF Cell
  <2>2. n + 2 # 1 /\ (n + 2) - 1 = n + 1
    BY <1>2
  <2>3. Cell(n + 2)' = mail'[(n + 2) - 1]
    BY <2>2 DEF Cell
  <2> QED
    BY <1>5, <2>1, <2>2, <2>3
<1>7. /\ pc'[t] = "link" /\ link'[t] = my_last
      /\ \A u \in Sender : u # t => pc'[u] = pc[u] /\ link'[u] = link[u]
  BY <1>1, <1>2 DEF TypeOK
<1>8. my_last = Cell(n + 1) /\ next[my_last] = NULL
  BY <1>0, <1>4 DEF BoxInv, InOrder
<1>9. TypeOK'
  BY <1>1, <1>2, <1>3 DEF TypeOK
<1>10. Distinct'
  BY <1>2, <1>3, <1>5 DEF BoxInv, Distinct
<1>11. InUse'
  <2> SUFFICES ASSUME NEW p \in Proxy
               PROVE  p \in alive <=> \/ \E i \in 1 .. n + 1 : mail'[i] = p
                                      \/ \E u \in Sender : pc'[u] = "swap" /\ proxy[u] = p
    BY <1>1, <1>5 DEF InUse
  <2>1. p \in alive <=> \/ \E i \in 1 .. n : mail[i] = p
                        \/ \E u \in Sender : pc[u] = "swap" /\ proxy[u] = p
    BY <1>2 DEF BoxInv, InUse
  <2>2. (\E i \in 1 .. n + 1 : mail'[i] = p) <=> (\E i \in 1 .. n : mail[i] = p) \/ p = proxy[t]
    BY <1>2, <1>5
  <2>3. \A u \in Sender : pc[u] = "swap" /\ proxy[u] = p /\ p # proxy[t] => pc'[u] = "swap"
    BY <1>7
  <2>4. \A u \in Sender : pc'[u] = "swap" => pc[u] = "swap"
    BY <1>7
  <2> QED
    BY <1>1, <2>1, <2>2, <2>3, <2>4
<1>12. Swaps'
  <2> SUFFICES ASSUME NEW u \in Sender, pc'[u] = "swap"
               PROVE  /\ proxy[u] \in Proxy /\ next[proxy[u]] = NULL
                      /\ \A i \in 1 .. n + 1 : mail'[i] # proxy[u]
    BY <1>1, <1>5 DEF Swaps
  <2>1. u # t /\ pc[u] = "swap"
    BY <1>7
  <2>2. proxy[u] # proxy[t]
    BY <1>1, <2>1 DEF BoxInv, OwnProxy
  <2> QED
    BY <1>2, <1>5, <2>1, <2>2 DEF BoxInv, Swaps
<1>13. Links'
  <2> SUFFICES ASSUME NEW u \in Sender, pc'[u] = "link"
               PROVE \E i \in 1 .. n + 1 :
                        /\ link'[u] = Cell(i) /\ proxy[u] = mail'[i]
                        /\ next[link'[u]] = NULL
                        /\ i = 1 => owner = "idle"
    BY <1>1, <1>5, <1>6 DEF Links
  <2>1. CASE u = t
    <3>1. n + 1 = 1 => owner = "idle"
      BY <1>2, <1>4 DEF BoxInv, Owner, TypeOK
    <3> QED
      BY <2>1, <3>1, <1>2, <1>5, <1>7, <1>8
  <2>2. CASE u # t
    <3>1. PICK i \in DOMAIN mail : /\ link[u] = Cell(i) /\ proxy[u] = mail[i]
                                   /\ next[link[u]] = NULL /\ (i = 1 => owner = "idle")
      BY <1>7, <2>2 DEF BoxInv, Links
    <3> QED
      BY <1>2, <1>5, <1>7, <2>2, <3>1
  <2> QED
    BY <2>1, <2>2
<1>14. OwnProxy'
  BY <1>1, <1>7 DEF BoxInv, OwnProxy
<1>15. Owner'
  <2>1. mail # <<>> => mail' # <<>> /\ mail'[1] = mail[1]
    BY <1>2, <1>5
  <2> QED
    BY <1>1, <2>1 DEF BoxInv, Owner
<1>16. Gone'
  BY <1>1, <1>4 DEF Gone
<1>17. InOrder'
  <2>1. my_last' = Cell(Len(mail) + 1)' /\ next'[my_last'] = NULL
    <3>1. Len(mail') + 1 = n + 2
      BY <1>2, <1>5
    <3>2. Cell(Len(mail) + 1)' = proxy[t]
      BY <1>5, <1>6, <3>1 DEF Cell
    <3> QED
      BY <1>1, <1>3, <3>2
  <2> SUFFICES ASSUME NEW i \in 1 .. n + 1
               PROVE \/ next[Cell(i)] = mail'[i]
                     \/ \E u \in sending' : link'[u] = Cell(i) /\ proxy[u] = mail'[i]
                     \/ i = 1 /\ first = mail'[i]
    BY <1>1, <1>5, <1>6, <2>1 DEF InOrder
  <2>2. t \in sending'
    BY <1>7 DEF sending
  <2>3. CASE i = n + 1
    BY <1>5, <1>7, <1>8, <2>2, <2>3
  <2>4. CASE i \in 1 .. n
    <3>1. \/ next[Cell(i)] = mail[i]
          \/ \E u \in sending : link[u] = Cell(i) /\ proxy[u] = mail[i]
          \/ i = 1 /\ first = mail[i]
      BY <1>2, <1>4, <2>4 DEF BoxInv, InOrder
    <3>2. \A u \in sending : u \in sending' /\ link'[u] = link[u]
      BY <1>1, <1>7 DEF sending
    <3> QED
      BY <1>2, <1>5, <2>4, <3>1, <3>2
  <2> QED
    BY <1>2, <2>3, <2>4
<1> QED
  BY <1>9, <1>10, <1>11, <1>12, <1>13, <1>14, <1>15, <1>16, <1>17 DEF BoxInv

LEMMA LinkBox ==
  ASSUME Assumptions, BoxInv, NEW t \in Sender, Link(t)
  PROVE  BoxInv'
<1>1. /\ pc[t] = "link" /\ pc' = [pc EXCEPT ![t] = "idle"]
      /\ next' = [next EXCEPT ![link[t]] = proxy[t]]
      /\ link' = [link EXCEPT ![t] = NULL] /\ proxy' = [proxy EXCEPT ![t] = NULL]
      /\ UNCHANGED <<my_last, alive, mail, owner, first, second, got>>
  BY DEF Link, Goto, Set, ownerVars
<1>2. /\ TypeOK /\ Len(mail) \in Nat /\ DOMAIN mail = 1 .. Len(mail)
      /\ \A i \in DOMAIN mail : mail[i] \in Proxy
  BY DEF BoxInv, TypeOK
<1>3. PICK k \in DOMAIN mail : /\ link[t] = Cell(k) /\ proxy[t] = mail[k]
                               /\ next[link[t]] = NULL /\ (k = 1 => owner = "idle")
  BY <1>1 DEF BoxInv, Links
<1>4. \A i : Cell(i)' = Cell(i)
  BY <1>1 DEF Cell
<1>5. \A i \in 1 .. Len(mail) + 1 : /\ Cell(i) \in Proxy \cup {Box}
                                    /\ Cell(i) = Cell(k) => i = k
  <2> SUFFICES ASSUME NEW i \in 1 .. Len(mail) + 1
               PROVE  Cell(i) \in Proxy \cup {Box} /\ (Cell(i) = Cell(k) => i = k)
    OBVIOUS
  <2>1. /\ i # 1 => i - 1 \in DOMAIN mail /\ Cell(i) = mail[i - 1]
        /\ k # 1 => k - 1 \in DOMAIN mail /\ Cell(k) = mail[k - 1]
        /\ i = 1 => Cell(i) = Box
        /\ k = 1 => Cell(k) = Box
    BY <1>2 DEF Cell
  <2>2. Box \notin Proxy
    BY DEF Assumptions
  <2>3. i # 1 /\ k # 1 /\ mail[i - 1] = mail[k - 1] => i - 1 = k - 1
    BY <2>1 DEF BoxInv, Distinct
  <2> QED
    BY <1>2, <2>1, <2>2, <2>3
<1>6. k \in 1 .. Len(mail) + 1
  BY <1>2
<1>7. /\ next'[link[t]] = proxy[t]
      /\ \A c \in Proxy \cup {Box} : c # link[t] => next'[c] = next[c]
  BY <1>1, <1>2, <1>3, <1>5, <1>6 DEF TypeOK
<1>8. /\ pc'[t] = "idle"
      /\ \A u \in Sender : u # t =>
            pc'[u] = pc[u] /\ link'[u] = link[u] /\ proxy'[u] = proxy[u]
  BY <1>1, <1>2 DEF TypeOK
<1>9. TypeOK'
  BY <1>1, <1>2, <1>3 DEF TypeOK
<1>10. Distinct'
  BY <1>1 DEF BoxInv, Distinct
<1>11. InUse'
  BY <1>1, <1>8 DEF BoxInv, InUse
<1>12. Swaps'
  <2> SUFFICES ASSUME NEW u \in Sender, pc'[u] = "swap"
               PROVE  /\ proxy'[u] \in Proxy /\ next'[proxy'[u]] = NULL
                      /\ \A i \in DOMAIN mail' : mail'[i] # proxy'[u]
    BY DEF Swaps
  <2>1. u # t /\ pc[u] = "swap" /\ proxy'[u] = proxy[u]
    BY <1>8
  <2>2. /\ proxy[u] \in Proxy /\ next[proxy[u]] = NULL
        /\ \A i \in DOMAIN mail : mail[i] # proxy[u]
    BY <2>1 DEF BoxInv, Swaps
  <2>3. proxy[u] # link[t]
    <3>1. k # 1 => k - 1 \in DOMAIN mail /\ Cell(k) = mail[k - 1]
      BY <1>2 DEF Cell
    <3>2. k = 1 => Cell(k) = Box
      BY DEF Cell
    <3> QED
      BY <1>3, <2>2, <3>1, <3>2 DEF Assumptions
  <2> QED
    BY <1>1, <1>7, <2>1, <2>2, <2>3
<1>13. Links'
  <2> SUFFICES ASSUME NEW u \in Sender, pc'[u] = "link"
               PROVE \E i \in DOMAIN mail' :
                        /\ link'[u] = Cell(i)' /\ proxy'[u] = mail'[i]
                        /\ next'[link'[u]] = NULL
                        /\ i = 1 => owner' = "idle"
    BY DEF Links
  <2>1. u # t /\ pc[u] = "link" /\ link'[u] = link[u] /\ proxy'[u] = proxy[u]
    BY <1>8
  <2>2. PICK i \in DOMAIN mail : /\ link[u] = Cell(i) /\ proxy[u] = mail[i]
                                 /\ next[link[u]] = NULL /\ (i = 1 => owner = "idle")
    BY <2>1 DEF BoxInv, Links
  <2>3. proxy[u] # proxy[t]
    BY <1>1, <2>1 DEF BoxInv, OwnProxy
  <2>4. i # k
    BY <1>3, <2>2, <2>3
  <2>5. i \in 1 .. Len(mail) + 1
    BY <1>2
  <2>6. link[u] # link[t] /\ link[u] \in Proxy \cup {Box}
    BY <1>3, <1>5, <2>2, <2>4, <2>5
  <2> QED
    BY <1>1, <1>4, <1>7, <2>1, <2>2, <2>6
<1>14. OwnProxy'
  BY <1>8 DEF BoxInv, OwnProxy
<1>15. Owner'
  <2>1. ASSUME owner # "idle" PROVE link[t] # Box
    <3>1. k # 1
      BY <1>3, <2>1
    <3>2. 1 \in 1 .. Len(mail) + 1 /\ Cell(1) = Box
      BY <1>2 DEF Cell
    <3> QED
      BY <1>3, <1>5, <3>1, <3>2
  <2>2. owner # "idle" => next'[Box] = next[Box]
    BY <1>7, <2>1
  <2>3. owner = "advance" => next'[first] = next[first]
    <3>1. owner = "advance" => first \in Proxy /\ next[first] # NULL
      BY <1>2 DEF BoxInv, Owner, TypeOK
    <3> QED
      BY <1>3, <1>7, <3>1
  <2> QED
    BY <1>1, <2>2, <2>3 DEF BoxInv, Owner
<1>16. Gone'
  BY <1>1, <1>8 DEF BoxInv, Gone
<1>17. InOrder'
  <2> SUFFICES ASSUME owner # "gone"
               PROVE  /\ my_last = Cell(Len(mail) + 1) /\ next'[my_last] = NULL
                      /\ \A i \in DOMAIN mail :
                            \/ next'[Cell(i)] = mail[i]
                            \/ \E u \in sending' : link'[u] = Cell(i) /\ proxy'[u] = mail[i]
                            \/ i = 1 /\ first = mail[i]
    <3>1. Cell(Len(mail) + 1)' = Cell(Len(mail) + 1)
      BY <1>1 DEF Cell
    <3> QED
      BY <1>1, <1>4, <3>1 DEF InOrder
  <2>1. my_last = Cell(Len(mail) + 1) /\ next[my_last] = NULL
    BY DEF BoxInv, InOrder
  <2>2. next'[my_last] = NULL
    <3>1. k # Len(mail) + 1 /\ Len(mail) + 1 \in 1 .. Len(mail) + 1
      BY <1>2
    <3>2. my_last # link[t]
      BY <1>3, <1>5, <2>1, <3>1
    <3> QED
      BY <1>2, <1>7, <2>1, <3>2 DEF TypeOK
  <2>3. ASSUME NEW i \in DOMAIN mail
        PROVE  \/ next'[Cell(i)] = mail[i]
               \/ \E u \in sending' : link'[u] = Cell(i) /\ proxy'[u] = mail[i]
               \/ i = 1 /\ first = mail[i]
    <3>1. CASE i = k
      BY <1>3, <1>7, <3>1
    <3>2. CASE i # k
      <4>1. i \in 1 .. Len(mail) + 1
        BY <1>2
      <4>2. Cell(i) # link[t] /\ Cell(i) \in Proxy \cup {Box}
        BY <1>3, <1>5, <3>2, <4>1
      <4>3. next'[Cell(i)] = next[Cell(i)]
        BY <1>7, <4>2
      <4>4. \A u \in sending : link[u] = Cell(i) => u # t
        BY <4>2
      <4>5. \A u \in sending : u # t =>
              u \in sending' /\ link'[u] = link[u] /\ proxy'[u] = proxy[u]
        BY <1>8 DEF sending
      <4>6. \/ next[Cell(i)] = mail[i]
            \/ \E u \in sending : link[u] = Cell(i) /\ proxy[u] = mail[i]
            \/ i = 1 /\ first = mail[i]
        BY DEF BoxInv, InOrder
      <4> QED
        BY <4>3, <4>4, <4>5, <4>6
    <3> QED
      BY <3>1, <3>2
  <2> QED
    BY <2>1, <2>2, <2>3
<1> QED
  BY <1>9, <1>10, <1>11, <1>12, <1>13, <1>14, <1>15, <1>16, <1>17 DEF BoxInv

(***************************************************************************)
(* The owner.                                                              *)
(***************************************************************************)
\* While the owner is taking the first piece, nobody is to link it.
LEMMA FirstLinked ==
  ASSUME Assumptions, BoxInv, NEW t \in sending, next[Box] # NULL
  PROVE  link[t] # Box
BY DEF BoxInv, Links, sending

\* The owner only looks.
LEMMA OwnerLooks ==
  ASSUME Assumptions, BoxInv, TypeOK', Owner',
         UNCHANGED <<next, my_last, alive, mail, pc, proxy, link>>,
         owner # "gone", owner' # "gone",
         owner' # "idle" => owner # "idle" \/ next[Box] # NULL,
         first # NULL => first' = first
  PROVE  BoxInv'
<1>1. Distinct' /\ InUse' /\ Swaps' /\ OwnProxy' /\ Gone'
  BY DEF BoxInv, Distinct, InUse, Swaps, OwnProxy, Gone
<1>2. \A i : Cell(i)' = Cell(i)
  BY DEF Cell
<1>3. Links'
  <2> SUFFICES ASSUME NEW t \in Sender, pc[t] = "link"
               PROVE \E i \in DOMAIN mail :
                        /\ link[t] = Cell(i) /\ proxy[t] = mail[i]
                        /\ next[link[t]] = NULL
                        /\ i = 1 => owner' = "idle"
    BY <1>2 DEF Links
  <2>1. PICK i \in DOMAIN mail : /\ link[t] = Cell(i) /\ proxy[t] = mail[i]
                                 /\ next[link[t]] = NULL /\ (i = 1 => owner = "idle")
    BY DEF BoxInv, Links
  <2>2. i = 1 => link[t] = Box
    BY <2>1 DEF Cell
  <2> QED
    BY <2>1, <2>2
<1>4. InOrder'
  <2>1. Cell(Len(mail) + 1)' = Cell(Len(mail) + 1)
    BY DEF Cell
  <2>2. sending' = sending
    BY DEF sending
  <2>3. \A i \in DOMAIN mail : mail[i] # NULL
    BY DEF BoxInv, TypeOK, Assumptions
  <2> QED
    BY <1>2, <2>1, <2>2, <2>3 DEF BoxInv, InOrder
<1> QED
  BY <1>1, <1>3, <1>4 DEF BoxInv

LEMMA PopNoneBox == ASSUME Assumptions, BoxInv, PopNone PROVE BoxInv'
<1>1. UNCHANGED <<next, my_last, alive, mail, pc, proxy, link, owner, first, second>>
  BY DEF PopNone, senderVars
<1>2. TypeOK'
  BY <1>1 DEF PopNone, BoxInv, TypeOK
<1>3. Owner'
  BY <1>1 DEF BoxInv, Owner
<1> QED
  BY <1>1, <1>2, <1>3, OwnerLooks DEF PopNone

LEMMA PopFirstBox == ASSUME Assumptions, BoxInv, PopFirst PROVE BoxInv'
<1>1. /\ owner = "idle" /\ owner' = "first" /\ next[Box] # NULL /\ first' = next[Box]
      /\ UNCHANGED <<next, my_last, alive, mail, pc, proxy, link, second, got>>
  BY DEF PopFirst, Turns, senderVars
<1>2. TypeOK'
  BY <1>1 DEF BoxInv, TypeOK
<1>3. first = NULL
  BY <1>1 DEF BoxInv, Owner
<1>4. 1 \in DOMAIN mail
  <2>1. Len(mail) = 0 => my_last = Box
    BY <1>1 DEF BoxInv, InOrder, Cell
  <2>2. Len(mail) # 0
    BY <1>1, <2>1 DEF BoxInv, InOrder
  <2> QED
    BY <2>2 DEF BoxInv, TypeOK
<1>5. next[Box] = mail[1]
  <2>1. Cell(1) = Box /\ mail[1] # NULL
    BY <1>4 DEF Cell, BoxInv, TypeOK, Assumptions
  <2> QED
    BY <1>1, <1>3, <1>4, <2>1, FirstLinked DEF BoxInv, InOrder
<1>6. Owner'
  BY <1>1, <1>4, <1>5 DEF Owner
<1> QED
  BY <1>1, <1>2, <1>3, <1>6, OwnerLooks

LEMMA SeeSecondBox == ASSUME Assumptions, BoxInv, SeeSecond PROVE BoxInv'
<1>1. /\ owner \in {"first", "spin"} /\ owner' = "advance"
      /\ next[first] # NULL /\ second' = next[first]
      /\ UNCHANGED <<next, my_last, alive, mail, pc, proxy, link, first, got>>
  BY DEF SeeSecond, Turns, senderVars
<1>2. first \in Proxy
  BY <1>1 DEF BoxInv, TypeOK, Owner
<1>3. TypeOK'
  BY <1>1, <1>2 DEF BoxInv, TypeOK
<1>4. Owner'
  BY <1>1 DEF BoxInv, Owner
<1> QED
  BY <1>1, <1>3, <1>4, OwnerLooks

\* The first piece leaves when the second is linked to it.
LEMMA AdvanceBox ==
  ASSUME Assumptions, BoxInv, Advance
  PROVE  BoxInv' /\ mail # <<>> /\ got' = Head(mail) /\ mail' = Tail(mail)
<1>1. /\ owner = "advance" /\ owner' = "idle" /\ got' = first
      /\ next' = [next EXCEPT ![Box] = second]
      /\ first' = NULL /\ second' = NULL
      /\ alive' = alive \ {first} /\ mail' = Tail(mail)
      /\ UNCHANGED <<my_last, pc, proxy, link>>
  BY DEF Advance, Receives, Set, senderVars
<1>2. TypeOK
  BY DEF BoxInv
<1>3. PICK n \in Nat : n = Len(mail) /\ DOMAIN mail = 1 .. n
  BY <1>2 DEF TypeOK
<1>4. mail # <<>> /\ first = mail[1] /\ second = next[first] /\ second # NULL
  BY <1>1 DEF BoxInv, Owner
<1>5. n # 0 /\ 1 \in DOMAIN mail
  BY <1>2, <1>3, <1>4 DEF TypeOK
<1>6. \A i \in DOMAIN mail : mail[i] \in Proxy /\ mail[i] # NULL /\ mail[i] # Box
  BY <1>2 DEF TypeOK, Assumptions
<1>7. my_last = Cell(n + 1) /\ next[my_last] = NULL
  BY <1>1, <1>3 DEF BoxInv, InOrder
<1>8. n # 1
  <2>1. n = 1 => Cell(n + 1) = mail[1]
    BY DEF Cell
  <2> QED
    BY <1>4, <1>7, <2>1
<1>9. 2 \in DOMAIN mail /\ Cell(2) = first
  BY <1>3, <1>4, <1>5, <1>8 DEF Cell
<1>10. \A u \in sending : link[u] # first
  BY <1>4 DEF BoxInv, Links, sending
<1>11. second = mail[2]
  BY <1>1, <1>4, <1>9, <1>10 DEF BoxInv, InOrder
<1>12. /\ mail' \in Seq(Proxy) /\ Len(mail') = n - 1 /\ DOMAIN mail' = 1 .. n - 1
       /\ \A i \in 1 .. n - 1 : mail'[i] = mail[i + 1]
  BY <1>1, <1>2, <1>3, <1>4 DEF TypeOK
<1>13. /\ \A i \in 2 .. n : Cell(i)' = Cell(i + 1)
       /\ Cell(1)' = Box
  <2>1. ASSUME NEW i \in 2 .. n PROVE Cell(i)' = Cell(i + 1)
    <3>1. i # 1 /\ i + 1 # 1 /\ i - 1 \in 1 .. n - 1 /\ (i - 1) + 1 = i /\ (i + 1) - 1 = i
      BY <1>3
    <3>2. Cell(i)' = mail'[i - 1] /\ Cell(i + 1) = mail[i]
      BY <3>1 DEF Cell
    <3> QED
      BY <1>12, <3>1, <3>2
  <2> QED
    BY <2>1 DEF Cell
<1>14. /\ next'[Box] = second
       /\ \A c \in Proxy : next'[c] = next[c]
  BY <1>1, <1>2 DEF TypeOK, Assumptions
<1>15. \A i \in 2 .. n + 1 : Cell(i) \in Proxy
  <2> SUFFICES ASSUME NEW i \in 2 .. n + 1 PROVE Cell(i) \in Proxy
    OBVIOUS
  <2>1. i # 1 /\ i - 1 \in DOMAIN mail
    BY <1>3
  <2> QED
    BY <1>6, <2>1 DEF Cell
<1>16. TypeOK'
  BY <1>1, <1>2, <1>4, <1>12 DEF TypeOK
<1>17. Distinct'
  <2>1. \A i \in 1 .. n - 1 : i + 1 \in DOMAIN mail
    BY <1>3
  <2>2. \A i, j \in 1 .. n - 1 : i + 1 = j + 1 => i = j
    BY <1>3
  <2> QED
    BY <1>12, <2>1, <2>2 DEF BoxInv, Distinct
<1>18. InUse'
  <2> SUFFICES ASSUME NEW q \in Proxy
               PROVE  q \in alive' <=> \/ \E i \in 1 .. n - 1 : mail'[i] = q
                                       \/ \E u \in Sender : pc[u] = "swap" /\ proxy[u] = q
    BY <1>1, <1>12 DEF InUse
  <2>1. q \in alive <=> \/ \E i \in 1 .. n : mail[i] = q
                        \/ \E u \in Sender : pc[u] = "swap" /\ proxy[u] = q
    BY <1>3 DEF BoxInv, InUse
  <2>2. \A i \in 1 .. n : mail[i] = first => i = 1
    BY <1>3, <1>4, <1>5 DEF BoxInv, Distinct
  <2>3. (\E i \in 1 .. n - 1 : mail'[i] = q) <=> q # first /\ \E i \in 1 .. n : mail[i] = q
    <3>1. ASSUME NEW i \in 1 .. n - 1, mail'[i] = q
          PROVE  q # first /\ \E j \in 1 .. n : mail[j] = q
      <4>1. i + 1 \in 1 .. n /\ i + 1 # 1
        BY <1>3
      <4> QED
        BY <1>12, <2>2, <3>1, <4>1
    <3>2. ASSUME q # first, NEW j \in 1 .. n, mail[j] = q
          PROVE  \E i \in 1 .. n - 1 : mail'[i] = q
      <4>1. j # 1
        BY <1>4, <3>2
      <4>2. j - 1 \in 1 .. n - 1 /\ (j - 1) + 1 = j
        BY <1>3, <4>1
      <4> QED
        BY <1>12, <3>2, <4>2
    <3> QED
      BY <3>1, <3>2
  <2>4. \A u \in Sender : pc[u] = "swap" => proxy[u] # first
    BY <1>4, <1>5 DEF BoxInv, Swaps
  <2> QED
    BY <1>1, <2>1, <2>3, <2>4
<1>19. Swaps'
  <2> SUFFICES ASSUME NEW u \in Sender, pc[u] = "swap"
               PROVE  /\ proxy[u] \in Proxy /\ next'[proxy[u]] = NULL
                      /\ \A i \in 1 .. n - 1 : mail'[i] # proxy[u]
    BY <1>1, <1>12 DEF Swaps
  <2>1. /\ proxy[u] \in Proxy /\ next[proxy[u]] = NULL
        /\ \A i \in DOMAIN mail : mail[i] # proxy[u]
    BY DEF BoxInv, Swaps
  <2>2. \A i \in 1 .. n - 1 : i + 1 \in DOMAIN mail
    BY <1>3
  <2> QED
    BY <1>12, <1>14, <2>1, <2>2
<1>20. Links'
  <2> SUFFICES ASSUME NEW u \in Sender, pc[u] = "link"
               PROVE \E i \in 1 .. n - 1 :
                        /\ link[u] = Cell(i)' /\ proxy[u] = mail'[i]
                        /\ next'[link[u]] = NULL
    BY <1>1, <1>12 DEF Links
  <2>1. PICK i \in 1 .. n : /\ link[u] = Cell(i) /\ proxy[u] = mail[i]
                            /\ next[link[u]] = NULL /\ i # 1
    BY <1>1, <1>3 DEF BoxInv, Links
  <2>2. i # 2
    BY <1>9, <1>10, <2>1 DEF sending
  <2>3. i - 1 \in 2 .. n /\ i - 1 \in 1 .. n - 1 /\ (i - 1) + 1 = i /\ i \in 2 .. n + 1
    BY <1>3, <2>1, <2>2
  <2>4. link[u] = Cell(i - 1)' /\ proxy[u] = mail'[i - 1]
    BY <1>12, <1>13, <2>1, <2>3
  <2>5. next'[link[u]] = NULL
    BY <1>14, <1>15, <2>1, <2>3
  <2> QED
    BY <2>3, <2>4, <2>5
<1>21. OwnProxy' /\ Owner' /\ Gone'
  BY <1>1 DEF BoxInv, OwnProxy, Owner, Gone
<1>22. InOrder'
  <2>1. Cell(Len(mail) + 1)' = Cell(n + 1)
    <3>1. (n - 1) + 1 = n /\ n \in 2 .. n
      BY <1>3, <1>5, <1>8
    <3>2. Len(mail') + 1 = n
      BY <1>3, <1>12
    <3>3. Cell(Len(mail) + 1)' = Cell(n)'
      BY <3>2 DEF Cell
    <3> QED
      BY <1>13, <3>1, <3>3
  <2>2. next'[my_last] = NULL
    <3>1. n + 1 \in 2 .. n + 1
      BY <1>3, <1>5
    <3> QED
      BY <1>7, <1>14, <1>15, <3>1
  <2>3. ASSUME NEW i \in 1 .. n - 1
        PROVE  \/ next'[Cell(i)'] = mail'[i]
               \/ \E u \in sending' : link'[u] = Cell(i)' /\ proxy'[u] = mail'[i]
    <3>1. CASE i = 1
      BY <1>11, <1>12, <1>13, <1>14, <3>1
    <3>2. CASE i # 1
      <4>1. i \in 2 .. n /\ i + 1 \in DOMAIN mail /\ i + 1 # 1 /\ i + 1 \in 2 .. n + 1
        BY <1>3, <3>2
      <4>2. Cell(i)' = Cell(i + 1) /\ mail'[i] = mail[i + 1]
        BY <1>12, <1>13, <4>1
      <4>3. \/ next[Cell(i + 1)] = mail[i + 1]
            \/ \E u \in sending : link[u] = Cell(i + 1) /\ proxy[u] = mail[i + 1]
        BY <1>1, <4>1 DEF BoxInv, InOrder
      <4>4. sending' = sending
        BY <1>1 DEF sending
      <4>5. next'[Cell(i + 1)] = next[Cell(i + 1)]
        BY <1>14, <1>15, <4>1
      <4> QED
        BY <1>1, <4>2, <4>3, <4>4, <4>5
    <3> QED
      BY <3>1, <3>2
  <2> QED
    BY <1>1, <1>7, <1>12, <2>1, <2>2, <2>3 DEF InOrder
<1>23. got' = Head(mail)
  BY <1>1, <1>4
<1> QED
  BY <1>1, <1>4, <1>16, <1>17, <1>18, <1>19, <1>20, <1>21, <1>22, <1>23 DEF BoxInv

LEMMA TakeOnlyBox == ASSUME Assumptions, BoxInv, TakeOnly PROVE BoxInv'
<1>1. /\ owner = "first" /\ owner' = "cas"
      /\ next' = [next EXCEPT ![Box] = NULL]
      /\ UNCHANGED <<my_last, alive, mail, pc, proxy, link, first, second, got>>
  BY DEF TakeOnly, Turns, Set, senderVars
<1>2. TypeOK
  BY DEF BoxInv
<1>3. /\ next'[Box] = NULL
      /\ \A c \in Proxy : next'[c] = next[c]
  BY <1>1, <1>2 DEF TypeOK, Assumptions
<1>4. \A c \in Proxy \cup {Box} : next[c] = NULL => next'[c] = NULL
  BY <1>3
<1>5. \A i : Cell(i)' = Cell(i)
  BY <1>1 DEF Cell
<1>6. TypeOK'
  BY <1>1, <1>2 DEF TypeOK
<1>7. Distinct' /\ InUse' /\ OwnProxy' /\ Gone' /\ Owner'
  BY <1>1, <1>3 DEF BoxInv, Distinct, InUse, OwnProxy, Gone, Owner
<1>8. Swaps'
  BY <1>1, <1>3 DEF BoxInv, Swaps
<1>9. Links'
  BY <1>1, <1>2, <1>4, <1>5 DEF BoxInv, Links, TypeOK
<1>10. InOrder'
  <2>1. Cell(Len(mail) + 1)' = Cell(Len(mail) + 1)
    BY <1>1 DEF Cell
  <2>2. next'[my_last] = NULL
    BY <1>1, <1>2, <1>4 DEF BoxInv, InOrder, TypeOK
  <2>3. ASSUME NEW i \in DOMAIN mail
        PROVE  \/ next'[Cell(i)] = mail[i]
               \/ \E u \in sending : link[u] = Cell(i) /\ proxy[u] = mail[i]
               \/ i = 1 /\ first = mail[i]
    <3>1. CASE i = 1
      BY <1>1, <3>1 DEF BoxInv, Owner
    <3>2. CASE i # 1
      <4>1. i - 1 \in DOMAIN mail
        BY <1>2, <3>2 DEF TypeOK
      <4>2. Cell(i) \in Proxy
        BY <1>2, <3>2, <4>1 DEF Cell, TypeOK
      <4> QED
        BY <1>1, <1>3, <4>2 DEF BoxInv, InOrder
    <3> QED
      BY <3>1, <3>2
  <2>4. sending' = sending
    BY <1>1 DEF sending
  <2> QED
    BY <1>1, <1>5, <2>1, <2>2, <2>3, <2>4 DEF BoxInv, InOrder
<1> QED
  BY <1>6, <1>7, <1>8, <1>9, <1>10 DEF BoxInv

\* The end of the list is moved back only when the piece taken is the last.
LEMMA CompareAndSwapLastBox ==
  ASSUME Assumptions, BoxInv, CompareAndSwapLast
  PROVE  /\ BoxInv'
         /\ \/ mail # <<>> /\ got' = Head(mail) /\ mail' = Tail(mail)
            \/ mail' = mail /\ got' = got
<1>1. /\ owner = "cas" /\ UNCHANGED <<next, pc, proxy, link>>
      /\ mail # <<>> /\ first = mail[1] /\ next[Box] = NULL
  BY DEF CompareAndSwapLast, senderVars, BoxInv, Owner
<1>2. TypeOK
  BY DEF BoxInv
<1>3. PICK n \in Nat : n = Len(mail) /\ DOMAIN mail = 1 .. n
  BY <1>2 DEF TypeOK
<1>4. n # 0 /\ 1 \in DOMAIN mail /\ mail[1] \in Proxy
  BY <1>1, <1>2, <1>3 DEF TypeOK
<1>5. CASE my_last # first
  <2>1. owner' = "spin" /\ UNCHANGED <<my_last, alive, first, second, got, mail>>
    BY <1>5 DEF CompareAndSwapLast
  <2>2. TypeOK' /\ Owner'
    BY <1>1, <1>2, <2>1 DEF TypeOK, Owner
  <2> QED
    BY <1>1, <2>1, <2>2, OwnerLooks
<1>6. CASE my_last = first
  <2>1. /\ my_last' = Box /\ owner' = "idle" /\ got' = first
        /\ first' = NULL /\ second' = NULL
        /\ alive' = alive \ {first} /\ mail' = Tail(mail)
    BY <1>6 DEF CompareAndSwapLast, Receives
  <2>2. n = 1
    <3>1. my_last = Cell(n + 1)
      BY <1>1, <1>3 DEF BoxInv, InOrder
    <3>2. n \in DOMAIN mail /\ Cell(n + 1) = mail[n]
      BY <1>3, <1>4 DEF Cell
    <3> QED
      BY <1>1, <1>4, <1>6, <3>1, <3>2 DEF BoxInv, Distinct
  <2>3. mail' = <<>> /\ DOMAIN mail' = {} /\ Len(mail') = 0
    BY <1>2, <1>3, <2>1, <2>2 DEF TypeOK
  <2>4. TypeOK'
    BY <1>1, <1>2, <1>4, <2>1, <2>3 DEF TypeOK
  <2>5. Distinct' /\ OwnProxy' /\ Owner' /\ Gone'
    BY <1>1, <2>1, <2>3 DEF BoxInv, Distinct, OwnProxy, Owner, Gone
  <2>6. InUse'
    <3>1. \A q \in Proxy : q \in alive <=> \/ q = first
                                           \/ \E u \in Sender : pc[u] = "swap" /\ proxy[u] = q
      BY <1>1, <1>3, <2>2 DEF BoxInv, InUse
    <3>2. \A u \in Sender : pc[u] = "swap" => proxy[u] # first
      BY <1>1, <1>4 DEF BoxInv, Swaps
    <3> QED
      BY <1>1, <2>1, <2>3, <3>1, <3>2 DEF InUse
  <2>7. Swaps'
    BY <1>1, <2>3 DEF BoxInv, Swaps
  <2>8. Links'
    <3>1. \A u \in Sender : pc[u] # "link"
      BY <1>1, <1>3, <2>2 DEF BoxInv, Links
    <3> QED
      BY <1>1, <3>1 DEF Links
  <2>9. InOrder'
    <3>1. Cell(Len(mail) + 1)' = Box
      BY <2>3 DEF Cell
    <3> QED
      BY <1>1, <2>1, <2>3, <3>1 DEF InOrder
  <2>10. got' = Head(mail)
    BY <1>1, <2>1
  <2> QED
    BY <1>1, <2>1, <2>4, <2>5, <2>6, <2>7, <2>8, <2>9, <2>10 DEF BoxInv
<1> QED
  BY <1>5, <1>6

LEMMA DrainBox == ASSUME Assumptions, BoxInv, Drain PROVE BoxInv'
<1>1. /\ owner = "idle" /\ owner' = "gone" /\ \A t \in Sender : pc[t] = "idle"
      /\ alive' = alive \ {mail[i] : i \in DOMAIN mail} /\ mail' = <<>>
      /\ next' = [next EXCEPT ![Box] = NULL]
      /\ UNCHANGED <<my_last, first, second, got, pc, proxy, link>>
  BY DEF Drain, Turns, Set, senderVars
<1>2. TypeOK'
  BY <1>1 DEF BoxInv, TypeOK
<1>3. next'[Box] = NULL
  BY <1>1 DEF BoxInv, TypeOK
<1>4. InUse'
  BY <1>1 DEF BoxInv, InUse
<1>5. Distinct' /\ Swaps' /\ Links' /\ OwnProxy' /\ Gone'
  BY <1>1 DEF Distinct, Swaps, Links, OwnProxy, Gone
<1>6. Owner' /\ InOrder'
  BY <1>1, <1>3 DEF BoxInv, Owner, InOrder
<1> QED
  BY <1>2, <1>4, <1>5, <1>6 DEF BoxInv

LEMMA StepBox == ASSUME Assumptions, BoxInv, [Next]_vars PROVE BoxInv'
<1>1. CASE UNCHANGED vars
  <2>1. UNCHANGED <<next, my_last, alive, pc, proxy, link, owner, first, second, got, mail>>
    BY <1>1 DEF vars
  <2>2. TypeOK' /\ Distinct' /\ InUse' /\ Swaps' /\ OwnProxy' /\ Owner' /\ Gone'
    BY <2>1 DEF BoxInv, TypeOK, Distinct, InUse, Swaps, OwnProxy, Owner, Gone
  <2>3. \A i : Cell(i)' = Cell(i)
    BY <2>1 DEF Cell
  <2>4. Links'
    BY <2>1, <2>3 DEF BoxInv, Links
  <2>5. InOrder'
    <3>1. Cell(Len(mail) + 1)' = Cell(Len(mail) + 1) /\ sending' = sending
      BY <2>1 DEF Cell, sending
    <3> QED
      BY <2>1, <2>3, <3>1 DEF BoxInv, InOrder
  <2> QED
    BY <2>2, <2>4, <2>5 DEF BoxInv
<1>2. CASE Next
  BY <1>2, MailBox, FetchAndStoreBox, LinkBox, PopNoneBox, PopFirstBox, SeeSecondBox,
     AdvanceBox, TakeOnlyBox, CompareAndSwapLastBox, DrainBox DEF Next
<1> QED
  BY <1>1, <1>2

(***************************************************************************)
(* The theorems.                                                           *)
(***************************************************************************)
\* The pointers of the list, the senders and the owner stand to the pieces in
\* the box as BoxInv says (mail_outbox::push, internal_pop).
THEOREM BoxInvariant == ASSUME Assumptions PROVE Spec => []BoxInv
<1>1. Init => BoxInv
  BY InitBox
<1>2. BoxInv /\ [Next]_vars => BoxInv'
  BY StepBox
<1> QED
  BY <1>1, <1>2, PTL DEF Spec

\* Every proxy in use is on its way into the box or in it, where the pointers
\* lead through it in order: no piece of mail is lost (mail_outbox).
THEOREM MailKept == ASSUME Assumptions PROVE Spec => []NothingLost
<1>1. BoxInv => NothingLost
  <2> SUFFICES ASSUME BoxInv PROVE NothingLost
    OBVIOUS
  <2>1. \A t \in Sender : pc[t] = "swap" => proxy[t] \in Proxy
    BY DEF BoxInv, Swaps
  <2>2. \A i \in DOMAIN mail : mail[i] \in Proxy
    BY DEF BoxInv, TypeOK
  <2>3. alive \subseteq Proxy
    BY DEF BoxInv, TypeOK
  <2>4. alive = Mailed \cup {proxy[t] : t \in {u \in Sender : pc[u] = "swap"}}
    BY <2>1, <2>2, <2>3 DEF BoxInv, InUse, Mailed
  <2> QED
    BY <2>4 DEF BoxInv, NothingLost
<1> QED
  BY <1>1, BoxInvariant, PTL

\* Neither a sender nor the owner follows a pointer into a proxy that has been
\* received and freed (mail_outbox::push, internal_pop).
THEOREM ProxiesLive == ASSUME Assumptions PROVE Spec => []NothingDangling
<1>1. BoxInv => NothingDangling
  <2> SUFFICES ASSUME BoxInv PROVE NothingDangling
    OBVIOUS
  <2>1. TypeOK /\ \A i \in DOMAIN mail : mail[i] \in alive
    BY DEF BoxInv, TypeOK, InUse
  <2>2. \A i \in 1 .. Len(mail) + 1 : Cell(i) \in alive \cup {Box}
    <3> SUFFICES ASSUME NEW i \in 1 .. Len(mail) + 1 PROVE Cell(i) \in alive \cup {Box}
      OBVIOUS
    <3>1. i # 1 => i - 1 \in DOMAIN mail
      BY <2>1 DEF TypeOK
    <3> QED
      BY <2>1, <3>1 DEF Cell
  <2>3. \A t \in Sender : pc[t] = "link" => link[t] \in alive \cup {Box}
    <3> SUFFICES ASSUME NEW t \in Sender, pc[t] = "link" PROVE link[t] \in alive \cup {Box}
      OBVIOUS
    <3>1. PICK i \in DOMAIN mail : link[t] = Cell(i)
      BY DEF BoxInv, Links
    <3>2. i \in 1 .. Len(mail) + 1
      BY <2>1 DEF TypeOK
    <3> QED
      BY <2>2, <3>1, <3>2
  <2>4. first \in alive \cup {NULL}
    <3>1. mail # <<>> => 1 \in DOMAIN mail
      BY <2>1 DEF TypeOK
    <3> QED
      BY <2>1, <3>1 DEF BoxInv, Owner, TypeOK
  <2>5. ASSUME NEW c \in alive \cup {Box} PROVE next[c] \in alive \cup {NULL}
    <3>1. CASE owner = "gone"
      <4>1. c = Box
        BY <2>1, <3>1 DEF BoxInv, Gone, InUse, TypeOK
      <4> QED
        BY <3>1, <4>1 DEF BoxInv, Owner
    <3>2. CASE \E i \in 1 .. Len(mail) + 1 : c = Cell(i)
      <4>1. PICK i \in 1 .. Len(mail) + 1 : c = Cell(i)
        BY <3>2
      <4>2. CASE i = Len(mail) + 1
        BY <3>1, <4>1, <4>2 DEF BoxInv, InOrder, Owner
      <4>3. CASE i # Len(mail) + 1
        <5>1. i \in DOMAIN mail
          BY <2>1, <4>3 DEF TypeOK
        <5>2. ASSUME NEW t \in sending, link[t] = Cell(i) PROVE next[c] = NULL
          BY <4>1, <5>2 DEF BoxInv, Links, sending
        <5>3. i = 1 /\ owner \notin {"idle", "gone"} => next[c] \in {first, NULL}
          BY <2>1, <4>1 DEF BoxInv, Owner, Cell, TypeOK
        <5>4. owner \in {"idle", "gone"} => first = NULL
          BY DEF BoxInv, Owner
        <5>5. mail[i] # NULL
          BY <2>1, <5>1 DEF TypeOK, Assumptions
        <5> QED
          BY <2>1, <2>4, <3>1, <4>1, <5>1, <5>2, <5>3, <5>4, <5>5 DEF BoxInv, InOrder
      <4> QED
        BY <4>2, <4>3
    <3>3. ASSUME c \in alive, NEW t \in Sender, pc[t] = "swap", proxy[t] = c
          PROVE  next[c] = NULL
      BY <3>3 DEF BoxInv, Swaps
    <3>4. ASSUME NEW i \in DOMAIN mail, mail[i] = c
          PROVE  \E j \in 1 .. Len(mail) + 1 : c = Cell(j)
      <4>1. i + 1 \in 1 .. Len(mail) + 1 /\ i + 1 # 1 /\ (i + 1) - 1 = i
        BY <2>1 DEF TypeOK
      <4>2. Cell(i + 1) = c
        BY <3>4, <4>1 DEF Cell
      <4> QED
        BY <4>1, <4>2
    <3>5. c = Box => \E j \in 1 .. Len(mail) + 1 : c = Cell(j)
      <4>1. 1 \in 1 .. Len(mail) + 1 /\ Cell(1) = Box
        BY <2>1 DEF Cell, TypeOK
      <4> QED
        BY <4>1
    <3> QED
      BY <2>1, <3>2, <3>1, <3>3, <3>4, <3>5 DEF BoxInv, InUse, TypeOK
  <2> QED
    BY <2>3, <2>4, <2>5 DEF NothingDangling
<1> QED
  BY <1>1, BoxInvariant, PTL

\* The mailbox implements the abstract one, Mail: mail comes out in the order
\* in which it went in, each piece once, and the box looks empty to its owner
\* only when it is or a sender has yet to link its piece.
THEOREM MailboxImplementsMail == ASSUME Assumptions PROVE Spec => ImplementsMail
<1>1. Init => Abstract!Init
  BY DEF Init, Abstract!Init, sending
<1>2. BoxInv /\ [Next]_vars => [Abstract!Next]_Abstract!mailVars
  <2> SUFFICES ASSUME BoxInv, [Next]_vars PROVE Abstract!Next \/ UNCHANGED <<mail, sending, got>>
    BY DEF Abstract!mailVars
  <2>1. TypeOK
    BY DEF BoxInv
  <2>2. pc' = pc => sending' = sending
    BY DEF sending
  <2>3. ASSUME NEW t \in Sender, Mail(t) PROVE UNCHANGED <<mail, sending, got>>
    BY <2>1, <2>3 DEF Mail, Goto, Set, sending, ownerVars, TypeOK
  <2>4. ASSUME NEW t \in Sender, FetchAndStore(t) PROVE Abstract!Next
    <3>1. /\ t \notin sending /\ sending' = sending \cup {t}
      BY <2>1, <2>4 DEF FetchAndStore, Goto, Set, sending, TypeOK
    <3>2. proxy[t] \in Proxy /\ \A i \in DOMAIN mail : mail[i] # proxy[t]
      BY <2>4 DEF FetchAndStore, Goto, BoxInv, Swaps
    <3>3. mail' = Append(mail, proxy[t]) /\ got' = got
      BY <2>4 DEF FetchAndStore, ownerVars
    <3> QED
      BY <3>1, <3>2, <3>3 DEF Abstract!Next, Abstract!PutIn
  <2>5. ASSUME NEW t \in Sender, Link(t) PROVE Abstract!Next
    <3>1. t \in sending /\ sending' = sending \ {t}
      BY <2>1, <2>5 DEF Link, Goto, Set, sending, TypeOK
    <3>2. UNCHANGED <<mail, got>>
      BY <2>5 DEF Link, ownerVars
    <3> QED
      BY <3>1, <3>2 DEF Abstract!Next, Abstract!Return
  <2>6. ASSUME PopNone PROVE Abstract!Next
    <3>1. /\ owner = "idle" /\ next[Box] = NULL /\ got' = NULL
          /\ UNCHANGED <<mail, pc>>
      BY <2>6 DEF PopNone, senderVars
    <3>2. mail = <<>> \/ sending # {}
      <4>1. ASSUME mail # <<>> PROVE sending # {}
        <5>1. 1 \in DOMAIN mail /\ mail[1] # NULL
          BY <2>1, <4>1 DEF TypeOK, Assumptions
        <5>2. Cell(1) = Box /\ first = NULL
          BY <3>1 DEF Cell, BoxInv, Owner
        <5> QED
          BY <3>1, <5>1, <5>2 DEF BoxInv, InOrder
      <4> QED
        BY <4>1
    <3> QED
      BY <2>2, <3>1, <3>2 DEF Abstract!Next, Abstract!FindNothing
  <2>7. CASE PopFirst \/ SeeSecond \/ TakeOnly
    BY <2>2, <2>7 DEF PopFirst, SeeSecond, TakeOnly, senderVars
  <2>8. ASSUME Advance PROVE Abstract!Next
    BY <2>2, <2>8, AdvanceBox DEF Advance, senderVars, Abstract!Next, Abstract!Receive
  <2>9. ASSUME CompareAndSwapLast PROVE Abstract!Next \/ UNCHANGED <<mail, sending, got>>
    BY <2>2, <2>9, CompareAndSwapLastBox
       DEF CompareAndSwapLast, senderVars, Abstract!Next, Abstract!Receive
  <2>10. ASSUME Drain PROVE Abstract!Next
    <3>1. sending = {} /\ mail' = <<>> /\ UNCHANGED <<pc, got>>
      BY <2>10 DEF Drain, Turns, sending, senderVars
    <3> QED
      BY <2>2, <3>1 DEF Abstract!Next, Abstract!Drain
  <2>11. CASE UNCHANGED vars
    BY <2>2, <2>11 DEF vars
  <2> QED
    BY <2>3, <2>4, <2>5, <2>6, <2>7, <2>8, <2>9, <2>10, <2>11 DEF Next
<1> QED
  BY <1>1, <1>2, BoxInvariant, PTL DEF Spec, ImplementsMail, Abstract!Spec
=============================================================================
