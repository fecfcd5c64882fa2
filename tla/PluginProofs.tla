---------------------------- MODULE PluginProofs ----------------------------
(***************************************************************************)
(* Proofs about the protocol plugins, for any number of users, settings,   *)
(* connections, touches and messages:                                      *)
(*                                                                         *)
(*   - the automatic login of telnet, the queue of messages to Kubernetes  *)
(*     and the life of SSH, telnet and Kubernetes sessions (TextSessions); *)
(*   - the life of VNC and RDP sessions (GraphicalSessions);               *)
(*   - the input of an RDP connection and the sizes it asks for            *)
(*     (RdpEvents).                                                        *)
(*                                                                         *)
(* The invariants say what each place in a thread may rely on: which       *)
(* pattern has been released, which part of the session exists, which lock *)
(* is held.                                                                *)
(***************************************************************************)
EXTENDS TextSessions, GraphicalSessions, RdpEvents, FiniteSetTheorems,
        SequenceTheorems, TLAPS

-----------------------------------------------------------------------------
(* What passes between a terminal and its server.                          *)

\* What was sent is not searched for any more; a pattern that matched has not
\* been acted upon, nor has one that would release it; both outcomes of the
\* login are searched for, or none, and none once it failed.
LoginInv ==
  /\ regex \subseteq initial /\ initial \subseteq Patterns
  /\ search \in Patterns \cup {"idle", "done"}
  /\ login \in Seq({"username", "password"})
  /\ {found, opened, refused} \subseteq BOOLEAN
  /\ \A i \in DOMAIN login : /\ login[i] \notin regex
                             /\ login[i] = "password" => "username" \notin regex
  /\ found => /\ search \in Patterns
              /\ \A i \in DOMAIN login :
                   /\ login[i] # search
                   /\ search = "username" => login[i] # "password"
              /\ search \in {"success", "failure"} => ~refused
              /\ search = "failure" => ~opened
  /\ "success" \in initial <=> "failure" \in initial
  /\ "success" \in regex <=> "failure" \in regex
  /\ refused => regex = {}
  /\ CredentialsSentOnce
  /\ OutcomeDecidedOnce

\* Telnet starts with nothing sent and with every pattern it was given
\* (guac_telnet_client_thread()).
LEMMA LoginInitInv == TelnetInit => LoginInv
<1> SUFFICES ASSUME TelnetInit  PROVE LoginInv
  OBVIOUS
<1>1. login \in Seq({"username", "password"}) /\ DOMAIN login = {}
  BY DEF TelnetInit
<1>2. CredentialsSentOnce
  BY <1>1 DEF CredentialsSentOnce
<1>3. OutcomeDecidedOnce
  BY DEF TelnetInit, OutcomeDecidedOnce
<1> QED
  BY <1>1, <1>2, <1>3 DEF TelnetInit, LoginInv

\* Patterns are released; nothing is sent.
LEMMA ReleasePreserves ==
  ASSUME LoginInv, TypeKey
  PROVE  LoginInv'
<1>1. /\ UNCHANGED <<initial, search, found, login, opened, refused>>
      /\ regex' = regex \ {"username", "password"}
  BY DEF TypeKey
<1>2. CredentialsSentOnce' /\ OutcomeDecidedOnce'
  BY <1>1 DEF LoginInv, CredentialsSentOnce, OutcomeDecidedOnce
<1> QED
  BY <1>1, <1>2 DEF LoginInv

\* A match of guac_telnet_regex_exec(), with the credential it sends, keeps the
\* invariant.
LEMMA MatchPreserves ==
  ASSUME LoginInv, Match
  PROVE  LoginInv'
<1>1. UNCHANGED <<initial, regex, login, opened, refused>> /\ ~found /\ search \in Patterns
  BY DEF Match
<1>2. CredentialsSentOnce' /\ OutcomeDecidedOnce'
  BY <1>1 DEF LoginInv, CredentialsSentOnce, OutcomeDecidedOnce
<1>3. CASE found'
  <2>1. search \in regex /\ search' = search /\ found' = TRUE
    BY <1>1, <1>3 DEF Match
  <2>2. search \in {"success", "failure"} => ~refused
    BY <2>1 DEF LoginInv
  <2>3. search = "failure" => ~opened
    BY <2>1 DEF LoginInv, OutcomeDecidedOnce
  <2> QED
    BY <1>1, <1>2, <2>1, <2>2, <2>3 DEF LoginInv
<1>4. CASE ~found'
  <2>1. found' = FALSE /\ search' = Following[search]
    BY <1>1, <1>4 DEF Match, LoginInv
  <2>2. search' \in Patterns \cup {"idle", "done"}
    BY <1>1, <2>1 DEF Following, Patterns
  <2> QED
    BY <1>1, <1>2, <2>1, <2>2 DEF LoginInv
<1> QED
  BY <1>3, <1>4

\* What guac_telnet_search_line() releases and sets after a match keeps the
\* invariant.
LEMMA ActPreserves ==
  ASSUME LoginInv, Act
  PROVE  LoginInv'
<1>1. /\ search \in Patterns /\ found /\ found' = FALSE /\ initial' = initial
      /\ login' = IF search \in {"username", "password"} THEN Append(login, search) ELSE login
      /\ opened' = (opened \/ search = "success")
      /\ refused' = (refused \/ search = "failure")
      /\ regex' = regex \ Released(search)
      /\ search' = Following[search]
  BY DEF Act
<1>2. search' \in Patterns \cup {"idle", "done"}
  BY <1>1 DEF Following, Patterns
<1>3. CASE search \in {"username", "password"}
  <2>1. /\ login' = Append(login, search) /\ opened' = opened /\ refused' = refused
        /\ regex' = regex \ (IF search = "username" THEN {"username"}
                             ELSE {"username", "password"})
    BY <1>1, <1>3 DEF Released, LoginInv
  <2>2. login \in Seq({"username", "password"})
    BY DEF LoginInv
  <2>3. /\ login' \in Seq({"username", "password"})
        /\ DOMAIN login' = 1 .. Len(login) + 1 /\ login'[Len(login) + 1] = search
        /\ \A i \in 1 .. Len(login) : login'[i] = login[i]
    BY <1>3, <2>1, <2>2
  <2>4. \A i \in 1 .. Len(login) : login[i] # search
                                   /\ (search = "username" => login[i] # "password")
    BY <1>1, <2>2 DEF LoginInv
  <2>5. CredentialsSentOnce'
    <3>1. ASSUME NEW i \in DOMAIN login', NEW j \in DOMAIN login'
          PROVE  /\ login'[i] = login'[j] => i = j
                 /\ login'[i] = "password" /\ login'[j] = "username" => j < i
      <4>1. CASE i = Len(login) + 1 /\ j = Len(login) + 1
        BY <2>3, <4>1, <1>3
      <4>2. CASE i = Len(login) + 1 /\ j \in 1 .. Len(login)
        BY <2>2, <2>3, <2>4, <4>2
      <4>3. CASE j = Len(login) + 1 /\ i \in 1 .. Len(login)
        BY <2>2, <2>3, <2>4, <4>3
      <4>4. CASE i \in 1 .. Len(login) /\ j \in 1 .. Len(login)
        BY <2>2, <2>3, <4>4 DEF LoginInv, CredentialsSentOnce
      <4> QED
        BY <2>2, <2>3, <4>1, <4>2, <4>3, <4>4
    <3> QED
      BY <3>1 DEF CredentialsSentOnce
  <2>6. OutcomeDecidedOnce'
    BY <1>1, <2>1 DEF LoginInv, OutcomeDecidedOnce
  <2>7. \A i \in DOMAIN login' : /\ login'[i] \notin regex'
                                 /\ login'[i] = "password" => "username" \notin regex'
    BY <1>3, <2>1, <2>2, <2>3 DEF LoginInv
  <2> QED
    BY <1>1, <1>2, <1>3, <2>1, <2>3, <2>5, <2>6, <2>7 DEF LoginInv
<1>4. CASE search \in {"success", "failure"}
  <2>1. login' = login /\ regex' = {}
    BY <1>1, <1>4 DEF Released, LoginInv
  <2>2. CredentialsSentOnce'
    BY <2>1 DEF LoginInv, CredentialsSentOnce
  <2>3. ~refused /\ (search = "failure" => ~opened)
    BY <1>1, <1>4 DEF LoginInv
  <2>4. OutcomeDecidedOnce'
    BY <1>1, <1>4, <2>1, <2>3 DEF OutcomeDecidedOnce
  <2> QED
    BY <1>1, <1>2, <2>1, <2>2, <2>4 DEF LoginInv
<1> QED
  BY <1>1, <1>3, <1>4 DEF Patterns

\* Every step of telnet keeps the invariant of its login.
LEMMA LoginNextInv == LoginInv /\ [TelnetNext]_telnetVars => LoginInv'
<1> SUFFICES ASSUME LoginInv, [TelnetNext]_telnetVars  PROVE LoginInv'
  OBVIOUS
<1>1. ASSUME /\ UNCHANGED <<regex, initial, found, login, opened, refused>>
             /\ search' = search \/ (~found /\ search' \in {"idle", "username"})
      PROVE  LoginInv'
  <2>1. CredentialsSentOnce' /\ OutcomeDecidedOnce'
    BY <1>1 DEF LoginInv, CredentialsSentOnce, OutcomeDecidedOnce
  <2>2. search' \in Patterns \cup {"idle", "done"}
    BY <1>1 DEF LoginInv, Patterns
  <2> QED
    BY <1>1, <2>1, <2>2 DEF LoginInv
<1>2. CASE \E chunk \in Chunks : telnet_recv(chunk)
  BY <1>1, <1>2 DEF telnet_recv
<1>3. CASE SearchNext \/ SearchDone
  <2>1. ~found
    BY <1>3 DEF SearchNext, SearchDone, LoginInv, Patterns
  <2>2. search' \in {search, "idle", "username"}
    BY <1>3 DEF SearchNext, SearchDone
  <2> QED
    BY <1>1, <1>3, <2>1, <2>2 DEF SearchNext, SearchDone
<1>5. CASE UNCHANGED telnetVars
  BY <1>1, <1>5 DEF telnetVars
<1> QED
  BY <1>2, <1>3, <1>5, MatchPreserves, ActPreserves, ReleasePreserves DEF TelnetNext

-----------------------------------------------------------------------------
(* Messages to Kubernetes.                                                 *)

QueueInv ==
  /\ slots \in [0 .. MaxWaiting - 1 -> Nat]
  /\ top \in 0 .. MaxWaiting - 1
  /\ waiting \in 0 .. MaxWaiting
  /\ queued \in Seq(Nat) /\ written \in Seq(Nat)
  /\ IsFiniteSet(dropped)
  /\ MessagesInOrder

\* Slots are counted around the ring.
LEMMA SlotAround ==
  ASSUME NEW t \in 0 .. MaxWaiting - 1, NEW k \in 0 .. MaxWaiting
  PROVE  /\ (t + k) % MaxWaiting = IF t + k < MaxWaiting THEN t + k ELSE t + k - MaxWaiting
         /\ (t + k) % MaxWaiting \in 0 .. MaxWaiting - 1
BY QueueAssumption

\* Two positions of the buffer of messages (io.c) are two slots.
LEMMA SlotsApart ==
  ASSUME NEW t \in 0 .. MaxWaiting - 1, NEW j \in 0 .. MaxWaiting - 1,
         NEW k \in 0 .. MaxWaiting - 1, j # k
  PROVE  (t + j) % MaxWaiting # (t + k) % MaxWaiting
<1> DEFINE a == (t + j) % MaxWaiting
           b == (t + k) % MaxWaiting
<1>1. a = (IF t + j < MaxWaiting THEN t + j ELSE t + j - MaxWaiting)
  BY SlotAround, QueueAssumption
<1>2. b = (IF t + k < MaxWaiting THEN t + k ELSE t + k - MaxWaiting)
  BY SlotAround, QueueAssumption
<1> HIDE DEF a, b
<1>3. a # b
  BY <1>1, <1>2, QueueAssumption
<1> QED
  BY <1>3 DEF a, b

\* The slot one after the next of the ring is two after this one (io.c).
LEMMA NextSlot ==
  ASSUME NEW t \in 0 .. MaxWaiting - 1, NEW k \in 0 .. MaxWaiting - 1
  PROVE  (((t + 1) % MaxWaiting) + k) % MaxWaiting = (t + k + 1) % MaxWaiting
<1> DEFINE u == (t + 1) % MaxWaiting
           a == (u + k) % MaxWaiting
           b == (t + (k + 1)) % MaxWaiting
<1>0. 1 \in 0 .. MaxWaiting /\ k \in 0 .. MaxWaiting /\ k + 1 \in 0 .. MaxWaiting
  BY QueueAssumption
<1>1. u = (IF t + 1 < MaxWaiting THEN t + 1 ELSE t + 1 - MaxWaiting)
      /\ u \in 0 .. MaxWaiting - 1
  BY <1>0, SlotAround
<1> HIDE DEF u
<1>2. a = (IF u + k < MaxWaiting THEN u + k ELSE u + k - MaxWaiting)
  BY <1>0, <1>1, SlotAround
<1>3. b = (IF t + (k + 1) < MaxWaiting THEN t + (k + 1) ELSE t + (k + 1) - MaxWaiting)
  BY <1>0, SlotAround
<1> HIDE DEF a, b
<1>4. a = b
  BY <1>1, <1>2, <1>3, QueueAssumption
<1>5. t + (k + 1) = t + k + 1
  OBVIOUS
<1> QED
  BY <1>4, <1>5 DEF a, b, u

\* A sequence is a prefix of another when it is no longer and agrees with it.
LEMMA PrefixFacts ==
  ASSUME NEW s \in Seq(Nat), NEW q \in Seq(Nat)
  PROVE  IsPrefix(s, q) <=> Len(s) <= Len(q) /\ \A i \in 1 .. Len(s) : s[i] = q[i]
BY DEF IsPrefix

\* The buffer of messages to Kubernetes starts empty (kubernetes.h).
LEMMA QueueInitInv == QueueInit => QueueInv
<1> SUFFICES ASSUME QueueInit  PROVE QueueInv
  OBVIOUS
<1>1. queued \in Seq(Nat) /\ written \in Seq(Nat) /\ Len(queued) = 0 /\ Len(written) = 0
  BY DEF QueueInit
<1>2. slots \in [0 .. MaxWaiting - 1 -> Nat] /\ top \in 0 .. MaxWaiting - 1
      /\ waiting \in 0 .. MaxWaiting /\ waiting = 0
  BY QueueAssumption DEF QueueInit
<1>3. IsFiniteSet(dropped)
  BY FS_EmptySet DEF QueueInit
<1>4. IsPrefix(written, queued)
  <2>1. Len(written) <= Len(queued) /\ \A i \in 1 .. Len(written) : written[i] = queued[i]
    BY <1>1
  <2> QED
    BY <1>1, <2>1, PrefixFacts
<1>5. MessagesInOrder
  BY <1>1, <1>2, <1>4 DEF MessagesInOrder
<1> QED
  BY <1>1, <1>2, <1>3, <1>5 DEF QueueInv

\* guac_kubernetes_send_message() puts its message after those that wait, or
\* drops it, and keeps the invariant.
LEMMA SendPreserves ==
  ASSUME QueueInv, guac_kubernetes_send_message(NextMessage), UNCHANGED <<top, written>>
  PROVE  QueueInv'
<1> DEFINE m == NextMessage
           at == (top + waiting) % MaxWaiting
<1>1. m \in Nat
  BY FS_CardinalityType DEF QueueInv, NextMessage
<1> HIDE DEF m
<1>2. CASE waiting < MaxWaiting
  <2>1. /\ slots' = [slots EXCEPT ![at] = m] /\ waiting' = waiting + 1
        /\ queued' = Append(queued, m) /\ dropped' = dropped
    BY <1>2 DEF guac_kubernetes_send_message, m
  <2>2. at \in 0 .. MaxWaiting - 1
    BY SlotAround DEF QueueInv
  <2> HIDE DEF at
  <2>3. waiting' \in 0 .. MaxWaiting /\ slots' \in [0 .. MaxWaiting - 1 -> Nat]
    BY <1>1, <1>2, <2>1, <2>2, QueueAssumption DEF QueueInv
  <2>4. /\ queued' \in Seq(Nat) /\ Len(queued') = Len(queued) + 1
        /\ queued'[Len(queued) + 1] = m
        /\ \A i \in 1 .. Len(queued) : queued'[i] = queued[i]
    BY <1>1, <2>1 DEF QueueInv
  <2>5. IsPrefix(written', queued')
    <3>1. written \in Seq(Nat) /\ queued \in Seq(Nat) /\ written' = written
      BY DEF QueueInv
    <3>2. Len(written) <= Len(queued) /\ \A i \in 1 .. Len(written) : written[i] = queued[i]
      BY <3>1, PrefixFacts DEF QueueInv, MessagesInOrder
    <3>3. Len(written) <= Len(queued') /\ \A i \in 1 .. Len(written) : written[i] = queued'[i]
      <4>1. Len(written) \in Nat /\ Len(queued) \in Nat
        BY <3>1
      <4>2. Len(written) <= Len(queued')
        BY <2>4, <3>2, <4>1
      <4>3. 1 .. Len(written) \subseteq 1 .. Len(queued)
        BY <3>2, <4>1
      <4>4. \A i \in 1 .. Len(queued) : queued'[i] = queued[i]
        BY <2>4
      <4> QED
        BY <3>2, <4>2, <4>3, <4>4
    <3> QED
      BY <2>4, <3>1, <3>3, PrefixFacts
  <2>6. Len(queued') = Len(written') + waiting'
    BY <2>1, <2>4 DEF QueueInv, MessagesInOrder
  <2>7. ASSUME NEW i \in 1 .. waiting'
        PROVE  slots'[(top + i - 1) % MaxWaiting] = queued'[Len(written) + i]
    <3>1. CASE i = waiting + 1
      <4>1. (top + i - 1) % MaxWaiting = at /\ Len(written) + i = Len(queued) + 1
        BY <3>1 DEF QueueInv, MessagesInOrder, at
      <4> QED
        BY <2>1, <2>2, <2>4, <4>1 DEF QueueInv
    <3>2. CASE i # waiting + 1
      <4>1. i \in 1 .. waiting /\ i - 1 \in 0 .. MaxWaiting - 1
            /\ waiting \in 0 .. MaxWaiting - 1 /\ i - 1 # waiting
        BY <1>2, <2>1, <3>2, QueueAssumption DEF QueueInv
      <4>2. /\ (top + (i - 1)) % MaxWaiting # (top + waiting) % MaxWaiting
            /\ (top + (i - 1)) % MaxWaiting \in 0 .. MaxWaiting - 1
        <5>1. top \in 0 .. MaxWaiting - 1 /\ i - 1 \in 0 .. MaxWaiting
          BY <4>1, QueueAssumption DEF QueueInv
        <5>2. (top + (i - 1)) % MaxWaiting # (top + waiting) % MaxWaiting
          BY <4>1, <5>1, SlotsApart
        <5> QED
          BY <5>1, <5>2, SlotAround
      <4>3. top + (i - 1) = top + i - 1
        BY <4>1 DEF QueueInv
      <4>4. slots[(top + i - 1) % MaxWaiting] = queued[Len(written) + i]
        BY <4>1 DEF QueueInv, MessagesInOrder
      <4>5. Len(written) + i \in 1 .. Len(queued)
        BY <4>1 DEF QueueInv, MessagesInOrder
      <4> QED
        BY <2>1, <2>4, <4>2, <4>3, <4>4, <4>5 DEF QueueInv, at
    <3> QED
      BY <3>1, <3>2
  <2> QED
    BY <2>1, <2>3, <2>4, <2>5, <2>6, <2>7 DEF QueueInv, MessagesInOrder
<1>3. CASE ~(waiting < MaxWaiting)
  <2>1. dropped' = dropped \cup {m} /\ UNCHANGED <<slots, waiting, queued>>
    BY <1>3 DEF guac_kubernetes_send_message, m
  <2>2. IsFiniteSet(dropped')
    BY <2>1, FS_AddElement DEF QueueInv
  <2> QED
    BY <2>1, <2>2 DEF QueueInv, MessagesInOrder
<1> QED
  BY <1>2, <1>3

\* guac_kubernetes_write_pending_message() writes the first message that waits
\* and keeps the invariant.
LEMMA WritePreserves ==
  ASSUME QueueInv, guac_kubernetes_write_pending_message
  PROVE  QueueInv'
<1>1. CASE waiting > 0
  <2> DEFINE n == Len(written)
  <2>1. /\ written' = Append(written, slots[top]) /\ top' = (top + 1) % MaxWaiting
        /\ waiting' = waiting - 1 /\ UNCHANGED <<slots, queued, dropped>>
    BY <1>1 DEF guac_kubernetes_write_pending_message
  <2>2. top' \in 0 .. MaxWaiting - 1 /\ waiting' \in 0 .. MaxWaiting
    BY <1>1, <2>1, SlotAround, QueueAssumption DEF QueueInv
  <2>3. slots[top] = queued[n + 1]
    <3>1. top + 1 - 1 = top /\ 1 \in 1 .. waiting /\ top = top + 0 /\ 0 \in 0 .. MaxWaiting
      BY <1>1, QueueAssumption DEF QueueInv
    <3>2. (top + 1 - 1) % MaxWaiting = top
      <4>1. top \in 0 .. MaxWaiting - 1 /\ MaxWaiting \in Nat
        BY QueueAssumption DEF QueueInv
      <4>2. top % MaxWaiting = top
        BY <4>1
      <4> QED
        BY <3>1, <4>2
    <3> QED
      BY <3>1, <3>2 DEF QueueInv, MessagesInOrder
  <2>4. /\ written' \in Seq(Nat) /\ Len(written') = n + 1 /\ written'[n + 1] = slots[top]
        /\ \A i \in 1 .. n : written'[i] = written[i]
    BY <2>1 DEF QueueInv
  <2>5. IsPrefix(written', queued')
    <3>1. n + 1 <= Len(queued) /\ n \in Nat
      BY <1>1 DEF QueueInv, MessagesInOrder
    <3>2. \A i \in 1 .. n : written[i] = queued[i]
      BY PrefixFacts DEF QueueInv, MessagesInOrder
    <3>3. queued' = queued /\ queued \in Seq(Nat) /\ n \in Nat
      BY <2>1 DEF QueueInv
    <3>4. \A i \in 1 .. n + 1 : written'[i] = queued[i]
      BY <2>3, <2>4, <3>1, <3>2
    <3> HIDE DEF n
    <3> QED
      BY <2>4, <3>1, <3>3, <3>4, PrefixFacts
  <2>6. Len(queued') = Len(written') + waiting'
    <3>1. n \in Nat /\ waiting \in Nat /\ Len(queued) = n + waiting
      BY QueueAssumption DEF QueueInv, MessagesInOrder
    <3> HIDE DEF n
    <3> QED
      BY <2>1, <2>4, <3>1
  <2>7. ASSUME NEW i \in 1 .. waiting'
        PROVE  slots'[(top' + i - 1) % MaxWaiting] = queued'[Len(written') + i]
    <3>1. i \in Nat /\ i + 1 \in 1 .. waiting /\ i - 1 \in 0 .. MaxWaiting - 1
      BY <2>1, QueueAssumption DEF QueueInv
    <3>2. (((top + 1) % MaxWaiting) + (i - 1)) % MaxWaiting = (top + (i - 1) + 1) % MaxWaiting
      BY <3>1, NextSlot DEF QueueInv
    <3>3. top + (i - 1) + 1 = top + (i + 1) - 1 /\ top' + (i - 1) = top' + i - 1
      BY <2>2, <3>1 DEF QueueInv
    <3>4. slots[(top + (i + 1) - 1) % MaxWaiting] = queued[n + (i + 1)]
      BY <3>1 DEF QueueInv, MessagesInOrder
    <3>5. Len(written') + i = n + (i + 1)
      BY <2>4, <3>1 DEF QueueInv
    <3> QED
      BY <2>1, <3>2, <3>3, <3>4, <3>5
  <2> QED
    BY <2>1, <2>2, <2>4, <2>5, <2>6, <2>7 DEF QueueInv, MessagesInOrder
<1>2. CASE ~(waiting > 0)
  BY <1>2 DEF guac_kubernetes_write_pending_message, QueueInv, MessagesInOrder
<1> QED
  BY <1>1, <1>2

\* Every step of the buffer of messages keeps its invariant.
LEMMA QueueNextInv == QueueInv /\ [QueueNext]_queueVars => QueueInv'
<1> SUFFICES ASSUME QueueInv, [QueueNext]_queueVars  PROVE QueueInv'
  OBVIOUS
<1>1. CASE SendInput
  BY <1>1, SendPreserves DEF SendInput
<1>2. CASE \E r \in 1 .. 2 : guac_kubernetes_resize(r)
  BY <1>2, SendPreserves DEF guac_kubernetes_resize
<1>3. CASE Established \/ UNCHANGED queueVars
  BY <1>3 DEF Established, queueVars, QueueInv, MessagesInOrder
<1> QED
  BY <1>1, <1>2, <1>3, WritePreserves DEF QueueNext

-----------------------------------------------------------------------------
(* The life of a session of SSH, telnet or Kubernetes.                     *)

LifeTypeOK ==
  /\ tx \in TextPlugins
  /\ txState \in {"RUNNING", "STOPPING"}
  /\ cpc \in {"idle", "connect", "loop", "write", "join", "fail", "end"}
  /\ cstep \in Nat \ {0}
  /\ ipc \in {"idle", "run", "end"}
  /\ fpc \in Nat
  /\ thing \in [Things -> {"null", "live", "stopped", "freed"}]
  /\ stdin \in 0 .. MaxTyped
  /\ joined \in [TextUsers -> {"away", "joined", "left"}]
  /\ handlers \in [TextUsers -> SUBSET HandlerNames]
  /\ misuse \subseteq {"client", "input", "user", "process"} \X Things \X {"null", "freed"}
  /\ quiet \in BOOLEAN

NoneFreed == \A n \in Things : thing[n] # "freed"

ThreadsMisuseFreed == \E m \in misuse : m[1] \in {"client", "input"} /\ m[3] = "freed"

\* The input thread runs only while the client thread has not got past waiting
\* for it.
InputWithin ==
  /\ cpc \in {"idle", "connect"} => ipc = "idle"
  /\ cpc \in {"fail", "end"} => ipc # "run"

\* Nothing happens before the owner has joined.
OwnerFirst ==
  /\ joined["owner"] = "away" =>
       /\ cpc = "idle" /\ txState = "RUNNING" /\ fpc = 0
       /\ \A n \in Things : thing[n] = "null"
       /\ \A u \in TextUsers : joined[u] = "away"
  /\ joined["owner"] # "away" => thing["settings"] # "null"

\* Freeing begins after the last user, and nobody joins who is too late.
FreeingAlone ==
  fpc # 0 => txState = "STOPPING" /\ \A u \in TextUsers : joined[u] # "joined"

\* What is freed by whom, and when: of SSH and telnet nothing before freeing has
\* begun; of SSH nothing before the terminal, if there was one when freeing
\* began, and the thread has ended then; of Kubernetes nothing while its thread
\* runs.
FreedInOrder ==
  /\ tx \in {"ssh", "telnet"} /\ fpc = 0 => NoneFreed
  /\ tx = "ssh" =>
       /\ fpc <= 3 => NoneFreed /\ ~ThreadsMisuseFreed
       /\ fpc \in {2, 3} => thing["term"] # "null"
       /\ fpc = 3 => cpc = "end"
       /\ thing["term"] = "freed" => cpc = "end" /\ ~ThreadsMisuseFreed
  /\ tx = "kubernetes" =>
       /\ cpc # "end" => NoneFreed
       /\ fpc > 1 => cpc = "end"
       /\ ~ThreadsMisuseFreed

LifeInv ==
  /\ LifeTypeOK
  /\ InputWithin
  /\ OwnerFirst
  /\ FreeingAlone
  /\ FreedInOrder
  /\ UsersOutlived
  /\ cpc = "join" => txState = "STOPPING"
  /\ EndedIsStopped
  /\ \A u \in TextUsers : handlers[u] # {} => u \notin config.readonly
  /\ typed \subseteq TextUsers
  /\ ReadOnlyUsersPassive

\* Two elements make a sequence.
LEMMA TwoOf == ASSUME NEW S, NEW a \in S, NEW b \in S  PROVE <<a, b>> \in Seq(S)
OBVIOUS

\* Three elements make a sequence.
LEMMA ThreeOf ==
  ASSUME NEW S, NEW a \in S, NEW b \in S, NEW c \in S  PROVE <<a, b, c>> \in Seq(S)
OBVIOUS

StepType == [creates : Things \cup {""}, uses : SUBSET Things,
             failure : {"abort", "silently", "cannot"}]

\* The steps of a client thread create things or nothing.
LEMMA StepsTyped == ASSUME NEW p \in TextPlugins, NEW c  PROVE Steps(p, c) \in Seq(StepType)
<1>1. \A b, s : s \in Seq(StepType) => Only(b, s) \in Seq(StepType)
  BY DEF Only, Nothing
<1>2. \A n \in Things \cup {""}, uses \in SUBSET Things,
         f \in {"abort", "silently", "cannot"} : Step(n, uses, f) \in StepType
  BY DEF Step, StepType
<1>3. \A a, b \in Seq(StepType) : a \o b \in Seq(StepType)
  OBVIOUS
<1>4. \A e \in StepType : <<e>> \in Seq(StepType)
  OBVIOUS
<1>5. {"settings", "term", "link", "sftp", "recording"} \subseteq Things
  BY DEF Things
<1>6. WolStep(c) \in Seq(StepType)
  BY <1>1, <1>2, <1>4, <1>5 DEF WolStep
<1>7. RecordingStep(c) \in Seq(StepType)
  BY <1>1, <1>2, <1>4, <1>5 DEF RecordingStep
<1>8. TerminalSteps \in Seq(StepType)
  <2>1. Step("term", {"settings"}, "abort") \in StepType /\ Step("", {"term"}, "cannot") \in StepType
    BY <1>2, <1>5
  <2> QED
    BY <2>1, TwoOf DEF TerminalSteps
<1>9. SshSteps(c) \in Seq(StepType)
  <2>1. <<Step("", {}, "abort")>> \in Seq(StepType)
    BY <1>2, <1>4
  <2>2. <<Step("", {"settings", "term"}, "abort"), Step("", {"settings"}, "abort"),
          Step("link", {}, "abort")>> \in Seq(StepType)
    <3>1. /\ Step("", {"settings", "term"}, "abort") \in StepType
          /\ Step("", {"settings"}, "abort") \in StepType /\ Step("link", {}, "abort") \in StepType
      BY <1>2, <1>5
    <3> QED
      BY <3>1, ThreeOf
  <2>3. Only(c.sftp, <<Step("sftp", {"settings", "term"}, "abort")>>) \in Seq(StepType)
    BY <1>1, <1>2, <1>4, <1>5
  <2>4. <<Step("", {"settings", "term", "link"}, "abort")>> \in Seq(StepType)
    BY <1>2, <1>4, <1>5
  <2> QED
    BY <1>3, <1>6, <1>7, <1>8, <2>1, <2>2, <2>3, <2>4 DEF SshSteps
<1>10. <<Step("link", {"settings"}, "abort")>> \in Seq(StepType)
       /\ <<Step("", {"settings"}, "abort")>> \in Seq(StepType)
  BY <1>2, <1>4, <1>5
<1>11. TelnetSteps(c) \in Seq(StepType)
  BY <1>3, <1>6, <1>7, <1>8, <1>10 DEF TelnetSteps
<1>12. KubernetesSteps(c) \in Seq(StepType)
  BY <1>3, <1>7, <1>8, <1>10 DEF KubernetesSteps
<1> QED
  BY <1>9, <1>11, <1>12 DEF Steps, TextPlugins

\* guac_client_init() leaves settings, no thread and no user.
LEMMA LifeInitInv == TextInit => LifeInv
<1> SUFFICES ASSUME TextInit  PROVE LifeInv
  OBVIOUS
<1>1. LifeTypeOK
  <2>1. thing \in [Things -> {"null", "live", "stopped", "freed"}]
    BY DEF TextInit
  <2>2. /\ joined \in [TextUsers -> {"away", "joined", "left"}]
        /\ handlers \in [TextUsers -> SUBSET HandlerNames]
    BY DEF TextInit
  <2>3. stdin \in 0 .. MaxTyped
    BY TypedAssumption DEF TextInit
  <2>4. cstep \in Nat \ {0} /\ fpc \in Nat
    BY DEF TextInit
  <2> QED
    BY <2>1, <2>2, <2>3, <2>4 DEF TextInit, LifeTypeOK
<1>2. InputWithin /\ OwnerFirst /\ FreeingAlone
  BY DEF TextInit, InputWithin, OwnerFirst, FreeingAlone, TextUsers
<1>3. NoneFreed /\ ~ThreadsMisuseFreed
  BY DEF TextInit, NoneFreed, ThreadsMisuseFreed
<1>4. FreedInOrder
  BY <1>3 DEF TextInit, FreedInOrder, Things
<1> QED
  BY <1>1, <1>2, <1>4
     DEF TextInit, LifeInv, UsersOutlived, EndedIsStopped, ReadOnlyUsersPassive

\* What is recorded of uses: who used it, and that it was not there.
LEMMA Recorded ==
  ASSUME LifeTypeOK, NEW who, NEW S \in SUBSET Things, Uses(who, S)
  PROVE  /\ \A m \in misuse' : m \in misuse \/ /\ m[1] = who /\ m[2] \in S
                                               /\ m[3] = thing[m[2]]
                                               /\ m[3] \in {"null", "freed"}
         /\ who \in {"client", "input", "user", "process"} =>
              misuse' \subseteq {"client", "input", "user", "process"} \X Things
                                \X {"null", "freed"}
<1>1. misuse' = misuse \cup {<<who, t, thing[t]>> :
                               t \in {u \in S : thing[u] \in {"null", "freed"}}}
  BY DEF Uses, Misused
<1>2. ASSUME NEW m \in misuse', m \notin misuse
      PROVE  /\ m[1] = who /\ m[2] \in S /\ m[3] = thing[m[2]]
             /\ m[3] \in {"null", "freed"} /\ m = <<who, m[2], m[3]>>
  <2>1. PICK t \in S : thing[t] \in {"null", "freed"} /\ m = <<who, t, thing[t]>>
    BY <1>1, <1>2
  <2> QED
    BY <2>1
<1> QED
  BY <1>2 DEF LifeTypeOK


\* Of the steps of connecting, each creates something or nothing.
LEMMA ClientStepKeeps == ASSUME LifeInv, ClientStep  PROVE LifeInv'
<1> DEFINE step == Steps(tx, config)[cstep]
<1>1. step \in StepType
  <2>1. Steps(tx, config) \in Seq(StepType) /\ cstep \in 1 .. Len(Steps(tx, config))
    <3>1. tx \in TextPlugins /\ cstep \in Nat /\ 1 <= cstep
      BY DEF LifeInv, LifeTypeOK
    <3>2. Steps(tx, config) \in Seq(StepType)
      BY <3>1, StepsTyped
    <3>3. cstep <= Len(Steps(tx, config))
      BY DEF ClientStep
    <3> HIDE DEF step
    <3> QED
      BY <3>1, <3>2, <3>3
  <2> QED
    BY <2>1
<1>2. cpc = "connect" /\ ipc = "idle" /\ joined["owner"] # "away"
  BY DEF LifeInv, InputWithin, OwnerFirst, ClientStep
<1>3. Uses("client", step.uses) /\ UNCHANGED <<tx, config, ipc, fpc, stdin, joined, handlers, typed>>
  BY DEF ClientStep
<1>4. \/ /\ thing' = IF step.creates = "" THEN thing
                      ELSE [thing EXCEPT ![step.creates] = "live"]
         /\ cstep' = cstep + 1 /\ UNCHANGED <<cpc, txState, quiet>>
      \/ /\ cpc' = "fail" /\ txState' = "STOPPING"
         /\ UNCHANGED <<cstep, thing, quiet>>
      \/ /\ cpc' = "fail" /\ quiet' = TRUE
         /\ UNCHANGED <<cstep, thing, txState>>
  BY DEF ClientStep
<1> HIDE DEF step
<1>5. LifeTypeOK /\ step.uses \in SUBSET Things
  BY <1>1 DEF LifeInv, StepType
<1>6. /\ \A m \in misuse' : m \in misuse \/ (m[1] = "client" /\ m[2] \in Things /\ m[3] = thing[m[2]])
      /\ misuse' \subseteq {"client", "input", "user", "process"} \X Things \X {"null", "freed"}
  BY <1>3, <1>5, Recorded
<1>7. /\ thing' \in [Things -> {"null", "live", "stopped", "freed"}]
      /\ \A n \in Things : thing'[n] \in {thing[n], "live"}
  <2>1. thing \in [Things -> {"null", "live", "stopped", "freed"}]
    BY <1>5 DEF LifeTypeOK
  <2>2. CASE thing' = thing
    BY <2>1, <2>2
  <2>3. CASE step.creates # "" /\ thing' = [thing EXCEPT ![step.creates] = "live"]
    <3> DEFINE n == step.creates
    <3>1. n \in Things /\ thing' = [thing EXCEPT ![n] = "live"]
      BY <1>1, <2>3 DEF StepType
    <3> HIDE DEF n
    <3> QED
      BY <2>1, <3>1
  <2> QED
    BY <1>4, <2>2, <2>3
<1>8. LifeTypeOK'
  <2>1. /\ txState' \in {"RUNNING", "STOPPING"}
        /\ cpc' \in {"idle", "connect", "loop", "write", "join", "fail", "end"}
    BY <1>4, <1>5 DEF LifeTypeOK
  <2>3. cstep' \in Nat \ {0}
    <3>1. cstep \in Nat \ {0} /\ cstep' \in {cstep, cstep + 1}
      BY <1>4, <1>5 DEF LifeTypeOK
    <3> QED
      BY <3>1
  <2>2. quiet' \in BOOLEAN
    BY <1>4, <1>5 DEF LifeTypeOK
  <2> QED
    BY <1>3, <1>5, <1>6, <1>7, <2>1, <2>2, <2>3 DEF LifeTypeOK
<1>9. InputWithin' /\ OwnerFirst' /\ FreeingAlone'
  BY <1>2, <1>3, <1>4, <1>7 DEF LifeInv, LifeTypeOK, InputWithin, OwnerFirst, FreeingAlone, Things
<1>10. NoneFreed => NoneFreed'
  BY <1>7 DEF NoneFreed
<1>11. NoneFreed /\ ~ThreadsMisuseFreed => ~ThreadsMisuseFreed'
  BY <1>6, <1>8 DEF NoneFreed, ThreadsMisuseFreed
<1>12. "term" \in Things
  BY DEF Things
<1>13. FreedInOrder'
  BY <1>2, <1>3, <1>4, <1>7, <1>10, <1>11, <1>12 DEF LifeInv, FreedInOrder, LifeTypeOK
<1>14. UsersOutlived'
  BY <1>3, <1>6 DEF LifeInv, UsersOutlived
<1> QED
  BY <1>2, <1>3, <1>4, <1>8, <1>9, <1>13, <1>14
     DEF LifeInv, EndedIsStopped, ReadOnlyUsersPassive

\* The steps of the client thread that use nothing and create nothing.
LEMMA ThreadStepKeeps ==
  ASSUME LifeInv, StartInput \/ JoinInput  PROVE LifeInv'
<1>1. /\ UNCHANGED <<tx, config, fpc, thing, stdin, joined, handlers, typed, misuse,
                     quiet, cstep>>
      /\ joined["owner"] # "away"
      /\ cpc \in {"connect", "join"} /\ cpc' \in {"loop", "fail"}
      /\ txState' \in {txState, "STOPPING"} /\ ipc' \in {ipc, "run"}
      /\ cpc' = "fail" => txState' = "STOPPING" /\ ipc' # "run"
  BY DEF StartInput, JoinInput, LifeInv, InputWithin, OwnerFirst
<1>2. LifeTypeOK'
  BY <1>1 DEF LifeInv, LifeTypeOK
<1>3. InputWithin' /\ OwnerFirst' /\ FreeingAlone'
  BY <1>1 DEF LifeInv, LifeTypeOK, InputWithin, OwnerFirst, FreeingAlone
<1>4. (NoneFreed' <=> NoneFreed) /\ (ThreadsMisuseFreed' <=> ThreadsMisuseFreed)
  BY <1>1 DEF NoneFreed, ThreadsMisuseFreed
<1>5. FreedInOrder'
  BY <1>1, <1>4 DEF LifeInv, FreedInOrder
<1>6. UsersOutlived'
  BY <1>1 DEF LifeInv, UsersOutlived
<1> QED
  BY <1>1, <1>2, <1>3, <1>5, <1>6 DEF LifeInv, EndedIsStopped, ReadOnlyUsersPassive

\* The steps that use something and change neither what there is nor who has
\* joined: what a thread or a user uses has not been freed.
LEMMA UseKeeps ==
  ASSUME LifeInv, ReadOutput \/ WriteOutput  PROVE LifeInv'
<1>1. /\ UNCHANGED <<tx, config, cstep, txState, ipc, fpc, thing, stdin, joined, handlers,
                     typed, quiet>>
      /\ cpc \in {"loop", "write"} /\ cpc' \in {"loop", "write"}
      /\ Uses("client", {"link"}) \/ Uses("client", {"term"})
  BY DEF ReadOutput, WriteOutput
<1>2. LifeTypeOK /\ {"link"} \in SUBSET Things /\ {"term"} \in SUBSET Things
  BY DEF LifeInv, Things
<1>3. /\ \A m \in misuse' : m \in misuse \/ (m[1] = "client" /\ m[2] \in Things /\ m[3] = thing[m[2]])
      /\ misuse' \subseteq {"client", "input", "user", "process"} \X Things \X {"null", "freed"}
  <2>1. CASE Uses("client", {"link"})
    BY <1>2, <2>1, Recorded
  <2>2. CASE Uses("client", {"term"})
    BY <1>2, <2>2, Recorded
  <2> QED
    BY <1>1, <2>1, <2>2
<1>4. LifeTypeOK'
  BY <1>1, <1>2, <1>3 DEF LifeTypeOK
<1>5. InputWithin' /\ OwnerFirst' /\ FreeingAlone'
  BY <1>1 DEF LifeInv, LifeTypeOK, InputWithin, OwnerFirst, FreeingAlone
<1>6. (NoneFreed' <=> NoneFreed)
  BY <1>1 DEF NoneFreed
<1>7. NoneFreed /\ ~ThreadsMisuseFreed => ~ThreadsMisuseFreed'
  BY <1>3, <1>4 DEF NoneFreed, ThreadsMisuseFreed
<1>8. FreedInOrder'
  BY <1>1, <1>6, <1>7 DEF LifeInv, FreedInOrder, LifeTypeOK
<1>9. UsersOutlived'
  BY <1>1, <1>3 DEF LifeInv, UsersOutlived
<1> QED
  BY <1>1, <1>4, <1>5, <1>8, <1>9 DEF LifeInv, EndedIsStopped, ReadOnlyUsersPassive


\* The loop is left: Kubernetes closes the input of its terminal.
LEMMA LeftKeeps == ASSUME LifeInv, LeaveLoop \/ ServerEnds  PROVE LifeInv'
<1>1. /\ UNCHANGED <<tx, config, cstep, ipc, fpc, stdin, joined, handlers, typed, misuse,
                     quiet>>
      /\ cpc = "loop" /\ cpc' = "join" /\ txState' = "STOPPING"
      /\ thing' = IF tx = "kubernetes" THEN [thing EXCEPT !["term"] = "stopped"] ELSE thing
  BY DEF LeaveLoop, ServerEnds, Left
<1>2. LifeTypeOK /\ "term" \in Things /\ "settings" \in Things
  BY DEF LifeInv, Things
<1>3. /\ thing' \in [Things -> {"null", "live", "stopped", "freed"}]
      /\ \A n \in Things : thing'[n] \in {thing[n], "stopped"}
      /\ tx # "kubernetes" => thing' = thing
  BY <1>1, <1>2 DEF LifeTypeOK
<1>4. LifeTypeOK'
  BY <1>1, <1>2, <1>3 DEF LifeTypeOK
<1>5. joined["owner"] # "away"
  BY <1>1 DEF LifeInv, OwnerFirst
<1>6. InputWithin' /\ OwnerFirst' /\ FreeingAlone'
  BY <1>1, <1>2, <1>3, <1>5 DEF LifeInv, InputWithin, OwnerFirst, FreeingAlone
<1>7. /\ NoneFreed => NoneFreed'
      /\ ThreadsMisuseFreed' <=> ThreadsMisuseFreed
  BY <1>1, <1>3 DEF NoneFreed, ThreadsMisuseFreed
<1>8. FreedInOrder'
  BY <1>1, <1>3, <1>7 DEF LifeInv, FreedInOrder
<1>9. UsersOutlived'
  BY <1>1 DEF LifeInv, UsersOutlived
<1> QED
  BY <1>1, <1>4, <1>6, <1>8, <1>9 DEF LifeInv, EndedIsStopped, ReadOnlyUsersPassive

\* The thread of Kubernetes frees what it has created as it ends.
LEMMA EndKeeps == ASSUME LifeInv, EndClientThread  PROVE LifeInv'
<1>1. /\ UNCHANGED <<tx, config, cstep, txState, ipc, fpc, stdin, joined, handlers,
                     typed, misuse, quiet>>
      /\ cpc = "fail" /\ cpc' = "end"
      /\ thing' = IF tx = "kubernetes"
                  THEN Release(thing, {"term", "recording", "link"}) ELSE thing
  BY DEF EndClientThread
<1>2. LifeTypeOK /\ "settings" \in Things
  BY DEF LifeInv, Things
<1>3. /\ thing' \in [Things -> {"null", "live", "stopped", "freed"}]
      /\ thing'["settings"] = thing["settings"]
      /\ tx # "kubernetes" => thing' = thing
  BY <1>1, <1>2 DEF LifeTypeOK, Release
<1>4. LifeTypeOK'
  BY <1>1, <1>2, <1>3 DEF LifeTypeOK
<1>5. joined["owner"] # "away" /\ ipc # "run"
  BY <1>1 DEF LifeInv, OwnerFirst, InputWithin
<1>6. InputWithin' /\ OwnerFirst' /\ FreeingAlone'
  BY <1>1, <1>3, <1>5 DEF LifeInv, InputWithin, OwnerFirst, FreeingAlone
<1>7. /\ tx # "kubernetes" => (NoneFreed' <=> NoneFreed)
      /\ ThreadsMisuseFreed' <=> ThreadsMisuseFreed
  BY <1>1, <1>3 DEF NoneFreed, ThreadsMisuseFreed
<1>8. FreedInOrder'
  BY <1>1, <1>3, <1>7 DEF LifeInv, FreedInOrder
<1>9. UsersOutlived'
  BY <1>1 DEF LifeInv, UsersOutlived
<1> QED
  BY <1>1, <1>4, <1>6, <1>8, <1>9 DEF LifeInv, EndedIsStopped, ReadOnlyUsersPassive

\* The input thread runs, so that nothing has been freed that a thread of SSH
\* or Kubernetes may not find freed.
LEMMA InputKeeps == ASSUME LifeInv, CopyInput \/ EndInput  PROVE LifeInv'
<1> DEFINE S == IF CopyInput THEN {"term", "link"} \cup (IF tx = "ssh" THEN {"settings"} ELSE {})
                ELSE {"term"}
<1>1. /\ UNCHANGED <<tx, config, cstep, cpc, fpc, thing, joined, handlers, typed, quiet>>
      /\ ipc = "run" /\ ipc' \in {"run", "end"} /\ txState' \in {txState, "STOPPING"}
  BY DEF CopyInput, EndInput
<1>2. Uses("input", S)
  BY DEF CopyInput, EndInput
<1>3. stdin' \in 0 .. MaxTyped
  <2>1. CASE CopyInput
    <3>1. stdin \in 0 .. MaxTyped /\ stdin > 0 /\ stdin' = stdin - 1
      BY <2>1 DEF CopyInput, LifeInv, LifeTypeOK
    <3> QED
      BY <3>1, TypedAssumption
  <2>2. CASE EndInput
    BY <2>2 DEF EndInput, LifeInv, LifeTypeOK
  <2> QED
    BY <2>1, <2>2
<1>4. LifeTypeOK /\ S \in SUBSET Things
  BY DEF LifeInv, Things
<1> HIDE DEF S
<1>5. /\ \A m \in misuse' : m \in misuse \/ (m[1] = "input" /\ m[2] \in Things /\ m[3] = thing[m[2]])
      /\ misuse' \subseteq {"client", "input", "user", "process"} \X Things \X {"null", "freed"}
  BY <1>2, <1>4, Recorded
<1>6. LifeTypeOK'
  BY <1>1, <1>3, <1>4, <1>5 DEF LifeTypeOK
<1>7. cpc \notin {"idle", "connect", "fail", "end"} /\ joined["owner"] # "away"
  BY <1>1 DEF LifeInv, InputWithin, OwnerFirst
<1>8. InputWithin' /\ OwnerFirst' /\ FreeingAlone'
  BY <1>1, <1>7 DEF LifeInv, LifeTypeOK, InputWithin, OwnerFirst, FreeingAlone
<1>9. NoneFreed' <=> NoneFreed
  BY <1>1 DEF NoneFreed
<1>10. NoneFreed /\ ~ThreadsMisuseFreed => ~ThreadsMisuseFreed'
  BY <1>5, <1>6 DEF NoneFreed, ThreadsMisuseFreed
<1>11. FreedInOrder'
  BY <1>1, <1>7, <1>9, <1>10 DEF LifeInv, FreedInOrder, LifeTypeOK
<1>12. UsersOutlived'
  BY <1>1, <1>5 DEF LifeInv, UsersOutlived
<1> QED
  BY <1>1, <1>6, <1>7, <1>8, <1>11, <1>12 DEF LifeInv, EndedIsStopped, ReadOnlyUsersPassive


\* What a join handler installs: nothing for a user who may only look.
LEMMA HandlersTyped ==
  ASSUME NEW p \in TextPlugins, NEW c, NEW u
  PROVE  /\ Handlers(p, c, u) \in SUBSET HandlerNames
         /\ Handlers(p, c, u) # {} => u \notin c.readonly
<1>1. SshHandlers(c, u) \in SUBSET HandlerNames /\ (SshHandlers(c, u) # {} => u \notin c.readonly)
  BY DEF SshHandlers, HandlerNames
<1>2. TelnetHandlers(c, u) \in SUBSET HandlerNames
      /\ (TelnetHandlers(c, u) # {} => u \notin c.readonly)
  BY DEF TelnetHandlers, HandlerNames
<1>3. KubernetesHandlers(c, u) \in SUBSET HandlerNames
      /\ (KubernetesHandlers(c, u) # {} => u \notin c.readonly)
  BY DEF KubernetesHandlers, HandlerNames
<1> QED
  BY <1>1, <1>2, <1>3 DEF Handlers, TextPlugins

\* The join of the owner, which starts the client thread, keeps the invariant
\* (guac_telnet_user_join_handler()).
LEMMA JoinOwnerKeeps == ASSUME LifeInv, JoinOwner  PROVE LifeInv'
<1> DEFINE H == Handlers(tx, config, "owner")
<1>1. /\ UNCHANGED <<tx, config, cstep, ipc, fpc, stdin, typed, misuse, quiet>>
      /\ joined["owner"] = "away"
      /\ thing' = [thing EXCEPT !["settings"] = "live"]
      /\ \/ /\ cpc' = "connect" /\ UNCHANGED txState
            /\ joined' = [joined EXCEPT !["owner"] = "joined"]
            /\ handlers' = [handlers EXCEPT !["owner"] = H]
         \/ /\ cpc' = "end" /\ txState' = "STOPPING"
            /\ joined' = [joined EXCEPT !["owner"] = "left"]
            /\ handlers' = handlers
  BY DEF JoinOwner
<1>2. H \in SUBSET HandlerNames /\ (H # {} => "owner" \notin config.readonly)
  BY HandlersTyped DEF LifeInv, LifeTypeOK
<1> HIDE DEF H
<1>3. LifeTypeOK /\ "settings" \in Things /\ "owner" \in TextUsers
  BY DEF LifeInv, Things, TextUsers
<1>4. /\ cpc = "idle" /\ txState = "RUNNING" /\ fpc = 0 /\ ipc = "idle"
      /\ \A n \in Things : thing[n] = "null"
      /\ \A u \in TextUsers : joined[u] = "away"
  BY <1>1 DEF LifeInv, OwnerFirst, InputWithin
<1>5. /\ thing' \in [Things -> {"null", "live", "stopped", "freed"}]
      /\ thing'["settings"] = "live"
      /\ \A n \in Things : thing'[n] \in {"null", "live"}
  BY <1>1, <1>3, <1>4 DEF LifeTypeOK
<1>6. /\ joined' \in [TextUsers -> {"away", "joined", "left"}]
      /\ joined'["owner"] \in {"joined", "left"}
  BY <1>1, <1>3 DEF LifeTypeOK
<1>7. /\ handlers' \in [TextUsers -> SUBSET HandlerNames]
      /\ \A u \in TextUsers : handlers'[u] # {} => u \notin config.readonly
  <2>1. handlers \in [TextUsers -> SUBSET HandlerNames]
        /\ \A u \in TextUsers : handlers[u] # {} => u \notin config.readonly
    BY DEF LifeInv, LifeTypeOK
  <2> QED
    BY <1>1, <1>2, <1>3, <2>1
<1>8. LifeTypeOK'
  BY <1>1, <1>3, <1>5, <1>6, <1>7 DEF LifeTypeOK
<1>9. InputWithin' /\ OwnerFirst' /\ FreeingAlone'
  BY <1>1, <1>4, <1>5, <1>6 DEF InputWithin, OwnerFirst, FreeingAlone
<1>10. NoneFreed' /\ (ThreadsMisuseFreed' <=> ThreadsMisuseFreed) /\ NoneFreed
  BY <1>1, <1>4, <1>5 DEF NoneFreed, ThreadsMisuseFreed
<1>11. FreedInOrder'
  <2>1. "term" \in Things
    BY DEF Things
  <2> QED
    BY <1>1, <1>4, <1>5, <1>10, <2>1 DEF LifeInv, FreedInOrder
<1>12. UsersOutlived'
  BY <1>1 DEF LifeInv, UsersOutlived
<1> QED
  BY <1>1, <1>4, <1>7, <1>8, <1>9, <1>11, <1>12
     DEF LifeInv, EndedIsStopped, ReadOnlyUsersPassive

\* What a user's thread uses while the user is joined has not been freed, in
\* SSH and telnet: freeing has not begun.
LEMMA UserUses ==
  ASSUME LifeInv, NEW S \in SUBSET Things, Uses("user", S) \/ UNCHANGED misuse,
         fpc = 0, UNCHANGED tx
  PROVE  /\ UsersOutlived'
         /\ misuse' \subseteq {"client", "input", "user", "process"} \X Things \X {"null", "freed"}
         /\ ThreadsMisuseFreed' <=> ThreadsMisuseFreed
<1>1. LifeTypeOK
  BY DEF LifeInv
<1>2. /\ \A m \in misuse' : m \in misuse \/ (m[1] = "user" /\ m[2] \in Things /\ m[3] = thing[m[2]])
      /\ misuse' \subseteq {"client", "input", "user", "process"} \X Things \X {"null", "freed"}
      /\ misuse \subseteq misuse'
  <2>1. CASE Uses("user", S)
    BY <1>1, <2>1, Recorded DEF Uses
  <2>2. CASE UNCHANGED misuse
    BY <1>1, <2>2 DEF LifeTypeOK
  <2> QED
    BY <2>1, <2>2
<1>3. tx \in {"ssh", "telnet"} => NoneFreed
  BY DEF LifeInv, FreedInOrder
<1>4. UsersOutlived'
  BY <1>2, <1>3 DEF LifeInv, UsersOutlived, NoneFreed
<1> QED
  BY <1>2, <1>4 DEF ThreadsMisuseFreed

\* The join of another user, who sees the terminal if there is one, keeps the
\* invariant (guac_ssh_join_pending_handler()).
LEMMA JoinGuestKeeps ==
  ASSUME LifeInv, NEW u \in TextUsers, JoinGuest(u)  PROVE LifeInv'
<1> DEFINE H == Handlers(tx, config, u)
<1>1. /\ UNCHANGED <<tx, config, cstep, txState, cpc, ipc, fpc, thing, stdin, typed, quiet>>
      /\ joined[u] = "away" /\ joined["owner"] # "away" /\ txState = "RUNNING"
      /\ joined' = [joined EXCEPT ![u] = "joined"]
      /\ handlers' = [handlers EXCEPT ![u] = H]
      /\ Uses("user", {"term"}) \/ UNCHANGED misuse
  BY DEF JoinGuest
<1>2. H \in SUBSET HandlerNames /\ (H # {} => u \notin config.readonly)
  BY HandlersTyped DEF LifeInv, LifeTypeOK
<1> HIDE DEF H
<1>3. LifeTypeOK /\ {"term"} \in SUBSET Things /\ "owner" \in TextUsers
  BY DEF LifeInv, Things, TextUsers
<1>4. fpc = 0
  BY <1>1 DEF LifeInv, FreeingAlone
<1>5. joined' \in [TextUsers -> {"away", "joined", "left"}] /\ joined'["owner"] # "away"
  BY <1>1, <1>3 DEF LifeTypeOK
<1>6. /\ handlers' \in [TextUsers -> SUBSET HandlerNames]
      /\ \A v \in TextUsers : handlers'[v] # {} => v \notin config.readonly
  <2>1. handlers \in [TextUsers -> SUBSET HandlerNames]
        /\ \A v \in TextUsers : handlers[v] # {} => v \notin config.readonly
    BY DEF LifeInv, LifeTypeOK
  <2> QED
    BY <1>1, <1>2, <2>1
<1>7. /\ UsersOutlived'
      /\ misuse' \subseteq {"client", "input", "user", "process"} \X Things \X {"null", "freed"}
      /\ ThreadsMisuseFreed' <=> ThreadsMisuseFreed
  BY <1>1, <1>3, <1>4, UserUses
<1>8. LifeTypeOK'
  BY <1>1, <1>3, <1>5, <1>6, <1>7 DEF LifeTypeOK
<1>9. InputWithin' /\ OwnerFirst' /\ FreeingAlone'
  BY <1>1, <1>4, <1>5 DEF LifeInv, InputWithin, OwnerFirst, FreeingAlone
<1>10. FreedInOrder'
  <2>1. NoneFreed' <=> NoneFreed
    BY <1>1 DEF NoneFreed
  <2> QED
    BY <1>1, <1>7, <2>1 DEF LifeInv, FreedInOrder
<1> QED
  BY <1>1, <1>6, <1>7, <1>8, <1>9, <1>10 DEF LifeInv, EndedIsStopped, ReadOnlyUsersPassive

\* The leave of a user keeps the invariant
\* (guac_kubernetes_user_leave_handler()).
LEMMA LeaveKeeps ==
  ASSUME LifeInv, NEW u \in TextUsers, Leave(u)  PROVE LifeInv'
<1>1. /\ UNCHANGED <<tx, config, cstep, cpc, ipc, fpc, thing, stdin, handlers, typed, quiet>>
      /\ joined[u] = "joined" /\ joined' = [joined EXCEPT ![u] = "left"]
      /\ Uses("user", {"term"}) /\ txState' \in {txState, "STOPPING"}
  BY DEF Leave
<1>2. LifeTypeOK /\ {"term"} \in SUBSET Things /\ "owner" \in TextUsers
  BY DEF LifeInv, Things, TextUsers
<1>3. fpc = 0 /\ joined["owner"] # "away"
  BY <1>1 DEF LifeInv, FreeingAlone, OwnerFirst
<1>4. joined' \in [TextUsers -> {"away", "joined", "left"}] /\ joined'["owner"] # "away"
  BY <1>1, <1>2, <1>3 DEF LifeTypeOK
<1>5. /\ UsersOutlived'
      /\ misuse' \subseteq {"client", "input", "user", "process"} \X Things \X {"null", "freed"}
      /\ ThreadsMisuseFreed' <=> ThreadsMisuseFreed
  BY <1>1, <1>2, <1>3, UserUses
<1>6. LifeTypeOK'
  BY <1>1, <1>2, <1>4, <1>5 DEF LifeTypeOK
<1>7. InputWithin' /\ OwnerFirst' /\ FreeingAlone'
  BY <1>1, <1>3, <1>4 DEF LifeInv, InputWithin, OwnerFirst, FreeingAlone
<1>8. FreedInOrder'
  <2>1. NoneFreed' <=> NoneFreed
    BY <1>1 DEF NoneFreed
  <2> QED
    BY <1>1, <1>5, <2>1 DEF LifeInv, FreedInOrder
<1> QED
  BY <1>1, <1>5, <1>6, <1>7, <1>8 DEF LifeInv, LifeTypeOK, EndedIsStopped, ReadOnlyUsersPassive

\* A handler of a user uses parts of the session (input.c, argv.c).
LEMMA HandlerUsesThings ==
  ASSUME tx \in TextPlugins, NEW h \in HandlerNames  PROVE HandlerUses(h) \in SUBSET Things
<1>1. {"term", "sftp", "settings", "link", "recording"} \subseteq Things
  BY DEF Things
<1>2. SshHandlerUses(h) \in SUBSET Things
  BY <1>1 DEF SshHandlerUses
<1>3. TelnetHandlerUses(h) \in SUBSET Things
  BY <1>1 DEF TelnetHandlerUses
<1>4. KubernetesHandlerUses(h) \in SUBSET Things
  BY <1>1 DEF KubernetesHandlerUses
<1> QED
  BY <1>1, <1>2, <1>3, <1>4 DEF HandlerUses, TextPlugins

\* An input of a user who may give it keeps the invariant (input.c, argv.c,
\* pipe.c).
LEMMA HandleKeeps ==
  ASSUME LifeInv, NEW u \in TextUsers, NEW h \in HandlerNames, Handle(u, h)  PROVE LifeInv'
<1> DEFINE S == HandlerUses(h)
<1>1. /\ UNCHANGED <<tx, config, cstep, txState, cpc, ipc, fpc, thing, joined, handlers, quiet>>
      /\ joined[u] = "joined" /\ handlers[u] # {}
      /\ Uses("user", S)
      /\ \/ stdin < MaxTyped /\ stdin' = stdin + 1 /\ typed' = typed \cup {u}
         \/ UNCHANGED <<stdin, typed>>
  BY DEF Handle
<1>2. LifeTypeOK /\ S \in SUBSET Things
  BY HandlerUsesThings DEF LifeInv, LifeTypeOK
<1> HIDE DEF S
<1>3. fpc = 0 /\ u \notin config.readonly
  BY <1>1 DEF LifeInv, FreeingAlone
<1>4. stdin' \in 0 .. MaxTyped
  <2>1. stdin \in 0 .. MaxTyped
    BY <1>2 DEF LifeTypeOK
  <2> QED
    BY <1>1, <2>1, TypedAssumption
<1>5. /\ UsersOutlived'
      /\ misuse' \subseteq {"client", "input", "user", "process"} \X Things \X {"null", "freed"}
      /\ ThreadsMisuseFreed' <=> ThreadsMisuseFreed
  BY <1>1, <1>2, <1>3, UserUses
<1>6. LifeTypeOK'
  BY <1>1, <1>2, <1>4, <1>5 DEF LifeTypeOK
<1>7. InputWithin' /\ OwnerFirst' /\ FreeingAlone'
  BY <1>1 DEF LifeInv, InputWithin, OwnerFirst, FreeingAlone
<1>8. FreedInOrder'
  <2>1. NoneFreed' <=> NoneFreed
    BY <1>1 DEF NoneFreed
  <2> QED
    BY <1>1, <1>5, <2>1 DEF LifeInv, FreedInOrder
<1>9. typed' \subseteq TextUsers /\ ReadOnlyUsersPassive'
  BY <1>1, <1>3 DEF LifeInv, ReadOnlyUsersPassive
<1> QED
  BY <1>1, <1>5, <1>6, <1>7, <1>8, <1>9 DEF LifeInv, EndedIsStopped

\* guac_client_free() after the last user has left keeps the invariant.
LEMMA StartFreeKeeps == ASSUME LifeInv, StartFree  PROVE LifeInv'
<1>1. /\ UNCHANGED <<tx, config, cstep, txState, cpc, ipc, thing, stdin, joined,
                     handlers, typed, misuse, quiet>>
      /\ fpc = 0 /\ fpc' = 1 /\ txState = "STOPPING"
      /\ \A u \in TextUsers : joined[u] # "joined"
  BY DEF StartFree
<1>2. LifeTypeOK'
  BY <1>1 DEF LifeInv, LifeTypeOK
<1>3. InputWithin' /\ OwnerFirst' /\ FreeingAlone'
  BY <1>1 DEF LifeInv, LifeTypeOK, InputWithin, OwnerFirst, FreeingAlone
<1>4. (NoneFreed' <=> NoneFreed) /\ (ThreadsMisuseFreed' <=> ThreadsMisuseFreed)
  BY <1>1 DEF NoneFreed, ThreadsMisuseFreed
<1>5. FreedInOrder'
  BY <1>1, <1>4 DEF LifeInv, FreedInOrder
<1> QED
  BY <1>1, <1>2, <1>3, <1>5 DEF LifeInv, EndedIsStopped, ReadOnlyUsersPassive, UsersOutlived


\* The steps of freeing, plugin by plugin.
PartType == [what : {"close", "join", "free"}, of : Things \cup {""}, given : Things,
             length : {1, 3}]

\* The parts of guac_ssh_client_free_handler(), in their order.
LEMMA SshParts ==
  /\ Len(SshFree) = 7
  /\ \A i \in 4 .. 7 : /\ SshFree[i].what = "free" /\ SshFree[i].of # "term"
                     /\ SshFree[i].length = 1
  /\ SshFree[1] \in PartType /\ SshFree[1].what = "close" /\ SshFree[1].of = "term"
  /\ SshFree[1].given = "term" /\ SshFree[1].length = 3
  /\ SshFree[2] \in PartType /\ SshFree[2].what = "join" /\ SshFree[2].of = ""
  /\ SshFree[2].given = "term" /\ SshFree[2].length = 1
  /\ SshFree[3] \in PartType /\ SshFree[3].what = "free" /\ SshFree[3].of = "term"
  /\ SshFree[3].given = "term" /\ SshFree[3].length = 1
  /\ SshFree[4] \in PartType /\ SshFree[4].what = "free" /\ SshFree[4].of = "link"
  /\ SshFree[4].given = "link" /\ SshFree[4].length = 1
  /\ SshFree[5] \in PartType /\ SshFree[5].what = "free" /\ SshFree[5].of = "sftp"
  /\ SshFree[5].given = "sftp" /\ SshFree[5].length = 1
  /\ SshFree[6] \in PartType /\ SshFree[6].what = "free" /\ SshFree[6].of = "recording"
  /\ SshFree[6].given = "recording" /\ SshFree[6].length = 1
  /\ SshFree[7] \in PartType /\ SshFree[7].what = "free" /\ SshFree[7].of = "settings"
  /\ SshFree[7].given = "settings" /\ SshFree[7].length = 1
<1>1. /\ SshFree[1] \in PartType /\ SshFree[1].what = "close" /\ SshFree[1].of = "term"
      /\ SshFree[1].given = "term" /\ SshFree[1].length = 3
  BY DEF SshFree, Part, Block, PartType, Things
<1>2. /\ SshFree[2] \in PartType /\ SshFree[2].what = "join" /\ SshFree[2].of = ""
      /\ SshFree[2].given = "term" /\ SshFree[2].length = 1
  BY DEF SshFree, Part, Block, PartType, Things
<1>3. /\ SshFree[3] \in PartType /\ SshFree[3].what = "free" /\ SshFree[3].of = "term"
      /\ SshFree[3].given = "term" /\ SshFree[3].length = 1
  BY DEF SshFree, Part, Block, PartType, Things
<1>4. /\ SshFree[4] \in PartType /\ SshFree[4].what = "free" /\ SshFree[4].of = "link"
      /\ SshFree[4].given = "link" /\ SshFree[4].length = 1
  BY DEF SshFree, Part, Block, PartType, Things
<1>5. /\ SshFree[5] \in PartType /\ SshFree[5].what = "free" /\ SshFree[5].of = "sftp"
      /\ SshFree[5].given = "sftp" /\ SshFree[5].length = 1
  BY DEF SshFree, Part, Block, PartType, Things
<1>6. /\ SshFree[6] \in PartType /\ SshFree[6].what = "free" /\ SshFree[6].of = "recording"
      /\ SshFree[6].given = "recording" /\ SshFree[6].length = 1
  BY DEF SshFree, Part, Block, PartType, Things
<1>7. /\ SshFree[7] \in PartType /\ SshFree[7].what = "free" /\ SshFree[7].of = "settings"
      /\ SshFree[7].given = "settings" /\ SshFree[7].length = 1
  BY DEF SshFree, Part, Block, PartType, Things
<1>8. Len(SshFree) = 7
  BY DEF SshFree
<1>10. \A i \in 4 .. 7 : /\ SshFree[i].what = "free" /\ SshFree[i].of # "term"
                       /\ SshFree[i].length = 1
  <2>1. \A i \in 4 .. 7 : i \in {4, 5, 6, 7}
    OBVIOUS
  <2>2. \A i \in {4, 5, 6, 7} : /\ SshFree[i].what = "free" /\ SshFree[i].of # "term"
                              /\ SshFree[i].length = 1
    BY <1>4, <1>5, <1>6, <1>7
  <2> QED
    BY <2>1, <2>2
<1> QED
  BY <1>1, <1>2, <1>3, <1>4, <1>5, <1>6, <1>7, <1>8, <1>10

\* Every part of guac_ssh_client_free_handler() is a part of freeing.
LEMMA SshPartsTyped ==
  ASSUME NEW i \in 1 .. 7
  PROVE  SshFree[i] \in PartType /\ (SshFree[i].what # "join" => SshFree[i].of \in Things)
<1>1. i \in {1, 2, 3, 4, 5, 6, 7}
  OBVIOUS
<1>2. CASE i = 1
  BY <1>2, SshParts DEF Things
<1>3. CASE i = 2
  BY <1>3, SshParts DEF Things
<1>4. CASE i = 3
  BY <1>4, SshParts DEF Things
<1>5. CASE i = 4
  BY <1>5, SshParts DEF Things
<1>6. CASE i = 5
  BY <1>6, SshParts DEF Things
<1>7. CASE i = 6
  BY <1>7, SshParts DEF Things
<1>8. CASE i = 7
  BY <1>8, SshParts DEF Things
<1> QED
  BY <1>1, <1>2, <1>3, <1>4, <1>5, <1>6, <1>7, <1>8

\* What the i-th part of guac_ssh_client_free_handler() does.
LEMMA SshPartsOrder ==
  ASSUME NEW i \in 1 .. 7
  PROVE  /\ i > 3 => SshFree[i].what = "free" /\ SshFree[i].of # "term" /\ SshFree[i].length = 1
         /\ i = 1 => /\ SshFree[i].what = "close" /\ SshFree[i].of = "term"
                    /\ SshFree[i].given = "term" /\ SshFree[i].length = 3
         /\ i = 2 => /\ SshFree[i].what = "join" /\ SshFree[i].given = "term"
                    /\ SshFree[i].length = 1
         /\ i = 3 => /\ SshFree[i].what = "free" /\ SshFree[i].of = "term"
                    /\ SshFree[i].given = "term" /\ SshFree[i].length = 1
<1>1. i = 1 \/ i = 2 \/ i = 3 \/ i \in 4 .. 7
  OBVIOUS
<1>2. CASE i = 1
  <2>1. ~(i > 3) /\ i # 2 /\ i # 3
    BY <1>2
  <2>2. /\ SshFree[i].what = "close" /\ SshFree[i].of = "term"
        /\ SshFree[i].given = "term" /\ SshFree[i].length = 3
    BY <1>2, SshParts
  <2> QED
    BY <2>1, <2>2
<1>3. CASE i = 2
  <2>1. ~(i > 3) /\ i # 1 /\ i # 3
    BY <1>3
  <2>2. SshFree[i].what = "join" /\ SshFree[i].given = "term" /\ SshFree[i].length = 1
    BY <1>3, SshParts
  <2> QED
    BY <2>1, <2>2
<1>4. CASE i = 3
  <2>1. ~(i > 3) /\ i # 1 /\ i # 2
    BY <1>4
  <2>2. /\ SshFree[i].what = "free" /\ SshFree[i].of = "term"
        /\ SshFree[i].given = "term" /\ SshFree[i].length = 1
    BY <1>4, SshParts
  <2> QED
    BY <2>1, <2>2
<1>5. CASE i \in 4 .. 7
  <2>1. i # 1 /\ i # 2 /\ i # 3
    BY <1>5
  <2>2. SshFree[i].what = "free" /\ SshFree[i].of # "term" /\ SshFree[i].length = 1
    BY <1>5, SshParts
  <2> QED
    BY <2>1, <2>2
<1> QED
  BY <1>1, <1>2, <1>3, <1>4, <1>5

\* The parts of guac_telnet_client_free_handler(), in their order.
LEMMA TelnetParts ==
  /\ Len(TelnetFree) = 6
  /\ TelnetFree[1] \in PartType /\ TelnetFree[1].what = "close" /\ TelnetFree[1].of = "link"
  /\ TelnetFree[1].given = "link" /\ TelnetFree[1].length = 1
  /\ TelnetFree[2] \in PartType /\ TelnetFree[2].what = "free" /\ TelnetFree[2].of = "recording"
  /\ TelnetFree[2].given = "recording" /\ TelnetFree[2].length = 1
  /\ TelnetFree[3] \in PartType /\ TelnetFree[3].what = "free" /\ TelnetFree[3].of = "term"
  /\ TelnetFree[3].given = "settings" /\ TelnetFree[3].length = 1
  /\ TelnetFree[4] \in PartType /\ TelnetFree[4].what = "join" /\ TelnetFree[4].of = ""
  /\ TelnetFree[4].given = "link" /\ TelnetFree[4].length = 1
  /\ TelnetFree[5] \in PartType /\ TelnetFree[5].what = "free" /\ TelnetFree[5].of = "link"
  /\ TelnetFree[5].given = "link" /\ TelnetFree[5].length = 1
  /\ TelnetFree[6] \in PartType /\ TelnetFree[6].what = "free" /\ TelnetFree[6].of = "settings"
  /\ TelnetFree[6].given = "settings" /\ TelnetFree[6].length = 1
<1>1. /\ TelnetFree[1] \in PartType /\ TelnetFree[1].what = "close" /\ TelnetFree[1].of = "link"
      /\ TelnetFree[1].given = "link" /\ TelnetFree[1].length = 1
  BY DEF TelnetFree, Part, Block, PartType, Things
<1>2. /\ TelnetFree[2] \in PartType /\ TelnetFree[2].what = "free" /\ TelnetFree[2].of = "recording"
      /\ TelnetFree[2].given = "recording" /\ TelnetFree[2].length = 1
  BY DEF TelnetFree, Part, Block, PartType, Things
<1>3. /\ TelnetFree[3] \in PartType /\ TelnetFree[3].what = "free" /\ TelnetFree[3].of = "term"
      /\ TelnetFree[3].given = "settings" /\ TelnetFree[3].length = 1
  BY DEF TelnetFree, Part, Block, PartType, Things
<1>4. /\ TelnetFree[4] \in PartType /\ TelnetFree[4].what = "join" /\ TelnetFree[4].of = ""
      /\ TelnetFree[4].given = "link" /\ TelnetFree[4].length = 1
  BY DEF TelnetFree, Part, Block, PartType, Things
<1>5. /\ TelnetFree[5] \in PartType /\ TelnetFree[5].what = "free" /\ TelnetFree[5].of = "link"
      /\ TelnetFree[5].given = "link" /\ TelnetFree[5].length = 1
  BY DEF TelnetFree, Part, Block, PartType, Things
<1>6. /\ TelnetFree[6] \in PartType /\ TelnetFree[6].what = "free" /\ TelnetFree[6].of = "settings"
      /\ TelnetFree[6].given = "settings" /\ TelnetFree[6].length = 1
  BY DEF TelnetFree, Part, Block, PartType, Things
<1>7. Len(TelnetFree) = 6
  BY DEF TelnetFree
<1> QED
  BY <1>1, <1>2, <1>3, <1>4, <1>5, <1>6, <1>7

\* Every part of guac_telnet_client_free_handler() is a part of freeing.
LEMMA TelnetPartsTyped ==
  ASSUME NEW i \in 1 .. 6
  PROVE  TelnetFree[i] \in PartType /\ (TelnetFree[i].what # "join" => TelnetFree[i].of \in Things)
<1>1. i \in {1, 2, 3, 4, 5, 6}
  OBVIOUS
<1>2. CASE i = 1
  BY <1>2, TelnetParts DEF Things
<1>3. CASE i = 2
  BY <1>3, TelnetParts DEF Things
<1>4. CASE i = 3
  BY <1>4, TelnetParts DEF Things
<1>5. CASE i = 4
  BY <1>5, TelnetParts DEF Things
<1>6. CASE i = 5
  BY <1>6, TelnetParts DEF Things
<1>7. CASE i = 6
  BY <1>7, TelnetParts DEF Things
<1> QED
  BY <1>1, <1>2, <1>3, <1>4, <1>5, <1>6, <1>7

\* The parts of guac_kubernetes_client_free_handler(), in their order.
LEMMA KubernetesParts ==
  /\ Len(KubernetesFree) = 2
  /\ KubernetesFree[1] \in PartType /\ KubernetesFree[1].what = "join" /\ KubernetesFree[1].of = ""
  /\ KubernetesFree[1].given = "settings" /\ KubernetesFree[1].length = 1
  /\ KubernetesFree[2] \in PartType /\ KubernetesFree[2].what = "free" /\ KubernetesFree[2].of = "settings"
  /\ KubernetesFree[2].given = "settings" /\ KubernetesFree[2].length = 1
<1>1. /\ KubernetesFree[1] \in PartType /\ KubernetesFree[1].what = "join" /\ KubernetesFree[1].of = ""
      /\ KubernetesFree[1].given = "settings" /\ KubernetesFree[1].length = 1
  BY DEF KubernetesFree, Part, Block, PartType, Things
<1>2. /\ KubernetesFree[2] \in PartType /\ KubernetesFree[2].what = "free" /\ KubernetesFree[2].of = "settings"
      /\ KubernetesFree[2].given = "settings" /\ KubernetesFree[2].length = 1
  BY DEF KubernetesFree, Part, Block, PartType, Things
<1>3. Len(KubernetesFree) = 2
  BY DEF KubernetesFree
<1> QED
  BY <1>1, <1>2, <1>3

\* Every part of guac_kubernetes_client_free_handler() is a part of freeing.
LEMMA KubernetesPartsTyped ==
  ASSUME NEW i \in 1 .. 2
  PROVE  KubernetesFree[i] \in PartType /\ (KubernetesFree[i].what # "join" => KubernetesFree[i].of \in Things)
<1>1. i \in {1, 2}
  OBVIOUS
<1>2. CASE i = 1
  BY <1>2, KubernetesParts DEF Things
<1>3. CASE i = 2
  BY <1>3, KubernetesParts DEF Things
<1> QED
  BY <1>1, <1>2, <1>3

\* Freeing: SSH and Kubernetes free nothing the threads use before the client
\* thread has ended.
LEMMA FreePartKeeps == ASSUME LifeInv, FreePart  PROVE LifeInv'
<1> DEFINE part == FreeParts[fpc]
           skip == thing[part.given] = "null"
<1>1. LifeTypeOK /\ tx \in TextPlugins /\ fpc \in Nat /\ fpc # 0
  BY DEF LifeInv, LifeTypeOK, FreePart
<1>2. part \in PartType /\ (part.what # "join" => part.of \in Things)
  <2>1. CASE tx = "ssh"
    <3>1. FreeParts = SshFree
      BY <2>1 DEF FreeParts
    <3>2. fpc \in 1 .. 7
      BY <3>1, SshParts DEF FreePart
    <3>3. SshFree[fpc] \in PartType /\ (SshFree[fpc].what # "join" => SshFree[fpc].of \in Things)
      BY <3>2, SshPartsTyped
    <3> QED
      BY <3>1, <3>3
  <2>2. CASE tx = "telnet"
    <3>1. FreeParts = TelnetFree
      BY <2>2 DEF FreeParts
    <3>2. fpc \in 1 .. 6
      BY <3>1, TelnetParts DEF FreePart
    <3>3. TelnetFree[fpc] \in PartType /\ (TelnetFree[fpc].what # "join" => TelnetFree[fpc].of \in Things)
      BY <3>2, TelnetPartsTyped
    <3> QED
      BY <3>1, <3>3
  <2>3. CASE tx = "kubernetes"
    <3>1. FreeParts = KubernetesFree
      BY <2>3 DEF FreeParts
    <3>2. fpc \in 1 .. 2
      BY <3>1, KubernetesParts DEF FreePart
    <3>3. KubernetesFree[fpc] \in PartType /\ (KubernetesFree[fpc].what # "join" => KubernetesFree[fpc].of \in Things)
      BY <3>2, KubernetesPartsTyped
    <3> QED
      BY <3>1, <3>3
  <2> QED
    BY <1>1, <2>1, <2>2, <2>3 DEF TextPlugins
<1>3. tx = "ssh" =>
        /\ fpc \in 1 .. 7
        /\ fpc = 1 => /\ part.what = "close" /\ part.of = "term" /\ part.given = "term"
                      /\ part.length = 3
        /\ fpc = 2 => part.what = "join" /\ part.given = "term" /\ part.length = 1
        /\ fpc = 3 => part.what = "free" /\ part.of = "term" /\ part.given = "term"
        /\ fpc > 3 => part.what = "free" /\ part.of # "term"
        /\ fpc > 1 => part.length = 1
  <2> SUFFICES ASSUME tx = "ssh"  PROVE
        /\ fpc \in 1 .. 7
        /\ fpc = 1 => /\ part.what = "close" /\ part.of = "term" /\ part.given = "term"
                      /\ part.length = 3
        /\ fpc = 2 => part.what = "join" /\ part.given = "term" /\ part.length = 1
        /\ fpc = 3 => part.what = "free" /\ part.of = "term" /\ part.given = "term"
        /\ fpc > 3 => part.what = "free" /\ part.of # "term"
        /\ fpc > 1 => part.length = 1
    OBVIOUS
  <2>1. FreeParts = SshFree
    BY DEF FreeParts
  <2>2. fpc \in 1 .. 7
    BY <2>1, SshParts DEF FreePart
  <2>4. fpc > 1 /\ fpc <= 3 => fpc \in {2, 3}
    BY <2>2
  <2>5. /\ fpc > 3 => SshFree[fpc].what = "free" /\ SshFree[fpc].of # "term" /\ SshFree[fpc].length = 1
        /\ fpc = 1 => /\ SshFree[fpc].what = "close" /\ SshFree[fpc].of = "term"
                      /\ SshFree[fpc].given = "term" /\ SshFree[fpc].length = 3
        /\ fpc = 2 => /\ SshFree[fpc].what = "join" /\ SshFree[fpc].given = "term"
                      /\ SshFree[fpc].length = 1
        /\ fpc = 3 => /\ SshFree[fpc].what = "free" /\ SshFree[fpc].of = "term"
                      /\ SshFree[fpc].given = "term" /\ SshFree[fpc].length = 1
    BY <2>2, SshPartsOrder
  <2>6. fpc > 1 => SshFree[fpc].length = 1
    BY <2>2, <2>4, <2>5
  <2> QED
    BY <2>1, <2>2, <2>5, <2>6
<1>4. tx = "kubernetes" =>
        /\ fpc \in 1 .. 2 /\ part.length = 1
        /\ fpc = 1 => part.what = "join" /\ part.given = "settings"
        /\ fpc = 2 => part.what = "free" /\ part.of = "settings"
  <2>1. CASE tx = "kubernetes"
    <3>1. FreeParts = KubernetesFree
      BY <2>1 DEF FreeParts
    <3>2. fpc \in 1 .. 2
      BY <3>1, KubernetesParts DEF FreePart
    <3>3. /\ fpc \in {1, 2} /\ KubernetesFree[fpc].length = 1
          /\ fpc = 1 => KubernetesFree[fpc].what = "join" /\ KubernetesFree[fpc].given = "settings"
          /\ fpc = 2 => KubernetesFree[fpc].what = "free" /\ KubernetesFree[fpc].of = "settings"
      <4>1. fpc = 1 \/ fpc = 2
        BY <3>2
      <4>2. CASE fpc = 1
        BY <4>2, KubernetesParts
      <4>3. CASE fpc = 2
        BY <4>3, KubernetesParts
      <4> QED
        BY <4>1, <4>2, <4>3
    <3> QED
      BY <3>1, <3>2, <3>3
  <2> QED
    BY <2>1
<1>5. /\ UNCHANGED <<tx, config, cstep, txState, cpc, ipc, stdin, joined, handlers, typed, quiet>>
      /\ (part.what = "join" /\ ~skip) => cpc = "end"
      /\ fpc' = fpc + (IF skip THEN part.length ELSE 1)
      /\ skip \/ part.what = "join" => thing' = thing
      /\ ~skip /\ part.what = "close" => thing' = [thing EXCEPT ![part.of] = "stopped"]
      /\ ~skip /\ part.what = "free" => thing' = Release(thing, {part.of})
      /\ (Uses("process", {part.of}) /\ part.what # "join") \/ UNCHANGED misuse
  BY <1>2 DEF FreePart, PartType
<1>6. fpc' \in Nat \ {0} /\ fpc' > fpc
  <2>1. part.length \in {1, 3}
    BY <1>2 DEF PartType
  <2> HIDE DEF part, skip
  <2> QED
    BY <1>1, <1>5, <2>1
<1>7. /\ thing' \in [Things -> {"null", "live", "stopped", "freed"}]
      /\ \A n \in Things : thing[n] # "null" => thing'[n] # "null"
      /\ part.what # "free" /\ NoneFreed => NoneFreed'
      /\ \A n \in Things : n # part.of => thing'[n] = thing[n]
      /\ skip => thing' = thing
  <2>1. thing \in [Things -> {"null", "live", "stopped", "freed"}]
    BY <1>1 DEF LifeTypeOK
  <2>2. part.what \in {"close", "join", "free"}
    BY <1>2 DEF PartType
  <2>3. CASE thing' = thing
    BY <2>1, <2>3 DEF NoneFreed
  <2>4. CASE ~skip /\ part.what = "close" /\ thing' = [thing EXCEPT ![part.of] = "stopped"]
    BY <1>2, <2>1, <2>4 DEF NoneFreed
  <2>5. CASE ~skip /\ part.what = "free" /\ thing' = Release(thing, {part.of})
    BY <2>1, <2>5 DEF Release
  <2> HIDE DEF part, skip
  <2> QED
    BY <1>5, <2>2, <2>3, <2>4, <2>5
<1>8. /\ \A m \in misuse' : m \in misuse \/ m[1] = "process"
      /\ misuse' \subseteq {"client", "input", "user", "process"} \X Things \X {"null", "freed"}
      /\ misuse \subseteq misuse'
  <2>1. CASE Uses("process", {part.of}) /\ part.what # "join"
    <3>1. {part.of} \in SUBSET Things
      BY <1>2, <2>1
    <3> HIDE DEF part
    <3>2. /\ \A m \in misuse' : m \in misuse \/ m[1] = "process"
          /\ misuse' \subseteq {"client", "input", "user", "process"} \X Things
                               \X {"null", "freed"}
      BY <1>1, <2>1, <3>1, Recorded
    <3>3. misuse \subseteq misuse'
      BY <2>1 DEF Uses
    <3> QED
      BY <3>2, <3>3
  <2>2. CASE UNCHANGED misuse
    BY <1>1, <2>2 DEF LifeTypeOK
  <2> QED
    BY <1>5, <2>1, <2>2
<1>9. ThreadsMisuseFreed' <=> ThreadsMisuseFreed
  BY <1>8 DEF ThreadsMisuseFreed
<1>10. LifeTypeOK'
  BY <1>1, <1>5, <1>6, <1>7, <1>8 DEF LifeTypeOK
<1>11. txState = "STOPPING" /\ joined["owner"] # "away" /\ thing["settings"] # "null"
       /\ "settings" \in Things /\ "term" \in Things
  BY <1>1 DEF LifeInv, FreeingAlone, OwnerFirst, Things
<1>12. InputWithin' /\ OwnerFirst' /\ FreeingAlone'
  <2>1. thing'["settings"] # "null"
    BY <1>7, <1>11
  <2>2. UNCHANGED <<txState, cpc, ipc, joined>>
    BY <1>5
  <2> QED
    BY <1>1, <1>11, <2>1, <2>2 DEF LifeInv, InputWithin, OwnerFirst, FreeingAlone
<1>13. ASSUME tx = "ssh"
       PROVE  /\ fpc' <= 3 => NoneFreed' /\ ~ThreadsMisuseFreed'
              /\ fpc' \in {2, 3} => thing'["term"] # "null"
              /\ fpc' = 3 => cpc' = "end"
              /\ thing'["term"] = "freed" => cpc' = "end" /\ ~ThreadsMisuseFreed'
  <2>1. /\ fpc <= 3 => NoneFreed /\ ~ThreadsMisuseFreed
        /\ fpc \in {2, 3} => thing["term"] # "null"
        /\ fpc = 3 => cpc = "end"
        /\ thing["term"] = "freed" => cpc = "end" /\ ~ThreadsMisuseFreed
    BY <1>13 DEF LifeInv, FreedInOrder
  <2>2. CASE fpc = 1
    <3>1. part.what = "close" /\ part.of = "term" /\ part.given = "term" /\ part.length = 3
      BY <1>3, <1>13, <2>2
    <3>2. CASE thing["term"] = "null"
      <4>1. fpc' = 4 /\ thing' = thing
        BY <1>5, <2>2, <3>1, <3>2
      <4> QED
        BY <3>2, <4>1
    <3>3. CASE thing["term"] # "null"
      <4>1. fpc' = 2 /\ thing' = [thing EXCEPT !["term"] = "stopped"]
        BY <1>5, <2>2, <3>1, <3>3
      <4>2. thing'["term"] = "stopped"
        BY <1>1, <1>11, <4>1 DEF LifeTypeOK
      <4>3. NoneFreed'
        BY <1>7, <2>1, <2>2, <3>1
      <4> QED
        BY <1>9, <2>1, <2>2, <4>1, <4>2, <4>3
    <3> QED
      BY <3>2, <3>3
  <2>3. CASE fpc = 2
    <3>1. part.what = "join" /\ part.given = "term" /\ part.length = 1
      BY <1>3, <1>13, <2>3
    <3>2. fpc' = 3 /\ thing' = thing /\ cpc = "end"
      BY <1>5, <2>1, <2>3, <3>1
    <3>3. NoneFreed'
      BY <2>1, <2>3, <3>2 DEF NoneFreed
    <3> QED
      BY <1>5, <1>9, <2>1, <2>3, <3>2, <3>3
  <2>4. CASE fpc = 3
    <3>1. part.length = 1
      BY <1>3, <1>13, <2>4
    <3>2. fpc' = 4
      BY <1>5, <2>4, <3>1
    <3> QED
      BY <1>5, <1>9, <2>1, <2>4, <3>2
  <2>5. CASE fpc > 3
    <3>1. part.of # "term" /\ fpc' > 3
      BY <1>1, <1>3, <1>6, <1>13, <2>5
    <3>2. thing'["term"] = thing["term"]
      BY <1>7, <1>11, <3>1
    <3> QED
      BY <1>5, <1>6, <1>9, <2>1, <3>1, <3>2
  <2> QED
    BY <1>1, <2>2, <2>3, <2>4, <2>5
<1>14. ASSUME tx = "kubernetes"
       PROVE  /\ cpc' # "end" => NoneFreed'
              /\ fpc' > 1 => cpc' = "end"
              /\ ~ThreadsMisuseFreed'
  <2>1. /\ cpc # "end" => NoneFreed
        /\ fpc > 1 => cpc = "end"
        /\ ~ThreadsMisuseFreed
    BY <1>14 DEF LifeInv, FreedInOrder
  <2>2. cpc = "end"
    <3>1. CASE fpc = 1
      <4>1. part.what = "join" /\ part.given = "settings"
        BY <1>4, <1>14, <3>1
      <4> QED
        BY <1>5, <1>11, <4>1
    <3> QED
      BY <1>4, <1>14, <2>1, <3>1
  <2> QED
    BY <1>5, <1>9, <2>1, <2>2
<1>15. FreedInOrder'
  BY <1>5, <1>6, <1>13, <1>14 DEF FreedInOrder
<1>16. UsersOutlived'
  BY <1>5, <1>8 DEF LifeInv, UsersOutlived
<1> QED
  BY <1>5, <1>10, <1>12, <1>15, <1>16 DEF LifeInv, EndedIsStopped, ReadOnlyUsersPassive

\* Every step of a session of SSH, telnet or Kubernetes keeps the invariant.
LEMMA LifeNextInv == LifeInv /\ [TextNext]_txVars => LifeInv'
<1> SUFFICES ASSUME LifeInv, [TextNext]_txVars  PROVE LifeInv'
  OBVIOUS
<1>1. CASE UNCHANGED txVars
  BY <1>1 DEF txVars, LifeInv, LifeTypeOK, InputWithin, OwnerFirst, FreeingAlone, FreedInOrder,
              NoneFreed, ThreadsMisuseFreed, UsersOutlived, EndedIsStopped, ReadOnlyUsersPassive
<1>2. CASE TextNext
  BY <1>2, ClientStepKeeps, ThreadStepKeeps, UseKeeps, LeftKeeps, EndKeeps, InputKeeps,
     JoinOwnerKeeps, JoinGuestKeeps, LeaveKeeps, HandleKeeps, StartFreeKeeps, FreePartKeeps
     DEF TextNext
<1> QED
  BY <1>1, <1>2

\* Whatever the server prints, whatever is typed and whichever thread goes first:
\* telnet sends each credential once (guac_telnet_search_line()), Kubernetes
\* writes the messages it accepted in order (io.c).  Nothing that was freed is
\* used by the threads of Kubernetes, by those of SSH if its terminal had been
\* created, and by the handlers of users of SSH and telnet (client.c); a thread
\* that ends has stopped the client; and users who may only look type nothing
\* (user.c).
THEOREM TextAlwaysSound == TelnetSpec /\ QueueSpec /\ TextSpec => []TextSound
<1>1. TelnetInit => LoginInv
  BY LoginInitInv
<1>2. LoginInv /\ [TelnetNext]_telnetVars => LoginInv'
  BY LoginNextInv
<1>3. QueueInit => QueueInv
  BY QueueInitInv
<1>4. QueueInv /\ [QueueNext]_queueVars => QueueInv'
  BY QueueNextInv
<1>5. TextInit => LifeInv
  BY LifeInitInv
<1>6. LifeInv /\ [TextNext]_txVars => LifeInv'
  BY LifeNextInv
<1>7. LoginInv /\ QueueInv /\ LifeInv => TextSound
  <2> SUFFICES ASSUME LoginInv, QueueInv, LifeInv  PROVE TextSound
    OBVIOUS
  <2>1. TextTypeOK
    BY DEF LoginInv, QueueInv, LifeInv, LifeTypeOK, TextTypeOK
  <2>2. ThreadsOutlived
    BY DEF LifeInv, FreedInOrder, ThreadsMisuseFreed, ThreadsOutlived
  <2> QED
    BY <2>1, <2>2 DEF LoginInv, QueueInv, LifeInv, TextSound
<1> QED
  BY <1>1, <1>2, <1>3, <1>4, <1>5, <1>6, <1>7, PTL DEF TelnetSpec, QueueSpec, TextSpec

-----------------------------------------------------------------------------
(* The life of a session of VNC or RDP.                                    *)

NoneFreedOf(things) == \A t \in things : gthing[t] # "freed"

NoClientMisuse == \A m \in gmisuse : m[1] = "client" => m[2] = "job"

\* Nothing happens before the owner has joined; the settings are there from
\* then on.
GOwnerFirst ==
  /\ gjoined["owner"] = "away" =>
       /\ gpc = "idle" /\ gstep = 1 /\ gState = "RUNNING" /\ gfree = 0
       /\ \A t \in GThings : gthing[t] = "null"
       /\ \A u \in GUsers : gjoined[u] = "away"
  /\ gjoined["owner"] # "away" => gthing["settings"] # "null"
  /\ gpc = "idle" => gjoined["owner"] = "away"

\* Freeing begins after the last user; who is pending has joined, and who is
\* being shown something is pending.
GFreeingAlone ==
  /\ gfree # 0 => gState = "STOPPING" /\ \A u \in GUsers : gjoined[u] # "joined"
  /\ shown # {} => pending # {}
  /\ gfree = 0 => NoneFreedOf(GThings \ {"display", "connection", "job"})

\* What VNC has created by each step, and what is freed after what.
VncInv ==
  gx = "vnc" =>
    /\ gpc \in {"idle", "prepare", "loop", "end"}
    /\ gpc = "loop" => gstep = 9
    /\ gpc \in {"prepare", "loop"} =>
         /\ gstep > 5 => gthing["connection"] # "null"
         /\ gstep > 7 => gthing["display"] # "null"
         /\ gstep > 8 => gthing["render"] # "null"
    /\ gfree = 0 => NoneFreedOf(GThings)
    /\ gfree <= 3 => NoneFreedOf(GThings) /\ NoClientMisuse
    /\ gfree = 3 => gpc = "end"
    /\ gthing["connection"] = "freed" => gpc = "end" /\ NoClientMisuse

\* The display, connection, render thread and keyboard of RDP.
RdpThingsAre(d, c, r, k) ==
  /\ gthing["display"] = d /\ gthing["connection"] = c
  /\ gthing["render"] = r /\ gthing["keyboard"] = k

\* What RDP has created at each place, with the lock held while it is freed.
RdpPlaces ==
  /\ gpc \in {"idle", "prepare", "again"} =>
       RdpThingsAre("null", "null", "null", "null")
  /\ gpc \in {"connecting", "prompt", "answered", "connected"} =>
       RdpThingsAre("live", "null", "null", "live")
  /\ gpc = "render" => RdpThingsAre("live", "live", "null", "live")
  /\ gpc = "loop" => RdpThingsAre("live", "live", "live", "live")
  /\ gpc = "teardown" => RdpThingsAre("live", "live", "null", "live")
  /\ gpc = "teardown_connection" => RdpThingsAre("freed", "live", "null", "live")
  /\ gpc = "teardown_rest" => RdpThingsAre("null", "freed", "null", "live")
  /\ gpc = "end" => gthing["connection"] = "null" /\ gthing["display"] # "freed"
  /\ gpc \in {"teardown", "teardown_connection", "teardown_rest"} => glock.hold = "write"

RdpInv ==
  gx = "rdp" =>
    /\ RdpPlaces
    /\ shown # {} => glock.readers = 1
    /\ gfree > 2 => gpc = "end"
    /\ gpc # "end" => NoneFreedOf(GThings \ {"display", "connection", "job"})
    /\ NoClientMisuse

GInv ==
  /\ gx \in GraphicalPlugins
  /\ GraphicalTypeOK
  /\ GOwnerFirst
  /\ GFreeingAlone
  /\ VncInv
  /\ RdpInv
  /\ PendingUsersSafe
  /\ GraphicalEndedIsStopped


GPlaces == {"idle", "prepare", "loop", "again", "connecting", "prompt", "answered",
            "connected", "render", "teardown", "teardown_connection", "teardown_rest", "end"}

Others == GThings \ {"display", "connection", "job"}

\* What is recorded of uses.
LEMMA GRecorded ==
  ASSUME NEW who, NEW S, GUses(who, S)
  PROVE  \A m \in gmisuse' : \/ m \in gmisuse
                            \/ /\ m[1] = who /\ m[2] \in S /\ m[3] = gthing[m[2]]
                               /\ m[3] \in {"null", "freed"}
<1>1. gmisuse' = gmisuse \cup {<<who, t, gthing[t]>> :
                                 t \in {u \in S : gthing[u] \in {"null", "freed"}}}
  BY DEF GUses, GMisused
<1> QED
  BY <1>1

\* guac_client_init() of VNC and RDP leaves settings, no thread and no user.
LEMMA GInitInv == GraphicalInit => GInv
<1> SUFFICES ASSUME GraphicalInit  PROVE GInv
  OBVIOUS
<1>1. "owner" \in GUsers /\ \A t \in GThings : gthing[t] = "null"
  BY DEF GraphicalInit, GUsers
<1>2. {"display", "connection", "render", "keyboard"} \subseteq GThings
  BY DEF GThings
<1>3. GraphicalTypeOK
  <2>1. gthing \in [GThings -> {"null", "live", "freed"}]
    BY DEF GraphicalInit
  <2>2. gjoined \in [GUsers -> {"away", "joined", "left"}]
    BY DEF GraphicalInit
  <2>3. gstep \in 1 .. Len(GSteps) + 1 /\ gfree \in 0 .. Len(GFreeParts) + 1
    <3>1. Len(GSteps) \in Nat /\ Len(GFreeParts) \in Nat
      BY DEF GSteps, VncSteps, RdpSteps, GFreeParts, VncFree, RdpFree
    <3> QED
      BY <3>1 DEF GraphicalInit
  <2>4. glock \in [hold : {"none", "read", "write"}, readers : 0 .. 1] /\ glock.hold # "write"
    BY DEF GraphicalInit
  <2> QED
    BY <2>1, <2>2, <2>3, <2>4 DEF GraphicalInit, GraphicalTypeOK
<1>4. GOwnerFirst /\ GFreeingAlone
  BY <1>1 DEF GraphicalInit, GOwnerFirst, GFreeingAlone, NoneFreedOf
<1>5. VncInv
  <2>1. "connection" \in GThings
    BY <1>2
  <2> QED
    BY <1>1, <2>1 DEF GraphicalInit, VncInv, NoneFreedOf, NoClientMisuse
<1>6. RdpInv
  BY <1>1, <1>2 DEF GraphicalInit, RdpInv, RdpPlaces, RdpThingsAre, NoneFreedOf, NoClientMisuse
<1> QED
  BY <1>3, <1>4, <1>5, <1>6 DEF GraphicalInit, GInv, PendingUsersSafe, GraphicalEndedIsStopped

\* A step of the client thread of RDP keeps the invariant if it goes to a place
\* with the things that belong there, uses nothing that is not there, and tells
\* the client when it ends.
LEMMA RdpThreadKeeps ==
  ASSUME GInv, gx = "rdp", gpc \notin {"idle", "end"}, gpc' \in GPlaces \ {"idle"},
         UNCHANGED <<gx, setup, stopped, userVars, gfree>>,
         gstep' \in 1 .. Len(GSteps) + 1, glock'.readers = glock.readers,
         glock' \in [hold : {"none", "read", "write"}, readers : 0 .. 1],
         glock'.hold = "write" => glock.readers = 0,
         gthing' \in [GThings -> {"null", "live", "freed"}],
         \A t \in Others : gthing'[t] = "freed" => gthing[t] = "freed",
         gthing'["settings"] = gthing["settings"],
         gState' \in {gState, "STOPPING"},
         gpc' = "end" /\ ~gquiet' => gState' = "STOPPING",
         \A m \in gmisuse' : m \in gmisuse \/ (m[1] = "client" /\ m[2] = "job"),
         RdpPlaces'
  PROVE  GInv'
<1>1. /\ UNCHANGED <<gx, setup, stopped, gjoined, ghandlers, pending, shown, gfree>>
      /\ GraphicalTypeOK
  BY DEF userVars, GInv
<1>2. GSteps' = GSteps /\ GFreeParts' = GFreeParts
  BY <1>1 DEF GSteps, GFreeParts, VncSteps, RdpSteps, VncFree, RdpFree
<1>3. GraphicalTypeOK'
  BY <1>1, <1>2 DEF GraphicalTypeOK, GPlaces
<1>4. gjoined["owner"] # "away"
  BY DEF GInv, GOwnerFirst
<1>5. NoneFreedOf(Others) => NoneFreedOf(Others)'
  BY DEF NoneFreedOf, Others
<1>6. GOwnerFirst' /\ GFreeingAlone'
  BY <1>1, <1>4, <1>5 DEF GInv, GOwnerFirst, GFreeingAlone, Others
<1>7. RdpInv'
  BY <1>1, <1>5 DEF GInv, RdpInv, NoClientMisuse, Others
<1>8. PendingUsersSafe' /\ GraphicalEndedIsStopped'
  BY DEF GInv, PendingUsersSafe, GraphicalEndedIsStopped
<1> QED
  BY <1>1, <1>3, <1>6, <1>7, <1>8 DEF GInv, VncInv

\* Where RDP is, the lock it holds, and what there is then.
LEMMA RdpThere ==
  ASSUME GInv, gpc \notin {"idle", "prepare", "loop", "end"} \/ (gx = "rdp" /\ gpc \notin {"idle", "end"})
  PROVE  /\ gx = "rdp" /\ gpc \in GPlaces \ {"idle", "end"} /\ RdpPlaces
         /\ gstep \in 1 .. Len(GSteps) + 1
         /\ glock \in [hold : {"none", "read", "write"}, readers : 0 .. 1]
         /\ glock.hold = "write" => glock.readers = 0
         /\ gthing \in [GThings -> {"null", "live", "freed"}]
         /\ gthing["settings"] = "live"
         /\ \A t \in Others : gthing[t] # "freed"
         /\ {"display", "connection", "render", "keyboard", "settings", "recording", "job"}
              \subseteq GThings
<1>1. GraphicalTypeOK /\ gx \in GraphicalPlugins /\ gpc \in GPlaces
  BY DEF GInv, GraphicalTypeOK, GPlaces
<1>2. gx = "rdp" /\ gpc \notin {"idle", "end"}
  BY <1>1 DEF GInv, VncInv, GraphicalPlugins, GPlaces
<1>3. RdpPlaces /\ \A t \in Others : gthing[t] # "freed"
  BY <1>2 DEF GInv, RdpInv, NoneFreedOf, Others
<1>4. gthing["settings"] # "null" /\ "settings" \in Others
  BY <1>2 DEF GInv, GOwnerFirst, Others, GThings
<1>5. gthing["settings"] = "live"
  BY <1>1, <1>3, <1>4 DEF GraphicalTypeOK, Others
<1>6. {"display", "connection", "render", "keyboard", "settings", "recording", "job"} \subseteq GThings
  BY DEF GThings
<1> QED
  BY <1>1, <1>2, <1>3, <1>5, <1>6 DEF GraphicalTypeOK

\* A use of what is there is not recorded.
LEMMA GUsesLive ==
  ASSUME NEW S, GUses("client", S), \A t \in S : gthing[t] \notin {"null", "freed"} \/ t = "job"
  PROVE  \A m \in gmisuse' : m \in gmisuse \/ (m[1] = "client" /\ m[2] = "job")
BY GRecorded

\* The steps of RDP that only move on.
LEMMA RdpMoveKeeps == ASSUME GInv, RdpDone \/ RdpPrompt \/ RdpAnswered  PROVE GInv'
<1>1. /\ UNCHANGED <<gx, setup, gstep, gthing, rdpVars, stopped, userVars, gfree, gmisuse, gquiet>>
      /\ \/ gpc = "again" /\ gpc' = "end" /\ gState' = "STOPPING"
         \/ gpc = "connecting" /\ gpc' = "prompt" /\ gState' = gState
         \/ gpc = "prompt" /\ gpc' = "answered" /\ gState' = gState
  BY DEF RdpDone, RdpPrompt, RdpAnswered
<1>2. RdpPlaces /\ glock' = glock /\ gpc' \in GPlaces \ {"idle"}
  BY <1>1, RdpThere DEF rdpVars, GPlaces
<1>3. RdpPlaces'
  BY <1>1, <1>2 DEF RdpPlaces, RdpThingsAre
<1> QED
  BY <1>1, <1>2, <1>3, RdpThere, RdpThreadKeeps

\* The start of guac_rdp_handle_connection() keeps the invariant.
LEMMA RdpBeginKeeps == ASSUME GInv, RdpBegin  PROVE GInv'
<1>1. /\ UNCHANGED <<gx, setup, gstep, reconnect, stopped, userVars, gfree, gquiet>>
      /\ gpc = "again" /\ GUses("client", {"settings"})
      /\ glock.hold # "write"
      /\ \/ /\ gthing' = SetThings({"display", "keyboard"}, "live")
            /\ glock' = [glock EXCEPT !.hold = "read"]
            /\ gpc' = "connecting" /\ gState' = gState
         \/ /\ gthing' = SetThings({"display"}, "live")
            /\ gState' = "STOPPING" /\ gpc' = "end" /\ glock' = glock
  BY DEF RdpBegin, CanWrite
<1>2. /\ gthing' \in [GThings -> {"null", "live", "freed"}]
      /\ \A t \in GThings : gthing'[t] \in {gthing[t], "live"}
      /\ gthing'["settings"] = gthing["settings"]
  BY <1>1, RdpThere DEF SetThings
<1>3. /\ glock' \in [hold : {"none", "read", "write"}, readers : 0 .. 1]
      /\ glock'.readers = glock.readers /\ glock'.hold # "write"
  BY <1>1, RdpThere
<1>4. RdpThingsAre("null", "null", "null", "null") /\ gpc' \in GPlaces \ {"idle"}
  BY <1>1, RdpThere DEF RdpPlaces, GPlaces
<1>5. RdpPlaces'
  <2>1. /\ gthing'["display"] = "live" /\ gthing'["connection"] = "null"
        /\ gthing'["render"] = "null"
        /\ gpc' = "connecting" => gthing'["keyboard"] = "live"
    BY <1>1, <1>4, RdpThere DEF SetThings, RdpThingsAre
  <2> QED
    BY <1>1, <2>1 DEF RdpPlaces, RdpThingsAre
<1>6. \A m \in gmisuse' : m \in gmisuse \/ (m[1] = "client" /\ m[2] = "job")
  BY <1>1, RdpThere, GUsesLive
<1> QED
  BY <1>1, <1>2, <1>3, <1>4, <1>5, <1>6, RdpThere, RdpThreadKeeps DEF Others

\* A connection that is refused, or a certificate and credentials that are
\* accepted, keeps the invariant (guac_rdp_handle_connection(),
\* rdp_freerdp_pre_connect()).
LEMMA RdpRefusedKeeps == ASSUME GInv, RdpRefused \/ RdpAccepted  PROVE GInv'
<1>1. /\ UNCHANGED <<gx, setup, gstep, gthing, stopped, userVars, gfree, gquiet>>
      /\ gpc \in {"connecting", "answered"}
      /\ glock' = [glock EXCEPT !.hold = "none"]
      /\ \/ gpc' = "end" /\ gState' = "STOPPING" /\ gmisuse' = gmisuse
         \/ /\ gpc' = "connected" /\ gState' = gState
            /\ GUses("client", {"settings", "display", "keyboard"})
  BY DEF RdpRefused, RdpAccepted
<1>2. RdpThingsAre("live", "null", "null", "live") /\ gpc' \in GPlaces \ {"idle"}
  BY <1>1, RdpThere DEF RdpPlaces, GPlaces
<1>3. /\ glock' \in [hold : {"none", "read", "write"}, readers : 0 .. 1]
      /\ glock'.readers = glock.readers /\ glock'.hold # "write"
  BY <1>1, RdpThere
<1>4. RdpPlaces'
  BY <1>1, <1>2 DEF RdpPlaces, RdpThingsAre
<1>5. \A m \in gmisuse' : m \in gmisuse \/ (m[1] = "client" /\ m[2] = "job")
  <2>1. \A t \in {"settings", "display", "keyboard"} : gthing[t] = "live"
    BY <1>1, <1>2, RdpThere DEF RdpThingsAre
  <2> QED
    BY <1>1, <2>1, GUsesLive
<1> QED
  BY <1>1, <1>2, <1>3, <1>4, <1>5, RdpThere, RdpThreadKeeps

\* A connection that succeeds, and the start of its render thread, keeps the
\* invariant (guac_rdp_handle_connection()).
LEMMA RdpConnectedKeeps == ASSUME GInv, RdpConnected \/ RdpRender  PROVE GInv'
<1>1. /\ UNCHANGED <<gx, setup, gState, gstep, glock, stopped, userVars, gfree, gmisuse, gquiet>>
      /\ \/ /\ gpc = "connected" /\ gpc' = "render"
            /\ gthing' = SetThings({"connection"}, "live")
         \/ /\ gpc = "render" /\ gpc' = "loop"
            /\ gthing' = SetThings({"render"}, "live")
  BY DEF RdpConnected, RdpRender, rdpVars
<1>2. /\ gthing' \in [GThings -> {"null", "live", "freed"}]
      /\ \A t \in GThings : gthing'[t] \in {gthing[t], "live"}
      /\ gthing'["settings"] = gthing["settings"]
  BY <1>1, RdpThere DEF SetThings
<1>3. RdpPlaces /\ gpc' \in GPlaces \ {"idle"}
  BY <1>1, RdpThere DEF GPlaces
<1>4. RdpPlaces'
  <2>1. CASE gpc = "connected"
    <3>1. RdpThingsAre("live", "live", "null", "live")'
      BY <1>1, <1>3, <2>1, RdpThere DEF SetThings, RdpThingsAre, RdpPlaces
    <3> QED
      BY <1>1, <2>1, <3>1 DEF RdpPlaces
  <2>2. CASE gpc = "render"
    <3>1. RdpThingsAre("live", "live", "live", "live")'
      BY <1>1, <1>3, <2>2, RdpThere DEF SetThings, RdpThingsAre, RdpPlaces
    <3> QED
      BY <1>1, <2>2, <3>1 DEF RdpPlaces
  <2> QED
    BY <1>1, <2>1, <2>2
<1> QED
  BY <1>1, <1>2, <1>3, <1>4, RdpThere, RdpThreadKeeps DEF Others

\* A turn of the event loop keeps the invariant (guac_rdp_handle_events()).
LEMMA RdpEventsKeeps == ASSUME GInv, RdpEvents  PROVE GInv'
<1> DEFINE S == {"settings", "connection", "display", "render", "keyboard"}
                \cup Guarded({"recording"})
<1>1. /\ UNCHANGED <<gx, setup, gpc, gstep, rdpVars, stopped, userVars, gfree, gquiet>>
      /\ gx = "rdp" /\ gpc = "loop" /\ gState = "RUNNING" /\ GUses("client", S)
      /\ \/ gState' \in {"RUNNING", "STOPPING"} /\ gthing' = gthing
         \/ /\ gState' = gState
            /\ \E v \in {"null", "live"} : gthing' = SetThings({"job"}, v)
  BY DEF RdpEvents, RdpLooping
<1>2. /\ gthing' \in [GThings -> {"null", "live", "freed"}]
      /\ \A t \in GThings \ {"job"} : gthing'[t] = gthing[t]
  BY <1>1, RdpThere DEF SetThings
<1>3. RdpThingsAre("live", "live", "live", "live") /\ glock' = glock /\ gpc' \in GPlaces \ {"idle"}
  BY <1>1, RdpThere DEF RdpPlaces, rdpVars, GPlaces
<1>4. RdpPlaces'
  <2>1. RdpThingsAre("live", "live", "live", "live")'
    BY <1>1, <1>2, <1>3, RdpThere DEF RdpThingsAre
  <2> QED
    BY <1>1, <2>1 DEF RdpPlaces
<1>5. \A t \in S : gthing[t] \notin {"null", "freed"}
  <2>1. "recording" \in Others
    BY DEF Others, GThings
  <2>2. \A t \in Guarded({"recording"}) : t = "recording" /\ gthing[t] # "null"
    BY DEF Guarded
  <2> QED
    BY <1>1, <1>3, <2>1, <2>2, RdpThere DEF RdpThingsAre
<1>6. \A m \in gmisuse' : m \in gmisuse \/ (m[1] = "client" /\ m[2] = "job")
  <2> HIDE DEF S
  <2> QED
    BY <1>1, <1>5, GUsesLive
<1>7. gthing'["settings"] = gthing["settings"] /\ \A t \in Others : gthing'[t] = gthing[t]
  BY <1>1, <1>2, RdpThere DEF Others
<1> HIDE DEF S
<1> QED
  BY <1>1, <1>2, <1>3, <1>4, <1>6, <1>7, RdpThere, RdpThreadKeeps

\* The connection is torn down with the lock held.
LEMMA RdpLeaveLoopKeeps == ASSUME GInv, RdpLeaveLoop  PROVE GInv'
<1>1. /\ UNCHANGED <<gx, setup, gState, gstep, stopped, userVars, gfree, gquiet>>
      /\ gx = "rdp" /\ gpc = "loop" /\ gpc' = "teardown"
      /\ glock.readers = 0 /\ glock' = [glock EXCEPT !.hold = "write"]
      /\ GUses("client", Guarded({"job"}))
      /\ gthing' = [SetThings({"render"}, "null") EXCEPT !["job"] =
                        IF gthing["job"] = "null" THEN "null" ELSE "freed"]
  BY DEF RdpLeaveLoop, RdpLooping, CanWrite
<1>2. /\ gthing' \in [GThings -> {"null", "live", "freed"}]
      /\ gthing'["render"] = "null"
      /\ \A t \in GThings \ {"job", "render"} : gthing'[t] = gthing[t]
  BY <1>1, RdpThere DEF SetThings
<1>3. RdpThingsAre("live", "live", "live", "live") /\ gpc' \in GPlaces \ {"idle"}
  BY <1>1, RdpThere DEF RdpPlaces, GPlaces
<1>4. /\ glock' \in [hold : {"none", "read", "write"}, readers : 0 .. 1]
      /\ glock'.readers = glock.readers /\ glock'.hold = "write"
  BY <1>1, RdpThere
<1>5. RdpPlaces'
  <2>1. RdpThingsAre("live", "live", "null", "live")'
    BY <1>1, <1>2, <1>3, RdpThere DEF RdpThingsAre
  <2> QED
    BY <1>1, <1>4, <2>1 DEF RdpPlaces
<1>6. \A m \in gmisuse' : m \in gmisuse \/ (m[1] = "client" /\ m[2] = "job")
  BY <1>1, GUsesLive DEF Guarded
<1>7. gthing'["settings"] = gthing["settings"]
      /\ \A t \in Others : gthing'[t] = "freed" => gthing[t] = "freed"
  BY <1>1, <1>2, RdpThere DEF Others
<1> QED
  BY <1>1, <1>2, <1>3, <1>4, <1>5, <1>6, <1>7, RdpThere, RdpThreadKeeps

\* Each part of the teardown of guac_rdp_handle_connection(), made under the
\* write lock, keeps the invariant.
LEMMA RdpTeardownKeeps ==
  ASSUME GInv, RdpFreeDisplay \/ RdpFreeConnection \/ RdpFreeRest  PROVE GInv'
<1>1. UNCHANGED <<gx, setup, gState, gstep, stopped, userVars, gfree, gquiet>>
  BY DEF RdpFreeDisplay, RdpFreeConnection, RdpFreeRest, rdpVars
<1>2. /\ gpc \in {"teardown", "teardown_connection", "teardown_rest"}
      /\ gpc' \in GPlaces \ {"idle", "end"}
  BY DEF RdpFreeDisplay, RdpFreeConnection, RdpFreeRest, GPlaces
<1>3. glock.hold = "write" /\ glock.readers = 0
  BY <1>2, RdpThere DEF RdpPlaces
<1>4. /\ gthing' \in [GThings -> {"null", "live", "freed"}]
      /\ \A t \in GThings \ {"display", "connection", "keyboard"} : gthing'[t] = gthing[t]
      /\ gthing'["keyboard"] # "freed"
      /\ RdpPlaces'
      /\ glock' \in [hold : {"none", "read", "write"}, readers : 0 .. 1]
      /\ glock'.readers = glock.readers
      /\ \A m \in gmisuse' : m \in gmisuse \/ (m[1] = "client" /\ m[2] = "job")
  <2>1. CASE RdpFreeDisplay
    <3>1. /\ gpc = "teardown" /\ gpc' = "teardown_connection" /\ glock' = glock
          /\ gthing' = SetThings({"display"}, "freed")
          /\ GUses("client", {"connection", "display"})
      BY <2>1 DEF RdpFreeDisplay, rdpVars
    <3>2. RdpThingsAre("live", "live", "null", "live")
      BY <3>1, RdpThere DEF RdpPlaces
    <3>3. /\ gthing' \in [GThings -> {"null", "live", "freed"}]
          /\ \A t \in GThings \ {"display"} : gthing'[t] = gthing[t]
          /\ gthing'["display"] = "freed"
      BY <3>1, RdpThere DEF SetThings
    <3>4. RdpThingsAre("freed", "live", "null", "live")'
      BY <3>1, <3>2, <3>3, RdpThere DEF RdpThingsAre
    <3>5. RdpPlaces'
      BY <1>3, <3>1, <3>4 DEF RdpPlaces
    <3>6. \A m \in gmisuse' : m \in gmisuse \/ (m[1] = "client" /\ m[2] = "job")
      BY <3>1, <3>2, GUsesLive DEF RdpThingsAre
    <3> QED
      BY <3>1, <3>2, <3>3, <3>4, <3>5, <3>6, RdpThere DEF RdpThingsAre
  <2>2. CASE RdpFreeConnection
    <3>1. /\ gpc = "teardown_connection" /\ gpc' = "teardown_rest" /\ glock' = glock
          /\ gthing' = [SetThings({"display"}, "null") EXCEPT !["connection"] = "freed"]
          /\ gmisuse' = gmisuse
      BY <2>2 DEF RdpFreeConnection, rdpVars
    <3>2. RdpThingsAre("freed", "live", "null", "live")
      BY <3>1, RdpThere DEF RdpPlaces
    <3>3. /\ gthing' \in [GThings -> {"null", "live", "freed"}]
          /\ \A t \in GThings \ {"display", "connection"} : gthing'[t] = gthing[t]
          /\ gthing'["display"] = "null" /\ gthing'["connection"] = "freed"
      BY <3>1, RdpThere DEF SetThings
    <3>4. RdpThingsAre("null", "freed", "null", "live")'
      BY <3>1, <3>2, <3>3, RdpThere DEF RdpThingsAre
    <3>5. RdpPlaces'
      BY <1>3, <3>1, <3>4 DEF RdpPlaces
    <3> QED
      BY <3>1, <3>2, <3>3, <3>4, <3>5, RdpThere DEF RdpThingsAre
  <2>3. CASE RdpFreeRest
    <3>1. /\ gpc = "teardown_rest" /\ gpc' = "again"
          /\ gthing' = SetThings({"connection", "keyboard"}, "null")
          /\ glock' = [glock EXCEPT !.hold = "none"]
          /\ gmisuse' = gmisuse
      BY <2>3 DEF RdpFreeRest
    <3>2. RdpThingsAre("null", "freed", "null", "live")
      BY <3>1, RdpThere DEF RdpPlaces
    <3>3. /\ gthing' \in [GThings -> {"null", "live", "freed"}]
          /\ \A t \in GThings \ {"keyboard", "connection"} : gthing'[t] = gthing[t]
          /\ gthing'["keyboard"] = "null" /\ gthing'["connection"] = "null"
      BY <3>1, RdpThere DEF SetThings
    <3>4. RdpThingsAre("null", "null", "null", "null")'
      BY <3>1, <3>2, <3>3, RdpThere DEF RdpThingsAre
    <3>5. RdpPlaces'
      BY <3>1, <3>4 DEF RdpPlaces
    <3>6. /\ glock' \in [hold : {"none", "read", "write"}, readers : 0 .. 1]
          /\ glock'.readers = glock.readers
      BY <3>1, RdpThere
    <3> QED
      BY <3>1, <3>3, <3>4, <3>5, <3>6, RdpThere DEF RdpThingsAre
  <2> QED
    BY <2>1, <2>2, <2>3
<1>5. gthing'["settings"] = gthing["settings"]
      /\ \A t \in Others : gthing'[t] = "freed" => gthing[t] = "freed"
  BY <1>2, <1>4, RdpThere DEF Others
<1> QED
  BY <1>1, <1>2, <1>3, <1>4, <1>5, RdpThere, RdpThreadKeeps

\* The steps of preparing: VNC publishes the connection, the display and the
\* render thread with the fifth, the seventh and the eighth; RDP none of them.
LEMMA VncStepsAre ==
  ASSUME NEW i \in 1 .. 8
  PROVE  /\ Len(VncSteps) = 8
         /\ VncSteps[i].creates \in {"", "audio", "sftp", "connection", "recording", "display", "render"}
         /\ VncSteps[i].failure \in {"silently", "abort", "never"}
         /\ i = 5 => VncSteps[i].creates = "connection" /\ VncSteps[i].option = "any"
         /\ i = 7 => VncSteps[i].creates = "display" /\ VncSteps[i].option = "any"
         /\ i = 8 => VncSteps[i].creates = "render" /\ VncSteps[i].option = "any"
<1>1. i \in {1, 2, 3, 4, 5, 6, 7, 8}
  OBVIOUS
<1>2. Len(VncSteps) = 8
  BY DEF VncSteps
<1>3. /\ VncSteps[1].creates = "" /\ VncSteps[1].failure \in {"silently", "abort", "never"}
  BY DEF VncSteps, Prepare
<1>4. /\ VncSteps[2].creates = "" /\ VncSteps[2].failure \in {"silently", "abort", "never"}
  BY DEF VncSteps, Prepare
<1>5. /\ VncSteps[3].creates = "audio" /\ VncSteps[3].failure \in {"silently", "abort", "never"}
  BY DEF VncSteps, Prepare
<1>6. /\ VncSteps[4].creates = "sftp" /\ VncSteps[4].failure \in {"silently", "abort", "never"}
  BY DEF VncSteps, Prepare
<1>7. /\ VncSteps[5].creates = "connection" /\ VncSteps[5].failure \in {"silently", "abort", "never"}
      /\ VncSteps[5].option = "any"
  BY DEF VncSteps, Prepare
<1>8. /\ VncSteps[6].creates = "recording" /\ VncSteps[6].failure \in {"silently", "abort", "never"}
  BY DEF VncSteps, Prepare
<1>9. /\ VncSteps[7].creates = "display" /\ VncSteps[7].failure \in {"silently", "abort", "never"}
      /\ VncSteps[7].option = "any"
  BY DEF VncSteps, Prepare
<1>10. /\ VncSteps[8].creates = "render" /\ VncSteps[8].failure \in {"silently", "abort", "never"}
      /\ VncSteps[8].option = "any"
  BY DEF VncSteps, Prepare
<1> QED
  BY <1>1, <1>2, <1>3, <1>4, <1>5, <1>6, <1>7, <1>8, <1>9, <1>10

\* What the preparing steps of guac_rdp_client_thread() create, and how they
\* fail.
LEMMA RdpStepsAre ==
  ASSUME NEW i \in 1 .. 5
  PROVE  /\ Len(RdpSteps) = 5
         /\ RdpSteps[i].creates \in {"", "audio", "drive", "sftp", "recording"}
         /\ RdpSteps[i].failure \in {"silently", "abort", "never"}
<1>1. i \in {1, 2, 3, 4, 5}
  OBVIOUS
<1>2. Len(RdpSteps) = 5
  BY DEF RdpSteps
<1>3. /\ RdpSteps[1].creates = "" /\ RdpSteps[1].failure \in {"silently", "abort", "never"}
  BY DEF RdpSteps, Prepare
<1>4. /\ RdpSteps[2].creates = "audio" /\ RdpSteps[2].failure \in {"silently", "abort", "never"}
  BY DEF RdpSteps, Prepare
<1>5. /\ RdpSteps[3].creates = "drive" /\ RdpSteps[3].failure \in {"silently", "abort", "never"}
  BY DEF RdpSteps, Prepare
<1>6. /\ RdpSteps[4].creates = "sftp" /\ RdpSteps[4].failure \in {"silently", "abort", "never"}
  BY DEF RdpSteps, Prepare
<1>7. /\ RdpSteps[5].creates = "recording" /\ RdpSteps[5].failure \in {"silently", "abort", "never"}
  BY DEF RdpSteps, Prepare
<1> QED
  BY <1>1, <1>2, <1>3, <1>4, <1>5, <1>6, <1>7

\* A step of the client thread of VNC keeps the invariant if what it uses has
\* been created, as long as the client is not being freed.
LEMMA VncThreadKeeps ==
  ASSUME GInv, gx = "vnc", gpc \in {"prepare", "loop"}, gpc' \in {"prepare", "loop", "end"},
         UNCHANGED <<gx, setup, rdpVars, stopped, userVars, gfree>>,
         gstep' \in 1 .. 9, gpc' = "loop" => gstep' = 9,
         gthing' \in [GThings -> {"null", "live", "freed"}],
         \A t \in GThings : gthing'[t] = "freed" => gthing[t] = "freed",
         gthing'["settings"] = gthing["settings"],
         gpc' \in {"prepare", "loop"} =>
           /\ gstep' > 5 => gthing'["connection"] # "null"
           /\ gstep' > 7 => gthing'["display"] # "null"
           /\ gstep' > 8 => gthing'["render"] # "null",
         gState' \in {gState, "STOPPING"},
         gpc' = "end" /\ ~gquiet' => gState' = "STOPPING",
         \A m \in gmisuse' : m \in gmisuse \/ m[1] = "client",
         gfree <= 3 => \A m \in gmisuse' : m \in gmisuse \/ (m[1] = "client" /\ m[2] = "job")
  PROVE  GInv'
<1>1. /\ UNCHANGED <<gx, setup, stopped, gjoined, ghandlers, pending, shown, gfree, glock>>
      /\ GraphicalTypeOK
  BY DEF userVars, rdpVars, GInv
<1>2. GSteps' = GSteps /\ GFreeParts' = GFreeParts /\ Len(GSteps) = 8
  BY <1>1 DEF GSteps, GFreeParts, VncSteps, RdpSteps, VncFree, RdpFree
<1>3. GraphicalTypeOK'
  BY <1>1, <1>2 DEF GraphicalTypeOK
<1>4. gjoined["owner"] # "away" /\ "connection" \in GThings
  BY DEF GInv, GOwnerFirst, GThings
<1>5. GOwnerFirst' /\ GFreeingAlone'
  BY <1>1, <1>4 DEF GInv, GOwnerFirst, GFreeingAlone, NoneFreedOf
<1>6. VncInv'
  BY <1>1, <1>4 DEF GInv, VncInv, NoClientMisuse, NoneFreedOf
<1>7. PendingUsersSafe' /\ GraphicalEndedIsStopped'
  BY DEF GInv, PendingUsersSafe, GraphicalEndedIsStopped
<1> QED
  BY <1>1, <1>3, <1>5, <1>6, <1>7 DEF GInv, RdpInv

\* What guac_vnc_client_thread() may rely on while it prepares and while it
\* handles messages.
LEMMA VncThere ==
  ASSUME GInv, gx = "vnc", gpc \in {"prepare", "loop"}
  PROVE  /\ gstep \in 1 .. 9 /\ GSteps = VncSteps /\ Len(GSteps) = 8 /\ gfree \in Nat
         /\ gthing \in [GThings -> {"null", "live", "freed"}]
         /\ gstep > 5 => gthing["connection"] # "null"
         /\ gstep > 7 => gthing["display"] # "null"
         /\ gstep > 8 => gthing["render"] # "null"
         /\ gpc = "loop" => gstep = 9
         /\ gfree <= 3 => \A t \in GThings : gthing[t] # "freed"
         /\ gthing["settings"] # "null"
         /\ {"connection", "display", "render", "settings", "audio", "sftp", "recording"}
              \subseteq GThings
<1>1. GraphicalTypeOK /\ GSteps = VncSteps /\ Len(GSteps) = 8
  BY DEF GInv, GSteps, VncSteps
<1>2. gstep \in 1 .. 9
  BY <1>1 DEF GraphicalTypeOK
<1>3. gfree \in Nat
  <2>1. Len(GFreeParts) \in Nat
    BY DEF GFreeParts, VncFree, RdpFree
  <2> QED
    BY <1>1, <2>1 DEF GraphicalTypeOK
<1>4. {"connection", "display", "render", "settings", "audio", "sftp", "recording"} \subseteq GThings
  BY DEF GThings
<1> QED
  BY <1>1, <1>2, <1>3, <1>4 DEF GInv, VncInv, GOwnerFirst, GraphicalTypeOK, NoneFreedOf

\* A message of the VNC server, or the end of the loop, keeps the invariant
\* (guac_vnc_handle_messages()).
LEMMA VncMessageKeeps == ASSUME GInv, VncMessage \/ VncEnd  PROVE GInv'
<1>1. /\ UNCHANGED <<gx, setup, gstep, rdpVars, stopped, userVars, gfree, gquiet>>
      /\ gx = "vnc" /\ gpc = "loop"
      /\ \/ /\ gpc' = "loop" /\ gthing' = gthing /\ gState = "RUNNING"
            /\ gState' \in {"RUNNING", "STOPPING"}
            /\ GUses("client", {"connection", "display", "settings", "render"})
         \/ /\ gpc' = "end" /\ gState = "STOPPING" /\ gState' = gState
            /\ gthing' = SetThings({"render"}, "null") /\ GUses("client", {"render"})
  BY DEF VncMessage, VncEnd
<1>2. /\ gthing' \in [GThings -> {"null", "live", "freed"}]
      /\ \A t \in GThings : gthing'[t] = "freed" => gthing[t] = "freed"
      /\ gthing'["settings"] = gthing["settings"]
  BY <1>1, VncThere DEF SetThings
<1>3. /\ gthing["connection"] # "null" /\ gthing["display"] # "null"
      /\ gthing["render"] # "null" /\ gthing["settings"] # "null" /\ gstep = 9
  BY <1>1, VncThere
<1>4. \A m \in gmisuse' : m \in gmisuse \/ m[1] = "client"
  BY <1>1, GRecorded
<1>5. gfree <= 3 => \A m \in gmisuse' : m \in gmisuse \/ (m[1] = "client" /\ m[2] = "job")
  <2>1. ASSUME gfree <= 3
        PROVE  \A t \in {"connection", "display", "settings", "render"} :
                 gthing[t] \notin {"null", "freed"}
    BY <1>1, <1>3, <2>1, VncThere
  <2> QED
    BY <1>1, <2>1, GUsesLive
<1> QED
  BY <1>1, <1>2, <1>3, <1>4, <1>5, VncThere, VncThreadKeeps

\* The end of the preparing steps keeps the invariant
\* (guac_vnc_client_thread(), guac_rdp_client_thread()).
LEMMA PreparedKeeps == ASSUME GInv, Prepared  PROVE GInv'
<1>1. /\ UNCHANGED <<gx, setup, gState, gstep, gthing, rdpVars, stopped, userVars, gfree, gmisuse, gquiet>>
      /\ gpc = "prepare" /\ gstep = Len(GSteps) + 1
      /\ gpc' = IF gx = "vnc" THEN "loop" ELSE "again"
  BY DEF Prepared
<1>2. CASE gx = "vnc"
  <2>1. gstep = Len(GSteps) + 1 /\ gpc' = "loop"
    BY <1>1, <1>2
  <2>2. gstep \in 1 .. 9 /\ Len(GSteps) = 8
    BY <1>1, <1>2, VncThere
  <2>3. gstep = 9
    BY <2>1, <2>2
  <2> QED
    BY <1>1, <1>2, <2>1, <2>3, VncThere, VncThreadKeeps
<1>3. CASE gx # "vnc"
  <2>1. gx = "rdp" /\ gpc' = "again"
    BY <1>1, <1>3 DEF GInv, GraphicalPlugins
  <2>2. RdpPlaces /\ glock' = glock /\ gpc' \in GPlaces \ {"idle"}
    BY <1>1, <2>1, RdpThere DEF rdpVars, GPlaces
  <2>3. RdpPlaces'
    BY <1>1, <2>1, <2>2 DEF RdpPlaces, RdpThingsAre
  <2> QED
    BY <1>1, <2>1, <2>2, <2>3, RdpThere, RdpThreadKeeps
<1> QED
  BY <1>2, <1>3

\* A preparing step, which creates a part or ends the thread, keeps the
\* invariant (guac_vnc_client_thread(), guac_rdp_client_thread()).
LEMMA PrepareStepKeeps == ASSUME GInv, PrepareStep  PROVE GInv'
<1> DEFINE step == GSteps[gstep]
           asked == step.option \in setup \cup {"any"}
<1>1. /\ UNCHANGED <<gx, setup, rdpVars, stopped, userVars, gfree>>
      /\ gpc = "prepare" /\ gstep <= Len(GSteps)
      /\ GUses("client", {"settings"}) \/ gmisuse' = gmisuse
      /\ \/ /\ gthing' = IF asked /\ step.creates # ""
                          THEN SetThings({step.creates}, "live") ELSE gthing
            /\ gstep' = gstep + 1 /\ UNCHANGED <<gpc, gState, gquiet>>
         \/ /\ asked /\ step.failure # "never" /\ gpc' = "end"
            /\ gState' = IF step.failure = "abort" THEN "STOPPING" ELSE gState
            /\ gquiet' = (step.failure = "silently")
            /\ UNCHANGED <<gthing, gstep>>
  BY DEF PrepareStep
<1>2. CASE gx = "vnc"
  <2>1. gstep \in 1 .. 8 /\ GSteps = VncSteps
    <3>1. gstep \in 1 .. 9 /\ GSteps = VncSteps /\ Len(GSteps) = 8
      BY <1>1, <1>2, VncThere
    <3>2. gstep <= Len(GSteps)
      BY DEF PrepareStep
    <3> HIDE DEF step, asked
    <3> QED
      BY <3>1, <3>2
  <2>2. /\ step.creates \in {"", "audio", "sftp", "connection", "recording", "display", "render"}
        /\ step.failure \in {"silently", "abort", "never"}
        /\ gstep = 5 => step.creates = "connection" /\ asked
        /\ gstep = 7 => step.creates = "display" /\ asked
        /\ gstep = 8 => step.creates = "render" /\ asked
    <3>1. step = VncSteps[gstep]
      BY <2>1
    <3>2. /\ VncSteps[gstep].creates \in {"", "audio", "sftp", "connection", "recording",
                                        "display", "render"}
          /\ VncSteps[gstep].failure \in {"silently", "abort", "never"}
          /\ gstep = 5 => VncSteps[gstep].creates = "connection" /\ VncSteps[gstep].option = "any"
          /\ gstep = 7 => VncSteps[gstep].creates = "display" /\ VncSteps[gstep].option = "any"
          /\ gstep = 8 => VncSteps[gstep].creates = "render" /\ VncSteps[gstep].option = "any"
      <4> HIDE DEF step, asked
      <4> QED
        BY <2>1, VncStepsAre
    <3>3. step.option = "any" => asked
      OBVIOUS
    <3> HIDE DEF step, asked
    <3> QED
      BY <3>1, <3>2, <3>3
  <2> HIDE DEF step, asked
  <2>3. /\ gthing' \in [GThings -> {"null", "live", "freed"}]
        /\ \A t \in GThings : gthing'[t] \in {gthing[t], "live"}
        /\ gthing'["settings"] = gthing["settings"]
    <3>1. gthing \in [GThings -> {"null", "live", "freed"}]
      BY <1>1, <1>2, VncThere
    <3>2. "settings" \in GThings /\ step.creates # "settings"
      BY <2>2 DEF GThings
    <3>3. \/ gthing' = gthing
          \/ step.creates # "" /\ gthing' = SetThings({step.creates}, "live")
      BY <1>1
    <3>4. CASE gthing' = gthing
      BY <3>1, <3>4
    <3>5. CASE step.creates # "" /\ gthing' = SetThings({step.creates}, "live")
      BY <3>1, <3>2, <3>5 DEF SetThings
    <3> QED
      BY <3>3, <3>4, <3>5
  <2>4. /\ gstep' \in 1 .. 9 /\ gpc' \in {"prepare", "end"} /\ gState' \in {gState, "STOPPING"}
        /\ gpc' = "end" /\ ~gquiet' => gState' = "STOPPING"
    <3>1. gstep' \in {gstep, gstep + 1}
      BY <1>1
    <3>2. gstep' \in 1 .. 9
      BY <2>1, <3>1
    <3>3. CASE gpc' = "end"
      BY <1>1, <2>2, <3>2, <3>3
    <3> QED
      BY <1>1, <3>2, <3>3
  <2>5. gpc' = "prepare" =>
          /\ gstep' > 5 => gthing'["connection"] # "null"
          /\ gstep' > 7 => gthing'["display"] # "null"
          /\ gstep' > 8 => gthing'["render"] # "null"
    <3>1. CASE gpc' = "prepare"
      <4>1. /\ gstep' = gstep + 1
            /\ gthing' = IF asked /\ step.creates # ""
                         THEN SetThings({step.creates}, "live") ELSE gthing
        BY <1>1, <3>1
      <4>2. /\ gstep = 5 => gthing'["connection"] = "live"
            /\ gstep = 7 => gthing'["display"] = "live"
            /\ gstep = 8 => gthing'["render"] = "live"
        BY <1>1, <1>2, <2>2, <4>1, VncThere DEF SetThings
      <4>3. /\ gstep' > 5 => gstep = 5 \/ gstep > 5
            /\ gstep' > 7 => gstep = 7 \/ gstep > 7
            /\ gstep' > 8 => gstep = 8 \/ gstep > 8
        <5>1. gstep' = gstep + 1
          BY <4>1
        <5> QED
          BY <2>1, <5>1
      <4> QED
        BY <1>1, <1>2, <2>3, <4>2, <4>3, VncThere
    <3> QED
      BY <3>1
  <2>6. \A m \in gmisuse' : m \in gmisuse \/ m[1] = "client"
    BY <1>1, GRecorded
  <2>7. gfree <= 3 => \A m \in gmisuse' : m \in gmisuse \/ (m[1] = "client" /\ m[2] = "job")
    <3>1. ASSUME gfree <= 3  PROVE \A t \in {"settings"} : gthing[t] \notin {"null", "freed"}
      BY <1>1, <1>2, <3>1, VncThere
    <3>2. CASE GUses("client", {"settings"})
      BY <3>1, <3>2, GUsesLive
    <3> QED
      BY <1>1, <3>2
  <2> QED
    BY <1>1, <1>2, <2>3, <2>4, <2>5, <2>6, <2>7, VncThreadKeeps
<1>3. CASE gx # "vnc"
  <2>1. gx = "rdp"
    BY <1>3 DEF GInv, GraphicalPlugins
  <2>2. gstep \in 1 .. 5 /\ GSteps = RdpSteps /\ Len(GSteps) = 5
    <3>1. GSteps = RdpSteps /\ Len(GSteps) = 5
      BY <2>1 DEF GSteps, RdpSteps
    <3>2. gstep \in 1 .. Len(GSteps) + 1 /\ gstep <= Len(GSteps)
      BY <1>1, <2>1, RdpThere
    <3> HIDE DEF step, asked
    <3> QED
      BY <3>1, <3>2
  <2>3. /\ step.creates \in {"", "audio", "drive", "sftp", "recording"}
        /\ step.failure \in {"silently", "abort", "never"}
    BY <2>2, RdpStepsAre
  <2> HIDE DEF step, asked
  <2>4. /\ gthing' \in [GThings -> {"null", "live", "freed"}]
        /\ \A t \in GThings : gthing'[t] \in {gthing[t], "live"}
        /\ \A t \in {"settings", "display", "connection", "render", "keyboard"} : gthing'[t] = gthing[t]
    <3>1. CASE gthing' = gthing
      BY <1>1, <2>1, <3>1, RdpThere
    <3>2. CASE step.creates # "" /\ gthing' = SetThings({step.creates}, "live")
      BY <1>1, <2>1, <2>3, <3>2, RdpThere DEF SetThings
    <3> QED
      BY <1>1, <3>1, <3>2
  <2>5. /\ gstep' \in 1 .. 6 /\ gpc' \in {"prepare", "end"} /\ gState' \in {gState, "STOPPING"}
        /\ gpc' = "end" /\ ~gquiet' => gState' = "STOPPING"
    <3>1. gstep' \in {gstep, gstep + 1}
      BY <1>1
    <3>2. gstep' \in 1 .. 6
      BY <2>2, <3>1
    <3>3. CASE gpc' = "end"
      BY <1>1, <2>3, <3>2, <3>3
    <3> QED
      BY <1>1, <3>2, <3>3
  <2>6. RdpPlaces /\ glock' = glock /\ gpc' \in GPlaces \ {"idle"}
    BY <1>1, <2>1, <2>5, RdpThere DEF rdpVars, GPlaces
  <2>7. RdpPlaces'
    BY <1>1, <2>4, <2>5, <2>6 DEF RdpPlaces, RdpThingsAre
  <2>8. \A m \in gmisuse' : m \in gmisuse \/ (m[1] = "client" /\ m[2] = "job")
    <3>1. \A t \in {"settings"} : gthing[t] \notin {"null", "freed"}
      BY <1>1, <2>1, RdpThere
    <3>2. CASE GUses("client", {"settings"})
      BY <3>1, <3>2, GUsesLive
    <3> QED
      BY <1>1, <3>2
  <2>9. \A t \in Others : gthing'[t] = "freed" => gthing[t] = "freed"
    BY <2>4 DEF Others
  <2>10. /\ gstep' \in 1 .. Len(GSteps) + 1 /\ glock'.readers = glock.readers
         /\ glock' \in [hold : {"none", "read", "write"}, readers : 0 .. 1]
         /\ glock'.hold = "write" => glock.readers = 0
    <3>1. Len(GSteps) + 1 = 6
      BY <2>2
    <3> QED
      BY <1>1, <2>1, <2>5, <2>6, <3>1, RdpThere
  <2>11. UNCHANGED <<gx, setup, stopped, userVars, gfree>> /\ gpc \notin {"idle", "end"}
    BY <1>1
  <2> QED
    BY <2>1, <2>4, <2>5, <2>6, <2>7, <2>8, <2>9, <2>10, <2>11, RdpThreadKeeps
<1> QED
  BY <1>2, <1>3

\* A step of a user's thread, or of the thread that promotes users, keeps the
\* invariant if it changes nothing of what there is.
LEMMA UserStepKeeps ==
  ASSUME GInv, UNCHANGED <<gx, setup, gpc, gstep, gthing, gfree, gquiet>>,
         gState' \in {gState, "STOPPING"},
         gjoined["owner"] # "away", gjoined'["owner"] # "away",
         gjoined' \in [GUsers -> {"away", "joined", "left"}],
         gfree = 0,
         pending' \subseteq {u \in Visitors : gjoined'[u] = "joined"},
         shown' \subseteq {"settings", "display", "audio"},
         shown' # {} => pending' # {},
         glock' \in [hold : {"none", "read", "write"}, readers : 0 .. 1],
         glock'.hold = glock.hold, glock'.hold = "write" => glock'.readers = 0,
         gx = "rdp" /\ shown' # {} => glock'.readers = 1,
         \A m \in gmisuse' : m \in gmisuse \/ m[1] \in {"user", "leave"}
                                          \/ (m[1] = "pending" /\ m[3] # "freed")
  PROVE  GInv'
<1>1. GraphicalTypeOK
  BY DEF GInv
<1>2. GSteps' = GSteps /\ GFreeParts' = GFreeParts
  BY DEF GSteps, GFreeParts, VncSteps, RdpSteps, VncFree, RdpFree
<1>3. GraphicalTypeOK'
  BY <1>1, <1>2 DEF GraphicalTypeOK
<1>4. GOwnerFirst' /\ GFreeingAlone'
  BY DEF GInv, GOwnerFirst, GFreeingAlone, NoneFreedOf
<1>5. NoClientMisuse => NoClientMisuse'
  BY DEF NoClientMisuse
<1>6. VncInv'
  BY <1>5 DEF GInv, VncInv, NoneFreedOf
<1>7. RdpPlaces => RdpPlaces'
  BY DEF RdpPlaces, RdpThingsAre
<1>8. RdpInv'
  BY <1>5, <1>7 DEF GInv, RdpInv, NoneFreedOf
<1>9. PendingUsersSafe' /\ GraphicalEndedIsStopped'
  BY DEF GInv, PendingUsersSafe, GraphicalEndedIsStopped
<1> QED
  BY <1>3, <1>4, <1>6, <1>8, <1>9 DEF GInv

\* What holds of users and of the lock.
LEMMA UsersThere ==
  ASSUME GInv
  PROVE  /\ gjoined \in [GUsers -> {"away", "joined", "left"}] /\ "owner" \in GUsers
         /\ Visitors \subseteq GUsers
         /\ pending \subseteq {u \in Visitors : gjoined[u] = "joined"}
         /\ shown \subseteq {"settings", "display", "audio"}
         /\ shown # {} => pending # {}
         /\ glock \in [hold : {"none", "read", "write"}, readers : 0 .. 1]
         /\ glock.hold = "write" => glock.readers = 0
         /\ gx = "rdp" /\ shown # {} => glock.readers = 1
         /\ gState \in {"RUNNING", "STOPPING"} /\ gx \in GraphicalPlugins
         /\ \A u \in GUsers : gjoined[u] = "joined" => gfree = 0 /\ gjoined["owner"] # "away"
         /\ pending # {} => gfree = 0 /\ gjoined["owner"] # "away"
<1>1. GraphicalTypeOK /\ "owner" \in GUsers /\ Visitors \subseteq GUsers
  BY DEF GInv, GUsers
<1>2. \A u \in GUsers : gjoined[u] = "joined" => gfree = 0 /\ gjoined["owner"] # "away"
  BY <1>1 DEF GInv, GFreeingAlone, GOwnerFirst
<1>3. pending # {} => \E u \in GUsers : gjoined[u] = "joined"
  BY <1>1 DEF GraphicalTypeOK
<1>4. pending # {} => gfree = 0 /\ gjoined["owner"] # "away"
  BY <1>2, <1>3
<1> QED
  BY <1>1, <1>2, <1>4 DEF GInv, GraphicalTypeOK, GFreeingAlone, RdpInv

\* The join of another user, pending at first, keeps the invariant
\* (guac_rdp_user_join_handler()).
LEMMA GJoinKeeps == ASSUME GInv, NEW u \in GUsers, GJoin(u)  PROVE GInv'
<1>1. /\ UNCHANGED <<gx, setup, gState, gpc, gstep, gthing, glock, shown, gfree, gmisuse, gquiet>>
      /\ u \in Visitors /\ gjoined[u] = "away" /\ gjoined["owner"] # "away" /\ gState = "RUNNING"
      /\ gjoined' = [gjoined EXCEPT ![u] = "joined"] /\ pending' = pending \cup {u}
  BY DEF GJoin, rdpVars
<1>2. gfree = 0
  BY <1>1 DEF GInv, GFreeingAlone
<1>3. /\ gjoined' \in [GUsers -> {"away", "joined", "left"}] /\ gjoined'["owner"] # "away"
      /\ pending' \subseteq {v \in Visitors : gjoined'[v] = "joined"}
  BY <1>1, UsersThere
<1>4. shown' # {} => pending' # {}
  BY <1>1
<1> QED
  BY <1>1, <1>2, <1>3, <1>4, UsersThere, UserStepKeeps

\* The leave of a user keeps the invariant (guac_rdp_user_leave_handler()).
LEMMA GLeaveKeeps == ASSUME GInv, NEW u \in GUsers, GLeave(u)  PROVE GInv'
<1>1. /\ UNCHANGED <<gx, setup, gpc, gstep, gthing, glock, pending, shown, gfree, gquiet>>
      /\ gjoined[u] = "joined" /\ u \notin pending /\ gjoined' = [gjoined EXCEPT ![u] = "left"]
      /\ GUses("leave", Guarded({"display"})) /\ gState' \in {gState, "STOPPING"}
  BY DEF GLeave, rdpVars
<1>2. /\ gjoined' \in [GUsers -> {"away", "joined", "left"}] /\ gjoined'["owner"] # "away"
      /\ pending' \subseteq {v \in Visitors : gjoined'[v] = "joined"}
  BY <1>1, UsersThere
<1>3. \A m \in gmisuse' : m \in gmisuse \/ m[1] \in {"user", "leave"}
  BY <1>1, GRecorded
<1>4. gfree = 0 /\ gjoined["owner"] # "away"
  BY <1>1, UsersThere
<1> QED
  BY <1>1, <1>2, <1>3, <1>4, UsersThere, UserStepKeeps

\* An input of a user who may give it keeps the invariant (input.c,
\* guac_rdp_user_file_handler()).
LEMMA GHandleKeeps ==
  ASSUME GInv, NEW u \in GUsers, NEW h \in GHandlerNames, GHandle(u, h)  PROVE GInv'
<1>1. /\ UNCHANGED <<gx, setup, gState, gpc, gstep, gthing, glock, gjoined, pending, shown,
                     gfree, gquiet>>
      /\ gjoined[u] = "joined"
      /\ \E S : GUses("user", S)
  BY DEF GHandle, userVars
<1>2. \A m \in gmisuse' : m \in gmisuse \/ m[1] \in {"user", "leave"}
  BY <1>1, GRecorded
<1>3. gfree = 0 /\ gjoined["owner"] # "away"
  BY <1>1, UsersThere
<1> QED
  BY <1>1, <1>2, <1>3, UsersThere, UserStepKeeps

\* RDP takes the lock to look at the display, so that its thread is not freeing
\* it then.
LEMMA ShowKeeps == ASSUME GInv, join_pending_handler  PROVE GInv'
<1>1. /\ UNCHANGED <<gx, setup, gState, gpc, gstep, gthing, gjoined, pending, gfree, gmisuse, gquiet>>
      /\ pending # {}
      /\ gx = "rdp" => glock.hold # "write"
      /\ glock' = [glock EXCEPT !.readers = IF gx = "rdp" THEN 1 ELSE 0]
      /\ shown' = Guarded({"display", "audio"}) \cup {"settings"}
  BY DEF join_pending_handler, CanRead
<1>2. /\ shown' \subseteq {"settings", "display", "audio"}
      /\ gjoined["owner"] # "away" /\ gfree = 0
  BY <1>1, UsersThere DEF Guarded
<1>3. /\ glock' \in [hold : {"none", "read", "write"}, readers : 0 .. 1]
      /\ glock'.hold = glock.hold /\ glock'.readers = IF gx = "rdp" THEN 1 ELSE 0
  BY <1>1, UsersThere
<1> QED
  BY <1>1, <1>2, <1>3, UsersThere, UserStepKeeps

\* The end of a promotion, when the read lock is released, keeps the invariant
\* (guac_rdp_join_pending_handler()).
LEMMA PromotedKeeps == ASSUME GInv, Promoted  PROVE GInv'
<1>1. /\ UNCHANGED <<gx, setup, gState, gpc, gstep, gthing, gjoined, gfree, gquiet>>
      /\ shown # {} /\ GUses("pending", shown)
      /\ glock' = [glock EXCEPT !.readers = 0] /\ shown' = {} /\ pending' = {}
  BY DEF Promoted
<1>2. pending # {} /\ gjoined["owner"] # "away" /\ gfree = 0
  BY <1>1, UsersThere
<1>3. glock' \in [hold : {"none", "read", "write"}, readers : 0 .. 1]
      /\ glock'.hold = glock.hold /\ glock'.readers = 0
  BY <1>1, UsersThere
<1>4. \A t \in shown : gthing[t] # "freed"
  <2>1. "settings" \in Others /\ "audio" \in Others /\ "display" \in GThings
    BY DEF Others, GThings
  <2>2. gthing["settings"] # "freed" /\ gthing["audio"] # "freed"
    BY <1>2, <2>1 DEF GInv, GFreeingAlone, NoneFreedOf, Others
  <2>3. CASE gx = "vnc"
    <3>1. gthing["display"] # "freed"
      BY <1>2, <2>1, <2>3 DEF GInv, VncInv, NoneFreedOf
    <3>2. shown \subseteq {"settings", "display", "audio"}
      BY UsersThere
    <3> QED
      BY <2>2, <3>1, <3>2
  <2>4. CASE gx = "rdp"
    <3>1. glock.hold # "write"
      BY <1>1, <2>4, UsersThere
    <3>2. gpc \in GPlaces /\ RdpPlaces
      BY <2>4 DEF GInv, GraphicalTypeOK, RdpInv, GPlaces
    <3>3. gthing["display"] # "freed"
      BY <3>1, <3>2 DEF RdpPlaces, RdpThingsAre, GPlaces
    <3>4. shown \subseteq {"settings", "display", "audio"}
      BY UsersThere
    <3> QED
      BY <2>2, <3>3, <3>4
  <2> QED
    BY <2>3, <2>4, UsersThere DEF GraphicalPlugins
<1>5. \A m \in gmisuse' : m \in gmisuse \/ (m[1] = "pending" /\ m[3] # "freed")
  BY <1>1, <1>4, GRecorded
<1> QED
  BY <1>1, <1>2, <1>3, <1>5, UsersThere, UserStepKeeps

\* The join of the owner, which starts the client thread, keeps the invariant
\* (guac_vnc_user_join_handler()).
LEMMA GJoinOwnerKeeps == ASSUME GInv, GJoinOwner  PROVE GInv'
<1>1. /\ UNCHANGED <<gx, setup, gstep, glock, stopped, pending, shown, gfree, gmisuse, gquiet>>
      /\ gjoined["owner"] = "away" /\ gthing' = SetThings({"settings"}, "live")
      /\ \/ /\ gpc' = "prepare" /\ gjoined' = [gjoined EXCEPT !["owner"] = "joined"]
            /\ gState' = gState
         \/ /\ gpc' = "end" /\ gState' = "STOPPING"
            /\ gjoined' = [gjoined EXCEPT !["owner"] = "left"]
  BY DEF GJoinOwner, rdpVars
<1>2. /\ gpc = "idle" /\ gState = "RUNNING" /\ gfree = 0
      /\ \A t \in GThings : gthing[t] = "null"
      /\ \A u \in GUsers : gjoined[u] = "away"
  BY <1>1 DEF GInv, GOwnerFirst
<1>3. /\ gthing' \in [GThings -> {"null", "live", "freed"}]
      /\ \A t \in GThings : gthing'[t] = IF t = "settings" THEN "live" ELSE "null"
  BY <1>1, <1>2 DEF SetThings
<1>4. /\ gjoined' \in [GUsers -> {"away", "joined", "left"}] /\ gjoined'["owner"] # "away"
      /\ pending = {} /\ shown = {}
  <2>1. "owner" \in GUsers /\ gjoined \in [GUsers -> {"away", "joined", "left"}]
    BY UsersThere
  <2>2. gjoined' \in [GUsers -> {"away", "joined", "left"}] /\ gjoined'["owner"] # "away"
    BY <1>1, <2>1
  <2>3. pending = {}
    BY <1>1, UsersThere
  <2>4. shown = {}
    BY <2>3, UsersThere
  <2> QED
    BY <2>2, <2>3, <2>4
<1>5. GSteps' = GSteps /\ GFreeParts' = GFreeParts
  BY <1>1 DEF GSteps, GFreeParts, VncSteps, RdpSteps, VncFree, RdpFree
<1>6. GraphicalTypeOK'
  BY <1>1, <1>3, <1>4, <1>5 DEF GInv, GraphicalTypeOK
<1>7. {"settings", "display", "connection", "render", "keyboard"} \subseteq GThings
  BY DEF GThings
<1>8. GOwnerFirst' /\ GFreeingAlone'
  BY <1>1, <1>2, <1>3, <1>4, <1>7 DEF GOwnerFirst, GFreeingAlone, NoneFreedOf
<1>9. gmisuse' = gmisuse /\ gstep' = 1 /\ gfree' = 0 /\ gpc' \in {"prepare", "end"}
  BY <1>1, <1>2 DEF GInv, GOwnerFirst
<1>10. VncInv'
  BY <1>1, <1>2, <1>3, <1>7, <1>9 DEF GInv, VncInv, NoneFreedOf, NoClientMisuse
<1>11. RdpPlaces'
  BY <1>3, <1>7, <1>9 DEF RdpPlaces, RdpThingsAre
<1>12. RdpInv'
  BY <1>1, <1>3, <1>4, <1>9, <1>11 DEF GInv, RdpInv, NoneFreedOf, NoClientMisuse
<1>13. PendingUsersSafe' /\ GraphicalEndedIsStopped'
  BY <1>1, <1>9 DEF GInv, PendingUsersSafe, GraphicalEndedIsStopped
<1> QED
  BY <1>1, <1>6, <1>8, <1>10, <1>12, <1>13 DEF GInv

\* guac_client_free() after the last user has left keeps the invariant.
LEMMA GStartFreeKeeps == ASSUME GInv, GStartFree  PROVE GInv'
<1>1. /\ UNCHANGED <<gx, setup, gState, gpc, gstep, gthing, glock, gjoined, pending, shown,
                     gmisuse, gquiet>>
      /\ gfree = 0 /\ gfree' = 1 /\ gState = "STOPPING"
      /\ \A u \in GUsers : gjoined[u] # "joined"
  BY DEF GStartFree, userVars, rdpVars
<1>2. GSteps' = GSteps /\ GFreeParts' = GFreeParts /\ Len(GFreeParts) \in Nat
  BY <1>1 DEF GSteps, GFreeParts, VncSteps, RdpSteps, VncFree, RdpFree
<1>3. gfree' \in 0 .. Len(GFreeParts) + 1
  BY <1>1, <1>2
<1>4. GraphicalTypeOK'
  BY <1>1, <1>2, <1>3 DEF GInv, GraphicalTypeOK
<1>5. gjoined["owner"] # "away"
  BY <1>1 DEF GInv, GOwnerFirst
<1>6. GOwnerFirst' /\ GFreeingAlone'
  BY <1>1, <1>5 DEF GInv, GOwnerFirst, GFreeingAlone
<1>7. VncInv'
  BY <1>1 DEF GInv, VncInv, NoneFreedOf, NoClientMisuse
<1>8. RdpPlaces => RdpPlaces'
  BY <1>1 DEF RdpPlaces, RdpThingsAre
<1>9. RdpInv'
  BY <1>1, <1>8 DEF GInv, RdpInv, NoneFreedOf, NoClientMisuse
<1> QED
  BY <1>1, <1>4, <1>6, <1>7, <1>9 DEF GInv, PendingUsersSafe, GraphicalEndedIsStopped

\* The steps of freeing.
LEMMA VncFreeParts ==
  ASSUME NEW i \in 1 .. 8
  PROVE  /\ VncFree[i][2] \in {"audio", "connection", "display", "recording", "settings", "sftp"}
         /\ i = 1 => VncFree[i][1] = "halt" /\ VncFree[i][2] = "display"
         /\ i = 2 => VncFree[i][1] = "join" /\ VncFree[i][2] = "connection"
         /\ i = 3 => VncFree[i][1] \notin Kept /\ VncFree[i][2] = "connection"
         /\ i > 3 => VncFree[i][1] = "free" /\ VncFree[i][2] # "connection"
<1>1. VncFree[1][1] = "halt" /\ VncFree[1][2] = "display"
  BY DEF VncFree
<1>2. VncFree[2][1] = "join" /\ VncFree[2][2] = "connection"
  BY DEF VncFree
<1>3. VncFree[3][1] = "free with the above" /\ VncFree[3][2] = "connection"
  BY DEF VncFree
<1>4. VncFree[4][1] = "free" /\ VncFree[4][2] = "sftp"
  BY DEF VncFree
<1>5. VncFree[5][1] = "free" /\ VncFree[5][2] = "recording"
  BY DEF VncFree
<1>6. VncFree[6][1] = "free" /\ VncFree[6][2] = "display"
  BY DEF VncFree
<1>7. VncFree[7][1] = "free" /\ VncFree[7][2] = "audio"
  BY DEF VncFree
<1>8. VncFree[8][1] = "free" /\ VncFree[8][2] = "settings"
  BY DEF VncFree
<1>9. i \in {1, 2, 3, 4, 5, 6, 7, 8}
  OBVIOUS
<1>10. CASE i = 1
  BY <1>1, <1>10
<1>11. CASE i = 2
  BY <1>2, <1>11
<1>12. CASE i = 3
  <2>1. VncFree[3][1] \notin Kept /\ VncFree[3][2] = "connection"
    BY <1>3 DEF Kept
  <2> QED
    BY <1>12, <2>1
<1>13. CASE i = 4
  BY <1>4, <1>13
<1>14. CASE i = 5
  BY <1>5, <1>14
<1>15. CASE i = 6
  BY <1>6, <1>15
<1>16. CASE i = 7
  BY <1>7, <1>16
<1>17. CASE i = 8
  BY <1>8, <1>17
<1> QED
  BY <1>9, <1>10, <1>11, <1>12, <1>13, <1>14, <1>15, <1>16, <1>17

\* The parts of guac_rdp_client_free_handler(), in their order.
LEMMA RdpFreeParts ==
  ASSUME NEW i \in 1 .. 8
  PROVE  /\ RdpFree[i][2] \in {"audio", "drive", "job", "recording", "settings", "sftp"}
         /\ i = 1 => RdpFree[i][1] = "stop"
         /\ i = 2 => RdpFree[i][1] = "join" /\ RdpFree[i][2] = "settings"
         /\ i > 2 => RdpFree[i][1] = "free"
<1>1. RdpFree[1][1] = "stop" /\ RdpFree[1][2] = "settings"
  BY DEF RdpFree
<1>2. RdpFree[2][1] = "join" /\ RdpFree[2][2] = "settings"
  BY DEF RdpFree
<1>3. RdpFree[3][1] = "free" /\ RdpFree[3][2] = "settings"
  BY DEF RdpFree
<1>4. RdpFree[4][1] = "free" /\ RdpFree[4][2] = "drive"
  BY DEF RdpFree
<1>5. RdpFree[5][1] = "free" /\ RdpFree[5][2] = "job"
  BY DEF RdpFree
<1>6. RdpFree[6][1] = "free" /\ RdpFree[6][2] = "sftp"
  BY DEF RdpFree
<1>7. RdpFree[7][1] = "free" /\ RdpFree[7][2] = "recording"
  BY DEF RdpFree
<1>8. RdpFree[8][1] = "free" /\ RdpFree[8][2] = "audio"
  BY DEF RdpFree
<1>9. i \in {1, 2, 3, 4, 5, 6, 7, 8}
  OBVIOUS
<1>10. CASE i = 1
  BY <1>1, <1>10
<1>11. CASE i = 2
  BY <1>2, <1>11
<1>12. CASE i = 3
  BY <1>3, <1>12
<1>13. CASE i = 4
  BY <1>4, <1>13
<1>14. CASE i = 5
  BY <1>5, <1>14
<1>15. CASE i = 6
  BY <1>6, <1>15
<1>16. CASE i = 7
  BY <1>7, <1>16
<1>17. CASE i = 8
  BY <1>8, <1>17
<1> QED
  BY <1>9, <1>10, <1>11, <1>12, <1>13, <1>14, <1>15, <1>16, <1>17

\* Freeing: of RDP nothing is freed before its thread has ended, of VNC neither
\* if the thread was waited for.
LEMMA GFreePartKeeps == ASSUME GInv, GFreePart  PROVE GInv'
<1> DEFINE what == GFreeParts[gfree][1]
           of == GFreeParts[gfree][2]
           there == gthing[of] # "null"
<1>1. /\ UNCHANGED <<gx, setup, gState, gpc, gstep, glock, gjoined, pending, shown, gquiet>>
      /\ gfree \in 1 .. Len(GFreeParts)
      /\ (what = "join" /\ there) => gpc = "end"
      /\ gthing' = IF what \notin Kept /\ there
                  THEN SetThings({of}, "freed") ELSE gthing
      /\ GUses("process", Guarded({of})) \/ gmisuse' = gmisuse
      /\ gfree' = IF what = "join" /\ gx = "vnc" /\ ~there THEN gfree + 2 ELSE gfree + 1
  BY DEF GFreePart, userVars, rdpVars
<1>2. /\ gthing \in [GThings -> {"null", "live", "freed"}] /\ gx \in {"vnc", "rdp"}
      /\ gjoined["owner"] # "away" /\ gthing["settings"] # "null" /\ gState = "STOPPING"
      /\ \A u \in GUsers : gjoined[u] # "joined"
      /\ {"settings", "display", "connection", "render", "keyboard", "drive", "job", "sftp",
          "recording", "audio"} \subseteq GThings
  <2>1. gfree # 0
    BY <1>1
  <2> HIDE DEF what, of, there
  <2>2. {"settings", "display", "connection", "render", "keyboard", "drive", "job", "sftp",
          "recording", "audio"} \subseteq GThings
    BY DEF GThings
  <2> QED
    BY <2>1, <2>2 DEF GInv, GraphicalTypeOK, GraphicalPlugins, GOwnerFirst, GFreeingAlone
<1>3. /\ gfree' \in 1 .. Len(GFreeParts) + 1 /\ gfree \in Nat
      /\ gx = "vnc" => /\ gfree \in 1 .. 8
                       /\ of \in {"connection", "sftp", "recording", "display", "audio", "settings"}
                       /\ gfree = 1 => what = "halt" /\ of = "display"
                       /\ gfree = 2 => what = "join" /\ of = "connection"
                       /\ gfree = 3 => what \notin Kept /\ of = "connection"
                       /\ gfree > 3 => what = "free" /\ of # "connection"
      /\ gx = "rdp" => /\ gfree \in 1 .. 8
                       /\ of \in {"settings", "drive", "job", "sftp", "recording", "audio"}
                       /\ gfree = 1 => what = "stop"
                       /\ gfree = 2 => what = "join" /\ of = "settings"
                       /\ gfree > 2 => what = "free"
  <2>1. CASE gx = "vnc"
    <3>1. GFreeParts = VncFree /\ Len(GFreeParts) = 8
      BY <2>1 DEF GFreeParts, VncFree
    <3>2. gfree \in 1 .. 8
      <4>1. gfree \in 1 .. Len(GFreeParts)
        BY <1>1
      <4> HIDE DEF what, of, there
      <4> QED
        BY <3>1, <4>1
    <3>3. /\ VncFree[gfree][2] \in {"connection", "sftp", "recording", "display", "audio", "settings"}
          /\ gfree = 1 => VncFree[gfree][1] = "halt" /\ VncFree[gfree][2] = "display"
          /\ gfree = 2 => VncFree[gfree][1] = "join" /\ VncFree[gfree][2] = "connection"
          /\ gfree = 3 => VncFree[gfree][1] \notin Kept /\ VncFree[gfree][2] = "connection"
          /\ gfree > 3 => VncFree[gfree][1] = "free" /\ VncFree[gfree][2] # "connection"
      <4> HIDE DEF what, of, there
      <4> QED
        BY <3>2, VncFreeParts
    <3>4. what = VncFree[gfree][1] /\ of = VncFree[gfree][2]
      BY <3>1
    <3> HIDE DEF what, of, there
    <3>5. gfree' \in 1 .. 9
      <4>1. gfree' \in {gfree + 1, gfree + 2} /\ (gfree > 3 => gfree' = gfree + 1)
        BY <1>1, <3>3, <3>4
      <4> QED
        BY <3>2, <4>1
    <3>6. gfree' \in 1 .. Len(GFreeParts) + 1 /\ gfree \in Nat
      BY <3>1, <3>2, <3>5
    <3> QED
      BY <2>1, <3>2, <3>3, <3>4, <3>6
  <2>2. CASE gx = "rdp"
    <3>1. GFreeParts = RdpFree /\ Len(GFreeParts) = 8
      BY <2>2 DEF GFreeParts, RdpFree
    <3>2. gfree \in 1 .. 8
      <4>1. gfree \in 1 .. Len(GFreeParts)
        BY <1>1
      <4> HIDE DEF what, of, there
      <4> QED
        BY <3>1, <4>1
    <3>3. /\ RdpFree[gfree][2] \in {"settings", "drive", "job", "sftp", "recording", "audio"}
          /\ gfree = 1 => RdpFree[gfree][1] = "stop"
          /\ gfree = 2 => RdpFree[gfree][1] = "join" /\ RdpFree[gfree][2] = "settings"
          /\ gfree > 2 => RdpFree[gfree][1] = "free"
      <4> HIDE DEF what, of, there
      <4> QED
        BY <3>2, RdpFreeParts
    <3>4. what = RdpFree[gfree][1] /\ of = RdpFree[gfree][2]
      BY <3>1
    <3> HIDE DEF what, of, there
    <3>5. gfree' \in 1 .. 9
      <4>1. gfree' = gfree + 1
        BY <1>1, <2>2
      <4> QED
        BY <3>2, <4>1
    <3>6. gfree' \in 1 .. Len(GFreeParts) + 1 /\ gfree \in Nat
      BY <3>1, <3>2, <3>5
    <3> QED
      BY <2>2, <3>2, <3>3, <3>4, <3>6
  <2> QED
    BY <1>2, <2>1, <2>2
<1> HIDE DEF what, of, there
<1>4. of \in GThings /\ (there <=> gthing[of] # "null")
  BY <1>2, <1>3 DEF there
<1>5. /\ gthing' \in [GThings -> {"null", "live", "freed"}]
      /\ \A t \in GThings : t # of => gthing'[t] = gthing[t]
      /\ \A t \in GThings : (gthing'[t] = "null" <=> gthing[t] = "null")
      /\ what \in Kept => gthing' = gthing
  <2>1. CASE gthing' = gthing
    BY <1>2, <2>1
  <2>2. CASE what \notin Kept /\ there /\ gthing' = SetThings({of}, "freed")
    BY <1>2, <1>4, <2>2 DEF SetThings
  <2> QED
    BY <1>1, <2>1, <2>2
<1>6. \A m \in gmisuse' : m \in gmisuse \/ m[1] = "process"
  BY <1>1, GRecorded
<1>7. NoClientMisuse => NoClientMisuse'
  BY <1>6 DEF NoClientMisuse
<1>8. GSteps' = GSteps /\ GFreeParts' = GFreeParts
  BY <1>1 DEF GSteps, GFreeParts, VncSteps, RdpSteps, VncFree, RdpFree
<1>9. Len(GFreeParts) \in Nat
  BY DEF GFreeParts, VncFree, RdpFree
<1>10. GraphicalTypeOK'
  <2>1. gfree' \in 0 .. Len(GFreeParts) + 1 /\ gfree' # 0
    BY <1>3, <1>9
  <2> QED
    BY <1>1, <1>5, <1>8, <2>1 DEF GInv, GraphicalTypeOK
<1>11. gfree' # 0
  BY <1>3, <1>9
<1>12. GOwnerFirst' /\ GFreeingAlone'
  <2>1. gthing'["settings"] # "null"
    BY <1>2, <1>5
  <2> QED
    BY <1>1, <1>2, <1>11, <2>1 DEF GInv, GOwnerFirst, GFreeingAlone
<1>13. PendingUsersSafe' /\ GraphicalEndedIsStopped'
  BY <1>1, <1>6 DEF GInv, PendingUsersSafe, GraphicalEndedIsStopped
<1>14. CASE gx = "vnc"
  <2>1. /\ gpc \in {"idle", "prepare", "loop", "end"}
        /\ gpc = "loop" => gstep = 9
        /\ gpc \in {"prepare", "loop"} =>
             /\ gstep > 5 => gthing["connection"] # "null"
             /\ gstep > 7 => gthing["display"] # "null"
             /\ gstep > 8 => gthing["render"] # "null"
        /\ gfree <= 3 => (\A t \in GThings : gthing[t] # "freed") /\ NoClientMisuse
        /\ gfree = 3 => gpc = "end"
        /\ gthing["connection"] = "freed" => gpc = "end" /\ NoClientMisuse
    BY <1>14 DEF GInv, VncInv, NoneFreedOf
  <2>2. /\ gthing'["connection"] # "null" <=> gthing["connection"] # "null"
        /\ gthing'["display"] # "null" <=> gthing["display"] # "null"
        /\ gthing'["render"] # "null" <=> gthing["render"] # "null"
    BY <1>2, <1>5
  <2>3. /\ gfree' <= 3 => gfree <= 3 /\ gthing' = gthing
        /\ gfree' = 3 => gpc = "end"
        /\ gthing'["connection"] = "freed" => gpc = "end" /\ NoClientMisuse
    <3>1. CASE gfree = 1
      <4>1. what = "halt" /\ gthing' = gthing
        BY <1>3, <1>5, <1>14, <3>1 DEF Kept
      <4>2. gfree' = 2
        BY <1>1, <3>1, <4>1
      <4> QED
        BY <2>1, <3>1, <4>1, <4>2
    <3>2. CASE gfree = 2
      <4>1. what = "join" /\ of = "connection" /\ gthing' = gthing
        BY <1>3, <1>5, <1>14, <3>2 DEF Kept
      <4>2. CASE there
        BY <1>1, <2>1, <3>2, <4>1, <4>2
      <4>3. CASE ~there
        <5>1. gfree' = 4
          BY <1>1, <1>14, <3>2, <4>1, <4>3
        <5> QED
          BY <2>1, <4>1, <5>1
      <4> QED
        BY <4>2, <4>3
    <3>3. CASE gfree = 3
      <4>1. what # "join"
        BY <1>3, <1>14, <3>3 DEF Kept
      <4>2. gfree' = 4
        BY <1>1, <3>3, <4>1
      <4> QED
        BY <2>1, <3>3, <4>2
    <3>4. CASE gfree > 3
      <4>1. what = "free" /\ of # "connection"
        BY <1>3, <1>14, <3>4
      <4>2. gthing'["connection"] = gthing["connection"]
        BY <1>2, <1>5, <4>1
      <4>3. gfree' = gfree + 1
        BY <1>1, <4>1
      <4>4. gfree' > 3
        BY <1>3, <3>4, <4>3
      <4>5. ~(gfree' <= 3)
        BY <1>3, <4>3, <4>4
      <4> QED
        BY <2>1, <4>2, <4>5
    <3>5. gfree \in 1 .. 8
      BY <1>3, <1>14
    <3>6. gfree = 1 \/ gfree = 2 \/ gfree = 3 \/ gfree > 3
      BY <3>5
    <3> QED
      BY <3>1, <3>2, <3>3, <3>4, <3>6
  <2>4. gfree' <= 3 => NoneFreedOf(GThings)' /\ NoClientMisuse'
    <3>1. ASSUME gfree' <= 3  PROVE \A t \in GThings : gthing'[t] # "freed"
      BY <2>1, <2>3, <3>1
    <3>2. ASSUME gfree' <= 3  PROVE NoClientMisuse'
      BY <1>7, <2>1, <2>3, <3>2
    <3> QED
      BY <3>1, <3>2 DEF NoneFreedOf
  <2>5. VncInv'
    BY <1>1, <1>7, <1>11, <2>1, <2>2, <2>3, <2>4 DEF VncInv
  <2> QED
    BY <1>1, <1>10, <1>12, <1>14, <1>13, <2>5 DEF GInv, RdpInv
<1>15. CASE gx = "rdp"
  <2>1. RdpPlaces /\ NoClientMisuse /\ (gfree > 2 => gpc = "end") /\ (gpc # "end" => NoneFreedOf(Others))
    <3>1. RdpInv
      BY DEF GInv
    <3> QED
      BY <1>15, <3>1 DEF RdpInv, Others
  <2>2. /\ \A t \in {"display", "connection", "render", "keyboard"} : gthing'[t] = gthing[t]
        /\ gfree' = gfree + 1
    <3>1. of \notin {"display", "connection", "render", "keyboard"}
      BY <1>3, <1>15
    <3>2. \A t \in {"display", "connection", "render", "keyboard"} : t \in GThings /\ t # of
      BY <1>2, <3>1
    <3>3. gfree' = gfree + 1
      BY <1>1, <1>15
    <3> QED
      BY <1>5, <3>2, <3>3
  <2>3. RdpPlaces'
    BY <1>1, <2>1, <2>2 DEF RdpPlaces, RdpThingsAre
  <2>4. gfree # 1 => gpc = "end"
    <3>1. CASE gfree = 2
      <4>1. what = "join" /\ of = "settings"
        BY <1>3, <1>15, <3>1
      <4> QED
        BY <1>1, <1>2, <1>4, <4>1
    <3> QED
      BY <1>3, <1>15, <2>1, <3>1
  <2>5. gfree' > 2 => gpc = "end"
    BY <1>3, <2>2, <2>4
  <2>6. gpc # "end" => gthing' = gthing
    BY <1>3, <1>5, <1>15, <2>4 DEF Kept
  <2>7. gpc # "end" => NoneFreedOf(Others)'
    BY <2>1, <2>6 DEF NoneFreedOf
  <2>8. RdpInv'
    BY <1>1, <1>7, <2>1, <2>3, <2>5, <2>7, <1>15 DEF GInv, RdpInv, Others
  <2> QED
    BY <1>1, <1>10, <1>12, <1>15, <1>13, <2>8 DEF GInv, VncInv
<1> QED
  BY <1>2, <1>14, <1>15

\* Every step of a session of VNC or RDP keeps the invariant.
LEMMA GNextInv == GInv /\ [GraphicalNext]_gVars => GInv'
<1> SUFFICES ASSUME GInv, [GraphicalNext]_gVars  PROVE GInv'
  OBVIOUS
<1>1. CASE UNCHANGED gVars
  <2>1. UNCHANGED <<gx, setup, gState, gpc, gstep, gthing, glock, gjoined, pending, shown, gfree,
                    gmisuse, gquiet>>
    BY <1>1 DEF gVars
  <2>2. GSteps' = GSteps /\ GFreeParts' = GFreeParts
    BY <2>1 DEF GSteps, GFreeParts, VncSteps, RdpSteps, VncFree, RdpFree
  <2>3. GraphicalTypeOK'
    BY <2>1, <2>2 DEF GInv, GraphicalTypeOK
  <2> QED
    BY <2>1, <2>3 DEF GInv, GOwnerFirst, GFreeingAlone, VncInv, RdpInv, RdpPlaces, RdpThingsAre,
                      NoneFreedOf, NoClientMisuse, PendingUsersSafe, GraphicalEndedIsStopped
<1>2. CASE ClientThread
  BY <1>2, PrepareStepKeeps, PreparedKeeps, VncMessageKeeps, RdpMoveKeeps, RdpBeginKeeps,
     RdpRefusedKeeps, RdpConnectedKeeps, RdpEventsKeeps, RdpLeaveLoopKeeps, RdpTeardownKeeps
     DEF ClientThread
<1>3. CASE GraphicalNext /\ ~ClientThread
  BY <1>3, GJoinOwnerKeeps, ShowKeeps, PromotedKeeps, GJoinKeeps, GLeaveKeeps, GHandleKeeps,
     GStartFreeKeeps, GFreePartKeeps DEF GraphicalNext
<1> QED
  BY <1>1, <1>2, <1>3

\* What the runs check follows from the invariant.
LEMMA GSoundFromInv == GInv => GraphicalSound
<1> SUFFICES ASSUME GInv  PROVE GraphicalSound
  OBVIOUS
<1>1. ClientThreadSafe
  BY DEF GInv, VncInv, RdpInv, ClientThreadSafe, NoClientMisuse, GraphicalPlugins
<1>2. ConnectionsClean
  BY DEF GInv, VncInv, RdpInv, RdpPlaces, RdpThingsAre, ConnectionsClean, GraphicalPlugins,
         GraphicalTypeOK
<1> QED
  BY <1>1, <1>2 DEF GInv, GraphicalSound

\* However users come and go and whatever fails: the client thread of RDP, and
\* that of VNC if it was waited for, uses nothing that is absent or freed but a
\* print job of an earlier connection (rdp.c, vnc.c), users who join are not
\* shown what is being freed (guac_rdp_join_pending_handler()), a connection of
\* RDP is cleaned up before the next (guac_rdp_handle_connection()), and a thread
\* that ends has stopped the client.
THEOREM GraphicalAlwaysSound == GraphicalSpec => []GraphicalSound
<1>1. GraphicalInit => GInv
  BY GInitInv
<1>2. GInv /\ [GraphicalNext]_gVars => GInv'
  BY GNextInv
<1>3. GInv => GraphicalSound
  BY GSoundFromInv
<1> QED
  BY <1>1, <1>2, <1>3, PTL DEF GraphicalSpec

-----------------------------------------------------------------------------
(* The input of an RDP connection.                                         *)

\* A touch that is active has one slot: rdpei.c looks for it before it takes a
\* slot that is not used.
OneSlot ==
  \A i, j \in DOMAIN touches :
    touches[i].active /\ touches[j].active /\ touches[i].id = touches[j].id => i = j

EventsInv ==
  /\ EventsTypeOK
  /\ InputWakes
  /\ OneSlot
  /\ ServerFollows

LegalWidths == {w \in GUAC_RDP_DISP_MIN_SIZE .. GUAC_RDP_DISP_MAX_SIZE : w % 2 = 0}
LegalHeights == GUAC_RDP_DISP_MIN_SIZE .. GUAC_RDP_DISP_MAX_SIZE

\* What is requested, and what a user's thread has still to store, is legal in
\* each dimension or was never asked for: a mixture of two requests, of which
\* the client thread may see the width of one and the height of the other, is
\* legal as well.
DispInv ==
  /\ dwriter = NoSize \/ dwriter \in LegalWidths \X LegalHeights
  /\ requested \in (LegalWidths \cup {0}) \X (LegalHeights \cup {0})
  /\ current \in LegalWidths \X LegalHeights
  /\ wanted \in LegalWidths \X LegalHeights

-----------------------------------------------------------------------------
(* The queue, the mouse and the touches.                                   *)

\* A new RDP connection has no event, no touch and no channel
\* (guac_rdp_rdpei_alloc()).
LEMMA EventsInitInv == EventsInit => EventsInv
<1> SUFFICES ASSUME EventsInit  PROVE EventsInv
  OBVIOUS
<1>1. EventsTypeOK
  <2>1. rq \in Seq(InputEvents) /\ Len(rq) = 0
    BY DEF EventsInit
  <2>2. touches \in [1 .. MaxTouches -> [id : TouchIds \cup {0}, active : BOOLEAN]]
    BY DEF EventsInit
  <2>3. Len(rq) <= QueueSize /\ inputs \in 0 .. MaxInputs
    BY <2>1, InputAssumption DEF EventsInit
  <2>4. {rset, overlooked, bad, channel, leftOver} \subseteq BOOLEAN /\ thread \in Places
    BY DEF EventsInit, Places
  <2> QED
    BY <2>1, <2>2, <2>3, <2>4 DEF EventsInit, EventsTypeOK
<1>2. \A i \in DOMAIN touches : ~touches[i].active
  BY DEF EventsInit
<1>3. ServerFollows
  BY <1>2 DEF EventsInit, ServerFollows
<1> QED
  BY <1>1, <1>2, <1>3 DEF EventsInit, EventsInv, InputWakes, OneSlot

\* guac_rdp_input_event_enqueue() keeps the invariant: it sets the event.
LEMMA EnqueuePreserves ==
  ASSUME EventsInv, NEW e \in InputEvents, guac_rdp_input_event_enqueue(e)
  PROVE  EventsInv'
<1> USE DEF EventsInv, guac_rdp_input_event_enqueue, inputVars
<1>1. EventsTypeOK'
  <2>1. rq' \in Seq(InputEvents) /\ Len(rq') = Len(rq) + 1
    BY DEF EventsTypeOK
  <2>2. inputs' \in 0 .. MaxInputs
    BY InputAssumption DEF EventsTypeOK
  <2>3. Len(rq') <= QueueSize
    BY <2>1, InputAssumption DEF EventsTypeOK
  <2> QED
    BY <2>1, <2>2, <2>3 DEF EventsTypeOK
<1>2. InputWakes'
  BY DEF InputWakes
<1>3. OneSlot' /\ ServerFollows'
  BY DEF OneSlot, ServerFollows
<1> QED
  BY <1>1, <1>2, <1>3

\* The mask that was, less what was released, with what was pressed, is the mask.
LEMMA MousePreserves ==
  ASSUME EventsInv, NEW mask \in SUBSET {"left", "right"},
         guac_rdp_handle_mouse_event(mask), UNCHANGED leftOver
  PROVE  /\ rmask' \subseteq Buttons /\ buttons' \subseteq Buttons
         /\ UNCHANGED <<touches, contacts, bad>>
         /\ ServerFollows'
<1> USE DEF EventsInv, guac_rdp_handle_mouse_event
<1>1. rmask' = mask /\ mask \subseteq Buttons
  BY DEF Buttons
<1>2. buttons' = (buttons \ (rmask \ mask)) \cup ((mask \ rmask) \cap Buttons)
  OBVIOUS
<1>3. buttons' \subseteq Buttons
  BY <1>2 DEF EventsTypeOK
<1>4. UNCHANGED <<touches, contacts, bad>>
  OBVIOUS
<1>5. ~leftOver => buttons' = mask
  BY <1>1, <1>2 DEF ServerFollows
<1>6. ServerFollows'
  BY <1>1, <1>4, <1>5 DEF ServerFollows
<1> QED
  BY <1>1, <1>3, <1>4, <1>6

\* The first slot of some: the shortest of the ranges that end with one.
LEMMA FirstIsIn ==
  ASSUME NEW n \in Nat, NEW S \in SUBSET (1 .. n), S # {}
  PROVE  (CHOOSE i \in S : \A j \in S : i <= j) \in S
<1> DEFINE R == StrictSubsetOrdering(1 .. n)
           T == {1 .. i : i \in S}
<1>1. IsFiniteSet(1 .. n)
  BY FS_Interval
<1>2. IsWellFoundedOn(R, SUBSET (1 .. n))
  BY <1>1, FS_StrictSubsetOrderingWellFounded, FS_FiniteSubsetsOfFinite
<1>3. T \subseteq SUBSET (1 .. n) /\ T # {}
  <2>1. \A i \in S : 1 .. i \subseteq 1 .. n
    OBVIOUS
  <2> QED
    BY <2>1
<1> HIDE DEF R
<1>4. \E x \in T : \A y \in T : <<y, x>> \notin R
  BY <1>2, <1>3, WFMin
<1>5. PICK i \in S : \A y \in T : <<y, 1 .. i>> \notin R
  BY <1>4
<1>6. ASSUME NEW j \in S, j < i  PROVE FALSE
  <2>1. 1 .. j \subseteq 1 .. i /\ 1 .. j # 1 .. i /\ 1 .. i \subseteq 1 .. n
    BY <1>6
  <2>2. <<1 .. j, 1 .. i>> \in R
    BY <2>1 DEF R, StrictSubsetOrdering
  <2> QED
    BY <1>5, <2>2
<1>7. \A j \in S : i <= j
  BY <1>6
<1> QED
  BY <1>7

\* SlotOf() finds the slot of a touch that is known, otherwise one that is not
\* used, if there is any.
LEMMA SlotFacts ==
  ASSUME EventsTypeOK, NEW id, SlotOf(id) # 0
  PROVE  /\ SlotOf(id) \in 1 .. MaxTouches
         /\ touches[SlotOf(id)].active => touches[SlotOf(id)].id = id
         /\ ~touches[SlotOf(id)].active =>
              \A i \in 1 .. MaxTouches : touches[i].active => touches[i].id # id
<1> DEFINE known == {i \in DOMAIN touches : touches[i].active /\ touches[i].id = id}
           unused == {i \in DOMAIN touches : ~touches[i].active}
           First(set) == CHOOSE i \in set : \A j \in set : i <= j
<1>1. DOMAIN touches = 1 .. MaxTouches /\ MaxTouches \in Nat
  BY InputAssumption DEF EventsTypeOK
<1>2. SlotOf(id) = IF known # {} THEN First(known)
                   ELSE IF unused # {} THEN First(unused) ELSE 0
  BY DEF SlotOf
<1>3. known \in SUBSET (1 .. MaxTouches) /\ unused \in SUBSET (1 .. MaxTouches)
  BY <1>1
<1>4. known # {} => First(known) \in known
  BY <1>1, <1>3, FirstIsIn
<1>5. unused # {} => First(unused) \in unused
  BY <1>1, <1>3, FirstIsIn
<1> HIDE DEF First
<1>6. CASE known # {}
  BY <1>1, <1>2, <1>4, <1>6
<1>7. CASE known = {}
  <2>1. SlotOf(id) \in unused
    BY <1>2, <1>5, <1>7
  <2> QED
    BY <1>1, <1>7, <2>1
<1> QED
  BY <1>6, <1>7

\* guac_rdp_rdpei_touch_update() keeps one slot for each touch, and tells the
\* server of contacts in a legal order.
LEMMA TouchPreserves ==
  ASSUME EventsInv, NEW id \in TouchIds, NEW pressed \in BOOLEAN,
         guac_rdp_rdpei_touch_update(id, pressed),
         UNCHANGED <<rmask, buttons, leftOver>>
  PROVE  /\ touches' \in [1 .. MaxTouches -> [id : TouchIds \cup {0}, active : BOOLEAN]]
         /\ contacts' \subseteq TouchIds /\ bad' \in BOOLEAN
         /\ OneSlot' /\ ServerFollows'
<1> USE DEF EventsInv
<1>1. CASE UNCHANGED <<touches, contacts, bad>>
  BY <1>1 DEF EventsTypeOK, OneSlot, ServerFollows
<1>2. CASE channel /\ SlotOf(id) # 0
  <2> DEFINE slot == SlotOf(id)
             was == touches[slot].active
  <2>1. /\ slot \in 1 .. MaxTouches
        /\ was => touches[slot].id = id
        /\ ~was => \A i \in 1 .. MaxTouches : touches[i].active => touches[i].id # id
    BY <1>2, SlotFacts
  <2>2. /\ touches' = [touches EXCEPT ![slot] = [id |-> id, active |-> pressed]]
        /\ contacts' = IF pressed THEN contacts \cup {id} ELSE contacts \ {id}
        /\ bad' = (bad \/ (was /\ id \notin contacts)
                       \/ (pressed /\ ~was /\ id \in contacts))
    BY <1>2 DEF guac_rdp_rdpei_touch_update
  <2> HIDE DEF slot
  <2>3. touches \in [1 .. MaxTouches -> [id : TouchIds \cup {0}, active : BOOLEAN]]
    BY DEF EventsTypeOK
  <2>4. touches' \in [1 .. MaxTouches -> [id : TouchIds \cup {0}, active : BOOLEAN]]
    BY <2>1, <2>2, <2>3
  <2>5. contacts' \subseteq TouchIds /\ bad' \in BOOLEAN
    BY <2>2 DEF EventsTypeOK
  <2>6. /\ touches'[slot].id = id /\ touches'[slot].active = pressed
        /\ \A i \in (1 .. MaxTouches) \ {slot} : touches'[i] = touches[i]
    BY <2>1, <2>2, <2>3
  <2>7. \A i \in (1 .. MaxTouches) \ {slot} : touches[i].active => touches[i].id # id
    BY <2>1, <2>3 DEF OneSlot
  <2>8. OneSlot'
    <3> SUFFICES ASSUME NEW i \in 1 .. MaxTouches, NEW j \in 1 .. MaxTouches,
                        touches'[i].active, touches'[j].active,
                        touches'[i].id = touches'[j].id
                 PROVE  i = j
      BY <2>4 DEF OneSlot
    <3> QED
      BY <2>3, <2>6, <2>7 DEF OneSlot
  <2>9. ServerFollows'
    <3> SUFFICES ASSUME ~leftOver
                 PROVE  /\ ~bad' /\ buttons' = rmask' \cap Buttons
                        /\ contacts' = {touches'[i].id :
                             i \in {j \in DOMAIN touches' : touches'[j].active}}
      BY DEF ServerFollows
    <3>1. contacts = {touches[i].id : i \in {j \in 1 .. MaxTouches : touches[j].active}}
      BY <2>3 DEF ServerFollows
    <3>2. ~bad'
      BY <2>1, <2>2, <3>1 DEF ServerFollows
    <3>3. \A v : v \in contacts' <=>
                   \E i \in 1 .. MaxTouches : touches'[i].active /\ touches'[i].id = v
      <4>1. \A v : v \in contacts <=>
                     \E i \in 1 .. MaxTouches : touches[i].active /\ touches[i].id = v
        BY <3>1
      <4>2. ASSUME NEW v, v # id
            PROVE  v \in contacts' <=>
                     \E i \in 1 .. MaxTouches : touches'[i].active /\ touches'[i].id = v
        <5>1. v \in contacts' <=> v \in contacts
          BY <2>2, <4>2
        <5>2. ~(touches[slot].active /\ touches[slot].id = v)
          BY <2>1, <4>2
        <5> QED
          BY <2>6, <4>1, <4>2, <5>1, <5>2
      <4>3. id \in contacts' <=>
              \E i \in 1 .. MaxTouches : touches'[i].active /\ touches'[i].id = id
        <5>1. id \in contacts' <=> pressed
          BY <2>2
        <5> QED
          BY <2>1, <2>6, <2>7, <5>1
      <4> QED
        BY <4>2, <4>3
    <3>4. contacts' = {touches'[i].id : i \in {j \in DOMAIN touches' : touches'[j].active}}
      BY <2>4, <3>3
    <3> QED
      BY <3>2, <3>4 DEF ServerFollows
  <2> QED
    BY <2>4, <2>5, <2>8, <2>9
<1> QED
  BY <1>1, <1>2 DEF guac_rdp_rdpei_touch_update

\* Handling one event of the queue keeps the invariant
\* (guac_rdp_handle_input_events()).
LEMMA DrainOnePreserves ==
  ASSUME EventsInv, DrainOne
  PROVE  EventsInv'
<1> DEFINE e == Head(rq)
<1>1. e \in InputEvents /\ Tail(rq) \in Seq(InputEvents) /\ Len(Tail(rq)) <= QueueSize
  BY InputAssumption DEF EventsInv, EventsTypeOK, DrainOne
<1>2. /\ rq' = Tail(rq) /\ rq # <<>>
      /\ UNCHANGED <<rset, thread, overlooked, inputs, channel, leftOver>>
      /\ thread = "drain"
      /\ \/ e.type = "mouse" /\ guac_rdp_handle_mouse_event(e.mask)
         \/ /\ e.type = "touch"
            /\ guac_rdp_rdpei_touch_update(e.id, e.pressed)
            /\ UNCHANGED <<rmask, buttons>>
  BY DEF DrainOne
<1> HIDE DEF e
<1>3. InputWakes'
  BY <1>2 DEF EventsInv, InputWakes
<1>4. CASE e.type = "mouse"
  <2>1. e.mask \in SUBSET {"left", "right"} /\ guac_rdp_handle_mouse_event(e.mask)
    BY <1>1, <1>2, <1>4 DEF InputEvents
  <2>2. /\ rmask' \subseteq Buttons /\ buttons' \subseteq Buttons
        /\ UNCHANGED <<touches, contacts, bad>> /\ ServerFollows'
    BY <1>2, <2>1, MousePreserves
  <2>3. EventsTypeOK'
    BY <1>1, <1>2, <2>2 DEF EventsInv, EventsTypeOK
  <2>4. OneSlot'
    BY <2>2 DEF EventsInv, OneSlot
  <2> QED
    BY <1>3, <2>2, <2>3, <2>4 DEF EventsInv
<1>5. CASE e.type = "touch"
  <2>1. /\ e.id \in TouchIds /\ e.pressed \in BOOLEAN
        /\ guac_rdp_rdpei_touch_update(e.id, e.pressed)
        /\ UNCHANGED <<rmask, buttons>>
    BY <1>1, <1>2, <1>5 DEF InputEvents
  <2>2. /\ touches' \in [1 .. MaxTouches -> [id : TouchIds \cup {0}, active : BOOLEAN]]
        /\ contacts' \subseteq TouchIds /\ bad' \in BOOLEAN
        /\ OneSlot' /\ ServerFollows'
    BY <1>2, <2>1, TouchPreserves
  <2>3. EventsTypeOK'
    BY <1>1, <1>2, <2>1, <2>2 DEF EventsInv, EventsTypeOK
  <2> QED
    BY <1>3, <2>2, <2>3 DEF EventsInv
<1> QED
  BY <1>2, <1>4, <1>5

\* The steps of the loop keep the invariant: the event is reset without the lock
\* of the queue only before the queue is emptied (rdp_guac_client_wait_for_events(),
\* guac_rdp_handle_input_events()).
LEMMA LoopPreserves ==
  ASSUME EventsInv, WaitReturns \/ ResetEvent \/ Closing \/ DrainEnd
  PROVE  EventsInv'
<1> USE DEF EventsInv
<1>1. UNCHANGED <<rq, inputs, rmask, buttons, touches, contacts, bad, channel, leftOver>>
  BY DEF WaitReturns, ResetEvent, Closing, DrainEnd, inputVars
<1>2. /\ rset' \in BOOLEAN /\ overlooked' \in BOOLEAN /\ thread' \in Places
      /\ thread' \in {"wait", "failed"} /\ rq /= <<>> => overlooked'
  BY DEF WaitReturns, ResetEvent, Closing, DrainEnd, EventsTypeOK, Places
<1>3. EventsTypeOK'
  BY <1>1, <1>2 DEF EventsTypeOK
<1>4. InputWakes' /\ OneSlot' /\ ServerFollows'
  BY <1>1, <1>2 DEF InputWakes, OneSlot, ServerFollows
<1> QED
  BY <1>3, <1>4

\* Unless something was held, the server's view of a new connection is right.
LEMMA ConnectPreserves ==
  ASSUME EventsInv, guac_rdp_rdpei_channel_connected \/ ConnectAgain
  PROVE  EventsInv'
<1> USE DEF EventsInv
<1>1. CASE guac_rdp_rdpei_channel_connected
  BY <1>1 DEF guac_rdp_rdpei_channel_connected, EventsTypeOK, InputWakes, OneSlot,
              ServerFollows
<1>2. CASE ConnectAgain
  <2> USE <1>2 DEF ConnectAgain
  <2>1. EventsTypeOK'
    BY DEF EventsTypeOK, Places
  <2>2. InputWakes' /\ OneSlot'
    BY DEF InputWakes, OneSlot
  <2>3. ASSUME ~leftOver'
        PROVE  ~leftOver /\ rmask = {} /\ contacts = {}
    BY <2>3
  <2>4. ServerFollows'
    BY <2>3 DEF ServerFollows
  <2> QED
    BY <2>1, <2>2, <2>4
<1> QED
  BY <1>1, <1>2

\* Every step of the input of an RDP connection keeps the invariant.
LEMMA EventsNextInv == EventsInv /\ [EventsNext]_eventVars => EventsInv'
<1> SUFFICES ASSUME EventsInv, [EventsNext]_eventVars  PROVE EventsInv'
  OBVIOUS
<1>1. CASE EventsNext
  BY <1>1, EnqueuePreserves, DrainOnePreserves, LoopPreserves, ConnectPreserves
     DEF EventsNext
<1>2. CASE UNCHANGED eventVars
  BY <1>2 DEF eventVars, inputVars, EventsInv, EventsTypeOK, InputWakes, OneSlot, ServerFollows
<1> QED
  BY <1>1, <1>2

-----------------------------------------------------------------------------
(* Sizes.                                                                  *)

\* A quotient is no greater than what the dividend is at most a multiple of.
LEMMA QuotientBelow ==
  ASSUME NEW a \in Int, NEW b \in Nat \ {0}, NEW m \in Nat, a <= m * b
  PROVE  a \div b \in Int /\ a \div b <= m
<1> DEFINE q == a \div b
           r == a % b
<1>1. q \in Int /\ r \in 0 .. b - 1 /\ a = b * q + r
  OBVIOUS
<1> HIDE DEF q, r
<1>2. q <= m
  <2> SUFFICES ASSUME q >= m + 1  PROVE FALSE
    BY <1>1
  <2>1. b * q >= b * (m + 1)
    BY <1>1
  <2> QED
    BY <1>1, <2>1
<1> QED
  BY <1>1, <1>2 DEF q

\* What products are computed in is not empty (guac_rect_shrink()).
LEMMA PartsAre == LowPart \in Nat \ {0} /\ HighPart \in Nat \ {0} /\ SignPart \in Nat
BY DEF LowPart, HighPart, SignPart

\* A remainder is no greater than what is divided (guac_rect_shrink()).
LEMMA DivisionIs ==
  ASSUME NEW a \in Nat, NEW k \in Nat \ {0}
  PROVE  /\ a \div k \in Nat /\ a % k \in Nat /\ a = k * (a \div k) + (a % k)
         /\ a % k <= a
<1> DEFINE q == a \div k
           r == a % k
<1>1. q \in Int /\ r \in 0 .. k - 1 /\ a = k * q + r
  OBVIOUS
<1> HIDE DEF q, r
<1>2. q >= 0
  <2> SUFFICES ASSUME q <= -1  PROVE FALSE
    BY <1>1
  <2>1. k * q <= k * (-1)
    BY <1>1
  <2> QED
    BY <1>1, <2>1
<1>3. k * q >= 0
  BY <1>1, <1>2
<1> QED
  BY <1>1, <1>2, <1>3 DEF q, r

\* Nothing overflows if nothing is multiplied (guac_rect_shrink()).
LEMMA Times32Zero ==
  ASSUME NEW b \in Nat
  PROVE  Times32(0, b) = 0
<1>1. b % LowPart \in Nat /\ b \div LowPart \in Nat
  BY PartsAre, DivisionIs
<1>2. 0 * (b % LowPart) = 0 /\ 0 * (b \div LowPart) = 0
  BY <1>1
<1>3. 0 \div LowPart = 0 /\ 0 % LowPart = 0 /\ 0 % HighPart = 0 /\ 0 * LowPart = 0
  BY PartsAre
<1>4. 0 < SignPart
  BY DEF SignPart
<1> QED
  BY <1>2, <1>3, <1>4 DEF Times32

\* The bits that a product loses when it overflows only make it smaller, or
\* negative (guac_rect_shrink()).
LEMMA Times32Below ==
  ASSUME NEW a \in Nat, NEW b \in Nat
  PROVE  Times32(a, b) \in Int /\ Times32(a, b) <= a * b
<1> DEFINE K == LowPart
           lo == b % K
           hi == b \div K
           low == a * lo
           carry == low \div K
           raw == a * hi + carry
           high == raw % HighPart
           signed == IF high < SignPart THEN high ELSE high - HighPart
<1>0. K \in Nat \ {0} /\ HighPart \in Nat \ {0} /\ SignPart \in Nat
  BY PartsAre
<1>1. lo \in Nat /\ hi \in Nat /\ b = K * hi + lo
  BY <1>0, DivisionIs
<1>7. Times32(a, b) = signed * K + (low % K)
  BY DEF Times32
<1> HIDE DEF K, lo, hi
<1>2. low \in Nat
  BY <1>1
<1> HIDE DEF low
<1>3. carry \in Nat /\ low % K \in Nat /\ low = K * carry + (low % K)
  BY <1>0, <1>2, DivisionIs
<1> DEFINE rest == low % K
<1> HIDE DEF carry, rest
<1>4. raw \in Nat
  BY <1>1, <1>3
<1>8. a * b = K * raw + rest
  <2>1. a * b = a * (K * hi) + a * lo
    BY <1>0, <1>1
  <2>2. a * (K * hi) = K * (a * hi)
    BY <1>0, <1>1
  <2>3. a * hi \in Nat /\ K * raw = K * (a * hi) + K * carry
    BY <1>0, <1>1, <1>3
  <2>4. a * lo = K * carry + rest /\ a * lo \in Nat /\ rest \in Nat
    BY <1>2, <1>3 DEF low, rest
  <2>5. a * b \in Int /\ a * (K * hi) \in Int /\ K * raw \in Int /\ K * carry \in Int
    BY <1>0, <1>1, <1>3, <1>4
  <2> DEFINE AB == a * b
             AKhi == a * (K * hi)
             Kahi == K * (a * hi)
             Kraw == K * raw
             Kcarry == K * carry
             Alo == a * lo
  <2>6. AB = AKhi + Alo /\ AKhi = Kahi /\ Kraw = Kahi + Kcarry /\ Alo = Kcarry + rest
    BY <2>1, <2>2, <2>3, <2>4
  <2>7. AKhi \in Int /\ Kcarry \in Int /\ rest \in Int
    BY <2>4, <2>5
  <2> HIDE DEF AB, AKhi, Kahi, Kraw, Kcarry, Alo
  <2>8. AB = Kraw + rest
    BY <2>6, <2>7
  <2> QED
    BY <2>8 DEF AB, Kraw
<1> HIDE DEF raw
<1>5. high \in Nat /\ high <= raw
  BY <1>0, <1>4, DivisionIs
<1> HIDE DEF high
<1>6. signed \in Int /\ signed <= raw
  BY <1>0, <1>4, <1>5
<1> HIDE DEF signed
<1>9. K * signed <= K * raw /\ signed * K = K * signed /\ K * signed \in Int
  BY <1>0, <1>4, <1>6
<1>10. rest \in Nat /\ K * raw \in Nat
  BY <1>0, <1>3, <1>4 DEF rest
<1> QED
  BY <1>7, <1>8, <1>9, <1>10 DEF rest

\* A rectangle that has a height and is shrunk fits within the limits and does
\* not grow, whatever overflows.
LEMMA ShrinkFits ==
  ASSUME NEW width \in Nat, NEW height \in Nat \ {0}, NEW max \in Nat,
         NEW r, r = [left |-> 0, top |-> 0, right |-> width, bottom |-> height],
         NEW s, s = guac_rect_shrink(r, max, max)
  PROVE  /\ guac_rect_width(s) \in 0 .. Lesser(width, max)
         /\ guac_rect_height(s) \in 0 .. Lesser(height, max)
<1> DEFINE w == Lesser(width, max)
           h == Lesser(height, max)
           WH == Times32(w, height)
           HW == Times32(h, width)
           num == IF WH < HW THEN w ELSE h
           den == IF WH < HW THEN width ELSE height
           NW == Times32(num, width)
           NH == Times32(num, height)
<1>1. guac_rect_width(r) = width /\ guac_rect_height(r) = height
  BY DEF guac_rect_width, guac_rect_height
<1>2. /\ w \in Nat /\ w <= width /\ w <= max
      /\ h \in Nat /\ h <= height /\ h <= max
  BY DEF Lesser
<1>6. s = [left |-> 0, top |-> 0, right |-> 0 + (NW \div den), bottom |-> 0 + (NH \div den)]
  <2> DEFINE scale == IF WH < HW THEN <<w, width>> ELSE <<h, height>>
  <2>1. scale[1] = num /\ scale[2] = den
    OBVIOUS
  <2>2. s = [r EXCEPT !.right = r.left + (Times32(scale[1], width) \div scale[2]),
                      !.bottom = r.top + (Times32(scale[1], height) \div scale[2])]
    BY <1>1 DEF guac_rect_shrink
  <2> HIDE DEF scale, num, den
  <2> QED
    BY <2>1, <2>2
<1> HIDE DEF w, h
<1>3. /\ WH \in Int /\ WH <= w * height /\ HW \in Int /\ HW <= h * width
  BY <1>2, Times32Below
<1> HIDE DEF WH, HW
<1>4. /\ num \in Nat /\ den \in Nat \ {0}
      /\ NW \in Int /\ NW <= w * den
      /\ NH \in Int /\ NH <= h * den
  <2>1. CASE WH < HW
    <3>1. num = w /\ den = width
      BY <2>1
    <3>2. width # 0
      <4> SUFFICES ASSUME width = 0  PROVE FALSE
        OBVIOUS
      <4>1. w = 0
        BY <1>2
      <4>2. Times32(0, height) = 0
        BY Times32Zero
      <4>3. HW <= 0
        BY <1>2, <1>3
      <4> QED
        BY <1>3, <2>1, <4>1, <4>2, <4>3 DEF WH
    <3>3. NH = WH
      BY <3>1 DEF WH
    <3>4. NW \in Int /\ NW <= w * width
      BY <1>2, <3>1, Times32Below
    <3> QED
      BY <1>2, <1>3, <2>1, <3>1, <3>2, <3>3, <3>4
  <2>2. CASE ~(WH < HW)
    <3>1. num = h /\ den = height
      BY <2>2
    <3>2. NW = HW
      BY <3>1 DEF HW
    <3>3. NH \in Int /\ NH <= h * height
      BY <1>2, <3>1, Times32Below
    <3> QED
      BY <1>2, <1>3, <2>2, <3>1, <3>2, <3>3
  <2> QED
    BY <2>1, <2>2
<1> HIDE DEF num, den, NW, NH
<1>5. /\ NW \div den \in Int /\ NW \div den <= w
      /\ NH \div den \in Int /\ NH \div den <= h
  BY <1>2, <1>4, QuotientBelow
<1>7. /\ guac_rect_width(s) = NW \div den \/ guac_rect_width(s) = 0
      /\ guac_rect_width(s) >= 0 /\ guac_rect_width(s) \in Int
      /\ guac_rect_height(s) = NH \div den \/ guac_rect_height(s) = 0
      /\ guac_rect_height(s) >= 0 /\ guac_rect_height(s) \in Int
  BY <1>2, <1>5, <1>6 DEF guac_rect_width, guac_rect_height
<1> QED
  BY <1>2, <1>5, <1>7 DEF w, h

\* The least and the greatest size of a display (channels/disp.h): the least is
\* even.
LEMMA SizeLimits ==
  /\ GUAC_RDP_DISP_MIN_SIZE \in Nat /\ GUAC_RDP_DISP_MAX_SIZE \in Nat
  /\ GUAC_RDP_DISP_MIN_SIZE # 0 /\ GUAC_RDP_DISP_MIN_SIZE <= GUAC_RDP_DISP_MAX_SIZE
  /\ GUAC_RDP_DISP_MIN_SIZE % 2 = 0
BY DEF GUAC_RDP_DISP_MIN_SIZE, GUAC_RDP_DISP_MAX_SIZE

\* A size no greater than the greatest, made at least the least, is legal
\* (guac_rect_shrink(), guac_rdp_disp_set_size()).
LEMMA LeastIsLegal ==
  ASSUME NEW x \in 0 .. GUAC_RDP_DISP_MAX_SIZE
  PROVE  (IF x < GUAC_RDP_DISP_MIN_SIZE THEN GUAC_RDP_DISP_MIN_SIZE ELSE x) \in LegalHeights
BY SizeLimits DEF LegalHeights

\* A legal size less its odd pixel is legal still, since the least size is even
\* (guac_rdp_disp_set_size()).
LEMMA EvenIsLegal ==
  ASSUME NEW a \in LegalHeights
  PROVE  a - (a % 2) \in LegalWidths
<1> DEFINE b == a % 2
<1>1. a \in Nat /\ GUAC_RDP_DISP_MIN_SIZE <= a /\ a <= GUAC_RDP_DISP_MAX_SIZE
  BY SizeLimits DEF LegalHeights
<1>2. b \in 0 .. 1 /\ (a - b) % 2 = 0 /\ a - b \in Nat
  BY <1>1
<1>3. a = GUAC_RDP_DISP_MIN_SIZE => b = 0
  BY SizeLimits
<1> HIDE DEF b
<1>4. GUAC_RDP_DISP_MIN_SIZE <= a - b /\ a - b <= GUAC_RDP_DISP_MAX_SIZE
  BY <1>1, <1>2, <1>3, SizeLimits
<1>5. a - b \in LegalWidths
  BY <1>2, <1>4, SizeLimits DEF LegalWidths
<1> QED
  BY <1>5 DEF b

\* Whatever size with a height a user asks for, what guac_rdp_disp_set_size() makes
\* of it is legal in each dimension.
LEMMA AdjustedLegal ==
  ASSUME NEW size \in Int \X (Nat \ {0})
  PROVE  Adjusted(size) \in LegalWidths \X LegalHeights
<1> DEFINE width == IF size[1] > 0 THEN size[1] ELSE 0
           r == guac_rect_init(0, 0, size[1], size[2])
           s == guac_rect_shrink(r, GUAC_RDP_DISP_MAX_SIZE, GUAC_RDP_DISP_MAX_SIZE)
           AtLeast(x) == IF x < GUAC_RDP_DISP_MIN_SIZE THEN GUAC_RDP_DISP_MIN_SIZE
                         ELSE x
           w == guac_rect_width(s)
           h == guac_rect_height(s)
<1>1. width \in Nat /\ size[2] \in Nat \ {0}
  OBVIOUS
<1>2. r = [left |-> 0, top |-> 0, right |-> width, bottom |-> size[2]]
  BY <1>1 DEF guac_rect_init
<1>3. GUAC_RDP_DISP_MAX_SIZE \in Nat
  BY DEF GUAC_RDP_DISP_MAX_SIZE
<1> HIDE DEF r
<1>4. w \in 0 .. Lesser(width, GUAC_RDP_DISP_MAX_SIZE)
      /\ h \in 0 .. Lesser(size[2], GUAC_RDP_DISP_MAX_SIZE)
  BY <1>1, <1>2, <1>3, ShrinkFits
<1>5. w \in 0 .. GUAC_RDP_DISP_MAX_SIZE /\ h \in 0 .. GUAC_RDP_DISP_MAX_SIZE
  BY <1>1, <1>3, <1>4 DEF Lesser
<1>6. Adjusted(size) = <<AtLeast(w) - (AtLeast(w) % 2), AtLeast(h)>>
  BY DEF Adjusted, r
<1> HIDE DEF w, h
<1> DEFINE a == AtLeast(w)
           b == AtLeast(h)
<1>7. a \in LegalHeights /\ b \in LegalHeights
  BY <1>5, LeastIsLegal
<1> HIDE DEF a, b
<1>8. a - (a % 2) \in LegalWidths
  BY <1>7, EvenIsLegal
<1> QED
  BY <1>6, <1>7, <1>8 DEF a, b

\* Nothing is asked of the server but a size that is legal in both dimensions.
LEMMA UpdatePreserves ==
  ASSUME DispInv, NEW size \in (LegalWidths \cup {0}) \X (LegalHeights \cup {0}),
         guac_rdp_disp_update_size(size)
  PROVE  /\ requested' \in (LegalWidths \cup {0}) \X (LegalHeights \cup {0})
         /\ current' \in LegalWidths \X LegalHeights
         /\ wanted' \in LegalWidths \X LegalHeights
<1>1. requested' = size
  BY DEF guac_rdp_disp_update_size
<1>2. CASE size[1] = 0 \/ size[2] = 0
  BY <1>1, <1>2 DEF DispInv, guac_rdp_disp_update_size
<1>3. CASE ~(size[1] = 0 \/ size[2] = 0)
  <2>1. size \in LegalWidths \X LegalHeights
    BY <1>3
  <2>2. current' \in {size, current} /\ wanted' \in {size, wanted}
    BY DEF guac_rdp_disp_update_size
  <2> QED
    BY <1>1, <2>1, <2>2 DEF DispInv
<1> QED
  BY <1>2, <1>3

\* A new RDP connection has asked for no size (guac_rdp_disp_alloc()).
LEMMA DispInitInv == DispInit => DispInv
<1> SUFFICES ASSUME DispInit  PROVE DispInv
  OBVIOUS
<1>1. 1024 \in LegalWidths /\ 768 \in LegalHeights
  BY DEF LegalWidths, LegalHeights, GUAC_RDP_DISP_MIN_SIZE, GUAC_RDP_DISP_MAX_SIZE
<1> QED
  BY <1>1 DEF DispInit, DispInv, NoSize

\* Every step of the sizes of an RDP connection keeps the invariant.
LEMMA DispNextInv == DispInv /\ [DispNext]_dispVars => DispInv'
<1> SUFFICES ASSUME DispInv, [DispNext]_dispVars  PROVE DispInv'
  OBVIOUS
<1>1. CASE \E size \in Sizes : SetWidth(size)
  <2>1. PICK size \in Sizes : SetWidth(size)
    BY <1>1
  <2>2. Adjusted(size) \in LegalWidths \X LegalHeights
    <3>1. size \in Int \X (Nat \ {0})
      BY <2>1, SizesAssumption DEF SetWidth
    <3> QED
      BY <3>1, AdjustedLegal
  <2>3. /\ dwriter' = Adjusted(size)
        /\ requested' = <<Adjusted(size)[1], requested[2]>>
        /\ UNCHANGED <<current, wanted>>
    BY <2>1 DEF SetWidth
  <2> QED
    BY <2>2, <2>3 DEF DispInv
<1>2. CASE SetHeight
  <2>1. dwriter \in LegalWidths \X LegalHeights
    BY <1>2 DEF SetHeight, DispInv
  <2>2. <<requested[1], dwriter[2]>> \in (LegalWidths \cup {0}) \X (LegalHeights \cup {0})
    BY <2>1 DEF DispInv
  <2>3. guac_rdp_disp_update_size(<<requested[1], dwriter[2]>>) /\ dwriter' = NoSize
    BY <1>2 DEF SetHeight
  <2> QED
    BY <2>2, <2>3, UpdatePreserves DEF DispInv
<1>3. CASE LoopUpdateSize
  <2>1. guac_rdp_disp_update_size(requested) /\ dwriter' = dwriter
    BY <1>3 DEF LoopUpdateSize
  <2>2. requested \in (LegalWidths \cup {0}) \X (LegalHeights \cup {0})
    BY DEF DispInv
  <2> QED
    BY <2>1, <2>2, UpdatePreserves DEF DispInv
<1>4. CASE guac_rdp_disp_channel_connected
  <2>1. guac_rdp_disp_update_size(Adjusted(current)) /\ dwriter' = dwriter
    BY <1>4 DEF guac_rdp_disp_channel_connected
  <2>2. current \in Int \X (Nat \ {0})
    <3>1. \A w \in LegalWidths : w \in Int
      BY SizeLimits DEF LegalWidths
    <3>2. \A h \in LegalHeights : h \in Nat /\ h # 0
      BY SizeLimits DEF LegalHeights
    <3> QED
      BY <3>1, <3>2 DEF DispInv
  <2>3. Adjusted(current) \in (LegalWidths \cup {0}) \X (LegalHeights \cup {0})
    BY <2>2, AdjustedLegal
  <2> QED
    BY <2>1, <2>3, UpdatePreserves DEF DispInv
<1>5. CASE guac_rdp_disp_reconnect_complete
  BY <1>5 DEF guac_rdp_disp_reconnect_complete, DispInv
<1>6. CASE TimePasses
  BY <1>6 DEF TimePasses, DispInv
<1>7. CASE \E size \in Sizes : NoHeight(size)
  BY <1>7 DEF NoHeight, DispInv
<1>8. CASE BusyChanges
  BY <1>8 DEF BusyChanges, DispInv
<1>9. CASE UNCHANGED dispVars
  BY <1>9 DEF dispVars, DispInv
<1> QED
  BY <1>1, <1>2, <1>3, <1>4, <1>5, <1>6, <1>7, <1>8, <1>9 DEF DispNext

-----------------------------------------------------------------------------

\* For any number of touches, events and requests, any room in the queue and any
\* ints as sizes: the client thread does not wait while events are queued and
\* their handle is reset, unless a wait failed (input-queue.c, rdp.c), the server
\* sees the buttons and touches as they are (input.c, rdpei.c), and is asked for
\* no size it would refuse, though products overflow (disp.c).
THEOREM EventsAlwaysSound == EventsSpec /\ DispSpec => []EventsSound
<1>1. EventsInit => EventsInv
  BY EventsInitInv
<1>2. EventsInv /\ [EventsNext]_eventVars => EventsInv'
  BY EventsNextInv
<1>3. DispInit => DispInv
  BY DispInitInv
<1>4. DispInv /\ [DispNext]_dispVars => DispInv'
  BY DispNextInv
<1>5. EventsInv /\ DispInv => EventsSound
  <2>1. DispInv => SizeLegal
    BY DEF DispInv, SizeLegal, LegalWidths, LegalHeights
  <2> QED
    BY <2>1 DEF EventsInv, EventsSound
<1> QED
  BY <1>1, <1>2, <1>3, <1>4, <1>5, PTL DEF EventsSpec, DispSpec

=============================================================================
