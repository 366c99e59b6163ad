------------------------- MODULE LanSessionsProofs -------------------------
(***************************************************************************)
(* Proofs about LanSessions, for any set of connections.                   *)
(*                                                                         *)
(*   SessionsAreUnique     the registry knows every session that runs      *)
(*   UntrustedSessionsEnd  unless devices are paired anew, no session      *)
(*                         outlives the pairing                            *)
(***************************************************************************)
EXTENDS LanSessions, TLAPS

Inv == WellFormed /\ OneSession

(* The other device is a device, and not this one. *)
LEMMA PeerOther ==
    ASSUME NEW d \in Device
    PROVE  Peer(d) \in Device /\ Peer(d) # d
BY DEF Device, Peer

(* A queue with a message added or its first one read is a queue. *)
LEMMA QueueFacts ==
    ASSUME NEW queue \in Seq(Messages), NEW m \in Messages
    PROVE  /\ Append(queue, m) \in Seq(Messages)
           /\ queue # <<>> => Tail(queue) \in Seq(Messages)
OBVIOUS

(* What a step of one end to another phase changes. *)
LEMMA MoveFacts ==
    ASSUME TypeOK, NEW d \in Device, NEW s \in Slots, NEW to \in Ends, Move(d, s, to)
    PROVE  /\ end' \in [Device -> [Slots -> Ends]]
           /\ \A e \in Device, t \in Slots :
                 end'[e][t] = IF e = d /\ t = s THEN to ELSE end[e][t]
BY DEF TypeOK, Move

(* What is sent makes a queue. *)
LEMMA SentType ==
    ASSUME TypeOK, NEW d \in Device, NEW s \in Slots, NEW m \in Messages
    PROVE  Sent(d, s, m) \in Seq(Messages)
<1>1. wire[Peer(d)][s] \in Seq(Messages)  BY PeerOther DEF TypeOK
<1> QED  BY <1>1, QueueFacts DEF Sent

(* Sending keeps the queues queues. *)
LEMMA SendType ==
    ASSUME TypeOK, NEW d \in Device, NEW s \in Slots, NEW m \in Messages, Send(d, s, m)
    PROVE  wire' \in [Device -> [Slots -> Seq(Messages)]]
BY SentType, PeerOther DEF TypeOK, Send

(* So does reading. *)
LEMMA ReadType ==
    ASSUME TypeOK, NEW d \in Device, NEW s \in Slots, wire[d][s] # <<>>, Read(d, s)
    PROVE  wire' \in [Device -> [Slots -> Seq(Messages)]]
<1>1. wire[d][s] \in Seq(Messages)  BY DEF TypeOK
<1>2. Tail(wire[d][s]) \in Seq(Messages)  BY <1>1
<1> QED  BY <1>2 DEF TypeOK, Read

(* What closing an end changes. *)
LEMMA LeaveFacts ==
    ASSUME TypeOK, NEW d \in Device, NEW s \in Slots, NEW rest \in Seq(Messages), Leave(d, s, rest)
    PROVE  /\ end' \in [Device -> [Slots -> Ends]]
           /\ wire' \in [Device -> [Slots -> Seq(Messages)]]
           /\ killed' \in [Device -> [Slots -> BOOLEAN]]
           /\ dialer' \in [Slots -> Device]
           /\ goal' \in [Slots -> Goals]
           /\ \A e \in Device, t \in Slots :
                 end'[e][t] = IF e = d /\ t = s THEN "none" ELSE end[e][t]
           /\ \A e \in Device, t \in Slots :
                 killed'[e][t] = IF e = d /\ t = s THEN FALSE ELSE killed[e][t]
           /\ \A t \in Slots : t # s => goal'[t] = goal[t]
           /\ goal'[s] = "none" => goal[s] = "none" \/ end[Peer(d)][s] = "none"
<1>1. Move(d, s, "none") /\ "none" \in Ends  BY DEF Leave, Ends
<1>2. wire' \in [Device -> [Slots -> Seq(Messages)]]
  <2>1. <<>> \in Seq(Messages)  OBVIOUS
  <2> QED  BY <2>1, PeerOther DEF TypeOK, Leave
<1>3. killed' \in [Device -> [Slots -> BOOLEAN]]
      /\ \A e \in Device, t \in Slots : killed'[e][t] = IF e = d /\ t = s THEN FALSE ELSE killed[e][t]
  BY DEF TypeOK, Leave
<1>4. dialer' \in [Slots -> Device]  BY DEF TypeOK, Leave, Device
<1>5. goal' \in [Slots -> Goals]  BY DEF TypeOK, Leave, Goals
<1>6. \A t \in Slots : t # s => goal'[t] = goal[t]  BY DEF TypeOK, Leave
<1>7. goal'[s] = "none" => goal[s] = "none" \/ end[Peer(d)][s] = "none"  BY DEF TypeOK, Leave, Gone
<1>8. /\ end' \in [Device -> [Slots -> Ends]]
      /\ \A e \in Device, t \in Slots : end'[e][t] = IF e = d /\ t = s THEN "none" ELSE end[e][t]
  BY <1>1, MoveFacts
<1> QED  BY <1>2, <1>3, <1>4, <1>5, <1>6, <1>7, <1>8

(* The same, when what was sent before stays to be read. *)
LEMMA DropFacts ==
    ASSUME TypeOK, NEW d \in Device, NEW s \in Slots, Drop(d, s)
    PROVE  /\ end' \in [Device -> [Slots -> Ends]]
           /\ wire' \in [Device -> [Slots -> Seq(Messages)]]
           /\ killed' \in [Device -> [Slots -> BOOLEAN]]
           /\ dialer' \in [Slots -> Device]
           /\ goal' \in [Slots -> Goals]
           /\ \A e \in Device, t \in Slots :
                 end'[e][t] = IF e = d /\ t = s THEN "none" ELSE end[e][t]
           /\ \A e \in Device, t \in Slots :
                 killed'[e][t] = IF e = d /\ t = s THEN FALSE ELSE killed[e][t]
           /\ \A t \in Slots : t # s => goal'[t] = goal[t]
           /\ goal'[s] = "none" => goal[s] = "none" \/ end[Peer(d)][s] = "none"
<1>1. wire[Peer(d)][s] \in Seq(Messages)  BY PeerOther DEF TypeOK
<1> QED  BY <1>1, LeaveFacts DEF Drop


(***************************************************************************)
(* The invariant, one lemma per kind of step                               *)
(***************************************************************************)

(* The end leaves before its session was registered. *)
LEMMA LeavingKeepsInv ==
    ASSUME Inv, NEW d \in Device, NEW s \in Slots, NEW rest \in Seq(Messages), Leave(d, s, rest),
           end[d][s] \notin {"open", "ending"}, registry' = registry, removing' = removing,
           trusted' \in [Device -> BOOLEAN], dialing' \in [Device -> BOOLEAN],
           waiting' \in [Device -> BOOLEAN]
    PROVE  Inv'
<1> TypeOK /\ RegistryInUse /\ FreeSlots /\ OneSession  BY DEF Inv, WellFormed
<1>a. \A e \in Device, t \in Slots : end'[e][t] = IF e = d /\ t = s THEN "none" ELSE end[e][t]
  BY MoveFacts DEF Leave, Ends
<1>b. \A e \in Device, t \in Slots :
         killed'[e][t] = IF e = d /\ t = s THEN FALSE ELSE killed[e][t]
  BY LeaveFacts, Zenon
<1>c. /\ \A t \in Slots : t # s => goal'[t] = goal[t]
      /\ goal'[s] = "none" => goal[s] = "none" \/ end[Peer(d)][s] = "none"
  BY LeaveFacts
<1>0. /\ \A e \in Device, t \in Slots :
            end'[e][t] = IF e = d /\ t = s THEN "none" ELSE end[e][t]
      /\ \A e \in Device, t \in Slots :
            killed'[e][t] = IF e = d /\ t = s THEN FALSE ELSE killed[e][t]
  BY <1>a, <1>b
<1>1. TypeOK'  BY LeaveFacts DEF TypeOK
<1>2. RegistryInUse'
  <2> SUFFICES ASSUME NEW e \in Device, registry[e] # NoSlot
               PROVE  end'[e][registry[e]] \in {"open", "ending"}
    BY DEF RegistryInUse
  <2>1. registry[e] \in Slots /\ end[e][registry[e]] \in {"open", "ending"}
    BY DEF RegistryInUse, TypeOK
  <2> QED  BY <1>0, <2>1
<1>3. FreeSlots'
  <2>1. \A e \in Device : e = d \/ e = Peer(d)  BY DEF Device, Peer
  <2> SUFFICES ASSUME NEW t \in Slots, goal'[t] = "none", NEW e \in Device
               PROVE  end'[e][t] = "none"
    BY DEF FreeSlots
  <2>2. CASE t # s  BY <1>0, <1>c, <2>2 DEF FreeSlots
  <2>3. CASE t = s  BY <1>0, <1>c, <2>1, <2>3 DEF FreeSlots
  <2> QED  BY <2>2, <2>3
<1>4. OneSession'
  <2> SUFFICES ASSUME NEW e \in Device, NEW t \in Slots, end'[e][t] = "open", ~killed'[e][t]
               PROVE  registry[e] = t
    BY DEF OneSession, Live
  <2>1. Live(e, t)  BY <1>0 DEF Live
  <2> QED  BY <2>1 DEF OneSession
<1> QED  BY <1>1, <1>2, <1>3, <1>4 DEF Inv, WellFormed

(* The same, with what was sent before left to be read. *)
LEMMA DroppingKeepsInv ==
    ASSUME Inv, NEW d \in Device, NEW s \in Slots, Drop(d, s),
           end[d][s] \notin {"open", "ending"}, registry' = registry, removing' = removing,
           trusted' \in [Device -> BOOLEAN], dialing' \in [Device -> BOOLEAN],
           waiting' \in [Device -> BOOLEAN]
    PROVE  Inv'
<1>1. wire[Peer(d)][s] \in Seq(Messages)  BY PeerOther DEF Inv, WellFormed, TypeOK
<1> QED  BY <1>1, LeavingKeepsInv DEF Drop

(* A phase of the handshake follows another. *)
LEMMA MovingKeepsInv ==
    ASSUME Inv, NEW d \in Device, NEW s \in Slots, NEW to \in Ends \ {"none", "open"}, Move(d, s, to),
           end[d][s] \notin {"none", "ending"}, end[d][s] = "open" => to = "ending",
           wire' \in [Device -> [Slots -> Seq(Messages)]],
           UNCHANGED <<registry, removing, dialer, goal, killed>>,
           trusted' \in [Device -> BOOLEAN], dialing' \in [Device -> BOOLEAN],
           waiting' \in [Device -> BOOLEAN]
    PROVE  Inv'
<1> TypeOK /\ RegistryInUse /\ FreeSlots /\ OneSession  BY DEF Inv, WellFormed
<1>0. \A e \in Device, t \in Slots : end'[e][t] = IF e = d /\ t = s THEN to ELSE end[e][t]
  BY MoveFacts
<1>1. TypeOK'  BY MoveFacts DEF TypeOK
<1>2. RegistryInUse'
  <2> SUFFICES ASSUME NEW e \in Device, registry[e] # NoSlot
               PROVE  end'[e][registry[e]] \in {"open", "ending"}
    BY DEF RegistryInUse
  <2>1. registry[e] \in Slots /\ end[e][registry[e]] \in {"open", "ending"}
    BY DEF RegistryInUse, TypeOK
  <2> QED  BY <1>0, <2>1
<1>3. FreeSlots'  BY <1>0 DEF FreeSlots
<1>4. OneSession'
  <2> SUFFICES ASSUME NEW e \in Device, NEW t \in Slots, end'[e][t] = "open", ~killed'[e][t]
               PROVE  registry[e] = t
    BY DEF OneSession, Live
  <2>1. Live(e, t)  BY <1>0 DEF Live
  <2> QED  BY <2>1 DEF OneSession
<1> QED  BY <1>1, <1>2, <1>3, <1>4 DEF Inv, WellFormed

(* A free slot is taken. *)
LEMMA ConnectingKeepsInv ==
    ASSUME Inv, NEW d \in Device, NEW s \in Slots, NEW g \in Goals \ {"none"}, Connect(d, s, g),
           UNCHANGED local
    PROVE  Inv'
<1> TypeOK /\ RegistryInUse /\ FreeSlots /\ OneSession  BY DEF Inv, WellFormed
<1>1. \A e \in Device, t \in Slots :
         end'[e][t] = IF t # s THEN end[e][t] ELSE IF e = d THEN "asking" ELSE "greeted"
  BY DEF Connect, TypeOK, Device, Peer
<1>2. end' \in [Device -> [Slots -> Ends]]  BY PeerOther DEF Connect, TypeOK, Ends
<1>3. \A e \in Device : end[e][s] = "none"  BY DEF Connect, Free, FreeSlots
<1>4. TypeOK'  BY <1>2 DEF TypeOK, Connect, local
<1>5. RegistryInUse'
  <2> SUFFICES ASSUME NEW e \in Device, registry[e] # NoSlot
               PROVE  end'[e][registry[e]] \in {"open", "ending"}
    BY DEF RegistryInUse, local
  <2>1. registry[e] \in Slots /\ end[e][registry[e]] \in {"open", "ending"}
    BY DEF RegistryInUse, TypeOK
  <2> QED  BY <1>1, <1>3, <2>1
<1>6. FreeSlots'
  <2>1. goal'[s] = g /\ \A t \in Slots : t # s => goal'[t] = goal[t]
    BY DEF Connect, TypeOK
  <2> QED  BY <1>1, <2>1 DEF FreeSlots
<1>7. OneSession'  BY <1>1 DEF OneSession, Live, TypeOK, Connect, local
<1> QED  BY <1>4, <1>5, <1>6, <1>7 DEF Inv, WellFormed

(* Nothing but the dial state changes. *)
LEMMA WaitingKeepsInv ==
    ASSUME Inv, UNCHANGED <<registry, removing, net>>, trusted' \in [Device -> BOOLEAN],
           dialing' \in [Device -> BOOLEAN], waiting' \in [Device -> BOOLEAN]
    PROVE  Inv'
BY DEF Inv, WellFormed, TypeOK, RegistryInUse, FreeSlots, OneSession, Live, net

(* Dialling, from the dial loop to a new connection, keeps the invariant. *)
LEMMA DialKeepsInv ==
    ASSUME Inv, NEW d \in Device, DialStep(d)
    PROVE  Inv'
<1> TypeOK /\ RegistryInUse /\ FreeSlots /\ OneSession  BY DEF Inv, WellFormed
<1>1. CASE StartDial(d)  BY <1>1, WaitingKeepsInv DEF StartDial, TypeOK
<1>2. CASE DialGivesUp(d)  BY <1>2, WaitingKeepsInv DEF DialGivesUp, FinishDial, TypeOK
<1>3. CASE BackoffOver(d)  BY <1>3, WaitingKeepsInv DEF BackoffOver, TypeOK
<1>4. ASSUME NEW s \in Slots, DialAddress(d, s) PROVE Inv'
  BY <1>4, ConnectingKeepsInv DEF DialAddress, Goals
<1>5. ASSUME NEW s \in Slots, ConnectTo(d, s) PROVE Inv'
  BY <1>5, ConnectingKeepsInv DEF ConnectTo, Goals
<1>6. ASSUME NEW s \in Slots, PairWith(d, s) PROVE Inv'
  BY <1>6, ConnectingKeepsInv DEF PairWith, Goals
<1> QED  BY <1>1, <1>2, <1>3, <1>4, <1>5, <1>6 DEF DialStep

(* No step of a handshake opens a session or touches the registry. *)
LEMMA HandshakeKeepsInv ==
    ASSUME Inv, NEW d \in Device, NEW s \in Slots, HandshakeStep(d, s)
    PROVE  Inv'
<1> TypeOK /\ RegistryInUse /\ FreeSlots /\ OneSession  BY DEF Inv, WellFormed
<1>0. ASSUME TypeOK, UNCHANGED <<dialing, waiting>> \/ \E connected \in BOOLEAN : FinishDial(d, connected)
      PROVE dialing' \in [Device -> BOOLEAN] /\ waiting' \in [Device -> BOOLEAN]
  BY <1>0 DEF FinishDial, TypeOK
<1>1. CASE AnswerSync(d, s)
  <2>1. CASE trusted[d]
    BY <1>1, <2>1, MovingKeepsInv, SendType DEF AnswerSync, TypeOK, Ends, Messages, local
  <2>2. CASE ~trusted[d]
    BY <1>1, <2>2, LeavingKeepsInv, SentType DEF AnswerSync, TypeOK, Messages, local
  <2> QED  BY <2>1, <2>2
<1>2. CASE AnswerPair(d, s)
  <2>1. CASE Leave(d, s, Sent(d, s, "wrongCode"))
    BY <1>2, <2>1, LeavingKeepsInv, SentType DEF AnswerPair, TypeOK, Messages, local
  <2>2. CASE Send(d, s, "done") /\ Move(d, s, "proven") /\ UNCHANGED <<dialer, goal, killed>>
    BY <1>2, <2>2, MovingKeepsInv, SendType DEF AnswerPair, TypeOK, Ends, Messages, local
  <2> QED  BY <1>2, <2>1, <2>2 DEF AnswerPair
<1>3. CASE CommitPair(d, s)
  BY <1>3, MovingKeepsInv DEF CommitPair, TypeOK, Ends
<1>4. CASE TakeWelcome(d, s)
  BY <1>0, <1>4, MovingKeepsInv, ReadType DEF TakeWelcome, Asking, TypeOK, Ends
<1>5. CASE TakeNotPaired(d, s)
  BY <1>0, <1>5, DroppingKeepsInv DEF TakeNotPaired, Asking, TypeOK
<1>6. CASE TakeDone(d, s)
  BY <1>6, MovingKeepsInv, ReadType DEF TakeDone, Asking, TypeOK, Ends
<1>7. CASE TakeWrongCode(d, s)
  BY <1>7, DroppingKeepsInv DEF TakeWrongCode, Asking, TypeOK, local
<1>8. CASE HandshakeFails(d, s)
  BY <1>8, DroppingKeepsInv DEF HandshakeFails, TypeOK, local
<1> QED  BY <1>1, <1>2, <1>3, <1>4, <1>5, <1>6, <1>7, <1>8 DEF HandshakeStep

(* Register: the connection found in the registry is told to stop, so the  *)
(* new one is the only session.                                            *)
LEMMA RegisterKeepsInv ==
    ASSUME Inv, NEW d \in Device, NEW s \in Slots, Register(d, s)
    PROVE  Inv'
<1> TypeOK /\ RegistryInUse /\ FreeSlots /\ OneSession  BY DEF Inv, WellFormed
<1>1. CASE Declined(d, s)
  BY <1>1, DroppingKeepsInv DEF Register, TypeOK
<1>2. CASE ~Declined(d, s)
  <2>a. Move(d, s, "open") /\ "open" \in Ends  BY <1>2 DEF Register, Ends
  <2>b. \A e \in Device, t \in Slots :
           killed'[e][t] = IF e = d THEN killed[e][t] \/ t = registry[d] ELSE killed[e][t]
    BY <1>2 DEF Register, TypeOK
  <2>0. /\ \A e \in Device, t \in Slots : end'[e][t] = IF e = d /\ t = s THEN "open" ELSE end[e][t]
        /\ \A e \in Device : registry'[e] = IF e = d THEN s ELSE registry[e]
        /\ end[d][s] = "accepted"
        /\ goal' = goal
    BY <1>2, <2>a, MoveFacts DEF Register, TypeOK
  <2>1. TypeOK'
    <3>1. end' \in [Device -> [Slots -> Ends]]  BY <2>a, MoveFacts
    <3>2. killed' \in [Device -> [Slots -> BOOLEAN]]
      <4>1. [t \in Slots |-> killed[d][t] \/ t = registry[d]] \in [Slots -> BOOLEAN]
        BY Zenon
      <4>2. killed' = [killed EXCEPT ![d] = [t \in Slots |-> killed[d][t] \/ t = registry[d]]]
        BY <1>2 DEF Register
      <4> QED  BY <4>1, <4>2 DEF TypeOK
    <3> QED  BY <1>2, <3>1, <3>2 DEF Register, TypeOK
  <2>2. RegistryInUse'
    <3> SUFFICES ASSUME NEW e \in Device, registry'[e] # NoSlot
                 PROVE  end'[e][registry'[e]] \in {"open", "ending"}
      BY DEF RegistryInUse
    <3>1. CASE e = d  BY <2>0, <3>1
    <3>2. CASE e # d
      <4>1. registry[e] \in Slots /\ end[e][registry[e]] \in {"open", "ending"}
        BY <2>0, <3>2 DEF RegistryInUse, TypeOK
      <4> QED  BY <2>0, <3>2, <4>1
    <3> QED  BY <3>1, <3>2
  <2>3. FreeSlots'  BY <2>0 DEF FreeSlots
  <2>4. OneSession'
    <3> SUFFICES ASSUME NEW e \in Device, NEW t \in Slots, end'[e][t] = "open", ~killed'[e][t]
                 PROVE  registry'[e] = t
      BY DEF OneSession, Live
    <3>1. CASE e = d /\ t = s  BY <2>0, <3>1
    <3>2. CASE e = d /\ t # s
      <4>1. Live(d, t) /\ t # registry[d]  BY <2>0, <2>b, <3>2 DEF Live
      <4> QED  BY <4>1 DEF OneSession
    <3>3. CASE e # d
      <4>1. Live(e, t)  BY <2>0, <2>b, <3>3 DEF Live
      <4> QED  BY <2>0, <3>3, <4>1 DEF OneSession
    <3> QED  BY <3>1, <3>2, <3>3
  <2> QED  BY <2>1, <2>2, <2>3, <2>4 DEF Inv, WellFormed
<1> QED  BY <1>1, <1>2

(* A session that a stopped runtime opens is told to stop already. *)
LEMMA RegisterStoppedKeepsInv ==
    ASSUME Inv, NEW d \in Device, NEW s \in Slots, RegisterStopped(d, s)
    PROVE  Inv'
<1> TypeOK /\ RegistryInUse /\ FreeSlots /\ OneSession  BY DEF Inv, WellFormed
<1>1. CASE Drop(d, s)
  BY <1>1, DroppingKeepsInv DEF RegisterStopped, TypeOK, local
<1>2. CASE Move(d, s, "open") /\ UNCHANGED <<dialer, goal, wire, killed>>
  <2>a. Move(d, s, "open") /\ "open" \in Ends  BY <1>2 DEF Ends
  <2>0. /\ \A e \in Device, t \in Slots : end'[e][t] = IF e = d /\ t = s THEN "open" ELSE end[e][t]
        /\ end[d][s] = "accepted" /\ killed[d][s]
        /\ registry' = registry /\ killed' = killed /\ goal' = goal
    BY <1>2, <2>a, MoveFacts DEF RegisterStopped, local
  <2>1. TypeOK'
    <3>1. end' \in [Device -> [Slots -> Ends]]  BY <2>a, MoveFacts
    <3> QED  BY <1>2, <3>1 DEF RegisterStopped, TypeOK, local
  <2>2. RegistryInUse'
    <3> SUFFICES ASSUME NEW e \in Device, registry[e] # NoSlot
                 PROVE  end'[e][registry[e]] \in {"open", "ending"}
      BY <2>0 DEF RegistryInUse
    <3>1. registry[e] \in Slots /\ end[e][registry[e]] \in {"open", "ending"}
      BY DEF RegistryInUse, TypeOK
    <3> QED  BY <2>0, <3>1
  <2>3. FreeSlots'  BY <2>0 DEF FreeSlots
  <2>4. OneSession'
    <3> SUFFICES ASSUME NEW e \in Device, NEW t \in Slots, end'[e][t] = "open", ~killed[e][t]
                 PROVE  registry[e] = t
      BY <2>0 DEF OneSession, Live
    <3>1. Live(e, t)  BY <2>0 DEF Live
    <3> QED  BY <3>1 DEF OneSession
  <2> QED  BY <2>1, <2>2, <2>3, <2>4 DEF Inv, WellFormed
<1> QED  BY <1>1, <1>2 DEF RegisterStopped

(* Unregister: a session that is over leaves the registry, no other one.   *)
LEMMA UnregisterKeepsInv ==
    ASSUME Inv, NEW d \in Device, NEW s \in Slots, Unregister(d, s)
    PROVE  Inv'
<1> TypeOK /\ RegistryInUse /\ FreeSlots /\ OneSession  BY DEF Inv, WellFormed
<1>d. Drop(d, s) /\ end[d][s] = "ending"  BY DEF Unregister
<1>a. \A e \in Device, t \in Slots : end'[e][t] = IF e = d /\ t = s THEN "none" ELSE end[e][t]
  BY <1>d, MoveFacts DEF Drop, Leave, Ends
<1>b. \A e \in Device, t \in Slots :
         killed'[e][t] = IF e = d /\ t = s THEN FALSE ELSE killed[e][t]
  BY <1>d, DropFacts, Zenon
<1>c. /\ \A t \in Slots : t # s => goal'[t] = goal[t]
      /\ goal'[s] = "none" => goal[s] = "none" \/ end[Peer(d)][s] = "none"
  BY <1>d, DropFacts
<1>e. \A e \in Device :
         registry'[e] = IF e = d /\ registry[d] = s THEN NoSlot ELSE registry[e]
  BY DEF Unregister, TypeOK
<1>1. TypeOK'
  <2>1. registry' \in [Device -> Slots \cup {NoSlot}]  BY DEF Unregister, TypeOK
  <2> QED  BY <1>d, <2>1, DropFacts DEF TypeOK, Unregister
<1>2. RegistryInUse'
  <2> SUFFICES ASSUME NEW e \in Device, registry'[e] # NoSlot
               PROVE  end'[e][registry'[e]] \in {"open", "ending"}
    BY DEF RegistryInUse
  <2>1. registry'[e] = registry[e] /\ ~(e = d /\ registry[d] = s)  BY <1>e
  <2>2. registry[e] \in Slots /\ end[e][registry[e]] \in {"open", "ending"}
    BY <2>1 DEF RegistryInUse, TypeOK
  <2> QED  BY <1>a, <2>1, <2>2
<1>3. FreeSlots'
  <2>1. \A e \in Device : e = d \/ e = Peer(d)  BY DEF Device, Peer
  <2> SUFFICES ASSUME NEW t \in Slots, goal'[t] = "none", NEW e \in Device
               PROVE  end'[e][t] = "none"
    BY DEF FreeSlots
  <2>2. CASE t # s  BY <1>a, <1>c, <2>2 DEF FreeSlots
  <2>3. CASE t = s  BY <1>a, <1>c, <2>1, <2>3 DEF FreeSlots
  <2> QED  BY <2>2, <2>3
<1>4. OneSession'
  <2> SUFFICES ASSUME NEW e \in Device, NEW t \in Slots, end'[e][t] = "open", ~killed'[e][t]
               PROVE  registry'[e] = t
    BY DEF OneSession, Live
  <2>1. Live(e, t) /\ ~(e = d /\ t = s)  BY <1>a, <1>b DEF Live
  <2>2. registry[e] = t  BY <2>1 DEF OneSession
  <2> QED  BY <1>e, <2>1, <2>2
<1> QED  BY <1>1, <1>2, <1>3, <1>4 DEF Inv, WellFormed

(* The steps of a session keep the invariant. *)
LEMMA SessionKeepsInv ==
    ASSUME Inv, NEW d \in Device, NEW s \in Slots, SessionStep(d, s)
    PROVE  Inv'
<1> TypeOK /\ RegistryInUse /\ FreeSlots /\ OneSession  BY DEF Inv, WellFormed
<1>1. CASE TakeUnpair(d, s)
  BY <1>1, MovingKeepsInv, ReadType DEF TakeUnpair, TypeOK, Ends
<1>2. CASE SessionEnds(d, s)
  BY <1>2, MovingKeepsInv DEF SessionEnds, TypeOK, Ends, local
<1> QED  BY <1>1, <1>2, RegisterKeepsInv, RegisterStoppedKeepsInv, UnregisterKeepsInv DEF SessionStep

(* No end moves, nothing leaves the registry and no kill switch is reset.  *)
LEMMA RemoveKeepsInv ==
    ASSUME Inv, NEW d \in Device, RemoveStep(d)
    PROVE  Inv'
<1> TypeOK /\ RegistryInUse /\ FreeSlots /\ OneSession  BY DEF Inv, WellFormed
<1>1. CASE RemoveDevice(d)
  <2>1. removing' \in [Device -> SUBSET (Slots \X RemoveSteps)]
    BY <1>1 DEF RemoveDevice, TypeOK, RemoveSteps
  <2>2. TypeOK'  BY <1>1, <2>1 DEF RemoveDevice, TypeOK, net
  <2> QED  BY <1>1, <2>2 DEF Inv, WellFormed, RemoveDevice, RegistryInUse, FreeSlots, OneSession, Live, net
<1>2. ASSUME NEW s \in Slots, TellRemoved(d, s)  PROVE Inv'
  <2>1. removing' \in [Device -> SUBSET (Slots \X RemoveSteps)]
    BY <1>2 DEF TellRemoved, TypeOK, RemoveSteps
  <2>2. wire' \in [Device -> [Slots -> Seq(Messages)]]
    BY <1>2, SendType DEF TellRemoved, TypeOK, Messages
  <2>3. TypeOK'  BY <1>2, <2>1, <2>2 DEF TellRemoved, TypeOK
  <2> QED  BY <1>2, <2>3 DEF Inv, WellFormed, TellRemoved, RegistryInUse, FreeSlots, OneSession, Live
<1>3. ASSUME NEW s \in Slots, KillRemoved(d, s)  PROVE Inv'
  <2>1. removing' \in [Device -> SUBSET (Slots \X RemoveSteps)]
    BY <1>3 DEF KillRemoved, TypeOK, RemoveSteps
  <2>2. killed' \in [Device -> [Slots -> BOOLEAN]]  BY <1>3 DEF KillRemoved, TypeOK
  <2>3. TypeOK'  BY <1>3, <2>1, <2>2 DEF KillRemoved, TypeOK
  <2>4. \A e \in Device, t \in Slots : Live(e, t)' => Live(e, t)
    BY <1>3 DEF KillRemoved, Live, TypeOK
  <2>5. OneSession'  BY <1>3, <2>4 DEF OneSession, KillRemoved
  <2> QED  BY <1>3, <2>3, <2>5 DEF Inv, WellFormed, KillRemoved, RegistryInUse, FreeSlots
<1> QED  BY <1>1, <1>2, <1>3 DEF RemoveStep

(* Stopping empties the registry and tells every session to stop. *)
LEMMA StopKeepsInv ==
    ASSUME Inv, NEW d \in Device, StopSync(d)
    PROVE  Inv'
<1> TypeOK /\ RegistryInUse /\ FreeSlots /\ OneSession  BY DEF Inv, WellFormed
<1>0. /\ \A e \in Device : registry'[e] = IF e = d THEN NoSlot ELSE registry[e]
      /\ \A e \in Device, t \in Slots :
            killed'[e][t] = IF e = d THEN end[e][t] # "none" ELSE killed[e][t]
      /\ end' = end /\ goal' = goal
  BY DEF StopSync, TypeOK
<1>1. TypeOK'
  <2>1. killed' \in [Device -> [Slots -> BOOLEAN]]  BY DEF StopSync, TypeOK
  <2> QED  BY <2>1 DEF StopSync, TypeOK
<1>2. RegistryInUse' /\ FreeSlots'  BY <1>0 DEF RegistryInUse, FreeSlots
<1>3. OneSession'
  <2> SUFFICES ASSUME NEW e \in Device, NEW t \in Slots, end[e][t] = "open", ~killed'[e][t]
               PROVE  registry'[e] = t
    BY <1>0 DEF OneSession, Live
  <2>1. e # d /\ Live(e, t)  BY <1>0 DEF Live
  <2> QED  BY <1>0, <2>1 DEF OneSession
<1> QED  BY <1>1, <1>2, <1>3 DEF Inv, WellFormed

(* A restarted process has no ends; slots free up when both are gone. *)
LEMMA RestartKeepsInv ==
    ASSUME Inv, NEW d \in Device, Restart(d)
    PROVE  Inv'
<1> TypeOK /\ RegistryInUse /\ FreeSlots /\ OneSession  BY DEF Inv, WellFormed
<1>0. /\ \A e \in Device : registry'[e] = IF e = d THEN NoSlot ELSE registry[e]
      /\ \A e \in Device, t \in Slots : end'[e][t] = IF e = d THEN "none" ELSE end[e][t]
      /\ \A e \in Device, t \in Slots : e # d => killed'[e][t] = killed[e][t]
      /\ \A t \in Slots : goal'[t] = IF Gone(d, t) THEN "none" ELSE goal[t]
  BY DEF Restart, TypeOK
<1>1. TypeOK'
  <2>1. killed' \in [Device -> [Slots -> BOOLEAN]]  BY DEF Restart, TypeOK
  <2>2. end' \in [Device -> [Slots -> Ends]]  BY DEF Restart, TypeOK, Ends
  <2>3. wire' \in [Device -> [Slots -> Seq(Messages)]]
    <3>1. <<>> \in Seq(Messages)  OBVIOUS
    <3> QED  BY <3>1 DEF Restart, TypeOK
  <2>4. dialer' \in [Slots -> Device] /\ goal' \in [Slots -> Goals]
    BY DEF Restart, TypeOK, Device, Goals
  <2>5. removing' \in [Device -> SUBSET (Slots \X RemoveSteps)]  BY DEF Restart, TypeOK
  <2> QED  BY <2>1, <2>2, <2>3, <2>4, <2>5 DEF Restart, TypeOK
<1>2. RegistryInUse'
  <2> SUFFICES ASSUME NEW e \in Device, registry'[e] # NoSlot
               PROVE  end'[e][registry'[e]] \in {"open", "ending"}
    BY DEF RegistryInUse
  <2>1. e # d /\ registry'[e] = registry[e] /\ registry[e] \in Slots  BY <1>0 DEF TypeOK
  <2> QED  BY <1>0, <2>1 DEF RegistryInUse
<1>3. FreeSlots'
  <2> SUFFICES ASSUME NEW t \in Slots, goal'[t] = "none", NEW e \in Device
               PROVE  end'[e][t] = "none"
    BY DEF FreeSlots
  <2>1. CASE e = d  BY <1>0, <2>1
  <2>2. CASE e # d
    <3>1. e = Peer(d)  BY <2>2 DEF Device, Peer
    <3> QED  BY <1>0, <2>2, <3>1 DEF FreeSlots, Gone
  <2> QED  BY <2>1, <2>2
<1>4. OneSession'
  <2> SUFFICES ASSUME NEW e \in Device, NEW t \in Slots, end'[e][t] = "open", ~killed'[e][t]
               PROVE  registry'[e] = t
    BY DEF OneSession, Live
  <2>1. e # d /\ Live(e, t)  BY <1>0 DEF Live
  <2> QED  BY <1>0, <2>1 DEF OneSession
<1> QED  BY <1>1, <1>2, <1>3, <1>4 DEF Inv, WellFormed

(* The invariant holds at first. *)
LEMMA InitInv == Init => Inv
<1> SUFFICES ASSUME Init PROVE Inv  OBVIOUS
<1>1. <<>> \in Seq(Messages)  OBVIOUS
<1>2. trusted \in [Device -> BOOLEAN]  BY PairAssumption DEF Init
<1>3. TypeOK  BY <1>1, <1>2 DEF Init, TypeOK, Device, Goals, Ends
<1> QED  BY <1>3 DEF Inv, WellFormed, Init, RegistryInUse, FreeSlots, OneSession, Live

(* Every step keeps it. *)
LEMMA NextKeepsInv == Inv /\ [Next]_vars => Inv'
<1> SUFFICES ASSUME Inv, [Next]_vars PROVE Inv'  OBVIOUS
<1>1. CASE UNCHANGED vars
  BY <1>1 DEF Inv, WellFormed, TypeOK, RegistryInUse, FreeSlots, OneSession, Live, vars, local, net
<1>2. CASE Next
  BY <1>2, DialKeepsInv, RemoveKeepsInv, HandshakeKeepsInv, SessionKeepsInv, StopKeepsInv,
     RestartKeepsInv DEF Next
<1> QED  BY <1>1, <1>2

(* For any number of connections, whoever dials, pairs, removes, stops or  *)
(* restarts: the variables have their types, the registry of each device   *)
(* names no session that is over, and a slot that carries no connection    *)
(* has no ends.                                                            *)
THEOREM SessionsAreWellFormed == Spec => []WellFormed
<1>1. Inv => WellFormed  BY DEF Inv
<1> QED  BY <1>1, InitInv, NextKeepsInv, PTL DEF Spec

(* Every session of a device that is not told to stop is the registered    *)
(* one: a second connection to the same peer replaces the first.           *)
THEOREM SessionsAreUnique == Spec => [](WellFormed /\ OneSession)
<1>1. Inv => WellFormed /\ OneSession  BY DEF Inv
<1> QED  BY <1>1, InitInv, NextKeepsInv, PTL DEF Spec

(***************************************************************************)
(* The end of a pairing: the messages on their way tell of removals that   *)
(* still hold, so trust ebbs on both sides                                 *)
(***************************************************************************)

(* What is on its way to a device: greetings, and word of a removal, which *)
(* only a device that has removed its peer sends.                          *)
Tells(queue, removed) ==
    \A i \in 1..Len(queue) : queue[i] = "welcome" \/ (queue[i] \in {"notPaired", "unpair"} /\ removed)

Quiet ==
    /\ \A s \in Slots : goal[s] # "pair"
    /\ \A d \in Device, s \in Slots : end[d][s] # "proven"
    /\ \A d \in Device, s \in Slots : Tells(wire[d][s], ~trusted[Peer(d)])
    /\ \A d \in Device, s \in Slots, step \in RemoveSteps :
          <<s, step>> \in removing[d] => ~trusted[d]

(* What every step does without pairing: trust ends and does not return,   *)
(* and with it the peer's trust or the registered session; a session opens *)
(* with trust only; an end that closes keeps closing while the session     *)
(* runs.                                                                   *)
Ebbs ==
    /\ \A d \in Device : trusted'[d] => trusted[d]
    /\ \A d \in Device : trusted[d] /\ ~trusted'[d] =>
          \/ ~trusted[Peer(d)]
          \/ \A s \in Slots : Live(d, s)' => EndCloses(d, s)'
    /\ \A d \in Device, s \in Slots : Live(d, s)' => Live(d, s) \/ trusted'[d]
    /\ \A d \in Device, s \in Slots :
          EndCloses(d, s) => EndCloses(d, s)' \/ \A e \in Device : ~Live(e, s)'

(* A device is its peer's peer. *)
LEMMA PeerTwice == ASSUME NEW d \in Device PROVE Peer(Peer(d)) = d
BY DEF Device, Peer

(* An empty queue tells nothing. *)
LEMMA TellsNothing == ASSUME NEW removed \in BOOLEAN PROVE Tells(<<>>, removed)
BY DEF Tells

(* Adding a message that may be sent, and reading one. *)
LEMMA TellsMore ==
    ASSUME NEW queue \in Seq(Messages), NEW m \in Messages, NEW removed \in BOOLEAN,
           Tells(queue, removed), m = "welcome" \/ (m \in {"notPaired", "unpair"} /\ removed)
    PROVE  Tells(Append(queue, m), removed)
<1> SUFFICES ASSUME NEW i \in 1..Len(Append(queue, m))
             PROVE  LET n == Append(queue, m)[i]
                    IN  n = "welcome" \/ (n \in {"notPaired", "unpair"} /\ removed)
  BY DEF Tells
<1>1. CASE i = Len(queue) + 1
  <2>1. Append(queue, m)[i] = m  BY <1>1
  <2> QED  BY <2>1
<1>2. CASE i # Len(queue) + 1
  <2>1. i \in 1..Len(queue) /\ Append(queue, m)[i] = queue[i]  BY <1>2
  <2> QED  BY <2>1 DEF Tells
<1> QED  BY <1>1, <1>2

(* Reading one leaves what may be told. *)
LEMMA TellsLess ==
    ASSUME NEW queue \in Seq(Messages), queue # <<>>, NEW removed \in BOOLEAN, Tells(queue, removed)
    PROVE  /\ Tells(Tail(queue), removed)
           /\ Head(queue) = "welcome" \/ (Head(queue) \in {"notPaired", "unpair"} /\ removed)
<1>1. Head(queue) = queue[1] /\ 1 \in 1..Len(queue)  OBVIOUS
<1>2. \A i \in 1..Len(Tail(queue)) : Tail(queue)[i] = queue[i + 1] /\ i + 1 \in 1..Len(queue)
  OBVIOUS
<1> QED  BY <1>1, <1>2 DEF Tells

(* The peer's end of any connection closes once it has removed this one.   *)
LEMMA PeerRemoved ==
    ASSUME Inv, Quiet, UntrustedSessionEnds, NEW d \in Device, ~trusted[d], NEW s \in Slots
    PROVE  Closing(s)
<1> TypeOK  BY DEF Inv, WellFormed
<1>1. CASE Live(d, s)  BY <1>1 DEF UntrustedSessionEnds
<1>2. CASE ~Live(d, s)
  <2>1. end[d][s] \in Ends \ {"proven"}  BY DEF TypeOK, Quiet
  <2>2. EndCloses(d, s)  BY <1>2, <2>1 DEF Live, EndCloses, Ends
  <2> QED  BY <2>2 DEF Closing
<1> QED  BY <1>1, <1>2

(* With that, no session outlives trust.                                   *)
LEMMA EbbingSuffices ==
    ASSUME Inv, Quiet, UntrustedSessionEnds, Ebbs
    PROVE  UntrustedSessionEnds'
<1> SUFFICES ASSUME NEW d \in Device, NEW s \in Slots, Live(d, s)', ~trusted'[d]
             PROVE  \E e \in Device : EndCloses(e, s)'
  BY DEF UntrustedSessionEnds, Closing
<1>1. Live(d, s)  BY DEF Ebbs
<1>2. Closing(s) => \E e \in Device : EndCloses(e, s)'  BY DEF Ebbs, Closing
<1>3. CASE ~trusted[d]  BY <1>1, <1>2, <1>3 DEF UntrustedSessionEnds
<1>4. CASE trusted[d] /\ ~trusted[Peer(d)]  BY <1>2, <1>4, PeerRemoved, PeerOther
<1>5. CASE trusted[d] /\ trusted[Peer(d)]  BY <1>5 DEF Ebbs
<1> QED  BY <1>3, <1>4, <1>5

(* Trust falls the way a rejection or an unpair message lets it fall.      *)
Falls ==
    /\ trusted' \in [Device -> BOOLEAN]
    /\ \A d \in Device : trusted'[d] => trusted[d]
    /\ \A d \in Device : trusted[d] /\ ~trusted'[d] => ~trusted[Peer(d)]

(* What is told of a removal stays true while trust falls. *)
LEMMA FallsTells ==
    ASSUME Falls, NEW d \in Device, NEW queue, Tells(queue, ~trusted[Peer(d)])
    PROVE  Tells(queue, ~trusted'[Peer(d)])
BY PeerOther DEF Falls, Tells

(* An end that closes leaves what it may tell. *)
LEMMA LeavingEbbs ==
    ASSUME Inv, Quiet, NEW d \in Device, NEW s \in Slots, NEW rest \in Seq(Messages),
           Leave(d, s, rest), Tells(rest, ~trusted[d]), Falls, removing' = removing
    PROVE  Quiet' /\ Ebbs
<1> TypeOK  BY DEF Inv, WellFormed
<1>a. \A e \in Device, t \in Slots : end'[e][t] = IF e = d /\ t = s THEN "none" ELSE end[e][t]
  BY MoveFacts DEF Leave, Ends
<1>b. \A e \in Device, t \in Slots :
         killed'[e][t] = IF e = d /\ t = s THEN FALSE ELSE killed[e][t]
  BY DEF Leave, TypeOK
<1>1. \A t \in Slots : goal'[t] # "pair"  BY DEF Quiet, Leave, TypeOK
<1>2. \A e \in Device, t \in Slots : end'[e][t] # "proven"  BY <1>a DEF Quiet
<1>3. \A e \in Device, t \in Slots : Tells(wire'[e][t], ~trusted'[Peer(e)])
  <2> SUFFICES ASSUME NEW e \in Device, NEW t \in Slots
               PROVE  Tells(wire'[e][t], ~trusted[Peer(e)])
    BY FallsTells
  <2>1. CASE t = s /\ e = d
    <3>1. wire'[e][t] = <<>>  BY <2>1, PeerOther DEF Leave, TypeOK
    <3> QED  BY <3>1 DEF Tells
  <2>2. CASE t = s /\ e # d
    <3>1. e = Peer(d) /\ Peer(e) = d  BY <2>2 DEF Device, Peer
    <3>2. wire'[e][t] = rest  BY <2>2, <3>1 DEF Leave, TypeOK
    <3> QED  BY <3>1, <3>2
  <2>3. CASE t # s
    <3>1. wire'[e][t] = wire[e][t]  BY <2>3, PeerOther DEF Leave, TypeOK
    <3> QED  BY <3>1 DEF Quiet
  <2> QED  BY <2>1, <2>2, <2>3
<1>4. \A e \in Device, t \in Slots, step \in RemoveSteps :
         <<t, step>> \in removing'[e] => ~trusted'[e]
  BY DEF Quiet, Falls
<1>5. Quiet'  BY <1>1, <1>2, <1>3, <1>4 DEF Quiet
<1>6. \A e \in Device, t \in Slots : Live(e, t)' => Live(e, t)  BY <1>a, <1>b DEF Live
<1>7. \A e \in Device, t \in Slots : EndCloses(e, t) => EndCloses(e, t)'
  BY <1>a, <1>b DEF EndCloses, Falls
<1>8. Ebbs  BY <1>6, <1>7 DEF Ebbs, Falls
<1> QED  BY <1>5, <1>8

(* The same, with what was sent before left to be read. *)
LEMMA DroppingEbbs ==
    ASSUME Inv, Quiet, NEW d \in Device, NEW s \in Slots, Drop(d, s), Falls, removing' = removing
    PROVE  Quiet' /\ Ebbs
<1>1. wire[Peer(d)][s] \in Seq(Messages)  BY PeerOther DEF Inv, WellFormed, TypeOK
<1>2. Tells(wire[Peer(d)][s], ~trusted[d])  BY PeerOther, PeerTwice DEF Quiet
<1> QED  BY <1>1, <1>2, LeavingEbbs DEF Drop

(* An end that moves on, opening only with trust. *)
LEMMA MovingEbbs ==
    ASSUME Inv, Quiet, NEW d \in Device, NEW s \in Slots, NEW to \in Ends \ {"proven"},
           Move(d, s, to), Falls, UNCHANGED <<removing, dialer, goal, killed>>,
           to = "open" => trusted'[d], EndCloses(d, s) => EndCloses(d, s)',
           \A e \in Device, t \in Slots : Tells(wire'[e][t], ~trusted'[Peer(e)])
    PROVE  Quiet' /\ Ebbs
<1> TypeOK  BY DEF Inv, WellFormed
<1>a. \A e \in Device, t \in Slots : end'[e][t] = IF e = d /\ t = s THEN to ELSE end[e][t]
  BY MoveFacts
<1>1. \A t \in Slots : goal'[t] # "pair"  BY DEF Quiet
<1>2. \A e \in Device, t \in Slots : end'[e][t] # "proven"  BY <1>a DEF Quiet
<1>4. \A e \in Device, t \in Slots, step \in RemoveSteps :
         <<t, step>> \in removing'[e] => ~trusted'[e]
  BY DEF Quiet, Falls
<1>5. Quiet'  BY <1>1, <1>2, <1>4 DEF Quiet
<1>6. \A e \in Device, t \in Slots : Live(e, t)' => Live(e, t) \/ trusted'[e]
  BY <1>a DEF Live
<1>7. \A e \in Device, t \in Slots : EndCloses(e, t) => EndCloses(e, t)'
  <2> SUFFICES ASSUME NEW e \in Device, NEW t \in Slots, EndCloses(e, t)
               PROVE  EndCloses(e, t)'
    OBVIOUS
  <2>1. CASE e = d /\ t = s  BY <2>1
  <2>2. CASE ~(e = d /\ t = s)  BY <1>a, <2>2 DEF EndCloses, Falls
  <2> QED  BY <2>1, <2>2
<1>8. Ebbs  BY <1>6, <1>7 DEF Ebbs, Falls
<1> QED  BY <1>5, <1>8

(* What a device may send, and what is left when it has read a message.    *)
LEMMA SendTells ==
    ASSUME Inv, Quiet, NEW d \in Device, NEW s \in Slots, NEW m \in Messages, Send(d, s, m),
           m = "welcome" \/ (m \in {"notPaired", "unpair"} /\ ~trusted[d]), trusted' = trusted
    PROVE  \A e \in Device, t \in Slots : Tells(wire'[e][t], ~trusted'[Peer(e)])
<1> TypeOK  BY DEF Inv, WellFormed
<1> DEFINE p == Peer(d)
<1>1. p \in Device /\ Peer(p) = d  BY PeerOther, PeerTwice
<1>2. Tells(Sent(d, s, m), ~trusted[d])
  <2>1. Tells(wire[p][s], ~trusted[d]) /\ wire[p][s] \in Seq(Messages)  BY <1>1 DEF Quiet, TypeOK
  <2>2. Tells(Append(wire[p][s], m), ~trusted[d])  BY <2>1, TellsMore
  <2> QED  BY <2>1, <2>2 DEF Sent
<1> SUFFICES ASSUME NEW e \in Device, NEW t \in Slots
             PROVE  Tells(wire'[e][t], ~trusted[Peer(e)])
  OBVIOUS
<1>3. CASE e = p /\ t = s
  <2>1. wire'[e][t] = Sent(d, s, m)  BY <1>1, <1>3 DEF Send, TypeOK
  <2> QED  BY <1>1, <1>2, <1>3, <2>1
<1>4. CASE ~(e = p /\ t = s)
  <2>1. wire'[e][t] = wire[e][t]  BY <1>1, <1>4 DEF Send, TypeOK
  <2> QED  BY <2>1 DEF Quiet
<1> QED  BY <1>3, <1>4

(* Reading leaves what may be told. *)
LEMMA ReadTells ==
    ASSUME Inv, Quiet, NEW d \in Device, NEW s \in Slots, wire[d][s] # <<>>, Read(d, s), Falls
    PROVE  \A e \in Device, t \in Slots : Tells(wire'[e][t], ~trusted'[Peer(e)])
<1> TypeOK  BY DEF Inv, WellFormed
<1> SUFFICES ASSUME NEW e \in Device, NEW t \in Slots
             PROVE  Tells(wire'[e][t], ~trusted[Peer(e)])
  BY FallsTells
<1>1. CASE e = d /\ t = s
  <2>1. wire'[e][t] = Tail(wire[d][s]) /\ wire[d][s] \in Seq(Messages)  BY <1>1 DEF Read, TypeOK
  <2>2. Tells(wire[d][s], ~trusted[Peer(d)])  BY DEF Quiet
  <2> QED  BY <1>1, <2>1, <2>2, TellsLess
<1>2. CASE ~(e = d /\ t = s)
  <2>1. wire'[e][t] = wire[e][t]  BY <1>2 DEF Read, TypeOK
  <2> QED  BY <2>1 DEF Quiet
<1> QED  BY <1>1, <1>2

(* The first message waiting is a greeting or word of a removal.           *)
LEMMA HeadTells ==
    ASSUME Inv, Quiet, NEW d \in Device, NEW s \in Slots, wire[d][s] # <<>>
    PROVE  \/ Head(wire[d][s]) = "welcome"
           \/ Head(wire[d][s]) \in {"notPaired", "unpair"} /\ ~trusted[Peer(d)]
<1>1. wire[d][s] \in Seq(Messages) /\ Tells(wire[d][s], ~trusted[Peer(d)])
  BY DEF Inv, WellFormed, TypeOK, Quiet
<1> QED  BY <1>1, TellsLess

(* Trust that stays as it is does not rise. *)
LEMMA StillFalls ==
    ASSUME TypeOK, trusted' = trusted
    PROVE  Falls
BY DEF TypeOK, Falls

(* A free connection is taken: nothing lives on it.                        *)
LEMMA ConnectingEbbs ==
    ASSUME Inv, Quiet, NEW d \in Device, NEW s \in Slots, NEW g \in Goals \ {"none", "pair"},
           Connect(d, s, g), UNCHANGED local
    PROVE  Quiet' /\ Ebbs
<1> TypeOK /\ FreeSlots  BY DEF Inv, WellFormed
<1>0. Falls  BY StillFalls DEF local
<1>a. \A e \in Device, t \in Slots :
         end'[e][t] = IF t # s THEN end[e][t] ELSE IF e = d THEN "asking" ELSE "greeted"
  BY DEF Connect, TypeOK, Device, Peer
<1>1. Quiet'
  <2>1. \A t \in Slots : goal'[t] # "pair"  BY DEF Quiet, Connect, TypeOK
  <2>2. \A e \in Device, t \in Slots : end'[e][t] # "proven"  BY <1>a DEF Quiet
  <2>3. \A e \in Device, t \in Slots : Tells(wire'[e][t], ~trusted'[Peer(e)])
    BY DEF Quiet, Connect, local
  <2> QED  BY <2>1, <2>2, <2>3 DEF Quiet, local
<1>2. \A e \in Device, t \in Slots : Live(e, t)' => Live(e, t) /\ t # s
  BY <1>a DEF Live, Connect
<1>3. \A e \in Device, t \in Slots : t # s /\ EndCloses(e, t) => EndCloses(e, t)'
  BY <1>a DEF EndCloses, Connect, local
<1> QED  BY <1>0, <1>1, <1>2, <1>3 DEF Ebbs, Falls

(* Nothing but the dial state changes.                                     *)
LEMMA WaitingEbbs ==
    ASSUME Inv, Quiet, UNCHANGED <<trusted, registry, removing, net>>
    PROVE  Quiet' /\ Ebbs
<1>0. Falls  BY StillFalls DEF Inv, WellFormed
<1>1. Quiet'  BY DEF Quiet, net
<1>2. \A e \in Device, t \in Slots : Live(e, t)' = Live(e, t) /\ EndCloses(e, t)' = EndCloses(e, t)
  BY DEF Live, EndCloses, net
<1> QED  BY <1>0, <1>1, <1>2 DEF Ebbs, Falls

(* Dialling ebbs. *)
LEMMA DialEbbs ==
    ASSUME Inv, Quiet, "pair" \notin Events, NEW d \in Device, DialStep(d)
    PROVE  Quiet' /\ Ebbs
<1>1. CASE StartDial(d)  BY <1>1, WaitingEbbs DEF StartDial
<1>2. CASE DialGivesUp(d)  BY <1>2, WaitingEbbs DEF DialGivesUp, FinishDial
<1>3. CASE BackoffOver(d)  BY <1>3, WaitingEbbs DEF BackoffOver
<1>4. ASSUME NEW s \in Slots, DialAddress(d, s) PROVE Quiet' /\ Ebbs
  BY <1>4, ConnectingEbbs DEF DialAddress, Goals
<1>5. ASSUME NEW s \in Slots, ConnectTo(d, s) PROVE Quiet' /\ Ebbs
  BY <1>5, ConnectingEbbs DEF ConnectTo, Goals
<1> QED  BY <1>1, <1>2, <1>3, <1>4, <1>5 DEF DialStep, PairWith

(* A handshake ebbs: a rejection is true of the present. *)
LEMMA HandshakeEbbs ==
    ASSUME Inv, Quiet, NEW d \in Device, NEW s \in Slots, HandshakeStep(d, s)
    PROVE  Quiet' /\ Ebbs
<1> TypeOK  BY DEF Inv, WellFormed
<1>1. CASE AnswerSync(d, s)
  <2>0. Falls  BY <1>1, StillFalls DEF AnswerSync, local
  <2>1. CASE trusted[d]
    <3>1. \A e \in Device, t \in Slots : Tells(wire'[e][t], ~trusted'[Peer(e)])
      BY <1>1, <2>1, SendTells DEF AnswerSync, Messages, local
    <3>2. end'[d][s] = "accepted" /\ end[d][s] = "greeted"
      BY <1>1, <2>1 DEF AnswerSync, Move, TypeOK
    <3>3. EndCloses(d, s) => EndCloses(d, s)'
      BY <1>1, <2>1, <3>2 DEF AnswerSync, EndCloses, local
    <3> QED  BY <1>1, <2>0, <2>1, <3>1, <3>3, MovingEbbs DEF AnswerSync, Ends, local
  <2>2. CASE ~trusted[d]
    <3>1. Sent(d, s, "notPaired") \in Seq(Messages)  BY SentType DEF Messages
    <3>2. Tells(Sent(d, s, "notPaired"), ~trusted[d])
      <4>1. Peer(d) \in Device /\ Peer(Peer(d)) = d  BY PeerOther, PeerTwice
      <4>2. Tells(wire[Peer(d)][s], ~trusted[d]) /\ wire[Peer(d)][s] \in Seq(Messages)
        BY <4>1 DEF Quiet, TypeOK
      <4> QED  BY <2>2, <4>2, TellsMore DEF Sent, Messages
    <3> QED  BY <1>1, <2>0, <2>2, <3>1, <3>2, LeavingEbbs DEF AnswerSync, local
  <2> QED  BY <2>1, <2>2
<1>2. CASE AnswerPair(d, s)  BY <1>2 DEF AnswerPair, Quiet
<1>3. CASE CommitPair(d, s)  BY <1>3 DEF CommitPair, Quiet
<1>4. CASE TakeWelcome(d, s)
  <2>0. Falls  BY <1>4, StillFalls DEF TakeWelcome
  <2>1. end'[d][s] = "accepted" /\ end[d][s] = "asking"
    BY <1>4 DEF TakeWelcome, Asking, Move, TypeOK
  <2>2. EndCloses(d, s) => EndCloses(d, s)'
    BY <1>4, <2>1 DEF TakeWelcome, EndCloses
  <2>3. \A e \in Device, t \in Slots : Tells(wire'[e][t], ~trusted'[Peer(e)])
    BY <1>4, <2>0, ReadTells DEF TakeWelcome, Asking
  <2> QED  BY <1>4, <2>0, <2>2, <2>3, MovingEbbs DEF TakeWelcome, Ends
<1>5. CASE TakeNotPaired(d, s)
  <2>1. ~trusted[Peer(d)]  BY <1>5, HeadTells DEF TakeNotPaired, Asking
  <2>2. Falls  BY <1>5, <2>1 DEF TakeNotPaired, Falls, TypeOK
  <2> QED  BY <1>5, <2>2, DroppingEbbs DEF TakeNotPaired
<1>6. CASE TakeDone(d, s)  BY <1>6, HeadTells DEF TakeDone, Asking
<1>7. CASE TakeWrongCode(d, s)  BY <1>7, HeadTells DEF TakeWrongCode, Asking
<1>8. CASE HandshakeFails(d, s)
  BY <1>8, StillFalls, DroppingEbbs DEF HandshakeFails, local
<1> QED  BY <1>1, <1>2, <1>3, <1>4, <1>5, <1>6, <1>7, <1>8 DEF HandshakeStep

(* Registration ebbs: trust is checked again. *)
LEMMA RegisterEbbs ==
    ASSUME Inv, Quiet, NEW d \in Device, NEW s \in Slots, Register(d, s)
    PROVE  Quiet' /\ Ebbs
<1> TypeOK  BY DEF Inv, WellFormed
<1>0. Falls  BY StillFalls DEF Register
<1>1. CASE Declined(d, s)  BY <1>0, <1>1, DroppingEbbs DEF Register
<1>2. CASE ~Declined(d, s)
  <2>1. trusted[d] /\ end[d][s] = "accepted" /\ ~killed[d][s] /\ trusted' = trusted
    BY <1>2 DEF Register, Declined
  <2>2. /\ \A e \in Device, t \in Slots : end'[e][t] = IF e = d /\ t = s THEN "open" ELSE end[e][t]
        /\ \A e \in Device, t \in Slots : killed[e][t] => killed'[e][t]
        /\ goal' = goal /\ wire' = wire /\ removing' = removing
    <3>1. \A e \in Device, t \in Slots :
             end'[e][t] = IF e = d /\ t = s THEN "open" ELSE end[e][t]
      BY <1>2 DEF Register, Move, TypeOK
    <3>2. \A e \in Device, t \in Slots : killed[e][t] => killed'[e][t]
      <4>1. killed' = [killed EXCEPT ![d] = [t \in Slots |-> killed[d][t] \/ t = registry[d]]]
        BY <1>2 DEF Register
      <4>2. \A e \in Device : e # d => killed'[e] = killed[e]  BY <4>1 DEF TypeOK
      <4>3. \A t \in Slots : killed'[d][t] = (killed[d][t] \/ t = registry[d])
        BY <4>1, Zenon DEF TypeOK
      <4> QED  BY <4>2, <4>3
    <3> QED  BY <1>2, <3>1, <3>2 DEF Register
  <2>3. Quiet'  BY <2>1, <2>2 DEF Quiet
  <2>4. \A e \in Device, t \in Slots : Live(e, t)' => Live(e, t) \/ trusted'[e]
    BY <2>1, <2>2 DEF Live
  <2>5. ~EndCloses(d, s)  BY <2>1 DEF EndCloses, Quiet
  <2>6. \A e \in Device, t \in Slots : EndCloses(e, t) => EndCloses(e, t)'
    <3> SUFFICES ASSUME NEW e \in Device, NEW t \in Slots, EndCloses(e, t)
                 PROVE  EndCloses(e, t)'
      OBVIOUS
    <3> QED  BY <2>1, <2>2, <2>5 DEF EndCloses
  <2> QED  BY <1>0, <2>3, <2>4, <2>6 DEF Ebbs, Falls
<1> QED  BY <1>1, <1>2

(* The steps of a session ebb: an unpair message is true of the present. *)
LEMMA SessionEbbs ==
    ASSUME Inv, Quiet, NEW d \in Device, NEW s \in Slots, SessionStep(d, s)
    PROVE  Quiet' /\ Ebbs
<1> TypeOK  BY DEF Inv, WellFormed
<1>1. CASE RegisterStopped(d, s)
  <2>0. Falls  BY <1>1, StillFalls DEF RegisterStopped, local
  <2>1. CASE Drop(d, s)  BY <1>1, <2>0, <2>1, DroppingEbbs DEF RegisterStopped, local
  <2>2. CASE trusted[d] /\ Move(d, s, "open") /\ UNCHANGED <<dialer, goal, wire, killed>>
    <3>1. EndCloses(d, s)'  BY <1>1, <2>2 DEF RegisterStopped, EndCloses
    <3>2. \A e \in Device, t \in Slots : Tells(wire'[e][t], ~trusted'[Peer(e)])
      BY <1>1, <2>2 DEF RegisterStopped, local, Quiet
    <3> QED  BY <1>1, <2>0, <2>2, <3>1, <3>2, MovingEbbs DEF RegisterStopped, Ends, local
  <2> QED  BY <1>1, <2>1, <2>2 DEF RegisterStopped
<1>2. CASE TakeUnpair(d, s)
  <2>1. ~trusted[Peer(d)]  BY <1>2, HeadTells DEF TakeUnpair
  <2>2. Falls  BY <1>2, <2>1 DEF TakeUnpair, Falls, TypeOK
  <2>3. end'[d][s] = "ending"  BY <1>2 DEF TakeUnpair, Move, TypeOK
  <2>4. EndCloses(d, s)'  BY <2>3 DEF EndCloses
  <2>5. \A e \in Device, t \in Slots : Tells(wire'[e][t], ~trusted'[Peer(e)])
    BY <1>2, <2>2, ReadTells DEF TakeUnpair
  <2> QED  BY <1>2, <2>2, <2>4, <2>5, MovingEbbs DEF TakeUnpair, Ends
<1>3. CASE SessionEnds(d, s)
  <2>0. Falls  BY <1>3, StillFalls DEF SessionEnds, local
  <2>1. end'[d][s] = "ending"  BY <1>3 DEF SessionEnds, Move, TypeOK
  <2>2. EndCloses(d, s)'  BY <2>1 DEF EndCloses
  <2>3. \A e \in Device, t \in Slots : Tells(wire'[e][t], ~trusted'[Peer(e)])
    BY <1>3 DEF SessionEnds, local, Quiet
  <2> QED  BY <1>3, <2>0, <2>2, <2>3, MovingEbbs DEF SessionEnds, Ends, local
<1>4. CASE Unregister(d, s)  BY <1>4, StillFalls, DroppingEbbs DEF Unregister
<1> QED  BY <1>1, <1>2, <1>3, <1>4, RegisterEbbs DEF SessionStep

(* A removal ebbs: it finds the only session in the registry. *)
LEMMA RemoveEbbs ==
    ASSUME Inv, Quiet, NEW d \in Device, RemoveStep(d)
    PROVE  Quiet' /\ Ebbs
<1> TypeOK /\ OneSession  BY DEF Inv, WellFormed
<1>1. CASE RemoveDevice(d)
  <2>0. /\ \A e \in Device : trusted'[e] = (trusted[e] /\ e # d)
        /\ \A e \in Device : \A x \in removing'[e] : x \in removing[e] \/ e = d
        /\ \A e \in Device : removing[e] \subseteq removing'[e]
        /\ goal' = goal /\ wire' = wire /\ end' = end /\ killed' = killed
    BY <1>1 DEF RemoveDevice, TypeOK, net
  <2>1. \A e \in Device, t \in Slots : Tells(wire'[e][t], ~trusted'[Peer(e)])
    <3> SUFFICES ASSUME NEW e \in Device, NEW t \in Slots
                 PROVE  Tells(wire[e][t], ~trusted'[Peer(e)])
      BY <2>0
    <3>1. Tells(wire[e][t], ~trusted[Peer(e)])  BY DEF Quiet
    <3>2. trusted'[Peer(e)] => trusted[Peer(e)]  BY <2>0, PeerOther
    <3> QED  BY <3>1, <3>2 DEF Tells
  <2>2. \A e \in Device, t \in Slots, step \in RemoveSteps :
           <<t, step>> \in removing'[e] => ~trusted'[e]
    BY <2>0 DEF Quiet
  <2>3. Quiet'  BY <2>0, <2>1, <2>2 DEF Quiet
  <2>4. \A t \in Slots : Live(d, t)' => EndCloses(d, t)'
    <3> SUFFICES ASSUME NEW t \in Slots, Live(d, t)' PROVE EndCloses(d, t)'
      OBVIOUS
    <3>1. registry[d] = t  BY <2>0 DEF OneSession, Live
    <3>2. registry[d] # NoSlot  BY <3>1, SlotAssumption
    <3>3. <<t, "tell">> \in removing'[d]  BY <1>1, <3>1, <3>2 DEF RemoveDevice, TypeOK
    <3> QED  BY <3>3 DEF EndCloses, RemoveSteps
  <2>5. \A e \in Device, t \in Slots : EndCloses(e, t) => EndCloses(e, t)'
    BY <2>0 DEF EndCloses
  <2> QED  BY <2>0, <2>3, <2>4, <2>5 DEF Ebbs, Live
<1>2. ASSUME NEW s \in Slots, TellRemoved(d, s) PROVE Quiet' /\ Ebbs
  <2>0. Falls /\ trusted' = trusted  BY <1>2, StillFalls DEF TellRemoved
  <2>1. <<s, "tell">> \in removing[d] /\ ~trusted[d]
    BY <1>2 DEF TellRemoved, Quiet, RemoveSteps
  <2>2. \A e \in Device, t \in Slots : Tells(wire'[e][t], ~trusted'[Peer(e)])
    <3>1. CASE Send(d, s, "unpair")  BY <2>0, <2>1, <3>1, SendTells DEF Messages
    <3>2. CASE UNCHANGED wire  BY <2>0, <3>2 DEF Quiet
    <3> QED  BY <1>2, <3>1, <3>2 DEF TellRemoved
  <2>3. /\ \A e \in Device : e # d => removing'[e] = removing[e]
        /\ \A x \in removing[d] : x \in removing'[d] \/ x = <<s, "tell">>
        /\ <<s, "kill">> \in removing'[d]
    BY <1>2 DEF TellRemoved, TypeOK
  <2>4. \A e \in Device, t \in Slots, step \in RemoveSteps :
           <<t, step>> \in removing'[e] => ~trusted'[e]
    BY <2>0, <2>1, <2>3 DEF Quiet
  <2>5. goal' = goal /\ end' = end /\ killed' = killed  BY <1>2 DEF TellRemoved
  <2>6. Quiet'  BY <2>2, <2>4, <2>5 DEF Quiet
  <2>7. \A e \in Device, t \in Slots : EndCloses(e, t) => EndCloses(e, t)'
    <3> SUFFICES ASSUME NEW e \in Device, NEW t \in Slots, EndCloses(e, t)
                 PROVE  EndCloses(e, t)'
      OBVIOUS
    <3>1. CASE \E step \in RemoveSteps : <<t, step>> \in removing[e]
      <4>1. \E step \in RemoveSteps : <<t, step>> \in removing'[e]
        BY <2>3, <3>1 DEF RemoveSteps
      <4> QED  BY <4>1 DEF EndCloses
    <3>2. CASE ~\E step \in RemoveSteps : <<t, step>> \in removing[e]
      BY <2>0, <2>5, <3>2 DEF EndCloses
    <3> QED  BY <3>1, <3>2
  <2>8. \A e \in Device, t \in Slots : Live(e, t)' => Live(e, t)  BY <2>5 DEF Live
  <2> QED  BY <2>0, <2>6, <2>7, <2>8 DEF Ebbs, Falls
<1>3. ASSUME NEW s \in Slots, KillRemoved(d, s) PROVE Quiet' /\ Ebbs
  <2>0. Falls /\ trusted' = trusted  BY <1>3, StillFalls DEF KillRemoved
  <2>1. /\ \A e \in Device : removing'[e] \subseteq removing[e]
        /\ \A e \in Device : \A x \in removing[e] : x \in removing'[e] \/ (e = d /\ x = <<s, "kill">>)
        /\ \A e \in Device, t \in Slots : e # d \/ t # s => killed'[e][t] = killed[e][t]
        /\ killed'[d][s] = (end[d][s] # "none")
    BY <1>3 DEF KillRemoved, TypeOK
  <2>2. goal' = goal /\ end' = end /\ wire' = wire  BY <1>3 DEF KillRemoved
  <2>3. Quiet'  BY <2>0, <2>1, <2>2 DEF Quiet
  <2>4. \A e \in Device, t \in Slots : EndCloses(e, t) => EndCloses(e, t)'
    <3> SUFFICES ASSUME NEW e \in Device, NEW t \in Slots, EndCloses(e, t)
                 PROVE  EndCloses(e, t)'
      OBVIOUS
    <3>1. CASE e = d /\ t = s  BY <2>1, <2>2, <3>1 DEF EndCloses
    <3>2. CASE ~(e = d /\ t = s)
      <4>1. \A step \in RemoveSteps : <<t, step>> \in removing[e] => <<t, step>> \in removing'[e]
        BY <2>1, <3>2
      <4> QED  BY <2>0, <2>1, <2>2, <3>2, <4>1 DEF EndCloses
    <3> QED  BY <3>1, <3>2
  <2>5. \A e \in Device, t \in Slots : Live(e, t)' => Live(e, t)
    <3> SUFFICES ASSUME NEW e \in Device, NEW t \in Slots, end[e][t] = "open", ~killed'[e][t]
                 PROVE  Live(e, t)
      BY <2>2 DEF Live
    <3> QED  BY <2>1 DEF Live
  <2> QED  BY <2>0, <2>3, <2>4, <2>5 DEF Ebbs, Falls
<1> QED  BY <1>1, <1>2, <1>3 DEF RemoveStep

(* Stopping ebbs. *)
LEMMA StopEbbs ==
    ASSUME Inv, Quiet, NEW d \in Device, StopSync(d)
    PROVE  Quiet' /\ Ebbs
<1> TypeOK  BY DEF Inv, WellFormed
<1>0. Falls /\ trusted' = trusted  BY StillFalls DEF StopSync
<1>1. /\ \A e \in Device, t \in Slots :
            killed'[e][t] = IF e = d THEN end[e][t] # "none" ELSE killed[e][t]
      /\ goal' = goal /\ end' = end /\ wire' = wire /\ removing' = removing
  BY DEF StopSync, TypeOK
<1>2. Quiet'  BY <1>0, <1>1 DEF Quiet
<1>3. \A e \in Device, t \in Slots : EndCloses(e, t) => EndCloses(e, t)'
  BY <1>0, <1>1 DEF EndCloses
<1>4. \A e \in Device, t \in Slots : Live(e, t)' => Live(e, t)  BY <1>1 DEF Live
<1> QED  BY <1>0, <1>2, <1>3, <1>4 DEF Ebbs, Falls

(* A restart ebbs. *)
LEMMA RestartEbbs ==
    ASSUME Inv, Quiet, NEW d \in Device, Restart(d)
    PROVE  Quiet' /\ Ebbs
<1> TypeOK  BY DEF Inv, WellFormed
<1>0. Falls /\ trusted' = trusted  BY StillFalls DEF Restart
<1>1. /\ \A e \in Device, t \in Slots : end'[e][t] = IF e = d THEN "none" ELSE end[e][t]
      /\ \A e \in Device, t \in Slots : e # d => killed'[e][t] = killed[e][t]
      /\ \A e \in Device, t \in Slots : wire'[e][t] = IF e = d THEN <<>> ELSE wire[e][t]
      /\ \A e \in Device : removing'[e] = IF e = d THEN {} ELSE removing[e]
      /\ \A t \in Slots : goal'[t] = goal[t] \/ goal'[t] = "none"
  BY DEF Restart, TypeOK
<1>2. Quiet'
  <2>1. \A e \in Device, t \in Slots : Tells(wire'[e][t], ~trusted'[Peer(e)])
    BY <1>0, <1>1, PeerOther, TellsNothing DEF Quiet
  <2> QED  BY <1>0, <1>1, <2>1 DEF Quiet
<1>3. \A e \in Device, t \in Slots : EndCloses(e, t) => EndCloses(e, t)'
  BY <1>0, <1>1 DEF EndCloses
<1>4. \A e \in Device, t \in Slots : Live(e, t)' => Live(e, t)  BY <1>1 DEF Live
<1> QED  BY <1>0, <1>2, <1>3, <1>4 DEF Ebbs, Falls

(* A device that has removed its peer is left with no session that nothing *)
(* ends, as long as nobody pairs the two again: a rejection or an unpair   *)
(* message of the former pairing is then true of the present.              *)
THEOREM UntrustedSessionsEnd ==
    ASSUME "pair" \notin Events
    PROVE  Spec => []UntrustedSessionEnds
<1> DEFINE Safe == Inv /\ Quiet /\ UntrustedSessionEnds
<1>1. Init => Safe
  <2> SUFFICES ASSUME Init PROVE Safe  OBVIOUS
  <2>1. Quiet  BY DEF Init, Quiet, Tells, Device, Peer
  <2>2. UntrustedSessionEnds  BY DEF Init, UntrustedSessionEnds, Live
  <2> QED  BY <2>1, <2>2, InitInv
<1>2. Safe /\ [Next]_vars => Safe'
  <2> SUFFICES ASSUME Inv, Quiet, UntrustedSessionEnds, [Next]_vars
               PROVE  Safe'
    OBVIOUS
  <2>1. Inv'  BY NextKeepsInv
  <2>2. Quiet' /\ Ebbs
    <3>1. CASE UNCHANGED vars  BY <3>1, WaitingEbbs DEF vars, local
    <3>2. CASE Next
      BY <3>2, DialEbbs, RemoveEbbs, HandshakeEbbs, SessionEbbs, StopEbbs, RestartEbbs DEF Next
    <3> QED  BY <3>1, <3>2
  <2>3. UntrustedSessionEnds'  BY <2>2, EbbingSuffices
  <2> QED  BY <2>1, <2>2, <2>3
<1>3. Safe => UntrustedSessionEnds  OBVIOUS
<1> QED  BY <1>1, <1>2, <1>3, PTL DEF Spec
=============================================================================
