---------------------------- MODULE LanSessions ----------------------------
(***************************************************************************)
(* Sessions between two devices: pairing, dialling from both sides, the    *)
(* registry that keeps one connection per peer, and the end of a pairing.  *)
(*                                                                         *)
(*   dialer    dial_loop -> dial -> hello ... reply -> run_session         *)
(*   listener  handle_incoming -> welcome | reject | pairDone              *)
(*             -> run_session                                              *)
(*   both      register -> read_loop -> unregister; revoke at any time     *)
(*                                                                         *)
(* The devices differ by id: the one with the smaller id is the preferred  *)
(* dialer.  A slot is a TCP connection and is used again once both ends    *)
(* and every task that holds its kill switch are done with it.             *)
(***************************************************************************)
EXTENDS Naturals, Sequences, FiniteSets

CONSTANTS
    Slots,      \* connections that may exist at one time
    NoSlot,     \* no connection is registered
    OldPair,    \* whether each device starts with the other one paired
    QueueCap,   \* OUTGOING_QUEUE, as far as unpair messages fill it
    Events      \* what the environment of an instance may do

Device == {"low", "high"}
Peer(d) == IF d = "low" THEN "high" ELSE "low"

EventKinds == {"drop", "connect", "pair", "remove", "stop", "restart"}

ASSUME SlotAssumption  == NoSlot \notin Slots
ASSUME PairAssumption  == OldPair \in [Device -> BOOLEAN]
ASSUME QueueAssumption == QueueCap \in Nat \ {0}
ASSUME EventAssumption == Events \subseteq EventKinds

VARIABLES
    trusted,    \* PeerStore: the device has the other one among its peers
    dialing,    \* DialState.dialing
    waiting,    \* DialState.next_at lies ahead
    registry,   \* Shared.connections: the connection to the other device
    removing,   \* remove_device after its revoke: slots it is about to close
    dialer,     \* who opened the connection
    goal,       \* why: DialGoal
    end,        \* what each device is doing with the connection
    wire,       \* messages on their way to the device
    killed      \* the kill switch of the device's end

local == <<trusted, dialing, waiting, registry, removing>>
net   == <<dialer, goal, end, wire, killed>>
vars  == <<local, net>>

Goals == {"none",     \* no connection
          "sync",     \* dial_loop, to a paired device
          "any",      \* connect, by address
          "pair"}     \* pair, with a code

Ends == {"none",      \* no task of this device holds the connection
         "asking",    \* dialer: hello sent, waiting for the answer
         "greeted",   \* listener: waiting for the hello
         "proven",    \* listener: pairDone sent, peer not added yet
         "accepted",  \* about to register
         "open",      \* read_loop runs
         "ending"}    \* read_loop has returned, not unregistered yet

Messages == {"welcome", "notPaired", "wrongCode", "done", "unpair"}
RemoveSteps == {"tell", "kill"}

Init ==
    /\ trusted = OldPair
    /\ dialing = [d \in Device |-> FALSE]
    /\ waiting = [d \in Device |-> FALSE]
    /\ registry = [d \in Device |-> NoSlot]
    /\ removing = [d \in Device |-> {}]
    /\ dialer = [s \in Slots |-> "low"]
    /\ goal = [s \in Slots |-> "none"]
    /\ end = [d \in Device |-> [s \in Slots |-> "none"]]
    /\ wire = [d \in Device |-> [s \in Slots |-> <<>>]]
    /\ killed = [d \in Device |-> [s \in Slots |-> FALSE]]

(***************************************************************************)
(* Dialling                                                                *)
(***************************************************************************)
Free(s) ==
    /\ goal[s] = "none"
    /\ \A d \in Device, step \in RemoveSteps : <<s, step>> \notin removing[d]

Gone(d, s) == end[Peer(d)][s] = "none"      \* the other end

Move(d, s, to) == end' = [end EXCEPT ![d][s] = to]
Sent(d, s, m)  == IF Gone(d, s) THEN wire[Peer(d)][s] ELSE Append(wire[Peer(d)][s], m)
Send(d, s, m)  == wire' = [wire EXCEPT ![Peer(d)][s] = Sent(d, s, m)]
Read(d, s)     == wire' = [wire EXCEPT ![d][s] = Tail(@)]

(* The end is closed, leaving `rest` for the other end to read.            *)
Leave(d, s, rest) ==
    /\ Move(d, s, "none")
    /\ wire' = [wire EXCEPT ![d][s] = <<>>, ![Peer(d)][s] = rest]
    /\ killed' = [killed EXCEPT ![d][s] = FALSE]
    /\ dialer' = IF Gone(d, s) THEN [dialer EXCEPT ![s] = "low"] ELSE dialer
    /\ goal' = IF Gone(d, s) THEN [goal EXCEPT ![s] = "none"] ELSE goal
Drop(d, s) == Leave(d, s, wire[Peer(d)][s])

(* TCP, Noise handshake and hello: both devices are at the connection.     *)
Connect(d, s, g) ==
    /\ Free(s)
    /\ dialer' = [dialer EXCEPT ![s] = d]
    /\ goal' = [goal EXCEPT ![s] = g]
    /\ end' = [end EXCEPT ![d][s] = "asking", ![Peer(d)][s] = "greeted"]
    /\ UNCHANGED <<wire, killed>>

(* The automatic dial of d is on this connection.                          *)
Dials(d, s) == dialer[s] = d /\ goal[s] = "sync" /\ end[d][s] = "asking" /\ ~killed[d][s]

(* dial_candidates: paired, not connected, not being dialled, not waiting. *)
StartDial(d) ==
    /\ trusted[d] /\ registry[d] = NoSlot /\ ~dialing[d] /\ ~waiting[d]
    /\ dialing' = [dialing EXCEPT ![d] = TRUE]
    /\ UNCHANGED <<trusted, waiting, registry, removing, net>>

(* dial_peer tries one address after the other.                            *)
DialAddress(d, s) ==
    /\ dialing[d] /\ trusted[d]
    /\ \A t \in Slots : ~Dials(d, t)
    /\ Connect(d, s, "sync")
    /\ UNCHANGED local

FinishDial(d, connected) ==
    /\ dialing' = [dialing EXCEPT ![d] = FALSE]
    /\ waiting' = [waiting EXCEPT ![d] = ~connected]

(* No address is left: finish_dial(false).                                 *)
DialGivesUp(d) ==
    /\ dialing[d]
    /\ \A t \in Slots : ~Dials(d, t)
    /\ FinishDial(d, FALSE)
    /\ UNCHANGED <<trusted, registry, removing, net>>

(* The wait is over, or the device is discovered again.                    *)
BackoffOver(d) ==
    /\ waiting[d]
    /\ waiting' = [waiting EXCEPT ![d] = FALSE]
    /\ UNCHANGED <<trusted, dialing, registry, removing, net>>

ConnectTo(d, s) ==
    /\ "connect" \in Events
    /\ trusted[d]
    /\ Connect(d, s, "any")
    /\ UNCHANGED local

PairWith(d, s) ==
    /\ "pair" \in Events
    /\ Connect(d, s, "pair")
    /\ UNCHANGED local

(***************************************************************************)
(* Handshake                                                               *)
(***************************************************************************)

(* handle_incoming, intent sync.                                           *)
AnswerSync(d, s) ==
    /\ end[d][s] = "greeted" /\ goal[s] # "pair"
    /\ IF trusted[d]
       THEN Send(d, s, "welcome") /\ Move(d, s, "accepted") /\ UNCHANGED <<dialer, goal, killed>>
       ELSE Leave(d, s, Sent(d, s, "notPaired"))
    /\ UNCHANGED local

(* handle_incoming, intent pair: accept_pairing up to pairDone.  The two   *)
(* messages in between change nothing here; the code may be wrong or used  *)
(* up.                                                                     *)
AnswerPair(d, s) ==
    /\ end[d][s] = "greeted" /\ goal[s] = "pair"
    /\ \/ Leave(d, s, Sent(d, s, "wrongCode"))
       \/ Send(d, s, "done") /\ Move(d, s, "proven") /\ UNCHANGED <<dialer, goal, killed>>
    /\ UNCHANGED local

(* accept_pairing: the peer is added after pairDone has been sent.         *)
CommitPair(d, s) ==
    /\ end[d][s] = "proven"
    /\ trusted' = [trusted EXCEPT ![d] = TRUE]
    /\ Move(d, s, "accepted")
    /\ UNCHANGED <<dialing, waiting, registry, removing, dialer, goal, wire, killed>>

Asking(d, s, m) == end[d][s] = "asking" /\ wire[d][s] # <<>> /\ Head(wire[d][s]) = m

(* dial: the session starts in a task of its own, the dial is over.        *)
TakeWelcome(d, s) ==
    /\ Asking(d, s, "welcome")
    /\ Read(d, s) /\ Move(d, s, "accepted")
    /\ IF Dials(d, s) THEN FinishDial(d, TRUE) ELSE UNCHANGED <<dialing, waiting>>
    /\ UNCHANGED <<trusted, registry, removing, dialer, goal, killed>>

(* dial_peer: the other device has removed this one, which follows.  A     *)
(* connect by address only reports it.                                     *)
TakeNotPaired(d, s) ==
    /\ Asking(d, s, "notPaired")
    /\ Drop(d, s)
    /\ trusted' = IF goal[s] = "sync" THEN [trusted EXCEPT ![d] = FALSE] ELSE trusted
    /\ IF Dials(d, s) THEN FinishDial(d, FALSE) ELSE UNCHANGED <<dialing, waiting>>
    /\ UNCHANGED <<registry, removing>>

TakeDone(d, s) ==
    /\ Asking(d, s, "done")
    /\ Read(d, s) /\ Move(d, s, "accepted")
    /\ trusted' = [trusted EXCEPT ![d] = TRUE]
    /\ UNCHANGED <<dialing, waiting, registry, removing, dialer, goal, killed>>

TakeWrongCode(d, s) ==
    /\ Asking(d, s, "wrongCode")
    /\ Drop(d, s)
    /\ UNCHANGED local

(* The end of the stream.                                                  *)
AtEnd(d, s) == Gone(d, s) /\ wire[d][s] = <<>>

(* A read or write of the handshake fails or takes too long.               *)
HandshakeFails(d, s) ==
    /\ end[d][s] \in {"asking", "greeted"}
    /\ AtEnd(d, s) \/ "drop" \in Events
    /\ Drop(d, s)
    /\ UNCHANGED local

(***************************************************************************)
(* Sessions                                                                *)
(***************************************************************************)

(* The connection was opened by the device with the smaller id.            *)
Preferred(s) == dialer[s] = "low"

(* Mutants: trust is checked at the hello only; each device keeps its own. *)
Declined_NoRecheck(d, s) ==
    registry[d] # NoSlot /\ Preferred(registry[d]) /\ ~Preferred(s)
Declined_OwnDial(d, s) ==
    \/ ~trusted[d]
    \/ registry[d] # NoSlot /\ dialer[registry[d]] = d /\ dialer[s] # d

Declined(d, s) ==
    \/ ~trusted[d]
    \/ registry[d] # NoSlot /\ Preferred(registry[d]) /\ ~Preferred(s)

(* Mutant: the connection found there is not told to stop. *)
Register_KeepsOld(d, s) ==
    /\ end[d][s] = "accepted" /\ ~killed[d][s]
    /\ IF Declined(d, s)
       THEN Drop(d, s) /\ UNCHANGED <<registry, waiting>>
       ELSE /\ Move(d, s, "open")
            /\ registry' = [registry EXCEPT ![d] = s]
            /\ waiting' = [waiting EXCEPT ![d] = FALSE]
            /\ UNCHANGED <<dialer, goal, wire, killed>>
    /\ UNCHANGED <<trusted, dialing, removing>>

(* run_session, register: trust is checked again under the registry lock;  *)
(* the connection found there is told to stop.  An end of a stopped        *)
(* runtime registers with that runtime.                                    *)
Register(d, s) ==
    /\ end[d][s] = "accepted" /\ ~killed[d][s]
    /\ IF Declined(d, s)
       THEN Drop(d, s) /\ UNCHANGED <<registry, waiting>>
       ELSE /\ Move(d, s, "open")
            /\ registry' = [registry EXCEPT ![d] = s]
            /\ killed' = [killed EXCEPT ![d] = [t \in Slots |-> @[t] \/ t = registry[d]]]
            /\ waiting' = [waiting EXCEPT ![d] = FALSE]
            /\ UNCHANGED <<dialer, goal, wire>>
    /\ UNCHANGED <<trusted, dialing, removing>>

RegisterStopped(d, s) ==
    /\ end[d][s] = "accepted" /\ killed[d][s]
    /\ \/ trusted[d] /\ Move(d, s, "open") /\ UNCHANGED <<dialer, goal, wire, killed>>
       \/ /\ \/ ~trusted[d]
             \/ \E t \in Slots : end[d][t] \in {"open", "ending"} /\ Preferred(t) /\ ~Preferred(s)
          /\ Drop(d, s)
    /\ UNCHANGED local

(* read_loop, unpair: revoke; the loop returns.                            *)
TakeUnpair(d, s) ==
    /\ end[d][s] = "open" /\ wire[d][s] # <<>>
    /\ Head(wire[d][s]) = "unpair"
    /\ Read(d, s) /\ Move(d, s, "ending")
    /\ trusted' = [trusted EXCEPT ![d] = FALSE]
    /\ UNCHANGED <<dialing, waiting, registry, removing, dialer, goal, killed>>

(* read_loop returns: told to stop, end of stream, error or silence.       *)
SessionEnds(d, s) ==
    /\ end[d][s] = "open"
    /\ killed[d][s] \/ AtEnd(d, s) \/ "drop" \in Events
    /\ Move(d, s, "ending")
    /\ UNCHANGED <<local, dialer, goal, wire, killed>>

(* Mutants: whatever is registered is removed; nothing is. *)
Unregister_Any(d, s) ==
    /\ end[d][s] = "ending"
    /\ Drop(d, s)
    /\ registry' = [registry EXCEPT ![d] = NoSlot]
    /\ UNCHANGED <<trusted, dialing, waiting, removing>>
Unregister_Stays(d, s) ==
    /\ end[d][s] = "ending"
    /\ Drop(d, s)
    /\ UNCHANGED local

(* unregister: only its own entry.                                         *)
Unregister(d, s) ==
    /\ end[d][s] = "ending"
    /\ Drop(d, s)
    /\ registry' = IF registry[d] = s THEN [registry EXCEPT ![d] = NoSlot] ELSE registry
    /\ UNCHANGED <<trusted, dialing, waiting, removing>>

(***************************************************************************)
(* Removal, stop and restart                                               *)
(***************************************************************************)

(* remove_device: revoke; with a connection at hand the task goes on.      *)
RemoveDevice(d) ==
    /\ "remove" \in Events
    /\ trusted[d]
    /\ trusted' = [trusted EXCEPT ![d] = FALSE]
    /\ removing' = [removing EXCEPT ![d] =
                        IF registry[d] = NoSlot THEN @ ELSE @ \cup {<<registry[d], "tell">>}]
    /\ UNCHANGED <<dialing, waiting, registry, net>>

(* It sends unpair, if the queue has room and the writer gets to it, ...   *)
TellRemoved(d, s) ==
    /\ <<s, "tell">> \in removing[d]
    /\ removing' = [removing EXCEPT ![d] = (@ \ {<<s, "tell">>}) \cup {<<s, "kill">>}]
    /\ \/ /\ end[d][s] = "open" /\ Len(wire[Peer(d)][s]) <= QueueCap
          /\ Send(d, s, "unpair")
       \/ UNCHANGED wire
    /\ UNCHANGED <<trusted, dialing, waiting, registry, dialer, goal, end, killed>>

(* ... and closes the connection.                                          *)
KillRemoved(d, s) ==
    /\ <<s, "kill">> \in removing[d]
    /\ removing' = [removing EXCEPT ![d] = @ \ {<<s, "kill">>}]
    /\ killed' = [killed EXCEPT ![d][s] = end[d][s] # "none"]
    /\ UNCHANGED <<trusted, dialing, waiting, registry, dialer, goal, end, wire>>

(* Sync is switched off and on again: kill_all, a new registry; handshakes *)
(* under way go on in the old runtime.                                     *)
StopSync(d) ==
    /\ "stop" \in Events
    /\ registry' = [registry EXCEPT ![d] = NoSlot]
    /\ dialing' = [dialing EXCEPT ![d] = FALSE]
    /\ waiting' = [waiting EXCEPT ![d] = FALSE]
    /\ killed' = [killed EXCEPT ![d] = [s \in Slots |-> end[d][s] # "none"]]
    /\ UNCHANGED <<trusted, removing, dialer, goal, end, wire>>

(* The process dies and starts again; peers.json is what it had saved.     *)
Restart(d) ==
    /\ "restart" \in Events
    /\ registry' = [registry EXCEPT ![d] = NoSlot]
    /\ dialing' = [dialing EXCEPT ![d] = FALSE]
    /\ waiting' = [waiting EXCEPT ![d] = FALSE]
    /\ removing' = [removing EXCEPT ![d] = {}]
    /\ end' = [end EXCEPT ![d] = [s \in Slots |-> "none"]]
    /\ wire' = [wire EXCEPT ![d] = [s \in Slots |-> <<>>]]
    /\ killed' = [killed EXCEPT ![d] = [s \in Slots |-> FALSE]]
    /\ dialer' = [s \in Slots |-> IF Gone(d, s) THEN "low" ELSE dialer[s]]
    /\ goal' = [s \in Slots |-> IF Gone(d, s) THEN "none" ELSE goal[s]]
    /\ UNCHANGED trusted

(***************************************************************************)
(* The system                                                              *)
(***************************************************************************)
DialStep(d) ==
    \/ StartDial(d) \/ DialGivesUp(d) \/ BackoffOver(d)
    \/ \E s \in Slots : DialAddress(d, s) \/ ConnectTo(d, s) \/ PairWith(d, s)
HandshakeStep(d, s) ==
    \/ AnswerSync(d, s) \/ AnswerPair(d, s) \/ CommitPair(d, s)
    \/ TakeWelcome(d, s) \/ TakeNotPaired(d, s) \/ TakeDone(d, s) \/ TakeWrongCode(d, s)
    \/ HandshakeFails(d, s)
SessionStep(d, s) ==
    \/ Register(d, s) \/ RegisterStopped(d, s)
    \/ TakeUnpair(d, s) \/ SessionEnds(d, s) \/ Unregister(d, s)
RemoveStep(d) ==
    \/ RemoveDevice(d)
    \/ \E s \in Slots : TellRemoved(d, s) \/ KillRemoved(d, s)

Next ==
    \E d \in Device :
       \/ DialStep(d) \/ RemoveStep(d)
       \/ \E s \in Slots : HandshakeStep(d, s) \/ SessionStep(d, s)
       \/ StopSync(d) \/ Restart(d)

Spec == Init /\ [][Next]_vars

(* Every task that runs goes on, waits end, an end whose other end is gone *)
(* or that is told to stop notices.  A device that is dialled again and    *)
(* again is reached some time.  What the users do, and faults, may never   *)
(* happen.                                                                 *)
Fairness ==
    \A d \in Device :
       /\ WF_vars(StartDial(d)) /\ WF_vars(DialGivesUp(d)) /\ WF_vars(BackoffOver(d))
       /\ SF_vars(\E s \in Slots : DialAddress(d, s))
       /\ \A s \in Slots :
             /\ WF_vars(AtEnd(d, s) /\ HandshakeFails(d, s))
             /\ WF_vars(HandshakeStep(d, s) /\ ~HandshakeFails(d, s))
             /\ WF_vars(Register(d, s) \/ RegisterStopped(d, s) \/ Unregister(d, s))
             /\ WF_vars(TakeUnpair(d, s) \/ ((killed[d][s] \/ AtEnd(d, s)) /\ SessionEnds(d, s)))
             /\ WF_vars(TellRemoved(d, s) \/ KillRemoved(d, s))

FairSpec == Spec /\ Fairness

(***************************************************************************)
(* Properties                                                              *)
(***************************************************************************)
TypeOK ==
    /\ trusted \in [Device -> BOOLEAN]
    /\ dialing \in [Device -> BOOLEAN]
    /\ waiting \in [Device -> BOOLEAN]
    /\ registry \in [Device -> Slots \cup {NoSlot}]
    /\ removing \in [Device -> SUBSET (Slots \X RemoveSteps)]
    /\ dialer \in [Slots -> Device]
    /\ goal \in [Slots -> Goals]
    /\ end \in [Device -> [Slots -> Ends]]
    /\ wire \in [Device -> [Slots -> Seq(Messages)]]
    /\ killed \in [Device -> [Slots -> BOOLEAN]]

Live(d, s) == end[d][s] = "open" /\ ~killed[d][s]

(* The value of each variable has its shape; a slot that carries no        *)
(* connection has no ends, and a registry names no session that is over.   *)
RegistryInUse ==
    \A d \in Device : registry[d] # NoSlot => end[d][registry[d]] \in {"open", "ending"}
FreeSlots ==
    \A s \in Slots : goal[s] = "none" => \A d \in Device : end[d][s] = "none"
WellFormed == TypeOK /\ RegistryInUse /\ FreeSlots

(* A device has at most one session with the other one that is not told to *)
(* stop, and it is the registered one (register, unregister, kill_all): no *)
(* session runs on that revoke, stop or a newer connection cannot reach.   *)
OneSession ==
    \A d \in Device, s \in Slots : Live(d, s) => registry[d] = s

(* The connection comes to its end: an end of it is over, told to stop or  *)
(* about to be, or will not be registered.                                 *)
EndCloses(d, s) ==
    \/ end[d][s] \in {"none", "ending"} \/ killed[d][s]
    \/ \E step \in RemoveSteps : <<s, step>> \in removing[d]
    \/ end[d][s] \in {"asking", "greeted", "accepted"} /\ ~trusted[d]
Closing(s) == \E d \in Device : EndCloses(d, s)

(* A device that has removed its peer (remove_device, unpair, a rejected   *)
(* dial) is left with no session with it that nothing ends.                *)
UntrustedSessionEnds ==
    \A d \in Device, s \in Slots : Live(d, s) /\ ~trusted[d] => Closing(s)

Agreed ==
    \E s \in Slots : \A d \in Device : registry[d] = s /\ Live(d, s)
Parted ==
    \A d \in Device : ~trusted[d] /\ \A s \in Slots : ~Live(d, s)

(* What the users do, and faults.  A dial round that falls into the moment *)
(* between the end of a dial and the registration of its session counts as *)
(* one: it may happen, not for ever.                                       *)
Disturbance ==
    \E d \in Device :
       \/ StopSync(d) \/ Restart(d) \/ RemoveDevice(d)
       \/ \E s \in Slots : ConnectTo(d, s) \/ PairWith(d, s)
       \/ StartDial(d) /\ \E s \in Slots : end[d][s] = "accepted"

(* Left alone, the two devices come to share one connection that both have *)
(* registered, and keep it; or neither has the other paired any more.      *)
Settles == <>[][~Disturbance]_vars => <>[](Agreed \/ Parted)
=============================================================================
