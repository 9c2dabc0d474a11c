------------------------------- MODULE Inbox -------------------------------
(* One pane's inbox (internal/team/store.go): what each call of the store     *)
(* does to the messages in it. Each call is one region under the store's      *)
(* lock, so it is written here as an operator from box to box; the modules    *)
(* that use it say who calls it and when.                                     *)
(*                                                                            *)
(* A message is a state and how many of its turns have begun. On the prompt   *)
(* route it is queued, delivered, handled or undeliverable; on the terminal   *)
(* route it is unread or read. Ids are given in order (s.next), so the oldest *)
(* message of a box is the one with the lowest id. The ages at which Load     *)
(* forgets messages are left out.                                             *)
EXTENDS Naturals, FiniteSets

CONSTANTS
    MaxMessages, \* how many messages are ever sent to the pane (a bound)
    MaxAttempts, \* MaxAttempts
    MaxInbox     \* MaxInbox

ASSUME InboxAssumption == {MaxMessages, MaxAttempts, MaxInbox} \subseteq Nat \ {0}

Messages == 1..MaxMessages
PromptStates == {"queued", "delivered", "handled", "undeliverable"}
Message == [state : {"none", "unread", "read"} \cup PromptStates, attempts : 0..MaxAttempts]
NoMessage == [state |-> "none", attempts |-> 0]
EmptyBox == [m \in Messages |-> NoMessage]

In(box, states) == {m \in Messages : box[m].state \in states}

\* Finished: nothing more will happen to the message.
Finished(message) == message.state \in {"handled", "undeliverable", "read"}
\* Unfinished mail on the prompt route, which is what Panes looks for.
Open(box) == In(box, {"queued", "delivered"})
Pending(box) == In(box, {"queued"})
InFlight(box) == In(box, {"delivered"})

\* SendRoute: a full box makes room by dropping its oldest finished message.
Held(box) == Messages \ In(box, {"none"})
Oldest(S) == {m \in S : \A n \in S : m <= n}
Spare(box) == Oldest({m \in Held(box) : Finished(box[m])})
FullOverByOne(box) == Cardinality(Held(box)) > MaxInbox
Full(box) == Cardinality(Held(box)) >= MaxInbox
MakeRoomOfAny(box) == IF Full(box) THEN Oldest(Held(box)) ELSE {}
MakeRoom(box) == IF Full(box) THEN Spare(box) ELSE {}
CanPut(box) == Full(box) => MakeRoom(box) # {}
Put(box, m, route) ==
    [n \in Messages |-> IF n = m THEN [state |-> route, attempts |-> 0]
                        ELSE IF n \in MakeRoom(box) THEN NoMessage
                        ELSE box[n]]

\* Deliver: the turn of a queued message begins, which is one of its attempts.
DeliverUncounted(box, m) ==
    IF box[m].state = "queued" THEN [box EXCEPT ![m].state = "delivered"] ELSE box
Deliver(box, m) ==
    IF box[m].state = "queued"
    THEN [box EXCEPT ![m] = [state |-> "delivered", attempts |-> @.attempts + 1]]
    ELSE box

\* What becomes of a message whose newest attempt came to nothing.
Retried(message) ==
    [message EXCEPT !.state = IF message.attempts >= MaxAttempts THEN "undeliverable" ELSE "queued"]

\* end, for EndTurn, EndTurnAsked and Interrupted: it touches a delivered message only.
EndAnyState(box, m, handled) ==
    IF box[m].state \in PromptStates
    THEN [box EXCEPT ![m] = IF handled THEN [@ EXCEPT !.state = "handled"] ELSE Retried(@)]
    ELSE box
End(box, m, handled) ==
    IF box[m].state = "delivered"
    THEN [box EXCEPT ![m] = IF handled THEN [@ EXCEPT !.state = "handled"] ELSE Retried(@)]
    ELSE box
Interrupted(box, m) == End(box, m, FALSE)

\* Fail: the runtime would not take a queued message, which is an attempt too.
Tried(message) == [message EXCEPT !.attempts = @ + 1]
Fail(box, m) ==
    IF box[m].state = "queued"
    THEN [box EXCEPT ![m] = Retried(Tried(@))]
    ELSE box

\* Reroute: what is unfinished on the prompt route becomes unread terminal mail.
Reroute(box) ==
    [m \in Messages |-> IF m \in Open(box) THEN [state |-> "unread", attempts |-> 0] ELSE box[m]]

\* Read: it marks terminal mail, and leaves a message on the prompt route alone.
Read(box, m) == IF box[m].state = "unread" THEN [box EXCEPT ![m].state = "read"] ELSE box

\* Load: a message that was delivered lost its agent with the process.
RestoredToSend(box) ==
    [m \in Messages |-> IF box[m].state = "delivered" THEN [box[m] EXCEPT !.state = "queued"] ELSE box[m]]
Restored(box) ==
    [m \in Messages |-> IF box[m].state = "delivered" THEN Retried(box[m]) ELSE box[m]]

TypeOfBox == [Messages -> Message]
\* What still waits has turns left (MaxAttempts).
HasTurnsLeft(box) == \A m \in Pending(box) : box[m].attempts < MaxAttempts
=============================================================================
