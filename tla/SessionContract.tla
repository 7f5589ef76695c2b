--------------------------- MODULE SessionContract ---------------------------
(***************************************************************************)
(* What a session promises about the messages of a client, wherever its    *)
(* code reads and keeps them: they are one queue, of which one message at a*)
(* time is handled.  The next one is always the first that waits; it may   *)
(* preempt the one at work, or be answered or dropped while that is at work*)
(* or ends, and no other message is ever touched.  A login may come before *)
(* the first message is handled, and reads the same queue.                 *)
(***************************************************************************)
EXTENDS Naturals, Sequences

CONSTANTS MaxMessages,   \* the number of messages
          Kinds          \* of which "stop" and "malformed" are two

VARIABLES kinds,    \* of the messages sent, in order
          active,   \* the message being handled, 0 if none
          fate,     \* per message: how it ended, or "none"
          stage     \* "login" if the client logs in before any message is handled, or "chat"

contract == <<kinds, active, fate, stage>>

Stages == {"login", "chat"}

Init == stage \in Stages /\ kinds = << >> /\ active = 0 /\ fate = [i \in 1..MaxMessages |-> "none"]

Waiting == {i \in 1..Len(kinds) : fate[i] = "none" /\ i # active}
First(i) == i \in Waiting /\ \A j \in Waiting : i <= j

Send(kind) ==
    /\ Len(kinds) < MaxMessages
    /\ kinds' = Append(kinds, kind)
    /\ UNCHANGED <<active, fate, stage>>

Begin(i) ==
    /\ active = 0 /\ stage = "chat" /\ First(i) /\ kinds[i] \notin {"stop", "malformed"}
    /\ active' = i
    /\ UNCHANGED <<kinds, fate, stage>>

\* A stop when there is nothing to stop, or a message that is none.
Consume(i) ==
    /\ active = 0 /\ stage = "chat" /\ First(i) /\ kinds[i] \in {"stop", "malformed"}
    /\ fate' = [fate EXCEPT ![i] = IF kinds[i] = "stop" THEN "handled" ELSE "failed"]
    /\ UNCHANGED <<kinds, active, stage>>

\* The message at work ends, alone or with the next one.
Finish(how) ==
    /\ active # 0 /\ active' = 0
    /\ fate' = [fate EXCEPT ![active] = how]
    /\ UNCHANGED <<kinds, stage>>

FinishBoth(how, i, other) ==
    /\ active # 0 /\ active' = 0 /\ First(i)
    /\ fate' = [fate EXCEPT ![active] = how, ![i] = other]
    /\ UNCHANGED <<kinds, stage>>

\* The next one is an answer to what the message at work or the login asks, or is lost
\* to it; with it a login may end.
Absorb(i, how) ==
    /\ active # 0 \/ stage = "login"
    /\ First(i) /\ fate' = [fate EXCEPT ![i] = how]
    /\ stage' \in {stage, "chat"}
    /\ UNCHANGED <<kinds, active>>

\* Only a message that was sent later stops the one at work: a stop, which is
\* thereby handled, or one that is still to be handled.
Preempt(i) ==
    /\ active # 0 /\ active' = 0 /\ First(i) /\ active < i /\ kinds[i] # "malformed"
    /\ fate' = [fate EXCEPT ![active] = "stopped",
                            ![i] = IF kinds[i] = "stop" THEN "handled" ELSE @]
    /\ UNCHANGED <<kinds, stage>>

\* One that cannot be parsed fails with the one at work.
FailBoth(i) == FinishBoth("failed", i, "failed") /\ kinds[i] = "malformed"

\* The connection is lost.
Cut ==
    /\ active' = 0 /\ stage' \in Stages
    /\ fate' = [i \in DOMAIN fate |-> IF i \in Waiting \cup {active} THEN "cut" ELSE fate[i]]
    /\ UNCHANGED kinds

Next == \/ \E kind \in Kinds : Send(kind)
        \/ \E how \in {"handled", "failed"} : Finish(how)
        \/ \E i \in 1..MaxMessages :
               \/ Begin(i) \/ Consume(i) \/ Preempt(i) \/ FailBoth(i)
               \/ \E other \in {"handled", "dropped"} :
                      \/ Absorb(i, other)
                      \/ \E how \in {"handled", "failed"} : FinishBoth(how, i, other)
        \/ Cut

Spec == Init /\ [][Next]_contract
=============================================================================
