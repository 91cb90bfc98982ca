--------------------------- MODULE CallbackQueue ---------------------------
(***************************************************************************)
(* What grt-callbacks.ads promises of a list of callbacks and of a list of *)
(* timeouts: the callbacks of a round are those registered before it, each *)
(* is called once, in order; a timeout is called at its time; a deleted    *)
(* callback is never called again.  There are no cells and no links here.  *)
(***************************************************************************)
EXTENDS Subsequences

CONSTANTS Id, TimeHigh, None

VARIABLES
    registered, \* the callbacks that have been registered so far
    queue,      \* the list, in order: records [id, mode]
    todo,       \* what remains of the round
    timeouts,   \* the pending timeouts, the earliest first
    current,    \* the callback that is executing
    round,      \* "none", "list" or "time"
    now

vars == <<registered, queue, todo, timeouts, current, round, now>>

\* Callbacks are registered and deleted between rounds or by a callback.
ClientTurn == round = "none" \/ current # None

Without(entries, id) == At(entries, {i \in DOMAIN entries : entries[i].id # id})

Register(id, mode) ==
    /\ ClientTurn
    /\ id \notin registered
    /\ registered' = registered \cup {id}
    /\ queue' = Append(queue, [id |-> id, mode |-> mode])
    /\ UNCHANGED <<todo, timeouts, current, round, now>>

\* After the timeouts at the same time or before it.
Register_At(id, t) ==
    LET before == At(timeouts, {i \in DOMAIN timeouts : timeouts[i].t <= t})
        after == At(timeouts, {i \in DOMAIN timeouts : timeouts[i].t > t})
    IN  /\ ClientTurn
        /\ id \notin registered
        /\ t >= now
        /\ registered' = registered \cup {id}
        /\ timeouts' = before \o <<[id |-> id, t |-> t]>> \o after
        /\ UNCHANGED <<queue, todo, current, round, now>>

Delete(id) ==
    /\ ClientTurn
    /\ queue' = Without(queue, id)
    /\ todo' = At(todo, {i \in DOMAIN todo : todo[i] # id})
    /\ timeouts' = Without(timeouts, id)
    /\ UNCHANGED <<registered, current, round, now>>

Start_Round ==
    /\ round = "none"
    /\ round' = "list"
    /\ todo' = [i \in DOMAIN queue |-> queue[i].id]
    /\ UNCHANGED <<registered, queue, timeouts, current, now>>

\* A callback that is not repeated leaves the list when it is called.
Call ==
    /\ round = "list" /\ current = None
    /\ todo # <<>>
    /\ current' = Head(todo)
    /\ todo' = Tail(todo)
    /\ queue' = At(queue, {i \in DOMAIN queue :
                              queue[i].id = Head(todo) => queue[i].mode = "Repeat"})
    /\ UNCHANGED <<registered, timeouts, round, now>>

Start_Timeouts ==
    /\ round = "none"
    /\ round' = "time"
    /\ UNCHANGED <<registered, queue, todo, timeouts, current, now>>

Call_Timeout ==
    /\ round = "time" /\ current = None
    /\ timeouts # <<>>
    /\ Head(timeouts).t = now
    /\ current' = Head(timeouts).id
    /\ timeouts' = Tail(timeouts)
    /\ UNCHANGED <<registered, queue, todo, round, now>>

Return ==
    /\ current # None
    /\ current' = None
    /\ UNCHANGED <<registered, queue, todo, timeouts, round, now>>

End_Round ==
    /\ round # "none" /\ current = None
    /\ round = "list" => todo = <<>>
    /\ round = "time" => (timeouts = <<>> \/ Head(timeouts).t > now)
    /\ round' = "none"
    /\ UNCHANGED <<registered, queue, todo, timeouts, current, now>>

\* Time advances, never over a timeout.
Advance(t) ==
    /\ round = "none"
    /\ t > now
    /\ timeouts # <<>> => t <= Head(timeouts).t
    /\ now' = t
    /\ UNCHANGED <<registered, queue, todo, timeouts, current, round>>

Init ==
    /\ registered = {}
    /\ queue = <<>>
    /\ todo = <<>>
    /\ timeouts = <<>>
    /\ current = None
    /\ round = "none"
    /\ now = 0

Next ==
    \/ \E id \in Id :
          \/ \E mode \in {"Repeat", "Oneshot"} : Register(id, mode)
          \/ \E t \in 0 .. TimeHigh : Register_At(id, t)
          \/ Delete(id)
    \/ Start_Round
    \/ Call
    \/ Start_Timeouts
    \/ Call_Timeout
    \/ Return
    \/ End_Round
    \/ \E t \in 0 .. TimeHigh : Advance(t)

Spec == Init /\ [][Next]_vars
=============================================================================
