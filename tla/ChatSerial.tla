----------------------------- MODULE ChatSerial -----------------------------
(***************************************************************************)
(* What the task queue promises the gateway, without its machinery: the    *)
(* tasks of one chat wait in line in the order they were accepted and run  *)
(* one at a time, whatever the other chats do ("so messages for one chat   *)
(* run sequentially", routing.go:17-22).  A task is only dropped when the  *)
(* queue is shut down.                                                     *)
(***************************************************************************)
EXTENDS Naturals, Sequences

CONSTANTS Chats, MaxTasks, None

VARIABLES
  accepted,  \* number of tasks accepted
  waiting,   \* the line of each chat
  current,   \* the task each chat runs, or None
  stopped    \* the queue is shut down

vars == <<accepted, waiting, current, stopped>>

Init ==
  /\ accepted = 0
  /\ waiting = [c \in Chats |-> <<>>]
  /\ current = [c \in Chats |-> None]
  /\ stopped = FALSE

Accept(c) ==
  /\ accepted < MaxTasks
  /\ accepted' = accepted + 1
  /\ waiting' = [waiting EXCEPT ![c] = Append(@, accepted + 1)]
  /\ UNCHANGED <<current, stopped>>

Begin(c) ==
  /\ waiting[c] # <<>>
  /\ current[c] = None
  /\ current' = [current EXCEPT ![c] = Head(waiting[c])]
  /\ waiting' = [waiting EXCEPT ![c] = Tail(@)]
  /\ UNCHANGED <<accepted, stopped>>

End(c) ==
  /\ current[c] # None
  /\ current' = [current EXCEPT ![c] = None]
  /\ UNCHANGED <<accepted, waiting, stopped>>

Drop(c) ==
  /\ stopped
  /\ waiting[c] # <<>>
  /\ waiting' = [waiting EXCEPT ![c] = Tail(@)]
  /\ UNCHANGED <<accepted, current, stopped>>

Stop ==
  /\ stopped' = TRUE
  /\ UNCHANGED <<accepted, waiting, current>>

Next == Stop \/ \E c \in Chats : Accept(c) \/ Begin(c) \/ End(c) \/ Drop(c)

Spec == Init /\ [][Next]_vars
=============================================================================
