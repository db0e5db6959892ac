----------------------------- MODULE MessageBus -----------------------------
(***************************************************************************)
(* MessageBus (src/litecoder/tasks/message_bus.py): one durable mailbox    *)
(* file per agent.  Every operation does its work without a suspension     *)
(* while it holds the bus's locks, so it is one step; the awaits before    *)
(* and after it belong to the callers.  An agent that waits is woken by an *)
(* event, and looks again every _MAILBOX_POLL_SECONDS for messages of      *)
(* other processes: the event only shortens the wait and is left out.      *)
(***************************************************************************)
EXTENDS Sequences

CONSTANT Agents   \* agent ids with a mailbox

VARIABLE inbox    \* by agent: the messages in its file, in order

BusInit == inbox = [a \in Agents |-> <<>>]

\* send
Post(a, message) == inbox' = [inbox EXCEPT ![a] = Append(@, message)]

\* receive: everything, and the file is gone; it answers inbox[a].
TakeNothing(a) == UNCHANGED inbox

TakeAll(a) == inbox' = [inbox EXCEPT ![a] = <<>>]

\* wait_for_messages: it returns when the file is there.
HasMail(a) == inbox[a] # <<>>
=============================================================================
