---------------------------- MODULE CallContract ----------------------------
(***************************************************************************)
(* What a wscall client promises the application about call() and          *)
(* send_event(), with connections, queues, ids and tasks out of sight.     *)
(* A call is refused (ClientError::Disconnected), replied (the server's    *)
(* own answer), or lost (ConnectionClosed, Timeout, or the future dropped);*)
(* executed holds the calls the server has run.                            *)
(***************************************************************************)
CONSTANT Calls

VARIABLES status, executed

contractVars == <<status, executed>>

Statuses == {"idle", "open", "refused", "replied", "lost"}

ContractInit ==
    /\ status = [c \in Calls |-> "idle"]
    /\ executed = {}

Become(c, s) == status' = [status EXCEPT ![c] = s]

Begin(c) ==
    /\ status[c] = "idle" /\ Become(c, "open")
    /\ UNCHANGED executed

\* A refused call has not run, and will not: the caller may safely retry it.
Refuse(c) ==
    /\ status[c] \in {"idle", "open"} /\ c \notin executed
    /\ Become(c, "refused")
    /\ UNCHANGED executed

\* The server runs a call at most once, perhaps after the caller gave up.
Execute(c) ==
    /\ status[c] \in {"open", "lost"} /\ c \notin executed
    /\ executed' = executed \cup {c}
    /\ UNCHANGED status

\* An answer is only ever the answer to a call that ran.
Reply(c) ==
    /\ status[c] = "open" /\ c \in executed /\ Become(c, "replied")
    /\ UNCHANGED executed

\* The caller learns nothing about whether the call ran.
Lose(c) ==
    /\ status[c] = "open" /\ Become(c, "lost")
    /\ UNCHANGED executed

ContractNext ==
    \E c \in Calls : Begin(c) \/ Refuse(c) \/ Execute(c) \/ Reply(c) \/ Lose(c)

ContractSpec == ContractInit /\ [][ContractNext]_contractVars
=============================================================================
