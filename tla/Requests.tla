------------------------------ MODULE Requests ------------------------------
(***************************************************************************)
(* The workers that serve the application's requests and tasks.  A handler *)
(* whose reads and writes are separated by a commit is several actions of  *)
(* one worker; what it has read and not yet used is kept in request[w].    *)
(* A handler that is one transaction is one action.  The database runs at  *)
(* READ COMMITTED and settings.py sets no ATOMIC_REQUESTS, so every        *)
(* statement outside a transaction.atomic block commits by itself.         *)
(***************************************************************************)
EXTENDS Naturals, FiniteSets

CONSTANTS
    Workers,        \* processes that serve requests side by side
    Users,          \* the people whose rows the handlers touch
    MaxRequests     \* bound on the requests of a behaviour

ASSUME WorkersAreFinite == IsFiniteSet(Workers)
ASSUME RequestsAreBounded == MaxRequests \in Nat

VARIABLES
    request,        \* what each worker holds between two commits
    spent           \* the requests begun so far

requestVars == <<request, spent>>

Idle == [op |-> "idle"]

RequestsInit ==
    /\ request = [w \in Workers |-> Idle]
    /\ spent = 0

HasRoom == spent < MaxRequests

(* A request whose handler commits once.                                   *)
Serve ==
    /\ HasRoom
    /\ spent' = spent + 1
    /\ UNCHANGED request

(* A request that commits, or reads, and goes on with what it holds.       *)
Begin(w, held) ==
    /\ HasRoom
    /\ request[w] = Idle
    /\ request' = [request EXCEPT ![w] = held]
    /\ spent' = spent + 1

(* A task the broker hands to a worker; the request that queued it is      *)
(* already counted.                                                        *)
TakeUp(w, held) ==
    /\ request[w] = Idle
    /\ request' = [request EXCEPT ![w] = held]
    /\ UNCHANGED spent

Holds(w, op) == request[w].op = op

Proceed(w, held) ==
    /\ request' = [request EXCEPT ![w] = held]
    /\ UNCHANGED spent

(* The broker runs a failed task again.                                    *)
Retry(w, held) ==
    /\ HasRoom
    /\ request' = [request EXCEPT ![w] = held]
    /\ spent' = spent + 1

End(w) == Proceed(w, Idle)

(* A worker dies, or its handler raises: an open transaction is rolled     *)
(* back and what was committed before stays.                               *)
Abandon(w) ==
    /\ request[w] # Idle
    /\ End(w)
=============================================================================
