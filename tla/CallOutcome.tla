----------------------------- MODULE CallOutcome -----------------------------
(***************************************************************************)
(* What a call made with CALLRPC amounts to for its caller, with retries,  *)
(* socket, epoll and buffers left out. The caller learns of the outcome in *)
(* its closure, or, after a timeout, not at all. Once told, it may use its *)
(* response message again: nothing is sent or parsed for the call any more.*)
(* After a silent end neither holds.                                       *)
(***************************************************************************)
CONSTANTS
    Codes,          \* the error codes; 0 is "none"
    Requests        \* what can have been sent; nothing is "none"

VARIABLES
    outcome,        \* "open", "reported" or "silent"
    code,           \* the error code that the closure saw
    sent,           \* what has been sent for the call
    answered,       \* a good answer of the peer has come
    response        \* the response message has been parsed into

vars == <<outcome, code, sent, answered, response>>

\* A caller without a closure is never told.
Init ==
    /\ outcome \in {"open", "silent"}
    /\ code = "none"
    /\ sent = "none"
    /\ answered = FALSE
    /\ response = FALSE

Send ==
    /\ outcome # "reported"
    /\ sent' \in Requests
    /\ UNCHANGED <<outcome, code, answered, response>>

\* The closure runs. Code 0 says that a good answer has been parsed.
Report ==
    /\ outcome = "open"
    /\ outcome' = "reported"
    /\ code' \in Codes
    /\ code' = "none" => answered' /\ response'
    /\ answered' => response' /\ sent # "none"
    /\ response' => sent # "none"
    /\ UNCHANGED sent

\* The timeout takes an open call and tells nobody.
Expire ==
    /\ outcome = "open"
    /\ outcome' = "silent"
    /\ UNCHANGED <<code, sent, answered, response>>

\* An answer that comes too late still overwrites the caller's message.
LateAnswer ==
    /\ outcome = "silent"
    /\ sent # "none"
    /\ response'
    /\ answered' \in BOOLEAN
    /\ UNCHANGED <<outcome, code, sent>>

Next == Send \/ Report \/ Expire \/ LateAnswer

Spec == Init /\ [][Next]_vars
=============================================================================
