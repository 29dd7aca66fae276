---------------------------- MODULE RequestGate ----------------------------
(***************************************************************************)
(* The HTTP middleware of server.py: every request of a client passes a    *)
(* sliding-window rate limiter (_is_rate_limited), then the API key check, *)
(* and only then reaches a handler.  The server runs the middleware on one *)
(* event loop and neither check awaits, so a request is one step up to its *)
(* handler.                                                                *)
(***************************************************************************)
EXTENDS Integers, Sequences

CONSTANTS
    Client,     \* client addresses
    Limit,      \* RATE_LIMIT_REQUESTS
    Window,     \* RATE_LIMIT_WINDOW, in ticks of the clock
    MaxTime     \* bound on the clock

ASSUME GateAssumption ==
    /\ Limit \in Nat \ {0}
    /\ Window \in Nat \ {0}
    /\ MaxTime \in Nat

VARIABLES
    now,          \* time.monotonic(), in ticks
    requestLog,   \* requestLog[c]: the deque _request_log[c], oldest first
    last,         \* last[c]: status and time of the latest response to c
    accepted      \* accepted[c]: observed, the times of all requests let through

vars == <<now, requestLog, last, accepted>>

\* 0 stands for no response yet.
Status == {0, 200, 401, 429, 500}

Init ==
    /\ now = 0
    /\ requestLog = [c \in Client |-> <<>>]
    /\ last = [c \in Client |-> [status |-> 0, at |-> 0]]
    /\ accepted = [c \in Client |-> <<>>]

\* Mutant: a request leaves the window one tick too late.
ExpiresLate(t) == t < now - Window

\* "dq[0] <= now - RATE_LIMIT_WINDOW"
Expired(t) == t <= now - Window

\* popleft() runs n times: while the deque is not empty and its head expired.
PopsExactly(dq, n) ==
    /\ n \in 0 .. Len(dq)
    /\ \A i \in 1 .. n : Expired(dq[i])
    /\ n < Len(dq) => ~Expired(dq[n + 1])

\* Mutant: the comparison lets one request too many through.
FullAboveLimit(dq) == Len(dq) > Limit

\* "len(dq) >= RATE_LIMIT_REQUESTS"
Full(dq) == Len(dq) >= Limit

\* Responses of a request that passed the limiter: 401 without the right key
\* on a protected path, else the handler's, 500 if it raised.
Responses == {200, 401, 500}

Respond(c, status) == last' = [last EXCEPT ![c] = [status |-> status, at |-> now]]

Request(c) ==
    \E n \in 0 .. Len(requestLog[c]) :
        LET dq == SubSeq(requestLog[c], n + 1, Len(requestLog[c]))
        IN  /\ PopsExactly(requestLog[c], n)
            /\ \/ /\ Full(dq)
                  /\ requestLog' = [requestLog EXCEPT ![c] = dq]
                  /\ Respond(c, 429)
                  /\ UNCHANGED accepted
               \/ /\ ~Full(dq)
                  /\ requestLog' = [requestLog EXCEPT ![c] = Append(dq, now)]
                  /\ \E status \in Responses : Respond(c, status)
                  /\ accepted' = [accepted EXCEPT ![c] = Append(@, now)]
            /\ UNCHANGED now

Tick ==
    /\ now < MaxTime
    /\ now' = now + 1
    /\ UNCHANGED <<requestLog, last, accepted>>

Next ==
    \/ \E c \in Client : Request(c)
    \/ Tick

Spec == Init /\ [][Next]_vars

-----------------------------------------------------------------------------
(* Properties.                                                             *)

\* The deque of a client never outgrows the limit: it is the only bound on
\* the memory the limiter keeps per client.
TypeOK ==
    /\ now \in Nat
    /\ requestLog \in [Client -> Seq(Nat)]
    /\ last \in [Client -> [status : Status, at : Nat]]
    /\ accepted \in [Client -> Seq(Nat)]
    /\ \A c \in Client : Len(requestLog[c]) <= Limit

\* No window of Window ticks, wherever it starts, holds more than Limit
\* requests that were let through: of any Limit + 1 successive ones, the last
\* is at least Window after the first.
WindowBound ==
    \A c \in Client : \A i \in 1 .. Len(accepted[c]) :
        i + Limit <= Len(accepted[c]) =>
            accepted[c][i + Limit] - accepted[c][i] >= Window

\* A request is turned away only by Limit requests let through in the window
\* that ends with it; those that were turned away do not count.
RejectionJustified ==
    \A c \in Client :
        last[c].status = 429 =>
            LET n == Len(accepted[c])
            IN  /\ n >= Limit
                /\ accepted[c][n - Limit + 1] > last[c].at - Window

\* The retry-after header tells the truth: a client that is silent for Window
\* after a 429 is not answered 429 again.
RetryAfterHolds ==
    [][\A c \in Client :
          last[c].status = 429 /\ now >= last[c].at + Window /\ last'[c] # last[c]
              => last'[c].status # 429]_vars
=============================================================================
