-------------------------- MODULE RequestGateProofs --------------------------
(***************************************************************************)
(* The rate limiter keeps its bound for any limit, window and clients.     *)
(***************************************************************************)
EXTENDS RequestGate, TLAPS

(***************************************************************************)
(* H is what was let through for a client, D its deque, t the clock.  The  *)
(* deque is a suffix of H, and what precedes the suffix was popped because *)
(* it expired.  This is what makes the spacing inductive: when a request   *)
(* is let through, the one Limit places before it is among those popped.   *)
(***************************************************************************)
LogInv(H, D, t) ==
    /\ Len(D) <= Len(H)
    /\ Len(D) <= Limit
    /\ \A i \in 1 .. Len(D) : D[i] = H[Len(H) - Len(D) + i]
    /\ \A i \in 1 .. Len(H) : H[i] <= t
    /\ \A i \in 1 .. Len(H) - Len(D) : H[i] <= t - Window
    /\ \A i \in 1 .. Len(H) : i + Limit <= Len(H) => H[i + Limit] - H[i] >= Window

\* r is the latest response to the client.
LastInv(H, r, t) ==
    /\ r.at <= t
    /\ \A i \in 1 .. Len(H) : H[i] <= r.at
    /\ r.status = 429 => Len(H) >= Limit /\ H[Len(H) - Limit + 1] > r.at - Window

GateInv ==
    /\ TypeOK
    /\ \A c \in Client : /\ LogInv(accepted[c], requestLog[c], now)
                         /\ LastInv(accepted[c], last[c], now)

-----------------------------------------------------------------------------
(* Facts about one client's sequences.                                     *)

\* dq is D without its first n elements.
IsTail(dq, D, n) ==
    /\ dq \in Seq(Nat)
    /\ Len(dq) = Len(D) - n
    /\ \A i \in 1 .. Len(dq) : dq[i] = D[n + i]

\* S2 is S followed by x.
IsExtension(S2, S, x) ==
    /\ S2 \in Seq(Nat)
    /\ Len(S2) = Len(S) + 1
    /\ \A i \in 1 .. Len(S) : S2[i] = S[i]
    /\ S2[Len(S) + 1] = x

\* What SubSeq and Append of the model do.
LEMMA PoppedDeque ==
    ASSUME NEW D \in Seq(Nat), NEW n \in 0 .. Len(D)
    PROVE  IsTail(SubSeq(D, n + 1, Len(D)), D, n)
  BY DEF IsTail

LEMMA AppendedLog ==
    ASSUME NEW S \in Seq(Nat), NEW x \in Nat
    PROVE  IsExtension(Append(S, x), S, x)
  BY DEF IsExtension

\* Popping the expired heads keeps the invariant of the log.
LEMMA PopKeeps ==
    ASSUME NEW H \in Seq(Nat), NEW D \in Seq(Nat), LogInv(H, D, now), now \in Nat,
           NEW n \in 0 .. Len(D), PopsExactly(D, n), NEW dq, IsTail(dq, D, n)
    PROVE  LogInv(H, dq, now)
<1> USE GateAssumption
<1>1. Len(dq) = Len(D) - n
  BY DEF IsTail
<1>2. \A i \in 1 .. Len(dq) : dq[i] = D[n + i]
  BY DEF IsTail
<1>3. Len(D) \in Nat /\ Len(H) \in Nat /\ n \in Nat /\ n <= Len(D) /\ Len(D) <= Len(H)
  BY DEF LogInv
<1>4. Len(D) <= Limit
  BY DEF LogInv
<1>5. \A i \in 1 .. Len(dq) : dq[i] = H[Len(H) - Len(dq) + i]
  <2> TAKE i \in 1 .. Len(dq)
  <2>1. n + i \in 1 .. Len(D) /\ Len(H) - Len(D) + (n + i) = Len(H) - Len(dq) + i
    BY <1>1, <1>3
  <2>2. dq[i] = D[n + i]
    BY <1>2
  <2>3. D[n + i] = H[Len(H) - Len(D) + (n + i)]
    BY <2>1 DEF LogInv
  <2> QED BY <2>1, <2>2, <2>3
<1>6. \A i \in 1 .. Len(H) - Len(dq) : H[i] <= now - Window
  <2> TAKE i \in 1 .. Len(H) - Len(dq)
  <2>1. CASE i <= Len(H) - Len(D)
    <3>1. i \in 1 .. Len(H) - Len(D)
      BY <2>1, <1>3
    <3> QED BY <3>1 DEF LogInv
  <2>2. CASE i > Len(H) - Len(D)
    <3>1. PICK j : j = i - (Len(H) - Len(D))
      OBVIOUS
    <3>2. j \in 1 .. n /\ j \in 1 .. Len(D) /\ Len(H) - Len(D) + j = i
      BY <3>1, <2>2, <1>1, <1>3
    <3>3. D[j] = H[i]
      BY <3>2 DEF LogInv
    <3>4. D[j] <= now - Window
      BY <3>2 DEF PopsExactly, Expired
    <3> QED BY <3>3, <3>4
  <2> QED BY <2>1, <2>2, <1>1, <1>3
<1>7. Len(dq) <= Len(H) /\ Len(dq) <= Limit
  BY <1>1, <1>3, <1>4
<1> QED BY <1>5, <1>6, <1>7 DEF LogInv

\* Letting a request through when fewer than Limit are counted keeps it too.
LEMMA AdmitKeeps ==
    ASSUME NEW H \in Seq(Nat), NEW D \in Seq(Nat), now \in Nat,
           LogInv(H, D, now), Len(D) < Limit,
           NEW H2, IsExtension(H2, H, now), NEW D2, IsExtension(D2, D, now)
    PROVE  /\ LogInv(H2, D2, now)
           /\ \A i \in 1 .. Len(H2) : H2[i] <= now
<1> USE GateAssumption
<1>1. Len(H2) = Len(H) + 1 /\ Len(D2) = Len(D) + 1
  BY DEF IsExtension
<1>2. Len(D) \in Nat /\ Len(H) \in Nat /\ Len(D) <= Len(H) /\ Len(D) < Limit
  BY DEF LogInv
<1>3. ASSUME NEW i \in 1 .. Len(H) PROVE H2[i] = H[i] /\ H[i] \in Nat
  BY DEF IsExtension
<1>4. ASSUME NEW i \in 1 .. Len(D) PROVE D2[i] = D[i]
  BY DEF IsExtension
<1>5. H2[Len(H) + 1] = now /\ D2[Len(D) + 1] = now
  BY DEF IsExtension
<1>6. Len(D2) <= Len(H2) /\ Len(D2) <= Limit
  BY <1>1, <1>2
<1>7. \A i \in 1 .. Len(D2) : D2[i] = H2[Len(H2) - Len(D2) + i]
  <2> TAKE i \in 1 .. Len(D2)
  <2>1. CASE i = Len(D) + 1
    <3>1. Len(H2) - Len(D2) + i = Len(H) + 1
      BY <2>1, <1>1, <1>2
    <3> QED BY <3>1, <2>1, <1>5
  <2>2. CASE i # Len(D) + 1
    <3>1. /\ i \in 1 .. Len(D)
          /\ Len(H) - Len(D) + i \in 1 .. Len(H)
          /\ Len(H2) - Len(D2) + i = Len(H) - Len(D) + i
      BY <2>2, <1>1, <1>2
    <3>2. D[i] = H[Len(H) - Len(D) + i]
      BY <3>1 DEF LogInv
    <3>3. D2[i] = D[i]
      BY <3>1, <1>4
    <3>4. H2[Len(H) - Len(D) + i] = H[Len(H) - Len(D) + i]
      BY <3>1, <1>3
    <3> QED BY <3>1, <3>2, <3>3, <3>4
  <2> QED BY <2>1, <2>2
<1>8. \A i \in 1 .. Len(H2) : H2[i] <= now
  <2> TAKE i \in 1 .. Len(H2)
  <2>1. CASE i = Len(H) + 1
    BY <2>1, <1>5
  <2>2. CASE i # Len(H) + 1
    <3>1. i \in 1 .. Len(H)
      BY <2>2, <1>1, <1>2
    <3>2. H[i] <= now
      BY <3>1 DEF LogInv
    <3> QED BY <3>1, <3>2, <1>3
  <2> QED BY <2>1, <2>2
<1>9. \A i \in 1 .. Len(H2) - Len(D2) : H2[i] <= now - Window
  <2> TAKE i \in 1 .. Len(H2) - Len(D2)
  <2>1. i \in 1 .. Len(H) - Len(D) /\ i \in 1 .. Len(H)
    BY <1>1, <1>2
  <2>2. H[i] <= now - Window
    BY <2>1 DEF LogInv
  <2> QED BY <2>1, <2>2, <1>3
<1>10. \A i \in 1 .. Len(H2) : i + Limit <= Len(H2) => H2[i + Limit] - H2[i] >= Window
  <2> SUFFICES ASSUME NEW i \in 1 .. Len(H2), i + Limit <= Len(H2)
               PROVE  H2[i + Limit] - H2[i] >= Window
    OBVIOUS
  <2>1. CASE i + Limit <= Len(H)
    <3>1. i \in 1 .. Len(H) /\ i + Limit \in 1 .. Len(H)
      BY <2>1, <1>1, <1>2
    <3>2. H[i + Limit] - H[i] >= Window
      BY <3>1, <2>1 DEF LogInv
    <3>3. H2[i] = H[i] /\ H2[i + Limit] = H[i + Limit]
      BY <3>1, <1>3
    <3> QED BY <3>2, <3>3
  <2>2. CASE i + Limit = Len(H) + 1
    <3>1. i \in 1 .. Len(H) - Len(D) /\ i \in 1 .. Len(H)
      BY <2>2, <1>2
    <3>2. H[i] <= now - Window
      BY <3>1 DEF LogInv
    <3>3. H2[i] = H[i] /\ H[i] \in Nat
      BY <3>1, <1>3
    <3>4. H2[i + Limit] = now
      BY <2>2, <1>5
    <3> QED BY <3>2, <3>3, <3>4
  <2>3. i + Limit <= Len(H) \/ i + Limit = Len(H) + 1
    <3>1. i + Limit <= Len(H) + 1
      BY <1>1
    <3>2. i \in Int /\ Limit \in Int /\ Len(H) \in Int
      OBVIOUS
    <3> QED BY <3>1, <3>2
  <2> QED BY <2>1, <2>2, <2>3
<1> QED BY <1>6, <1>7, <1>8, <1>9, <1>10 DEF LogInv

-----------------------------------------------------------------------------
(* The steps of the middleware.                                            *)

LEMMA GateInit == Init => GateInv
  BY GateAssumption DEF Init, GateInv, TypeOK, LogInv, LastInv, Status

LEMMA GateRequest ==
    ASSUME GateInv, NEW c \in Client, Request(c)
    PROVE  GateInv'
<1> USE GateAssumption
<1>0. PICK n \in 0 .. Len(requestLog[c]) :
          LET dq == SubSeq(requestLog[c], n + 1, Len(requestLog[c]))
          IN  /\ PopsExactly(requestLog[c], n)
              /\ \/ /\ Full(dq)
                    /\ requestLog' = [requestLog EXCEPT ![c] = dq]
                    /\ Respond(c, 429)
                    /\ UNCHANGED accepted
                 \/ /\ ~Full(dq)
                    /\ requestLog' = [requestLog EXCEPT ![c] = Append(dq, now)]
                    /\ \E status \in Responses : Respond(c, status)
                    /\ accepted' = [accepted EXCEPT ![c] = Append(@, now)]
              /\ now' = now
  BY DEF Request
<1>1. PICK dq :
          /\ dq = SubSeq(requestLog[c], n + 1, Len(requestLog[c]))
          /\ PopsExactly(requestLog[c], n)
          /\ \/ /\ Full(dq)
                /\ requestLog' = [requestLog EXCEPT ![c] = dq]
                /\ Respond(c, 429)
                /\ UNCHANGED accepted
             \/ /\ ~Full(dq)
                /\ requestLog' = [requestLog EXCEPT ![c] = Append(dq, now)]
                /\ \E status \in Responses : Respond(c, status)
                /\ accepted' = [accepted EXCEPT ![c] = Append(@, now)]
          /\ now' = now
  BY <1>0
<1>2. PICK D, H : D = requestLog[c] /\ H = accepted[c]
  OBVIOUS
<1>3. /\ D \in Seq(Nat) /\ H \in Seq(Nat) /\ now \in Nat /\ n \in 0 .. Len(D)
      /\ LogInv(H, D, now) /\ LastInv(H, last[c], now)
  BY <1>1, <1>2 DEF GateInv, TypeOK
<1>4. dq \in Seq(Nat) /\ Len(dq) = Len(D) - n /\ LogInv(H, dq, now)
  <2>1. IsTail(dq, D, n)
    BY <1>1, <1>2, <1>3, PoppedDeque
  <2>2. PopsExactly(D, n)
    BY <1>1, <1>2
  <2>3. LogInv(H, dq, now)
    BY <1>3, <2>1, <2>2, PopKeeps
  <2> QED BY <2>1, <2>3 DEF IsTail
<1>5. ASSUME NEW d \in Client, d # c
      PROVE  /\ requestLog'[d] = requestLog[d] /\ accepted'[d] = accepted[d]
             /\ last'[d] = last[d]
  BY <1>1, <1>5 DEF GateInv, TypeOK, Respond
<1>6. CASE Full(dq)
  <2>1. /\ requestLog' = [requestLog EXCEPT ![c] = dq] /\ accepted' = accepted
        /\ last' = [last EXCEPT ![c] = [status |-> 429, at |-> now]]
    BY <1>1, <1>6 DEF Respond
  <2>2. n = 0 /\ Len(D) = Limit
    BY <1>3, <1>4, <1>6 DEF Full, LogInv
  <2>3. Len(H) >= Limit /\ H[Len(H) - Limit + 1] > now - Window
    <3>1. D[1] > now - Window
      BY <1>1, <1>2, <1>3, <2>2 DEF PopsExactly, Expired
    <3>2. D[1] = H[Len(H) - Limit + 1]
      BY <1>3, <2>2 DEF LogInv
    <3> QED BY <3>1, <3>2, <2>2, <1>3 DEF LogInv
  <2>4. TypeOK'
    BY <1>1, <1>4, <2>1 DEF GateInv, TypeOK, LogInv, Status
  <2>5. LogInv(accepted'[c], requestLog'[c], now') /\ LastInv(accepted'[c], last'[c], now')
    <3>1. /\ requestLog'[c] = dq /\ accepted'[c] = H /\ now' = now
          /\ last'[c] = [status |-> 429, at |-> now]
      BY <1>1, <1>2, <2>1 DEF GateInv, TypeOK
    <3>2. LastInv(H, [status |-> 429, at |-> now], now)
      BY <2>3, <1>3 DEF LastInv, LogInv
    <3> QED BY <3>1, <3>2, <1>4
  <2> QED BY <1>1, <1>5, <2>4, <2>5 DEF GateInv
<1>7. CASE ~Full(dq)
  <2>1. PICK status \in Responses : Respond(c, status)
    BY <1>1, <1>7
  <2>2. /\ requestLog' = [requestLog EXCEPT ![c] = Append(dq, now)]
        /\ accepted' = [accepted EXCEPT ![c] = Append(@, now)]
        /\ last' = [last EXCEPT ![c] = [status |-> status, at |-> now]]
    BY <1>1, <1>7, <2>1 DEF Respond
  <2>3. Len(dq) < Limit
    BY <1>4, <1>7 DEF Full
  <2>4. PICK H2, D2 : H2 = Append(H, now) /\ D2 = Append(dq, now)
    OBVIOUS
  <2>5. /\ H2 \in Seq(Nat) /\ D2 \in Seq(Nat) /\ LogInv(H2, D2, now)
        /\ \A i \in 1 .. Len(H2) : H2[i] <= now
    <3>1. IsExtension(H2, H, now) /\ IsExtension(D2, dq, now)
      BY <1>3, <1>4, <2>4, AppendedLog
    <3>2. LogInv(H2, D2, now) /\ \A i \in 1 .. Len(H2) : H2[i] <= now
      BY <1>3, <1>4, <2>3, <3>1, AdmitKeeps
    <3> QED BY <3>1, <3>2 DEF IsExtension
  <2>6. /\ requestLog'[c] = D2 /\ accepted'[c] = H2 /\ now' = now
        /\ last'[c] = [status |-> status, at |-> now]
    BY <1>1, <1>2, <2>2, <2>4 DEF GateInv, TypeOK
  <2>7. TypeOK'
    <3>1. now' \in Nat
      BY <1>1, <1>3
    <3>2. requestLog' \in [Client -> Seq(Nat)] /\ accepted' \in [Client -> Seq(Nat)]
      BY <1>2, <2>2, <2>4, <2>5 DEF GateInv, TypeOK
    <3>3. last' \in [Client -> [status : Status, at : Nat]]
      BY <1>3, <2>2 DEF GateInv, TypeOK, Status, Responses
    <3>4. \A d \in Client : Len(requestLog'[d]) <= Limit
      BY <1>5, <2>5, <2>6 DEF GateInv, TypeOK, LogInv
    <3> QED BY <3>1, <3>2, <3>3, <3>4 DEF TypeOK
  <2>8. LastInv(accepted'[c], last'[c], now')
    BY <1>3, <2>5, <2>6 DEF LastInv, Responses
  <2> QED BY <1>1, <1>5, <2>5, <2>6, <2>7, <2>8 DEF GateInv
<1> QED BY <1>6, <1>7

LEMMA GateTick == ASSUME GateInv, Tick PROVE GateInv'
<1> USE GateAssumption
<1>1. now' = now + 1 /\ requestLog' = requestLog /\ last' = last /\ accepted' = accepted
  BY DEF Tick
<1>2. ASSUME NEW c \in Client
      PROVE  LogInv(accepted[c], requestLog[c], now + 1) /\ LastInv(accepted[c], last[c], now + 1)
  <2>1. PICK H, D, r : H = accepted[c] /\ D = requestLog[c] /\ r = last[c]
    OBVIOUS
  <2>2. /\ H \in Seq(Nat) /\ D \in Seq(Nat) /\ now \in Nat /\ r.at \in Nat
        /\ LogInv(H, D, now) /\ LastInv(H, r, now)
    BY <2>1 DEF GateInv, TypeOK
  <2>3. /\ \A i \in 1 .. Len(H) : H[i] \in Nat
        /\ \A i \in 1 .. Len(H) - Len(D) : i \in 1 .. Len(H)
    BY <2>2
  <2>4. LogInv(H, D, now + 1) /\ LastInv(H, r, now + 1)
    BY <2>2, <2>3 DEF LogInv, LastInv
  <2> QED BY <2>1, <2>4
<1>3. TypeOK'
  BY <1>1 DEF GateInv, TypeOK
<1> QED BY <1>1, <1>2, <1>3 DEF GateInv

LEMMA GateStep == GateInv /\ [Next]_vars => GateInv'
<1> SUFFICES ASSUME GateInv, [Next]_vars PROVE GateInv'
  OBVIOUS
<1>1. ASSUME NEW c \in Client, Request(c) PROVE GateInv'
  BY <1>1, GateRequest
<1>2. CASE Tick
  BY <1>2, GateTick
<1>3. CASE UNCHANGED vars
  BY <1>3 DEF vars, GateInv, TypeOK
<1> QED BY <1>1, <1>2, <1>3 DEF Next

LEMMA GateInvariant == Spec => []GateInv
  BY GateInit, GateStep, PTL DEF Spec

-----------------------------------------------------------------------------
(* What follows from the invariant.                                        *)

\* The state of the limiter is well typed, and no client's deque outgrows the
\* limit.
THEOREM GateTypeOK == Spec => []TypeOK
<1>1. GateInv => TypeOK
  BY DEF GateInv
<1> QED BY <1>1, GateInvariant, PTL

\* However the requests of a client are spread over time, no window holds more
\* than Limit of those that _is_rate_limited lets through.
THEOREM GateWindowBound == Spec => []WindowBound
<1>1. GateInv => WindowBound
  BY DEF GateInv, LogInv, WindowBound
<1> QED BY <1>1, GateInvariant, PTL

\* A 429 is always the fault of Limit requests of that client let through in
\* the window before it.
THEOREM GateRejectionJustified == Spec => []RejectionJustified
<1>1. GateInv => RejectionJustified
  BY DEF GateInv, LastInv, RejectionJustified
<1> QED BY <1>1, GateInvariant, PTL

\* The retry-after header of a 429 is a promise the limiter keeps: all that it
\* counts at the next request is older than the 429.
THEOREM GateRetryAfter == Spec => RetryAfterHolds
<1>1. GateInv /\ [Next]_vars =>
        [\A c \in Client :
            last[c].status = 429 /\ now >= last[c].at + Window /\ last'[c] # last[c]
                => last'[c].status # 429]_vars
  <2> SUFFICES ASSUME GateInv, Next, NEW c \in Client, last[c].status = 429,
                      now >= last[c].at + Window, last'[c] # last[c]
               PROVE  last'[c].status # 429
    BY DEF vars
  <2> USE GateAssumption
  <2>1. Request(c)
    <3>1. ~Tick
      BY DEF Tick
    <3>2. ASSUME NEW d \in Client, Request(d), d # c PROVE FALSE
      BY <3>2 DEF Request, Respond, GateInv, TypeOK
    <3> QED BY <3>1, <3>2 DEF Next
  <2>2. PICK n \in 0 .. Len(requestLog[c]) :
            /\ PopsExactly(requestLog[c], n)
            /\ \/ Full(SubSeq(requestLog[c], n + 1, Len(requestLog[c])))
               \/ \E status \in Responses : Respond(c, status)
    BY <2>1 DEF Request
  <2>3. PICK D, H : D = requestLog[c] /\ H = accepted[c]
    OBVIOUS
  <2>4. /\ D \in Seq(Nat) /\ H \in Seq(Nat) /\ now \in Nat /\ last[c].at \in Nat
        /\ n \in 0 .. Len(D) /\ PopsExactly(D, n) /\ LogInv(H, D, now)
        /\ LastInv(H, last[c], now)
    BY <2>2, <2>3 DEF GateInv, TypeOK
  <2>5. \A i \in 1 .. Len(D) : D[i] \in Nat /\ D[i] <= last[c].at
    <3> TAKE i \in 1 .. Len(D)
    <3>1. Len(D) \in Nat /\ Len(H) \in Nat /\ Len(D) <= Len(H)
      BY <2>4 DEF LogInv
    <3>2. Len(H) - Len(D) + i \in 1 .. Len(H)
      BY <3>1
    <3>3. D[i] = H[Len(H) - Len(D) + i]
      BY <2>4 DEF LogInv
    <3>4. H[Len(H) - Len(D) + i] <= last[c].at
      BY <3>2, <2>4 DEF LastInv
    <3>5. D[i] \in Nat
      BY <2>4
    <3> QED BY <3>3, <3>4, <3>5
  <2>6. n = Len(D)
    <3>1. \A i \in 1 .. Len(D) : Expired(D[i])
      BY <2>4, <2>5 DEF Expired
    <3> QED BY <3>1, <2>4 DEF PopsExactly
  <2>7. ~Full(SubSeq(requestLog[c], n + 1, Len(requestLog[c])))
    <3>1. Len(SubSeq(D, n + 1, Len(D))) = 0
      BY <2>2, <2>3, <2>4, <2>6, PoppedDeque DEF IsTail
    <3> QED BY <3>1, <2>3 DEF Full
  <2>8. PICK status \in Responses : Respond(c, status)
    BY <2>2, <2>7
  <2> QED BY <2>8 DEF Respond, Responses, GateInv, TypeOK
<1> QED BY <1>1, GateInvariant, PTL DEF Spec, RetryAfterHolds
=============================================================================
