------------------------------ MODULE RateLimit ------------------------------
(***************************************************************************)
(* The rate limiter of the API: fixed windows that the first request after *)
(* their end renews, one counter per client IP, all under one mutex.  The  *)
(* server has three independent instances of it (lookups, public writes,   *)
(* logins); this is one of them, behind the proxy of the deployment.       *)
(*                                                                         *)
(* Times are relative to now, in ticks, and kept only as far back as they  *)
(* matter, so that the clock itself needs no bound.                        *)
(***************************************************************************)
EXTENDS Naturals, Sequences

CONSTANTS
    Clients,      \* client IPs
    Limit,        \* requests per window
    Window,       \* length of a window, in ticks
    Second,       \* ticks per second, the unit of Retry-After
    MaxCount,     \* bound: requests counted per client and window
    MaxRestarts,  \* bound: restarts within one window
    None          \* no refusal outstanding

ASSUME LimitAssumption ==
    /\ Limit \in Nat \ {0} /\ Window \in Nat \ {0} /\ Second \in Nat \ {0}
    /\ MaxCount \in Nat /\ MaxCount > Limit /\ MaxRestarts \in Nat
    /\ None \notin Nat

Ages == 0..(Window - 1)

VARIABLES
    elapsed,    \* now - windowStart; Window stands for anything longer
    counts,     \* counts[ip], 0 for an ip the map does not hold
    passed,     \* history: requests let through, by client and age
    restarts,   \* history: restarts of the server, by age
    wait        \* history: what is left of the last Retry-After; None once
                \* the client got through again

vars == <<elapsed, counts, passed, restarts, wait>>

\* Mutants: the duration as it is, and rounded down to seconds.
RetryAfter_Ticks(remaining) == remaining
RetryAfter_Truncated(remaining) == remaining \div Second

\* Seconds to wait, from the part of the window that is left.
RetryAfter(remaining) == remaining \div Second + 1

\* Types; nobody is told to wait longer than a window and a second.
TypeOK ==
    /\ elapsed \in 0..Window
    /\ counts \in [Clients -> 0..MaxCount]
    /\ passed \in [Clients -> [Ages -> Nat]]
    /\ restarts \in [Ages -> 0..MaxRestarts]
    /\ wait \in [Clients -> (0..(Window + Second)) \cup {None}]

Init ==
    /\ elapsed = 0
    /\ counts = [c \in Clients |-> 0]
    /\ passed = [c \in Clients |-> [a \in Ages |-> 0]]
    /\ restarts = [a \in Ages |-> 0]
    /\ wait = [c \in Clients |-> None]

\* How much of f is younger than age n.
Younger(f, n) ==
    LET sum[k \in Nat] == IF k = 0 THEN 0 ELSE sum[k - 1] + f[k - 1] IN sum[n]

Total(f) == Younger(f, Window)

\* What happened ages ago is one tick older; the oldest is forgotten.
Older(f) == [a \in Ages |-> IF a = 0 THEN 0 ELSE f[a - 1]]

Tick ==
    /\ elapsed' = IF elapsed < Window THEN elapsed + 1 ELSE Window
    /\ passed' = [c \in Clients |-> Older(passed[c])]
    /\ restarts' = Older(restarts)
    /\ wait' = [c \in Clients |->
                  IF wait[c] \in {None, 0} THEN wait[c] ELSE wait[c] - 1]
    /\ UNCHANGED counts

\* Mutant: the counters are cleared but the window keeps its old start.
Renewed_SameStart == elapsed

\* The start of the window this request falls in, counted back from now.
Renewed == IF elapsed >= Window THEN 0 ELSE elapsed

\* The X-Forwarded-For values a client may send, each a sequence of entries.
Sent == {<<>>} \cup {<<<<d>>>> : d \in Clients} \cup {<<<<d>>, <<>>>> : d \in Clients}

\* The proxy adds the address it saw to the last value, or sends one of its own.
Forwarded(sent, c) ==
    IF sent = <<>> THEN <<<<c>>>> ELSE [sent EXCEPT ![Len(sent)] = Append(@, c)]

Last(seq) == seq[Len(seq)]

\* Mutant: the first entry, as if it were the client's.
clientIP_First(values, remote) ==
    IF values # <<>> /\ values[1] # <<>> THEN values[1][1] ELSE remote

\* The last entry of the last value; the peer of the connection if there is none.
clientIP(values, remote) ==
    IF values # <<>> /\ Last(values) # <<>> THEN Last(Last(values)) ELSE remote

\* The counters with a request of this address in them.
Counted(ip) ==
    [d \in Clients |-> (IF elapsed >= Window THEN 0 ELSE counts[d])
                       + (IF d = ip THEN 1 ELSE 0)]

\* The mutex covers the clock reading, the renewal and the count; the
\* request then goes on to its handler, or is answered with Retry-After.
Request(c) ==
    \E sent \in Sent :
      LET ip == clientIP(Forwarded(sent, c), None)
          after == Counted(ip) IN
      /\ after[ip] <= MaxCount
      /\ elapsed' = Renewed
      /\ counts' = after
      /\ \/ /\ after[ip] <= Limit
            /\ passed' = [passed EXCEPT ![c][0] = @ + 1]
            /\ wait' = [wait EXCEPT ![c] = None]
         \/ /\ after[ip] > Limit
            /\ wait' = [wait EXCEPT ![c] = RetryAfter(Window - Renewed) * Second]
            /\ UNCHANGED passed
      /\ UNCHANGED restarts

\* A new process starts with an empty map and a new window.
Restart ==
    /\ Total(restarts) < MaxRestarts
    /\ elapsed' = 0
    /\ counts' = [c \in Clients |-> 0]
    /\ restarts' = [restarts EXCEPT ![0] = @ + 1]
    /\ UNCHANGED <<passed, wait>>

Next == Tick \/ Restart \/ \E c \in Clients : Request(c)

Spec == Init /\ [][Next]_vars

-----------------------------------------------------------------------------
(* Properties.                                                             *)

\* In the time of one window a client gets through at most twice the limit,
\* at the end of one window and the start of the next, and once more the
\* limit for every restart in that time.
BurstBound ==
    \A c \in Clients : Total(passed[c]) <= Limit * (2 + Total(restarts))

\* A client is refused only if it has itself got through Limit times within
\* the time of one window: no other client can use its share up, not even one
\* that names it in its X-Forwarded-For.
RefusedOnlyAfterLimit ==
    [][\A c \in Clients :
         counts'[c] > counts[c] /\ counts'[c] > Limit => Total(passed[c]) >= Limit]_vars

\* A client that has waited for as long as Retry-After told it gets through,
\* whatever the others did in between.
RetryAfterHonoured ==
    \A c \in Clients : wait[c] = 0 => elapsed = Window \/ counts[c] < Limit
=============================================================================
