---------------------------- MODULE BandwidthLimiter ----------------------------
(***************************************************************************)
(* The token bucket every connection shares:                               *)
(* src/backend/internal/download/bandwidth_limiter.go.                     *)
(*                                                                         *)
(* The bucket is brought up to date only when somebody looks at it under   *)
(* the mutex: age is the time since the last look, so what the bucket      *)
(* holds now is Held.  A connection sleeps outside the mutex, on its       *)
(* context, on the channel that a new limit closes, and on a timer.        *)
(* One unit of time is a millisecond, the shortest sleep of the code, and  *)
(* rates are bytes per unit; the code's float64 amounts are integers here, *)
(* and the truncation of the sleep (line 64) is kept.                      *)
(***************************************************************************)
EXTENDS Integers

CONSTANTS
  Conns,     \* connections that write what they receive
  Rates,     \* the limits a user sets; 0 is no limit
  Floor,     \* the least burst, 64 KiB in the code
  MaxBytes,  \* the most a connection asks for at once (bound)
  AgeCap     \* after this long any bucket is full (bound)

Burst(r) == IF r = 0 THEN 0 ELSE IF r < Floor THEN Floor ELSE r

ASSUME LimiterAssumption ==
  /\ Rates \subseteq Nat
  /\ Floor \in Nat \ {0} /\ MaxBytes \in Nat \ {0} /\ AgeCap \in Nat
  /\ \A r \in Rates \ {0} : AgeCap * r >= Burst(r)

VARIABLES
  rate,     \* bandwidthLimiter.rate
  tokens,   \* bandwidthLimiter.tokens, as of the last look
  age,      \* now minus bandwidthLimiter.last
  pc,       \* where a connection is in WaitN
  due,      \* WaitN's remaining
  left,     \* time until a sleeper's timer fires
  woken,    \* the channel a sleeper holds is closed
  stopped   \* the context of a connection is canceled

bucketVars == <<rate, tokens, age>>
connVars   == <<pc, due, left, woken, stopped>>
vars == <<bucketVars, connVars>>

Smaller(a, b) == IF a < b THEN a ELSE b

\* refillLocked: what the bucket holds at this moment.
Held == Smaller(Burst(rate), tokens + age * rate)

Init ==
  /\ rate \in Rates /\ tokens = 0 /\ age = 0
  /\ pc = [c \in Conns |-> "idle"]
  /\ due = [c \in Conns |-> 0]
  /\ left = [c \in Conns |-> 0]
  /\ woken = [c \in Conns |-> FALSE]
  /\ stopped = [c \in Conns |-> FALSE]

-----------------------------------------------------------------------------
(* WaitN.                                                                  *)

\* The caller, a transfer that may be canceled already, asks for what it read.
Ask(c) ==
  /\ pc[c] = "idle"
  /\ \E n \in 1 .. MaxBytes : due' = [due EXCEPT ![c] = n]
  /\ \E s \in BOOLEAN : stopped' = [stopped EXCEPT ![c] = s]
  /\ pc' = [pc EXCEPT ![c] = "trying"]
  /\ UNCHANGED <<bucketVars, left, woken>>

\* Changed: the charge is not limited to a burst: the bucket can never hold it.
WholeCharge(c) == due[c]

Charge(c) == Smaller(due[c], Burst(rate))

Finish(c) ==
  /\ pc' = [pc EXCEPT ![c] = "idle"]
  /\ due' = [due EXCEPT ![c] = 0]
  /\ UNCHANGED <<left, woken, stopped>>

\* No limit, or none any more: what remains is not charged.
Unlimited(c) ==
  /\ pc[c] = "trying" /\ rate = 0
  /\ age' = 0
  /\ Finish(c)
  /\ UNCHANGED <<rate, tokens>>

Take(c) ==
  /\ pc[c] = "trying" /\ rate > 0
  /\ Held >= Charge(c)
  /\ tokens' = Held - Charge(c) /\ age' = 0
  /\ due' = [due EXCEPT ![c] = @ - Charge(c)]
  /\ pc' = [pc EXCEPT ![c] = IF due'[c] = 0 THEN "idle" ELSE "trying"]
  /\ UNCHANGED <<rate, left, woken, stopped>>

\* The sleep is truncated to a unit of time, and is one unit at least.
Nap(c) == LET missing == (Charge(c) - Held) \div rate
          IN  IF missing < 1 THEN 1 ELSE missing

Sleep(c) ==
  /\ pc[c] = "trying" /\ rate > 0
  /\ Held < Charge(c)
  /\ tokens' = Held /\ age' = 0
  /\ left' = [left EXCEPT ![c] = Nap(c)]
  /\ woken' = [woken EXCEPT ![c] = FALSE]
  /\ pc' = [pc EXCEPT ![c] = "waiting"]
  /\ UNCHANGED <<rate, due, stopped>>

Wake(c) ==
  /\ pc[c] = "waiting"
  /\ woken[c] \/ left[c] = 0
  /\ pc' = [pc EXCEPT ![c] = "trying"]
  /\ UNCHANGED <<bucketVars, due, left, woken, stopped>>

\* Changed: the sleeper does not listen to its context.
DeafGiveUp(c) == FALSE /\ UNCHANGED vars

\* The context is looked at only while the connection sleeps.
GiveUp(c) ==
  /\ pc[c] = "waiting" /\ stopped[c]
  /\ Finish(c)
  /\ UNCHANGED bucketVars

-----------------------------------------------------------------------------
\* Changed: a new limit leaves the sleepers' channel alone.
SilentSetBytesPerSecond(r) ==
  /\ tokens' = Smaller(Held, Burst(r)) /\ age' = 0
  /\ rate' = r
  /\ UNCHANGED connVars

\* Changed: the elapsed time is paid at the new limit.
LateRefill(r) ==
  /\ tokens' = Smaller(tokens + age * r, Burst(r)) /\ age' = 0
  /\ rate' = r
  /\ woken' = [c \in Conns |-> woken[c] \/ pc[c] = "waiting"]
  /\ UNCHANGED <<pc, due, left, stopped>>

\* Changed: the tokens are not clamped to the burst of the new limit.
UnclampedSetBytesPerSecond(r) ==
  /\ tokens' = Held /\ age' = 0
  /\ rate' = r
  /\ woken' = [c \in Conns |-> woken[c] \/ pc[c] = "waiting"]
  /\ UNCHANGED <<pc, due, left, stopped>>

\* SetBytesPerSecond: the sleepers' channel is closed and replaced.
SetBytesPerSecond(r) ==
  /\ tokens' = Smaller(Held, Burst(r)) /\ age' = 0
  /\ rate' = r
  /\ woken' = [c \in Conns |-> woken[c] \/ pc[c] = "waiting"]
  /\ UNCHANGED <<pc, due, left, stopped>>

\* Pause, cancellation or shutdown of the transfer a connection belongs to.
Stop(c) ==
  /\ ~ stopped[c]
  /\ stopped' = [stopped EXCEPT ![c] = TRUE]
  /\ UNCHANGED <<bucketVars, pc, due, left, woken>>

Tick ==
  /\ age' = Smaller(age + 1, AgeCap)
  /\ left' = [c \in Conns |-> IF left[c] > 0 THEN left[c] - 1 ELSE 0]
  /\ UNCHANGED <<rate, tokens, pc, due, woken, stopped>>

WaitN(c) == Unlimited(c) \/ Take(c) \/ Sleep(c) \/ Wake(c)

Next ==
  \/ \E c \in Conns : Ask(c) \/ WaitN(c) \/ GiveUp(c) \/ Stop(c)
  \/ \E r \in Rates : SetBytesPerSecond(r)
  \/ Tick

Spec == Init /\ [][Next]_vars

\* Time passes and goroutines run.  A sleeper whose context is done leaves by it
\* when its select finds that case ready often enough: a select picks among ready
\* cases at random.  No fairness for users and callers.
Fairness ==
  /\ WF_vars(Tick)
  /\ \A c \in Conns : WF_vars(WaitN(c)) /\ SF_vars(GiveUp(c))

FairSpec == Spec /\ Fairness

-----------------------------------------------------------------------------
(* Properties.                                                             *)

\* Types; the bucket holds one burst at most, and only a call has bytes due.
TypeOK ==
  /\ rate \in Rates
  /\ tokens \in 0 .. Burst(rate)
  /\ age \in 0 .. AgeCap
  /\ pc \in [Conns -> {"idle", "trying", "waiting"}]
  /\ due \in [Conns -> Nat]
  /\ left \in [Conns -> Nat]
  /\ woken \in [Conns -> BOOLEAN]
  /\ stopped \in [Conns -> BOOLEAN]
  /\ \A c \in Conns : (due[c] > 0) <=> (pc[c] # "idle")

\* A connection that no new limit has woken sleeps under a limit that is in
\* force, and no longer than a whole bucket takes to fill at that limit: nobody
\* sleeps out a time computed for another limit (SetBytesPerSecond wakes them).
SleepsForThisRate ==
  \A c \in Conns : pc[c] = "waiting" /\ ~ woken[c] =>
    /\ rate > 0
    /\ left[c] <= 1 \/ left[c] * rate <= Burst(rate)

Contract == INSTANCE RateContract WITH credit <- Held

\* The bucket that is brought up to date only when somebody looks keeps the
\* promise of one that fills all the time, through every change of the limit.
RateKept == Contract!ContractSpec

\* While the limit stays and somebody waits, bytes are released again and again:
\* the truncated sleeps and the wake-ups lose nobody's turn for good.
BytesFlow ==
  (/\ <>[][UNCHANGED rate]_vars
   /\ <>[](\E c \in Conns : pc[c] # "idle"))
  => []<><<\E c \in Conns : due'[c] < due[c]>>_vars

\* A call whose transfer is paused, canceled or shut down comes back, whatever
\* the limit and the other connections do.
StoppedCallReturns ==
  \A c \in Conns : (stopped[c] /\ pc[c] # "idle") ~> (pc[c] = "idle")
=============================================================================
