-------------------------- MODULE BandwidthLimiterProofs --------------------------
(***************************************************************************)
(* Theorems about BandwidthLimiter for any connections and any limits: the *)
(* types, that nobody sleeps out a superseded limit, that the lazily       *)
(* refilled bucket implements RateContract, and that in no span of time    *)
(* under one limit more than a burst and the span's share is released.     *)
(***************************************************************************)
EXTENDS BandwidthLimiter, TLAPS

USE LimiterAssumption

\* A burst is a natural number, positive exactly under a limit.
LEMMA BurstFacts ==
  ASSUME NEW r \in Rates
  PROVE  Burst(r) \in Nat /\ r \in Nat /\ (r > 0 => Burst(r) >= r /\ Burst(r) > 0) /\ (r = 0 => Burst(r) = 0)
BY DEF Burst

\* What the bucket holds lies between its last known content and one burst.
LEMMA HeldFacts ==
  ASSUME TypeOK
  PROVE  /\ Held \in 0 .. Burst(rate)
         /\ Held >= tokens
         /\ age = 0 => Held = tokens
         /\ rate = 0 => Held = 0
<1>1. rate \in Nat /\ tokens \in 0 .. Burst(rate) /\ age \in Nat /\ Burst(rate) \in Nat
  BY BurstFacts DEF TypeOK
<1>2. age * rate \in Nat
  BY <1>1
<1>3. age = 0 => age * rate = 0
  BY <1>1
<1>4. rate = 0 => Burst(rate) = 0
  BY BurstFacts DEF TypeOK
<1> QED
  BY <1>1, <1>2, <1>3, <1>4 DEF Held, Smaller

\* Right after a look the bucket holds what was written down.
LEMMA JustRefilled ==
  ASSUME NEW r \in Rates, NEW t \in 0 .. Burst(r)
  PROVE  Smaller(Burst(r), t + 0 * r) = t
BY BurstFacts DEF Smaller

\* One unit of time adds one unit's worth of bytes, up to the burst, also
\* where the age is cut off at its bound.
LEMMA HeldAfterTick ==
  ASSUME TypeOK, Tick
  PROVE  Held' = Smaller(Burst(rate), Held + rate)
<1>1. rate \in Nat /\ tokens \in 0 .. Burst(rate) /\ age \in Nat /\ Burst(rate) \in Nat /\ AgeCap \in Nat /\ age <= AgeCap
  BY BurstFacts DEF TypeOK
<1>2. rate' = rate /\ tokens' = tokens /\ age' = Smaller(age + 1, AgeCap)
  BY DEF Tick
<1>3. Held' = Smaller(Burst(rate), tokens + age' * rate)
  BY <1>2 DEF Held
<1>4. age * rate \in Nat
  BY <1>1
<1>5. CASE age < AgeCap
  <2>1. age' = age + 1
    BY <1>1, <1>2, <1>5 DEF Smaller
  <2>2. age' * rate = age * rate + rate
    BY <1>1, <2>1
  <2> QED
    BY <1>1, <1>3, <1>4, <2>2 DEF Held, Smaller
<1>6. CASE age = AgeCap
  <2>1. age' = age
    BY <1>1, <1>2, <1>6 DEF Smaller
  <2>2. rate > 0 => age * rate >= Burst(rate)
    BY <1>1, <1>6 DEF TypeOK
  <2>3. rate = 0 => Burst(rate) = 0
    BY BurstFacts DEF TypeOK
  <2> QED
    BY <1>1, <1>3, <1>4, <2>1, <2>2, <2>3 DEF Held, Smaller
<1> QED
  BY <1>1, <1>5, <1>6

\* A charge is positive and at most a burst and what is due.
LEMMA ChargeFacts ==
  ASSUME TypeOK, NEW c \in Conns, pc[c] = "trying", rate > 0
  PROVE  Charge(c) \in Nat /\ Charge(c) > 0 /\ Charge(c) <= due[c] /\ Charge(c) <= Burst(rate)
BY BurstFacts DEF TypeOK, Charge, Smaller

\* A nap lasts one unit, or no longer than a whole bucket takes to fill.
LEMMA NapFacts ==
  ASSUME TypeOK, NEW c \in Conns, pc[c] = "trying", rate > 0, Held < Charge(c)
  PROVE  Nap(c) \in Nat /\ (Nap(c) <= 1 \/ Nap(c) * rate <= Burst(rate))
<1>1. Charge(c) \in Nat /\ Charge(c) <= Burst(rate) /\ Burst(rate) \in Nat /\ rate \in Nat
  BY ChargeFacts, BurstFacts DEF TypeOK
<1>2. Held \in Nat
  BY HeldFacts, <1>1
<1> DEFINE missing == Charge(c) - Held
           q == missing \div rate
<1>3. missing \in Nat /\ missing <= Burst(rate)
  BY <1>1, <1>2
<1>4. q \in Nat /\ q * rate <= missing
  <2> HIDE DEF missing
  <2> QED
    BY <1>1, <1>3
<1>5. Nap(c) = IF q < 1 THEN 1 ELSE q
  BY DEF Nap
<1> HIDE DEF q, missing
<1> QED
  BY <1>1, <1>3, <1>4, <1>5

\* The inductive invariant.
LimiterInv == TypeOK /\ SleepsForThisRate

\* The bucket starts empty and nobody waits.
LEMMA LimiterInit == Init => LimiterInv
BY BurstFacts DEF Init, LimiterInv, TypeOK, SleepsForThisRate

\* Every step keeps the types and the bound of the sleeps.
LEMMA LimiterStep == LimiterInv /\ [Next]_vars => LimiterInv'
<1> SUFFICES ASSUME LimiterInv, [Next]_vars PROVE LimiterInv'
  OBVIOUS
<1> USE DEF LimiterInv, bucketVars, connVars
<1>1. ASSUME NEW c \in Conns, Ask(c) PROVE LimiterInv'
  BY <1>1 DEF Ask, TypeOK, SleepsForThisRate
<1>2. ASSUME NEW c \in Conns, Unlimited(c) PROVE LimiterInv'
  BY <1>2 DEF Unlimited, Finish, TypeOK, SleepsForThisRate
<1>3. ASSUME NEW c \in Conns, Take(c) PROVE LimiterInv'
  <2>1. Charge(c) \in Nat /\ Charge(c) > 0 /\ Charge(c) <= due[c] /\ Held \in 0 .. Burst(rate) /\ Burst(rate) \in Nat
    BY <1>3, ChargeFacts, HeldFacts, BurstFacts DEF Take, TypeOK
  <2>2. TypeOK'
    BY <1>3, <2>1 DEF Take, TypeOK
  <2>3. SleepsForThisRate'
    BY <1>3 DEF Take, TypeOK, SleepsForThisRate
  <2> QED
    BY <2>2, <2>3
<1>4. ASSUME NEW c \in Conns, Sleep(c) PROVE LimiterInv'
  <2>1. Held \in 0 .. Burst(rate) /\ Burst(rate) \in Nat
    BY HeldFacts, BurstFacts DEF TypeOK
  <2>2. Nap(c) \in Nat /\ (Nap(c) <= 1 \/ Nap(c) * rate <= Burst(rate))
    BY <1>4, NapFacts DEF Sleep
  <2>3. TypeOK'
    BY <1>4, <2>1, <2>2 DEF Sleep, TypeOK
  <2>4. SleepsForThisRate'
    BY <1>4, <2>2 DEF Sleep, TypeOK, SleepsForThisRate
  <2> QED
    BY <2>3, <2>4
<1>5. ASSUME NEW c \in Conns, Wake(c) PROVE LimiterInv'
  BY <1>5 DEF Wake, TypeOK, SleepsForThisRate
<1>6. ASSUME NEW c \in Conns, GiveUp(c) PROVE LimiterInv'
  BY <1>6 DEF GiveUp, Finish, TypeOK, SleepsForThisRate
<1>7. ASSUME NEW c \in Conns, Stop(c) PROVE LimiterInv'
  BY <1>7 DEF Stop, TypeOK, SleepsForThisRate
<1>8. ASSUME NEW r \in Rates, SetBytesPerSecond(r) PROVE LimiterInv'
  <2>1. Held \in Nat /\ Burst(r) \in Nat
    BY HeldFacts, BurstFacts DEF TypeOK
  <2>2. TypeOK'
    BY <1>8, <2>1 DEF SetBytesPerSecond, TypeOK, Smaller
  <2>3. SleepsForThisRate'
    BY <1>8 DEF SetBytesPerSecond, TypeOK, SleepsForThisRate
  <2> QED
    BY <2>2, <2>3
<1>9. CASE Tick
  <2>1. TypeOK'
    BY <1>9 DEF Tick, TypeOK, Smaller
  <2>2. ASSUME NEW c \in Conns, pc'[c] = "waiting" /\ ~ woken'[c]
        PROVE  rate' > 0 /\ (left'[c] <= 1 \/ left'[c] * rate' <= Burst(rate'))
    <3>1. rate' = rate /\ rate \in Nat /\ left[c] \in Nat /\ Burst(rate) \in Nat
      BY <1>9, BurstFacts DEF Tick, TypeOK
    <3>2. left'[c] \in Nat /\ left'[c] <= left[c]
      BY <1>9, <3>1 DEF Tick
    <3>3. rate > 0 /\ (left[c] <= 1 \/ left[c] * rate <= Burst(rate))
      BY <1>9, <2>2 DEF Tick, SleepsForThisRate
    <3>4. left'[c] * rate <= left[c] * rate
      BY <3>1, <3>2
    <3>5. left'[c] * rate \in Nat /\ left[c] * rate \in Nat
      BY <3>1, <3>2
    <3> QED
      BY <3>1, <3>2, <3>3, <3>4, <3>5
  <2> QED
    BY <2>1, <2>2 DEF SleepsForThisRate
<1>10. CASE UNCHANGED vars
  BY <1>10 DEF vars, TypeOK, SleepsForThisRate
<1> QED
  BY <1>1, <1>2, <1>3, <1>4, <1>5, <1>6, <1>7, <1>8, <1>9, <1>10 DEF Next, WaitN

\* Every variable keeps its type, the bucket never holds more than a burst, and
\* bytes are due only inside a call.
THEOREM LimiterTypeCorrect == Spec => []TypeOK
<1>1. LimiterInv => TypeOK
  BY DEF LimiterInv
<1> QED
  BY LimiterInit, LimiterStep, <1>1, PTL DEF Spec

\* No connection sleeps out a time computed for a limit that was replaced.
THEOREM LimiterSleeps == Spec => []SleepsForThisRate
<1>1. LimiterInv => SleepsForThisRate
  BY DEF LimiterInv
<1> QED
  BY LimiterInit, LimiterStep, <1>1, PTL DEF Spec

\* The initial bucket is an initial state of the contract.
LEMMA ContractStarts == Init => Contract!ContractInit
<1> SUFFICES ASSUME Init PROVE Contract!ContractInit
  OBVIOUS
<1>1. TypeOK /\ age = 0 /\ tokens = 0
  BY LimiterInit DEF LimiterInv, Init
<1>2. Held = 0
  BY <1>1, HeldFacts
<1> QED
  BY <1>2 DEF Init, Contract!ContractInit

\* Every step of the bucket is a step of the contract or leaves it alone.
LEMMA ContractFollows ==
  LimiterInv /\ [Next]_vars => [Contract!ContractNext]_(Contract!contractVars)
<1> SUFFICES ASSUME LimiterInv, [Next]_vars
             PROVE  Contract!ContractNext \/ UNCHANGED Contract!contractVars
  OBVIOUS
<1>a. LimiterInv'
  BY LimiterStep
<1> USE DEF LimiterInv, bucketVars, connVars
<1> DEFINE held == Held
<1>h. held \in Nat /\ held <= Burst(rate) /\ Burst(rate) \in Nat /\ rate \in Nat
  BY HeldFacts, BurstFacts DEF TypeOK
<1>0. age' = 0 => held' = tokens'
  <2>1. TypeOK'
    BY <1>a
  <2>2. rate' \in Rates /\ tokens' \in 0 .. Burst(rate')
    BY <2>1 DEF TypeOK
  <2> QED
    BY <2>2, JustRefilled DEF Held
<1>1. ASSUME NEW c \in Conns, Ask(c) PROVE Contract!Request(c)
  <2>1. held' = held
    BY <1>1 DEF Ask, Held
  <2>2. due[c] = 0 /\ due'[c] \in Nat /\ due' = [due EXCEPT ![c] = due'[c]]
    BY <1>1 DEF Ask, TypeOK
  <2>3. stopped'[c] \in BOOLEAN /\ stopped' = [stopped EXCEPT ![c] = stopped'[c]]
    BY <1>1 DEF Ask, TypeOK
  <2> QED
    BY <1>1, <2>1, <2>2, <2>3 DEF Ask, Contract!Request
<1>2. ASSUME NEW c \in Conns, Unlimited(c) PROVE Contract!Waive(c)
  <2>1. held' = held
    BY <1>0, <1>2, HeldFacts, BurstFacts DEF Unlimited, TypeOK
  <2> QED
    BY <1>2, <2>1 DEF Unlimited, Finish, Contract!Waive
<1>3. ASSUME NEW c \in Conns, Take(c) PROVE Contract!Pay(c)
  <2>1. Charge(c) \in Nat /\ Charge(c) > 0 /\ Charge(c) <= due[c] /\ due[c] \in Nat
    BY <1>3, ChargeFacts DEF Take, TypeOK
  <2>2. due'[c] = due[c] - Charge(c) /\ due' = [due EXCEPT ![c] = due'[c]]
    BY <1>3 DEF Take, TypeOK
  <2>3. held' = held - Charge(c) /\ held' >= 0
    BY <1>0, <1>3, <1>h, <2>1 DEF Take
  <2>4. held' = held - (due[c] - due'[c])
    BY <1>h, <2>1, <2>2, <2>3
  <2> QED
    BY <1>3, <2>1, <2>2, <2>3, <2>4 DEF Take, Contract!Pay
<1>4. ASSUME NEW c \in Conns, Sleep(c) PROVE UNCHANGED Contract!contractVars
  BY <1>0, <1>4 DEF Sleep, Contract!contractVars
<1>5. ASSUME NEW c \in Conns, Wake(c) PROVE UNCHANGED Contract!contractVars
  BY <1>5 DEF Wake, Held, Contract!contractVars
<1>6. ASSUME NEW c \in Conns, GiveUp(c) PROVE Contract!Forgo(c)
  BY <1>6 DEF GiveUp, Finish, Held, Contract!Forgo
<1>7. ASSUME NEW c \in Conns, Stop(c) PROVE Contract!Cancel(c)
  BY <1>7 DEF Stop, Held, Contract!Cancel
<1>8. ASSUME NEW r \in Rates, SetBytesPerSecond(r) PROVE Contract!Change
  <2>1. Burst(r) \in Nat
    BY BurstFacts
  <2>2. held' = Smaller(held, Burst(r)) /\ rate' = r
    BY <1>0, <1>8 DEF SetBytesPerSecond
  <2>3. held' \in 0 .. held /\ held' <= Burst(rate')
    BY <1>h, <2>1, <2>2 DEF Smaller
  <2>4. Contract!Burst(rate') = Burst(rate')
    BY DEF Contract!Burst, Burst
  <2> QED
    BY <1>8, <2>2, <2>3, <2>4 DEF SetBytesPerSecond, Contract!Change
<1>9. CASE Tick
  <2>1. held' = Smaller(Burst(rate), held + rate)
    BY <1>9, HeldAfterTick
  <2>2. Contract!Burst(rate) = Burst(rate)
    BY DEF Contract!Burst, Burst
  <2>3. held' = IF held + rate < Contract!Burst(rate) THEN held + rate ELSE Contract!Burst(rate)
    BY <1>h, <2>1, <2>2 DEF Smaller
  <2> QED
    BY <1>9, <2>3 DEF Tick, Contract!ContractNext, Contract!Accrue
<1>10. CASE UNCHANGED vars
  BY <1>10 DEF vars, Held, Contract!contractVars
<1> QED
  BY <1>1, <1>2, <1>3, <1>4, <1>5, <1>6, <1>7, <1>8, <1>9, <1>10 DEF Next, WaitN, Contract!ContractNext

\* The bucket that is refilled lazily, by sleepers and by new limits, releases
\* bytes exactly as the contract allows.
THEOREM LimiterKeepsRate == Spec => RateKept
<1> USE DEF RateKept, Contract!ContractSpec
<1> QED
  BY LimiterInit, LimiterStep, ContractStarts, ContractFollows, PTL DEF Spec
-----------------------------------------------------------------------------
(* What a user measures.                                                   *)

VARIABLES
  spent,  \* bytes released since the meter was started
  span    \* units of time since then

\* A meter watches the limiter.  It is started at any moment, and anew by
\* another limit.
Starts == spent' = 0 /\ span' = 0

Meters ==
  \/ \E c \in Conns : Take(c) /\ spent' = spent + (due[c] - due'[c]) /\ span' = span
  \/ \E c \in Conns : (Ask(c) \/ Unlimited(c) \/ Sleep(c) \/ Wake(c) \/ GiveUp(c) \/ Stop(c))
                      /\ UNCHANGED <<spent, span>>
  \/ Tick /\ span' = span + 1 /\ spent' = spent
  \/ \E r \in Rates : SetBytesPerSecond(r) /\ IF r = rate THEN UNCHANGED <<spent, span>> ELSE Starts

MeteredSpec ==
  /\ Init /\ spent = 0 /\ span = 0
  /\ [][Meters \/ (UNCHANGED vars /\ Starts)]_<<vars, spent, span>>

\* In no span of time with one limit is more released than a burst and what the
\* rate allows for the span, however often connections sleep, wake, give up and
\* are joined by others, and however often the same limit is set again.
BurstAndRate == rate > 0 => spent <= Burst(rate) + rate * span

\* What is still in the bucket could be spent at once.
Budget ==
  /\ spent \in Nat /\ span \in Nat
  /\ spent + Held <= Burst(rate) + rate * span

MeterInv == LimiterInv /\ Budget

\* The meter changes nothing of the limiter.
LEMMA MetersWatch ==
  [Meters \/ (UNCHANGED vars /\ Starts)]_<<vars, spent, span>> => [Next]_vars
BY DEF Meters, Next, WaitN

\* After a look the bucket holds what was written down.
LEMMA LookedAt ==
  ASSUME LimiterInv', age' = 0
  PROVE  Held' = tokens' /\ Held' \in 0 .. Burst(rate')
<1>1. rate' \in Rates /\ tokens' \in 0 .. Burst(rate')
  BY DEF LimiterInv, TypeOK
<1>2. QED BY <1>1, JustRefilled DEF Held

LEMMA MeterKeeps ==
  MeterInv /\ [Meters \/ (UNCHANGED vars /\ Starts)]_<<vars, spent, span>> => MeterInv'
<1> SUFFICES ASSUME MeterInv, [Meters \/ (UNCHANGED vars /\ Starts)]_<<vars, spent, span>>
             PROVE  MeterInv'
  OBVIOUS
<1>1. LimiterInv'
  BY MetersWatch, LimiterStep DEF MeterInv
<1> SUFFICES Budget'
  BY <1>1 DEF MeterInv
<1> DEFINE held == Held
           bound == rate * span
<1>2. /\ held \in Nat /\ held <= Burst(rate) /\ Burst(rate) \in Nat /\ rate \in Nat
      /\ spent \in Nat /\ span \in Nat /\ bound \in Nat
      /\ spent + held <= Burst(rate) + bound
  <2>1. rate \in Nat /\ span \in Nat
    BY BurstFacts DEF MeterInv, LimiterInv, TypeOK, Budget
  <2>2. rate * span \in Nat
    BY <2>1
  <2>3. QED BY <2>1, <2>2, HeldFacts, BurstFacts DEF MeterInv, LimiterInv, TypeOK, Budget
<1>3. ASSUME UNCHANGED <<rate, spent, span>>, held' = held
      PROVE  Budget'
  BY <1>2, <1>3 DEF Budget
<1>4. ASSUME Starts, rate' \in Rates, held' \in 0 .. Burst(rate')
      PROVE  Budget'
  <2>1. rate' \in Nat /\ Burst(rate') \in Nat
    BY <1>4, BurstFacts
  <2>2. \A r \in Nat : r * 0 = 0
    OBVIOUS
  <2>3. QED BY <1>4, <2>1, <2>2 DEF Starts, Budget
<1> USE DEF bucketVars, connVars
<1>5. ASSUME NEW c \in Conns, Take(c), spent' = spent + (due[c] - due'[c]), span' = span
      PROVE  Budget'
  <2>1. Charge(c) \in Nat /\ Charge(c) <= due[c] /\ due[c] \in Nat
    BY <1>5, ChargeFacts DEF MeterInv, LimiterInv, TypeOK, Take
  <2>2. due'[c] = due[c] - Charge(c)
    BY <1>5 DEF MeterInv, LimiterInv, TypeOK, Take
  <2>3. spent' = spent + Charge(c)
    BY <1>2, <1>5, <2>1, <2>2
  <2>4. held' = held - Charge(c) /\ held >= Charge(c) /\ bound' = bound /\ rate' = rate
    BY <1>1, <1>5, LookedAt DEF Take
  <2>5. spent' \in Nat /\ spent' + held' <= Burst(rate) + bound
    <3> HIDE DEF held, bound
    <3>1. QED BY <1>2, <2>1, <2>3, <2>4
  <2>6. QED BY <1>2, <1>5, <2>4, <2>5 DEF Budget
<1>6. ASSUME NEW c \in Conns,
             Ask(c) \/ Unlimited(c) \/ Sleep(c) \/ Wake(c) \/ GiveUp(c) \/ Stop(c),
             UNCHANGED <<spent, span>>
      PROVE  Budget'
  <2>1. rate' = rate
    BY <1>6 DEF Ask, Unlimited, Sleep, Wake, GiveUp, Stop
  <2>2. CASE Unlimited(c)
    <3>1. tokens = held
      BY <2>2, HeldFacts, BurstFacts DEF MeterInv, LimiterInv, TypeOK, Unlimited
    <3>2. held' = held
      BY <1>1, <2>2, <3>1, LookedAt DEF Unlimited
    <3>3. QED BY <1>3, <1>6, <2>1, <3>2
  <2>3. CASE Sleep(c)
    BY <1>1, <1>3, <1>6, <2>1, <2>3, LookedAt DEF Sleep
  <2>4. CASE Ask(c) \/ Wake(c) \/ GiveUp(c) \/ Stop(c)
    <3>1. held' = held
      BY <2>4 DEF Ask, Wake, GiveUp, Stop, Held
    <3>2. QED BY <1>3, <1>6, <2>1, <3>1
  <2>5. QED BY <1>6, <2>2, <2>3, <2>4
<1>7. ASSUME Tick, span' = span + 1, spent' = spent
      PROVE  Budget'
  <2>1. held' = Smaller(Burst(rate), held + rate) /\ rate' = rate
    BY <1>7, HeldAfterTick DEF MeterInv, LimiterInv, Tick
  <2>2. bound' = bound + rate
    <3>1. rate * (span + 1) = rate * span + rate
      BY <1>2
    <3>2. QED BY <1>7, <2>1, <3>1
  <2>3. held' <= held + rate /\ held' \in Nat
    BY <1>2, <2>1 DEF Smaller
  <2>4. span' \in Nat /\ spent' \in Nat
    BY <1>2, <1>7
  <2>5. spent' + held' <= Burst(rate') + bound'
    <3> HIDE DEF held, bound
    <3>1. QED BY <1>2, <1>7, <2>1, <2>2, <2>3
  <2>6. QED BY <2>4, <2>5 DEF Budget
<1>8. ASSUME NEW r \in Rates, SetBytesPerSecond(r),
             IF r = rate THEN UNCHANGED <<spent, span>> ELSE Starts
      PROVE  Budget'
  <2>1. rate' = r /\ held' = Smaller(held, Burst(r)) /\ held' \in 0 .. Burst(rate')
    BY <1>1, <1>8, LookedAt DEF SetBytesPerSecond
  <2>2. CASE r = rate
    <3>1. held' = held
      BY <1>2, <2>1, <2>2 DEF Smaller
    <3>2. QED BY <1>3, <1>8, <2>1, <2>2, <3>1
  <2>3. CASE r # rate
    BY <1>4, <1>8, <2>1, <2>3
  <2>4. QED BY <2>2, <2>3
<1>9. CASE UNCHANGED vars
  <2>1. held' = held /\ rate' = rate
    BY <1>9 DEF vars, Held
  <2>2. CASE UNCHANGED <<spent, span>>
    BY <1>3, <2>1, <2>2
  <2>3. CASE Starts
    <3>1. rate' \in Rates /\ held' \in 0 .. Burst(rate')
      BY <1>2, <2>1 DEF MeterInv, LimiterInv, TypeOK
    <3>2. QED BY <1>4, <2>3, <3>1
  <2>4. CASE Meters
    BY <1>5, <1>6, <1>7, <1>8, <2>4 DEF Meters
  <2>5. QED BY <2>2, <2>3, <2>4
<1>10. CASE Meters
  BY <1>5, <1>6, <1>7, <1>8, <1>10 DEF Meters
<1>11. QED BY <1>9, <1>10

\* The limiter keeps the promise a user can measure: in any span of time with one
\* limit the connections together are given at most a burst and the rate times the
\* span (bandwidth_limiter.go: one bucket for all).
THEOREM MeterStaysBelow == MeteredSpec => []BurstAndRate
<1>1. Init /\ spent = 0 /\ span = 0 => MeterInv
  <2> SUFFICES ASSUME Init, spent = 0, span = 0 PROVE MeterInv
    OBVIOUS
  <2>1. LimiterInv
    BY LimiterInit
  <2>2. Held \in 0 .. Burst(rate) /\ Burst(rate) \in Nat /\ rate \in Nat
    BY <2>1, HeldFacts, BurstFacts DEF LimiterInv, TypeOK
  <2>3. rate * 0 = 0
    BY <2>2
  <2>4. QED BY <2>1, <2>2, <2>3 DEF MeterInv, Budget
<1>2. MeterInv => BurstAndRate
  <2> SUFFICES ASSUME MeterInv, rate > 0 PROVE spent <= Burst(rate) + rate * span
    BY DEF BurstAndRate
  <2>1. Held \in Nat /\ Burst(rate) \in Nat /\ rate \in Nat /\ spent \in Nat /\ span \in Nat
    BY HeldFacts, BurstFacts DEF MeterInv, LimiterInv, TypeOK, Budget
  <2>2. rate * span \in Nat
    BY <2>1
  <2>3. QED BY <2>1, <2>2 DEF MeterInv, Budget
<1>3. QED BY <1>1, <1>2, MeterKeeps, PTL DEF MeteredSpec
=============================================================================
