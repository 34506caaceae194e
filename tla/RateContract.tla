------------------------------ MODULE RateContract ------------------------------
(***************************************************************************)
(* What the download speed limit promises, whoever waits and whenever the  *)
(* bucket is brought up to date: while a limit is set, bytes are released  *)
(* to a connection only against credit, credit grows by the rate in each   *)
(* unit of time, and never beyond one burst.  In any span of time without  *)
(* a change of the limit, at most one burst plus the rate times the span   *)
(* can therefore be released.                                              *)
(***************************************************************************)
EXTENDS Integers

CONSTANTS
  Conns,  \* connections
  Rates,  \* speed limits in bytes per unit of time; 0 is no limit
  Floor   \* the least burst

VARIABLES
  rate,    \* the limit
  credit,  \* bytes that may be released at once
  due,     \* bytes a connection still waits to be released
  stopped  \* connections whose transfer was paused, canceled or shut down

contractVars == <<rate, credit, due, stopped>>

Burst(r) == IF r = 0 THEN 0 ELSE IF r < Floor THEN Floor ELSE r

ContractInit ==
  /\ rate \in Rates /\ credit = 0
  /\ due = [c \in Conns |-> 0]
  /\ stopped = [c \in Conns |-> FALSE]

Request(c) ==
  /\ due[c] = 0
  /\ due'[c] \in Nat
  /\ due' = [due EXCEPT ![c] = due'[c]]
  /\ stopped'[c] \in BOOLEAN
  /\ stopped' = [stopped EXCEPT ![c] = stopped'[c]]
  /\ UNCHANGED <<rate, credit>>

Cancel(c) ==
  /\ stopped' = [stopped EXCEPT ![c] = TRUE]
  /\ UNCHANGED <<rate, credit, due>>

\* Bytes are released against the same amount of credit.
Pay(c) ==
  /\ rate > 0
  /\ due'[c] \in 0 .. (due[c] - 1)
  /\ due' = [due EXCEPT ![c] = due'[c]]
  /\ credit' = credit - (due[c] - due'[c])
  /\ credit' >= 0
  /\ UNCHANGED <<rate, stopped>>

\* Without a limit everything is released.
Waive(c) ==
  /\ rate = 0
  /\ due' = [due EXCEPT ![c] = 0]
  /\ UNCHANGED <<rate, credit, stopped>>

\* A canceled connection goes without its bytes.
Forgo(c) ==
  /\ stopped[c]
  /\ due' = [due EXCEPT ![c] = 0]
  /\ UNCHANGED <<rate, credit, stopped>>

Accrue ==
  /\ credit' = IF credit + rate < Burst(rate) THEN credit + rate ELSE Burst(rate)
  /\ UNCHANGED <<rate, due, stopped>>

\* A new limit gives no credit away.
Change ==
  /\ rate' \in Rates
  /\ credit' \in 0 .. credit
  /\ credit' <= Burst(rate')
  /\ UNCHANGED <<due, stopped>>

ContractNext ==
  \/ \E c \in Conns : Request(c) \/ Cancel(c) \/ Pay(c) \/ Waive(c) \/ Forgo(c)
  \/ Accrue
  \/ Change

ContractSpec == ContractInit /\ [][ContractNext]_contractVars
=============================================================================
