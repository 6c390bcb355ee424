--------------------------- MODULE RestartBudget ---------------------------
(***************************************************************************)
(* internal/state/restart.go: how many restarts a failing job still has.   *)
(* The budget belongs to a window that opens with the first restart; the   *)
(* wait before the next restart grows with every restart in the window.    *)
(* Instants are natural numbers of clock units, 0 is Go's zero time.       *)
(***************************************************************************)
EXTENDS Integers

CONSTANTS
    MaxRestarts,   \* RestartPolicy.MaxRestarts
    Window,        \* RestartPolicy.Window
    BaseBackoff,   \* RestartPolicy.BaseBackoff
    Multiplier     \* RestartPolicy.Multiplier

ASSUME BudgetAssumption ==
    /\ MaxRestarts \in Nat
    /\ Window \in Nat
    /\ BaseBackoff \in Nat
    /\ Multiplier \in Nat \ {0}

ZeroTime == 0

Budget == [count: Nat, windowStart: Nat, nextAfter: Nat, lastNonce: Int]

\* Mutant of FreshBudget: an off-by-one in the count a window starts from.
FreshBudgetOffByOne(nonce) ==
    [count |-> -1, windowStart |-> ZeroTime, nextAfter |-> ZeroTime, lastNonce |-> nonce]

\* The zero RestartBudget with a nonce.
FreshBudget(nonce) ==
    [count |-> 0, windowStart |-> ZeroTime, nextAfter |-> ZeroTime, lastNonce |-> nonce]

\* rolled: a budget older than its window is a fresh one that keeps only the nonce.
Rolled(b, now) ==
    IF b.windowStart = ZeroTime \/ now > b.windowStart + Window
    THEN FreshBudget(b.lastNonce)
    ELSE b

\* Mutant of Exhausted: one restart too many.
ExhaustedOneLate(b, now) == Rolled(b, now).count > MaxRestarts

Exhausted(b, now) == Rolled(b, now).count >= MaxRestarts

InBackoff(b, now) ==
    LET r == Rolled(b, now)
    IN  r.nextAfter # ZeroTime /\ now < r.nextAfter

\* math.Pow(multiplier, n).
Pow[n \in Nat] == IF n = 0 THEN 1 ELSE Multiplier * Pow[n - 1]

\* Mutant of Backoff: no wait after the first restart.
BackoffLate(n) == BaseBackoff * (Pow[n] - 1)

\* The wait after the (n+1)-th restart of a window.
Backoff(n) == BaseBackoff * Pow[n]

Consume(b, now) ==
    LET r == Rolled(b, now)
    IN  [count       |-> r.count + 1,
         windowStart |-> IF r.windowStart = ZeroTime THEN now ELSE r.windowStart,
         nextAfter   |-> now + Backoff(r.count),
         lastNonce   |-> r.lastNonce]
=============================================================================
