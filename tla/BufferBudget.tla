---------------------------- MODULE BufferBudget ----------------------------
(***************************************************************************)
(* The arithmetic of src/server.rs `BufferBudget`: how a byte budget       *)
(* becomes semaphore permits, how large one body may be, and how many      *)
(* permits a body of a given length asks for.                              *)
(*                                                                         *)
(* The permits are named tokens, so that "lost" and "owned twice" can be   *)
(* said of each; the semaphore of the code only counts them.               *)
(***************************************************************************)
EXTENDS Integers, FiniteSets

CONSTANTS
  PermitBytes,        \* bytes one permit stands for (1024 in the code)
  BudgetBytes,        \* budget_bytes handed to BufferBudget::new
  MaxPermits,         \* tokio::sync::Semaphore::MAX_PERMITS
  WantCap,            \* u32::MAX, the most permits one acquire can name
  ConfiguredMaxBody,  \* routing.max_body_bytes
  Permits             \* the semaphore's permits

\* `(budget_bytes / 1024).clamp(1, Semaphore::MAX_PERMITS)`
PermitCount ==
  LET p == BudgetBytes \div PermitBytes
  IN  IF p < 1 THEN 1 ELSE IF p > MaxPermits THEN MaxPermits ELSE p

\* A slip: the per-request cap is not clamped to the budget.
UnclampedMaxBody == ConfiguredMaxBody

\* `max_body_bytes.min(permits * 1024)`: the 413 boundary.
MaxBodyBytes ==
  IF ConfiguredMaxBody < PermitCount * PermitBytes
  THEN ConfiguredMaxBody
  ELSE PermitCount * PermitBytes

DivCeil(n) == (n + PermitBytes - 1) \div PermitBytes

\* `u32::try_from(bytes.div_ceil(1024).max(1)).unwrap_or(u32::MAX)`
Want(n) ==
  LET w == IF DivCeil(n) < 1 THEN 1 ELSE DivCeil(n)
  IN  IF w > WantCap THEN WantCap ELSE w

ASSUME BudgetAssumption ==
  /\ PermitBytes \in Nat \ {0}
  /\ BudgetBytes \in Nat
  /\ MaxPermits \in Nat \ {0}
  /\ WantCap \in Nat \ {0}
  /\ ConfiguredMaxBody \in Nat
  /\ IsFiniteSet(Permits)
  /\ Cardinality(Permits) = PermitCount
=============================================================================
