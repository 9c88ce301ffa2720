------------------------------ MODULE ReleaseMath ------------------------------
(***************************************************************************)
(* The arithmetic of the on-chain program: how much of a locked amount has *)
(* vested (ClaimStatus::unlocked_amount) and how much bonus a claim earns  *)
(* (get_bonus_for_a_claimaint).  Amounts are u64 values, products are      *)
(* taken in u128, where (2^64-1)*(2^64-1) fits, and are cast back to u64,  *)
(* which keeps the low bits.  A Result<u64> is a u64 or Err.               *)
(***************************************************************************)
EXTENDS Integers

CONSTANT U64Max    \* the largest u64; small in the model-checked instances

ASSUME U64MaxAssumption == U64Max \in Nat

U64 == 0 .. U64Max
Err == -1          \* Err(ArithmeticError)

\* The operator ? goes on with an Ok only.
ErrorIgnored(result) == TRUE
IsOk(result) == result # Err

checked_add(a, b) == IF a + b <= U64Max THEN a + b ELSE Err
checked_sub(a, b) == IF b <= a THEN a - b ELSE Err
as_u64(n) == n % (U64Max + 1)

(***************************************************************************)
(* The linear part of both schedules: the share of amount that is released *)
(* after elapsed of duration time units, 0 <= elapsed < duration.          *)
(***************************************************************************)
RoundedUpRelease(amount, elapsed, duration) ==
    (elapsed * amount + duration - 1) \div duration

LinearRelease(amount, elapsed, duration) ==
    as_u64((elapsed * amount) \div duration)

(***************************************************************************)
(* ClaimStatus::unlocked_amount and ClaimStatus::amount_withdrawable, for  *)
(* the locked and already withdrawn amounts of a claim status.  The checked*)
(* subtractions of timestamps cannot fail between start_ts <= curr_ts and  *)
(* curr_ts < end_ts.                                                       *)
(***************************************************************************)
UnlockedTooSoon(locked, curr_ts, start_ts, end_ts) ==
    IF curr_ts >= start_ts THEN locked ELSE 0

unlocked_amount(locked, curr_ts, start_ts, end_ts) ==
    IF curr_ts < start_ts THEN 0
    ELSE IF curr_ts >= end_ts THEN locked
    ELSE LinearRelease(locked, curr_ts - start_ts, end_ts - start_ts)

amount_withdrawable(locked, withdrawn, curr_ts, start_ts, end_ts) ==
    checked_sub(unlocked_amount(locked, curr_ts, start_ts, end_ts), withdrawn)

(***************************************************************************)
(* MerkleDistributor::get_max_bonus_for_a_claimant: the pool total_bonus   *)
(* is shared in proportion to unlocked over everything else that can be    *)
(* claimed.  A tree whose amounts are all zero makes the divisor zero.     *)
(***************************************************************************)
MaxBonusRoundedUp(unlocked, max_total_claim, total_bonus) ==
    LET base == checked_sub(max_total_claim, total_bonus)
    IN  IF base \in {Err, 0} THEN Err
        ELSE (unlocked * total_bonus + base - 1) \div base

get_max_bonus_for_a_claimant(unlocked, max_total_claim, total_bonus) ==
    LET base == checked_sub(max_total_claim, total_bonus)
    IN  IF base \in {Err, 0} THEN Err
        ELSE as_u64((unlocked * total_bonus) \div base)

(***************************************************************************)
(* ActivationHandler::get_bonus_for_a_claimaint: the bonus grows from 0 at *)
(* start_point to max_bonus at start_point + vesting_duration; the end     *)
(* point is computed, and may overflow, whatever the current point is.     *)
(***************************************************************************)
vested_bonus(max_bonus, curr_point, start_point, vesting_duration) ==
    IF max_bonus = Err \/ checked_add(vesting_duration, start_point) = Err
    THEN Err
    ELSE IF curr_point < start_point THEN 0
    ELSE IF curr_point >= start_point + vesting_duration THEN max_bonus
    ELSE LinearRelease(max_bonus, curr_point - start_point, vesting_duration)
================================================================================
