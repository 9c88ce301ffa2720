--------------------------- MODULE DistributorProofs ---------------------------
(***************************************************************************)
(* Proofs about the program, for any number of versions, claimants and     *)
(* tokens and any width of u64. First the arithmetic, the types and the    *)
(* safety invariants: nothing is truncated, shares are bounded and vesting *)
(* is monotone. Then the ledger: the program implements Escrow for every   *)
(* version, a vault that can pay all claims stays so until it is swept,    *)
(* and what a claimant and all of them together got agrees with the tree   *)
(* and with the counter. At the end the tool of a claimant, ClaimClient,   *)
(* as one user of the program.                                             *)
(***************************************************************************)
EXTENDS ClaimClient, DataProofs, FiniteSetTheorems, TLAPS

(* The arithmetic: what it returns for every width of u64.                 *)

(* Multiplication by a natural number is monotone.                         *)
LEMMA TimesMonotone ==
    ASSUME NEW a \in Nat, NEW b \in Nat, NEW c \in Nat, a <= b
    PROVE  a * c \in Nat /\ b * c \in Nat /\ a * c <= b * c /\ c * a <= c * b
  BY SMT

(* Integer division rounds down.                                           *)
LEMMA DivFloor ==
    ASSUME NEW a \in Nat, NEW b \in Nat \ {0}
    PROVE  /\ a \div b \in Nat
           /\ b * (a \div b) <= a
           /\ a < b * (a \div b) + b
  BY SMT

LEMMA DivAtMost ==
    ASSUME NEW a \in Nat, NEW b \in Nat \ {0}, NEW n \in Nat, a <= b * n
    PROVE  a \div b <= n
  BY DivFloor, SMT

LEMMA DivMonotone ==
    ASSUME NEW a \in Nat, NEW b \in Nat \ {0}, NEW c \in Nat, a <= c
    PROVE  a \div b <= c \div b
  BY DivFloor, SMT

(* The cast to u64 keeps what fits and never makes a number larger.        *)
LEMMA CastOfU64 ==
    ASSUME NEW n \in U64
    PROVE  as_u64(n) = n
  BY U64MaxAssumption, SMT DEF as_u64, U64

LEMMA CastShrinks ==
    ASSUME NEW n \in Nat
    PROVE  as_u64(n) \in U64 /\ as_u64(n) <= n
  BY U64MaxAssumption, SMT DEF as_u64, U64

LEMMA CheckedAdd ==
    ASSUME NEW a \in U64, NEW b \in U64, IsOk(checked_add(a, b))
    PROVE  checked_add(a, b) = a + b /\ checked_add(a, b) \in U64
  BY U64MaxAssumption, SMT DEF checked_add, IsOk, Err, U64

LEMMA CheckedSub ==
    ASSUME NEW a \in U64, NEW b \in U64, IsOk(checked_sub(a, b))
    PROVE  checked_sub(a, b) = a - b /\ b <= a /\ checked_sub(a, b) \in U64
  BY U64MaxAssumption, SMT DEF checked_sub, IsOk, Err, U64

--------------------------------------------------------------------------------
(* The cast back to u64 in unlocked_amount never truncates, which its      *)
(* comment argues for by an approximation, and the released part is at     *)
(* most the linear share of the amount, so at most the amount.             *)
THEOREM ReleaseNeverTruncates ==
    ASSUME NEW amount \in U64, NEW elapsed \in Nat, NEW duration \in Nat \ {0},
           elapsed <= duration
    PROVE  /\ LinearRelease(amount, elapsed, duration)
                = (elapsed * amount) \div duration
           /\ LinearRelease(amount, elapsed, duration) \in U64
           /\ LinearRelease(amount, elapsed, duration) <= amount
           /\ duration * LinearRelease(amount, elapsed, duration)
                <= elapsed * amount
<1> DEFINE share == (elapsed * amount) \div duration
<1>1. amount \in Nat
  BY U64MaxAssumption DEF U64
<1>2. elapsed * amount \in Nat /\ elapsed * amount <= duration * amount
  BY <1>1, TimesMonotone
<1>3. share \in Nat /\ share <= amount /\ duration * share <= elapsed * amount
  <2> HIDE DEF share
  <2>1. /\ share \in Nat
        /\ duration * share <= elapsed * amount
    BY <1>2, DivFloor DEF share
  <2>2. share <= amount
    BY <1>1, <1>2, DivAtMost DEF share
  <2>3. QED
    BY <2>1, <2>2
<1>4. share \in U64
  BY <1>3, U64MaxAssumption, SMT DEF U64
<1>5. LinearRelease(amount, elapsed, duration) = share
  BY <1>4, CastOfU64 DEF LinearRelease
<1>6. QED
  BY <1>3, <1>4, <1>5

(* More of the duration never releases less.                               *)
LEMMA ReleaseMonotone ==
    ASSUME NEW amount \in U64, NEW duration \in Nat \ {0},
           NEW earlier \in Nat, NEW later \in Nat,
           earlier <= later, later <= duration
    PROVE  LinearRelease(amount, earlier, duration)
             <= LinearRelease(amount, later, duration)
<1>1. amount \in Nat
  BY U64MaxAssumption DEF U64
<1>2. /\ earlier * amount \in Nat
      /\ later * amount \in Nat
      /\ earlier * amount <= later * amount
  BY <1>1, TimesMonotone
<1>3. (earlier * amount) \div duration <= (later * amount) \div duration
  BY <1>2, DivMonotone
<1>4. earlier <= duration
  BY SMT
<1>5. QED
  BY <1>3, <1>4, ReleaseNeverTruncates

(* unlocked_amount returns between nothing and all of the locked amount.   *)
LEMMA UnlockedWithinLocked ==
    ASSUME NEW locked \in U64, NEW curr_ts \in Nat, NEW start_ts \in Nat,
           NEW end_ts \in Nat
    PROVE  /\ unlocked_amount(locked, curr_ts, start_ts, end_ts) \in U64
           /\ unlocked_amount(locked, curr_ts, start_ts, end_ts) <= locked
<1>1. CASE curr_ts < start_ts \/ curr_ts >= end_ts
  BY <1>1, U64MaxAssumption, SMT DEF unlocked_amount, U64
<1>2. CASE ~(curr_ts < start_ts) /\ ~(curr_ts >= end_ts)
  <2>1. /\ curr_ts - start_ts \in Nat
        /\ end_ts - start_ts \in Nat \ {0}
        /\ curr_ts - start_ts <= end_ts - start_ts
    BY <1>2, SMT
  <2>2. unlocked_amount(locked, curr_ts, start_ts, end_ts)
          = LinearRelease(locked, curr_ts - start_ts, end_ts - start_ts)
    BY <1>2 DEF unlocked_amount
  <2>3. QED
    BY <2>1, <2>2, ReleaseNeverTruncates
<1>3. QED
  BY <1>1, <1>2

(* What has vested stays vested: amount_withdrawable cannot underflow.     *)
THEOREM UnlockedMonotone ==
    ASSUME NEW locked \in U64, NEW start_ts \in Nat, NEW end_ts \in Nat,
           NEW earlier \in Nat, NEW later \in Nat, earlier <= later
    PROVE  unlocked_amount(locked, earlier, start_ts, end_ts)
             <= unlocked_amount(locked, later, start_ts, end_ts)
<1>1. CASE earlier < start_ts
  <2>1. unlocked_amount(locked, earlier, start_ts, end_ts) = 0
    BY <1>1 DEF unlocked_amount
  <2>2. unlocked_amount(locked, later, start_ts, end_ts) \in U64
    BY UnlockedWithinLocked
  <2>3. QED
    BY <2>1, <2>2, U64MaxAssumption, SMT DEF U64
<1>2. CASE ~(earlier < start_ts) /\ later >= end_ts
  <2>1. ~(later < start_ts)
    BY <1>2, SMT
  <2>2. unlocked_amount(locked, later, start_ts, end_ts) = locked
    BY <1>2, <2>1 DEF unlocked_amount
  <2>3. QED
    BY <2>2, UnlockedWithinLocked
<1>3. CASE ~(earlier < start_ts) /\ ~(later >= end_ts)
  <2> DEFINE duration == end_ts - start_ts
             before == earlier - start_ts
             after == later - start_ts
  <2>1. /\ before \in Nat /\ after \in Nat /\ duration \in Nat \ {0}
        /\ before <= after /\ after <= duration
        /\ ~(earlier >= end_ts) /\ ~(later < start_ts)
    BY <1>3, SMT
  <2>2. /\ unlocked_amount(locked, earlier, start_ts, end_ts)
             = LinearRelease(locked, before, duration)
        /\ unlocked_amount(locked, later, start_ts, end_ts)
             = LinearRelease(locked, after, duration)
    BY <1>3, <2>1 DEF unlocked_amount
  <2> HIDE DEF duration, before, after
  <2>3. QED
    BY <2>1, <2>2, ReleaseMonotone
<1>4. QED
  BY <1>1, <1>2, <1>3, SMT

--------------------------------------------------------------------------------
(* A claimant's largest bonus is at most the share of the pool that the    *)
(* claimant's unlocked amount is of everything else in the distributor.    *)
THEOREM MaxBonusIsShare ==
    ASSUME NEW unlocked \in U64, NEW max_total_claim \in U64, NEW total_bonus \in U64,
           IsOk(get_max_bonus_for_a_claimant(unlocked, max_total_claim, total_bonus))
    PROVE  LET bonus == get_max_bonus_for_a_claimant(unlocked, max_total_claim, total_bonus)
               base == max_total_claim - total_bonus
           IN  /\ bonus \in U64
               /\ base \in Nat \ {0}
               /\ base * bonus <= unlocked * total_bonus
<1> DEFINE base == max_total_claim - total_bonus
           share == (unlocked * total_bonus) \div base
           bonus == get_max_bonus_for_a_claimant(unlocked, max_total_claim, total_bonus)
<1>1. /\ checked_sub(max_total_claim, total_bonus) \notin {Err, 0}
      /\ bonus = as_u64((unlocked * total_bonus) \div checked_sub(max_total_claim, total_bonus))
  BY DEF get_max_bonus_for_a_claimant, IsOk
<1>2. checked_sub(max_total_claim, total_bonus) = base /\ base \in Nat \ {0}
  BY <1>1, U64MaxAssumption, SMT DEF checked_sub, Err, U64
<1>3. unlocked * total_bonus \in Nat
  BY U64MaxAssumption, SMT DEF U64
<1> HIDE DEF base
<1>4. share \in Nat /\ base * share <= unlocked * total_bonus
  BY <1>2, <1>3, DivFloor
<1>5. bonus = as_u64(share)
  BY <1>1, <1>2
<1> HIDE DEF bonus, share
<1>6. bonus \in U64 /\ bonus <= share
  BY <1>4, <1>5, CastShrinks
<1>7. bonus \in Nat
  BY <1>6, U64MaxAssumption DEF U64
<1>8. base * bonus <= base * share /\ base * bonus \in Nat /\ base * share \in Nat
  BY <1>2, <1>4, <1>6, <1>7, TimesMonotone
<1>9. base * bonus <= unlocked * total_bonus
  BY <1>3, <1>4, <1>8, SMT
<1>10. QED
  BY <1>2, <1>6, <1>9 DEF base, bonus

(* The bonus schedule never pays more than the largest bonus.              *)
LEMMA VestedBonusBounded ==
    ASSUME NEW max_bonus \in U64, NEW point \in Nat, NEW start_point \in U64,
           NEW vesting_duration \in U64,
           IsOk(vested_bonus(max_bonus, point, start_point, vesting_duration))
    PROVE  /\ vested_bonus(max_bonus, point, start_point, vesting_duration) \in U64
           /\ vested_bonus(max_bonus, point, start_point, vesting_duration) <= max_bonus
<1> DEFINE paid == vested_bonus(max_bonus, point, start_point, vesting_duration)
<1>1. /\ max_bonus \in Nat /\ start_point \in Nat /\ vesting_duration \in Nat
      /\ 0 \in U64 /\ 0 <= max_bonus
  BY U64MaxAssumption, SMT DEF U64
<1>2. ~(max_bonus = Err \/ checked_add(vesting_duration, start_point) = Err)
  BY DEF vested_bonus, IsOk
<1>3. CASE point < start_point
  BY <1>1, <1>2, <1>3 DEF vested_bonus
<1>4. CASE ~(point < start_point) /\ point >= start_point + vesting_duration
  BY <1>1, <1>2, <1>4, SMT DEF vested_bonus
<1>5. CASE ~(point < start_point) /\ ~(point >= start_point + vesting_duration)
  <2>1. paid = LinearRelease(max_bonus, point - start_point, vesting_duration)
    BY <1>2, <1>5 DEF vested_bonus
  <2>2. /\ point - start_point \in Nat
        /\ vesting_duration \in Nat \ {0}
        /\ point - start_point <= vesting_duration
    BY <1>1, <1>5, SMT
  <2>3. QED
    BY <2>1, <2>2, ReleaseNeverTruncates
<1>6. QED
  BY <1>3, <1>4, <1>5

--------------------------------------------------------------------------------
(* Types *)

LEMMA U64IsNat == U64 \subseteq Nat /\ 0 \in U64
  BY U64MaxAssumption, SMT DEF U64

LEMMA AtMostU64 ==
    ASSUME NEW n \in Nat, NEW m \in U64, n <= m
    PROVE  n \in U64
  BY U64MaxAssumption, SMT DEF U64

LEMMA TransferType ==
    ASSUME balance \in [TokenAccount -> Nat],
           NEW from \in TokenAccount, NEW to \in TokenAccount, NEW amount \in Nat,
           Transfer(from, to, amount)
    PROVE  balance' \in [TokenAccount -> Nat]
<1>1. CASE from = to
  BY <1>1 DEF Transfer
<1>2. CASE from # to
  <2>1. balance[from] - amount \in Nat
    BY SMT DEF Transfer
  <2>2. balance' = [balance EXCEPT ![from] = balance[from] - amount,
                                   ![to] = balance[to] + amount]
    BY <1>2 DEF Transfer
  <2>3. QED
    BY <2>1, <2>2
<1>3. QED
  BY <1>1, <1>2

(* Where an account is live its content has the account's type.            *)
LEMMA LiveType ==
    ASSUME TypeOK, NEW v \in Version, IsLive(v)
    PROVE  distributor[v] \in MerkleDistributor
  BY DEF TypeOK, IsLive

LEMMA ClaimedType ==
    ASSUME TypeOK, NEW v \in Version, NEW c \in Claimant, HasClaimed(v, c)
    PROVE  claim_status[v][c] \in ClaimStatus
  BY DEF TypeOK, HasClaimed

(* What a new claim pays: the unlocked amount of the leaf and a bonus that *)
(* is at most the share of the pool.                                       *)
LEMMA NewClaimAmount ==
    ASSUME TypeOK, NEW v \in Version, NEW leaf \in Leaf, NewClaim(v, leaf),
           NEW d, d = distributor[v],
           NEW bonus, bonus = BonusNow(d, leaf.unlocked)
    PROVE  /\ d \in MerkleDistributor
           /\ bonus \in U64
           /\ leaf.unlocked + bonus \in U64
           /\ checked_add(leaf.unlocked, bonus) = leaf.unlocked + bonus
           /\ d.max_total_claim - d.total_bonus \in Nat \ {0}
           /\ (d.max_total_claim - d.total_bonus) * bonus
                <= leaf.unlocked * d.total_bonus
<1> DEFINE max == get_max_bonus_for_a_claimant(leaf.unlocked, d.max_total_claim, d.total_bonus)
           base == d.max_total_claim - d.total_bonus
<1>1. d \in MerkleDistributor
  BY LiveType DEF NewClaim, CanClaim, IsOpen
<1>2. /\ leaf.unlocked \in U64 /\ d.max_total_claim \in U64 /\ d.total_bonus \in U64
      /\ d.vesting_duration \in U64 /\ d.activation_point \in U64
      /\ curr_point(d) \in Nat
  BY <1>1 DEF Leaf, MerkleDistributor, curr_point, TypeOK
<1>3. bonus = vested_bonus(max, curr_point(d), d.activation_point, d.vesting_duration)
  BY DEF BonusNow
<1>4. IsOk(bonus) /\ IsOk(checked_add(leaf.unlocked, bonus))
  BY DEF NewClaim, CanClaim
<1>5. IsOk(max)
  BY <1>3, <1>4 DEF vested_bonus, IsOk
<1>6. max \in U64 /\ base \in Nat \ {0} /\ base * max <= leaf.unlocked * d.total_bonus
  BY <1>2, <1>5, MaxBonusIsShare
<1> HIDE DEF max
<1>7. bonus \in U64 /\ bonus <= max
  BY <1>2, <1>3, <1>4, <1>6, VestedBonusBounded
<1>8. /\ checked_add(leaf.unlocked, bonus) = leaf.unlocked + bonus
      /\ leaf.unlocked + bonus \in U64
  BY <1>2, <1>4, <1>7, CheckedAdd
<1>9. base * bonus <= leaf.unlocked * d.total_bonus
  <2> HIDE DEF base
  <2>1. /\ bonus \in Nat /\ max \in Nat /\ leaf.unlocked \in Nat /\ d.total_bonus \in Nat
    BY <1>2, <1>6, <1>7, U64IsNat
  <2>2. base * bonus \in Nat /\ base * max \in Nat /\ base * bonus <= base * max
    BY <1>6, <1>7, <2>1, TimesMonotone
  <2>3. leaf.unlocked * d.total_bonus \in Nat
    BY <2>1, SMT
  <2>4. QED
    BY <1>6, <2>2, <2>3, SMT
<1>10. QED
  BY <1>1, <1>6, <1>7, <1>8, <1>9

(* What claim_locked pays.                                                 *)
LEMMA ClaimLockedAmount ==
    ASSUME TypeOK, NEW v \in Version, NEW c \in Claimant, ClaimLocked(v, c),
           NEW d, d = distributor[v], NEW s, s = claim_status[v][c],
           NEW amount, amount = Withdrawable(d, s)
    PROVE  /\ d \in MerkleDistributor
           /\ s \in ClaimStatus
           /\ amount \in U64
           /\ s.locked_amount_withdrawn + amount
                = unlocked_amount(s.locked_amount, unix_timestamp, d.start_ts, d.end_ts)
<1> DEFINE unlocked == unlocked_amount(s.locked_amount, unix_timestamp, d.start_ts, d.end_ts)
<1>1. d \in MerkleDistributor /\ s \in ClaimStatus
  BY LiveType, ClaimedType DEF ClaimLocked, CanWithdraw, IsOpen
<1>2. /\ s.locked_amount \in U64 /\ s.locked_amount_withdrawn \in U64
      /\ d.start_ts \in Nat /\ d.end_ts \in Nat /\ unix_timestamp \in Nat
  BY <1>1 DEF MerkleDistributor, ClaimStatus, TypeOK
<1>3. unlocked \in U64
  BY <1>2, UnlockedWithinLocked
<1>4. IsOk(amount) /\ amount = checked_sub(unlocked, s.locked_amount_withdrawn)
  BY DEF ClaimLocked, CanWithdraw, Withdrawable, amount_withdrawable
<1> HIDE DEF unlocked
<1>5. amount = unlocked - s.locked_amount_withdrawn /\ amount \in U64
  BY <1>2, <1>3, <1>4, CheckedSub
<1>6. s.locked_amount_withdrawn + amount = unlocked
  BY <1>2, <1>3, <1>5, U64IsNat, SMT
<1>7. QED
  BY <1>1, <1>5, <1>6 DEF unlocked
--------------------------------------------------------------------------------
(* Type correctness, action by action *)

LEMMA VersionsAreTokenAccounts ==
    /\ Version \subseteq TokenAccount
    /\ Claimant \subseteq TokenAccount
    /\ Receiver \subseteq TokenAccount
    /\ Funder \in TokenAccount
  BY AccountsAssumption DEF TokenAccount

LEMMA DeployType ==
    ASSUME TypeOK, NEW v \in Version, Deploy(v)
    PROVE  TypeOK'
<1>1. PICK a \in DeployArgs, signer \in Wallet, receiver \in Receiver :
         \/ NewDistributor(v, a, signer, receiver)
         \/ NewDistributor2(v, a, signer, receiver)
  BY DEF Deploy
<1>2. a \in DeployArg /\ receiver \in TokenAccount
  BY InputsAssumption, VersionsAreTokenAccounts
<1>3. ASSUME NEW max_total \in U64, NEW bonus \in U64, NEW duration \in U64,
             HandleNewDistributor(v, a, signer, receiver, max_total, bonus, duration)
      PROVE  TypeOK'
  <2> DEFINE d == NewAccount(a, signer, receiver, max_total, bonus, duration)
  <2>1. d \in MerkleDistributor
    BY <1>2, U64IsNat DEF DeployArg, MerkleDistributor, NewAccount
  <2>2. distributor' = [distributor EXCEPT ![v] = d]
    BY <1>3 DEF HandleNewDistributor
  <2> HIDE DEF d
  <2>3. distributor' \in [Version -> MerkleDistributor \cup {NoAccount}]
    BY <2>1, <2>2 DEF TypeOK
  <2>4. incarnation' \in [Version -> {"unused", "first", "recycled"}]
    BY <1>3 DEF TypeOK, HandleNewDistributor
  <2>5. QED
    BY <1>3, <2>3, <2>4 DEF TypeOK, HandleNewDistributor, clocks
<1>4. CASE NewDistributor(v, a, signer, receiver)
  <2>1. a.total_claim \in U64 /\ 0 \in U64
    BY <1>2, U64IsNat DEF DeployArg
  <2>2. QED
    BY <1>3, <1>4, <2>1 DEF NewDistributor
<1>5. CASE NewDistributor2(v, a, signer, receiver)
  <2>1. a.total_claim \in U64 /\ a.total_bonus \in U64 /\ a.vesting_duration \in U64
    BY <1>2 DEF DeployArg
  <2>2. checked_add(a.total_claim, a.total_bonus) \in U64
    BY <1>5, <2>1, CheckedAdd DEF NewDistributor2
  <2>3. QED
    BY <1>3, <1>5, <2>1, <2>2 DEF NewDistributor2
<1>6. QED
  BY <1>1, <1>4, <1>5

(* The distributor after a new claim: the counters stay in u64 because the *)
(* caps do.                                                                *)
LEMMA RecordClaimType ==
    ASSUME NEW d \in MerkleDistributor, NEW unlocked \in U64, NEW bonus \in U64,
           HasNodeLeft(d), FitsMaxTotal(d, unlocked + bonus),
           d.total_claimed_bonus <= d.total_amount_claimed
    PROVE  RecordClaim(d, unlocked + bonus, bonus) \in MerkleDistributor
<1>1. /\ d.num_nodes_claimed + 1 \in U64
      /\ d.total_amount_claimed + (unlocked + bonus) \in U64
      /\ d.total_claimed_bonus + bonus \in U64
  <2>1. /\ d.max_num_nodes \in U64 /\ d.max_total_claim \in U64
        /\ d.num_nodes_claimed \in U64 /\ d.total_amount_claimed \in U64
        /\ d.total_claimed_bonus \in U64
    BY DEF MerkleDistributor
  <2>2. QED
    BY <2>1, U64MaxAssumption, SMT DEF HasNodeLeft, FitsMaxTotal, U64
<1>2. QED
  BY <1>1 DEF RecordClaim, MerkleDistributor

LEMMA NewClaimType ==
    ASSUME TypeOK, BonusIsShare, NEW v \in Version, NEW leaf \in Leaf,
           NewClaim(v, leaf)
    PROVE  TypeOK'
<1> DEFINE d == distributor[v]
           bonus == BonusNow(d, leaf.unlocked)
           amount == leaf.unlocked + bonus
           status == [locked_amount |-> leaf.locked, locked_amount_withdrawn |-> 0,
                      unlocked_amount |-> amount, closable |-> d.closable,
                      admin |-> d.admin]
<1>1. /\ d \in MerkleDistributor
      /\ bonus \in U64
      /\ amount \in U64
      /\ checked_add(leaf.unlocked, bonus) = amount
  BY NewClaimAmount
<1>2. /\ leaf.claimant \in Claimant /\ leaf.unlocked \in U64 /\ leaf.locked \in U64
  BY DEF Leaf
<1> HIDE DEF bonus
<1>3. d.total_claimed_bonus <= d.total_amount_claimed /\ HasNodeLeft(d)
      /\ FitsMaxTotal(d, amount)
  BY <1>1 DEF NewClaim, CanClaim, BonusIsShare, BonusShared, IsOpen, bonus
<1>4. RecordClaim(d, amount, bonus) \in MerkleDistributor
  BY <1>1, <1>2, <1>3, RecordClaimType
<1>5. status \in ClaimStatus
  BY <1>1, <1>2, U64IsNat DEF ClaimStatus, MerkleDistributor
<1>6. /\ distributor' = [distributor EXCEPT ![v] = RecordClaim(d, amount, bonus)]
      /\ claim_status' = [claim_status EXCEPT ![v][leaf.claimant] = status]
      /\ Transfer(v, leaf.claimant, amount)
      /\ UNCHANGED <<clocks, incarnation>>
  BY <1>1 DEF NewClaim, CanClaim, bonus
<1> HIDE DEF d, amount, status
<1>7. distributor' \in [Version -> MerkleDistributor \cup {NoAccount}]
  BY <1>4, <1>6 DEF TypeOK
<1>8. claim_status' \in [Version -> [Claimant -> ClaimStatus \cup {NoAccount}]]
  BY <1>2, <1>5, <1>6 DEF TypeOK
<1>9. balance' \in [TokenAccount -> Nat]
  BY <1>1, <1>2, <1>6, TransferType, VersionsAreTokenAccounts, U64IsNat DEF TypeOK
<1>10. QED
  BY <1>6, <1>7, <1>8, <1>9 DEF TypeOK, clocks

LEMMA ClaimLockedType ==
    ASSUME TypeOK, NEW v \in Version, NEW c \in Claimant, ClaimLocked(v, c)
    PROVE  TypeOK'
<1> DEFINE d == distributor[v]
           s == claim_status[v][c]
           amount == Withdrawable(d, s)
<1>1. d \in MerkleDistributor /\ s \in ClaimStatus /\ amount \in U64
  BY ClaimLockedAmount
<1> HIDE DEF amount
<1>2. /\ s.locked_amount_withdrawn + amount <= s.locked_amount
      /\ FitsMaxTotal(d, amount)
      /\ claim_status' = [claim_status EXCEPT ![v][c] = RecordWithdrawal(s, amount)]
      /\ distributor' = [distributor EXCEPT ![v] =
                           [d EXCEPT !.total_amount_claimed = @ + amount]]
      /\ Transfer(v, c, amount)
      /\ UNCHANGED <<clocks, incarnation>>
  <2>1. distributor[v].total_amount_claimed = d.total_amount_claimed
    OBVIOUS
  <2>2. QED
    BY <2>1 DEF ClaimLocked, CanWithdraw, amount
<1> HIDE DEF d, s
<1>3. s.locked_amount_withdrawn + amount \in U64
  <2>1. s.locked_amount \in U64 /\ s.locked_amount_withdrawn \in U64
    BY <1>1 DEF ClaimStatus
  <2>2. QED
    BY <1>1, <1>2, <2>1, U64MaxAssumption, SMT DEF U64
<1>4. RecordWithdrawal(s, amount) \in ClaimStatus
  BY <1>1, <1>3 DEF RecordWithdrawal, ClaimStatus
<1>5. d.total_amount_claimed + amount \in U64
  <2>1. d.total_amount_claimed \in U64 /\ d.max_total_claim \in U64
    BY <1>1 DEF MerkleDistributor
  <2>2. QED
    BY <1>1, <1>2, <2>1, U64MaxAssumption, SMT DEF U64, FitsMaxTotal
<1>6. [d EXCEPT !.total_amount_claimed = @ + amount] \in MerkleDistributor
  BY <1>1, <1>5 DEF MerkleDistributor
<1>7. distributor' \in [Version -> MerkleDistributor \cup {NoAccount}]
  BY <1>2, <1>6 DEF TypeOK
<1>8. claim_status' \in [Version -> [Claimant -> ClaimStatus \cup {NoAccount}]]
  BY <1>2, <1>4 DEF TypeOK
<1>9. balance' \in [TokenAccount -> Nat]
  BY <1>1, <1>2, TransferType, VersionsAreTokenAccounts, U64IsNat DEF TypeOK
<1>10. QED
  BY <1>2, <1>7, <1>8, <1>9 DEF TypeOK, clocks

(* Clawback and the instructions of an admin.                              *)
LEMMA ClawbackType ==
    ASSUME TypeOK, NEW v \in Version, Clawback(v)
    PROVE  TypeOK'
<1>1. distributor[v] \in MerkleDistributor
  BY LiveType DEF Clawback, IsOpen
<1>2. MarkSwept(distributor[v]) \in MerkleDistributor
  BY <1>1 DEF MarkSwept, MerkleDistributor
<1>3. distributor' \in [Version -> MerkleDistributor \cup {NoAccount}]
  BY <1>2 DEF TypeOK, Clawback
<1>4. distributor[v].clawback_receiver \in TokenAccount /\ v \in TokenAccount
  BY <1>1, VersionsAreTokenAccounts DEF MerkleDistributor
<1>5. balance' \in [TokenAccount -> Nat]
  BY <1>4, TransferType DEF TypeOK, Clawback
<1>6. QED
  BY <1>3, <1>5 DEF TypeOK, Clawback, clocks

LEMMA AdministerType ==
    ASSUME TypeOK, NEW v \in Version, Administer(v)
    PROVE  TypeOK'
<1>1. PICK signer \in Wallet :
        \/ \E c \in Claimant : CloseClaimStatus(v, c, signer)
        \/ \E destination \in Receiver : CloseDistributor(v, signer, destination)
        \/ \E point \in ActivationPoints : SetActivationPoint(v, signer, point)
        \/ \E new_admin \in Wallet : SetAdmin(v, signer, new_admin)
        \/ \E receiver \in Receiver : SetClawbackReceiver(v, signer, receiver)
  BY DEF Administer
<1>2. ASSUME NEW c \in Claimant, CloseClaimStatus(v, c, signer)
      PROVE  TypeOK'
  BY <1>2 DEF CloseClaimStatus, TypeOK, clocks
<1>3. ASSUME NEW destination \in Receiver, CloseDistributor(v, signer, destination)
      PROVE  TypeOK'
  <2>1. balance' \in [TokenAccount -> Nat]
    BY <1>3, TransferType, VersionsAreTokenAccounts DEF CloseDistributor, TypeOK
  <2>2. QED
    BY <1>3, <2>1 DEF CloseDistributor, TypeOK, clocks
<1>4. ASSUME IsLive(v),
             NEW d \in MerkleDistributor, distributor' = [distributor EXCEPT ![v] = d],
             UNCHANGED <<claim_status, balance, clocks, incarnation>>
      PROVE  TypeOK'
  BY <1>4 DEF TypeOK, clocks
<1>5. ASSUME NEW point \in ActivationPoints, SetActivationPoint(v, signer, point)
      PROVE  TypeOK'
  <2>1. IsLive(v) /\ point \in U64
    BY <1>5, InputsAssumption DEF SetActivationPoint
  <2>2. [distributor[v] EXCEPT !.activation_point = point] \in MerkleDistributor
    BY <2>1, LiveType DEF MerkleDistributor
  <2>3. QED
    BY <1>4, <1>5, <2>1, <2>2 DEF SetActivationPoint
<1>6. ASSUME NEW new_admin \in Wallet, SetAdmin(v, signer, new_admin)
      PROVE  TypeOK'
  <2>1. IsLive(v)
    BY <1>6 DEF SetAdmin
  <2>2. [distributor[v] EXCEPT !.admin = new_admin] \in MerkleDistributor
    BY <2>1, LiveType DEF MerkleDistributor
  <2>3. QED
    BY <1>4, <1>6, <2>1, <2>2 DEF SetAdmin
<1>7. ASSUME NEW receiver \in Receiver, SetClawbackReceiver(v, signer, receiver)
      PROVE  TypeOK'
  <2>1. IsLive(v) /\ receiver \in TokenAccount
    BY <1>7, VersionsAreTokenAccounts DEF SetClawbackReceiver
  <2>2. [distributor[v] EXCEPT !.clawback_receiver = receiver] \in MerkleDistributor
    BY <2>1, LiveType DEF MerkleDistributor
  <2>3. QED
    BY <1>4, <1>7, <2>1, <2>2 DEF SetClawbackReceiver
<1>8. QED
  BY <1>1, <1>2, <1>3, <1>5, <1>6, <1>7

LEMMA InitType ==
    ASSUME Init
    PROVE  TypeOK
<1>1. Supply \in Nat
  BY InputsAssumption, U64IsNat
<1>2. QED
  BY <1>1 DEF Init, TypeOK

LEMMA TypeStep ==
    ASSUME TypeOK, BonusIsShare, [Next]_vars
    PROVE  TypeOK'
<1>1. ASSUME NEW v \in Version, Claim(v)
      PROVE  TypeOK'
  <2>1. ASSUME NEW root \in Root, NEW leaf \in Leaves[root], NewClaim(v, leaf)
        PROVE  TypeOK'
    <3>1. leaf \in Leaf
      BY InputsAssumption
    <3>2. QED
      BY <2>1, <3>1, NewClaimType
  <2>2. QED
    BY <1>1, <2>1, ClaimLockedType DEF Claim
<1>2. ASSUME NEW v \in Version, NEW amount \in Deposits, Deposit(v, amount)
      PROVE  TypeOK'
  <2>1. amount \in Nat /\ v \in TokenAccount /\ Funder \in TokenAccount
    BY InputsAssumption, VersionsAreTokenAccounts
  <2>2. balance' \in [TokenAccount -> Nat]
    BY <1>2, <2>1, TransferType DEF Deposit, TypeOK
  <2>3. QED
    BY <1>2, <2>2 DEF Deposit, TypeOK, clocks
<1>3. CASE AdvanceTime
  BY <1>3 DEF AdvanceTime, TypeOK
<1>4. CASE AdvanceSlot
  BY <1>4 DEF AdvanceSlot, TypeOK
<1>5. CASE UNCHANGED vars
  BY <1>5 DEF vars, TypeOK
<1>6. QED
  BY <1>1, <1>2, <1>3, <1>4, <1>5, DeployType, ClawbackType, AdministerType DEF Next

--------------------------------------------------------------------------------
(* The bonus pool *)

LEMMA SharesAdd ==
    ASSUME NEW base \in Nat, NEW pool \in Nat, NEW claimed \in Nat,
           NEW claimed_bonus \in Nat, NEW unlocked \in Nat, NEW bonus \in Nat,
           claimed_bonus <= claimed,
           base * claimed_bonus <= (claimed - claimed_bonus) * pool,
           base * bonus <= unlocked * pool
    PROVE  base * (claimed_bonus + bonus)
             <= ((claimed + (unlocked + bonus)) - (claimed_bonus + bonus)) * pool
<1> DEFINE rest == claimed - claimed_bonus
<1>1. rest \in Nat
      /\ (claimed + (unlocked + bonus)) - (claimed_bonus + bonus) = rest + unlocked
  BY SMT
<1> HIDE DEF rest
<1>2. base * (claimed_bonus + bonus) = base * claimed_bonus + base * bonus
  BY SMT
<1>3. (rest + unlocked) * pool = rest * pool + unlocked * pool
  BY <1>1, SMT
<1>4. /\ base * claimed_bonus \in Nat /\ base * bonus \in Nat
      /\ rest * pool \in Nat /\ unlocked * pool \in Nat
  BY <1>1, SMT
<1>5. base * claimed_bonus <= rest * pool
  BY DEF rest
<1>6. base * claimed_bonus + base * bonus <= rest * pool + unlocked * pool
  BY <1>4, <1>5, SMT
<1>7. QED
  BY <1>1, <1>2, <1>3, <1>6

LEMMA MoreUnlocked ==
    ASSUME NEW base \in Nat, NEW pool \in Nat, NEW claimed \in Nat,
           NEW claimed_bonus \in Nat, NEW amount \in Nat,
           claimed_bonus <= claimed,
           base * claimed_bonus <= (claimed - claimed_bonus) * pool
    PROVE  base * claimed_bonus <= ((claimed + amount) - claimed_bonus) * pool
<1>1. base * 0 <= amount * pool
  BY SMT
<1>2. base * (claimed_bonus + 0)
        <= ((claimed + (amount + 0)) - (claimed_bonus + 0)) * pool
  BY <1>1, SharesAdd
<1>3. QED
  BY <1>2, SMT

LEMMA NewClaimShare ==
    ASSUME NEW d \in MerkleDistributor, BonusShared(d),
           NEW unlocked \in U64, NEW bonus \in U64,
           d.max_total_claim - d.total_bonus \in Nat,
           (d.max_total_claim - d.total_bonus) * bonus <= unlocked * d.total_bonus,
           FitsMaxTotal(d, unlocked + bonus)
    PROVE  BonusShared(RecordClaim(d, unlocked + bonus, bonus))
<1> DEFINE e == RecordClaim(d, unlocked + bonus, bonus)
           base == d.max_total_claim - d.total_bonus
<1>1. /\ d.max_total_claim \in Nat /\ d.total_bonus \in Nat /\ unlocked \in Nat
      /\ d.total_amount_claimed \in Nat /\ d.total_claimed_bonus \in Nat /\ bonus \in Nat
  BY U64IsNat DEF MerkleDistributor
<1>2. /\ e.max_total_claim = d.max_total_claim
      /\ e.total_bonus = d.total_bonus
      /\ e.total_amount_claimed = d.total_amount_claimed + (unlocked + bonus)
      /\ e.total_claimed_bonus = d.total_claimed_bonus + bonus
  BY DEF RecordClaim, MerkleDistributor
<1> HIDE DEF e
<1>3. /\ e.total_claimed_bonus <= e.total_amount_claimed
      /\ e.total_amount_claimed <= e.max_total_claim
      /\ e.total_bonus <= e.max_total_claim
  BY <1>1, <1>2, SMT DEF BonusShared, FitsMaxTotal
<1>4. base * (d.total_claimed_bonus + bonus)
        <= ((d.total_amount_claimed + (unlocked + bonus))
              - (d.total_claimed_bonus + bonus)) * d.total_bonus
  BY <1>1, SharesAdd DEF BonusShared
<1>5. QED
  BY <1>2, <1>3, <1>4 DEF BonusShared, e

LEMMA ClaimLockedShare ==
    ASSUME NEW d \in MerkleDistributor, BonusShared(d), NEW amount \in U64,
           FitsMaxTotal(d, amount)
    PROVE  BonusShared([d EXCEPT !.total_amount_claimed = @ + amount])
<1> DEFINE e == [d EXCEPT !.total_amount_claimed = @ + amount]
           base == d.max_total_claim - d.total_bonus
<1>1. /\ d.max_total_claim \in Nat /\ d.total_bonus \in Nat /\ amount \in Nat
      /\ d.total_amount_claimed \in Nat /\ d.total_claimed_bonus \in Nat
  BY U64IsNat DEF MerkleDistributor
<1>2. /\ e.max_total_claim = d.max_total_claim
      /\ e.total_bonus = d.total_bonus
      /\ e.total_amount_claimed = d.total_amount_claimed + amount
      /\ e.total_claimed_bonus = d.total_claimed_bonus
  BY DEF MerkleDistributor
<1> HIDE DEF e
<1>3. base \in Nat
  BY <1>1, SMT DEF BonusShared
<1>4. base * d.total_claimed_bonus
        <= ((d.total_amount_claimed + amount) - d.total_claimed_bonus) * d.total_bonus
  BY <1>1, <1>3, MoreUnlocked DEF BonusShared
<1>5. /\ e.total_claimed_bonus <= e.total_amount_claimed
      /\ e.total_amount_claimed <= e.max_total_claim
      /\ e.total_bonus <= e.max_total_claim
  BY <1>1, <1>2, SMT DEF BonusShared, FitsMaxTotal
<1>6. QED
  BY <1>2, <1>4, <1>5 DEF BonusShared, e

(* The shares cannot exceed the pool once the cap holds.                   *)
LEMMA ShareWithinPool ==
    ASSUME NEW d \in MerkleDistributor, BonusShared(d)
    PROVE  d.total_claimed_bonus <= d.total_bonus
<1> DEFINE base == d.max_total_claim - d.total_bonus
           over == d.total_claimed_bonus - d.total_bonus
<1>1. /\ d.max_total_claim \in Nat /\ d.total_bonus \in Nat
      /\ d.total_amount_claimed \in Nat /\ d.total_claimed_bonus \in Nat
  BY U64IsNat DEF MerkleDistributor
<1>2. SUFFICES ASSUME d.total_claimed_bonus > d.total_bonus
               PROVE  FALSE
  BY <1>1, SMT
<1>3. base \in Nat /\ over \in Nat \ {0}
  BY <1>1, <1>2, SMT DEF BonusShared
<1>4. d.total_amount_claimed - d.total_claimed_bonus \in Nat
      /\ d.total_amount_claimed - d.total_claimed_bonus <= base - over
  BY <1>1, SMT DEF BonusShared
<1>5. base - over \in Nat
  BY <1>3, <1>4, SMT
<1>6. base * d.total_claimed_bonus <= (base - over) * d.total_bonus
  <2>1. (d.total_amount_claimed - d.total_claimed_bonus) * d.total_bonus
          <= (base - over) * d.total_bonus
    BY <1>1, <1>4, <1>5, TimesMonotone
  <2>2. base * d.total_claimed_bonus
          <= (d.total_amount_claimed - d.total_claimed_bonus) * d.total_bonus
    BY DEF BonusShared
  <2> HIDE DEF base, over
  <2>3. QED
    BY <1>1, <1>3, <1>4, <1>5, <2>1, <2>2, SMT
<1> HIDE DEF base
<1>7. d.total_claimed_bonus = d.total_bonus + over
  BY <1>1, SMT
<1> HIDE DEF over
<1>8. base * (d.total_bonus + over) = base * d.total_bonus + base * over
  BY <1>1, <1>3, SMT
<1>9. (base - over) * d.total_bonus = base * d.total_bonus - over * d.total_bonus
  BY <1>1, <1>3, SMT
<1>10. /\ base * over \in Nat /\ over * d.total_bonus \in Nat
       /\ base * d.total_bonus \in Nat
  BY <1>1, <1>3, SMT
<1>11. base * over = 0
  BY <1>6, <1>7, <1>8, <1>9, <1>10, SMT
<1>12. base >= 1 /\ over >= 1
  BY <1>3, <1>5, SMT
<1>13. base * over >= 1
  BY <1>3, <1>12, SMT
<1>14. QED
  BY <1>11, <1>13, SMT

(* One instruction writes at most one distributor account.                 *)
LEMMA WriteShare ==
    ASSUME TypeOK, BonusIsShare, NEW v \in Version, NEW d,
           distributor' = [distributor EXCEPT ![v] = d],
           d = NoAccount \/ BonusShared(d)
    PROVE  BonusIsShare'
<1> SUFFICES ASSUME NEW w \in Version, IsLive(w)'
             PROVE  BonusShared(distributor'[w])
  BY DEF BonusIsShare, BonusShared
<1>1. distributor'[w] = IF w = v THEN d ELSE distributor[w]
  BY DEF TypeOK
<1>2. QED
  BY <1>1 DEF BonusIsShare, IsLive

LEMMA DeployShare ==
    ASSUME TypeOK, BonusIsShare, NEW v \in Version, Deploy(v)
    PROVE  BonusIsShare'
<1>1. PICK a \in DeployArgs, signer \in Wallet, receiver \in Receiver :
         \/ NewDistributor(v, a, signer, receiver)
         \/ NewDistributor2(v, a, signer, receiver)
  BY DEF Deploy
<1>2. a.total_claim \in U64 /\ a.total_bonus \in U64 /\ a.total_claim \in Nat
      /\ a.total_bonus \in Nat
  BY InputsAssumption, U64IsNat DEF DeployArg
<1>3. ASSUME NEW max_total \in Nat, NEW bonus \in Nat, NEW duration, bonus <= max_total,
             HandleNewDistributor(v, a, signer, receiver, max_total, bonus, duration)
      PROVE  BonusIsShare'
  <2> DEFINE d == NewAccount(a, signer, receiver, max_total, bonus, duration)
  <2>1. /\ distributor' = [distributor EXCEPT ![v] = d]
        /\ d.max_total_claim = max_total /\ d.total_bonus = bonus
        /\ d.total_amount_claimed = 0 /\ d.total_claimed_bonus = 0
    BY <1>3 DEF HandleNewDistributor, NewAccount
  <2> HIDE DEF d
  <2>2. (max_total - bonus) * 0 <= (0 - 0) * bonus
    BY <1>3, SMT
  <2>3. BonusShared(d)
    BY <1>3, <2>1, <2>2 DEF BonusShared
  <2>4. QED
    BY <2>1, <2>3, WriteShare
<1>4. CASE NewDistributor(v, a, signer, receiver)
  BY <1>2, <1>3, <1>4 DEF NewDistributor
<1>5. CASE NewDistributor2(v, a, signer, receiver)
  <2>1. checked_add(a.total_claim, a.total_bonus) = a.total_claim + a.total_bonus
    BY <1>2, <1>5, CheckedAdd DEF NewDistributor2
  <2>2. a.total_bonus <= a.total_claim + a.total_bonus /\ a.total_claim + a.total_bonus \in Nat
    BY <1>2, SMT
  <2>3. HandleNewDistributor(v, a, signer, receiver, a.total_claim + a.total_bonus,
                             a.total_bonus, a.vesting_duration)
    BY <1>5, <2>1 DEF NewDistributor2
  <2>4. QED
    BY <1>2, <1>3, <2>2, <2>3
<1>6. QED
  BY <1>1, <1>4, <1>5

LEMMA ShareStep ==
    ASSUME TypeOK, BonusIsShare, [Next]_vars
    PROVE  BonusIsShare'
<1>1. ASSUME NEW v \in Version, NEW leaf \in Leaf, NewClaim(v, leaf)
      PROVE  BonusIsShare'
  <2> DEFINE d == distributor[v]
             bonus == BonusNow(d, leaf.unlocked)
             amount == leaf.unlocked + bonus
  <2>1. /\ d \in MerkleDistributor /\ bonus \in U64
        /\ checked_add(leaf.unlocked, bonus) = amount
        /\ d.max_total_claim - d.total_bonus \in Nat \ {0}
        /\ (d.max_total_claim - d.total_bonus) * bonus <= leaf.unlocked * d.total_bonus
    BY <1>1, NewClaimAmount
  <2>2. leaf.unlocked \in U64
    BY DEF Leaf
  <2>3. /\ FitsMaxTotal(d, amount)
        /\ distributor' = [distributor EXCEPT ![v] = RecordClaim(d, amount, bonus)]
        /\ BonusShared(d)
    BY <1>1, <2>1 DEF NewClaim, CanClaim, BonusIsShare, IsOpen
  <2> HIDE DEF bonus, d
  <2>4. BonusShared(RecordClaim(d, amount, bonus))
    BY <2>1, <2>2, <2>3, NewClaimShare
  <2>5. QED
    BY <2>3, <2>4, WriteShare
<1>2. ASSUME NEW v \in Version, NEW c \in Claimant, ClaimLocked(v, c)
      PROVE  BonusIsShare'
  <2> DEFINE d == distributor[v]
             amount == Withdrawable(d, claim_status[v][c])
  <2>1. d \in MerkleDistributor /\ amount \in U64
    BY <1>2, ClaimLockedAmount
  <2>2. /\ FitsMaxTotal(d, amount) /\ BonusShared(d)
        /\ distributor' = [distributor EXCEPT ![v] =
                             [d EXCEPT !.total_amount_claimed = @ + amount]]
    BY <1>2 DEF ClaimLocked, CanWithdraw, BonusIsShare, IsOpen
  <2> HIDE DEF d, amount
  <2>3. BonusShared([d EXCEPT !.total_amount_claimed = @ + amount])
    BY <2>1, <2>2, ClaimLockedShare
  <2>4. QED
    BY <2>2, <2>3, WriteShare
<1>3. ASSUME NEW v \in Version, NEW d \in MerkleDistributor, BonusShared(d),
             NEW e, distributor' = [distributor EXCEPT ![v] = e],
             e.max_total_claim = d.max_total_claim, e.total_bonus = d.total_bonus,
             e.total_amount_claimed = d.total_amount_claimed,
             e.total_claimed_bonus = d.total_claimed_bonus
      PROVE  BonusIsShare'
  BY <1>3, WriteShare DEF BonusShared
<1>4. ASSUME NEW v \in Version, Clawback(v)
      PROVE  BonusIsShare'
  <2>1. distributor[v] \in MerkleDistributor /\ BonusShared(distributor[v])
    BY <1>4, LiveType DEF Clawback, IsOpen, BonusIsShare
  <2>2. distributor' = [distributor EXCEPT ![v] = [distributor[v] EXCEPT !.clawed_back = TRUE]]
    BY <1>4 DEF Clawback, MarkSwept
  <2>3. QED
    BY <1>3, <2>1, <2>2 DEF MerkleDistributor
<1>5. ASSUME NEW v \in Version, Administer(v)
      PROVE  BonusIsShare'
  <2>1. PICK signer \in Wallet :
          \/ \E c \in Claimant : CloseClaimStatus(v, c, signer)
          \/ \E destination \in Receiver : CloseDistributor(v, signer, destination)
          \/ \E point \in ActivationPoints : SetActivationPoint(v, signer, point)
          \/ \E new_admin \in Wallet : SetAdmin(v, signer, new_admin)
          \/ \E receiver \in Receiver : SetClawbackReceiver(v, signer, receiver)
    BY <1>5 DEF Administer
  <2>2. CASE \E c \in Claimant : CloseClaimStatus(v, c, signer)
    BY <2>2 DEF CloseClaimStatus, BonusIsShare, BonusShared, IsLive
  <2>3. CASE \E destination \in Receiver : CloseDistributor(v, signer, destination)
    BY <2>3, WriteShare DEF CloseDistributor
  <2>4. CASE \E point \in ActivationPoints : SetActivationPoint(v, signer, point)
    <3>1. distributor[v] \in MerkleDistributor /\ BonusShared(distributor[v])
      BY <2>4, LiveType DEF SetActivationPoint, BonusIsShare
    <3>2. PICK point : distributor' =
                 [distributor EXCEPT ![v] = [distributor[v] EXCEPT !.activation_point = point]]
      BY <2>4 DEF SetActivationPoint
    <3>3. QED
      BY <1>3, <3>1, <3>2 DEF MerkleDistributor
  <2>5. CASE \E new_admin \in Wallet : SetAdmin(v, signer, new_admin)
    <3>1. distributor[v] \in MerkleDistributor /\ BonusShared(distributor[v])
      BY <2>5, LiveType DEF SetAdmin, BonusIsShare
    <3>2. PICK admin : distributor' =
                 [distributor EXCEPT ![v] = [distributor[v] EXCEPT !.admin = admin]]
      BY <2>5 DEF SetAdmin
    <3>3. QED
      BY <1>3, <3>1, <3>2 DEF MerkleDistributor
  <2>6. CASE \E receiver \in Receiver : SetClawbackReceiver(v, signer, receiver)
    <3>1. distributor[v] \in MerkleDistributor /\ BonusShared(distributor[v])
      BY <2>6, LiveType DEF SetClawbackReceiver, BonusIsShare
    <3>2. PICK receiver : distributor' =
             [distributor EXCEPT ![v] = [distributor[v] EXCEPT !.clawback_receiver = receiver]]
      BY <2>6 DEF SetClawbackReceiver
    <3>3. QED
      BY <1>3, <3>1, <3>2 DEF MerkleDistributor
  <2>7. QED
    BY <2>1, <2>2, <2>3, <2>4, <2>5, <2>6
<1>6. ASSUME UNCHANGED distributor
      PROVE  BonusIsShare'
  BY <1>6 DEF BonusIsShare, BonusShared, IsLive
<1>7. ASSUME NEW v \in Version, Claim(v)
      PROVE  BonusIsShare'
  <2>1. \A root \in Root : Leaves[root] \subseteq Leaf
    BY InputsAssumption
  <2>2. QED
    BY <1>1, <1>2, <1>7, <2>1 DEF Claim
<1>8. QED
  BY <1>4, <1>5, <1>6, <1>7, DeployShare
     DEF Next, Deposit, AdvanceTime, AdvanceSlot, vars

--------------------------------------------------------------------------------
(* What a step does to one distributor and to one claim status *)

SameTerms(d, e) ==
    /\ e.start_ts = d.start_ts
    /\ e.end_ts = d.end_ts
    /\ e.clawback_start_ts = d.clawback_start_ts
    /\ e.max_num_nodes = d.max_num_nodes
    /\ e.root = d.root
    /\ e.max_total_claim = d.max_total_claim
    /\ e.total_bonus = d.total_bonus
    /\ e.closable = d.closable

\* A live distributor that stays live keeps its terms, and is marked swept only
\* once the clawback has started.
Evolves(d, e) ==
    /\ SameTerms(d, e)
    /\ d.num_nodes_claimed <= e.num_nodes_claimed
    /\ e.num_nodes_claimed <= d.num_nodes_claimed \/ e.num_nodes_claimed <= e.max_num_nodes
    /\ e.clawed_back => d.clawed_back \/ d.clawback_start_ts <= unix_timestamp

\* What new_distributor creates.
Created(v) ==
    /\ ~IsLive(v)
    /\ distributor'[v].start_ts < distributor'[v].end_ts
    /\ distributor'[v].end_ts <= distributor'[v].clawback_start_ts
    /\ ~distributor'[v].clawed_back
    /\ distributor'[v].num_nodes_claimed = 0
    /\ distributor'[v].total_amount_claimed = 0
    /\ distributor'[v].total_claimed_bonus = 0
    /\ incarnation'[v] = "first" => incarnation[v] = "unused"
    /\ UNCHANGED claim_status

LEMMA DeployCreates ==
    ASSUME TypeOK, NEW v \in Version, Deploy(v)
    PROVE  /\ Created(v)
           /\ incarnation'[v] # "unused"
           /\ \A w \in Version \ {v} : /\ distributor'[w] = distributor[w]
                                       /\ incarnation'[w] = incarnation[w]
<1>1. PICK a \in DeployArgs, signer \in Wallet, receiver \in Receiver :
        \E max_total, bonus, duration :
          HandleNewDistributor(v, a, signer, receiver, max_total, bonus, duration)
  BY DEF Deploy, NewDistributor, NewDistributor2
<1>2. PICK max_total, bonus, duration :
        HandleNewDistributor(v, a, signer, receiver, max_total, bonus, duration)
  BY <1>1
<1> DEFINE d == NewAccount(a, signer, receiver, max_total, bonus, duration)
<1>3. /\ d.start_ts = a.start_ts /\ d.end_ts = a.end_ts
      /\ d.clawback_start_ts = a.clawback_start_ts
      /\ d.clawed_back = FALSE /\ d.num_nodes_claimed = 0
      /\ d.total_amount_claimed = 0 /\ d.total_claimed_bonus = 0
  BY DEF NewAccount
<1>4. distributor' = [distributor EXCEPT ![v] = d]
  BY <1>2 DEF HandleNewDistributor
<1> HIDE DEF d
<1>5. a.start_ts < a.end_ts /\ a.end_ts <= a.clawback_start_ts
  <2>1. a.end_ts \in Nat /\ a.clawback_start_ts \in Nat
    BY InputsAssumption DEF DeployArg
  <2>2. QED
    BY <1>2, <2>1, SMT DEF HandleNewDistributor, ScheduleValid
<1>6. incarnation' = [incarnation EXCEPT ![v] =
                        IF incarnation[v] = "unused" THEN "first" ELSE "recycled"]
  BY <1>2 DEF HandleNewDistributor
<1>7. /\ \A w \in Version \ {v} : /\ distributor'[w] = distributor[w]
                                  /\ incarnation'[w] = incarnation[w]
      /\ distributor'[v] = d
      /\ incarnation'[v] = IF incarnation[v] = "unused" THEN "first" ELSE "recycled"
  BY <1>4, <1>6 DEF TypeOK
<1>8. ~IsLive(v) /\ UNCHANGED claim_status
  BY <1>2 DEF HandleNewDistributor
<1>9. QED
  BY <1>3, <1>5, <1>7, <1>8 DEF Created

LEMMA DistributorEvolves ==
    ASSUME TypeOK, [Next]_vars, NEW w \in Version, IsLive(w)'
    PROVE  \/ Created(w)
           \/ /\ IsLive(w)
              /\ Evolves(distributor[w], distributor'[w])
              /\ incarnation'[w] = incarnation[w]
<1> DEFINE Goal == \/ Created(w)
                   \/ /\ IsLive(w)
                      /\ Evolves(distributor[w], distributor'[w])
                      /\ incarnation'[w] = incarnation[w]
<1>1. ASSUME distributor'[w] = distributor[w], incarnation'[w] = incarnation[w]
      PROVE  Goal
  <2>1. distributor[w] \in MerkleDistributor /\ IsLive(w)
    BY <1>1, LiveType DEF IsLive
  <2>2. distributor[w].num_nodes_claimed \in Nat
    BY <2>1, U64IsNat DEF MerkleDistributor
  <2>3. QED
    BY <1>1, <2>1, <2>2, SMT DEF Evolves, SameTerms
<1>2. ASSUME NEW v \in Version, Deploy(v)
      PROVE  Goal
  BY <1>1, <1>2, DeployCreates
<1>3. ASSUME NEW v \in Version, IsLive(v), UNCHANGED incarnation,
             NEW e, distributor' = [distributor EXCEPT ![v] = e],
             Evolves(distributor[v], e)
      PROVE  Goal
  <2>1. CASE w = v
    BY <1>3, <2>1 DEF TypeOK
  <2>2. CASE w # v
    BY <1>1, <1>3, <2>2 DEF TypeOK
  <2>3. QED
    BY <2>1, <2>2
<1>4. ASSUME NEW v \in Version, IsLive(v), UNCHANGED incarnation,
             NEW e, distributor' = [distributor EXCEPT ![v] = e],
             SameTerms(distributor[v], e), e.clawed_back = distributor[v].clawed_back,
             e.num_nodes_claimed = distributor[v].num_nodes_claimed
      PROVE  Goal
  <2>1. distributor[v].num_nodes_claimed \in Nat
    BY <1>4, LiveType, U64IsNat DEF MerkleDistributor
  <2>2. Evolves(distributor[v], e)
    BY <1>4, <2>1, SMT DEF Evolves
  <2>3. QED
    BY <1>3, <1>4, <2>2
<1>5. ASSUME NEW v \in Version, NEW leaf \in Leaf, NewClaim(v, leaf)
      PROVE  Goal
  <2> DEFINE d == distributor[v]
             bonus == BonusNow(d, leaf.unlocked)
             amount == leaf.unlocked + bonus
             e == RecordClaim(d, amount, bonus)
  <2>1. d \in MerkleDistributor /\ checked_add(leaf.unlocked, bonus) = amount
    BY <1>5, NewClaimAmount
  <2>2. /\ IsLive(v) /\ UNCHANGED incarnation /\ HasNodeLeft(d)
        /\ distributor' = [distributor EXCEPT ![v] = e]
    BY <1>5, <2>1 DEF NewClaim, CanClaim, IsOpen
  <2>3. /\ SameTerms(d, e) /\ e.clawed_back = d.clawed_back
        /\ e.num_nodes_claimed = d.num_nodes_claimed + 1
        /\ e.max_num_nodes = d.max_num_nodes
        /\ d.num_nodes_claimed \in Nat
    BY <2>1, U64IsNat DEF RecordClaim, MerkleDistributor, SameTerms
  <2> HIDE DEF e, bonus, amount
  <2>4. Evolves(d, e)
    BY <2>2, <2>3, SMT DEF Evolves, HasNodeLeft
  <2>5. QED
    BY <1>3, <2>2, <2>4
<1>6. ASSUME NEW v \in Version, NEW c \in Claimant, ClaimLocked(v, c)
      PROVE  Goal
  <2>1. IsLive(v) /\ UNCHANGED incarnation /\ distributor[v] \in MerkleDistributor
    BY <1>6, LiveType DEF ClaimLocked, CanWithdraw, IsOpen
  <2>2. PICK amount : distributor' = [distributor EXCEPT ![v] =
                        [distributor[v] EXCEPT !.total_amount_claimed = amount]]
    BY <1>6 DEF ClaimLocked, CanWithdraw
  <2>3. QED
    BY <1>4, <2>1, <2>2 DEF MerkleDistributor, SameTerms
<1>7. ASSUME NEW v \in Version, Clawback(v)
      PROVE  Goal
  <2> DEFINE e == MarkSwept(distributor[v])
  <2>1. /\ IsLive(v) /\ UNCHANGED incarnation
        /\ distributor[v] \in MerkleDistributor
        /\ distributor[v].clawback_start_ts <= unix_timestamp
        /\ distributor' = [distributor EXCEPT ![v] = e]
    <3>1. IsLive(v)
      BY <1>7 DEF Clawback, IsOpen
    <3>2. distributor[v].clawback_start_ts \in Nat /\ unix_timestamp \in Nat
      BY <3>1, LiveType DEF MerkleDistributor, TypeOK
    <3>3. unix_timestamp >= distributor[v].clawback_start_ts
      BY <1>7 DEF Clawback, ClawbackStarted
    <3>4. distributor[v].clawback_start_ts <= unix_timestamp
      BY <3>2, <3>3, SMT
    <3>5. QED
      BY <1>7, <3>1, <3>4, LiveType DEF Clawback
  <2>2. /\ SameTerms(distributor[v], e)
        /\ e.num_nodes_claimed = distributor[v].num_nodes_claimed
        /\ distributor[v].num_nodes_claimed \in Nat
    BY <2>1, U64IsNat DEF MarkSwept, MerkleDistributor, SameTerms
  <2> HIDE DEF e
  <2>3. Evolves(distributor[v], e)
    BY <2>1, <2>2, SMT DEF Evolves
  <2>4. QED
    BY <1>3, <2>1, <2>3
<1>8. ASSUME NEW v \in Version, Administer(v)
      PROVE  Goal
  <2>1. PICK signer \in Wallet :
          \/ \E c \in Claimant : CloseClaimStatus(v, c, signer)
          \/ \E destination \in Receiver : CloseDistributor(v, signer, destination)
          \/ \E point \in ActivationPoints : SetActivationPoint(v, signer, point)
          \/ \E new_admin \in Wallet : SetAdmin(v, signer, new_admin)
          \/ \E receiver \in Receiver : SetClawbackReceiver(v, signer, receiver)
    BY <1>8 DEF Administer
  <2>2. CASE \E c \in Claimant : CloseClaimStatus(v, c, signer)
    BY <1>1, <2>2 DEF CloseClaimStatus
  <2>3. CASE \E destination \in Receiver : CloseDistributor(v, signer, destination)
    <3>1. UNCHANGED incarnation /\ distributor' = [distributor EXCEPT ![v] = NoAccount]
      BY <2>3 DEF CloseDistributor
    <3>2. w # v /\ distributor'[w] = distributor[w]
      BY <3>1 DEF IsLive, TypeOK
    <3>3. QED
      BY <1>1, <3>1, <3>2
  <2>4. CASE \E point \in ActivationPoints : SetActivationPoint(v, signer, point)
    <3>1. IsLive(v) /\ UNCHANGED incarnation /\ distributor[v] \in MerkleDistributor
      BY <2>4, LiveType DEF SetActivationPoint
    <3>2. PICK point : distributor' =
                 [distributor EXCEPT ![v] = [distributor[v] EXCEPT !.activation_point = point]]
      BY <2>4 DEF SetActivationPoint
    <3>3. QED
      BY <1>4, <3>1, <3>2 DEF MerkleDistributor, SameTerms
  <2>5. CASE \E new_admin \in Wallet : SetAdmin(v, signer, new_admin)
    <3>1. IsLive(v) /\ UNCHANGED incarnation /\ distributor[v] \in MerkleDistributor
      BY <2>5, LiveType DEF SetAdmin
    <3>2. PICK admin : distributor' =
                 [distributor EXCEPT ![v] = [distributor[v] EXCEPT !.admin = admin]]
      BY <2>5 DEF SetAdmin
    <3>3. QED
      BY <1>4, <3>1, <3>2 DEF MerkleDistributor, SameTerms
  <2>6. CASE \E receiver \in Receiver : SetClawbackReceiver(v, signer, receiver)
    <3>1. IsLive(v) /\ UNCHANGED incarnation /\ distributor[v] \in MerkleDistributor
      BY <2>6, LiveType DEF SetClawbackReceiver
    <3>2. PICK receiver : distributor' =
             [distributor EXCEPT ![v] = [distributor[v] EXCEPT !.clawback_receiver = receiver]]
      BY <2>6 DEF SetClawbackReceiver
    <3>3. QED
      BY <1>4, <3>1, <3>2 DEF MerkleDistributor, SameTerms
  <2>7. QED
    BY <2>1, <2>2, <2>3, <2>4, <2>5, <2>6
<1>9. ASSUME NEW v \in Version, Claim(v)
      PROVE  Goal
  <2>1. \A root \in Root : Leaves[root] \subseteq Leaf
    BY InputsAssumption
  <2>2. QED
    BY <1>5, <1>6, <1>9, <2>1 DEF Claim
<1>10. CASE UNCHANGED <<distributor, incarnation>>
  BY <1>1, <1>10
<1>11. QED
  BY <1>2, <1>7, <1>8, <1>9, <1>10
     DEF Next, Deposit, AdvanceTime, AdvanceSlot, vars, clocks

\* A claim status that was written holds no more than what is unlocked now.
Written(w, c) ==
    /\ IsLive(w)
    /\ claim_status'[w][c] \in ClaimStatus
    /\ claim_status'[w][c].locked_amount_withdrawn <=
         unlocked_amount(claim_status'[w][c].locked_amount, unix_timestamp,
                         distributor[w].start_ts, distributor[w].end_ts)
    /\ UNCHANGED unix_timestamp

Holders(v) == {c \in Claimant : HasClaimed(v, c)}

\* A new holder is counted.
Counted(w, c) ==
    /\ IsLive(w)
    /\ Holders(w)' = Holders(w) \cup {c}
    /\ distributor'[w].num_nodes_claimed = distributor[w].num_nodes_claimed + 1

LEMMA NewClaimWrites ==
    ASSUME TypeOK, NEW v \in Version, NEW leaf \in Leaf, NewClaim(v, leaf)
    PROVE  /\ Written(v, leaf.claimant)
           /\ Counted(v, leaf.claimant)
           /\ \A w \in Version, c \in Claimant :
                <<w, c>> # <<v, leaf.claimant>> => claim_status'[w][c] = claim_status[w][c]
<1> DEFINE d == distributor[v]
           bonus == BonusNow(d, leaf.unlocked)
           amount == leaf.unlocked + bonus
           status == [locked_amount |-> leaf.locked, locked_amount_withdrawn |-> 0,
                      unlocked_amount |-> amount, closable |-> d.closable,
                      admin |-> d.admin]
<1>1. /\ d \in MerkleDistributor /\ bonus \in U64 /\ amount \in U64
      /\ checked_add(leaf.unlocked, bonus) = amount
  BY NewClaimAmount
<1>2. leaf.claimant \in Claimant /\ leaf.locked \in U64
  BY DEF Leaf
<1>3. /\ IsLive(v) /\ UNCHANGED unix_timestamp
      /\ distributor' = [distributor EXCEPT ![v] = RecordClaim(d, amount, bonus)]
      /\ claim_status' = [claim_status EXCEPT ![v][leaf.claimant] = status]
  BY <1>1 DEF NewClaim, CanClaim, IsOpen, clocks
<1>4. status \in ClaimStatus /\ status.locked_amount_withdrawn = 0
      /\ status.locked_amount = leaf.locked
  BY <1>1, <1>2, U64IsNat DEF ClaimStatus, MerkleDistributor
<1>5. RecordClaim(d, amount, bonus).num_nodes_claimed = d.num_nodes_claimed + 1
  BY <1>1 DEF RecordClaim, MerkleDistributor
<1>6. d.start_ts \in Nat /\ d.end_ts \in Nat /\ unix_timestamp \in Nat
  BY <1>1 DEF MerkleDistributor, TypeOK
<1>7. unlocked_amount(leaf.locked, unix_timestamp, d.start_ts, d.end_ts) \in Nat
  BY <1>2, <1>6, UnlockedWithinLocked, U64IsNat
<1>8. distributor'[v].num_nodes_claimed = distributor[v].num_nodes_claimed + 1
  BY <1>3, <1>5 DEF TypeOK
<1> HIDE DEF status
<1>9. /\ claim_status'[v][leaf.claimant] = status
      /\ \A w \in Version, c \in Claimant :
           <<w, c>> # <<v, leaf.claimant>> => claim_status'[w][c] = claim_status[w][c]
  BY <1>2, <1>3 DEF TypeOK
<1>10. Written(v, leaf.claimant)
  BY <1>3, <1>4, <1>7, <1>9, SMT DEF Written
<1>11. Holders(v)' = Holders(v) \cup {leaf.claimant}
  BY <1>2, <1>4, <1>9, NoAccountAssumption DEF Holders, HasClaimed
<1>12. QED
  BY <1>3, <1>8, <1>9, <1>10, <1>11 DEF Counted

LEMMA ClaimLockedWrites ==
    ASSUME TypeOK, NEW v \in Version, NEW c \in Claimant, ClaimLocked(v, c)
    PROVE  /\ Written(v, c)
           /\ HasClaimed(v, c)
           /\ \A w \in Version, k \in Claimant :
                <<w, k>> # <<v, c>> => claim_status'[w][k] = claim_status[w][k]
<1> DEFINE d == distributor[v]
           s == claim_status[v][c]
           amount == Withdrawable(d, s)
           t == RecordWithdrawal(s, amount)
<1>1. /\ d \in MerkleDistributor /\ s \in ClaimStatus /\ amount \in U64
      /\ s.locked_amount_withdrawn + amount
           = unlocked_amount(s.locked_amount, unix_timestamp, d.start_ts, d.end_ts)
  BY ClaimLockedAmount
<1>2. /\ IsLive(v) /\ UNCHANGED unix_timestamp /\ HasClaimed(v, c)
      /\ claim_status' = [claim_status EXCEPT ![v][c] = t]
  BY DEF ClaimLocked, CanWithdraw, IsOpen, clocks
<1>3. TypeOK'
  BY ClaimLockedType
<1>4. /\ t.locked_amount_withdrawn = s.locked_amount_withdrawn + amount
      /\ t.locked_amount = s.locked_amount
  BY <1>1 DEF RecordWithdrawal, ClaimStatus
<1> HIDE DEF t
<1>5. /\ claim_status'[v][c] = t
      /\ \A w \in Version, k \in Claimant :
           <<w, k>> # <<v, c>> => claim_status'[w][k] = claim_status[w][k]
  BY <1>2 DEF TypeOK
<1>6. t \in ClaimStatus
  <2>1. t \in ClaimStatus \cup {NoAccount}
    BY <1>3, <1>5 DEF TypeOK
  <2>2. t # NoAccount
    <3>1. s.locked_amount \in U64 /\ s.locked_amount_withdrawn + amount \in U64
      BY <1>1, UnlockedWithinLocked DEF ClaimStatus, MerkleDistributor, TypeOK
    <3>2. t \in ClaimStatus
      BY <1>1, <3>1 DEF t, RecordWithdrawal, ClaimStatus
    <3>3. QED
      BY <3>2, NoAccountAssumption
  <2>3. QED
    BY <2>1, <2>2
<1>7. unlocked_amount(s.locked_amount, unix_timestamp, d.start_ts, d.end_ts) \in Nat
  BY <1>1, UnlockedWithinLocked, U64IsNat DEF ClaimStatus, MerkleDistributor, TypeOK
<1>8. Written(v, c)
  BY <1>1, <1>2, <1>4, <1>5, <1>6, <1>7, SMT DEF Written
<1>9. QED
  BY <1>2, <1>5, <1>8

(* A step writes at most one claim status, and only a claim does.          *)
LEMMA StatusEvolves ==
    ASSUME TypeOK, [Next]_vars
    PROVE  \/ \A w \in Version, c \in Claimant :
                HasClaimed(w, c)' => claim_status'[w][c] = claim_status[w][c]
           \/ \E v \in Version, c \in Claimant :
                /\ Written(v, c)
                /\ HasClaimed(v, c) \/ Counted(v, c)
                /\ \A w \in Version, k \in Claimant :
                     <<w, k>> # <<v, c>> => claim_status'[w][k] = claim_status[w][k]
<1> DEFINE Kept == \A w \in Version, c \in Claimant :
                HasClaimed(w, c)' => claim_status'[w][c] = claim_status[w][c]
<1>1. ASSUME UNCHANGED claim_status
      PROVE  Kept
  BY <1>1
<1>2. ASSUME NEW v \in Version, Deploy(v)
      PROVE  Kept
  BY <1>2, DeployCreates DEF Created
<1>3. ASSUME NEW v \in Version, Administer(v)
      PROVE  Kept
  <2>1. ASSUME NEW c \in Claimant, NEW signer, CloseClaimStatus(v, c, signer)
        PROVE  Kept
    BY <2>1 DEF CloseClaimStatus, HasClaimed, TypeOK
  <2>2. QED
    BY <1>1, <1>3, <2>1 DEF Administer, CloseDistributor, SetActivationPoint, SetAdmin,
                            SetClawbackReceiver
<1>4. ASSUME NEW v \in Version, NEW leaf \in Leaf, NewClaim(v, leaf)
      PROVE  \E c \in Claimant :
                /\ Written(v, c)
                /\ HasClaimed(v, c) \/ Counted(v, c)
                /\ \A w \in Version, k \in Claimant :
                     <<w, k>> # <<v, c>> => claim_status'[w][k] = claim_status[w][k]
  BY <1>4, NewClaimWrites DEF Leaf
<1>5. \A root \in Root : Leaves[root] \subseteq Leaf
  BY InputsAssumption
<1>6. ASSUME NEW v \in Version, Claim(v)
      PROVE  \E c \in Claimant :
                /\ Written(v, c)
                /\ HasClaimed(v, c) \/ Counted(v, c)
                /\ \A w \in Version, k \in Claimant :
                     <<w, k>> # <<v, c>> => claim_status'[w][k] = claim_status[w][k]
  BY <1>4, <1>5, <1>6, ClaimLockedWrites DEF Claim
<1>7. QED
  BY <1>1, <1>2, <1>3, <1>6
     DEF Next, Clawback, Deposit, AdvanceTime, AdvanceSlot, vars

LEMMA TimePasses ==
    ASSUME TypeOK, [Next]_vars
    PROVE  unix_timestamp' \in Nat /\ unix_timestamp <= unix_timestamp'
<1>1. CASE UNCHANGED unix_timestamp
  BY <1>1, SMT DEF TypeOK
<1>2. CASE AdvanceTime
  BY <1>2, SMT DEF TypeOK, AdvanceTime
<1>3. ASSUME NEW v \in Version, Deploy(v)
      PROVE  UNCHANGED unix_timestamp
  BY <1>3 DEF Deploy, NewDistributor, NewDistributor2, HandleNewDistributor, clocks
<1>4. ASSUME NEW v \in Version, Claim(v)
      PROVE  UNCHANGED unix_timestamp
  BY <1>4 DEF Claim, NewClaim, CanClaim, ClaimLocked, CanWithdraw, clocks
<1>5. ASSUME NEW v \in Version, Administer(v)
      PROVE  UNCHANGED unix_timestamp
  BY <1>5 DEF Administer, CloseClaimStatus, CloseDistributor, SetActivationPoint,
              SetAdmin, SetClawbackReceiver, clocks
<1>6. QED
  BY <1>1, <1>2, <1>3, <1>4, <1>5
     DEF Next, Clawback, Deposit, AdvanceSlot, vars, clocks

--------------------------------------------------------------------------------
(* The other conjuncts of the inductive invariant *)

LEMMA ScheduleStep ==
    ASSUME TypeOK, ScheduleKept, [Next]_vars
    PROVE  ScheduleKept'
<1> SUFFICES ASSUME NEW w \in Version, IsLive(w)'
             PROVE  ScheduleOrdered(distributor'[w], unix_timestamp')
  BY DEF ScheduleKept, ScheduleOrdered
<1>1. CASE Created(w)
  BY <1>1 DEF Created, ScheduleOrdered
<1>2. CASE IsLive(w) /\ Evolves(distributor[w], distributor'[w])
  <2> DEFINE d == distributor[w]
             e == distributor'[w]
  <2>1. ScheduleOrdered(d, unix_timestamp) /\ d.clawback_start_ts \in Nat
    BY <1>2, LiveType DEF ScheduleKept, MerkleDistributor
  <2>2. SameTerms(d, e)
        /\ (e.clawed_back => d.clawed_back \/ d.clawback_start_ts <= unix_timestamp)
    BY <1>2 DEF Evolves
  <2> HIDE DEF d, e
  <2>3. e.clawed_back => d.clawback_start_ts <= unix_timestamp'
    BY <2>1, <2>2, TimePasses, SMT DEF ScheduleOrdered, TypeOK
  <2>4. QED
    BY <2>1, <2>2, <2>3 DEF ScheduleOrdered, SameTerms, d, e
<1>3. QED
  BY <1>1, <1>2, DistributorEvolves

LEMMA UnusedStep ==
    ASSUME TypeOK, UnusedIsEmpty, [Next]_vars
    PROVE  UnusedIsEmpty'
<1> SUFFICES ASSUME NEW w \in Version, incarnation'[w] = "unused"
             PROVE  ~IsLive(w)' /\ \A c \in Claimant : ~HasClaimed(w, c)'
  BY DEF UnusedIsEmpty
<1>1. ASSUME NEW v \in Version, Deploy(v)
      PROVE  incarnation'[w] = incarnation[w] /\ distributor'[w] = distributor[w]
  BY <1>1, DeployCreates
<1>2. ASSUME NEW v \in Version, Claim(v)
      PROVE  UNCHANGED incarnation
  BY <1>2 DEF Claim, NewClaim, CanClaim, ClaimLocked, CanWithdraw
<1>3. ASSUME NEW v \in Version, Administer(v)
      PROVE  UNCHANGED incarnation
  BY <1>3 DEF Administer, CloseClaimStatus, CloseDistributor, SetActivationPoint,
              SetAdmin, SetClawbackReceiver
<1>4. incarnation[w] = "unused"
  BY <1>1, <1>2, <1>3 DEF Next, Clawback, Deposit, AdvanceTime, AdvanceSlot, vars
<1>5. ~IsLive(w) /\ \A c \in Claimant : ~HasClaimed(w, c)
  BY <1>4 DEF UnusedIsEmpty
<1>6. distributor'[w] = distributor[w]
  <2>1. ASSUME NEW v \in Version, IsLive(v), NEW e,
               distributor' = [distributor EXCEPT ![v] = e]
        PROVE  distributor'[w] = distributor[w]
    BY <1>5, <2>1 DEF TypeOK
  <2>2. ASSUME NEW v \in Version, NEW leaf, NewClaim(v, leaf)
        PROVE  distributor'[w] = distributor[w]
    BY <2>1, <2>2 DEF NewClaim, CanClaim, IsOpen
  <2>3. ASSUME NEW v \in Version, NEW c, ClaimLocked(v, c)
        PROVE  distributor'[w] = distributor[w]
    BY <2>1, <2>3 DEF ClaimLocked, CanWithdraw, IsOpen
  <2>4. ASSUME NEW v \in Version, Administer(v)
        PROVE  distributor'[w] = distributor[w]
    BY <2>1, <2>4 DEF Administer, CloseClaimStatus, CloseDistributor,
                      SetActivationPoint, SetAdmin, SetClawbackReceiver
  <2>5. ASSUME NEW v \in Version, Clawback(v)
        PROVE  distributor'[w] = distributor[w]
    BY <2>1, <2>5 DEF Clawback, IsOpen
  <2>6. QED
    BY <1>1, <2>2, <2>3, <2>4, <2>5
       DEF Next, Claim, Deposit, AdvanceTime, AdvanceSlot, vars
<1>7. \A c \in Claimant : ~HasClaimed(w, c)'
  <2> SUFFICES ASSUME NEW c \in Claimant, HasClaimed(w, c)'
               PROVE  FALSE
    OBVIOUS
  <2>1. claim_status'[w][c] # claim_status[w][c]
    BY <1>5 DEF HasClaimed
  <2>2. PICK v \in Version, k \in Claimant :
          /\ Written(v, k)
          /\ \A x \in Version, y \in Claimant :
               <<x, y>> # <<v, k>> => claim_status'[x][y] = claim_status[x][y]
    BY <2>1, StatusEvolves
  <2>3. QED
    BY <1>5, <2>1, <2>2 DEF Written
<1>8. QED
  BY <1>5, <1>6, <1>7 DEF IsLive

LEMMA WithdrawnStep ==
    ASSUME TypeOK, UnusedIsEmpty, WithdrawnWasUnlocked, [Next]_vars
    PROVE  WithdrawnWasUnlocked'
<1> SUFFICES ASSUME NEW w \in Version, NEW c \in Claimant, IsFirst(w)', HasClaimed(w, c)'
             PROVE  claim_status'[w][c].locked_amount_withdrawn <=
                      unlocked_amount(claim_status'[w][c].locked_amount, unix_timestamp',
                                      distributor'[w].start_ts, distributor'[w].end_ts)
  BY DEF WithdrawnWasUnlocked, unlocked_amount, LinearRelease, as_u64
<1> DEFINE d == distributor[w]
           t == claim_status'[w][c]
<1>1. CASE Created(w)
  BY <1>1 DEF Created, IsFirst, UnusedIsEmpty, HasClaimed
<1>2. CASE IsLive(w) /\ Evolves(d, distributor'[w]) /\ incarnation'[w] = incarnation[w]
  <2>1. IsFirst(w) /\ d \in MerkleDistributor
    BY <1>2, LiveType DEF IsFirst
  <2>2. d.start_ts \in Nat /\ d.end_ts \in Nat /\ unix_timestamp \in Nat
        /\ unix_timestamp' \in Nat /\ unix_timestamp <= unix_timestamp'
    BY <2>1, TimePasses DEF MerkleDistributor, TypeOK
  <2>3. /\ t \in ClaimStatus
        /\ t.locked_amount_withdrawn <=
             unlocked_amount(t.locked_amount, unix_timestamp, d.start_ts, d.end_ts)
    <3>1. CASE t = claim_status[w][c]
      <4>1. HasClaimed(w, c)
        BY <3>1 DEF HasClaimed
      <4>2. QED
        BY <2>1, <3>1, <4>1, ClaimedType DEF WithdrawnWasUnlocked
    <3>2. CASE t # claim_status[w][c]
      <4>1. Written(w, c)
        BY <3>2, StatusEvolves
      <4>2. QED
        BY <4>1 DEF Written
    <3>3. QED
      BY <3>1, <3>2
  <2>4. t.locked_amount \in U64 /\ t.locked_amount_withdrawn \in U64
    BY <2>3 DEF ClaimStatus
  <2>5. /\ unlocked_amount(t.locked_amount, unix_timestamp, d.start_ts, d.end_ts)
             <= unlocked_amount(t.locked_amount, unix_timestamp', d.start_ts, d.end_ts)
        /\ unlocked_amount(t.locked_amount, unix_timestamp, d.start_ts, d.end_ts) \in Nat
        /\ unlocked_amount(t.locked_amount, unix_timestamp', d.start_ts, d.end_ts) \in Nat
    BY <2>2, <2>4, UnlockedMonotone, UnlockedWithinLocked, U64IsNat
  <2>6. t.locked_amount_withdrawn \in Nat
    BY <2>4, U64IsNat
  <2> HIDE DEF t
  <2>7. t.locked_amount_withdrawn <=
          unlocked_amount(t.locked_amount, unix_timestamp', d.start_ts, d.end_ts)
    BY <2>3, <2>5, <2>6, SMT
  <2>8. distributor'[w].start_ts = d.start_ts /\ distributor'[w].end_ts = d.end_ts
    BY <1>2 DEF Evolves, SameTerms
  <2>9. QED
    BY <2>7, <2>8 DEF t
<1>3. QED
  BY <1>1, <1>2, DistributorEvolves DEF IsFirst

LEMMA CountStep ==
    ASSUME TypeOK, UnusedIsEmpty, StatusesCounted, [Next]_vars, TypeOK'
    PROVE  StatusesCounted'
<1> SUFFICES ASSUME NEW w \in Version, IsFirst(w)'
             PROVE  /\ Cardinality(Holders(w)') <= distributor'[w].num_nodes_claimed
                    /\ distributor'[w].num_nodes_claimed <= distributor'[w].max_num_nodes
  BY DEF StatusesCounted, Holders
<1> DEFINE d == distributor[w]
           e == distributor'[w]
<1>1. /\ e.num_nodes_claimed \in Nat /\ e.max_num_nodes \in Nat
      /\ IsFiniteSet(Holders(w)) /\ IsFiniteSet(Holders(w)')
      /\ Cardinality(Holders(w)) \in Nat /\ Cardinality(Holders(w)') \in Nat
  <2>1. e \in MerkleDistributor
    BY DEF TypeOK, IsFirst, IsLive
  <2>2. Holders(w) \subseteq Claimant /\ Holders(w)' \subseteq Claimant
    BY DEF Holders
  <2>3. IsFiniteSet(Holders(w)) /\ IsFiniteSet(Holders(w)')
    BY <2>2, AccountsAssumption, FS_Subset
  <2>4. QED
    BY <2>1, <2>3, FS_CardinalityType, U64IsNat DEF MerkleDistributor
<1>2. CASE Created(w)
  <2>1. Holders(w)' = {}
    BY <1>2 DEF Created, IsFirst, UnusedIsEmpty, HasClaimed, Holders
  <2>2. Cardinality(Holders(w)') = 0
    BY <2>1, FS_EmptySet
  <2>3. QED
    BY <1>1, <1>2, <2>2, SMT DEF Created
<1>3. CASE IsLive(w) /\ Evolves(d, e) /\ incarnation'[w] = incarnation[w]
  <2>1. /\ Cardinality(Holders(w)) <= d.num_nodes_claimed
        /\ d.num_nodes_claimed <= d.max_num_nodes
        /\ d.num_nodes_claimed \in Nat
    BY <1>3, LiveType, U64IsNat DEF StatusesCounted, IsFirst, Holders, MerkleDistributor
  <2>2. /\ d.num_nodes_claimed <= e.num_nodes_claimed
        /\ e.num_nodes_claimed <= e.max_num_nodes
    BY <1>1, <1>3, <2>1, SMT DEF Evolves, SameTerms
  <2>3. CASE Holders(w)' \subseteq Holders(w)
    <3>1. Cardinality(Holders(w)') <= Cardinality(Holders(w))
      BY <1>1, <2>3, FS_Subset
    <3>2. QED
      BY <1>1, <2>1, <2>2, <3>1, SMT
  <2>4. CASE \E c \in Claimant : Counted(w, c)
    <3>1. PICK c \in Claimant : Counted(w, c)
      BY <2>4
    <3>2. Holders(w)' = Holders(w) \cup {c}
      BY <3>1 DEF Counted
    <3>3. Cardinality(Holders(w)') <= Cardinality(Holders(w)) + 1
      BY <1>1, <3>2, FS_AddElement, SMT
    <3>4. e.num_nodes_claimed = d.num_nodes_claimed + 1
      BY <3>1 DEF Counted
    <3>5. QED
      BY <1>1, <2>1, <2>2, <3>3, <3>4, SMT
  <2>5. Holders(w)' \subseteq Holders(w) \/ \E c \in Claimant : Counted(w, c)
    <3>1. CASE \A c \in Claimant :
                 HasClaimed(w, c)' => claim_status'[w][c] = claim_status[w][c]
      BY <3>1 DEF Holders, HasClaimed
    <3>2. CASE \E c \in Claimant :
                 /\ HasClaimed(w, c)
                 /\ \A k \in Claimant : k # c => claim_status'[w][k] = claim_status[w][k]
      BY <3>2 DEF Holders, HasClaimed
    <3>3. QED
      BY <3>1, <3>2, StatusEvolves
  <2>6. QED
    BY <2>3, <2>4, <2>5
<1>4. QED
  BY <1>2, <1>3, DistributorEvolves DEF IsFirst

--------------------------------------------------------------------------------
(* The theorems *)

LEMMA InitInv ==
    ASSUME Init
    PROVE  Inv
<1>1. \A v \in Version : ~IsLive(v) /\ \A c \in Claimant : ~HasClaimed(v, c)
  BY DEF Init, IsLive, HasClaimed
<1>2. QED
  BY <1>1, InitType
     DEF Inv, BonusIsShare, ScheduleKept, WithdrawnWasUnlocked, UnusedIsEmpty,
         StatusesCounted, IsFirst

LEMMA InvStep ==
    ASSUME Inv, [Next]_vars
    PROVE  Inv'
  BY TypeStep, ShareStep, ScheduleStep, WithdrawnStep, UnusedStep, CountStep DEF Inv

(* The inductive invariant, which holds of every reachable state.          *)
THEOREM Invariance == Spec => []Inv
<1>1. Init => Inv
  BY InitInv
<1>2. Inv /\ [Next]_vars => Inv'
  BY InvStep
<1>3. QED
  BY <1>1, <1>2, PTL DEF Spec

(* Every variable keeps its type; the u64 counters never overflow.         *)
THEOREM TypeCorrect == Spec => []TypeOK
  BY Invariance, PTL DEF Inv

(* accumulate_bonus needs no comparison with the pool: in any order of     *)
(* claims, with any settings, the bonuses paid stay within total_bonus.    *)
THEOREM BonusNeverOverdrawn == Spec => []BonusWithinPool
<1>1. Inv => BonusWithinPool
  BY LiveType, ShareWithinPool DEF Inv, BonusIsShare, BonusWithinPool
<1>2. QED
  BY <1>1, Invariance, PTL

(* clawback sweeps a vault only when all of its locked amounts have vested.*)
THEOREM SweptOnlyAfterVesting == Spec => []SweptAfterVesting
<1>1. ASSUME Inv, NEW v \in Version, IsLive(v), distributor[v].clawed_back
      PROVE  distributor[v].end_ts <= unix_timestamp
  <2>1. /\ distributor[v].end_ts \in Nat /\ unix_timestamp \in Nat
        /\ distributor[v].clawback_start_ts \in Nat
    BY <1>1, LiveType DEF Inv, TypeOK, MerkleDistributor
  <2>2. /\ distributor[v].end_ts <= distributor[v].clawback_start_ts
        /\ distributor[v].clawback_start_ts <= unix_timestamp
    BY <1>1 DEF Inv, ScheduleKept, ScheduleOrdered
  <2>3. QED
    BY <2>1, <2>2, SMT
<1>2. Inv => SweptAfterVesting
  BY <1>1 DEF SweptAfterVesting
<1>3. QED
  BY <1>2, Invariance, PTL

(* max_num_nodes bounds the claimants that hold a claim status.            *)
THEOREM HoldersBounded == Spec => []StatusesCounted
  BY Invariance, PTL DEF Inv

(* unlocked_amount times the length of the schedule is at most the locked  *)
(* amount times the time passed.                                           *)
LEMMA UnlockedIsShare ==
    ASSUME NEW locked \in U64, NEW d \in MerkleDistributor, d.start_ts < d.end_ts,
           unix_timestamp \in Nat
    PROVE  (d.end_ts - d.start_ts)
              * unlocked_amount(locked, unix_timestamp, d.start_ts, d.end_ts)
             <= locked * Elapsed(d)
<1>1. /\ d.start_ts \in Nat /\ d.end_ts \in Nat /\ locked \in Nat
  BY U64IsNat DEF MerkleDistributor
<1>2. CASE unix_timestamp < d.start_ts
  BY <1>1, <1>2, SMT DEF unlocked_amount, Elapsed
<1>3. CASE ~(unix_timestamp < d.start_ts) /\ ~(unix_timestamp < d.end_ts)
  <2>1. /\ unlocked_amount(locked, unix_timestamp, d.start_ts, d.end_ts) = locked
        /\ Elapsed(d) = d.end_ts - d.start_ts
    BY <1>1, <1>3, SMT DEF unlocked_amount, Elapsed
  <2>2. QED
    BY <1>1, <2>1, SMT
<1>4. CASE ~(unix_timestamp < d.start_ts) /\ unix_timestamp < d.end_ts
  <2> DEFINE past == unix_timestamp - d.start_ts
             duration == d.end_ts - d.start_ts
  <2>1. /\ unlocked_amount(locked, unix_timestamp, d.start_ts, d.end_ts)
             = LinearRelease(locked, past, duration)
        /\ Elapsed(d) = past
    BY <1>1, <1>4, SMT DEF unlocked_amount, Elapsed
  <2>2. past \in Nat /\ duration \in Nat \ {0} /\ past <= duration
    BY <1>1, <1>4, SMT
  <2>3. duration * LinearRelease(locked, past, duration) <= past * locked
    BY <2>2, ReleaseNeverTruncates
  <2> HIDE DEF past, duration
  <2>4. past * locked = locked * past
    BY <1>1, <2>2, SMT
  <2>5. QED
    BY <2>1, <2>3, <2>4 DEF duration
<1>5. QED
  BY <1>2, <1>3, <1>4

(* A claimant of a distributor never withdraws more than the linear share  *)
(* of the time passed, and claim_locked never fails by an underflow.       *)
THEOREM WithdrawalsVested == Spec => []WithdrawnHasVested
<1>1. ASSUME Inv, NEW v \in Version, NEW c \in Claimant, IsFirst(v), HasClaimed(v, c),
             NEW d, d = distributor[v], NEW s, s = claim_status[v][c]
      PROVE  /\ s.locked_amount_withdrawn * (d.end_ts - d.start_ts)
                  <= s.locked_amount * Elapsed(d)
             /\ IsOk(Withdrawable(d, s))
  <2> DEFINE unlocked == unlocked_amount(s.locked_amount, unix_timestamp,
                                         d.start_ts, d.end_ts)
             duration == d.end_ts - d.start_ts
  <2>1. d \in MerkleDistributor /\ s \in ClaimStatus /\ unix_timestamp \in Nat
        /\ d.start_ts < d.end_ts
    BY <1>1, LiveType, ClaimedType
       DEF Inv, IsFirst, TypeOK, ScheduleKept, ScheduleOrdered
  <2>2. /\ s.locked_amount \in U64 /\ s.locked_amount_withdrawn \in Nat
        /\ s.locked_amount \in Nat
        /\ d.start_ts \in Nat /\ d.end_ts \in Nat /\ duration \in Nat
    <3>1. /\ s.locked_amount \in U64 /\ s.locked_amount_withdrawn \in U64
          /\ d.start_ts \in Nat /\ d.end_ts \in Nat
      BY <2>1 DEF ClaimStatus, MerkleDistributor
    <3>2. d.end_ts - d.start_ts \in Nat
      BY <2>1, <3>1, SMT
    <3>3. QED
      BY <3>1, <3>2, U64IsNat
  <2>3. s.locked_amount_withdrawn <= unlocked
    BY <1>1 DEF Inv, WithdrawnWasUnlocked
  <2>4. unlocked \in Nat
    BY <2>1, <2>2, UnlockedWithinLocked, U64IsNat
  <2>5. duration * unlocked <= s.locked_amount * Elapsed(d)
    BY <2>1, <2>2, UnlockedIsShare
  <2>6. Elapsed(d) \in Nat
    BY <2>1, <2>2, SMT DEF Elapsed
  <2>7. IsOk(Withdrawable(d, s))
    <3>1. Withdrawable(d, s) = checked_sub(unlocked, s.locked_amount_withdrawn)
      BY DEF Withdrawable, amount_withdrawable
    <3> HIDE DEF unlocked
    <3>2. QED
      BY <2>2, <2>3, <2>4, <3>1, SMT DEF checked_sub, IsOk, Err
  <2> HIDE DEF unlocked, duration
  <2>8. s.locked_amount_withdrawn * duration <= duration * unlocked
        /\ s.locked_amount_withdrawn * duration \in Nat /\ duration * unlocked \in Nat
    BY <2>2, <2>3, <2>4, TimesMonotone, SMT
  <2>9. s.locked_amount * Elapsed(d) \in Nat
    BY <2>2, <2>6, SMT
  <2>10. s.locked_amount_withdrawn * duration <= s.locked_amount * Elapsed(d)
    BY <2>5, <2>8, <2>9, SMT
  <2>11. QED
    BY <2>7, <2>10 DEF duration
<1>2. Inv => WithdrawnHasVested
  BY <1>1 DEF WithdrawnHasVested
<1>3. QED
  BY <1>2, Invariance, PTL

--------------------------------------------------------------------------------
(* The ledger *)

(* What a token transfer does to each token account.                       *)
LEMMA TransferMoves ==
    ASSUME balance \in [TokenAccount -> Nat],
           NEW from \in TokenAccount, NEW to \in TokenAccount, NEW amount \in Nat,
           Transfer(from, to, amount), NEW a \in TokenAccount
    PROVE  /\ amount <= balance[from]
           /\ balance'[a] = IF from = to THEN balance[a]
                            ELSE IF a = from THEN balance[a] - amount
                            ELSE IF a = to THEN balance[a] + amount
                            ELSE balance[a]
<1>1. CASE from = to
  BY <1>1 DEF Transfer
<1>2. CASE from # to
  <2>1. /\ balance' = [balance EXCEPT ![from] = balance[from] - amount,
                                      ![to] = balance[to] + amount]
        /\ amount <= balance[from]
    BY <1>2 DEF Transfer
  <2>2. QED
    BY <1>2, <2>1
<1>3. QED
  BY <1>1, <1>2

(* The whole vault v moves: every other vault keeps or gains tokens.       *)
LEMMA SweepMoves ==
    ASSUME balance \in [TokenAccount -> Nat],
           NEW v \in Version, NEW to \in TokenAccount, Transfer(v, to, balance[v]),
           NEW w \in Version
    PROVE  /\ balance[w] \in Nat /\ balance'[w] \in Nat
           /\ w = v => balance'[w] \in {0, balance[w]}
           /\ w # v => balance'[w] >= balance[w]
<1>1. v \in TokenAccount /\ w \in TokenAccount
  BY VersionsAreTokenAccounts
<1>2. balance[v] \in Nat /\ balance[w] \in Nat
  BY <1>1
<1>3. balance'[w] = IF v = to THEN balance[w]
                    ELSE IF w = v THEN balance[w] - balance[v]
                    ELSE IF w = to THEN balance[w] + balance[v]
                    ELSE balance[w]
  BY <1>1, <1>2, TransferMoves
<1>4. QED
  BY <1>2, <1>3, SMT

--------------------------------------------------------------------------------
(* Escrow, step by step *)

Phase(v) == IF ~IsLive(v) THEN "absent"
            ELSE IF distributor[v].clawed_back THEN "swept" ELSE "open"
PaidOut(v) == IF IsLive(v) THEN distributor[v].total_amount_claimed ELSE 0
Cap(v) == IF IsLive(v) THEN distributor[v].max_total_claim ELSE 0

(* The steps of the escrow of v, spelled out over the program's state.     *)
EscrowStep(v) ==
    \/ UNCHANGED <<Phase(v), balance[v], PaidOut(v), Cap(v)>>
    \/ /\ Phase(v) = "absent" /\ Phase(v)' = "open"
       /\ PaidOut(v)' = 0 /\ Cap(v)' \in Nat /\ balance'[v] = balance[v]
    \/ balance'[v] > balance[v] /\ UNCHANGED <<Phase(v), PaidOut(v), Cap(v)>>
    \/ /\ Phase(v) = "open" /\ balance'[v] < balance[v]
       /\ balance'[v] + PaidOut(v)' = balance[v] + PaidOut(v)
       /\ PaidOut(v)' <= Cap(v)
       /\ UNCHANGED <<Phase(v), Cap(v)>>
    \/ /\ Phase(v) = "open" /\ Phase(v)' = "swept"
       /\ balance'[v] \in {0, balance[v]} /\ UNCHANGED <<PaidOut(v), Cap(v)>>
    \/ /\ Phase(v) # "absent" /\ Phase(v)' = "absent"
       /\ balance'[v] \in {0, balance[v]} /\ PaidOut(v)' = 0 /\ Cap(v)' = 0

LEMMA EscrowStepIsStep ==
    ASSUME NEW v \in Version, EscrowStep(v)
    PROVE  [EscrowOf(v)!Next]_(EscrowOf(v)!escrow)
  BY Zenon DEF EscrowStep, Phase, PaidOut, Cap, EscrowOf!Next, EscrowOf!escrow, EscrowOf!Open,
         EscrowOf!Receive, EscrowOf!Pay, EscrowOf!Sweep, EscrowOf!Close

(* The account of v keeps what the escrow shows of it.                     *)
Kept(v) ==
    /\ IsLive(v)' <=> IsLive(v)
    /\ IsLive(v) => /\ distributor'[v].clawed_back = distributor[v].clawed_back
                    /\ distributor'[v].total_amount_claimed
                         = distributor[v].total_amount_claimed
                    /\ distributor'[v].max_total_claim = distributor[v].max_total_claim

LEMMA KeptIsStep ==
    ASSUME NEW v \in Version, Kept(v), balance[v] \in Nat, balance'[v] \in Nat,
           balance'[v] >= balance[v]
    PROVE  EscrowStep(v)
<1>1. UNCHANGED <<Phase(v), PaidOut(v), Cap(v)>>
  BY DEF Kept, Phase, PaidOut, Cap
<1>2. balance'[v] = balance[v] \/ balance'[v] > balance[v]
  BY SMT
<1>3. QED
  BY <1>1, <1>2 DEF EscrowStep

(* Another account is written, or this one in fields the escrow ignores.   *)
LEMMA WriteKeeps ==
    ASSUME TypeOK, NEW v \in Version, NEW e, NEW w \in Version,
           distributor' = [distributor EXCEPT ![v] = e],
           w # v \/ (/\ IsLive(v) /\ e \in MerkleDistributor
                     /\ e.clawed_back = distributor[v].clawed_back
                     /\ e.total_amount_claimed = distributor[v].total_amount_claimed
                     /\ e.max_total_claim = distributor[v].max_total_claim)
    PROVE  Kept(w)
<1>1. distributor'[w] = IF w = v THEN e ELSE distributor[w]
  BY DEF TypeOK
<1>2. QED
  BY <1>1, NoAccountAssumption DEF Kept, IsLive

LEMMA BalanceIsNat ==
    ASSUME TypeOK, NEW v \in Version
    PROVE  v \in TokenAccount /\ balance[v] \in Nat
  BY VersionsAreTokenAccounts DEF TypeOK

LEMMA StillIsStep ==
    ASSUME TypeOK, NEW v \in Version, Kept(v), balance'[v] = balance[v]
    PROVE  EscrowStep(v)
<1>1. balance[v] \in Nat /\ balance'[v] \in Nat
  BY BalanceIsNat
<1>2. balance'[v] >= balance[v]
  BY <1>1, SMT
<1>3. QED
  BY <1>1, <1>2, KeptIsStep

LEMMA DeployStep ==
    ASSUME TypeOK, NEW v \in Version, Deploy(v), NEW w \in Version
    PROVE  EscrowStep(w)
<1>1. PICK a \in DeployArgs, signer \in Wallet, receiver \in Receiver :
         \/ NewDistributor(v, a, signer, receiver)
         \/ NewDistributor2(v, a, signer, receiver)
  BY DEF Deploy
<1>2. a \in DeployArg /\ receiver \in TokenAccount
  BY InputsAssumption, VersionsAreTokenAccounts
<1>3. ASSUME NEW max_total \in U64, NEW bonus \in U64, NEW duration \in U64,
             HandleNewDistributor(v, a, signer, receiver, max_total, bonus, duration)
      PROVE  EscrowStep(w)
  <2> DEFINE d == NewAccount(a, signer, receiver, max_total, bonus, duration)
  <2>1. /\ ~IsLive(v) /\ UNCHANGED balance
        /\ distributor' = [distributor EXCEPT ![v] = d]
        /\ d.total_amount_claimed = 0 /\ d.max_total_claim = max_total
        /\ d.clawed_back = FALSE
        /\ d \in MerkleDistributor
    BY <1>2, <1>3, U64IsNat
       DEF HandleNewDistributor, NewAccount, DeployArg, MerkleDistributor
  <2> HIDE DEF d
  <2>2. CASE w # v
    BY <2>1, <2>2, WriteKeeps, StillIsStep
  <2>3. CASE w = v
    <3>1. distributor'[v] = d /\ distributor'[v] # NoAccount
      BY <2>1, NoAccountAssumption DEF TypeOK
    <3>2. max_total \in Nat
      BY U64IsNat
    <3>3. /\ Phase(v) = "absent" /\ Phase(v)' = "open"
          /\ PaidOut(v)' = 0 /\ Cap(v)' \in Nat /\ balance'[v] = balance[v]
      BY <2>1, <3>1, <3>2 DEF Phase, PaidOut, Cap, IsLive
    <3>4. QED
      BY <2>3, <3>3 DEF EscrowStep
  <2>4. QED
    BY <2>2, <2>3
<1>4. CASE NewDistributor(v, a, signer, receiver)
  BY <1>2, <1>3, <1>4, U64IsNat DEF NewDistributor, DeployArg
<1>5. CASE NewDistributor2(v, a, signer, receiver)
  <2>1. /\ a.total_claim \in U64 /\ a.total_bonus \in U64 /\ a.vesting_duration \in U64
    BY <1>2 DEF DeployArg
  <2>2. checked_add(a.total_claim, a.total_bonus) \in U64
    BY <1>5, <2>1, CheckedAdd DEF NewDistributor2
  <2>3. QED
    BY <1>3, <1>5, <2>1, <2>2 DEF NewDistributor2
<1>6. QED
  BY <1>1, <1>4, <1>5

(* A claim moves what it pays from the vault to the claimant and counts it.*)
LEMMA PaymentStep ==
    ASSUME TypeOK, NEW v \in Version, NEW c \in Claimant, NEW amount \in Nat,
           IsOpen(v), Transfer(v, c, amount), FitsMaxTotal(distributor[v], amount),
           NEW e \in MerkleDistributor, distributor' = [distributor EXCEPT ![v] = e],
           e.clawed_back = distributor[v].clawed_back,
           e.max_total_claim = distributor[v].max_total_claim,
           e.total_amount_claimed = distributor[v].total_amount_claimed + amount,
           NEW w \in Version
    PROVE  EscrowStep(w)
<1>1. c \in TokenAccount /\ c # w /\ v # c
  BY VersionsAreTokenAccounts, AccountsAssumption
<1>2. /\ amount <= balance[v] /\ balance[w] \in Nat /\ balance[v] \in Nat
      /\ balance'[w] = IF w = v THEN balance[w] - amount ELSE balance[w]
  BY <1>1, TransferMoves, BalanceIsNat DEF TypeOK
<1>3. CASE w # v
  BY <1>2, <1>3, WriteKeeps, StillIsStep
<1>4. CASE w = v /\ amount = 0
  <2>1. distributor[v].total_amount_claimed \in Nat
    BY LiveType, U64IsNat DEF IsOpen, MerkleDistributor
  <2>2. e.total_amount_claimed = distributor[v].total_amount_claimed
        /\ balance'[w] = balance[w]
    BY <1>2, <1>4, <2>1, SMT
  <2>3. QED
    BY <1>4, <2>2, WriteKeeps, StillIsStep DEF IsOpen
<1>5. CASE w = v /\ amount # 0
  <2>1. /\ distributor[v] \in MerkleDistributor
        /\ distributor[v].total_amount_claimed \in Nat
        /\ distributor'[v] = e /\ e # NoAccount
    BY LiveType, U64IsNat, NoAccountAssumption DEF IsOpen, MerkleDistributor, TypeOK
  <2>2. /\ Phase(v) = "open" /\ UNCHANGED <<Phase(v), Cap(v)>>
        /\ PaidOut(v) = distributor[v].total_amount_claimed
        /\ PaidOut(v)' = distributor[v].total_amount_claimed + amount
        /\ Cap(v) = distributor[v].max_total_claim
    BY <2>1 DEF IsOpen, IsLive, Phase, PaidOut, Cap
  <2>3. /\ balance'[v] < balance[v]
        /\ balance'[v] + PaidOut(v)' = balance[v] + PaidOut(v)
        /\ PaidOut(v)' <= Cap(v)
    BY <1>2, <1>5, <2>1, <2>2, SMT DEF FitsMaxTotal
  <2>4. QED
    BY <1>5, <2>2, <2>3 DEF EscrowStep
<1>6. QED
  BY <1>3, <1>4, <1>5

LEMMA NewClaimStep ==
    ASSUME TypeOK, BonusIsShare, NEW v \in Version, NEW leaf \in Leaf, NewClaim(v, leaf),
           NEW w \in Version
    PROVE  EscrowStep(w)
<1> DEFINE d == distributor[v]
           bonus == BonusNow(d, leaf.unlocked)
           amount == leaf.unlocked + bonus
           e == RecordClaim(d, amount, bonus)
<1>1. /\ d \in MerkleDistributor /\ bonus \in U64 /\ amount \in U64
      /\ checked_add(leaf.unlocked, bonus) = amount
  BY NewClaimAmount
<1>2. leaf.claimant \in Claimant /\ leaf.unlocked \in U64
  BY DEF Leaf
<1> HIDE DEF bonus
<1>3. /\ IsOpen(v) /\ HasNodeLeft(d) /\ FitsMaxTotal(d, amount)
      /\ Transfer(v, leaf.claimant, amount)
      /\ distributor' = [distributor EXCEPT ![v] = e]
      /\ d.total_claimed_bonus <= d.total_amount_claimed
  BY <1>1 DEF NewClaim, CanClaim, BonusIsShare, BonusShared, IsOpen, bonus
<1> HIDE DEF d
<1>4. /\ e \in MerkleDistributor /\ e.clawed_back = d.clawed_back
      /\ e.max_total_claim = d.max_total_claim
      /\ e.total_amount_claimed = d.total_amount_claimed + amount
  <2>1. e \in MerkleDistributor
    BY <1>1, <1>2, <1>3, RecordClaimType
  <2>2. QED
    BY <1>1, <2>1 DEF RecordClaim, MerkleDistributor
<1> HIDE DEF amount, e
<1>5. QED
  BY <1>1, <1>2, <1>3, <1>4, PaymentStep, U64IsNat DEF d

LEMMA ClaimLockedStep ==
    ASSUME TypeOK, NEW v \in Version, NEW c \in Claimant, ClaimLocked(v, c),
           NEW w \in Version
    PROVE  EscrowStep(w)
<1> DEFINE d == distributor[v]
           amount == Withdrawable(d, claim_status[v][c])
           e == [d EXCEPT !.total_amount_claimed = @ + amount]
<1>1. d \in MerkleDistributor /\ amount \in U64
  BY ClaimLockedAmount
<1> HIDE DEF amount
<1>2. /\ IsOpen(v) /\ FitsMaxTotal(d, amount) /\ Transfer(v, c, amount)
      /\ distributor' = [distributor EXCEPT ![v] = e]
  BY DEF ClaimLocked, CanWithdraw, amount
<1> HIDE DEF d
<1>3. d.total_amount_claimed + amount \in U64
  <2>1. d.total_amount_claimed \in U64 /\ d.max_total_claim \in U64
    BY <1>1 DEF MerkleDistributor
  <2>2. QED
    BY <1>1, <1>2, <2>1, U64MaxAssumption, SMT DEF U64, FitsMaxTotal
<1>4. /\ e \in MerkleDistributor /\ e.clawed_back = d.clawed_back
      /\ e.max_total_claim = d.max_total_claim
      /\ e.total_amount_claimed = d.total_amount_claimed + amount
  BY <1>1, <1>3 DEF MerkleDistributor
<1> HIDE DEF e
<1>5. QED
  BY <1>1, <1>2, <1>4, PaymentStep, U64IsNat DEF d

LEMMA ClawbackStep ==
    ASSUME TypeOK, NEW v \in Version, Clawback(v), NEW w \in Version
    PROVE  EscrowStep(w)
<1> DEFINE d == distributor[v]
           e == MarkSwept(d)
<1>1. /\ IsOpen(v) /\ d \in MerkleDistributor
      /\ Transfer(v, d.clawback_receiver, balance[v])
      /\ distributor' = [distributor EXCEPT ![v] = e]
  BY LiveType DEF Clawback, IsOpen
<1>2. d.clawback_receiver \in TokenAccount
  BY <1>1 DEF MerkleDistributor
<1>3. /\ e \in MerkleDistributor /\ e.clawed_back
      /\ e.max_total_claim = d.max_total_claim
      /\ e.total_amount_claimed = d.total_amount_claimed
  BY <1>1 DEF MarkSwept, MerkleDistributor
<1> HIDE DEF e
<1>4. /\ balance[w] \in Nat /\ balance'[w] \in Nat
      /\ w = v => balance'[w] \in {0, balance[w]}
      /\ w # v => balance'[w] >= balance[w]
  BY <1>1, <1>2, SweepMoves DEF TypeOK
<1>5. CASE w # v
  BY <1>1, <1>4, <1>5, WriteKeeps, KeptIsStep
<1>6. CASE w = v
  <2>1. distributor'[v] = e /\ e # NoAccount
    BY <1>1, <1>3, NoAccountAssumption DEF TypeOK
  <2>2. /\ Phase(v) = "open" /\ Phase(v)' = "swept" /\ UNCHANGED <<PaidOut(v), Cap(v)>>
    BY <1>1, <1>3, <2>1 DEF IsOpen, IsLive, Phase, PaidOut, Cap
  <2>3. QED
    BY <1>4, <1>6, <2>2 DEF EscrowStep
<1>7. QED
  BY <1>5, <1>6

LEMMA CloseDistributorStep ==
    ASSUME TypeOK, NEW v \in Version, NEW signer, NEW destination \in Receiver,
           CloseDistributor(v, signer, destination), NEW w \in Version
    PROVE  EscrowStep(w)
<1>1. /\ IsLive(v) /\ Transfer(v, destination, balance[v])
      /\ distributor' = [distributor EXCEPT ![v] = NoAccount]
      /\ destination \in TokenAccount
  BY VersionsAreTokenAccounts DEF CloseDistributor
<1>2. /\ balance[w] \in Nat /\ balance'[w] \in Nat
      /\ w = v => balance'[w] \in {0, balance[w]}
      /\ w # v => balance'[w] >= balance[w]
  BY <1>1, SweepMoves DEF TypeOK
<1>3. CASE w # v
  BY <1>1, <1>2, <1>3, WriteKeeps, KeptIsStep
<1>4. CASE w = v
  <2>1. distributor'[v] = NoAccount
    BY <1>1 DEF TypeOK
  <2>2. Phase(v) # "absent" /\ Phase(v)' = "absent" /\ PaidOut(v)' = 0 /\ Cap(v)' = 0
    BY <1>1, <2>1 DEF IsLive, Phase, PaidOut, Cap
  <2>3. QED
    BY <1>2, <1>4, <2>2 DEF EscrowStep
<1>5. QED
  BY <1>3, <1>4

(* The setters touch nothing the escrow shows.                             *)
LEMMA AdministerStep ==
    ASSUME TypeOK, NEW v \in Version, Administer(v), NEW w \in Version
    PROVE  EscrowStep(w)
<1>1. PICK signer \in Wallet :
        \/ \E c \in Claimant : CloseClaimStatus(v, c, signer)
        \/ \E destination \in Receiver : CloseDistributor(v, signer, destination)
        \/ \E point \in ActivationPoints : SetActivationPoint(v, signer, point)
        \/ \E new_admin \in Wallet : SetAdmin(v, signer, new_admin)
        \/ \E receiver \in Receiver : SetClawbackReceiver(v, signer, receiver)
  BY DEF Administer
<1>2. CASE \E c \in Claimant : CloseClaimStatus(v, c, signer)
  <2>1. UNCHANGED <<distributor, balance>>
    BY <1>2 DEF CloseClaimStatus
  <2>2. QED
    BY <2>1, StillIsStep DEF Kept, IsLive
<1>3. ASSUME IsLive(v), UNCHANGED balance, NEW e \in MerkleDistributor,
             distributor' = [distributor EXCEPT ![v] = e],
             e.clawed_back = distributor[v].clawed_back,
             e.total_amount_claimed = distributor[v].total_amount_claimed,
             e.max_total_claim = distributor[v].max_total_claim
      PROVE  EscrowStep(w)
  BY <1>3, WriteKeeps, StillIsStep
<1>4. ASSUME NEW point \in ActivationPoints, SetActivationPoint(v, signer, point)
      PROVE  EscrowStep(w)
  <2> DEFINE e == [distributor[v] EXCEPT !.activation_point = point]
  <2>1. /\ IsLive(v) /\ UNCHANGED balance /\ distributor[v] \in MerkleDistributor
        /\ distributor' = [distributor EXCEPT ![v] = e] /\ point \in U64
    BY <1>4, LiveType, InputsAssumption DEF SetActivationPoint
  <2>2. QED
    BY <1>3, <2>1 DEF MerkleDistributor
<1>5. ASSUME NEW new_admin \in Wallet, SetAdmin(v, signer, new_admin)
      PROVE  EscrowStep(w)
  <2> DEFINE e == [distributor[v] EXCEPT !.admin = new_admin]
  <2>1. /\ IsLive(v) /\ UNCHANGED balance /\ distributor[v] \in MerkleDistributor
        /\ distributor' = [distributor EXCEPT ![v] = e]
    BY <1>5, LiveType DEF SetAdmin
  <2>2. QED
    BY <1>3, <2>1 DEF MerkleDistributor
<1>6. ASSUME NEW receiver \in Receiver, SetClawbackReceiver(v, signer, receiver)
      PROVE  EscrowStep(w)
  <2> DEFINE e == [distributor[v] EXCEPT !.clawback_receiver = receiver]
  <2>1. /\ IsLive(v) /\ UNCHANGED balance /\ distributor[v] \in MerkleDistributor
        /\ distributor' = [distributor EXCEPT ![v] = e] /\ receiver \in TokenAccount
    BY <1>6, LiveType, VersionsAreTokenAccounts DEF SetClawbackReceiver
  <2>2. QED
    BY <1>3, <2>1 DEF MerkleDistributor
<1>7. QED
  BY <1>1, <1>2, <1>4, <1>5, <1>6, CloseDistributorStep

LEMMA DepositStep ==
    ASSUME TypeOK, NEW v \in Version, NEW amount \in Deposits, Deposit(v, amount),
           NEW w \in Version
    PROVE  EscrowStep(w)
<1>1. /\ amount \in Nat /\ Funder \in TokenAccount /\ v \in TokenAccount
      /\ w \in TokenAccount /\ Funder # w
  BY InputsAssumption, VersionsAreTokenAccounts, AccountsAssumption
<1>2. UNCHANGED distributor /\ Transfer(Funder, v, amount)
  BY DEF Deposit
<1>3. /\ balance[w] \in Nat
      /\ balance'[w] = IF Funder = v THEN balance[w]
                       ELSE IF w = Funder THEN balance[w] - amount
                       ELSE IF w = v THEN balance[w] + amount
                       ELSE balance[w]
  BY <1>1, <1>2, TransferMoves DEF TypeOK
<1>4. balance'[w] \in Nat /\ balance'[w] >= balance[w]
  BY <1>1, <1>3, SMT
<1>5. QED
  BY <1>2, <1>3, <1>4, KeptIsStep DEF Kept, IsLive

(* Every step of the program is a step of each version's escrow, or leaves *)
(* that escrow as it is.                                                   *)
LEMMA EveryStepIsEscrowStep ==
    ASSUME TypeOK, BonusIsShare, [Next]_vars, NEW w \in Version
    PROVE  EscrowStep(w)
<1>1. ASSUME NEW v \in Version, Claim(v)
      PROVE  EscrowStep(w)
  <2>1. \A root \in Root : Leaves[root] \subseteq Leaf
    BY InputsAssumption
  <2>2. QED
    BY <1>1, <2>1, NewClaimStep, ClaimLockedStep DEF Claim
<1>2. CASE UNCHANGED <<distributor, balance>>
  BY <1>2, StillIsStep DEF Kept, IsLive
<1>3. QED
  BY <1>1, <1>2, DeployStep, ClawbackStep, AdministerStep, DepositStep
     DEF Next, AdvanceTime, AdvanceSlot, vars

(* The program implements Escrow for every version: tokens leave an open   *)
(* vault only as payments counted under max_total_claim, or at once.       *)
THEOREM EscrowImplemented == Spec => ImplementsEscrow
<1>1. Init => \A v \in Version : EscrowOf(v)!Init
  <2>1. ASSUME Init, NEW v \in Version
        PROVE  ~IsLive(v) /\ balance[v] = 0
    BY <2>1, VersionsAreTokenAccounts, AccountsAssumption DEF Init, IsLive
  <2>2. QED
    BY <2>1 DEF EscrowOf!Init
<1>2. Inv /\ [Next]_vars
        => [\A v \in Version : [EscrowOf(v)!Next]_(EscrowOf(v)!escrow)]_vars
  BY EveryStepIsEscrowStep, EscrowStepIsStep DEF Inv
<1>3. QED
  BY <1>1, <1>2, Invariance, PTL DEF Spec, ImplementsEscrow

(* A vault that can pay every claim left under max_total_claim stays so    *)
(* until the distributor is swept or closed: what a payment takes from it  *)
(* is counted, and only a sweep or a close takes anything uncounted.       *)
THEOREM StaysSolvent == Spec => SolventUntilSwept
<1>1. ASSUME TypeOK, TypeOK', NEW v \in Version, EscrowStep(v), IsOpen(v), IsSolvent(v),
             IsOpen(v)'
      PROVE  IsSolvent(v)'
  <2>1. /\ distributor[v] \in MerkleDistributor /\ distributor'[v] \in MerkleDistributor
        /\ balance[v] \in Nat /\ balance'[v] \in Nat
    BY <1>1, BalanceIsNat DEF IsOpen, IsLive, TypeOK
  <2>2. /\ Phase(v) = "open" /\ Phase(v)' = "open"
        /\ PaidOut(v) = distributor[v].total_amount_claimed
        /\ PaidOut(v)' = distributor'[v].total_amount_claimed
        /\ Cap(v) = distributor[v].max_total_claim
        /\ Cap(v)' = distributor'[v].max_total_claim
    BY <1>1 DEF IsOpen, IsLive, Phase, PaidOut, Cap
  <2>3. PaidOut(v) \in Nat /\ PaidOut(v)' \in Nat /\ Cap(v) \in Nat /\ Cap(v)' \in Nat
    BY <2>1, <2>2, U64IsNat DEF MerkleDistributor
  <2>4. Cap(v) <= balance[v] + PaidOut(v)
    BY <1>1, <2>2 DEF IsSolvent
  <2>5. Cap(v)' = Cap(v) /\ balance'[v] + PaidOut(v)' >= balance[v] + PaidOut(v)
    BY <1>1, <2>1, <2>2, <2>3, SMT DEF EscrowStep
  <2>6. Cap(v)' <= balance'[v] + PaidOut(v)'
    BY <2>1, <2>3, <2>4, <2>5, SMT
  <2>7. QED
    BY <2>2, <2>6 DEF IsSolvent
<1>2. Inv /\ Inv' /\ [Next]_vars =>
        [\A v \in Version :
           IsOpen(v) /\ IsSolvent(v) => ~IsOpen(v)' \/ IsSolvent(v)']_vars
  BY <1>1, EveryStepIsEscrowStep DEF Inv
<1>3. QED
  BY <1>2, Invariance, PTL DEF Spec, SolventUntilSwept

--------------------------------------------------------------------------------
(* What a step does to the claim statuses of one distributor *)

\* A claim status of w is written, all others of w stay.
WritesStatus(w, c, s) == claim_status'[w] = [claim_status[w] EXCEPT ![c] = s]

NewStatus(d, leaf, amount) ==
    [locked_amount |-> leaf.locked, locked_amount_withdrawn |-> 0,
     unlocked_amount |-> amount, closable |-> d.closable, admin |-> d.admin]

\* The counters of w grow.
CountsMore(w, amount, bonus, nodes) ==
    LET d == distributor[w]
        e == distributor'[w]
    IN  /\ e.total_amount_claimed = d.total_amount_claimed + amount
        /\ e.total_claimed_bonus = d.total_claimed_bonus + bonus
        /\ e.num_nodes_claimed = d.num_nodes_claimed + nodes

\* c claims a leaf of the tree of w, with a bonus of at most its share.
ClaimsLeaf(w, c) ==
    \E leaf \in Leaves[distributor[w].root], bonus \in Nat :
        /\ ~HasClaimed(w, c)
        /\ leaf \in Leaf /\ leaf.claimant = c
        /\ MaxBonus(distributor[w], leaf) \in Nat
        /\ bonus <= MaxBonus(distributor[w], leaf)
        /\ leaf.unlocked + bonus \in U64
        /\ WritesStatus(w, c, NewStatus(distributor[w], leaf, leaf.unlocked + bonus))
        /\ CountsMore(w, leaf.unlocked + bonus, bonus, 1)

\* c withdraws more of what is locked.
Withdraws(w, c) ==
    \E amount \in U64 :
        /\ HasClaimed(w, c)
        /\ RecordWithdrawal(claim_status[w][c], amount) \in ClaimStatus
        /\ WritesStatus(w, c, RecordWithdrawal(claim_status[w][c], amount))
        /\ CountsMore(w, amount, 0, 0)

\* The closable status of c is closed.
StatusClosed(w, c) ==
    /\ HasClaimed(w, c) /\ claim_status[w][c].closable
    /\ WritesStatus(w, c, NoAccount)
    /\ CountsMore(w, 0, 0, 0)

LedgerStep(w) ==
    \/ claim_status'[w] = claim_status[w] /\ CountsMore(w, 0, 0, 0)
    \/ \E c \in Claimant : ClaimsLeaf(w, c) \/ Withdraws(w, c) \/ StatusClosed(w, c)

CountersAreNat(w) ==
    /\ distributor[w].total_amount_claimed \in Nat
    /\ distributor[w].total_claimed_bonus \in Nat
    /\ distributor[w].num_nodes_claimed \in Nat

LEMMA CountersType ==
    ASSUME TypeOK, NEW w \in Version, IsLive(w)
    PROVE  CountersAreNat(w)
  BY LiveType, U64IsNat DEF CountersAreNat, MerkleDistributor

(* Both accounts of w stay as they are.                                    *)
LEMMA OtherVersionKept ==
    ASSUME TypeOK, NEW w \in Version, IsLive(w),
           distributor'[w] = distributor[w], claim_status'[w] = claim_status[w]
    PROVE  LedgerStep(w)
<1>1. CountersAreNat(w)
  BY CountersType
<1>2. CountsMore(w, 0, 0, 0)
  BY <1>1, SMT DEF CountsMore, CountersAreNat
<1>3. QED
  BY <1>2 DEF LedgerStep

(* The counter stays when another field is written.                        *)
LEMMA CounterKept ==
    ASSUME TypeOK, NEW v \in Version, IsLive(v), NEW e, UNCHANGED claim_status,
           distributor' = [distributor EXCEPT ![v] = e],
           e.total_amount_claimed = distributor[v].total_amount_claimed,
           e.total_claimed_bonus = distributor[v].total_claimed_bonus,
           e.num_nodes_claimed = distributor[v].num_nodes_claimed,
           NEW w \in Version, IsLive(w)
    PROVE  LedgerStep(w)
<1>1. CASE w = v
  <2>1. distributor'[w] = e
    BY <1>1 DEF TypeOK
  <2>2. CountersAreNat(w)
    BY CountersType
  <2>3. CountsMore(w, 0, 0, 0)
    BY <1>1, <2>1, <2>2, SMT DEF CountsMore, CountersAreNat
  <2>4. QED
    BY <2>3 DEF LedgerStep
<1>2. CASE w # v
  BY <1>2, OtherVersionKept DEF TypeOK
<1>3. QED
  BY <1>1, <1>2

LEMMA NewClaimOnLedger ==
    ASSUME TypeOK, NEW v \in Version, NEW leaf \in Leaf, NewClaim(v, leaf),
           NEW w \in Version, IsLive(w)
    PROVE  LedgerStep(w)
<1> DEFINE d == distributor[v]
           c == leaf.claimant
           bonus == BonusNow(d, leaf.unlocked)
           amount == leaf.unlocked + bonus
<1>1. /\ d \in MerkleDistributor /\ bonus \in U64 /\ amount \in U64
      /\ checked_add(leaf.unlocked, bonus) = amount
  BY NewClaimAmount
<1>2. MaxBonus(d, leaf) \in U64 /\ bonus <= MaxBonus(d, leaf)
  <2> DEFINE max == MaxBonus(d, leaf)
  <2>1. /\ leaf.unlocked \in U64 /\ d.max_total_claim \in U64 /\ d.total_bonus \in U64
        /\ d.vesting_duration \in U64 /\ d.activation_point \in U64
        /\ curr_point(d) \in Nat
    BY <1>1 DEF Leaf, MerkleDistributor, curr_point, TypeOK
  <2>2. bonus = vested_bonus(max, curr_point(d), d.activation_point, d.vesting_duration)
    BY DEF BonusNow, MaxBonus
  <2>3. IsOk(bonus)
    BY DEF NewClaim, CanClaim
  <2>4. IsOk(max)
    BY <2>2, <2>3 DEF vested_bonus, IsOk
  <2>5. max \in U64
    BY <2>1, <2>4, MaxBonusIsShare DEF MaxBonus
  <2> HIDE DEF max
  <2>6. QED
    BY <2>1, <2>2, <2>3, <2>5, VestedBonusBounded DEF max
<1>3. c \in Claimant /\ leaf.unlocked \in U64
  BY DEF Leaf
<1>4. /\ IsLive(v) /\ ~HasClaimed(v, c) /\ leaf \in Leaves[d.root]
      /\ distributor' = [distributor EXCEPT ![v] = RecordClaim(d, amount, bonus)]
      /\ claim_status' = [claim_status EXCEPT ![v][c] = NewStatus(d, leaf, amount)]
  BY <1>1 DEF NewClaim, CanClaim, IsOpen, InTree, NewStatus
<1>5. CASE w # v
  BY <1>4, <1>5, OtherVersionKept DEF TypeOK
<1>6. CASE w = v
  <2>1. /\ WritesStatus(v, c, NewStatus(d, leaf, amount))
        /\ distributor'[v] = RecordClaim(d, amount, bonus)
    BY <1>4 DEF TypeOK, WritesStatus
  <2>2. CountsMore(v, amount, bonus, 1)
    BY <1>1, <2>1 DEF CountsMore, RecordClaim, MerkleDistributor
  <2>3. ClaimsLeaf(v, c)
    <3> HIDE DEF bonus
    <3>1. bonus \in Nat /\ MaxBonus(d, leaf) \in Nat
      BY <1>1, <1>2, U64IsNat
    <3>2. QED
      BY <1>1, <1>2, <1>4, <2>1, <2>2, <3>1 DEF ClaimsLeaf
  <2>4. QED
    BY <1>3, <1>6, <2>3 DEF LedgerStep
<1>7. QED
  BY <1>5, <1>6

LEMMA ClaimLockedOnLedger ==
    ASSUME TypeOK, NEW v \in Version, NEW c \in Claimant, ClaimLocked(v, c),
           NEW w \in Version, IsLive(w)
    PROVE  LedgerStep(w)
<1> DEFINE d == distributor[v]
           s == claim_status[v][c]
           amount == Withdrawable(d, s)
<1>1. /\ d \in MerkleDistributor /\ s \in ClaimStatus /\ amount \in U64
      /\ s.locked_amount_withdrawn + amount
           = unlocked_amount(s.locked_amount, unix_timestamp, d.start_ts, d.end_ts)
  BY ClaimLockedAmount
<1>2. s.locked_amount_withdrawn + amount \in U64
  BY <1>1, UnlockedWithinLocked DEF ClaimStatus, MerkleDistributor, TypeOK
<1> HIDE DEF amount
<1>3. /\ HasClaimed(v, c)
      /\ claim_status' = [claim_status EXCEPT ![v][c] = RecordWithdrawal(s, amount)]
      /\ distributor' = [distributor EXCEPT ![v] =
                           [d EXCEPT !.total_amount_claimed = @ + amount]]
  BY DEF ClaimLocked, CanWithdraw, amount
<1>4. CASE w # v
  BY <1>3, <1>4, OtherVersionKept DEF TypeOK
<1>5. CASE w = v
  <2>1. RecordWithdrawal(s, amount) \in ClaimStatus
    BY <1>1, <1>2 DEF RecordWithdrawal, ClaimStatus
  <2>2. /\ WritesStatus(v, c, RecordWithdrawal(s, amount))
        /\ distributor'[v] = [d EXCEPT !.total_amount_claimed = @ + amount]
    BY <1>3 DEF TypeOK, WritesStatus
  <2>3. CountsMore(v, amount, 0, 0)
    <3>1. CountersAreNat(v)
      BY <1>5, CountersType
    <3>2. /\ distributor'[v].total_amount_claimed = d.total_amount_claimed + amount
          /\ distributor'[v].total_claimed_bonus = d.total_claimed_bonus
          /\ distributor'[v].num_nodes_claimed = d.num_nodes_claimed
      BY <1>1, <2>2 DEF MerkleDistributor
    <3>3. QED
      BY <3>1, <3>2, SMT DEF CountsMore, CountersAreNat
  <2>4. QED
    BY <1>1, <1>3, <1>5, <2>1, <2>2, <2>3 DEF LedgerStep, Withdraws
<1>6. QED
  BY <1>4, <1>5

LEMMA AdministerOnLedger ==
    ASSUME TypeOK, NEW v \in Version, Administer(v),
           NEW w \in Version, IsLive(w), IsLive(w)'
    PROVE  LedgerStep(w)
<1>1. ASSUME NEW c \in Claimant, NEW signer, CloseClaimStatus(v, c, signer)
      PROVE  LedgerStep(w)
  <2>1. /\ HasClaimed(v, c) /\ claim_status[v][c].closable /\ UNCHANGED distributor
        /\ claim_status' = [claim_status EXCEPT ![v][c] = NoAccount]
    BY <1>1 DEF CloseClaimStatus
  <2>2. CASE w # v
    BY <2>1, <2>2, OtherVersionKept DEF TypeOK
  <2>3. CASE w = v
    <3>1. CountersAreNat(w)
      BY CountersType
    <3>2. CountsMore(w, 0, 0, 0)
      BY <2>1, <3>1, SMT DEF CountsMore, CountersAreNat
    <3>3. WritesStatus(w, c, NoAccount)
      BY <2>1, <2>3 DEF WritesStatus, TypeOK
    <3>4. QED
      BY <2>1, <2>3, <3>2, <3>3 DEF LedgerStep, StatusClosed
  <2>4. QED
    BY <2>2, <2>3
<1>2. ASSUME NEW destination, NEW signer, CloseDistributor(v, signer, destination)
      PROVE  LedgerStep(w)
  <2>1. /\ distributor' = [distributor EXCEPT ![v] = NoAccount] /\ UNCHANGED claim_status
    BY <1>2 DEF CloseDistributor
  <2>2. w # v
    BY <2>1 DEF IsLive, TypeOK
  <2>3. QED
    BY <2>1, <2>2, OtherVersionKept DEF TypeOK
<1>3. ASSUME NEW point, NEW signer, SetActivationPoint(v, signer, point)
      PROVE  LedgerStep(w)
  BY <1>3, CounterKept, LiveType DEF SetActivationPoint, MerkleDistributor
<1>4. ASSUME NEW new_admin, NEW signer, SetAdmin(v, signer, new_admin)
      PROVE  LedgerStep(w)
  BY <1>4, CounterKept, LiveType DEF SetAdmin, MerkleDistributor
<1>5. ASSUME NEW receiver, NEW signer, SetClawbackReceiver(v, signer, receiver)
      PROVE  LedgerStep(w)
  BY <1>5, CounterKept, LiveType DEF SetClawbackReceiver, MerkleDistributor
<1>6. QED
  BY <1>1, <1>2, <1>3, <1>4, <1>5 DEF Administer

(* Every step writes at most one claim status of a distributor, and what a *)
(* claim records there it adds to the counter.                             *)
LEMMA EveryStepOnLedger ==
    ASSUME TypeOK, [Next]_vars, NEW w \in Version, IsLive(w), IsLive(w)'
    PROVE  LedgerStep(w)
<1>1. ASSUME NEW v \in Version, Claim(v)
      PROVE  LedgerStep(w)
  <2>1. \A root \in Root : Leaves[root] \subseteq Leaf
    BY InputsAssumption
  <2>2. QED
    BY <1>1, <2>1, NewClaimOnLedger, ClaimLockedOnLedger DEF Claim
<1>2. ASSUME NEW v \in Version, Deploy(v)
      PROVE  LedgerStep(w)
  BY <1>2, DeployCreates, OtherVersionKept DEF Created
<1>3. ASSUME NEW v \in Version, Clawback(v)
      PROVE  LedgerStep(w)
  BY <1>3, CounterKept, LiveType DEF Clawback, IsOpen, MarkSwept, MerkleDistributor
<1>4. CASE UNCHANGED <<distributor, claim_status>>
  BY <1>4, OtherVersionKept
<1>5. QED
  BY <1>1, <1>2, <1>3, <1>4, AdministerOnLedger
     DEF Next, Deposit, AdvanceTime, AdvanceSlot, vars, clocks

(* A step in the first life of an address that keeps the account.          *)
LEMMA FirstLifeStep ==
    ASSUME TypeOK, UnusedIsEmpty, [Next]_vars, NEW w \in Version, IsFirst(w)'
    PROVE  \/ /\ ~\E c \in Claimant : HasClaimed(w, c)'
              /\ Created(w)
           \/ /\ IsFirst(w) /\ LedgerStep(w)
              /\ SameTerms(distributor[w], distributor'[w])
<1>1. CASE Created(w)
  <2>1. ~\E c \in Claimant : HasClaimed(w, c)'
    BY <1>1 DEF Created, IsFirst, UnusedIsEmpty, HasClaimed
  <2>2. distributor'[w].total_amount_claimed = 0
    BY <1>1 DEF Created
  <2>3. QED
    BY <1>1, <2>1, <2>2
<1>2. CASE IsLive(w) /\ Evolves(distributor[w], distributor'[w])
           /\ incarnation'[w] = incarnation[w]
  BY <1>2, EveryStepOnLedger DEF IsFirst, Evolves
<1>3. QED
  BY <1>1, <1>2, DistributorEvolves DEF IsFirst

(* What is written in one claim status by a step.                          *)
LEMMA StatusAfter ==
    ASSUME TypeOK, NEW w \in Version, NEW c \in Claimant, NEW s, WritesStatus(w, c, s),
           NEW k \in Claimant
    PROVE  claim_status'[w][k] = IF k = c THEN s ELSE claim_status[w][k]
  BY DEF TypeOK, WritesStatus

LEMMA FlagsStep ==
    ASSUME TypeOK, UnusedIsEmpty, FlagsMatch, [Next]_vars
    PROVE  FlagsMatch'
<1> SUFFICES ASSUME NEW w \in Version, NEW k \in Claimant, IsFirst(w)', HasClaimed(w, k)'
             PROVE  claim_status'[w][k].closable = distributor'[w].closable
  BY DEF FlagsMatch
<1>1. /\ IsFirst(w) /\ LedgerStep(w) /\ distributor'[w].closable = distributor[w].closable
  BY FirstLifeStep DEF SameTerms
<1>2. ASSUME claim_status'[w][k] = claim_status[w][k]
      PROVE  claim_status'[w][k].closable = distributor'[w].closable
  BY <1>1, <1>2 DEF FlagsMatch, HasClaimed
<1>3. ASSUME NEW c \in Claimant, ClaimsLeaf(w, c)
      PROVE  claim_status'[w][k].closable = distributor'[w].closable
  BY <1>1, <1>2, <1>3, StatusAfter DEF ClaimsLeaf, NewStatus
<1>4. ASSUME NEW c \in Claimant, Withdraws(w, c)
      PROVE  claim_status'[w][k].closable = distributor'[w].closable
  <2>1. PICK amount : /\ HasClaimed(w, c)
                      /\ WritesStatus(w, c, RecordWithdrawal(claim_status[w][c], amount))
    BY <1>4 DEF Withdraws
  <2>2. claim_status[w][c] \in ClaimStatus
    BY <2>1, ClaimedType
  <2>3. RecordWithdrawal(claim_status[w][c], amount).closable = claim_status[w][c].closable
    BY <2>2 DEF RecordWithdrawal, ClaimStatus
  <2>4. QED
    BY <1>1, <1>2, <2>1, <2>3, StatusAfter DEF FlagsMatch
<1>5. ASSUME NEW c \in Claimant, StatusClosed(w, c)
      PROVE  claim_status'[w][k].closable = distributor'[w].closable
  BY <1>2, <1>5, StatusAfter DEF StatusClosed, HasClaimed
<1>6. QED
  BY <1>1, <1>2, <1>3, <1>4, <1>5 DEF LedgerStep

LEMMA ReceiptStep ==
    ASSUME TypeOK, UnusedIsEmpty, ReceiptWithinLeaf, [Next]_vars
    PROVE  ReceiptWithinLeaf'
<1> DEFINE Fits(d, s, k) ==
      \E leaf \in Leaves[d.root] :
        /\ leaf.claimant = k
        /\ s.locked_amount = leaf.locked
        /\ s.unlocked_amount \in leaf.unlocked .. (leaf.unlocked + MaxBonus(d, leaf))
<1> SUFFICES ASSUME NEW w \in Version, NEW k \in Claimant, IsFirst(w)', HasClaimed(w, k)'
             PROVE  Fits(distributor'[w], claim_status'[w][k], k)
  BY DEF ReceiptWithinLeaf, MaxBonus
<1>1. /\ IsFirst(w) /\ LedgerStep(w) /\ SameTerms(distributor[w], distributor'[w])
  BY FirstLifeStep
<1>2. ASSUME NEW s, Fits(distributor[w], s, k)
      PROVE  Fits(distributor'[w], s, k)
  BY <1>1, <1>2 DEF SameTerms, MaxBonus
<1>3. HasClaimed(w, k) => Fits(distributor[w], claim_status[w][k], k)
  BY <1>1 DEF ReceiptWithinLeaf
<1>4. ASSUME claim_status'[w][k] = claim_status[w][k]
      PROVE  Fits(distributor'[w], claim_status'[w][k], k)
  BY <1>2, <1>3, <1>4 DEF HasClaimed
<1>5. ASSUME NEW c \in Claimant, ClaimsLeaf(w, c)
      PROVE  Fits(distributor'[w], claim_status'[w][k], k)
  <2>1. CASE k # c
    BY <1>4, <1>5, <2>1, StatusAfter DEF ClaimsLeaf
  <2>2. CASE k = c
    <3>1. PICK leaf \in Leaves[distributor[w].root], bonus \in Nat :
            /\ leaf \in Leaf /\ leaf.claimant = c
            /\ MaxBonus(distributor[w], leaf) \in Nat
            /\ bonus <= MaxBonus(distributor[w], leaf)
            /\ WritesStatus(w, c, NewStatus(distributor[w], leaf, leaf.unlocked + bonus))
      BY <1>5 DEF ClaimsLeaf
    <3> DEFINE s == NewStatus(distributor[w], leaf, leaf.unlocked + bonus)
    <3>2. claim_status'[w][k] = s
      BY <2>2, <3>1, StatusAfter
    <3>3. s.locked_amount = leaf.locked /\ s.unlocked_amount = leaf.unlocked + bonus
      BY DEF NewStatus
    <3> HIDE DEF s
    <3>4. leaf.unlocked \in Nat
      BY <3>1, U64IsNat DEF Leaf
    <3>5. leaf.unlocked + bonus
            \in leaf.unlocked .. (leaf.unlocked + MaxBonus(distributor[w], leaf))
      BY <3>1, <3>4, SMT
    <3>6. Fits(distributor[w], s, k)
      BY <2>2, <3>1, <3>3, <3>5
    <3>7. QED
      BY <1>2, <3>2, <3>6
  <2>3. QED
    BY <2>1, <2>2
<1>6. ASSUME NEW c \in Claimant, Withdraws(w, c)
      PROVE  Fits(distributor'[w], claim_status'[w][k], k)
  <2>1. PICK amount : /\ HasClaimed(w, c)
                      /\ WritesStatus(w, c, RecordWithdrawal(claim_status[w][c], amount))
    BY <1>6 DEF Withdraws
  <2> DEFINE s == RecordWithdrawal(claim_status[w][c], amount)
  <2>2. /\ s.locked_amount = claim_status[w][c].locked_amount
        /\ s.unlocked_amount = claim_status[w][c].unlocked_amount
    BY <2>1, ClaimedType DEF RecordWithdrawal, ClaimStatus
  <2>3. claim_status'[w][k] = IF k = c THEN s ELSE claim_status[w][k]
    BY <2>1, StatusAfter
  <2> HIDE DEF s
  <2>4. CASE k = c
    <3>1. Fits(distributor[w], s, k)
      BY <1>3, <2>1, <2>2, <2>4
    <3>2. QED
      BY <1>2, <2>3, <2>4, <3>1
  <2>5. QED
    BY <1>4, <2>3, <2>4
<1>7. ASSUME NEW c \in Claimant, StatusClosed(w, c)
      PROVE  Fits(distributor'[w], claim_status'[w][k], k)
  BY <1>4, <1>7, StatusAfter DEF StatusClosed, HasClaimed
<1>8. QED
  BY <1>1, <1>4, <1>5, <1>6, <1>7 DEF LedgerStep

--------------------------------------------------------------------------------
(* The counter and the sum over all claimants *)

\* What each claimant got from one distributor; the statuses are an argument.
Receipts(statuses) ==
    [c \in Claimant |-> IF statuses[c] # NoAccount THEN Receipt(statuses[c]) ELSE 0]

Received(statuses) == SumOf(Receipts(statuses), Claimant)

LEMMA ReceiptsType ==
    ASSUME NEW st \in [Claimant -> ClaimStatus \cup {NoAccount}]
    PROVE  Receipts(st) \in [Claimant -> Nat]
<1> SUFFICES ASSUME NEW c \in Claimant, st[c] # NoAccount
             PROVE  Receipt(st[c]) \in Nat
  BY DEF Receipts
<1>1. st[c].unlocked_amount \in Nat /\ st[c].locked_amount_withdrawn \in Nat
  BY U64IsNat DEF ClaimStatus
<1>2. QED
  BY <1>1, SMT DEF Receipt

(* Changing one status changes the sum by the change of its receipt.       *)
LEMMA OneReceiptChanges ==
    ASSUME NEW st \in [Claimant -> ClaimStatus \cup {NoAccount}],
           NEW tt \in [Claimant -> ClaimStatus \cup {NoAccount}],
           NEW c \in Claimant, \A k \in Claimant : k # c => tt[k] = st[k]
    PROVE  /\ Received(st) \in Nat /\ Received(tt) \in Nat
           /\ Receipts(st)[c] \in Nat /\ Receipts(tt)[c] \in Nat
           /\ Received(tt) + Receipts(st)[c] = Received(st) + Receipts(tt)[c]
<1>1. /\ Receipts(st) \in [Claimant -> Nat] /\ Receipts(tt) \in [Claimant -> Nat]
      /\ IsFiniteSet(Claimant)
  BY ReceiptsType, AccountsAssumption
<1>2. \A k \in Claimant \ {c} : Receipts(st)[k] = Receipts(tt)[k]
  BY DEF Receipts
<1>3. QED
  BY <1>1, <1>2, SumChange DEF Received

Agrees(st, d) == IF d.closable THEN Received(st) <= d.total_amount_claimed
                 ELSE Received(st) = d.total_amount_claimed

Balanced == \A v \in Version :
    IsFirst(v) => Agrees(claim_status[v], distributor[v])

LEMMA BalancedMeansAgrees ==
    ASSUME Balanced
    PROVE  LedgerAgrees
<1>1. ASSUME NEW v \in Version
      PROVE  [c \in Claimant |-> IF HasClaimed(v, c) THEN Receipt(claim_status[v][c]) ELSE 0]
               = Receipts(claim_status[v])
  BY DEF Receipts, HasClaimed
<1>2. ASSUME NEW v \in Version
      PROVE  SumOver([c \in Claimant |-> IF HasClaimed(v, c)
                         THEN Receipt(claim_status[v][c]) ELSE 0], Claimant)
               = Received(claim_status[v])
  <2>1. \A f, S : SumOver(f, S) = SumOf(f, S)
    BY DEF SumOver, SumOf
  <2>2. QED
    BY <1>1, <2>1 DEF Received
<1>3. QED
  BY <1>2 DEF LedgerAgrees, Balanced, Agrees

LEMMA BalancedStep ==
    ASSUME TypeOK, UnusedIsEmpty, FlagsMatch, Balanced, [Next]_vars, TypeOK'
    PROVE  Balanced'
<1> SUFFICES ASSUME NEW w \in Version, IsFirst(w)'
             PROVE  Agrees(claim_status'[w], distributor'[w])
  BY DEF Balanced, Agrees
<1> DEFINE st == claim_status[w]
           tt == claim_status'[w]
           d == distributor[w]
           e == distributor'[w]
<1>1. /\ st \in [Claimant -> ClaimStatus \cup {NoAccount}]
      /\ tt \in [Claimant -> ClaimStatus \cup {NoAccount}]
      /\ e.total_amount_claimed \in Nat
  <2>1. e \in MerkleDistributor
    BY DEF TypeOK, IsFirst, IsLive
  <2>2. QED
    BY <2>1, U64IsNat DEF TypeOK, MerkleDistributor
<1>2. CASE (~\E c \in Claimant : HasClaimed(w, c)') /\ e.total_amount_claimed = 0
  <2>1. \A c \in Claimant : Receipts(tt)[c] = 0
    BY <1>2 DEF Receipts, HasClaimed
  <2>2. Received(tt) = 0
    BY <1>1, <2>1, ReceiptsType, AccountsAssumption, SumOfZeros DEF Received
  <2>3. QED
    BY <1>2, <2>2 DEF Agrees
<1>3. CASE IsFirst(w) /\ LedgerStep(w) /\ SameTerms(d, e)
  <2>1. /\ Agrees(st, d) /\ e.closable = d.closable
        /\ d.total_amount_claimed \in Nat
    BY <1>3, LiveType, U64IsNat DEF Balanced, SameTerms, IsFirst, MerkleDistributor
  <2>2. ASSUME NEW c \in Claimant, NEW s \in ClaimStatus \cup {NoAccount},
               WritesStatus(w, c, s)
        PROVE  /\ Received(st) \in Nat /\ Received(tt) \in Nat
               /\ Receipts(st)[c] \in Nat /\ Receipts(tt)[c] \in Nat
               /\ Received(tt) + Receipts(st)[c] = Received(st) + Receipts(tt)[c]
               /\ tt[c] = s
    BY <1>1, <2>2, StatusAfter, OneReceiptChanges
  <2>3. ASSUME NEW c \in Claimant, NEW amount \in Nat, NEW s \in ClaimStatus,
               WritesStatus(w, c, s),
               e.total_amount_claimed = d.total_amount_claimed + amount,
               Receipt(s) = Receipts(st)[c] + amount
        PROVE  Agrees(tt, e)
    <3>1. Receipts(tt)[c] = Receipt(s)
      BY <2>2, <2>3, NoAccountAssumption DEF Receipts
    <3>2. /\ Received(st) \in Nat /\ Received(tt) \in Nat /\ Receipts(st)[c] \in Nat
          /\ Received(tt) + Receipts(st)[c] = Received(st) + (Receipts(st)[c] + amount)
      BY <2>2, <2>3, <3>1
    <3>3. Received(tt) = Received(st) + amount
      BY <3>2, SMT
    <3>4. QED
      BY <2>1, <2>3, <3>2, <3>3, SMT DEF Agrees
  <2>4. ASSUME NEW c \in Claimant, ClaimsLeaf(w, c)
        PROVE  Agrees(tt, e)
    <3>1. PICK leaf \in Leaf, bonus \in Nat :
            /\ ~HasClaimed(w, c) /\ leaf.unlocked + bonus \in U64
            /\ WritesStatus(w, c, NewStatus(d, leaf, leaf.unlocked + bonus))
            /\ CountsMore(w, leaf.unlocked + bonus, bonus, 1)
      BY <2>4 DEF ClaimsLeaf
    <3> DEFINE amount == leaf.unlocked + bonus
               s == NewStatus(d, leaf, amount)
    <3>2. d \in MerkleDistributor
      BY <1>3, LiveType DEF IsFirst
    <3>3. s \in ClaimStatus
      BY <3>1, <3>2, U64IsNat DEF NewStatus, ClaimStatus, Leaf, MerkleDistributor
    <3>4. amount \in Nat
      BY <3>1, U64IsNat
    <3>5. s.unlocked_amount = amount /\ s.locked_amount_withdrawn = 0
      BY DEF NewStatus
    <3> HIDE DEF amount, s
    <3>6. Receipt(s) = amount
      BY <3>4, <3>5, SMT DEF Receipt
    <3>7. Receipts(st)[c] = 0
      BY <3>1 DEF Receipts, HasClaimed
    <3>8. Receipt(s) = Receipts(st)[c] + amount
      BY <3>4, <3>6, <3>7, SMT
    <3>9. WritesStatus(w, c, s)
          /\ e.total_amount_claimed = d.total_amount_claimed + amount
      BY <3>1 DEF amount, s, CountsMore
    <3>10. QED
      BY <2>3, <3>3, <3>4, <3>8, <3>9
  <2>5. ASSUME NEW c \in Claimant, Withdraws(w, c)
        PROVE  Agrees(tt, e)
    <3>1. PICK amount \in U64 :
            /\ HasClaimed(w, c) /\ RecordWithdrawal(st[c], amount) \in ClaimStatus
            /\ WritesStatus(w, c, RecordWithdrawal(st[c], amount))
            /\ e.total_amount_claimed = d.total_amount_claimed + amount
      BY <2>5 DEF Withdraws, CountsMore
    <3> DEFINE s == RecordWithdrawal(st[c], amount)
    <3>2. st[c] \in ClaimStatus /\ st[c] # NoAccount
      BY <3>1, ClaimedType DEF HasClaimed
    <3>3. /\ s.unlocked_amount = st[c].unlocked_amount
          /\ s.locked_amount_withdrawn = st[c].locked_amount_withdrawn + amount
      BY <3>2 DEF RecordWithdrawal, ClaimStatus
    <3> HIDE DEF s
    <3>4. /\ st[c].unlocked_amount \in Nat /\ st[c].locked_amount_withdrawn \in Nat
          /\ amount \in Nat
      BY <3>2, U64IsNat DEF ClaimStatus
    <3>5. Receipts(st)[c] = Receipt(st[c])
      BY <3>2 DEF Receipts
    <3>6. Receipt(s) = Receipts(st)[c] + amount
      BY <3>3, <3>4, <3>5, SMT DEF Receipt
    <3>7. s \in ClaimStatus /\ WritesStatus(w, c, s)
      BY <3>1 DEF s
    <3>8. QED
      BY <2>3, <3>1, <3>4, <3>6, <3>7
  <2>6. ASSUME NEW c \in Claimant, StatusClosed(w, c)
        PROVE  Agrees(tt, e)
    <3>1. /\ HasClaimed(w, c) /\ st[c].closable /\ WritesStatus(w, c, NoAccount)
          /\ e.total_amount_claimed = d.total_amount_claimed + 0
      BY <2>6 DEF StatusClosed, CountsMore
    <3>2. d.closable
      BY <1>3, <3>1 DEF FlagsMatch
    <3>3. Receipts(tt)[c] = 0
      BY <2>2, <3>1 DEF Receipts
    <3>4. /\ Received(st) \in Nat /\ Received(tt) \in Nat /\ Receipts(st)[c] \in Nat
          /\ Received(tt) + Receipts(st)[c] = Received(st) + 0
      BY <2>2, <3>1, <3>3
    <3>5. Received(st) <= d.total_amount_claimed
      BY <2>1, <3>2 DEF Agrees
    <3>6. Received(tt) <= e.total_amount_claimed
      BY <1>1, <2>1, <3>1, <3>4, <3>5, SMT
    <3>7. QED
      BY <2>1, <3>2, <3>6 DEF Agrees
  <2>7. CASE tt = st /\ CountsMore(w, 0, 0, 0)
    <3>1. e.total_amount_claimed = d.total_amount_claimed
      BY <2>1, <2>7, SMT DEF CountsMore
    <3>2. QED
      BY <2>1, <2>7, <3>1 DEF Agrees
  <2>8. QED
    BY <1>3, <2>4, <2>5, <2>6, <2>7 DEF LedgerStep
<1>4. QED
  BY <1>2, <1>3, FirstLifeStep DEF Created

--------------------------------------------------------------------------------
(* Every holder took a leaf of its own *)

LEMMA SumOverIsSumOf == \A f, S : SumOver(f, S) = SumOf(f, S)
  BY DEF SumOver, SumOf

LEMMA LeavesType ==
    ASSUME NEW d \in MerkleDistributor
    PROVE  /\ Leaves[d.root] \subseteq Leaf /\ IsFiniteSet(Leaves[d.root])
           /\ \A leaf \in Leaves[d.root] : /\ leaf.claimant \in Claimant
                                           /\ leaf.unlocked \in Nat /\ leaf.locked \in Nat
                                           /\ leaf.unlocked \in U64
<1>1. d.root \in Root
  BY DEF MerkleDistributor
<1>2. Leaves[d.root] \subseteq Leaf /\ IsFiniteSet(Leaves[d.root])
  BY <1>1, InputsAssumption
<1>3. QED
  BY <1>2, U64IsNat DEF Leaf

LEMMA WithoutBonusType ==
    ASSUME NEW st \in [Claimant -> ClaimStatus \cup {NoAccount}],
           NEW d \in MerkleDistributor, NEW taken \in [HoldersIn(st) -> Leaves[d.root]]
    PROVE  WithoutBonus(st, taken) \in [Claimant -> Nat]
<1> SUFFICES ASSUME NEW c \in Claimant, st[c] # NoAccount
             PROVE  taken[c].unlocked + st[c].locked_amount_withdrawn \in Nat
  BY DEF WithoutBonus
<1>1. taken[c].unlocked \in Nat /\ st[c].locked_amount_withdrawn \in Nat
  BY LeavesType, U64IsNat DEF HoldersIn, ClaimStatus
<1>2. QED
  BY <1>1, SMT

(* One claimant gets amount more beside its bonus.                         *)
LEMMA OneTakesMore ==
    ASSUME NEW st \in [Claimant -> ClaimStatus \cup {NoAccount}],
           NEW tt \in [Claimant -> ClaimStatus \cup {NoAccount}],
           NEW d \in MerkleDistributor, NEW e \in MerkleDistributor,
           NEW taken \in [HoldersIn(st) -> Leaves[d.root]],
           NEW took \in [HoldersIn(tt) -> Leaves[e.root]],
           NEW c \in Claimant, NEW amount \in Nat, NEW bonus \in Nat,
           \A k \in Claimant : k # c =>
               tt[k] = st[k] /\ (st[k] # NoAccount => took[k] = taken[k]),
           WithoutBonus(tt, took)[c] = WithoutBonus(st, taken)[c] + amount,
           e.total_amount_claimed = d.total_amount_claimed + (amount + bonus),
           e.total_claimed_bonus = d.total_claimed_bonus + bonus,
           d.total_amount_claimed
             = d.total_claimed_bonus + SumOver(WithoutBonus(st, taken), Claimant)
    PROVE  e.total_amount_claimed
             = e.total_claimed_bonus + SumOver(WithoutBonus(tt, took), Claimant)
<1> DEFINE g == WithoutBonus(st, taken)
           h == WithoutBonus(tt, took)
<1>1. g \in [Claimant -> Nat] /\ h \in [Claimant -> Nat] /\ IsFiniteSet(Claimant)
  BY WithoutBonusType, AccountsAssumption
<1>2. \A k \in Claimant \ {c} : g[k] = h[k]
  BY DEF WithoutBonus
<1>3. h[c] = g[c] + amount
  OBVIOUS
<1>4. /\ d.total_amount_claimed \in Nat /\ d.total_claimed_bonus \in Nat
      /\ e.total_amount_claimed \in Nat /\ e.total_claimed_bonus \in Nat
  BY U64IsNat DEF MerkleDistributor
<1>5. d.total_amount_claimed = d.total_claimed_bonus + SumOf(g, Claimant)
  BY SumOverIsSumOf
<1> HIDE DEF g, h
<1>6. /\ SumOf(g, Claimant) \in Nat /\ SumOf(h, Claimant) \in Nat
      /\ SumOf(h, Claimant) + g[c] = SumOf(g, Claimant) + h[c]
      /\ g[c] \in Nat
  BY <1>1, <1>2, SumChange
<1>7. e.total_amount_claimed = e.total_claimed_bonus + SumOf(h, Claimant)
  BY <1>3, <1>4, <1>5, <1>6, SMT
<1>8. QED
  BY <1>7, SumOverIsSumOf DEF h

LEMMA TakenStep ==
    ASSUME TypeOK, UnusedIsEmpty, FlagsMatch, LeavesTaken, [Next]_vars, TypeOK'
    PROVE  LeavesTaken'
<1> SUFFICES ASSUME NEW w \in Version, IsFirst(w)', ~distributor'[w].closable
             PROVE  /\ distributor'[w].num_nodes_claimed
                         = Cardinality(HoldersIn(claim_status'[w]))
                    /\ \E took \in [HoldersIn(claim_status'[w])
                                      -> Leaves[distributor'[w].root]] :
                         TookLeaves(claim_status'[w], distributor'[w], took)
  BY DEF LeavesTaken, HoldersIn, TookLeaves, WithoutBonus
<1> DEFINE st == claim_status[w]
           tt == claim_status'[w]
           d == distributor[w]
           e == distributor'[w]
<1>1. /\ st \in [Claimant -> ClaimStatus \cup {NoAccount}]
      /\ tt \in [Claimant -> ClaimStatus \cup {NoAccount}]
      /\ e \in MerkleDistributor
  BY DEF TypeOK, IsFirst, IsLive
<1>2. CASE (~\E c \in Claimant : HasClaimed(w, c)') /\ Created(w)
  <2> DEFINE took == [c \in {} |-> CHOOSE leaf \in Leaf : TRUE]
  <2>1. HoldersIn(tt) = {} /\ \A c \in Claimant : tt[c] = NoAccount
    BY <1>2 DEF HoldersIn, HasClaimed
  <2>2. e.num_nodes_claimed = Cardinality(HoldersIn(tt))
    BY <1>2, <2>1, FS_EmptySet DEF Created
  <2>3. took \in [HoldersIn(tt) -> Leaves[e.root]]
    BY <2>1
  <2>4. \A c \in Claimant : WithoutBonus(tt, took)[c] = 0
    BY <2>1 DEF WithoutBonus
  <2> HIDE DEF took
  <2>5. SumOf(WithoutBonus(tt, took), Claimant) = 0
    BY <1>1, <2>3, <2>4, WithoutBonusType, AccountsAssumption, SumOfZeros
  <2>6. e.total_amount_claimed = e.total_claimed_bonus
                                   + SumOver(WithoutBonus(tt, took), Claimant)
    BY <1>2, <2>5, SumOverIsSumOf DEF Created
  <2>7. QED
    BY <2>1, <2>2, <2>3, <2>6 DEF TookLeaves
<1>3. CASE IsFirst(w) /\ LedgerStep(w) /\ SameTerms(d, e)
  <2>1. /\ d \in MerkleDistributor /\ ~d.closable /\ e.root = d.root
        /\ d.num_nodes_claimed = Cardinality(HoldersIn(st))
    BY <1>3, LiveType DEF LeavesTaken, SameTerms, IsFirst
  <2>2. PICK taken \in [HoldersIn(st) -> Leaves[d.root]] : TookLeaves(st, d, taken)
    BY <1>3, <2>1 DEF LeavesTaken
  <2>3. IsFiniteSet(HoldersIn(st)) /\ d.num_nodes_claimed \in Nat
    BY <2>1, FS_Subset, AccountsAssumption, U64IsNat DEF HoldersIn, MerkleDistributor
  <2>4. ASSUME NEW c \in Claimant, ClaimsLeaf(w, c)
        PROVE  /\ e.num_nodes_claimed = Cardinality(HoldersIn(tt))
               /\ \E took \in [HoldersIn(tt) -> Leaves[e.root]] : TookLeaves(tt, e, took)
    <3>1. PICK leaf \in Leaves[d.root], bonus \in Nat :
            /\ ~HasClaimed(w, c) /\ leaf.claimant = c /\ leaf \in Leaf
            /\ leaf.unlocked + bonus \in U64
            /\ WritesStatus(w, c, NewStatus(d, leaf, leaf.unlocked + bonus))
            /\ CountsMore(w, leaf.unlocked + bonus, bonus, 1)
      BY <2>4 DEF ClaimsLeaf
    <3> DEFINE s == NewStatus(d, leaf, leaf.unlocked + bonus)
               took == [k \in HoldersIn(tt) |-> IF k = c THEN leaf ELSE taken[k]]
    <3>2. \A k \in Claimant : tt[k] = IF k = c THEN s ELSE st[k]
      BY <3>1, StatusAfter
    <3>3. s # NoAccount
      <4>1. s \in ClaimStatus
        BY <2>1, <3>1, U64IsNat DEF NewStatus, ClaimStatus, Leaf, MerkleDistributor
      <4>2. QED
        BY <4>1, NoAccountAssumption
    <3>4. /\ s.locked_amount = leaf.locked /\ s.locked_amount_withdrawn = 0
      BY DEF NewStatus
    <3> HIDE DEF s
    <3>5. HoldersIn(tt) = HoldersIn(st) \cup {c} /\ c \notin HoldersIn(st)
      BY <3>1, <3>2, <3>3 DEF HoldersIn, HasClaimed
    <3>6. e.num_nodes_claimed = Cardinality(HoldersIn(tt))
      <4>1. e.num_nodes_claimed = d.num_nodes_claimed + 1
        BY <3>1 DEF CountsMore
      <4>2. Cardinality(HoldersIn(tt)) = Cardinality(HoldersIn(st)) + 1
        BY <2>3, <3>5, FS_AddElement
      <4>3. QED
        BY <2>1, <4>1, <4>2
    <3>7. took \in [HoldersIn(tt) -> Leaves[e.root]]
      BY <2>1, <2>2, <3>1, <3>5
    <3>8. \A k \in HoldersIn(tt) : /\ took[k].claimant = k
                                   /\ took[k].locked = tt[k].locked_amount
      <4>1. took[c] = leaf /\ tt[c] = s
        BY <3>2, <3>5
      <4>2. ASSUME NEW k \in HoldersIn(tt), k # c
            PROVE  took[k] = taken[k] /\ tt[k] = st[k] /\ k \in HoldersIn(st)
        BY <3>2, <3>5, <4>2 DEF HoldersIn
      <4> HIDE DEF took
      <4>3. ASSUME NEW k \in HoldersIn(tt)
            PROVE  took[k].claimant = k /\ took[k].locked = tt[k].locked_amount
        <5>1. CASE k = c
          BY <3>1, <3>4, <4>1, <5>1
        <5>2. CASE k # c
          BY <2>2, <4>2, <5>2 DEF TookLeaves
        <5>3. QED
          BY <5>1, <5>2
      <4>4. QED
        BY <4>3
    <3>9. leaf.unlocked \in Nat
      BY <2>1, LeavesType
    <3>10. WithoutBonus(tt, took)[c] = WithoutBonus(st, taken)[c] + leaf.unlocked
      <4>1. WithoutBonus(st, taken)[c] = 0
        BY <3>1 DEF WithoutBonus, HasClaimed
      <4>2. WithoutBonus(tt, took)[c] = leaf.unlocked + 0
        BY <3>2, <3>3, <3>4, <3>5 DEF WithoutBonus
      <4>3. QED
        BY <3>9, <4>1, <4>2, SMT
    <3>11. \A k \in Claimant : k # c =>
              tt[k] = st[k] /\ (st[k] # NoAccount => took[k] = taken[k])
      BY <3>2 DEF HoldersIn
    <3> HIDE DEF took
    <3>12. e.total_amount_claimed
             = e.total_claimed_bonus + SumOver(WithoutBonus(tt, took), Claimant)
      <4> DEFINE amount == leaf.unlocked
      <4>1. /\ e.total_amount_claimed = d.total_amount_claimed + (amount + bonus)
            /\ e.total_claimed_bonus = d.total_claimed_bonus + bonus
        BY <3>1 DEF CountsMore
      <4>2. d.total_amount_claimed
              = d.total_claimed_bonus + SumOver(WithoutBonus(st, taken), Claimant)
        BY <2>2 DEF TookLeaves
      <4>3. /\ amount \in Nat
            /\ WithoutBonus(tt, took)[c] = WithoutBonus(st, taken)[c] + amount
        BY <3>9, <3>10
      <4>4. /\ st \in [Claimant -> ClaimStatus \cup {NoAccount}]
            /\ tt \in [Claimant -> ClaimStatus \cup {NoAccount}]
            /\ e \in MerkleDistributor /\ d \in MerkleDistributor
            /\ taken \in [HoldersIn(st) -> Leaves[d.root]]
            /\ bonus \in Nat
        BY <1>1, <2>1, <2>2, <3>1
      <4> HIDE DEF st, tt, d, e, amount
      <4>5. QED
        BY <3>7, <3>11, <4>1, <4>2, <4>3, <4>4, OneTakesMore
    <3>13. QED
      BY <3>6, <3>7, <3>8, <3>12 DEF TookLeaves
  <2>5. ASSUME NEW c \in Claimant, Withdraws(w, c)
        PROVE  /\ e.num_nodes_claimed = Cardinality(HoldersIn(tt))
               /\ \E took \in [HoldersIn(tt) -> Leaves[e.root]] : TookLeaves(tt, e, took)
    <3>1. PICK amount \in U64 :
            /\ HasClaimed(w, c) /\ RecordWithdrawal(st[c], amount) \in ClaimStatus
            /\ WritesStatus(w, c, RecordWithdrawal(st[c], amount))
            /\ CountsMore(w, amount, 0, 0)
      BY <2>5 DEF Withdraws
    <3> DEFINE s == RecordWithdrawal(st[c], amount)
    <3>2. \A k \in Claimant : tt[k] = IF k = c THEN s ELSE st[k]
      BY <3>1, StatusAfter
    <3>3. s # NoAccount
      BY <3>1, NoAccountAssumption
    <3>4. /\ s.locked_amount = st[c].locked_amount
          /\ s.locked_amount_withdrawn = st[c].locked_amount_withdrawn + amount
          /\ st[c].locked_amount_withdrawn \in Nat /\ amount \in Nat
      BY <3>1, ClaimedType, U64IsNat DEF RecordWithdrawal, ClaimStatus
    <3> HIDE DEF s
    <3>5. HoldersIn(tt) = HoldersIn(st) /\ c \in HoldersIn(st)
      BY <3>1, <3>2, <3>3 DEF HoldersIn, HasClaimed
    <3>6. e.num_nodes_claimed = Cardinality(HoldersIn(tt))
      BY <2>1, <2>3, <3>1, <3>5, SMT DEF CountsMore
    <3>7. \A k \in HoldersIn(tt) : /\ taken[k].claimant = k
                                   /\ taken[k].locked = tt[k].locked_amount
      <4>1. ASSUME NEW k \in HoldersIn(tt)
            PROVE  tt[k].locked_amount = st[k].locked_amount
        <5>1. CASE k = c
          BY <3>2, <3>4, <5>1 DEF HoldersIn
        <5>2. CASE k # c
          BY <3>2, <5>2 DEF HoldersIn
        <5>3. QED
          BY <5>1, <5>2
      <4>2. QED
        BY <2>2, <3>5, <4>1 DEF TookLeaves
    <3>8. WithoutBonus(tt, taken)[c] = WithoutBonus(st, taken)[c] + amount
      <4>1. /\ WithoutBonus(st, taken)[c] = taken[c].unlocked + st[c].locked_amount_withdrawn
            /\ WithoutBonus(tt, taken)[c]
                 = taken[c].unlocked + (st[c].locked_amount_withdrawn + amount)
        BY <3>2, <3>3, <3>4, <3>5 DEF WithoutBonus, HoldersIn
      <4>2. taken[c].unlocked \in Nat
        BY <2>1, <2>2, <3>5, LeavesType
      <4>3. QED
        BY <3>4, <4>1, <4>2, SMT
    <3>9. /\ e.total_amount_claimed = d.total_amount_claimed + (amount + 0)
          /\ e.total_claimed_bonus = d.total_claimed_bonus + 0
      BY <3>1, <3>4, SMT DEF CountsMore
    <3>10. e.total_amount_claimed
             = e.total_claimed_bonus + SumOver(WithoutBonus(tt, taken), Claimant)
      BY <1>1, <2>1, <2>2, <3>2, <3>4, <3>5, <3>8, <3>9, OneTakesMore DEF TookLeaves
    <3>11. QED
      BY <2>1, <2>2, <3>5, <3>6, <3>7, <3>10 DEF TookLeaves
  <2>6. ASSUME NEW c \in Claimant, StatusClosed(w, c)
        PROVE  FALSE
    BY <1>3, <2>1, <2>6 DEF StatusClosed, FlagsMatch
  <2>7. CASE tt = st /\ CountsMore(w, 0, 0, 0)
    <3>1. /\ e.total_amount_claimed = d.total_amount_claimed
          /\ e.total_claimed_bonus = d.total_claimed_bonus
          /\ e.num_nodes_claimed = d.num_nodes_claimed
      <4>1. CountersAreNat(w)
        BY <1>3, CountersType DEF IsFirst
      <4>2. QED
        BY <2>7, <4>1, SMT DEF CountsMore, CountersAreNat
    <3>2. QED
      BY <2>1, <2>2, <2>7, <3>1 DEF TookLeaves
  <2>8. QED
    BY <1>3, <2>4, <2>5, <2>6, <2>7 DEF LedgerStep
<1>4. QED
  BY <1>2, <1>3, FirstLifeStep

--------------------------------------------------------------------------------
(* What is left for the others in a funded distributor *)

(* The bonus of a claim is computed without error when the pool is shared  *)
(* over a positive amount and the schedule of the bonus ends within u64.   *)
LEMMA BonusIsOk ==
    ASSUME NEW d \in MerkleDistributor, NEW unlocked \in U64,
           d.total_bonus < d.max_total_claim, curr_point(d) \in Nat,
           checked_add(d.vesting_duration, d.activation_point) # Err
    PROVE  /\ BonusNow(d, unlocked) \in U64
           /\ IsOk(BonusNow(d, unlocked))
           /\ (d.max_total_claim - d.total_bonus) * BonusNow(d, unlocked)
                <= unlocked * d.total_bonus
<1> DEFINE max == get_max_bonus_for_a_claimant(unlocked, d.max_total_claim, d.total_bonus)
           base == d.max_total_claim - d.total_bonus
           bonus == BonusNow(d, unlocked)
<1>1. /\ d.max_total_claim \in U64 /\ d.total_bonus \in U64
      /\ d.vesting_duration \in U64 /\ d.activation_point \in U64
  BY DEF MerkleDistributor
<1>2. IsOk(max)
  <2>1. /\ d.max_total_claim \in Nat /\ d.total_bonus \in Nat /\ unlocked \in Nat
    BY <1>1, U64IsNat
  <2>2. /\ checked_sub(d.max_total_claim, d.total_bonus) = base
        /\ base \in Nat \ {0} /\ unlocked * d.total_bonus \in Nat
    BY <2>1, SMT DEF checked_sub
  <2> HIDE DEF base
  <2>3. (unlocked * d.total_bonus) \div base \in Nat
    BY <2>2, DivFloor
  <2>4. as_u64((unlocked * d.total_bonus) \div base) \in Nat
    BY <2>3, CastShrinks, U64IsNat
  <2>5. base \notin {Err, 0}
    BY <2>2, SMT DEF Err
  <2>6. max = as_u64((unlocked * d.total_bonus) \div base)
    BY <2>2, <2>5 DEF get_max_bonus_for_a_claimant
  <2> HIDE DEF max
  <2>7. max \in Nat
    BY <2>4, <2>6
  <2>8. QED
    BY <2>7, SMT DEF IsOk, Err
<1>3. max \in U64 /\ base \in Nat \ {0} /\ base * max <= unlocked * d.total_bonus
  BY <1>1, <1>2, MaxBonusIsShare
<1>4. bonus = vested_bonus(max, curr_point(d), d.activation_point, d.vesting_duration)
  BY DEF BonusNow
<1> DEFINE elapsed == curr_point(d) - d.activation_point
<1>5. ASSUME curr_point(d) >= d.activation_point,
             ~(curr_point(d) >= d.activation_point + d.vesting_duration)
      PROVE  elapsed \in Nat /\ d.vesting_duration \in Nat \ {0}
             /\ elapsed <= d.vesting_duration
  <2>1. d.vesting_duration \in Nat /\ d.activation_point \in Nat
    BY <1>1, U64IsNat
  <2>2. QED
    BY <1>5, <2>1, SMT
<1>6. IsOk(bonus)
  <2>1. \A n \in U64 : n # Err
    BY U64IsNat, SMT DEF Err
  <2>2. 0 \in U64
    BY U64IsNat
  <2>3. CASE /\ curr_point(d) >= d.activation_point
             /\ ~(curr_point(d) >= d.activation_point + d.vesting_duration)
    <3>1. LinearRelease(max, elapsed, d.vesting_duration) \in U64
      BY <1>3, <1>5, <2>3, ReleaseNeverTruncates
    <3>2. ~(curr_point(d) < d.activation_point)
      <4>1. d.activation_point \in Nat
        BY <1>1, U64IsNat
      <4>2. QED
        BY <2>3, <4>1, SMT
    <3>3. max # Err
      BY <1>3, <2>1
    <3> HIDE DEF max
    <3>4. bonus = LinearRelease(max, elapsed, d.vesting_duration)
      BY <1>4, <2>3, <3>2, <3>3 DEF vested_bonus
    <3>5. QED
      BY <2>1, <3>1, <3>4 DEF IsOk
  <2>4. CASE curr_point(d) >= d.activation_point + d.vesting_duration
    <3>1. ~(curr_point(d) < d.activation_point)
      <4>1. d.activation_point \in Nat /\ d.vesting_duration \in Nat
        BY <1>1, U64IsNat
      <4>2. QED
        BY <2>4, <4>1, SMT
    <3>2. max # Err
      BY <1>3, <2>1
    <3> HIDE DEF max
    <3>3. bonus = max
      BY <1>4, <2>4, <3>1, <3>2 DEF vested_bonus
    <3>4. QED
      BY <3>2, <3>3 DEF IsOk
  <2>5. CASE curr_point(d) < d.activation_point
    <3>1. max # Err
      BY <1>3, <2>1
    <3> HIDE DEF max
    <3>2. bonus = 0
      BY <1>4, <2>5, <3>1 DEF vested_bonus
    <3>3. QED
      BY <2>1, <2>2, <3>2 DEF IsOk
  <2>6. QED
    <3>1. d.activation_point \in Nat
      BY <1>1, U64IsNat
    <3>2. curr_point(d) >= d.activation_point \/ curr_point(d) < d.activation_point
      BY <3>1, SMT
    <3>3. QED
      BY <2>3, <2>4, <2>5, <3>2
<1>7. bonus \in U64 /\ bonus <= max
  BY <1>1, <1>3, <1>4, <1>6, VestedBonusBounded
<1>8. base * bonus <= unlocked * d.total_bonus
  <2>1. bonus \in Nat /\ max \in Nat /\ unlocked \in Nat /\ d.total_bonus \in Nat
    BY <1>1, <1>3, <1>7, U64IsNat
  <2> HIDE DEF base, bonus, max
  <2>2. base * bonus <= base * max /\ base * bonus \in Nat /\ base * max \in Nat
    BY <1>3, <1>7, <2>1, TimesMonotone
  <2>3. unlocked * d.total_bonus \in Nat
    BY <2>1, SMT
  <2>4. QED
    BY <1>3, <2>2, <2>3, SMT
<1>9. QED
  BY <1>6, <1>7, <1>8

LEMMA CancelFactor ==
    ASSUME NEW base \in Nat \ {0}, NEW a \in Nat, NEW b \in Nat, base * a <= base * b
    PROVE  a <= b
<1>1. SUFFICES ASSUME b + 1 <= a
               PROVE  FALSE
  BY SMT
<1>2. base * (b + 1) <= base * a /\ base * (b + 1) = base * b + base
  <2>1. b + 1 \in Nat
    BY SMT
  <2>2. base * (b + 1) <= base * a
    BY <1>1, <2>1, TimesMonotone
  <2>3. base * (b + 1) = base * b + base
    BY SMT
  <2>4. QED
    BY <2>2, <2>3
<1>3. base * a \in Nat /\ base * b \in Nat
  BY SMT
<1>4. QED
  BY <1>2, <1>3, SMT

(* Claimants with a leaf each that got at most what their leaf gives: they *)
(* got at most what the tree gives, and are not more than its leaves.      *)
LEMMA HoldersFit ==
    ASSUME NEW L \in SUBSET Leaf, IsFiniteSet(L), NEW D \in SUBSET Claimant,
           NEW f \in [D -> L], \A c \in D : f[c].claimant = c,
           NEW g \in [Claimant -> Nat], \A c \in D : g[c] <= LeafTotal(f[c]),
           \A c \in Claimant \ D : g[c] = 0
    PROVE  /\ SumOf(g, Claimant) <= TreeTotal(L) /\ TreeTotal(L) \in Nat
           /\ Cardinality(D) <= Cardinality(L)
           /\ Cardinality(D) \in Nat /\ Cardinality(L) \in Nat
<1> DEFINE w == [leaf \in L |-> LeafTotal(leaf)]
<1>1. w \in [L -> Nat]
  <2> SUFFICES ASSUME NEW leaf \in L
               PROVE  LeafTotal(leaf) \in Nat
    OBVIOUS
  <2>1. leaf.unlocked \in Nat /\ leaf.locked \in Nat
    BY U64IsNat DEF Leaf
  <2>2. QED
    BY <2>1, SMT DEF LeafTotal
<1>2. IsFiniteSet(Claimant) /\ IsFiniteSet(D)
  BY AccountsAssumption, FS_Subset
<1>3. TreeTotal(L) = SumOf(w, L)
  BY SumOverIsSumOf DEF TreeTotal
<1>4. \A x, y \in D : f[x] = f[y] => x = y
  <2>1. ASSUME NEW x \in D, NEW y \in D, f[x] = f[y]
        PROVE  x = y
    <3>1. f[x].claimant = x /\ f[y].claimant = y
      OBVIOUS
    <3>2. QED
      BY <2>1, <3>1
  <2>2. QED
    BY <2>1
<1>5. \A x \in D : g[x] <= w[f[x]]
  OBVIOUS
<1>6. f \in Injection(D, L)
  BY <1>4 DEF Injection, IsInjective
<1>7. Cardinality(D) <= Cardinality(L)
  BY <1>6, FS_Injection
<1>8. Cardinality(D) \in Nat /\ Cardinality(L) \in Nat
  BY <1>2, FS_CardinalityType
<1>9. SumOf(w, L) \in Nat
  <2>1. L \in SUBSET L
    OBVIOUS
  <2> HIDE DEF w
  <2>2. QED
    BY <1>1, <2>1, SumStep
<1> HIDE DEF w
<1>10. SumOf(g, Claimant) <= SumOf(w, L)
  BY <1>1, <1>2, <1>4, <1>5, SumInjects
<1>11. QED
  BY <1>3, <1>7, <1>8, <1>9, <1>10

(* The state of a distributor and its statuses that the lemmas speak of.   *)
Took(st, d, taken) ==
    /\ st \in [Claimant -> ClaimStatus \cup {NoAccount}]
    /\ d \in MerkleDistributor
    /\ taken \in [HoldersIn(st) -> Leaves[d.root]]
    /\ TookLeaves(st, d, taken)
    /\ \A c \in HoldersIn(st) : st[c].locked_amount_withdrawn <= st[c].locked_amount

LEMMA TookWithinLeaf ==
    ASSUME NEW st, NEW d, NEW taken, Took(st, d, taken)
    PROVE  \A c \in HoldersIn(st) :
             /\ taken[c] \in Leaf /\ taken[c].unlocked \in Nat /\ taken[c].locked \in Nat
             /\ st[c].locked_amount_withdrawn \in Nat
             /\ WithoutBonus(st, taken)[c]
                  = taken[c].unlocked + st[c].locked_amount_withdrawn
             /\ WithoutBonus(st, taken)[c] <= LeafTotal(taken[c])
<1> SUFFICES ASSUME NEW c \in HoldersIn(st)
             PROVE  /\ taken[c] \in Leaf /\ taken[c].unlocked \in Nat
                    /\ taken[c].locked \in Nat
                    /\ st[c].locked_amount_withdrawn \in Nat
                    /\ WithoutBonus(st, taken)[c]
                         = taken[c].unlocked + st[c].locked_amount_withdrawn
                    /\ WithoutBonus(st, taken)[c] <= LeafTotal(taken[c])
  OBVIOUS
<1>1. d \in MerkleDistributor /\ taken[c] \in Leaves[d.root]
  BY DEF Took
<1>2. taken[c] \in Leaf /\ taken[c].unlocked \in Nat /\ taken[c].locked \in Nat
  BY <1>1, LeavesType
<1>3. st[c].locked_amount_withdrawn \in Nat
  BY U64IsNat DEF Took, HoldersIn, ClaimStatus
<1>4. WithoutBonus(st, taken)[c] = taken[c].unlocked + st[c].locked_amount_withdrawn
  BY DEF WithoutBonus, HoldersIn
<1>5. st[c].locked_amount_withdrawn <= taken[c].locked
  BY DEF Took, TookLeaves
<1>6. taken[c].unlocked + st[c].locked_amount_withdrawn <= LeafTotal(taken[c])
  BY <1>2, <1>3, <1>5, SMT DEF LeafTotal
<1>7. QED
  BY <1>2, <1>3, <1>4, <1>6

(* If one claimant, with a leaf of its own, may get amount more within it, *)
(* so may all within the tree.                                             *)
LEMMA RoomForOne ==
    ASSUME NEW st, NEW d, NEW taken, Took(st, d, taken),
           NEW D \in SUBSET Claimant, NEW f \in [D -> Leaves[d.root]],
           NEW c \in D, D = HoldersIn(st) \cup {c}, f[c].claimant = c,
           \A k \in HoldersIn(st) : k # c => f[k] = taken[k],
           NEW amount \in Nat,
           WithoutBonus(st, taken)[c] + amount <= LeafTotal(f[c])
    PROVE  /\ d.total_claimed_bonus <= d.total_amount_claimed
           /\ (d.total_amount_claimed - d.total_claimed_bonus) + amount
                <= TreeTotal(Leaves[d.root])
           /\ TreeTotal(Leaves[d.root]) \in Nat
           /\ Cardinality(D) <= Cardinality(Leaves[d.root])
           /\ Cardinality(Leaves[d.root]) \in Nat
<1> DEFINE g == WithoutBonus(st, taken)
           h == [k \in Claimant |-> IF k = c THEN g[c] + amount ELSE g[k]]
           L == Leaves[d.root]
<1>1. /\ d \in MerkleDistributor /\ g \in [Claimant -> Nat]
      /\ L \in SUBSET Leaf /\ IsFiniteSet(L) /\ IsFiniteSet(Claimant)
      /\ d.total_amount_claimed = d.total_claimed_bonus + SumOf(g, Claimant)
      /\ d.total_amount_claimed \in Nat /\ d.total_claimed_bonus \in Nat
  <2>1. d \in MerkleDistributor
    BY DEF Took
  <2>2. g \in [Claimant -> Nat]
    BY WithoutBonusType DEF Took
  <2>3. d.total_amount_claimed = d.total_claimed_bonus + SumOf(g, Claimant)
    BY SumOverIsSumOf DEF Took, TookLeaves
  <2>4. d.total_amount_claimed \in Nat /\ d.total_claimed_bonus \in Nat
    BY <2>1, U64IsNat DEF MerkleDistributor
  <2>5. L \in SUBSET Leaf /\ IsFiniteSet(L)
    BY <2>1, LeavesType
  <2>6. QED
    BY <2>1, <2>2, <2>3, <2>4, <2>5, AccountsAssumption
<1>2. \A k \in HoldersIn(st) : taken[k].claimant = k /\ g[k] <= LeafTotal(taken[k])
  BY TookWithinLeaf DEF Took, TookLeaves
<1>3. \A k \in Claimant \ HoldersIn(st) : g[k] = 0
  BY DEF WithoutBonus, HoldersIn
<1>4. \A k \in HoldersIn(st) \cup {c} : k \in Claimant
  BY DEF HoldersIn
<1> HIDE DEF g, L
<1>5. /\ h \in [Claimant -> Nat] /\ h[c] = g[c] + amount
      /\ \A k \in Claimant \ {c} : g[k] = h[k]
  <2>1. c \in Claimant /\ g[c] \in Nat
    BY <1>1
  <2>2. g[c] + amount \in Nat
    BY <2>1, SMT
  <2>3. QED
    BY <1>1, <2>1, <2>2
<1> HIDE DEF h
<1>6. \A k \in D : f[k].claimant = k
  <2>1. ASSUME NEW k \in D, k # c
        PROVE  f[k].claimant = k
    BY <1>2, <2>1
  <2>2. QED
    BY <2>1
<1>7. \A k \in D : h[k] <= LeafTotal(f[k])
  <2>1. ASSUME NEW k \in D, k # c
        PROVE  h[k] <= LeafTotal(f[k])
    BY <1>2, <1>5, <2>1
  <2>2. h[c] <= LeafTotal(f[c])
    BY <1>5 DEF g
  <2>3. QED
    BY <2>1, <2>2
<1>8. \A k \in Claimant \ D : h[k] = 0
  BY <1>3, <1>5
<1>9. /\ SumOf(h, Claimant) <= TreeTotal(L) /\ TreeTotal(L) \in Nat
      /\ Cardinality(D) <= Cardinality(L) /\ Cardinality(L) \in Nat
  BY <1>1, <1>5, <1>6, <1>7, <1>8, HoldersFit DEF L
<1>10. /\ SumOf(g, Claimant) \in Nat /\ SumOf(h, Claimant) \in Nat
       /\ SumOf(h, Claimant) + g[c] = SumOf(g, Claimant) + h[c]
       /\ g[c] \in Nat
  BY <1>1, <1>5, SumChange
<1>11. SumOf(g, Claimant) + amount <= TreeTotal(L)
  BY <1>5, <1>9, <1>10, SMT
<1>12. /\ d.total_claimed_bonus <= d.total_amount_claimed
       /\ d.total_amount_claimed - d.total_claimed_bonus = SumOf(g, Claimant)
  BY <1>1, <1>10, SMT
<1>13. QED
  BY <1>9, <1>11, <1>12 DEF L

(* A distributor that matches its tree, with holders that took leaves.     *)
Matches(st, d, taken) ==
    /\ Took(st, d, taken)
    /\ BonusShared(d)
    /\ d.max_total_claim = TreeTotal(Leaves[d.root]) + d.total_bonus
    /\ TreeTotal(Leaves[d.root]) > 0

(* What a claim adds to the counter fits under max_total_claim: what the   *)
(* leaves still give is kept apart from what is left of the bonus pool.    *)
LEMMA ClaimFits ==
    ASSUME NEW st, NEW d, NEW taken, Matches(st, d, taken),
           NEW unlocked \in Nat, NEW bonus \in Nat, TreeTotal(Leaves[d.root]) \in Nat,
           (d.total_amount_claimed - d.total_claimed_bonus) + unlocked
             <= TreeTotal(Leaves[d.root]),
           (d.max_total_claim - d.total_bonus) * bonus <= unlocked * d.total_bonus
    PROVE  d.total_amount_claimed + (unlocked + bonus) <= d.max_total_claim
<1> DEFINE base == TreeTotal(Leaves[d.root])
           pool == d.total_bonus
           claimed == d.total_amount_claimed
           claimed_bonus == d.total_claimed_bonus
           left == (claimed - claimed_bonus) + unlocked
<1>1. /\ claimed \in Nat /\ claimed_bonus \in Nat /\ pool \in Nat
      /\ d.max_total_claim \in Nat
  BY U64IsNat DEF Matches, Took, MerkleDistributor
<1>2. /\ d.max_total_claim = base + pool /\ base > 0 /\ base \in Nat
      /\ claimed_bonus <= claimed
      /\ (d.max_total_claim - pool) * claimed_bonus <= (claimed - claimed_bonus) * pool
      /\ left <= base
      /\ (d.max_total_claim - pool) * bonus <= unlocked * pool
  BY DEF Matches, BonusShared
<1> HIDE DEF base, pool, claimed, claimed_bonus
<1>3. d.max_total_claim - pool = base /\ left \in Nat
  BY <1>1, <1>2, SMT
<1>4. /\ base * claimed_bonus <= (claimed - claimed_bonus) * pool
      /\ base * bonus <= unlocked * pool
  BY <1>2, <1>3
<1>5. base * (claimed_bonus + bonus) <= ((claimed + (unlocked + bonus))
                                          - (claimed_bonus + bonus)) * pool
  BY <1>1, <1>2, <1>4, SharesAdd
<1>6. (claimed + (unlocked + bonus)) - (claimed_bonus + bonus) = left
  BY <1>1, SMT
<1> HIDE DEF left
<1>7. left * pool <= base * pool
  BY <1>1, <1>2, <1>3, TimesMonotone
<1>8. claimed_bonus + bonus <= pool
  <2>1. /\ left * pool \in Nat /\ base * pool \in Nat
        /\ base * (claimed_bonus + bonus) \in Nat /\ claimed_bonus + bonus \in Nat
    BY <1>1, <1>2, <1>3, SMT
  <2>2. base * (claimed_bonus + bonus) <= base * pool
    BY <1>5, <1>6, <1>7, <2>1, SMT
  <2>3. base \in Nat \ {0}
    BY <1>2, SMT
  <2>4. QED
    BY <1>1, <2>1, <2>2, <2>3, CancelFactor
<1>9. claimed + (unlocked + bonus) <= d.max_total_claim
  BY <1>1, <1>2, <1>8, SMT DEF left
<1>10. QED
  BY <1>9 DEF claimed

LEMMA ClaimSucceeds ==
    ASSUME TypeOK, NEW v \in Version, IsOpen(v), MatchesTree(v), IsSolvent(v),
           NEW d, d = distributor[v], NEW taken, Matches(claim_status[v], d, taken),
           d.num_nodes_claimed = Cardinality(HoldersIn(claim_status[v])),
           NEW leaf \in Leaves[d.root], ~HasClaimed(v, leaf.claimant)
    PROVE  CanClaim(v, leaf)
<1> DEFINE st == claim_status[v]
           c == leaf.claimant
           L == Leaves[d.root]
           D == HoldersIn(st) \cup {c}
           f == [k \in D |-> IF k = c THEN leaf ELSE taken[k]]
           bonus == BonusNow(d, leaf.unlocked)
<1>1. /\ Took(st, d, taken) /\ d \in MerkleDistributor
      /\ taken \in [HoldersIn(st) -> L]
  BY DEF Matches, Took
<1>2. /\ c \in Claimant /\ leaf.unlocked \in U64 /\ leaf.unlocked \in Nat
      /\ leaf.locked \in Nat
  BY <1>1, LeavesType
<1>3. /\ c \notin HoldersIn(st) /\ D \in SUBSET Claimant /\ c \in D
      /\ f \in [D -> L] /\ f[c] = leaf
      /\ \A k \in HoldersIn(st) : k # c => f[k] = taken[k]
  BY <1>1, <1>2 DEF HoldersIn, HasClaimed
<1> HIDE DEF f
<1>4. WithoutBonus(st, taken)[c] + leaf.unlocked <= LeafTotal(f[c])
  <2>1. WithoutBonus(st, taken)[c] = 0
    BY <1>2 DEF WithoutBonus, HasClaimed
  <2>2. QED
    BY <1>2, <1>3, <2>1, SMT DEF LeafTotal
<1>5. /\ d.total_claimed_bonus <= d.total_amount_claimed
      /\ (d.total_amount_claimed - d.total_claimed_bonus) + leaf.unlocked <= TreeTotal(L)
      /\ TreeTotal(L) \in Nat
      /\ Cardinality(D) <= Cardinality(L) /\ Cardinality(L) \in Nat
  <2>1. f[c].claimant = c
    BY <1>3
  <2> HIDE DEF st, c, D
  <2>2. D = HoldersIn(st) \cup {c}
    BY DEF D
  <2>3. QED
    BY <1>1, <1>2, <1>3, <1>4, <2>1, <2>2, RoomForOne
<1>6. /\ d.max_total_claim \in Nat /\ d.total_bonus \in Nat
      /\ d.total_amount_claimed \in Nat /\ d.max_num_nodes \in Nat
      /\ d.max_total_claim \in U64
  BY <1>1, U64IsNat DEF MerkleDistributor
<1>7. /\ d.max_total_claim = TreeTotal(L) + d.total_bonus
      /\ d.max_num_nodes >= Cardinality(L) /\ TreeTotal(L) > 0
      /\ checked_add(d.vesting_duration, d.activation_point) # Err
  BY DEF MatchesTree
<1>8. HasNodeLeft(d)
  <2>1. IsFiniteSet(HoldersIn(st))
    BY FS_Subset, AccountsAssumption DEF HoldersIn
  <2>2. Cardinality(D) = d.num_nodes_claimed + 1
    BY <1>3, <2>1, FS_AddElement
  <2>3. d.num_nodes_claimed + 1 <= Cardinality(L)
    BY <1>5, <2>2
  <2>4. d.num_nodes_claimed \in Nat
    BY <1>1, U64IsNat DEF MerkleDistributor
  <2>5. QED
    BY <1>5, <1>6, <1>7, <2>3, <2>4, SMT DEF HasNodeLeft
<1>9. /\ bonus \in U64 /\ IsOk(bonus)
      /\ (d.max_total_claim - d.total_bonus) * bonus <= leaf.unlocked * d.total_bonus
  <2>1. curr_point(d) \in Nat
    BY DEF curr_point, TypeOK
  <2>2. d.total_bonus < d.max_total_claim
    BY <1>5, <1>6, <1>7, SMT
  <2>3. QED
    BY <1>1, <1>2, <1>7, <2>1, <2>2, BonusIsOk
<1> HIDE DEF bonus
<1>10. d.total_amount_claimed + (leaf.unlocked + bonus) <= d.max_total_claim
  BY <1>2, <1>5, <1>9, U64IsNat, ClaimFits DEF Matches
<1>11. bonus \in Nat
  BY <1>9, U64IsNat
<1>12. leaf.unlocked + bonus \in U64
  <2>1. leaf.unlocked + bonus \in Nat /\ leaf.unlocked + bonus <= d.max_total_claim
    BY <1>2, <1>6, <1>10, <1>11, SMT
  <2>2. QED
    BY <1>6, <2>1, AtMostU64
<1>13. checked_add(leaf.unlocked, bonus) = leaf.unlocked + bonus
  BY <1>12, U64MaxAssumption, SMT DEF checked_add, U64
<1>14. IsOk(checked_add(leaf.unlocked, bonus))
  BY <1>2, <1>11, <1>13, SMT DEF IsOk, Err
<1>15. leaf.unlocked + bonus <= balance[v]
  <2>1. balance[v] \in Nat
    BY VersionsAreTokenAccounts DEF TypeOK
  <2>2. d.max_total_claim <= balance[v] + d.total_amount_claimed
    BY DEF IsSolvent
  <2>3. QED
    BY <1>2, <1>6, <1>10, <1>11, <2>1, <2>2, SMT
<1>16. FitsMaxTotal(d, leaf.unlocked + bonus)
  BY <1>10 DEF FitsMaxTotal
<1>17. QED
  BY <1>8, <1>9, <1>13, <1>14, <1>15, <1>16 DEF CanClaim, InTree, validate_claim, bonus

LEMMA WithdrawalSucceeds ==
    ASSUME TypeOK, NEW v \in Version, IsOpen(v), MatchesTree(v), IsSolvent(v),
           NEW d, d = distributor[v], NEW taken, Matches(claim_status[v], d, taken),
           NEW c \in Claimant, HasClaimed(v, c),
           claim_status[v][c].locked_amount_withdrawn <=
               unlocked_amount(claim_status[v][c].locked_amount, unix_timestamp,
                               d.start_ts, d.end_ts),
           Withdrawable(d, claim_status[v][c]) # 0
    PROVE  CanWithdraw(v, c)
<1> DEFINE st == claim_status[v]
           s == st[c]
           L == Leaves[d.root]
           D == HoldersIn(st)
           amount == Withdrawable(d, s)
           released == unlocked_amount(s.locked_amount, unix_timestamp, d.start_ts, d.end_ts)
<1>1. /\ Took(st, d, taken) /\ d \in MerkleDistributor
      /\ taken \in [HoldersIn(st) -> L] /\ TookLeaves(st, d, taken)
  BY DEF Matches, Took
<1>2. /\ s \in ClaimStatus /\ s.locked_amount \in U64 /\ s.locked_amount \in Nat
      /\ s.locked_amount_withdrawn \in Nat
  BY ClaimedType, U64IsNat DEF ClaimStatus
<1>3. released \in Nat /\ released <= s.locked_amount
  <2>1. unix_timestamp \in Nat /\ d.start_ts \in Nat /\ d.end_ts \in Nat
    BY <1>1 DEF TypeOK, MerkleDistributor
  <2>2. QED
    BY <1>2, <2>1, UnlockedWithinLocked, U64IsNat
<1>4. amount = released - s.locked_amount_withdrawn
  BY DEF Withdrawable, amount_withdrawable, checked_sub
<1>5. amount # 0 /\ s.locked_amount_withdrawn <= released
  OBVIOUS
<1> HIDE DEF amount, released
<1>6. /\ amount \in Nat /\ amount > 0 /\ IsOk(amount)
      /\ s.locked_amount_withdrawn + amount <= s.locked_amount
  BY <1>2, <1>3, <1>4, <1>5, SMT DEF IsOk, Err
<1>7. c \in D /\ D \in SUBSET Claimant /\ D = HoldersIn(st) \cup {c}
  BY DEF HoldersIn, HasClaimed
<1>8. taken[c].claimant = c /\ taken[c].locked = s.locked_amount
  BY <1>1, <1>7 DEF TookLeaves
<1>9. WithoutBonus(st, taken)[c] + amount <= LeafTotal(taken[c])
  <2>1. /\ WithoutBonus(st, taken)[c] = taken[c].unlocked + s.locked_amount_withdrawn
        /\ taken[c].unlocked \in Nat
    BY <1>1, <1>7, TookWithinLeaf
  <2>2. QED
    BY <1>2, <1>6, <1>8, <2>1, SMT DEF LeafTotal
<1>10. /\ (d.total_amount_claimed - d.total_claimed_bonus) + amount <= TreeTotal(L)
       /\ TreeTotal(L) \in Nat
       /\ d.total_claimed_bonus <= d.total_amount_claimed
  <2> HIDE DEF st, D
  <2>1. taken \in [D -> L]
    BY <1>1 DEF D
  <2>2. QED
    BY <1>1, <1>6, <1>7, <1>8, <1>9, <2>1, RoomForOne
<1>11. /\ d.max_total_claim \in Nat /\ d.total_bonus \in Nat
       /\ d.total_amount_claimed \in Nat /\ d.total_claimed_bonus \in Nat
  BY <1>1, U64IsNat DEF MerkleDistributor
<1>12. d.total_claimed_bonus <= d.total_bonus
  BY <1>1, ShareWithinPool DEF Matches
<1>13. d.max_total_claim = TreeTotal(L) + d.total_bonus
  BY DEF MatchesTree
<1>14. d.total_amount_claimed + amount <= d.max_total_claim
  BY <1>6, <1>10, <1>11, <1>12, <1>13, SMT
<1>15. amount <= balance[v]
  <2>1. balance[v] \in Nat
    BY VersionsAreTokenAccounts DEF TypeOK
  <2>2. d.max_total_claim <= balance[v] + d.total_amount_claimed
    BY DEF IsSolvent
  <2>3. QED
    BY <1>6, <1>11, <1>14, <2>1, <2>2, SMT
<1>16. FitsMaxTotal(d, amount)
  BY <1>14 DEF FitsMaxTotal
<1>17. QED
  BY <1>6, <1>15, <1>16 DEF CanWithdraw, validate_claim, amount

LEMMA OpenToClaimants ==
    ASSUME Inv, LeavesTaken
    PROVE  FundedClaimsSucceed
<1> SUFFICES ASSUME NEW v \in Version, IsFirst(v), IsOpen(v), MatchesTree(v), IsSolvent(v),
                    NEW leaf \in Leaves[distributor[v].root]
             PROVE  IF ~HasClaimed(v, leaf.claimant) THEN CanClaim(v, leaf)
                    ELSE Withdrawable(distributor[v], claim_status[v][leaf.claimant]) # 0
                           => CanWithdraw(v, leaf.claimant)
  BY DEF FundedClaimsSucceed
<1> DEFINE d == distributor[v]
           st == claim_status[v]
<1>1. /\ TypeOK /\ d \in MerkleDistributor /\ BonusShared(d)
      /\ st \in [Claimant -> ClaimStatus \cup {NoAccount}]
      /\ leaf.claimant \in Claimant
  BY LiveType, LeavesType DEF Inv, TypeOK, IsFirst, BonusIsShare
<1>2. PICK taken \in [HoldersIn(st) -> Leaves[d.root]] : TookLeaves(st, d, taken)
  BY DEF LeavesTaken, MatchesTree
<1>3. d.num_nodes_claimed = Cardinality(HoldersIn(st))
  BY DEF LeavesTaken, MatchesTree
<1>4. ASSUME NEW c \in HoldersIn(st)
      PROVE  /\ st[c].locked_amount_withdrawn <=
                  unlocked_amount(st[c].locked_amount, unix_timestamp, d.start_ts, d.end_ts)
             /\ st[c].locked_amount_withdrawn <= st[c].locked_amount
  <2>1. c \in Claimant /\ HasClaimed(v, c) /\ st[c] \in ClaimStatus
    BY <1>1, ClaimedType DEF HoldersIn, HasClaimed
  <2>2. st[c].locked_amount_withdrawn <=
          unlocked_amount(st[c].locked_amount, unix_timestamp, d.start_ts, d.end_ts)
    BY <2>1 DEF Inv, WithdrawnWasUnlocked
  <2>3. /\ st[c].locked_amount \in U64 /\ st[c].locked_amount_withdrawn \in Nat
        /\ st[c].locked_amount \in Nat
        /\ unix_timestamp \in Nat /\ d.start_ts \in Nat /\ d.end_ts \in Nat
    BY <1>1, <2>1, U64IsNat DEF ClaimStatus, MerkleDistributor, TypeOK
  <2> HIDE DEF st, d
  <2>4. /\ unlocked_amount(st[c].locked_amount, unix_timestamp, d.start_ts, d.end_ts) \in Nat
        /\ unlocked_amount(st[c].locked_amount, unix_timestamp, d.start_ts, d.end_ts)
             <= st[c].locked_amount
    BY <2>3, UnlockedWithinLocked, U64IsNat
  <2>5. QED
    BY <2>2, <2>3, <2>4, SMT
<1>5. Matches(st, d, taken)
  <2>1. Took(st, d, taken)
    BY <1>1, <1>2, <1>4 DEF Took
  <2>2. QED
    BY <1>1, <2>1 DEF Matches, MatchesTree
<1>6. CASE ~HasClaimed(v, leaf.claimant)
  BY <1>1, <1>3, <1>5, <1>6, ClaimSucceeds
<1>7. CASE HasClaimed(v, leaf.claimant)
  <2>1. leaf.claimant \in HoldersIn(st)
    BY <1>1, <1>7 DEF HoldersIn, HasClaimed
  <2>2. QED
    BY <1>1, <1>4, <1>5, <1>7, <2>1, WithdrawalSucceeds
<1>8. QED
  BY <1>6, <1>7

--------------------------------------------------------------------------------
(* The theorems about the ledger *)

(* In the first life of an address the counter is the sum of the receipts, *)
(* each receipt fits a leaf, and a status has the flag of its distributor. *)
THEOREM LedgerInvariance == Spec => []LedgerInv
<1> DEFINE IInv == FlagsMatch /\ ReceiptWithinLeaf /\ Balanced
<1>1. Init => IInv
  <2>1. Init => \A v \in Version : ~IsFirst(v)
    BY DEF Init, IsFirst, IsLive
  <2>2. QED
    BY <2>1 DEF FlagsMatch, ReceiptWithinLeaf, Balanced
<1>2. Inv /\ Inv' /\ IInv /\ [Next]_vars => IInv'
  BY FlagsStep, ReceiptStep, BalancedStep DEF Inv
<1>3. Inv /\ IInv => LedgerInv
  BY BalancedMeansAgrees DEF Inv, LedgerInv
<1> HIDE DEF IInv
<1>4. QED
  BY <1>1, <1>2, <1>3, Invariance, PTL DEF Spec

(* A claimant gets what one leaf gives, plus at most its share of the pool.*)
THEOREM ReceiptsFitTree == Spec => []ReceiptWithinLeaf
  BY LedgerInvariance, PTL DEF LedgerInv

(* total_amount_claimed is what the claim statuses say was paid; only the  *)
(* closing of statuses, in a closable distributor, can leave it larger.    *)
THEOREM LedgerBalances == Spec => []LedgerAgrees
  BY LedgerInvariance, PTL DEF LedgerInv

(* While its statuses are never closed, every holder of a status took a    *)
(* leaf of its own, and the counters hold exactly what was taken.          *)
THEOREM HoldersTookLeaves == Spec => []LeavesTaken
<1>1. Init => FlagsMatch /\ LeavesTaken
  <2>1. Init => \A v \in Version : ~IsFirst(v)
    BY DEF Init, IsFirst, IsLive
  <2>2. QED
    BY <2>1 DEF FlagsMatch, LeavesTaken
<1>2. Inv /\ Inv' /\ FlagsMatch /\ LeavesTaken /\ [Next]_vars => (FlagsMatch /\ LeavesTaken)'
  BY FlagsStep, TakenStep DEF Inv
<1>3. QED
  BY <1>1, <1>2, Invariance, PTL DEF Spec

(* Nobody is locked out: a funded distributor that matches its tree can    *)
(* serve every claim and every withdrawal that is due, whatever the others *)
(* did before.                                                             *)
THEOREM NobodyLockedOut == Spec => []FundedClaimsSucceed
<1>1. Inv /\ LeavesTaken => FundedClaimsSucceed
  BY OpenToClaimants
<1>2. QED
  BY <1>1, Invariance, HoldersTookLeaves, PTL

--------------------------------------------------------------------------------
(* The commands claim and claim-from-api among all other users of the      *)
(* program: whatever they do is something the program allows anyone, and   *)
(* when a process says that it claimed, the claimant was paid.             *)

(* Beside the invariant of the program: who runs the tool has a leaf.      *)
ClientInv == Inv /\ node \in Leaf

(* A transaction of the tool is a call of the program.                     *)
LEMMA TransactionIsCall ==
    ASSUME ClientInv, NewClaim(tree, node) \/ ClaimLocked(tree, user)
    PROVE  Next
<1>1. tree \in Version /\ user \in Claimant /\ TypeOK
  BY ClientAssumption DEF ClientInv, Inv, Leaf, user
<1>2. CASE NewClaim(tree, node)
  <2>1. IsOpen(tree) /\ node \in Leaves[distributor[tree].root]
    BY <1>2 DEF NewClaim, CanClaim, InTree
  <2>2. distributor[tree].root \in Root
    BY <1>1, <2>1, LiveType DEF IsOpen, MerkleDistributor
  <2>3. Claim(tree)
    BY <1>2, <2>1, <2>2 DEF Claim
  <2>4. QED
    BY <1>1, <2>3 DEF Next
<1>3. CASE ClaimLocked(tree, user)
  <2>1. Claim(tree)
    BY <1>1, <1>3 DEF Claim
  <2>2. QED
    BY <1>1, <2>1 DEF Next
<1>4. QED
  BY <1>2, <1>3

(* What confirming a transaction does to the accounts of the program: the  *)
(* call was made, or nothing happened.                                     *)
LEMMA ConfirmNewClaimCalls ==
    ASSUME ConfirmNewClaim
    PROVE  /\ pc = "new" /\ node' = node /\ how' = how
           /\ \/ NewClaim(tree, node) /\ pc' = AfterNewClaim
              \/ UNCHANGED vars
BY DEF ConfirmNewClaim, Confirm, NewClaimTx

LEMMA ConfirmClaimLockedCalls ==
    ASSUME ConfirmClaimLocked
    PROVE  /\ pc = "locked" /\ node' = node /\ how' = how
           /\ \/ ClaimLocked(tree, user) /\ pc' = "idle"
              \/ UNCHANGED vars
BY DEF ConfirmClaimLocked, Confirm, ClaimLockedTx

(* Every step keeps the leaf and is a step of the program or none.         *)
LEMMA ClientStepIsStep ==
    ASSUME ClientInv, [ClientNext]_client_vars
    PROVE  [Next]_vars /\ node' = node /\ how' = how
<1>1. CASE StartClient
  BY <1>1 DEF StartClient, ReadOnly
<1>2. CASE LookAtStatus
  BY <1>2 DEF LookAtStatus, ReadOnly
<1>3. CASE LookAtAccount
  BY <1>3 DEF LookAtAccount, ReadOnly
<1>4. CASE ConfirmNewClaim
  BY <1>4, ConfirmNewClaimCalls, TransactionIsCall
<1>5. CASE ConfirmClaimLocked
  BY <1>5, ConfirmClaimLockedCalls, TransactionIsCall
<1>6. CASE Settle
  <2>1. NewClaim(tree, node) \/ ClaimLocked(tree, user) \/ UNCHANGED vars
    BY <1>6 DEF Settle, Land, Expire, NewClaimTx, ClaimLockedTx
  <2>2. node' = node /\ how' = how
    BY <1>6 DEF Settle
  <2>3. QED
    BY <2>1, <2>2, TransactionIsCall
<1>7. CASE ByOthers(Next)
  BY <1>7 DEF ByOthers, client
<1>8. CASE ChangeAccounts
  BY <1>8 DEF ChangeAccounts
<1>9. CASE UNCHANGED client_vars
  BY <1>9 DEF client_vars, client
<1>10. QED
  BY <1>1, <1>2, <1>3, <1>4, <1>5, <1>6, <1>7, <1>8, <1>9 DEF ClientNext, ClientStep

LEMMA ClientInvHolds == ClientSpec => []ClientInv
<1>1. ClientInit => ClientInv
  <2> SUFFICES ASSUME ClientInit PROVE ClientInv
    OBVIOUS
  <2>1. Inv
    BY InitInv DEF ClientInit
  <2>2. node \in Leaf
    BY ClientAssumption DEF ClientInit
  <2>3. QED
    BY <2>1, <2>2 DEF ClientInv
<1>2. ClientInv /\ [ClientNext]_client_vars => ClientInv'
  <2> SUFFICES ASSUME ClientInv, [ClientNext]_client_vars PROVE ClientInv'
    OBVIOUS
  <2>1. [Next]_vars /\ node' = node
    BY ClientStepIsStep
  <2>2. Inv'
    BY <2>1, InvStep DEF ClientInv
  <2>3. QED
    BY <2>1, <2>2 DEF ClientInv
<1>3. QED
  BY <1>1, <1>2, PTL DEF ClientSpec

(* The tool is one more user of the program: with it the program behaves   *)
(* as its specification says, so that all that is proved of Spec holds for *)
(* a claimant who uses claim or claim-from-api.                            *)
THEOREM ToolIsUser == ClientSpec => Spec
<1>1. ClientInit => Init
  BY DEF ClientInit
<1>2. ClientInv /\ [ClientNext]_client_vars => [Next]_vars
  BY ClientStepIsStep
<1>3. QED
  BY <1>1, <1>2, ClientInvHolds, PTL DEF ClientSpec, Spec

(* A process that says that it claimed has made a payment that covers all  *)
(* it was asked for, whatever happened between its reads and transactions  *)
(* (process_claim, process_new_claim, process_claim_from_api).             *)
THEOREM ClaimedMeansPaid == ClientSpec => DoneMeansPaid
<1>1. ASSUME ClientInv, [ClientNext]_client_vars, SaysClaimed
      PROVE  PaidUpToNow'
  <2>1. /\ pc \in {"new", "locked"} /\ pc' = "idle" /\ ~UNCHANGED vars
    BY <1>1 DEF SaysClaimed
  <2>2. \/ NewClaim(tree, node) /\ how # "claim"
        \/ ClaimLocked(tree, user)
    <3>1. ConfirmNewClaim \/ ConfirmClaimLocked
      <4>1. ~StartClient /\ ~LookAtStatus /\ ~LookAtAccount
        BY <2>1 DEF StartClient, LookAtStatus, LookAtAccount
      <4>2. ~Settle /\ ~ByOthers(Next) /\ ~ChangeAccounts /\ ~UNCHANGED client_vars
        BY <2>1 DEF Settle, ByOthers, ChangeAccounts, client, client_vars
      <4>3. QED
        BY <1>1, <4>1, <4>2 DEF ClientNext, ClientStep
    <3>2. QED
      BY <2>1, <3>1, ConfirmNewClaimCalls, ConfirmClaimLockedCalls DEF AfterNewClaim
  <2>3. /\ tree \in Version /\ user \in Claimant /\ TypeOK
        /\ user' = user /\ how' = how /\ Inv' /\ TypeOK'
    <3>1. [Next]_vars /\ node' = node /\ how' = how
      BY <1>1, ClientStepIsStep
    <3>2. Inv'
      BY <1>1, <3>1, InvStep DEF ClientInv
    <3>3. QED
      BY <1>1, <3>1, <3>2, ClientAssumption DEF ClientInv, Inv, Leaf, user
  <2>4. CASE NewClaim(tree, node) /\ how # "claim"
    <3>1. Written(tree, user)
      BY <1>1, <2>3, <2>4, NewClaimWrites DEF ClientInv, user
    <3>2. Status' \in ClaimStatus
      BY <2>3, <3>1 DEF Written, Status
    <3>3. QED
      BY <2>3, <2>4, <3>2, NoAccountAssumption DEF PaidUpToNow
  <2>5. CASE ClaimLocked(tree, user)
    <3> DEFINE d == distributor[tree]
               s == claim_status[tree][user]
               amount == Withdrawable(d, s)
               unlocked == unlocked_amount(s.locked_amount, unix_timestamp, d.start_ts, d.end_ts)
    <3>1. /\ d \in MerkleDistributor /\ s \in ClaimStatus /\ amount \in U64
          /\ s.locked_amount_withdrawn + amount = unlocked
      BY <2>3, <2>5, ClaimLockedAmount
    <3>2. /\ claim_status' = [claim_status EXCEPT ![tree][user] = RecordWithdrawal(s, amount)]
          /\ distributor' = [distributor EXCEPT ![tree].total_amount_claimed = @ + amount]
          /\ unix_timestamp' = unix_timestamp
      BY <2>5 DEF ClaimLocked, clocks
    <3>3. /\ Status' = RecordWithdrawal(s, amount)
          /\ Status' \in ClaimStatus
      <4>1. Written(tree, user)
        BY <2>3, <2>5, ClaimLockedWrites
      <4>2. Status' = RecordWithdrawal(s, amount)
        BY <2>3, <3>2 DEF Status, TypeOK
      <4>3. QED
        BY <2>3, <4>1, <4>2 DEF Written, Status
    <3>4. /\ Status'.locked_amount = s.locked_amount
          /\ Status'.locked_amount_withdrawn = unlocked
      BY <3>1, <3>3 DEF RecordWithdrawal, ClaimStatus
    <3>5. distributor'[tree].start_ts = d.start_ts /\ distributor'[tree].end_ts = d.end_ts
      BY <2>3, <3>1, <3>2 DEF TypeOK, MerkleDistributor
    <3>6. unlocked \in Nat
      BY <2>3, <3>1, UnlockedWithinLocked, U64IsNat DEF ClaimStatus, MerkleDistributor, TypeOK
    <3> HIDE DEF unlocked
    <3>7. unlocked >= unlocked
      BY <3>6
    <3>8. unlocked_amount(Status'.locked_amount, unix_timestamp',
                          distributor'[tree].start_ts, distributor'[tree].end_ts) = unlocked
      BY <3>2, <3>4, <3>5 DEF unlocked
    <3>9. Status' # NoAccount
      BY <3>3, NoAccountAssumption
    <3>10. QED
      BY <3>4, <3>7, <3>8, <3>9 DEF PaidUpToNow
  <2>6. QED
    BY <2>2, <2>4, <2>5
<1>2. QED
  BY <1>1, ClientInvHolds, PTL DEF ClientSpec, DoneMeansPaid
================================================================================
