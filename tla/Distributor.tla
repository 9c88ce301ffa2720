------------------------------ MODULE Distributor ------------------------------
(***************************************************************************)
(* The on-chain program merkle_distributor: its distributor accounts, the  *)
(* claim status accounts of its claimants, the token accounts the program  *)
(* moves tokens between and the clock it reads.                            *)
(*                                                                         *)
(* An instruction runs alone and an error undoes all of it, so each action *)
(* is one successful instruction: its guard holds every account constraint *)
(* and every require! of the handler, also those placed after a transfer.  *)
(* A version names one distributor address (base and mint are fixed), and  *)
(* the vault of a version is its associated token account, so the version  *)
(* names that as well. Fields that follow from the address of an account   *)
(* are left out: bump, version, base, mint and token_vault of a            *)
(* distributor, the claimant and the distributor of a claim status.        *)
(***************************************************************************)
EXTENDS ReleaseMath, FiniteSets

CONSTANTS
    Version,           \* the u64 versions, one distributor address for each
    Claimant,          \* wallets that claim, each with one token account
    Wallet,            \* wallets that sign as admin
    Outside,           \* every other token account of the mint
    Funder,            \* the one of them that holds the tokens at the start
    Receiver,          \* token accounts named as receiver of swept tokens
    Root,              \* merkle roots
    Leaves,            \* root -> leaves [claimant, unlocked, locked] of its tree
    DeployArgs,        \* the arguments new_distributor and ...2 are called with
    ActivationPoints,  \* the arguments of set_activation_point
    Deposits,          \* amounts sent to a vault in one transfer
    Supply,            \* tokens minted
    MaxTime, MaxSlot,  \* where the two clocks stop: bounds of the model
    NoAccount          \* the content of an address without an account

TokenAccount == Version \cup Claimant \cup Outside
Point == Nat
ActivationType == {"Slot", "Timestamp"}

Leaf == [claimant : Claimant, unlocked : U64, locked : U64]

DeployArg ==
    [root : Root, total_claim : U64, max_num_nodes : U64, start_ts : Nat,
     end_ts : Nat, clawback_start_ts : Nat, activation_point : U64,
     activation_type : ActivationType, closable : BOOLEAN,
     total_bonus : U64, vesting_duration : U64]

MerkleDistributor ==
    [root : Root, max_total_claim : U64, max_num_nodes : U64,
     total_amount_claimed : U64, num_nodes_claimed : U64, start_ts : Nat,
     end_ts : Nat, clawback_start_ts : Nat, clawback_receiver : TokenAccount,
     admin : Wallet, clawed_back : BOOLEAN, activation_point : U64,
     activation_type : ActivationType, closable : BOOLEAN, total_bonus : U64,
     vesting_duration : U64, total_claimed_bonus : U64]

ClaimStatus ==
    [locked_amount : U64, locked_amount_withdrawn : U64,
     unlocked_amount : U64, closable : BOOLEAN, admin : Wallet]

ASSUME AccountsAssumption ==
    /\ Version \cap Claimant = {}
    /\ Version \cap Outside = {}
    /\ Claimant \cap Outside = {}
    /\ Funder \in Outside
    /\ Receiver \subseteq TokenAccount
    /\ IsFiniteSet(Claimant)

ASSUME InputsAssumption ==
    /\ Leaves \in [Root -> SUBSET Leaf]
    /\ \A root \in Root : IsFiniteSet(Leaves[root])
    /\ DeployArgs \subseteq DeployArg
    /\ ActivationPoints \subseteq U64
    /\ Deposits \subseteq Nat
    /\ Supply \in U64
    /\ MaxTime \in Nat
    /\ MaxSlot \in Nat

ASSUME NoAccountAssumption ==
    /\ NoAccount \notin MerkleDistributor
    /\ NoAccount \notin ClaimStatus

VARIABLES
    distributor,     \* version -> its MerkleDistributor, or NoAccount
    claim_status,    \* version -> claimant -> its ClaimStatus, or NoAccount
    balance,         \* token account -> amount it holds
    unix_timestamp,  \* Clock::unix_timestamp
    slot,            \* Clock::slot
    incarnation      \* history, read by no guard: was the address used again?

vars == <<distributor, claim_status, balance, unix_timestamp, slot, incarnation>>
clocks == <<unix_timestamp, slot>>

IsLive(v) == distributor[v] # NoAccount
IsOpen(v) == IsLive(v) /\ ~distributor[v].clawed_back
HasClaimed(v, c) == claim_status[v][c] # NoAccount

--------------------------------------------------------------------------------
(* SPL token transfer: it fails on insufficient funds, and one to the same *)
(* account succeeds and moves nothing.                                     *)
Transfer(from, to, amount) ==
    /\ amount <= balance[from]
    /\ balance' = IF from = to THEN balance
                  ELSE [balance EXCEPT ![from] = @ - amount, ![to] = @ + amount]

Init ==
    /\ distributor = [v \in Version |-> NoAccount]
    /\ claim_status = [v \in Version |-> [c \in Claimant |-> NoAccount]]
    /\ balance = [a \in TokenAccount |-> IF a = Funder THEN Supply ELSE 0]
    /\ unix_timestamp = 0
    /\ slot = 0
    /\ incarnation = [v \in Version |-> "unused"]

--------------------------------------------------------------------------------
(* new_distributor and new_distributor2 *)

SweepableWhileVesting(now, a) ==
    /\ a.start_ts < a.end_ts
    /\ a.start_ts > now

ScheduleValid(now, a) ==
    /\ a.start_ts < a.end_ts
    /\ a.start_ts > now /\ now < a.end_ts
    /\ a.clawback_start_ts >= a.end_ts

\* The fields of a new distributor account.
NewAccount(a, signer, receiver, max_total, bonus, duration) ==
    [root |-> a.root, max_total_claim |-> max_total,
     max_num_nodes |-> a.max_num_nodes, total_amount_claimed |-> 0,
     num_nodes_claimed |-> 0, start_ts |-> a.start_ts, end_ts |-> a.end_ts,
     clawback_start_ts |-> a.clawback_start_ts, clawback_receiver |-> receiver,
     admin |-> signer, clawed_back |-> FALSE,
     activation_point |-> a.activation_point,
     activation_type |-> a.activation_type, closable |-> a.closable,
     total_bonus |-> bonus, vesting_duration |-> duration,
     total_claimed_bonus |-> 0]

\* handle_new_distributor. The account must not exist yet, which is all that
\* ties it to the past: claim statuses of an earlier account may be around.
HandleNewDistributor(v, a, signer, receiver, max_total, bonus, duration) ==
    /\ ~IsLive(v)
    /\ ScheduleValid(unix_timestamp, a)
    /\ distributor' = [distributor EXCEPT ![v] =
         NewAccount(a, signer, receiver, max_total, bonus, duration)]
    /\ incarnation' = [incarnation EXCEPT ![v] =
                         IF @ = "unused" THEN "first" ELSE "recycled"]
    /\ UNCHANGED <<claim_status, balance, clocks>>

NewDistributor(v, a, signer, receiver) ==
    HandleNewDistributor(v, a, signer, receiver, a.total_claim, 0, 0)

NewDistributor2(v, a, signer, receiver) ==
    LET max_total == checked_add(a.total_claim, a.total_bonus)
    IN  /\ IsOk(max_total)
        /\ HandleNewDistributor(v, a, signer, receiver, max_total,
                                a.total_bonus, a.vesting_duration)

--------------------------------------------------------------------------------
(* new_claim and claim_locked *)

\* get_activation_handler reads the clock the activation type names.
curr_point(d) == IF d.activation_type = "Slot" THEN slot ELSE unix_timestamp

\* ActivationHandler::validate_claim: the check of the point is commented out.
validate_claim(d) == TRUE

\* get_bonus_for_a_claimaint, for a claim made now.
BonusNow(d, unlocked) ==
    vested_bonus(get_max_bonus_for_a_claimant(unlocked, d.max_total_claim,
                                              d.total_bonus),
                 curr_point(d), d.activation_point, d.vesting_duration)

AnyLeafVerifies(root, leaf) == TRUE

\* verify of the proof against the root: the hashes are collision free and a
\* claimant can always get the proof of a leaf that is in the tree.
InTree(root, leaf) == leaf \in Leaves[root]

NodesUnlimited(d) == TRUE
HasNodeLeft(d) == d.num_nodes_claimed + 1 <= d.max_num_nodes

ClaimsUncapped(d, amount) == TRUE
FitsMaxTotal(d, amount) == d.total_amount_claimed + amount <= d.max_total_claim

BonusForgotten(d, amount, bonus) ==
    [d EXCEPT !.num_nodes_claimed = @ + 1,
              !.total_amount_claimed = @ + (amount - bonus),
              !.total_claimed_bonus = @ + bonus]

NodeNotCounted(d, amount, bonus) ==
    [d EXCEPT !.total_amount_claimed = @ + amount,
              !.total_claimed_bonus = @ + bonus]

\* The distributor after a new claim of amount, of which bonus is bonus. None
\* of the checked additions fails where FitsMaxTotal and HasNodeLeft hold.
RecordClaim(d, amount, bonus) ==
    [d EXCEPT !.num_nodes_claimed = @ + 1,
              !.total_amount_claimed = @ + amount,
              !.total_claimed_bonus = @ + bonus]

\* Everything new_claim requires, the funds of the vault included.
CanClaim(v, leaf) ==
    LET d == distributor[v]
        bonus == BonusNow(d, leaf.unlocked)
        amount == checked_add(leaf.unlocked, bonus)
    IN  /\ IsOpen(v)
        /\ ~HasClaimed(v, leaf.claimant)
        /\ validate_claim(d)
        /\ HasNodeLeft(d)
        /\ InTree(d.root, leaf)
        /\ IsOk(bonus)
        /\ IsOk(amount)
        /\ amount <= balance[v]
        /\ FitsMaxTotal(d, amount)

\* new_claim by the leaf's claimant, who signs and owns the token account.
NewClaim(v, leaf) ==
    LET d == distributor[v]
        c == leaf.claimant
        bonus == BonusNow(d, leaf.unlocked)
        amount == checked_add(leaf.unlocked, bonus)
    IN  /\ CanClaim(v, leaf)
        /\ Transfer(v, c, amount)
        /\ claim_status' = [claim_status EXCEPT ![v][c] =
             [locked_amount |-> leaf.locked, locked_amount_withdrawn |-> 0,
              unlocked_amount |-> amount, closable |-> d.closable,
              admin |-> d.admin]]
        /\ distributor' = [distributor EXCEPT ![v] = RecordClaim(d, amount, bonus)]
        /\ UNCHANGED <<clocks, incarnation>>

WithdrawableUnvested(d, s) ==
    checked_sub(s.locked_amount, s.locked_amount_withdrawn)

\* What claim_locked would pay now: an amount, or Err.
Withdrawable(d, s) ==
    amount_withdrawable(s.locked_amount, s.locked_amount_withdrawn,
                        unix_timestamp, d.start_ts, d.end_ts)

WithdrawalForgotten(s, amount) == s

RecordWithdrawal(s, amount) ==
    [s EXCEPT !.locked_amount_withdrawn = @ + amount]

\* Everything claim_locked requires.
CanWithdraw(v, c) ==
    LET d == distributor[v]
        s == claim_status[v][c]
        amount == Withdrawable(d, s)
    IN  /\ IsOpen(v)
        /\ HasClaimed(v, c)
        /\ validate_claim(d)
        /\ IsOk(amount)
        /\ amount > 0
        /\ amount <= balance[v]
        /\ s.locked_amount_withdrawn + amount <= s.locked_amount
        /\ FitsMaxTotal(d, amount)

ClaimLocked(v, c) ==
    LET d == distributor[v]
        s == claim_status[v][c]
        amount == Withdrawable(d, s)
    IN  /\ CanWithdraw(v, c)
        /\ Transfer(v, c, amount)
        /\ claim_status' = [claim_status EXCEPT ![v][c] = RecordWithdrawal(s, amount)]
        /\ distributor' = [distributor EXCEPT ![v].total_amount_claimed = @ + amount]
        /\ UNCHANGED <<clocks, incarnation>>

--------------------------------------------------------------------------------
(* clawback, the closing of accounts and the admin's setters *)

SweepableFromStart(now, d) == now >= d.start_ts
ClawbackStarted(now, d) == now >= d.clawback_start_ts

NotMarkedSwept(d) == d
MarkSwept(d) == [d EXCEPT !.clawed_back = TRUE]

\* Anyone may sign a clawback.
Clawback(v) ==
    /\ IsOpen(v)
    /\ ClawbackStarted(unix_timestamp, distributor[v])
    /\ Transfer(v, distributor[v].clawback_receiver, balance[v])
    /\ distributor' = [distributor EXCEPT ![v] = MarkSwept(@)]
    /\ UNCHANGED <<claim_status, clocks, incarnation>>

\* The admin is the one the status was created with; the distributor account
\* is not part of the instruction.
CloseClaimStatus(v, c, signer) ==
    /\ HasClaimed(v, c)
    /\ signer = claim_status[v][c].admin
    /\ claim_status[v][c].closable
    /\ claim_status' = [claim_status EXCEPT ![v][c] = NoAccount]
    /\ UNCHANGED <<distributor, balance, clocks, incarnation>>

CloseDistributor(v, signer, destination) ==
    /\ IsLive(v)
    /\ signer = distributor[v].admin
    /\ distributor[v].closable
    /\ Transfer(v, destination, balance[v])
    /\ distributor' = [distributor EXCEPT ![v] = NoAccount]
    /\ UNCHANGED <<claim_status, clocks, incarnation>>

SetActivationPoint(v, signer, activation_point) ==
    /\ IsLive(v)
    /\ signer = distributor[v].admin
    /\ distributor' = [distributor EXCEPT ![v].activation_point = activation_point]
    /\ UNCHANGED <<claim_status, balance, clocks, incarnation>>

SetAdmin(v, signer, new_admin) ==
    /\ IsLive(v)
    /\ signer = distributor[v].admin
    /\ signer # new_admin
    /\ distributor' = [distributor EXCEPT ![v].admin = new_admin]
    /\ UNCHANGED <<claim_status, balance, clocks, incarnation>>

SetClawbackReceiver(v, signer, new_receiver) ==
    /\ IsLive(v)
    /\ signer = distributor[v].admin
    /\ distributor[v].clawback_receiver # new_receiver
    /\ distributor' = [distributor EXCEPT ![v].clawback_receiver = new_receiver]
    /\ UNCHANGED <<claim_status, balance, clocks, incarnation>>

--------------------------------------------------------------------------------
(* The environment: anyone may send tokens to a vault, and time passes. *)

Deposit(v, amount) ==
    /\ Transfer(Funder, v, amount)
    /\ UNCHANGED <<distributor, claim_status, clocks, incarnation>>

AdvanceTime ==
    /\ unix_timestamp < MaxTime
    /\ unix_timestamp' = unix_timestamp + 1
    /\ UNCHANGED <<distributor, claim_status, balance, slot, incarnation>>

AdvanceSlot ==
    /\ slot < MaxSlot
    /\ slot' = slot + 1
    /\ UNCHANGED <<distributor, claim_status, balance, unix_timestamp, incarnation>>

Deploy(v) == \E a \in DeployArgs, signer \in Wallet, receiver \in Receiver :
    \/ NewDistributor(v, a, signer, receiver)
    \/ NewDistributor2(v, a, signer, receiver)

Claim(v) ==
    \/ \E root \in Root : \E leaf \in Leaves[root] : NewClaim(v, leaf)
    \/ \E c \in Claimant : ClaimLocked(v, c)

Administer(v) == \E signer \in Wallet :
    \/ \E c \in Claimant : CloseClaimStatus(v, c, signer)
    \/ \E destination \in Receiver : CloseDistributor(v, signer, destination)
    \/ \E point \in ActivationPoints : SetActivationPoint(v, signer, point)
    \/ \E new_admin \in Wallet : SetAdmin(v, signer, new_admin)
    \/ \E receiver \in Receiver : SetClawbackReceiver(v, signer, receiver)

Next ==
    \/ \E v \in Version :
         \/ Deploy(v)
         \/ Claim(v)
         \/ Clawback(v)
         \/ Administer(v)
         \/ \E amount \in Deposits : Deposit(v, amount)
    \/ AdvanceTime
    \/ AdvanceSlot

Spec == Init /\ [][Next]_vars

--------------------------------------------------------------------------------
(* Properties *)

\* Every variable has its type.
TypeOK ==
    /\ distributor \in [Version -> MerkleDistributor \cup {NoAccount}]
    /\ claim_status \in [Version -> [Claimant -> ClaimStatus \cup {NoAccount}]]
    /\ balance \in [TokenAccount -> Nat]
    /\ unix_timestamp \in Nat
    /\ slot \in Nat
    /\ incarnation \in [Version -> {"unused", "first", "recycled"}]

\* The bonuses paid never exceed the bonus pool, although no handler compares
\* the two: it follows from the proportional shares, rounded down, and the cap
\* on the total (accumulate_bonus, get_max_bonus_for_a_claimant), also when
\* closed claim statuses let a claimant claim, and earn a bonus, again.
BonusWithinPool == \A v \in Version : IsLive(v) =>
    distributor[v].total_claimed_bonus <= distributor[v].total_bonus

\* While an address is used for the first time its claim statuses and its
\* distributor belong together.
IsFirst(v) == IsLive(v) /\ incarnation[v] = "first"

\* What claim_locked paid is at most the linear share of the time passed, and
\* it never meets the underflow of amount_withdrawable: the schedule of a live
\* distributor is never changed, vesting rounds down and never goes back.
Elapsed(d) == IF unix_timestamp < d.start_ts THEN 0
              ELSE IF unix_timestamp < d.end_ts THEN unix_timestamp - d.start_ts
              ELSE d.end_ts - d.start_ts

WithdrawnHasVested == \A v \in Version, c \in Claimant :
    IsFirst(v) /\ HasClaimed(v, c) =>
        LET d == distributor[v]
            s == claim_status[v][c]
        IN  /\ s.locked_amount_withdrawn * (d.end_ts - d.start_ts)
                 <= s.locked_amount * Elapsed(d)
            /\ IsOk(Withdrawable(d, s))

\* The tokens are swept only when everything locked has vested (clawback and
\* the check of the schedule in new_distributor, two instructions apart).
SweptAfterVesting == \A v \in Version :
    IsLive(v) /\ distributor[v].clawed_back => distributor[v].end_ts <= unix_timestamp

\* Every claim status was counted when it was created, so max_num_nodes bounds
\* the claimants that hold one.
StatusesCounted == \A v \in Version : IsFirst(v) =>
    /\ Cardinality({c \in Claimant : HasClaimed(v, c)}) <= distributor[v].num_nodes_claimed
    /\ distributor[v].num_nodes_claimed <= distributor[v].max_num_nodes

\* A vault that holds all that can still be claimed keeps doing so until it is
\* swept: every token a claim takes is counted, and only clawback and
\* close_distributor take tokens without counting them.
IsSolvent(v) ==
    distributor[v].max_total_claim <= balance[v] + distributor[v].total_amount_claimed

SolventUntilSwept == [][
    \A v \in Version :
        IsOpen(v) /\ IsSolvent(v) => ~IsOpen(v)' \/ IsSolvent(v)']_vars

--------------------------------------------------------------------------------
(* The inductive invariant behind the safety properties *)

\* Over all claims of a distributor, the bonus paid is at most the share of
\* the pool that goes with the unlocked amounts paid beside it.
BonusShared(d) ==
    /\ d.total_claimed_bonus <= d.total_amount_claimed
    /\ d.total_amount_claimed <= d.max_total_claim
    /\ d.total_bonus <= d.max_total_claim
    /\ (d.max_total_claim - d.total_bonus) * d.total_claimed_bonus
         <= (d.total_amount_claimed - d.total_claimed_bonus) * d.total_bonus

BonusIsShare == \A v \in Version : IsLive(v) => BonusShared(distributor[v])

\* A live distributor keeps the order of its schedule.
ScheduleOrdered(d, now) ==
    /\ d.start_ts < d.end_ts
    /\ d.end_ts <= d.clawback_start_ts
    /\ d.clawed_back => d.clawback_start_ts <= now

ScheduleKept == \A v \in Version :
    IsLive(v) => ScheduleOrdered(distributor[v], unix_timestamp)

\* Nothing was withdrawn that unlocked_amount would not release by now.
WithdrawnWasUnlocked == \A v \in Version, c \in Claimant :
    IsFirst(v) /\ HasClaimed(v, c) =>
        LET d == distributor[v]
            s == claim_status[v][c]
        IN  s.locked_amount_withdrawn <=
                unlocked_amount(s.locked_amount, unix_timestamp, d.start_ts, d.end_ts)

\* An address that was never used has no accounts.
UnusedIsEmpty == \A v \in Version : incarnation[v] = "unused" =>
    ~IsLive(v) /\ \A c \in Claimant : ~HasClaimed(v, c)

\* Everything that is needed of the past, in one inductive formula.
Inv ==
    /\ TypeOK
    /\ BonusIsShare
    /\ ScheduleKept
    /\ WithdrawnWasUnlocked
    /\ UnusedIsEmpty
    /\ StatusesCounted
================================================================================
