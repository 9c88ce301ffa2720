--------------------------- MODULE DistributorLedger ---------------------------
(***************************************************************************)
(* What a distributor owes over all of its claimants, and what it owes them*)
(* in time: the properties of Distributor that sum over accounts, ask      *)
(* whether an instruction would succeed, refine Escrow or are about        *)
(* liveness, with the inductive invariants behind the safety properties.   *)
(***************************************************************************)
EXTENDS Distributor, FiniteSetsExt

SumOver(f, S) == MapThenSumSet(LAMBDA x : f[x], S)

LeafTotal(leaf) == leaf.unlocked + leaf.locked
TreeTotal(leaves) == SumOver([leaf \in leaves |-> LeafTotal(leaf)], leaves)

MaxBonus(d, leaf) ==
    get_max_bonus_for_a_claimant(leaf.unlocked, d.max_total_claim, d.total_bonus)

\* What the claim status says its claimant got.
Receipt(status) == status.unlocked_amount + status.locked_amount_withdrawn

(* The counter agrees with the claim statuses: total_amount_claimed is what*)
(* the claimants' statuses say they got, and only closing statuses, which a*)
(* closable distributor allows, can leave it larger.                       *)
LedgerAgrees == \A v \in Version : IsFirst(v) =>
    LET Got(c) == IF HasClaimed(v, c) THEN Receipt(claim_status[v][c]) ELSE 0
        received == SumOver([c \in Claimant |-> Got(c)], Claimant)
        claimed == distributor[v].total_amount_claimed
    IN  IF distributor[v].closable THEN received <= claimed ELSE received = claimed

(* A claimant gets what one leaf of the tree gives that claimant, plus at  *)
(* most the proportional share of the bonus pool (new_claim, after any     *)
(* order of claims, deposits and settings).                                *)
ReceiptWithinLeaf == \A v \in Version, c \in Claimant :
    IsFirst(v) /\ HasClaimed(v, c) =>
        \E leaf \in Leaves[distributor[v].root] :
            /\ leaf.claimant = c
            /\ claim_status[v][c].locked_amount = leaf.locked
            /\ claim_status[v][c].unlocked_amount
                 \in leaf.unlocked .. (leaf.unlocked + MaxBonus(distributor[v], leaf))

(* The inductive invariant behind the two: beside them it says that a claim*)
(* status carries the closable flag of its distributor (new_claim copies   *)
(* it), without which closing a status could break an exact ledger.        *)
FlagsMatch == \A v \in Version, c \in Claimant :
    IsFirst(v) /\ HasClaimed(v, c) =>
        claim_status[v][c].closable = distributor[v].closable

LedgerInv == FlagsMatch /\ ReceiptWithinLeaf /\ LedgerAgrees

(* The distributor was created with the totals of its tree, as the command *)
(* line tool does, and its settings keep the bonus computation from failing*)
(* with an ArithmeticError: a tree of zero amounts, or an end of the bonus *)
(* schedule beyond u64, would make every new_claim fail.                   *)
MatchesTree(v) ==
    LET d == distributor[v]
        leaves == Leaves[d.root]
    IN  /\ ~d.closable
        /\ d.max_total_claim = TreeTotal(leaves) + d.total_bonus
        /\ d.max_num_nodes >= Cardinality(leaves)
        /\ TreeTotal(leaves) > 0
        /\ checked_add(d.vesting_duration, d.activation_point) # Err

(* In a funded distributor that matches its tree no claimant is ever locked*)
(* out, whatever the others did before: every leaf not yet claimed can be  *)
(* claimed, and whatever has vested can be withdrawn. None of the checks of*)
(* the counts, the totals, the vault and the arithmetic then fails.        *)
FundedClaimsSucceed == \A v \in Version :
    IsFirst(v) /\ IsOpen(v) /\ MatchesTree(v) /\ IsSolvent(v) =>
        \A leaf \in Leaves[distributor[v].root] :
            LET c == leaf.claimant
            IN  IF ~HasClaimed(v, c) THEN CanClaim(v, leaf)
                ELSE Withdrawable(distributor[v], claim_status[v][c]) # 0
                       => CanWithdraw(v, c)

(* The inductive invariant behind it. In a distributor whose statuses are  *)
(* never closed num_nodes_claimed is exact, each holder took a leaf of its *)
(* own, and beside the bonuses the counter holds what is unlocked in those *)
(* leaves and what was withdrawn: a status alone does not tell the bonus   *)
(* from the unlocked amount.                                               *)
HoldersIn(statuses) == {c \in Claimant : statuses[c] # NoAccount}

WithoutBonus(statuses, taken) ==
    [c \in Claimant |-> IF statuses[c] = NoAccount THEN 0
                        ELSE taken[c].unlocked + statuses[c].locked_amount_withdrawn]

TookLeaves(statuses, d, taken) ==
    /\ \A c \in HoldersIn(statuses) : /\ taken[c].claimant = c
                                      /\ taken[c].locked = statuses[c].locked_amount
    /\ d.total_amount_claimed
         = d.total_claimed_bonus + SumOver(WithoutBonus(statuses, taken), Claimant)

LeavesTaken == \A v \in Version : IsFirst(v) /\ ~distributor[v].closable =>
    LET d == distributor[v]
        holders == HoldersIn(claim_status[v])
    IN  /\ d.num_nodes_claimed = Cardinality(holders)
        /\ \E taken \in [holders -> Leaves[d.root]] :
             TookLeaves(claim_status[v], d, taken)

(* Each distributor is an Escrow.                                          *)
EscrowOf(v) == INSTANCE Escrow WITH
    phase <- IF ~IsLive(v) THEN "absent"
             ELSE IF distributor[v].clawed_back THEN "swept" ELSE "open",
    pot <- balance[v],
    paid <- IF IsLive(v) THEN distributor[v].total_amount_claimed ELSE 0,
    cap <- IF IsLive(v) THEN distributor[v].max_total_claim ELSE 0

(* The program implements Escrow for every version: an open distributor's  *)
(* tokens leave only as counted payments under max_total_claim, or at once *)
(* by clawback or close_distributor, and a swept one pays nothing.         *)
ImplementsEscrow ==
    /\ \A v \in Version : EscrowOf(v)!Init
    /\ [][\A v \in Version : [EscrowOf(v)!Next]_(EscrowOf(v)!escrow)]_vars

(* A claimant of a funded distributor gets all locked tokens in the end, or*)
(* the distributor was swept or closed first; the time that passes and the *)
(* claimant's requests are the only fairness needed.                       *)
VestingCompletes == \A v \in Version, c \in Claimant :
    (IsFirst(v) /\ IsOpen(v) /\ MatchesTree(v) /\ IsSolvent(v) /\ HasClaimed(v, c))
        ~> (\/ ~IsOpen(v)
            \/ /\ HasClaimed(v, c)
               /\ claim_status[v][c].locked_amount_withdrawn
                    = claim_status[v][c].locked_amount)

--------------------------------------------------------------------------------
(* What comments of the program say and its code does not do *)

(* state/merkle_distributor.rs says of activation_point that the tree is   *)
(* activated from this slot or timestamp: no claim comes before.           *)
ClaimOnlyAfterActivation == [][
    \A v \in Version : IsOpen(v) /\ (\E c \in Claimant : claim_status'[v][c] # claim_status[v][c]
                                                        /\ claim_status'[v][c] # NoAccount)
        => distributor[v].activation_point <= curr_point(distributor[v])]_vars
================================================================================
