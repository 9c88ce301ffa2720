------------------------------- MODULE ClaimClient -------------------------------
(***************************************************************************)
(* The commands claim and claim-from-api, run again and again by one of the*)
(* claimants of a tree, beside everybody else who uses the program. claim  *)
(* makes two transactions of what is one wish, with reads before each;     *)
(* claim-from-api makes only the first. Every error ends the process.      *)
(***************************************************************************)
EXTENDS DistributorLedger

CONSTANTS
    tree,      \* the version of the tree file, or of the API's answer
    Users,     \* who may run the tool: [how, node, opened] as in the variables
    MaxFaults  \* bound: how often the node or the API fails or times out, the token
               \* account is opened or closed by other means, or lamports are sent

ASSUME ClientAssumption ==
    /\ tree \in Version
    /\ Users \subseteq [how : {"claim", "claim_from_api"}, node : Leaf, opened : BOOLEAN]
    /\ MaxFaults \in Nat

VARIABLES
    how,        \* the command of this claimant: "claim" or "claim_from_api"
    node,       \* the leaf of this claimant
    pc,         \* "idle" or what it does: "status", "account", "new", "locked"
    opens,      \* does the transaction create a token account?
    opened,     \* does the claimant's token account exist?
    nested,     \* does the one exist whose owner is that token account?
    prefunded,  \* does the address of the claim status hold lamports, and no account?
    in_flight,  \* what timed out and may land: nothing, or one transaction
    faults

client == <<how, node, pc, opens, in_flight, faults>>
accounts == <<opened, nested, prefunded>>
client_vars == <<vars, client, accounts>>

user == node.claimant
Status == claim_status[tree][user]
Nothing == [step |-> "none"]

ClientInit ==
    /\ Init
    /\ \E u \in Users : how = u.how /\ node = u.node /\ opened = u.opened
    /\ pc = "idle"
    /\ opens = FALSE
    /\ nested = FALSE
    /\ prefunded = FALSE
    /\ in_flight = Nothing
    /\ faults = 0

Fault == faults < MaxFaults /\ faults' = faults + 1
ReadOnly == UNCHANGED <<vars, accounts, how, node, in_flight>>

--------------------------------------------------------------------------------
(* The transactions *)

\* create_associated_token_account fails when the account exists. process_claim
\* creates that of the claimant; process_claim_from_api gives it as the wallet,
\* and so creates the account that belongs to the account.
OpensOwnAccount == how = "claim"

CreateAccount(create) ==
    IF ~create THEN UNCHANGED <<opened, nested>>
    ELSE IF OpensOwnAccount
         THEN ~opened /\ opened' = TRUE /\ UNCHANGED nested
         ELSE ~nested /\ nested' = TRUE /\ UNCHANGED opened

\* What lamports there were belong to the claim status once it exists.
StatusTakesLamports == prefunded' = (prefunded /\ claim_status'[tree][user] = NoAccount)

\* The program asks for a token account that exists.
NewClaimTx(create) ==
    /\ CreateAccount(create) /\ opened'
    /\ NewClaim(tree, node)
    /\ StatusTakesLamports
ClaimLockedTx == opened /\ ClaimLocked(tree, user) /\ UNCHANGED accounts

\* send_and_confirm_transaction_with_spinner(..).unwrap(): a refused transaction,
\* an error of the node and one that is not confirmed in time are all the same.
Confirm(Tx, next) ==
    \/ /\ Tx
       /\ pc' = next  \* "idle": it says that it claimed
       /\ UNCHANGED <<in_flight, faults>>
    \/ /\ ~ENABLED Tx
       /\ pc' = "idle"
       /\ UNCHANGED <<vars, accounts, in_flight, faults>>
    \/ /\ Fault
       /\ pc' = "idle"
       /\ \/ UNCHANGED in_flight
          \/ in_flight = Nothing /\ in_flight' = [step |-> pc, opens |-> opens]
       /\ UNCHANGED <<vars, accounts>>

--------------------------------------------------------------------------------
(* One process *)

StartClient ==
    /\ pc = "idle"
    /\ \/ /\ how = "claim"
          /\ pc' = "status"
          /\ UNCHANGED faults
       \/ /\ how = "claim_from_api"
          /\ \/ pc' = "account" /\ UNCHANGED faults
             \/ pc' = "idle" /\ Fault
    /\ ReadOnly /\ UNCHANGED opens

\* Any account at the address is taken for the claim status.
Exists(status) == status # NoAccount \/ prefunded

LookAtStatus ==
    /\ pc = "status"
    /\ \/ /\ pc' = IF Exists(Status) THEN "locked" ELSE "account"
          /\ UNCHANGED faults
       \/ pc' = "idle" /\ Fault
    /\ ReadOnly /\ UNCHANGED opens

\* process_new_claim tells a missing account from an error, the API command not.
LookAtAccount ==
    /\ pc = "account"
    /\ \/ pc' = "new" /\ opens' = ~opened /\ UNCHANGED faults
       \/ /\ Fault
          /\ IF how = "claim" THEN pc' = "idle" /\ UNCHANGED opens
             ELSE pc' = "new" /\ opens' = TRUE
    /\ ReadOnly

StopsAfterNewClaim == "idle"
AfterNewClaim == IF how = "claim" THEN "locked" ELSE "idle"

ConfirmNewClaim ==
    /\ pc = "new"
    /\ Confirm(NewClaimTx(opens), AfterNewClaim)
    /\ opens' = FALSE
    /\ UNCHANGED <<how, node>>

ConfirmClaimLocked ==
    /\ pc = "locked"
    /\ Confirm(ClaimLockedTx, "idle")
    /\ UNCHANGED <<how, node, opens>>

ClientStep == LookAtStatus \/ LookAtAccount \/ ConfirmNewClaim \/ ConfirmClaimLocked

--------------------------------------------------------------------------------
(* The cluster and everybody else *)

\* A transaction that timed out lands, or it fails or expires.
Land ==
    /\ \/ in_flight.step = "new" /\ NewClaimTx(in_flight.opens)
       \/ in_flight.step = "locked" /\ ClaimLockedTx
    /\ in_flight' = Nothing

Expire == in_flight # Nothing /\ in_flight' = Nothing /\ UNCHANGED <<vars, accounts>>

Settle == (Land \/ Expire) /\ UNCHANGED <<how, node, pc, opens, faults>>

\* The claimant may also claim by other means, into this token account or into
\* another one (balance counts what all of them hold).
ByOthers(A) == A /\ StatusTakesLamports /\ UNCHANGED <<client, opened, nested>>

\* Anybody may open the account of the claimant, who may close it.
OpenOrClose == opened' = ~opened /\ UNCHANGED prefunded

\* Anybody may send lamports to any address.
SendLamports ==
    /\ Status = NoAccount
    /\ ~prefunded /\ prefunded' = TRUE
    /\ UNCHANGED opened

ChangeAccounts ==
    /\ OpenOrClose \/ SendLamports
    /\ Fault
    /\ UNCHANGED <<vars, how, node, pc, opens, in_flight, nested>>

ClientNext ==
    \/ StartClient \/ ClientStep \/ Settle
    \/ ByOthers(Next) \/ ChangeAccounts

ClientSpec == ClientInit /\ [][ClientNext]_client_vars

\* The claimant runs the tool again and again, and time passes. Claimants that
\* do not use claim, or have no token account for it, ask for their locked tokens
\* by other means; each can do so only until nothing is locked, so that fairness
\* to all of them is enough.
FairClientSpec ==
    /\ ClientSpec
    /\ WF_client_vars(StartClient \/ ClientStep)
    /\ WF_client_vars(ByOthers(AdvanceTime))
    /\ WF_client_vars(\E v \in Version, c \in Claimant :
          (c # user \/ how # "claim" \/ ~opened) /\ ByOthers(ClaimLocked(v, c)))
--------------------------------------------------------------------------------
(* Properties *)

\* A process that says that it claimed: it ends without an error.
SaysClaimed ==
    /\ pc \in {"new", "locked"}
    /\ pc' = "idle"
    /\ vars' # vars

PaidUpToNow ==
    /\ Status # NoAccount
    /\ how = "claim" =>
         LET d == distributor[tree]
         IN  Status.locked_amount_withdrawn >=
               unlocked_amount(Status.locked_amount, unix_timestamp, d.start_ts, d.end_ts)

\* When a process says so, the claimant has the unlocked amount, and with claim
\* also all that has vested: no order of the reads, the two transactions and
\* those of earlier processes hides a payment that was not made (process_claim,
\* process_claim_from_api).
DoneMeansPaid == [][SaysClaimed => PaidUpToNow']_client_vars

Claimable == IsFirst(tree) /\ IsOpen(tree) /\ MatchesTree(tree) /\ IsSolvent(tree)

Paid ==
    /\ Status # NoAccount
    /\ how = "claim" => Status.locked_amount_withdrawn = Status.locked_amount

\* claim opens the token account only on the way to a new claim, claim-from-api
\* opens the wrong one.
NoTokenAccount == ~opened /\ (how = "claim_from_api" \/ Status # NoAccount)

\* claim takes lamports at the address of the claim status for a claim that was
\* made, and so never makes it.
LamportsOnly == how = "claim" /\ Status = NoAccount /\ prefunded

================================================================================
