---------------------------- MODULE ToolTransactions ----------------------------
(***************************************************************************)
(* What the commands of the command line tool that manage distributors     *)
(* share: one command runs at a time, it visits a list of versions, reads  *)
(* their accounts and sends one transaction for each. The tool reads       *)
(* accounts as of the last finalized block or as they are now, a           *)
(* transaction it does not wait for lands later or never, and other people *)
(* use the program meanwhile.                                              *)
(***************************************************************************)
EXTENDS Distributor, SequencesExt

CONSTANTS
    Sessions,     \* sequences of command lines, one of which is run: a bound
    Paths,        \* airdrop_version of the tree files, in path order
    Meant,        \* version -> the arguments that its tree file and the options give
    Opened,       \* the token accounts of the mint that exist at the start
    Prefunded,    \* sets of versions to whose address somebody sends lamports
                  \* whenever it has no account
    FaultKind,    \* what may go wrong: "read", "send", "timeout", "drop"
    MaxSurprises  \* bound: how often that, or an instruction of others, happens in one

ASSUME ToolAssumption ==
    /\ Version \subseteq Nat
    /\ Paths \in Seq(Version)
    /\ Meant \in [Version -> DeployArg]
    /\ Opened \subseteq TokenAccount
    /\ Prefunded \subseteq SUBSET Version
    /\ \A s \in Sessions : MaxSurprises[s] \in Nat
    /\ FaultKind \subseteq {"read", "send", "timeout", "drop"}

VARIABLES
    session,    \* the command lines
    runs,       \* how many of them were started
    command,    \* the one that runs, or that ran last
    pc,         \* "idle", "look", "send", "check", "failed", "done" or "panicked"
    todo,       \* versions not visited yet, the one at hand first
    value,      \* what the transactions set
    attempt,    \* calls of the function that is retried, this one included
    is_error,
    in_flight,  \* transactions that were sent and have not settled
    sent,       \* how many were ever in flight
    opened,     \* the token accounts of the mint that exist
    prefunded,  \* versions whose address holds lamports whenever it has no account
    finalized,  \* the distributor accounts in the last finalized block
    faults,     \* how often something went wrong
    others,     \* instructions that others sent
    \* History, read by no guard:
    overtaken,  \* versions that others, or a transaction of an earlier command,
                \* changed since the running command last looked at them
    misread,    \* versions that it left because of a block older than a change
    lost,       \* versions of which it lost a transaction or a look
    ready       \* versions that the pass under way of a clawback has to sweep

tool == <<session, runs, command, pc, todo, value, attempt, is_error, in_flight,
          sent, prefunded, faults, others, overtaken, misread, lost, ready>>
chain == <<vars, opened>>
all_vars == <<chain, tool, finalized>>
network == <<in_flight, sent>>
settings == <<session, command, runs, others, prefunded>>

Running == {"look", "send", "check", "failed"}

ToolInit ==
    /\ Init
    /\ session \in Sessions
    /\ command = [name |-> "none"]
    /\ pc = "idle"
    /\ todo = <<>>
    /\ value = NoAccount
    /\ attempt = 0
    /\ is_error = FALSE
    /\ in_flight = {}
    /\ sent = 0
    /\ opened = Opened
    /\ prefunded \in Prefunded
    /\ finalized = distributor
    /\ runs = 0
    /\ faults = 0
    /\ others = 0
    /\ overtaken = {}
    /\ misread = {}
    /\ lost = {}
    /\ ready = {}

Fault(kind) ==
    /\ kind \in FaultKind
    /\ faults + others < MaxSurprises[session]
    /\ faults' = faults + 1

version == Head(todo)
At(name) == command.name = name
NextVersion == todo' = Tail(todo) /\ pc' = "look"

--------------------------------------------------------------------------------
(* Transactions: one instruction for the version at hand *)

Tx == [name |-> command.name, version |-> version, signer |-> command.signer,
       value |-> value, run |-> runs, id |-> sent + 1]

Opens(accounts) == opened' = opened \cup accounts

\* The effect on chain. by_time is a set_activation_point. new_distributor and
\* close_distributor create on the way the token accounts that they name,
\* set_clawback_receiver asks for one that exists.
Executes(tx) ==
    \/ /\ tx.name = "new_distributor"
       /\ NewDistributor(tx.version, Meant[tx.version], tx.signer, tx.value)
       /\ Opens({tx.version, tx.value})
    \/ tx.name = "set_admin" /\ SetAdmin(tx.version, tx.signer, tx.value) /\ Opens({})
    \/ /\ tx.name \in {"set_activation_point", "by_time"}
       /\ SetActivationPoint(tx.version, tx.signer, tx.value)
       /\ Opens({})
    \/ /\ tx.name = "set_clawback_receiver"
       /\ tx.value \in opened
       /\ SetClawbackReceiver(tx.version, tx.signer, tx.value)
       /\ Opens({})
    \/ /\ tx.name = "clawback"
       /\ IsLive(tx.version) /\ tx.value = distributor[tx.version].clawback_receiver
       /\ Clawback(tx.version)
       /\ Opens({})
    \/ /\ tx.name = "close_distributor"
       /\ CloseDistributor(tx.version, tx.signer, tx.value)
       /\ Opens({tx.value})

\* Does the transaction succeed with these accounts? The guards of Executes.
Accepts(account, tx) ==
    LET d == account[tx.version]
        byAdmin == d # NoAccount /\ d.admin = tx.signer
    IN  CASE tx.name = "new_distributor" ->
               d = NoAccount /\ ScheduleValid(unix_timestamp, Meant[tx.version])
          [] tx.name = "set_admin" -> byAdmin /\ tx.signer # tx.value
          [] tx.name = "set_clawback_receiver" ->
               byAdmin /\ tx.value \in opened /\ d.clawback_receiver # tx.value
          [] tx.name = "clawback" ->
               /\ d # NoAccount
               /\ ~d.clawed_back /\ ClawbackStarted(unix_timestamp, d)
               /\ tx.value = d.clawback_receiver
          [] tx.name = "close_distributor" -> byAdmin /\ d.closable
          [] OTHER -> byAdmin

LeftInFlight(tx) == in_flight' = in_flight \cup {tx} /\ sent' = sent + 1

\* send_transaction: the node simulates on its view of the accounts and answers.
SendOk(view, tx) ==
    /\ Accepts(view, tx)
    /\ LeftInFlight(tx)
    /\ UNCHANGED <<chain, finalized, faults>>

SendErr(view, tx) ==
    /\ \/ ~Accepts(view, tx) /\ UNCHANGED <<faults, network>>
       \/ Fault("send") /\ UNCHANGED network
       \/ Accepts(view, tx) /\ Fault("send") /\ LeftInFlight(tx)
    /\ UNCHANGED <<chain, finalized>>

\* send_and_confirm_transaction_with_spinner: also waits until it has landed.
ConfirmOk(view, tx) ==
    /\ Accepts(view, tx)
    /\ Executes(tx)
    /\ UNCHANGED <<faults, network>>

ConfirmErr(view, tx) ==
    /\ \/ /\ ~Accepts(view, tx) \/ ~Accepts(distributor, tx)
          /\ UNCHANGED <<faults, network>>
       \/ Fault("send") /\ UNCHANGED network
       \/ Accepts(view, tx) /\ Fault("timeout") /\ LeftInFlight(tx)
    /\ UNCHANGED <<chain, finalized>>

--------------------------------------------------------------------------------
(* The cluster and everybody else *)

\* Somebody else changed a version. A clawback that runs need not sweep it any
\* more in this pass, nor what comes after it if it is gone.
ChangedByOthers(v) ==
    /\ overtaken' = overtaken \cup {v}
    /\ ready' = {u \in ready : u # v /\ (v < u => distributor'[v] # NoAccount)}

\* A transaction in flight lands, fails or expires.
Lands(tx) ==
    /\ Executes(tx)
    /\ IF tx.run = runs THEN UNCHANGED <<overtaken, ready>> ELSE ChangedByOthers(tx.version)
    /\ UNCHANGED <<faults, lost>>

Fails(tx) ==
    /\ \/ ~Accepts(distributor, tx) /\ UNCHANGED faults
       \/ Fault("drop")
    /\ lost' = IF tx.run = runs THEN lost \cup {tx.version} ELSE lost
    /\ UNCHANGED <<chain, overtaken, ready>>

Settle(tx) ==
    /\ Lands(tx) \/ Fails(tx)
    /\ in_flight' = in_flight \ {tx}
    /\ UNCHANGED <<settings, pc, todo, value, attempt, is_error, sent, finalized, misread>>

Finalize ==
    /\ finalized # distributor
    /\ finalized' = distributor
    /\ UNCHANGED <<chain, tool>>

\* The token accounts that a distributor names exist, or are created with it.
NamedBy(v) == IF IsLive(v) THEN {v, distributor[v].clawback_receiver} ELSE {}

OthersAct ==
    /\ faults + others < MaxSurprises[session]
    /\ others' = others + 1
    /\ \/ \E v \in Version :
            /\ Deploy(v) \/ Clawback(v) \/ Administer(v)
            /\ ChangedByOthers(v)
            /\ Opens(NamedBy(v)')
       \/ /\ \E a \in TokenAccount \ opened : Opens({a})
          /\ UNCHANGED <<vars, overtaken, ready>>
    /\ UNCHANGED <<session, command, pc, todo, value, attempt, is_error, network,
                   prefunded, finalized, runs, faults, misread, lost>>

Surroundings ==
    \/ \E tx \in in_flight : Settle(tx)
    \/ Finalize
    \/ OthersAct
    \/ /\ \/ AdvanceTime \/ AdvanceSlot
          \/ \E v \in Version, amount \in Deposits : Deposit(v, amount)
       /\ UNCHANGED <<tool, opened, finalized>>
================================================================================
