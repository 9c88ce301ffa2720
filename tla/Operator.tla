-------------------------------- MODULE Operator --------------------------------
(***************************************************************************)
(* The operator's commands together with the program they administer: any  *)
(* of them may be run after any other, with transactions of earlier ones   *)
(* still in flight.                                                        *)
(***************************************************************************)
EXTENDS NewDistributorClient

ToolStep == AdminStep \/ NewStep \/ RetryClawback \/ RetryNew

OperatorNext == StartCommand \/ ToolStep \/ Surroundings

OperatorSpec == ToolInit /\ [][OperatorNext]_all_vars

\* The tool goes on, blocks are finalized and transactions settle.
FairOperatorSpec ==
    /\ OperatorSpec
    /\ WF_all_vars(ToolStep)
    /\ WF_all_vars(Finalize)
    /\ WF_all_vars(\E tx \in in_flight : Settle(tx))
--------------------------------------------------------------------------------
(* Properties *)

\* The account is what new_distributor makes of the tree file and the options,
\* claims and sweeps apart.
AsMeant(d, v) ==
    LET a == Meant[v]
    IN  d = [NewAccount(a, command.signer, value, a.total_claim, 0, 0) EXCEPT
               !.total_amount_claimed = d.total_amount_claimed,
               !.num_nodes_claimed = d.num_nodes_claimed,
               !.clawed_back = d.clawed_back]

\* What the command is there for holds of a version.
Applied(v) ==
    LET d == distributor[v]
    IN  CASE At("close_distributor") -> d = NoAccount
          [] At("clawback") -> d # NoAccount /\ d.clawed_back
          [] At("new_distributor") -> d # NoAccount /\ AsMeant(d, v)
          [] At("verify") ->
               d # NoAccount /\ Verified(d, Meant[v], command.signer, value)
          [] At("by_time") -> d # NoAccount /\ (BySlot(d) => d.activation_point = value)
          [] At("set_admin") -> d # NoAccount /\ d.admin = value
          [] At("set_activation_point") -> d # NoAccount /\ d.activation_point = value
          [] At("set_clawback_receiver") ->
               d # NoAccount /\ d.clawback_receiver = value

\* It changed after the tool last looked, or the tool left it because of a block
\* older than a change, or without an answer, or a transaction is on its way.
OutOfSight(v) ==
    \/ v \in overtaken \cup misread \cup lost
    \/ \E tx \in in_flight : tx.version = v /\ tx.run = runs

\* close-distributor only prints that the program refused, and new-distributor
\* takes lamports for an account.
PassedOver(v) ==
    \/ /\ At("close_distributor")
       /\ IsLive(v) /\ (distributor[v].admin # command.signer \/ ~distributor[v].closable)
    \/ At("new_distributor") /\ v \in prefunded

\* A command that says it is done has brought every version it visits to what was
\* asked for, however repeated transactions, failed passes, transactions of
\* earlier commands and other people's instructions were ordered (main loops of
\* all commands). It does not promise that of a version
\*   - that others, or a transaction of an earlier command, changed after the
\*     command last looked at it;
\*   - that it left, as set already or gone, because the finalized block it read
\*     is older than a change that had been made by then (cli.rs:78);
\*   - whose transaction it did not wait for, while that is in flight or once it
\*     has failed;
\*   - where close-distributor got an error of the node, or a refusal;
\*   - that is missing when clawback comes to it, or comes after such a one;
\*   - whose address holds only lamports, for new-distributor.
DoneMeansApplied == pc = "done" =>
    \A v \in ToSet(VersionsOf(command)) : Applied(v) \/ OutOfSight(v) \/ PassedOver(v)

\* A version whose sweep is refused does not keep a clawback from the others: at
\* the end of a pass that failed, every version that was ready for it is swept
\* (process_clawback.rs:87-95 goes on after an error). Ready are the versions that
\* could be swept when the pass began and were so in the last finalized block, up
\* to the first one that is missing, holds only lamports or is not finalized: that
\* one ends the pass (:40-48). So does an error of the node at :41, :48 or :80,
\* after which nothing is promised; one while a sweep is sent spoils that version,
\* and so does a change by others.
OthersSweptToo == pc \in {"failed", "panicked"} /\ At("clawback") =>
    \A v \in ready : Applied(v)

\* The tool comes to rest, or it repeats for ever what the program refuses: a
\* setter with the key of someone who is not the admin never gives up, and
\* neither does one that names a receiver without a token account.
WrongKey ==
    /\ command.name \in Setters
    /\ todo # <<>>
    /\ IsLive(version)
    /\ distributor[version].admin # command.signer
    /\ At("set_admin") => distributor[version].admin # value
NoReceiver ==
    /\ At("set_clawback_receiver")
    /\ todo # <<>>
    /\ IsLive(version)
    /\ value \notin opened
ComesToRest == <>[](pc \notin Running) \/ <>[](WrongKey \/ NoReceiver)

\* The slot that set-activation-slot-by-time would ask for now is less than one
\* slot away from the time it was given, at the average length of a slot, unless
\* the distance in milliseconds is beyond u64, or the slot is, or the time is
\* longer ago than there have been slots: then the arithmetic wraps around.
SomeSlots == (0 .. 10 \cup (U64Max - 10) .. U64Max) \cap U64
SlotNearTime == \A samples \in Samples, time \in 0 .. 6, current \in SomeSlots :
    At("by_time") /\ pc = "look" /\ ~Slots!NoSlotInSample(samples) =>
        LET average == Slots!get_average_slot_time(samples)
            distance == (Slots!slot_at(time, unix_timestamp, current, average) - current)
                          * average
            exact == (time - unix_timestamp) * 1000
        IN  \/ exact - average < distance /\ distance < exact + average
            \/ exact > U64Max \/ -exact > U64Max
            \/ exact < -(current * average)
            \/ exact > (U64Max - current) * average

\* cli.rs gives set-admin a from_version and a to_version: when it is done every
\* version from the one to the other has the new admin.
SetAdminReachesAll == pc = "done" /\ At("set_admin") =>
    \A v \in command.from .. command.to : Applied(v) \/ OutOfSight(v)

--------------------------------------------------------------------------------
(* The inductive invariant behind the safety properties *)

Accounts == [Version -> MerkleDistributor \cup {NoAccount}]

IsTransaction(tx) ==
    /\ tx.name \in Names
    /\ tx.version \in Version
    /\ tx.signer \in Wallet
    /\ tx.value \in ValuesOf(tx.name)
    /\ tx.run \in 1 .. runs

\* The running command: what is left to do is left of what there was, in order
\* for clawback.
CommandTypeOK ==
    /\ IsCommand(command) /\ value \in ValuesOf(command.name)
    /\ pc \in {"send", "check"} => todo # <<>>
    /\ pc = "check" => At("new_distributor")
    /\ ToSet(todo) \subseteq ToSet(VersionsOf(command))
    /\ At("clawback") => \A i, j \in 1 .. Len(todo) : i <= j => todo[i] <= todo[j]

\* Every variable has its type.
ToolTypeOK ==
    /\ distributor \in Accounts /\ finalized \in Accounts
    /\ unix_timestamp \in Nat /\ slot \in Nat
    /\ session \in Sessions /\ runs \in 0 .. Len(session)
    /\ faults \in Nat /\ is_error \in BOOLEAN
    /\ pc \in Running \cup {"idle", "done", "panicked"}
    /\ \A tx \in in_flight : IsTransaction(tx)
    /\ todo \in Seq(Version)
    /\ ready \subseteq Version
    /\ IF runs = 0 THEN pc = "idle" ELSE CommandTypeOK

\* Nobody claims in this model, so no account has paid a bonus, which is what
\* new-distributor does not compare.
NoBonusPaid == \A v \in Version : IsLive(v) => distributor[v].total_claimed_bonus = 0

\* Transactions of the running command set what it sets. A clawback sends with
\* the receiver it read.
OwnTransactions == \A tx \in in_flight : tx.run = runs =>
    /\ tx.name = command.name
    /\ tx.signer = command.signer
    /\ At("clawback") \/ tx.value = value

Settled(v) == Applied(v) \/ OutOfSight(v) \/ PassedOver(v)
Behind == ToSet(VersionsOf(command)) \ ToSet(todo)

\* A pass without an error has settled every version behind it, and the one at
\* hand once its account was created; only such a pass says that it is done.
PassSettles ==
    /\ ~is_error => \A v \in Behind : Settled(v)
    /\ ~is_error /\ pc = "check" => Settled(version)
    /\ pc = "done" => todo = <<>> /\ ~is_error

\* What is ready for a clawback is swept or can be now, as the last finalized block
\* has it, and so is every version that the pass meets before it: none of them
\* ends the pass. The receiver that is sent is right, and no version that was
\* ready is left unswept behind.
ClawbackSweeps == At("clawback") =>
    /\ ready \subseteq command.from .. command.to
    /\ \A v \in ready : InReach(command, v) /\ (Applied(v) \/ IsSweepable(v))
    /\ pc = "send" /\ version \in ready =>
         Applied(version) \/ value = distributor[version].clawback_receiver
    /\ \A v \in ready \cap Behind : Applied(v)
    /\ pc \in {"failed", "panicked"} => \A v \in ready : Applied(v)

OperatorInv ==
    /\ ToolTypeOK
    /\ NoBonusPaid
    /\ runs = 0 => in_flight = {}
    /\ runs > 0 => OwnTransactions /\ PassSettles /\ ClawbackSweeps
================================================================================
