-------------------------------- MODULE MassSend --------------------------------
(***************************************************************************)
(* mass-send and resend of the command line tool: tokens are sent to the   *)
(* addresses of a list in batches, and a file remembers for each address   *)
(* the signature of the transaction it was put in. The RPC node answers or *)
(* not, a transaction lands, fails or expires on its own, and the tool may *)
(* die between any two of its steps.                                       *)
(***************************************************************************)
EXTENDS Naturals, SequencesExt, FiniteSetsExt

CONSTANTS
    Address,          \* strings of the list
    Valid,            \* those that parse as a public key
    Lists,            \* lists, one of which is read by parse_new_record
    MaxPerSend,       \* max_address_per_tx of mass-send
    MaxPerResend,     \* max_address_per_tx of resend
    MaxTransactions,  \* bound: transactions ever signed
    FaultKind,        \* what may go wrong: "crash", "send", "query", "settle"
    MaxFaults         \* bound: how often

ASSUME MassSendAssumption ==
    /\ IsFiniteSet(Address)
    /\ Valid \subseteq Address
    /\ Lists \subseteq Seq(Address)
    /\ {MaxPerSend, MaxPerResend, MaxTransactions} \subseteq Nat \ {0}
    /\ FaultKind \subseteq {"crash", "send", "query", "settle"}
    /\ MaxFaults \in Nat

VARIABLES
    csv,           \* the list
    transactions,  \* signature -> [to, status]; a signature is a position
    file,          \* des_path: address -> signature or NoSignature; or Truncated
    running,       \* "no", "mass_send" or "resend"
    sent,          \* the running tool's sent_addresses
    batches,       \* mass_send: batches not sent yet
    doubtful,      \* resend: groups of addresses not looked at yet
    writing,       \* "no", "create" or "write": where the tool is with the file
    faults,        \* how often something went wrong
    \* History, read by no guard:
    forgotten,     \* signatures sent whose addresses were never written down
    written_off    \* signatures that resend replaced while they were in flight

vars == <<csv, transactions, file, running, sent, batches, doubtful, writing, faults,
          forgotten, written_off>>
memory == <<sent, batches, doubtful, writing>>
history == <<forgotten, written_off>>

NoSignature == 0
Truncated == <<>>
Signature == 1 .. MaxTransactions
NothingSent == [a \in Address |-> NoSignature]

Init ==
    /\ csv \in Lists
    /\ transactions = <<>>
    /\ file = NothingSent
    /\ running = "no"
    /\ sent = NothingSent
    /\ batches = <<>>
    /\ doubtful = {}
    /\ writing = "no"
    /\ faults = 0
    /\ forgotten = {}
    /\ written_off = {}

Fault(kind) ==
    /\ kind \in FaultKind
    /\ faults < MaxFaults
    /\ faults' = faults + 1

Idle == writing = "no"

--------------------------------------------------------------------------------
(* send_for_batch_address *)

\* The addresses of a sequence that are chosen, in their order.
Selected(s, chosen) ==
    LET upto[i \in 0 .. Len(s)] ==
          IF i = 0 THEN <<>>
          ELSE IF s[i] \in chosen THEN Append(upto[i - 1], s[i]) ELSE upto[i - 1]
    IN  upto[Len(s)]

\* The addresses of a batch that are put into its transaction.
Qualified(batch) == Selected(batch, Valid)

SignAndSend(batch) ==
    /\ Len(transactions) < MaxTransactions
    /\ transactions' = Append(transactions,
                              [to |-> Qualified(batch), status |-> "pending"])

\* The node answers, and the batch goes into the map in memory, which the next
\* two steps of the tool write to the file.
SentBatch(batch) ==
    LET sig == Len(transactions) + 1
    IN  /\ SignAndSend(batch)
        /\ sent' = [a \in Address |->
                       IF a \in ToSet(Qualified(batch)) THEN sig ELSE sent[a]]
        /\ writing' = "create"
        /\ UNCHANGED <<forgotten, faults>>

\* send_transaction returns an error, which is printed: the node never got the
\* transaction, or only its answer was lost.
FailedBatch(batch) ==
    /\ Fault("send")
    /\ \/ UNCHANGED <<transactions, forgotten>>
       \/ /\ SignAndSend(batch)
          /\ forgotten' = forgotten \cup {Len(transactions) + 1}
    /\ UNCHANGED <<sent, writing>>

\* File::create empties the file, write_all fills it.
CreateFile ==
    /\ writing = "create"
    /\ file' = Truncated
    /\ writing' = "write"
    /\ UNCHANGED <<csv, transactions, running, sent, batches, doubtful, faults, history>>

FileLeftEmpty == UNCHANGED file
FileFilled == file' = sent

WriteFile ==
    /\ writing = "write"
    /\ FileFilled
    /\ writing' = "no"
    /\ UNCHANGED <<csv, transactions, running, sent, batches, doubtful, faults, history>>

--------------------------------------------------------------------------------
(* process_mass_send *)

Everyone(record) == csv
NotSentYet(record) == Selected(csv, {a \in Address : record[a] = NoSignature})

NumChunks(s, n) == (Len(s) + n - 1) \div n
Chunk(s, n, i) == SubSeq(s, (i - 1) * n + 1, Min({i * n, Len(s)}))

BatchesOf(s, n) == [i \in 1 .. NumChunks(s, n) |-> Chunk(s, n, i)]

StartMassSend ==
    /\ running = "no"
    /\ file # Truncated          \* else parse_send_addresse(..).unwrap() panics
    /\ running' = "mass_send"
    /\ sent' = file
    /\ batches' = BatchesOf(NotSentYet(file), MaxPerSend)
    /\ UNCHANGED <<csv, transactions, file, doubtful, writing, faults, history>>

SendBatch ==
    /\ running = "mass_send"
    /\ Idle
    /\ batches # <<>>
    /\ SentBatch(Head(batches)) \/ FailedBatch(Head(batches))
    /\ batches' = Tail(batches)
    /\ UNCHANGED <<csv, file, running, doubtful, written_off>>

--------------------------------------------------------------------------------
(* process_resend *)

\* The map turned around: the addresses of each signature. They are visited in
\* the order of a hash map, that is in any order.
GroupsOf(record) ==
    {[signature |-> sig, addresses |-> {a \in Address : record[a] = sig}] :
        sig \in {record[a] : a \in Address} \ {NoSignature}}

StartResend ==
    /\ running = "no"
    /\ file # Truncated
    /\ running' = "resend"
    /\ sent' = file
    /\ doubtful' = GroupsOf(file)
    /\ UNCHANGED <<csv, transactions, file, batches, writing, faults, history>>

ResendAll(status) == TRUE
ResendMissing(status) == status \in {"pending", "expired"}
\* There is no finalized status, because the transaction expired or because it
\* is still in flight; or the status is an error.
ShouldResend(status) == status # "ok"

\* All of a group, or as many as go into one transaction.
ResendBatches(addresses) ==
    {SetToSeq(some) : some \in
        kSubset(Min({Cardinality(addresses), MaxPerResend}), addresses)}

ResendGroup(group) ==
    LET status == transactions[group.signature].status
    IN  /\ ShouldResend(status)
        /\ \E batch \in ResendBatches(group.addresses) :
             SentBatch(batch) \/ FailedBatch(batch)
        /\ written_off' = IF status = "pending"
                          THEN written_off \cup {group.signature} ELSE written_off

\* The transaction is final, or the query for its status returns an error.
SkipGroup(group) ==
    /\ \/ ~ShouldResend(transactions[group.signature].status) /\ UNCHANGED faults
       \/ Fault("query")
    /\ UNCHANGED <<transactions, sent, writing, history>>

LookAtGroup ==
    /\ running = "resend"
    /\ Idle
    /\ \E group \in doubtful :
         /\ ResendGroup(group) \/ SkipGroup(group)
         /\ doubtful' = doubtful \ {group}
    /\ UNCHANGED <<csv, file, running, batches>>

--------------------------------------------------------------------------------
(* The end of a run, wanted or not, and the network *)

Forget ==
    /\ running' = "no"
    /\ sent' = NothingSent
    /\ batches' = <<>>
    /\ doubtful' = {}
    /\ writing' = "no"

Finish ==
    /\ running # "no"
    /\ Idle
    /\ batches = <<>> /\ doubtful = {}
    /\ Forget
    /\ UNCHANGED <<csv, transactions, file, faults, history>>

\* The tool dies, or one of its unwraps panics. A signature on its way into
\* the file is forgotten; the file stays as the last step left it.
Crash ==
    /\ running # "no"
    /\ Fault("crash")
    /\ Forget
    /\ forgotten' = IF Idle THEN forgotten ELSE forgotten \cup {Len(transactions)}
    /\ UNCHANGED <<csv, transactions, file, written_off>>

\* A transaction in flight is finalized or, with a fault, fails or expires.
Settle(sig) ==
    /\ sig <= Len(transactions)
    /\ transactions[sig].status = "pending"
    /\ \/ /\ transactions' = [transactions EXCEPT ![sig].status = "ok"]
          /\ UNCHANGED faults
       \/ /\ Fault("settle")
          /\ \E status \in {"failed", "expired"} :
               transactions' = [transactions EXCEPT ![sig].status = status]
    /\ UNCHANGED <<csv, file, running, memory, history>>

Step == SendBatch \/ LookAtGroup \/ CreateFile \/ WriteFile \/ Finish

Next ==
    \/ StartMassSend
    \/ StartResend
    \/ Step
    \/ Crash
    \/ \E sig \in Signature : Settle(sig)

Spec == Init /\ [][Next]_vars

\* The operator starts both commands again and again, resend at some point
\* when every transaction has settled, and the tool and the network go on.
InFlight == \E sig \in DOMAIN transactions : transactions[sig].status = "pending"
PatientSpec ==
    /\ Spec
    /\ SF_vars(StartMassSend)
    /\ SF_vars(StartResend /\ ~InFlight)
    /\ WF_vars(Step)
    /\ \A sig \in Signature : WF_vars(Settle(sig))
--------------------------------------------------------------------------------
(* Properties *)

PaidBy(sig, a) ==
    transactions[sig].status = "ok" /\ Contains(transactions[sig].to, a)

ListedOnce(a) == Cardinality({i \in DOMAIN csv : csv[i] = a}) = 1

\* Nobody is paid twice, whatever order of runs, deaths and failures, unless
\* the first payment was never written down, or resend took it for lost while
\* it was in flight (process_resend asks for a finalized status).
PaidTwiceOnlyIfLost == \A s, t \in DOMAIN transactions : \A a \in Address :
    s < t /\ ListedOnce(a) /\ PaidBy(s, a) /\ PaidBy(t, a)
        => s \in forgotten \cup written_off

\* Between two steps of the tool the file names, for each address, the last
\* transaction with it that was not forgotten: what mass_send skips and what
\* resend asks about.
LastOf(sigs, a) ==
    Max({sig \in sigs : Contains(transactions[sig].to, a)} \cup {NoSignature})
Remembered == DOMAIN transactions \ forgotten
LastWith(a) == LastOf(Remembered, a)

FileIsCurrent ==
    /\ Idle /\ running # "no" => file # Truncated
    /\ Idle /\ file # Truncated => \A a \in Address : file[a] = LastWith(a)

\* A patient operator gets every valid address paid, after transactions that
\* failed, answers that were lost, queries that were refused and deaths, unless
\* a death left the file empty, which no run of the tool repairs. (Or someone
\* needs one more transaction than the bound of the model allows.)
FileLost == running = "no" /\ file = Truncated
OnItsWayTo(a) == \E sig \in DOMAIN transactions :
    transactions[sig].status \in {"pending", "ok"} /\ Contains(transactions[sig].to, a)
BoundReached ==
    Len(transactions) = MaxTransactions /\ \E a \in ToSet(csv) \cap Valid : ~OnItsWayTo(a)
EveryonePaid ==
    <>(\/ \A a \in ToSet(csv) \cap Valid : \E sig \in DOMAIN transactions : PaidBy(sig, a)
       \/ FileLost
       \/ BoundReached)

--------------------------------------------------------------------------------
(* The inductive invariant behind the safety properties *)

Transaction == [to : Seq(Address), status : {"pending", "ok", "failed", "expired"}]
Group == [signature : Nat, addresses : SUBSET Address]

TypeOK ==
    /\ csv \in Seq(Address)
    /\ transactions \in Seq(Transaction)
    /\ file \in [Address -> Nat] \/ file = Truncated
    /\ running \in {"no", "mass_send", "resend"}
    /\ sent \in [Address -> Nat]
    /\ batches \in Seq(Seq(Address))
    /\ doubtful \subseteq Group
    /\ writing \in {"no", "create", "write"}
    /\ faults \in Nat
    /\ forgotten \subseteq DOMAIN transactions

\* The tool's map is up to date always, the file but for the signature that is
\* on its way into it.
Records(record, sigs) == \A a \in Address : record[a] = LastOf(sigs, a)
RecordKept ==
    /\ running # "no" => sent # Truncated /\ Records(sent, Remembered)
    /\ ~Idle => running # "no" /\ Len(transactions) \in Remembered
    /\ Idle /\ running # "no" => file = sent
    /\ Idle /\ file # Truncated => Records(file, Remembered)
    /\ writing = "create" =>
         file # Truncated /\ Records(file, Remembered \ {Len(transactions)})
    /\ writing = "write" => file = Truncated

\* Of two transactions with the same address the first is no longer waited for.
NeverAgain(sig) ==
    \/ sig \in forgotten \cup written_off
    \/ transactions[sig].status \in {"failed", "expired"}
Superseded == \A s, t \in DOMAIN transactions : \A a \in Address :
    /\ s < t /\ ListedOnce(a)
    /\ Contains(transactions[s].to, a) /\ Contains(transactions[t].to, a)
    => NeverAgain(s)

\* What is in a batch was not sent and is in no other batch.
BatchesNotSent == running = "mass_send" =>
    \A i \in DOMAIN batches : \A a \in ToSet(batches[i]) : ListedOnce(a) =>
        /\ sent[a] = NoSignature
        /\ \A k \in DOMAIN batches : a \in ToSet(batches[k]) => k = i

\* What is in a group is recorded with its signature.
GroupsCurrent == running = "resend" =>
    /\ \A group \in doubtful :
         /\ group.signature # NoSignature /\ group.addresses # {}
         /\ \A a \in group.addresses : sent[a] = group.signature
    /\ \A group, other \in doubtful :
         group.signature = other.signature => group = other

Inv == TypeOK /\ RecordKept /\ Superseded /\ BatchesNotSent /\ GroupsCurrent
================================================================================
