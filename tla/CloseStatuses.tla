----------------------------- MODULE CloseStatuses -----------------------------
(***************************************************************************)
(* close-claim-status of the command line tool: the closable claim         *)
(* statuses of all distributors and admins are listed once and closed in   *)
(* batches. A batch that was sent may land, expire, or fail because        *)
(* another one closed a status of it before.                               *)
(***************************************************************************)
EXTENDS Naturals, SequencesExt, FiniteSetsExt

CONSTANTS
    Status,     \* addresses of claim statuses
    Mine,       \* which of them may be those with the tool's keypair as admin
    Closable,   \* which of them may be closable
    BatchSize,  \* 11: numer_of_close_ix_per_transaction
    MaxFit,     \* 13: instructions of this kind that fit into a transaction
    FaultKind,  \* what may go wrong: "refuse", "lost_answer", "expire"
    MaxFaults,  \* bound: how often
    MaxWaiting  \* bound: batches in flight when the tool is started

ASSUME CloseAssumption ==
    /\ IsFiniteSet(Status)
    /\ Mine \subseteq SUBSET Status /\ Closable \subseteq SUBSET Status
    /\ {BatchSize, MaxFit} \subseteq Nat \ {0} /\ BatchSize <= MaxFit
    /\ FaultKind \subseteq {"refuse", "lost_answer", "expire"}
    /\ {MaxFaults, MaxWaiting} \subseteq Nat

VARIABLES
    open,       \* the statuses that exist
    mine,       \* those whose admin is the tool's keypair
    closable,   \* those with closable set
    running,
    listed,     \* claim_status_accounts_iter: what is left of the list
    close_ixs,  \* the statuses in the instructions collected
    in_flight,  \* batches that the node took
    faults,
    \* History, read by no guard:
    taken,      \* statuses of this run taken from the list
    accepted,   \* statuses of this run in a batch that was sent without error
    undisturbed \* no fault since the start of the run, nothing in flight then

vars == <<open, mine, closable, running, listed, close_ixs, in_flight, faults,
          taken, accepted, undisturbed>>

Init ==
    /\ open = Status
    /\ mine \in Mine
    /\ closable \in Closable
    /\ running = FALSE
    /\ listed = <<>>
    /\ close_ixs = <<>>
    /\ in_flight = {}
    /\ faults = 0
    /\ taken = {} /\ accepted = {}
    /\ undisturbed = FALSE

Fault(kind) ==
    /\ kind \in FaultKind
    /\ faults < MaxFaults
    /\ faults' = faults + 1
    /\ undisturbed' = FALSE

NoFault == UNCHANGED <<faults, undisturbed>>

--------------------------------------------------------------------------------
(* process_close_claim_status *)

\* The filter is on closable alone: statuses of other admins are in the list.
Start ==
    /\ ~running
    /\ Cardinality(in_flight) <= MaxWaiting
    /\ running' = TRUE
    /\ listed' \in SetToSeqs(open \cap closable)
    /\ close_ixs' = <<>>
    /\ taken' = {} /\ accepted' = {}
    /\ undisturbed' = (in_flight = {})
    /\ UNCHANGED <<open, mine, closable, in_flight, faults>>

\* The simulation of a transaction that fits: CloseClaimStatus for each status.
Closes(batch) == batch \subseteq open \cap mine \cap closable
Simulates(ixs) == Len(ixs) <= MaxFit /\ Closes(ToSet(ixs))

KeptAfterSend(ixs) == ixs
AfterSend(ixs) == <<>>
ClearedOnError(ixs) == <<>>
AfterError(ixs) == ixs

SentOk(ixs) ==
    /\ Simulates(ixs)
    /\ in_flight' = in_flight \cup {ToSet(ixs)}
    /\ accepted' = accepted \cup ToSet(ixs)
    /\ close_ixs' = AfterSend(ixs)
    /\ NoFault

\* The error may hide that the node took the batch.
SentWithError(ixs) ==
    /\ \/ ~Simulates(ixs) /\ NoFault /\ UNCHANGED in_flight
       \/ Fault("refuse") /\ UNCHANGED in_flight
       \/ /\ Fault("lost_answer")
          /\ Simulates(ixs)
          /\ in_flight' = in_flight \cup {ToSet(ixs)}
    /\ close_ixs' = AfterError(ixs)
    /\ UNCHANGED accepted

IsFull(ixs) == Len(ixs) >= BatchSize

Take ==
    /\ running
    /\ listed # <<>>
    /\ LET ixs == Append(close_ixs, Head(listed))
       IN  IF IsFull(ixs)
           THEN SentOk(ixs) \/ SentWithError(ixs)
           ELSE close_ixs' = ixs /\ NoFault /\ UNCHANGED <<in_flight, accepted>>
    /\ taken' = taken \cup {Head(listed)}
    /\ listed' = Tail(listed)
    /\ UNCHANGED <<open, mine, closable, running>>

NothingRemains(ixs) == FALSE
SomeRemain(ixs) == Len(ixs) > 0

\* The rest is sent and confirmed.
Finish ==
    /\ running
    /\ listed = <<>>
    /\ IF SomeRemain(close_ixs)
       THEN SentOk(close_ixs) \/ SentWithError(close_ixs)
       ELSE UNCHANGED <<close_ixs, in_flight, accepted, faults, undisturbed>>
    /\ running' = FALSE
    /\ UNCHANGED <<open, mine, closable, listed, taken>>

--------------------------------------------------------------------------------
(* The chain *)

Land(batch) ==
    /\ batch \in in_flight
    /\ in_flight' = in_flight \ {batch}
    /\ open' = IF Closes(batch) THEN open \ batch ELSE open
    /\ UNCHANGED <<mine, closable, running, listed, close_ixs, faults,
                   taken, accepted, undisturbed>>

Expire(batch) ==
    /\ batch \in in_flight
    /\ Fault("expire")
    /\ in_flight' = in_flight \ {batch}
    /\ UNCHANGED <<open, mine, closable, running, listed, close_ixs,
                   taken, accepted>>

Step == Take \/ Finish

Next ==
    \/ Start
    \/ Step
    \/ \E batch \in SUBSET Status : Land(batch) \/ Expire(batch)

Spec == Init /\ [][Next]_vars

\* The operator starts the tool again and again, not waiting for the batches of
\* the run before; the tool and the chain go on.
FairSpec ==
    /\ Spec
    /\ WF_vars(Start)
    /\ WF_vars(Step)
    /\ \A batch \in SUBSET Status : WF_vars(Land(batch))
--------------------------------------------------------------------------------
(* Properties *)

\* A batch that was not accepted stays in close_ixs for the next attempt: no
\* status of the list is passed over without being sent.
NonePassedOver == taken = accepted \cup ToSet(close_ixs)

\* A run without faults closes every closable status, if all have the tool's
\* admin: one of another admin spoils its batch and with it all that follow.
Quiet == ~running /\ in_flight = {}
AllClosed == Quiet /\ undisturbed /\ closable \subseteq mine => open \cap closable = {}

\* Runs that are repeated close everything in the end in spite of faults, also
\* when they overlap with batches in flight.
ClosedInTheEnd == closable \subseteq mine => <>(open \cap closable = {})

--------------------------------------------------------------------------------
(* The inductive invariant behind the safety properties *)

TypeOK ==
    /\ {open, mine, closable, taken, accepted} \subseteq SUBSET Status
    /\ running \in BOOLEAN /\ undisturbed \in BOOLEAN
    /\ listed \in Seq(Status) /\ close_ixs \in Seq(Status)
    /\ in_flight \subseteq SUBSET Status
    /\ faults \in Nat
    /\ ~running => listed = <<>>

\* While nothing disturbs a run, each closable status is in one place: in the
\* rest of the list, among the instructions collected or in one batch.
ListedAndCollected == ToSet(listed) \cup ToSet(close_ixs)
InOnePlace ==
    /\ open \cap closable = ListedAndCollected \cup UNION in_flight
    /\ IsInjective(listed)
    /\ ToSet(listed) \cap ToSet(close_ixs) = {}
    /\ \A batch \in in_flight : batch \cap ListedAndCollected = {}
    /\ \A batch, other \in in_flight : batch # other => batch \cap other = {}

\* No batch was refused then, so the instructions collected are few.
Undisturbed == undisturbed /\ closable \subseteq mine =>
    /\ InOnePlace
    /\ Len(close_ixs) < BatchSize
    /\ ~running => close_ixs = <<>>

Inv == TypeOK /\ NonePassedOver /\ Undisturbed
================================================================================
