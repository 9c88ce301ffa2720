-------------------------------- MODULE FundAll --------------------------------
(***************************************************************************)
(* fund-all of the command line tool: for every tree file the vault of its *)
(* distributor is read and, if it holds less than max_total_claim, sent    *)
(* that amount. A round with an error is followed by another one. Between  *)
(* the tool's steps tokens are claimed and swept, and a transaction whose  *)
(* confirmation timed out may still land.                                  *)
(***************************************************************************)
EXTENDS Naturals, SequencesExt, FiniteSets

CONSTANTS
    Paths,          \* the versions of the tree files, in path order
    MaxTotalClaim,  \* version -> max_total_claim of its distributor
    SourceTokens,   \* what the source vault may hold at the start
    LoopBound,      \* 10: the loop is 1..10, reversed, and its last body tries twice
    FaultKind,      \* what may go wrong: "read", "blockhash", "refuse", "timeout"
    MaxFaults,      \* bound: how often
    MaxSpent        \* bound: tokens claimed of a vault

Version == ToSet(Paths)

ASSUME FundAllAssumption ==
    /\ Paths \in Seq(Nat) /\ Len(Paths) = Cardinality(Version)
    /\ MaxTotalClaim \in [Version -> Nat]
    /\ SourceTokens \subseteq Nat
    /\ {MaxFaults, MaxSpent} \subseteq Nat
    /\ LoopBound \in Nat \ {0}
    /\ FaultKind \subseteq {"read", "blockhash", "refuse", "timeout"}

VARIABLES
    source,     \* tokens in the source vault
    vault,      \* version -> tokens in the vault
    received,   \* version -> tokens ever sent to the vault
    claimed,    \* version -> tokens claimed
    swept,      \* versions whose vault was swept
    in_flight,  \* version -> transfers that timed out and may still land
    pc,         \* "looking", "sending", "failed", "done", "gave_up" or "panicked"
    attempt,    \* calls of fund_all, this one included
    position,   \* the tree file at hand
    is_error,
    timed_out,  \* history: versions of which a transfer timed out
    faults

vars == <<source, vault, received, claimed, swept, in_flight, pc, attempt, position,
          is_error, timed_out, faults>>
chain == <<source, vault, received, claimed, swept, in_flight>>

Init ==
    /\ source \in SourceTokens
    /\ vault = [v \in Version |-> 0]
    /\ received = [v \in Version |-> 0]
    /\ claimed = [v \in Version |-> 0]
    /\ swept = {}
    /\ in_flight = [v \in Version |-> 0]
    /\ pc = "looking"
    /\ attempt = 1
    /\ position = 1
    /\ is_error = FALSE
    /\ timed_out = {}
    /\ faults = 0

Fault(kind) ==
    /\ kind \in FaultKind
    /\ faults < MaxFaults
    /\ faults' = faults + 1

version == Paths[position]
AtFile == position <= Len(Paths)

--------------------------------------------------------------------------------
(* fund_all *)

FundedIfMore(v) == vault[v] > MaxTotalClaim[v]
\* "already fund"
Funded(v) == vault[v] >= MaxTotalClaim[v]

Look ==
    /\ pc = "looking"
    /\ AtFile
    /\ IF Funded(version) THEN position' = position + 1 /\ UNCHANGED pc
                          ELSE pc' = "sending" /\ UNCHANGED position
    /\ UNCHANGED <<chain, attempt, is_error, timed_out, faults>>

\* An account cannot be read: the round ends at once.
LookFails ==
    /\ pc = "looking"
    /\ AtFile
    /\ Fault("read")
    /\ pc' = "failed"
    /\ UNCHANGED <<chain, attempt, position, is_error, timed_out>>

Landed(v) ==
    /\ source >= MaxTotalClaim[v]
    /\ source' = source - MaxTotalClaim[v]
    /\ vault' = [vault EXCEPT ![v] = @ + MaxTotalClaim[v]]
    /\ received' = [received EXCEPT ![v] = @ + MaxTotalClaim[v]]

Confirmed ==
    /\ Landed(version)
    /\ UNCHANGED <<in_flight, timed_out, faults>>

Refused ==
    /\ \/ Fault("refuse")
       \/ source < MaxTotalClaim[version] /\ UNCHANGED faults
    /\ UNCHANGED <<source, vault, received, in_flight, timed_out>>

TimedOut ==
    /\ Fault("timeout")
    /\ in_flight' = [in_flight EXCEPT ![version] = @ + 1]
    /\ timed_out' = timed_out \cup {version}
    /\ UNCHANGED <<source, vault, received>>

LastResult(failed) == is_error' = failed
AnyError(failed) == is_error' = (is_error \/ failed)

Send ==
    /\ pc = "sending"
    /\ \/ Confirmed /\ AnyError(FALSE)
       \/ (Refused \/ TimedOut) /\ AnyError(TRUE)
    /\ position' = position + 1
    /\ pc' = "looking"
    /\ UNCHANGED <<claimed, swept, attempt>>

\* get_latest_blockhash is unwrapped: the process dies, with attempts left or not.
BlockhashFails ==
    /\ pc = "sending"
    /\ Fault("blockhash")
    /\ pc' = "panicked"
    /\ UNCHANGED <<chain, attempt, position, is_error, timed_out>>

EndRound ==
    /\ pc = "looking"
    /\ ~AtFile
    /\ pc' = IF is_error THEN "failed" ELSE "done"
    /\ UNCHANGED <<chain, attempt, position, is_error, timed_out, faults>>

--------------------------------------------------------------------------------
(* process_fund_all *)

NoExtraAttempt == LoopBound - 1
\* Every i of the loop has one call, i = 1 another one if that fails.
LastAttempt == LoopBound

Retry ==
    /\ pc = "failed"
    /\ IF attempt < LastAttempt
       THEN /\ pc' = "looking"
            /\ attempt' = attempt + 1
            /\ position' = 1
            /\ is_error' = FALSE
       ELSE pc' = "gave_up" /\ UNCHANGED <<attempt, position, is_error>>
    /\ UNCHANGED <<chain, timed_out, faults>>

--------------------------------------------------------------------------------
(* What happens to the vaults meanwhile *)

Claim(v) ==
    /\ vault[v] > 0
    /\ claimed[v] < MaxSpent /\ claimed[v] < MaxTotalClaim[v]
    /\ v \notin swept
    /\ vault' = [vault EXCEPT ![v] = @ - 1]
    /\ claimed' = [claimed EXCEPT ![v] = @ + 1]
    /\ UNCHANGED <<source, received, swept, in_flight, pc, attempt, position, is_error,
                   timed_out, faults>>

Sweep(v) ==
    /\ MaxSpent > 0
    /\ v \notin swept
    /\ swept' = swept \cup {v}
    /\ vault' = [vault EXCEPT ![v] = 0]
    /\ UNCHANGED <<source, received, claimed, in_flight, pc, attempt, position, is_error,
                   timed_out, faults>>

\* A transfer that timed out lands after all, or never does.
Settle(v) ==
    /\ in_flight[v] > 0
    /\ in_flight' = [in_flight EXCEPT ![v] = @ - 1]
    /\ Landed(v) \/ UNCHANGED <<source, vault, received>>
    /\ UNCHANGED <<claimed, swept, pc, attempt, position, is_error, timed_out, faults>>

Step == Look \/ LookFails \/ Send \/ BlockhashFails \/ EndRound \/ Retry

Next ==
    \/ Step
    \/ \E v \in Version : Claim(v) \/ Sweep(v) \/ Settle(v)

Spec == Init /\ [][Next]_vars

\* The tool goes on.
FairSpec == Spec /\ WF_vars(Step)
--------------------------------------------------------------------------------
(* Properties *)

\* When the tool says that it is done every vault was sent what its claimants
\* are entitled to, whatever failed in which round.
FundedWhenDone == pc = "done" => \A v \in Version : received[v] >= MaxTotalClaim[v]

\* A vault is sent that amount once, except that a transfer that timed out may
\* land beside its repetition, and that a vault that was drawn from looks as
\* if it had never been funded.
FundedOnce == \A v \in Version :
    received[v] > MaxTotalClaim[v] =>
        v \in timed_out \/ claimed[v] > 0 \/ v \in swept

\* Fewer than LoopBound faults never make the tool give up: if the source holds
\* enough for every attempt to send everything again, it funds all vaults in the
\* end, or dies at once of a blockhash that it could not get, which no attempt
\* is left to make good (process_fund_all, the unwrap in fund_all).
Enough == source >= LoopBound * FoldLeft(LAMBDA sum, v : sum + MaxTotalClaim[v], 0, Paths)
FundsInTheEnd == Enough /\ MaxFaults < LoopBound => <>(pc \in {"done", "panicked"})

--------------------------------------------------------------------------------
(* The inductive invariant behind the safety properties *)

TypeOK ==
    /\ source \in Nat
    /\ {vault, received, claimed, in_flight} \subseteq [Version -> Nat]
    /\ swept \subseteq Version /\ timed_out \subseteq Version
    /\ pc \in {"looking", "sending", "failed", "done", "gave_up", "panicked"}
    /\ attempt \in 1 .. LastAttempt
    /\ position \in 1 .. Len(Paths) + 1
    /\ is_error \in BOOLEAN
    /\ faults \in Nat

\* A file is being sent to, or the round has gone past the last one.
InRound == pc \in {"looking", "sending"}
AtHand ==
    /\ pc = "sending" => AtFile
    /\ pc = "done" => ~is_error /\ position = Len(Paths) + 1

\* A vault holds nothing that it was not sent.
VaultBacked == \A v \in Version : vault[v] <= received[v]

\* In a round without an error so far all files behind were seen to be funded.
FundedBehind ==
    InRound \/ pc = "done" => \/ is_error
                              \/ \A p \in 1 .. position - 1 :
                                   received[Paths[p]] >= MaxTotalClaim[Paths[p]]

\* A vault that nobody touched and no lost transfer may reach holds what it was
\* sent, which is nothing or the full amount; the tool sends to an empty one.
Untouched(v) == v \notin timed_out \cup swept /\ claimed[v] = 0
OnceOrNever == \A v \in Version :
    /\ in_flight[v] > 0 => v \in timed_out
    /\ Untouched(v) => /\ vault[v] = received[v]
                       /\ received[v] \in {0, MaxTotalClaim[v]}
                       /\ pc = "sending" /\ v = version => received[v] = 0

Inv == TypeOK /\ AtHand /\ VaultBacked /\ FundedBehind /\ OnceOrNever
================================================================================
