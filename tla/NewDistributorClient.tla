-------------------------- MODULE NewDistributorClient --------------------------
(***************************************************************************)
(* new-distributor: for every tree file the distributor is created, or,    *)
(* where its address holds an account, compared with what was meant. The   *)
(* value of the command is the clawback receiver; the signer is the admin. *)
(***************************************************************************)
EXTENDS AdminCommands

CONSTANTS NewDistributorAttempts  \* 2: the loop is 1..2 and its body tries twice

\* check_distributor_onchain_matches. The base is part of the address.
OnchainMatches(d, a, admin, receiver) ==
    /\ d.root = a.root
    /\ d.max_total_claim = a.total_claim
    /\ d.max_num_nodes = a.max_num_nodes
    /\ d.start_ts = a.start_ts
    /\ d.end_ts = a.end_ts
    /\ d.clawback_start_ts = a.clawback_start_ts
    /\ d.activation_type = a.activation_type
    /\ d.activation_point = a.activation_point
    /\ d.closable = a.closable
    /\ d.total_bonus = 0
    /\ d.vesting_duration = 0
    /\ d.clawback_receiver = receiver
    /\ d.admin = admin

Passes(v) == OnchainMatches(distributor[v], Meant[v], command.signer, value)

\* rpc_client.get_account reads the account as it is now.
SawCurrent == SawIn(distributor) /\ lost' = lost \ {version}

\* An address without an account of the program passes when it holds lamports:
\* what is there does not deserialize.
LookNew ==
    /\ Looks({"new_distributor"})
    /\ \/ Fault("read") /\ Fail
       \/ IsLive(version) /\ Passes(version) /\ NextVersion /\ UNCHANGED faults
       \/ IsLive(version) /\ ~Passes(version) /\ Panic /\ UNCHANGED faults
       \/ ~IsLive(version) /\ ~IsMissing(version) /\ NextVersion /\ UNCHANGED faults
       \/ IsMissing(version) /\ ToSend /\ UNCHANGED faults
    /\ SawCurrent
    /\ LookedOnly /\ UNCHANGED <<value, ready>>

\* The client works with finalized accounts, and waits until its transaction is.
ConfirmNew ==
    /\ Sends({"new_distributor"})
    /\ ~command.skip_verify
    /\ \/ /\ ConfirmOk(finalized, Tx)
          /\ finalized' = distributor'
          /\ UNCHANGED is_error
       \/ ConfirmErr(finalized, Tx) /\ is_error' = TRUE
    /\ pc' = "check"
    /\ SentOnly /\ UNCHANGED <<todo, misread, lost, ready>>

SendNew ==
    /\ Sends({"new_distributor"})
    /\ command.skip_verify
    /\ \/ SendOk(finalized, Tx) /\ UNCHANGED is_error
       \/ SendErr(finalized, Tx) /\ is_error' = TRUE
    /\ NextVersion
    /\ SentOnly /\ UNCHANGED <<misread, lost, ready>>

\* The account is read back, after an error too. Where there is none it is not
\* compared, and the tool goes on.
CheckNew ==
    /\ pc = "check"
    /\ \/ Fault("read") /\ Fail /\ UNCHANGED <<overtaken, misread>>
       \/ /\ IsLive(version) /\ Passes(version) /\ NextVersion
          /\ SawIn(distributor) /\ UNCHANGED faults
       \/ /\ IsLive(version) /\ ~Passes(version) /\ Panic
          /\ SawIn(distributor) /\ UNCHANGED faults
       \/ ~IsLive(version) /\ NextVersion /\ UNCHANGED <<faults, overtaken, misread>>
    /\ LookedOnly /\ UNCHANGED <<value, lost, ready>>

RetryNew == At("new_distributor") /\ RetryUpTo(NewDistributorAttempts)

NewStep == LookNew \/ ConfirmNew \/ SendNew \/ CheckNew
================================================================================
