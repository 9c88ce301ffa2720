----------------------------- MODULE AdminCommands -----------------------------
(***************************************************************************)
(* set-admin, set-activation-point, set-activation-slot-by-time,           *)
(* set-clawback-receiver, clawback, close-distributor and verify. A command*)
(* is a record of its name, the signer, the value it sets, and either from *)
(* and to, or only: the versions of the tree files it does not filter out, *)
(* or a single airdrop_version.                                            *)
(***************************************************************************)
EXTENDS ToolTransactions

CONSTANTS
    Samples,           \* the answers to get_recent_performance_samples
    ClawbackAttempts   \* 10: the loop is 1..10, reversed, and its last body tries twice

Slots == INSTANCE SlotByTime WITH SlotMax <- U64Max

Names == {"new_distributor", "set_admin", "set_activation_point", "by_time",
          "set_clawback_receiver", "clawback", "close_distributor", "verify"}

RangeOf(first, last) == [i \in 1 .. (last - first + 1) |-> first + i - 1]
FilesOf(c) == SelectSeq(Paths, LAMBDA v : v \in c.only)

ToVersion(c) == c.to
\* set-admin reads from_version for both ends.
SetAdminToVersion(c) == c.from

VersionsOf(c) ==
    CASE c.name = "set_admin" -> RangeOf(c.from, SetAdminToVersion(c))
      [] c.name \in {"set_activation_point", "clawback"} -> RangeOf(c.from, ToVersion(c))
      [] c.name = "by_time" /\ "airdrop_version" \in DOMAIN c -> <<c.airdrop_version>>
      [] OTHER -> FilesOf(c)

ValuesOf(name) ==
    CASE name = "set_admin" -> Wallet
      [] name \in {"set_activation_point", "by_time"} -> U64
      [] OTHER -> TokenAccount

\* The command lines that are run visit versions of this model.
IsCommand(c) ==
    /\ c.name \in Names
    /\ c.signer \in Wallet
    /\ IF c.name = "by_time" THEN c.value \in Int ELSE c.value \in ValuesOf(c.name)
    /\ VersionsOf(c) \in Seq(Version)
    /\ c.name = "clawback" => c.from \in Nat /\ c.to \in Nat

ASSUME CommandsAssumption == \A s \in Sessions :
    Len(s) \in Nat /\ \A i \in 1 .. Len(s) : IsCommand(s[i])

\* What a pass of a clawback has to sweep: the versions that can be swept now and
\* are so in the last finalized block, up to the first one that is missing.
IsSweepable(v) ==
    /\ IsOpen(v)
    /\ ClawbackStarted(unix_timestamp, distributor[v])
    /\ finalized[v] = distributor[v]

InReach(c, v) == \A u \in c.from .. v : IsLive(u) /\ finalized[u] # NoAccount

Sweepable(c) ==
    {v \in Version : /\ c.name = "clawback"
                     /\ v \in c.from .. c.to
                     /\ IsSweepable(v) /\ InReach(c, v)}

Start(c, v) ==
    /\ pc \notin Running
    /\ command' = c
    /\ value' = v
    /\ pc' = "look"
    /\ todo' = VersionsOf(c)
    /\ attempt' = 1
    /\ is_error' = FALSE
    /\ runs' = runs + 1
    /\ overtaken' = {}
    /\ misread' = {}
    /\ lost' = {}
    /\ ready' = Sweepable(c)
    /\ UNCHANGED <<chain, session, network, prefunded, finalized, faults, others>>

\* The clock and the samples are read once, before the first version. Samples
\* with an empty one panic there; they change nothing and are left out.
StartCommand ==
    /\ runs < Len(session)
    /\ LET c == session[runs + 1] IN
       IF c.name = "by_time"
       THEN \E samples \in Samples :
              /\ ~Slots!NoSlotInSample(samples)
              /\ Start(c, Slots!slot_at(c.value, unix_timestamp, slot,
                                    Slots!get_average_slot_time(samples)))
       ELSE Start(c, c.value)

--------------------------------------------------------------------------------
(* Looking at the account of the version at hand *)

Looks(names) == pc = "look" /\ todo # <<>> /\ command.name \in names
Panic == pc' = "panicked" /\ UNCHANGED todo
Fail == pc' = "failed" /\ UNCHANGED todo
ToSend == pc' = "send" /\ UNCHANGED todo
LookedOnly == UNCHANGED <<chain, settings, attempt, is_error, network, finalized>>

\* A look finds out what happened before it, unless it makes the tool leave the
\* version and read a block that is older than the account.
SawIn(accounts) ==
    /\ overtaken' = overtaken \ {version}
    /\ misread' = IF pc' = "look" /\ accounts[version] # distributor[version]
                  THEN misread \cup {version} ELSE misread \ {version}

\* program.account reads the last finalized block.
SawFinalized == SawIn(finalized) /\ lost' = lost \ {version}

\* program.account does not find the account, or the node does not answer.
Unreadable ==
    \/ finalized[version] = NoAccount /\ UNCHANGED faults
    \/ Fault("read")
Readable == finalized[version] # NoAccount /\ UNCHANGED faults

Setters == {"set_admin", "set_activation_point", "set_clawback_receiver"}

NeverAlreadySet(d) == FALSE
AlreadySet(d) ==
    CASE At("set_admin") -> d.admin = value
      [] At("set_activation_point") -> d.activation_point = value
      [] At("set_clawback_receiver") -> d.clawback_receiver = value

LookSetting ==
    /\ Looks(Setters)
    /\ \/ Unreadable /\ Panic
       \/ Readable /\ AlreadySet(finalized[version]) /\ NextVersion
       \/ Readable /\ ~AlreadySet(finalized[version]) /\ ToSend
    /\ SawFinalized
    /\ LookedOnly /\ UNCHANGED <<value, ready>>

BySlot(d) == d.activation_type = "Slot"

LookByTime ==
    /\ Looks({"by_time"})
    /\ \/ Unreadable /\ Panic
       \/ Readable /\ ~BySlot(finalized[version]) /\ NextVersion
       \/ Readable /\ BySlot(finalized[version]) /\ ToSend
    /\ SawFinalized
    /\ LookedOnly /\ UNCHANGED <<value, ready>>

\* The first look is at the account as it is now, and takes lamports for one. The
\* second is at the last finalized block, and an error of it ends the pass.
IsMissing(v) == ~IsLive(v) /\ v \notin prefunded

LookClawback ==
    /\ Looks({"clawback"})
    /\ \/ /\ Fault("read") /\ Fail
          /\ ready' = {}
          /\ lost' = lost \ {version}
          /\ UNCHANGED value
       \/ /\ IsMissing(version)
          /\ todo' = <<>>
          /\ lost' = lost \cup ToSet(todo)
          /\ UNCHANGED <<pc, value, faults, ready>>
       \/ /\ ~IsMissing(version)
          /\ \/ finalized[version] = NoAccount /\ Fail /\ UNCHANGED <<value, faults>>
             \/ /\ Readable
                /\ finalized[version].clawed_back
                /\ NextVersion /\ UNCHANGED value
             \/ /\ Readable
                /\ ~finalized[version].clawed_back
                /\ value' = finalized[version].clawback_receiver
                /\ ToSend
          /\ lost' = lost \ {version}
          /\ UNCHANGED ready
    /\ SawIn(finalized)
    /\ LookedOnly

LookClose ==
    /\ Looks({"close_distributor"})
    /\ \/ Unreadable /\ NextVersion
       \/ Readable /\ ToSend
    /\ SawIn(finalized)
    /\ lost' = IF faults' > faults THEN lost \cup {version} ELSE lost \ {version}
    /\ LookedOnly /\ UNCHANGED <<value, ready>>

\* The asserts of process_verify, against the arguments that the account was
\* meant to be created with.
Verified(d, a, admin, receiver) ==
    /\ d.root = a.root
    /\ d.clawback_start_ts = a.clawback_start_ts
    /\ d.closable = a.closable
    /\ d.admin = admin
    /\ d.activation_type = a.activation_type
    /\ d.activation_point = a.activation_point
    /\ d.clawback_receiver = receiver

LookVerify ==
    /\ Looks({"verify"})
    /\ \/ Unreadable /\ Panic
       \/ /\ Readable
          /\ IF Verified(finalized[version], Meant[version], command.signer, value)
             THEN NextVersion ELSE Panic
    /\ SawFinalized
    /\ LookedOnly /\ UNCHANGED <<value, ready>>

--------------------------------------------------------------------------------
(* Sending the transaction *)

Sends(names) == pc = "send" /\ command.name \in names
Again == pc' = "look" /\ UNCHANGED todo
SentOnly == UNCHANGED <<settings, value, attempt, overtaken>>

SendSetting ==
    /\ Sends({"set_admin", "set_clawback_receiver"})
    /\ \/ SendOk(distributor, Tx) /\ NextVersion
       \/ SendErr(distributor, Tx) /\ Again
    /\ SentOnly /\ UNCHANGED <<is_error, misread, lost, ready>>

ConfirmSetting ==
    /\ Sends({"set_activation_point"})
    /\ \/ ConfirmOk(distributor, Tx) /\ NextVersion /\ UNCHANGED finalized
       \/ ConfirmErr(distributor, Tx) /\ Again
    /\ SentOnly /\ UNCHANGED <<is_error, misread, lost, ready>>

ConfirmByTime ==
    /\ Sends({"by_time"})
    /\ \/ ConfirmOk(distributor, Tx) /\ NextVersion /\ UNCHANGED finalized
       \/ ConfirmErr(distributor, Tx) /\ Panic
    /\ SentOnly /\ UNCHANGED <<is_error, misread, lost, ready>>

StopAtError == Fail
GoOnAfterError == NextVersion

ConfirmClawback ==
    /\ Sends({"clawback"})
    /\ \/ /\ ConfirmOk(distributor, Tx) /\ NextVersion
          /\ UNCHANGED <<finalized, is_error>>
       \/ ConfirmErr(distributor, Tx) /\ is_error' = TRUE /\ GoOnAfterError
    /\ ready' = IF faults' > faults THEN ready \ {version} ELSE ready
    /\ SentOnly /\ UNCHANGED <<misread, lost>>

\* An error is printed, and nothing else: also one of a node whose accounts are
\* older than they are now.
SendClose ==
    /\ Sends({"close_distributor"})
    /\ NextVersion
    /\ \/ SendOk(finalized, Tx) /\ UNCHANGED misread
       \/ /\ SendErr(finalized, Tx)
          /\ misread' = IF finalized[version] # distributor[version]
                        THEN misread \cup {version} ELSE misread
    /\ lost' = IF faults' > faults THEN lost \cup {version} ELSE lost
    /\ SentOnly /\ UNCHANGED <<is_error, ready>>

\* get_latest_blockhash: clawback returns the error, the others unwrap it.
BlockhashFails ==
    /\ pc = "send"
    /\ Fault("read")
    /\ IF At("clawback") THEN Fail ELSE Panic
    /\ ready' = {}
    /\ UNCHANGED <<chain, network, finalized, is_error, misread, lost>>
    /\ SentOnly

--------------------------------------------------------------------------------
(* The end of a pass over the versions *)

SaysDone(failed) == "done"
Outcome(failed) == IF failed THEN "failed" ELSE "done"

EndOfList ==
    /\ pc = "look"
    /\ todo = <<>>
    /\ pc' = Outcome(is_error)
    /\ UNCHANGED <<todo, value, faults, overtaken, misread, lost, ready>>
    /\ LookedOnly

AdminStep ==
    \/ LookSetting \/ LookByTime \/ LookClawback \/ LookClose \/ LookVerify
    \/ SendSetting \/ ConfirmSetting \/ ConfirmByTime \/ ConfirmClawback \/ SendClose
    \/ BlockhashFails
    \/ EndOfList

RetryUpTo(attempts) ==
    /\ pc = "failed"
    /\ IF attempt < attempts
       THEN /\ pc' = "look"
            /\ todo' = VersionsOf(command)
            /\ attempt' = attempt + 1
            /\ is_error' = FALSE
            /\ ready' = Sweepable(command)
       ELSE pc' = "panicked" /\ UNCHANGED <<todo, attempt, is_error, ready>>
    /\ UNCHANGED <<chain, settings, value, network, finalized, faults, overtaken,
                   misread, lost>>

RetryClawback == At("clawback") /\ RetryUpTo(ClawbackAttempts)
================================================================================
