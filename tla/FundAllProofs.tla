----------------------------- MODULE FundAllProofs -----------------------------
(***************************************************************************)
(* fund-all, for any list of tree files, any bounds and any faults: when   *)
(* it is done every vault was sent its total, and none was sent it twice   *)
(* without a lost transfer, a claim or a sweep in between.                 *)
(***************************************************************************)
EXTENDS FundAll, TLAPS

LEMMA PathsType ==
    /\ Len(Paths) \in Nat /\ DOMAIN Paths = 1 .. Len(Paths)
    /\ \A p \in 1 .. Len(Paths) : Paths[p] \in Version /\ MaxTotalClaim[Paths[p]] \in Nat
    /\ \A v \in Version : /\ MaxTotalClaim[v] \in Nat
                          /\ \E p \in 1 .. Len(Paths) : v = Paths[p]
<1>1. Len(Paths) \in Nat /\ DOMAIN Paths = 1 .. Len(Paths)
  BY FundAllAssumption
<1>2. \A v \in Version : MaxTotalClaim[v] \in Nat
  BY FundAllAssumption
<1>3. QED
  BY <1>1, <1>2 DEF Version, ToSet

LEMMA ChainType ==
    ASSUME TypeOK, NEW v \in Version
    PROVE  /\ vault[v] \in Nat /\ received[v] \in Nat /\ claimed[v] \in Nat
           /\ in_flight[v] \in Nat /\ MaxTotalClaim[v] \in Nat
  BY FundAllAssumption DEF TypeOK

LEMMA VersionType ==
    ASSUME TypeOK, AtFile
    PROVE  version \in Version /\ position \in 1 .. Len(Paths)
<1>1. position \in 1 .. Len(Paths)
  BY PathsType, SMT DEF TypeOK, AtFile
<1>2. QED
  BY <1>1, PathsType DEF version

--------------------------------------------------------------------------------
(* What a step does to the chain *)

\* The full amount arrives in the vault of v.
Arrives(v) ==
    /\ vault' = [vault EXCEPT ![v] = @ + MaxTotalClaim[v]]
    /\ received' = [received EXCEPT ![v] = @ + MaxTotalClaim[v]]

LEMMA ArrivalType ==
    ASSUME TypeOK, NEW v \in Version, Landed(v)
    PROVE  /\ source' \in Nat
           /\ {vault', received'} \subseteq [Version -> Nat]
           /\ Arrives(v)
<1>1. /\ vault[v] + MaxTotalClaim[v] \in Nat /\ received[v] + MaxTotalClaim[v] \in Nat
      /\ source \in Nat /\ MaxTotalClaim[v] \in Nat
  BY ChainType, SMTT(30) DEF TypeOK
<1>2. source - MaxTotalClaim[v] \in Nat
  BY <1>1, SMT DEF Landed
<1>3. QED
  BY <1>1, <1>2 DEF Landed, Arrives, TypeOK

\* Everything a step may do to what the tool and its history know of the chain.
LEMMA ReceivedGrows ==
    ASSUME TypeOK, [Next]_vars, NEW v \in Version
    PROVE  received[v] \in Nat /\ received'[v] \in Nat /\ received[v] <= received'[v]
<1>1. received[v] \in Nat /\ received \in [Version -> Nat]
  BY ChainType DEF TypeOK
<1>2. ASSUME NEW w \in Version, Landed(w)
      PROVE  received'[v] \in Nat /\ received[v] <= received'[v]
  <2>1. received'[v] = IF v = w THEN received[v] + MaxTotalClaim[v] ELSE received[v]
    BY <1>1, <1>2 DEF Landed
  <2>2. MaxTotalClaim[v] \in Nat
    BY FundAllAssumption
  <2>3. QED
    BY <1>1, <2>1, <2>2, SMT
<1>3. CASE UNCHANGED received
  BY <1>1, <1>3
<1>4. CASE Send
  <2>1. pc = "sending" /\ (Landed(version) \/ UNCHANGED received)
    BY <1>4 DEF Send, Confirmed, Refused, TimedOut
  <2>2. CASE UNCHANGED received
    BY <1>3, <2>2
  <2>3. CASE Landed(version)
    <3>1. received'[v] = IF v = version THEN received[v] + MaxTotalClaim[v] ELSE received[v]
      BY <1>1, <2>3 DEF Landed
    <3>2. MaxTotalClaim[v] \in Nat
      BY FundAllAssumption
    <3>3. QED
      BY <1>1, <3>1, <3>2, SMT
  <2>4. QED
    BY <2>1, <2>2, <2>3
<1>5. ASSUME NEW w \in Version, Settle(w)
      PROVE  received'[v] \in Nat /\ received[v] <= received'[v]
  BY <1>2, <1>3, <1>5 DEF Settle
<1>6. QED
  BY <1>1, <1>3, <1>4, <1>5
     DEF Next, Step, Look, LookFails, BlockhashFails, EndRound, Retry, Claim, Sweep, vars, chain

LEMMA TypeStep ==
    ASSUME TypeOK, AtHand, [Next]_vars
    PROVE  TypeOK'
<1> USE DEF TypeOK
<1>1. Len(Paths) \in Nat /\ LastAttempt \in Nat /\ 1 \in 1 .. LastAttempt
      /\ 1 \in 1 .. Len(Paths) + 1
  BY PathsType, FundAllAssumption, SMT DEF LastAttempt
<1>2. ASSUME AtFile
      PROVE  position + 1 \in 1 .. Len(Paths) + 1
  BY <1>1, <1>2, SMT DEF AtFile
<1>3. ASSUME NEW kind, Fault(kind)
      PROVE  faults' \in Nat
  BY <1>3 DEF Fault
<1>4. CASE Look
  BY <1>2, <1>4 DEF Look, chain
<1>5. CASE LookFails \/ BlockhashFails
  BY <1>3, <1>5 DEF LookFails, BlockhashFails, chain
<1>6. CASE Send
  <2>1. AtFile /\ position' = position + 1 /\ pc' = "looking"
        /\ UNCHANGED <<claimed, swept, attempt>> /\ is_error' \in BOOLEAN
    BY <1>6 DEF Send, AtHand, AnyError
  <2>2. version \in Version
    BY <2>1, VersionType
  <2>3. CASE Confirmed
    BY <1>2, <2>1, <2>2, <2>3, ArrivalType DEF Confirmed
  <2>4. CASE Refused
    BY <1>2, <1>3, <2>1, <2>4 DEF Refused
  <2>5. CASE TimedOut
    <3>1. in_flight' \in [Version -> Nat]
      <4>1. in_flight[version] + 1 \in Nat
        BY <2>2, ChainType, SMT
      <4>2. QED
        BY <2>5, <4>1 DEF TimedOut
    <3>2. timed_out' \subseteq Version
      BY <2>2, <2>5 DEF TimedOut
    <3>3. QED
      BY <1>2, <1>3, <2>1, <2>5, <3>1, <3>2 DEF TimedOut
  <2>6. QED
    BY <1>6, <2>3, <2>4, <2>5 DEF Send
<1>7. CASE EndRound
  BY <1>7 DEF EndRound, chain
<1>8. CASE Retry
  <2>1. attempt < LastAttempt => attempt + 1 \in 1 .. LastAttempt
    BY <1>1, SMT
  <2>2. QED
    BY <1>1, <1>8, <2>1 DEF Retry, chain
<1>9. ASSUME NEW v \in Version, Claim(v)
      PROVE  TypeOK'
  <2>1. vault[v] - 1 \in Nat /\ claimed[v] + 1 \in Nat
    BY <1>9, ChainType, SMTT(30) DEF Claim
  <2>2. QED
    BY <1>9, <2>1 DEF Claim
<1>10. ASSUME NEW v \in Version, Sweep(v)
       PROVE  TypeOK'
  BY <1>10 DEF Sweep
<1>11. ASSUME NEW v \in Version, Settle(v)
       PROVE  TypeOK'
  <2>1. in_flight[v] - 1 \in Nat
    BY <1>11, ChainType, SMT DEF Settle
  <2>2. in_flight' \in [Version -> Nat]
    BY <1>11, <2>1 DEF Settle
  <2>3. source' \in Nat /\ {vault', received'} \subseteq [Version -> Nat]
    BY <1>11, ArrivalType DEF Settle
  <2>4. QED
    BY <1>11, <2>2, <2>3 DEF Settle
<1>12. CASE UNCHANGED vars
  BY <1>12 DEF vars
<1>13. QED
  BY <1>4, <1>5, <1>6, <1>7, <1>8, <1>9, <1>10, <1>11, <1>12 DEF Next, Step

LEMMA AtHandStep ==
    ASSUME TypeOK, AtHand, [Next]_vars
    PROVE  AtHand'
<1> USE DEF AtHand, AtFile
<1>1. CASE Look \/ Send
  BY <1>1 DEF Look, Send
<1>2. CASE LookFails \/ BlockhashFails
  BY <1>2 DEF LookFails, BlockhashFails
<1>3. CASE EndRound
  <2>1. ~AtFile => position = Len(Paths) + 1
    BY PathsType, SMT DEF TypeOK
  <2>2. QED
    BY <1>3, <2>1 DEF EndRound, TypeOK
<1>4. CASE Retry
  BY <1>4 DEF Retry
<1>5. CASE UNCHANGED <<pc, position, is_error>>
  BY <1>5
<1>6. QED
  BY <1>1, <1>2, <1>3, <1>4, <1>5 DEF Next, Step, Claim, Sweep, Settle, vars

LEMMA BackedStep ==
    ASSUME TypeOK, AtHand, VaultBacked, [Next]_vars
    PROVE  VaultBacked'
<1> SUFFICES ASSUME NEW v \in Version
             PROVE  vault'[v] <= received'[v]
  BY DEF VaultBacked
<1>1. /\ vault[v] \in Nat /\ received[v] \in Nat /\ vault[v] <= received[v]
      /\ vault \in [Version -> Nat] /\ received \in [Version -> Nat]
  BY ChainType DEF VaultBacked, TypeOK
<1>2. ASSUME NEW w \in Version, Landed(w)
      PROVE  vault'[v] <= received'[v]
  <2>1. /\ vault'[v] = IF v = w THEN vault[v] + MaxTotalClaim[v] ELSE vault[v]
        /\ received'[v] = IF v = w THEN received[v] + MaxTotalClaim[v] ELSE received[v]
    BY <1>1, <1>2 DEF Landed
  <2>2. MaxTotalClaim[v] \in Nat
    BY FundAllAssumption
  <2>3. QED
    BY <1>1, <2>1, <2>2, SMT
<1>3. CASE UNCHANGED <<vault, received>>
  BY <1>1, <1>3
<1>4. CASE Send
  <2>1. version \in Version
    BY <1>4, VersionType DEF Send, AtHand
  <2>2. QED
    BY <1>2, <1>3, <1>4, <2>1 DEF Send, Confirmed, Refused, TimedOut
<1>5. ASSUME NEW w \in Version, Claim(w)
      PROVE  vault'[v] <= received'[v]
  <2>1. vault'[v] = IF v = w THEN vault[v] - 1 ELSE vault[v]
    BY <1>1, <1>5 DEF Claim
  <2>2. received' = received
    BY <1>5 DEF Claim
  <2>3. QED
    BY <1>1, <2>1, <2>2, SMT
<1>6. ASSUME NEW w \in Version, Sweep(w)
      PROVE  vault'[v] <= received'[v]
  <2>1. vault'[v] = IF v = w THEN 0 ELSE vault[v]
    BY <1>1, <1>6 DEF Sweep
  <2>2. received' = received
    BY <1>6 DEF Sweep
  <2>3. QED
    BY <1>1, <2>1, <2>2, SMT
<1>7. ASSUME NEW w \in Version, Settle(w)
      PROVE  vault'[v] <= received'[v]
  BY <1>2, <1>3, <1>7 DEF Settle
<1>8. QED
  BY <1>3, <1>4, <1>5, <1>6, <1>7
     DEF Next, Step, Look, LookFails, BlockhashFails, EndRound, Retry, vars, chain

(* The files behind stay funded, and the one at hand is passed only when   *)
(* its vault was seen to be full or the transfer to it was confirmed.      *)
LEMMA FundedStep ==
    ASSUME TypeOK, AtHand, VaultBacked, FundedBehind, [Next]_vars
    PROVE  FundedBehind'
<1> DEFINE Behind(n) == \A p \in 1 .. n - 1 : received[Paths[p]] >= MaxTotalClaim[Paths[p]]
           BehindNext(n) == \A p \in 1 .. n - 1 : received'[Paths[p]] >= MaxTotalClaim[Paths[p]]
<1>1. Len(Paths) \in Nat /\ position \in Nat /\ position <= Len(Paths) + 1
  BY PathsType, SMT DEF TypeOK
<1>2. ASSUME NEW v \in Version, received[v] >= MaxTotalClaim[v]
      PROVE  received'[v] >= MaxTotalClaim[v]
  <2>1. received[v] \in Nat /\ received'[v] \in Nat /\ received[v] <= received'[v]
        /\ MaxTotalClaim[v] \in Nat
    BY ReceivedGrows, FundAllAssumption
  <2>2. QED
    BY <1>2, <2>1, SMT
<1>3. Behind(position) => BehindNext(position)
  <2>1. ASSUME NEW p \in 1 .. position - 1
        PROVE  Paths[p] \in Version
    <3>1. p \in 1 .. Len(Paths)
      BY <1>1, SMT
    <3>2. QED
      BY <3>1, PathsType
  <2>2. QED
    BY <1>2, <2>1
<1>4. ASSUME AtFile, BehindNext(position), received'[version] >= MaxTotalClaim[version]
      PROVE  BehindNext(position + 1)
  <2>1. ASSUME NEW p \in 1 .. (position + 1) - 1
        PROVE  p = position \/ p \in 1 .. position - 1
    BY <1>1, SMT
  <2>2. QED
    BY <1>4, <2>1 DEF version
<1>5. InRound => is_error \/ BehindNext(position)
  BY <1>3 DEF FundedBehind
<1>6. CASE Look
  <2>1. CASE Funded(version)
    <3>1. /\ AtFile /\ pc = "looking" /\ position' = position + 1
          /\ UNCHANGED <<is_error, received>>
      BY <1>6, <2>1 DEF Look, chain
    <3>2. received'[version] >= MaxTotalClaim[version]
      <4>1. version \in Version
        BY <3>1, VersionType
      <4>2. /\ vault[version] \in Nat /\ received[version] \in Nat
            /\ MaxTotalClaim[version] \in Nat /\ vault[version] <= received[version]
        BY <4>1, ChainType DEF VaultBacked
      <4>3. received[version] >= MaxTotalClaim[version]
        BY <2>1, <4>2, SMT DEF Funded
      <4>4. QED
        BY <3>1, <4>3
    <3>3. is_error \/ BehindNext(position + 1)
      BY <1>4, <1>5, <3>1, <3>2 DEF InRound
    <3>4. QED
      BY <3>1, <3>3 DEF FundedBehind
  <2>2. CASE ~Funded(version)
    BY <1>5, <1>6, <2>2 DEF Look, chain, FundedBehind, InRound
  <2>3. QED
    BY <2>1, <2>2
<1>7. CASE Send
  <2>1. /\ AtFile /\ InRound /\ position' = position + 1 /\ version \in Version
    BY <1>7, VersionType DEF Send, AtHand, InRound
  <2>2. CASE Confirmed /\ AnyError(FALSE)
    <3>1. is_error' = is_error
      BY <2>2 DEF AnyError, TypeOK
    <3>2. received'[version] = received[version] + MaxTotalClaim[version]
      BY <2>1, <2>2 DEF Confirmed, Landed, TypeOK
    <3>3. received'[version] >= MaxTotalClaim[version]
      BY <2>1, <3>2, ChainType, SMT
    <3>4. is_error \/ BehindNext(position + 1)
      BY <1>4, <1>5, <2>1, <3>3
    <3>5. QED
      BY <2>1, <3>1, <3>4 DEF FundedBehind
  <2>3. CASE AnyError(TRUE)
    BY <2>3 DEF AnyError, FundedBehind
  <2>4. QED
    BY <1>7, <2>2, <2>3 DEF Send
<1>8. CASE EndRound
  BY <1>5, <1>8 DEF EndRound, FundedBehind, InRound
<1>9. CASE Retry
  <2>1. CASE attempt < LastAttempt
    <3>1. position' = 1
      BY <1>9, <2>1 DEF Retry
    <3>2. 1 .. 1 - 1 = {}
      BY SMT
    <3>3. QED
      BY <3>1, <3>2 DEF FundedBehind
  <2>2. CASE ~(attempt < LastAttempt)
    BY <1>9, <2>2 DEF Retry, FundedBehind, InRound
  <2>3. QED
    BY <2>1, <2>2
<1>10. CASE LookFails \/ BlockhashFails
  BY <1>10 DEF LookFails, BlockhashFails, FundedBehind, InRound
<1>11. CASE UNCHANGED <<pc, position, is_error>>
  BY <1>3, <1>11 DEF FundedBehind, InRound
<1>12. QED
  BY <1>6, <1>7, <1>8, <1>9, <1>10, <1>11 DEF Next, Step, Claim, Sweep, Settle, vars

(* A vault that nobody touched is sent to only while it is empty.          *)
LEMMA OnceStep ==
    ASSUME TypeOK, AtHand, OnceOrNever, [Next]_vars
    PROVE  OnceOrNever'
<1> DEFINE Once(v) == /\ in_flight[v] > 0 => v \in timed_out
                      /\ Untouched(v) =>
                           /\ vault[v] = received[v]
                           /\ received[v] \in {0, MaxTotalClaim[v]}
                           /\ pc = "sending" /\ v = version => received[v] = 0
<1> SUFFICES ASSUME NEW v \in Version
             PROVE  Once(v)'
  BY DEF OnceOrNever
<1>1. /\ Once(v)
      /\ vault[v] \in Nat /\ received[v] \in Nat /\ MaxTotalClaim[v] \in Nat
      /\ claimed[v] \in Nat /\ in_flight[v] \in Nat
      /\ {vault, received, claimed, in_flight} \subseteq [Version -> Nat]
  BY ChainType DEF OnceOrNever, TypeOK
\* A step that leaves the vault alone and is not about to send to it.
<1>2. ASSUME UNCHANGED <<vault, received, in_flight, claimed, swept, timed_out>>,
             pc' # "sending" \/ UNCHANGED <<pc, position>>
      PROVE  Once(v)'
  BY <1>1, <1>2 DEF Untouched, version
<1>3. CASE Look
  <2>1. CASE Funded(version)
    BY <1>2, <1>3, <2>1 DEF Look, chain
  <2>2. CASE ~Funded(version)
    <3>1. /\ UNCHANGED <<vault, received, in_flight, claimed, swept, timed_out>>
          /\ UNCHANGED position /\ AtFile
      BY <1>3, <2>2 DEF Look, chain
    <3>2. version' = version
      BY <3>1 DEF version
    <3>3. ASSUME Untouched(v), v = version
          PROVE  received[v] = 0
      BY <1>1, <2>2, <3>3, SMT DEF Funded
    <3>4. QED
      BY <1>1, <3>1, <3>2, <3>3 DEF Untouched
  <2>3. QED
    BY <2>1, <2>2
<1>4. CASE LookFails \/ BlockhashFails
  BY <1>2, <1>4 DEF LookFails, BlockhashFails, chain
<1>5. CASE Send
  <2>1. /\ pc = "sending" /\ version \in Version /\ pc' = "looking"
        /\ UNCHANGED <<claimed, swept>>
    BY <1>5, VersionType DEF Send, AtHand
  <2>2. CASE Confirmed
    <3>1. UNCHANGED <<in_flight, timed_out>>
      BY <2>2 DEF Confirmed
    <3>2. CASE v = version
      <4>1. /\ vault'[v] = vault[v] + MaxTotalClaim[v]
            /\ received'[v] = received[v] + MaxTotalClaim[v]
        BY <1>1, <2>2, <3>2 DEF Confirmed, Landed
      <4>2. Untouched(v) => vault'[v] = MaxTotalClaim[v] /\ received'[v] = MaxTotalClaim[v]
        BY <1>1, <2>1, <3>2, <4>1, SMT
      <4>3. QED
        BY <1>1, <2>1, <3>1, <4>2 DEF Untouched
    <3>3. CASE v # version
      <4>1. vault'[v] = vault[v] /\ received'[v] = received[v]
        BY <1>1, <2>2, <3>3 DEF Confirmed, Landed
      <4>2. QED
        BY <1>1, <2>1, <3>1, <4>1 DEF Untouched
    <3>4. QED
      BY <3>2, <3>3
  <2>3. CASE Refused
    BY <1>1, <2>1, <2>3 DEF Refused, Untouched
  <2>4. CASE TimedOut
    <3>1. /\ in_flight'[v] = IF v = version THEN in_flight[v] + 1 ELSE in_flight[v]
          /\ timed_out' = timed_out \cup {version}
          /\ UNCHANGED <<vault, received>>
      BY <1>1, <2>4 DEF TimedOut
    <3>2. QED
      BY <1>1, <2>1, <3>1 DEF Untouched
  <2>5. QED
    BY <1>5, <2>2, <2>3, <2>4 DEF Send
<1>6. CASE EndRound
  BY <1>2, <1>6 DEF EndRound, chain
<1>7. CASE Retry
  BY <1>2, <1>7 DEF Retry, chain
<1>8. ASSUME NEW w \in Version, Claim(w)
      PROVE  Once(v)'
  <2>1. CASE v = w
    <3>1. claimed'[v] = claimed[v] + 1 /\ UNCHANGED <<in_flight, timed_out>>
      BY <1>1, <1>8, <2>1 DEF Claim
    <3>2. claimed'[v] # 0
      BY <1>1, <3>1, SMT
    <3>3. QED
      BY <1>1, <3>1, <3>2 DEF Untouched
  <2>2. CASE v # w
    <3>1. /\ claimed'[v] = claimed[v] /\ vault'[v] = vault[v]
          /\ UNCHANGED <<received, in_flight, timed_out, swept, pc, position>>
      BY <1>1, <1>8, <2>2 DEF Claim
    <3>2. QED
      BY <1>1, <3>1 DEF Untouched, version
  <2>3. QED
    BY <2>1, <2>2
<1>9. ASSUME NEW w \in Version, Sweep(w)
      PROVE  Once(v)'
  <2>1. /\ swept' = swept \cup {w} /\ (v # w => vault'[v] = vault[v])
        /\ UNCHANGED <<received, in_flight, claimed, timed_out, pc, position>>
    BY <1>1, <1>9 DEF Sweep
  <2>2. QED
    BY <1>1, <2>1 DEF Untouched, version
<1>10. ASSUME NEW w \in Version, Settle(w)
       PROVE  Once(v)'
  <2>1. /\ in_flight[w] > 0 /\ UNCHANGED <<claimed, swept, pc, position, timed_out>>
        /\ in_flight'[v] = IF v = w THEN in_flight[v] - 1 ELSE in_flight[v]
    BY <1>1, <1>10 DEF Settle
  <2>2. CASE v = w
    BY <1>1, <2>1, <2>2 DEF Untouched
  <2>3. CASE v # w
    <3>1. vault'[v] = vault[v] /\ received'[v] = received[v]
      BY <1>1, <1>10, <2>3 DEF Settle, Landed
    <3>2. QED
      BY <1>1, <2>1, <2>3, <3>1 DEF Untouched, version
  <2>4. QED
    BY <2>2, <2>3
<1>11. CASE UNCHANGED vars
  BY <1>2, <1>11 DEF vars
<1>12. QED
  BY <1>3, <1>4, <1>5, <1>6, <1>7, <1>8, <1>9, <1>10, <1>11 DEF Next, Step

LEMMA InitInv ==
    ASSUME Init
    PROVE  Inv
<1>1. TypeOK
  <2>1. Len(Paths) \in Nat /\ LoopBound \in Nat \ {0} /\ SourceTokens \subseteq Nat
    BY PathsType, FundAllAssumption
  <2>2. 1 \in 1 .. Len(Paths) + 1 /\ 1 \in 1 .. LastAttempt
    BY <2>1, SMT DEF LastAttempt
  <2>3. /\ {vault, received, claimed, in_flight} \subseteq [Version -> Nat]
        /\ swept \subseteq Version /\ timed_out \subseteq Version
    BY DEF Init
  <2>4. /\ source \in Nat /\ attempt = 1 /\ position = 1 /\ is_error = FALSE
        /\ faults \in Nat /\ pc = "looking"
    BY <2>1 DEF Init
  <2>5. QED
    BY <2>2, <2>3, <2>4 DEF TypeOK
<1>2. AtHand /\ VaultBacked
  BY DEF Init, AtHand, VaultBacked
<1>3. FundedBehind
  <2>1. 1 .. 1 - 1 = {}
    BY SMT
  <2>2. QED
    BY <2>1 DEF Init, FundedBehind
<1>4. OnceOrNever
  BY DEF Init, OnceOrNever
<1>5. QED
  BY <1>1, <1>2, <1>3, <1>4 DEF Inv

--------------------------------------------------------------------------------
(* The theorems *)

(* In every state of fund-all the files behind the present one have been   *)
(* seen funded unless the round has an error, and a vault that nobody      *)
(* touched was sent nothing or its total (fund_all, process_fund_all).     *)
THEOREM FundAllInvariance == Spec => []Inv
<1>1. Init => Inv
  BY InitInv
<1>2. Inv /\ [Next]_vars => Inv'
  BY TypeStep, AtHandStep, BackedStep, FundedStep, OnceStep DEF Inv
<1>3. QED
  BY <1>1, <1>2, PTL DEF Spec

(* When fund_all returns without an error every vault was sent its total,  *)
(* whatever failed in earlier rounds.                                      *)
THEOREM AllFundedWhenDone == Spec => []FundedWhenDone
<1>1. Inv => FundedWhenDone
  <2> SUFFICES ASSUME Inv, pc = "done", NEW v \in Version
               PROVE  received[v] >= MaxTotalClaim[v]
    BY DEF FundedWhenDone
  <2>1. PICK p \in 1 .. Len(Paths) : v = Paths[p]
    BY PathsType
  <2>2. p \in 1 .. position - 1
    BY PathsType, SMT DEF Inv, AtHand
  <2>3. QED
    BY <2>1, <2>2 DEF Inv, AtHand, FundedBehind
<1>2. QED
  BY <1>1, FundAllInvariance, PTL

(* A vault is sent its total once, unless a transfer to it was lost sight  *)
(* of or tokens left it: fund_all goes by the balance alone.               *)
THEOREM NoneFundedTwice == Spec => []FundedOnce
<1>1. Inv => FundedOnce
  <2> SUFFICES ASSUME Inv, NEW v \in Version, received[v] > MaxTotalClaim[v], Untouched(v)
               PROVE  FALSE
    <3>1. ASSUME NEW v \in Version, ~Untouched(v), Inv
          PROVE  v \in timed_out \/ claimed[v] > 0 \/ v \in swept
      <4>1. claimed[v] \in Nat
        BY <3>1, ChainType DEF Inv
      <4>2. QED
        BY <3>1, <4>1 DEF Untouched
    <3>2. QED
      BY <3>1 DEF FundedOnce
  <2>1. received[v] \in {0, MaxTotalClaim[v]} /\ MaxTotalClaim[v] \in Nat
    BY ChainType DEF Inv, OnceOrNever
  <2>2. QED
    BY <2>1, SMT
<1>2. QED
  BY <1>1, FundAllInvariance, PTL
================================================================================
