---------------------------- MODULE OperatorProofs ----------------------------
(***************************************************************************)
(* Proofs about the commands that manage distributors, for any sessions of *)
(* command lines, any versions and any number of faults: a command that    *)
(* says it is done has done what it was asked to every version it visits,  *)
(* but for exceptions that are listed one by one, a clawback leaves no     *)
(* version unswept because the sweep of another is refused, and the slot   *)
(* computed for a time is near that time unless u64 wraps.                 *)
(***************************************************************************)
EXTENDS Operator, DataProofs

--------------------------------------------------------------------------------
(* The slot of a time *)

(* The average is between half and twice the nominal length of a slot.     *)
LEMMA AverageIsSane ==
    ASSUME NEW samples
    PROVE  Slots!get_average_slot_time(samples) \in 200 .. 800
<1>1. /\ Slots!DEFAULT_MS_PER_SLOT \in 200 .. 800
      /\ \A average : Slots!IsSane(average) => average \in 200 .. 800
  BY DEF Slots!DEFAULT_MS_PER_SLOT, Slots!IsSane
<1>2. QED
  BY <1>1, ZenonT(30) DEF Slots!get_average_slot_time

(* Division rounds down.                                                   *)
LEMMA DivBounds == \A n \in Nat, d \in 1 .. 800 :
    n \div d \in Nat /\ (n \div d) * d <= n /\ n < (n \div d) * d + d
  BY SMT

(* What as_slot keeps is a u64, and a u64 it keeps as it is.               *)
LEMMA SlotKept ==
    ASSUME NEW n \in Int
    PROVE  Slots!as_slot(n) \in U64 /\ (n \in U64 => Slots!as_slot(n) = n)
  BY U64MaxAssumption DEF Slots!as_slot, U64

LEMMA SlotIsU64 ==
    ASSUME NEW average \in 200 .. 800, NEW now \in Int, NEW time \in Int, NEW current \in Int
    PROVE  Slots!slot_at(time, now, current, average) \in U64
<1> DEFINE ahead == (time - now) * 1000
           back == (now - time) * 1000
<1>1. \A n \in Nat : n \div average \in Nat
  BY SMT
<1>2. ahead \in Int /\ back \in Int /\ U64 \subseteq Nat
  BY U64MaxAssumption DEF U64
<1>3. \A n \in Int : Slots!as_slot(n) \in U64
  BY SlotKept
<1>4. Slots!SlotsOf(time - now, average) \in Nat /\ Slots!SlotsOf(now - time, average) \in Nat
  <2> HIDE DEF ahead, back
  <2>1. Slots!as_slot(ahead) \in Nat /\ Slots!as_slot(back) \in Nat
    BY <1>2, <1>3
  <2>2. Slots!as_slot(ahead) \div average \in Nat /\ Slots!as_slot(back) \div average \in Nat
    BY <1>1, <2>1
  <2>3. QED
    BY <2>2 DEF ahead, back, Slots!SlotsOf
<1>5. QED
  BY <1>3, <1>4 DEF Slots!slot_at

(* A slot count times the length of a slot is less than one slot off, and  *)
(* a count beyond a limit comes of a time beyond that limit.               *)
LEMMA CountIsNear ==
    ASSUME NEW average \in 200 .. 800, NEW n \in Nat, NEW limit \in Int
    PROVE  /\ n \div average \in Nat
           /\ (n \div average) * average <= n
           /\ n < (n \div average) * average + average
           /\ n \div average > limit => n > limit * average
<1> DEFINE count == n \div average
<1>1. count \in Nat /\ count * average <= n /\ n < count * average + average
  <2>1. average \in 1 .. 800
    OBVIOUS
  <2>2. QED
    BY <2>1, DivBounds, ZenonT(30)
<1> HIDE DEF count
<1>2. ASSUME count > limit
      PROVE  n > limit * average
  <2>1. \A a, b \in Int : a >= b + 1 => a * average >= b * average + average
    BY SMT
  <2>2. QED
    BY <1>1, <1>2, <2>1, SMT
<1>3. QED
  BY <1>1, <1>2 DEF count

(* The slot computed for a time is less than one slot away from it, unless *)
(* the arithmetic wraps around: the product of the distance and 1000, or   *)
(* the slot itself, is not a u64 (slot_at, as                              *)
(* process_set_enable_activation_slot_by_time computes it).                *)
IsNear(time, now, current, average) ==
    LET distance == (Slots!slot_at(time, now, current, average) - current) * average
        exact == (time - now) * 1000
    IN  \/ exact - average < distance /\ distance < exact + average
        \/ exact > U64Max \/ -exact > U64Max
        \/ exact < -(current * average)
        \/ exact > (U64Max - current) * average

LEMMA SlotIsNear ==
    ASSUME NEW average \in 200 .. 800, NEW now \in Int, NEW time \in Int, NEW current \in Nat
    PROVE  IsNear(time, now, current, average)
<1> DEFINE at == Slots!slot_at(time, now, current, average)
           exact == (time - now) * 1000
<1> SUFFICES ASSUME exact <= U64Max, -exact <= U64Max
             PROVE
             \/ exact - average < (at - current) * average
                /\ (at - current) * average < exact + average
             \/ exact < -(current * average)
             \/ exact > (U64Max - current) * average
  BY U64MaxAssumption DEF IsNear
<1>0. U64Max \in Nat /\ average \in 200 .. 800 /\ current \in Nat
  BY U64MaxAssumption
<1>1. CASE time > now
  <2> DEFINE count == exact \div average
  <2>1. exact \in Nat
    BY <1>1, SMT
  <2>2. at = Slots!as_slot(current + count)
    <3>1. Slots!as_slot(exact) = exact
      BY <2>1, <1>0, SlotKept DEF U64
    <3>2. QED
      BY <1>1, <3>1 DEF Slots!slot_at, Slots!SlotsOf
  <2> HIDE DEF exact, at
  <2>3. /\ count \in Nat
        /\ count * average <= exact /\ exact < count * average + average
        /\ count > U64Max - current => exact > (U64Max - current) * average
    <3>1. U64Max - current \in Int
      BY <1>0
    <3>2. QED
      BY ONLY <2>1, <1>0, <3>1, CountIsNear, Zenon
  <2> HIDE DEF count
  <2>4. CASE count > U64Max - current
    BY <2>3, <2>4
  <2>5. CASE count <= U64Max - current
    <3>1. at = current + count
      BY <2>2, <2>3, <2>5, <1>0, SlotKept DEF U64
    <3>2. (at - current) * average = count * average
      BY <3>1, <2>3
    <3>3. QED
      BY <2>1, <2>3, <3>2, SMT
  <2>6. QED
    BY <2>3, <2>4, <2>5, <1>0
<1>2. CASE ~(time > now)
  <2> DEFINE back == (now - time) * 1000
             count == back \div average
  <2>1. back \in Nat /\ exact = -back
    BY <1>2, SMT
  <2>2. at = Slots!as_slot(current - count)
    <3>1. Slots!as_slot(back) = back
      BY <2>1, <1>0, SlotKept DEF U64
    <3>2. at = Slots!as_slot(current - Slots!SlotsOf(now - time, average))
      BY <1>2 DEF Slots!slot_at
    <3>3. QED
      BY <3>1, <3>2 DEF Slots!SlotsOf
  <2> HIDE DEF exact, at, back
  <2>3. /\ count \in Nat
        /\ count * average <= back /\ back < count * average + average
        /\ count > current => back > current * average
    <3>1. current \in Int
      BY <1>0
    <3>2. QED
      BY ONLY <2>1, <1>0, <3>1, CountIsNear, Zenon
  <2> HIDE DEF count
  <2>4. CASE count > current
    BY <2>1, <2>3, <2>4, SMT
  <2>5. CASE count <= current /\ current - count > U64Max
    <3>1. count < current - U64Max
      BY <2>3, <2>5, <1>0, SMT
    <3>2. \A a, b \in Int : a + 1 <= b => a * average + average <= b * average
      BY SMT
    <3>3. count * average + average <= (current - U64Max) * average
      BY <2>3, <3>1, <3>2, <1>0, SMT
    <3>4. (current - U64Max) * average = -((U64Max - current) * average)
      BY <1>0, SMT
    <3>5. QED
      BY <2>1, <2>3, <3>3, <3>4, <1>0, SMT
  <2>6. CASE count <= current /\ current - count <= U64Max
    <3>1. at = current - count
      BY <2>2, <2>3, <2>6, <1>0, SlotKept DEF U64
    <3>2. (at - current) * average = -(count * average)
      BY <3>1, <2>3
    <3>3. QED
      BY <2>1, <2>3, <3>2, SMT
  <2>7. QED
    BY <2>3, <2>4, <2>5, <2>6, <1>0
<1>3. QED
  BY <1>1, <1>2

(* So is the slot of any time, at any clock and from any samples, unless   *)
(* the product of the distance and 1000, or the slot, is beyond u64        *)
(* (process_set_enable_activation_slot_by_time.rs:32-36).                  *)
THEOREM EverySlotIsNear ==
    ASSUME NEW samples, NEW time \in Int, NEW now \in Int, NEW current \in Nat
    PROVE  IsNear(time, now, current, Slots!get_average_slot_time(samples))
  BY AverageIsSane, SlotIsNear

(* Every answer of the node gives a slot near the time.                    *)
LEMMA SlotsAreNear == unix_timestamp \in Nat => SlotNearTime
<1> SUFFICES ASSUME unix_timestamp \in Nat,
                    NEW samples \in Samples, NEW time \in 0 .. 6,
                    NEW current \in SomeSlots
             PROVE  IsNear(time, unix_timestamp, current,
                           Slots!get_average_slot_time(samples))
  BY DEF SlotNearTime, IsNear
<1>1. unix_timestamp \in Int /\ time \in Int /\ current \in Nat
  BY U64MaxAssumption DEF SomeSlots, U64
<1>2. QED
  BY <1>1, EverySlotIsNear

--------------------------------------------------------------------------------
(* What a command asks for, as an operator on one account *)

MeantBy(c, x, v) == NewAccount(Meant[v], c.signer, x, Meant[v].total_claim, 0, 0)

Shows(c, x, v, d) ==
    CASE c.name = "close_distributor" -> d = NoAccount
      [] c.name = "clawback" -> d # NoAccount /\ d.clawed_back
      [] c.name = "new_distributor" ->
           /\ d # NoAccount
           /\ d = [MeantBy(c, x, v) EXCEPT
                     !.total_amount_claimed = d.total_amount_claimed,
                     !.num_nodes_claimed = d.num_nodes_claimed,
                     !.clawed_back = d.clawed_back]
      [] c.name = "verify" -> d # NoAccount /\ Verified(d, Meant[v], c.signer, x)
      [] c.name = "by_time" -> d # NoAccount /\ (BySlot(d) => d.activation_point = x)
      [] c.name = "set_admin" -> d # NoAccount /\ d.admin = x
      [] c.name = "set_activation_point" -> d # NoAccount /\ d.activation_point = x
      [] c.name = "set_clawback_receiver" -> d # NoAccount /\ d.clawback_receiver = x

LEMMA AppliedShows ==
    \A v : Applied(v) <=> Shows(command, value, v, distributor[v])
  BY Zenon DEF Applied, Shows, AsMeant, MeantBy, At

(* The cases, one name at a time.                                          *)
LEMMA ShowsIs ==
    ASSUME NEW c, NEW x, NEW v, NEW d
    PROVE  /\ c.name = "close_distributor" => (Shows(c, x, v, d) <=> d = NoAccount)
           /\ c.name = "clawback" => (Shows(c, x, v, d) <=> d # NoAccount /\ d.clawed_back)
           /\ c.name = "verify" =>
                (Shows(c, x, v, d) <=>
                   d # NoAccount /\ Verified(d, Meant[v], c.signer, x))
           /\ c.name = "by_time" =>
                (Shows(c, x, v, d) <=>
                   d # NoAccount /\ (BySlot(d) => d.activation_point = x))
           /\ c.name = "set_admin" => (Shows(c, x, v, d) <=> d # NoAccount /\ d.admin = x)
           /\ c.name = "set_activation_point" =>
                (Shows(c, x, v, d) <=> d # NoAccount /\ d.activation_point = x)
           /\ c.name = "set_clawback_receiver" =>
                (Shows(c, x, v, d) <=> d # NoAccount /\ d.clawback_receiver = x)
  BY DEF Shows

LEMMA ShowsNew ==
    ASSUME NEW c, c.name = "new_distributor", NEW x, NEW v, NEW d
    PROVE  Shows(c, x, v, d) <=>
             /\ d # NoAccount
             /\ d = [MeantBy(c, x, v) EXCEPT
                       !.total_amount_claimed = d.total_amount_claimed,
                       !.num_nodes_claimed = d.num_nodes_claimed,
                       !.clawed_back = d.clawed_back]
  BY DEF Shows

(* What a clawback shows does not depend on the receiver it sends with.    *)
LEMMA ShowsSwept ==
    ASSUME NEW c, c.name = "clawback", NEW x, NEW y, NEW v, NEW d
    PROVE  Shows(c, x, v, d) <=> Shows(c, y, v, d)
  BY ShowsIs

--------------------------------------------------------------------------------
(* What instructions write *)

LEMMA NewAccountType ==
    ASSUME NEW a \in DeployArg, NEW signer \in Wallet, NEW receiver \in TokenAccount,
           NEW max_total \in U64, NEW bonus \in U64, NEW duration \in U64
    PROVE  LET d == NewAccount(a, signer, receiver, max_total, bonus, duration)
           IN  d \in MerkleDistributor /\ d # NoAccount /\ d.total_claimed_bonus = 0
<1>1. 0 \in U64
  BY U64MaxAssumption DEF U64
<1>2. NewAccount(a, signer, receiver, max_total, bonus, duration) \in MerkleDistributor
  BY <1>1 DEF NewAccount, MerkleDistributor, DeployArg
<1>3. QED
  BY <1>2, NoAccountAssumption DEF NewAccount

\* An instruction leaves every account but that of v alone.
WritesOnly(v) ==
    /\ distributor' \in Accounts
    /\ \A u \in Version : u # v => distributor'[u] = distributor[u]
    /\ NoBonusPaid'
    /\ UNCHANGED clocks

LEMMA AccountWritten ==
    ASSUME distributor \in Accounts, NoBonusPaid, UNCHANGED clocks,
           NEW v \in Version, NEW d \in MerkleDistributor \cup {NoAccount},
           d # NoAccount => d.total_claimed_bonus = 0,
           distributor' = [distributor EXCEPT ![v] = d]
    PROVE  WritesOnly(v) /\ distributor'[v] = d
<1>1. /\ distributor' \in Accounts /\ distributor'[v] = d
      /\ \A u \in Version : u # v => distributor'[u] = distributor[u]
  BY DEF Accounts
<1>2. NoBonusPaid'
  BY <1>1 DEF NoBonusPaid, IsLive
<1>3. QED
  BY <1>1, <1>2 DEF WritesOnly

LEMMA NothingWritten ==
    ASSUME distributor \in Accounts, NoBonusPaid, UNCHANGED clocks, UNCHANGED distributor,
           NEW v \in Version
    PROVE  WritesOnly(v)
  BY DEF WritesOnly, NoBonusPaid, IsLive

LEMMA NewDistributorWrites ==
    ASSUME distributor \in Accounts, NoBonusPaid, NEW v \in Version,
           NEW a \in DeployArg, NEW signer \in Wallet, NEW receiver \in TokenAccount
    PROVE  /\ NewDistributor(v, a, signer, receiver) =>
                /\ WritesOnly(v)
                /\ distributor'[v] = NewAccount(a, signer, receiver, a.total_claim, 0, 0)
                /\ distributor'[v] # NoAccount
           /\ NewDistributor2(v, a, signer, receiver) => WritesOnly(v)
<1>1. ASSUME NEW max_total \in U64, NEW bonus \in U64, NEW duration \in U64,
             HandleNewDistributor(v, a, signer, receiver, max_total, bonus, duration)
      PROVE  /\ WritesOnly(v) /\ distributor'[v] # NoAccount
             /\ distributor'[v] = NewAccount(a, signer, receiver, max_total, bonus, duration)
  <2> DEFINE d == NewAccount(a, signer, receiver, max_total, bonus, duration)
  <2>1. d \in MerkleDistributor /\ d # NoAccount /\ d.total_claimed_bonus = 0
    BY NewAccountType
  <2>2. distributor' = [distributor EXCEPT ![v] = d] /\ UNCHANGED clocks
    BY <1>1 DEF HandleNewDistributor
  <2> HIDE DEF d
  <2>3. WritesOnly(v) /\ distributor'[v] = d
    BY <2>1, <2>2, AccountWritten
  <2>4. QED
    BY <2>1, <2>3 DEF d
<1>2. a.total_claim \in U64 /\ a.total_bonus \in U64 /\ a.vesting_duration \in U64 /\ 0 \in U64
  BY U64MaxAssumption DEF DeployArg, U64
<1>3. ASSUME NewDistributor2(v, a, signer, receiver)
      PROVE  WritesOnly(v)
  <2>1. checked_add(a.total_claim, a.total_bonus) \in U64
    BY <1>2, <1>3, U64MaxAssumption DEF NewDistributor2, checked_add, IsOk, U64, Err
  <2>2. QED
    BY <1>1, <1>2, <1>3, <2>1 DEF NewDistributor2
<1>4. QED
  BY <1>1, <1>2, <1>3 DEF NewDistributor

(* The setters and the closing of accounts.                                *)
LEMMA SettersWrite ==
    ASSUME distributor \in Accounts, NoBonusPaid, NEW v \in Version, NEW signer
    PROVE  /\ \A x \in Wallet : SetAdmin(v, signer, x) =>
                /\ WritesOnly(v) /\ distributor'[v] # NoAccount
                /\ distributor'[v].admin = x
           /\ \A x \in U64 : SetActivationPoint(v, signer, x) =>
                /\ WritesOnly(v) /\ distributor'[v] # NoAccount
                /\ distributor'[v].activation_point = x
           /\ \A x \in TokenAccount : SetClawbackReceiver(v, signer, x) =>
                /\ WritesOnly(v) /\ distributor'[v] # NoAccount
                /\ distributor'[v].clawback_receiver = x
           /\ \A x : CloseDistributor(v, signer, x) =>
                WritesOnly(v) /\ distributor'[v] = NoAccount
           /\ Clawback(v) =>
                /\ WritesOnly(v) /\ distributor'[v] # NoAccount
                /\ distributor'[v].clawed_back
<1> DEFINE d == distributor[v]
<1>0. IsLive(v) => /\ d \in MerkleDistributor /\ d # NoAccount
                   /\ d.total_claimed_bonus = 0
  BY DEF IsLive, Accounts, NoBonusPaid
<1>1. ASSUME NEW x \in Wallet, SetAdmin(v, signer, x)
      PROVE  /\ WritesOnly(v) /\ distributor'[v] # NoAccount
             /\ distributor'[v].admin = x
  <2> DEFINE e == [d EXCEPT !.admin = x]
  <2>1. /\ e \in MerkleDistributor /\ e.total_claimed_bonus = 0 /\ e.admin = x
        /\ distributor' = [distributor EXCEPT ![v] = e] /\ UNCHANGED clocks
    BY <1>0, <1>1 DEF SetAdmin, MerkleDistributor, clocks, Accounts
  <2> HIDE DEF e
  <2>2. QED
    BY <2>1, AccountWritten, NoAccountAssumption
<1>2. ASSUME NEW x \in U64, SetActivationPoint(v, signer, x)
      PROVE  /\ WritesOnly(v) /\ distributor'[v] # NoAccount
             /\ distributor'[v].activation_point = x
  <2> DEFINE e == [d EXCEPT !.activation_point = x]
  <2>1. /\ e \in MerkleDistributor /\ e.total_claimed_bonus = 0 /\ e.activation_point = x
        /\ distributor' = [distributor EXCEPT ![v] = e] /\ UNCHANGED clocks
    BY <1>0, <1>2 DEF SetActivationPoint, MerkleDistributor, clocks, Accounts
  <2> HIDE DEF e
  <2>2. QED
    BY <2>1, AccountWritten, NoAccountAssumption
<1>3. ASSUME NEW x \in TokenAccount, SetClawbackReceiver(v, signer, x)
      PROVE  /\ WritesOnly(v) /\ distributor'[v] # NoAccount
             /\ distributor'[v].clawback_receiver = x
  <2> DEFINE e == [d EXCEPT !.clawback_receiver = x]
  <2>1. /\ e \in MerkleDistributor /\ e.total_claimed_bonus = 0 /\ e.clawback_receiver = x
        /\ distributor' = [distributor EXCEPT ![v] = e] /\ UNCHANGED clocks
    BY <1>0, <1>3 DEF SetClawbackReceiver, MerkleDistributor, clocks, Accounts
  <2> HIDE DEF e
  <2>2. QED
    BY <2>1, AccountWritten, NoAccountAssumption
<1>4. ASSUME NEW x, CloseDistributor(v, signer, x)
      PROVE  WritesOnly(v) /\ distributor'[v] = NoAccount
  BY <1>4, AccountWritten DEF CloseDistributor
<1>5. ASSUME Clawback(v)
      PROVE  /\ WritesOnly(v) /\ distributor'[v] # NoAccount
             /\ distributor'[v].clawed_back
  <2> DEFINE e == [d EXCEPT !.clawed_back = TRUE]
  <2>1. /\ e \in MerkleDistributor /\ e.total_claimed_bonus = 0 /\ e.clawed_back
        /\ distributor' = [distributor EXCEPT ![v] = e] /\ UNCHANGED clocks
    BY <1>0, <1>5 DEF Clawback, IsOpen, MarkSwept, MerkleDistributor, clocks, Accounts
  <2> HIDE DEF e
  <2>2. QED
    BY <2>1, AccountWritten, NoAccountAssumption
<1>6. QED
  BY <1>1, <1>2, <1>3, <1>4, <1>5

(* An account as it was created is what the command asked for.             *)
LEMMA CreatedIsMeant ==
    ASSUME NEW d \in MerkleDistributor
    PROVE  d = [d EXCEPT !.total_amount_claimed = d.total_amount_claimed,
                         !.num_nodes_claimed = d.num_nodes_claimed,
                         !.clawed_back = d.clawed_back]
  BY DEF MerkleDistributor

(* A transaction that is executed writes one account, and that account is  *)
(* then as any command that sends such a transaction asks for.             *)
LEMMA ExecutesWrites ==
    ASSUME distributor \in Accounts, NoBonusPaid, NEW tx, IsTransaction(tx), Executes(tx)
    PROVE  /\ WritesOnly(tx.version)
           /\ \A c : c.name = tx.name /\ c.signer = tx.signer =>
                Shows(c, tx.value, tx.version, distributor'[tx.version])
<1> DEFINE v == tx.version
           x == tx.value
<1>0. /\ v \in Version /\ tx.signer \in Wallet /\ x \in ValuesOf(tx.name)
      /\ Meant[v] \in DeployArg
  BY ToolAssumption DEF IsTransaction
<1>1. CASE tx.name = "new_distributor" /\ NewDistributor(v, Meant[v], tx.signer, x)
  <2>1. x \in TokenAccount
    BY <1>0, <1>1 DEF ValuesOf
  <2>2. /\ WritesOnly(v)
        /\ distributor'[v] = NewAccount(Meant[v], tx.signer, x, Meant[v].total_claim, 0, 0)
        /\ distributor'[v] # NoAccount
    BY <1>0, <1>1, <2>1, NewDistributorWrites
  <2>3. distributor'[v] \in MerkleDistributor
    BY <1>0, <2>2 DEF WritesOnly, Accounts
  <2>4. ASSUME NEW c, c.name = tx.name, c.signer = tx.signer
        PROVE  Shows(c, x, v, distributor'[v])
    <3> DEFINE d == distributor'[v]
    <3>1. d = MeantBy(c, x, v)
      BY <2>2, <2>4 DEF MeantBy
    <3>2. d \in MerkleDistributor /\ d # NoAccount
      BY <2>2, <2>3
    <3> HIDE DEF d
    <3>3. d = [MeantBy(c, x, v) EXCEPT !.total_amount_claimed = d.total_amount_claimed,
                 !.num_nodes_claimed = d.num_nodes_claimed, !.clawed_back = d.clawed_back]
      BY <3>1, <3>2, CreatedIsMeant
    <3>4. Shows(c, x, v, d)
      BY <1>1, <2>4, <3>2, <3>3, ShowsNew, Zenon
    <3>5. QED
      BY <3>4 DEF d
  <2>5. QED
    BY <1>1, <2>2, <2>4
<1>2. CASE tx.name = "set_admin" /\ SetAdmin(v, tx.signer, x)
  <2>1. x \in Wallet
    BY <1>0, <1>2 DEF ValuesOf
  <2>2. WritesOnly(v) /\ distributor'[v] # NoAccount /\ distributor'[v].admin = x
    BY <1>0, <1>2, <2>1, SettersWrite
  <2>3. QED
    BY <1>2, <2>2, ShowsIs
<1>3. CASE /\ tx.name \in {"set_activation_point", "by_time"}
           /\ SetActivationPoint(v, tx.signer, x)
  <2>1. x \in U64
    BY <1>0, <1>3 DEF ValuesOf
  <2>2. WritesOnly(v) /\ distributor'[v] # NoAccount /\ distributor'[v].activation_point = x
    BY <1>0, <1>3, <2>1, SettersWrite
  <2>3. QED
    BY <1>3, <2>2, ShowsIs
<1>4. CASE tx.name = "set_clawback_receiver" /\ SetClawbackReceiver(v, tx.signer, x)
  <2>1. x \in TokenAccount
    BY <1>0, <1>4 DEF ValuesOf
  <2>2. WritesOnly(v) /\ distributor'[v] # NoAccount /\ distributor'[v].clawback_receiver = x
    BY <1>0, <1>4, <2>1, SettersWrite
  <2>3. QED
    BY <1>4, <2>2, ShowsIs
<1>5. CASE tx.name = "clawback" /\ Clawback(v)
  <2>1. WritesOnly(v) /\ distributor'[v] # NoAccount /\ distributor'[v].clawed_back
    BY <1>0, <1>5, SettersWrite
  <2>2. QED
    BY <1>5, <2>1, ShowsIs
<1>6. CASE tx.name = "close_distributor" /\ CloseDistributor(v, tx.signer, x)
  <2>1. WritesOnly(v) /\ distributor'[v] = NoAccount
    BY <1>0, <1>6, SettersWrite
  <2>2. QED
    BY <1>6, <2>1, ShowsIs
<1>7. QED
  BY <1>1, <1>2, <1>3, <1>4, <1>5, <1>6 DEF Executes

(* So does what others do to a version.                                    *)
LEMMA OthersWrite ==
    ASSUME distributor \in Accounts, NoBonusPaid, NEW v \in Version,
           Deploy(v) \/ Clawback(v) \/ Administer(v)
    PROVE  WritesOnly(v)
<1>0. /\ DeployArgs \subseteq DeployArg /\ Receiver \subseteq TokenAccount
      /\ ActivationPoints \subseteq U64
  BY AccountsAssumption, InputsAssumption
<1>1. CASE Deploy(v)
  BY <1>0, <1>1, NewDistributorWrites DEF Deploy
<1>2. CASE Clawback(v)
  BY <1>2, SettersWrite
<1>3. CASE Administer(v)
  <2>1. PICK signer \in Wallet :
          \/ \E c \in Claimant : CloseClaimStatus(v, c, signer)
          \/ \E destination \in Receiver : CloseDistributor(v, signer, destination)
          \/ \E point \in ActivationPoints : SetActivationPoint(v, signer, point)
          \/ \E new_admin \in Wallet : SetAdmin(v, signer, new_admin)
          \/ \E receiver \in Receiver : SetClawbackReceiver(v, signer, receiver)
    BY <1>3 DEF Administer
  <2>2. CASE \E c \in Claimant : CloseClaimStatus(v, c, signer)
    <3>1. UNCHANGED distributor /\ UNCHANGED clocks
      BY <2>2 DEF CloseClaimStatus
    <3>2. QED
      BY <3>1, NothingWritten
  <2>3. CASE \E destination \in Receiver : CloseDistributor(v, signer, destination)
    BY <2>3, SettersWrite
  <2>4. CASE \E point \in ActivationPoints : SetActivationPoint(v, signer, point)
    BY <1>0, <2>4, SettersWrite
  <2>5. CASE \E new_admin \in Wallet : SetAdmin(v, signer, new_admin)
    BY <2>5, SettersWrite
  <2>6. CASE \E receiver \in Receiver : SetClawbackReceiver(v, signer, receiver)
    BY <1>0, <2>6, SettersWrite
  <2>7. QED
    BY <2>1, <2>2, <2>3, <2>4, <2>5, <2>6
<1>4. QED
  BY <1>1, <1>2, <1>3

--------------------------------------------------------------------------------
(* What a step does at most, of the running command or of what surrounds   *)
(* it: to the accounts, the transactions and what the tool cannot know     *)

\* Versions that the tool may be wrong about.
Doubts == overtaken \cup misread \cup lost

\* Doubts end only where the tool looks, at the version at hand.
Keeps ==
    /\ UNCHANGED <<session, command, runs, prefunded>>
    /\ At("clawback") \/ value' = value
    /\ distributor' \in Accounts /\ NoBonusPaid'
    /\ finalized' = finalized \/ finalized' = distributor'
    /\ unix_timestamp' \in Nat /\ slot' \in Nat /\ unix_timestamp <= unix_timestamp'
    /\ faults' \in Nat
    /\ ready' \subseteq Version
    /\ \A v \in Version :
         distributor'[v] = distributor[v] \/ v \in overtaken' \/ Applied(v)'
    /\ \A v \in Doubts : v \in Doubts' \/ (todo # <<>> /\ v = version /\ pc' # "check")
    /\ \A tx \in in_flight : tx.run = runs =>
         tx \in in_flight' \/ tx.version \in lost' \/ Applied(tx.version)'
    /\ \A tx \in in_flight' : tx \in in_flight \/ (pc = "send" /\ tx = Tx)

LEMMA AppliedNext ==
    \A v : Applied(v)' <=> Shows(command', value', v, distributor'[v])
<1>1. (\A v : Applied(v) <=> Shows(command, value, v, distributor[v]))'
  BY AppliedShows, PTL
<1>2. QED
  BY <1>1

(* What is applied stays so where the account stays.                       *)
LEMMA AppliedStays ==
    ASSUME Keeps, NEW v, distributor'[v] = distributor[v], Applied(v)
    PROVE  Applied(v)'
<1>1. Shows(command, value, v, distributor'[v])
  BY AppliedShows
<1>2. command' = command /\ (command.name = "clawback" \/ value' = value)
  BY DEF Keeps, At
<1>3. Shows(command, value', v, distributor'[v])
  BY <1>1, <1>2, ShowsSwept
<1>4. QED
  BY <1>2, <1>3, AppliedNext

(* What a version was counted as settled for stays true of it, or something*)
(* else makes it so, unless the tool looks at it again.                    *)
LEMMA SettledStays ==
    ASSUME Keeps, NEW v \in Version, Settled(v),
           todo = <<>> \/ v # version \/ pc' = "check"
    PROVE  Settled(v)'
<1>1. command' = command /\ runs' = runs /\ prefunded' = prefunded
  BY DEF Keeps
<1>2. \/ distributor'[v] = distributor[v]
      \/ v \in overtaken'
      \/ Applied(v)'
  BY DEF Keeps
<1>3. CASE Applied(v)' \/ v \in overtaken'
  BY <1>3 DEF Settled, OutOfSight
<1>4. CASE distributor'[v] = distributor[v] /\ ~Applied(v)'
  <2>1. ~Applied(v)
    BY <1>4, AppliedStays
  <2>2. CASE PassedOver(v)
    BY <1>1, <1>4, <2>2 DEF PassedOver, At, IsLive, Settled
  <2>3. CASE v \in Doubts
    <3>1. v \in Doubts'
      BY <2>3 DEF Keeps
    <3>2. QED
      BY <3>1 DEF Doubts, Settled, OutOfSight
  <2>4. CASE \E tx \in in_flight : tx.version = v /\ tx.run = runs
    <3>1. v \in lost' \/ \E tx \in in_flight' : tx.version = v /\ tx.run = runs'
      BY <1>1, <1>4, <2>4 DEF Keeps
    <3>2. QED
      BY <3>1 DEF Settled, OutOfSight
  <2>5. QED
    BY <2>1, <2>2, <2>3, <2>4 DEF Settled, OutOfSight, Doubts
<1>5. QED
  BY <1>2, <1>3, <1>4

(* The transaction for the version at hand is one of the running command.  *)
LEMMA TransactionAtHand ==
    ASSUME ToolTypeOK, runs > 0, pc = "send"
    PROVE  /\ IsTransaction(Tx) /\ Tx.name = command.name
           /\ Tx.signer = command.signer /\ Tx.value = value
           /\ Tx.version = version /\ Tx.run = runs /\ version \in Version
<1>1. version \in Version
  BY HeadTailToSet DEF ToolTypeOK, CommandTypeOK, version
<1>2. Len(session) \in Nat /\ runs \in 0 .. Len(session)
  BY CommandsAssumption DEF ToolTypeOK
<1>3. runs \in 1 .. runs
  BY <1>2
<1>4. QED
  BY <1>1, <1>3 DEF IsTransaction, Tx, ToolTypeOK, CommandTypeOK, IsCommand

LEMMA TransactionsStay ==
    ASSUME ToolTypeOK, runs > 0, OwnTransactions, Keeps
    PROVE  OwnTransactions' /\ \A tx \in in_flight' : IsTransaction(tx)'
<1>0. command' = command /\ runs' = runs /\ (At("clawback") \/ value' = value)
  BY DEF Keeps
<1>2. pc = "send" =>
        /\ IsTransaction(Tx) /\ Tx.name = command.name
        /\ Tx.signer = command.signer /\ Tx.value = value
  BY TransactionAtHand
<1>3. ASSUME NEW tx \in in_flight'
      PROVE  /\ IsTransaction(tx)
             /\ tx.run = runs =>
                  /\ tx.name = command.name /\ tx.signer = command.signer
                  /\ At("clawback") \/ tx.value = value
  <2>1. CASE tx \in in_flight
    BY <2>1 DEF OwnTransactions, ToolTypeOK
  <2>2. CASE pc = "send" /\ tx = Tx
    BY <1>2, <2>2
  <2>3. QED
    BY <2>1, <2>2 DEF Keeps
<1>4. \A tx : IsTransaction(tx) => IsTransaction(tx)'
  BY <1>0 DEF IsTransaction
<1>5. QED
  BY <1>0, <1>3, <1>4 DEF OwnTransactions, At

\* Where the tool goes on with its list: a version is left when it is settled, or
\* with an error, or with all that follow it when a clawback ends there.
Moves ==
    \/ todo' = todo /\ (is_error => is_error')
    \/ /\ todo # <<>> /\ todo' = Tail(todo)
       /\ is_error => is_error'
       /\ is_error' \/ \A v \in Version : v = version => Settled(v)'
    \/ /\ todo' = <<>>
       /\ is_error => is_error'
       /\ ToSet(todo) \subseteq lost'
    \/ todo' = VersionsOf(command) /\ pc' = "look"

Control ==
    /\ pc' \in Running \cup {"idle", "done", "panicked"}
    /\ is_error' \in BOOLEAN
    /\ value' \in ValuesOf(command.name)
    /\ pc' \in {"send", "check"} => todo' # <<>>
    /\ pc' = "check" =>
         /\ At("new_distributor") /\ todo' = todo
         /\ \/ is_error'
            \/ pc = "check" /\ is_error' = is_error
            \/ \A v \in Version : v = version => Settled(v)'
    /\ pc' = "done" =>
         \/ todo' = <<>> /\ ~is_error'
         \/ pc = "done" /\ todo' = todo /\ is_error' = is_error
    /\ Moves

\* What a clawback does besides: what is ready changes only by being swept, and is
\* left only swept; the pass does not fail at it.
NewPass == ready' = Sweepable(command) /\ todo' = VersionsOf(command) /\ pc' = "look"

ReadyStays ==
    /\ ready' \subseteq ready
    /\ \A v \in ready' : distributor'[v] = distributor[v] \/ Applied(v)'
    /\ \A v \in ready' : \A u \in command.from .. v : IsLive(u) => IsLive(u)'

Sweeps ==
    /\ pc' = "send" =>
         /\ todo' = todo
         /\ \/ pc = "send" /\ value' = value
            \/ /\ value' = finalized[version].clawback_receiver
               /\ distributor' = distributor /\ todo # <<>>
    /\ \A v \in ready' \cap ToSet(todo) : v \in ToSet(todo') \/ Applied(v)'
    /\ pc' \in {"failed", "panicked"} =>
         /\ todo' = todo
         /\ pc \in {"failed", "panicked"} \/ ready' \cap ToSet(todo) = {}

ClawbackControl == At("clawback") =>
    \/ NewPass /\ UNCHANGED <<distributor, finalized, unix_timestamp>>
    \/ ReadyStays /\ Sweeps

(* The versions of a range.                                                *)
LEMMA RangeIs ==
    ASSUME NEW c, c.name = "clawback", IsCommand(c)
    PROVE  /\ ToSet(VersionsOf(c)) = c.from .. c.to
           /\ c.from .. c.to \subseteq Version
           /\ \A i, j \in 1 .. Len(VersionsOf(c)) :
                i <= j => VersionsOf(c)[i] <= VersionsOf(c)[j]
<1>1. /\ c.from \in Nat /\ c.to \in Nat /\ VersionsOf(c) \in Seq(Version)
      /\ VersionsOf(c) = RangeOf(c.from, c.to)
  BY DEF IsCommand, VersionsOf, ToVersion
<1> DEFINE n == c.to - c.from + 1
           r == RangeOf(c.from, c.to)
<1>2. n \in Int /\ r = [i \in 1 .. n |-> c.from + i - 1]
  BY <1>1 DEF RangeOf
<1>3. DOMAIN r = 1 .. n /\ \A i \in 1 .. n : r[i] = c.from + i - 1
  BY <1>2
<1> HIDE DEF n, r
<1>4. r \in Seq(Version) /\ DOMAIN r = 1 .. Len(r)
  BY <1>1, LenProperties DEF r
<1>5. ToSet(r) = c.from .. c.to
  <2>1. \A v \in c.from .. c.to : v - c.from + 1 \in 1 .. n /\ r[v - c.from + 1] = v
    BY <1>1, <1>3 DEF n
  <2>2. \A i \in 1 .. n : r[i] \in c.from .. c.to
    BY <1>1, <1>3 DEF n
  <2>3. ToSet(r) = {r[i] : i \in 1 .. n}
    BY <1>3 DEF ToSet
  <2>4. QED
    BY <2>1, <2>2, <2>3
<1>6. ToSet(r) \subseteq Version
  BY <1>4, SeqToSet
<1>7. \A i, j \in 1 .. Len(r) : i <= j => r[i] <= r[j]
  <2>1. 1 .. Len(r) = 1 .. n
    BY <1>3, <1>4
  <2>2. \A i \in 1 .. n : i \in Int /\ r[i] = c.from + i - 1 /\ c.from \in Int
    BY <1>1, <1>2, <1>3
  <2>3. ASSUME NEW i \in 1 .. Len(r), NEW j \in 1 .. Len(r), i <= j
        PROVE  r[i] <= r[j]
    <3>1. i \in 1 .. n /\ j \in 1 .. n
      BY <2>1
    <3>2. QED
      BY <2>2, <2>3, <3>1
  <2>4. QED
    BY <2>3
<1>8. QED
  BY <1>1, <1>5, <1>6, <1>7 DEF r

--------------------------------------------------------------------------------
(* Such steps keep the inductive invariant *)

LEMMA TypeStays ==
    ASSUME ToolTypeOK, runs > 0, OwnTransactions, Keeps, Control
    PROVE  ToolTypeOK'
<1>0. command' = command /\ runs' = runs /\ session' = session
  BY DEF Keeps
<1>1. \A tx \in in_flight' : IsTransaction(tx)'
  BY TransactionsStay
<1>2. IsCommand(command) /\ VersionsOf(command) \in Seq(Version)
  BY DEF ToolTypeOK, CommandTypeOK, IsCommand
<1>3. /\ todo' \in Seq(Version)
      /\ ToSet(todo') \subseteq ToSet(VersionsOf(command))
      /\ At("clawback") =>
           \A i, j \in 1 .. Len(todo') : i <= j => todo'[i] <= todo'[j]
  <2>1. CASE todo' = todo
    BY <2>1 DEF ToolTypeOK, CommandTypeOK
  <2>2. CASE todo # <<>> /\ todo' = Tail(todo)
    <3>1. /\ todo' \in Seq(Version) /\ ToSet(todo') \subseteq ToSet(todo)
      BY <2>2, HeadTailToSet DEF ToolTypeOK
    <3>2. /\ Len(todo) \in Nat /\ Len(todo') = Len(todo) - 1
          /\ \A i \in 1 .. Len(todo') : todo'[i] = todo[i + 1]
      BY <2>2, HeadTailProperties, LenProperties DEF ToolTypeOK
    <3>3. \A i \in 1 .. Len(todo') : i + 1 \in 1 .. Len(todo)
      BY <3>2
    <3>4. At("clawback") =>
            \A i, j \in 1 .. Len(todo') : i <= j => todo'[i] <= todo'[j]
      <4>1. ASSUME At("clawback"), NEW i \in 1 .. Len(todo'), NEW j \in 1 .. Len(todo'),
                   i <= j
            PROVE  todo'[i] <= todo'[j]
        <5>1. /\ i + 1 \in 1 .. Len(todo) /\ j + 1 \in 1 .. Len(todo)
              /\ i + 1 <= j + 1
          BY <3>3, <4>1
        <5>2. todo[i + 1] <= todo[j + 1]
          BY <4>1, <5>1 DEF ToolTypeOK, CommandTypeOK
        <5>3. QED
          BY <3>2, <5>2
      <4>2. QED
        BY <4>1
    <3>5. QED
      BY <3>1, <3>4 DEF ToolTypeOK, CommandTypeOK
  <2>3. CASE todo' = <<>>
    <3>1. todo' \in Seq(Version) /\ Len(todo') = 0 /\ ToSet(todo') = {}
      BY <2>3, EmptySeq, SeqToSet, <1>2
    <3>2. QED
      BY <3>1
  <2>4. CASE todo' = VersionsOf(command)
    BY <1>2, <2>4, RangeIs DEF At
  <2>5. QED
    BY <2>1, <2>2, <2>3, <2>4 DEF Control, Moves
<1>4. ready' \subseteq Version
  BY DEF Keeps
<1>5. finalized' \in Accounts /\ distributor' \in Accounts
  BY DEF ToolTypeOK, Keeps
<1>6. IsCommand(command)'
  BY <1>0, <1>2
<1>7. QED
  <2>1. /\ unix_timestamp' \in Nat /\ slot' \in Nat /\ faults' \in Nat
        /\ session' \in Sessions /\ runs' \in 0 .. Len(session')
    BY <1>0 DEF ToolTypeOK, Keeps
  <2>2. /\ is_error' \in BOOLEAN /\ pc' \in Running \cup {"idle", "done", "panicked"}
        /\ value' \in ValuesOf(command'.name)
        /\ pc' \in {"send", "check"} => todo' # <<>>
        /\ pc' = "check" => At("new_distributor")'
    BY <1>0 DEF Control, At
  <2>3. runs' > 0
    BY <1>0
  <2>4. ToSet(todo') \subseteq ToSet(VersionsOf(command'))
    BY <1>0, <1>3
  <2>5. At("clawback")' =>
           \A i, j \in 1 .. Len(todo') : i <= j => todo'[i] <= todo'[j]
    BY <1>0, <1>3 DEF At
  <2>6. CommandTypeOK'
    BY <1>6, <2>2, <2>4, <2>5 DEF CommandTypeOK
  <2>7. QED
    BY <1>1, <1>3, <1>4, <1>5, <2>1, <2>2, <2>3, <2>6 DEF ToolTypeOK

(* The versions of a clawback are a range, and so those up to one of them. *)
LEMMA VisitedIs ==
    ASSUME CommandTypeOK, NEW v \in ToSet(VersionsOf(command))
    PROVE  /\ v \in Version
           /\ At("clawback") => /\ command.from .. v \subseteq Version
                                /\ v \in command.from .. v
                                /\ v \in command.from .. command.to
<1>1. VersionsOf(command) \in Seq(Version) /\ IsCommand(command)
  BY DEF CommandTypeOK, IsCommand
<1>2. v \in Version
  BY <1>1, SeqToSet
<1>3. ASSUME At("clawback")
      PROVE  /\ command.from .. v \subseteq Version
             /\ v \in command.from .. v
             /\ v \in command.from .. command.to
  <2>1. /\ v \in command.from .. command.to
        /\ command.from .. command.to \subseteq Version
        /\ command.from \in Nat /\ command.to \in Nat
    BY <1>1, <1>3, RangeIs DEF At, IsCommand
  <2>2. QED
    BY <2>1
<1>4. QED
  BY <1>2, <1>3

(* The version at hand is the least of those a clawback has to visit.      *)
LEMMA FirstIsLeast ==
    ASSUME ToolTypeOK, runs > 0, At("clawback"), todo # <<>>, NEW v \in ToSet(todo)
    PROVE  version \in command.from .. v
<1>0. /\ CommandTypeOK /\ todo \in Seq(Version)
      /\ ToSet(todo) \subseteq ToSet(VersionsOf(command))
  BY DEF ToolTypeOK, CommandTypeOK
<1>1. version = todo[1] /\ version \in ToSet(todo)
  BY <1>0, HeadTailToSet DEF version
<1>2. PICK i \in 1 .. Len(todo) : v = todo[i]
  BY <1>0, SeqToSet
<1>3. /\ 1 \in 1 .. Len(todo) /\ 1 <= i
      /\ \A j, k \in 1 .. Len(todo) : j <= k => todo[j] <= todo[k]
  BY <1>0, LenProperties DEF CommandTypeOK
<1>4. version <= v
  BY <1>1, <1>2, <1>3
<1>5. PICK u \in ToSet(VersionsOf(command)) : u = version
  BY <1>0, <1>1
<1>6. /\ u \in command.from .. u /\ v \in command.from .. v
      /\ command.from \in Nat /\ u \in Version /\ v \in Version
  BY <1>0, VisitedIs DEF CommandTypeOK, IsCommand, At
<1>7. QED
  BY <1>4, <1>5, <1>6

LEMMA PassStays ==
    ASSUME ToolTypeOK, runs > 0, PassSettles, Keeps, Control
    PROVE  PassSettles'
<1>0. /\ command' = command /\ CommandTypeOK
      /\ ToSet(todo) \subseteq ToSet(VersionsOf(command)) /\ todo \in Seq(Version)
      /\ VersionsOf(command) \in Seq(Version)
  BY DEF Keeps, ToolTypeOK, CommandTypeOK, IsCommand
<1>1. todo # <<>> => version \in ToSet(todo)
  BY <1>0, HeadTailToSet DEF version
<1>2. Behind' = ToSet(VersionsOf(command)) \ ToSet(todo')
  BY <1>0 DEF Behind
<1>3. ASSUME ~is_error', NEW v \in Behind'
      PROVE  Settled(v)'
  <2>0. v \in ToSet(VersionsOf(command)) /\ v \notin ToSet(todo') /\ v \in Version
    BY <1>0, <1>2, <1>3, SeqToSet
  <2>1. ASSUME ~is_error, v \notin ToSet(todo)
        PROVE  Settled(v)'
    <3>1. Settled(v)
      BY <2>0, <2>1 DEF PassSettles, Behind
    <3>2. QED
      BY <1>1, <2>0, <2>1, <3>1, SettledStays
  <2>2. CASE todo' = todo /\ (is_error => is_error')
    BY <1>3, <2>0, <2>1, <2>2
  <2>3. CASE /\ todo # <<>> /\ todo' = Tail(todo)
             /\ is_error => is_error'
             /\ is_error' \/ \A u \in Version : u = version => Settled(u)'
    <3>1. v = version \/ v \notin ToSet(todo)
      BY <1>0, <2>0, <2>3, HeadTailToSet DEF version
    <3>2. QED
      BY <1>3, <2>0, <2>1, <2>3, <3>1
  <2>4. CASE (is_error => is_error') /\ ToSet(todo) \subseteq lost'
    BY <1>3, <2>1, <2>4 DEF Settled, OutOfSight
  <2>5. CASE todo' = VersionsOf(command)
    BY <2>0, <2>5
  <2>6. QED
    BY <2>2, <2>3, <2>4, <2>5 DEF Control, Moves
<1>4. ASSUME ~is_error', pc' = "check"
      PROVE  Settled(version)'
  <2>1. todo' = todo /\ todo # <<>>
    BY <1>4 DEF Control
  <2>2. version \in ToSet(VersionsOf(command)) /\ version \in Version
    BY <1>0, <2>1, HeadTailToSet DEF version
  <2>3. PICK v \in ToSet(VersionsOf(command)) : v = version /\ v \in Version
    BY <2>2
  <2>4. v = version'
    BY <2>1, <2>3 DEF version
  <2>5. Settled(v) => Settled(v)'
    BY <1>4, <2>3, SettledStays
  <2>6. Settled(v)'
    BY <1>4, <2>3, <2>5 DEF Control, PassSettles
  <2>7. QED
    BY <2>4, <2>6
<1>5. pc' = "done" => todo' = <<>> /\ ~is_error'
  BY DEF Control, PassSettles
<1>6. QED
  BY <1>3, <1>4, <1>5 DEF PassSettles

(* What could be swept still can, if its account did not change: time only *)
(* goes on, and a block that is finalized has the accounts as they are.    *)
LEMMA SweepableStays ==
    ASSUME ToolTypeOK, Keeps, NEW v \in Version, distributor'[v] = distributor[v],
           IsSweepable(v)
    PROVE  IsSweepable(v)'
<1>1. distributor[v].clawback_start_ts \in Nat
  BY DEF ToolTypeOK, Accounts, IsSweepable, IsOpen, IsLive, MerkleDistributor
<1>2. /\ unix_timestamp \in Nat /\ unix_timestamp' \in Nat
      /\ unix_timestamp <= unix_timestamp'
      /\ finalized' = finalized \/ finalized' = distributor'
  BY DEF ToolTypeOK, Keeps
<1>3. unix_timestamp' >= distributor[v].clawback_start_ts
  BY <1>1, <1>2 DEF IsSweepable, ClawbackStarted
<1>4. QED
  BY <1>2, <1>3 DEF IsSweepable, IsOpen, IsLive, ClawbackStarted

LEMMA ClawbackStays ==
    ASSUME ToolTypeOK, runs > 0, ClawbackSweeps, Keeps, Control, ClawbackControl
    PROVE  ClawbackSweeps'
<1>0. /\ command' = command /\ CommandTypeOK /\ IsCommand(command)
      /\ ToSet(todo) \subseteq ToSet(VersionsOf(command)) /\ todo \in Seq(Version)
      /\ ready \subseteq Version
  BY DEF Keeps, ToolTypeOK, CommandTypeOK
<1> SUFFICES ASSUME At("clawback")
             PROVE  ClawbackSweeps'
  BY <1>0 DEF ClawbackSweeps, At
<1>1. /\ ToSet(VersionsOf(command)) = command.from .. command.to
      /\ command.from .. command.to \subseteq Version
      /\ command.from \in Nat /\ command.to \in Nat
  BY <1>0, RangeIs DEF At, IsCommand
<1>2. CASE NewPass /\ UNCHANGED <<distributor, finalized, unix_timestamp>>
  <2>1. Behind' = {}
    BY <1>0, <1>2 DEF Behind, NewPass
  <2>2. /\ ready' \subseteq command.from .. command.to
        /\ \A v \in ready' : IsSweepable(v) /\ InReach(command, v)
    BY <1>2 DEF NewPass, Sweepable
  <2>3. \A v \in ready' : IsSweepable(v)' /\ InReach(command, v)'
    BY <1>0, <1>2, <2>2
       DEF IsSweepable, InReach, IsOpen, IsLive, ClawbackStarted, vars
  <2>4. pc' = "look"
    BY <1>2 DEF NewPass
  <2>5. QED
    BY <1>0, <2>1, <2>2, <2>3, <2>4 DEF ClawbackSweeps
<1>3. CASE ReadyStays /\ Sweeps
  <2>0. /\ pc' = "send" =>
             /\ todo' = todo
             /\ \/ pc = "send" /\ value' = value
                \/ /\ value' = finalized[version].clawback_receiver
                   /\ distributor' = distributor /\ todo # <<>>
        /\ \A v \in ready' \cap ToSet(todo) : v \in ToSet(todo') \/ Applied(v)'
        /\ pc' \in {"failed", "panicked"} =>
             /\ todo' = todo
             /\ pc \in {"failed", "panicked"} \/ ready' \cap ToSet(todo) = {}
    BY <1>3 DEF Sweeps
  <2>1. ASSUME NEW v \in ready'
        PROVE  /\ v \in ready /\ v \in Version /\ v \in command.from .. command.to
               /\ command.from .. v \subseteq Version
               /\ v \in ToSet(VersionsOf(command))
               /\ InReach(command, v) /\ (Applied(v) \/ IsSweepable(v))
    <3>1. v \in ready /\ v \in command.from .. command.to
      BY <1>3 DEF ReadyStays, ClawbackSweeps
    <3>2. command.from .. v \subseteq command.from .. command.to
      BY <1>1, <3>1
    <3>3. QED
      BY <1>0, <1>1, <3>1, <3>2 DEF ClawbackSweeps
  <2>2. ASSUME NEW v \in ready'
        PROVE  InReach(command, v)'
    <3>1. ASSUME NEW u \in command.from .. v
          PROVE  IsLive(u)' /\ finalized'[u] # NoAccount
      <4>1. IsLive(u) /\ finalized[u] # NoAccount
        BY <2>1 DEF InReach
      <4>2. IsLive(u)'
        BY <1>3, <4>1 DEF ReadyStays
      <4>3. QED
        BY <4>1, <4>2 DEF Keeps, IsLive
    <3>2. QED
      BY <1>0, <3>1 DEF InReach
  <2>3. ASSUME NEW v \in ready'
        PROVE  Applied(v) => Applied(v)'
    BY <1>3, AppliedStays DEF ReadyStays
  <2>4. ASSUME NEW v \in ready'
        PROVE  Applied(v)' \/ IsSweepable(v)'
    <3>1. CASE distributor'[v] = distributor[v] /\ IsSweepable(v)
      BY <2>1, <3>1, SweepableStays
    <3>2. QED
      BY <1>3, <2>1, <2>3, <3>1 DEF ReadyStays
  <2>5. ASSUME pc' = "send", version' \in ready'
        PROVE  Applied(version)' \/ (value = distributor[version].clawback_receiver)'
    <3>1. version' = version /\ todo # <<>>
      BY <2>0, <2>5 DEF Control, version
    <3>2. PICK v \in ready' : v = version
      BY <2>5, <3>1
    <3>3. Applied(v)' \/ value' = distributor'[v].clawback_receiver
      <4>1. CASE pc = "send" /\ value' = value
        <5>1. Applied(v) \/ value = distributor[v].clawback_receiver
          BY <2>1, <3>2, <4>1 DEF ClawbackSweeps
        <5>2. QED
          BY <1>3, <2>3, <4>1, <5>1 DEF ReadyStays
      <4>2. CASE /\ value' = finalized[version].clawback_receiver
                 /\ distributor' = distributor
        <5>1. Applied(v) \/ finalized[v] = distributor[v]
          BY <2>1 DEF IsSweepable
        <5>2. QED
          BY <2>3, <3>2, <4>2, <5>1
      <4>3. QED
        BY <2>0, <2>5, <4>1, <4>2
    <3>4. QED
      BY <3>1, <3>2, <3>3
  <2>6. ASSUME NEW v \in ready', v \notin ToSet(todo)
        PROVE  Applied(v)'
    <3>1. v \in ready \cap Behind
      BY <2>1, <2>6 DEF Behind
    <3>2. QED
      BY <2>3, <3>1 DEF ClawbackSweeps
  <2>7. ASSUME NEW v \in ready' \cap Behind'
        PROVE  Applied(v)'
    <3>1. v \notin ToSet(todo')
      BY <2>7 DEF Behind
    <3>2. QED
      BY <2>0, <2>6, <2>7, <3>1
  <2>8. ASSUME pc' \in {"failed", "panicked"}, NEW v \in ready'
        PROVE  Applied(v)'
    <3>1. CASE pc \in {"failed", "panicked"}
      BY <2>1, <2>3, <3>1 DEF ClawbackSweeps
    <3>2. CASE ready' \cap ToSet(todo) = {}
      BY <2>6, <3>2
    <3>3. QED
      BY <2>0, <2>8, <3>1, <3>2
  <2>9. QED
    <3>1. ready' \subseteq command.from .. command.to
      BY <2>1
    <3>2. QED
      BY <1>0, <3>1, <2>2, <2>4, <2>5, <2>7, <2>8 DEF ClawbackSweeps
<1>4. QED
  BY <1>2, <1>3 DEF ClawbackControl

LEMMA StepStays ==
    ASSUME OperatorInv, runs > 0, Keeps, Control, ClawbackControl
    PROVE  OperatorInv'
<1>1. /\ ToolTypeOK /\ NoBonusPaid /\ OwnTransactions /\ PassSettles /\ ClawbackSweeps
  BY DEF OperatorInv
<1>2. runs' = runs /\ NoBonusPaid'
  BY DEF Keeps
<1>3. ToolTypeOK'
  BY <1>1, TypeStays
<1>4. OwnTransactions'
  BY <1>1, TransactionsStay
<1>5. PassSettles'
  BY <1>1, PassStays
<1>6. ClawbackSweeps'
  BY <1>1, ClawbackStays
<1>7. ~(runs' = 0)
  BY <1>1, <1>2 DEF ToolTypeOK
<1>8. QED
  BY <1>2, <1>3, <1>4, <1>5, <1>6, <1>7 DEF OperatorInv

--------------------------------------------------------------------------------
(* The start of a command *)

LEMMA StartStays ==
    ASSUME OperatorInv, StartCommand
    PROVE  OperatorInv'
<1> DEFINE c == session[runs + 1]
<1>0. /\ ToolTypeOK /\ NoBonusPaid
      /\ runs \in Nat /\ runs + 1 \in 1 .. Len(session) /\ Len(session) \in Nat
      /\ session \in Sessions
  <2>1. ToolTypeOK /\ NoBonusPaid /\ session \in Sessions /\ runs \in 0 .. Len(session)
    BY DEF OperatorInv, ToolTypeOK
  <2>2. Len(session) \in Nat
    BY <2>1, CommandsAssumption
  <2>3. runs < Len(session)
    BY DEF StartCommand
  <2>4. QED
    BY <2>1, <2>2, <2>3
<1>1. IsCommand(c)
  BY <1>0, CommandsAssumption
<1>2. PICK x : Start(c, x) /\ x \in ValuesOf(c.name)
  <2>1. CASE c.name = "by_time"
    <3>1. PICK samples \in Samples :
            Start(c, Slots!slot_at(c.value, unix_timestamp, slot,
                                   Slots!get_average_slot_time(samples)))
      BY <2>1 DEF StartCommand
    <3>2. c.value \in Int /\ unix_timestamp \in Int /\ slot \in Int
      BY <1>0, <1>1, <2>1 DEF IsCommand, ToolTypeOK
    <3>3. Slots!slot_at(c.value, unix_timestamp, slot,
                        Slots!get_average_slot_time(samples)) \in U64
      BY <3>2, AverageIsSane, SlotIsU64, ZenonT(30)
    <3>4. ValuesOf(c.name) = U64
      BY <2>1 DEF ValuesOf
    <3>5. QED
      BY <3>1, <3>3, <3>4
  <2>2. CASE c.name # "by_time"
    BY <1>1, <2>2 DEF StartCommand, IsCommand
  <2>3. QED
    BY <2>1, <2>2
<1> HIDE DEF c
<1>3. /\ command' = c /\ value' = x /\ pc' = "look" /\ todo' = VersionsOf(c)
      /\ is_error' = FALSE /\ runs' = runs + 1 /\ ready' = Sweepable(c)
      /\ UNCHANGED <<distributor, finalized, unix_timestamp, slot, session, in_flight, faults>>
  BY <1>2 DEF Start, vars, chain, network
<1>4. VersionsOf(c) \in Seq(Version)
  BY <1>1 DEF IsCommand
<1>5. \A tx \in in_flight : IsTransaction(tx)' /\ tx.run # runs'
  BY <1>0, <1>3 DEF ToolTypeOK, IsTransaction
<1>6. ToolTypeOK'
  <2>1. /\ IsCommand(command') /\ value' \in ValuesOf(command'.name)
        /\ ToSet(todo') \subseteq ToSet(VersionsOf(command'))
    BY <1>1, <1>2, <1>3
  <2>2. c.name = "clawback" =>
          \A i, j \in 1 .. Len(todo') : i <= j => todo'[i] <= todo'[j]
    BY <1>1, <1>3, RangeIs
  <2>3. CommandTypeOK'
    BY <1>3, <2>1, <2>2 DEF CommandTypeOK, At
  <2>4. /\ runs' \in 0 .. Len(session') /\ is_error' \in BOOLEAN
        /\ ready' \subseteq Version /\ pc' \in Running
    <3>1. runs' \in 0 .. Len(session')
      BY <1>0, <1>3
    <3>2. ready' \subseteq Version /\ pc' \in Running /\ is_error' \in BOOLEAN
      BY <1>3 DEF Sweepable, Running
    <3>3. QED
      BY <3>1, <3>2
  <2>5. \A tx \in in_flight' : IsTransaction(tx)'
    BY <1>3, <1>5
  <2>6. QED
    BY <1>0, <1>3, <1>4, <2>3, <2>4, <2>5 DEF ToolTypeOK
<1>7. NoBonusPaid'
  BY <1>0, <1>3 DEF NoBonusPaid, IsLive
<1>8. OwnTransactions'
  BY <1>3, <1>5 DEF OwnTransactions
<1>9. Behind' = {}
  BY <1>3 DEF Behind
<1>10. PassSettles'
  BY <1>3, <1>9 DEF PassSettles
<1>11. ClawbackSweeps'
  <2>1. ready' \subseteq command'.from .. command'.to
    BY <1>3 DEF Sweepable
  <2>2. \A v \in ready' : InReach(command, v)' /\ IsSweepable(v)'
    BY <1>3 DEF Sweepable, InReach, IsSweepable, IsOpen, IsLive, ClawbackStarted
  <2>3. pc' = "look"
    BY <1>3
  <2>4. QED
    BY <1>9, <2>1, <2>2, <2>3 DEF ClawbackSweeps
<1>12. runs' # 0
  BY <1>0, <1>3
<1>13. QED
  BY <1>6, <1>7, <1>8, <1>10, <1>11, <1>12 DEF OperatorInv

LEMMA ToolInitInv == ToolInit => OperatorInv
<1> SUFFICES ASSUME ToolInit
             PROVE  OperatorInv
  OBVIOUS
<1>1. /\ distributor = [v \in Version |-> NoAccount] /\ finalized = distributor
      /\ unix_timestamp = 0 /\ slot = 0
      /\ session \in Sessions /\ runs = 0 /\ faults = 0 /\ is_error = FALSE
      /\ pc = "idle" /\ in_flight = {} /\ todo = <<>> /\ ready = {}
  BY DEF ToolInit, Init
<1>2. Len(session) \in Nat
  BY <1>1, CommandsAssumption
<1>3. todo \in Seq(Version) /\ runs \in 0 .. Len(session)
  BY <1>1, <1>2
<1>4. ToolTypeOK
  BY <1>1, <1>3 DEF ToolTypeOK, Accounts
<1>5. NoBonusPaid
  BY <1>1 DEF NoBonusPaid, IsLive
<1>6. QED
  BY <1>1, <1>4, <1>5 DEF OperatorInv

--------------------------------------------------------------------------------
(* What surrounds the tool *)

\* What the tool itself decides stays.
Aside ==
    /\ UNCHANGED <<session, command, runs, prefunded, pc, todo, value, is_error, misread>>
    /\ overtaken \subseteq overtaken' /\ lost \subseteq lost'

LEMMA AsideControl ==
    ASSUME ToolTypeOK, runs > 0, Aside, At("clawback") => ReadyStays
    PROVE  Control /\ ClawbackControl
<1>1. CommandTypeOK
  BY DEF ToolTypeOK
<1>2. Control
  BY <1>1 DEF Aside, Control, Moves, ToolTypeOK, CommandTypeOK
<1>3. Sweeps
  BY DEF Aside, Sweeps
<1>4. QED
  BY <1>2, <1>3 DEF ClawbackControl

(* A transaction of the running command does what the command is there for.*)
LEMMA OwnApplies ==
    ASSUME NEW tx, tx.name = command.name, tx.signer = command.signer,
           At("clawback") \/ tx.value = value,
           \A c : c.name = tx.name /\ c.signer = tx.signer =>
             Shows(c, tx.value, tx.version, distributor'[tx.version]),
           command' = command, At("clawback") \/ value' = value
    PROVE  Applied(tx.version)'
<1>1. Shows(command, tx.value, tx.version, distributor'[tx.version])
  OBVIOUS
<1>2. Shows(command, value', tx.version, distributor'[tx.version])
  <2>1. CASE At("clawback")
    BY <1>1, <2>1, ShowsSwept DEF At
  <2>2. CASE ~At("clawback")
    BY <1>1, <2>2
  <2>3. QED
    BY <2>1, <2>2
<1>3. QED
  BY <1>2, AppliedNext

(* What is ready lies in the range of the clawback.                        *)
LEMMA ReadyInRange ==
    ASSUME ToolTypeOK, runs > 0, ClawbackSweeps, At("clawback"), NEW v \in ready
    PROVE  v \in Version /\ v \in Nat /\ command.from .. v \subseteq Version
<1>1. IsCommand(command) /\ v \in command.from .. command.to
  BY DEF ToolTypeOK, CommandTypeOK, ClawbackSweeps
<1>2. /\ command.from .. command.to \subseteq Version
      /\ command.from \in Nat /\ command.to \in Nat
  BY <1>1, RangeIs DEF At, IsCommand
<1>3. QED
  BY <1>1, <1>2

(* An account that is written outside the command's own transactions takes *)
(* its version out of what is ready, and what it hides if it is closed.    *)
LEMMA OthersLeaveReady ==
    ASSUME ToolTypeOK, runs > 0, ClawbackSweeps, At("clawback"), NEW v \in Version,
           WritesOnly(v), ChangedByOthers(v)
    PROVE  ReadyStays
<1>1. ready' = {u \in ready : u # v /\ (v < u => distributor'[v] # NoAccount)}
  BY DEF ChangedByOthers
<1>2. \A w \in ready' : distributor'[w] = distributor[w]
  BY <1>1, ReadyInRange DEF WritesOnly
<1>3. ASSUME NEW w \in ready', NEW u \in command.from .. w, IsLive(u)
      PROVE  IsLive(u)'
  <2>1. /\ w \in ready /\ w # v /\ (v < w => distributor'[v] # NoAccount)
        /\ w \in Nat /\ u \in Version
    BY <1>1, <1>3, ReadyInRange
  <2>2. CASE u = v
    <3>1. v \in Nat
      BY ToolAssumption
    <3>2. v < w
      BY <1>3, <2>1, <2>2, <3>1
    <3>3. QED
      BY <2>1, <2>2, <3>2 DEF IsLive
  <2>3. CASE u # v
    BY <1>3, <2>1, <2>3 DEF WritesOnly, IsLive
  <2>4. QED
    BY <2>2, <2>3
<1>4. QED
  BY <1>1, <1>2, <1>3 DEF ReadyStays

(* The command's own sweeps leave every account where it is.               *)
LEMMA OwnLeavesReady ==
    ASSUME ToolTypeOK, runs > 0, ClawbackSweeps, At("clawback"), NEW v \in Version,
           WritesOnly(v), Applied(v)', command' = command, ready' \subseteq ready
    PROVE  ReadyStays
<1>1. IsLive(v)'
  <2>1. Shows(command', value', v, distributor'[v])
    BY AppliedNext
  <2>2. distributor'[v] # NoAccount
    BY <2>1, ShowsIs DEF At
  <2>3. QED
    BY <2>2 DEF IsLive
<1>2. \A w \in ready' : distributor'[w] = distributor[w] \/ Applied(w)'
  <2>1. ASSUME NEW w \in ready'
        PROVE  distributor'[w] = distributor[w] \/ Applied(w)'
    <3>1. w \in Version
      BY ReadyInRange
    <3>2. QED
      BY <3>1 DEF WritesOnly
  <2>2. QED
    BY <2>1
<1>3. ASSUME NEW w \in ready', NEW u \in command.from .. w, IsLive(u)
      PROVE  IsLive(u)'
  <2>1. u \in Version
    BY ReadyInRange
  <2>2. QED
    BY <1>1, <1>3, <2>1 DEF WritesOnly, IsLive
<1>4. QED
  BY <1>2, <1>3 DEF ReadyStays

(* Where no account is written nothing that is ready is spoilt.            *)
LEMMA QuietLeavesReady ==
    ASSUME UNCHANGED distributor, ready' \subseteq ready
    PROVE  ReadyStays
  BY DEF ReadyStays, IsLive

LEMMA SurroundingsStay ==
    ASSUME OperatorInv, runs > 0, Surroundings
    PROVE  OperatorInv'
<1>0. /\ ToolTypeOK /\ NoBonusPaid /\ OwnTransactions /\ ClawbackSweeps
      /\ distributor \in Accounts /\ finalized \in Accounts /\ ready \subseteq Version
      /\ unix_timestamp \in Nat /\ slot \in Nat /\ faults \in Nat
  BY DEF OperatorInv, ToolTypeOK
<1>1. CASE \E tx \in in_flight : Settle(tx)
  <2>1. PICK tx \in in_flight : Settle(tx)
    BY <1>1
  <2>2. IsTransaction(tx) /\ tx.version \in Version
    BY <1>0 DEF ToolTypeOK, IsTransaction
  <2>3. /\ UNCHANGED <<session, command, runs, prefunded, pc, todo, value, is_error,
                       misread, finalized>>
        /\ in_flight' = in_flight \ {tx}
    BY <2>1 DEF Settle, settings
  <2>4. CASE Lands(tx)
    <3>1. Executes(tx) /\ faults' = faults /\ lost' = lost
      BY <2>4 DEF Lands
    <3>2. /\ WritesOnly(tx.version)
          /\ \A c : c.name = tx.name /\ c.signer = tx.signer =>
               Shows(c, tx.value, tx.version, distributor'[tx.version])
      BY <1>0, <2>2, <3>1, ExecutesWrites
    <3>3. CASE tx.run = runs
      <4>1. /\ tx.name = command.name /\ tx.signer = command.signer
            /\ At("clawback") \/ tx.value = value
        BY <1>0, <3>3 DEF OwnTransactions
      <4>2. Applied(tx.version)'
        BY <2>3, <3>2, <4>1, OwnApplies
      <4>3. overtaken' = overtaken /\ ready' = ready
        BY <2>4, <3>3 DEF Lands
      <4>4. Keeps
        BY <1>0, <2>2, <2>3, <3>1, <3>2, <4>2, <4>3 DEF Keeps, Doubts, WritesOnly, clocks
      <4>5. At("clawback") => ReadyStays
        BY <1>0, <2>2, <2>3, <3>2, <4>2, <4>3, OwnLeavesReady
      <4>6. Aside
        BY <2>3, <3>1, <4>3 DEF Aside
      <4>7. QED
        BY <1>0, <4>4, <4>5, <4>6, AsideControl, StepStays
    <3>4. CASE tx.run # runs
      <4>1. ChangedByOthers(tx.version)
        BY <2>4, <3>4 DEF Lands
      <4>2. overtaken' = overtaken \cup {tx.version} /\ ready' \subseteq Version
        BY <1>0, <4>1 DEF ChangedByOthers
      <4>3. Keeps
        BY <1>0, <2>2, <2>3, <3>1, <3>2, <3>4, <4>2 DEF Keeps, Doubts, WritesOnly, clocks
      <4>4. At("clawback") => ReadyStays
        BY <1>0, <2>2, <3>2, <4>1, OthersLeaveReady
      <4>5. Aside
        BY <2>3, <3>1, <4>2 DEF Aside
      <4>6. QED
        BY <1>0, <4>3, <4>4, <4>5, AsideControl, StepStays
    <3>5. QED
      BY <3>3, <3>4
  <2>5. CASE Fails(tx)
    <3>1. /\ UNCHANGED <<distributor, unix_timestamp, slot, overtaken, ready>>
          /\ lost' = IF tx.run = runs THEN lost \cup {tx.version} ELSE lost
          /\ faults' = faults \/ faults' = faults + 1
      BY <2>5 DEF Fails, Fault, chain, vars
    <3>2. NoBonusPaid'
      BY <1>0, <3>1 DEF NoBonusPaid, IsLive
    <3>3. Keeps
      BY <1>0, <2>2, <2>3, <3>1, <3>2 DEF Keeps, Doubts
    <3>4. Aside /\ ReadyStays
      BY <2>3, <3>1, QuietLeavesReady DEF Aside
    <3>5. QED
      BY <1>0, <3>3, <3>4, AsideControl, StepStays
  <2>6. QED
    BY <2>1, <2>4, <2>5 DEF Settle
<1>2. ASSUME UNCHANGED <<distributor, session, command, runs, prefunded, pc, todo, value,
                         is_error, overtaken, misread, lost, ready, faults, in_flight>>,
             finalized' = finalized \/ finalized' = distributor,
             unix_timestamp' \in Nat, slot' \in Nat, unix_timestamp <= unix_timestamp'
      PROVE  OperatorInv'
  <2>1. NoBonusPaid'
    BY <1>0, <1>2 DEF NoBonusPaid, IsLive
  <2>2. Keeps
    BY <1>0, <1>2, <2>1 DEF Keeps, Doubts
  <2>3. Aside /\ ReadyStays
    BY <1>2, QuietLeavesReady DEF Aside
  <2>4. QED
    BY <1>0, <2>2, <2>3, AsideControl, StepStays
<1>3. CASE Finalize
  BY <1>0, <1>2, <1>3 DEF Finalize, chain, vars, tool
<1>4. CASE OthersAct
  <2>0. /\ UNCHANGED <<session, command, runs, prefunded, pc, todo, value, is_error,
                       misread, lost, in_flight, finalized, faults>>
    BY <1>4 DEF OthersAct, network
  <2>1. ASSUME NEW v \in Version, Deploy(v) \/ Clawback(v) \/ Administer(v),
               ChangedByOthers(v)
        PROVE  OperatorInv'
    <3>1. WritesOnly(v)
      BY <1>0, <2>1, OthersWrite
    <3>2. overtaken' = overtaken \cup {v} /\ ready' \subseteq Version
      BY <1>0, <2>1 DEF ChangedByOthers
    <3>3. Keeps
      BY <1>0, <2>0, <3>1, <3>2 DEF Keeps, Doubts, WritesOnly, clocks
    <3>4. At("clawback") => ReadyStays
      BY <1>0, <2>1, <3>1, OthersLeaveReady
    <3>5. Aside
      BY <2>0, <3>2 DEF Aside
    <3>6. QED
      BY <1>0, <3>3, <3>4, <3>5, AsideControl, StepStays
  <2>2. CASE UNCHANGED <<vars, overtaken, ready>>
    BY <1>0, <1>2, <2>0, <2>2 DEF vars
  <2>3. QED
    BY <1>4, <2>1, <2>2 DEF OthersAct
<1>5. CASE /\ \/ AdvanceTime \/ AdvanceSlot
              \/ \E v \in Version, amount \in Deposits : Deposit(v, amount)
           /\ UNCHANGED <<tool, opened, finalized>>
  <2>1. /\ distributor' = distributor /\ finalized' = finalized /\ UNCHANGED tool
        /\ unix_timestamp' \in Nat /\ slot' \in Nat /\ unix_timestamp <= unix_timestamp'
    BY <1>0, <1>5 DEF AdvanceTime, AdvanceSlot, Deposit, clocks
  <2>2. QED
    BY <1>2, <2>1 DEF tool
<1>6. QED
  BY <1>1, <1>3, <1>4, <1>5 DEF Surroundings

(* The same before the first command.                                      *)
LEMMA IdleStays ==
    ASSUME OperatorInv, runs = 0, Surroundings
    PROVE  OperatorInv'
<1>0. /\ ToolTypeOK /\ NoBonusPaid /\ in_flight = {} /\ pc = "idle"
      /\ distributor \in Accounts /\ finalized \in Accounts /\ ready \subseteq Version
      /\ unix_timestamp \in Nat /\ slot \in Nat /\ faults \in Nat
  BY DEF OperatorInv, ToolTypeOK
<1>1. /\ distributor' \in Accounts /\ NoBonusPaid'
      /\ finalized' = finalized \/ finalized' = distributor
      /\ unix_timestamp' \in Nat /\ slot' \in Nat /\ faults' = faults
      /\ UNCHANGED <<session, runs, pc, todo, is_error, in_flight>>
      /\ ready' \subseteq ready
  <2>1. CASE Finalize
    BY <1>0, <2>1 DEF Finalize, NoBonusPaid, IsLive, vars, chain, tool
  <2>2. CASE OthersAct
    <3>1. UNCHANGED <<session, runs, pc, todo, is_error, in_flight, finalized, faults>>
      BY <2>2 DEF OthersAct, network
    <3>2. CASE \E v \in Version : /\ Deploy(v) \/ Clawback(v) \/ Administer(v)
                                  /\ ChangedByOthers(v)
      <4>1. PICK v \in Version : /\ Deploy(v) \/ Clawback(v) \/ Administer(v)
                                 /\ ready' \subseteq ready
        BY <3>2 DEF ChangedByOthers
      <4>2. WritesOnly(v)
        BY <1>0, <4>1, OthersWrite
      <4>3. QED
        BY <1>0, <3>1, <4>1, <4>2 DEF WritesOnly, clocks
    <3>3. CASE UNCHANGED <<vars, overtaken, ready>>
      BY <1>0, <3>1, <3>3 DEF vars, NoBonusPaid, IsLive
    <3>4. QED
      BY <2>2, <3>2, <3>3 DEF OthersAct
  <2>3. CASE /\ \/ AdvanceTime \/ AdvanceSlot
                \/ \E v \in Version, amount \in Deposits : Deposit(v, amount)
             /\ UNCHANGED <<tool, opened, finalized>>
    <3>1. /\ distributor' = distributor /\ unix_timestamp' \in Nat /\ slot' \in Nat
      BY <1>0, <2>3 DEF AdvanceTime, AdvanceSlot, Deposit, clocks
    <3>2. QED
      BY <1>0, <2>3, <3>1 DEF NoBonusPaid, IsLive, tool
  <2>4. QED
    BY <1>0, <2>1, <2>2, <2>3 DEF Surroundings
<1>2. ToolTypeOK'
  BY <1>0, <1>1 DEF ToolTypeOK
<1>3. QED
  BY <1>0, <1>1, <1>2 DEF OperatorInv

--------------------------------------------------------------------------------
(* The tool's own steps *)

(* A step that writes no account, and sends at most the transaction at hand.*)
LEMMA QuietKeeps ==
    ASSUME ToolTypeOK, NoBonusPaid,
           UNCHANGED <<vars, session, command, runs, prefunded, finalized>>,
           ready' \subseteq Version,
           At("clawback") \/ value' = value,
           \A v \in Doubts : v \in Doubts' \/ (todo # <<>> /\ v = version /\ pc' # "check"),
           faults' = faults \/ faults' = faults + 1,
           \/ in_flight' = in_flight
           \/ pc = "send" /\ in_flight' = in_flight \cup {Tx}
    PROVE  Keeps
<1>1. /\ distributor' = distributor /\ unix_timestamp' = unix_timestamp /\ slot' = slot
      /\ distributor \in Accounts /\ faults \in Nat /\ unix_timestamp \in Nat /\ slot \in Nat
  BY DEF vars, ToolTypeOK
<1>2. NoBonusPaid'
  BY <1>1 DEF NoBonusPaid, IsLive
<1>3. QED
  BY <1>1, <1>2 DEF Keeps

(* The version at hand.                                                    *)
LEMMA AtHand ==
    ASSUME ToolTypeOK, runs > 0
    PROVE  /\ CommandTypeOK /\ value \in ValuesOf(command.name) /\ command.name \in Names
           /\ pc \in {"send", "check"} => todo # <<>>
           /\ todo # <<>> =>
                version \in Version /\ version \in ToSet(VersionsOf(command))
<1>1. CommandTypeOK /\ todo \in Seq(Version)
  BY DEF ToolTypeOK
<1>2. todo # <<>> => version \in Version /\ version \in ToSet(VersionsOf(command))
  BY <1>1, HeadTailToSet DEF CommandTypeOK, version
<1>3. QED
  BY <1>1, <1>2 DEF CommandTypeOK, IsCommand

LEMMA GoOn ==
    ASSUME ToolTypeOK, runs > 0,
           todo # <<>>, NextVersion, is_error' \in BOOLEAN, is_error => is_error',
           value' \in ValuesOf(command.name),
           is_error' \/ \A v \in Version : v = version => Settled(v)'
    PROVE  Control
<1>1. Moves
  BY DEF Moves, NextVersion
<1>2. QED
  BY <1>1 DEF Control, NextVersion, Running

LEMMA StayAtHand ==
    ASSUME ToolTypeOK, runs > 0,
           todo' = todo, is_error' = is_error, value' \in ValuesOf(command.name),
           pc' \in {"look", "send", "failed", "panicked"},
           pc' = "send" => todo # <<>>
    PROVE  Control
  BY DEF Control, Moves, Running, ToolTypeOK

(* A look ends doubts about the version at hand only.                      *)
LEMMA SawDoubts ==
    ASSUME NEW accounts, SawIn(accounts), lost \ {version} \subseteq lost'
    PROVE  \A v \in Doubts : v \in Doubts' \/ v = version
  BY DEF SawIn, Doubts

(* A look at the account of the version at hand, of any command but        *)
(* clawback.                                                               *)
LEMMA LookStays ==
    ASSUME OperatorInv, runs > 0, ~At("clawback"), todo # <<>>,
           LookedOnly, value' = value, ready' = ready,
           \A v \in Doubts : v \in Doubts' \/ v = version,
           faults' = faults \/ faults' = faults + 1,
           \/ pc' \in {"send", "failed", "panicked"} /\ todo' = todo
           \/ NextVersion /\ (is_error \/ \A v \in Version : v = version => Settled(v)')
    PROVE  OperatorInv'
<1>0. ToolTypeOK /\ NoBonusPaid /\ ready \subseteq Version
  BY DEF OperatorInv, ToolTypeOK
<1>1. /\ UNCHANGED <<vars, session, command, runs, prefunded, finalized>>
      /\ in_flight' = in_flight /\ is_error' = is_error /\ pc' # "check"
  BY DEF LookedOnly, settings, network, chain, NextVersion
<1>2. Keeps
  BY <1>0, <1>1, QuietKeeps
<1>3. value' \in ValuesOf(command.name) /\ is_error' \in BOOLEAN
  BY <1>0, <1>1, AtHand DEF ToolTypeOK
<1>4. Control
  BY <1>0, <1>1, <1>3, GoOn, StayAtHand
<1>5. QED
  BY <1>2, <1>4, StepStays DEF ClawbackControl

(* What shows in the last finalized block does so now, or the block is     *)
(* older than a change, and the version is left misread.                   *)
LEMMA LeftFinal ==
    ASSUME NEW v \in Version, v = version, Shows(command, value, v, finalized[v]),
           SawIn(finalized), pc' = "look",
           distributor' = distributor, command' = command,
           At("clawback") \/ value' = value
    PROVE  Settled(v)'
<1>1. CASE finalized[v] = distributor[v]
  <2>1. Shows(command', value', v, distributor'[v])
    BY <1>1, ShowsSwept DEF At
  <2>2. Applied(v)'
    BY <2>1, AppliedNext
  <2>3. QED
    BY <2>2 DEF Settled
<1>2. CASE finalized[v] # distributor[v]
  <2>1. v \in misread'
    BY <1>2 DEF SawIn
  <2>2. QED
    BY <2>1 DEF Settled, OutOfSight
<1>3. QED
  BY <1>1, <1>2

LEMMA LookSettingStays ==
    ASSUME OperatorInv, runs > 0, LookSetting
    PROVE  OperatorInv'
<1>0. /\ todo # <<>> /\ command.name \in Setters /\ ~At("clawback")
      /\ LookedOnly /\ value' = value /\ ready' = ready /\ SawFinalized /\ ToolTypeOK
      /\ distributor' = distributor /\ command' = command
  BY DEF LookSetting, Looks, Setters, At, OperatorInv, LookedOnly, chain, vars, settings
<1>1. version \in Version
  BY <1>0, AtHand
<1>2. \A v \in Doubts : v \in Doubts' \/ v = version
  BY <1>0, SawDoubts DEF SawFinalized
<1>3. CASE Unreadable /\ Panic
  <2>1. faults' = faults \/ faults' = faults + 1
    BY <1>3 DEF Unreadable, Fault
  <2>2. QED
    BY <1>0, <1>2, <1>3, <2>1, LookStays DEF Panic
<1>4. CASE Readable /\ AlreadySet(finalized[version]) /\ NextVersion
  <2>1. \A v \in Version : v = version => Settled(v)'
    <3>1. Shows(command, value, version, finalized[version])
      BY <1>0, <1>4, ShowsIs DEF Readable, AlreadySet, Setters, At
    <3>2. QED
      BY <1>0, <1>4, <3>1, LeftFinal DEF NextVersion, SawFinalized
  <2>2. QED
    BY <1>0, <1>2, <1>4, <2>1, LookStays DEF Readable
<1>5. CASE Readable /\ ToSend
  BY <1>0, <1>2, <1>5, LookStays DEF Readable, ToSend
<1>6. QED
  BY <1>3, <1>4, <1>5 DEF LookSetting

LEMMA LookByTimeStays ==
    ASSUME OperatorInv, runs > 0, LookByTime
    PROVE  OperatorInv'
<1>0. /\ todo # <<>> /\ command.name = "by_time" /\ ~At("clawback")
      /\ LookedOnly /\ value' = value /\ ready' = ready /\ SawFinalized /\ ToolTypeOK
      /\ distributor' = distributor /\ command' = command
  BY DEF LookByTime, Looks, At, OperatorInv, LookedOnly, chain, vars, settings
<1>1. \A v \in Doubts : v \in Doubts' \/ v = version
  BY <1>0, SawDoubts DEF SawFinalized
<1>2. CASE Unreadable /\ Panic
  <2>1. faults' = faults \/ faults' = faults + 1
    BY <1>2 DEF Unreadable, Fault
  <2>2. QED
    BY <1>0, <1>1, <1>2, <2>1, LookStays DEF Panic
<1>3. CASE Readable /\ ~BySlot(finalized[version]) /\ NextVersion
  <2>1. \A v \in Version : v = version => Settled(v)'
    <3>1. Shows(command, value, version, finalized[version])
      BY <1>0, <1>3, ShowsIs DEF Readable
    <3>2. QED
      BY <1>0, <1>3, <3>1, LeftFinal DEF NextVersion, SawFinalized
  <2>2. QED
    BY <1>0, <1>1, <1>3, <2>1, LookStays DEF Readable
<1>4. CASE Readable /\ ToSend
  BY <1>0, <1>1, <1>4, LookStays DEF Readable, ToSend
<1>5. QED
  BY <1>2, <1>3, <1>4 DEF LookByTime

LEMMA LookCloseStays ==
    ASSUME OperatorInv, runs > 0, LookClose
    PROVE  OperatorInv'
<1>0. /\ todo # <<>> /\ command.name = "close_distributor" /\ ~At("clawback")
      /\ LookedOnly /\ value' = value /\ ready' = ready /\ SawIn(finalized) /\ ToolTypeOK
      /\ distributor' = distributor /\ command' = command /\ faults \in Nat
  BY DEF LookClose, Looks, At, OperatorInv, ToolTypeOK, LookedOnly, chain, vars, settings
<1>1. lost \ {version} \subseteq lost'
  BY DEF LookClose
<1>2. \A v \in Doubts : v \in Doubts' \/ v = version
  BY <1>0, <1>1, SawDoubts
<1>3. CASE finalized[version] = NoAccount /\ UNCHANGED faults /\ NextVersion
  <2>1. \A v \in Version : v = version => Settled(v)'
    <3>1. Shows(command, value, version, finalized[version])
      BY <1>0, <1>3, ShowsIs
    <3>2. QED
      BY <1>0, <1>3, <3>1, LeftFinal DEF NextVersion
  <2>2. QED
    BY <1>0, <1>2, <1>3, <2>1, LookStays
<1>4. CASE Fault("read") /\ NextVersion
  <2>1. faults' = faults + 1 /\ faults' > faults
    BY <1>0, <1>4 DEF Fault
  <2>2. version \in lost'
    BY <2>1 DEF LookClose
  <2>3. \A v \in Version : v = version => Settled(v)'
    BY <2>2 DEF Settled, OutOfSight
  <2>4. QED
    BY <1>0, <1>2, <1>4, <2>1, <2>3, LookStays
<1>5. CASE Readable /\ ToSend
  BY <1>0, <1>2, <1>5, LookStays DEF Readable, ToSend
<1>6. QED
  BY <1>3, <1>4, <1>5 DEF LookClose, Unreadable

LEMMA LookVerifyStays ==
    ASSUME OperatorInv, runs > 0, LookVerify
    PROVE  OperatorInv'
<1>0. /\ todo # <<>> /\ command.name = "verify" /\ ~At("clawback")
      /\ LookedOnly /\ value' = value /\ ready' = ready /\ SawFinalized /\ ToolTypeOK
      /\ distributor' = distributor /\ command' = command
  BY DEF LookVerify, Looks, At, OperatorInv, LookedOnly, chain, vars, settings
<1>1. \A v \in Doubts : v \in Doubts' \/ v = version
  BY <1>0, SawDoubts DEF SawFinalized
<1>2. ASSUME Panic, Unreadable \/ Readable
      PROVE  OperatorInv'
  <2>1. faults' = faults \/ faults' = faults + 1
    BY <1>2 DEF Unreadable, Readable, Fault
  <2>2. QED
    BY <1>0, <1>1, <1>2, <2>1, LookStays DEF Panic
<1>3. CASE /\ Readable /\ NextVersion
           /\ Verified(finalized[version], Meant[version], command.signer, value)
  <2>1. \A v \in Version : v = version => Settled(v)'
    <3>1. Shows(command, value, version, finalized[version])
      BY <1>0, <1>3, ShowsIs DEF Readable
    <3>2. QED
      BY <1>0, <1>3, <3>1, LeftFinal DEF NextVersion, SawFinalized
  <2>2. QED
    BY <1>0, <1>1, <1>3, <2>1, LookStays DEF Readable
<1>4. QED
  BY <1>2, <1>3 DEF LookVerify

--------------------------------------------------------------------------------
(* new-distributor                                                         *)

(* Accounts with the same fields are the same.                             *)
LEMMA SameAccount ==
    ASSUME NEW d \in MerkleDistributor, NEW e \in MerkleDistributor,
           d.root = e.root, d.max_total_claim = e.max_total_claim,
           d.max_num_nodes = e.max_num_nodes,
           d.total_amount_claimed = e.total_amount_claimed,
           d.num_nodes_claimed = e.num_nodes_claimed, d.start_ts = e.start_ts,
           d.end_ts = e.end_ts, d.clawback_start_ts = e.clawback_start_ts,
           d.clawback_receiver = e.clawback_receiver, d.admin = e.admin,
           d.clawed_back = e.clawed_back, d.activation_point = e.activation_point,
           d.activation_type = e.activation_type, d.closable = e.closable,
           d.total_bonus = e.total_bonus, d.vesting_duration = e.vesting_duration,
           d.total_claimed_bonus = e.total_claimed_bonus
    PROVE  d = e
  BY DEF MerkleDistributor

(* An account that passes the comparison is the one that was meant.        *)
LEMMA PassesIsMeant ==
    ASSUME ToolTypeOK, NoBonusPaid, runs > 0, NEW v \in Version,
           IsLive(v), Passes(v), At("new_distributor")
    PROVE  Applied(v)
<1> DEFINE d == distributor[v]
           a == Meant[v]
           new == MeantBy(command, value, v)
           e == [new EXCEPT !.total_amount_claimed = d.total_amount_claimed,
                            !.num_nodes_claimed = d.num_nodes_claimed,
                            !.clawed_back = d.clawed_back]
<1>1. d \in MerkleDistributor /\ d # NoAccount /\ d.total_claimed_bonus = 0
  BY DEF ToolTypeOK, Accounts, IsLive, NoBonusPaid
<1>2. OnchainMatches(d, a, command.signer, value)
  BY DEF Passes
<1>3. new = NewAccount(a, command.signer, value, a.total_claim, 0, 0)
  BY DEF MeantBy
<1>4. new \in MerkleDistributor
  <2>1. command.signer \in Wallet /\ value \in TokenAccount
    BY DEF ToolTypeOK, CommandTypeOK, IsCommand, ValuesOf, At
  <2>2. a \in DeployArg /\ a.total_claim \in U64 /\ 0 \in U64
    BY ToolAssumption, U64MaxAssumption DEF DeployArg, U64
  <2>3. QED
    BY <1>3, <2>1, <2>2, NewAccountType
<1> HIDE DEF d, a
<1>5. /\ d.root = new.root /\ d.max_total_claim = new.max_total_claim
      /\ d.max_num_nodes = new.max_num_nodes /\ d.start_ts = new.start_ts
      /\ d.end_ts = new.end_ts /\ d.clawback_start_ts = new.clawback_start_ts
      /\ d.clawback_receiver = new.clawback_receiver /\ d.admin = new.admin
      /\ d.activation_point = new.activation_point
      /\ d.activation_type = new.activation_type /\ d.closable = new.closable
      /\ d.total_bonus = new.total_bonus
      /\ d.vesting_duration = new.vesting_duration
      /\ d.total_claimed_bonus = new.total_claimed_bonus
  BY <1>1, <1>2, <1>3 DEF OnchainMatches, NewAccount
<1> HIDE DEF new
<1>6. /\ e \in MerkleDistributor
      /\ e.total_amount_claimed = d.total_amount_claimed
      /\ e.num_nodes_claimed = d.num_nodes_claimed /\ e.clawed_back = d.clawed_back
      /\ e.root = new.root /\ e.max_total_claim = new.max_total_claim
      /\ e.max_num_nodes = new.max_num_nodes /\ e.start_ts = new.start_ts
      /\ e.end_ts = new.end_ts /\ e.clawback_start_ts = new.clawback_start_ts
      /\ e.clawback_receiver = new.clawback_receiver /\ e.admin = new.admin
      /\ e.activation_point = new.activation_point
      /\ e.activation_type = new.activation_type /\ e.closable = new.closable
      /\ e.total_bonus = new.total_bonus
      /\ e.vesting_duration = new.vesting_duration
      /\ e.total_claimed_bonus = new.total_claimed_bonus
  BY <1>1, <1>4 DEF MerkleDistributor
<1>7. d = e
  <2> HIDE DEF e
  <2>1. QED
    BY <1>1, <1>5, <1>6, SameAccount
<1>8. Shows(command, value, v, d)
  BY <1>1, <1>7, ShowsNew, Zenon DEF At, new
<1>9. QED
  BY <1>8, AppliedShows DEF d

(* An account that passes now is the one that was meant, also after the    *)
(* look.                                                                   *)
LEMMA PassesSettled ==
    ASSUME ToolTypeOK, NoBonusPaid, runs > 0, NEW v \in Version,
           IsLive(v), Passes(v), At("new_distributor"),
           distributor' = distributor, command' = command, value' = value
    PROVE  Settled(v)'
<1>1. Applied(v)
  BY PassesIsMeant
<1>2. Shows(command', value', v, distributor'[v])
  BY <1>1, AppliedShows
<1>3. Applied(v)'
  BY <1>2, AppliedNext
<1>4. QED
  BY <1>3 DEF Settled

LEMMA LookNewStays ==
    ASSUME OperatorInv, runs > 0, LookNew
    PROVE  OperatorInv'
<1>0. /\ todo # <<>> /\ At("new_distributor") /\ ~At("clawback")
      /\ LookedOnly /\ value' = value /\ ready' = ready /\ SawCurrent
      /\ distributor' = distributor /\ command' = command /\ prefunded' = prefunded
      /\ ToolTypeOK /\ NoBonusPaid
  BY DEF LookNew, Looks, At, OperatorInv, LookedOnly, chain, vars, settings
<1>1. version \in Version
  BY <1>0, AtHand
<1>2. \A v \in Doubts : v \in Doubts' \/ v = version
  BY <1>0, SawDoubts DEF SawCurrent
<1>3. CASE Fault("read") /\ Fail
  BY <1>0, <1>2, <1>3, LookStays DEF Fault, Fail
<1>4. CASE IsLive(version) /\ Passes(version) /\ NextVersion /\ UNCHANGED faults
  <2>1. \A v \in Version : v = version => Settled(v)'
    BY <1>0, <1>4, PassesSettled
  <2>2. QED
    BY <1>0, <1>2, <1>4, <2>1, LookStays
<1>5. CASE Panic /\ UNCHANGED faults
  BY <1>0, <1>2, <1>5, LookStays DEF Panic
<1>6. CASE version \in prefunded /\ NextVersion /\ UNCHANGED faults
  <2>1. \A v \in Version : v = version => Settled(v)'
    BY <1>0, <1>6 DEF Settled, PassedOver, At
  <2>2. QED
    BY <1>0, <1>2, <1>6, <2>1, LookStays
<1>7. CASE ToSend /\ UNCHANGED faults
  BY <1>0, <1>2, <1>7, LookStays DEF ToSend
<1>8. QED
  BY <1>3, <1>4, <1>5, <1>6, <1>7 DEF LookNew, IsMissing

LEMMA CheckNewStays ==
    ASSUME OperatorInv, runs > 0, CheckNew
    PROVE  OperatorInv'
<1>0. /\ todo # <<>> /\ At("new_distributor") /\ ~At("clawback") /\ pc = "check"
      /\ LookedOnly /\ value' = value /\ ready' = ready /\ lost' = lost
      /\ UNCHANGED <<distributor, command, prefunded, runs, in_flight>>
      /\ ToolTypeOK /\ NoBonusPaid /\ PassSettles
  BY DEF CheckNew, At, OperatorInv, ToolTypeOK, CommandTypeOK, LookedOnly, chain, vars,
         settings, network
<1>1. version \in Version
  BY <1>0, AtHand
<1>2. CASE Fault("read") /\ Fail /\ UNCHANGED <<overtaken, misread>>
  <2>1. Doubts' = Doubts
    BY <1>0, <1>2 DEF Doubts
  <2>2. QED
    BY <1>0, <1>2, <2>1, LookStays DEF Fault, Fail
<1>3. ASSUME SawIn(distributor)
      PROVE  \A v \in Doubts : v \in Doubts' \/ v = version
  BY <1>0, <1>3, SawDoubts
<1>4. CASE /\ IsLive(version) /\ Passes(version) /\ NextVersion
           /\ SawIn(distributor) /\ UNCHANGED faults
  <2>1. \A v \in Version : v = version => Settled(v)'
    BY <1>0, <1>4, PassesSettled
  <2>2. QED
    BY <1>0, <1>3, <1>4, <2>1, LookStays
<1>5. CASE Panic /\ SawIn(distributor) /\ UNCHANGED faults
  BY <1>0, <1>3, <1>5, LookStays DEF Panic
<1>6. CASE NextVersion /\ UNCHANGED <<faults, overtaken, misread>>
  <2>1. Doubts' = Doubts
    BY <1>0, <1>6 DEF Doubts
  <2>2. ASSUME NEW v \in Version, v = version, ~is_error
        PROVE  Settled(v)'
    <3>1. Settled(v)
      BY <1>0, <2>2 DEF PassSettles
    <3>2. Applied(v) => Applied(v)'
      <4>1. Applied(v) => Shows(command', value', v, distributor'[v])
        BY <1>0, AppliedShows
      <4>2. QED
        BY <4>1, AppliedNext
    <3>3. OutOfSight(v) => OutOfSight(v)'
      BY <1>0, <1>6 DEF OutOfSight
    <3>4. PassedOver(v) => PassedOver(v)'
      BY <1>0 DEF PassedOver, At, IsLive
    <3>5. QED
      BY <3>1, <3>2, <3>3, <3>4 DEF Settled
  <2>3. QED
    BY <1>0, <1>6, <2>1, <2>2, LookStays DEF OperatorInv, ToolTypeOK
<1>7. QED
  BY <1>2, <1>4, <1>5, <1>6 DEF CheckNew

--------------------------------------------------------------------------------
(* Sending *)

(* A transaction that is sent, or refused, changes no account yet.         *)
LEMMA SendingKeeps ==
    ASSUME ToolTypeOK, NoBonusPaid, runs > 0, pc = "send", NEW view,
           SendOk(view, Tx) \/ SendErr(view, Tx) \/ ConfirmErr(view, Tx),
           SentOnly, lost \subseteq lost', misread \subseteq misread',
           ready' \subseteq Version
    PROVE  /\ Keeps
           /\ SendOk(view, Tx) => \A v \in Version : v = version => Settled(v)'
<1>1. UNCHANGED <<vars, finalized>>
  BY DEF SendOk, SendErr, ConfirmErr, chain
<1>2. /\ faults' = faults \/ faults' = faults + 1
      /\ in_flight' = in_flight \/ in_flight' = in_flight \cup {Tx}
  BY DEF SendOk, SendErr, ConfirmErr, Fault, LeftInFlight, network
<1>3. /\ UNCHANGED <<session, command, runs, prefunded, value, overtaken>>
      /\ Doubts \subseteq Doubts'
  BY DEF SentOnly, settings, Doubts
<1>4. Keeps
  BY <1>1, <1>2, <1>3, QuietKeeps
<1>5. ASSUME SendOk(view, Tx), NEW v \in Version, v = version
      PROVE  Settled(v)'
  <2>1. Tx.version = version /\ Tx.run = runs
    BY TransactionAtHand
  <2>2. \E tx \in in_flight' : tx.version = v /\ tx.run = runs'
    BY <1>3, <1>5, <2>1 DEF SendOk, LeftInFlight
  <2>3. QED
    BY <2>2 DEF Settled, OutOfSight
<1>6. QED
  BY <1>4, <1>5

(* A transaction that is confirmed did what the command is there for.      *)
LEMMA ConfirmingKeeps ==
    ASSUME ToolTypeOK, NoBonusPaid, runs > 0, pc = "send", NEW view,
           ConfirmOk(view, Tx), SentOnly, lost' = lost, misread' = misread,
           ready' \subseteq Version, finalized' = finalized \/ finalized' = distributor'
    PROVE  /\ Keeps /\ version \in Version /\ WritesOnly(version)
           /\ \A v \in Version : v = version => Applied(v)' /\ Settled(v)'
<1>0. /\ distributor \in Accounts /\ finalized \in Accounts
      /\ unix_timestamp \in Nat /\ slot \in Nat /\ faults \in Nat
  BY DEF ToolTypeOK
<1>1. /\ UNCHANGED <<session, command, runs, prefunded, value, overtaken>>
      /\ faults' = faults /\ in_flight' = in_flight /\ Doubts' = Doubts
  BY DEF SentOnly, settings, ConfirmOk, network, Doubts
<1>2. /\ IsTransaction(Tx) /\ Tx.name = command.name
      /\ Tx.signer = command.signer /\ Tx.value = value
      /\ Tx.version = version /\ version \in Version
  BY TransactionAtHand
<1>3. Executes(Tx)
  BY DEF ConfirmOk
<1>4. /\ WritesOnly(Tx.version)
      /\ \A c : c.name = Tx.name /\ c.signer = Tx.signer =>
           Shows(c, Tx.value, Tx.version, distributor'[Tx.version])
  BY <1>0, <1>2, <1>3, ExecutesWrites
<1>5. WritesOnly(version)
  BY <1>2, <1>4
<1>6. \A v \in Version : v = version => Applied(v)'
  <2>1. Shows(command', value', version, distributor'[version])
    BY <1>1, <1>2, <1>4
  <2>2. QED
    BY <2>1, AppliedNext
<1>7. Keeps
  BY <1>0, <1>1, <1>5, <1>6 DEF Keeps, WritesOnly, clocks
<1>8. QED
  BY <1>2, <1>5, <1>6, <1>7 DEF Settled

(* After sending, any command but clawback goes on with the next version,  *)
(* or it looks again, checks or gives up.                                  *)
LEMMA SendStays ==
    ASSUME OperatorInv, runs > 0, ~At("clawback"), pc = "send", Keeps,
           SentOnly, is_error' \in BOOLEAN, is_error => is_error',
           \/ /\ NextVersion
              /\ is_error' \/ \A v \in Version : v = version => Settled(v)'
           \/ /\ pc' = "check" /\ todo' = todo /\ At("new_distributor")
              /\ is_error' \/ \A v \in Version : v = version => Settled(v)'
           \/ pc' \in {"look", "failed", "panicked"} /\ todo' = todo /\ is_error' = is_error
    PROVE  OperatorInv'
<1>0. ToolTypeOK /\ todo # <<>> /\ value' \in ValuesOf(command.name)
  BY AtHand DEF OperatorInv, SentOnly
<1>1. CASE /\ NextVersion
           /\ is_error' \/ \A v \in Version : v = version => Settled(v)'
  <2>1. Control
    BY <1>0, <1>1, GoOn
  <2>2. QED
    BY <2>1, StepStays DEF ClawbackControl
<1>2. CASE /\ pc' = "check" /\ todo' = todo /\ At("new_distributor")
           /\ is_error' \/ \A v \in Version : v = version => Settled(v)'
  <2>1. Control
    BY <1>0, <1>2 DEF Control, Moves, Running
  <2>2. QED
    BY <2>1, StepStays DEF ClawbackControl
<1>3. CASE pc' \in {"look", "failed", "panicked"} /\ todo' = todo /\ is_error' = is_error
  <2>1. Control
    BY <1>0, <1>3, StayAtHand
  <2>2. QED
    BY <2>1, StepStays DEF ClawbackControl
<1>4. QED
  BY <1>1, <1>2, <1>3

LEMMA SendSettingStays ==
    ASSUME OperatorInv, runs > 0, SendSetting
    PROVE  OperatorInv'
<1>0. /\ pc = "send" /\ ~At("clawback") /\ SentOnly
      /\ UNCHANGED <<is_error, misread, lost, ready>> /\ ready' \subseteq Version
      /\ ToolTypeOK /\ NoBonusPaid /\ is_error' \in BOOLEAN
  BY DEF SendSetting, Sends, At, OperatorInv, ToolTypeOK
<1>1. CASE SendOk(distributor, Tx) /\ NextVersion
  BY <1>0, <1>1, SendingKeeps, SendStays
<1>2. CASE SendErr(distributor, Tx) /\ Again
  BY <1>0, <1>2, SendingKeeps, SendStays DEF Again
<1>3. QED
  BY <1>1, <1>2 DEF SendSetting

LEMMA ConfirmSettingStays ==
    ASSUME OperatorInv, runs > 0, ConfirmSetting \/ ConfirmByTime
    PROVE  OperatorInv'
<1>0. /\ pc = "send" /\ ~At("clawback") /\ SentOnly
      /\ UNCHANGED <<is_error, misread, lost, ready>> /\ ready' \subseteq Version
      /\ ToolTypeOK /\ NoBonusPaid /\ is_error' \in BOOLEAN
  BY DEF ConfirmSetting, ConfirmByTime, Sends, At, OperatorInv, ToolTypeOK
<1>1. CASE ConfirmOk(distributor, Tx) /\ NextVersion /\ UNCHANGED finalized
  <2>1. Keeps /\ \A v \in Version : v = version => Settled(v)'
    BY <1>0, <1>1, ConfirmingKeeps
  <2>2. QED
    BY <1>0, <1>1, <2>1, SendStays
<1>2. CASE ConfirmErr(distributor, Tx) /\ (Again \/ Panic)
  BY <1>0, <1>2, SendingKeeps, SendStays DEF Again, Panic
<1>3. QED
  BY <1>1, <1>2 DEF ConfirmSetting, ConfirmByTime

(* close-distributor reports a refusal and goes on: the account is gone, or*)
(* the program refuses, or the node's block was older than a change.       *)
LEMMA SendCloseStays ==
    ASSUME OperatorInv, runs > 0, SendClose
    PROVE  OperatorInv'
<1>0. /\ pc = "send" /\ command.name = "close_distributor"
      /\ At("close_distributor") /\ ~At("clawback")
      /\ SentOnly /\ is_error' = is_error /\ ready' = ready /\ NextVersion
      /\ ToolTypeOK /\ NoBonusPaid /\ ready \subseteq Version
      /\ is_error' \in BOOLEAN /\ faults \in Nat
  BY DEF SendClose, Sends, At, OperatorInv, ToolTypeOK
<1>1. lost \subseteq lost' /\ misread \subseteq misread'
  BY DEF SendClose
<1>2. Keeps /\ (SendOk(finalized, Tx) => \A v \in Version : v = version => Settled(v)')
  BY <1>0, <1>1, SendingKeeps DEF SendClose
<1>3. CASE SendOk(finalized, Tx)
  BY <1>0, <1>2, <1>3, SendStays
<1>4. CASE Fault("send")
  <2>1. version \in lost'
    BY <1>0, <1>4 DEF Fault, SendClose
  <2>2. \A v \in Version : v = version => Settled(v)'
    BY <2>1 DEF Settled, OutOfSight
  <2>3. QED
    BY <1>0, <1>2, <2>2, SendStays
<1>5. CASE ~Accepts(finalized, Tx) /\ SendErr(finalized, Tx) /\ ~SendOk(finalized, Tx)
  <2>1. /\ Tx.name = "close_distributor" /\ Tx.version = version
        /\ Tx.signer = command.signer /\ version \in Version
    BY <1>0, TransactionAtHand
  <2>2. \/ finalized[version] = NoAccount
        \/ finalized[version].admin # command.signer
        \/ ~finalized[version].closable
    BY <1>5, <2>1 DEF Accepts
  <2>3. distributor' = distributor /\ command' = command
    BY <1>0, <1>5 DEF SendErr, chain, vars, SentOnly, settings
  <2>4. ASSUME NEW v \in Version, v = version
        PROVE  Settled(v)'
    <3>1. CASE finalized[v] # distributor[v]
      <4>1. v \in misread'
        BY <1>5, <2>4, <3>1 DEF SendClose
      <4>2. QED
        BY <4>1 DEF Settled, OutOfSight
    <3>2. CASE finalized[v] = distributor[v] /\ distributor[v] = NoAccount
      <4>1. Shows(command', value', v, distributor'[v])
        BY <1>0, <2>3, <3>2, ShowsIs
      <4>2. Applied(v)'
        BY <4>1, AppliedNext
      <4>3. QED
        BY <4>2 DEF Settled
    <3>3. CASE finalized[v] = distributor[v] /\ distributor[v] # NoAccount
      <4>1. PassedOver(v)'
        BY <1>0, <2>2, <2>3, <2>4, <3>3 DEF PassedOver, IsLive, At
      <4>2. QED
        BY <4>1 DEF Settled
    <3>4. QED
      BY <3>1, <3>2, <3>3
  <2>5. QED
    BY <1>0, <1>2, <2>4, SendStays
<1>6. QED
  BY <1>3, <1>4, <1>5 DEF SendClose, SendErr

LEMMA SendNewStays ==
    ASSUME OperatorInv, runs > 0, SendNew
    PROVE  OperatorInv'
<1>0. /\ pc = "send" /\ ~At("clawback") /\ SentOnly /\ NextVersion
      /\ UNCHANGED <<misread, lost, ready>> /\ ready' \subseteq Version
      /\ ToolTypeOK /\ NoBonusPaid /\ is_error \in BOOLEAN
  BY DEF SendNew, Sends, At, OperatorInv, ToolTypeOK
<1>1. CASE SendOk(finalized, Tx) /\ UNCHANGED is_error
  BY <1>0, <1>1, SendingKeeps, SendStays
<1>2. CASE SendErr(finalized, Tx) /\ is_error' = TRUE
  <2>1. Keeps
    BY <1>0, <1>2, SendingKeeps
  <2>2. QED
    BY <1>0, <1>2, <2>1, SendStays
<1>3. QED
  BY <1>1, <1>2 DEF SendNew

LEMMA ConfirmNewStays ==
    ASSUME OperatorInv, runs > 0, ConfirmNew
    PROVE  OperatorInv'
<1>0. /\ pc = "send" /\ At("new_distributor") /\ ~At("clawback")
      /\ SentOnly /\ todo' = todo /\ pc' = "check"
      /\ UNCHANGED <<misread, lost, ready>> /\ ready' \subseteq Version
      /\ ToolTypeOK /\ NoBonusPaid /\ is_error \in BOOLEAN
  BY DEF ConfirmNew, Sends, At, OperatorInv, ToolTypeOK
<1>1. CASE /\ ConfirmOk(finalized, Tx) /\ finalized' = distributor' /\ UNCHANGED is_error
  <2>1. Keeps /\ \A v \in Version : v = version => Settled(v)'
    BY <1>0, <1>1, ConfirmingKeeps
  <2>2. QED
    BY <1>0, <1>1, <2>1, SendStays
<1>2. CASE ConfirmErr(finalized, Tx) /\ is_error' = TRUE
  <2>1. Keeps
    BY <1>0, <1>2, SendingKeeps
  <2>2. QED
    BY <1>0, <1>2, <2>1, SendStays
<1>3. QED
  BY <1>1, <1>2 DEF ConfirmNew

LEMMA BlockhashFailsStays ==
    ASSUME OperatorInv, runs > 0, BlockhashFails
    PROVE  OperatorInv'
<1>0. /\ ToolTypeOK /\ NoBonusPaid /\ faults \in Nat /\ is_error \in BOOLEAN
  BY DEF OperatorInv, ToolTypeOK
<1>1. /\ UNCHANGED <<vars, session, command, runs, prefunded, finalized, value, overtaken>>
      /\ ready' = {} /\ faults' = faults + 1 /\ UNCHANGED <<lost, misread>>
      /\ in_flight' = in_flight /\ is_error' = is_error /\ distributor' = distributor
      /\ pc' \in {"failed", "panicked"} /\ todo' = todo
  BY DEF BlockhashFails, SentOnly, settings, network, Fault, Fail, Panic, chain, vars
<1>2. Keeps
  BY <1>0, <1>1, QuietKeeps DEF Doubts
<1>3. Control
  <2>1. value' \in ValuesOf(command.name)
    BY <1>0, <1>1, AtHand
  <2>2. QED
    BY <1>0, <1>1, <2>1, StayAtHand
<1>4. ReadyStays /\ Sweeps
  BY <1>1, QuietLeavesReady DEF Sweeps
<1>5. QED
  BY <1>2, <1>3, <1>4, StepStays DEF ClawbackControl

--------------------------------------------------------------------------------
(* The end of a pass *)

LEMMA EndOfListStays ==
    ASSUME OperatorInv, runs > 0, EndOfList
    PROVE  OperatorInv'
<1>0. /\ ToolTypeOK /\ NoBonusPaid /\ faults \in Nat /\ is_error \in BOOLEAN
      /\ ready \subseteq Version
  BY DEF OperatorInv, ToolTypeOK
<1>1. /\ UNCHANGED <<vars, session, command, runs, prefunded, finalized, value, overtaken>>
      /\ ready' = ready /\ faults' = faults /\ UNCHANGED <<lost, misread>>
      /\ in_flight' = in_flight /\ is_error' = is_error /\ distributor' = distributor
      /\ pc' = (IF is_error THEN "failed" ELSE "done") /\ todo' = todo /\ todo = <<>>
  BY DEF EndOfList, LookedOnly, settings, network, Outcome, chain, vars
<1>2. Keeps
  BY <1>0, <1>1, QuietKeeps DEF Doubts
<1>3. Control
  <2>1. value' \in ValuesOf(command.name)
    BY <1>0, <1>1, AtHand
  <2>2. QED
    BY <1>0, <1>1, <2>1 DEF Control, Moves, Running
<1>4. ReadyStays /\ Sweeps
  <2>1. ToSet(todo) = {}
    BY <1>1 DEF ToSet
  <2>2. QED
    BY <1>1, <2>1, QuietLeavesReady DEF Sweeps
<1>5. QED
  BY <1>2, <1>3, <1>4, StepStays DEF ClawbackControl

LEMMA RetryStays ==
    ASSUME OperatorInv, runs > 0, NEW attempts, RetryUpTo(attempts)
    PROVE  OperatorInv'
<1>0. /\ ToolTypeOK /\ NoBonusPaid /\ faults \in Nat /\ is_error \in BOOLEAN
      /\ CommandTypeOK /\ ready \subseteq Version /\ pc = "failed"
  BY DEF OperatorInv, ToolTypeOK, RetryUpTo
<1>1. /\ UNCHANGED <<vars, session, command, runs, prefunded, finalized, value, overtaken>>
      /\ faults' = faults /\ UNCHANGED <<lost, misread>> /\ in_flight' = in_flight
      /\ distributor' = distributor
  BY DEF RetryUpTo, settings, network, chain, vars
<1>2. ready' \subseteq Version
  BY <1>0 DEF RetryUpTo, Sweepable
<1>3. Keeps
  BY <1>0, <1>1, <1>2, QuietKeeps DEF Doubts
<1>4. value' \in ValuesOf(command.name)
  BY <1>0, <1>1, AtHand
<1>5. CASE NewPass /\ is_error' = FALSE
  <2>1. Control
    BY <1>4, <1>5 DEF Control, Moves, Running, NewPass
  <2>2. UNCHANGED <<distributor, finalized, unix_timestamp>>
    BY <1>1 DEF vars
  <2>3. ClawbackControl
    BY <1>5, <2>2 DEF ClawbackControl
  <2>4. QED
    BY <1>3, <2>1, <2>3, StepStays
<1>6. CASE pc' = "panicked" /\ UNCHANGED <<todo, is_error, ready>>
  <2>1. Control
    BY <1>0, <1>4, <1>6, StayAtHand
  <2>2. ReadyStays /\ Sweeps
    BY <1>0, <1>1, <1>6, QuietLeavesReady DEF Sweeps
  <2>3. QED
    BY <1>3, <2>1, <2>2, StepStays DEF ClawbackControl
<1>7. QED
  BY <1>5, <1>6 DEF RetryUpTo, NewPass

--------------------------------------------------------------------------------
(* clawback *)

(* The version at hand is live and finalized as long as something is ready *)
(* in the rest of the list: it does not end the pass.                      *)
LEMMA AtHandInReach ==
    ASSUME ToolTypeOK, runs > 0, ClawbackSweeps, At("clawback"), todo # <<>>,
           NEW v \in ready \cap ToSet(todo)
    PROVE  IsLive(version) /\ finalized[version] # NoAccount
<1>1. version \in command.from .. v
  BY FirstIsLeast
<1>2. InReach(command, v)
  BY DEF ClawbackSweeps
<1>3. QED
  BY <1>1, <1>2 DEF InReach

LEMMA LookClawbackStays ==
    ASSUME OperatorInv, runs > 0, LookClawback
    PROVE  OperatorInv'
<1>0. /\ ToolTypeOK /\ NoBonusPaid /\ ClawbackSweeps /\ faults \in Nat
      /\ is_error \in BOOLEAN /\ finalized \in Accounts
      /\ ready \subseteq Version /\ todo \in Seq(Version)
      /\ todo # <<>> /\ pc = "look" /\ command.name = "clawback" /\ At("clawback")
  BY DEF LookClawback, Looks, At, OperatorInv, ToolTypeOK
<1>1. /\ UNCHANGED <<vars, distributor, session, command, runs, prefunded, finalized>>
      /\ in_flight' = in_flight /\ is_error' = is_error /\ SawIn(finalized)
  BY DEF LookClawback, LookedOnly, settings, network, chain, vars
<1>2. version \in Version /\ value \in ValuesOf(command.name)
  BY <1>0, AtHand
<1>3. ASSUME faults' = faults \/ faults' = faults + 1, lost \ {version} \subseteq lost',
             ready' \subseteq ready, pc' # "check"
      PROVE  Keeps /\ ReadyStays
  <2>1. \A v \in Doubts : v \in Doubts' \/ v = version
    BY <1>1, <1>3, SawDoubts
  <2>2. ReadyStays
    BY <1>1, <1>3, QuietLeavesReady
  <2>3. Keeps
    BY <1>0, <1>1, <1>3, <2>1, QuietKeeps
  <2>4. QED
    BY <2>2, <2>3
<1>4. CASE /\ Fault("read") /\ Fail /\ ready' = {}
           /\ lost' = lost \ {version} /\ UNCHANGED value
  <2>1. faults' = faults + 1 /\ pc' = "failed" /\ todo' = todo
    BY <1>4 DEF Fault, Fail
  <2>2. Control
    BY <1>0, <1>1, <1>2, <1>4, <2>1, StayAtHand
  <2>3. Sweeps
    BY <1>4, <2>1 DEF Sweeps
  <2>4. QED
    BY <1>3, <1>4, <2>1, <2>2, <2>3, StepStays DEF ClawbackControl
<1>5. CASE /\ IsMissing(version) /\ todo' = <<>>
           /\ lost' = lost \cup ToSet(todo) /\ UNCHANGED <<pc, value, faults, ready>>
  <2>1. Control
    BY <1>0, <1>1, <1>2, <1>5 DEF Control, Moves, Running
  <2>2. ready \cap ToSet(todo) = {}
    BY <1>0, <1>5, AtHandInReach DEF IsMissing
  <2>3. Sweeps
    BY <1>0, <1>5, <2>2 DEF Sweeps
  <2>4. QED
    BY <1>0, <1>3, <1>5, <2>1, <2>3, StepStays DEF ClawbackControl
<1>6. CASE /\ finalized[version] = NoAccount /\ Fail
           /\ lost' = lost \ {version} /\ UNCHANGED <<value, faults, ready>>
  <2>1. pc' = "failed" /\ todo' = todo
    BY <1>6 DEF Fail
  <2>2. Control
    BY <1>0, <1>1, <1>2, <1>6, <2>1, StayAtHand
  <2>3. ready \cap ToSet(todo) = {}
    BY <1>0, <1>6, AtHandInReach
  <2>4. Sweeps
    BY <1>6, <2>1, <2>3 DEF Sweeps
  <2>5. QED
    BY <1>3, <1>6, <2>1, <2>2, <2>4, StepStays DEF ClawbackControl
<1>7. CASE /\ Readable /\ finalized[version].clawed_back /\ NextVersion
           /\ lost' = lost \ {version} /\ UNCHANGED <<value, ready>>
  <2>1. Keeps /\ ReadyStays /\ pc' = "look" /\ todo' = Tail(todo)
    BY <1>3, <1>7 DEF Readable, NextVersion
  <2>2. \A v \in Version : v = version => Settled(v)'
    <3>1. Shows(command, value, version, finalized[version])
      BY <1>0, <1>7, ShowsIs DEF Readable
    <3>2. QED
      BY <1>1, <1>7, <2>1, <3>1, LeftFinal
  <2>3. Control
    BY <1>0, <1>1, <1>2, <1>7, <2>2, GoOn
  <2>4. ASSUME NEW v \in ready \cap ToSet(todo), v \notin ToSet(todo')
        PROVE  Applied(v)'
    <3>1. v = version
      BY <1>0, <2>1, <2>4, HeadTailToSet DEF version
    <3>2. Applied(v) \/ IsSweepable(v)
      BY <1>0 DEF ClawbackSweeps
    <3>3. Applied(v)
      BY <1>7, <3>1, <3>2 DEF IsSweepable, IsOpen
    <3>4. QED
      BY <1>1, <2>1, <3>3, AppliedStays
  <2>5. Sweeps
    BY <1>7, <2>1, <2>4 DEF Sweeps
  <2>6. QED
    BY <2>1, <2>3, <2>5, StepStays DEF ClawbackControl
<1>8. CASE /\ Readable /\ value' = finalized[version].clawback_receiver /\ ToSend
           /\ lost' = lost \ {version} /\ UNCHANGED ready
  <2>1. /\ pc' = "send" /\ todo' = todo /\ faults' = faults
        /\ finalized[version] \in MerkleDistributor
    BY <1>0, <1>2, <1>8 DEF ToSend, Readable, Accounts
  <2>2. value' \in ValuesOf(command.name)
    BY <1>0, <1>8, <2>1 DEF ValuesOf, MerkleDistributor
  <2>3. Control
    BY <1>0, <1>1, <2>1, <2>2, StayAtHand
  <2>4. Sweeps
    BY <1>0, <1>1, <1>8, <2>1 DEF Sweeps
  <2>5. QED
    BY <1>3, <1>8, <2>1, <2>3, <2>4, StepStays DEF ClawbackControl
<1>9. QED
  BY <1>4, <1>5, <1>6, <1>7, <1>8 DEF LookClawback

(* A sweep that the program refuses without a fault was not needed: the    *)
(* version was not ready, or it was swept meanwhile.                       *)
LEMMA ConfirmClawbackStays ==
    ASSUME OperatorInv, runs > 0, ConfirmClawback
    PROVE  OperatorInv'
<1>0. /\ ToolTypeOK /\ NoBonusPaid /\ ClawbackSweeps /\ faults \in Nat
      /\ is_error \in BOOLEAN /\ ready \subseteq Version /\ todo \in Seq(Version)
      /\ pc = "send" /\ command.name = "clawback" /\ At("clawback")
      /\ SentOnly /\ UNCHANGED <<misread, lost>> /\ command' = command
  BY DEF ConfirmClawback, Sends, At, OperatorInv, ToolTypeOK, SentOnly, settings
<1>1. /\ todo # <<>> /\ version \in Version /\ value' \in ValuesOf(command.name)
  BY <1>0, AtHand DEF SentOnly
<1>2. /\ ready' = IF faults' > faults THEN ready \ {version} ELSE ready
      /\ ready' \subseteq ready /\ NextVersion
  BY DEF ConfirmClawback, GoOnAfterError
<1>3. ASSUME Keeps, ReadyStays, is_error' \in BOOLEAN, is_error => is_error',
             is_error' \/ \A v \in Version : v = version => Settled(v)',
             \A v \in ready' : v = version => Applied(v)'
      PROVE  OperatorInv'
  <2>1. Control
    BY <1>0, <1>1, <1>2, <1>3, GoOn
  <2>2. \A v \in ready' \cap ToSet(todo) : v \in ToSet(todo') \/ Applied(v)'
    BY <1>0, <1>1, <1>2, <1>3, HeadTailToSet DEF NextVersion, version
  <2>3. Sweeps
    BY <1>2, <2>2 DEF Sweeps, NextVersion
  <2>4. QED
    BY <1>3, <2>1, <2>3, StepStays DEF ClawbackControl
<1>4. CASE ConfirmOk(distributor, Tx) /\ UNCHANGED <<finalized, is_error>>
  <2>1. /\ Keeps /\ WritesOnly(version)
        /\ \A v \in Version : v = version => Applied(v)' /\ Settled(v)'
    BY <1>0, <1>2, <1>4, ConfirmingKeeps
  <2>2. ReadyStays
    <3>1. PICK v \in Version : v = version
      BY <1>1
    <3>2. QED
      BY <1>0, <1>2, <2>1, <3>1, OwnLeavesReady
  <2>3. QED
    BY <1>0, <1>2, <1>3, <1>4, <2>1, <2>2
<1>5. CASE ConfirmErr(distributor, Tx) /\ is_error' = TRUE
  <2>1. Keeps /\ distributor' = distributor
    BY <1>0, <1>2, <1>5, SendingKeeps DEF ConfirmErr, chain, vars
  <2>2. ReadyStays
    BY <1>2, <2>1, QuietLeavesReady
  <2>3. ASSUME NEW v \in ready', v = version
        PROVE  Applied(v)'
    <3>1. v \in ready /\ ~(faults' > faults)
      BY <1>2, <2>3
    <3>2. ~Accepts(distributor, Tx)
      BY <1>0, <1>5, <3>1 DEF ConfirmErr, Fault
    <3>3. Tx.name = "clawback" /\ Tx.version = version /\ Tx.value = value
      BY <1>0, TransactionAtHand
    <3>4. \/ distributor[version] = NoAccount \/ distributor[version].clawed_back
          \/ ~ClawbackStarted(unix_timestamp, distributor[version])
          \/ value # distributor[version].clawback_receiver
      BY <3>2, <3>3 DEF Accepts
    <3>5. /\ Applied(v) \/ IsSweepable(v)
          /\ Applied(v) \/ value = distributor[v].clawback_receiver
      BY <1>0, <2>3, <3>1 DEF ClawbackSweeps
    <3>6. Applied(v)
      BY <2>3, <3>4, <3>5 DEF IsSweepable, IsOpen, IsLive
    <3>7. QED
      BY <2>1, <3>6, AppliedStays
  <2>4. QED
    BY <1>3, <1>5, <2>1, <2>2, <2>3
<1>6. QED
  BY <1>4, <1>5 DEF ConfirmClawback

--------------------------------------------------------------------------------
(* The invariant, and what follows from it *)

LEMMA OperatorStays ==
    ASSUME OperatorInv, OperatorNext
    PROVE  OperatorInv'
<1>1. ToolTypeOK /\ runs \in Nat
  <2>1. ToolTypeOK
    BY DEF OperatorInv
  <2>2. Len(session) \in Nat /\ runs \in 0 .. Len(session)
    BY <2>1, CommandsAssumption DEF ToolTypeOK
  <2>3. QED
    BY <2>1, <2>2
<1>2. CASE StartCommand
  BY <1>2, StartStays
<1>3. CASE Surroundings
  BY <1>1, <1>3, SurroundingsStay, IdleStays
<1>4. CASE ToolStep
  <2>1. runs > 0
    <3>1. pc \in Running
      BY <1>4 DEF ToolStep, AdminStep, NewStep, Running, RetryClawback, RetryNew, RetryUpTo,
           LookSetting, LookByTime, LookClawback, LookClose, LookVerify, LookNew, Looks,
           SendSetting, ConfirmSetting, ConfirmByTime, ConfirmClawback, SendClose,
           BlockhashFails, EndOfList, ConfirmNew, SendNew, CheckNew, Sends
    <3>2. "idle" \notin Running
      BY DEF Running
    <3>3. QED
      BY <1>1, <3>1, <3>2 DEF ToolTypeOK
  <2>2. CASE AdminStep
    BY <2>1, <2>2, LookSettingStays, LookByTimeStays, LookClawbackStays, LookCloseStays,
       LookVerifyStays, SendSettingStays, ConfirmSettingStays, ConfirmClawbackStays,
       SendCloseStays, BlockhashFailsStays, EndOfListStays DEF AdminStep
  <2>3. CASE NewStep
    BY <2>1, <2>3, LookNewStays, ConfirmNewStays, SendNewStays, CheckNewStays DEF NewStep
  <2>4. CASE RetryClawback \/ RetryNew
    BY <2>1, <2>4, RetryStays DEF RetryClawback, RetryNew
  <2>5. QED
    BY <1>4, <2>2, <2>3, <2>4 DEF ToolStep
<1>5. QED
  BY <1>2, <1>3, <1>4 DEF OperatorNext

LEMMA StutterStays ==
    ASSUME OperatorInv, UNCHANGED all_vars
    PROVE  OperatorInv'
<1>0. /\ ToolTypeOK /\ NoBonusPaid /\ faults \in Nat
      /\ ready \subseteq Version
      /\ UNCHANGED vars /\ UNCHANGED tool /\ finalized' = finalized
  BY DEF OperatorInv, ToolTypeOK, all_vars, chain
<1>1. CASE runs = 0
  <2>1. /\ distributor' = distributor /\ unix_timestamp' = unix_timestamp /\ slot' = slot
        /\ runs' = 0 /\ in_flight = {} /\ in_flight' = {}
        /\ UNCHANGED <<session, faults, is_error, pc, todo, ready>>
    BY <1>0, <1>1 DEF vars, tool, OperatorInv
  <2>2. ToolTypeOK'
    BY <1>0, <1>1, <2>1 DEF ToolTypeOK
  <2>3. NoBonusPaid'
    BY <1>0, <2>1 DEF NoBonusPaid, IsLive
  <2>4. QED
    BY <2>1, <2>2, <2>3 DEF OperatorInv
<1>2. CASE runs > 0
  <2>1. Keeps
    BY <1>0, QuietKeeps DEF tool, Doubts
  <2>2. Aside /\ ReadyStays
    BY <1>0, QuietLeavesReady DEF Aside, tool, vars
  <2>3. QED
    BY <1>0, <1>2, <2>1, <2>2, AsideControl, StepStays
<1>3. QED
  <2>1. Len(session) \in Nat /\ runs \in 0 .. Len(session)
    BY <1>0, CommandsAssumption DEF ToolTypeOK
  <2>2. QED
    BY <1>1, <1>2, <2>1

(* The inductive invariant: what a command has not yet settled is still on *)
(* its list, or the pass has an error; what is ready for a clawback can be *)
(* swept or is, and nothing before it on the list ends the pass (all       *)
(* commands of cli.rs over versions, with the program and the cluster they *)
(* act on).                                                                *)
THEOREM OperatorInvariance == OperatorSpec => []OperatorInv
<1>1. ToolInit => OperatorInv
  BY ToolInitInv
<1>2. OperatorInv /\ [OperatorNext]_all_vars => OperatorInv'
  BY OperatorStays, StutterStays
<1>3. QED
  BY <1>1, <1>2, PTL DEF OperatorSpec

(* A command that says it is done has done its work on every version it    *)
(* visits, for any sequence of command lines, any faults and whatever      *)
(* others do, but for the versions that DoneMeansApplied excepts: changed  *)
(* after the last look, left on the word of an older block, sent and not   *)
(* waited for, left with an error of the node, refused by the program when *)
(* closing, missing for clawback, or holding lamports for new-distributor  *)
(* (main loops of all commands).                                           *)
THEOREM DoneIsApplied == OperatorSpec => []DoneMeansApplied
<1>1. OperatorInv => DoneMeansApplied
  <2> SUFFICES ASSUME OperatorInv, pc = "done", NEW v \in ToSet(VersionsOf(command))
               PROVE  Applied(v) \/ OutOfSight(v) \/ PassedOver(v)
    BY DEF DoneMeansApplied
  <2>1. runs > 0 /\ PassSettles
    <3>1. Len(session) \in Nat /\ runs \in 0 .. Len(session) /\ runs # 0
      BY CommandsAssumption DEF OperatorInv, ToolTypeOK
    <3>2. QED
      BY <3>1 DEF OperatorInv
  <2>2. todo = <<>> /\ ~is_error
    BY <2>1 DEF PassSettles
  <2>3. ToSet(todo) = {}
    BY <2>2 DEF ToSet
  <2>4. v \in Behind
    BY <2>3 DEF Behind
  <2>5. QED
    BY <2>1, <2>2, <2>4 DEF PassSettles, Settled
<1>2. QED
  BY <1>1, OperatorInvariance, PTL

(* At the end of a pass of a clawback that failed, every version that was  *)
(* ready when it began is swept, whatever was refused, for any number of   *)
(* versions, unless a fault or a change by others took it out of what is   *)
(* ready (process_clawback.rs:87-95 goes on after an error).               *)
THEOREM OneDoesNotStopOthers == OperatorSpec => []OthersSweptToo
<1>1. OperatorInv => OthersSweptToo
  <2> SUFFICES ASSUME OperatorInv, pc \in {"failed", "panicked"}, At("clawback"),
                      NEW v \in ready
               PROVE  Applied(v)
    BY DEF OthersSweptToo
  <2>1. ClawbackSweeps
    <3>1. Len(session) \in Nat /\ runs \in 0 .. Len(session) /\ runs # 0
      BY CommandsAssumption DEF OperatorInv, ToolTypeOK
    <3>2. QED
      BY <3>1 DEF OperatorInv
  <2>2. QED
    BY <2>1 DEF ClawbackSweeps
<1>2. QED
  BY <1>1, OperatorInvariance, PTL

(* The slot that set-activation-slot-by-time asks for is within one slot   *)
(* of the time, for every answer of the node, unless u64 wraps: in the     *)
(* product by 1000, or where the slot or the distance does not fit         *)
(* (process_set_enable_activation_slot_by_time.rs:25-37).                  *)
THEOREM SlotStaysNearTime == OperatorSpec => []SlotNearTime
<1>1. OperatorInv => SlotNearTime
  BY SlotsAreNear DEF OperatorInv, ToolTypeOK
<1>2. QED
  BY <1>1, OperatorInvariance, PTL

(* Every variable of the tool keeps its type, the transactions in flight   *)
(* are well formed, and the list of versions left is part of the one that  *)
(* the command line gave.                                                  *)
THEOREM ToolTypeCorrect == OperatorSpec => []ToolTypeOK
<1>1. OperatorInv => ToolTypeOK
  BY DEF OperatorInv
<1>2. QED
  BY <1>1, OperatorInvariance, PTL

--------------------------------------------------------------------------------
(* The operator as a user of the program *)

\* The program, called with any arguments of the right types.
Program == INSTANCE Distributor WITH
    DeployArgs <- DeployArg, Receiver <- TokenAccount, ActivationPoints <- U64

LEMMA SameCalls ==
    ASSUME NEW v, NEW a, NEW signer, NEW x
    PROVE  /\ NewDistributor(v, a, signer, x) => Program!NewDistributor(v, a, signer, x)
           /\ NewDistributor2(v, a, signer, x) => Program!NewDistributor2(v, a, signer, x)
           /\ SetAdmin(v, signer, x) => Program!SetAdmin(v, signer, x)
           /\ SetActivationPoint(v, signer, x) => Program!SetActivationPoint(v, signer, x)
           /\ SetClawbackReceiver(v, signer, x) => Program!SetClawbackReceiver(v, signer, x)
           /\ Clawback(v) => Program!Clawback(v)
           /\ CloseDistributor(v, signer, x) => Program!CloseDistributor(v, signer, x)
           /\ CloseClaimStatus(v, x, signer) => Program!CloseClaimStatus(v, x, signer)
           /\ Deposit(v, x) => Program!Deposit(v, x)
<1>1. /\ NewDistributor(v, a, signer, x) => Program!NewDistributor(v, a, signer, x)
      /\ NewDistributor2(v, a, signer, x) => Program!NewDistributor2(v, a, signer, x)
  BY DEF NewDistributor, NewDistributor2, HandleNewDistributor, IsLive, ScheduleValid,
         NewAccount, clocks, checked_add, IsOk, Err, U64,
         Program!NewDistributor, Program!NewDistributor2, Program!HandleNewDistributor,
         Program!IsLive, Program!ScheduleValid, Program!NewAccount, Program!clocks,
         Program!checked_add, Program!IsOk, Program!Err, Program!U64
<1>2. /\ SetAdmin(v, signer, x) => Program!SetAdmin(v, signer, x)
      /\ SetActivationPoint(v, signer, x) => Program!SetActivationPoint(v, signer, x)
      /\ SetClawbackReceiver(v, signer, x) => Program!SetClawbackReceiver(v, signer, x)
  BY DEF SetAdmin, SetActivationPoint, SetClawbackReceiver, IsLive, clocks,
         Program!SetAdmin, Program!SetActivationPoint, Program!SetClawbackReceiver,
         Program!IsLive, Program!clocks
<1>3. /\ Clawback(v) => Program!Clawback(v)
      /\ CloseDistributor(v, signer, x) => Program!CloseDistributor(v, signer, x)
      /\ CloseClaimStatus(v, x, signer) => Program!CloseClaimStatus(v, x, signer)
      /\ Deposit(v, x) => Program!Deposit(v, x)
  BY DEF Clawback, CloseDistributor, CloseClaimStatus, Deposit, IsOpen, IsLive, HasClaimed,
         ClawbackStarted, MarkSwept, Transfer, clocks,
         Program!Clawback, Program!CloseDistributor, Program!CloseClaimStatus,
         Program!Deposit, Program!IsOpen, Program!IsLive, Program!HasClaimed,
         Program!ClawbackStarted, Program!MarkSwept, Program!Transfer, Program!clocks
<1>4. QED
  BY <1>1, <1>2, <1>3

(* A transaction is a call that the program allows anyone to make.         *)
LEMMA TransactionIsCall ==
    ASSUME NEW tx, IsTransaction(tx), Executes(tx)
    PROVE  Program!Next
<1> DEFINE v == tx.version
           x == tx.value
<1>0. /\ v \in Version /\ tx.signer \in Wallet /\ x \in ValuesOf(tx.name)
      /\ Meant[v] \in DeployArg
  BY ToolAssumption DEF IsTransaction
<1>1. CASE tx.name = "new_distributor" /\ NewDistributor(v, Meant[v], tx.signer, x)
  <2>1. x \in TokenAccount /\ Program!NewDistributor(v, Meant[v], tx.signer, x)
    BY <1>0, <1>1, SameCalls DEF ValuesOf
  <2>2. QED
    BY <1>0, <2>1 DEF Program!Next, Program!Deploy
<1>2. CASE tx.name = "set_admin" /\ SetAdmin(v, tx.signer, x)
  <2>1. x \in Wallet /\ Program!SetAdmin(v, tx.signer, x)
    BY <1>0, <1>2, SameCalls DEF ValuesOf
  <2>2. QED
    BY <1>0, <2>1 DEF Program!Next, Program!Administer
<1>3. CASE /\ tx.name \in {"set_activation_point", "by_time"}
           /\ SetActivationPoint(v, tx.signer, x)
  <2>1. x \in U64 /\ Program!SetActivationPoint(v, tx.signer, x)
    BY <1>0, <1>3, SameCalls DEF ValuesOf
  <2>2. QED
    BY <1>0, <2>1 DEF Program!Next, Program!Administer
<1>4. CASE tx.name = "set_clawback_receiver" /\ SetClawbackReceiver(v, tx.signer, x)
  <2>1. x \in TokenAccount /\ Program!SetClawbackReceiver(v, tx.signer, x)
    BY <1>0, <1>4, SameCalls DEF ValuesOf
  <2>2. QED
    BY <1>0, <2>1 DEF Program!Next, Program!Administer
<1>5. CASE tx.name = "clawback" /\ Clawback(v)
  <2>1. Program!Clawback(v)
    BY <1>5, SameCalls
  <2>2. QED
    BY <1>0, <2>1 DEF Program!Next
<1>6. CASE tx.name = "close_distributor" /\ CloseDistributor(v, tx.signer, x)
  <2>1. x \in TokenAccount /\ Program!CloseDistributor(v, tx.signer, x)
    BY <1>0, <1>6, SameCalls DEF ValuesOf
  <2>2. QED
    BY <1>0, <2>1 DEF Program!Next, Program!Administer
<1>7. QED
  BY <1>1, <1>2, <1>3, <1>4, <1>5, <1>6 DEF Executes

(* So is what others do.                                                   *)
LEMMA OthersCall ==
    ASSUME NEW v \in Version, Deploy(v) \/ Clawback(v) \/ Administer(v)
    PROVE  Program!Next
<1>0. /\ DeployArgs \subseteq DeployArg /\ Receiver \subseteq TokenAccount
      /\ ActivationPoints \subseteq U64
  BY AccountsAssumption, InputsAssumption
<1>1. CASE Deploy(v)
  <2>1. PICK a \in DeployArgs, signer \in Wallet, receiver \in Receiver :
          NewDistributor(v, a, signer, receiver) \/ NewDistributor2(v, a, signer, receiver)
    BY <1>1 DEF Deploy
  <2>2. \/ Program!NewDistributor(v, a, signer, receiver)
        \/ Program!NewDistributor2(v, a, signer, receiver)
    BY <2>1, SameCalls
  <2>3. QED
    BY <1>0, <2>2 DEF Program!Next, Program!Deploy
<1>2. CASE Clawback(v)
  BY <1>2, SameCalls DEF Program!Next
<1>3. CASE Administer(v)
  <2>1. Program!Administer(v)
    BY <1>0, <1>3, SameCalls DEF Administer, Program!Administer
  <2>2. QED
    BY <2>1 DEF Program!Next
<1>4. QED
  BY <1>1, <1>2, <1>3

LEMMA OperatorStepIsCall ==
    ASSUME OperatorInv, [OperatorNext]_all_vars
    PROVE  [Program!Next]_vars
<1>0. ToolTypeOK
  BY DEF OperatorInv
<1>1. CASE StartCommand
  BY <1>1 DEF StartCommand, Start, chain
<1>2. CASE ToolStep
  <2>1. \/ UNCHANGED vars
        \/ pc = "send" /\ Executes(Tx)
    BY <1>2 DEF ToolStep, AdminStep, NewStep, RetryClawback, RetryNew, RetryUpTo, LookedOnly,
       LookSetting, LookByTime, LookClawback, LookClose, LookVerify, LookNew,
       SendSetting, ConfirmSetting, ConfirmByTime, ConfirmClawback, SendClose,
       BlockhashFails, EndOfList, ConfirmNew, SendNew, CheckNew, Sends,
       SendOk, SendErr, ConfirmOk, ConfirmErr, chain
  <2>2. ASSUME pc = "send", Executes(Tx)
        PROVE  Program!Next
    <3>1. runs > 0
      BY <1>0, <2>2, CommandsAssumption DEF ToolTypeOK
    <3>2. QED
      BY <1>0, <2>2, <3>1, TransactionAtHand, TransactionIsCall
  <2>3. QED
    BY <2>1, <2>2
<1>3. CASE \E tx \in in_flight : Settle(tx)
  <2>1. PICK tx \in in_flight : Settle(tx)
    BY <1>3
  <2>2. UNCHANGED vars \/ Executes(tx)
    BY <2>1 DEF Settle, Lands, Fails, chain
  <2>3. IsTransaction(tx)
    BY <1>0 DEF ToolTypeOK
  <2>4. QED
    BY <2>2, <2>3, TransactionIsCall
<1>4. CASE Finalize
  BY <1>4 DEF Finalize, chain
<1>5. CASE OthersAct
  <2>1. UNCHANGED vars \/ \E v \in Version : Deploy(v) \/ Clawback(v) \/ Administer(v)
    BY <1>5 DEF OthersAct
  <2>2. QED
    BY <2>1, OthersCall
<1>6. CASE \/ AdvanceTime \/ AdvanceSlot
           \/ \E v \in Version, amount \in Deposits : Deposit(v, amount)
  <2>1. ASSUME NEW v \in Version, NEW amount \in Deposits, Deposit(v, amount)
        PROVE  Program!Next
    BY <2>1, SameCalls DEF Program!Next
  <2>2. ASSUME AdvanceTime \/ AdvanceSlot
        PROVE  Program!Next
    BY <2>2 DEF AdvanceTime, AdvanceSlot, Program!Next, Program!AdvanceTime,
                Program!AdvanceSlot
  <2>3. QED
    BY <1>6, <2>1, <2>2
<1>7. CASE UNCHANGED all_vars
  BY <1>7 DEF all_vars, chain
<1>8. QED
  BY <1>1, <1>2, <1>3, <1>4, <1>5, <1>6, <1>7 DEF OperatorNext, Surroundings

(* Whatever the operator runs, and in whatever order its transactions land,*)
(* the program behaves as Distributor says for arguments of any values: a  *)
(* command is a user like any other (the transactions that the commands of *)
(* cli.rs over versions send).                                             *)
THEOREM OperatorIsUser == OperatorSpec => Program!Spec
<1>1. ToolInit => Program!Init
  BY DEF ToolInit, Init, Program!Init, TokenAccount, Program!TokenAccount
<1>2. OperatorInv /\ [OperatorNext]_all_vars => [Program!Next]_(Program!vars)
  BY OperatorStepIsCall DEF vars, Program!vars
<1>3. QED
  BY <1>1, <1>2, OperatorInvariance, PTL DEF OperatorSpec, Program!Spec
================================================================================
