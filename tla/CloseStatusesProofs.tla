-------------------------- MODULE CloseStatusesProofs --------------------------
(***************************************************************************)
(* Proofs about close-claim-status, for every number of statuses, every    *)
(* batch size and every kind and number of faults.                         *)
(***************************************************************************)
EXTENDS CloseStatuses, DataProofs

(* No two elements of the list and of the batches share a place: the facts *)
(* about sequences of statuses that the steps use.                         *)
LEMMA TakeOne ==
    ASSUME TypeOK, listed # <<>>
    PROVE  /\ Head(listed) \in Status /\ Tail(listed) \in Seq(Status)
           /\ ToSet(listed) = ToSet(Tail(listed)) \cup {Head(listed)}
           /\ IsInjective(listed) => /\ IsInjective(Tail(listed))
                                     /\ Head(listed) \notin ToSet(Tail(listed))
           /\ Append(close_ixs, Head(listed)) \in Seq(Status)
           /\ Len(Append(close_ixs, Head(listed))) = Len(close_ixs) + 1
           /\ ToSet(Append(close_ixs, Head(listed))) = ToSet(close_ixs) \cup {Head(listed)}
           /\ ToSet(listed) \in SUBSET Status /\ ToSet(close_ixs) \in SUBSET Status
<1>1. listed \in Seq(Status) /\ close_ixs \in Seq(Status)
  BY DEF TypeOK
<1>2. Head(listed) \in Status
  BY <1>1, HeadTailToSet
<1>3. QED
  BY <1>1, <1>2, HeadTailToSet, AppendToSet, SeqToSet

LEMMA EmptyPlaces == ToSet(<<>>) = {} /\ <<>> \in Seq(Status) /\ Len(<<>>) = 0
<1>1. <<>> \in Seq(Status)
  OBVIOUS
<1>2. QED
  BY <1>1, SeqToSet

LEMMA InitInv == Init => Inv
<1> SUFFICES ASSUME Init PROVE Inv
  OBVIOUS
<1>1. /\ open = Status /\ mine \in SUBSET Status /\ closable \in SUBSET Status
      /\ listed = <<>> /\ close_ixs = <<>> /\ in_flight = {} /\ faults = 0
      /\ taken = {} /\ accepted = {} /\ running = FALSE /\ undisturbed = FALSE
  BY CloseAssumption DEF Init
<1>2. TypeOK
  BY <1>1, EmptyPlaces DEF TypeOK
<1>3. NonePassedOver
  BY <1>1, EmptyPlaces DEF NonePassedOver
<1>4. Undisturbed
  BY <1>1 DEF Undisturbed
<1>5. QED
  BY <1>2, <1>3, <1>4 DEF Inv

--------------------------------------------------------------------------------
(* Sending a batch, from Take and from Finish: what the two outcomes do to *)
(* the collected instructions and to the batches in flight.                *)
LEMMA Sending ==
    ASSUME TypeOK, NEW ixs \in Seq(Status),
           SentOk(ixs) \/ SentWithError(ixs)
    PROVE  /\ close_ixs' \in Seq(Status) /\ accepted' \in SUBSET Status
           /\ in_flight' \subseteq SUBSET Status /\ faults' \in Nat
           /\ undisturbed' \in BOOLEAN
           /\ accepted' \cup ToSet(close_ixs') = accepted \cup ToSet(ixs)
           /\ undisturbed' /\ Simulates(ixs) =>
                 /\ undisturbed /\ close_ixs' = <<>>
                 /\ in_flight' = in_flight \cup {ToSet(ixs)}
           /\ undisturbed' => undisturbed
<1>1. /\ ToSet(ixs) \in SUBSET Status /\ accepted \in SUBSET Status
      /\ in_flight \subseteq SUBSET Status /\ faults \in Nat
      /\ undisturbed \in BOOLEAN
  BY SeqToSet DEF TypeOK
<1>2. CASE SentOk(ixs)
  <2>1. /\ in_flight' = in_flight \cup {ToSet(ixs)}
        /\ accepted' = accepted \cup ToSet(ixs)
        /\ close_ixs' = <<>> /\ faults' = faults /\ undisturbed' = undisturbed
    BY <1>2 DEF SentOk, AfterSend, NoFault
  <2>2. QED
    BY <1>1, <2>1, EmptyPlaces
<1>3. CASE SentWithError(ixs)
  <2>1. close_ixs' = ixs /\ accepted' = accepted
    BY <1>3 DEF SentWithError, AfterError
  <2>2. ASSUME NEW kind, Fault(kind)
         PROVE  faults' \in Nat /\ ~undisturbed' /\ undisturbed' \in BOOLEAN
    <3>1. faults' = faults + 1 /\ undisturbed' = FALSE
      BY <2>2 DEF Fault
    <3>2. faults' \in Nat
      BY <1>1, <3>1, SMT
    <3>3. QED
      BY <3>1, <3>2, Zenon
  <2>3. CASE ~Simulates(ixs) /\ NoFault /\ UNCHANGED in_flight
    BY <1>1, <2>1, <2>3 DEF NoFault
  <2>4. CASE Fault("refuse") /\ UNCHANGED in_flight
    BY <1>1, <2>1, <2>2, <2>4
  <2>5. CASE Fault("lost_answer") /\ in_flight' = in_flight \cup {ToSet(ixs)}
    BY <1>1, <2>1, <2>2, <2>5
  <2>6. QED
    BY <1>3, <2>3, <2>4, <2>5 DEF SentWithError
<1>4. QED
  BY <1>2, <1>3

(* A batch of one place simulates: all of it is closable and of the tool's *)
(* admin, and no other batch closes it before.                             *)
LEMMA BatchSimulates ==
    ASSUME TypeOK, InOnePlace, closable \subseteq mine, NEW ixs \in Seq(Status),
           Len(ixs) <= BatchSize, ToSet(ixs) \subseteq ListedAndCollected
    PROVE  Simulates(ixs)
<1>1. ToSet(ixs) \subseteq open \cap closable
  BY DEF InOnePlace
<1>2. Len(ixs) <= MaxFit
  <2>1. Len(ixs) \in Nat /\ BatchSize \in Nat /\ MaxFit \in Nat /\ BatchSize <= MaxFit
    BY CloseAssumption, LenProperties
  <2>2. QED
    BY <2>1, SMT
<1>3. QED
  BY <1>1, <1>2 DEF Simulates, Closes

--------------------------------------------------------------------------------
LEMMA StartInv == Inv /\ Start => Inv'
<1> SUFFICES ASSUME Inv, Start PROVE Inv'
  OBVIOUS
<1>1. /\ running' = TRUE /\ listed' \in SetToSeqs(open \cap closable)
      /\ close_ixs' = <<>> /\ taken' = {} /\ accepted' = {}
      /\ undisturbed' = (in_flight = {})
      /\ UNCHANGED <<open, mine, closable, in_flight, faults>>
  BY DEF Start
<1>2. TypeOK
  BY DEF Inv
<1>3. IsFiniteSet(open \cap closable) /\ open \cap closable \in SUBSET Status
  <2>1. open \cap closable \in SUBSET Status
    BY <1>2 DEF TypeOK
  <2>2. QED
    BY <2>1, CloseAssumption, FS_Subset
<1>4. listed' \in Seq(open \cap closable) /\ IsInjective(listed')
      /\ ToSet(listed') = open \cap closable
  BY <1>1, <1>3, ListingOfSet
<1>5. listed' \in Seq(Status)
  BY <1>3, <1>4
<1>6. TypeOK'
  BY <1>1, <1>2, <1>5, EmptyPlaces DEF TypeOK
<1>7. NonePassedOver'
  BY <1>1, EmptyPlaces DEF NonePassedOver
<1>8. Undisturbed'
  <2>1. CASE in_flight = {}
    <3>1. InOnePlace'
      BY <1>1, <1>4, <2>1, EmptyPlaces DEF InOnePlace, ListedAndCollected
    <3>2. Len(close_ixs') < BatchSize
      <4>1. BatchSize \in Nat \ {0} /\ Len(close_ixs') = 0
        BY <1>1, CloseAssumption, EmptyPlaces
      <4>2. QED
        BY <4>1, SMT
    <3>3. QED
      BY <1>1, <3>1, <3>2 DEF Undisturbed
  <2>2. CASE in_flight # {}
    BY <1>1, <2>2 DEF Undisturbed
  <2>3. QED
    BY <2>1, <2>2
<1>9. QED
  BY <1>6, <1>7, <1>8 DEF Inv

--------------------------------------------------------------------------------
LEMMA TakeInv == Inv /\ Take => Inv'
<1> SUFFICES ASSUME Inv, Take PROVE Inv'
  OBVIOUS
<1> DEFINE h == Head(listed)
           ixs == Append(close_ixs, h)
<1>1. /\ running /\ listed # <<>> /\ listed' = Tail(listed)
      /\ taken' = taken \cup {h}
      /\ UNCHANGED <<open, mine, closable, running>>
  BY DEF Take
<1>2. \/ IsFull(ixs) /\ (SentOk(ixs) \/ SentWithError(ixs))
      \/ ~IsFull(ixs) /\ close_ixs' = ixs /\ NoFault /\ UNCHANGED <<in_flight, accepted>>
  BY DEF Take
<1>3. TypeOK /\ NonePassedOver /\ Undisturbed
  BY DEF Inv
<1>4. /\ h \in Status /\ Tail(listed) \in Seq(Status)
      /\ ToSet(listed) = ToSet(Tail(listed)) \cup {h}
      /\ IsInjective(listed) => IsInjective(Tail(listed)) /\ h \notin ToSet(Tail(listed))
      /\ ixs \in Seq(Status) /\ Len(ixs) = Len(close_ixs) + 1
      /\ ToSet(ixs) = ToSet(close_ixs) \cup {h}
      /\ ToSet(listed) \in SUBSET Status /\ ToSet(close_ixs) \in SUBSET Status
  BY <1>1, <1>3, TakeOne
<1>5. Len(close_ixs) \in Nat /\ BatchSize \in Nat \ {0}
  BY <1>3, CloseAssumption, LenProperties DEF TypeOK
<1> HIDE DEF ixs, h
<1>6. CASE ~IsFull(ixs) /\ close_ixs' = ixs /\ NoFault /\ UNCHANGED <<in_flight, accepted>>
  <2>1. TypeOK'
    BY <1>1, <1>3, <1>4, <1>6 DEF TypeOK, NoFault
  <2>2. NonePassedOver'
    BY <1>1, <1>3, <1>4, <1>6 DEF NonePassedOver
  <2>3. ASSUME undisturbed', closable' \subseteq mine'
        PROVE  InOnePlace' /\ Len(close_ixs') < BatchSize'
    <3>1. InOnePlace
      BY <1>1, <1>3, <1>6, <2>3 DEF NoFault, Undisturbed
    <3>2. InOnePlace'
      BY <1>1, <1>4, <1>6, <3>1 DEF InOnePlace, ListedAndCollected
    <3>3. Len(ixs) < BatchSize
      BY <1>4, <1>5, <1>6, SMT DEF IsFull
    <3>4. QED
      BY <1>6, <3>2, <3>3
  <2>4. Undisturbed'
    BY <1>1, <2>3 DEF Undisturbed
  <2>5. QED
    BY <2>1, <2>2, <2>4 DEF Inv
<1>7. CASE SentOk(ixs) \/ SentWithError(ixs)
  <2>1. /\ close_ixs' \in Seq(Status) /\ accepted' \in SUBSET Status
        /\ in_flight' \subseteq SUBSET Status /\ faults' \in Nat
        /\ undisturbed' \in BOOLEAN
        /\ accepted' \cup ToSet(close_ixs') = accepted \cup ToSet(ixs)
        /\ undisturbed' /\ Simulates(ixs) =>
              /\ undisturbed /\ close_ixs' = <<>>
              /\ in_flight' = in_flight \cup {ToSet(ixs)}
        /\ undisturbed' => undisturbed
    BY <1>3, <1>4, <1>7, Sending
  <2>2. TypeOK'
    BY <1>1, <1>3, <1>4, <2>1 DEF TypeOK
  <2>3. NonePassedOver'
    BY <1>1, <1>3, <1>4, <2>1 DEF NonePassedOver
  <2>4. ASSUME undisturbed', closable' \subseteq mine'
        PROVE  InOnePlace' /\ Len(close_ixs') < BatchSize'
    <3>1. InOnePlace /\ Len(close_ixs) < BatchSize /\ closable \subseteq mine
      BY <1>1, <1>3, <2>1, <2>4 DEF Undisturbed
    <3>2. Len(ixs) <= BatchSize
      BY <1>4, <1>5, <3>1, SMT
    <3>3. ToSet(ixs) \subseteq ListedAndCollected
      BY <1>4 DEF ListedAndCollected
    <3>4. Simulates(ixs)
      BY <1>3, <1>4, <3>1, <3>2, <3>3, BatchSimulates
    <3>5. close_ixs' = <<>> /\ in_flight' = in_flight \cup {ToSet(ixs)}
      BY <2>1, <2>4, <3>4
    <3>6. ToSet(close_ixs') = {} /\ Len(close_ixs') = 0
      BY <3>5, EmptyPlaces
    <3>7. ToSet(ixs) \cap ToSet(Tail(listed)) = {}
      BY <1>4, <3>1 DEF InOnePlace
    <3>8. \A batch \in in_flight : batch \cap ToSet(ixs) = {}
      BY <3>1, <3>3 DEF InOnePlace
    <3>9. UNION in_flight' = ToSet(ixs) \cup UNION in_flight
      BY <3>5
    <3>10. InOnePlace'
      <4>1. (open \cap closable)' = ListedAndCollected' \cup UNION in_flight'
        BY <1>1, <1>4, <3>1, <3>6, <3>9 DEF InOnePlace, ListedAndCollected
      <4>2. IsInjective(listed)' /\ (ToSet(listed) \cap ToSet(close_ixs))' = {}
        BY <1>1, <1>4, <3>1, <3>6 DEF InOnePlace
      <4>3. \A batch \in in_flight' : batch \cap ListedAndCollected' = {}
        BY <1>1, <1>4, <3>1, <3>5, <3>6, <3>7 DEF InOnePlace, ListedAndCollected
      <4>4. \A batch, other \in in_flight' : batch # other => batch \cap other = {}
        BY <3>1, <3>5, <3>8 DEF InOnePlace
      <4>5. QED
        BY <4>1, <4>2, <4>3, <4>4 DEF InOnePlace
    <3>11. QED
      BY <1>5, <3>6, <3>10, SMT
  <2>5. Undisturbed'
    BY <1>1, <2>4 DEF Undisturbed
  <2>6. QED
    BY <2>2, <2>3, <2>5 DEF Inv
<1>8. QED
  BY <1>2, <1>6, <1>7

--------------------------------------------------------------------------------
LEMMA FinishInv == Inv /\ Finish => Inv'
<1> SUFFICES ASSUME Inv, Finish PROVE Inv'
  OBVIOUS
<1>1. /\ running /\ listed = <<>> /\ running' = FALSE
      /\ UNCHANGED <<open, mine, closable, listed, taken>>
      /\ \/ SomeRemain(close_ixs) /\ (SentOk(close_ixs) \/ SentWithError(close_ixs))
         \/ /\ ~SomeRemain(close_ixs)
            /\ UNCHANGED <<close_ixs, in_flight, accepted, faults, undisturbed>>
  BY DEF Finish
<1>2. TypeOK /\ NonePassedOver /\ Undisturbed
  BY DEF Inv
<1>3. /\ close_ixs \in Seq(Status) /\ Len(close_ixs) \in Nat
      /\ ToSet(close_ixs) \in SUBSET Status /\ BatchSize \in Nat \ {0}
      /\ ToSet(listed) = {}
  BY <1>1, <1>2, CloseAssumption, LenProperties, SeqToSet, EmptyPlaces DEF TypeOK
<1>4. CASE ~SomeRemain(close_ixs)
  <2>1. UNCHANGED <<close_ixs, in_flight, accepted, faults, undisturbed>>
    BY <1>1, <1>4
  <2>2. close_ixs = <<>>
    BY <1>3, <1>4, EmptySeq, SMT DEF SomeRemain
  <2>3. TypeOK' /\ NonePassedOver'
    BY <1>1, <1>2, <2>1 DEF TypeOK, NonePassedOver
  <2>4. InOnePlace => InOnePlace'
    BY <1>1, <2>1 DEF InOnePlace, ListedAndCollected
  <2>5. Undisturbed'
    BY <1>1, <1>2, <2>1, <2>2, <2>4 DEF Undisturbed
  <2>6. QED
    BY <2>3, <2>5 DEF Inv
<1>5. CASE SentOk(close_ixs) \/ SentWithError(close_ixs)
  <2>1. /\ close_ixs' \in Seq(Status) /\ accepted' \in SUBSET Status
        /\ in_flight' \subseteq SUBSET Status /\ faults' \in Nat
        /\ undisturbed' \in BOOLEAN
        /\ accepted' \cup ToSet(close_ixs') = accepted \cup ToSet(close_ixs)
        /\ undisturbed' /\ Simulates(close_ixs) =>
              /\ undisturbed /\ close_ixs' = <<>>
              /\ in_flight' = in_flight \cup {ToSet(close_ixs)}
        /\ undisturbed' => undisturbed
    BY <1>2, <1>3, <1>5, Sending
  <2>2. TypeOK' /\ NonePassedOver'
    <3>1. running' \in BOOLEAN /\ (~running => listed = <<>>)'
      BY <1>1
    <3>2. TypeOK'
      BY <1>1, <1>2, <2>1, <3>1 DEF TypeOK
    <3>3. NonePassedOver'
      BY <1>1, <1>2, <2>1 DEF NonePassedOver
    <3>4. QED
      BY <3>2, <3>3
  <2>3. ASSUME undisturbed', closable' \subseteq mine'
        PROVE  InOnePlace' /\ Len(close_ixs') < BatchSize' /\ close_ixs' = <<>>
    <3>1. InOnePlace /\ Len(close_ixs) < BatchSize /\ closable \subseteq mine
      BY <1>1, <1>2, <2>1, <2>3 DEF Undisturbed
    <3>2. Len(close_ixs) <= BatchSize
      BY <1>3, <3>1, SMT
    <3>3. Simulates(close_ixs)
      BY <1>2, <1>3, <3>1, <3>2, BatchSimulates DEF ListedAndCollected
    <3>4. close_ixs' = <<>> /\ in_flight' = in_flight \cup {ToSet(close_ixs)}
      BY <2>1, <2>3, <3>3
    <3>5. ToSet(close_ixs') = {} /\ Len(close_ixs') = 0 /\ ToSet(listed') = {}
      BY <1>1, <1>3, <3>4, EmptyPlaces
    <3>6. \A batch \in in_flight : batch \cap ToSet(close_ixs) = {}
      BY <3>1 DEF InOnePlace, ListedAndCollected
    <3>7. UNION in_flight' = ToSet(close_ixs) \cup UNION in_flight
      BY <3>4
    <3>8. InOnePlace'
      <4>1. (open \cap closable)' = ListedAndCollected' \cup UNION in_flight'
        BY <1>1, <1>3, <3>1, <3>5, <3>7 DEF InOnePlace, ListedAndCollected
      <4>2. IsInjective(listed)' /\ (ToSet(listed) \cap ToSet(close_ixs))' = {}
        BY <1>1, <3>1, <3>5 DEF InOnePlace
      <4>3. \A batch \in in_flight' : batch \cap ListedAndCollected' = {}
        BY <3>5 DEF ListedAndCollected
      <4>4. \A batch, other \in in_flight' : batch # other => batch \cap other = {}
        BY <3>1, <3>4, <3>6 DEF InOnePlace
      <4>5. QED
        BY <4>1, <4>2, <4>3, <4>4 DEF InOnePlace
    <3>9. QED
      BY <1>3, <3>4, <3>5, <3>8, SMT
  <2>4. Undisturbed'
    BY <1>1, <2>3 DEF Undisturbed
  <2>5. QED
    BY <2>2, <2>4 DEF Inv
<1>6. QED
  BY <1>1, <1>4, <1>5

--------------------------------------------------------------------------------
(* A batch that lands takes its statuses out of the one place they were in. *)
LEMMA LandInv == \A batch \in SUBSET Status : Inv /\ Land(batch) => Inv'
<1> SUFFICES ASSUME NEW batch \in SUBSET Status, Inv, Land(batch) PROVE Inv'
  OBVIOUS
<1>1. /\ batch \in in_flight /\ in_flight' = in_flight \ {batch}
      /\ open' = IF Closes(batch) THEN open \ batch ELSE open
      /\ UNCHANGED <<mine, closable, running, listed, close_ixs, faults,
                     taken, accepted, undisturbed>>
  BY DEF Land
<1>2. TypeOK /\ NonePassedOver /\ Undisturbed
  BY DEF Inv
<1>3. TypeOK' /\ NonePassedOver'
  BY <1>1, <1>2 DEF TypeOK, NonePassedOver
<1>4. ASSUME InOnePlace, closable \subseteq mine
      PROVE  InOnePlace'
  <2>1. batch \subseteq open \cap closable
    BY <1>1, <1>4 DEF InOnePlace
  <2>2. open' = open \ batch
    BY <1>1, <1>4, <2>1 DEF Closes
  <2>3. /\ open \cap closable = ListedAndCollected \cup UNION in_flight
        /\ batch \cap ListedAndCollected = {}
        /\ \A other \in in_flight' : batch \cap other = {}
    BY <1>1, <1>4 DEF InOnePlace
  <2>4. ListedAndCollected' = ListedAndCollected
    BY <1>1 DEF ListedAndCollected
  <2>5. UNION in_flight' = (UNION in_flight) \ batch
    BY <1>1, <2>3
  <2>6. (open \cap closable)' = ListedAndCollected' \cup UNION in_flight'
    BY <1>1, <2>2, <2>3, <2>4, <2>5
  <2>7. QED
    BY <1>1, <1>4, <2>4, <2>6 DEF InOnePlace
<1>5. Undisturbed'
  BY <1>1, <1>2, <1>4 DEF Undisturbed
<1>6. QED
  BY <1>3, <1>5 DEF Inv

LEMMA ExpireInv == \A batch \in SUBSET Status : Inv /\ Expire(batch) => Inv'
<1> SUFFICES ASSUME NEW batch \in SUBSET Status, Inv, Expire(batch) PROVE Inv'
  OBVIOUS
<1>1. /\ faults' = faults + 1 /\ undisturbed' = FALSE
      /\ in_flight' = in_flight \ {batch}
      /\ UNCHANGED <<open, mine, closable, running, listed, close_ixs,
                     taken, accepted>>
  BY DEF Expire, Fault
<1>2. TypeOK /\ NonePassedOver
  BY DEF Inv
<1>3. TypeOK'
  <2>1. undisturbed' \in BOOLEAN
    BY <1>1
  <2>2. QED
    BY <1>1, <1>2, <2>1 DEF TypeOK
<1>4. NonePassedOver' /\ Undisturbed'
  BY <1>1, <1>2 DEF NonePassedOver, Undisturbed
<1>5. QED
  BY <1>3, <1>4 DEF Inv

LEMMA StutterInv == Inv /\ UNCHANGED vars => Inv'
<1> SUFFICES ASSUME Inv, UNCHANGED vars PROVE Inv'
  OBVIOUS
<1>1. UNCHANGED <<open, mine, closable, running, listed, close_ixs, in_flight,
                  faults, taken, accepted, undisturbed>>
  BY DEF vars
<1>2. TypeOK' /\ NonePassedOver' /\ Undisturbed'
  BY <1>1 DEF Inv, TypeOK, NonePassedOver, Undisturbed, InOnePlace, ListedAndCollected
<1>3. QED
  BY <1>2 DEF Inv

--------------------------------------------------------------------------------
(* Theorems *)

(* The statuses taken from the list are the ones sent and the ones still   *)
(* collected, and while nothing disturbs a run each closable status is in  *)
(* one place (process_close_claim_status).                                 *)
THEOREM CloseInvariance == Spec => []Inv
<1>1. Inv /\ [Next]_vars => Inv'
  <2> SUFFICES ASSUME Inv, [Next]_vars PROVE Inv'
    OBVIOUS
  <2>1. CASE Start
    BY <2>1, StartInv
  <2>2. CASE Take
    BY <2>2, TakeInv
  <2>3. CASE Finish
    BY <2>3, FinishInv
  <2>4. CASE \E batch \in SUBSET Status : Land(batch) \/ Expire(batch)
    BY <2>4, LandInv, ExpireInv
  <2>5. CASE UNCHANGED vars
    BY <2>5, StutterInv
  <2>6. QED
    BY <2>1, <2>2, <2>3, <2>4, <2>5 DEF Next, Step
<1>2. QED
  BY InitInv, <1>1, PTL DEF Spec

(* Whatever a transaction's outcome is, its instructions are sent again    *)
(* until one is accepted: no status of the list is dropped.                *)
THEOREM NoneDropped == Spec => []NonePassedOver
<1>1. Inv => NonePassedOver
  BY DEF Inv
<1>2. QED
  BY CloseInvariance, <1>1, PTL

(* A run without faults and of one admin leaves no closable status when its *)
(* batches have landed.                                                     *)
THEOREM QuietRunClosesAll == Spec => []AllClosed
<1>1. Inv => AllClosed
  <2> SUFFICES ASSUME Inv, ~running, in_flight = {}, undisturbed, closable \subseteq mine
               PROVE  open \cap closable = {}
    BY DEF AllClosed, Quiet
  <2>1. InOnePlace /\ listed = <<>> /\ close_ixs = <<>>
    BY DEF Inv, Undisturbed, TypeOK
  <2>2. ListedAndCollected = {} /\ UNION in_flight = {}
    BY <2>1, EmptyPlaces DEF ListedAndCollected
  <2>3. QED
    BY <2>1, <2>2 DEF InOnePlace
<1>2. QED
  BY CloseInvariance, <1>1, PTL
================================================================================
