------------------------ MODULE SilentPaymentsProofs ------------------------
(***************************************************************************)
(* Proofs about SilentPayments, for any numbers of inputs and recipients,  *)
(* any secrets and any group limit the transaction fits.                   *)
(***************************************************************************)
EXTENDS SilentPayments, FiniteSetTheorems, TLAPS

(* The recipients that are not someone else's. *)
Own == {x \in Recipients : ~IsForeign(x)}

(* What has been made, on the word of which flag or at which stage. *)
Made ==
    /\ keypairs # {} => "keypairs" \in made
    /\ pubkeys # {} => "pubkeys" \in made
    /\ pc \notin {"inputs", "keys", "done"} => {"scan_pk", "spend_pk"} \subseteq made
    /\ labelOk => {"cache", "labeled_pk"} \subseteq made
    /\ foreignOk => "foreign_pk" \in made
    /\ sent => "outputs" \in made
    /\ twinOk => "twin" \in made
    /\ pc \in {"scan", "limit"} => "summary" \in made

(* What is known at each stage. *)
Stage ==
    /\ pc = "inputs" => i < n
    /\ pc \in {"inputs", "keys", "label", "foreign", "send"} => ~sent
    /\ pc \in {"inputs", "keys", "label", "foreign", "send", "twin"} => ~twinOk
    /\ pc \notin {"limit", "done"} => nTx = 0
    /\ pc \notin {"inputs", "keys", "done"} => key["scan"] # Invalid
    /\ pc \in {"scan", "limit"} => sent /\ summary = keypairs \cup pubkeys

(* Output o is a payment by the sender to one who scans with the scan key. *)
Payment(o) ==
    /\ o.inputs = SenderKeys /\ o.scan = key["scan"] /\ o.spend.of = key["spend"]
    /\ o.spend.labeled => labelOk

(* The outputs sent: the payments are known, and their k are the first ones *)
(* unless a foreign group shares the scan key.                              *)
Payments ==
    /\ sent => /\ seckeys = pubkeys /\ outputs \in [Recipients -> Output]
               /\ \A x \in Recipients : outputs[x].k \in 0..(r - 1)
               /\ \A x \in Own : Payment(outputs[x])
               /\ \A x \in Recipients \ Own : outputs[x].scan = key["foreign"]
               /\ (foreignOk => key["foreign"] # key["scan"]) =>
                    {outputs[x].k : x \in Own} = 0..(Cardinality(Own) - 1)
    /\ ~twinOk => twin = {}
    /\ twinOk => /\ Own # {} /\ labelOk
                 /\ \E o \in Output : twin = {o} /\ Payment(o) /\ o.k = 0

IInv == TypeOK /\ Made /\ Stage /\ Payments /\ CallsLegal /\ TxFits /\ PaymentsFound

-----------------------------------------------------------------------------
(* The constants, one by one. *)
LEMMA Constants ==
    /\ MaxInputs \in Nat \ {0} /\ MaxRecipients \in Nat \ {0} /\ LabelBatch \in Nat \ {0}
    /\ GroupLimit \in Nat /\ MaxTx \in Nat /\ MaxTx <= GroupLimit + 1 /\ Invalid \notin Secrets
    /\ MaxTx = 1 + MaxRecipients + LabelBatch
BY SilentPaymentsAssumption DEF MaxTx

(* All recipients but the last foreign one are payments'. *)
LEMMA OwnCount ==
    ASSUME r \in Nat \ {0}, foreignOk \in BOOLEAN
    PROVE  /\ Cardinality(Own) = r - IF foreignOk THEN 1 ELSE 0
           /\ Cardinality(Own) \in 0..r
           /\ Own # {} => Cardinality(Own) > 0
<1>1. CASE foreignOk
  <2>1. Own = 0..(r - 2)
    BY <1>1 DEF Own, Recipients, IsForeign
  <2>2. r - 2 \in Int /\ Cardinality(0..(r - 2)) = r - 1
    <3>1. r - 2 \in Int
      OBVIOUS
    <3>2. Cardinality(0..(r - 2)) = IF 0 > r - 2 THEN 0 ELSE (r - 2) - 0 + 1
      BY <3>1, FS_Interval
    <3> QED
      BY <3>1, <3>2
  <2> QED
    BY <1>1, <2>1, <2>2
<1>2. CASE ~foreignOk
  <2>1. Own = 0..(r - 1)
    BY <1>2 DEF Own, Recipients, IsForeign
  <2>2. r - 1 \in Int /\ Cardinality(0..(r - 1)) = r
    BY FS_Interval
  <2> QED
    BY <1>2, <2>1, <2>2
<1> QED
  BY <1>1, <1>2

(* The recipient finds at most one output for each k sent. *)
LEMMA FoundBound ==
    ASSUME r \in 1..MaxRecipients, NEW tx, \A o \in tx : o.k \in 0..(r - 1), NEW scan, NEW labels
    PROVE  Found(tx, scan, labels) \in 0..r
<1> DEFINE ks == {k \in 0..(MaxRecipients - 1) :
                    \A j \in 0..k : \E o \in tx : Matches(o, scan, labels, j)}
<1>1. ks \subseteq 0..(r - 1)
  <2> SUFFICES ASSUME NEW k \in ks PROVE k \in 0..(r - 1)
    OBVIOUS
  <2>1. k \in 0..k
    BY Constants
  <2>2. PICK o \in tx : Matches(o, scan, labels, k)
    BY <2>1
  <2> QED
    BY <2>2 DEF Matches
<1>2. r \in Nat \ {0}
  BY Constants
<1>3. IsFiniteSet(0..(r - 1)) /\ Cardinality(0..(r - 1)) = r
  BY <1>2, FS_Interval
<1>4. IsFiniteSet(ks) /\ Cardinality(ks) <= r
  BY <1>1, <1>3, FS_Subset
<1>5. Cardinality(ks) \in Nat
  BY <1>4, FS_CardinalityType
<1> QED
  BY <1>2, <1>4, <1>5 DEF Found

(* If the first c of the k have a match and the next has none, c are found. *)
LEMMA FoundExactly ==
    ASSUME NEW c \in 0..MaxRecipients, NEW tx, NEW scan, NEW labels,
           \A k \in 0..(c - 1) : \E o \in tx : Matches(o, scan, labels, k),
           \A o \in tx : ~Matches(o, scan, labels, c)
    PROVE  Found(tx, scan, labels) = c
<1> DEFINE ks == {k \in 0..(MaxRecipients - 1) :
                    \A j \in 0..k : \E o \in tx : Matches(o, scan, labels, j)}
<1>1. ks \subseteq 0..(c - 1)
  BY Constants
<1>2. 0..(c - 1) \subseteq ks
  BY Constants
<1>3. ks = 0..(c - 1)
  BY <1>1, <1>2
<1> HIDE DEF ks
<1>4. Cardinality(ks) = c
  <2>1. c \in Nat /\ c - 1 \in Int
    BY Constants
  <2>2. Cardinality(0..(c - 1)) = IF 0 > c - 1 THEN 0 ELSE (c - 1) - 0 + 1
    BY <2>1, FS_Interval
  <2> QED
    BY <1>3, <2>1, <2>2
<1> QED
  BY <1>4 DEF Found, ks

-----------------------------------------------------------------------------
(* What stays when its variables do. *)
LEMMA PaymentsStay ==
    ASSUME Payments,
           UNCHANGED <<r, key, keypairs, seckeys, pubkeys, labelOk, foreignOk, sent, twinOk, outputs,
                       twin>>
    PROVE  Payments'
BY DEF Payments, Payment, Own, Recipients, IsForeign, SenderKeys

(* Before anything is sent there is nothing to know. *)
LEMMA NoPayments == ASSUME ~sent', ~twinOk', twin' = {} PROVE Payments'
BY DEF Payments

(* The properties stay while a call is legal and nothing is scanned. *)
LEMMA RestStays ==
    ASSUME IInv, legal' = legal, UNCHANGED <<r, key, nTx, scanned, nFound>>,
           foreignOk' = foreignOk \/ nTx = 0
    PROVE  CallsLegal' /\ TxFits' /\ PaymentsFound'
BY DEF IInv, CallsLegal, TxFits, PaymentsFound

(* A call given objects that were made is legal. *)
LEMMA PassedLegal ==
    ASSUME NEW os, os \subseteq made, Passed(os) PROVE legal' = legal
BY DEF Passed

(* The sender's keypairs were made if there are any. *)
LEMMA SenderMade == ASSUME IInv PROVE SenderObjects \subseteq made
BY DEF IInv, Made, SenderObjects

(* When the input has been read nothing has happened yet. *)
LEMMA SilentPaymentsInit == Init => IInv
<1> SUFFICES ASSUME Init PROVE IInv
  OBVIOUS
<1>1. n \in Nat \ {0} /\ r \in Nat \ {0} /\ GroupLimit \in Nat /\ MaxTx \in Nat
  BY Constants DEF Init
<1>2. TypeOK
  <2>1. keypairs \in SUBSET (0..(i - 1)) /\ seckeys \in SUBSET (0..(i - 1)) /\ i \in 0..n
    BY <1>1 DEF Init
  <2>2. nTx \in Nat /\ nFound \in 0..nTx /\ scanned \in AnyKey
    BY DEF Init, AnyKey
  <2> QED
    BY <2>1, <2>2 DEF Init, TypeOK, GroupLoop
<1>3. Made /\ Stage
  BY <1>1 DEF Init, Made, Stage
<1>4. Payments
  BY DEF Init, Payments
<1> QED
  BY <1>1, <1>2, <1>3, <1>4 DEF Init, IInv, CallsLegal, TxFits, PaymentsFound

-----------------------------------------------------------------------------
(* The input keys. *)
LEMMA ReadInputSafe == ASSUME IInv, ReadInput PROVE IInv'
<1> USE DEF ReadInput, inputs, InputKeypair, InputSeckey
<1>1. TypeOK /\ Made /\ Stage /\ i < n /\ ~sent /\ ~twinOk /\ twin = {}
  BY DEF IInv, Stage, Payments
<1>2. n \in Nat /\ i \in Nat /\ n' = n
  BY <1>1, Constants DEF TypeOK
<1>3. i \notin 0..(i - 1) /\ 0..(i' - 1) = (0..(i - 1)) \cup {i}
  BY <1>2
<1>4. /\ {keypairs', seckeys'} \subseteq SUBSET (0..(i' - 1)) /\ keypairs' \cap seckeys' = {}
      /\ pubkeys' \subseteq seckeys' /\ summary' \subseteq keypairs' \cup pubkeys'
  BY <1>1, <1>3 DEF TypeOK
<1>5. TypeOK'
  <2>1. i' \in 0..n' /\ pc' \in {"inputs", "keys"}
    BY <1>1, <1>2
  <2>2. made' \subseteq Objects
    BY <1>1 DEF TypeOK, Objects
  <2>3. Recipients' = Recipients
    BY DEF Recipients
  <2> QED
    BY <1>1, <1>2, <1>4, <2>1, <2>2, <2>3 DEF TypeOK
<1>6. Made'
  BY <1>1 DEF Made
<1>7. Stage'
  BY <1>1, <1>2 DEF Stage
<1>8. Payments'
  BY <1>1, NoPayments
<1> QED
  BY <1>5, <1>6, <1>7, <1>8, RestStays DEF IInv

(* The recipient's keys. *)
LEMMA RecipientKeysSafe == ASSUME IInv, RecipientKeys PROVE IInv'
<1> USE DEF RecipientKeys, inputs, Unsent
<1>1. TypeOK /\ Made /\ Stage /\ ~sent /\ ~twinOk /\ twin = {}
  BY DEF IInv, Stage, Payments
<1>2. TypeOK'
  BY <1>1 DEF TypeOK, Objects, Recipients
<1>3. Made'
  BY <1>1 DEF Made
<1>4. Stage'
  BY <1>1, Constants DEF Stage
<1>5. Payments'
  BY <1>1, NoPayments
<1> QED
  BY <1>2, <1>3, <1>4, <1>5, RestStays DEF IInv

(* Their label. *)
LEMMA LabelSafe == ASSUME IInv, Label PROVE IInv'
<1> USE DEF Label, inputs, Unsent
<1>1. TypeOK /\ Made /\ Stage /\ ~sent /\ ~twinOk /\ twin = {}
  BY DEF IInv, Stage, Payments
<1>2. legal' = legal
  BY <1>1, PassedLegal DEF Made
<1>3. TypeOK'
  BY <1>1, <1>2 DEF TypeOK, Objects, Recipients
<1>4. Made'
  BY <1>1 DEF Made
<1>5. Stage'
  BY <1>1 DEF Stage
<1>6. Payments'
  BY <1>1, NoPayments
<1> QED
  BY <1>2, <1>3, <1>4, <1>5, <1>6, RestStays DEF IInv

(* The foreign key. *)
LEMMA ForeignSafe == ASSUME IInv, Foreign PROVE IInv'
<1> USE DEF Foreign, inputs, Unsent
<1>1. TypeOK /\ Made /\ Stage /\ ~sent /\ ~twinOk /\ twin = {} /\ nTx = 0
  BY DEF IInv, Stage, Payments
<1>2. foreignOk' \in BOOLEAN
  <2>1. foreignOk' = foreignOk \/ foreignOk' = (key["foreign"] \in Secrets)
    OBVIOUS
  <2>2. foreignOk \in BOOLEAN /\ (key["foreign"] \in Secrets) \in BOOLEAN
    BY <1>1 DEF TypeOK
  <2> HIDE DEF Foreign
  <2> QED
    BY <2>1, <2>2
<1>3. TypeOK'
  BY <1>1, <1>2 DEF TypeOK, Objects, Recipients
<1>4. Made'
  BY <1>1 DEF Made
<1>5. Stage'
  BY <1>1 DEF Stage
<1>6. Payments'
  BY <1>1, NoPayments
<1> QED
  BY <1>1, <1>3, <1>4, <1>5, <1>6, RestStays DEF IInv

(* What a recipient is sent to. *)
LEMMA RecipientKind ==
    ASSUME TypeOK, NEW mask, NEW x
    PROVE  /\ Recipient(x, mask).scan = IF IsForeign(x) THEN key["foreign"] ELSE key["scan"]
           /\ Recipient(x, mask).spend \in SpendKey
           /\ Recipient(x, mask).scan \in AnyKey
           /\ ~IsForeign(x) => /\ Recipient(x, mask).spend.of = key["spend"]
                               /\ Recipient(x, mask).spend.labeled => labelOk
           /\ IsForeign(x) => ~Recipient(x, mask).spend.labeled
BY DEF TypeOK, Recipient, Plain, Labeled, SpendKey

(* Their outputs: the recipients that share the scan key count k up. *)
LEMMA SentPayments ==
    ASSUME TypeOK, NEW mask, NEW recipient, recipient = [x \in Recipients |-> Recipient(x, mask)],
           NEW k \in Counted(recipient), NEW out, out = Generated(recipient, k)
    PROVE  /\ out \in [Recipients -> Output]
           /\ \A x \in Recipients : out[x].k \in 0..(r - 1)
           /\ \A x \in Own : Payment(out[x])
           /\ \A x \in Recipients \ Own : out[x].scan = key["foreign"]
           /\ (foreignOk => key["foreign"] # key["scan"]) =>
                {out[x].k : x \in Own} = 0..(Cardinality(Own) - 1)
<1>1. r \in 1..MaxRecipients /\ r \in Nat \ {0} /\ foreignOk \in BOOLEAN
  BY Constants DEF TypeOK
<1>2. \A x \in Recipients : k[x] \in 0..(r - 1) /\ recipient[x] = Recipient(x, mask)
  BY DEF Counted
<1>3. SenderKeys \subseteq 0..(MaxInputs - 1)
  <2>1. i \in Nat /\ i <= MaxInputs
    BY Constants DEF TypeOK
  <2>2. 0..(i - 1) \subseteq 0..(MaxInputs - 1)
    BY <2>1, Constants
  <2> QED
    BY <2>2 DEF TypeOK, SenderKeys
<1>4. \A x \in Recipients :
        out[x] = [inputs |-> SenderKeys, scan |-> recipient[x].scan,
                  spend |-> recipient[x].spend, k |-> k[x]]
  BY DEF Generated
<1>5. 0..(r - 1) \subseteq 0..(MaxRecipients - 1)
  BY <1>1, Constants
<1>11. ASSUME NEW x \in Recipients
       PROVE  /\ out[x].inputs = SenderKeys /\ out[x].scan = Recipient(x, mask).scan
              /\ out[x].spend = Recipient(x, mask).spend /\ out[x].k = k[x]
  <2>1. out[x] = [inputs |-> SenderKeys, scan |-> recipient[x].scan,
                  spend |-> recipient[x].spend, k |-> k[x]]
    BY <1>4
  <2>2. recipient[x] = Recipient(x, mask)
    BY <1>2
  <2> QED
    BY <2>1, <2>2
<1>12. Own \subseteq Recipients /\ \A x \in Recipients : x \in Own <=> ~IsForeign(x)
  BY DEF Own
<1>6. ASSUME NEW x \in Recipients PROVE out[x] \in Output
  <2>1. recipient[x].scan \in AnyKey /\ recipient[x].spend \in SpendKey
    BY <1>2, RecipientKind
  <2>2. k[x] \in 0..(MaxRecipients - 1) /\ SenderKeys \in SUBSET (0..(MaxInputs - 1))
    BY <1>2, <1>3, <1>5
  <2>3. out[x] = [inputs |-> SenderKeys, scan |-> recipient[x].scan,
                  spend |-> recipient[x].spend, k |-> k[x]]
    BY <1>4
  <2> QED
    BY <2>1, <2>2, <2>3 DEF Output
<1>7. out \in [Recipients -> Output]
  BY <1>6 DEF Generated
<1>8. \A x \in Own : Payment(out[x])
  BY <1>11, <1>12, RecipientKind DEF Payment
<1>9. \A x \in Recipients \ Own : out[x].scan = key["foreign"]
  BY <1>11, <1>12, RecipientKind
<1>10. (foreignOk => key["foreign"] # key["scan"]) =>
         {out[x].k : x \in Own} = 0..(Cardinality(Own) - 1)
  <2> SUFFICES ASSUME foreignOk => key["foreign"] # key["scan"]
               PROVE  {out[x].k : x \in Own} = 0..(Cardinality(Own) - 1)
    OBVIOUS
  <2>1. CASE Own = {}
    <3>1. Cardinality(Own) = 0
      BY <2>1, FS_EmptySet
    <3> QED
      BY <2>1, <3>1
  <2>2. CASE Own # {}
    <3>1. PICK x \in Own : TRUE
      BY <2>2
    <3>2. x \in Recipients /\ recipient[x].scan = key["scan"]
      BY <1>2, RecipientKind DEF Own
    <3>3. {y \in Recipients : recipient[y].scan = recipient[x].scan} = Own
      <4>1. ASSUME NEW y \in Recipients
            PROVE  recipient[y].scan = recipient[x].scan <=> y \in Own
        <5>1. IsForeign(y) => foreignOk
          BY DEF IsForeign
        <5> QED
          BY <1>2, <3>2, <5>1, RecipientKind DEF Own
      <4> QED
        BY <4>1 DEF Own
    <3>4. {k[y] : y \in Own} = 0..(Cardinality(Own) - 1)
      BY <3>2, <3>3 DEF Counted
    <3>5. \A y \in Own : out[y].k = k[y]
      BY <1>11, <1>12
    <3> QED
      BY <3>4, <3>5
  <2> QED
    BY <2>1, <2>2
<1>13. \A x \in Recipients : out[x].k \in 0..(r - 1)
  BY <1>2, <1>11
<1> QED
  BY <1>7, <1>8, <1>9, <1>10, <1>13

(* The sending. *)
LEMMA SendSafe == ASSUME IInv, Send PROVE IInv'
<1> USE DEF Send, inputs
<1>1. /\ TypeOK /\ Made /\ Stage /\ ~sent /\ ~twinOk /\ twin = {} /\ pc = "send"
      /\ UNCHANGED <<i, n, r, key, keypairs, seckeys, pubkeys, labelOk, foreignOk, twinOk, twin,
                     summary, nTx, scanned, nFound, group>>
      /\ pc' = "twin"
  BY DEF IInv, Stage, Payments
<1>2. PICK mask \in SUBSET Recipients :
        LET recipient == [x \in Recipients |-> Recipient(x, mask)] IN
        IF SenderKeys = {} THEN UNCHANGED <<sent, outputs, made, legal>>
        ELSE /\ Passed(SenderObjects \cup KeysOf(recipient))
             /\ \/ UNCHANGED <<sent, outputs, made>>
                \/ /\ Sendable
                   /\ sent' = TRUE /\ made' = made \cup {"outputs"}
                   /\ \E k \in Counted(recipient) : outputs' = Generated(recipient, k)
  OBVIOUS
<1> DEFINE recipient == [x \in Recipients |-> Recipient(x, mask)]
<1>3. legal' = legal
  <2>1. \A x \in Recipients : recipient[x].spend.labeled => labelOk
    BY <1>1, RecipientKind
  <2>2. KeysOf(recipient) \subseteq made
    BY <1>1, <2>1 DEF KeysOf, Made
  <2>3. SenderObjects \cup KeysOf(recipient) \subseteq made
    BY <2>2, SenderMade
  <2> HIDE DEF recipient
  <2>4. CASE Passed(SenderObjects \cup KeysOf(recipient))
    BY <2>3, <2>4, PassedLegal
  <2> QED
    BY <1>2, <2>4 DEF recipient
<1> HIDE DEF Send
<1>4. CASE UNCHANGED <<sent, outputs, made>>
  <2>1. TypeOK'
    BY <1>1, <1>3, <1>4 DEF TypeOK, Recipients
  <2>2. Made' /\ Stage'
    BY <1>1, <1>4 DEF Made, Stage
  <2>3. Payments'
    BY <1>1, <1>4, NoPayments
  <2> QED
    BY <1>1, <1>3, <2>1, <2>2, <2>3, RestStays DEF IInv
<1>5. CASE ~UNCHANGED <<sent, outputs, made>>
  <2>1. PICK k \in Counted(recipient) :
          Sendable /\ sent' = TRUE /\ made' = made \cup {"outputs"}
          /\ outputs' = Generated(recipient, k)
    BY <1>2, <1>5
  <2>2. seckeys = pubkeys
    BY <2>1 DEF Sendable
  <2>9. recipient = [x \in Recipients |-> Recipient(x, mask)]
    OBVIOUS
  <2> HIDE DEF recipient
  <2>3. /\ outputs' \in [Recipients -> Output]
        /\ \A x \in Recipients : outputs'[x].k \in 0..(r - 1)
        /\ \A x \in Own : Payment(outputs'[x])
        /\ \A x \in Recipients \ Own : outputs'[x].scan = key["foreign"]
        /\ (foreignOk => key["foreign"] # key["scan"]) =>
             {outputs'[x].k : x \in Own} = 0..(Cardinality(Own) - 1)
    BY <1>1, <2>1, <2>9, SentPayments
  <2>4. Recipients' = Recipients /\ Own' = Own
    BY <1>1 DEF Recipients, Own, IsForeign
  <2>5. TypeOK'
    BY <1>1, <1>3, <2>1, <2>3, <2>4 DEF TypeOK, Objects
  <2>6. Made' /\ Stage'
    BY <1>1, <2>1 DEF Made, Stage
  <2>7. \A o : Payment(o) => Payment(o)'
    BY <1>1 DEF Payment, SenderKeys
  <2>8. Payments'
    BY <1>1, <2>2, <2>3, <2>4, <2>7 DEF Payments, Payment, SenderKeys
  <2> QED
    BY <1>1, <1>3, <2>5, <2>6, <2>8, RestStays DEF IInv
<1> QED
  BY <1>4, <1>5

-----------------------------------------------------------------------------
(* The twin is a payment, and there is one to another. *)
LEMMA TwinSafe == ASSUME IInv, Twin PROVE IInv'
<1> USE DEF Twin, inputs
<1>1. /\ TypeOK /\ Made /\ Stage /\ Payments /\ ~twinOk /\ twin = {} /\ pc = "twin"
      /\ UNCHANGED <<i, n, r, key, keypairs, seckeys, pubkeys, labelOk, foreignOk, sent, outputs,
                     summary, nTx, scanned, nFound, group>>
      /\ pc' = "summary"
  BY DEF IInv, Stage, Payments
<1>2. SenderObjects \cup {"scan_pk", "spend_pk"} \subseteq made
  BY <1>1, SenderMade DEF Made
<1>3. TwinDue => "labeled_pk" \in made
  BY <1>1 DEF Made, TwinDue
<1>4. legal' = legal
  <2>1. CASE TwinDue /\ Passed(SenderObjects \cup {"scan_pk", "spend_pk", "labeled_pk"})
    BY <1>2, <1>3, <2>1, PassedLegal
  <2> QED
    BY <2>1
<1>5. CASE UNCHANGED <<twinOk, twin, made>>
  <2>1. TypeOK'
    BY <1>1, <1>4, <1>5 DEF TypeOK, Recipients
  <2>2. Made' /\ Stage'
    BY <1>1, <1>5 DEF Made, Stage
  <2>3. Payments'
    BY <1>1, <1>5, PaymentsStay
  <2> QED
    BY <1>1, <1>4, <2>1, <2>2, <2>3, RestStays DEF IInv
<1>6. CASE ~UNCHANGED <<twinOk, twin, made>>
  <2> DEFINE spend == IF outputs[0].spend.labeled THEN Plain(key["spend"]) ELSE Labeled
             o == [inputs |-> SenderKeys, scan |-> key["scan"], spend |-> spend, k |-> 0]
  <2>1. TwinDue /\ twinOk' = TRUE /\ made' = made \cup {"twin"} /\ twin' = {o}
    BY <1>6
  <2>2. labelOk /\ sent /\ r \in Nat \ {0} /\ r <= MaxRecipients /\ Own # {}
    <3>1. labelOk /\ sent /\ ~(foreignOk /\ r = 1) /\ r \in Nat \ {0} /\ r <= MaxRecipients
      BY <1>1, <2>1, Constants DEF TwinDue, TypeOK
    <3>2. 0 \in Own
      BY <3>1 DEF Own, IsForeign, Recipients
    <3> QED
      BY <3>1, <3>2
  <2>3. spend \in SpendKey /\ spend.of = key["spend"] /\ key["scan"] \in AnyKey
    BY <1>1 DEF TypeOK, Plain, Labeled, SpendKey
  <2> HIDE DEF spend
  <2>4. SenderKeys \in SUBSET (0..(MaxInputs - 1))
    <3>1. i \in Nat /\ i <= MaxInputs
      BY <1>1, Constants DEF TypeOK
    <3>2. 0..(i - 1) \subseteq 0..(MaxInputs - 1)
      BY <3>1, Constants
    <3> QED
      BY <1>1, <3>2 DEF TypeOK, SenderKeys
  <2>5. o \in Output /\ Payment(o) /\ o.k = 0
    <3>1. 0 \in 0..(MaxRecipients - 1)
      BY Constants
    <3> QED
      BY <2>2, <2>3, <2>4, <3>1 DEF Output, Payment
  <2> HIDE DEF o
  <2>6. TypeOK'
    BY <1>1, <1>4, <2>1, <2>5 DEF TypeOK, Objects, Recipients
  <2>7. Made' /\ Stage'
    BY <1>1, <2>1 DEF Made, Stage
  <2>8. Payments'
    <3>1. Own' = Own /\ Recipients' = Recipients
      BY <1>1 DEF Own, Recipients, IsForeign
    <3>2. \A p : Payment(p) => Payment(p)'
      BY <1>1 DEF Payment, SenderKeys
    <3> QED
      BY <1>1, <2>1, <2>2, <2>5, <3>1, <3>2 DEF Payments, Payment, SenderKeys
  <2> QED
    BY <1>1, <1>4, <2>6, <2>7, <2>8, RestStays DEF IInv
<1> QED
  BY <1>5, <1>6

(* The prevouts summary. *)
LEMMA SummarySafe == ASSUME IInv, Summary PROVE IInv'
<1> USE DEF Summary, inputs
<1>1. /\ TypeOK /\ Made /\ Stage /\ Payments /\ pc = "summary"
      /\ UNCHANGED <<i, n, r, key, keypairs, seckeys, pubkeys, labelOk, foreignOk, sent, twinOk,
                     outputs, twin, nTx, scanned, nFound, group>>
  BY DEF IInv
<1>2. legal' = legal
  <2>1. SenderObjects \cup (IF pubkeys # {} THEN {"pubkeys"} ELSE {}) \subseteq made
    BY <1>1, SenderMade DEF Made
  <2>2. CASE Passed(SenderObjects \cup IF pubkeys # {} THEN {"pubkeys"} ELSE {})
    BY <2>1, <2>2, PassedLegal
  <2> QED
    BY <2>2
<1>3. /\ pc' \in {"scan", "done"} /\ summary' \subseteq keypairs \cup pubkeys
      /\ made' \in {made, made \cup {"summary"}}
      /\ pc' = "scan" => sent /\ summary' = keypairs \cup pubkeys /\ "summary" \in made'
  BY <1>1 DEF TypeOK
<1> HIDE DEF Summary
<1>4. TypeOK'
  BY <1>1, <1>2, <1>3 DEF TypeOK, Objects, Recipients
<1>5. Made' /\ Stage'
  BY <1>1, <1>3 DEF Made, Stage
<1>6. Payments'
  BY <1>1, PaymentsStay
<1> QED
  BY <1>1, <1>2, <1>4, <1>5, <1>6, RestStays DEF IInv

(* Every payment is found: the recipient's k are those its outputs have. *)
LEMMA AllFound ==
    ASSUME TypeOK, Stage, Payments, pc = "scan", foreignOk => key["foreign"] # key["scan"]
    PROVE  Found(twin \cup Outputs, key["scan"], CacheGiven) = Cardinality(Own)
<1> DEFINE c == Cardinality(Own)
<1>1. sent /\ summary = keypairs \cup pubkeys /\ seckeys = pubkeys /\ summary = SenderKeys
  BY DEF Stage, Payments, SenderKeys
<1>2. r \in Nat \ {0} /\ r <= MaxRecipients /\ foreignOk \in BOOLEAN
  BY Constants DEF TypeOK
<1>3. c \in 0..r /\ (Own # {} => c > 0)
  BY <1>2, OwnCount
<1>4. {outputs[x].k : x \in Own} = 0..(c - 1)
  BY <1>1 DEF Payments
<1>5. \A x \in Own : x \in Recipients /\ Payment(outputs[x])
  BY <1>1 DEF Payments, Own
<1>6. \A o : Payment(o) => \A k : Matches(o, key["scan"], CacheGiven, k) <=> o.k = k
  BY <1>1 DEF Payment, Matches, CacheGiven
<1> HIDE DEF c
<1>7. ASSUME NEW k \in 0..(c - 1)
      PROVE  \E o \in twin \cup Outputs : Matches(o, key["scan"], CacheGiven, k)
  <2>1. PICK x \in Own : outputs[x].k = k
    BY <1>4
  <2>2. Matches(outputs[x], key["scan"], CacheGiven, k) /\ outputs[x] \in Outputs
    BY <1>5, <1>6, <2>1 DEF Outputs
  <2> QED
    BY <2>2
<1>8. ASSUME NEW o \in twin \cup Outputs
      PROVE  ~Matches(o, key["scan"], CacheGiven, c)
  <2>1. CASE o \in twin
    <3>1. Own # {} /\ Payment(o) /\ o.k = 0
      BY <2>1 DEF Payments
    <3> QED
      BY <1>3, <1>6, <3>1
  <2>2. CASE o \in Outputs
    <3>1. PICK x \in Recipients : o = outputs[x]
      BY <2>2 DEF Outputs
    <3>2. CASE x \in Own
      <4>1. o.k \in 0..(c - 1) /\ Payment(o)
        BY <1>4, <1>5, <3>1, <3>2
      <4>2. o.k # c
        BY <1>3, <4>1
      <4> QED
        BY <1>6, <4>1, <4>2
    <3>3. CASE x \notin Own
      <4>1. foreignOk /\ o.scan = key["foreign"]
        BY <1>1, <3>1, <3>3 DEF Payments, Own, IsForeign
      <4> QED
        BY <4>1 DEF Matches
    <3> QED
      BY <3>2, <3>3
  <2> QED
    BY <2>1, <2>2
<1>9. c \in 0..MaxRecipients
  BY <1>2, <1>3, Constants
<1> QED
  BY <1>7, <1>8, <1>9, FoundExactly DEF c

(* The scan. *)
LEMMA ScanSafe == ASSUME IInv, Scan PROVE IInv'
<1> USE DEF Scan, inputs
<1>1. /\ TypeOK /\ Made /\ Stage /\ Payments /\ pc = "scan" /\ sent
      /\ UNCHANGED <<i, n, r, key, keypairs, seckeys, pubkeys, labelOk, foreignOk, sent, twinOk,
                     outputs, twin, summary, made, group>>
      /\ pc' \in {"limit", "done"}
  BY DEF IInv, Stage
<1>2. PICK foreign \in {0, 1, LabelBatch} : nTx' = Cardinality(twin) + r + foreign
  OBVIOUS
<1>3. /\ scanned' \in {key["scan"], key["foreign"]}
      /\ nFound' = IF scanned' = Invalid THEN 0
                   ELSE Found(twin \cup Outputs, scanned', CacheGiven)
  OBVIOUS
<1>4. legal' = legal
  <2>1. {"outputs", "summary", "spend_pk"} \cup (IF twinOk THEN {"twin"} ELSE {})
          \cup (IF CacheGiven THEN {"cache"} ELSE {}) \subseteq made
    BY <1>1 DEF Made, CacheGiven
  <2>2. Passed({"outputs", "summary", "spend_pk"} \cup (IF twinOk THEN {"twin"} ELSE {})
               \cup IF CacheGiven THEN {"cache"} ELSE {})
    OBVIOUS
  <2> QED
    BY <2>1, <2>2, PassedLegal
<1> HIDE DEF Scan
<1>5. r \in Nat \ {0} /\ r <= MaxRecipients /\ foreignOk \in BOOLEAN
  BY <1>1, Constants DEF TypeOK
<1>6. Cardinality(twin) \in {0, 1}
  <2>1. twin = {} \/ \E o : twin = {o}
    BY <1>1 DEF Payments, TypeOK
  <2> QED
    BY <2>1, FS_EmptySet, FS_Singleton
<1>7. nTx' \in Nat /\ nTx' >= r /\ nTx' <= MaxTx /\ nTx' <= GroupLimit + 1
  BY <1>2, <1>5, <1>6, Constants
<1>8. nFound' \in 0..r
  <2>1. \A o \in twin \cup Outputs : o.k \in 0..(r - 1)
    <3>1. \A o \in Outputs : o.k \in 0..(r - 1)
      BY <1>1 DEF Payments, Outputs
    <3>2. \A o \in twin : o.k \in 0..(r - 1)
      BY <1>1, <1>5 DEF Payments
    <3> QED
      BY <3>1, <3>2
  <2>2. r \in 1..MaxRecipients
    BY <1>1 DEF TypeOK
  <2>3. Found(twin \cup Outputs, scanned', CacheGiven) \in 0..r
    BY <2>1, <2>2, FoundBound
  <2> QED
    BY <1>3, <1>5, <2>3
<1>9. TypeOK'
  <2>1. nFound' \in 0..nTx'
    BY <1>5, <1>7, <1>8
  <2>2. scanned' \in AnyKey
    BY <1>1, <1>3 DEF TypeOK
  <2> QED
    BY <1>1, <1>4, <1>7, <2>1, <2>2 DEF TypeOK, Recipients
<1>10. Made' /\ Stage'
  BY <1>1 DEF Made, Stage
<1>11. Payments'
  BY <1>1, PaymentsStay
<1>12. PaymentsFound'
  <2> SUFFICES ASSUME scanned' = key["scan"], foreignOk => key["foreign"] # key["scan"]
               PROVE  nFound' = r - IF foreignOk THEN 1 ELSE 0
    BY <1>1 DEF PaymentsFound
  <2>1. scanned' # Invalid
    BY <1>1 DEF Stage
  <2>2. Found(twin \cup Outputs, key["scan"], CacheGiven) = Cardinality(Own)
    BY <1>1, AllFound
  <2> QED
    BY <1>3, <1>5, <2>1, <2>2, OwnCount
<1> QED
  BY <1>1, <1>4, <1>7, <1>9, <1>10, <1>11, <1>12 DEF IInv, CallsLegal, TxFits

(* One recipient more than the limit. *)
LEMMA LimitSafe == ASSUME IInv, Limit PROVE IInv'
<1> USE DEF Limit, inputs
<1>1. /\ TypeOK /\ Made /\ Stage /\ Payments /\ pc = "limit" /\ sent /\ pc' = "done"
      /\ UNCHANGED <<i, n, r, key, keypairs, seckeys, pubkeys, labelOk, foreignOk, sent, twinOk,
                     outputs, twin, summary, made, nTx, scanned, nFound>>
  BY DEF IInv, Stage
<1>2. legal' = legal
  <2>1. SenderObjects \cup {"scan_pk", "spend_pk", "outputs", "summary"} \subseteq made
    BY <1>1, SenderMade DEF Made
  <2> QED
    BY <2>1, PassedLegal DEF GroupLoop
<1>3. group' \subseteq 0..GroupLimit
  BY <1>1 DEF TypeOK, GroupLoop
<1>4. TypeOK'
  BY <1>1, <1>2, <1>3 DEF TypeOK, Recipients
<1>5. Made' /\ Stage'
  BY <1>1 DEF Made, Stage
<1>6. Payments'
  BY <1>1, PaymentsStay
<1> QED
  BY <1>1, <1>2, <1>3, <1>4, <1>5, <1>6
  DEF IInv, CallsLegal, TxFits, PaymentsFound

(* Every step keeps the invariant. *)
LEMMA SilentPaymentsStep == IInv /\ [Next]_vars => IInv'
<1> SUFFICES ASSUME IInv, [Next]_vars PROVE IInv'
  OBVIOUS
<1>1. CASE Returned \/ UNCHANGED vars
  <2>1. UNCHANGED vars
    BY <1>1 DEF Returned
  <2>2. TypeOK' /\ Made' /\ Stage'
    BY <2>1 DEF vars, IInv, TypeOK, Recipients, Made, Stage
  <2>3. Payments'
    BY <2>1, PaymentsStay DEF vars, IInv
  <2> QED
    BY <2>1, <2>2, <2>3, RestStays DEF vars, IInv
<1> QED
  BY <1>1, ReadInputSafe, RecipientKeysSafe, LabelSafe, ForeignSafe, SendSafe, TwinSafe,
     SummarySafe, ScanSafe, LimitSafe DEF Next

(* With any numbers of inputs and recipients: whatever fails and whatever   *)
(* the flags, calls are given what was made and set, the transaction fits,  *)
(* and the recipient finds every payment to it and nothing else.            *)
THEOREM SilentPaymentsSafe ==
    Spec => [](TypeOK /\ CallsLegal /\ TxFits /\ PaymentsFound)
<1>1. IInv => TypeOK /\ CallsLegal /\ TxFits /\ PaymentsFound
  BY DEF IInv
<1> QED
  BY <1>1, SilentPaymentsInit, SilentPaymentsStep, PTL DEF Spec

(* No call is given what no call made, or an entry that was never set. *)
COROLLARY SilentPaymentsCallsLegal == Spec => []CallsLegal
BY SilentPaymentsSafe, PTL

(* The scanned transaction fits its array. *)
COROLLARY TxFitsAlways == Spec => []TxFits
BY SilentPaymentsSafe, PTL
=============================================================================
