--------------------------- MODULE SilentPayments ---------------------------
(***************************************************************************)
(* src/targets/silentpayments.c: target_silentpayments, a BIP352 sender    *)
(* and the recipient that scans its outputs.  The bits of the input's flag *)
(* bytes are chosen where they are looked at.                              *)
(*                                                                         *)
(* The library is external.  A key is known by its secret; an output by    *)
(* the input keys, the scan key, the spend key and the k it is derived     *)
(* from, a spend key being a key and whether a label is added to it.       *)
(***************************************************************************)
EXTENDS Integers, FiniteSets

CONSTANTS
    Secrets,        \* the secret keys 32 bytes can be
    Invalid,        \* the others
    MaxInputs,      \* SP_MAX_INPUTS
    MaxRecipients,  \* SP_MAX_RECIPIENTS
    LabelBatch,     \* LABEL_BATCH_SIZE
    GroupLimit      \* SP_GROUP_LIMIT

(* The transaction's size. *)
MaxTx == 1 + MaxRecipients + LabelBatch

ASSUME SilentPaymentsAssumption ==
    /\ Invalid \notin Secrets
    /\ {MaxInputs, MaxRecipients, LabelBatch} \subseteq Nat \ {0}
    /\ GroupLimit \in Nat /\ 1 + MaxRecipients + LabelBatch <= GroupLimit + 1

VARIABLES
    pc,
    i,              \* the input the loop is at
    n, r,           \* n_inputs, n_recipients
    key,            \* si.scan, si.spend, si.foreign
    keypairs,       \* the inputs in keypairs and xonly
    seckeys,        \* the inputs in seckeys
    pubkeys,        \* the inputs in pubkeys
    labelOk, foreignOk, sent, twinOk,
    outputs,        \* the outputs generated, by recipient
    twin,
    summary,        \* the inputs in the prevouts summary
    made,           \* the objects a successful call has made
    nTx,            \* the outputs in the scanned transaction
    scanned,        \* the key the recipient scanned with
    nFound,
    group,          \* the entries set in sp_limit's arrays, which are static
    legal           \* no call was given an object no call had made

inputs == <<n, r, key>>
vars == <<pc, i, n, r, key, keypairs, seckeys, pubkeys, labelOk, foreignOk, sent, twinOk, outputs,
          twin, summary, made, nTx, scanned, nFound, group, legal>>

AnyKey   == Secrets \cup {Invalid}
SpendKey == [of : AnyKey, labeled : BOOLEAN]
Output   == [inputs : SUBSET (0..(MaxInputs - 1)), scan : AnyKey, spend : SpendKey,
             k : 0..(MaxRecipients - 1)]
Recipients == 0..(r - 1)
Objects == {"keypairs", "pubkeys", "scan_pk", "spend_pk", "labeled_pk", "foreign_pk", "cache",
            "outputs", "twin", "summary"}

TypeOK ==
    /\ pc \in {"inputs", "keys", "label", "foreign", "send", "twin", "summary", "scan", "limit",
               "done"}
    /\ n \in 1..MaxInputs /\ i \in 0..n /\ r \in 1..MaxRecipients
    /\ key \in [{"scan", "spend", "foreign"} -> AnyKey]
    /\ {keypairs, seckeys} \subseteq SUBSET (0..(i - 1)) /\ keypairs \cap seckeys = {}
    /\ pubkeys \subseteq seckeys /\ summary \subseteq keypairs \cup pubkeys
    /\ {labelOk, foreignOk, sent, twinOk, legal} \subseteq BOOLEAN
    /\ group \subseteq 0..GroupLimit
    /\ outputs = <<>> \/ outputs \in [Recipients -> Output]
    /\ twin \subseteq Output /\ made \subseteq Objects
    /\ nTx \in Nat /\ nFound \in 0..nTx /\ scanned \in AnyKey

(* Mutated GroupLoop: as many as a group may have. *)
GroupLoopShort == 0..(GroupLimit - 1)

(* The recipients that sp_limit sets up: one past the limit. *)
GroupLoop == 0..GroupLimit

(* sp_read; an earlier input may have set the static arrays. *)
Init ==
    /\ pc = "inputs" /\ i = 0
    /\ n \in 1..MaxInputs /\ r \in 1..MaxRecipients
    /\ key \in [{"scan", "spend", "foreign"} -> AnyKey]
    /\ keypairs = {} /\ seckeys = {} /\ pubkeys = {} /\ summary = {}
    /\ labelOk = FALSE /\ foreignOk = FALSE /\ sent = FALSE /\ twinOk = FALSE
    /\ outputs = <<>> /\ twin = {} /\ made = {}
    /\ nTx = 0 /\ nFound = 0 /\ scanned = Invalid
    /\ group \in {{}, GroupLoop} /\ legal = TRUE

Passed(objects) == IF objects \subseteq made THEN UNCHANGED legal ELSE legal' = FALSE

-----------------------------------------------------------------------------
(* External: the sender.  It refuses an invalid raw key, keys that sum to   *)
(* zero and a group past the limit, which sp_limit's always is and the rest *)
(* never are; the recipients that share a scan key count k up, in whatever  *)
(* order the library sorts them.                                            *)

SenderKeys == keypairs \cup seckeys

Sendable == seckeys = pubkeys

Counted(recipient) ==
    {k \in [Recipients -> 0..(r - 1)] :
        \A x \in Recipients :
            LET sharing == {y \in Recipients : recipient[y].scan = recipient[x].scan}
            IN  {k[y] : y \in sharing} = 0..(Cardinality(sharing) - 1)}

Generated(recipient, k) ==
    [x \in Recipients |-> [inputs |-> SenderKeys, scan |-> recipient[x].scan,
                           spend |-> recipient[x].spend, k |-> k[x]]]

(* An output that the recipient of k looks for, scanning with key scan. *)
Matches(o, scan, labels, k) ==
    /\ o.inputs = summary /\ o.scan = scan /\ o.k = k
    /\ o.spend.of = key["spend"] /\ (o.spend.labeled => labels)

(* External: the recipient counts k up while an output of tx matches.       *)
Found(tx, scan, labels) ==
    Cardinality({k \in 0..(MaxRecipients - 1) :
                    \A j \in 0..k : \E o \in tx : Matches(o, scan, labels, j)})

-----------------------------------------------------------------------------
(* The input keys. *)

(* A taproot input: "failed ones are left out". *)
InputKeypair ==
    /\ \/ keypairs' = keypairs \cup {i} /\ made' = made \cup {"keypairs"}
       \/ UNCHANGED <<keypairs, made>>
    /\ UNCHANGED <<seckeys, pubkeys>>

(* A raw one, "which the sender itself rejects when invalid". *)
InputSeckey ==
    /\ seckeys' = seckeys \cup {i}
    /\ \/ pubkeys' = pubkeys \cup {i} /\ made' = made \cup {"pubkeys"}
       \/ UNCHANGED <<pubkeys, made>>
    /\ UNCHANGED keypairs

ReadInput ==
    /\ pc = "inputs" /\ (InputKeypair \/ InputSeckey)
    /\ i' = i + 1 /\ pc' = IF i + 1 < n THEN "inputs" ELSE "keys"
    /\ UNCHANGED <<inputs, labelOk, foreignOk, sent, twinOk, outputs, twin, summary, nTx, scanned,
                   nFound, group, legal>>

-----------------------------------------------------------------------------
(* The recipients. *)

Unsent == UNCHANGED <<i, inputs, keypairs, seckeys, pubkeys, sent, twinOk, outputs, twin, summary,
                      nTx, scanned, nFound, group>>

RecipientKeys ==
    /\ pc = "keys"
    /\ IF key["scan"] \in Secrets /\ key["spend"] \in Secrets
       THEN pc' = "label" /\ made' = made \cup {"scan_pk", "spend_pk"}
       ELSE pc' = "done" /\ UNCHANGED made
    /\ Unsent /\ UNCHANGED <<labelOk, foreignOk, legal>>

(* SP_LABEL: the label and its cache entry, then the labeled key; any call  *)
(* may fail.  SP_RAW_TWEAK changes a tweak that decides no match, and       *)
(* SP_LABEL_CANCEL makes a label of its own.                                *)
Label ==
    /\ pc = "label" /\ Passed({"spend_pk"})
    /\ \/ labelOk' = FALSE /\ UNCHANGED made
       \/ labelOk' = FALSE /\ made' = made \cup {"cache"}
       \/ labelOk' = TRUE /\ made' = made \cup {"cache", "labeled_pk"}
    /\ pc' = "foreign"
    /\ Unsent /\ UNCHANGED foreignOk

(* SP_FOREIGN *)
Foreign ==
    /\ pc = "foreign"
    /\ \/ UNCHANGED <<foreignOk, made>>
       \/ foreignOk' = (key["foreign"] \in Secrets)
          /\ made' = made \cup IF foreignOk' THEN {"foreign_pk"} ELSE {}
    /\ pc' = "send"
    /\ Unsent /\ UNCHANGED <<labelOk, legal>>

Plain(k) == [of |-> k, labeled |-> FALSE]
Labeled  == [of |-> key["spend"], labeled |-> TRUE]

IsForeign(x) == foreignOk /\ x + 1 = r

(* Mutated Recipient: the mask alone picks the labeled key. *)
RecipientMasked(x, mask) ==
    IF IsForeign(x) THEN [scan |-> key["foreign"], spend |-> Plain(key["foreign"])]
    ELSE [scan |-> key["scan"], spend |-> IF x \in mask THEN Labeled ELSE Plain(key["spend"])]

(* "The last recipient belongs to someone else", the others to the scan     *)
(* key, those a mask picks with the labeled spend key.                      *)
Recipient(x, mask) ==
    IF IsForeign(x) THEN [scan |-> key["foreign"], spend |-> Plain(key["foreign"])]
    ELSE [scan |-> key["scan"],
          spend |-> IF labelOk /\ x \in mask THEN Labeled ELSE Plain(key["spend"])]

(* The public keys a recipient is made of. *)
KeysOf(recipient) ==
    {"scan_pk", "spend_pk"} \cup (IF foreignOk THEN {"foreign_pk"} ELSE {})
      \cup (IF \E x \in DOMAIN recipient : recipient[x].spend.labeled THEN {"labeled_pk"} ELSE {})

SenderObjects == IF keypairs # {} THEN {"keypairs"} ELSE {}

(* Mutated TwinDue: when the only recipient is someone else's, too. *)
TwinDueAnyone == sent /\ labelOk

(* SP_TWIN *)
TwinDue == sent /\ labelOk /\ ~(foreignOk /\ r = 1)

Send ==
    /\ pc = "send"
    /\ \E mask \in SUBSET Recipients :
        LET recipient == [x \in Recipients |-> Recipient(x, mask)] IN
        IF SenderKeys = {} THEN UNCHANGED <<sent, outputs, made, legal>>
        ELSE /\ Passed(SenderObjects \cup KeysOf(recipient))
             /\ \/ UNCHANGED <<sent, outputs, made>>
                \/ /\ Sendable
                   /\ sent' = TRUE /\ made' = made \cup {"outputs"}
                   /\ \E k \in Counted(recipient) : outputs' = Generated(recipient, k)
    /\ pc' = "twin"
    /\ UNCHANGED <<i, inputs, keypairs, seckeys, pubkeys, labelOk, foreignOk, twinOk, twin, summary,
                   nTx, scanned, nFound, group>>

(* Recipient 0's twin "uses the other spend key, labeled for an unlabeled   *)
(* one and back, and gets the same k = 0 when sent alone".                  *)
Twin ==
    /\ pc = "twin"
    /\ \/ UNCHANGED <<twinOk, twin, made, legal>>
       \/ /\ TwinDue
          /\ Passed(SenderObjects \cup {"scan_pk", "spend_pk", "labeled_pk"})
          /\ \/ UNCHANGED <<twinOk, twin, made>>
             \/ LET spend == IF outputs[0].spend.labeled THEN Plain(key["spend"]) ELSE Labeled IN
                /\ Sendable /\ twinOk' = TRUE /\ made' = made \cup {"twin"}
                /\ twin' = {[inputs |-> SenderKeys, scan |-> key["scan"], spend |-> spend, k |-> 0]}
    /\ pc' = "summary"
    /\ UNCHANGED <<i, inputs, keypairs, seckeys, pubkeys, labelOk, foreignOk, sent, outputs, summary,
                   nTx, scanned, nFound, group>>

-----------------------------------------------------------------------------
(* The scan. *)

(* The prevouts summary, from the public keys; it may fail. *)
Summary ==
    LET keys == keypairs \cup pubkeys IN
    /\ pc = "summary"
    /\ IF keys = {} THEN pc' = "done" /\ UNCHANGED <<summary, made, legal>>
       ELSE /\ Passed(SenderObjects \cup IF pubkeys # {} THEN {"pubkeys"} ELSE {})
            /\ \/ pc' = "done" /\ UNCHANGED <<summary, made>>
               \/ /\ summary' = keys /\ made' = made \cup {"summary"}
                  /\ pc' = IF sent THEN "scan" ELSE "done"
    /\ UNCHANGED <<i, inputs, keypairs, seckeys, pubkeys, labelOk, foreignOk, sent, twinOk, outputs,
                   twin, nTx, scanned, nFound, group>>

(* Mutated CacheGiven: only when the first recipient is labeled. *)
CacheGivenFirst == labelOk /\ outputs[0].spend.labeled

CacheGiven == labelOk

Outputs == {outputs[x] : x \in Recipients}

(* sp_scan: the twin, the outputs and the fuzzed output, once or LabelBatch *)
(* times, scanned with either key (SP_SCAN_FOREIGN).                        *)
Scan ==
    /\ pc = "scan"
    /\ Passed({"outputs", "summary", "spend_pk"} \cup (IF twinOk THEN {"twin"} ELSE {})
              \cup IF CacheGiven THEN {"cache"} ELSE {})
    /\ \E foreign \in {0, 1, LabelBatch} : nTx' = Cardinality(twin) + r + foreign
    /\ scanned' \in {key["scan"], key["foreign"]}
    /\ nFound' = IF scanned' = Invalid THEN 0 ELSE Found(twin \cup Outputs, scanned', CacheGiven)
    /\ pc' \in {"limit", "done"}
    /\ UNCHANGED <<i, inputs, keypairs, seckeys, pubkeys, labelOk, foreignOk, sent, twinOk, outputs,
                   twin, summary, made, group>>

(* SP_LIMIT, sp_limit: the sender is given one recipient too many, itself,  *)
(* which it refuses; then the outputs are scanned once more, padded,        *)
(* without labels and to no effect.  Each call gets GroupLimit + 1 entries. *)
Limit ==
    /\ pc = "limit"
    /\ group' = group \cup GroupLoop
    /\ IF 0..GroupLimit \subseteq group'
       THEN Passed(SenderObjects \cup {"scan_pk", "spend_pk", "outputs", "summary"})
       ELSE legal' = FALSE
    /\ pc' = "done"
    /\ UNCHANGED <<i, inputs, keypairs, seckeys, pubkeys, labelOk, foreignOk, sent, twinOk, outputs,
                   twin, summary, made, nTx, scanned, nFound>>

Returned == pc = "done" /\ UNCHANGED vars

Next ==
    \/ ReadInput \/ RecipientKeys \/ Label \/ Foreign \/ Send \/ Twin \/ Summary \/ Scan \/ Limit
    \/ Returned

Spec == Init /\ [][Next]_vars
-----------------------------------------------------------------------------
(* Properties. *)

(* Whatever calls fail and whatever the flags, no call is given an object   *)
(* that no successful call made: each is used far from where it is made, on *)
(* the word of labelOk, foreignOk, sent and twinOk.  Nor is one given an    *)
(* entry that the loop of sp_limit, for this input or an earlier one, left  *)
(* at the null pointer a static array begins with.                          *)
CallsLegal == legal

(* The transaction fits tx (SP_MAX_TX) and what is found in it fits the     *)
(* static found, whatever is padded, twinned and sent.                      *)
TxFits == nTx <= MaxTx /\ nTx <= GroupLimit + 1

(* "The recipient rebuilds the prevouts summary from the input public keys  *)
(* and scans the outputs, with and without a label": scanning with its own  *)
(* key it finds every payment to it, each k once, be they labeled or not,   *)
(* with a twin of the first or without.  A foreign group that is not        *)
(* foreign, its key being the scan key, may take a k.                       *)
PaymentsFound ==
    nTx > 0 /\ scanned = key["scan"] /\ (foreignOk => key["foreign"] # key["scan"])
      => nFound = r - IF foreignOk THEN 1 ELSE 0
=============================================================================
